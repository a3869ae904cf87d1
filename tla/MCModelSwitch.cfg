SPECIFICATION MSwSpec
CONSTANTS
    Models = {hiyori, missing, pluginModel, pluginGone, pluginTwin}
    Scoped = {pluginModel, pluginGone, pluginTwin}
    Resolvable = {pluginModel}
    Available = {hiyori, pluginModel}
    Twins = {pluginTwin}
    HostTwin = hiyori
    NoModel = NoModel
    MaxQueued = 2
INVARIANTS
    AwaitedInv
    LoadedIsShown
    RejectedIsUndone
PROPERTY SwitchIsDecided
