SPECIFICATION DownloadSpec
CONSTANTS
    MaxJobs = 2
    MaxDepth = 2
    MaxCalls = 2
    Size = 2
    Names = {"pack.zip", "model.zip"}
    Targets = {"models", "voicePacks", "plugins"}
    ValidOwners = {"org.a", "org.b"}
    NoOwner = ""
    Requests <- MCRequests
    Callers <- MCCallers
INVARIANTS
    DownloadInv
    TreeIsSound
PROPERTIES
    VerdictsAreFinal
    CancelIsAnswered
\* The panel may have shut its download service down.
CHECK_DEADLOCK FALSE
