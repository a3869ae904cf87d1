------------------------------ MODULE PluginApi ------------------------------
(* The plugins' calls into the host (PluginContextImpl.cpp): the surfaces     *)
(* queryApi() hands out, instances created, removed, tuned and dressed, the   *)
(* resources of the plugins' own domains, and the scanned union of models     *)
(* they are looked up in.  A call that changes an instance calls every        *)
(* observer before it returns, and an observer calls back.                    *)
EXTENDS SequencesExt

CONSTANTS Plugins,
          Host,      \* the host's domain, and the scope of its own calls
          Instances,     \* the instances there may be
          Names,     \* names of models and packs
          HostHas,   \* <<kind, name>>: what the host ships
          Families,  \* the gated families
          Granted,   \* plugin -> the families its manifest's capabilities open
          Modern,    \* plugins of api_version 1.13 and later
          Observing, \* plugins that observe the instances
          MaxDepth,  \* bound: calls nested in callbacks
          MaxCalls   \* bound: calls of one event of the loop

Nothing == <<Host, "">>
Owners == Plugins \cup {Host}
Kinds == {"model", "pack"}
Resources == Kinds \X Owners \X Names

ASSUME GrantsAssumption == Granted \in [Plugins -> SUBSET Families]
ASSUME HostAssumption == Host \notin Plugins /\ HostHas \subseteq Kinds \X Names
ASSUME BoundsAssumption == MaxDepth \in Nat \ {0} /\ MaxCalls \in Nat \ {0}

VARIABLES inst,   \* uuid -> the session, as far as plugins reach it
          disk,   \* the resources that are there
          torn,   \* those a failed removal or replacement left in ruins: no
                  \* scan finds them
          union,  \* m_union: <<owner, name>> of the models last scanned
          held,   \* plugin -> the real surfaces it was given
          switch, \* the plugin_write_enabled row
          stack,  \* calls waiting for the observers they call
          calls,  \* calls made since the loop was idle
          strayed \* an empty m_mountedPack was read

apiVars == <<inst, disk, torn, union, held, switch, stack, calls, strayed>>
resources == <<disk, torn, union>>
gates == <<held, switch>>

(* config: m_config's model with its scope; undo: the model before the switch *)
(* in flight; pack, packScope: m_config's voicePack and voicePackScope;       *)
(* mounted: m_mountedPack.                                                    *)
Fresh(model) == [row |-> "down", config |-> model, undo |-> Nothing,
                 pack |-> Nothing, packScope |-> Host, mounted |-> Nothing]
Gone == [row |-> "none"]
Listed(u) == inst[u].row # "none"
Busy(u) == inst[u].row = "doomed"

Scan(have) == {<<r[2], r[3]>> : r \in {r \in have : r[1] = "model"}}
Own(p) == IF p \in Modern THEN p ELSE Host

(* A model or a pack, with the domain it was chosen in.                       *)
Chosen == (Owners \X Names) \cup {Nothing}
Sessions == [row : {"down", "up", "doomed"}, config : Chosen, undo : Chosen,
             pack : Chosen, packScope : Owners, mounted : Chosen]
Frames == [call : {"create", "remove", "status", "load", "tune", "mount", "unmount"},
           uuid : Instances, arg : Chosen,
           left : SUBSET Observing, callee : Observing \cup {Host}]

ApiTypeOK ==
    /\ inst \in [Instances -> Sessions \cup {Gone}]
    /\ disk \subseteq Resources /\ torn \subseteq Resources /\ torn \cap disk = {}
    /\ union \subseteq Owners \X Names
    /\ held \in [Plugins -> SUBSET Families] /\ switch \in BOOLEAN
    /\ stack \in Seq(Frames) /\ Len(stack) <= MaxDepth
    /\ calls \in 0 .. MaxCalls /\ (stack = <<>> => calls = 0) /\ strayed \in BOOLEAN

ApiInit ==
    /\ inst = [u \in Instances |-> Gone]
    /\ disk = {<<h[1], Host, h[2]>> : h \in HostHas} /\ torn = {}
    /\ union = Scan(disk)
    /\ held = [p \in Plugins |-> {}] /\ switch = TRUE
    /\ stack = <<>> /\ calls = 0 /\ strayed = FALSE

-----------------------------------------------------------------------------
(* Who may call, and what a call that changes an instance leaves behind: the  *)
(* observers still to be called and what it does when they have been.         *)

Idle == stack = <<>>
Top == stack[Len(stack)]
Turn(p) == ~Idle => Top.callee = p
HasTurn(p) == Turn(p) /\ calls < MaxCalls /\ Len(stack) < MaxDepth
Counted == calls' = calls + 1

(* A plugin writes through a surface it holds, whenever it was given.         *)
MayWrite(p, family) == HasTurn(p) /\ family \in held[p]

Frame(call, u, arg) == [call |-> call, uuid |-> u, arg |-> arg,
                        left |-> Observing, callee |-> Host]
FansOut(call, u, arg) == stack' = Append(stack, Frame(call, u, arg)) /\ Counted
NoFanOut == UNCHANGED stack /\ (IF Idle THEN UNCHANGED calls ELSE Counted)

(* fanoutRosterChanged(), fanoutInstanceState(): the next observer, of a copy *)
(* of the list.                                                               *)
CallObserver ==
    /\ ~Idle /\ Top.callee = Host
    /\ \E p \in Top.left :
          stack' = [stack EXCEPT ![Len(stack)].callee = p,
                                 ![Len(stack)].left = @ \ {p}]
    /\ UNCHANGED <<inst, resources, gates, calls, strayed>>

ObserverReturns ==
    /\ ~Idle /\ Top.callee # Host
    /\ stack' = [stack EXCEPT ![Len(stack)].callee = Host]
    /\ UNCHANGED <<inst, resources, gates, calls, strayed>>

Told == ~Idle /\ Top.callee = Host /\ Top.left = {}
Pop == stack' = Front(stack) /\ calls' = IF Len(stack) = 1 THEN 0 ELSE calls

-----------------------------------------------------------------------------
(* queryApi() and the switch.                                                 *)

QueryApi(p, family) ==
    /\ Idle /\ family \notin held[p] /\ family \in Granted[p] /\ switch
    /\ held' = [held EXCEPT ![p] = @ \cup {family}]
    /\ UNCHANGED <<inst, resources, switch, stack, calls, strayed>>

SetWriteEnabled(on) ==
    /\ Idle /\ switch' = on
    /\ UNCHANGED <<inst, resources, held, stack, calls, strayed>>

-----------------------------------------------------------------------------
(* pet.instance_control                                                       *)

(* The row is there before anybody is told; the scope is the caller's.        *)
Create(p, u, n) ==
    /\ MayWrite(p, "control") /\ ~Listed(u)
    /\ inst' = [inst EXCEPT ![u] = Fresh(<<Own(p), n>>)]
    /\ FansOut("create", u, Nothing) /\ UNCHANGED <<resources, gates, strayed>>

(* A renderer that runs is stopped first; the row waits for it.               *)
Delete(p, u) ==
    /\ MayWrite(p, "control") /\ Listed(u) /\ ~Busy(u)
    /\ inst' = IF inst[u].row = "up" THEN [inst EXCEPT ![u].row = "doomed"]
               ELSE [inst EXCEPT ![u] = Gone]
    /\ FansOut("remove", u, Nothing) /\ UNCHANGED <<resources, gates, strayed>>

(* start(), stop() and restart() as far as the row is concerned; a doomed row *)
(* answers Busy to the first and the last.                                    *)
StartOrStop(p, u, row) ==
    /\ MayWrite(p, "control") /\ Listed(u) /\ ~Busy(u) /\ inst[u].row # row
    /\ inst' = [inst EXCEPT ![u].row = row]
    /\ FansOut("status", u, Nothing) /\ UNCHANGED <<resources, gates, strayed>>

RendererExits(u) ==
    /\ Idle /\ inst[u].row = "up"
    /\ inst' = [inst EXCEPT ![u].row = "down"]
    /\ FansOut("status", u, Nothing) /\ UNCHANGED <<resources, gates, strayed>>

(* The renderer a doomed row waited for is down.                              *)
RowGoes(u) ==
    /\ Idle /\ inst[u].row = "doomed"
    /\ inst' = [inst EXCEPT ![u] = Gone]
    /\ FansOut("remove", u, Nothing) /\ UNCHANGED <<resources, gates, strayed>>

(* The choice is written and announced before it is looked up.                *)
LoadModel(p, u, n) ==
    /\ MayWrite(p, "control") /\ Listed(u) /\ ~Busy(u)
    /\ inst' = [inst EXCEPT ![u].undo = IF @ = Nothing THEN inst[u].config ELSE @,
                            ![u].config = <<Own(p), n>>]
    /\ FansOut("load", u, <<Own(p), n>>) /\ UNCHANGED <<resources, gates, strayed>>

(* resolveModelPath(): strictly in the scope, and in the union as scanned.    *)
Resolves(model) == model[1] = Host \/ model \in union

(* A miss rolls back and is announced in its turn.                            *)
LoadFinishes ==
    /\ Told /\ Top.call = "load"
    /\ LET u == Top.uuid IN
       IF Listed(u) /\ inst[u].row = "up" /\ ~Resolves(Top.arg) /\ inst[u].undo # Nothing
       THEN /\ inst' = [inst EXCEPT ![u].config = inst[u].undo, ![u].undo = Nothing]
            /\ stack' = Append(Front(stack), Frame("status", u, Nothing))
            /\ UNCHANGED calls
       ELSE Pop /\ UNCHANGED inst
    /\ UNCHANGED <<resources, gates, strayed>>

(* The renderer's verdict, in the order ModelSwitch goes into.                *)
Verdict(u, loaded) ==
    /\ Idle /\ Listed(u) /\ inst[u].row = "up" /\ inst[u].undo # Nothing
    /\ inst' = [inst EXCEPT ![u].undo = Nothing,
                            ![u].config = IF loaded THEN @ ELSE inst[u].undo]
    /\ FansOut("status", u, Nothing) /\ UNCHANGED <<resources, gates, strayed>>

-----------------------------------------------------------------------------
(* pet.instance_tuning and pet.layout                                         *)

(* Opacity, volume, motions, avatar, auto-start: passed on to a row alive.    *)
Tune(p, u) ==
    /\ MayWrite(p, "tuning") /\ Listed(u) /\ ~Busy(u)
    /\ FansOut("tune", u, Nothing) /\ UNCHANGED <<inst, resources, gates, strayed>>

(* The caller's own domain first, then the host's, where the user's packs     *)
(* win; nobody else's.                                                        *)
PackDir(p, n) ==
    CASE Own(p) # Host /\ <<"pack", Own(p), n>> \in disk -> <<Own(p), n>>
      [] <<"pack", Host, n>> \in disk -> <<Host, n>>
      [] OTHER -> Nothing

ScopeOfCaller(p, dir) == Own(p)
ScopeOfDir(p, dir) == dir[1]

UnmountEnds(u) == [inst EXCEPT ![u].mounted = Nothing, ![u].pack = Nothing,
                               ![u].packScope = Host]

(* `parsed`: meta.mko could be read; if not the mount stays as it is.         *)
MountVoicePack(p, u, n, parsed) ==
    LET dir == PackDir(p, n) IN
    /\ MayWrite(p, "tuning") /\ Listed(u) /\ ~Busy(u) /\ dir # Nothing
    /\ inst' = IF ~parsed THEN inst
               ELSE [inst EXCEPT ![u].mounted = dir, ![u].pack = dir,
                                 ![u].packScope = ScopeOfDir(p, dir)]
    /\ IF parsed /\ inst[u].pack # dir THEN FansOut("mount", u, dir) ELSE NoFanOut
    /\ UNCHANGED <<resources, gates, strayed>>

(* The name of what was mounted is read after the observers were told.        *)
MountFinishes ==
    /\ Told /\ Top.call = "mount"
    /\ strayed' = (strayed \/ (Listed(Top.uuid) /\ inst[Top.uuid].mounted = Nothing))
    /\ Pop /\ UNCHANGED <<inst, resources, gates>>

UnmountVoicePack(p, u) ==
    /\ MayWrite(p, "tuning") /\ Listed(u) /\ ~Busy(u)
    /\ inst[u].mounted # Nothing \/ inst[u].pack # Nothing
    /\ inst' = UnmountEnds(u)
    /\ FansOut("unmount", u, Nothing) /\ UNCHANGED <<resources, gates, strayed>>

CallFinishes ==
    /\ Told /\ Top.call \notin {"load", "mount"}
    /\ Pop /\ UNCHANGED <<inst, resources, gates, strayed>>

-----------------------------------------------------------------------------
(* pet.resource_scope, and the installs of DownloadService.                   *)

RefreshScan(p) ==
    /\ HasTurn(p) /\ union' = Scan(disk)
    /\ NoFanOut /\ UNCHANGED <<inst, disk, torn, gates, strayed>>

UnionKept(have) == union
UnionAfterRemoval(have) == Scan(have)

(* Only the caller's own domain.  A failed removal has removed a part, and    *)
(* returns before it refreshes.                                               *)
RemoveScoped(p, kind, n, removed) ==
    LET r == <<kind, p, n>> IN
    /\ HasTurn(p) /\ r \in disk \cup torn
    /\ disk' = disk \ {r}
    /\ torn' = IF removed THEN torn \ {r} ELSE torn \cup {r}
    /\ union' = IF removed THEN UnionAfterRemoval(disk') ELSE union
    /\ NoFanOut /\ UNCHANGED <<inst, gates, strayed>>

(* Nothing refreshes after an install; a replacement takes the old one away   *)
(* before the new one is in its place.                                        *)
Install(p, kind, n, moved) ==
    LET r == <<kind, p, n>> IN
    /\ HasTurn(p) /\ p \in Modern /\ (moved \/ r \in disk)
    /\ disk' = IF moved THEN disk \cup {r} ELSE disk \ {r}
    /\ torn' = IF moved THEN torn \ {r} ELSE torn \cup {r}
    /\ NoFanOut /\ UNCHANGED <<inst, union, gates, strayed>>

-----------------------------------------------------------------------------
Calls(p) ==
    \/ \E f \in Families : QueryApi(p, f)
    \/ \E u \in Instances : Delete(p, u) \/ Tune(p, u) \/ UnmountVoicePack(p, u)
    \/ \E u \in Instances, row \in {"up", "down"} : StartOrStop(p, u, row)
    \/ \E u \in Instances, n \in Names : Create(p, u, n) \/ LoadModel(p, u, n)
    \/ \E u \in Instances, n \in Names, parsed \in BOOLEAN : MountVoicePack(p, u, n, parsed)
    \/ RefreshScan(p)
    \/ \E kind \in Kinds, n \in Names, ok \in BOOLEAN :
          RemoveScoped(p, kind, n, ok) \/ Install(p, kind, n, ok)

ApiNext ==
    \/ \E p \in Plugins : Calls(p)
    \/ \E on \in BOOLEAN : SetWriteEnabled(on)
    \/ CallObserver \/ ObserverReturns
    \/ LoadFinishes \/ MountFinishes \/ CallFinishes
    \/ \E u \in Instances : RendererExits(u) \/ RowGoes(u)
    \/ \E u \in Instances, loaded \in BOOLEAN : Verdict(u, loaded)

ApiSpec == ApiInit /\ [][ApiNext]_apiVars

-----------------------------------------------------------------------------
(* What the calls promise.                                                    *)

(* What a plugin removed, no later load resolves: the models looked up are    *)
(* still there, or were left in ruins by a removal or replacement that failed *)
(* and said so (core/PluginContextImpl.cpp:1944-1946).                        *)
RemovedIsForgotten == union \subseteq Scan(disk \cup torn)

(* A pack that is mounted is the one the configuration names, with the domain *)
(* it was found in, however the calls of observers nest in the mounting and   *)
(* unmounting (core/PluginContextImpl.cpp:765-772).                           *)
MountIsRecorded ==
    /\ ApiTypeOK
    /\ \A u \in Instances : Listed(u) /\ inst[u].mounted # Nothing =>
          /\ inst[u].pack = inst[u].mounted
          /\ inst[u].packScope = inst[u].mounted[1]

(* "Keep the shared caches consistent with the new disk state."  Not so after *)
(* a removal that fails half-way, or a replacement that fails.                *)
UnionIsThere == union \subseteq Scan(disk)

(* mountVoicePack() reads the pack it mounted.  Not so when an observer it    *)
(* told takes the pack off again.                                             *)
MountedIsRead == ~strayed

(* "the kill-switch must revoke without a restart".  Not so: a surface that   *)
(* was handed out before stays good.                                          *)
SwitchRevokes == switch \/ \A p \in Plugins : held[p] = {}
=============================================================================
