----------------------------- MODULE PluginProofs -----------------------------
(***************************************************************************)
(* Proofs about the border to the plugins, for any plugins, installations, *)
(* instances, resources, observers and nesting of callbacks: what a plugin *)
(* removed is forgotten, a mounted pack is recorded where it was found, a  *)
(* stopped plugin is not called, and a fan-out of samples passes over no   *)
(* subscription that stays.                                                *)
(***************************************************************************)
EXTENDS MCPlugins, WellFoundedInduction, TLAPS

-----------------------------------------------------------------------------
(* The resources *)

LEMMA ScanHas ==
    \A have, m : m \in Scan(have) <=> \E r \in have : r[1] = "model" /\ m = <<r[2], r[3]>>
BY DEF Scan

\* Only three calls touch what is on disk or was scanned.
LEMMA ResourceSteps ==
    ASSUME [ApiNext]_apiVars
    PROVE \/ UNCHANGED resources
          \/ \E p \in Plugins : RefreshScan(p)
          \/ \E p \in Plugins, kind \in Kinds, n \in Names, ok \in BOOLEAN :
                RemoveScoped(p, kind, n, ok) \/ Install(p, kind, n, ok)
<1>1. \/ UNCHANGED resources
      \/ \E p \in Plugins : Calls(p)
  BY DEF ApiNext, apiVars, resources, SetWriteEnabled, CallObserver, ObserverReturns,
         LoadFinishes, MountFinishes, CallFinishes, RendererExits, RowGoes, Verdict
<1>2. ASSUME NEW p \in Plugins, Calls(p)
      PROVE \/ UNCHANGED resources
            \/ RefreshScan(p)
            \/ \E kind \in Kinds, n \in Names, ok \in BOOLEAN : RemoveScoped(p, kind, n, ok) \/ Install(p, kind, n, ok)
  BY <1>2 DEF Calls, resources, QueryApi, Delete, Tune, UnmountVoicePack, StartOrStop, Create, LoadModel,
         MountVoicePack
<1> QED
  BY <1>1, <1>2

\* Removals, replacements and scans keep the union within what is there or
\* was left in ruins.
LEMMA UnionStep == RemovedIsForgotten /\ [ApiNext]_apiVars => RemovedIsForgotten'
<1> SUFFICES ASSUME RemovedIsForgotten, [ApiNext]_apiVars PROVE RemovedIsForgotten'
  OBVIOUS
<1>1. CASE UNCHANGED resources
  BY <1>1 DEF RemovedIsForgotten, resources, Scan
<1>2. ASSUME NEW p \in Plugins, RefreshScan(p) PROVE RemovedIsForgotten'
  <2>1. union' = Scan(disk) /\ disk' = disk /\ torn' = torn
    BY <1>2 DEF RefreshScan
  <2> QED
    BY <2>1, ScanHas DEF RemovedIsForgotten
<1>3. ASSUME NEW p \in Plugins, NEW kind \in Kinds, NEW n \in Names, NEW ok \in BOOLEAN, RemoveScoped(p, kind, n, ok)
      PROVE RemovedIsForgotten'
  <2>1. CASE ok
    <3>1. union' = Scan(disk')
      BY <1>3, <2>1 DEF RemoveScoped, UnionAfterRemoval
    <3>2. \A m \in Scan(disk') : m \in Scan(disk' \cup torn')
      BY ScanHas
    <3> QED
      BY <3>1, <3>2 DEF RemovedIsForgotten
  <2>2. CASE ~ok
    <3>1. union' = union /\ disk \cup torn \subseteq disk' \cup torn'
      BY <1>3, <2>2 DEF RemoveScoped
    <3>2. \A m \in Scan(disk \cup torn) : m \in Scan(disk' \cup torn')
      BY <3>1, ScanHas
    <3> QED
      BY <3>1, <3>2 DEF RemovedIsForgotten
  <2> QED
    BY <2>1, <2>2
<1>4. ASSUME NEW p \in Plugins, NEW kind \in Kinds, NEW n \in Names, NEW ok \in BOOLEAN, Install(p, kind, n, ok)
      PROVE RemovedIsForgotten'
  <2>1. union' = union /\ disk \cup torn \subseteq disk' \cup torn'
    BY <1>4 DEF Install
  <2>2. \A m \in Scan(disk \cup torn) : m \in Scan(disk' \cup torn')
    BY <2>1, ScanHas
  <2> QED
    BY <2>1, <2>2 DEF RemovedIsForgotten
<1> QED
  BY <1>1, <1>2, <1>3, <1>4, ResourceSteps

LEMMA UnionStarts == ApiInit => RemovedIsForgotten
<1> SUFFICES ASSUME ApiInit PROVE RemovedIsForgotten
  OBVIOUS
<1>1. union = Scan(disk) /\ torn = {}
  BY DEF ApiInit
<1>2. disk \cup torn = disk
  BY <1>1
<1> QED
  BY <1>1, <1>2 DEF RemovedIsForgotten

(* What a plugin removed, no later load resolves: every model in m_union is *)
(* on disk, or in the ruins of a removal or replacement that failed         *)
(* (PluginContextImpl.cpp:1944-1946).                                       *)
THEOREM RemovedIsForgottenHolds == ApiSpec => []RemovedIsForgotten
BY UnionStarts, UnionStep, PTL DEF ApiSpec

-----------------------------------------------------------------------------
(* The sessions, as far as plugins reach them *)

Recorded(u) ==
    Listed(u) /\ inst[u].mounted # Nothing =>
        inst[u].pack = inst[u].mounted /\ inst[u].packScope = inst[u].mounted[1]

LEMMA SessionsAreListed ==
    ASSUME ApiTypeOK, NEW u \in Instances
    PROVE (Listed(u) <=> inst[u] \in Sessions) /\ (inst[u] = Gone <=> ~Listed(u))
BY DEF ApiTypeOK, Listed, Sessions, Gone

LEMMA OwnIsAnOwner == \A p \in Plugins : Own(p) \in Owners /\ Host \in Owners
BY DEF Own, Owners

\* One session changes, and the mount of it is kept, recorded or over.
LEMMA SessionStep ==
    ASSUME MountIsRecorded, NEW u \in Instances, NEW s \in Sessions \cup {Gone}, inst' = [inst EXCEPT ![u] = s],
           \/ s = Gone
           \/ s.mounted = Nothing
           \/ s.pack = s.mounted /\ s.packScope = s.mounted[1]
           \/ /\ Listed(u)
              /\ s.mounted = inst[u].mounted /\ s.pack = inst[u].pack /\ s.packScope = inst[u].packScope
    PROVE inst' \in [Instances -> Sessions \cup {Gone}] /\ \A v \in Instances : Recorded(v)'
<1>1. inst' \in [Instances -> Sessions \cup {Gone}] /\ inst'[u] = s /\ \A v \in Instances \ {u} : inst'[v] = inst[v]
  BY DEF MountIsRecorded, ApiTypeOK
<1>2. Gone.row = "none"
  BY DEF Gone
<1>3. \A v \in Instances : Recorded(v)
  BY DEF MountIsRecorded, Recorded
<1> QED
  BY <1>1, <1>2, <1>3 DEF Recorded, Listed

\* Calls that change a running session keep its mount.
LEMMA MountKept ==
    ASSUME MountIsRecorded, NEW u \in Instances, Listed(u), NEW row \in {"down", "up", "doomed"},
           NEW config \in Chosen, NEW undo \in Chosen,
           inst' = [inst EXCEPT ![u] = [inst[u] EXCEPT !.row = row, !.config = config, !.undo = undo]]
    PROVE inst' \in [Instances -> Sessions \cup {Gone}] /\ \A v \in Instances : Recorded(v)'
<1> DEFINE s == [inst[u] EXCEPT !.row = row, !.config = config, !.undo = undo]
<1>1. inst[u] \in Sessions
  BY SessionsAreListed DEF MountIsRecorded
<1>2. s \in Sessions /\ s.mounted = inst[u].mounted /\ s.pack = inst[u].pack /\ s.packScope = inst[u].packScope
  BY <1>1 DEF Sessions
<1> HIDE DEF s
<1>3. inst' = [inst EXCEPT ![u] = s]
  BY DEF s
<1> QED
  BY <1>2, <1>3, SessionStep

-----------------------------------------------------------------------------
(* The calls under way *)

CallsAreTyped == stack' \in Seq(Frames) /\ Len(stack') <= MaxDepth
                 /\ calls' \in 0 .. MaxCalls /\ (stack' = <<>> => calls' = 0)

\* A call that tells the observers waits for them on top of the others.
LEMMA FanOutIsTyped ==
    ASSUME ApiTypeOK, calls < MaxCalls, Len(stack) < MaxDepth,
           NEW call \in {"create", "remove", "status", "load", "tune", "mount", "unmount"},
           NEW u \in Instances, NEW arg \in Chosen, FansOut(call, u, arg)
    PROVE CallsAreTyped
<1> DEFINE f == Frame(call, u, arg)
<1>1. f \in Frames
  BY DEF Frame, Frames
<1>2. stack' = Append(stack, f) /\ calls' = calls + 1
  BY DEF FansOut, Counted
<1> HIDE DEF f
<1>3. stack \in Seq(Frames) /\ Len(stack) \in Nat /\ calls \in Nat /\ MaxCalls \in Nat /\ MaxDepth \in Nat
  BY BoundsAssumption DEF ApiTypeOK, BoundsAssumption
<1>4. /\ Append(stack, f) \in Seq(Frames) /\ Len(Append(stack, f)) = Len(stack) + 1
      /\ Append(stack, f) # <<>>
  BY <1>1, <1>3
<1> QED
  BY <1>2, <1>3, <1>4 DEF CallsAreTyped

LEMMA NoFanOutIsTyped ==
    ASSUME ApiTypeOK, calls < MaxCalls, NoFanOut
    PROVE CallsAreTyped
BY BoundsAssumption DEF NoFanOut, Idle, Counted, ApiTypeOK, CallsAreTyped, BoundsAssumption

LEMMA TopIsTyped ==
    ASSUME ApiTypeOK, ~Idle
    PROVE /\ Top \in Frames /\ Top.uuid \in Instances /\ Top.arg \in Chosen /\ Top.left \subseteq Observing
          /\ Len(stack) \in Nat \ {0} /\ DOMAIN stack = 1 .. Len(stack)
<1>1. Len(stack) \in Nat \ {0} /\ DOMAIN stack = 1 .. Len(stack) /\ stack[Len(stack)] \in Frames
  BY DEF ApiTypeOK, Idle
<1> QED
  BY <1>1 DEF Top, Frames

LEMMA FrontIsTyped ==
    ASSUME ApiTypeOK, ~Idle
    PROVE Front(stack) \in Seq(Frames) /\ Len(Front(stack)) = Len(stack) - 1
<1>1. stack \in Seq(Frames) /\ Len(stack) \in Nat \ {0}
  BY TopIsTyped DEF ApiTypeOK
<1>2. Front(stack) = SubSeq(stack, 1, Len(stack) - 1)
  BY DEF Front
<1> HIDE DEF Front
<1>3. SubSeq(stack, 1, Len(stack) - 1) \in Seq(Frames) /\ Len(SubSeq(stack, 1, Len(stack) - 1)) = Len(stack) - 1
  BY <1>1
<1> QED
  BY <1>2, <1>3

LEMMA PopIsTyped ==
    ASSUME ApiTypeOK, ~Idle, Pop
    PROVE CallsAreTyped
<1>1. Len(Front(stack)) = Len(stack) - 1 /\ Front(stack) \in Seq(Frames) /\ Len(stack) \in Nat \ {0}
  BY FrontIsTyped, TopIsTyped
<1>2. Front(stack) = <<>> => Len(stack) = 1
  BY <1>1
<1> QED
  BY <1>1, <1>2, BoundsAssumption DEF ApiTypeOK, Pop, CallsAreTyped, BoundsAssumption

-----------------------------------------------------------------------------
(* The steps *)

\* A step is typed and keeps the records when what it changes is.
LEMMA Sound ==
    ASSUME MountIsRecorded, CallsAreTyped,
           inst' \in [Instances -> Sessions \cup {Gone}], \A v \in Instances : Recorded(v)',
           UNCHANGED <<resources, gates>>, strayed' \in BOOLEAN
    PROVE MountIsRecorded'
BY DEF MountIsRecorded, ApiTypeOK, CallsAreTyped, resources, gates, Recorded

LEMMA SessionsUntouched ==
    ASSUME MountIsRecorded, UNCHANGED inst
    PROVE inst' \in [Instances -> Sessions \cup {Gone}] /\ \A v \in Instances : Recorded(v)'
BY DEF MountIsRecorded, ApiTypeOK, Recorded, Listed

LEMMA NothingIsChosen == Nothing \in Chosen /\ Host \in Owners
BY DEF Chosen, Owners

\* What every call into the host finds.
LEMMA MayCallFinds ==
    ASSUME NEW p \in Plugins, NEW family, MayWrite(p, family)
    PROVE calls < MaxCalls /\ Len(stack) < MaxDepth
BY DEF MayWrite, HasTurn

LEMMA StepCreate ==
    ASSUME MountIsRecorded, NEW p \in Plugins, NEW u \in Instances, NEW n \in Names, Create(p, u, n)
    PROVE MountIsRecorded'
<1> DEFINE s == Fresh(<<Own(p), n>>)
<1>1. s \in Sessions /\ s.mounted = Nothing
  <2>1. <<Own(p), n>> \in Chosen
    BY OwnIsAnOwner DEF Chosen
  <2> QED
    BY <2>1, NothingIsChosen DEF Fresh, Sessions
<1>2. inst' = [inst EXCEPT ![u] = s] /\ FansOut("create", u, Nothing) /\ UNCHANGED <<resources, gates, strayed>>
  BY DEF Create
<1> HIDE DEF s
<1>3. inst' \in [Instances -> Sessions \cup {Gone}] /\ \A v \in Instances : Recorded(v)'
  BY <1>1, <1>2, SessionStep
<1>4. CallsAreTyped
  BY <1>2, NothingIsChosen, MayCallFinds, FanOutIsTyped DEF MountIsRecorded, Create
<1> QED
  BY <1>2, <1>3, <1>4, Sound DEF MountIsRecorded, ApiTypeOK

\* Calls that change the row alone.
LEMMA RowKeepsMount ==
    ASSUME MountIsRecorded, NEW u \in Instances, Listed(u), NEW row \in {"down", "up", "doomed"},
           inst' = [inst EXCEPT ![u].row = row]
    PROVE inst' \in [Instances -> Sessions \cup {Gone}] /\ \A v \in Instances : Recorded(v)'
<1> DEFINE s == [inst[u] EXCEPT !.row = row]
<1>1. inst[u] \in Sessions
  BY SessionsAreListed DEF MountIsRecorded
<1>2. s \in Sessions /\ s.mounted = inst[u].mounted /\ s.pack = inst[u].pack /\ s.packScope = inst[u].packScope
  BY <1>1 DEF Sessions
<1>3. inst' = [inst EXCEPT ![u] = s]
  OBVIOUS
<1> HIDE DEF s
<1> QED
  BY <1>2, <1>3, SessionStep

LEMMA StepDelete ==
    ASSUME MountIsRecorded, NEW p \in Plugins, NEW u \in Instances, Delete(p, u)
    PROVE MountIsRecorded'
<1>1. /\ Listed(u) /\ FansOut("remove", u, Nothing) /\ UNCHANGED <<resources, gates, strayed>>
      /\ inst' = [inst EXCEPT ![u].row = "doomed"] \/ inst' = [inst EXCEPT ![u] = Gone]
  BY DEF Delete
<1>2. inst' \in [Instances -> Sessions \cup {Gone}] /\ \A v \in Instances : Recorded(v)'
  <2>1. CASE inst' = [inst EXCEPT ![u].row = "doomed"]
    BY <1>1, <2>1, RowKeepsMount
  <2>2. CASE inst' = [inst EXCEPT ![u] = Gone]
    BY <2>2, SessionStep
  <2> QED
    BY <1>1, <2>1, <2>2
<1>3. CallsAreTyped
  BY <1>1, NothingIsChosen, MayCallFinds, FanOutIsTyped DEF MountIsRecorded, Delete
<1> QED
  BY <1>1, <1>2, <1>3, Sound DEF MountIsRecorded, ApiTypeOK

LEMMA StepStartOrStop ==
    ASSUME MountIsRecorded, NEW p \in Plugins, NEW u \in Instances, NEW row \in {"up", "down"}, StartOrStop(p, u, row)
    PROVE MountIsRecorded'
<1>1. /\ Listed(u) /\ FansOut("status", u, Nothing) /\ UNCHANGED <<resources, gates, strayed>>
      /\ inst' = [inst EXCEPT ![u].row = row]
  BY DEF StartOrStop
<1>2. inst' \in [Instances -> Sessions \cup {Gone}] /\ \A v \in Instances : Recorded(v)'
  BY <1>1, RowKeepsMount
<1>3. CallsAreTyped
  BY <1>1, NothingIsChosen, MayCallFinds, FanOutIsTyped DEF MountIsRecorded, StartOrStop
<1> QED
  BY <1>1, <1>2, <1>3, Sound DEF MountIsRecorded, ApiTypeOK

\* In the event loop nothing is nested and nothing was counted.
LEMMA IdleFinds ==
    ASSUME ApiTypeOK, Idle
    PROVE calls < MaxCalls /\ Len(stack) < MaxDepth
BY BoundsAssumption DEF ApiTypeOK, Idle, BoundsAssumption

LEMMA StepRendererEnds ==
    ASSUME MountIsRecorded, NEW u \in Instances, RendererExits(u) \/ RowGoes(u)
    PROVE MountIsRecorded'
<1>1. /\ Idle /\ Listed(u) /\ \E call \in {"status", "remove"} : FansOut(call, u, Nothing)
      /\ inst' = [inst EXCEPT ![u] = IF inst[u].row = "doomed" THEN Gone ELSE [inst[u] EXCEPT !.row = "down"]]
      /\ UNCHANGED <<resources, gates, strayed>>
  BY DEF RendererExits, RowGoes, Listed
<1>2. inst' \in [Instances -> Sessions \cup {Gone}] /\ \A v \in Instances : Recorded(v)'
  <2>1. CASE inst[u].row # "doomed"
    BY <1>1, <2>1, RowKeepsMount
  <2>2. CASE inst[u].row = "doomed"
    BY <1>1, <2>2, SessionStep
  <2> QED
    BY <2>1, <2>2
<1>3. CallsAreTyped
  BY <1>1, NothingIsChosen, IdleFinds, FanOutIsTyped DEF MountIsRecorded
<1> QED
  BY <1>1, <1>2, <1>3, Sound DEF MountIsRecorded, ApiTypeOK

\* Calls that change the model alone.
LEMMA ModelKeepsMount ==
    ASSUME MountIsRecorded, NEW u \in Instances, Listed(u), NEW config \in Chosen, NEW undo \in Chosen,
           inst' = [inst EXCEPT ![u].undo = undo, ![u].config = config]
    PROVE inst' \in [Instances -> Sessions \cup {Gone}] /\ \A v \in Instances : Recorded(v)'
<1> DEFINE s == [inst[u] EXCEPT !.undo = undo, !.config = config]
<1>1. inst[u] \in Sessions
  BY SessionsAreListed DEF MountIsRecorded
<1>2. s \in Sessions /\ s.mounted = inst[u].mounted /\ s.pack = inst[u].pack /\ s.packScope = inst[u].packScope
  BY <1>1 DEF Sessions
<1>3. inst' = [inst EXCEPT ![u] = s]
  BY DEF MountIsRecorded, ApiTypeOK
<1> HIDE DEF s
<1> QED
  BY <1>2, <1>3, SessionStep

LEMMA ChoicesOfASession ==
    ASSUME MountIsRecorded, NEW u \in Instances, Listed(u)
    PROVE inst[u].config \in Chosen /\ inst[u].undo \in Chosen
BY SessionsAreListed DEF MountIsRecorded, Sessions

LEMMA StepLoadModel ==
    ASSUME MountIsRecorded, NEW p \in Plugins, NEW u \in Instances, NEW n \in Names, LoadModel(p, u, n)
    PROVE MountIsRecorded'
<1> DEFINE undo == IF inst[u].undo = Nothing THEN inst[u].config ELSE inst[u].undo
           model == <<Own(p), n>>
<1>1. Listed(u) /\ FansOut("load", u, model) /\ UNCHANGED <<resources, gates, strayed>>
  BY DEF LoadModel
<1>2. undo \in Chosen
  BY <1>1, ChoicesOfASession
<1>3. model \in Chosen
  BY OwnIsAnOwner DEF Chosen
<1>4. inst' = [inst EXCEPT ![u].undo = undo, ![u].config = model]
  BY DEF LoadModel, MountIsRecorded, ApiTypeOK
<1> HIDE DEF undo, model
<1>5. inst' \in [Instances -> Sessions \cup {Gone}] /\ \A v \in Instances : Recorded(v)'
  BY <1>1, <1>2, <1>3, <1>4, ModelKeepsMount
<1>6. CallsAreTyped
  BY <1>1, <1>3, MayCallFinds, FanOutIsTyped DEF MountIsRecorded, LoadModel
<1> QED
  BY <1>1, <1>5, <1>6, Sound DEF MountIsRecorded, ApiTypeOK

LEMMA StepVerdict ==
    ASSUME MountIsRecorded, NEW u \in Instances, NEW loaded \in BOOLEAN, Verdict(u, loaded)
    PROVE MountIsRecorded'
<1> DEFINE config == IF loaded THEN inst[u].config ELSE inst[u].undo
<1>1. Idle /\ Listed(u) /\ FansOut("status", u, Nothing) /\ UNCHANGED <<resources, gates, strayed>>
  BY DEF Verdict
<1>2. config \in Chosen
  BY <1>1, ChoicesOfASession
<1>3. inst' = [inst EXCEPT ![u].undo = Nothing, ![u].config = config]
  BY DEF Verdict, MountIsRecorded, ApiTypeOK
<1> HIDE DEF config
<1>4. inst' \in [Instances -> Sessions \cup {Gone}] /\ \A v \in Instances : Recorded(v)'
  BY <1>1, <1>2, <1>3, NothingIsChosen, ModelKeepsMount
<1>5. CallsAreTyped
  BY <1>1, NothingIsChosen, IdleFinds, FanOutIsTyped DEF MountIsRecorded
<1> QED
  BY <1>1, <1>4, <1>5, Sound DEF MountIsRecorded, ApiTypeOK

LEMMA StepLoadFinishes ==
    ASSUME MountIsRecorded, LoadFinishes
    PROVE MountIsRecorded'
<1> DEFINE u == Top.uuid
           undo == inst[u].undo
<1>1. ~Idle /\ UNCHANGED <<resources, gates, strayed>>
  BY DEF LoadFinishes, Told
<1>2. Top \in Frames /\ u \in Instances
  BY <1>1, TopIsTyped DEF MountIsRecorded
<1>3. CASE Pop /\ UNCHANGED inst
  BY <1>1, <1>3, PopIsTyped, SessionsUntouched, Sound DEF MountIsRecorded, ApiTypeOK
<1>4. CASE /\ Listed(u)
           /\ inst' = [inst EXCEPT ![u].config = undo, ![u].undo = Nothing]
           /\ stack' = Append(Front(stack), Frame("status", u, Nothing))
           /\ UNCHANGED calls
  <2>1. undo \in Chosen
    BY <1>2, <1>4, ChoicesOfASession
  <2>2. inst' = [inst EXCEPT ![u].undo = Nothing, ![u].config = undo]
    BY <1>4
  <2> HIDE DEF undo
  <2>3. inst' \in [Instances -> Sessions \cup {Gone}] /\ \A v \in Instances : Recorded(v)'
    BY <1>2, <1>4, <2>1, <2>2, NothingIsChosen, ModelKeepsMount
  <2>4. CallsAreTyped
    <3> DEFINE f == Frame("status", u, Nothing)
               s == Front(stack)
    <3>1. f \in Frames
      BY <1>2, NothingIsChosen DEF Frame, Frames
    <3>2. s \in Seq(Frames) /\ Len(s) = Len(stack) - 1 /\ Len(stack) \in Nat \ {0}
      BY <1>1, FrontIsTyped, TopIsTyped DEF MountIsRecorded
    <3> HIDE DEF f, s
    <3>3. Append(s, f) \in Seq(Frames) /\ Len(Append(s, f)) = Len(s) + 1 /\ Append(s, f) # <<>>
      BY <3>1, <3>2
    <3>4. stack' = Append(s, f) /\ calls' = calls
      BY <1>4 DEF f, s
    <3> QED
      BY <3>2, <3>3, <3>4 DEF MountIsRecorded, ApiTypeOK, CallsAreTyped
  <2> QED
    BY <1>1, <2>3, <2>4, Sound DEF MountIsRecorded, ApiTypeOK
<1> QED
  BY <1>3, <1>4 DEF LoadFinishes

\* The directory a mount finds is in the domain that is recorded with it.
LEMMA PackDirIsChosen ==
    ASSUME NEW p \in Plugins, NEW n \in Names
    PROVE PackDir(p, n) \in Chosen /\ PackDir(p, n)[1] \in Owners
BY OwnIsAnOwner, NothingIsChosen DEF PackDir, Chosen, Nothing

LEMMA StepMountVoicePack ==
    ASSUME MountIsRecorded, NEW p \in Plugins, NEW u \in Instances, NEW n \in Names, NEW parsed \in BOOLEAN,
           MountVoicePack(p, u, n, parsed)
    PROVE MountIsRecorded'
<1> DEFINE dir == PackDir(p, n)
           s == [inst[u] EXCEPT !.mounted = dir, !.pack = dir, !.packScope = dir[1]]
<1>1. /\ Listed(u) /\ UNCHANGED <<resources, gates, strayed>>
      /\ FansOut("mount", u, dir) \/ NoFanOut
      /\ calls < MaxCalls /\ Len(stack) < MaxDepth
  BY MayCallFinds DEF MountVoicePack
<1>2. dir \in Chosen /\ dir[1] \in Owners
  BY PackDirIsChosen
<1>3. ~parsed => inst' = inst
  BY DEF MountVoicePack
<1>4. parsed => inst' = [inst EXCEPT ![u].mounted = dir, ![u].pack = dir, ![u].packScope = dir[1]]
  BY DEF MountVoicePack, ScopeOfDir
<1> HIDE DEF dir
<1>5. parsed => inst' = [inst EXCEPT ![u] = s]
  BY <1>4 DEF MountIsRecorded, ApiTypeOK
<1>6. inst[u] \in Sessions
  BY <1>1, SessionsAreListed DEF MountIsRecorded
<1>7. s \in Sessions /\ s.pack = s.mounted /\ s.packScope = s.mounted[1]
  BY <1>2, <1>6 DEF Sessions
<1> HIDE DEF s
<1>8. inst' \in [Instances -> Sessions \cup {Gone}] /\ \A v \in Instances : Recorded(v)'
  BY <1>3, <1>5, <1>7, SessionStep, SessionsUntouched
<1>9. CallsAreTyped
  BY <1>1, <1>2, FanOutIsTyped, NoFanOutIsTyped DEF MountIsRecorded
<1> QED
  BY <1>1, <1>8, <1>9, Sound DEF MountIsRecorded, ApiTypeOK

LEMMA StepUnmountVoicePack ==
    ASSUME MountIsRecorded, NEW p \in Plugins, NEW u \in Instances, UnmountVoicePack(p, u)
    PROVE MountIsRecorded'
<1> DEFINE s == [inst[u] EXCEPT !.mounted = Nothing, !.pack = Nothing, !.packScope = Host]
<1>1. /\ Listed(u) /\ UNCHANGED <<resources, gates, strayed>> /\ FansOut("unmount", u, Nothing)
      /\ calls < MaxCalls /\ Len(stack) < MaxDepth
  BY MayCallFinds DEF UnmountVoicePack
<1>2. inst' = [inst EXCEPT ![u] = s]
  BY DEF UnmountVoicePack, UnmountEnds, MountIsRecorded, ApiTypeOK
<1>3. inst[u] \in Sessions
  BY <1>1, SessionsAreListed DEF MountIsRecorded
<1>4. s \in Sessions /\ s.mounted = Nothing
  BY <1>3, NothingIsChosen DEF Sessions
<1> HIDE DEF s
<1>5. inst' \in [Instances -> Sessions \cup {Gone}] /\ \A v \in Instances : Recorded(v)'
  BY <1>2, <1>4, SessionStep
<1>6. CallsAreTyped
  BY <1>1, NothingIsChosen, FanOutIsTyped DEF MountIsRecorded
<1> QED
  BY <1>1, <1>5, <1>6, Sound DEF MountIsRecorded, ApiTypeOK

\* The calls that leave the sessions alone: of the plugins...
LEMMA StepTune ==
    ASSUME MountIsRecorded, NEW p \in Plugins, NEW u \in Instances, Tune(p, u)
    PROVE MountIsRecorded'
<1>1. UNCHANGED inst /\ UNCHANGED <<resources, gates, strayed>>
  BY DEF Tune
<1>2. CallsAreTyped
  BY NothingIsChosen, MayCallFinds, FanOutIsTyped DEF MountIsRecorded, Tune
<1> QED
  BY <1>1, <1>2, SessionsUntouched, Sound DEF MountIsRecorded, ApiTypeOK

\* ... of their resources, which keep what is there apart from the ruins ...
LEMMA StepResources ==
    ASSUME MountIsRecorded, NEW p \in Plugins,
           \/ RefreshScan(p)
           \/ \E kind \in Kinds, n \in Names, ok \in BOOLEAN : RemoveScoped(p, kind, n, ok) \/ Install(p, kind, n, ok)
    PROVE MountIsRecorded'
<1>1. UNCHANGED <<inst, gates, strayed>> /\ NoFanOut /\ calls < MaxCalls
  BY DEF RefreshScan, RemoveScoped, Install, HasTurn
<1>2. CallsAreTyped
  BY <1>1, NoFanOutIsTyped DEF MountIsRecorded
<1>3. \A have \in SUBSET Resources : Scan(have) \subseteq Owners \X Names
  BY ScanHas DEF Resources
<1>4. disk' \subseteq Resources /\ torn' \subseteq Resources /\ torn' \cap disk' = {} /\ union' \subseteq Owners \X Names
  <2>1. \A kind \in Kinds, n \in Names : <<kind, p, n>> \in Resources
    BY DEF Resources, Owners
  <2>2. RefreshScan(p) => disk' = disk /\ torn' = torn /\ union' = Scan(disk)
    BY DEF RefreshScan
  <2>3. ASSUME NEW kind \in Kinds, NEW n \in Names, NEW ok \in BOOLEAN, RemoveScoped(p, kind, n, ok)
        PROVE /\ disk' \subseteq Resources /\ torn' \subseteq Resources /\ torn' \cap disk' = {}
              /\ union' \in {union, Scan(disk')}
    BY <2>1, <2>3 DEF RemoveScoped, UnionAfterRemoval, MountIsRecorded, ApiTypeOK
  <2>4. ASSUME NEW kind \in Kinds, NEW n \in Names, NEW ok \in BOOLEAN, Install(p, kind, n, ok)
        PROVE disk' \subseteq Resources /\ torn' \subseteq Resources /\ torn' \cap disk' = {} /\ union' = union
    BY <2>1, <2>4 DEF Install, MountIsRecorded, ApiTypeOK
  <2> QED
    BY <1>3, <2>2, <2>3, <2>4 DEF MountIsRecorded, ApiTypeOK
<1> QED
  BY <1>1, <1>2, <1>4, SessionsUntouched DEF MountIsRecorded, ApiTypeOK, CallsAreTyped, gates, Recorded

\* ... of the user and of queryApi() ...
LEMMA StepGates ==
    ASSUME MountIsRecorded,
           \/ \E p \in Plugins, family \in Families : QueryApi(p, family)
           \/ \E on \in BOOLEAN : SetWriteEnabled(on)
    PROVE MountIsRecorded'
<1>1. UNCHANGED <<inst, resources, stack, calls, strayed>>
  BY DEF QueryApi, SetWriteEnabled
<1>2. held' \in [Plugins -> SUBSET Families] /\ switch' \in BOOLEAN
  BY DEF QueryApi, SetWriteEnabled, MountIsRecorded, ApiTypeOK
<1> QED
  BY <1>1, <1>2, SessionsUntouched DEF MountIsRecorded, ApiTypeOK, resources, Recorded

\* ... and the observers that are called and return.
LEMMA StepObserver ==
    ASSUME MountIsRecorded, CallObserver \/ ObserverReturns
    PROVE MountIsRecorded'
<1>1. ~Idle /\ UNCHANGED <<inst, resources, gates, calls, strayed>>
  BY DEF CallObserver, ObserverReturns
<1>2. PICK p \in Observing \cup {Host}, left \in SUBSET Observing :
          stack' = [stack EXCEPT ![Len(stack)] = [Top EXCEPT !.callee = p, !.left = left]]
  <2>1. Top \in Frames /\ Top.left \in SUBSET Observing
    BY <1>1, TopIsTyped DEF MountIsRecorded
  <2>2. CASE CallObserver
    <3>1. PICK p \in Top.left : stack' = [stack EXCEPT ![Len(stack)].callee = p, ![Len(stack)].left = @ \ {p}]
      BY <2>2 DEF CallObserver
    <3>2. stack' = [stack EXCEPT ![Len(stack)] = [Top EXCEPT !.callee = p, !.left = Top.left \ {p}]]
      BY <1>1, <3>1, TopIsTyped DEF MountIsRecorded, ApiTypeOK, Top
    <3> QED
      BY <2>1, <3>2
  <2>3. CASE ObserverReturns
    <3>1. stack' = [stack EXCEPT ![Len(stack)] = [Top EXCEPT !.callee = Host]]
      BY <2>3 DEF ObserverReturns, Top
    <3>2. [Top EXCEPT !.callee = Host] = [Top EXCEPT !.callee = Host, !.left = Top.left]
      BY <2>1 DEF Frames
    <3> QED
      BY <2>1, <3>1, <3>2
  <2> QED
    BY <2>2, <2>3
<1> DEFINE f == [Top EXCEPT !.callee = p, !.left = left]
<1>3. f \in Frames
  BY <1>1, TopIsTyped DEF MountIsRecorded, Frames
<1>4. Len(stack) \in DOMAIN stack /\ DOMAIN stack = 1 .. Len(stack) /\ Len(stack) \in Nat \ {0}
  BY <1>1, TopIsTyped DEF MountIsRecorded
<1> HIDE DEF f
<1>5. stack' \in Seq(Frames) /\ Len(stack') = Len(stack) /\ stack' # <<>>
  BY <1>2, <1>3, <1>4 DEF MountIsRecorded, ApiTypeOK, f
<1>6. CallsAreTyped
  BY <1>1, <1>5 DEF CallsAreTyped, MountIsRecorded, ApiTypeOK
<1> QED
  BY <1>1, <1>6, SessionsUntouched, Sound DEF MountIsRecorded, ApiTypeOK

LEMMA StepFinishes ==
    ASSUME MountIsRecorded, MountFinishes \/ CallFinishes
    PROVE MountIsRecorded'
<1>1. ~Idle /\ Pop /\ UNCHANGED <<inst, resources, gates>> /\ strayed' \in BOOLEAN
  BY DEF MountFinishes, CallFinishes, Told, MountIsRecorded, ApiTypeOK
<1> QED
  BY <1>1, PopIsTyped, SessionsUntouched, Sound DEF MountIsRecorded

LEMMA MountStep == MountIsRecorded /\ [ApiNext]_apiVars => MountIsRecorded'
<1> SUFFICES ASSUME MountIsRecorded, [ApiNext]_apiVars PROVE MountIsRecorded'
  OBVIOUS
<1>1. CASE UNCHANGED apiVars
  BY <1>1, SessionsUntouched DEF apiVars, MountIsRecorded, ApiTypeOK, Recorded
<1>2. ASSUME NEW p \in Plugins, Calls(p) PROVE MountIsRecorded'
  BY <1>2, StepGates, StepDelete, StepTune, StepUnmountVoicePack, StepStartOrStop, StepCreate, StepLoadModel,
     StepMountVoicePack, StepResources DEF Calls
<1> QED
  BY <1>1, <1>2, StepGates, StepObserver, StepLoadFinishes, StepFinishes, StepRendererEnds, StepVerdict DEF ApiNext

LEMMA MountStarts == ApiInit => MountIsRecorded
<1> SUFFICES ASSUME ApiInit PROVE MountIsRecorded
  OBVIOUS
<1>1. \A u \in Instances : inst[u] = Gone /\ ~Listed(u)
  BY DEF ApiInit, Gone, Listed
<1>2. disk \subseteq Resources /\ torn = {} /\ union \subseteq Owners \X Names
  <2>1. disk = {<<h[1], Host, h[2]>> : h \in HostHas} /\ torn = {} /\ union = Scan(disk)
    BY DEF ApiInit
  <2>2. \A h \in HostHas : <<h[1], Host, h[2]>> \in Resources
    BY HostAssumption DEF HostAssumption, Resources, Owners
  <2>3. disk \subseteq Resources
    BY <2>1, <2>2
  <2>4. \A m \in Scan(disk) : m \in Owners \X Names
    BY <2>3, ScanHas DEF Resources
  <2> QED
    BY <2>1, <2>3, <2>4
<1>3. stack \in Seq(Frames) /\ Len(stack) <= MaxDepth /\ calls \in 0 .. MaxCalls /\ calls = 0
  BY BoundsAssumption DEF ApiInit, BoundsAssumption
<1>4. inst \in [Instances -> Sessions \cup {Gone}] /\ held \in [Plugins -> SUBSET Families]
      /\ switch \in BOOLEAN /\ strayed \in BOOLEAN
  BY DEF ApiInit
<1> QED
  BY <1>1, <1>2, <1>3, <1>4 DEF MountIsRecorded, ApiTypeOK

(* The pack a session has mounted is the one its configuration names, with  *)
(* the domain it was found in, however the observers' calls nest            *)
(* (PluginContextImpl.cpp:765-772).                                         *)
THEOREM MountIsRecordedHolds == ApiSpec => []MountIsRecorded
BY MountStarts, MountStep, PTL DEF ApiSpec

-----------------------------------------------------------------------------
(* The registry *)

\* A set of naturals has a least element.
LEMMA LeastNatural ==
    ASSUME NEW T, T \subseteq Nat, T # {} PROVE \E x \in T : \A y \in T : x <= y
<1>1. PICK x \in T : \A y \in T : ~ (<<y, x>> \in OpToRel(<, Nat))
  BY NatLessThanWellFounded, WFMin, Zenon
<1>2. \A y \in T : y < x => <<y, x>> \in OpToRel(<, Nat)
  BY Zenon DEF OpToRel
<1>3. \A y \in T : ~(y < x)
  BY <1>1, <1>2, Zenon
<1> QED
  BY <1>3

\* entry() finds an entry of that id or none.
LEMMA EntryFinds ==
    ASSUME entries \in Seq(Entries), NEW id, Entry(id) # 0
    PROVE Entry(id) \in 1 .. Len(entries) /\ entries[Entry(id)].id = id
<1> DEFINE I == {i \in 1 .. Len(entries) : entries[i].id = id}
<1>1. Entry(id) = IF I # {} THEN Min(I) ELSE 0
  BY DEF Entry, SelectInSeq
<1>2. I \subseteq Nat
  OBVIOUS
<1>3. I # {} /\ Entry(id) = Min(I)
  BY <1>1
<1> HIDE DEF I
<1>4. \E x \in I : \A y \in I : x <= y
  BY <1>2, <1>3, LeastNatural
<1>5. Min(I) \in I
  BY <1>4 DEF Min
<1> QED
  BY <1>3, <1>5 DEF I

\* A transition changes the status of entries of that id alone.
LEMMA TransitionMoves ==
    ASSUME entries \in Seq(Entries), NEW id, NEW to \in Statuses, Transition(id, to)
    PROVE /\ entries' \in Seq(Entries) /\ DOMAIN entries' = DOMAIN entries
          /\ \A i \in DOMAIN entries :
                /\ entries'[i].id = entries[i].id
                /\ entries'[i].status = entries[i].status \/ (entries[i].id = id /\ entries'[i].status = to)
<1>1. CASE entries' = entries
  BY <1>1
<1>2. CASE Entry(id) # 0 /\ entries' = [entries EXCEPT ![Entry(id)].status = to]
  <2> DEFINE k == Entry(id)
             e == [entries[k] EXCEPT !.status = to]
  <2>1. k \in 1 .. Len(entries) /\ entries[k].id = id
    BY <1>2, EntryFinds
  <2>2. entries[k] \in Entries
    BY <2>1
  <2>3. e \in Entries /\ e.id = id /\ e.status = to
    BY <2>1, <2>2 DEF Entries
  <2>4. entries' = [entries EXCEPT ![k] = e]
    BY <1>2
  <2> HIDE DEF k, e
  <2> QED
    BY <2>1, <2>3, <2>4
<1> QED
  BY <1>1, <1>2 DEF Transition

-----------------------------------------------------------------------------
(* What is booked *)

LEMMA HeardHas == \A table, p : p \in Heard(table) <=> \E b \in table : b[1] = p
BY DEF Heard

LEMMA BookingsAreOfPlugins == \A b \in Books : b[1] \in Ids /\ b = <<b[1], b[2]>> /\ b[2] \in {"event", "rule"}
BY BooksAssumption DEF BooksAssumption

LEMMA HeardArePlugins ==
    ASSUME NEW table \in SUBSET Books
    PROVE Heard(table) \subseteq Ids
BY HeardHas, BookingsAreOfPlugins

\* The sweeps take back whatever was booked under the id.
LEMMA SweptIsSilent ==
    ASSUME booked \subseteq Books, NEW id
    PROVE Swept(id) \subseteq booked /\ id \notin Heard(Swept(id))
<1>1. \A b \in booked : b[1] = id => b \in {<<id, "event">>, <<id, "rule">>}
  BY BookingsAreOfPlugins
<1>2. Swept(id) = booked \ {<<id, "event">>, <<id, "rule">>}
  BY DEF Swept
<1> QED
  BY <1>1, <1>2, HeardHas

-----------------------------------------------------------------------------
(* The life of the plugins *)

HostInv == HostTypeOK /\ StoppedIsOver

\* Before the plugins are shut down none is stopped.
LEMMA NoneIsStopped ==
    ASSUME StoppedIsOver, phase \notin {"down", "off"}
    PROVE \A i \in DOMAIN entries : entries[i].status # "Stopped"
BY DEF StoppedIsOver

LEMMA StepScanNext ==
    ASSUME HostInv, ScanNext
    PROVE HostInv'
<1> DEFINE c == Head(scan)
           ok == IF c.source = "static" THEN AddStaticPlugin(c) ELSE LoadCandidate(c)
           e == [id |-> c.id, order |-> c.order, fault |-> c.fault, status |-> IF ok THEN "Registered" ELSE "Failed"]
<1>1. /\ phase = "scan" /\ scan # <<>> /\ entries' = Append(entries, e) /\ scan' = Tail(scan) /\ called' = {}
      /\ UNCHANGED <<boot, phase, agenda, active, live, startedIds, booked, pages, window, disabled>>
  BY DEF ScanNext
<1>2. scan \in Seq(Candidates) /\ entries \in Seq(Entries)
  BY DEF HostInv, HostTypeOK
<1>3. c \in Candidates /\ Tail(scan) \in Seq(Candidates)
  BY <1>1, <1>2
<1> HIDE DEF c, ok
<1>4. e \in Entries /\ e.status # "Stopped"
  BY <1>3 DEF Candidates, Entries, Statuses
<1> HIDE DEF e
<1>5. /\ entries' \in Seq(Entries)
      /\ \A i \in DOMAIN entries' : entries'[i] = e \/ (i \in DOMAIN entries /\ entries'[i] = entries[i])
  BY <1>1, <1>2, <1>4
<1>6. StoppedIsOver'
  BY <1>1, <1>4, <1>5, NoneIsStopped DEF HostInv, StoppedIsOver
<1> QED
  BY <1>1, <1>3, <1>5, <1>6 DEF HostInv, HostTypeOK

LEMMA StepInitializeAll ==
    ASSUME HostInv, InitializeAll
    PROVE HostInv'
<1>1. /\ phase = "scan" /\ phase' = "boot" /\ agenda' \in OrderedEntries /\ called' = {}
      /\ UNCHANGED <<boot, scan, entries, active, live, startedIds, booked, pages, window, disabled>>
  BY DEF InitializeAll
<1>2. agenda' \in Seq(Entries)
  <2>1. PICK p \in Bijection(DOMAIN entries, DOMAIN entries) : agenda' = [i \in DOMAIN entries |-> entries[p[i]]]
    BY <1>1 DEF OrderedEntries
  <2>2. p \in [DOMAIN entries -> DOMAIN entries]
    BY DEF Bijection, Injection
  <2>3. entries \in Seq(Entries)
    BY DEF HostInv, HostTypeOK
  <2>4. DOMAIN entries = 1 .. Len(entries) /\ Len(entries) \in Nat /\ \A i \in DOMAIN entries : entries[i] \in Entries
    BY <2>3
  <2> QED
    BY <2>1, <2>2, <2>4
<1>3. StoppedIsOver'
  BY <1>1, NoneIsStopped DEF HostInv, StoppedIsOver
<1> QED
  BY <1>1, <1>2, <1>3 DEF HostInv, HostTypeOK

\* The boot loop: what is skipped, created, started and failed.
LEMMA BootKeeps ==
    ASSUME HostInv, phase = "boot", phase' \in {"boot", "up"},
           agenda' = agenda \/ (agenda # <<>> /\ agenda' = Tail(agenda)),
           entries' = entries \/ \E id \in Ids, to \in {"Failed", "Started"} : Transition(id, to),
           active' = NoOne \/ (active' \in Ids /\ phase' = "boot" /\ agenda' # <<>>),
           live' \subseteq Ids, window' \in BOOLEAN,
           startedIds' \in Seq(Ids), called' \subseteq Ids,
           UNCHANGED <<boot, scan, booked, pages, disabled>>
    PROVE HostInv'
<1>1. agenda \in Seq(Entries) /\ entries \in Seq(Entries)
  BY DEF HostInv, HostTypeOK
<1>2. agenda' \in Seq(Entries)
  <2>1. agenda # <<>> => Tail(agenda) \in Seq(Entries)
    BY <1>1
  <2> QED
    BY <1>1, <2>1
<1>3. /\ entries' \in Seq(Entries)
      /\ \A i \in DOMAIN entries' : i \in DOMAIN entries /\ entries'[i].status \in {entries[i].status, "Failed", "Started"}
  BY <1>1, TransitionMoves DEF Statuses
<1>4. StoppedIsOver'
  BY <1>3, NoneIsStopped DEF HostInv, StoppedIsOver
<1> QED
  BY <1>2, <1>3, <1>4 DEF HostInv, HostTypeOK

LEMMA StepBoot ==
    ASSUME HostInv, SkipEntry \/ CreateInstance \/ Initialized \/ InitializeFailed \/ FinalizeRegistrations
    PROVE HostInv'
<1>1. /\ agenda \in Seq(Entries) \/ phase # "boot"
      /\ startedIds \in Seq(Ids) /\ active \in Ids \cup {NoOne} /\ live \subseteq Ids /\ window \in BOOLEAN
      /\ booked \subseteq Books /\ called \subseteq Ids /\ Heard(booked) \subseteq Ids
  BY HeardArePlugins DEF HostInv, HostTypeOK
<1>2. CASE SkipEntry
  BY <1>1, <1>2, BootKeeps DEF SkipEntry, AtEntry, NextEntry
<1>3. CASE CreateInstance
  <2>1. Head(agenda) \in Entries /\ Head(agenda).id \in Ids
    <3>1. Head(agenda) \in Entries
      BY <1>1, <1>3 DEF CreateInstance, AtEntry
    <3> QED
      BY <3>1 DEF Entries
  <2>2. CASE Head(agenda).fault = "null"
    BY <1>1, <1>3, <2>1, <2>2, BootKeeps DEF CreateInstance, AtEntry, NextEntry
  <2>3. CASE Head(agenda).fault # "null"
    BY <1>1, <1>3, <2>1, <2>3, BootKeeps DEF CreateInstance, AtEntry
  <2> QED
    BY <2>2, <2>3
<1>4. CASE Initialized
  <2>1. agenda # <<>> /\ active \in Ids
    BY <1>1, <1>4 DEF Initialized, HostInv, HostTypeOK
  <2> QED
    BY <1>1, <1>4, <2>1, BootKeeps DEF Initialized, NextEntry
<1>5. CASE InitializeFailed
  <2>1. agenda # <<>>
    BY <1>1, <1>5 DEF InitializeFailed, HostInv, HostTypeOK
  <2> QED
    BY <1>1, <1>5, <2>1, BootKeeps DEF InitializeFailed, NextEntry
<1>6. CASE FinalizeRegistrations
  <2>1. active = NoOne
    BY <1>6 DEF FinalizeRegistrations, HostInv, HostTypeOK
  <2> QED
    BY <1>1, <1>6, <2>1, BootKeeps DEF FinalizeRegistrations
<1> QED
  BY <1>2, <1>3, <1>4, <1>5, <1>6

LEMMA ReverseIsOf ==
    ASSUME NEW S, NEW seq \in Seq(S)
    PROVE Reverse(seq) \in Seq(S)
BY DEF Reverse

\* The shutdown loop up to the call of the next plugin.
LEMMA StepDown ==
    ASSUME HostInv, ShutdownAll \/ Shutdown \/ BudgetSpent \/ ShutDown
    PROVE HostInv'
<1>1. /\ phase = "down" => agenda \in Seq(Ids)
      /\ startedIds \in Seq(Ids) /\ active \in Ids \cup {NoOne} /\ Reverse(startedIds) \in Seq(Ids)
  BY ReverseIsOf DEF HostInv, HostTypeOK
<1>2. /\ UNCHANGED <<boot, scan, entries, live, booked, pages, window, disabled>>
      /\ called' = {} /\ active = NoOne /\ phase \in {"up", "down"} /\ phase' \in {"down", "off"}
  BY DEF ShutdownAll, Shutdown, BudgetSpent, ShutDown
<1>3. StoppedIsOver'
  BY <1>2 DEF HostInv, StoppedIsOver
<1>4. CASE ShutdownAll
  BY <1>1, <1>2, <1>3, <1>4 DEF ShutdownAll, HostInv, HostTypeOK
<1>5. CASE Shutdown
  <2>1. phase = "down" /\ agenda # <<>> /\ Head(agenda) \in Ids /\ Tail(agenda) \in Seq(Ids)
    BY <1>1, <1>5 DEF Shutdown
  <2> QED
    BY <1>1, <1>2, <1>3, <1>5, <2>1 DEF Shutdown, NextEntry, HostInv, HostTypeOK
<1>6. CASE BudgetSpent
  BY <1>1, <1>2, <1>3, <1>6 DEF BudgetSpent, HostInv, HostTypeOK
<1>7. CASE ShutDown
  BY <1>1, <1>2, <1>3, <1>7 DEF ShutDown, HostInv, HostTypeOK
<1> QED
  BY <1>4, <1>5, <1>6, <1>7

\* The sweeps come before the entry is Stopped and the announcement after them.
LEMMA StepUnloaded ==
    ASSUME HostInv, Unloaded
    PROVE HostInv'
<1>1. /\ phase = "down" /\ active # NoOne /\ booked' = Swept(active) /\ live' = live \ {active}
      /\ Transition(active, "Stopped") /\ active' = NoOne /\ agenda' = Tail(agenda) /\ called' = Heard(booked')
      /\ UNCHANGED <<boot, scan, phase, startedIds, pages, window, disabled>>
  BY DEF Unloaded, NextEntry
<1>2. entries \in Seq(Entries) /\ agenda \in Seq(Ids) /\ agenda # <<>> /\ booked \subseteq Books /\ live \subseteq Ids
  BY <1>1 DEF HostInv, HostTypeOK
<1>3. booked' \subseteq booked /\ active \notin Heard(booked')
  BY <1>1, <1>2, SweptIsSilent
<1>4. called' \subseteq Ids /\ called' \subseteq Heard(booked) /\ Heard(booked') \subseteq Heard(booked)
  BY <1>1, <1>2, <1>3, HeardHas, HeardArePlugins
<1>5. /\ entries' \in Seq(Entries) /\ DOMAIN entries' = DOMAIN entries
      /\ \A i \in DOMAIN entries :
            /\ entries'[i].id = entries[i].id
            /\ entries'[i].status = entries[i].status \/ (entries[i].id = active /\ entries'[i].status = "Stopped")
  BY <1>1, <1>2, TransitionMoves DEF Statuses
<1>6. StoppedIsOver'
  <2> SUFFICES ASSUME NEW i \in DOMAIN entries, entries'[i].status = "Stopped"
               PROVE entries[i].id \notin live' \cup Heard(booked') \cup called'
    BY <1>1, <1>5 DEF StoppedIsOver
  <2>1. CASE entries[i].id = active
    BY <1>1, <1>3, <2>1
  <2>2. CASE entries[i].id # active
    BY <1>1, <1>4, <1>5, <2>2 DEF HostInv, StoppedIsOver
  <2> QED
    BY <2>1, <2>2
<1>7. Tail(agenda) \in Seq(Ids)
  BY <1>2
<1> QED
  BY <1>1, <1>2, <1>3, <1>4, <1>5, <1>6, <1>7 DEF HostInv, HostTypeOK

\* The panel starts again from nothing but the enabled bits.
LEMMA StepRestart ==
    ASSUME HostInv, Restart
    PROVE HostInv'
<1>1. boot \in Seq(Candidates)
  BY BootsAssumption DEF BootsAssumption, HostInv, HostTypeOK
<1> QED
  BY <1>1 DEF Restart, HostInv, HostTypeOK, StoppedIsOver

\* A call of a plugin finds its own entry not stopped: it is alive.
LEMMA BookKeeps ==
    ASSUME HostInv, CallFrame, NEW id \in Ids, id \in live,
           booked' \subseteq Books, Heard(booked') \subseteq Heard(booked) \cup {id},
           pages' \subseteq Ids, disabled' \subseteq Ids
    PROVE HostInv'
<1>1. /\ called' = {}
      /\ UNCHANGED <<boot, scan, entries, phase, agenda, active, live, startedIds, window>>
  BY DEF CallFrame
<1>2. StoppedIsOver'
  BY <1>1 DEF HostInv, StoppedIsOver
<1> QED
  BY <1>1, <1>2 DEF HostInv, HostTypeOK

LEMMA StepBook ==
    ASSUME HostInv, NEW b \in Books, Book(b) \/ Unbook(b)
    PROVE HostInv'
<1>1. /\ CallFrame /\ b[1] \in live /\ b[1] \in Ids /\ UNCHANGED <<pages, disabled>>
      /\ booked' = booked \cup {b} \/ booked' = booked \ {b}
  BY BookingsAreOfPlugins DEF Book, Unbook, Runs
<1>2. booked \subseteq Books /\ pages \subseteq Ids /\ disabled \subseteq Ids
  BY DEF HostInv, HostTypeOK
<1>3. booked' \subseteq Books /\ Heard(booked') \subseteq Heard(booked) \cup {b[1]}
  BY <1>1, <1>2, HeardHas
<1> QED
  BY <1>1, <1>2, <1>3, BookKeeps

\* A call that books nothing.
LEMMA CallKeeps ==
    ASSUME HostInv, CallFrame, UNCHANGED booked, pages' \subseteq Ids, disabled' \subseteq Ids
    PROVE HostInv'
<1>1. /\ called' = {}
      /\ UNCHANGED <<boot, scan, entries, phase, agenda, active, live, startedIds, window>>
  BY DEF CallFrame
<1>2. StoppedIsOver'
  BY <1>1 DEF HostInv, StoppedIsOver
<1> QED
  BY <1>1, <1>2 DEF HostInv, HostTypeOK

LEMMA StepCalls ==
    ASSUME HostInv,
           \/ \E p \in Paged : RegisterPage(p)
           \/ \E id \in Switched, on, written \in BOOLEAN : SetEnabled(id, on, written)
    PROVE HostInv'
<1>1. /\ CallFrame /\ UNCHANGED booked
      /\ pages' \subseteq pages \cup Paged /\ disabled' \subseteq disabled \cup Switched
  BY DEF RegisterPage, SetEnabled
<1>2. pages' \subseteq Ids /\ disabled' \subseteq Ids
  BY <1>1, BooksAssumption DEF BooksAssumption, HostInv, HostTypeOK
<1> QED
  BY <1>1, <1>2, CallKeeps

LEMMA StepHostPublishes ==
    ASSUME HostInv, HostPublishes
    PROVE HostInv'
<1>1. called' = Heard(booked) /\ called' \subseteq Ids
  BY HeardArePlugins DEF HostPublishes, HostInv, HostTypeOK
<1>2. StoppedIsOver'
  BY <1>1 DEF HostPublishes, HostInv, StoppedIsOver
<1> QED
  BY <1>1, <1>2 DEF HostPublishes, HostInv, HostTypeOK

LEMMA HostLifeStep ==
    ASSUME HostInv, HostLife
    PROVE HostInv'
BY StepScanNext, StepInitializeAll, StepBoot, StepDown, StepUnloaded, StepBook, StepCalls, StepHostPublishes DEF HostLife

\* While the event loop runs, the host by itself calls no plugin it does not
\* return from, and it ends only when it is idle.
LEMMA HostKeepsLoop ==
    ASSUME HostLife, phase = "up", active # NoOne
    PROVE UNCHANGED <<phase, active>>
BY DEF HostLife, ScanNext, InitializeAll, SkipEntry, CreateInstance, Initialized, InitializeFailed, AtEntry,
       FinalizeRegistrations, ShutdownAll, Shutdown, Unloaded, BudgetSpent, ShutDown, Book, Unbook, RegisterPage,
       HostPublishes, SetEnabled, CallFrame

\* No publish calls a plugin whose entry is stopped.
LEMMA Silent == HostInv => StoppedIsSilent
<1> SUFFICES ASSUME HostInv, NEW p \in called, Status(p) = "Stopped" PROVE FALSE
  BY DEF StoppedIsSilent
<1>1. entries \in Seq(Entries) /\ Entry(p) # 0 /\ entries[Entry(p)].status = "Stopped"
  BY DEF HostInv, HostTypeOK, Status
<1>2. Entry(p) \in DOMAIN entries /\ entries[Entry(p)].id = p
  BY <1>1, EntryFinds
<1> QED
  BY <1>1, <1>2 DEF HostInv, StoppedIsOver

-----------------------------------------------------------------------------
(* The observers *)

LEMMA OwnersArePlugins ==
    /\ \A pair \in Pairs : pair[1] \in Uuids /\ pair[2] \in Observers /\ OwnerOf[pair[2]] \in Ids
    /\ \A o \in Watchers : OwnerOf[o] \in Ids
BY OwnersAssumption, PairsAssumption DEF OwnersAssumption, PairsAssumption

\* A list without the one of its elements that is taken back.
LEMMA WithoutMoves ==
    ASSUME NEW S, NEW list \in Seq(S), IsInjective(list), NEW e, Contains(list, e)
    PROVE \E r \in 1 .. Len(list) :
              /\ list[r] = e
              /\ Without(list, e) \in Seq(S) /\ Len(Without(list, e)) = Len(list) - 1
              /\ \A j \in 1 .. Len(list) - 1 :
                    Without(list, e)[j] = IF j < r THEN list[j] ELSE list[j + 1]
<1>1. \E i \in DOMAIN list : list[i] = e
  BY DEF Contains
<1> DEFINE r == CHOOSE i \in DOMAIN list : list[i] = e
<1>2. r \in DOMAIN list /\ list[r] = e
  BY <1>1
<1>3. Without(list, e) = SubSeq(list, 1, r - 1) \o SubSeq(list, r + 1, Len(list))
  BY DEF Without, RemoveAt
<1> HIDE DEF r
<1>4. r \in 1 .. Len(list) /\ Len(list) \in Nat
  BY <1>2
<1> DEFINE a == SubSeq(list, 1, r - 1)
           b == SubSeq(list, r + 1, Len(list))
<1>5. a \in Seq(S) /\ Len(a) = r - 1 /\ \A j \in 1 .. r - 1 : a[j] = list[j]
  BY <1>4
<1>6. b \in Seq(S) /\ Len(b) = Len(list) - r /\ \A j \in 1 .. Len(list) - r : b[j] = list[r + j]
  BY <1>4
<1>7. Without(list, e) = a \o b
  BY <1>3
<1> HIDE DEF a, b
<1>8. a \o b \in Seq(S) /\ Len(a \o b) = Len(list) - 1
  <2>1. a \o b \in Seq(S)
    BY <1>5, <1>6
  <2>2. Len(a \o b) = Len(a) + Len(b)
    BY <1>5, <1>6
  <2> QED
    BY <1>4, <1>5, <1>6, <2>1, <2>2
<1>9. ASSUME NEW j \in 1 .. Len(list) - 1 PROVE (a \o b)[j] = IF j < r THEN list[j] ELSE list[j + 1]
  <2>1. (a \o b)[j] = IF j <= r - 1 THEN a[j] ELSE b[j - (r - 1)]
    BY <1>4, <1>5, <1>6
  <2>2. CASE j < r
    BY <1>4, <1>5, <2>1, <2>2
  <2>3. CASE ~(j < r)
    <3>1. j - (r - 1) \in 1 .. Len(list) - r /\ r + (j - (r - 1)) = j + 1
      BY <1>4, <2>3
    <3> QED
      BY <1>4, <1>6, <2>1, <2>3, <3>1
  <2> QED
    BY <2>2, <2>3
<1> QED
  BY <1>2, <1>4, <1>7, <1>8, <1>9

\* What is left stays injective, and each element of it at its place or one
\* place lower.
LEMMA WithoutKeeps ==
    ASSUME NEW S, NEW list \in Seq(S), IsInjective(list), NEW e, Contains(list, e)
    PROVE /\ Without(list, e) \in Seq(S) /\ IsInjective(Without(list, e))
          /\ \A i \in 1 .. Len(list) : list[i] # e =>
                \E j \in 1 .. Len(Without(list, e)) : j \in {i, i - 1} /\ Without(list, e)[j] = list[i]
<1>1. PICK r \in 1 .. Len(list) :
          /\ list[r] = e
          /\ Without(list, e) \in Seq(S) /\ Len(Without(list, e)) = Len(list) - 1
          /\ \A j \in 1 .. Len(list) - 1 : Without(list, e)[j] = IF j < r THEN list[j] ELSE list[j + 1]
  BY WithoutMoves
<1> DEFINE left == Without(list, e)
<1>2. left \in Seq(S) /\ Len(left) = Len(list) - 1 /\ Len(list) \in Nat /\ DOMAIN left = 1 .. Len(list) - 1
      /\ DOMAIN list = 1 .. Len(list)
  BY <1>1
<1>3. \A j \in 1 .. Len(list) - 1 : left[j] = IF j < r THEN list[j] ELSE list[j + 1]
  BY <1>1
<1> HIDE DEF left
<1>4. ASSUME NEW a \in DOMAIN left, NEW b \in DOMAIN left, left[a] = left[b] PROVE a = b
  <2>1. left[a] = (IF a < r THEN list[a] ELSE list[a + 1]) /\ left[b] = (IF b < r THEN list[b] ELSE list[b + 1])
    BY <1>2, <1>3
  <2>2. \A x, y \in 1 .. Len(list) : list[x] = list[y] => x = y
    BY <1>2 DEF IsInjective
  <2> DEFINE x == IF a < r THEN a ELSE a + 1
             y == IF b < r THEN b ELSE b + 1
  <2>3. x \in 1 .. Len(list) /\ y \in 1 .. Len(list)
    BY <1>2
  <2>4. list[x] = list[y]
    BY <1>4, <2>1
  <2>5. x = y
    BY <2>2, <2>3, <2>4
  <2> QED
    BY <1>2, <2>5
<1>5. ASSUME NEW i \in 1 .. Len(list), list[i] # e
      PROVE \E j \in 1 .. Len(left) : j \in {i, i - 1} /\ left[j] = list[i]
  <2>1. CASE i < r
    BY <1>2, <1>3, <2>1
  <2>2. CASE i > r
    <3>1. i - 1 \in 1 .. Len(list) - 1 /\ ~(i - 1 < r) /\ (i - 1) + 1 = i
      BY <1>2, <2>2
    <3>2. left[i - 1] = list[i]
      BY <1>3, <3>1
    <3> QED
      BY <1>2, <3>1, <3>2
  <2>3. i # r
    BY <1>1, <1>5
  <2> QED
    BY <2>1, <2>2, <2>3
<1> QED
  BY <1>2, <1>4, <1>5 DEF IsInjective, left

\* A list with a new element at its end.
LEMMA AppendKeeps ==
    ASSUME NEW S, NEW list \in Seq(S), IsInjective(list), NEW e \in S, ~Contains(list, e)
    PROVE /\ Append(list, e) \in Seq(S) /\ IsInjective(Append(list, e))
          /\ \A i \in DOMAIN list : i \in DOMAIN Append(list, e) /\ Append(list, e)[i] = list[i]
<1> DEFINE new == Append(list, e)
<1>1. /\ new \in Seq(S) /\ Len(list) \in Nat /\ DOMAIN list = 1 .. Len(list) /\ DOMAIN new = 1 .. Len(list) + 1
      /\ new[Len(list) + 1] = e /\ \A i \in 1 .. Len(list) : new[i] = list[i]
  OBVIOUS
<1>2. \A i \in 1 .. Len(list) : list[i] # e
  BY <1>1 DEF Contains
<1> HIDE DEF new
<1>3. ASSUME NEW a \in DOMAIN new, NEW b \in DOMAIN new, new[a] = new[b] PROVE a = b
  BY <1>1, <1>2, <1>3 DEF IsInjective
<1> QED
  BY <1>1, <1>3 DEF IsInjective, new

ObsInv == PluginTypeOK /\ StoppedIsOver /\ CallingIsInTheLoop /\ StillToBeTold

LEMMA FansAreFans ==
    ASSUME NEW f \in Fans
    PROVE /\ f.n \in Nat \ {0} /\ f.k \in Nat \ {0} /\ f.stay \subseteq Pairs /\ f.told \in [Pairs -> Nat]
          /\ f # NoFan
<1>1. f.n \in Nat \ {0} /\ f.k \in Nat \ {0} /\ f.stay \subseteq Pairs /\ f.told \in [Pairs -> Nat]
  BY DEF Fans
<1>2. NoFan.n = 0
  BY DEF NoFan
<1> QED
  BY <1>1, <1>2

\* The index of a turn lies among what were the subscriptions.
LEMMA HereIsInside ==
    ASSUME ObsInv, fan # NoFan
    PROVE fan \in Fans /\ Here = fan.n + 1 - fan.k /\ Here \in 1 .. fan.n /\ fan.k <= fan.n
<1>1. fan \in Fans /\ fan.k <= fan.n
  BY DEF ObsInv, PluginTypeOK
<1>2. fan.n \in Nat \ {0} /\ fan.k \in Nat \ {0}
  BY <1>1, FansAreFans
<1> QED
  BY <1>1, <1>2 DEF Here, FanIndex

\* The host between two calls of the loop.
LEMMA LoopKeeps ==
    ASSUME HostInv, phase = "up", active' \in Ids \cup {NoOne}, called' \subseteq Ids,
           UNCHANGED <<boot, scan, entries, phase, agenda, live, startedIds, booked, pages, window, disabled>>
    PROVE HostInv'
<1>1. StoppedIsOver'
  BY NoneIsStopped DEF HostInv, StoppedIsOver
<1> QED
  BY <1>1 DEF HostInv, HostTypeOK

LEMMA CallsKeepHost ==
    ASSUME HostInv, CallFrame, UNCHANGED <<booked, pages, disabled>>
    PROVE HostInv'
BY CallKeeps DEF HostInv, HostTypeOK

\* A subscription not told yet is still to come when its list grows and when
\* another one is taken back: the loop runs downwards.
LEMMA StepSubscribe ==
    ASSUME ObsInv, NEW pair \in Pairs, SubscribeMonitor(pair)
    PROVE ObsInv'
<1>1. /\ ~Contains(subs, pair) /\ subs' = Append(subs, pair)
      /\ CallFrame /\ UNCHANGED <<booked, pages, disabled, observers, fan, copy>>
  BY DEF SubscribeMonitor
<1>2. HostInv'
  BY <1>1, CallsKeepHost DEF ObsInv, HostInv, PluginTypeOK
<1>3. phase' = phase /\ active' = active
  BY <1>1 DEF CallFrame
<1>4. /\ subs' \in Seq(Pairs) /\ IsInjective(subs')
      /\ \A i \in DOMAIN subs : i \in DOMAIN subs' /\ subs'[i] = subs[i]
  BY <1>1, AppendKeeps DEF ObsInv, PluginTypeOK
<1>5. StillToBeTold'
  <2> SUFFICES ASSUME fan # NoFan, NEW s \in fan.stay
               PROVE /\ s[1] = fan.uuid
                     /\ s \notin Floored /\ fan.told[s] = 0 =>
                           \E i \in DOMAIN subs' : subs'[i] = s /\ i <= Here /\ (active # NoOne => i # Here)
    BY <1>1, <1>3 DEF StillToBeTold, Here
  <2> QED
    BY <1>4 DEF ObsInv, StillToBeTold
<1> QED
  BY <1>1, <1>2, <1>3, <1>4, <1>5 DEF ObsInv, HostInv, PluginTypeOK, CallingIsInTheLoop, Calling

LEMMA StepUnsubscribe ==
    ASSUME ObsInv, NEW pair \in Pairs, UnsubscribeMonitor(pair)
    PROVE ObsInv'
<1>1. /\ Contains(subs, pair) /\ subs' = Without(subs, pair)
      /\ fan' = IF fan = NoFan THEN fan ELSE [fan EXCEPT !.stay = @ \ {pair}]
      /\ CallFrame /\ UNCHANGED <<booked, pages, disabled, observers, copy>>
      /\ Calling => active = OwnerOf[pair[2]]
  BY DEF UnsubscribeMonitor, MayCall
<1>2. HostInv'
  BY <1>1, CallsKeepHost DEF ObsInv, HostInv, PluginTypeOK
<1>3. phase' = phase /\ active' = active
  BY <1>1 DEF CallFrame
<1>4. /\ subs' \in Seq(Pairs) /\ IsInjective(subs')
      /\ \A i \in 1 .. Len(subs) : subs[i] # pair =>
            \E j \in 1 .. Len(subs') : j \in {i, i - 1} /\ subs'[j] = subs[i]
  BY <1>1, WithoutKeeps DEF ObsInv, PluginTypeOK
<1>5. fan # NoFan =>
          /\ fan \in Fans /\ fan' \in Fans /\ fan' # NoFan /\ fan'.stay = fan.stay \ {pair}
          /\ fan'.uuid = fan.uuid /\ fan'.n = fan.n /\ fan'.k = fan.k /\ fan'.told = fan.told
  <2> SUFFICES ASSUME fan # NoFan
               PROVE /\ fan \in Fans /\ fan' \in Fans /\ fan' # NoFan /\ fan'.stay = fan.stay \ {pair}
                     /\ fan'.uuid = fan.uuid /\ fan'.n = fan.n /\ fan'.k = fan.k /\ fan'.told = fan.told
    OBVIOUS
  <2>1. fan \in Fans /\ fan' = [fan EXCEPT !.stay = fan.stay \ {pair}]
    BY <1>1, HereIsInside
  <2>2. fan' \in Fans /\ fan'.stay = fan.stay \ {pair}
        /\ fan'.uuid = fan.uuid /\ fan'.n = fan.n /\ fan'.k = fan.k /\ fan'.told = fan.told
    BY <2>1 DEF Fans
  <2> QED
    BY <2>1, <2>2, FansAreFans
<1>6. StillToBeTold'
  <2> SUFFICES ASSUME fan # NoFan, NEW s \in fan'.stay
               PROVE /\ s[1] = fan'.uuid
                     /\ s \notin Floored /\ fan'.told[s] = 0 =>
                           \E i \in DOMAIN subs' : subs'[i] = s /\ i <= Here' /\ (active' # NoOne => i # Here')
    BY <1>1 DEF StillToBeTold
  <2>1. s \in fan.stay /\ s # pair /\ s[1] = fan.uuid /\ Here' = Here /\ Here \in 1 .. fan.n /\ fan.n \in Nat
    BY <1>5, HereIsInside, FansAreFans DEF ObsInv, StillToBeTold, Here
  <2>2. active # NoOne
    BY <1>1, OwnersArePlugins, IdsAssumption DEF Calling, IdsAssumption
  <2> SUFFICES ASSUME s \notin Floored, fan.told[s] = 0
               PROVE \E i \in DOMAIN subs' : subs'[i] = s /\ i <= Here /\ i # Here
    BY <1>3, <1>5, <2>1, <2>2
  <2>3. PICK i \in DOMAIN subs : subs[i] = s /\ i <= Here /\ i # Here
    BY <2>1, <2>2 DEF ObsInv, StillToBeTold
  <2>4. i \in 1 .. Len(subs) /\ DOMAIN subs' = 1 .. Len(subs')
    BY <1>4, <2>3 DEF ObsInv, PluginTypeOK
  <2>5. PICK j \in 1 .. Len(subs') : j \in {i, i - 1} /\ subs'[j] = s
    BY <1>4, <2>1, <2>3, <2>4
  <2> QED
    BY <2>1, <2>3, <2>4, <2>5
<1>7. (fan' = NoFan <=> fan = NoFan) /\ fan' \in Fans \cup {NoFan} /\ (fan' # NoFan => fan'.k <= fan'.n)
  BY <1>1, <1>5, HereIsInside
<1> QED
  BY <1>1, <1>2, <1>3, <1>4, <1>6, <1>7 DEF ObsInv, HostInv, PluginTypeOK, CallingIsInTheLoop, Calling

LEMMA StepRosterLists ==
    ASSUME ObsInv, NEW o \in Watchers, SubscribeRoster(o) \/ UnsubscribeRoster(o)
    PROVE ObsInv'
<1>1. /\ \/ ~Contains(observers, o) /\ observers' = Append(observers, o)
         \/ Contains(observers, o) /\ observers' = Without(observers, o)
      /\ CallFrame /\ UNCHANGED <<booked, pages, disabled, subs, fan, copy>>
  BY DEF SubscribeRoster, UnsubscribeRoster
<1>2. HostInv'
  BY <1>1, CallsKeepHost DEF ObsInv, HostInv, PluginTypeOK
<1>3. phase' = phase /\ active' = active
  BY <1>1 DEF CallFrame
<1>4. observers' \in Seq(Watchers) /\ IsInjective(observers')
  <2>1. observers \in Seq(Watchers) /\ IsInjective(observers)
    BY DEF ObsInv, PluginTypeOK
  <2>2. CASE ~Contains(observers, o) /\ observers' = Append(observers, o)
    BY <2>1, <2>2, AppendKeeps
  <2>3. CASE Contains(observers, o) /\ observers' = Without(observers, o)
    BY <2>1, <2>3, WithoutKeeps
  <2> QED
    BY <1>1, <2>2, <2>3
<1> QED
  BY <1>1, <1>2, <1>3, <1>4 DEF ObsInv, HostInv, PluginTypeOK, CallingIsInTheLoop, Calling, StillToBeTold, Here

\* A fan-out begins above every subscription it is to tell.
LEMMA StepSample ==
    ASSUME ObsInv, NEW u \in Uuids, Sample(u)
    PROVE ObsInv'
<1> DEFINE f == [uuid |-> u, n |-> Len(subs), k |-> 1, stay |-> {s \in ToSet(subs) : s[1] = u},
                 told |-> [s \in Pairs |-> 0]]
<1>1. /\ phase = "up" /\ active = NoOne /\ ~Calling /\ subs # <<>> /\ fan' = f
      /\ CallFrame /\ UNCHANGED <<booked, pages, disabled, subs, observers, copy>>
  BY DEF Sample, EventLoop
<1>2. HostInv'
  BY <1>1, CallsKeepHost DEF ObsInv, HostInv, PluginTypeOK
<1>3. phase' = phase /\ active' = active
  BY <1>1 DEF CallFrame
<1>4. subs \in Seq(Pairs) /\ Len(subs) \in Nat \ {0} /\ \A s \in ToSet(subs) : \E i \in DOMAIN subs : subs[i] = s
  BY <1>1 DEF ObsInv, PluginTypeOK, ToSet
<1>5. f.stay \subseteq Pairs
  BY <1>4
<1>6. f \in Fans
  BY <1>4, <1>5 DEF Fans
<1>7. f # NoFan /\ f.k <= f.n
  <2>1. f.k = 1 /\ f.n = Len(subs)
    OBVIOUS
  <2> HIDE DEF f
  <2> QED
    BY <1>4, <1>6, <2>1, FansAreFans
<1>8. Here' = Len(subs)
  BY <1>1, <1>4 DEF Here, FanIndex
<1>9. StillToBeTold'
  <2> SUFFICES ASSUME NEW s \in f.stay
               PROVE s[1] = u /\ \E i \in DOMAIN subs : subs[i] = s /\ i <= Len(subs)
    BY <1>1, <1>3, <1>8 DEF StillToBeTold
  <2>1. s \in ToSet(subs) /\ s[1] = u
    OBVIOUS
  <2>2. PICK i \in DOMAIN subs : subs[i] = s
    BY <1>4, <2>1
  <2>3. DOMAIN subs = 1 .. Len(subs)
    BY <1>4
  <2> QED
    BY <1>4, <2>1, <2>2, <2>3
<1>10. CallingIsInTheLoop'
  BY <1>1, <1>3 DEF CallingIsInTheLoop, Calling
<1> HIDE DEF f
<1> QED
  BY <1>1, <1>2, <1>6, <1>7, <1>9, <1>10 DEF ObsInv, HostInv, PluginTypeOK

\* The end of a turn: what is not told lies below its index.
LEMMA TurnIsOver ==
    ASSUME ObsInv, fan # NoFan, PassOver \/ SampleReturns, NEW s \in fan.stay, s \notin Floored, fan.told[s] = 0
    PROVE s[1] = fan.uuid /\ \E i \in DOMAIN subs : subs[i] = s /\ i < Here
<1>1. PICK i \in DOMAIN subs : subs[i] = s /\ i <= Here /\ (active # NoOne => i # Here)
  BY DEF ObsInv, StillToBeTold
<1>2. s[1] = fan.uuid
  BY DEF ObsInv, StillToBeTold
<1>3. i \in 1 .. Len(subs) /\ Len(subs) \in Nat /\ Here \in Nat
  BY <1>1, HereIsInside, FansAreFans DEF ObsInv, PluginTypeOK
<1>4. i # Here
  <2>1. CASE SampleReturns
    BY <1>1, <2>1 DEF SampleReturns
  <2>2. CASE PassOver
    BY <1>1, <1>2, <1>3, <2>2 DEF PassOver
  <2> QED
    BY <2>1, <2>2
<1> QED
  BY <1>1, <1>2, <1>3, <1>4

LEMMA StepTurn ==
    ASSUME ObsInv, PassOver \/ SampleReturns
    PROVE ObsInv'
<1>1. /\ fan # NoFan /\ NextTurn /\ active' = NoOne /\ called' = {}
      /\ UNCHANGED <<boot, scan, entries, phase, agenda, live, startedIds, booked, pages, window, disabled,
                     subs, observers, copy>>
  BY DEF PassOver, SampleReturns, InLoop, CallFrame
<1>2. phase = "up" /\ copy = <<>>
  BY <1>1 DEF ObsInv, CallingIsInTheLoop, Calling
<1>3. HostInv'
  BY <1>1, <1>2, LoopKeeps DEF ObsInv, HostInv, PluginTypeOK
<1>4. fan \in Fans /\ fan.n \in Nat \ {0} /\ fan.k \in Nat \ {0} /\ fan.k <= fan.n /\ Here = fan.n + 1 - fan.k
  BY <1>1, HereIsInside, FansAreFans
<1>5. CASE fan' = NoFan
  BY <1>1, <1>2, <1>3, <1>5 DEF ObsInv, HostInv, PluginTypeOK, CallingIsInTheLoop, Calling, StillToBeTold
<1>6. CASE fan.k # fan.n /\ fan' = [fan EXCEPT !.k = @ + 1]
  <2>1. fan' = [fan EXCEPT !.k = fan.k + 1] /\ fan.k + 1 \in Nat \ {0} /\ fan.k + 1 <= fan.n
    BY <1>4, <1>6
  <2>2. /\ fan' \in Fans /\ fan'.k = fan.k + 1 /\ fan'.n = fan.n /\ fan'.stay = fan.stay
        /\ fan'.told = fan.told /\ fan'.uuid = fan.uuid
    BY <1>4, <2>1 DEF Fans
  <2>3. Here' = Here - 1
    BY <1>4, <2>2 DEF Here, FanIndex
  <2>4. StillToBeTold'
    <3> SUFFICES ASSUME NEW s \in fan.stay
                 PROVE /\ s[1] = fan.uuid
                       /\ s \notin Floored /\ fan.told[s] = 0 => \E i \in DOMAIN subs : subs[i] = s /\ i <= Here - 1
      BY <1>1, <2>2, <2>3 DEF StillToBeTold
    <3>1. s[1] = fan.uuid
      BY <1>1 DEF ObsInv, StillToBeTold
    <3> SUFFICES ASSUME s \notin Floored, fan.told[s] = 0 PROVE \E i \in DOMAIN subs : subs[i] = s /\ i <= Here - 1
      BY <3>1
    <3>2. PICK i \in DOMAIN subs : subs[i] = s /\ i < Here
      BY <1>1, TurnIsOver
    <3>3. i \in Int /\ Here \in Int
      BY <1>4 DEF ObsInv, PluginTypeOK
    <3> QED
      BY <3>2, <3>3
  <2> QED
    BY <1>1, <1>2, <1>3, <1>4, <2>1, <2>2, <2>4 DEF ObsInv, HostInv, PluginTypeOK, CallingIsInTheLoop, Calling
<1> QED
  BY <1>1, <1>5, <1>6 DEF NextTurn

LEMMA StepCallSample ==
    ASSUME ObsInv, CallSample
    PROVE ObsInv'
<1> DEFINE h == subs[Here]
<1>1. /\ fan # NoFan /\ active = NoOne /\ Here <= Len(subs) /\ h[1] = fan.uuid
      /\ active' = OwnerOf[h[2]] /\ called' = {active'} /\ fan' = [fan EXCEPT !.told[h] = @ + 1]
      /\ UNCHANGED <<boot, scan, entries, phase, agenda, live, startedIds, booked, pages, window, disabled,
                     subs, observers, copy>>
  BY DEF CallSample, InLoop
<1>2. phase = "up" /\ copy = <<>>
  BY <1>1 DEF ObsInv, CallingIsInTheLoop, Calling
<1>3. fan \in Fans /\ fan.told \in [Pairs -> Nat] /\ Here \in 1 .. fan.n /\ fan.n \in Nat /\ fan.k <= fan.n
  BY <1>1, HereIsInside, FansAreFans
<1>4. subs \in Seq(Pairs) /\ Here \in 1 .. Len(subs) /\ h \in Pairs
  BY <1>1, <1>3 DEF ObsInv, PluginTypeOK
<1>5. active' \in Ids /\ called' \subseteq Ids
  BY <1>1, <1>4, OwnersArePlugins
<1>6. HostInv'
  BY <1>1, <1>2, <1>5, LoopKeeps DEF ObsInv, HostInv, PluginTypeOK
<1> DEFINE tell == [fan.told EXCEPT ![h] = fan.told[h] + 1]
<1>7. fan' = [fan EXCEPT !.told = tell]
  BY <1>1, <1>3 DEF Fans
<1>8. tell \in [Pairs -> Nat] /\ tell[h] # 0 /\ \A s \in Pairs : s # h => tell[s] = fan.told[s]
  BY <1>3, <1>4
<1> HIDE DEF tell
<1>9. /\ fan' \in Fans /\ fan'.k = fan.k /\ fan'.n = fan.n /\ fan'.stay = fan.stay
      /\ fan'.told = tell /\ fan'.uuid = fan.uuid
  BY <1>3, <1>7, <1>8 DEF Fans
<1>10. Here' = Here
  BY <1>9 DEF Here
<1>11. StillToBeTold'
  <2> SUFFICES ASSUME NEW s \in fan.stay
               PROVE /\ s[1] = fan.uuid
                     /\ s \notin Floored /\ tell[s] = 0 => \E i \in DOMAIN subs : subs[i] = s /\ i <= Here /\ i # Here
    BY <1>1, <1>9, <1>10 DEF StillToBeTold
  <2>1. s[1] = fan.uuid /\ s \in Pairs
    BY <1>1, <1>3, FansAreFans DEF ObsInv, StillToBeTold
  <2> SUFFICES ASSUME s \notin Floored, tell[s] = 0
               PROVE \E i \in DOMAIN subs : subs[i] = s /\ i <= Here /\ i # Here
    BY <2>1
  <2>2. s # h /\ fan.told[s] = 0
    BY <1>8, <2>1
  <2>3. PICK i \in DOMAIN subs : subs[i] = s /\ i <= Here
    BY <1>1, <2>2 DEF ObsInv, StillToBeTold
  <2> QED
    BY <2>2, <2>3
<1> QED
  BY <1>1, <1>2, <1>3, <1>6, <1>9, <1>11 DEF ObsInv, HostInv, PluginTypeOK, CallingIsInTheLoop, Calling

LEMMA StepRoster ==
    ASSUME ObsInv, RosterChanges \/ CallRosterChanged \/ RosterChangedReturns
    PROVE ObsInv'
<1>1. CASE RosterChanges
  <2>1. /\ phase = "up" /\ fan = NoFan /\ copy' = observers
        /\ CallFrame /\ UNCHANGED <<booked, pages, disabled, subs, observers, fan>>
    BY <1>1 DEF RosterChanges, EventLoop, Calling
  <2>2. HostInv' /\ phase' = phase
    BY <2>1, CallsKeepHost DEF ObsInv, HostInv, PluginTypeOK, CallFrame
  <2> QED
    BY <2>1, <2>2 DEF ObsInv, HostInv, PluginTypeOK, CallingIsInTheLoop, StillToBeTold
<1>2. CASE CallRosterChanged \/ RosterChangedReturns
  <2>1. /\ copy # <<>> /\ copy' \in {copy, Tail(copy)} /\ called' \subseteq {active'}
        /\ active' \in {NoOne, OwnerOf[Head(copy)]} /\ (active' = NoOne => called' = {})
        /\ UNCHANGED <<boot, scan, entries, phase, agenda, live, startedIds, booked, pages, window, disabled,
                       subs, observers, fan>>
    <3>1. copy \in Seq(Watchers) /\ (copy # <<>> => Head(copy) \in Watchers)
      BY DEF ObsInv, PluginTypeOK
    <3>2. copy # <<>> => OwnerOf[Head(copy)] # NoOne
      BY <3>1, OwnersArePlugins, IdsAssumption DEF IdsAssumption
    <3> QED
      BY <1>2, <3>2 DEF CallRosterChanged, RosterChangedReturns
  <2>2. copy \in Seq(Watchers) /\ Tail(copy) \in Seq(Watchers) /\ Head(copy) \in Watchers
    BY <2>1 DEF ObsInv, PluginTypeOK
  <2>3. phase = "up" /\ fan = NoFan
    BY <2>1 DEF ObsInv, CallingIsInTheLoop, Calling
  <2>4. active' \in Ids \cup {NoOne} /\ called' \subseteq Ids /\ copy' \in Seq(Watchers)
    BY <2>1, <2>2, OwnersArePlugins, IdsAssumption DEF IdsAssumption
  <2>5. HostInv'
    BY <2>1, <2>3, <2>4, LoopKeeps DEF ObsInv, HostInv, PluginTypeOK
  <2> QED
    BY <2>1, <2>3, <2>4, <2>5 DEF ObsInv, HostInv, PluginTypeOK, CallingIsInTheLoop, StillToBeTold
<1> QED
  BY <1>1, <1>2

LEMMA StepHost ==
    ASSUME ObsInv, Calling => active # NoOne, HostLife, UNCHANGED obsVars
    PROVE ObsInv'
<1>1. HostInv'
  BY HostLifeStep DEF ObsInv, HostInv, PluginTypeOK
<1>2. Calling => UNCHANGED <<phase, active>>
  BY HostKeepsLoop DEF ObsInv, CallingIsInTheLoop
<1> QED
  BY <1>1, <1>2 DEF ObsInv, HostInv, PluginTypeOK, CallingIsInTheLoop, Calling, StillToBeTold, Here, obsVars

LEMMA StepNextPanel ==
    ASSUME ObsInv, NextPanel
    PROVE ObsInv'
<1>1. Restart /\ phase = "off" /\ subs' = <<>> /\ observers' = <<>> /\ UNCHANGED <<fan, copy>>
  BY DEF NextPanel, Restart
<1>2. HostInv'
  BY <1>1, StepRestart DEF ObsInv, HostInv, PluginTypeOK
<1>3. ~Calling /\ ~Calling'
  BY <1>1 DEF ObsInv, CallingIsInTheLoop, Calling
<1>4. IsInjective(<<>>)
  BY DEF IsInjective
<1> QED
  BY <1>1, <1>2, <1>3, <1>4 DEF ObsInv, HostInv, PluginTypeOK, CallingIsInTheLoop, Calling, StillToBeTold

LEMMA ObsStep == ObsInv /\ [PluginNext]_pluginVars => ObsInv'
<1> SUFFICES ASSUME ObsInv, [PluginNext]_pluginVars PROVE ObsInv'
  OBVIOUS
<1>1. CASE UNCHANGED pluginVars
  <2>1. UNCHANGED <<boot, scan, entries, phase, agenda, active, live, startedIds, booked, pages, window, disabled,
                    called, subs, observers, fan, copy>>
    BY <1>1 DEF pluginVars, hostVars, obsVars
  <2> QED
    BY <2>1 DEF ObsInv, PluginTypeOK, HostTypeOK, StoppedIsOver, CallingIsInTheLoop, Calling, StillToBeTold, Here
<1>2. CASE ObserversNext
  BY <1>2, StepSubscribe, StepUnsubscribe, StepRosterLists, StepSample, StepTurn, StepCallSample, StepRoster
     DEF ObserversNext
<1> QED
  BY <1>1, <1>2, StepHost, StepNextPanel DEF PluginNext

LEMMA ObsStarts == PluginInit => ObsInv
<1> SUFFICES ASSUME PluginInit PROVE ObsInv
  OBVIOUS
<1>1. boot \in Seq(Candidates) /\ disabled \subseteq Ids
  BY BootsAssumption, BooksAssumption DEF BootsAssumption, BooksAssumption, PluginInit, HostInit
<1>2. IsInjective(<<>>)
  BY DEF IsInjective
<1> QED
  BY <1>1, <1>2 DEF PluginInit, HostInit, ObserversInit, ObsInv, PluginTypeOK, HostTypeOK, StoppedIsOver,
                    CallingIsInTheLoop, Calling, StillToBeTold

LEMMA ObsIsPlugin == ObsInv => PluginInv
BY Silent DEF ObsInv, HostInv, PluginTypeOK, PluginInv

(* Once a plugin is Stopped nothing calls into it, whatever its shutdown()  *)
(* forgot to take back (PluginHost.cpp:431-464); and a subscription a       *)
(* fan-out has not told yet lies where its loop has yet to come             *)
(* (PluginContextImpl.cpp:1187-1192).                                       *)
THEOREM PluginInvHolds == PluginSpec => []PluginInv
<1>1. PluginSpec => []ObsInv
  BY ObsStarts, ObsStep, PTL DEF PluginSpec
<1> QED
  BY <1>1, ObsIsPlugin, PTL

LEMMA FanOutEnds ==
    ASSUME ObsInv, [PluginNext]_pluginVars, fan # NoFan, fan' = NoFan
    PROVE \A s \in fan.stay \ Floored : fan.told[s] >= 1
<1>1. fan \in Fans /\ fan.stay \subseteq Pairs /\ fan.told \in [Pairs -> Nat] /\ fan.n \in Nat /\ fan.k \in Nat
      /\ Here = fan.n + 1 - fan.k
  BY HereIsInside, FansAreFans
<1>2. (PassOver \/ SampleReturns) /\ NextTurn
  <2>1. fan' # fan
    OBVIOUS
  <2>2. ASSUME NEW pair \in Pairs, UnsubscribeMonitor(pair) PROVE FALSE
    <3>1. fan' = [fan EXCEPT !.stay = @ \ {pair}]
      BY <2>2 DEF UnsubscribeMonitor
    <3>2. fan'.n = fan.n /\ fan.n # 0
      BY <1>1, <3>1, FansAreFans DEF Fans
    <3> QED
      BY <3>2 DEF NoFan
  <2>3. CASE CallSample
    <3>1. fan' = [fan EXCEPT !.told[subs[Here]] = @ + 1]
      BY <2>3 DEF CallSample
    <3>2. fan'.n = fan.n /\ fan.n # 0
      BY <1>1, <3>1, FansAreFans DEF Fans
    <3> QED
      BY <3>2 DEF NoFan
  <2>4. PassOver \/ SampleReturns
    BY <2>1, <2>2, <2>3 DEF PluginNext, NextPanel, ObserversNext, SubscribeMonitor, SubscribeRoster, UnsubscribeRoster,
       Sample, Calling, RosterChanges, CallRosterChanged, RosterChangedReturns, pluginVars, obsVars
  <2> QED
    BY <2>4 DEF PassOver, SampleReturns
<1>3. fan.k = fan.n
  <2> SUFFICES ASSUME fan' = [fan EXCEPT !.k = @ + 1] PROVE FALSE
    BY <1>2 DEF NextTurn
  <2>1. fan'.n = fan.n /\ fan.n # 0
    BY <1>1, FansAreFans DEF Fans
  <2> QED
    BY <2>1 DEF NoFan
<1> SUFFICES ASSUME NEW s \in fan.stay, s \notin Floored, fan.told[s] = 0 PROVE FALSE
  BY <1>1
<1>4. PICK i \in DOMAIN subs : i < Here
  BY <1>2, TurnIsOver
<1>5. i \in Nat \ {0}
  BY DEF ObsInv, PluginTypeOK
<1> QED
  BY <1>1, <1>3, <1>4, <1>5

(* Whatever the callbacks of a sample take back, every subscription that is *)
(* there from the first turn to the last and has no interval is told        *)
(* (PluginContextImpl.cpp:1187-1192).                                       *)
THEOREM EveryRemainingIsToldHolds == PluginSpec => EveryRemainingIsTold
<1>1. PluginSpec => []ObsInv
  BY ObsStarts, ObsStep, PTL DEF PluginSpec
<1>2. ObsInv /\ [PluginNext]_pluginVars =>
          [fan # NoFan /\ fan' = NoFan => \A s \in fan.stay \ Floored : fan.told[s] >= 1]_pluginVars
  BY FanOutEnds
<1> QED
  BY <1>1, <1>2, PTL DEF PluginSpec, EveryRemainingIsTold

-----------------------------------------------------------------------------
(* Both sides *)

\* What the run explores are behaviours of the host's side and of the calls' side.
LEMMA BothSides == BorderSpec => PluginSpec /\ ApiSpec
<1>1. BorderInit => PluginInit /\ ApiInit
  BY DEF BorderInit
<1>2. [BorderNext]_<<pluginVars, apiVars, side>> => [PluginNext]_pluginVars /\ [ApiNext]_apiVars
  BY DEF BorderNext
<1> QED
  BY <1>1, <1>2, PTL DEF BorderSpec, PluginSpec, ApiSpec

(* At the plugin border as a whole a stopped plugin is not called, a        *)
(* removed resource is forgotten, a mount is recorded (PluginHost.cpp,      *)
(* PluginContextImpl.cpp).                                                  *)
THEOREM BorderHolds == BorderSpec => [](PluginInv /\ RemovedIsForgotten /\ MountIsRecorded)
BY BothSides, PluginInvHolds, RemovedIsForgottenHolds, MountIsRecordedHolds, PTL
=============================================================================
