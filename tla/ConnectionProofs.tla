-------------------------- MODULE ConnectionProofs --------------------------
(***************************************************************************)
(* Proofs about the two ends of the connection between the panel and its   *)
(* renderers.                                                              *)
(*                                                                         *)
(* WsServer, PendingRequests and the layer that joins them, for any sets   *)
(* of instances, tokens, origins, frames and ids and any bounds: what the  *)
(* sessions are told is true, a session hears only the socket accepted     *)
(* last for it, and no expectation is resolved twice.                      *)
(*                                                                         *)
(* FramePacing and RendererLoop, for any number of frames in flight, any   *)
(* ring of copies, any capacity of the inbound queue and any number of     *)
(* messages: the main loop never waits for a fence nobody signals, a copy  *)
(* that is read is of a frame in flight, and commands run in the order     *)
(* they came with the newest never dropped.                                *)
(***************************************************************************)
EXTENDS MessageLayer, RendererLoop, WellFoundedInduction, TLAPS

-----------------------------------------------------------------------------
(* The socket tables *)

\* The instance found for a socket is one that has this socket.
LEMMA FoundHasTheSocket ==
    ASSUME NEW s \in Sockets, FindInstanceIdForSocket(s) # NoInstance
    PROVE /\ FindInstanceIdForSocket(s) \in Instances
          /\ connections[FindInstanceIdForSocket(s)] = s
BY DEF FindInstanceIdForSocket

\* A socket for which no instance is found is active nowhere.
LEMMA UnfoundIsNowhere ==
    ASSUME NEW s \in Sockets, FindInstanceIdForSocket(s) = NoInstance
    PROVE \A i \in Instances : connections[i] # s
BY ServerAssumption DEF FindInstanceIdForSocket

LEMMA NoSocketIsNone ==
    NoSocket \notin Sockets
BY ServerAssumption DEF Sockets, NoSocket

\* Two instances never share their active socket.
LEMMA ActiveIsOwned ==
    ASSUME ActiveIsLatest, NEW i \in Instances, NEW j \in Instances,
           connections[i] = connections[j], connections[i] # NoSocket
    PROVE i = j
BY DEF ActiveIsLatest

LEMMA ServerInitially == ServerInit => ServerInv
<1> SUFFICES ASSUME ServerInit PROVE ServerInv
  OBVIOUS
<1> USE DEF ServerInit
<1>1. ServerTypeOK
  BY DEF ServerTypeOK, Fresh
<1>2. ToldIsTrue
  BY DEF ToldIsTrue
<1>3. TablesAgree /\ ActiveIsLatest /\ UnreadyIsTimed
  BY DEF TablesAgree, ActiveIsLatest, UnreadyIsTimed
<1> QED
  BY <1>1, <1>2, <1>3 DEF ServerInv

\* A step that leaves the tables alone, closes no active socket and takes no
\* ready back keeps the invariant: every frame, every rejection, every token.
LEMMA TablesAlone ==
    ASSUME ServerInv, ServerTypeOK',
           UNCHANGED <<serving, connections, infos, told, latest>>,
           isReady \subseteq isReady',
           \A i \in Instances : connections[i] # NoSocket =>
              /\ socket'[connections[i]].inst = socket[connections[i]].inst
              /\ socket'[connections[i]].phase = socket[connections[i]].phase
              /\ connections[i] \notin isReady' => readyTimers'[i] = readyTimers[i]
    PROVE ServerInv'
<1> USE DEF ServerInv
<1>1. ToldIsTrue' /\ TablesAgree'
  BY DEF ToldIsTrue, TablesAgree
<1>2. ActiveIsLatest'
  BY DEF ActiveIsLatest
<1>3. UnreadyIsTimed'
  BY DEF UnreadyIsTimed
<1> QED
  BY <1>1, <1>2, <1>3

LEMMA RejectedKeeps ==
    ASSUME ServerInv, NEW s \in Sockets, NEW origin, NEW i, NEW t,
           Rejected(s, origin, i, t)
    PROVE ServerInv'
<1>1. ServerTypeOK'
  BY DEF ServerInv, ServerTypeOK, Rejected
<1>2. \A j \in Instances : connections[j] # NoSocket => connections[j] # s
  BY DEF ServerInv, ActiveIsLatest, Rejected, Arrives
<1> QED
  BY <1>1, <1>2, TablesAlone DEF Rejected, ServerInv, ServerTypeOK

LEMMA AcceptedKeeps ==
    ASSUME ServerInv, NEW s \in Sockets, NEW origin, NEW i \in Instances \cup {NoInstance},
           NEW t, Accepted(s, origin, i, t)
    PROVE ServerInv'
<1>1. i \in Instances
  BY DEF Accepted, Gate
<1>2. s # NoSocket /\ \A j \in Instances : connections[j] # NoSocket => connections[j] # s
  BY NoSocketIsNone DEF ServerInv, ActiveIsLatest, Accepted, Arrives
<1>3. ServerTypeOK'
  <2> DEFINE Old == IF connections[i] # NoSocket THEN Closing(connections[i]) ELSE socket
  <2> DEFINE Table == [Sockets -> [phase : {"none", "open", "closing", "gone"},
                                   inst : Instances \cup {NoInstance}, out : Seq(Frames)]]
  <2>1. Old \in Table
    BY <1>1 DEF ServerInv, ServerTypeOK, Closing
  <2>2. [phase |-> "open", inst |-> i, out |-> <<>>]
           \in [phase : {"none", "open", "closing", "gone"},
                inst : Instances \cup {NoInstance}, out : Seq(Frames)]
    BY <1>1
  <2>3. socket' = [Old EXCEPT ![s] = [phase |-> "open", inst |-> i, out |-> <<>>]]
    BY Zenon DEF Accepted
  <2> HIDE DEF Old
  <2>4. socket' \in Table
    <3> DEFINE mine == [phase |-> "open", inst |-> i, out |-> <<>>]
    <3> HIDE DEF mine
    <3> QED
      BY <2>1, <2>2, <2>3 DEF mine
  <2> QED
    BY <1>1, <2>4 DEF ServerInv, ServerTypeOK, Accepted
<1>4. ToldIsTrue' /\ TablesAgree'
  BY <1>1, <1>2 DEF ServerInv, ServerTypeOK, ToldIsTrue, TablesAgree, Accepted
<1>5. socket'[s].inst = i /\ socket'[s].phase = "open"
  BY <1>1 DEF ServerInv, ServerTypeOK, Accepted, Closing, Fresh
<1>6. \A j \in Instances \ {i} : connections[j] # NoSocket =>
         socket'[connections[j]] = socket[connections[j]]
  <2> SUFFICES ASSUME NEW j \in Instances \ {i}, connections[j] # NoSocket
               PROVE socket'[connections[j]] = socket[connections[j]]
    OBVIOUS
  <2>1. connections[j] # s /\ connections[j] # connections[i] /\ connections[j] \in Sockets
    BY <1>1, <1>2, ActiveIsOwned DEF ServerInv, ServerTypeOK
  <2> QED
    BY <2>1 DEF ServerInv, ServerTypeOK, Accepted, Closing
<1>7. ActiveIsLatest'
  <2>1. /\ connections' = [connections EXCEPT ![i] = s] /\ latest' = [latest EXCEPT ![i] = s]
        /\ connections' \in [Instances -> Sockets \cup {NoSocket}]
        /\ latest' \in [Instances -> Sockets \cup {NoSocket}]
    BY <1>1 DEF ServerInv, ServerTypeOK, Accepted
  <2> SUFFICES ASSUME NEW j \in Instances, connections'[j] # NoSocket
               PROVE /\ latest'[j] = connections'[j]
                     /\ socket'[connections'[j]].inst = j
                     /\ socket'[connections'[j]].phase = "open"
    BY DEF ActiveIsLatest
  <2>2. CASE j = i
    BY <1>1, <1>5, <2>1, <2>2 DEF ServerInv, ServerTypeOK
  <2>3. CASE j # i
    <3>1. connections'[j] = connections[j] /\ latest'[j] = latest[j]
      BY <1>1, <2>1, <2>3 DEF ServerInv, ServerTypeOK
    <3> QED
      BY <1>6, <2>3, <3>1 DEF ServerInv, ActiveIsLatest
  <2> QED
    BY <2>2, <2>3
<1>8. UnreadyIsTimed'
  BY <1>1 DEF ServerInv, ServerTypeOK, UnreadyIsTimed, Accepted
<1> QED
  BY <1>3, <1>4, <1>7, <1>8 DEF ServerInv

LEMMA PeerSendsKeeps ==
    ASSUME ServerInv, NEW s \in Sockets, NEW f \in Frames, PeerSends(s, f)
    PROVE ServerInv'
<1>1. ServerTypeOK'
  <2>1. Append(socket[s].out, f) \in Seq(Frames)
    BY DEF ServerInv, ServerTypeOK
  <2> QED
    BY <2>1 DEF ServerInv, ServerTypeOK, PeerSends
<1> QED
  BY <1>1, TablesAlone DEF PeerSends, ServerInv, ServerTypeOK

LEMMA ConsumedKeepsType ==
    ASSUME ServerTypeOK, NEW s \in Sockets, socket[s].out # <<>>, Consumed(s)
    PROVE /\ socket' \in [Sockets -> [phase : {"none", "open", "closing", "gone"},
                                      inst : Instances \cup {NoInstance}, out : Seq(Frames)]]
          /\ \A r \in Sockets : /\ socket'[r].inst = socket[r].inst
                                /\ socket'[r].phase = socket[r].phase
<1>1. Tail(socket[s].out) \in Seq(Frames)
  BY DEF ServerTypeOK
<1> QED
  BY <1>1 DEF ServerTypeOK, Consumed

LEMMA TextDroppedKeeps ==
    ASSUME ServerInv, NEW s \in Sockets, TextDropped(s)
    PROVE ServerInv'
<1>1. ServerTypeOK'
  BY ConsumedKeepsType DEF ServerInv, ServerTypeOK, TextDropped
<1> QED
  BY <1>1, ConsumedKeepsType, TablesAlone DEF TextDropped, ServerInv, ServerTypeOK

\* A ready stops the timer of the instance whose socket said it.
LEMMA TextReceivedKeeps ==
    ASSUME ServerInv, NEW s \in Sockets, TextReceived(s)
    PROVE ServerInv'
<1> DEFINE i == FindInstanceIdForSocket(s)
<1>1. i \in Instances /\ connections[i] = s
  BY FoundHasTheSocket DEF TextReceived
<1> HIDE DEF i
<1>2. ServerTypeOK'
  BY <1>1, ConsumedKeepsType DEF ServerInv, ServerTypeOK, TextReceived, i
<1>3. isReady \subseteq isReady'
  BY DEF TextReceived
<1>4. \A j \in Instances : connections[j] # NoSocket /\ connections[j] \notin isReady' =>
         readyTimers'[j] = readyTimers[j]
  BY <1>1 DEF ServerInv, ServerTypeOK, TextReceived, i
<1> QED
  BY <1>2, <1>3, <1>4, ConsumedKeepsType, TablesAlone
     DEF TextReceived, ServerInv, ServerTypeOK

LEMMA OnDisconnectedKeeps ==
    ASSUME ServerInv, NEW s \in Sockets, OnDisconnected(s)
    PROVE ServerInv'
<1> DEFINE i == FindInstanceIdForSocket(s)
<1> DEFINE gone == [socket EXCEPT ![s] = [phase |-> "gone", inst |-> @.inst, out |-> <<>>]]
<1>1. gone \in [Sockets -> [phase : {"none", "open", "closing", "gone"},
                            inst : Instances \cup {NoInstance}, out : Seq(Frames)]]
      /\ socket' = gone
      /\ \A r \in Sockets \ {s} : gone[r] = socket[r]
  <2> DEFINE ended == [phase |-> "gone", inst |-> socket[s].inst, out |-> <<>>]
  <2>1. gone = [socket EXCEPT ![s] = ended]
    OBVIOUS
  <2>2. ended \in [phase : {"none", "open", "closing", "gone"},
                   inst : Instances \cup {NoInstance}, out : Seq(Frames)]
    BY DEF ServerInv, ServerTypeOK
  <2> HIDE DEF gone, ended
  <2>3. socket' = gone
    BY DEF OnDisconnected, gone
  <2> QED
    BY <2>1, <2>2, <2>3 DEF ServerInv, ServerTypeOK
<1> HIDE DEF gone
<1>2. CASE i = NoInstance
  <2>1. ServerTypeOK'
    BY <1>1, <1>2 DEF OnDisconnected, ServerInv, ServerTypeOK
  <2>2. \A j \in Instances : connections[j] # s
    BY <1>2, UnfoundIsNowhere
  <2> QED
    BY <1>1, <1>2, <2>1, <2>2, TablesAlone DEF OnDisconnected, ServerInv, ServerTypeOK
<1>3. CASE i # NoInstance
  <2>1. i \in Instances /\ connections[i] = s
    BY <1>3, FoundHasTheSocket
  <2>2. Forget(i) /\ UNCHANGED <<serving, tokens, latest, isReady>>
    BY <1>3 DEF OnDisconnected
  <2> HIDE DEF i
  <2>3. ServerTypeOK'
    BY <1>1, <2>1, <2>2 DEF Forget, ServerInv, ServerTypeOK
  <2>4. ToldIsTrue' /\ TablesAgree'
    BY <2>1, <2>2 DEF Forget, ServerInv, ServerTypeOK, ToldIsTrue, TablesAgree
  <2>5. \A j \in Instances \ {i} : connections[j] # NoSocket => connections[j] # s
    BY <2>1, ActiveIsOwned DEF ServerInv
  <2>6. ActiveIsLatest'
    BY <1>1, <2>1, <2>2, <2>5 DEF Forget, ServerInv, ServerTypeOK, ActiveIsLatest
  <2>7. UnreadyIsTimed'
    BY <2>1, <2>2 DEF Forget, ServerInv, ServerTypeOK, UnreadyIsTimed
  <2> QED
    BY <2>3, <2>4, <2>6, <2>7 DEF ServerInv
<1> QED
  BY <1>2, <1>3

LEMMA ReadyTimeoutKeeps ==
    ASSUME ServerInv, NEW i \in Instances, ReadyTimeout(i)
    PROVE ServerInv'
<1>1. ServerTypeOK'
  BY DEF ServerInv, ServerTypeOK, ReadyTimeout, Closing
<1>2. ToldIsTrue' /\ TablesAgree'
  BY DEF ReadyTimeout, ServerInv, ServerTypeOK, ToldIsTrue, TablesAgree
<1>3. \A j \in Instances \ {i} : connections[j] # NoSocket =>
         socket'[connections[j]] = socket[connections[j]]
  BY ActiveIsOwned DEF ReadyTimeout, ServerInv, ServerTypeOK, Closing
<1>4. ActiveIsLatest'
  BY <1>3 DEF ReadyTimeout, ServerInv, ServerTypeOK, ActiveIsLatest
<1>5. UnreadyIsTimed'
  BY DEF ReadyTimeout, ServerInv, ServerTypeOK, UnreadyIsTimed
<1> QED
  BY <1>1, <1>2, <1>4, <1>5 DEF ServerInv

LEMMA RegisterTokenKeeps ==
    ASSUME ServerInv, NEW i \in Instances, NEW t \in Tokens, RegisterToken(i, t)
    PROVE ServerInv'
<1>1. ServerTypeOK'
  BY DEF ServerInv, ServerTypeOK, RegisterToken
<1> QED
  BY <1>1, TablesAlone DEF RegisterToken

LEMMA CloseServerKeeps ==
    ASSUME ServerInv, CloseServer
    PROVE ServerInv'
<1>1. ServerTypeOK'
  BY DEF ServerInv, ServerTypeOK, CloseServer
<1>2. ToldIsTrue' /\ TablesAgree'
  BY DEF CloseServer, ToldIsTrue, TablesAgree
<1>3. ActiveIsLatest' /\ UnreadyIsTimed'
  BY DEF CloseServer, ActiveIsLatest, UnreadyIsTimed
<1> QED
  BY <1>1, <1>2, <1>3 DEF ServerInv

LEMMA ServerUnchanged ==
    ASSUME ServerInv, UNCHANGED otherVars PROVE ServerInv'
BY DEF ServerInv, ServerTypeOK, ToldIsTrue, TablesAgree, ActiveIsLatest, UnreadyIsTimed,
       otherVars

LEMMA ServerKeeps ==
    ASSUME ServerInv, Server PROVE ServerInv'
<1>1. CASE \E s \in Sockets : TextDropped(s) \/ OnDisconnected(s)
  BY <1>1, TextDroppedKeeps, OnDisconnectedKeeps
<1>2. CASE \E s \in Sockets, origin \in Origins, i \in Instances \cup {NoInstance}, t \in Tokens :
              Rejected(s, origin, i, t) \/ Accepted(s, origin, i, t)
  BY <1>2, RejectedKeeps, AcceptedKeeps
<1>3. CASE \E i \in Instances : ReadyTimeout(i)
  BY <1>3, ReadyTimeoutKeeps
<1>4. CASE \E i \in Instances, t \in Tokens : tokens[i] # t /\ RegisterToken(i, t)
  BY <1>4, RegisterTokenKeeps
<1>5. CASE CloseServer
  BY <1>5, CloseServerKeeps
<1> QED
  BY <1>1, <1>2, <1>3, <1>4, <1>5 DEF Server

-----------------------------------------------------------------------------
(* The table of pending requests *)

LEMMA PendingInitially == PendingInit => PendingInv
BY PendingAssumption
   DEF PendingInit, PendingInv, PendingTypeOK, EntriesAreOpen, OpenIsExpected, Expectations

\* A new expectation takes the entry of its id; the one it replaces, if any,
\* is remembered as overwritten.
LEMMA InstallKeeps ==
    ASSUME PendingInv, NEW id \in Ids, Install(id),
           slots' \in Seq([id : Ids, then : {"install", "return"}])
    PROVE PendingInv'
<1> DEFINE e == Len(idOf) + 1
<1>1. /\ Len(idOf) \in Nat /\ e \in 1 .. MaxExpectations /\ e # 0
      /\ \A d \in 1 .. Len(idOf) : d \in 1 .. e /\ d # e /\ d # 0
      /\ 1 .. e = (1 .. Len(idOf)) \cup {e}
  BY PendingAssumption DEF PendingInv, PendingTypeOK, Install
<1>2. /\ Len(idOf') = e /\ Len(outcome') = e
      /\ idOf'[e] = id /\ outcome'[e] = "open"
      /\ \A d \in 1 .. Len(idOf) : idOf'[d] = idOf[d] /\ outcome'[d] = outcome[d]
      /\ idOf' \in Seq(Ids)
      /\ outcome' \in Seq({"open", "response", "timeout", "superseded"})
  BY DEF PendingInv, PendingTypeOK, Install
<1>3. Expectations' = Expectations \cup {e} /\ Expectations = 1 .. Len(idOf)
  BY <1>1, <1>2 DEF Expectations
<1>4. /\ entries' = [entries EXCEPT ![id] = e] /\ timers' = timers \cup {e}
      /\ entries[id] # 0 => overwritten' = overwritten \cup {entries[id]}
      /\ entries[id] = 0 => overwritten' = overwritten
  BY DEF Install
<1> HIDE DEF e
<1>5. PendingTypeOK'
  <2>1. entries' \in [Ids -> 0 .. MaxExpectations] /\ Len(idOf') <= MaxExpectations
    BY <1>1, <1>2, <1>4, PendingAssumption DEF PendingInv, PendingTypeOK
  <2>2. timers' \subseteq Expectations' /\ overwritten' \subseteq Expectations'
    BY <1>3, <1>4 DEF PendingInv, PendingTypeOK, EntriesAreOpen
  <2> QED
    BY <1>2, <2>1, <2>2 DEF PendingTypeOK
<1>6. EntriesAreOpen'
  BY <1>1, <1>2, <1>3, <1>4 DEF PendingInv, PendingTypeOK, EntriesAreOpen
<1>7. OpenIsExpected'
  <2> SUFFICES ASSUME NEW d \in Expectations', outcome'[d] = "open", d \notin overwritten'
               PROVE entries'[idOf'[d]] = d
    BY DEF OpenIsExpected
  <2>1. CASE d = e
    BY <1>2, <1>4, <2>1 DEF PendingInv, PendingTypeOK
  <2>2. CASE d # e
    <3>1. d \in 1 .. Len(idOf) /\ outcome[d] = "open" /\ d \notin overwritten
      BY <1>2, <1>3, <1>4, <2>2
    <3>2. idOf[d] \in Ids /\ entries[idOf[d]] = d
      BY <1>3, <3>1 DEF PendingInv, PendingTypeOK, OpenIsExpected
    <3>3. idOf[d] # id
      BY <1>1, <1>3, <1>4, <3>1, <3>2
    <3> QED
      BY <1>2, <1>4, <3>1, <3>2, <3>3 DEF PendingInv, PendingTypeOK
  <2> QED
    BY <2>1, <2>2
<1> QED
  BY <1>5, <1>6, <1>7 DEF PendingInv

\* The entry of an id goes with its timer and the timer that fired, which
\* was an expectation of the same id.
LEMMA ResolveEntryKeeps ==
    ASSUME PendingInv, NEW id \in Ids, NEW how \in {"response", "timeout", "superseded"},
           NEW fired \in SUBSET Expectations, \A e \in fired : idOf[e] = id,
           NEW then \in {"install", "return"}, ResolveEntry(id, how, fired, then)
    PROVE PendingInv'
<1> DEFINE e == entries[id]
<1>1. e # 0 /\ e \in Expectations /\ idOf[e] = id /\ e \in 1 .. Len(outcome)
  BY DEF PendingInv, PendingTypeOK, EntriesAreOpen, Expectations, ResolveEntry
<1>2. /\ entries' = [entries EXCEPT ![id] = 0]
      /\ timers' = (timers \ {e}) \ fired
      /\ UNCHANGED <<idOf, overwritten>>
  BY DEF ResolveEntry
<1>3. /\ outcome' \in Seq({"open", "response", "timeout", "superseded"})
      /\ Len(outcome') = Len(outcome)
      /\ outcome'[e] = how
      /\ \A d \in 1 .. Len(outcome) : d # e => outcome'[d] = outcome[d]
  BY <1>1 DEF PendingInv, PendingTypeOK, ResolveEntry
<1>4. slots' \in Seq([id : Ids, then : {"install", "return"}])
  BY DEF PendingInv, PendingTypeOK, ResolveEntry
<1>5. Expectations' = Expectations /\ Expectations = 1 .. Len(outcome)
  BY <1>2 DEF Expectations, PendingInv, PendingTypeOK
<1> HIDE DEF e
<1>6. PendingTypeOK'
  <2>1. entries' \in [Ids -> 0 .. MaxExpectations]
    BY <1>2, PendingAssumption DEF PendingInv, PendingTypeOK
  <2>2. Len(outcome') = Len(idOf')
    BY <1>2, <1>3 DEF PendingInv, PendingTypeOK
  <2>3. timers' \subseteq Expectations' /\ overwritten' \subseteq Expectations'
    BY <1>2, <1>5 DEF PendingInv, PendingTypeOK
  <2> QED
    BY <1>2, <1>3, <1>4, <2>1, <2>2, <2>3 DEF PendingInv, PendingTypeOK
<1>7. EntriesAreOpen'
  <2> SUFFICES ASSUME NEW j \in Ids, entries'[j] # 0
               PROVE /\ entries'[j] \in Expectations' /\ idOf'[entries'[j]] = j
                     /\ outcome'[entries'[j]] = "open" /\ entries'[j] \in timers'
    BY DEF EntriesAreOpen
  <2>1. j # id /\ entries'[j] = entries[j]
    BY <1>2 DEF PendingInv, PendingTypeOK
  <2>2. /\ entries[j] \in Expectations /\ idOf[entries[j]] = j
        /\ outcome[entries[j]] = "open" /\ entries[j] \in timers
    BY <2>1 DEF PendingInv, EntriesAreOpen
  <2>3. entries[j] # e /\ entries[j] \notin fired
    BY <1>1, <2>1, <2>2
  <2> QED
    BY <1>2, <1>3, <1>5, <2>1, <2>2, <2>3
<1>8. OpenIsExpected'
  <2> SUFFICES ASSUME NEW d \in Expectations', outcome'[d] = "open", d \notin overwritten'
               PROVE entries'[idOf'[d]] = d
    BY DEF OpenIsExpected
  <2>1. d \in Expectations /\ d # e /\ outcome[d] = "open"
    BY <1>1, <1>3, <1>5
  <2>2. entries[idOf[d]] = d /\ idOf[d] \in Ids
    BY <1>2, <2>1 DEF PendingInv, PendingTypeOK, OpenIsExpected, Expectations
  <2>3. idOf[d] # id
    BY <2>1, <2>2 DEF e
  <2> QED
    BY <1>2, <2>2, <2>3 DEF PendingInv, PendingTypeOK
<1> QED
  BY <1>6, <1>7, <1>8 DEF PendingInv

LEMMA PendingUnchanged ==
    ASSUME PendingInv, UNCHANGED <<entries, idOf, outcome, overwritten>>,
           \A id \in Ids : entries[id] # 0 => entries[id] \in timers',
           timers' \subseteq timers,
           slots' \in Seq([id : Ids, then : {"install", "return"}])
    PROVE PendingInv'
<1>1. PendingTypeOK' /\ OpenIsExpected'
  BY DEF PendingInv, PendingTypeOK, OpenIsExpected, Expectations
<1>2. EntriesAreOpen'
  BY DEF PendingInv, EntriesAreOpen, Expectations
<1> QED
  BY <1>1, <1>2 DEF PendingInv

LEMMA ExpectResponseKeeps ==
    ASSUME PendingInv, NEW id \in Ids, ExpectResponse(id)
    PROVE PendingInv'
<1>1. CASE entries[id] # 0
  BY <1>1, ResolveEntryKeeps DEF ExpectResponse
<1>2. CASE entries[id] = 0
  BY <1>2, InstallKeeps DEF ExpectResponse, PendingInv, PendingTypeOK
<1> QED
  BY <1>1, <1>2

LEMMA TimesOutKeeps ==
    ASSUME PendingInv, NEW e \in Expectations, TimesOut(e)
    PROVE PendingInv'
<1>1. idOf[e] \in Ids
  BY DEF PendingInv, PendingTypeOK, Expectations
<1>2. CASE entries[idOf[e]] # 0
  <2>1. ResolveEntry(idOf[e], "timeout", {e}, "return")
    BY <1>2 DEF TimesOut
  <2> QED
    BY <1>1, <2>1, ResolveEntryKeeps
<1>3. CASE entries[idOf[e]] = 0
  <2>1. timers' = timers \ {e} /\ UNCHANGED <<entries, idOf, outcome, slots, overwritten>>
    BY <1>3 DEF TimesOut
  <2>2. \A id \in Ids : entries[id] # 0 => entries[id] # e
    BY <1>3 DEF PendingInv, EntriesAreOpen
  <2> QED
    BY <2>1, <2>2, PendingUnchanged DEF PendingInv, PendingTypeOK, EntriesAreOpen
<1> QED
  BY <1>2, <1>3

LEMMA HandleResponseKeeps ==
    ASSUME PendingInv, NEW id \in Ids, HandleResponse(id)
    PROVE PendingInv'
<1>1. CASE entries[id] # 0
  BY <1>1, ResolveEntryKeeps DEF HandleResponse
<1>2. CASE entries[id] = 0
  BY <1>2, PendingUnchanged
     DEF HandleResponse, pendingVars, PendingInv, PendingTypeOK, EntriesAreOpen
<1> QED
  BY <1>1, <1>2

\* A slot returns to the expectation that was being installed, or to the
\* event loop.
LEMMA SlotReturnsKeeps ==
    ASSUME PendingInv, SlotReturns
    PROVE PendingInv'
<1>1. /\ slots \in Seq([id : Ids, then : {"install", "return"}]) /\ slots # <<>>
      /\ slots' = Front(slots)
  BY DEF SlotReturns, PendingInv, PendingTypeOK
<1>2. slots' \in Seq([id : Ids, then : {"install", "return"}]) /\ Last(slots).id \in Ids
  <2> DEFINE Records == [id : Ids, then : {"install", "return"}]
  <2> HIDE DEF Records
  <2>1. slots \in Seq(Records) /\ Len(slots) \in Nat \ {0}
    BY <1>1 DEF Records
  <2>2. SubSeq(slots, 1, Len(slots) - 1) \in Seq(Records) /\ slots[Len(slots)] \in Records
    BY <2>1
  <2> QED
    BY <1>1, <2>2 DEF Front, Last, Records
<1>3. CASE Last(slots).then = "install" /\ Len(idOf) < MaxExpectations
  BY <1>2, <1>3, InstallKeeps DEF SlotReturns
<1>4. CASE ~(Last(slots).then = "install" /\ Len(idOf) < MaxExpectations)
  BY <1>2, <1>4, PendingUnchanged DEF SlotReturns, PendingInv, EntriesAreOpen
<1> QED
  BY <1>3, <1>4

LEMMA PendingStutters ==
    ASSUME PendingInv, UNCHANGED pendingVars PROVE PendingInv'
BY PendingUnchanged DEF pendingVars, PendingInv, PendingTypeOK, EntriesAreOpen

-----------------------------------------------------------------------------
(* The layer *)

LEMMA LayerStepKeeps ==
    ASSUME LayerInv, [LayerNext]_layerVars PROVE LayerInv'
<1> USE DEF LayerInv
<1>1. CASE ServerStep
  BY <1>1, ServerKeeps, PendingStutters DEF ServerStep
<1>2. CASE PendingStep
  BY <1>2, ServerUnchanged, TimesOutKeeps, SlotReturnsKeeps DEF PendingStep
<1>3. ASSUME NEW s \in Sockets, ReceiveText(s) PROVE LayerInv'
  <2>1. ServerInv'
    BY <1>3, TextReceivedKeeps DEF ReceiveText
  <2>2. PendingInv'
    <3>1. CASE Route(heard'.frame) = "response" /\ heard'.frame.id \in Ids
      BY <1>3, <3>1, HandleResponseKeeps DEF ReceiveText, Settled
    <3>2. CASE ~(Route(heard'.frame) = "response" /\ heard'.frame.id \in Ids)
      BY <1>3, <3>2, PendingStutters DEF ReceiveText, Settled
    <3> QED
      BY <3>1, <3>2
  <2> QED
    BY <2>1, <2>2
<1>4. ASSUME NEW s \in Sockets, NEW f \in Frames, PeerSpeaks(s, f) PROVE LayerInv'
  BY <1>4, PeerSendsKeeps, PendingStutters DEF PeerSpeaks
<1>5. ASSUME NEW id \in Ids, Command(id) PROVE LayerInv'
  BY <1>5, ServerUnchanged, ExpectResponseKeeps DEF Command
<1>6. CASE UNCHANGED layerVars
  BY <1>6, ServerUnchanged, PendingStutters DEF layerVars, serverVars, otherVars
<1> QED
  BY <1>1, <1>2, <1>3, <1>4, <1>5, <1>6 DEF LayerNext

\* Whatever sockets arrive, are rejected, replaced, timed out, closed or
\* dropped and whatever they send: the tables of a running server are about
\* the same instances, the active socket of an instance is the last one
\* accepted for it and on the clock until it is ready, and an entry of
\* PendingRequests is an expectation nobody has resolved.
THEOREM LayerInvHolds == LayerSpec => []LayerInv
<1>1. LayerInit => LayerInv
  BY ServerInitially, PendingInitially DEF LayerInit, LayerInv
<1>2. LayerInv /\ [LayerNext]_layerVars => LayerInv'
  BY LayerStepKeeps
<1> QED
  BY <1>1, <1>2, PTL DEF LayerSpec

\* connectionStateChanged: what a session was told last is what the table of
\* the server holds.
THEOREM ToldIsTrueHolds == LayerSpec => []ToldIsTrue
<1>1. LayerInv => ToldIsTrue
  BY DEF LayerInv, ServerInv
<1> QED
  BY <1>1, LayerInvHolds, PTL

\* messageReceived is emitted for a frame of the socket that is active for
\* its instance, and by no other step.
LEMMA OnlyTextIsHeard ==
    ASSUME LayerInv, [LayerNext]_layerVars
    PROVE [heard' # Silence => /\ latest[heard'.inst] = heard'.from
                              /\ socket[heard'.from].inst = heard'.inst
                              /\ socket[heard'.from].phase = "open"]_serverVars
<1>1. ASSUME NEW s \in Sockets, TextReceived(s)
      PROVE /\ latest[heard'.inst] = heard'.from
            /\ socket[heard'.from].inst = heard'.inst
            /\ socket[heard'.from].phase = "open"
  <2>1. heard'.inst \in Instances /\ connections[heard'.inst] = s /\ heard'.from = s
    BY <1>1, FoundHasTheSocket DEF TextReceived
  <2> QED
    BY <2>1, NoSocketIsNone DEF LayerInv, ServerInv, ActiveIsLatest
<1>2. CASE Server
  BY <1>2 DEF Server, TextDropped, OnDisconnected, Rejected, Accepted, ReadyTimeout,
              RegisterToken, CloseServer
<1>3. CASE \E s \in Sockets : ReceiveText(s)
  BY <1>1, <1>3 DEF ReceiveText
<1>4. CASE PendingStep \/ (\E id \in Ids : Command(id))
             \/ (\E s \in Sockets, f \in Frames : PeerSpeaks(s, f))
  BY <1>4 DEF PendingStep, Command, PeerSpeaks, PeerSends
<1>5. CASE UNCHANGED layerVars
  BY <1>5 DEF layerVars
<1> QED
  BY <1>2, <1>3, <1>4, <1>5 DEF LayerNext, ServerStep

\* A session hears only the socket that was accepted last for its own
\* instance, as long as nobody closed it.
THEOREM OnlyTheLatestIsHeardHolds == LayerSpec => OnlyTheLatestIsHeard
<1>1. LayerInv /\ [LayerNext]_layerVars
        => [heard' # Silence => /\ latest[heard'.inst] = heard'.from
                               /\ socket[heard'.from].inst = heard'.inst
                               /\ socket[heard'.from].phase = "open"]_serverVars
  BY OnlyTextIsHeard
<1> QED
  BY <1>1, LayerInvHolds, PTL DEF LayerSpec, OnlyTheLatestIsHeard

-----------------------------------------------------------------------------
(* The readback ring *)

\* At least one frame is in flight, and ages are told from Nothing.
LEMMA FrameNumbers ==
    /\ kFramesInFlight \in Nat /\ kFramesInFlight >= 1
    /\ kReadbackRingSize \in Nat /\ kReadbackRingSize >= 1
    /\ Oldest = kFramesInFlight /\ Nothing \notin Ages /\ 0 \in Ages /\ 1 \in Ages
    /\ 0 \in Slots /\ 0 \in Ring
BY LimitsAssumption DEF Oldest, Nothing, Ages, Slots, Ring

LEMMA OlderAges ==
    /\ Older(Nothing) = Nothing /\ Older(0) = 1
    /\ \A age \in Ages : Older(age) \in Ages /\ Older(age) # Nothing
    /\ \A age \in 1 .. Oldest : Older(age) \in 1 .. Oldest
    /\ \A age \in Ages : Older(age) < kFramesInFlight => Older(age) = age + 1
BY FrameNumbers DEF Older, Ages, Oldest, Nothing

LEMMA NextIndices ==
    ASSUME FrameTypeOK
    PROVE NextWrite \in Ring /\ (IF frame + 1 = kFramesInFlight THEN 0 ELSE frame + 1) \in Slots
BY FrameNumbers DEF FrameTypeOK, Slots, Ring, NextWrite

\* The poll begins at the write index.
LEMMA WriteIsNewest ==
    ASSUME FrameTypeOK
    PROVE /\ Behind(write) = 0
          /\ \A r \in Ring : Behind(r) >= 0 /\ (Behind(r) <= 0 => r = write)
BY FrameNumbers DEF FrameTypeOK, Ring, Behind

\* What the poll reads has an owner, and is what it caches.
LEMMA PixelIsRead ==
    ASSUME FrameTypeOK, NEW f, PollReadbackRing(f) # {}
    PROVE PixelRead(f) \in Ages
<1> DEFINE r == CHOOSE q \in PollReadbackRing(f) : TRUE
<1>1. r \in PollReadbackRing(f)
  OBVIOUS
<1>2. PixelRead(f) = ring[r]
  BY DEF PixelRead
<1> HIDE DEF r
<1>3. r \in Ring /\ ring[r] # Nothing
  BY <1>1 DEF PollReadbackRing, Usable
<1> QED
  BY <1>2, <1>3 DEF FrameTypeOK

LEMMA PolledIsRing ==
    ASSUME FrameTypeOK, NEW f
    PROVE /\ Polled(f) \in [Ring -> Ages \cup {Nothing}]
          /\ \A r \in Ring : ring[r] = Nothing => Polled(f)[r] = Nothing
<1> DEFINE freed(r) == \/ r \in PollReadbackRing(f)
                       \/ /\ ring[r] >= kFramesInFlight
                          /\ \A q \in PollReadbackRing(f) : Behind(r) < Behind(q)
<1>1. Polled(f) = [r \in Ring |-> IF freed(r) THEN Nothing ELSE ring[r]]
  BY DEF Polled
<1> HIDE DEF freed
<1> QED
  BY <1>1 DEF FrameTypeOK

\* What a pass leaves of the readback: a ring, and a result only with a pixel.
LEMMA SampledIsSound ==
    ASSUME FrameTypeOK, NEW samples \in BOOLEAN, NEW f
    PROVE /\ Sampled(samples, f).ring \in [Ring -> Ages \cup {Nothing}]
          /\ Sampled(samples, f).cached \in Ages \cup {Nothing}
          /\ Sampled(samples, f).hasResult \in BOOLEAN
          /\ (hasResult => cached # Nothing)
                => (Sampled(samples, f).hasResult => Sampled(samples, f).cached # Nothing)
          /\ (\A r \in Ring : ring[r] = Nothing)
                => /\ \A r \in Ring : Sampled(samples, f).ring[r] = Nothing
                   /\ Sampled(samples, f).hasResult = hasResult
          /\ ~samples => Sampled(samples, f).ring = ring
<1>1. CASE ~samples
  BY <1>1 DEF Sampled, FrameTypeOK
<1>2. CASE samples
  <2>1. /\ Sampled(samples, f).ring = Polled(f) /\ Sampled(samples, f).cached = PixelRead(f)
        /\ Sampled(samples, f).hasResult = (hasResult \/ PollReadbackRing(f) # {})
    BY <1>2 DEF Sampled
  <2>2. CASE PollReadbackRing(f) = {}
    <3>1. PixelRead(f) = cached
      BY <2>2 DEF PixelRead
    <3> QED
      BY <1>2, <2>1, <2>2, <3>1, PolledIsRing DEF FrameTypeOK
  <2>3. CASE PollReadbackRing(f) # {}
    <3>1. ~(\A r \in Ring : ring[r] = Nothing)
      BY <2>3 DEF PollReadbackRing, Usable
    <3> QED
      BY <1>2, <2>1, <2>3, <3>1, PolledIsRing, PixelIsRead, FrameNumbers DEF FrameTypeOK
  <2> QED
    BY <2>2, <2>3
<1> QED
  BY <1>1, <1>2

-----------------------------------------------------------------------------
(* Frames *)

(* The inductive half of OnlyFaultsWedge: while the swapchain is valid the *)
(* fence of no other slot is reset, and that of the present one only when  *)
(* EndFrame found no tail to submit.                                       *)
FencesOK ==
    /\ FrameTypeOK
    /\ ~invalid => \A s \in Slots : fence[s] = "reset" => s = frame /\ s \notin tails
    /\ hung => "error" \in AcquireResults

(* The inductive half of AnswersAreCurrent: the newest sample of a valid   *)
(* swapchain is where the poll looks first, for as long as it is promised. *)
ReadbackOK ==
    /\ hasResult => cached # Nothing
    /\ ~invalid /\ newest = Nothing => ~hasResult /\ \A r \in Ring : ring[r] = Nothing
    /\ ~invalid /\ fence[frame] # "reset" /\ newest \in 1 .. kFramesInFlight - 1
        => ring[write] = newest

FramesInv == FencesOK /\ ReadbackOK

\* The head of the loop replaces an invalid swapchain, fences and all.
LEMMA HeadIsSound ==
    ASSUME FrameTypeOK
    PROVE /\ AtLoopHead.fence \in [Slots -> FenceStates]
          /\ AtLoopHead.ring \in [Ring -> Ages \cup {Nothing}]
          /\ AtLoopHead.hasResult \in BOOLEAN /\ AtLoopHead.cached \in Ages \cup {Nothing}
          /\ AtLoopHead.newest \in (1 .. Oldest) \cup {Nothing}
          /\ (hasResult => cached # Nothing)
                => (AtLoopHead.hasResult => AtLoopHead.cached # Nothing)
          /\ invalid => AtLoopHead.fence = Signaled
          /\ ~invalid => AtLoopHead.fence = fence
BY FrameNumbers
   DEF FrameTypeOK, AtLoopHead, RecreateSwapchain, Continued, Signaled, Empty, FenceStates

LEMMA FencesSuffice == FencesOK => OnlyFaultsWedge
<1> SUFFICES ASSUME FencesOK PROVE OnlyFaultsWedge
  OBVIOUS
<1>1. FrameTypeOK /\ frame \in Slots
  BY DEF FencesOK, FrameTypeOK
<1>2. AtLoopHead.fence[frame] = "reset" => ~invalid /\ fence[frame] = "reset"
  BY <1>1, HeadIsSound DEF Signaled
<1> QED
  BY <1>1, <1>2 DEF FencesOK, OnlyFaultsWedge, Wedged

\* While the newest sample is promised, the poll reads it.
LEMMA ReadbackSuffices == FramesInv => AnswersAreCurrent
<1> SUFFICES ASSUME FramesInv PROVE AnswersAreCurrent
  OBVIOUS
<1> DEFINE f == FencesAtPoll("success")
<1>1. FrameTypeOK /\ frame \in Slots /\ write \in Ring /\ f = Began(Drained)
  BY DEF FramesInv, FencesOK, FrameTypeOK, FencesAtPoll
<1> HIDE DEF f
<1>2. ASSUME ~invalid, newest = Nothing PROVE Answer(f) = Nothing
  <2>1. PollReadbackRing(f) = {} /\ ~hasResult
    BY <1>2 DEF FramesInv, ReadbackOK, PollReadbackRing, Usable
  <2> QED
    BY <2>1 DEF Answer
<1>3. ASSUME ~invalid, ~Wedged, newest \in 1 .. kFramesInFlight - 1 PROVE Answer(f) = newest
  <2>1. fence[frame] # "reset"
    BY <1>1, <1>3, HeadIsSound DEF Wedged
  <2>2. ring[write] = newest
    BY <1>3, <2>1 DEF FramesInv, ReadbackOK
  <2>3. SlotOf(newest) \in Slots /\ SlotOf(newest) # frame
    BY <1>1, <1>3, FrameNumbers DEF SlotOf, Slots
  <2>4. fence[SlotOf(newest)] \in {"signaled", "submitted"}
    BY <1>1, <1>3, <2>3 DEF FramesInv, FencesOK, FrameTypeOK, FenceStates
  <2>5. f[SlotOf(newest)] = "signaled"
    BY <1>1, <2>3, <2>4 DEF Began, Drained
  <2>6. Usable(write, f)
    BY <1>3, <2>2, <2>5, FrameNumbers DEF Usable, Nothing
  <2>7. PollReadbackRing(f) = {write}
    BY <1>1, <2>6, WriteIsNewest DEF PollReadbackRing
  <2> QED
    BY <2>2, <2>7 DEF Answer, PixelRead
<1> QED
  BY <1>2, <1>3 DEF FramesInv, ReadbackOK, AnswersAreCurrent, f

LEMMA FrameInitially == FrameInit => FramesInv
<1> SUFFICES ASSUME FrameInit PROVE FramesInv
  OBVIOUS
<1>1. Signaled \in [Slots -> FenceStates] /\ \A s \in Slots : Signaled[s] # "reset"
  BY DEF Signaled, FenceStates
<1>2. FrameTypeOK
  BY <1>1, FrameNumbers DEF FrameInit, FrameTypeOK, Empty
<1>3. newest \notin 1 .. kFramesInFlight - 1
  BY FrameNumbers DEF FrameInit, Nothing
<1> QED
  BY <1>1, <1>2, <1>3 DEF FrameInit, FramesInv, FencesOK, ReadbackOK, Empty

LEMMA SkipFrameKeeps ==
    ASSUME FramesInv, SkipFrame
    PROVE FramesInv'
<1>1. FrameTypeOK /\ (hasResult => cached # Nothing) /\ (hung => "error" \in AcquireResults)
  BY DEF FramesInv, FencesOK, ReadbackOK
<1>2. PICK result \in AcquireResults, seen \in BOOLEAN :
         /\ invalid' = (invalid \/ result \in {"suboptimal", "out_of_date"}) /\ invalid'
         /\ fence' = IF result \in {"success", "suboptimal"} THEN Began(AtLoopHead.fence)
                     ELSE AtLoopHead.fence
         /\ resized' = (resized \/ seen)
  BY DEF SkipFrame
<1>3. /\ IF invalid THEN tails' \in TailChoices ELSE UNCHANGED tails
      /\ ring' = AtLoopHead.ring /\ hasResult' = AtLoopHead.hasResult
      /\ cached' = AtLoopHead.cached /\ newest' = AtLoopHead.newest
      /\ UNCHANGED <<frame, write, hung>>
  BY DEF SkipFrame
<1>4. fence' \in [Slots -> FenceStates]
  BY <1>1, <1>2, HeadIsSound DEF Began, FenceStates
<1>5. FrameTypeOK'
  BY <1>1, <1>2, <1>3, <1>4, HeadIsSound DEF FrameTypeOK
<1>6. hasResult' => cached' # Nothing
  BY <1>1, <1>3, HeadIsSound
<1>7. hung' => "error" \in AcquireResults
  BY <1>1, <1>3
<1> QED
  BY <1>2, <1>5, <1>6, <1>7 DEF FramesInv, FencesOK, ReadbackOK

LEMMA RenderHangsKeeps ==
    ASSUME FramesInv, RenderHangs
    PROVE FramesInv'
BY DEF RenderHangs, FramesInv, FencesOK, ReadbackOK, FrameTypeOK

\* The fences a drawn frame is sampled and submitted under.
LEMMA FencesAtPollAreSound ==
    ASSUME FencesOK, ~invalid, NEW result \in {"success", "error"}
    PROVE /\ FencesAtPoll(result) \in [Slots -> FenceStates]
          /\ \A s \in Slots : FencesAtPoll(result)[s] = "reset" => s = frame
          /\ result = "success" => FencesAtPoll(result)[frame] = "reset"
<1>1. /\ fence \in [Slots -> FenceStates] /\ frame \in Slots
      /\ \A s \in Slots : fence[s] = "reset" => s = frame
  BY DEF FencesOK, FrameTypeOK
<1>2. /\ Drained \in [Slots -> FenceStates]
      /\ \A s \in Slots : Drained[s] = "reset" => fence[s] = "reset"
  BY <1>1 DEF Drained, FenceStates
<1>3. /\ Began(Drained) \in [Slots -> FenceStates] /\ Began(Drained)[frame] = "reset"
      /\ \A s \in Slots : s # frame => Began(Drained)[s] = Drained[s]
  BY <1>1, <1>2 DEF Began, FenceStates
<1> QED
  BY <1>1, <1>2, <1>3 DEF FencesAtPoll

LEMMA StillNewestIsSound ==
    ASSUME FrameTypeOK, NEW result
    PROVE /\ StillNewest(result) \in (1 .. Oldest) \cup {Nothing}
          /\ StillNewest(result) = Nothing => newest = Nothing
          /\ StillNewest(result) \in 1 .. kFramesInFlight - 1
                => result = "success" /\ StillNewest(result) = newest
BY FrameNumbers DEF FrameTypeOK, StillNewest, Oldest, Nothing

LEMMA NoTailKeeps ==
    ASSUME FramesInv, MayBegin, ~invalid, UNCHANGED <<tails, hung>>,
           NEW samples \in BOOLEAN, NEW seen \in BOOLEAN, NEW result \in {"success", "error"},
           NoTail(samples, seen, result)
    PROVE FramesInv'
<1> DEFINE f == FencesAtPoll(result)
           sampled == Sampled(samples, f)
<1>1. FrameTypeOK /\ FencesOK /\ ReadbackOK
  BY DEF FramesInv, FencesOK
<1>2. /\ frame \notin tails /\ fence' = f
      /\ ring' = sampled.ring /\ cached' = sampled.cached /\ hasResult' = sampled.hasResult
      /\ newest' = StillNewest(result) /\ resized' = (resized \/ seen)
      /\ UNCHANGED <<frame, invalid, write>>
  BY DEF NoTail
<1>3. /\ f \in [Slots -> FenceStates] /\ \A s \in Slots : f[s] = "reset" => s = frame
      /\ result = "success" => f[frame] = "reset"
  BY <1>1, FencesAtPollAreSound
<1> HIDE DEF f
<1>4. /\ sampled.ring \in [Ring -> Ages \cup {Nothing}]
      /\ sampled.cached \in Ages \cup {Nothing} /\ sampled.hasResult \in BOOLEAN
      /\ (hasResult => cached # Nothing) => (sampled.hasResult => sampled.cached # Nothing)
      /\ (\A r \in Ring : ring[r] = Nothing)
            => (\A r \in Ring : sampled.ring[r] = Nothing) /\ sampled.hasResult = hasResult
  BY <1>1, SampledIsSound
<1> HIDE DEF sampled
<1>5. FrameTypeOK'
  BY <1>1, <1>2, <1>3, <1>4, StillNewestIsSound DEF FrameTypeOK
<1>6. FencesOK'
  BY <1>1, <1>2, <1>3, <1>5 DEF FencesOK
<1>7. ReadbackOK'
  BY <1>1, <1>2, <1>3, <1>4, StillNewestIsSound DEF ReadbackOK
<1> QED
  BY <1>6, <1>7 DEF FramesInv

LEMMA EndFrameKeeps ==
    ASSUME FramesInv, MayBegin, ~invalid, UNCHANGED <<tails, hung>>,
           NEW samples \in BOOLEAN, NEW seen \in BOOLEAN, NEW result \in {"success", "error"},
           NEW submitted \in BOOLEAN, NEW present \in PresentResults,
           EndFrame(samples, seen, result, submitted, present)
    PROVE FramesInv'
<1> DEFINE f == FencesAtPoll(result)
           sampled == Sampled(samples, f)
           owned == IF samples THEN [sampled.ring EXCEPT ![NextWrite] = 0] ELSE sampled.ring
<1>1. FrameTypeOK /\ FencesOK /\ ReadbackOK /\ frame \in Slots /\ write \in Ring
  BY DEF FramesInv, FencesOK, FrameTypeOK
<1>2. /\ hasResult' = sampled.hasResult
      /\ write' = IF samples THEN NextWrite ELSE write
      /\ IF submitted
         THEN /\ fence' = [f EXCEPT ![frame] = "submitted"]
              /\ frame' = IF frame + 1 = kFramesInFlight THEN 0 ELSE frame + 1
              /\ ring' = [r \in Ring |-> Older(owned[r])]
              /\ cached' = Older(sampled.cached)
              /\ newest' = IF samples THEN 1 ELSE Older(StillNewest(result))
              /\ invalid' = (present \in {"suboptimal", "out_of_date"} \/ resized \/ seen)
              /\ resized' = FALSE
         ELSE /\ fence' = f /\ ring' = owned /\ cached' = sampled.cached
              /\ newest' = StillNewest(result)
              /\ invalid' = TRUE
              /\ resized' = (resized \/ seen)
              /\ UNCHANGED frame
  BY DEF EndFrame
<1>3. f \in [Slots -> FenceStates] /\ \A s \in Slots : f[s] = "reset" => s = frame
  BY <1>1, FencesAtPollAreSound
<1> HIDE DEF f
<1>4. /\ sampled.ring \in [Ring -> Ages \cup {Nothing}]
      /\ sampled.cached \in Ages \cup {Nothing} /\ sampled.hasResult \in BOOLEAN
      /\ (hasResult => cached # Nothing) => (sampled.hasResult => sampled.cached # Nothing)
      /\ (\A r \in Ring : ring[r] = Nothing)
            => (\A r \in Ring : sampled.ring[r] = Nothing) /\ sampled.hasResult = hasResult
      /\ ~samples => sampled.ring = ring
  BY <1>1, SampledIsSound
<1> HIDE DEF sampled
<1>5. /\ owned \in [Ring -> Ages \cup {Nothing}] /\ NextWrite \in Ring
      /\ samples => owned[NextWrite] = 0
      /\ ~samples => owned = sampled.ring
  BY <1>1, <1>4, NextIndices, FrameNumbers
<1> HIDE DEF owned
<1>6. hasResult' => sampled.cached # Nothing
  BY <1>1, <1>2, <1>4 DEF ReadbackOK
<1>7. hung' => "error" \in AcquireResults
  BY <1>1 DEF FencesOK
<1>8. CASE ~submitted
  <2>1. FrameTypeOK'
    BY <1>1, <1>2, <1>3, <1>4, <1>5, <1>8, StillNewestIsSound DEF FrameTypeOK
  <2> QED
    BY <1>2, <1>6, <1>7, <1>8, <2>1 DEF FramesInv, FencesOK, ReadbackOK
<1>9. CASE submitted
  <2>1. fence' \in [Slots -> FenceStates] /\ \A s \in Slots : fence'[s] # "reset"
    BY <1>1, <1>2, <1>3, <1>9 DEF FenceStates
  <2>2. frame' \in Slots /\ write' \in Ring
    BY <1>1, <1>2, <1>5, <1>9, NextIndices
  <2>3. ring' \in [Ring -> Ages \cup {Nothing}] /\ cached' \in Ages \cup {Nothing}
    BY <1>2, <1>4, <1>5, <1>9, OlderAges
  <2>4. newest' \in (1 .. Oldest) \cup {Nothing}
    BY <1>1, <1>2, <1>9, StillNewestIsSound, OlderAges, FrameNumbers
  <2>5. FrameTypeOK'
    BY <1>1, <1>2, <1>4, <1>9, <2>1, <2>2, <2>3, <2>4 DEF FrameTypeOK
  <2>6. hasResult' => cached' # Nothing
    BY <1>2, <1>4, <1>6, <1>9, OlderAges
  <2>7. ASSUME newest' = Nothing PROVE ~hasResult' /\ \A r \in Ring : ring'[r] = Nothing
    <3>1. ~samples /\ newest = Nothing
      BY <1>1, <1>2, <1>9, <2>7, StillNewestIsSound, OlderAges, FrameNumbers DEF Ages, Nothing
    <3>2. ~hasResult /\ \A r \in Ring : ring[r] = Nothing
      BY <1>1, <3>1 DEF ReadbackOK
    <3> QED
      BY <1>2, <1>4, <1>5, <1>9, <3>1, <3>2, OlderAges
  <2>8. ASSUME newest' \in 1 .. kFramesInFlight - 1 PROVE ring'[write'] = newest'
    <3>1. CASE samples
      BY <1>2, <1>5, <1>9, <3>1, OlderAges
    <3>2. CASE ~samples
      <4>1. newest' = Older(StillNewest(result)) /\ StillNewest(result) \in 1 .. Oldest
        BY <1>1, <1>2, <1>9, <2>8, <3>2, StillNewestIsSound, OlderAges DEF Nothing
      <4>2. StillNewest(result) \in 1 .. kFramesInFlight - 1
        BY <2>8, <4>1, OlderAges, FrameNumbers DEF Ages
      <4>3. newest = StillNewest(result) /\ newest \in 1 .. kFramesInFlight - 1
        BY <1>1, <4>2, StillNewestIsSound
      <4>4. fence[frame] # "reset"
        BY <1>1, HeadIsSound DEF MayBegin
      <4>5. ring[write] = newest
        BY <1>1, <4>3, <4>4 DEF ReadbackOK
      <4> QED
        BY <1>1, <1>2, <1>4, <1>5, <1>9, <3>2, <4>1, <4>3, <4>5
    <3> QED
      BY <3>1, <3>2
  <2> QED
    BY <1>7, <2>1, <2>5, <2>6, <2>7, <2>8 DEF FramesInv, FencesOK, ReadbackOK
<1> QED
  BY <1>8, <1>9

LEMMA DrawFrameKeeps ==
    ASSUME FramesInv, DrawFrame
    PROVE FramesInv'
<1>1. MayBegin /\ ~invalid /\ UNCHANGED <<tails, hung>>
  BY DEF DrawFrame
<1>2. PICK result \in AcquireResults \cap {"success", "error"},
           samples \in BOOLEAN, seen \in BOOLEAN :
         \/ NoTail(samples, seen, result)
         \/ \E submitted \in BOOLEAN, present \in PresentResults :
               EndFrame(samples, seen, result, submitted, present)
  BY DEF DrawFrame
<1> QED
  BY <1>1, <1>2, NoTailKeeps, EndFrameKeeps

LEMMA GpuKeeps ==
    ASSUME FramesInv, NEW s \in Slots, GpuFinishes(s)
    PROVE FramesInv'
<1>1. /\ fence' = [fence EXCEPT ![s] = "signaled"]
      /\ UNCHANGED <<frame, tails, invalid, hung, resized, ring, write, hasResult, cached, newest>>
  BY DEF GpuFinishes
<1>2. fence \in [Slots -> FenceStates] /\ frame \in Slots
  BY DEF FramesInv, FencesOK, FrameTypeOK
<1>3. /\ fence' \in [Slots -> FenceStates]
      /\ \A r \in Slots : fence'[r] = "reset" => fence[r] = "reset"
      /\ fence'[frame] # "reset" => fence[frame] # "reset"
  BY <1>1, <1>2 DEF FenceStates, GpuFinishes
<1> QED
  BY <1>1, <1>3 DEF FramesInv, FencesOK, ReadbackOK, FrameTypeOK

LEMMA FrameUnchanged ==
    ASSUME FramesInv, UNCHANGED frameVars
    PROVE FramesInv'
BY DEF frameVars, FramesInv, FencesOK, ReadbackOK, FrameTypeOK

LEMMA FrameStepKeeps ==
    ASSUME FramesInv, [LoopNext]_loopVars
    PROVE FramesInv'
<1>1. CASE DrawOrSkip
  BY <1>1, SkipFrameKeeps, RenderHangsKeeps, DrawFrameKeeps DEF DrawOrSkip, Pass
<1>2. CASE Gpu
  BY <1>2, GpuKeeps DEF Gpu
<1>3. CASE UNCHANGED loopVars
  BY <1>3, FrameUnchanged DEF loopVars
<1>4. CASE \/ SocketOpens \/ SocketCloses \/ OnMessage
           \/ PollDisconnected \/ PollConnected \/ Dispatch \/ EndOfPoll \/ Leave
           \/ StartTimerElapses \/ LostTimerElapses
  <2>1. UNCHANGED frameVars
    BY <1>4 DEF SocketOpens, SocketCloses, OnMessage, PollDisconnected, PollConnected,
                Dispatch, EndOfPoll, Leave, StartTimerElapses, LostTimerElapses
  <2> QED
    BY <2>1, FrameUnchanged
<1> QED
  BY <1>1, <1>2, <1>3, <1>4 DEF LoopNext, MainThread

LEMMA FramesInvHolds == LoopSpec => []FramesInv
<1>1. LoopInit => FramesInv
  BY FrameInitially DEF LoopInit
<1>2. FramesInv /\ [LoopNext]_loopVars => FramesInv'
  BY FrameStepKeeps
<1> QED
  BY <1>1, <1>2, PTL DEF LoopSpec

\* BeginFrame waits for the fence of its slot without a timeout: whatever
\* acquires, submissions and presentations fail and whichever frame tails
\* could not be allocated, the main thread gets stuck behind a failed acquire
\* or in a slot without a tail command buffer, and nowhere else.
THEOREM OnlyFaultsWedgeHolds == LoopSpec => []OnlyFaultsWedge
<1>1. FramesInv => OnlyFaultsWedge
  BY FencesSuffice DEF FramesInv
<1> QED
  BY <1>1, FramesInvHolds, PTL

\* Where neither fault occurs, no wait is for ever, though presentations and
\* submissions fail and swapchains go out of date as before.
THEOREM NoFaultNeverWedges ==
    ASSUME "error" \notin AcquireResults, MayLackTail = {}
    PROVE LoopSpec => []~Wedged
<1>1. OnlyFaultsWedge => ~Wedged
  <2>1. TailChoices = {Slots}
    BY DEF TailChoices
  <2> QED
    BY <2>1 DEF OnlyFaultsWedge, FrameTypeOK
<1> QED
  BY <1>1, OnlyFaultsWedgeHolds, PTL

\* IsPixelTransparent answers from the newest sample that was submitted while
\* its frame counts as in flight, and passes through before there is one; a
\* slot that was read, overwritten, aged or recreated never answers for it.
THEOREM AnswersAreCurrentHolds == LoopSpec => []AnswersAreCurrent
<1> QED
  BY FramesInvHolds, ReadbackSuffices, PTL

-----------------------------------------------------------------------------
(* The inbound queue *)

\* A full queue loses its oldest message for the new one, which is its last.
LEMMA PushedKeepsOrder ==
    ASSUME NEW q \in Seq(Messages), Ordered(q), Len(q) <= kMaxQueueSize,
           NEW m \in Messages, \A k \in 1 .. Len(q) : q[k] < m
    PROVE /\ Pushed(q, m) \in Seq(Messages) /\ Ordered(Pushed(q, m))
          /\ Len(Pushed(q, m)) \in 1 .. kMaxQueueSize
          /\ Pushed(q, m)[Len(Pushed(q, m))] = m
          /\ \A k \in 1 .. Len(Pushed(q, m)) :
                 Pushed(q, m)[k] = m \/ \E j \in 1 .. Len(q) : Pushed(q, m)[k] = q[j]
<1> DEFINE kept == IF Len(q) >= kMaxQueueSize THEN Tail(q) ELSE q
<1>1. /\ kept \in Seq(Messages) /\ Len(kept) < kMaxQueueSize /\ Len(kept) \in Nat
      /\ \E d \in {0, 1} : \A k \in 1 .. Len(kept) : k + d \in 1 .. Len(q) /\ kept[k] = q[k + d]
  <2>1. CASE Len(q) >= kMaxQueueSize
    <3>1. q # <<>> /\ Len(q) = kMaxQueueSize
      BY <2>1, LoopAssumption
    <3>2. kept = Tail(q) /\ kept \in Seq(Messages) /\ Len(kept) = Len(q) - 1
          /\ \A k \in 1 .. Len(kept) : kept[k] = q[k + 1]
      BY <2>1, <3>1
    <3> QED
      BY <3>1, <3>2, LoopAssumption
  <2>2. CASE ~(Len(q) >= kMaxQueueSize)
    <3>1. kept = q
      BY <2>2
    <3>2. \A k \in 1 .. Len(q) : k + 0 = k
      OBVIOUS
    <3> QED
      BY <2>2, <3>1, <3>2, LoopAssumption
  <2> QED
    BY <2>1, <2>2
<1>2. PICK d \in {0, 1} :
         \A k \in 1 .. Len(kept) : k + d \in 1 .. Len(q) /\ kept[k] = q[k + d]
  BY <1>1
<1>3. Pushed(q, m) = Append(kept, m)
  BY DEF Pushed
<1> HIDE DEF kept
<1>4. /\ Append(kept, m) \in Seq(Messages)
      /\ Len(Append(kept, m)) = Len(kept) + 1
      /\ \A k \in 1 .. Len(kept) : Append(kept, m)[k] = kept[k]
      /\ Append(kept, m)[Len(kept) + 1] = m
  BY <1>1
<1>5. Ordered(Append(kept, m))
  <2> SUFFICES ASSUME NEW j \in 1 .. Len(kept) + 1, NEW k \in 1 .. Len(kept) + 1, j < k
               PROVE Append(kept, m)[j] < Append(kept, m)[k]
    BY <1>4 DEF Ordered
  <2>1. j \in 1 .. Len(kept) /\ Append(kept, m)[j] = q[j + d] /\ j + d \in 1 .. Len(q)
    BY <1>1, <1>2, <1>4
  <2>2. CASE k = Len(kept) + 1
    BY <1>4, <2>1, <2>2
  <2>3. CASE k # Len(kept) + 1
    <3>0. k \in 1 .. Len(kept)
      <4>1. Len(kept) \in Nat /\ k \in Nat /\ k >= 1 /\ k <= Len(kept) + 1
        BY <1>1
      <4> QED
        BY <2>3, <4>1
    <3>1. k \in 1 .. Len(kept) /\ Append(kept, m)[k] = q[k + d] /\ k + d \in 1 .. Len(q)
      BY <1>2, <1>4, <3>0
    <3>2. j + d < k + d
      BY <2>1, <3>1
    <3> QED
      BY <2>1, <3>1, <3>2 DEF Ordered
  <2> QED
    BY <2>2, <2>3
<1> QED
  BY <1>1, <1>2, <1>3, <1>4, <1>5, LoopAssumption

\* The two halves a poll cuts the queue into.
LEMMA SplitKeepsOrder ==
    ASSUME NEW q \in Seq(Messages), Ordered(q), NEW n \in 0 .. Len(q)
    PROVE /\ SubSeq(q, 1, n) \in Seq(Messages) /\ Ordered(SubSeq(q, 1, n))
          /\ Len(SubSeq(q, 1, n)) = n
          /\ \A k \in 1 .. n : SubSeq(q, 1, n)[k] = q[k]
          /\ SubSeq(q, n + 1, Len(q)) \in Seq(Messages) /\ Ordered(SubSeq(q, n + 1, Len(q)))
          /\ Len(SubSeq(q, n + 1, Len(q))) = Len(q) - n
          /\ \A k \in 1 .. Len(q) - n : SubSeq(q, n + 1, Len(q))[k] = q[n + k]
<1>1. /\ SubSeq(q, 1, n) \in Seq(Messages) /\ Len(SubSeq(q, 1, n)) = n
      /\ \A k \in 1 .. n : SubSeq(q, 1, n)[k] = q[k]
  OBVIOUS
<1>2. /\ SubSeq(q, n + 1, Len(q)) \in Seq(Messages)
      /\ Len(SubSeq(q, n + 1, Len(q))) = Len(q) - n
      /\ \A k \in 1 .. Len(q) - n : SubSeq(q, n + 1, Len(q))[k] = q[n + k]
  OBVIOUS
<1>3. Ordered(SubSeq(q, 1, n))
  BY <1>1 DEF Ordered
<1>4. Ordered(SubSeq(q, n + 1, Len(q)))
  <2> DEFINE rest == SubSeq(q, n + 1, Len(q))
  <2>1. Len(rest) = Len(q) - n /\ \A k \in 1 .. Len(q) - n : rest[k] = q[n + k]
    BY <1>2
  <2> HIDE DEF rest
  <2>2. ASSUME NEW j \in 1 .. Len(q) - n, NEW k \in 1 .. Len(q) - n, j < k
        PROVE q[n + j] < q[n + k]
    <3>1. n + j \in 1 .. Len(q) /\ n + k \in 1 .. Len(q) /\ n + j < n + k
      BY <2>2
    <3> QED
      BY <3>1 DEF Ordered
  <2>3. Ordered(rest)
    BY <2>1, <2>2 DEF Ordered
  <2> QED
    BY <2>3 DEF rest
<1> QED
  BY <1>1, <1>2, <1>3, <1>4

\* The numbers of messages are those of their places.
LEMMA NumberHasPlace ==
    ASSUME NEW q, NEW n
    PROVE n \in Numbers(q) <=> \E k \in 1 .. Len(q) : n = q[k]
BY Zenon DEF Numbers

LEMMA NumbersAreNatural ==
    ASSUME NEW q \in Seq(Messages), NEW k \in 1 .. Len(q)
    PROVE q[k] \in Nat /\ q[k] \in Numbers(q)
<1>1. q[k] \in Messages
  OBVIOUS
<1> QED
  BY <1>1, NumberHasPlace DEF Messages

LEMMA OnMessageKeeps ==
    ASSUME LoopInv, OnMessage
    PROVE LoopInv'
<1> DEFINE m == received + 1
<1>1. /\ queue \in Seq(Messages) /\ batch \in Seq(Messages) /\ received \in Nat
      /\ handled \in Nat /\ handled <= received /\ Len(queue) <= kMaxQueueSize
      /\ Ordered(queue) /\ Ordered(batch)
      /\ \A n \in InQueue \cup InBatch : n <= received
  BY DEF LoopInv, QueueTypeOK
<1>2. /\ queue' = Pushed(queue, m) /\ received' = received + 1
      /\ UNCHANGED <<pc, batch, handled>> /\ m \in Messages
  BY <1>1 DEF OnMessage, Messages
<1>3. \A k \in 1 .. Len(queue) : queue[k] < m
  <2>1. \A k \in 1 .. Len(queue) : queue[k] \in Nat /\ queue[k] <= received
    BY <1>1, NumbersAreNatural DEF InQueue
  <2> QED
    BY <1>1, <2>1
<1> HIDE DEF m
<1>4. /\ queue' \in Seq(Messages) /\ Ordered(queue')
      /\ Len(queue') \in 1 .. kMaxQueueSize /\ queue'[Len(queue')] = m
      /\ \A k \in 1 .. Len(queue') : queue'[k] = m \/ \E j \in 1 .. Len(queue) : queue'[k] = queue[j]
  BY <1>1, <1>2, <1>3, PushedKeepsOrder
<1>5. InQueue' \subseteq InQueue \cup {received'} /\ received' \in InQueue' /\ InBatch' = InBatch
  <2>1. InBatch' = InBatch
    BY <1>2 DEF InBatch
  <2>2. ASSUME NEW n \in InQueue' PROVE n \in InQueue \cup {received'}
    <3>1. PICK k \in 1 .. Len(queue') : n = queue'[k]
      BY <2>2, NumberHasPlace DEF InQueue
    <3>2. m = received'
      BY <1>2 DEF m
    <3> QED
      BY <1>4, <3>1, <3>2, NumberHasPlace DEF InQueue
  <2>3. received' \in InQueue'
    <3>1. Len(queue') \in 1 .. Len(queue') /\ queue'[Len(queue')] = received'
      BY <1>2, <1>4 DEF m
    <3> QED
      BY <3>1, NumberHasPlace DEF InQueue
  <2> QED
    BY <2>1, <2>2, <2>3
<1>6. \A n \in InQueue' \cup InBatch' : n <= received'
  <2>1. \A n \in InQueue \cup InBatch : n \in Nat
    <3>1. \A n \in InQueue : n \in Nat
      BY <1>1, NumbersAreNatural, NumberHasPlace DEF InQueue
    <3>2. \A n \in InBatch : n \in Nat
      BY <1>1, NumbersAreNatural, NumberHasPlace DEF InBatch
    <3> QED
      BY <3>1, <3>2
  <2> QED
    BY <1>1, <1>2, <1>5, <2>1
<1>7. QueueTypeOK'
  BY <1>1, <1>2, <1>4, <1>6, LoopAssumption DEF QueueTypeOK
<1>8. NewestIsKept'
  <2>1. \A b \in InBatch' : handled' < b
    BY <1>2, <1>5 DEF LoopInv, NewestIsKept
  <2>2. handled' < received' /\ \A b \in InBatch' : b < received'
    <3>1. \A b \in InBatch : b \in Nat
      BY <1>1, NumbersAreNatural, NumberHasPlace DEF InBatch
    <3> QED
      BY <1>1, <1>2, <1>5, <3>1
  <2>3. \A n \in InQueue' : handled' < n /\ \A b \in InBatch' : b < n
    BY <1>2, <1>5, <2>2 DEF LoopInv, NewestIsKept
  <2> QED
    BY <1>5, <2>1, <2>3 DEF NewestIsKept
<1> QED
  BY <1>1, <1>2, <1>4, <1>7, <1>8 DEF LoopInv

LEMMA PollConnectedKeeps ==
    ASSUME LoopInv, PollConnected
    PROVE LoopInv'
<1> DEFINE n == IF Len(queue) < MaxDrained THEN Len(queue) ELSE MaxDrained
<1>1. /\ queue \in Seq(Messages) /\ batch = <<>> /\ received \in Nat
      /\ handled \in 0 .. received /\ Len(queue) <= kMaxQueueSize /\ Ordered(queue)
  BY DEF LoopInv, QueueTypeOK, PollConnected
<1>2. /\ batch' = SubSeq(queue, 1, n) /\ queue' = SubSeq(queue, n + 1, Len(queue))
      /\ pc' = "dispatch" /\ UNCHANGED <<received, handled>>
  BY DEF PollConnected
<1>3. n \in 0 .. Len(queue)
  BY <1>1, LoopAssumption
<1> HIDE DEF n
<1>4. /\ batch' \in Seq(Messages) /\ Ordered(batch') /\ Len(batch') = n
      /\ \A k \in 1 .. n : batch'[k] = queue[k]
      /\ queue' \in Seq(Messages) /\ Ordered(queue') /\ Len(queue') = Len(queue) - n
      /\ \A k \in 1 .. Len(queue) - n : queue'[k] = queue[n + k]
  BY <1>1, <1>2, <1>3, SplitKeepsOrder
<1>5. InQueue = InQueue' \cup InBatch'
  <2>1. ASSUME NEW k \in 1 .. Len(queue) PROVE queue[k] \in InQueue' \cup InBatch'
    <3>1. CASE k \in 1 .. n
      BY <1>4, <3>1, NumberHasPlace DEF InBatch
    <3>2. CASE k \notin 1 .. n
      <4>1. k - n \in 1 .. Len(queue) - n /\ n + (k - n) = k
        BY <1>1, <1>3, <3>2
      <4> QED
        BY <1>4, <4>1, NumberHasPlace DEF InQueue
    <3> QED
      BY <3>1, <3>2
  <2>2. ASSUME NEW k \in 1 .. n PROVE batch'[k] \in InQueue
    BY <1>1, <1>3, <1>4, NumberHasPlace DEF InQueue
  <2>3. ASSUME NEW k \in 1 .. Len(queue) - n PROVE queue'[k] \in InQueue
    <3>1. n + k \in 1 .. Len(queue)
      BY <1>1, <1>3
    <3> QED
      BY <1>4, <3>1, NumberHasPlace DEF InQueue
  <2>4. \A x : x \in InQueue => x \in InQueue' \cup InBatch'
    BY <2>1, NumberHasPlace DEF InQueue
  <2>5. \A x : x \in InQueue' => x \in InQueue
    <3> SUFFICES ASSUME NEW x, x \in InQueue' PROVE x \in InQueue
      OBVIOUS
    <3>1. PICK k \in 1 .. Len(queue') : x = queue'[k]
      BY NumberHasPlace, Zenon DEF InQueue
    <3>2. Len(queue') = Len(queue) - n
      BY <1>4
    <3>3. k \in 1 .. Len(queue) - n
      BY <3>2
    <3> QED
      BY <2>3, <3>1, <3>3, Zenon
  <2>6. \A x : x \in InBatch' => x \in InQueue
    <3> SUFFICES ASSUME NEW x, x \in InBatch' PROVE x \in InQueue
      OBVIOUS
    <3>1. PICK k \in 1 .. Len(batch') : x = batch'[k]
      BY NumberHasPlace, Zenon DEF InBatch
    <3>2. Len(batch') = n
      BY <1>4
    <3>3. k \in 1 .. n
      BY <3>2
    <3> QED
      BY <2>2, <3>1, <3>3, Zenon
  <2> QED
    BY <2>4, <2>5, <2>6
<1>6. InBatch = {}
  BY <1>1, NumberHasPlace DEF InBatch
<1>7. \A b \in InBatch', q \in InQueue' : b < q
  <2> SUFFICES ASSUME NEW b \in InBatch', NEW q \in InQueue' PROVE b < q
    OBVIOUS
  <2>1. PICK j \in 1 .. n : b = queue[j]
    <3>1. PICK j \in 1 .. Len(batch') : b = batch'[j]
      BY NumberHasPlace, Zenon DEF InBatch
    <3> QED
      BY <1>4, <3>1
  <2>2. PICK k \in 1 .. Len(queue) - n : q = queue[n + k]
    <3>1. PICK k \in 1 .. Len(queue') : q = queue'[k]
      BY NumberHasPlace, Zenon DEF InQueue
    <3> QED
      BY <1>4, <3>1
  <2>3. j \in 1 .. Len(queue) /\ n + k \in 1 .. Len(queue) /\ j < n + k
    BY <1>1, <1>3
  <2> QED
    BY <1>1, <2>1, <2>2, <2>3 DEF Ordered
<1>8. QueueTypeOK'
  <2>1. Len(queue') <= kMaxQueueSize
    BY <1>1, <1>3, <1>4, LoopAssumption
  <2>2. \A k \in InQueue' \cup InBatch' : k <= received'
    BY <1>2, <1>5 DEF LoopInv, QueueTypeOK
  <2> QED
    BY <1>1, <1>2, <1>4, <2>1, <2>2 DEF QueueTypeOK
<1>9. NewestIsKept'
  BY <1>2, <1>5, <1>6, <1>7 DEF LoopInv, NewestIsKept
<1> QED
  BY <1>2, <1>4, <1>8, <1>9 DEF LoopInv

LEMMA DispatchKeeps ==
    ASSUME LoopInv, Dispatch
    PROVE LoopInv'
<1>1. /\ batch \in Seq(Messages) /\ batch # <<>> /\ Ordered(batch)
      /\ received \in Nat /\ handled \in 0 .. received
  BY DEF LoopInv, QueueTypeOK, Dispatch
<1>2. /\ handled' = Head(batch) /\ batch' = Tail(batch)
      /\ UNCHANGED <<pc, queue, received>>
  BY DEF Dispatch
<1>3. /\ Len(batch) \in Nat \ {0} /\ Head(batch) = batch[1]
      /\ batch' \in Seq(Messages) /\ Len(batch') = Len(batch) - 1
      /\ \A k \in 1 .. Len(batch') : batch'[k] = batch[k + 1]
  BY <1>1, <1>2
<1>4. Ordered(batch')
  BY <1>1, <1>3 DEF Ordered
<1>5. \A k \in 1 .. Len(batch') : k + 1 \in 1 .. Len(batch) /\ 1 < k + 1
  BY <1>3
<1>6. /\ \A x : x \in InBatch' => \E k \in 1 .. Len(batch') : x = batch[k + 1]
      /\ InBatch' \subseteq InBatch /\ handled' \in InBatch /\ InQueue' = InQueue
  <2>1. \A x : x \in InBatch' => \E k \in 1 .. Len(batch') : x = batch[k + 1]
    BY <1>3, NumberHasPlace DEF InBatch
  <2>2. InBatch' \subseteq InBatch
    BY <1>5, <2>1, NumberHasPlace DEF InBatch
  <2>3. handled' \in InBatch /\ InQueue' = InQueue
    BY <1>2, <1>3, NumberHasPlace DEF InBatch, InQueue
  <2> QED
    BY <2>1, <2>2, <2>3
<1>7. InBatch = InBatch' \cup {handled'}
  <2>1. ASSUME NEW k \in 1 .. Len(batch) PROVE batch[k] \in InBatch' \cup {handled'}
    <3>1. CASE k = 1
      BY <1>2, <1>3, <3>1
    <3>2. CASE k # 1
      <4>1. k - 1 \in 1 .. Len(batch') /\ (k - 1) + 1 = k
        BY <1>3, <3>2
      <4> QED
        BY <1>3, <4>1, NumberHasPlace DEF InBatch
    <3> QED
      BY <3>1, <3>2
  <2>2. \A x : x \in InBatch => x \in InBatch' \cup {handled'}
    BY <2>1, NumberHasPlace DEF InBatch
  <2> QED
    BY <1>6, <2>2
<1>8. \A b \in InBatch' : handled' < b
  BY <1>1, <1>2, <1>3, <1>5, <1>6 DEF Ordered
<1>9. handled' \in 0 .. received'
  <2>1. handled' \in Nat
    BY <1>1, <1>2, <1>3, NumbersAreNatural
  <2> QED
    BY <1>1, <1>2, <1>6, <2>1 DEF LoopInv, QueueTypeOK
<1>10. QueueTypeOK'
  BY <1>2, <1>3, <1>6, <1>9 DEF LoopInv, QueueTypeOK
<1>11. NewestIsKept'
  <2>1. \A q \in InQueue' : handled' < q /\ \A b \in InBatch' : b < q
    BY <1>6 DEF LoopInv, NewestIsKept
  <2>2. received' > 0 => received' \in InQueue' \cup InBatch' \cup {handled'}
    <3> SUFFICES ASSUME received > 0
                 PROVE received \in InQueue' \cup InBatch' \cup {handled'}
      BY <1>2
    <3>1. received \in InQueue \cup InBatch \/ received = handled
      BY DEF LoopInv, NewestIsKept
    <3>2. received # handled
      <4>1. handled < handled' /\ handled' <= received /\ handled' \in Nat
        BY <1>2, <1>6, <1>9 DEF LoopInv, NewestIsKept
      <4> QED
        BY <1>1, <4>1
    <3> QED
      BY <1>6, <1>7, <3>1, <3>2
  <2> QED
    BY <1>8, <2>1, <2>2 DEF NewestIsKept
<1> QED
  BY <1>2, <1>4, <1>10, <1>11 DEF LoopInv, Dispatch

\* Every other step leaves the messages where they are.
LEMMA QueueUnchanged ==
    ASSUME LoopInv, UNCHANGED <<queue, received, batch, handled>>,
           pc' # "dispatch" => pc # "dispatch" \/ batch = <<>>
    PROVE LoopInv'
BY DEF LoopInv, QueueTypeOK, NewestIsKept, InQueue, InBatch, Numbers, Ordered

LEMMA LoopStepKeeps ==
    ASSUME LoopInv, [LoopNext]_loopVars PROVE LoopInv'
<1>1. ASSUME OnMessage PROVE LoopInv'
  BY <1>1, OnMessageKeeps
<1>2. CASE PollConnected \/ Dispatch
  BY <1>2, PollConnectedKeeps, DispatchKeeps
<1>3. CASE \/ SocketOpens \/ SocketCloses \/ PollDisconnected \/ EndOfPoll \/ DrawOrSkip
           \/ Leave \/ StartTimerElapses \/ LostTimerElapses \/ Gpu \/ UNCHANGED loopVars
  <2>1. /\ UNCHANGED <<queue, received, batch, handled>>
        /\ pc' # "dispatch" => pc # "dispatch" \/ batch = <<>>
    BY <1>3 DEF SocketOpens, SocketCloses, PollDisconnected, EndOfPoll, DrawOrSkip, Leave,
                StartTimerElapses, LostTimerElapses, Gpu, loopVars, netVars
  <2> QED
    BY <2>1, QueueUnchanged
<1> QED
  BY <1>1, <1>2, <1>3 DEF LoopNext, MainThread

LEMMA LoopInitially == LoopInit => LoopInv
BY LoopAssumption
   DEF LoopInit, LoopInv, QueueTypeOK, NewestIsKept, InQueue, InBatch, Numbers, Ordered

\* The inbound queue and the batch a poll drained from it: in order, within
\* the capacity, nothing older than what was handled, and the newest message
\* is still there or was the last one handled.
THEOREM LoopInvHolds == LoopSpec => []LoopInv
<1> QED
  BY LoopInitially, LoopStepKeeps, PTL DEF LoopSpec

\* Commands run in the order they came, none twice: what a dispatch handles
\* came after everything handled before it.
THEOREM CommandsAreInOrder == LoopSpec => [][handled' # handled => handled < handled']_loopVars
<1>1. LoopInv /\ [LoopNext]_loopVars
        => [handled' # handled => handled < handled']_loopVars
  <2> SUFFICES ASSUME LoopInv, LoopNext, handled' # handled PROVE handled < handled'
    BY DEF loopVars, netVars
  <2>1. Dispatch
    BY DEF LoopNext, MainThread, SocketOpens, SocketCloses, OnMessage, PollDisconnected,
           PollConnected, EndOfPoll, DrawOrSkip, Leave, StartTimerElapses, LostTimerElapses, Gpu
  <2>2. batch \in Seq(Messages) /\ batch # <<>> /\ handled' = Head(batch)
    BY <2>1 DEF Dispatch, LoopInv, QueueTypeOK
  <2>3. Len(batch) \in Nat \ {0} /\ Head(batch) = batch[1] /\ 1 \in 1 .. Len(batch)
    BY <2>2
  <2>4. handled' \in InBatch
    BY <2>2, <2>3, NumberHasPlace DEF InBatch
  <2> QED
    BY <2>4 DEF LoopInv, NewestIsKept
<1> QED
  BY <1>1, LoopInvHolds, PTL DEF LoopSpec
=============================================================================
