------------------------------ MODULE WsServer ------------------------------
(***************************************************************************)
(* The controller's WebSocket server: three gates for a new socket, one    *)
(* active socket per instance, a ready-timer per instance, and the         *)
(* sockets that outlive their place in the table - a replaced one, one     *)
(* closed by its timer, a rejected one - and go on delivering what was     *)
(* under way until their close handshake is over.                          *)
(*                                                                         *)
(* A frame is what a peer put on the wire; Envelope says which frames are  *)
(* envelopes.                                                              *)
(***************************************************************************)
EXTENDS Naturals, Sequences, FiniteSets, SequencesExt

CONSTANTS
    Instances,       \* instance ids
    Tokens,          \* tokens sessions register
    MaxSockets,      \* bound: connections a run may see, numbered as they arrive
    Origins,         \* Origin headers: "" and http(s) ones among them
    Frames,          \* what peers send
    MaxOutgoing,     \* bound: frames of one socket under way
    NoToken, NoInstance

ASSUME ServerAssumption ==
    MaxSockets \in Nat /\ NoToken \notin Tokens /\ NoInstance \notin Instances

Sockets == 1 .. MaxSockets
NoSocket == 0

VARIABLES
    serving,         \* listen() succeeded and close() has not run
    tokens,          \* m_tokens
    socket,          \* socket -> [phase, inst, out]
    connections,     \* m_connections: the active socket of an instance
    readyTimers,     \* m_readyTimers: "none", "idle" or "armed"
    infos,           \* m_lastConnectionInfos has an entry
    told,            \* what connectionStateChanged last said of an instance
    latest,          \* ghost: the socket accepted last for an instance
    isReady,         \* ghost: sockets whose ready was handled
    heard            \* the messageReceived of the last step: [inst, from, frame]

serverVars == <<serving, tokens, socket, connections, readyTimers, infos, told, latest,
                isReady, heard>>

Silence == [inst |-> NoInstance, from |-> NoSocket, frame |-> <<>>]
Fresh == [phase |-> "none", inst |-> NoInstance, out |-> <<>>]

-----------------------------------------------------------------------------
(* Envelope.cpp.  A frame is a function from the keys it carries to the    *)
(* JSON kind of their values, with the texts that matter: type, action,    *)
(* id.  "root" says whether the document parsed and is an object.          *)

Kind(f, key) == IF key \in DOMAIN f.kinds THEN f.kinds[key] ELSE "absent"

IsValidType(t) == t \in {"command", "event", "response"}

Deserializes(f) ==
    /\ f.root = "object"
    /\ \A key \in {"type", "action", "id"} : Kind(f, key) = "string"
    /\ Kind(f, "payload") = "object"
    /\ Kind(f, "timestamp") = "number"
    /\ IsValidType(f.type)
    /\ f.id # ""
    /\ f.type = "response" =>
          /\ Kind(f, "success") = "bool"
          /\ Kind(f, "error_code") = "number"
          /\ Kind(f, "error_message") = "string"

-----------------------------------------------------------------------------
(* The gates *)

IsOriginAcceptable(origin) == origin \notin {"http://", "https://"}

(* instance_id and token both present and the id a number: anything else   *)
(* arrives as NoInstance.                                                  *)
Gate(origin, inst, token) ==
    CASE ~IsOriginAcceptable(origin) -> 4001
      [] inst = NoInstance -> 4000
      [] tokens[inst] = NoToken \/ tokens[inst] # token -> 4002
      [] OTHER -> 1000

(* close() of a socket the table may no longer know; Qt completes the      *)
(* handshake and reports disconnected() later.                             *)
Closing(s) == [socket EXCEPT ![s].phase = "closing"]

InstanceOfQuery(s) == socket[s].inst

FindInstanceIdForSocket(s) ==
    IF \E i \in Instances : connections[i] = s
    THEN CHOOSE i \in Instances : connections[i] = s ELSE NoInstance

Arrives(s) ==
    /\ serving /\ socket[s].phase = "none"
    /\ \A r \in 1 .. s - 1 : socket[r].phase # "none"

Rejected(s, origin, inst, token) ==
    /\ Arrives(s)
    /\ Gate(origin, inst, token) # 1000
    /\ socket' = [socket EXCEPT ![s].phase = "closing"]
    /\ heard' = Silence
    /\ UNCHANGED <<serving, tokens, connections, readyTimers, infos, told, latest, isReady>>

(* An accepted connection replaces the one of its instance and starts the  *)
(* ready-timer anew.                                                       *)
Accepted(s, origin, inst, token) ==
    /\ Arrives(s)
    /\ Gate(origin, inst, token) = 1000
    /\ socket' = [IF connections[inst] # NoSocket THEN Closing(connections[inst]) ELSE socket
                  EXCEPT ![s] = [phase |-> "open", inst |-> inst, out |-> <<>>]]
    /\ connections' = [connections EXCEPT ![inst] = s]
    /\ latest' = [latest EXCEPT ![inst] = s]
    /\ infos' = [infos EXCEPT ![inst] = TRUE]
    /\ readyTimers' = [readyTimers EXCEPT ![inst] = "armed"]
    /\ told' = [told EXCEPT ![inst] = "connected"]
    /\ heard' = Silence
    /\ UNCHANGED <<serving, tokens, isReady>>

-----------------------------------------------------------------------------
(* Text, disconnect, timeout *)

HasEnded(s) == socket[s].phase \in {"none", "gone"}
Incoming(s) == Head(socket[s].out)
Consumed(s) == socket' = [socket EXCEPT ![s].out = Tail(@)]

PeerSends(s, f) ==
    /\ socket[s].phase \in {"open", "closing"}
    /\ Len(socket[s].out) < MaxOutgoing
    /\ socket' = [socket EXCEPT ![s].out = Append(@, f)]
    /\ heard' = Silence
    /\ UNCHANGED <<serving, tokens, connections, readyTimers, infos, told, latest, isReady>>

TextDropped(s) ==
    /\ ~HasEnded(s) /\ socket[s].out # <<>>
    /\ FindInstanceIdForSocket(s) = NoInstance \/ ~Deserializes(Incoming(s))
    /\ Consumed(s)
    /\ heard' = Silence
    /\ UNCHANGED <<serving, tokens, connections, readyTimers, infos, told, latest, isReady>>

IsReadyEvent(f) == f.type = "event" /\ f.action = "ready"

TextReceived(s) ==
    LET i == FindInstanceIdForSocket(s)
        ready == IsReadyEvent(Incoming(s))
    IN  /\ ~HasEnded(s) /\ socket[s].out # <<>>
        /\ i # NoInstance /\ Deserializes(Incoming(s))
        /\ Consumed(s)
        /\ readyTimers' = IF ready /\ readyTimers[i] = "armed"
                          THEN [readyTimers EXCEPT ![i] = "idle"] ELSE readyTimers
        /\ isReady' = IF ready THEN isReady \cup {s} ELSE isReady
        /\ heard' = [inst |-> i, from |-> s, frame |-> Incoming(s)]
        /\ UNCHANGED <<serving, tokens, connections, infos, told, latest>>

Forget(i) ==
    /\ connections' = [connections EXCEPT ![i] = NoSocket]
    /\ readyTimers' = [readyTimers EXCEPT ![i] = "none"]
    /\ infos' = [infos EXCEPT ![i] = FALSE]
    /\ told' = [told EXCEPT ![i] = "disconnected"]

(* onDisconnected: only the active socket of an instance is a disconnect.  *)
OnDisconnected(s) ==
    LET i == FindInstanceIdForSocket(s)
    IN  /\ ~HasEnded(s)
        /\ socket' = [socket EXCEPT ![s] = [phase |-> "gone", inst |-> @.inst, out |-> <<>>]]
        /\ IF i = NoInstance
           THEN UNCHANGED <<connections, readyTimers, infos, told>>
           ELSE Forget(i)
        /\ heard' = Silence
        /\ UNCHANGED <<serving, tokens, latest, isReady>>

ReadyTimeoutQuietly(i) ==           \* closes the socket and keeps its entry
    /\ serving /\ readyTimers[i] = "armed"
    /\ socket' = IF connections[i] = NoSocket THEN socket ELSE Closing(connections[i])
    /\ readyTimers' = [readyTimers EXCEPT ![i] = "none"]
    /\ infos' = [infos EXCEPT ![i] = FALSE]
    /\ told' = IF infos[i] THEN [told EXCEPT ![i] = "disconnected"] ELSE told
    /\ heard' = Silence
    /\ UNCHANGED <<serving, tokens, connections, latest, isReady>>

ReadyTimeout(i) ==
    /\ serving /\ readyTimers[i] = "armed"
    /\ socket' = IF connections[i] = NoSocket THEN socket ELSE Closing(connections[i])
    /\ connections' = [connections EXCEPT ![i] = NoSocket]
    /\ readyTimers' = [readyTimers EXCEPT ![i] = "none"]
    /\ infos' = [infos EXCEPT ![i] = FALSE]
    /\ told' = IF infos[i] THEN [told EXCEPT ![i] = "disconnected"] ELSE told
    /\ heard' = Silence
    /\ UNCHANGED <<serving, tokens, latest, isReady>>

-----------------------------------------------------------------------------
(* The sessions and the application *)

RegisterToken(i, token) ==
    /\ serving
    /\ tokens' = [tokens EXCEPT ![i] = token]
    /\ heard' = Silence
    /\ UNCHANGED <<serving, socket, connections, readyTimers, infos, told, latest, isReady>>

(* close(): every table is emptied and nobody is told.                     *)
CloseServer ==
    /\ serving
    /\ serving' = FALSE
    /\ socket' = [s \in Sockets |-> IF \E i \in Instances : connections[i] = s
                                    THEN [socket[s] EXCEPT !.phase = "closing"] ELSE socket[s]]
    /\ connections' = [i \in Instances |-> NoSocket]
    /\ readyTimers' = [i \in Instances |-> "none"]
    /\ infos' = [i \in Instances |-> FALSE]
    /\ heard' = Silence
    /\ UNCHANGED <<tokens, told, latest, isReady>>

ServerInit ==
    /\ serving = TRUE
    /\ tokens = [i \in Instances |-> NoToken]
    /\ socket = [s \in Sockets |-> Fresh]
    /\ connections = [i \in Instances |-> NoSocket]
    /\ readyTimers = [i \in Instances |-> "none"]
    /\ infos = [i \in Instances |-> FALSE]
    /\ told = [i \in Instances |-> "disconnected"]
    /\ latest = [i \in Instances |-> NoSocket]
    /\ isReady = {}
    /\ heard = Silence

-----------------------------------------------------------------------------
(* Properties *)

(* A session only ever hears the socket that was accepted last for its own *)
(* instance: a renderer that was replaced, timed out or rejected is not    *)
(* heard, however late its frames arrive.                                  *)
OnlyTheLatestIsHeard ==
    [][heard' # Silence => /\ latest[heard'.inst] = heard'.from
                         /\ socket[heard'.from].inst = heard'.inst
                         /\ socket[heard'.from].phase = "open"]_serverVars

(* What a session was told last is what the table holds, through every     *)
(* replacement, timeout and late disconnect - until the server closes,     *)
(* which tells nobody.                                                     *)
ToldIsTrue ==
    serving => \A i \in Instances : (told[i] = "connected") = (connections[i] # NoSocket)

(* The tables of the server hold what their names say.                     *)
ServerTypeOK ==
    /\ serving \in BOOLEAN
    /\ tokens \in [Instances -> Tokens \cup {NoToken}]
    /\ socket \in [Sockets -> [phase : {"none", "open", "closing", "gone"},
                               inst : Instances \cup {NoInstance}, out : Seq(Frames)]]
    /\ connections \in [Instances -> Sockets \cup {NoSocket}]
    /\ readyTimers \in [Instances -> {"none", "idle", "armed"}]
    /\ infos \in [Instances -> BOOLEAN]
    /\ told \in [Instances -> {"connected", "disconnected"}]
    /\ latest \in [Instances -> Sockets \cup {NoSocket}]
    /\ isReady \subseteq Sockets

(* The three tables of a running server are about the same instances.      *)
TablesAgree ==
    serving => \A i \in Instances : infos[i] <=> connections[i] # NoSocket

(* The active socket of an instance is the one accepted last for it, it    *)
(* was accepted for this instance, and nobody has closed it.               *)
ActiveIsLatest ==
    \A i \in Instances : connections[i] # NoSocket =>
        /\ latest[i] = connections[i]
        /\ socket[connections[i]].inst = i
        /\ socket[connections[i]].phase = "open"

(* An active socket that has not said ready is on the clock.               *)
UnreadyIsTimed ==
    \A i \in Instances :
        connections[i] # NoSocket /\ connections[i] \notin isReady => readyTimers[i] = "armed"

(* What the sessions are told, with all it rests on.                       *)
ServerInv ==
    ServerTypeOK /\ ToldIsTrue /\ TablesAgree /\ ActiveIsLatest /\ UnreadyIsTimed

(* A socket that does not say ready is not kept: the timer of its instance *)
(* is armed for IT, whatever the sockets before it did.                    *)
UnreadyIsDropped ==
    \A i \in Instances, s \in Sockets :
        (connections[i] = s /\ s \notin isReady) ~> (connections[i] # s \/ s \in isReady)

(* The one socket of an instance: it alone is heard, and only for so long  *)
(* without a ready.                                                        *)
OnlyTheLatestCounts == OnlyTheLatestIsHeard /\ UnreadyIsDropped
=============================================================================
