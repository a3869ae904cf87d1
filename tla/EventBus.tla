------------------------------ MODULE EventBus ------------------------------
(* The panel's event bus (core/EventBus.cpp) and the proxies in front of it. *)
(* Publishing is synchronous: a listener runs in the middle of its           *)
(* publisher's call and may publish, subscribe or unsubscribe itself.  The   *)
(* call stack is therefore part of the state: `stack` holds the open         *)
(* publishes and, above each, the listener it is calling.                    *)
EXTENDS Integers, Sequences, SequencesExt, FiniteSets

CONSTANTS EventIds,       \* the channels, each a sequence of segments
          Segments,       \* the segments made of [a-z0-9_]
          MaxPublishDepth \* kEventMaxPublishDepth (8)

ASSUME DepthAssumption == MaxPublishDepth \in Nat \ {0}

VARIABLES subs,  \* m_subscriptions: event id -> entries in dispatch order
          stack  \* the publishes and listeners in progress, innermost last

busVars == <<subs, stack>>

Highest == 0
Normal  == 2
Low     == 3
Lowest  == 4

Host == <<>>     \* the empty publisher id of the host's own channel

(* At least three segments, none of them empty or with an illegal character. *)
IsValidEventId(e) == Len(e) >= 3 /\ \A i \in DOMAIN e : e[i] \in Segments

Entry(listener, priority, publisher) ==
    [listener |-> listener, priority |-> priority, publisher |-> publisher]

(* The members of S, the least first: <<x, y>> is in upto when x comes no    *)
(* later than y.                                                             *)
Listed(S, upto) ==
    [k \in 1..Cardinality(S) |->
        CHOOSE y \in S : Cardinality({x \in S : <<x, y>> \in upto}) = k]

(* The entries at these places, in this order.                               *)
EntriesAt(entries, places) == [k \in DOMAIN places |-> entries[places[k]]]

(* std::stable_sort by priority: first come first served within a priority.  *)
ByPriority(entries) ==
    LET all == DOMAIN entries
        NotAfter(i, j) == \/ entries[i].priority < entries[j].priority
                          \/ entries[i].priority = entries[j].priority /\ i <= j
    IN  EntriesAt(entries, Listed(all, {p \in all \X all : NotAfter(p[1], p[2])}))

(* QVector::removeIf: the entries at the places left, as they were.          *)
Keeping(entries, places) ==
    EntriesAt(entries, Listed(places, {p \in places \X places : p[1] <= p[2]}))

(* A known pair is updated in place, a new one appended; then the sort.      *)
Merged(entries, new) ==
    IF \E i \in DOMAIN entries : entries[i].listener = new.listener
    THEN [i \in DOMAIN entries |->
            IF entries[i].listener = new.listener THEN new ELSE entries[i]]
    ELSE Append(entries, new)

Subscribed(table, e, listener, priority, publisher) ==
    IF IsValidEventId(e)
    THEN [table EXCEPT ![e] =
            ByPriority(Merged(@, Entry(listener, priority, publisher)))]
    ELSE table

Unsubscribed(table, e, listener) ==
    [table EXCEPT ![e] = Keeping(@, {i \in DOMAIN @ : @[i].listener # listener})]

UnsubscribedByPublisher(table, publisher) ==
    [e \in DOMAIN table |->
        Keeping(table[e], {i \in DOMAIN table[e] : table[e][i].publisher # publisher})]

(* EventApiProxy: a plugin may only publish below plugin.<its id>.           *)
MayPublish(plugin, e) == IsStrictPrefix(<<"plugin">> \o plugin, e)

-----------------------------------------------------------------------------
(* Frames.  A publish keeps the snapshot of listeners still to call.         *)

PublishFrame(event, listeners) ==
    [kind |-> "publish", event |-> event, todo |-> listeners]

IsPublish(frame) == frame.kind = "publish"

(* t_publishDepth: the publishes that have not come back.                    *)
Depth(st) == Cardinality({i \in DOMAIN st : IsPublish(st[i])})

Idle == stack = <<>>

Top == Last(stack)

AtPublish == ~Idle /\ IsPublish(Top)

PublishResultUncapped(st, table, event) ==
    IF ~IsValidEventId(event.id) THEN "InvalidArgument"
    ELSE IF table[event.id] = <<>> THEN "Ok" ELSE "Dispatched"

(* The outcome of publish(): refused, delivered to nobody, or dispatched.    *)
PublishResult(st, table, event) ==
    IF ~IsValidEventId(event.id) THEN "InvalidArgument"
    ELSE IF table[event.id] = <<>> THEN "Ok"
    ELSE IF Depth(st) >= MaxPublishDepth THEN "Busy"
    ELSE "Dispatched"

Published(st, table, event) ==
    Append(st, PublishFrame(event, [i \in DOMAIN table[event.id] |->
                                       table[event.id][i].listener]))

(* The listener about to be called, and the publish once it is being called. *)
NextListener == Head(Top.todo)

CallingAgain(st) == st

Calling(st) == [st EXCEPT ![Len(st)].todo = Tail(@)]

ReturnedUnlooked(st) == Front(st)

(* A listener comes back (or throws, which is the same to the bus): what it  *)
(* wrote to `cancelled` counts only for a cancellable event.                 *)
Returned(st) ==
    LET below == Front(st)
    IN  [below EXCEPT ![Len(below)].event.cancelled =
            @ /\ Last(below).event.cancellable]

(* The listener on top writes event.cancelled.                               *)
Cancelled(st) == [st EXCEPT ![Len(st) - 1].event.cancelled = TRUE]

(* Every listener of the snapshot has been called: publish() returns Ok.     *)
PublishEnds ==
    /\ AtPublish
    /\ Top.todo = <<>>
    /\ stack' = Front(stack)
    /\ UNCHANGED subs

-----------------------------------------------------------------------------
(* What the flag of an event says once its listener is back.                *)
FlagIsSound(event) == event.cancelled => event.cancellable

(* Nested publishes stay within the cap, and between two listeners no event  *)
(* that cannot be cancelled carries the flag (EventBus.cpp:137, 165-166).    *)
DispatchIsSound ==
    /\ Depth(stack) <= MaxPublishDepth
    /\ \A i \in DOMAIN stack :
          (IsPublish(stack[i]) /\ (i = Len(stack) \/ IsPublish(stack[i + 1])))
             => FlagIsSound(stack[i].event)

(* Why: a publish calls one listener at a time, and it is a listener that    *)
(* publishes.  So they alternate, and the flag a listener may write is that  *)
(* of the publish it was called by, which is looked at when it comes back.   *)
Alternates(st) ==
    /\ st \in Seq(Range(st))
    /\ \A i \in DOMAIN st :
          /\ "kind" \in DOMAIN st[i]
          /\ IsPublish(st[i]) <=> (i = 1 \/ ~IsPublish(st[i - 1]))
          /\ IsPublish(st[i]) => /\ {"event", "todo"} \subseteq DOMAIN st[i]
                                 /\ {"cancellable", "cancelled"} \subseteq DOMAIN st[i].event

DispatchInv == Alternates(stack) /\ DispatchIsSound
=============================================================================
