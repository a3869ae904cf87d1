--------------------------- MODULE PluginObservers ---------------------------
(* The observers plugins hand to the host: of the samples of an instance's    *)
(* monitor (MonitorApiImpl) and of the roster (InstanceApiImpl).  The lists    *)
(* belong to the host, no unload sweeps them, and an observer may change them  *)
(* in the middle of the loop that calls it.                                    *)
EXTENDS PluginHost

CONSTANTS Observers, \* the observer objects
          OwnerOf,   \* observer -> the plugin it belongs to
          Uuids,     \* instances in the roster
          Pairs,     \* the subscriptions made: <<uuid, observer>>
          Watchers,  \* the observers that watch the roster
          Floored    \* those with a minIntervalMs

ASSUME OwnersAssumption == OwnerOf \in [Observers -> Ids]
ASSUME PairsAssumption == /\ Pairs \subseteq Uuids \X Observers /\ Floored \subseteq Pairs
                         /\ Watchers \subseteq Observers

VARIABLES subs,      \* m_subscriptions of the monitor API
          observers, \* m_observers of the roster API
          fan,       \* the fan-out of a sample, while it runs
          copy       \* what a roster fan-out has left of the list it copied

obsVars == <<subs, observers, fan, copy>>
pluginVars == <<hostVars, obsVars>>

NoFan == [n |-> 0]
Calling == fan # NoFan \/ copy # <<>>

ObserversInit == subs = <<>> /\ observers = <<>> /\ fan = NoFan /\ copy = <<>>

(* A plugin may call from initialize(), its own events and the callbacks.    *)
MayCall(p) == Runs(p) /\ (Calling => active = p)

-----------------------------------------------------------------------------
(* Subscribing.                                                              *)

(* The list without e, which is there once.                                  *)
Without(list, e) == RemoveAt(list, CHOOSE i \in DOMAIN list : list[i] = e)

(* The same pair again only renews the interval.                             *)
SubscribeMonitor(pair) ==
    /\ MayCall(OwnerOf[pair[2]]) /\ ~Contains(subs, pair)
    /\ subs' = Append(subs, pair)
    /\ CallFrame /\ UNCHANGED <<booked, pages, disabled, observers, fan, copy>>

UnsubscribeMonitor(pair) ==
    /\ MayCall(OwnerOf[pair[2]]) /\ Contains(subs, pair)
    /\ subs' = Without(subs, pair)
    /\ fan' = IF fan = NoFan THEN fan ELSE [fan EXCEPT !.stay = @ \ {pair}]
    /\ CallFrame /\ UNCHANGED <<booked, pages, disabled, observers, copy>>

SubscribeRoster(o) ==
    /\ MayCall(OwnerOf[o]) /\ ~Contains(observers, o)
    /\ observers' = Append(observers, o)
    /\ CallFrame /\ UNCHANGED <<booked, pages, disabled, subs, fan, copy>>

UnsubscribeRoster(o) ==
    /\ MayCall(OwnerOf[o]) /\ Contains(observers, o)
    /\ observers' = Without(observers, o)
    /\ CallFrame /\ UNCHANGED <<booked, pages, disabled, subs, fan, copy>>

-----------------------------------------------------------------------------
(* MonitorApiImpl::fanoutSample().  fan.k counts the turns of its loop, told *)
(* the calls each subscription got, stay those there from the beginning on.  *)

FanIndexForward(k, n) == k

(* The index the loop has in its k-th turn over what were n subscriptions.   *)
FanIndex(k, n) == n + 1 - k

Sample(u) ==
    /\ EventLoop /\ ~Calling /\ subs # <<>>
    /\ fan' = [uuid |-> u, n |-> Len(subs), k |-> 1,
               stay |-> {s \in ToSet(subs) : s[1] = u},
               told |-> [s \in Pairs |-> 0]]
    /\ CallFrame /\ UNCHANGED <<booked, pages, disabled, subs, observers, copy>>

InLoop == fan # NoFan /\ active = NoOne
Here == FanIndex(fan.k, fan.n)
NextTurn == fan' = IF fan.k = fan.n THEN NoFan ELSE [fan EXCEPT !.k = @ + 1]

(* Nothing for this subscription: another instance's, or inside its interval *)
(* (which it always is when this very fan-out has called it).  An index past *)
(* the end reads what was a subscription; the outcome without a crash is     *)
(* that it matches nothing.                                                  *)
PassOver ==
    /\ InLoop
    /\ \/ Here > Len(subs)
       \/ Here <= Len(subs) /\ subs[Here][1] # fan.uuid
       \/ Here <= Len(subs) /\ subs[Here] \in Floored
    /\ NextTurn
    /\ CallFrame /\ UNCHANGED <<booked, pages, disabled, subs, observers, copy>>

(* The callback begins; it is over when SampleReturns.                       *)
CallSample ==
    /\ InLoop /\ Here <= Len(subs) /\ subs[Here][1] = fan.uuid
    /\ subs[Here] \in Floored => fan.told[subs[Here]] = 0
    /\ active' = OwnerOf[subs[Here][2]] /\ called' = {active'}
    /\ fan' = [fan EXCEPT !.told[subs[Here]] = @ + 1]
    /\ UNCHANGED <<boot, scan, entries, phase, agenda, live, startedIds,
                   booked, pages, window, disabled, subs, observers, copy>>

SampleReturns ==
    /\ fan # NoFan /\ active # NoOne
    /\ NextTurn /\ active' = NoOne /\ called' = {}
    /\ UNCHANGED <<boot, scan, entries, phase, agenda, live, startedIds,
                   booked, pages, window, disabled, subs, observers, copy>>

-----------------------------------------------------------------------------
(* InstanceApiImpl::fanoutRosterChanged(): over a copy of the list.          *)

RosterChanges ==
    /\ EventLoop /\ ~Calling /\ observers # <<>> /\ copy' = observers
    /\ CallFrame /\ UNCHANGED <<booked, pages, disabled, subs, observers, fan>>

CallRosterChanged ==
    /\ copy # <<>> /\ active = NoOne
    /\ active' = OwnerOf[Head(copy)] /\ called' = {active'}
    /\ UNCHANGED <<boot, scan, entries, phase, agenda, live, startedIds,
                   booked, pages, window, disabled, subs, observers, fan, copy>>

RosterChangedReturns ==
    /\ copy # <<>> /\ active # NoOne
    /\ copy' = Tail(copy) /\ active' = NoOne /\ called' = {}
    /\ UNCHANGED <<boot, scan, entries, phase, agenda, live, startedIds,
                   booked, pages, window, disabled, subs, observers, fan>>

-----------------------------------------------------------------------------
PluginInit == HostInit /\ ObserversInit

(* The lists die with the panel.                                             *)
NextPanel == Restart /\ subs' = <<>> /\ observers' = <<>> /\ UNCHANGED <<fan, copy>>

ObserversNext ==
    \/ \E pair \in Pairs : SubscribeMonitor(pair) \/ UnsubscribeMonitor(pair)
    \/ \E o \in Watchers : SubscribeRoster(o) \/ UnsubscribeRoster(o)
    \/ \E u \in Uuids : Sample(u)
    \/ PassOver \/ CallSample \/ SampleReturns
    \/ RosterChanges \/ CallRosterChanged \/ RosterChangedReturns

(* The event loop, and the shutdown after it, wait for a fan-out to end.     *)
PluginNext ==
    \/ (Calling => active # NoOne) /\ HostLife /\ UNCHANGED obsVars
    \/ NextPanel
    \/ ObserversNext

PluginSpec == PluginInit /\ [][PluginNext]_pluginVars

Fans == [uuid : Uuids, n : Nat \ {0}, k : Nat \ {0}, stay : SUBSET Pairs, told : [Pairs -> Nat]]

PluginTypeOK ==
    /\ HostTypeOK
    /\ subs \in Seq(Pairs) /\ observers \in Seq(Watchers) /\ copy \in Seq(Watchers)
    /\ IsInjective(subs) /\ IsInjective(observers)
    /\ fan \in Fans \cup {NoFan} /\ (fan # NoFan => fan.k <= fan.n)

(* A fan-out runs in the event loop, one at a time.                          *)
CallingIsInTheLoop == Calling => phase = "up" /\ (fan = NoFan \/ copy = <<>>)

(* A subscription that stays through the fan-out of its instance and was not *)
(* told lies where the loop has yet to come.                                 *)
StillToBeTold ==
    fan # NoFan => \A s \in fan.stay :
        /\ s[1] = fan.uuid
        /\ s \notin Floored /\ fan.told[s] = 0 =>
               \E i \in DOMAIN subs : /\ subs[i] = s
                                      /\ i <= Here
                                      /\ active # NoOne => i # Here

PluginInv ==
    /\ PluginTypeOK /\ StoppedIsOver /\ CallingIsInTheLoop /\ StillToBeTold
    /\ StoppedIsSilent

-----------------------------------------------------------------------------
(* What the comment over the loop (core/PluginContextImpl.cpp:1187-1192)      *)
(* promises.                                                                  *)

(* Whatever the callbacks of a sample take back, every subscription that is  *)
(* there from the first turn to the last and has no interval is told.        *)
EveryRemainingIsTold ==
    [][fan # NoFan /\ fan' = NoFan =>
          \A s \in fan.stay \ Floored : fan.told[s] >= 1]_pluginVars

(* "exactly one visit per fanout".  Not so: a callback that takes back a     *)
(* subscription made before its own shifts its own into the next turn.       *)
OneVisitEach == fan # NoFan => \A s \in Pairs : fan.told[s] <= 1

(* The loop reads no subscription that is not there.  Not so: a callback     *)
(* that takes back two of them moves the end below the next turn's index.    *)
LoopStaysInside == InLoop => Here <= Len(subs)
=============================================================================
