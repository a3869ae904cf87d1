--------------------------- MODULE PendingRequests ---------------------------
(***************************************************************************)
(* PendingRequests: an expectation per command id, completed by a          *)
(* response, by its timer or by a second expectation of the same id.       *)
(* resolved() is a direct signal: its slot runs inside resolveEntry() and  *)
(* may expect again before the expectation that superseded the first is    *)
(* installed.  `slots` holds the slots under way.                          *)
(***************************************************************************)
EXTENDS Naturals, Sequences, SequencesExt

CONSTANTS
    Ids,                 \* command ids
    MaxExpectations,     \* bound: expectResponse() calls that get a timer
    MaxSlots             \* bound: slots under way at once

ASSUME PendingAssumption == MaxExpectations \in Nat /\ MaxSlots \in Nat

VARIABLES
    entries,             \* m_entries: id -> its expectation, 0 for none
    timers,              \* expectations whose QTimer exists and runs
    idOf,                \* expectation -> id, in the order they were installed
    outcome,             \* expectation -> "open" or how it was resolved
    slots,               \* slots of resolved() under way, innermost last
    overwritten          \* ghost: expectations whose entry an install replaced

pendingVars == <<entries, timers, idOf, outcome, slots, overwritten>>

Expectations == 1 .. Len(idOf)
QuietSlots == slots = <<>>

Install(id) ==
    LET e == Len(idOf) + 1
    IN  /\ e <= MaxExpectations
        /\ idOf' = Append(idOf, id)
        /\ outcome' = Append(outcome, "open")
        /\ entries' = [entries EXCEPT ![id] = e]
        /\ timers' = timers \cup {e}
        /\ overwritten' = IF entries[id] = 0 THEN overwritten ELSE overwritten \cup {entries[id]}

(* resolveEntry(): the entry goes, its own timer with it, then the slot.   *)
ResolveEntry(id, how, fired, then) ==
    /\ entries[id] # 0
    /\ outcome' = [outcome EXCEPT ![entries[id]] = how]
    /\ entries' = [entries EXCEPT ![id] = 0]
    /\ timers' = (timers \ {entries[id]}) \ fired
    /\ slots' = Append(slots, [id |-> id, then |-> then])
    /\ UNCHANGED <<idOf, overwritten>>

MayExpect == Len(slots) < MaxSlots

ExpectBlindly(id) ==         \* installs over an expectation of the same id
    /\ MayExpect /\ Len(idOf) < MaxExpectations
    /\ idOf' = Append(idOf, id)
    /\ outcome' = Append(outcome, "open")
    /\ entries' = [entries EXCEPT ![id] = Len(idOf) + 1]
    /\ timers' = (timers \ {entries[id]}) \cup {Len(idOf) + 1}
    /\ UNCHANGED <<slots, overwritten>>

ExpectResponse(id) ==
    /\ MayExpect /\ Len(idOf) < MaxExpectations
    /\ IF entries[id] # 0
       THEN ResolveEntry(id, "superseded", {}, "install")
       ELSE Install(id) /\ UNCHANGED slots

(* The timer belongs to an id, not to an expectation: a leaked one resolves*)
(* whatever the id stands for by then.                                     *)
TimesOut(e) ==
    /\ QuietSlots /\ e \in timers
    /\ IF entries[idOf[e]] # 0
       THEN ResolveEntry(idOf[e], "timeout", {e}, "return")
       ELSE timers' = timers \ {e} /\ UNCHANGED <<entries, idOf, outcome, slots, overwritten>>

HandleResponse(id) ==
    /\ QuietSlots
    /\ IF entries[id] # 0 THEN ResolveEntry(id, "response", {}, "return")
                          ELSE UNCHANGED pendingVars

SlotReturns ==
    /\ slots # <<>>
    /\ slots' = Front(slots)
    /\ IF Last(slots).then = "install" /\ Len(idOf) < MaxExpectations
       THEN Install(Last(slots).id)
       ELSE UNCHANGED <<entries, timers, idOf, outcome, overwritten>>

PendingInit ==
    /\ entries = [id \in Ids |-> 0]
    /\ timers = {} /\ idOf = <<>> /\ outcome = <<>> /\ slots = <<>> /\ overwritten = {}

(* The table, the timers and the history of the expectations.              *)
PendingTypeOK ==
    /\ entries \in [Ids -> 0 .. MaxExpectations]
    /\ idOf \in Seq(Ids) /\ Len(idOf) <= MaxExpectations
    /\ outcome \in Seq({"open", "response", "timeout", "superseded"})
    /\ Len(outcome) = Len(idOf)
    /\ timers \subseteq Expectations /\ overwritten \subseteq Expectations
    /\ slots \in Seq([id : Ids, then : {"install", "return"}])

(* An entry is an expectation of its own id that nobody has resolved yet - *)
(* so none is resolved twice - and its timer runs.                         *)
EntriesAreOpen ==
    \A id \in Ids : entries[id] # 0 =>
        /\ entries[id] \in Expectations /\ idOf[entries[id]] = id
        /\ outcome[entries[id]] = "open" /\ entries[id] \in timers

(* An expectation nobody has resolved is still the entry of its id, unless *)
(* an install replaced it.                                                 *)
OpenIsExpected ==
    \A e \in Expectations :
        outcome[e] = "open" /\ e \notin overwritten => entries[idOf[e]] = e

PendingInv == PendingTypeOK /\ EntriesAreOpen /\ OpenIsExpected

(* Every expectation is completed, unless the slot of an expectation that  *)
(* was being superseded expected the same id again: its entry is then      *)
(* overwritten by the outer install and nobody is told.                    *)
EveryExpectationEnds ==
    \A e \in 1 .. MaxExpectations :
        (e \in Expectations /\ outcome[e] = "open")
            ~> (e \in overwritten \/ (IF e \in Expectations THEN outcome[e] # "open" ELSE FALSE))

(* PendingRequests.hpp: "resolved(id, result) emitted exactly once per     *)
(* expectation", refuted by the same re-entrance.                          *)
NobodyIsOverwritten == overwritten = {}
=============================================================================
