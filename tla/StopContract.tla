---------------------------- MODULE StopContract ----------------------------
(***************************************************************************)
(* What ProcessManager::stop() promises to its owner (ProcessManager.hpp,  *)
(* stop() and stopFinished()), with no polling, no clock and no kill:      *)
(* a stop of a live process is eventually settled exactly once, clean only *)
(* if the process is gone by then; a stop of a dead one settles at once;   *)
(* every settlement is delivered, in order.                                *)
(***************************************************************************)
EXTENDS Sequences

VARIABLES
    alive,     \* a renderer process exists
    stopping,  \* an accepted stop has not been settled yet
    settled    \* verdicts (clean or not) settled and not yet delivered

scVars == <<alive, stopping, settled>>

SCInit == ~alive /\ ~stopping /\ settled = <<>>

\* A process is only launched when no stop is being settled.
Birth == ~stopping /\ ~alive /\ alive'
Born == Birth /\ UNCHANGED <<stopping, settled>>

Gone == alive /\ ~alive' /\ UNCHANGED <<stopping, settled>>

StopLive == alive /\ ~stopping /\ stopping' /\ UNCHANGED <<alive, settled>>

StopDead ==
    /\ ~alive /\ ~stopping
    /\ settled' = Append(settled, TRUE)
    /\ UNCHANGED <<alive, stopping>>

\* The stop settles, possibly because the process dies in this very step.
Settle(clean) ==
    /\ stopping /\ ~stopping'
    /\ alive' => alive
    /\ clean => ~alive'
    /\ settled' = Append(settled, clean)

\* A delivered verdict may make the owner launch the next process at once.
Deliver ==
    /\ settled # <<>>
    /\ settled' = Tail(settled)
    /\ alive' = alive \/ Birth
    /\ UNCHANGED stopping

SCNext ==
    \/ Born \/ Gone
    \/ StopLive \/ StopDead
    \/ \E clean \in BOOLEAN : Settle(clean)
    \/ Deliver

\* Liveness of the contract: an accepted stop settles, and deliveries go on
\* for as long as something is settled (weak fairness of Deliver, written
\* without ENABLED so that it can be checked under a refinement mapping).
StopSettles == stopping ~> ~stopping
DeliveriesGoOn == []<>(settled = <<>>) \/ []<><<Deliver>>_scVars

SCSafety == SCInit /\ [][SCNext]_scVars
SCSpec == SCSafety /\ StopSettles /\ DeliveriesGoOn
=============================================================================
