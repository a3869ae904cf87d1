--------------------------- MODULE ManagedSession ---------------------------
(***************************************************************************)
(* The specification one InstanceSession implements for its manager: any   *)
(* sequence of the calls and events of SessionContract.                    *)
(***************************************************************************)
EXTENDS SessionContract

VARIABLE session

MSInit == session = Idle

MSNext ==
    session' \in Starts(session) \cup Stops(session) \cup Restarts(session)
                 \cup Dooms(session) \cup Exits(session) \cup Settles(session)
                 \cup Retries(session) \cup Completes(session)

MSSafety == MSInit /\ [][MSNext]_session
=============================================================================
