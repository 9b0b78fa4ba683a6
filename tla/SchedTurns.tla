----------------------------- MODULE SchedTurns -----------------------------
(***************************************************************************)
(* Sched with a history variable: who has had a turn while a process       *)
(* waited.                                                                 *)
(***************************************************************************)
EXTENDS Sched

VARIABLE passed    \* passed[s]: who has been dispatched since s became
                   \* RUNNABLE (kept for DEFAULT only)

turnVars == <<vars, passed>>

TurnInit == Init /\ passed = [s \in Slots |-> {}]

TurnNext ==
    /\ Next
    /\ passed' = [s \in Slots |->
          IF policy = "DEFAULT" /\ state[s] = "RUNNABLE" /\ state'[s] = "RUNNABLE"
          THEN passed[s] \cup {t \in Slots : Dispatched(t)} ELSE {}]

TurnSpec == TurnInit /\ [][TurnNext]_turnVars /\ Fairness

\* DEFAULT is round robin: nobody gets a second turn while another process
\* has been waiting since before its first one, although the scan is
\* interrupted by every process it runs and goes on where it was in a table
\* that has changed.
RoundRobin ==
    [][\A s, t \in Slots : policy = "DEFAULT" /\ Dispatched(t) => t \notin passed[s]]_turnVars
=============================================================================
