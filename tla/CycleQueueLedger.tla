-------------------------- MODULE CycleQueueLedger --------------------------
(* The cycle queue implements the ledger: an item is leased from the pop   *)
(* until _process lets go of it, whatever its row says meanwhile.          *)
EXTENDS CycleQueue

Phase(q) ==
    IF cur = q THEN "leased"
    ELSE IF status[q] = "absent" THEN "absent"
    ELSE IF status[q] \in Live THEN "waiting" ELSE "over"

Phases == [q \in Items |-> Phase(q)]

Ledger == INSTANCE WorkLedger WITH phase <- Phases, owed <- budget, paid <- done

\* Refinement: the daemon, the API, Airflow and the crashes together never do
\* to an item what the ledger does not allow.  In particular an item that the
\* daemon has let go of with a final status, or that was cancelled while
\* nobody held it, is never leased again, progress never goes backwards and
\* never exceeds n_cycles.
ImplementsLedger == Ledger!Spec
=============================================================================
