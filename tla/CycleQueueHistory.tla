------------------------- MODULE CycleQueueHistory --------------------------
(***************************************************************************)
(* CycleQueue with the memory its deeper properties need: which items were *)
(* cancelled while a cycle of theirs was in flight, who was served while   *)
(* whom was waiting, and which items ever had a successful cycle.  The     *)
(* history variables record, they never guard.                             *)
(***************************************************************************)
EXTENDS CycleQueue

VARIABLES
    doomed,    \* cancelled while the daemon waited for a run of theirs
    passed,    \* waiting items of at least the priority of the item popped
    overtaken, \* pairs <<r, p>>: r got a lease while p was waiting for one
    wins       \* items with a successful cycle, of whichever lease

histVars == <<doomed, passed, overtaken, wins>>
allVars  == <<vars, histVars>>

HInit ==
    /\ Init
    /\ doomed = {} /\ passed = {} /\ overtaken = {} /\ wins = {}

CancelledNow(q) == status[q] # "cancelled" /\ status'[q] = "cancelled"

Record ==
    /\ doomed' = doomed \cup {q \in patching : CancelledNow(q) /\ pc = "wait" /\ cur = q}
    /\ passed' = IF pc = "pop" /\ pc' = "start"
                 THEN {p \in Pending \ {cur'} : prio[p] >= prio[cur']}
                 ELSE IF pc = "start" /\ pc' = "start" THEN passed ELSE {}
    /\ overtaken' = IF pc = "start" /\ pc' = "load"
                    THEN {e \in overtaken : e[2] # cur} \cup ({cur} \X passed)
                    ELSE overtaken
    /\ wins' = IF pc = "wait" /\ pc' = "post" THEN wins \cup {cur} ELSE wins

HNext == Next /\ Record
HSpec == HInit /\ [][HNext]_allVars

-----------------------------------------------------------------------------
\* The case the check after a successful cycle was written for: an item
\* cancelled while its cycle was in flight gets no further DAG run, whatever
\* becomes of that cycle, of the process and of the row.
DoomedGetsNoMoreCycles ==
    [][\A q \in doomed : triggered'[q] = triggered[q]]_allVars

\* Round robin: no item is leased twice while another of at least its
\* priority waits, through requeues, crashes, config failures and changes of
\* priority.
NoDoubleOvertaking ==
    [][pc = "pop" /\ pc' = "start" =>
          \A p \in Pending \ {cur'} :
              prio[p] >= prio[cur'] => <<cur', p>> \notin overtaken]_allVars

\* A positive budget is 'done' only if some cycle succeeded, even when the
\* successes belong to earlier leases or an earlier process: the queue refill
\* relies on it when it re-enqueues a 'done' competition at once.
DoneIsEarned ==
    \A q \in Items : status[q] = "done" /\ budget[q] > 0 => q \in wins

-----------------------------------------------------------------------------
(* The inductive strengthening of the three, on top of QueueInv.           *)

\* Budgets that are spent although no item is 'done' yet were spent by
\* successes: only a success writes the last cycle down and keeps the item
\* alive.  Without a cycle of its own a lease leaves `spent` where it was.
Consumed(q) == budget[q] > 0 /\ done[q] >= budget[q]

EarnInv ==
    /\ DoneIsEarned
    /\ \A q \in Items :
          Consumed(q) /\ (status[q] \in Live \/ (cur = q /\ pc \notin {"clear", "baseline"}))
              => q \in wins
    /\ cur # NoItem /\ won => cur \in wins
    /\ cur # NoItem /\ ~won /\ ~lost => spent = done[cur]
    /\ cur = NoItem => ~won /\ ~lost
    /\ pc \in {"post", "persist"} => won

\* From the cancellation on an item stays where no write brings it back: the
\* daemon, if it holds it, is on its way to a check of the status.
Dead(q) ==
    /\ status[q] \in {"cancelled", "failed"}
    /\ cur = q => \/ pc \in {"wait", "post", "check"} /\ status[q] = "cancelled"
                  \/ pc = "clear"

DoomInv == doomed \subseteq Items /\ \A q \in doomed : Dead(q)

\* Who was served while p waited has been behind p ever since.
OvertakeInv ==
    /\ passed \subseteq Rows \ {cur}
    /\ overtaken \subseteq Items \X Rows
    /\ \A r, p \in Items : <<r, p>> \in overtaken => <<p, r>> \in older

HistInv == QueueInv /\ EarnInv /\ DoomInv /\ OvertakeInv

-----------------------------------------------------------------------------
(* What documents, comments and tests say and the code does not do.        *)

\* "running은 사이클 경계에서 멈춘다" (docs/runbook.md:443): a cancelled item
\* stays cancelled, it stops at the latest when its cycle ends.
CancelIsFinal ==
    [][\A q \in Items : status[q] = "cancelled" => status'[q] = "cancelled"]_vars
=============================================================================
