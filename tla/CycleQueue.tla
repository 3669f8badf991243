----------------------------- MODULE CycleQueue -----------------------------
(***************************************************************************)
(* The unattended cycle daemon (bin/run_daemon.py) and the queue table     *)
(* raw.cycle_queue it drains, together with the two HTTP handlers of       *)
(* bin/api.py that write the same rows (they run in a thread of the same   *)
(* process over a connection of their own) and the Airflow server whose    *)
(* DAG runs the daemon triggers and waits for.                             *)
(*                                                                         *)
(* Every statement the daemon sends to Postgres is its own transaction, so *)
(* each read and each write below is one action and the handlers of the    *)
(* API may run between any two of them.  Only adjacent statements whose    *)
(* separation no one can observe are one action (a check that finds        *)
(* 'cancelled' and the write of 'cancelled' that follows it).              *)
(*                                                                         *)
(* Timestamps are kept as what is asked of them: `older` is the order of   *)
(* coalesce(last_leased_at, created_at), `started` tells whether           *)
(* started_at is set.  Scores, error texts and ended_at are left out, and  *)
(* OllamaPacer.acquire is a finite wait (module Pacer has its clocks).     *)
(***************************************************************************)
EXTENDS Integers, FiniteSets

CONSTANTS
    Items,        \* the queue ids that may ever be inserted
    NoItem,       \* no queue id: DaemonState.current_queue_id is None
    CompOf,       \* the competition each queue id is for
    Bootstrap,    \* the queue ids inserted with stage = 'bootstrap'
    Active,       \* competitions whose config says ACTIVE = True
    Retired,      \* competitions whose config module a later image may lack
    Budgets,      \* n_cycles an API client may ask for
    RefillBudget, \* _QUEUE_REFILL_N_CYCLES
    Prios,        \* priorities an API client may ask for; the refill uses 0
    Lease,        \* DAEMON_CYCLES_PER_LEASE
    MaxFail,      \* MAX_CONSECUTIVE_CYCLE_FAILURES
    MaxCrashes,   \* bound: process deaths without a clean exit
    MaxStops,     \* bound: SIGTERM / SIGINT deliveries
    MaxFaults     \* bound: answers of Airflow lost while its run lives on

ASSUME QueueAssumption ==
    /\ NoItem \notin Items
    /\ IsFiniteSet(Items)
    /\ Bootstrap \subseteq Items
    /\ Budgets \subseteq Nat /\ RefillBudget \in Nat
    /\ Prios \subseteq Int
    /\ Lease \in Nat \ {0} /\ MaxFail \in Nat \ {0}
    /\ MaxCrashes \in Nat /\ MaxStops \in Nat /\ MaxFaults \in Nat

VARIABLES
    \* raw.cycle_queue
    status,    \* status, "absent" for an id not inserted yet
    budget,    \* n_cycles
    prio,      \* priority
    done,      \* cycles_done
    started,   \* started_at is not null
    older,     \* pairs <<p, q>>: coalesce(last_leased_at, created_at) of p is earlier
    \* the process: its image and its API threads
    missing,   \* competitions whose config module the image lacks
    patching,  \* PATCH requests that read a cancellable status and have not written yet
    \* the daemon's main thread
    pc,        \* where it is
    cur,       \* the item _process works on
    spent,     \* _process: cycles_done
    leaseEnd,  \* _process: lease_end
    streak,    \* _process: consecutive_failures
    won,       \* _process: successes > 0
    lost,      \* _process: failed_cycles > 0
    stopping,  \* ~_running
    shown,     \* DaemonState.current_queue_id
    \* Airflow
    awaited,   \* the run the daemon waits for: "none", "live", "success" or "failed"
    orphans,   \* live runs of an item nobody waits for any more
    triggered, \* runs ever created for an item
    \* what the bounds count
    crashes, stops, faults

dbVars     == <<status, budget, prio, done, started, older>>
processVars == <<missing, patching>>
leaseVars  == <<cur, spent, leaseEnd, streak, won, lost>>
daemonVars == <<pc, leaseVars, stopping, shown>>
runVars    == <<awaited, orphans, triggered>>
countVars  == <<crashes, stops, faults>>
vars       == <<dbVars, processVars, daemonVars, runVars, countVars>>

Live     == {"pending", "running"}
Ended    == {"cancelled", "failed", "done"}
Statuses == {"absent"} \cup Live \cup Ended

\* Program points between which the API threads may run.
Holding == {"start", "load", "check", "trigger", "wait", "post", "persist",
            "close", "baseline", "clear"}
Points  == {"down", "boot", "idle", "refill", "pop"} \cup Holding

Rows    == {q \in Items : status[q] # "absent"}
Pending == {q \in Items : status[q] = "pending"}
Least(a, b) == IF a < b THEN a ELSE b

RowsOK ==
    /\ status \in [Items -> Statuses]
    /\ budget \in [Items -> Nat]
    /\ prio \in [Items -> Int]
    /\ done \in [Items -> Nat]
    /\ started \in [Items -> BOOLEAN]
    /\ older \in SUBSET (Items \X Items)
    /\ patching \in SUBSET Items
    /\ missing \in SUBSET Retired

DaemonOK ==
    /\ pc \in Points
    /\ cur \in Items \cup {NoItem}
    /\ spent \in Nat /\ leaseEnd \in Nat /\ streak \in Nat
    /\ won \in BOOLEAN /\ lost \in BOOLEAN /\ stopping \in BOOLEAN
    /\ shown \in Items \cup {NoItem}

RunsOK ==
    /\ awaited \in {"none", "live", "success", "failed"}
    /\ orphans \in [Items -> Nat]
    /\ triggered \in [Items -> Nat]
    /\ crashes \in Nat /\ stops \in Nat /\ faults \in Nat

TypeOK == RowsOK /\ DaemonOK /\ RunsOK

Init ==
    /\ status = [q \in Items |-> "absent"]
    /\ budget = [q \in Items |-> 0]
    /\ prio = [q \in Items |-> 0]
    /\ done = [q \in Items |-> 0]
    /\ started = [q \in Items |-> FALSE]
    /\ older = {}
    /\ missing = {} /\ patching = {}
    /\ pc = "boot"
    /\ cur = NoItem /\ spent = 0 /\ leaseEnd = 0 /\ streak = 0
    /\ won = FALSE /\ lost = FALSE
    /\ stopping = FALSE /\ shown = NoItem
    /\ awaited = "none"
    /\ orphans = [q \in Items |-> 0]
    /\ triggered = [q \in Items |-> 0]
    /\ crashes = 0 /\ stops = 0 /\ faults = 0

-----------------------------------------------------------------------------
(* The HTTP handlers.  They answer while the process is up.                *)

\* The rows of F inserted as 'pending', behind every row there is.
Insert(F, n, p) ==
    /\ status' = [q \in Items |-> IF q \in F THEN "pending" ELSE status[q]]
    /\ budget' = [q \in Items |-> IF q \in F THEN n ELSE budget[q]]
    /\ prio' = [q \in Items |-> IF q \in F THEN p ELSE prio[q]]
    /\ older' = older \cup (Rows \X F)
    /\ UNCHANGED <<done, started>>

Enqueue(q, n, p) ==
    /\ pc # "down"
    /\ status[q] = "absent"
    /\ CompOf[q] \notin missing
    /\ Insert({q}, n, p)
    /\ UNCHANGED <<processVars, daemonVars, runVars, countVars>>

PatchPriority(q, p) ==
    /\ pc # "down"
    /\ status[q] # "absent"
    /\ prio' = [prio EXCEPT ![q] = p]
    /\ UNCHANGED <<status, budget, done, started, older,
                   processVars, daemonVars, runVars, countVars>>

\* A cancellation reads the status in one statement ...
PatchRead(q) ==
    /\ pc # "down"
    /\ status[q] \in Live
    /\ q \notin patching
    /\ patching' = patching \cup {q}
    /\ UNCHANGED <<missing, dbVars, daemonVars, runVars, countVars>>

\* ... and writes 'cancelled' in a later one, without looking again.
PatchWrite(q) ==
    /\ q \in patching
    /\ status' = [status EXCEPT ![q] = "cancelled"]
    /\ patching' = patching \ {q}
    /\ UNCHANGED <<missing, budget, prio, done, started, older, daemonVars, runVars, countVars>>

-----------------------------------------------------------------------------
(* The main loop: sweeps, then _pop_pending, then _process.                *)

At(l)  == pc = l
Goto(l) == pc' = l

\* The locals of _process go out of scope.
ForgetLease ==
    /\ cur' = NoItem /\ spent' = 0 /\ leaseEnd' = 0 /\ streak' = 0
    /\ won' = FALSE /\ lost' = FALSE

\* An iteration whose queue refill has nothing to do (not due, work left, no
\* competition idle for long enough).
LoopTop ==
    /\ At("idle") /\ ~stopping
    /\ Goto("pop")
    /\ UNCHANGED <<dbVars, processVars, leaseVars, stopping, shown, runVars, countVars>>

\* _sweep_queue_refill finds nothing pending or running ...
RefillScan ==
    /\ At("idle") /\ ~stopping
    /\ \A q \in Items : status[q] \notin Live
    /\ Goto("refill")
    /\ UNCHANGED <<dbVars, processVars, leaseVars, stopping, shown, runVars, countVars>>

\* ... and, one statement later, inserts an item for each idle ACTIVE
\* competition.  How long a competition has been idle is left open: F has an
\* item for each competition whose threshold has passed.
RefillInsert(F) ==
    /\ At("refill")
    /\ F # {} /\ \A q \in F : status[q] = "absent" /\ CompOf[q] \in Active \ missing
    /\ F \cap Bootstrap = {}
    /\ \A q, r \in F : CompOf[q] = CompOf[r] => q = r
    /\ Insert(F, RefillBudget, 0)
    /\ Goto("pop")
    /\ UNCHANGED <<processVars, leaseVars, stopping, shown, runVars, countVars>>

\* No competition has been idle for long enough after all.
RefillNone ==
    /\ At("refill")
    /\ Goto("pop")
    /\ UNCHANGED <<dbVars, processVars, leaseVars, stopping, shown, runVars, countVars>>

\* order by priority desc, coalesce(last_leased_at, created_at) asc limit 1
Pop(q) ==
    /\ At("pop")
    /\ q \in Pending
    /\ \A p \in Pending \ {q} :
          \/ prio[q] > prio[p]
          \/ prio[q] = prio[p] /\ <<p, q>> \notin older
    /\ cur' = q
    /\ spent' = done[q]
    /\ Goto("start")
    /\ UNCHANGED <<dbVars, processVars, leaseEnd, streak, won, lost, stopping, shown,
                   runVars, countVars>>

PopNone ==
    /\ At("pop")
    /\ Pending = {}
    /\ Goto("idle")
    /\ UNCHANGED <<dbVars, processVars, leaseVars, stopping, shown, runVars, countVars>>

-----------------------------------------------------------------------------
(* _process: one lease of the item popped.                                 *)

\* Mutant of MoveBack: the lease does not touch last_leased_at.
KeepsItsPlace(q) == older

\* last_leased_at = now: the item goes behind every other row.
MoveBack(q) ==
    {e \in older : e[1] # q /\ e[2] # q} \cup ((Rows \ {q}) \X {q})

\* _start_lease writes 'running' whatever the row has become since the pop.
StartLease ==
    /\ At("start")
    /\ status' = [status EXCEPT ![cur] = "running"]
    /\ older' = MoveBack(cur)
    /\ started' = [started EXCEPT ![cur] = @ \/ spent = 0]
    /\ shown' = cur
    /\ Goto("load")
    /\ UNCHANGED <<budget, prio, done, processVars, leaseVars, stopping, runVars, countVars>>

\* The competition's module loads and the lease is sized.
LoadConfig ==
    /\ At("load")
    /\ CompOf[cur] \notin missing
    /\ leaseEnd' = Least(budget[cur], spent + Lease)
    /\ Goto("check")
    /\ UNCHANGED <<dbVars, processVars, cur, spent, streak, won, lost, stopping, shown,
                   runVars, countVars>>

\* Mutant of LoadFails: the early return leaves the row as it is.
LoadFailsSilently ==
    /\ At("load")
    /\ CompOf[cur] \in missing
    /\ ForgetLease
    /\ Goto("idle")
    /\ UNCHANGED <<dbVars, processVars, stopping, shown, runVars, countVars>>

\* ModuleNotFoundError: 'failed', and an early return past the state reset.
LoadFails ==
    /\ At("load")
    /\ CompOf[cur] \in missing
    /\ status' = [status EXCEPT ![cur] = "failed"]
    /\ ForgetLease
    /\ Goto("idle")
    /\ UNCHANGED <<budget, prio, done, started, older, processVars, stopping, shown,
                   runVars, countVars>>

\* 'cancelled' with the progress so far, and an early return.
ReturnCancelled ==
    /\ status' = [status EXCEPT ![cur] = "cancelled"]
    /\ done' = [done EXCEPT ![cur] = spent]
    /\ ForgetLease
    /\ Goto("idle")
    /\ UNCHANGED <<budget, prio, started, older, processVars, stopping, shown,
                   runVars, countVars>>

\* Top of the loop: a stop request and a cancellation take the same branch.
CheckStops ==
    /\ At("check") /\ spent < leaseEnd
    /\ stopping \/ status[cur] = "cancelled"
    /\ ReturnCancelled

CheckGoes ==
    /\ At("check") /\ spent < leaseEnd
    /\ ~stopping /\ status[cur] # "cancelled"
    /\ Goto("trigger")
    /\ UNCHANGED <<dbVars, processVars, leaseVars, stopping, shown, runVars, countVars>>

Trigger ==
    /\ At("trigger")
    /\ triggered' = [triggered EXCEPT ![cur] = @ + 1]
    /\ awaited' = "live"
    /\ Goto("wait")
    /\ UNCHANGED <<dbVars, processVars, leaseVars, stopping, shown, orphans, countVars>>

\* A cycle counted as failed; the circuit breaker closes the item without
\* looking at its status, every other failure leaves the row as it is.
CountFailure ==
    /\ spent' = spent + 1 /\ streak' = streak + 1 /\ lost' = TRUE
    /\ IF streak + 1 >= MaxFail
       THEN /\ status' = [status EXCEPT ![cur] = "failed"]
            /\ done' = [done EXCEPT ![cur] = spent + 1]
            /\ Goto("clear")
       ELSE /\ Goto("check")
            /\ UNCHANGED <<status, done>>
    /\ UNCHANGED <<budget, prio, started, older, processVars, cur, leaseEnd, won,
                   stopping, shown, crashes, stops>>

\* The POST raised, and Airflow made no run of it.
TriggerFails ==
    /\ At("trigger")
    /\ CountFailure
    /\ UNCHANGED <<runVars, faults>>

\* The POST raised after Airflow had made the run.
TriggerReplyLost ==
    /\ At("trigger")
    /\ faults < MaxFaults /\ faults' = faults + 1
    /\ triggered' = [triggered EXCEPT ![cur] = @ + 1]
    /\ orphans' = [orphans EXCEPT ![cur] = @ + 1]
    /\ CountFailure
    /\ UNCHANGED awaited

\* The run (or its promote task) is seen to have ended, not with success.
WaitSeesFailure ==
    /\ At("wait") /\ awaited = "failed"
    /\ awaited' = "none"
    /\ CountFailure
    /\ UNCHANGED <<orphans, triggered, faults>>

\* Mutant of WaitGivesUp: a timeout shorter than a cycle.
WaitTimesOutEarly ==
    /\ At("wait")
    /\ awaited' = "none"
    /\ orphans' = [orphans EXCEPT ![cur] = @ + (IF awaited = "live" THEN 1 ELSE 0)]
    /\ CountFailure
    /\ UNCHANGED <<triggered, faults>>

\* A poll raised, or five hours went by: the cycle counts as failed whatever
\* has become of the run, and a run still alive is left behind.
WaitGivesUp ==
    /\ At("wait")
    /\ awaited' = "none"
    /\ IF awaited = "live"
       THEN /\ faults < MaxFaults /\ faults' = faults + 1
            /\ orphans' = [orphans EXCEPT ![cur] = @ + 1]
       ELSE UNCHANGED <<faults, orphans>>
    /\ CountFailure
    /\ UNCHANGED triggered

WaitSeesSuccess ==
    /\ At("wait") /\ awaited = "success"
    /\ awaited' = "none"
    /\ spent' = spent + 1 /\ streak' = 0 /\ won' = TRUE
    /\ Goto("post")
    /\ UNCHANGED <<dbVars, processVars, cur, leaseEnd, lost, stopping, shown,
                   orphans, triggered, countVars>>

\* After a success the status is read once more ...
PostCancelled ==
    /\ At("post") /\ status[cur] = "cancelled"
    /\ ReturnCancelled

\* Mutant of PostGoes: the progress is written without the check.
PostGoesBlindly ==
    /\ At("post")
    /\ Goto("persist")
    /\ UNCHANGED <<dbVars, processVars, leaseVars, stopping, shown, runVars, countVars>>

PostGoes ==
    /\ At("post") /\ status[cur] # "cancelled"
    /\ Goto("persist")
    /\ UNCHANGED <<dbVars, processVars, leaseVars, stopping, shown, runVars, countVars>>

\* ... and the progress is written, with 'running', in a later statement.
Persist ==
    /\ At("persist")
    /\ status' = [status EXCEPT ![cur] = "running"]
    /\ done' = [done EXCEPT ![cur] = spent]
    /\ Goto("check")
    /\ UNCHANGED <<budget, prio, started, older, processVars, leaseVars, stopping, shown,
                   runVars, countVars>>

\* _finish_lease after the last cycle of the lease.
FinishCancelled ==
    /\ At("check") /\ spent >= leaseEnd
    /\ status[cur] = "cancelled"
    /\ Goto("clear")
    /\ UNCHANGED <<dbVars, processVars, leaseVars, stopping, shown, runVars, countVars>>

FinishGoes ==
    /\ At("check") /\ spent >= leaseEnd
    /\ status[cur] # "cancelled"
    /\ Goto("close")
    /\ UNCHANGED <<dbVars, processVars, leaseVars, stopping, shown, runVars, countVars>>

\* Mutant of FinalStatus: a consumed budget is 'done'.
AlwaysDone == "done"

\* _final_status judges the cycles of this lease only.
FinalStatus == IF ~won /\ lost THEN "failed" ELSE "done"

\* Mutant of Requeue: the progress of the lease is not written.
RequeueForgets ==
    /\ At("close") /\ spent < budget[cur]
    /\ status' = [status EXCEPT ![cur] = "pending"]
    /\ Goto("clear")
    /\ UNCHANGED <<budget, prio, done, started, older, processVars, leaseVars, stopping, shown,
                   runVars, countVars>>

Requeue ==
    /\ At("close") /\ spent < budget[cur]
    /\ status' = [status EXCEPT ![cur] = "pending"]
    /\ done' = [done EXCEPT ![cur] = spent]
    /\ Goto("clear")
    /\ UNCHANGED <<budget, prio, started, older, processVars, leaseVars, stopping, shown,
                   runVars, countVars>>

\* Mutant of Close: the item is over one cycle too early.
CloseEarly ==
    /\ At("close") /\ spent + 1 >= budget[cur]
    /\ status' = [status EXCEPT ![cur] = FinalStatus]
    /\ done' = [done EXCEPT ![cur] = spent]
    /\ Goto(IF cur \in Bootstrap /\ won THEN "baseline" ELSE "clear")
    /\ UNCHANGED <<budget, prio, started, older, processVars, leaseVars, stopping, shown,
                   runVars, countVars>>

Close ==
    /\ At("close") /\ spent >= budget[cur]
    /\ status' = [status EXCEPT ![cur] = FinalStatus]
    /\ done' = [done EXCEPT ![cur] = spent]
    /\ Goto(IF cur \in Bootstrap /\ won THEN "baseline" ELSE "clear")
    /\ UNCHANGED <<budget, prio, started, older, processVars, leaseVars, stopping, shown,
                   runVars, countVars>>

\* _establish_baseline_after_bootstrap swallows every exception.
TryBaseline ==
    /\ At("baseline")
    /\ Goto("clear")
    /\ UNCHANGED <<dbVars, processVars, leaseVars, stopping, shown, runVars, countVars>>

\* The end of _process: DaemonState says idle again.
ClearState ==
    /\ At("clear")
    /\ shown' = NoItem
    /\ ForgetLease
    /\ Goto("idle")
    /\ UNCHANGED <<dbVars, processVars, stopping, runVars, countVars>>

-----------------------------------------------------------------------------
(* Airflow, signals, deaths and restarts.                                  *)

DagEnds ==
    /\ awaited = "live"
    /\ awaited' \in {"success", "failed"}
    /\ UNCHANGED <<dbVars, processVars, daemonVars, orphans, triggered, countVars>>

OrphanEnds(q) ==
    /\ orphans[q] > 0
    /\ orphans' = [orphans EXCEPT ![q] = @ - 1]
    /\ UNCHANGED <<dbVars, processVars, daemonVars, awaited, triggered, countVars>>

Signal ==
    /\ pc # "down" /\ ~stopping
    /\ stops < MaxStops /\ stops' = stops + 1
    /\ stopping' = TRUE
    /\ UNCHANGED <<dbVars, processVars, pc, leaseVars, shown, runVars, crashes, faults>>

\* The process is gone: its memory and the requests its API threads had half
\* served with it.  A run it waited for lives on.
ProcessDies ==
    /\ Goto("down")
    /\ patching' = {}
    /\ ForgetLease
    /\ stopping' = FALSE /\ shown' = NoItem
    /\ awaited' = "none"
    /\ orphans' = IF awaited = "live" THEN [orphans EXCEPT ![cur] = @ + 1] ELSE orphans
    /\ UNCHANGED <<missing, dbVars, triggered, stops, faults>>

\* while _running: ends.
Stop ==
    /\ At("idle") /\ stopping
    /\ ProcessDies
    /\ UNCHANGED crashes

Crash ==
    /\ pc # "down"
    /\ crashes < MaxCrashes /\ crashes' = crashes + 1
    /\ ProcessDies

\* The container restarts, perhaps from another image; its API thread answers
\* before main() has touched the queue.
Start ==
    /\ At("down")
    /\ Goto("boot")
    /\ missing' \in SUBSET Retired
    /\ UNCHANGED <<dbVars, patching, leaseVars, stopping, shown, runVars, countVars>>

\* Mutants of ResetStuck: every row goes back to 'pending', or none does.
ResetAll ==
    /\ At("boot")
    /\ status' = [q \in Items |-> IF status[q] = "absent" THEN "absent" ELSE "pending"]
    /\ started' = [q \in Items |-> FALSE]
    /\ Goto("idle")
    /\ UNCHANGED <<budget, prio, done, older, processVars, leaseVars, stopping, shown,
                   runVars, countVars>>

ResetNone ==
    /\ At("boot")
    /\ Goto("idle")
    /\ UNCHANGED <<dbVars, processVars, leaseVars, stopping, shown, runVars, countVars>>

\* Items a dead process left 'running' go back to 'pending' with started_at
\* nulled and cycles_done kept.
ResetStuck ==
    /\ At("boot")
    /\ status' = [q \in Items |-> IF status[q] = "running" THEN "pending" ELSE status[q]]
    /\ started' = [q \in Items |-> started[q] /\ status[q] # "running"]
    /\ Goto("idle")
    /\ UNCHANGED <<budget, prio, done, older, processVars, leaseVars, stopping, shown,
                   runVars, countVars>>

-----------------------------------------------------------------------------
Clients ==
    \/ \E q \in Items, n \in Budgets, p \in Prios : Enqueue(q, n, p)
    \/ \E q \in Items, p \in Prios : PatchPriority(q, p)
    \/ \E q \in Items : PatchRead(q)

Refill == (\E F \in SUBSET Items : RefillInsert(F)) \/ RefillNone

Cycle == Trigger \/ TriggerFails \/ TriggerReplyLost
         \/ WaitSeesSuccess \/ WaitSeesFailure \/ WaitGivesUp

Daemon ==
    \/ LoopTop \/ RefillScan \/ Refill
    \/ (\E q \in Items : Pop(q)) \/ PopNone
    \/ StartLease \/ LoadConfig \/ LoadFails
    \/ CheckStops \/ CheckGoes \/ Cycle
    \/ PostCancelled \/ PostGoes \/ Persist
    \/ FinishCancelled \/ FinishGoes \/ Requeue \/ Close \/ TryBaseline \/ ClearState
    \/ Stop \/ Start \/ ResetStuck

Environment ==
    \/ Clients
    \/ \E q \in Items : PatchWrite(q) \/ OrphanEnds(q)
    \/ DagEnds \/ Signal \/ Crash

Next == Daemon \/ Environment

Spec == Init /\ [][Next]_vars

\* What the code and its deployment guarantee: the main loop never waits
\* without a timeout, a run that Airflow accepted ends (its tasks have
\* execution timeouts), and compose restarts a dead container (restart:
\* always).  Clients, signals, crashes and lost answers are never forced.
FairSpec == Spec /\ WF_vars(Daemon) /\ WF_vars(DagEnds)

-----------------------------------------------------------------------------
(* Properties.                                                             *)

\* A row is 'running' only while the daemon holds its lease: no early return,
\* cancellation race or finished lease leaves behind a 'running' row, which
\* would never be popped again and would block the queue refill for good.
\* Only a dead process leaves one, until its successor's reset.
NoZombieRunning ==
    \A q \in Items : status[q] = "running" =>
        pc \in {"down", "boot"} \/ (cur = q /\ pc \in Holding)

\* What one crash can forget: the cycles counted since the last write of
\* cycles_done, the one in flight included.
Loss == Least(Lease, MaxFail)

\* However leases, failures, cancellations and restarts interleave, an item
\* costs at most its n_cycles DAG runs plus a bounded number for each crash,
\* which forgets the failures not persisted yet.
BudgetBound ==
    \A q \in Items : triggered[q] <= budget[q] + crashes * Loss

\* 'done' is only ever written for a fully consumed budget.
DoneIsSpent ==
    \A q \in Items : status[q] = "done" => done[q] = budget[q]

\* Cycles are sequential: as long as no answer was lost and no process died,
\* no run goes on behind the daemon's back, so no two runs overlap.
SequentialUnlessFaulty ==
    crashes = 0 /\ faults = 0 => \A q \in Items : orphans[q] = 0

\* Whatever is in the queue is worked off: leases, requeues, failures,
\* cancellations, restarts and lost answers never strand an item.
EveryItemEnds ==
    \A q \in Items : status[q] \in Live ~> status[q] \in Ended
-----------------------------------------------------------------------------
(* The inductive strengthening of NoZombieRunning, BudgetBound and         *)
(* DoneIsSpent: where each program point stands between the cycles that    *)
(* ran (triggered), the ones counted in memory (spent) and the ones        *)
(* written down (done).                                                    *)

InFlight == IF awaited = "none" THEN 0 ELSE 1

\* The daemon holds an item, which is a row, exactly at the points of
\* _process, and waits for a run exactly at one of them.
HoldInv ==
    /\ pc \in Holding <=> cur # NoItem
    /\ pc = "wait" <=> awaited # "none"
    /\ cur # NoItem => status[cur] # "absent"
    /\ patching \subseteq Rows
    /\ pc \in {"clear", "baseline"} => status[cur] # "running"

\* What the lease still has to write, bounded by its length ...
LeaseInv ==
    /\ cur # NoItem => done[cur] <= spent /\ spent + InFlight <= budget[cur]
    /\ cur = NoItem => streak = 0
    /\ pc \in {"start", "load"} => spent = done[cur] /\ streak = 0
    /\ pc \in Holding \ {"start", "load"} =>
          spent <= leaseEnd /\ leaseEnd <= done[cur] + Lease
                            /\ leaseEnd <= budget[cur]
    /\ pc \in {"trigger", "wait"} => spent < leaseEnd
    \* ... and by the circuit breaker.
    /\ pc \in {"check", "trigger", "wait"} =>
          streak < MaxFail /\ spent <= done[cur] + streak
    /\ pc \in {"post", "persist"} => streak = 0
    /\ pc \in Holding => spent <= done[cur] + MaxFail
    /\ pc \in {"clear", "baseline"} /\ status[cur] \in Live => done[cur] = spent

\* Runs made, against cycles written down or held in memory.
AccountInv ==
    \A q \in Items :
        /\ done[q] <= budget[q]
        /\ triggered[q] <= budget[q] + crashes * Loss
        /\ status[q] = "absent" => triggered[q] = 0 /\ done[q] = 0
        /\ status[q] \in Live /\ cur # q => triggered[q] <= done[q] + crashes * Loss
        /\ cur = q => triggered[q] <= spent + InFlight + crashes * Loss

QueueInv ==
    TypeOK /\ HoldInv /\ LeaseInv /\ AccountInv /\ NoZombieRunning /\ DoneIsSpent
=============================================================================
