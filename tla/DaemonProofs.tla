---------------------------- MODULE DaemonProofs ----------------------------
(***************************************************************************)
(* Proofs about the daemon (bin/run_daemon.py): its queue, for any number  *)
(* of items, budgets, crashes and lost answers, and its pacer, for any     *)
(* windows, limits and distances of the clocks.                            *)
(*                                                                         *)
(* The queue.  The argument is QueueInv (defined in CycleQueue): at every  *)
(* program point the runs made for an item are accounted for by            *)
(* cycles_done in the database (done), by the cycles counted in memory     *)
(* (spent) and by the run in flight, and what is only in memory is bounded *)
(* by the lease and by the circuit breaker.  One lemma per action shows    *)
(* that it preserves QueueInv.  What is said of the past of the queue      *)
(* (CycleQueueHistory) follows from QueueInv and HistInv.                  *)
(*                                                                         *)
(* The pacer.  Of the recorded cycles of a window's length, those that are *)
(* not in the counter are at most the limit: the counter is restored from  *)
(* more rows than cycles, starts over when its window is over, and a       *)
(* window holds no more cycles than the limit.                             *)
(***************************************************************************)
EXTENDS CycleQueueHistory, CycleQueueLedger, Pacer, FiniteSetTheorems, SequenceTheorems, TLAPS

\* What a crash forgets is at most a lease and at most a streak of failures;
\* its multiples behave like those of any natural number.
LEMMA LossFacts ==
    /\ Loss \in Nat \ {0} /\ Loss <= Lease /\ Loss <= MaxFail
    /\ Loss = Lease \/ Loss = MaxFail
    /\ \A n \in Nat : n * Loss \in Nat /\ (n + 1) * Loss = n * Loss + Loss
<1>1. /\ Loss \in Nat \ {0} /\ Loss <= Lease /\ Loss <= MaxFail
      /\ Loss = Lease \/ Loss = MaxFail
  BY QueueAssumption DEF Loss, Least
<1>2. \A l, n \in Nat : n * l \in Nat /\ (n + 1) * l = n * l + l
  OBVIOUS
<1> QED
  BY <1>1, <1>2

\* The first start of the daemon, with an empty table, satisfies QueueInv.
LEMMA InitQueueInv == Init => QueueInv
<1> SUFFICES ASSUME Init PROVE QueueInv
  OBVIOUS
<1>1. TypeOK
  <2>1. RowsOK
    BY DEF Init, RowsOK, Statuses
  <2>2. DaemonOK
    BY DEF Init, DaemonOK, Points
  <2>3. RunsOK
    BY DEF Init, RunsOK
  <2> QED
    BY <2>1, <2>2, <2>3 DEF TypeOK
<1>2. HoldInv /\ NoZombieRunning /\ DoneIsSpent /\ LeaseInv
  BY QueueAssumption DEF Init, HoldInv, NoZombieRunning, DoneIsSpent, LeaseInv, Holding,
       Live, Rows, InFlight
<1>3. AccountInv
  <2>1. crashes * Loss \in Nat
    BY LossFacts DEF Init
  <2> QED
    BY <2>1, QueueAssumption DEF Init, AccountInv, Live, InFlight
<1> QED
  BY <1>1, <1>2, <1>3 DEF QueueInv

\* POST /api/queue: a new row costs nothing yet.
LEMMA EnqueueStep ==
    ASSUME NEW q \in Items, NEW n \in Budgets, NEW p \in Prios, QueueInv, Enqueue(q, n, p)
    PROVE  QueueInv'
<1>1. TypeOK'
  <2>1. RowsOK'
    BY QueueAssumption DEF QueueInv, Enqueue, Insert, TypeOK, RowsOK,
       Statuses, Live, Ended, Rows, leaseVars, daemonVars, runVars,
       processVars
  <2>2. DaemonOK'
    BY DEF QueueInv, Enqueue, Insert, TypeOK, DaemonOK, Points, Holding,
       leaseVars, daemonVars, runVars, processVars
  <2>3. RunsOK'
    BY DEF QueueInv, Enqueue, Insert, TypeOK, RunsOK, leaseVars, daemonVars,
       runVars, countVars, processVars
  <2> QED
    BY <2>1, <2>2, <2>3 DEF TypeOK
<1>2. HoldInv' /\ NoZombieRunning' /\ DoneIsSpent'
  BY DEF QueueInv, Enqueue, Insert, TypeOK, DaemonOK, Holding, Rows, HoldInv,
     NoZombieRunning, DoneIsSpent, leaseVars, daemonVars, runVars, processVars
<1>3. LeaseInv'
  BY DEF QueueInv, Enqueue, Insert, TypeOK, DaemonOK, Live, Holding, LeaseInv,
     HoldInv, InFlight, leaseVars, daemonVars, runVars, processVars
<1>4. AccountInv'
  BY QueueAssumption, LossFacts DEF QueueInv, Enqueue, Insert, TypeOK, RunsOK,
     Live, AccountInv, InFlight, leaseVars, daemonVars, runVars, countVars,
     processVars
<1> QED
  BY <1>1, <1>2, <1>3, <1>4 DEF QueueInv

\* PATCH of a priority touches no account.
LEMMA PatchPriorityStep ==
    ASSUME NEW q \in Items, NEW p \in Prios, QueueInv, PatchPriority(q, p)
    PROVE  QueueInv'
<1>1. TypeOK'
  BY QueueAssumption DEF QueueInv, PatchPriority, TypeOK, RowsOK, DaemonOK,
     RunsOK, Statuses, Live, Ended, Points, Holding, leaseVars, daemonVars,
     runVars, countVars, processVars
<1>2. HoldInv' /\ NoZombieRunning' /\ DoneIsSpent'
  BY DEF QueueInv, PatchPriority, TypeOK, Holding, Rows, HoldInv,
     NoZombieRunning, DoneIsSpent, leaseVars, daemonVars, runVars, processVars
<1>3. LeaseInv'
  BY DEF QueueInv, PatchPriority, TypeOK, Live, Holding, LeaseInv, InFlight,
     leaseVars, daemonVars, runVars, processVars
<1>4. AccountInv'
  BY DEF QueueInv, PatchPriority, TypeOK, Live, AccountInv, InFlight,
     leaseVars, daemonVars, runVars, countVars, processVars
<1> QED
  BY <1>1, <1>2, <1>3, <1>4 DEF QueueInv

\* The first half of a cancellation only remembers a row that exists.
LEMMA PatchReadStep ==
    ASSUME NEW q \in Items, QueueInv, PatchRead(q)
    PROVE  QueueInv'
<1>1. TypeOK'
  BY DEF QueueInv, PatchRead, TypeOK, RowsOK, DaemonOK, RunsOK, Statuses,
     Live, Ended, Points, Holding, dbVars, leaseVars, daemonVars, runVars,
     countVars
<1>2. HoldInv' /\ NoZombieRunning' /\ DoneIsSpent'
  BY DEF QueueInv, PatchRead, TypeOK, Live, Holding, Rows, HoldInv,
     NoZombieRunning, DoneIsSpent, dbVars, leaseVars, daemonVars, runVars
<1>3. LeaseInv'
  BY DEF QueueInv, PatchRead, TypeOK, Live, Holding, LeaseInv, InFlight,
     dbVars, leaseVars, daemonVars, runVars
<1>4. AccountInv'
  BY DEF QueueInv, PatchRead, TypeOK, Live, AccountInv, InFlight, dbVars,
     leaseVars, daemonVars, runVars, countVars
<1> QED
  BY <1>1, <1>2, <1>3, <1>4 DEF QueueInv

\* The second half may end a row at any program point; no write of the
\* daemon relies on its not having happened.
LEMMA PatchWriteStep ==
    ASSUME NEW q \in Items, QueueInv, PatchWrite(q)
    PROVE  QueueInv'
<1>1. TypeOK'
  BY DEF QueueInv, PatchWrite, TypeOK, RowsOK, DaemonOK, RunsOK, Statuses,
     Live, Ended, Points, Holding, leaseVars, daemonVars, runVars, countVars
<1>2. HoldInv' /\ NoZombieRunning' /\ DoneIsSpent'
  BY DEF QueueInv, PatchWrite, TypeOK, Holding, Rows, HoldInv,
     NoZombieRunning, DoneIsSpent, leaseVars, daemonVars, runVars
<1>3. LeaseInv'
  BY DEF QueueInv, PatchWrite, TypeOK, Live, Holding, LeaseInv, InFlight,
     leaseVars, daemonVars, runVars
<1>4. AccountInv'
  BY DEF QueueInv, PatchWrite, TypeOK, Live, AccountInv, InFlight, leaseVars,
     daemonVars, runVars, countVars
<1> QED
  BY <1>1, <1>2, <1>3, <1>4 DEF QueueInv

\* An iteration without refill changes the program point only.
LEMMA LoopTopStep ==
    ASSUME QueueInv, LoopTop
    PROVE  QueueInv'
<1>1. TypeOK'
  BY DEF QueueInv, LoopTop, TypeOK, RowsOK, DaemonOK, RunsOK, At, Goto,
     Statuses, Live, Ended, Points, Holding, dbVars, leaseVars, runVars,
     countVars, processVars
<1>2. HoldInv' /\ NoZombieRunning' /\ DoneIsSpent'
  BY DEF QueueInv, LoopTop, TypeOK, At, Goto, Holding, Rows, HoldInv,
     NoZombieRunning, DoneIsSpent, dbVars, leaseVars, runVars, processVars
<1>3. LeaseInv'
  BY DEF QueueInv, LoopTop, TypeOK, At, Goto, Live, Holding, LeaseInv,
     InFlight, dbVars, leaseVars, runVars, processVars
<1>4. AccountInv'
  BY DEF QueueInv, LoopTop, TypeOK, At, Goto, Live, AccountInv, InFlight,
     dbVars, leaseVars, runVars, countVars, processVars
<1> QED
  BY <1>1, <1>2, <1>3, <1>4 DEF QueueInv

\* The scan of the refill changes the program point only.
LEMMA RefillScanStep ==
    ASSUME QueueInv, RefillScan
    PROVE  QueueInv'
<1>1. TypeOK'
  BY DEF QueueInv, RefillScan, TypeOK, RowsOK, DaemonOK, RunsOK, At, Goto,
     Statuses, Live, Ended, Points, Holding, dbVars, leaseVars, runVars,
     countVars, processVars
<1>2. HoldInv' /\ NoZombieRunning' /\ DoneIsSpent'
  BY DEF QueueInv, RefillScan, TypeOK, At, Goto, Live, Holding, Rows, HoldInv,
     NoZombieRunning, DoneIsSpent, dbVars, leaseVars, runVars, processVars
<1>3. LeaseInv'
  BY DEF QueueInv, RefillScan, TypeOK, At, Goto, Live, Holding, LeaseInv,
     InFlight, dbVars, leaseVars, runVars, processVars
<1>4. AccountInv'
  BY DEF QueueInv, RefillScan, TypeOK, At, Goto, Live, AccountInv, InFlight,
     dbVars, leaseVars, runVars, countVars, processVars
<1> QED
  BY <1>1, <1>2, <1>3, <1>4 DEF QueueInv

\* The refill inserts rows as POST /api/queue does.
LEMMA RefillInsertStep ==
    ASSUME NEW F \in SUBSET Items, QueueInv, RefillInsert(F)
    PROVE  QueueInv'
<1>1. TypeOK'
  <2>1. RowsOK'
    BY QueueAssumption DEF QueueInv, RefillInsert, Insert, TypeOK, RowsOK, At,
       Statuses, Live, Ended, Rows, leaseVars, runVars, processVars
  <2>2. DaemonOK'
    BY DEF QueueInv, RefillInsert, Insert, TypeOK, DaemonOK, At, Goto, Points,
       Holding, leaseVars, runVars, processVars
  <2>3. RunsOK'
    BY DEF QueueInv, RefillInsert, Insert, TypeOK, RunsOK, At, leaseVars,
       runVars, countVars, processVars
  <2> QED
    BY <2>1, <2>2, <2>3 DEF TypeOK
<1>2. HoldInv' /\ NoZombieRunning' /\ DoneIsSpent'
  BY DEF QueueInv, RefillInsert, Insert, TypeOK, At, Goto, Holding, Rows,
     HoldInv, NoZombieRunning, DoneIsSpent, leaseVars, runVars, processVars
<1>3. LeaseInv'
  BY DEF QueueInv, RefillInsert, Insert, TypeOK, At, Goto, Live, Holding,
     LeaseInv, HoldInv, InFlight, leaseVars, runVars, processVars
<1>4. AccountInv'
  BY QueueAssumption, LossFacts DEF QueueInv, RefillInsert, Insert, TypeOK,
     RowsOK, RunsOK, At, Goto, Live, AccountInv, InFlight, leaseVars, runVars,
     countVars, processVars
<1> QED
  BY <1>1, <1>2, <1>3, <1>4 DEF QueueInv

\* A refill without idle competition changes the program point only.
LEMMA RefillNoneStep ==
    ASSUME QueueInv, RefillNone
    PROVE  QueueInv'
<1>1. TypeOK'
  BY DEF QueueInv, RefillNone, TypeOK, RowsOK, DaemonOK, RunsOK, At, Goto,
     Statuses, Live, Ended, Points, Holding, dbVars, leaseVars, runVars,
     countVars, processVars
<1>2. HoldInv' /\ NoZombieRunning' /\ DoneIsSpent'
  BY DEF QueueInv, RefillNone, TypeOK, At, Goto, Holding, Rows, HoldInv,
     NoZombieRunning, DoneIsSpent, dbVars, leaseVars, runVars, processVars
<1>3. LeaseInv'
  BY DEF QueueInv, RefillNone, TypeOK, At, Goto, Live, Holding, LeaseInv,
     InFlight, dbVars, leaseVars, runVars, processVars
<1>4. AccountInv'
  BY DEF QueueInv, RefillNone, TypeOK, At, Goto, Live, AccountInv, InFlight,
     dbVars, leaseVars, runVars, countVars, processVars
<1> QED
  BY <1>1, <1>2, <1>3, <1>4 DEF QueueInv

\* The popped row is pending, so its runs are all in cycles_done, where
\* _process starts to count.
LEMMA PopStep ==
    ASSUME NEW q \in Items, QueueInv, Pop(q)
    PROVE  QueueInv'
<1>1. TypeOK'
  BY DEF QueueInv, Pop, Pending, TypeOK, RowsOK, DaemonOK, RunsOK, At, Goto,
     Statuses, Live, Ended, Points, Holding, dbVars, runVars, countVars,
     processVars
<1>2. HoldInv' /\ NoZombieRunning' /\ DoneIsSpent'
  BY QueueAssumption DEF QueueInv, Pop, Pending, TypeOK, At, Goto, Holding,
     Rows, HoldInv, NoZombieRunning, DoneIsSpent, dbVars, runVars, processVars
<1>3. LeaseInv'
  BY QueueAssumption DEF QueueInv, Pop, Pending, TypeOK, RowsOK, At, Goto,
     Live, Holding, LeaseInv, HoldInv, AccountInv, InFlight, dbVars, runVars,
     processVars
<1>4. AccountInv'
  BY QueueAssumption DEF QueueInv, Pop, Pending, TypeOK, RowsOK, At, Goto,
     Live, Holding, AccountInv, InFlight, HoldInv, dbVars, runVars, countVars,
     processVars
<1> QED
  BY <1>1, <1>2, <1>3, <1>4 DEF QueueInv

\* An empty queue changes the program point only.
LEMMA PopNoneStep ==
    ASSUME QueueInv, PopNone
    PROVE  QueueInv'
<1>1. TypeOK'
  BY DEF QueueInv, PopNone, TypeOK, RowsOK, DaemonOK, RunsOK, At, Goto,
     Statuses, Live, Ended, Points, Holding, dbVars, leaseVars, runVars,
     countVars, processVars
<1>2. HoldInv' /\ NoZombieRunning' /\ DoneIsSpent'
  BY DEF QueueInv, PopNone, TypeOK, At, Goto, Holding, Rows, HoldInv,
     NoZombieRunning, DoneIsSpent, dbVars, leaseVars, runVars, processVars
<1>3. LeaseInv'
  BY DEF QueueInv, PopNone, TypeOK, At, Goto, Live, Holding, LeaseInv,
     InFlight, dbVars, leaseVars, runVars, processVars
<1>4. AccountInv'
  BY DEF QueueInv, PopNone, TypeOK, At, Goto, Live, AccountInv, InFlight,
     dbVars, leaseVars, runVars, countVars, processVars
<1> QED
  BY <1>1, <1>2, <1>3, <1>4 DEF QueueInv

\* The row becomes 'running' under the item that is held.
LEMMA StartLeaseStep ==
    ASSUME QueueInv, StartLease
    PROVE  QueueInv'
<1>1. TypeOK'
  <2>1. RowsOK'
    BY DEF QueueInv, StartLease, MoveBack, TypeOK, RowsOK, DaemonOK, At,
       Statuses, Live, Ended, Holding, HoldInv, Rows, leaseVars, runVars,
       processVars
  <2>2. DaemonOK'
    BY DEF QueueInv, StartLease, MoveBack, TypeOK, DaemonOK, At, Goto, Points,
       Holding, leaseVars, runVars, processVars
  <2>3. RunsOK'
    BY DEF QueueInv, StartLease, MoveBack, TypeOK, RunsOK, At, leaseVars,
       runVars, countVars, processVars
  <2> QED
    BY <2>1, <2>2, <2>3 DEF TypeOK
<1>2. HoldInv' /\ NoZombieRunning' /\ DoneIsSpent'
  BY DEF QueueInv, StartLease, MoveBack, TypeOK, At, Goto, Holding, Rows,
     HoldInv, NoZombieRunning, DoneIsSpent, leaseVars, runVars, processVars
<1>3. LeaseInv'
  BY DEF QueueInv, StartLease, MoveBack, TypeOK, At, Goto, Live, Holding,
     LeaseInv, InFlight, leaseVars, runVars, processVars
<1>4. AccountInv'
  BY DEF QueueInv, StartLease, MoveBack, TypeOK, At, Goto, Live, AccountInv,
     InFlight, leaseVars, runVars, countVars, processVars
<1> QED
  BY <1>1, <1>2, <1>3, <1>4 DEF QueueInv

\* The lease ends at most DAEMON_CYCLES_PER_LEASE cycles ahead and within
\* the budget.
LEMMA LoadConfigStep ==
    ASSUME QueueInv, LoadConfig
    PROVE  QueueInv'
<1>1. TypeOK'
  BY QueueAssumption DEF QueueInv, LoadConfig, Least, TypeOK, RowsOK,
     DaemonOK, RunsOK, At, Goto, Statuses, Live, Ended, Points, Holding,
     HoldInv, dbVars, runVars, countVars, processVars
<1>2. HoldInv' /\ NoZombieRunning' /\ DoneIsSpent'
  BY DEF QueueInv, LoadConfig, Least, TypeOK, At, Goto, Holding, Rows,
     HoldInv, NoZombieRunning, DoneIsSpent, dbVars, runVars, processVars
<1>3. LeaseInv'
  BY QueueAssumption DEF QueueInv, LoadConfig, Least, TypeOK, RowsOK,
     DaemonOK, At, Goto, Live, Holding, LeaseInv, HoldInv, InFlight, dbVars,
     runVars, processVars
<1>4. AccountInv'
  BY DEF QueueInv, LoadConfig, Least, TypeOK, At, Goto, Live, AccountInv,
     InFlight, dbVars, runVars, countVars, processVars
<1> QED
  BY <1>1, <1>2, <1>3, <1>4 DEF QueueInv

\* The early return writes a final status before it lets go of the item.
LEMMA LoadFailsStep ==
    ASSUME QueueInv, LoadFails
    PROVE  QueueInv'
<1>1. TypeOK'
  BY DEF QueueInv, LoadFails, ForgetLease, TypeOK, RowsOK, DaemonOK, RunsOK,
     At, Goto, Statuses, Live, Ended, Points, Holding, runVars, countVars,
     processVars
<1>2. HoldInv' /\ NoZombieRunning' /\ DoneIsSpent'
  BY DEF QueueInv, LoadFails, ForgetLease, TypeOK, RowsOK, At, Goto, Holding,
     Rows, HoldInv, NoZombieRunning, DoneIsSpent, runVars, processVars
<1>3. LeaseInv'
  BY DEF QueueInv, LoadFails, ForgetLease, TypeOK, At, Goto, Live, Holding,
     LeaseInv, InFlight, runVars, processVars
<1>4. AccountInv'
  BY QueueAssumption DEF QueueInv, LoadFails, ForgetLease, TypeOK, RowsOK, At,
     Goto, Live, AccountInv, InFlight, runVars, countVars, processVars
<1> QED
  BY <1>1, <1>2, <1>3, <1>4 DEF QueueInv

\* A stop or a cancellation at the top of the loop writes cycles_done and a
\* final status before it lets go of the item.
LEMMA CheckStopsStep ==
    ASSUME QueueInv, CheckStops
    PROVE  QueueInv'
<1>1. TypeOK'
  BY DEF QueueInv, CheckStops, ReturnCancelled, ForgetLease, TypeOK, RowsOK,
     DaemonOK, RunsOK, At, Goto, Statuses, Live, Ended, Points, Holding,
     runVars, countVars, processVars
<1>2. HoldInv' /\ NoZombieRunning' /\ DoneIsSpent'
  BY DEF QueueInv, CheckStops, ReturnCancelled, ForgetLease, TypeOK, RowsOK,
     At, Goto, Holding, Rows, HoldInv, NoZombieRunning, DoneIsSpent, runVars,
     processVars
<1>3. LeaseInv'
  BY DEF QueueInv, CheckStops, ReturnCancelled, ForgetLease, TypeOK, At, Goto,
     Live, Holding, LeaseInv, InFlight, runVars, processVars
<1>4. AccountInv'
  BY QueueAssumption DEF QueueInv, CheckStops, ReturnCancelled, ForgetLease,
     TypeOK, RowsOK, DaemonOK, At, Goto, Live, Holding, LeaseInv, AccountInv,
     InFlight, runVars, countVars, processVars
<1> QED
  BY <1>1, <1>2, <1>3, <1>4 DEF QueueInv

\* Only a lease with cycles left goes on to trigger one.
LEMMA CheckGoesStep ==
    ASSUME QueueInv, CheckGoes
    PROVE  QueueInv'
<1>1. TypeOK'
  BY DEF QueueInv, CheckGoes, TypeOK, RowsOK, DaemonOK, RunsOK, At, Goto,
     Statuses, Live, Ended, Points, Holding, dbVars, leaseVars, runVars,
     countVars, processVars
<1>2. HoldInv' /\ NoZombieRunning' /\ DoneIsSpent'
  BY DEF QueueInv, CheckGoes, TypeOK, At, Goto, Holding, Rows, HoldInv,
     NoZombieRunning, DoneIsSpent, dbVars, leaseVars, runVars, processVars
<1>3. LeaseInv'
  BY DEF QueueInv, CheckGoes, TypeOK, At, Goto, Live, Holding, LeaseInv,
     InFlight, dbVars, leaseVars, runVars, processVars
<1>4. AccountInv'
  BY DEF QueueInv, CheckGoes, TypeOK, At, Goto, Live, AccountInv, InFlight,
     dbVars, leaseVars, runVars, countVars, processVars
<1> QED
  BY <1>1, <1>2, <1>3, <1>4 DEF QueueInv

\* One more run is made and in flight.
LEMMA TriggerStep ==
    ASSUME QueueInv, Trigger
    PROVE  QueueInv'
<1>1. TypeOK'
  BY DEF QueueInv, Trigger, TypeOK, RowsOK, DaemonOK, RunsOK, At, Goto,
     Statuses, Live, Ended, Points, Holding, HoldInv, dbVars, leaseVars,
     countVars, processVars
<1>2. HoldInv' /\ NoZombieRunning' /\ DoneIsSpent'
  BY DEF QueueInv, Trigger, TypeOK, At, Goto, Holding, Rows, HoldInv,
     NoZombieRunning, DoneIsSpent, dbVars, leaseVars, processVars
<1>3. LeaseInv'
  BY DEF QueueInv, Trigger, TypeOK, RowsOK, DaemonOK, At, Goto, Live, Holding,
     LeaseInv, InFlight, dbVars, leaseVars, processVars
<1>4. AccountInv'
  BY LossFacts DEF QueueInv, Trigger, TypeOK, RowsOK, DaemonOK, RunsOK, At,
     Goto, Live, Holding, LeaseInv, AccountInv, InFlight, HoldInv, dbVars,
     leaseVars, countVars, processVars
<1> QED
  BY <1>1, <1>2, <1>3, <1>4 DEF QueueInv

\* No run is made and a cycle is counted as failed.
LEMMA TriggerFailsStep ==
    ASSUME QueueInv, TriggerFails
    PROVE  QueueInv'
<1>1. TypeOK'
  BY DEF QueueInv, TriggerFails, CountFailure, TypeOK, RowsOK, DaemonOK,
     RunsOK, At, Goto, Statuses, Live, Ended, Points, Holding, runVars,
     processVars
<1>2. HoldInv' /\ NoZombieRunning' /\ DoneIsSpent'
  BY DEF QueueInv, TriggerFails, CountFailure, TypeOK, RowsOK, DaemonOK, At,
     Goto, Holding, Rows, HoldInv, NoZombieRunning, DoneIsSpent, runVars,
     processVars
<1>3. LeaseInv'
  BY QueueAssumption DEF QueueInv, TriggerFails, CountFailure, TypeOK, RowsOK,
     DaemonOK, At, Goto, Live, Holding, LeaseInv, HoldInv, InFlight, runVars,
     processVars
<1>4. AccountInv'
  BY LossFacts DEF QueueInv, TriggerFails, CountFailure, TypeOK, RowsOK,
     DaemonOK, RunsOK, At, Goto, Live, Holding, LeaseInv, AccountInv,
     InFlight, runVars, processVars
<1> QED
  BY <1>1, <1>2, <1>3, <1>4 DEF QueueInv

\* A run is made and counted as a failed cycle.
LEMMA TriggerReplyLostStep ==
    ASSUME QueueInv, TriggerReplyLost
    PROVE  QueueInv'
<1>1. TypeOK'
  BY DEF QueueInv, TriggerReplyLost, CountFailure, TypeOK, RowsOK, DaemonOK,
     RunsOK, At, Goto, Statuses, Live, Ended, Points, Holding, HoldInv,
     processVars
<1>2. HoldInv' /\ NoZombieRunning' /\ DoneIsSpent'
  BY DEF QueueInv, TriggerReplyLost, CountFailure, TypeOK, RowsOK, DaemonOK,
     At, Goto, Holding, Rows, HoldInv, NoZombieRunning, DoneIsSpent,
     processVars
<1>3. LeaseInv'
  BY QueueAssumption DEF QueueInv, TriggerReplyLost, CountFailure, TypeOK,
     RowsOK, DaemonOK, At, Goto, Live, Holding, LeaseInv, HoldInv, InFlight,
     processVars
<1>4. AccountInv'
  BY LossFacts DEF QueueInv, TriggerReplyLost, CountFailure, TypeOK, RowsOK,
     DaemonOK, RunsOK, At, Goto, Live, Holding, LeaseInv, AccountInv,
     InFlight, HoldInv, processVars
<1> QED
  BY <1>1, <1>2, <1>3, <1>4 DEF QueueInv

\* The run in flight becomes a cycle counted as failed.
LEMMA WaitSeesFailureStep ==
    ASSUME QueueInv, WaitSeesFailure
    PROVE  QueueInv'
<1>1. TypeOK'
  BY DEF QueueInv, WaitSeesFailure, CountFailure, TypeOK, RowsOK, DaemonOK,
     RunsOK, At, Goto, Statuses, Live, Ended, Points, Holding, processVars
<1>2. HoldInv' /\ NoZombieRunning' /\ DoneIsSpent'
  BY DEF QueueInv, WaitSeesFailure, CountFailure, TypeOK, RowsOK, DaemonOK,
     At, Goto, Holding, Rows, HoldInv, NoZombieRunning, DoneIsSpent,
     processVars
<1>3. LeaseInv'
  BY QueueAssumption DEF QueueInv, WaitSeesFailure, CountFailure, TypeOK,
     RowsOK, DaemonOK, At, Goto, Live, Holding, LeaseInv, HoldInv, InFlight,
     processVars
<1>4. AccountInv'
  BY DEF QueueInv, WaitSeesFailure, CountFailure, TypeOK, RowsOK, DaemonOK,
     At, Goto, Live, Holding, LeaseInv, AccountInv, InFlight, processVars
<1> QED
  BY <1>1, <1>2, <1>3, <1>4 DEF QueueInv

\* The run given up on becomes a cycle counted as failed.
LEMMA WaitGivesUpStep ==
    ASSUME QueueInv, WaitGivesUp
    PROVE  QueueInv'
<1>1. TypeOK'
  BY DEF QueueInv, WaitGivesUp, CountFailure, TypeOK, RowsOK, DaemonOK,
     RunsOK, At, Goto, Statuses, Live, Ended, Points, Holding, processVars
<1>2. HoldInv' /\ NoZombieRunning' /\ DoneIsSpent'
  BY DEF QueueInv, WaitGivesUp, CountFailure, TypeOK, RowsOK, DaemonOK, At,
     Goto, Holding, Rows, HoldInv, NoZombieRunning, DoneIsSpent, processVars
<1>3. LeaseInv'
  BY QueueAssumption DEF QueueInv, WaitGivesUp, CountFailure, TypeOK, RowsOK,
     DaemonOK, At, Goto, Live, Holding, LeaseInv, HoldInv, InFlight,
     processVars
<1>4. AccountInv'
  BY LossFacts DEF QueueInv, WaitGivesUp, CountFailure, TypeOK, RowsOK,
     DaemonOK, RunsOK, At, Goto, Live, Holding, LeaseInv, AccountInv,
     InFlight, processVars
<1> QED
  BY <1>1, <1>2, <1>3, <1>4 DEF QueueInv

\* The run in flight becomes a cycle counted as successful.
LEMMA WaitSeesSuccessStep ==
    ASSUME QueueInv, WaitSeesSuccess
    PROVE  QueueInv'
<1>1. TypeOK'
  BY DEF QueueInv, WaitSeesSuccess, TypeOK, RowsOK, DaemonOK, RunsOK, At,
     Goto, Statuses, Live, Ended, Points, Holding, dbVars, countVars,
     processVars
<1>2. HoldInv' /\ NoZombieRunning' /\ DoneIsSpent'
  BY DEF QueueInv, WaitSeesSuccess, TypeOK, At, Goto, Holding, Rows, HoldInv,
     NoZombieRunning, DoneIsSpent, dbVars, processVars
<1>3. LeaseInv'
  BY QueueAssumption DEF QueueInv, WaitSeesSuccess, TypeOK, RowsOK, DaemonOK,
     At, Goto, Live, Holding, LeaseInv, HoldInv, InFlight, dbVars, processVars
<1>4. AccountInv'
  BY DEF QueueInv, WaitSeesSuccess, TypeOK, RowsOK, At, Goto, Live,
     AccountInv, InFlight, dbVars, countVars, processVars
<1> QED
  BY <1>1, <1>2, <1>3, <1>4 DEF QueueInv

\* A cancellation seen after a success writes cycles_done and a final
\* status before it lets go of the item.
LEMMA PostCancelledStep ==
    ASSUME QueueInv, PostCancelled
    PROVE  QueueInv'
<1>1. TypeOK'
  BY DEF QueueInv, PostCancelled, ReturnCancelled, ForgetLease, TypeOK,
     RowsOK, DaemonOK, RunsOK, At, Goto, Statuses, Live, Ended, Points,
     Holding, runVars, countVars, processVars
<1>2. HoldInv' /\ NoZombieRunning' /\ DoneIsSpent'
  BY DEF QueueInv, PostCancelled, ReturnCancelled, ForgetLease, TypeOK, At,
     Goto, Holding, Rows, HoldInv, NoZombieRunning, DoneIsSpent, runVars,
     processVars
<1>3. LeaseInv'
  BY DEF QueueInv, PostCancelled, ReturnCancelled, ForgetLease, TypeOK, At,
     Goto, Live, Holding, LeaseInv, InFlight, runVars, processVars
<1>4. AccountInv'
  BY QueueAssumption DEF QueueInv, PostCancelled, ReturnCancelled,
     ForgetLease, TypeOK, RowsOK, DaemonOK, At, Goto, Live, Holding, LeaseInv,
     AccountInv, InFlight, runVars, countVars, processVars
<1> QED
  BY <1>1, <1>2, <1>3, <1>4 DEF QueueInv

\* A status that is not 'cancelled' leads to the write of the progress.
LEMMA PostGoesStep ==
    ASSUME QueueInv, PostGoes
    PROVE  QueueInv'
<1>1. TypeOK'
  BY DEF QueueInv, PostGoes, TypeOK, RowsOK, DaemonOK, RunsOK, At, Goto,
     Statuses, Live, Ended, Points, Holding, dbVars, leaseVars, runVars,
     countVars, processVars
<1>2. HoldInv' /\ NoZombieRunning' /\ DoneIsSpent'
  BY DEF QueueInv, PostGoes, TypeOK, At, Goto, Holding, Rows, HoldInv,
     NoZombieRunning, DoneIsSpent, dbVars, leaseVars, runVars, processVars
<1>3. LeaseInv'
  BY DEF QueueInv, PostGoes, TypeOK, At, Goto, Live, Holding, LeaseInv,
     InFlight, dbVars, leaseVars, runVars, processVars
<1>4. AccountInv'
  BY DEF QueueInv, PostGoes, TypeOK, At, Goto, Live, AccountInv, InFlight,
     dbVars, leaseVars, runVars, countVars, processVars
<1> QED
  BY <1>1, <1>2, <1>3, <1>4 DEF QueueInv

\* After this write nothing is left to forget but the run to come.
LEMMA PersistStep ==
    ASSUME QueueInv, Persist
    PROVE  QueueInv'
<1>1. TypeOK'
  BY DEF QueueInv, Persist, TypeOK, RowsOK, DaemonOK, RunsOK, At, Goto,
     Statuses, Live, Ended, Points, Holding, leaseVars, runVars, countVars,
     processVars
<1>2. HoldInv' /\ NoZombieRunning' /\ DoneIsSpent'
  BY DEF QueueInv, Persist, TypeOK, RowsOK, At, Goto, Holding, Rows, HoldInv,
     NoZombieRunning, DoneIsSpent, leaseVars, runVars, processVars
<1>3. LeaseInv'
  BY QueueAssumption DEF QueueInv, Persist, TypeOK, RowsOK, DaemonOK, At,
     Goto, Live, Holding, LeaseInv, HoldInv, InFlight, leaseVars, runVars,
     processVars
<1>4. AccountInv'
  BY DEF QueueInv, Persist, TypeOK, RowsOK, DaemonOK, At, Goto, Live, Holding,
     LeaseInv, AccountInv, InFlight, leaseVars, runVars, countVars,
     processVars
<1> QED
  BY <1>1, <1>2, <1>3, <1>4 DEF QueueInv

\* A cancelled item at the end of its lease keeps the status it has.
LEMMA FinishCancelledStep ==
    ASSUME QueueInv, FinishCancelled
    PROVE  QueueInv'
<1>1. TypeOK'
  BY DEF QueueInv, FinishCancelled, TypeOK, RowsOK, DaemonOK, RunsOK, At,
     Goto, Statuses, Live, Ended, Points, Holding, dbVars, leaseVars, runVars,
     countVars, processVars
<1>2. HoldInv' /\ NoZombieRunning' /\ DoneIsSpent'
  BY DEF QueueInv, FinishCancelled, TypeOK, At, Goto, Holding, Rows, HoldInv,
     NoZombieRunning, DoneIsSpent, dbVars, leaseVars, runVars, processVars
<1>3. LeaseInv'
  BY DEF QueueInv, FinishCancelled, TypeOK, At, Goto, Live, Holding, LeaseInv,
     InFlight, dbVars, leaseVars, runVars, processVars
<1>4. AccountInv'
  BY DEF QueueInv, FinishCancelled, TypeOK, At, Goto, Live, AccountInv,
     InFlight, dbVars, leaseVars, runVars, countVars, processVars
<1> QED
  BY <1>1, <1>2, <1>3, <1>4 DEF QueueInv

\* The end of a lease whose item was not cancelled.
LEMMA FinishGoesStep ==
    ASSUME QueueInv, FinishGoes
    PROVE  QueueInv'
<1>1. TypeOK'
  BY DEF QueueInv, FinishGoes, TypeOK, RowsOK, DaemonOK, RunsOK, At, Goto,
     Statuses, Live, Ended, Points, Holding, dbVars, leaseVars, runVars,
     countVars, processVars
<1>2. HoldInv' /\ NoZombieRunning' /\ DoneIsSpent'
  BY DEF QueueInv, FinishGoes, TypeOK, At, Goto, Holding, Rows, HoldInv,
     NoZombieRunning, DoneIsSpent, dbVars, leaseVars, runVars, processVars
<1>3. LeaseInv'
  BY DEF QueueInv, FinishGoes, TypeOK, At, Goto, Live, Holding, LeaseInv,
     InFlight, dbVars, leaseVars, runVars, processVars
<1>4. AccountInv'
  BY DEF QueueInv, FinishGoes, TypeOK, At, Goto, Live, AccountInv, InFlight,
     dbVars, leaseVars, runVars, countVars, processVars
<1> QED
  BY <1>1, <1>2, <1>3, <1>4 DEF QueueInv

\* The item goes back to 'pending' with its progress written, before it is
\* let go of.
LEMMA RequeueStep ==
    ASSUME QueueInv, Requeue
    PROVE  QueueInv'
<1>1. TypeOK'
  BY DEF QueueInv, Requeue, TypeOK, RowsOK, DaemonOK, RunsOK, At, Goto,
     Statuses, Live, Ended, Points, Holding, leaseVars, runVars, countVars,
     processVars
<1>2. HoldInv' /\ NoZombieRunning' /\ DoneIsSpent'
  BY DEF QueueInv, Requeue, TypeOK, RowsOK, DaemonOK, At, Goto, Holding, Rows,
     HoldInv, NoZombieRunning, DoneIsSpent, leaseVars, runVars, processVars
<1>3. LeaseInv'
  BY QueueAssumption DEF QueueInv, Requeue, TypeOK, RowsOK, DaemonOK, At,
     Goto, Live, Holding, LeaseInv, HoldInv, InFlight, leaseVars, runVars,
     processVars
<1>4. AccountInv'
  BY DEF QueueInv, Requeue, TypeOK, RowsOK, DaemonOK, At, Goto, Live,
     AccountInv, InFlight, leaseVars, runVars, countVars, processVars
<1> QED
  BY <1>1, <1>2, <1>3, <1>4 DEF QueueInv

\* A consumed budget is written down together with its final status.
LEMMA CloseStep ==
    ASSUME QueueInv, Close
    PROVE  QueueInv'
<1>1. TypeOK'
  BY DEF QueueInv, Close, FinalStatus, TypeOK, RowsOK, DaemonOK, RunsOK, At,
     Goto, Statuses, Live, Ended, Points, Holding, leaseVars, runVars,
     countVars, processVars
<1>2. HoldInv' /\ NoZombieRunning' /\ DoneIsSpent'
  BY DEF QueueInv, Close, FinalStatus, TypeOK, RowsOK, DaemonOK, At, Goto,
     Live, Holding, Rows, HoldInv, LeaseInv, NoZombieRunning, DoneIsSpent,
     InFlight, leaseVars, runVars, processVars
<1>3. LeaseInv'
  BY QueueAssumption DEF QueueInv, Close, FinalStatus, TypeOK, RowsOK,
     DaemonOK, At, Goto, Live, Holding, LeaseInv, HoldInv, InFlight,
     leaseVars, runVars, processVars
<1>4. AccountInv'
  BY DEF QueueInv, Close, FinalStatus, TypeOK, RowsOK, DaemonOK, At, Goto,
     Live, Holding, LeaseInv, AccountInv, InFlight, leaseVars, runVars,
     countVars, processVars
<1> QED
  BY <1>1, <1>2, <1>3, <1>4 DEF QueueInv

\* The bootstrap baseline changes nothing in the queue.
LEMMA TryBaselineStep ==
    ASSUME QueueInv, TryBaseline
    PROVE  QueueInv'
<1>1. TypeOK'
  BY DEF QueueInv, TryBaseline, TypeOK, RowsOK, DaemonOK, RunsOK, At, Goto,
     Statuses, Live, Ended, Points, Holding, dbVars, leaseVars, runVars,
     countVars, processVars
<1>2. HoldInv' /\ NoZombieRunning' /\ DoneIsSpent'
  BY DEF QueueInv, TryBaseline, TypeOK, At, Goto, Holding, Rows, HoldInv,
     NoZombieRunning, DoneIsSpent, dbVars, leaseVars, runVars, processVars
<1>3. LeaseInv'
  BY DEF QueueInv, TryBaseline, TypeOK, At, Goto, Live, Holding, LeaseInv,
     InFlight, dbVars, leaseVars, runVars, processVars
<1>4. AccountInv'
  BY DEF QueueInv, TryBaseline, TypeOK, At, Goto, Live, AccountInv, InFlight,
     dbVars, leaseVars, runVars, countVars, processVars
<1> QED
  BY <1>1, <1>2, <1>3, <1>4 DEF QueueInv

\* The item let go of is not 'running', and whatever of it is live has its
\* runs written down.
LEMMA ClearStateStep ==
    ASSUME QueueInv, ClearState
    PROVE  QueueInv'
<1>1. TypeOK'
  BY DEF QueueInv, ClearState, ForgetLease, TypeOK, RowsOK, DaemonOK, RunsOK,
     At, Goto, Statuses, Live, Ended, Points, Holding, dbVars, runVars,
     countVars, processVars
<1>2. HoldInv' /\ NoZombieRunning' /\ DoneIsSpent'
  BY DEF QueueInv, ClearState, ForgetLease, TypeOK, At, Goto, Holding, Rows,
     HoldInv, NoZombieRunning, DoneIsSpent, dbVars, runVars, processVars
<1>3. LeaseInv'
  BY DEF QueueInv, ClearState, ForgetLease, TypeOK, At, Goto, Live, Holding,
     LeaseInv, InFlight, dbVars, runVars, processVars
<1>4. AccountInv'
  BY QueueAssumption DEF QueueInv, ClearState, ForgetLease, TypeOK, RowsOK,
     At, Goto, Live, Holding, LeaseInv, AccountInv, InFlight, HoldInv, dbVars,
     runVars, countVars, processVars
<1> QED
  BY <1>1, <1>2, <1>3, <1>4 DEF QueueInv

\* A run that ends is still awaited.
LEMMA DagEndsStep ==
    ASSUME QueueInv, DagEnds
    PROVE  QueueInv'
<1>1. TypeOK'
  BY DEF QueueInv, DagEnds, TypeOK, RowsOK, DaemonOK, RunsOK, Statuses, Live,
     Ended, Points, Holding, dbVars, leaseVars, daemonVars, countVars,
     processVars
<1>2. HoldInv' /\ NoZombieRunning' /\ DoneIsSpent'
  BY DEF QueueInv, DagEnds, TypeOK, Holding, Rows, HoldInv, NoZombieRunning,
     DoneIsSpent, dbVars, leaseVars, daemonVars, processVars
<1>3. LeaseInv'
  BY DEF QueueInv, DagEnds, TypeOK, Live, Holding, LeaseInv, InFlight, dbVars,
     leaseVars, daemonVars, processVars
<1>4. AccountInv'
  BY DEF QueueInv, DagEnds, TypeOK, Live, AccountInv, InFlight, dbVars,
     leaseVars, daemonVars, countVars, processVars
<1> QED
  BY <1>1, <1>2, <1>3, <1>4 DEF QueueInv

\* A run nobody waits for ends.
LEMMA OrphanEndsStep ==
    ASSUME NEW q \in Items, QueueInv, OrphanEnds(q)
    PROVE  QueueInv'
<1>1. TypeOK'
  BY DEF QueueInv, OrphanEnds, TypeOK, RowsOK, DaemonOK, RunsOK, Statuses,
     Live, Ended, Points, Holding, dbVars, leaseVars, daemonVars, countVars,
     processVars
<1>2. HoldInv' /\ NoZombieRunning' /\ DoneIsSpent'
  BY DEF QueueInv, OrphanEnds, TypeOK, Holding, Rows, HoldInv,
     NoZombieRunning, DoneIsSpent, dbVars, leaseVars, daemonVars, processVars
<1>3. LeaseInv'
  BY DEF QueueInv, OrphanEnds, TypeOK, Live, Holding, LeaseInv, InFlight,
     dbVars, leaseVars, daemonVars, processVars
<1>4. AccountInv'
  BY DEF QueueInv, OrphanEnds, TypeOK, Live, AccountInv, InFlight, dbVars,
     leaseVars, daemonVars, countVars, processVars
<1> QED
  BY <1>1, <1>2, <1>3, <1>4 DEF QueueInv

\* A stop request changes no account.
LEMMA SignalStep ==
    ASSUME QueueInv, Signal
    PROVE  QueueInv'
<1>1. TypeOK'
  BY DEF QueueInv, Signal, TypeOK, RowsOK, DaemonOK, RunsOK, Statuses, Live,
     Ended, Points, Holding, dbVars, leaseVars, runVars, processVars
<1>2. HoldInv' /\ NoZombieRunning' /\ DoneIsSpent'
  BY DEF QueueInv, Signal, TypeOK, Holding, Rows, HoldInv, NoZombieRunning,
     DoneIsSpent, dbVars, leaseVars, runVars, processVars
<1>3. LeaseInv'
  BY DEF QueueInv, Signal, TypeOK, Live, Holding, LeaseInv, InFlight, dbVars,
     leaseVars, runVars, processVars
<1>4. AccountInv'
  BY DEF QueueInv, Signal, TypeOK, Live, AccountInv, InFlight, dbVars,
     leaseVars, runVars, processVars
<1> QED
  BY <1>1, <1>2, <1>3, <1>4 DEF QueueInv

\* A clean exit happens between items: nothing is forgotten.
LEMMA StopStep ==
    ASSUME QueueInv, Stop
    PROVE  QueueInv'
<1>1. TypeOK'
  BY DEF QueueInv, Stop, ProcessDies, ForgetLease, TypeOK, RowsOK, DaemonOK,
     RunsOK, At, Goto, Statuses, Live, Ended, Points, Holding, HoldInv, dbVars
<1>2. HoldInv' /\ NoZombieRunning' /\ DoneIsSpent'
  BY DEF QueueInv, Stop, ProcessDies, ForgetLease, TypeOK, At, Goto, Holding,
     Rows, HoldInv, NoZombieRunning, DoneIsSpent, dbVars
<1>3. LeaseInv'
  BY DEF QueueInv, Stop, ProcessDies, ForgetLease, TypeOK, At, Goto, Live,
     Holding, LeaseInv, InFlight, dbVars
<1>4. AccountInv'
  BY QueueAssumption DEF QueueInv, Stop, ProcessDies, ForgetLease, TypeOK, At,
     Goto, Live, Holding, AccountInv, InFlight, HoldInv, dbVars
<1> QED
  BY <1>1, <1>2, <1>3, <1>4 DEF QueueInv

\* A death forgets what is in memory only, which is at most Loss cycles,
\* and crashes goes up by one.
LEMMA CrashStep ==
    ASSUME QueueInv, Crash
    PROVE  QueueInv'
<1>1. TypeOK'
  <2>1. RowsOK'
    BY DEF QueueInv, Crash, ProcessDies, ForgetLease, TypeOK, RowsOK,
       Statuses, Live, Ended, dbVars
  <2>2. DaemonOK'
    BY DEF QueueInv, Crash, ProcessDies, ForgetLease, TypeOK, DaemonOK, Goto,
       Points, Holding, dbVars
  <2>3. RunsOK'
    BY DEF QueueInv, Crash, ProcessDies, ForgetLease, TypeOK, DaemonOK,
       RunsOK, Holding, HoldInv, dbVars
  <2> QED
    BY <2>1, <2>2, <2>3 DEF TypeOK
<1>2. HoldInv' /\ NoZombieRunning' /\ DoneIsSpent'
  BY DEF QueueInv, Crash, ProcessDies, ForgetLease, TypeOK, Goto, Holding,
     Rows, HoldInv, NoZombieRunning, DoneIsSpent, dbVars
<1>3. LeaseInv'
  BY DEF QueueInv, Crash, ProcessDies, ForgetLease, TypeOK, Goto, Live,
     Holding, LeaseInv, InFlight, dbVars
<1>4. AccountInv'
  BY QueueAssumption, LossFacts DEF QueueInv, Crash, ProcessDies, ForgetLease,
     TypeOK, RowsOK, DaemonOK, RunsOK, Goto, Live, Holding, LeaseInv,
     AccountInv, InFlight, HoldInv, dbVars
<1> QED
  BY <1>1, <1>2, <1>3, <1>4 DEF QueueInv

\* The new process finds what the dead one left.
LEMMA StartStep ==
    ASSUME QueueInv, Start
    PROVE  QueueInv'
<1>1. TypeOK'
  BY DEF QueueInv, Start, TypeOK, RowsOK, DaemonOK, RunsOK, At, Goto,
     Statuses, Live, Ended, Points, Holding, dbVars, leaseVars, runVars,
     countVars
<1>2. HoldInv' /\ NoZombieRunning' /\ DoneIsSpent'
  BY DEF QueueInv, Start, TypeOK, At, Goto, Holding, Rows, HoldInv,
     NoZombieRunning, DoneIsSpent, dbVars, leaseVars, runVars
<1>3. LeaseInv'
  BY DEF QueueInv, Start, TypeOK, At, Goto, Live, Holding, LeaseInv, InFlight,
     dbVars, leaseVars, runVars
<1>4. AccountInv'
  BY DEF QueueInv, Start, TypeOK, At, Goto, Live, AccountInv, InFlight,
     dbVars, leaseVars, runVars, countVars
<1> QED
  BY <1>1, <1>2, <1>3, <1>4 DEF QueueInv

\* The rows left 'running' go back to 'pending' with cycles_done kept.
LEMMA ResetStuckStep ==
    ASSUME QueueInv, ResetStuck
    PROVE  QueueInv'
<1>1. TypeOK'
  BY DEF QueueInv, ResetStuck, TypeOK, RowsOK, DaemonOK, RunsOK, At, Goto,
     Statuses, Live, Ended, Points, Holding, leaseVars, runVars, countVars,
     processVars
<1>2. HoldInv' /\ NoZombieRunning' /\ DoneIsSpent'
  BY DEF QueueInv, ResetStuck, TypeOK, At, Goto, Holding, Rows, HoldInv,
     NoZombieRunning, DoneIsSpent, leaseVars, runVars, processVars
<1>3. LeaseInv'
  BY DEF QueueInv, ResetStuck, TypeOK, At, Goto, Live, Holding, LeaseInv,
     InFlight, leaseVars, runVars, processVars
<1>4. AccountInv'
  BY DEF QueueInv, ResetStuck, TypeOK, At, Goto, Live, AccountInv, InFlight,
     leaseVars, runVars, countVars, processVars
<1> QED
  BY <1>1, <1>2, <1>3, <1>4 DEF QueueInv

-----------------------------------------------------------------------------
\* Every step of the system preserves the inductive invariant.
LEMMA NextQueueInv == QueueInv /\ [Next]_vars => QueueInv'
<1> SUFFICES ASSUME QueueInv, [Next]_vars PROVE QueueInv'
  OBVIOUS
<1>1. CASE Daemon
  <2>1. CASE LoopTop \/ RefillScan \/ PopNone
    BY <2>1, LoopTopStep, RefillScanStep, PopNoneStep
  <2>2. CASE Refill
    BY <2>2, RefillInsertStep, RefillNoneStep DEF Refill
  <2>3. CASE \E q \in Items : Pop(q)
    BY <2>3, PopStep
  <2>4. CASE StartLease \/ LoadConfig \/ LoadFails
    BY <2>4, StartLeaseStep, LoadConfigStep, LoadFailsStep
  <2>5. CASE CheckStops \/ CheckGoes
    BY <2>5, CheckStopsStep, CheckGoesStep
  <2>6. CASE Cycle
    BY <2>6, TriggerStep, TriggerFailsStep, TriggerReplyLostStep,
       WaitSeesSuccessStep, WaitSeesFailureStep, WaitGivesUpStep DEF Cycle
  <2>7. CASE PostCancelled \/ PostGoes \/ Persist
    BY <2>7, PostCancelledStep, PostGoesStep, PersistStep
  <2>8. CASE FinishCancelled \/ FinishGoes \/ Requeue \/ Close \/ TryBaseline \/ ClearState
    BY <2>8, FinishCancelledStep, FinishGoesStep, RequeueStep, CloseStep,
       TryBaselineStep, ClearStateStep
  <2>9. CASE Stop \/ Start \/ ResetStuck
    BY <2>9, StopStep, StartStep, ResetStuckStep
  <2> QED
    BY <1>1, <2>1, <2>2, <2>3, <2>4, <2>5, <2>6, <2>7, <2>8, <2>9 DEF Daemon
<1>2. CASE Environment
  <2>1. CASE Clients
    BY <2>1, EnqueueStep, PatchPriorityStep, PatchReadStep DEF Clients
  <2>2. CASE \E q \in Items : PatchWrite(q) \/ OrphanEnds(q)
    BY <2>2, PatchWriteStep, OrphanEndsStep
  <2>3. CASE DagEnds \/ Signal \/ Crash
    BY <2>3, DagEndsStep, SignalStep, CrashStep
  <2> QED
    BY <1>2, <2>1, <2>2, <2>3 DEF Environment
<1>3. CASE UNCHANGED vars
  <2>1. TypeOK' /\ HoldInv' /\ NoZombieRunning' /\ DoneIsSpent'
    BY <1>3 DEF QueueInv, vars, dbVars, processVars, leaseVars, daemonVars, runVars, countVars,
       TypeOK, RowsOK, DaemonOK, RunsOK, HoldInv, NoZombieRunning, DoneIsSpent, Rows
  <2>2. LeaseInv' /\ AccountInv'
    BY <1>3 DEF QueueInv, vars, dbVars, processVars, leaseVars, daemonVars, runVars, countVars,
       LeaseInv, AccountInv, InFlight
  <2> QED
    BY <2>1, <2>2 DEF QueueInv
<1> QED
  BY <1>1, <1>2, <1>3 DEF Next

\* The inductive invariant holds in every reachable state.
THEOREM QueueInvariant == Spec => []QueueInv
<1> QED
  BY InitQueueInv, NextQueueInv, PTL DEF Spec

\* Every variable keeps its type: no column and no local of _process ever
\* leaves its range.
THEOREM TypeCorrect == Spec => []TypeOK
<1>1. QueueInv => TypeOK
  BY DEF QueueInv
<1> QED
  BY <1>1, QueueInvariant, PTL

\* A row is 'running' only while the daemon holds its lease (run_daemon.py,
\* every path through _process and the reset at startup).
THEOREM ZombieFree == Spec => []NoZombieRunning
<1>1. QueueInv => NoZombieRunning
  BY DEF QueueInv
<1> QED
  BY <1>1, QueueInvariant, PTL

\* However leases, failures, cancellations and restarts interleave, an item
\* costs at most its n_cycles runs plus Loss for each crash.
THEOREM BudgetKept == Spec => []BudgetBound
<1>1. QueueInv => BudgetBound
  BY DEF QueueInv, AccountInv, BudgetBound
<1> QED
  BY <1>1, QueueInvariant, PTL

\* 'done' is only written for a fully consumed budget.
THEOREM DoneSpent == Spec => []DoneIsSpent
<1>1. QueueInv => DoneIsSpent
  BY DEF QueueInv
<1> QED
  BY <1>1, QueueInvariant, PTL

-----------------------------------------------------------------------------
\* A run is left behind only by a crash, by a lost answer or by a poll given up
\* on a live run, and the clean exit never leaves one behind: it is reached
\* between items, when HoldInv says that nothing is awaited.
LEMMA SequentialStep ==
    QueueInv /\ SequentialUnlessFaulty /\ [Next]_vars => SequentialUnlessFaulty'
<1> SUFFICES ASSUME QueueInv, SequentialUnlessFaulty, [Next]_vars
             PROVE  SequentialUnlessFaulty'
  OBVIOUS
<1>1. crashes \in Nat /\ faults \in Nat /\ orphans \in [Items -> Nat]
  BY DEF QueueInv, TypeOK, RunsOK
<1>2. CASE UNCHANGED <<orphans, crashes, faults>>
  BY <1>2 DEF SequentialUnlessFaulty
<1>3. CASE Daemon
  <2>1. CASE TriggerReplyLost
    BY <1>1, <2>1 DEF TriggerReplyLost, CountFailure, SequentialUnlessFaulty
  <2>2. CASE WaitGivesUp
    BY <1>1, <2>2 DEF WaitGivesUp, CountFailure, SequentialUnlessFaulty
  <2>3. CASE Stop
    <3>1. awaited # "live"
      BY <2>3 DEF Stop, At, QueueInv, HoldInv
    <3> QED
      BY <3>1, <2>3 DEF Stop, ProcessDies, SequentialUnlessFaulty
  <2>4. CASE LoopTop \/ RefillScan \/ Refill \/ (\E q \in Items : Pop(q)) \/ PopNone
    BY <1>2, <2>4 DEF LoopTop, RefillScan, Refill, RefillInsert, RefillNone, Pop, PopNone,
       runVars, countVars
  <2>5. CASE StartLease \/ LoadConfig \/ LoadFails \/ CheckStops \/ CheckGoes
    BY <1>2, <2>5 DEF StartLease, LoadConfig, LoadFails, CheckStops, CheckGoes,
       ReturnCancelled, runVars, countVars
  <2>6. CASE Trigger \/ TriggerFails \/ WaitSeesSuccess \/ WaitSeesFailure
    BY <1>2, <2>6 DEF Trigger, TriggerFails, WaitSeesSuccess, WaitSeesFailure, CountFailure,
       runVars, countVars
  <2>7. CASE PostCancelled \/ PostGoes \/ Persist \/ FinishCancelled \/ FinishGoes
    BY <1>2, <2>7 DEF PostCancelled, ReturnCancelled, PostGoes, Persist, FinishCancelled,
       FinishGoes, runVars, countVars
  <2>8. CASE Requeue \/ Close \/ TryBaseline \/ ClearState \/ Start \/ ResetStuck
    BY <1>2, <2>8 DEF Requeue, Close, TryBaseline, ClearState, Start, ResetStuck,
       runVars, countVars
  <2> QED
    BY <1>3, <2>1, <2>2, <2>3, <2>4, <2>5, <2>6, <2>7, <2>8 DEF Daemon, Cycle
<1>4. CASE Environment
  <2>1. CASE Clients \/ DagEnds \/ Signal \/ \E q \in Items : PatchWrite(q)
    BY <1>2, <2>1 DEF Clients, Enqueue, PatchPriority, PatchRead, DagEnds, Signal, PatchWrite,
       runVars, countVars
  <2>2. CASE \E q \in Items : OrphanEnds(q)
    BY <1>1, <2>2 DEF OrphanEnds, countVars, SequentialUnlessFaulty
  <2>3. CASE Crash
    BY <1>1, <2>3 DEF Crash, SequentialUnlessFaulty
  <2> QED
    BY <1>4, <2>1, <2>2, <2>3 DEF Environment
<1> QED
  BY <1>2, <1>3, <1>4 DEF Next, vars, runVars, countVars

\* As long as no process died and no answer was lost, no run goes on behind
\* the daemon's back, so that cycles are sequential.
THEOREM SequentialCycles == Spec => []SequentialUnlessFaulty
<1>1. Init => SequentialUnlessFaulty
  BY DEF Init, SequentialUnlessFaulty
<1> QED
  BY <1>1, SequentialStep, QueueInvariant, PTL DEF Spec
-----------------------------------------------------------------------------
(* The properties of CycleQueueHistory.                                    *)

\* Rows stay rows, and only a lease changes the order of two of them.
LEMMA RowsGrow ==
    ASSUME QueueInv, [Next]_vars
    PROVE  /\ Rows \subseteq Rows'
           /\ StartLease \/ older \subseteq older'
<1>1. status \in [Items -> Statuses] /\ (pc \in Holding => cur \in Items)
  BY DEF QueueInv, TypeOK, RowsOK, DaemonOK, HoldInv
<1>2. CASE UNCHANGED <<status, older>>
  BY <1>2 DEF Rows
<1>3. CASE Daemon
  <2>1. CASE LoopTop \/ RefillScan \/ RefillNone \/ PopNone \/ \E q \in Items : Pop(q)
    BY <1>2, <2>1 DEF LoopTop, RefillScan, RefillNone, PopNone, Pop, dbVars
  <2>2. CASE \E F \in SUBSET Items : RefillInsert(F)
    BY <1>1, <2>2 DEF RefillInsert, Insert, Rows
  <2>3. CASE StartLease
    BY <1>1, <2>3 DEF StartLease, Rows
  <2>4. CASE LoadConfig \/ CheckGoes \/ Trigger \/ WaitSeesSuccess \/ PostGoes
               \/ FinishCancelled \/ FinishGoes \/ TryBaseline \/ ClearState \/ Start
    BY <1>2, <2>4 DEF LoadConfig, CheckGoes, Trigger, WaitSeesSuccess, PostGoes,
       FinishCancelled, FinishGoes, TryBaseline, ClearState, Start, dbVars
  <2>5. CASE LoadFails \/ CheckStops \/ PostCancelled
    BY <1>1, <2>5 DEF LoadFails, CheckStops, PostCancelled, ReturnCancelled, Rows
  <2>6. CASE TriggerFails \/ TriggerReplyLost \/ WaitSeesFailure \/ WaitGivesUp
    <3>1. older' = older /\ (status' = status \/ status' = [status EXCEPT ![cur] = "failed"])
      BY <2>6 DEF TriggerFails, TriggerReplyLost, WaitSeesFailure, WaitGivesUp, CountFailure
    <3> QED
      BY <1>1, <3>1 DEF Rows
  <2>7. CASE Persist \/ Requeue \/ Close
    <3>1. /\ older' = older
          /\ \E s \in {"running", "pending", "failed", "done"} :
                status' = [status EXCEPT ![cur] = s]
      BY <2>7 DEF Persist, Requeue, Close, FinalStatus, leaseVars
    <3> QED
      BY <1>1, <3>1 DEF Rows
  <2>8. CASE Stop
    BY <1>2, <2>8 DEF Stop, ProcessDies, dbVars
  <2>9. CASE ResetStuck
    BY <1>1, <2>9 DEF ResetStuck, Rows
  <2> QED
    BY <1>3, <2>1, <2>2, <2>3, <2>4, <2>5, <2>6, <2>7, <2>8, <2>9 DEF Daemon, Refill, Cycle
<1>4. CASE Environment
  <2>1. CASE \E q \in Items, n \in Budgets, p \in Prios : Enqueue(q, n, p)
    BY <1>1, <2>1 DEF Enqueue, Insert, Rows
  <2>2. CASE \E q \in Items : PatchWrite(q)
    BY <1>1, <2>2 DEF PatchWrite, Rows
  <2>3. CASE \/ \E q \in Items, p \in Prios : PatchPriority(q, p)
             \/ \E q \in Items : PatchRead(q) \/ OrphanEnds(q)
             \/ DagEnds \/ Signal \/ Crash
    BY <1>2, <2>3 DEF PatchPriority, PatchRead, OrphanEnds, DagEnds, Signal, Crash,
       ProcessDies, dbVars
  <2> QED
    BY <1>4, <2>1, <2>2, <2>3 DEF Environment, Clients
<1> QED
  BY <1>2, <1>3, <1>4 DEF Next, vars, dbVars

\* What the program points tell of the steps between them.
LEMMA PointFacts ==
    ASSUME QueueInv, [Next]_vars
    PROVE  /\ pc = "pop" /\ pc' = "start" => \E q \in Items : Pop(q)
           /\ pc = "start" /\ pc' = "load" => StartLease
           /\ pc = "wait" /\ pc' = "post" => WaitSeesSuccess
           /\ pc' = pc => UNCHANGED leaseVars
<1>1. CASE Daemon
  <2>1. CASE LoopTop \/ RefillScan \/ PopNone \/ Refill \/ \E q \in Items : Pop(q)
    BY <2>1 DEF LoopTop, RefillScan, PopNone, Refill, RefillInsert, RefillNone, Pop, At, Goto
  <2>2. CASE StartLease \/ LoadConfig \/ LoadFails \/ CheckStops \/ CheckGoes
    BY <2>2 DEF StartLease, LoadConfig, LoadFails, CheckStops, CheckGoes, ReturnCancelled,
       At, Goto
  <2>3. CASE Cycle
    BY <2>3 DEF Cycle, Trigger, TriggerFails, TriggerReplyLost, WaitSeesSuccess,
       WaitSeesFailure, WaitGivesUp, CountFailure, At, Goto
  <2>4. CASE \/ PostCancelled \/ PostGoes \/ Persist \/ FinishCancelled \/ FinishGoes
             \/ Requeue \/ Close \/ TryBaseline \/ ClearState \/ Stop \/ Start \/ ResetStuck
    BY <2>4 DEF PostCancelled, ReturnCancelled, PostGoes, Persist, FinishCancelled, FinishGoes,
       Requeue, Close, TryBaseline, ClearState, Stop, ProcessDies, Start, ResetStuck, At, Goto
  <2> QED
    BY <1>1, <2>1, <2>2, <2>3, <2>4 DEF Daemon
<1>2. CASE Environment
  BY <1>2 DEF Environment, Clients, Enqueue, PatchPriority, PatchRead, PatchWrite, OrphanEnds,
     DagEnds, Signal, Crash, ProcessDies, Goto, daemonVars
<1>3. CASE UNCHANGED vars
  BY <1>3 DEF vars, daemonVars
<1> QED
  BY <1>1, <1>2, <1>3 DEF Next

\* Whoever overtook an item is behind it until the item is leased itself.
LEMMA OvertakeStep ==
    ASSUME QueueInv, QueueInv', OvertakeInv, [HNext]_allVars
    PROVE  OvertakeInv'
<1>1. CASE UNCHANGED allVars
  BY <1>1 DEF OvertakeInv, allVars, histVars, vars, dbVars, daemonVars, leaseVars, Rows
<1>2. CASE HNext
  <2>1. Rows \subseteq Rows' /\ (StartLease \/ older \subseteq older')
    BY <1>2, RowsGrow DEF HNext
  <2>2. passed' \subseteq Rows' \ {cur'}
    <3>1. CASE pc = "pop" /\ pc' = "start"
      BY <1>2, <2>1, <3>1 DEF HNext, Record, Pending, Rows
    <3>2. CASE pc = "start" /\ pc' = "start"
      <4>1. cur' = cur
        BY <1>2, <3>2, PointFacts DEF HNext, leaseVars
      <4> QED
        BY <1>2, <2>1, <3>2, <4>1 DEF HNext, Record, OvertakeInv
    <3> QED
      BY <1>2, <3>1, <3>2 DEF HNext, Record
  <2>3. CASE pc = "start" /\ pc' = "load"
    <3>1. StartLease /\ cur \in Items
      BY <1>2, <2>3, PointFacts DEF HNext, QueueInv, TypeOK, DaemonOK, HoldInv, Holding
    <3>2. /\ overtaken' = {e \in overtaken : e[2] # cur} \cup ({cur} \X passed)
          /\ older' = MoveBack(cur)
      BY <1>2, <2>3, <3>1 DEF HNext, Record, StartLease
    <3>3. overtaken' \subseteq Items \X Rows'
      BY <2>1, <3>1, <3>2 DEF OvertakeInv
    <3>4. ASSUME NEW r \in Items, NEW p \in Items, <<r, p>> \in overtaken'
          PROVE  <<p, r>> \in older'
      <4>1. CASE r = cur /\ p \in passed
        BY <3>2, <4>1 DEF OvertakeInv, MoveBack
      <4>2. CASE <<r, p>> \in overtaken /\ p # cur /\ r # cur
        BY <3>2, <4>2 DEF OvertakeInv, MoveBack
      <4>3. CASE <<r, p>> \in overtaken /\ p # cur /\ r = cur
        BY <3>2, <4>3 DEF OvertakeInv, MoveBack
      <4> QED
        BY <3>2, <3>4, <4>1, <4>2, <4>3
    <3> QED
      BY <2>2, <3>3, <3>4 DEF OvertakeInv
  <2>4. CASE ~(pc = "start" /\ pc' = "load")
    <3>1. overtaken' = overtaken
      BY <1>2, <2>4 DEF HNext, Record
    <3>2. older \subseteq older'
      BY <2>1, <2>4 DEF StartLease, At, Goto
    <3> QED
      BY <2>1, <2>2, <3>1, <3>2 DEF OvertakeInv
  <2> QED
    BY <2>3, <2>4
<1> QED
  BY <1>1, <1>2

\* A cancellation that finds the daemon waiting leaves it ahead of a check.
LEMMA DoomsDead ==
    ASSUME QueueInv, [Next]_vars, NEW q \in Items, pc = "wait", cur = q, CancelledNow(q)
    PROVE  Dead(q)'
<1>1. cur' = NoItem \/ pc' \in {"wait", "post", "check", "clear"}
  <2>1. CASE Daemon
    BY <2>1 DEF Daemon, LoopTop, RefillScan, PopNone, Refill, RefillInsert, RefillNone, Pop,
       StartLease, LoadConfig, LoadFails, CheckStops, CheckGoes, Cycle, Trigger, TriggerFails,
       TriggerReplyLost, WaitSeesSuccess, WaitSeesFailure, WaitGivesUp, CountFailure,
       PostCancelled, PostGoes, Persist, FinishCancelled, FinishGoes, Requeue, Close,
       TryBaseline, ClearState, Stop, Start, ResetStuck, At, Goto
  <2>2. CASE Environment
    BY <2>2 DEF Environment, Clients, Enqueue, PatchPriority, PatchRead, PatchWrite, OrphanEnds,
       DagEnds, Signal, Crash, ProcessDies, ForgetLease, daemonVars
  <2>3. CASE UNCHANGED vars
    BY <2>3 DEF vars, daemonVars
  <2> QED
    BY <2>1, <2>2, <2>3 DEF Next
<1>2. status'[q] = "cancelled" /\ q # NoItem
  BY QueueAssumption DEF CancelledNow
<1> QED
  BY <1>1, <1>2 DEF Dead

\* What is cancelled that way is served no more.
LEMMA DeadStays ==
    ASSUME QueueInv, [Next]_vars, NEW q \in Items, Dead(q)
    PROVE  Dead(q)' /\ triggered'[q] = triggered[q]
<1>1. /\ status \in [Items -> Statuses] /\ triggered \in [Items -> Nat]
      /\ pc \in Holding <=> cur # NoItem
      /\ cur # NoItem => cur \in Items
      /\ cur = q => pc \in {"wait", "post", "check", "clear"}
      /\ q # NoItem
  BY QueueAssumption DEF QueueInv, TypeOK, RowsOK, DaemonOK, RunsOK, HoldInv, Dead
<1>2. CASE UNCHANGED <<status, cur, pc, triggered>>
  BY <1>2 DEF Dead
<1>3. CASE Daemon
  <2>1. CASE LoopTop \/ RefillScan \/ RefillNone \/ PopNone \/ Start
    BY <1>1, <2>1 DEF LoopTop, RefillScan, RefillNone, PopNone, Start, At, Goto, Dead, dbVars,
       leaseVars, runVars, Holding
  <2>2. CASE \E F \in SUBSET Items : RefillInsert(F)
    BY <1>1, <2>2 DEF RefillInsert, Insert, At, Goto, Dead, leaseVars, runVars, Holding
  <2>3. CASE \E p \in Items : Pop(p)
    BY <1>1, <2>3 DEF Pop, Pending, At, Dead, dbVars, runVars
  <2>4. CASE StartLease \/ LoadConfig \/ LoadFails \/ CheckGoes \/ Trigger
    BY <1>1, <2>4 DEF StartLease, LoadConfig, LoadFails, CheckGoes, Trigger, ForgetLease,
       At, Goto, Dead, dbVars, leaseVars, runVars
  <2>5. CASE CheckStops \/ PostCancelled
    BY <1>1, <2>5 DEF CheckStops, PostCancelled, ReturnCancelled, ForgetLease, Dead, runVars
  <2>6. CASE TriggerFails \/ TriggerReplyLost
    BY <1>1, <2>6 DEF TriggerFails, TriggerReplyLost, CountFailure, At, Dead, runVars
  <2>7. CASE WaitSeesFailure \/ WaitGivesUp
    <3>1. /\ cur' = cur /\ triggered' = triggered /\ cur \in Items /\ pc = "wait"
          /\ \/ pc' = "check" /\ status' = status
             \/ pc' = "clear" /\ status' = [status EXCEPT ![cur] = "failed"]
      BY <1>1, <2>7 DEF WaitSeesFailure, WaitGivesUp, CountFailure, At, Goto, Holding
    <3> QED
      BY <1>1, <3>1 DEF Dead
  <2>8. CASE WaitSeesSuccess \/ PostGoes \/ Persist \/ FinishCancelled \/ FinishGoes
    BY <1>1, <2>8 DEF WaitSeesSuccess, PostGoes, Persist, FinishCancelled, FinishGoes,
       At, Goto, Dead, dbVars, leaseVars, runVars
  <2>9. CASE Requeue \/ Close \/ TryBaseline \/ ClearState
    BY <1>1, <2>9 DEF Requeue, Close, TryBaseline, ClearState, ForgetLease, At, Goto, Dead,
       dbVars, leaseVars, runVars
  <2>10. CASE Stop \/ ResetStuck
    BY <1>1, <2>10 DEF Stop, ProcessDies, ResetStuck, ForgetLease, At, Goto, Dead, dbVars,
       leaseVars, runVars, Holding
  <2> QED
    BY <1>3, <2>1, <2>2, <2>3, <2>4, <2>5, <2>6, <2>7, <2>8, <2>9, <2>10 DEF Daemon, Refill, Cycle
<1>4. CASE Environment
  <2>1. CASE \E r \in Items, n \in Budgets, p \in Prios : Enqueue(r, n, p)
    BY <1>1, <2>1 DEF Enqueue, Insert, Dead, daemonVars, leaseVars, runVars
  <2>2. CASE \E r \in Items : PatchWrite(r)
    BY <1>1, <2>2 DEF PatchWrite, Dead, daemonVars, leaseVars, runVars
  <2>3. CASE Crash
    BY <1>1, <2>3 DEF Crash, ProcessDies, ForgetLease, Dead, dbVars
  <2>4. CASE \/ \E r \in Items, p \in Prios : PatchPriority(r, p)
             \/ \E r \in Items : PatchRead(r) \/ OrphanEnds(r)
             \/ DagEnds \/ Signal
    BY <1>2, <2>4 DEF PatchPriority, PatchRead, OrphanEnds, DagEnds, Signal, dbVars,
       daemonVars, leaseVars, runVars
  <2> QED
    BY <1>4, <2>1, <2>2, <2>3, <2>4 DEF Environment, Clients
<1> QED
  BY <1>2, <1>3, <1>4 DEF Next, vars, dbVars, daemonVars, leaseVars, runVars

\* So a doomed item stays one, and new ones are doomed at a point where they
\* are.
LEMMA DoomStep ==
    ASSUME QueueInv, DoomInv, [HNext]_allVars
    PROVE  DoomInv'
<1>1. [Next]_vars
  BY DEF HNext, allVars
<1>2. ASSUME NEW q \in doomed' PROVE q \in Items /\ Dead(q)'
  <2>1. CASE q \in doomed
    BY <1>1, <2>1, DeadStays DEF DoomInv
  <2>2. CASE q \notin doomed
    <3>1. q \in patching /\ CancelledNow(q) /\ pc = "wait" /\ cur = q
      BY <1>2, <2>2 DEF HNext, Record, allVars, histVars
    <3>2. q \in Items
      BY <3>1 DEF QueueInv, TypeOK, RowsOK
    <3> QED
      BY <1>1, <3>1, <3>2, DoomsDead
  <2> QED
    BY <2>1, <2>2
<1> QED
  BY <1>2 DEF DoomInv

\* A row inserted has spent nothing.
LEMMA InsertFresh ==
    ASSUME QueueInv, NEW F \in SUBSET Items, NEW n \in Nat, NEW p, Insert(F, n, p),
           \A q \in F : status[q] = "absent"
    PROVE  \A q \in Items : \/ status'[q] = status[q] /\ budget'[q] = budget[q]
                            \/ status'[q] = "pending" /\ ~Consumed(q)'
<1>1. \A q \in F : done[q] = 0
  BY DEF QueueInv, AccountInv
<1> QED
  BY <1>1 DEF Insert, Consumed

\* A budget is spent down to its last cycle with a success, or the item that
\* spent it is 'failed' or 'cancelled'.
LEMMA EarnStep ==
    ASSUME QueueInv, EarnInv, [HNext]_allVars
    PROVE  EarnInv'
<1>1. /\ status \in [Items -> Statuses] /\ done \in [Items -> Nat] /\ budget \in [Items -> Nat]
      /\ pc \in Holding <=> cur # NoItem
      /\ cur # NoItem => cur \in Items
      /\ NoItem \notin Items /\ spent \in Nat
  BY QueueAssumption DEF QueueInv, TypeOK, RowsOK, DaemonOK, HoldInv
<1>2. wins \subseteq wins' /\ [Next]_vars
  BY DEF HNext, Record, allVars, histVars
<1>3. CASE UNCHANGED <<status, budget, done, pc, leaseVars>>
  BY <1>2, <1>3 DEF EarnInv, DoneIsEarned, Consumed, leaseVars
<1>4. CASE Daemon
  <2>1. CASE LoopTop \/ RefillScan \/ RefillNone \/ PopNone \/ Start
    BY <1>1, <1>2, <2>1 DEF LoopTop, RefillScan, RefillNone, PopNone, Start, At, Goto, Holding,
       EarnInv, DoneIsEarned, Consumed, dbVars, leaseVars
  <2>2. CASE \E F \in SUBSET Items : RefillInsert(F)
    <3>1. PICK F \in SUBSET Items : RefillInsert(F)
      BY <2>2
    <3>2. cur = NoItem /\ UNCHANGED leaseVars /\ pc' = "pop"
      BY <1>1, <3>1 DEF RefillInsert, At, Goto, Holding
    <3>3. Insert(F, RefillBudget, 0) /\ \A q \in F : status[q] = "absent"
      BY <3>1 DEF RefillInsert
    <3>4. \A q \in Items : \/ status'[q] = status[q] /\ budget'[q] = budget[q]
                           \/ status'[q] = "pending" /\ ~Consumed(q)'
      BY <3>3, InsertFresh, QueueAssumption
    <3> QED
      BY <1>1, <1>2, <3>2, <3>3, <3>4 DEF EarnInv, DoneIsEarned, Live, leaseVars, Insert, Consumed
  <2>3. CASE \E q \in Items : Pop(q)
    BY <1>1, <1>2, <2>3 DEF Pop, Pending, Live, At, Goto, Holding, EarnInv, DoneIsEarned,
       Consumed, dbVars
  <2>4. CASE StartLease
    BY <1>1, <1>2, <2>4 DEF StartLease, At, Goto, EarnInv, DoneIsEarned, Consumed, Live,
       leaseVars
  <2>5. CASE LoadFails \/ CheckStops \/ PostCancelled
    <3>1. /\ ForgetLease /\ budget' = budget
          /\ \A q \in Items : \/ status'[q] = status[q] /\ done'[q] = done[q]
                              \/ status'[q] \in {"failed", "cancelled"}
          /\ pc' = "idle"
      BY <1>1, <2>5 DEF LoadFails, CheckStops, PostCancelled, ReturnCancelled, Goto
    <3> QED
      BY <1>1, <1>2, <3>1 DEF ForgetLease, EarnInv, DoneIsEarned, Consumed, Live
  <2>6. CASE LoadConfig \/ CheckGoes \/ Trigger \/ PostGoes \/ FinishCancelled \/ FinishGoes
               \/ TryBaseline
    BY <1>1, <1>2, <2>6 DEF LoadConfig, CheckGoes, Trigger, PostGoes, FinishCancelled,
       FinishGoes, TryBaseline, At, Goto, EarnInv, DoneIsEarned, Consumed, dbVars, leaseVars
  <2>7. CASE TriggerFails \/ TriggerReplyLost \/ WaitSeesFailure \/ WaitGivesUp
    <3>1. /\ budget' = budget /\ cur' = cur /\ won' = won /\ lost'
          /\ \/ pc' = "check" /\ UNCHANGED <<status, done>>
             \/ /\ pc' = "clear" /\ status' = [status EXCEPT ![cur] = "failed"]
                /\ done' = [done EXCEPT ![cur] = spent + 1]
          /\ pc \in {"trigger", "wait"}
      BY <2>7 DEF TriggerFails, TriggerReplyLost, WaitSeesFailure, WaitGivesUp, CountFailure,
         At, Goto
    <3> QED
      BY <1>1, <1>2, <3>1 DEF EarnInv, DoneIsEarned, Consumed, Live, Holding
  <2>8. CASE WaitSeesSuccess
    <3>1. wins' = wins \cup {cur}
      BY <2>8 DEF HNext, Record, WaitSeesSuccess, At, Goto, allVars, vars, daemonVars
    <3> QED
      BY <1>1, <2>8, <3>1 DEF WaitSeesSuccess, At, Goto, EarnInv, DoneIsEarned, Consumed, dbVars,
         Holding
  <2>9. CASE Persist
    BY <1>1, <1>2, <2>9 DEF Persist, At, Goto, EarnInv, DoneIsEarned, Consumed, leaseVars,
       Holding
  <2>10. CASE Requeue
    BY <1>1, <1>2, <2>10 DEF Requeue, At, Goto, EarnInv, DoneIsEarned, Consumed, leaseVars,
       Holding
  <2>11. CASE Close
    <3>1. /\ budget' = budget /\ UNCHANGED leaseVars /\ pc' \in {"clear", "baseline"}
          /\ status' = [status EXCEPT ![cur] = FinalStatus]
          /\ done' = [done EXCEPT ![cur] = spent]
          /\ pc = "close" /\ spent >= budget[cur]
      BY <2>11 DEF Close, At, Goto
    <3>2. FinalStatus = "failed" \/ (FinalStatus = "done" /\ (won \/ ~lost))
      BY DEF FinalStatus
    <3>3. budget[cur] > 0 /\ (won \/ ~lost) => cur \in wins
      BY <1>1, <3>1 DEF EarnInv, Consumed, Holding
    <3> QED
      BY <1>1, <1>2, <3>1, <3>2, <3>3 DEF EarnInv, DoneIsEarned, Consumed, Live, leaseVars,
         Holding
  <2>12. CASE ClearState \/ Stop
    BY <1>1, <1>2, <2>12 DEF ClearState, Stop, ProcessDies, ForgetLease, At, Goto, EarnInv,
       DoneIsEarned, Consumed, dbVars
  <2>13. CASE ResetStuck
    BY <1>1, <1>2, <2>13 DEF ResetStuck, At, Goto, EarnInv, DoneIsEarned, Consumed, Live,
       leaseVars, Holding
  <2> QED
    BY <1>4, <2>1, <2>2, <2>3, <2>4, <2>5, <2>6, <2>7, <2>8, <2>9, <2>10, <2>11, <2>12, <2>13
       DEF Daemon, Refill, Cycle
<1>5. CASE Environment
  <2>1. CASE \E q \in Items, n \in Budgets, p \in Prios : Enqueue(q, n, p)
    <3>1. PICK q \in Items, n \in Budgets, p \in Prios : Enqueue(q, n, p)
      BY <2>1
    <3>2. UNCHANGED <<pc, leaseVars>> /\ Insert({q}, n, p) /\ n \in Nat /\ status[q] = "absent"
      BY <3>1, QueueAssumption DEF Enqueue, daemonVars
    <3>3. \A r \in Items : \/ status'[r] = status[r] /\ budget'[r] = budget[r]
                           \/ status'[r] = "pending" /\ ~Consumed(r)'
      BY <3>2, InsertFresh
    <3>4. done' = done
      BY <3>2 DEF Insert
    <3>5. DoneIsEarned'
      BY <1>2, <3>3 DEF EarnInv, DoneIsEarned
    <3>6. \A r \in Items :
             Consumed(r)' /\ (status'[r] \in Live \/ (cur' = r /\ pc' \notin {"clear", "baseline"}))
                 => r \in wins'
      BY <1>1, <1>2, <3>2, <3>3, <3>4 DEF EarnInv, Consumed, Live, leaseVars
    <3> QED
      BY <1>1, <1>2, <3>2, <3>4, <3>5, <3>6 DEF EarnInv, leaseVars
  <2>2. CASE \E q \in Items : PatchWrite(q)
    BY <1>1, <1>2, <2>2 DEF PatchWrite, EarnInv, DoneIsEarned, Consumed, Live, daemonVars,
       leaseVars
  <2>3. CASE Crash
    BY <1>1, <1>2, <2>3 DEF Crash, ProcessDies, ForgetLease, Goto, EarnInv, DoneIsEarned,
       Consumed, dbVars
  <2>4. CASE \/ \E q \in Items, p \in Prios : PatchPriority(q, p)
             \/ \E q \in Items : PatchRead(q) \/ OrphanEnds(q)
             \/ DagEnds \/ Signal
    BY <1>3, <2>4 DEF PatchPriority, PatchRead, OrphanEnds, DagEnds, Signal, dbVars, daemonVars
  <2> QED
    BY <1>5, <2>1, <2>2, <2>3, <2>4 DEF Environment, Clients
<1> QED
  BY <1>2, <1>3, <1>4, <1>5 DEF Next, vars, dbVars, daemonVars

\* The inductive invariant of the queue together with its history.
THEOREM HistoryInvariant == HSpec => []HistInv
<1>1. HInit => HistInv
  <2> SUFFICES ASSUME HInit PROVE HistInv
    OBVIOUS
  <2>1. QueueInv
    BY InitQueueInv DEF HInit
  <2>2. EarnInv /\ DoomInv /\ OvertakeInv
    BY DEF HInit, Init, EarnInv, DoneIsEarned, Consumed, Live, DoomInv, OvertakeInv
  <2> QED
    BY <2>1, <2>2 DEF HistInv
<1>2. HistInv /\ [HNext]_allVars => HistInv'
  <2> SUFFICES ASSUME HistInv, [HNext]_allVars PROVE HistInv'
    OBVIOUS
  <2>1. QueueInv'
    BY NextQueueInv DEF HistInv, HNext, allVars
  <2> QED
    BY <2>1, EarnStep, DoomStep, OvertakeStep DEF HistInv
<1> QED
  BY <1>1, <1>2, PTL DEF HSpec

\* A positive budget is 'done' only if a cycle succeeded, in whichever lease
\* and under whichever process: _final_status judges by the successes of its
\* own lease, and the ones before it are behind what cycles_done already says.
THEOREM DoneEarned == HSpec => []DoneIsEarned
<1>1. HistInv => DoneIsEarned
  BY DEF HistInv, EarnInv
<1> QED
  BY <1>1, HistoryInvariant, PTL

\* An item cancelled while its cycle was in flight gets no further DAG run,
\* whatever becomes of the cycle, of the process and of the row.
THEOREM DoomedIsOver == HSpec => DoomedGetsNoMoreCycles
<1>1. HistInv /\ [HNext]_allVars => [\A q \in doomed : triggered'[q] = triggered[q]]_allVars
  <2> SUFFICES ASSUME HistInv, [HNext]_allVars, NEW q \in doomed
               PROVE  triggered'[q] = triggered[q]
    OBVIOUS
  <2>1. [Next]_vars /\ q \in Items /\ Dead(q)
    BY DEF HNext, allVars, HistInv, DoomInv
  <2> QED
    BY <2>1, DeadStays DEF HistInv
<1> QED
  BY <1>1, HistoryInvariant, PTL DEF HSpec, DoomedGetsNoMoreCycles

\* Round robin of _pop_pending: nobody is leased twice while another of at
\* least its priority waits.
THEOREM RoundRobin == HSpec => NoDoubleOvertaking
<1> DEFINE Fair == pc = "pop" /\ pc' = "start" =>
               \A p \in Pending \ {cur'} :
                   prio[p] >= prio[cur'] => <<cur', p>> \notin overtaken
<1>1. HistInv /\ [HNext]_allVars => [Fair]_allVars
  <2> SUFFICES ASSUME HistInv, [HNext]_allVars, pc = "pop", pc' = "start",
                      NEW p \in Pending \ {cur'}, prio[p] >= prio[cur']
               PROVE  <<cur', p>> \notin overtaken
    OBVIOUS
  <2>1. PICK q \in Items : Pop(q)
    BY PointFacts DEF HNext, allVars, HistInv
  <2>2. cur' = q /\ p \in Items /\ prio[p] \in Int /\ prio[q] \in Int
    BY <2>1 DEF Pop, Pending, HistInv, QueueInv, TypeOK, RowsOK
  <2>3. <<p, q>> \notin older
    BY <2>1, <2>2 DEF Pop
  <2> QED
    BY <2>2, <2>3 DEF HistInv, OvertakeInv
<1> QED
  BY <1>1, HistoryInvariant, PTL DEF HSpec, NoDoubleOvertaking

-----------------------------------------------------------------------------
(* The queue implements the ledger.  While an item is held, whatever       *)
(* happens to its row is hidden by the lease, and only what is written to  *)
(* cycles_done shows (HolderStep); while none is, nothing but the reset of *)
(* rows left 'running' touches a row that is not being submitted or        *)
(* withdrawn (QuietStep).                                                  *)

\* A step that hides in the lease: it accounts for cycles of the item held and
\* keeps the item or lets go of it.
LEMMA HolderStep ==
    ASSUME QueueInv, QueueInv', NEW h \in Items, cur = h, cur' \in {h, NoItem},
           UNCHANGED budget,
           \A q \in Items \ {h} : status'[q] = status[q] /\ done'[q] = done[q],
           status'[h] # "absent",
           done'[h] >= done[h]
    PROVE  Ledger!Next
<1>1. done \in [Items -> Nat] /\ done' \in [Items -> Nat] /\ budget' = budget
      /\ status' \in [Items -> Statuses]
  BY DEF QueueInv, TypeOK, RowsOK
<1>2. done'[h] <= budget[h]
  BY <1>1 DEF QueueInv, AccountInv
<1>3. PICK to \in {"waiting", "leased", "over"} : Phase(h)' = to
  BY <1>1 DEF Phase, Statuses, Live, Ended
<1>4. ASSUME NEW q \in Items, q # h PROVE Phase(q)' = Phase(q)
  BY <1>1, <1>4, QueueAssumption DEF Phase
<1>5. Phase(h) = "leased"
  BY DEF Phase
<1>6. Phases' = [Phases EXCEPT ![h] = to]
  BY <1>3, <1>4 DEF Phases
<1>7. done' = [done EXCEPT ![h] = done'[h]]
  BY <1>1
<1>8. Ledger!Account(h, to)
  BY <1>1, <1>2, <1>5, <1>6, <1>7 DEF Ledger!Account, Phases
<1> QED
  BY <1>8 DEF Ledger!Next

\* A step that no phase shows.
LEMMA QuietStep ==
    ASSUME UNCHANGED <<cur, budget, done>>,
           \A q \in Items : status'[q] = status[q]
                            \/ (status[q] \in Live /\ status'[q] \in Live)
    PROVE  UNCHANGED Ledger!vars
<1>1. ASSUME NEW q \in Items PROVE Phase(q)' = Phase(q)
  BY <1>1 DEF Phase, Live, Ended
<1> QED
  BY <1>1 DEF Phases, Ledger!vars

\* Rows inserted are work submitted.
LEMMA InsertSubmits ==
    ASSUME QueueInv, QueueInv', NEW F \in SUBSET Items, NEW n \in Nat, NEW p,
           \A q \in F : status[q] = "absent", Insert(F, n, p), UNCHANGED cur
    PROVE  Ledger!Next
<1>1. status \in [Items -> Statuses] /\ budget \in [Items -> Nat] /\ budget' \in [Items -> Nat]
  BY DEF QueueInv, TypeOK, RowsOK
<1>2. cur \notin F
  BY QueueAssumption DEF QueueInv, HoldInv
<1>3. \A q \in F : Phase(q) = "absent" /\ Phase(q)' = "waiting"
  BY <1>1, <1>2 DEF Insert, Phase, Live, Ended
<1>4. \A q \in Items \ F : Phase(q)' = Phase(q) /\ budget'[q] = budget[q]
  BY <1>1 DEF Insert, Phase
<1>5. Ledger!Submit(F)
  BY <1>1, <1>3, <1>4 DEF Insert, Phases, Ledger!Submit
<1> QED
  BY <1>5 DEF Ledger!Next

\* A cancellation withdraws an item that waits, hides in the lease of one that
\* is held and repeats itself on one that is over.
LEMMA PatchWriteWithdraws ==
    ASSUME QueueInv, QueueInv', NEW q \in Items, PatchWrite(q)
    PROVE  Ledger!Next \/ UNCHANGED Ledger!vars
<1>1. status \in [Items -> Statuses] /\ status[q] # "absent"
  BY DEF QueueInv, TypeOK, RowsOK, HoldInv, PatchWrite, Rows
<1>2. /\ status' = [status EXCEPT ![q] = "cancelled"]
      /\ UNCHANGED <<cur, budget, done>>
  BY DEF PatchWrite, daemonVars, leaseVars
<1>3. \A p \in Items \ {q} : Phase(p)' = Phase(p)
  BY <1>1, <1>2 DEF Phase
<1>4. CASE cur = q \/ status[q] \in Ended
  <2>1. Phase(q)' = Phase(q)
    BY <1>1, <1>2, <1>4 DEF Phase, Live, Ended
  <2> QED
    BY <1>2, <1>3, <2>1 DEF Phases, Ledger!vars
<1>5. CASE cur # q /\ status[q] \in Live
  <2>1. Phase(q) = "waiting" /\ Phase(q)' = "over"
    BY <1>1, <1>2, <1>5 DEF Phase, Live, Ended
  <2>2. Ledger!Withdraw(q)
    BY <1>2, <1>3, <2>1 DEF Phases, Ledger!Withdraw
  <2> QED
    BY <2>2 DEF Ledger!Next
<1> QED
  BY <1>1, <1>4, <1>5 DEF Statuses

\* The pop leases out an item that waits while nothing is leased.
LEMMA PopLeases ==
    ASSUME QueueInv, NEW q \in Items, Pop(q) PROVE Ledger!Next
<1>1. cur = NoItem /\ cur' = q /\ UNCHANGED <<status, budget, done>>
  BY DEF Pop, At, QueueInv, HoldInv, Holding, dbVars
<1>2. Phase(q) = "waiting" /\ Phase(q)' = "leased"
  BY <1>1, QueueAssumption DEF Pop, Pending, Phase, Live, Ended
<1>3. \A p \in Items \ {q} : Phase(p)' = Phase(p)
  BY <1>1, QueueAssumption DEF Phase
<1>4. \A p \in Items : Phase(p) # "leased"
  <2>1. ASSUME NEW p \in Items PROVE Phase(p) # "leased"
    <3>1. cur # p /\ status[p] \in Statuses
      BY <1>1, QueueAssumption DEF QueueInv, TypeOK, RowsOK
    <3> QED
      BY <3>1 DEF Phase, Statuses, Live, Ended
  <2> QED
    BY <2>1
<1>5. Ledger!LeaseOut(q)
  BY <1>1, <1>2, <1>3, <1>4 DEF Phases, Ledger!LeaseOut
<1> QED
  BY <1>5 DEF Ledger!Next
\* What holds at every program point of _process.
LEMMA Held ==
    ASSUME QueueInv, pc \in Holding
    PROVE  /\ cur \in Items /\ status[cur] # "absent"
           /\ done[cur] <= spent /\ spent \in Nat
           /\ status \in [Items -> Statuses] /\ done \in [Items -> Nat]
BY DEF QueueInv, TypeOK, RowsOK, DaemonOK, HoldInv, LeaseInv

\* The steps of _process that leave cycles_done alone.
LEMMA StatusStep ==
    ASSUME QueueInv, QueueInv',
           StartLease \/ LoadConfig \/ LoadFails \/ CheckGoes \/ Trigger
             \/ WaitSeesSuccess \/ PostGoes \/ FinishCancelled \/ FinishGoes
             \/ TryBaseline \/ ClearState
    PROVE  Ledger!Next
<1>1. pc \in Holding
  BY DEF StartLease, LoadConfig, LoadFails, CheckGoes, Trigger, WaitSeesSuccess,
     PostGoes, FinishCancelled, FinishGoes, TryBaseline, ClearState, At, Holding
<1>2. /\ cur' \in {cur, NoItem} /\ UNCHANGED <<budget, done>>
      /\ \/ status' = status
         \/ \E s \in {"running", "failed"} : status' = [status EXCEPT ![cur] = s]
  BY DEF StartLease, LoadConfig, LoadFails, CheckGoes, Trigger, WaitSeesSuccess,
     PostGoes, FinishCancelled, FinishGoes, TryBaseline, ClearState, ForgetLease,
     dbVars, leaseVars
<1>3. /\ \A q \in Items \ {cur} : status'[q] = status[q] /\ done'[q] = done[q]
      /\ status'[cur] # "absent" /\ done'[cur] >= done[cur]
  BY <1>1, <1>2, Held
<1> QED
  BY <1>1, <1>2, <1>3, Held, HolderStep

\* The steps of _process that may write cycles_done.
LEMMA ProgressStep ==
    ASSUME QueueInv, QueueInv',
           CheckStops \/ TriggerFails \/ TriggerReplyLost \/ WaitSeesFailure
             \/ WaitGivesUp \/ PostCancelled \/ Persist \/ Requeue \/ Close
    PROVE  Ledger!Next
<1>1. pc \in Holding
  BY DEF CheckStops, TriggerFails, TriggerReplyLost, WaitSeesFailure, WaitGivesUp,
     PostCancelled, Persist, Requeue, Close, At, Holding
<1>2. /\ cur' \in {cur, NoItem} /\ UNCHANGED budget
      /\ \/ UNCHANGED <<status, done>>
         \/ /\ \E s \in Statuses \ {"absent"} : status' = [status EXCEPT ![cur] = s]
            /\ \E n \in {spent, spent + 1} : done' = [done EXCEPT ![cur] = n]
  <2>1. CASE CheckStops \/ PostCancelled
    BY <2>1 DEF CheckStops, PostCancelled, ReturnCancelled, ForgetLease, Statuses, Ended
  <2>2. CASE TriggerFails \/ TriggerReplyLost \/ WaitSeesFailure \/ WaitGivesUp
    BY <2>2 DEF TriggerFails, TriggerReplyLost, WaitSeesFailure, WaitGivesUp,
       CountFailure, Statuses, Ended
  <2>3. CASE Persist \/ Requeue \/ Close
    BY <2>3 DEF Persist, Requeue, Close, FinalStatus, leaseVars, Statuses, Live, Ended
  <2> QED
    BY <2>1, <2>2, <2>3
<1>3. /\ \A q \in Items \ {cur} : status'[q] = status[q] /\ done'[q] = done[q]
      /\ status'[cur] # "absent" /\ done'[cur] >= done[cur]
  BY <1>1, <1>2, Held
<1> QED
  BY <1>1, <1>2, <1>3, Held, HolderStep

\* A death lets go of the item held, if any.
LEMMA DeathStep ==
    ASSUME QueueInv, QueueInv', ProcessDies
    PROVE  Ledger!Next \/ UNCHANGED Ledger!vars
<1>1. cur' = NoItem /\ UNCHANGED <<status, budget, done>>
  BY DEF ProcessDies, ForgetLease, dbVars
<1>2. CASE cur = NoItem
  BY <1>1, <1>2, QuietStep
<1>3. CASE cur # NoItem
  <2>1. pc \in Holding
    BY <1>3 DEF QueueInv, HoldInv
  <2> QED
    BY <1>1, <2>1, Held, HolderStep
<1> QED
  BY <1>2, <1>3

\* Every step of the queue is a step of the ledger or none it can see.
LEMMA LedgerStep ==
    QueueInv /\ QueueInv' /\ [Next]_vars => [Ledger!Next]_(Ledger!vars)
<1> SUFFICES ASSUME QueueInv, QueueInv', [Next]_vars
             PROVE  Ledger!Next \/ UNCHANGED Ledger!vars
  OBVIOUS
<1>1. CASE UNCHANGED <<status, cur, budget, done>>
  BY <1>1, QuietStep
<1>2. CASE Daemon
  <2>1. CASE LoopTop \/ RefillScan \/ RefillNone \/ PopNone \/ Start
    BY <1>1, <2>1 DEF LoopTop, RefillScan, RefillNone, PopNone, Start, dbVars, leaseVars
  <2>2. CASE \E F \in SUBSET Items : RefillInsert(F)
    <3>1. PICK F \in SUBSET Items : RefillInsert(F)
      BY <2>2
    <3> QED
      BY <3>1, InsertSubmits, QueueAssumption DEF RefillInsert, leaseVars
  <2>3. CASE \E q \in Items : Pop(q)
    BY <2>3, PopLeases
  <2>4. CASE StartLease \/ LoadConfig \/ LoadFails \/ CheckGoes \/ Trigger
               \/ WaitSeesSuccess \/ PostGoes \/ FinishCancelled \/ FinishGoes
               \/ TryBaseline \/ ClearState
    BY <2>4, StatusStep
  <2>5. CASE CheckStops \/ TriggerFails \/ TriggerReplyLost \/ WaitSeesFailure
               \/ WaitGivesUp \/ PostCancelled \/ Persist \/ Requeue \/ Close
    BY <2>5, ProgressStep
  <2>6. CASE Stop
    BY <2>6, DeathStep DEF Stop
  <2>7. CASE ResetStuck
    BY <2>7, QuietStep DEF ResetStuck, leaseVars, Live, QueueInv, TypeOK, RowsOK
  <2> QED
    BY <1>2, <2>1, <2>2, <2>3, <2>4, <2>5, <2>6, <2>7 DEF Daemon, Refill, Cycle
<1>3. CASE Environment
  <2>1. CASE \E q \in Items, n \in Budgets, p \in Prios : Enqueue(q, n, p)
    <3>1. PICK q \in Items, n \in Budgets, p \in Prios : Enqueue(q, n, p)
      BY <2>1
    <3> QED
      BY <3>1, InsertSubmits, QueueAssumption DEF Enqueue, daemonVars, leaseVars
  <2>2. CASE \E q \in Items : PatchWrite(q)
    BY <2>2, PatchWriteWithdraws
  <2>3. CASE Crash
    BY <2>3, DeathStep DEF Crash
  <2>4. CASE \/ \E q \in Items, p \in Prios : PatchPriority(q, p)
             \/ \E q \in Items : PatchRead(q) \/ OrphanEnds(q)
             \/ DagEnds \/ Signal
    BY <1>1, <2>4 DEF PatchPriority, PatchRead, OrphanEnds, DagEnds, Signal,
       dbVars, daemonVars, leaseVars
  <2> QED
    BY <1>3, <2>1, <2>2, <2>3, <2>4 DEF Environment, Clients
<1> QED
  BY <1>1, <1>2, <1>3 DEF Next, vars, dbVars, daemonVars, leaseVars

\* The daemon, the API, Airflow and the crashes together implement the ledger:
\* work is leased to one holder at a time and, once let go of with a final
\* status, over for good; progress never goes back and never exceeds n_cycles.
THEOREM QueueImplementsLedger == Spec => ImplementsLedger
<1>1. Init => Ledger!Init
  BY QueueAssumption DEF Init, Ledger!Init, Phases, Phase
<1> QED
  BY <1>1, LedgerStep, QueueInvariant, PTL DEF Spec, ImplementsLedger, Ledger!Spec

-----------------------------------------------------------------------------
(* The pacer: counting rows.                                               *)

\* The rows of S later than h.
Count(S, r, h) == Cardinality({k \in S : r[k] > h})

Counted(S, r) == IsFiniteSet(S) /\ \A k \in S : r[k] \in Int

(* A count is a number.                                                    *)
LEMMA CountType ==
  ASSUME NEW S, NEW r, NEW h, IsFiniteSet(S)
  PROVE  Count(S, r, h) \in Nat
<1>1. IsFiniteSet({k \in S : r[k] > h})
  BY FS_Subset
<1> QED BY <1>1, FS_CardinalityType DEF Count

(* Later rows of fewer rows are fewer.                                     *)
LEMMA CountLess ==
  ASSUME NEW S, NEW T, NEW r, NEW h \in Int, NEW g \in Int,
         Counted(T, r), S \subseteq T, g <= h
  PROVE  Count(S, r, h) <= Count(T, r, g)
<1>1. {k \in S : r[k] > h} \subseteq {k \in T : r[k] > g}
  BY DEF Counted
<1>2. IsFiniteSet({k \in T : r[k] > g})
  BY FS_Subset DEF Counted
<1> QED BY <1>1, <1>2, FS_Subset DEF Count

(* There are none later than all.                                          *)
LEMMA CountNone ==
  ASSUME NEW S, NEW r, NEW h \in Int, Counted(S, r), \A k \in S : r[k] <= h
  PROVE  Count(S, r, h) = 0
<1>1. ASSUME NEW k \in S PROVE ~(r[k] > h)
  BY DEF Counted
<1>2. {k \in S : r[k] > h} = {}
  BY <1>1
<1> QED BY <1>2, FS_EmptySet DEF Count

(* One more row is at most one more.                                       *)
LEMMA CountOne ==
  ASSUME NEW S, NEW r, NEW h, NEW x, IsFiniteSet(S)
  PROVE  Count(S \cup ({x} \ {0}), r, h) <= Count(S, r, h) + 1
<1> DEFINE L == {k \in S : r[k] > h}
           M == {k \in S \cup ({x} \ {0}) : r[k] > h}
<1>1. IsFiniteSet(L) /\ IsFiniteSet(L \cup {x})
  BY FS_Subset, FS_AddElement
<1>2. M \subseteq L \cup {x}
  OBVIOUS
<1>3. Cardinality(M) <= Cardinality(L \cup {x})
  BY <1>1, <1>2, FS_Subset
<1>4. Cardinality(L \cup {x}) <= Cardinality(L) + 1
  BY <1>1, FS_AddElement, FS_CardinalityType
<1>5. Cardinality(M) \in Nat /\ Cardinality(L) \in Nat /\ Cardinality(L \cup {x}) \in Nat
  BY <1>1, <1>2, FS_Subset, FS_CardinalityType
<1> QED BY <1>3, <1>4, <1>5 DEF Count

-----------------------------------------------------------------------------
(* A window: its start and its counter, length and limit, when it is n.    *)

Window(S, r, n, start, count, length, limit) ==
  /\ Count(S, r, start) <= count
  /\ Count(S, r, start) <= limit
  /\ Count(S, r, n - length) <= limit + count
  /\ Count(S, r, n - length) <= 2 * limit

\* The window of a process that has slept for no limit yet, on clocks apart.
First(S, r, n, count, length, limit) ==
  /\ Count(S, r, n - length) <= count
  /\ Count(S, r, n - length) <= limit

Setting(S, r, n, start, count, length, limit) ==
  /\ Counted(S, r)
  /\ n \in Int /\ start \in Int /\ count \in Nat /\ length \in Nat /\ limit \in Nat

(* A window that is over starts again: what it counted is the last of it.  *)
LEMMA RollWindow ==
  ASSUME NEW S, NEW r, NEW n, NEW start, NEW count, NEW length, NEW limit,
         Setting(S, r, n, start, count, length, limit), \A k \in S : r[k] <= n,
         Window(S, r, n, start, count, length, limit), n - start >= length
  PROVE  Window(S, r, n, n, 0, length, limit)
<1> USE DEF Setting
<1>1. Count(S, r, n) = 0
  BY CountNone
<1>2. Count(S, r, n - length) <= Count(S, r, start)
  BY CountLess
<1>3. Count(S, r, n - length) \in Nat /\ Count(S, r, start) \in Nat
  BY CountType DEF Counted
<1> QED BY <1>1, <1>2, <1>3 DEF Window

(* A recorded cycle fits in, for it only began with the limit not reached. *)
LEMMA RecordWindow ==
  ASSUME NEW S, NEW r, NEW n, NEW start, NEW count, NEW length, NEW limit, NEW x,
         Setting(S, r, n, start, count, length, limit), count < limit,
         Window(S, r, n, start, count, length, limit)
  PROVE  Window(S \cup ({x} \ {0}), r, n, start, count + 1, length, limit)
<1> USE DEF Setting
<1> DEFINE T == S \cup ({x} \ {0})
<1>1. /\ Count(T, r, start) <= Count(S, r, start) + 1
      /\ Count(T, r, n - length) <= Count(S, r, n - length) + 1
  BY CountOne DEF Counted
<1>2. IsFiniteSet(T)
  BY FS_AddElement, FS_Subset DEF Counted
<1>3. /\ Count(S, r, start) \in Nat /\ Count(S, r, n - length) \in Nat
      /\ Count(T, r, start) \in Nat /\ Count(T, r, n - length) \in Nat
  BY <1>2, CountType DEF Counted
<1>4. /\ Count(S, r, start) <= count /\ Count(S, r, start) <= limit
      /\ Count(S, r, n - length) <= limit + count
  BY DEF Window
<1> HIDE DEF T
<1>5. Window(T, r, n, start, count + 1, length, limit)
  BY <1>1, <1>3, <1>4 DEF Window
<1> QED BY <1>5 DEF T

(* Also on clocks apart.                                                   *)
LEMMA RecordFirst ==
  ASSUME NEW S, NEW r, NEW n, NEW start, NEW count, NEW length, NEW limit, NEW x,
         Setting(S, r, n, start, count, length, limit), count < limit,
         First(S, r, n, count, length, limit)
  PROVE  First(S \cup ({x} \ {0}), r, n, count + 1, length, limit)
<1> USE DEF Setting
<1> DEFINE T == S \cup ({x} \ {0})
<1>1. Count(T, r, n - length) <= Count(S, r, n - length) + 1
  BY CountOne DEF Counted
<1>2. IsFiniteSet(T)
  BY FS_AddElement, FS_Subset DEF Counted
<1>3. Count(S, r, n - length) \in Nat /\ Count(T, r, n - length) \in Nat
  BY <1>2, CountType DEF Counted
<1> HIDE DEF T
<1>4. First(T, r, n, count + 1, length, limit)
  BY <1>1, <1>3 DEF First
<1> QED BY <1>4 DEF T

(* Time only takes rows out of the last hours.                             *)
LEMMA TickWindow ==
  ASSUME NEW S, NEW r, NEW n, NEW start, NEW count, NEW length, NEW limit,
         Setting(S, r, n, start, count, length, limit)
  PROVE  /\ Window(S, r, n, start, count, length, limit)
                => Window(S, r, n + 1, start, count, length, limit)
         /\ First(S, r, n, count, length, limit)
                => First(S, r, n + 1, count, length, limit)
<1> USE DEF Setting
<1>1. Count(S, r, (n + 1) - length) <= Count(S, r, n - length)
  BY CountLess
<1>2. Count(S, r, (n + 1) - length) \in Nat /\ Count(S, r, n - length) \in Nat
  BY CountType DEF Counted
<1>3. Window(S, r, n, start, count, length, limit)
          => Window(S, r, n + 1, start, count, length, limit)
  BY <1>1, <1>2 DEF Window
<1>4. First(S, r, n, count, length, limit)
          => First(S, r, n + 1, count, length, limit)
  BY <1>1, <1>2 DEF First
<1> QED BY <1>3, <1>4

(* A new process counts the rows of one hour more than the window, which   *)
(* holds every recorded cycle of the window, and starts after all of them. *)
LEMMA RestoreWindow ==
  ASSUME NEW S, NEW T, NEW r, NEW n, NEW start, NEW count, NEW length, NEW limit,
         NEW later \in Int,
         Setting(S, r, n, start, count, length, limit), Counted(T, r), S \subseteq T,
         \A k \in S : r[k] <= n, later >= n
  PROVE  /\ Window(S, r, n, start, count, length, limit)
                => Window(S, r, n, later, Count(T, r, n - (length + 1)), length, limit)
         /\ First(S, r, n, count, length, limit)
                => First(S, r, n, Count(T, r, n - (length + 1)), length, limit)
<1> USE DEF Setting
<1>1. ASSUME NEW k \in S PROVE r[k] <= later
  BY DEF Counted
<1>2. Count(S, r, later) = 0
  BY <1>1, CountNone
<1>3. Count(S, r, n - length) <= Count(T, r, n - (length + 1))
  BY CountLess
<1>4. Count(S, r, n - length) \in Nat /\ Count(T, r, n - (length + 1)) \in Nat
  BY CountType DEF Counted
<1>5. Window(S, r, n, start, count, length, limit)
          => Window(S, r, n, later, Count(T, r, n - (length + 1)), length, limit)
  BY <1>2, <1>3, <1>4 DEF Window
<1>6. First(S, r, n, count, length, limit)
          => First(S, r, n, Count(T, r, n - (length + 1)), length, limit)
  BY <1>3, <1>4 DEF First
<1> QED BY <1>5, <1>6

-----------------------------------------------------------------------------
(* Types.                                                                  *)

(* A sleep of n hours ends n hours from now, or at once.                   *)
LEMMA LaterFacts ==
  ASSUME now \in Nat, NEW n \in Int
  PROVE  Later(n) \in Nat /\ Later(n) >= now + n
<1>1. CASE n > 0
  BY <1>1 DEF Later
<1>2. CASE ~(n > 0)
  BY <1>2 DEF Later
<1> QED BY <1>1, <1>2

(* The rows of the last hours, counted.                                    *)
LEMMA LastHoursCount ==
  ASSUME NEW S, NEW w
  PROVE  LastHours(S, w) = Count(S, attempts, now - w)
BY DEF LastHours, Count

(* Where acquire leads: a window that is over starts again, a limit that   *)
(* is reached puts the daemon to sleep until its window is over.           *)
LEMMA AcquireSteps ==
  ASSUME PacerAssumption, PacerOK, Acquire
  PROVE  /\ \/ now - weekStart >= Week /\ weekStart' = now /\ weekCount' = 0
            \/ now - weekStart < Week /\ weekStart' = weekStart /\ weekCount' = weekCount
         /\ \/ now - sessionStart >= Session /\ sessionStart' = now /\ sessionCount' = 0
            \/ /\ now - sessionStart < Session
               /\ sessionStart' = sessionStart /\ sessionCount' = sessionCount
         /\ loop' \in {"week", "session", "run"}
         /\ loop' = "week" => wake' \in Nat /\ wake' >= weekStart' + Week
         /\ loop' = "session" => wake' \in Nat /\ wake' >= sessionStart' + Session
         /\ loop' = "run" => wake' = wake
         /\ loop' \in {"session", "run"} /\ WeeklyCycles > 0 => weekCount' < WeeklyCycles
         /\ loop' = "run" /\ SessionCycles > 0 => sessionCount' < SessionCycles
<1> DEFINE w == Rolled(weekStart, weekCount, Week)
           s == Rolled(sessionStart, sessionCount, Session)
<1>1. /\ now \in Nat /\ weekStart \in Int /\ sessionStart \in Int
      /\ weekCount \in Nat /\ sessionCount \in Nat
      /\ Week \in Nat /\ Session \in Nat /\ WeeklyCycles \in Nat /\ SessionCycles \in Nat
  BY DEF PacerOK, Hours, PacerAssumption
<1>2. /\ weekStart' = w[1] /\ weekCount' = w[2]
      /\ sessionStart' = s[1] /\ sessionCount' = s[2]
  BY DEF Acquire
<1>3. \/ now - weekStart >= Week /\ weekStart' = now /\ weekCount' = 0
      \/ now - weekStart < Week /\ weekStart' = weekStart /\ weekCount' = weekCount
  BY <1>1, <1>2 DEF Rolled
<1>4. \/ now - sessionStart >= Session /\ sessionStart' = now /\ sessionCount' = 0
      \/ /\ now - sessionStart < Session
         /\ sessionStart' = sessionStart /\ sessionCount' = sessionCount
  BY <1>1, <1>2 DEF Rolled
<1>5. /\ weekStart' \in Int /\ sessionStart' \in Int
      /\ weekCount' \in Nat /\ sessionCount' \in Nat
  BY <1>1, <1>3, <1>4
<1>6. CASE WeeklyCycles > 0 /\ weekCount' >= WeeklyCycles
  <2>1. loop' = "week" /\ wake' = Later(Week - (now - weekStart'))
    BY <1>2, <1>6 DEF Acquire
  <2>2. wake' \in Nat /\ wake' >= weekStart' + Week
    <3>1. Week - (now - weekStart') \in Int /\ now + (Week - (now - weekStart')) = weekStart' + Week
      BY <1>1, <1>5
    <3> QED BY <1>1, <2>1, <3>1, LaterFacts
  <2> QED BY <1>3, <1>4, <2>1, <2>2
<1>7. CASE ~(WeeklyCycles > 0 /\ weekCount' >= WeeklyCycles)
           /\ SessionCycles > 0 /\ sessionCount' >= SessionCycles
  <2>1. loop' = "session" /\ wake' = Later(Session - (now - sessionStart'))
    BY <1>2, <1>7 DEF Acquire
  <2>2. wake' \in Nat /\ wake' >= sessionStart' + Session
    <3>1. Session - (now - sessionStart') \in Int /\ now + (Session - (now - sessionStart')) = sessionStart' + Session
      BY <1>1, <1>5
    <3> QED BY <1>1, <2>1, <3>1, LaterFacts
  <2>3. WeeklyCycles > 0 => weekCount' < WeeklyCycles
    BY <1>1, <1>5, <1>7
  <2> QED BY <1>3, <1>4, <2>1, <2>2, <2>3
<1>8. CASE /\ ~(WeeklyCycles > 0 /\ weekCount' >= WeeklyCycles)
           /\ ~(SessionCycles > 0 /\ sessionCount' >= SessionCycles)
  <2>1. loop' = "run" /\ wake' = wake
    BY <1>2, <1>8 DEF Acquire
  <2>2. /\ WeeklyCycles > 0 => weekCount' < WeeklyCycles
        /\ SessionCycles > 0 => sessionCount' < SessionCycles
    BY <1>1, <1>5, <1>8
  <2> QED BY <1>3, <1>4, <2>1, <2>2
<1> QED BY <1>6, <1>7, <1>8

(* Where the weekly sleep leads.                                           *)
LEMMA WakeWeekSteps ==
  ASSUME PacerAssumption, PacerOK, WakeWeek
  PROVE  /\ loop' \in {"session", "run"}
         /\ loop' = "session" => wake' \in Nat /\ wake' >= sessionStart + Session
         /\ loop' = "run" => wake' = wake
         /\ loop' = "run" /\ SessionCycles > 0 => sessionCount < SessionCycles
<1>1. /\ now \in Nat /\ sessionStart \in Int /\ sessionCount \in Nat
      /\ Session \in Nat /\ SessionCycles \in Nat
  BY DEF PacerOK, Hours, PacerAssumption
<1>2. CASE SessionCycles > 0 /\ sessionCount >= SessionCycles
  <2>1. loop' = "session" /\ wake' = Later(Session - (now - sessionStart))
    BY <1>2 DEF WakeWeek
  <2>2. wake' \in Nat /\ wake' >= sessionStart + Session
    BY <1>1, <2>1 DEF Later
  <2> QED BY <2>1, <2>2
<1>3. CASE ~(SessionCycles > 0 /\ sessionCount >= SessionCycles)
  BY <1>1, <1>3 DEF WakeWeek
<1> QED BY <1>2, <1>3

(* The rows.                                                               *)
RowTypes ==
  /\ attempts \in Seq(Hours)
  /\ last \in {0} \cup DOMAIN attempts
  /\ recorded \subseteq DOMAIN attempts

(* What the rows are made of.                                              *)
LEMMA RowFacts ==
  ASSUME PacerAssumption, NEW t \in Seq(Hours)
  PROVE  /\ Len(t) \in Nat /\ DOMAIN t = 1..Len(t) /\ IsFiniteSet(DOMAIN t)
         /\ \A k \in DOMAIN t : t[k] \in Hours /\ t[k] \in Nat
         /\ Counted(DOMAIN t, t)
<1>1. Len(t) \in Nat /\ DOMAIN t = 1..Len(t)
  BY LenProperties
<1>2. IsFiniteSet(1..Len(t))
  BY <1>1, FS_Interval
<1>3. ASSUME NEW k \in DOMAIN t PROVE t[k] \in Hours /\ t[k] \in Nat
  <2>1. t[k] \in Hours
    BY <1>1, <1>3, ElementOfSeq
  <2> QED BY <2>1 DEF Hours, PacerAssumption
<1>4. Counted(DOMAIN t, t)
  BY <1>1, <1>2, <1>3 DEF Counted
<1> QED BY <1>1, <1>2, <1>3, <1>4

(* A row is added at the end.                                              *)
LEMMA StoreRows ==
  ASSUME PacerAssumption, PacerOK, NEW mine \in BOOLEAN, Store(mine)
  PROVE  /\ RowTypes'
         /\ \A k \in DOMAIN attempts : k \in DOMAIN attempts' /\ attempts'[k] = attempts[k]
         /\ \A k \in DOMAIN attempts' : k \in DOMAIN attempts \/ attempts'[k] = now
<1>1. attempts \in Seq(Hours) /\ now \in Hours /\ attempts' = Append(attempts, now)
  BY DEF PacerOK, Store
<1>2. Len(attempts) \in Nat /\ DOMAIN attempts = 1..Len(attempts)
  BY <1>1, LenProperties
<1>3. /\ attempts' \in Seq(Hours) /\ Len(attempts') = Len(attempts) + 1
      /\ attempts'[Len(attempts) + 1] = now
      /\ \A k \in 1..Len(attempts) : attempts'[k] = attempts[k]
  BY <1>1, AppendProperties
<1>4. DOMAIN attempts' = 1..(Len(attempts) + 1)
  BY <1>2, <1>3, LenProperties
<1>5. last' \in {0} \cup DOMAIN attempts' /\ recorded' \subseteq DOMAIN attempts'
  BY <1>2, <1>4 DEF Store, PacerOK
<1>6. \A k \in DOMAIN attempts' : k \in DOMAIN attempts \/ k = Len(attempts) + 1
  BY <1>2, <1>4
<1> QED BY <1>2, <1>3, <1>4, <1>5, <1>6 DEF RowTypes

(* PacerOK is an invariant.                                                 *)
LEMMA TypeStep ==
  ASSUME PacerAssumption, PacerOK, [PacerNext]_pacerVars
  PROVE  PacerOK'
<1> USE DEF PacerOK
<1>1. now \in Nat /\ Session \in Nat /\ Week \in Nat /\ Horizon \in Nat /\ skew \in Nat
  BY DEF Hours, PacerAssumption
<1>2. CASE Acquire
  <2>1. weekStart' \in Int /\ weekCount' \in Nat
    BY <1>1, <1>2, AcquireSteps
  <2>2. sessionStart' \in Int /\ sessionCount' \in Nat
    BY <1>1, <1>2, AcquireSteps
  <2>3. loop' \in {"week", "session", "run"} /\ wake' \in Nat
    BY <1>2, AcquireSteps
  <2> QED BY <1>2, <2>1, <2>2, <2>3 DEF Acquire, rows
<1>3. CASE WakeWeek
  <2>1. loop' \in {"session", "run"} /\ wake' \in Nat
    BY <1>3, WakeWeekSteps
  <2> QED BY <1>1, <1>3, <2>1 DEF WakeWeek, rows
<1>4. CASE WakeSession
  BY <1>1, <1>4 DEF WakeSession, rows
<1>5. CASE Tick
  <2>1. now' \in Hours
    BY <1>1, <1>5 DEF Tick, Hours
  <2> QED BY <1>5, <2>1 DEF Tick, counters, rows
<1>6. CASE Restart
  <2>1. /\ LastHours(DOMAIN attempts, Session + 1) \in Nat
        /\ LastHours(DOMAIN attempts, Week + 1) \in Nat
    <3>1. IsFiniteSet(DOMAIN attempts)
      BY RowFacts
    <3> QED BY <3>1, LastHoursCount, CountType
  <2>2. now + skew \in Int
    BY <1>1
  <2> QED BY <1>6, <2>1, <2>2 DEF Restart
<1>7. CASE Succeed
  BY <1>7 DEF Succeed
<1>8. CASE Fail
  BY <1>8 DEF Fail, counters
<1>9. ASSUME NEW mine \in BOOLEAN, Store(mine) PROVE PacerOK'
  BY <1>9, StoreRows DEF Store, RowTypes, counters
<1>10. CASE UNCHANGED pacerVars
  BY <1>10 DEF pacerVars, counters, rows
<1> QED
  BY <1>2, <1>3, <1>4, <1>5, <1>6, <1>7, <1>8, <1>9, <1>10 DEF PacerNext

(* Types, for any windows and limits.                                      *)
LEMMA InitTypes ==
  ASSUME PacerAssumption, PacerInit
  PROVE  PacerOK
<1>1. skew \in Nat /\ 0 \in Hours
  BY DEF PacerInit, Hours, PacerAssumption
<1>2. <<>> \in Seq(Hours)
  BY EmptySeq
<1> QED BY <1>1, <1>2 DEF PacerInit, PacerOK

(* Every value has its type in every behaviour.                            *)
THEOREM PacerTypeOK == PacerSpec => []PacerOK
<1>1. PacerInit => PacerOK
  BY InitTypes, PacerAssumption
<1>2. PacerOK /\ [PacerNext]_pacerVars => PacerOK'
  BY TypeStep, PacerAssumption
<1> QED BY <1>1, <1>2, PTL DEF PacerSpec

-----------------------------------------------------------------------------
(* The limits.                                                             *)

\* No row is of an hour to come.
PastRows == \A k \in DOMAIN attempts : attempts[k] <= now

\* A cycle runs with its limits not reached, a sleep ends its window.
Gated ==
  /\ loop = "run" /\ SessionCycles > 0 => sessionCount < SessionCycles
  /\ loop \in {"session", "run"} /\ WeeklyCycles > 0 => weekCount < WeeklyCycles
  /\ loop = "week" => wake >= weekStart + Week
  /\ loop = "session" => wake >= sessionStart + Session

SessionInv ==
  SessionCycles > 0 =>
    Window(recorded, attempts, now, sessionStart, sessionCount, Session, SessionCycles)

WeekInv ==
  WeeklyCycles > 0 =>
    Window(recorded, attempts, now, weekStart, weekCount, Week, WeeklyCycles)

\* With the clocks apart no window of a process is ever over.
ApartInv ==
  FarApart =>
    /\ sessionStart > Horizon /\ weekStart > Horizon
    /\ SessionCycles > 0 =>
         First(recorded, attempts, now, sessionCount, Session, SessionCycles)
    /\ WeeklyCycles > 0 =>
         First(recorded, attempts, now, weekCount, Week, WeeklyCycles)

PacerInv == PastRows /\ Gated /\ SessionInv /\ WeekInv /\ ApartInv

(* The values of the variables as the lemmas about windows take them.      *)
LEMMA SettingFacts ==
  ASSUME PacerAssumption, PacerOK
  PROVE  /\ Setting(recorded, attempts, now, sessionStart, sessionCount, Session, SessionCycles)
         /\ Setting(recorded, attempts, now, weekStart, weekCount, Week, WeeklyCycles)
         /\ Counted(DOMAIN attempts, attempts) /\ recorded \subseteq DOMAIN attempts
         /\ now \in Nat /\ skew \in Nat
<1>1. Counted(DOMAIN attempts, attempts) /\ recorded \subseteq DOMAIN attempts
  BY RowFacts DEF PacerOK
<1>2. Counted(recorded, attempts)
  BY <1>1, FS_Subset DEF Counted
<1>3. /\ now \in Nat /\ skew \in Nat /\ sessionStart \in Int /\ weekStart \in Int
      /\ sessionCount \in Nat /\ weekCount \in Nat
      /\ Session \in Nat /\ Week \in Nat /\ SessionCycles \in Nat /\ WeeklyCycles \in Nat
  BY DEF PacerOK, Hours, PacerAssumption
<1> QED BY <1>1, <1>2, <1>3 DEF Setting

(* A row more changes no count of the recorded ones.                       *)
LEMMA StoreKeeps ==
  ASSUME PacerAssumption, PacerOK, NEW mine \in BOOLEAN, Store(mine), NEW h
  PROVE  Count(recorded, attempts', h) = Count(recorded, attempts, h)
<1>1. \A k \in recorded : attempts'[k] = attempts[k]
  BY StoreRows DEF PacerOK
<1>2. {k \in recorded : attempts'[k] > h} = {k \in recorded : attempts[k] > h}
  BY <1>1
<1> QED BY <1>2 DEF Count

(* Rows are of hours that were.                                            *)
LEMMA PastRowsStep ==
  ASSUME PacerAssumption, PacerOK, PastRows, [PacerNext]_pacerVars
  PROVE  PastRows'
<1>1. now \in Nat /\ \A k \in DOMAIN attempts : attempts[k] \in Nat
  BY SettingFacts, RowFacts DEF PacerOK
<1>2. CASE Tick
  BY <1>1, <1>2 DEF Tick, rows, PastRows
<1>3. ASSUME NEW mine \in BOOLEAN, Store(mine) PROVE PastRows'
  <2>1. now' = now
    BY <1>3 DEF Store
  <2> QED BY <1>1, <1>3, <2>1, StoreRows DEF PastRows
<1>4. CASE UNCHANGED <<now, attempts>>
  BY <1>4 DEF PastRows
<1> QED
  BY <1>2, <1>3, <1>4
     DEF PacerNext, pacerVars, Acquire, WakeWeek, WakeSession, Restart, Succeed, Fail, counters, rows

(* A cycle only begins with both limits not reached.                       *)
LEMMA GatedStep ==
  ASSUME PacerAssumption, PacerOK, Gated, [PacerNext]_pacerVars
  PROVE  Gated'
<1>1. CASE Acquire
  BY <1>1, AcquireSteps DEF Gated
<1>2. CASE WakeWeek
  <2>1. /\ loop' \in {"session", "run"}
        /\ loop' = "session" => wake' >= sessionStart + Session
        /\ loop' = "run" /\ SessionCycles > 0 => sessionCount < SessionCycles
    BY <1>2, WakeWeekSteps
  <2>2. sessionStart' = sessionStart /\ sessionCount' = sessionCount /\ weekCount' = 0
    BY <1>2 DEF WakeWeek
  <2> QED BY <2>1, <2>2 DEF Gated
<1>3. CASE WakeSession
  BY <1>3 DEF WakeSession, Gated
<1>4. CASE Succeed \/ Fail \/ Restart
  BY <1>4 DEF Succeed, Fail, Restart, Gated
<1>5. CASE UNCHANGED <<loop, counters, wake>>
  BY <1>5 DEF Gated, counters
<1> QED
  BY <1>1, <1>2, <1>3, <1>4, <1>5 DEF PacerNext, pacerVars, Tick, Store

(* What every step does to the window of a session: it is kept, also by a  *)
(* row more; it starts over, when it is over; it counts one more recorded  *)
(* cycle; an hour goes by; or a process restores it.                       *)
LEMMA SessionMoves ==
  ASSUME PacerAssumption, PacerOK, Gated, [PacerNext]_pacerVars
  PROVE  \/ /\ UNCHANGED <<now, attempts, recorded>>
            /\ now - sessionStart >= Session /\ sessionStart' = now /\ sessionCount' = 0
         \/ UNCHANGED <<now, sessionStart, sessionCount, attempts, recorded>>
         \/ \E mine \in BOOLEAN : Store(mine)
         \/ Succeed \/ Tick \/ Restart
<1>1. CASE Acquire
  BY <1>1, AcquireSteps DEF Acquire, rows
<1>2. CASE WakeSession
  <2>1. now >= wake /\ wake >= sessionStart + Session /\ sessionStart' = now /\ sessionCount' = 0
    BY <1>2 DEF WakeSession, Gated
  <2>2. now \in Int /\ wake \in Int /\ sessionStart \in Int /\ Session \in Int
    BY SettingFacts DEF PacerOK, PacerAssumption
  <2>3. now - sessionStart >= Session
    BY <2>1, <2>2
  <2> QED BY <1>2, <2>1, <2>3 DEF WakeSession, rows
<1>3. CASE WakeWeek \/ Fail \/ UNCHANGED pacerVars
  BY <1>3 DEF WakeWeek, Fail, pacerVars, counters, rows
<1> QED
  BY <1>1, <1>2, <1>3 DEF PacerNext

(* And of a week.                                                          *)
LEMMA WeekMoves ==
  ASSUME PacerAssumption, PacerOK, Gated, [PacerNext]_pacerVars
  PROVE  \/ /\ UNCHANGED <<now, attempts, recorded>>
            /\ now - weekStart >= Week /\ weekStart' = now /\ weekCount' = 0
         \/ UNCHANGED <<now, weekStart, weekCount, attempts, recorded>>
         \/ \E mine \in BOOLEAN : Store(mine)
         \/ Succeed \/ Tick \/ Restart
<1>1. CASE Acquire
  BY <1>1, AcquireSteps DEF Acquire, rows
<1>2. CASE WakeWeek
  <2>1. now >= wake /\ wake >= weekStart + Week /\ weekStart' = now /\ weekCount' = 0
    BY <1>2 DEF WakeWeek, Gated
  <2>2. now \in Int /\ wake \in Int /\ weekStart \in Int /\ Week \in Int
    BY SettingFacts DEF PacerOK, PacerAssumption
  <2>3. now - weekStart >= Week
    BY <2>1, <2>2
  <2> QED BY <1>2, <2>1, <2>3 DEF WakeWeek, rows
<1>3. CASE WakeSession \/ Fail \/ UNCHANGED pacerVars
  BY <1>3 DEF WakeSession, Fail, pacerVars, counters, rows
<1> QED
  BY <1>1, <1>2, <1>3 DEF PacerNext

(* No more than twice the limit in the length of a session.                  *)
LEMMA SessionStep ==
  ASSUME PacerAssumption, PacerOK, PastRows, Gated, SessionInv, [PacerNext]_pacerVars
  PROVE  SessionInv'
<1> SUFFICES ASSUME SessionCycles > 0
             PROVE  Window(recorded, attempts, now, sessionStart, sessionCount, Session, SessionCycles)'
  BY DEF SessionInv
<1>1. /\ Setting(recorded, attempts, now, sessionStart, sessionCount, Session, SessionCycles)
      /\ Counted(DOMAIN attempts, attempts) /\ recorded \subseteq DOMAIN attempts
      /\ now \in Nat /\ skew \in Nat
  BY SettingFacts
<1>2. Window(recorded, attempts, now, sessionStart, sessionCount, Session, SessionCycles)
  BY DEF SessionInv
<1>3. \A k \in recorded : attempts[k] <= now
  BY <1>1 DEF PastRows
<1>4. CASE /\ UNCHANGED <<now, attempts, recorded>>
           /\ now - sessionStart >= Session /\ sessionStart' = now /\ sessionCount' = 0
  <2>1. Window(recorded, attempts, now, now, 0, Session, SessionCycles)
    BY <1>1, <1>2, <1>3, <1>4, RollWindow
  <2> QED BY <1>4, <2>1
<1>5. CASE UNCHANGED <<now, sessionStart, sessionCount, attempts, recorded>>
  BY <1>2, <1>5
<1>6. ASSUME NEW mine \in BOOLEAN, Store(mine)
      PROVE  Window(recorded, attempts, now, sessionStart, sessionCount, Session, SessionCycles)'
  <2>1. /\ UNCHANGED <<now, sessionStart, sessionCount, recorded>>
        /\ \A h : Count(recorded, attempts', h) = Count(recorded, attempts, h)
    BY <1>6, StoreKeeps DEF Store, counters
  <2> QED BY <1>2, <2>1 DEF Window
<1>7. CASE Succeed
  <2>1. sessionCount < SessionCycles
    BY <1>7 DEF Succeed, Gated
  <2>2. Window(recorded \cup ({last} \ {0}), attempts, now, sessionStart, sessionCount + 1, Session, SessionCycles)
    BY <1>1, <1>2, <2>1, RecordWindow
  <2> QED BY <1>7, <2>2 DEF Succeed
<1>8. CASE Tick
  <2>1. Window(recorded, attempts, now + 1, sessionStart, sessionCount, Session, SessionCycles)
    BY <1>1, <1>2, TickWindow
  <2> QED BY <1>8, <2>1 DEF Tick, counters, rows
<1>9. CASE Restart
  <2>1. now + skew \in Int /\ now + skew >= now
    BY <1>1
  <2>2. Window(recorded, attempts, now, now + skew, Count(DOMAIN attempts, attempts, now - (Session + 1)),
               Session, SessionCycles)
    BY <1>1, <1>2, <1>3, <2>1, RestoreWindow
  <2>3. sessionCount' = Count(DOMAIN attempts, attempts, now - (Session + 1))
    BY <1>9, LastHoursCount DEF Restart
  <2> QED BY <1>9, <2>2, <2>3 DEF Restart
<1> QED
  BY <1>4, <1>5, <1>6, <1>7, <1>8, <1>9, SessionMoves

(* Nor in a week.                                                            *)
LEMMA WeekStep ==
  ASSUME PacerAssumption, PacerOK, PastRows, Gated, WeekInv, [PacerNext]_pacerVars
  PROVE  WeekInv'
<1> SUFFICES ASSUME WeeklyCycles > 0
             PROVE  Window(recorded, attempts, now, weekStart, weekCount, Week, WeeklyCycles)'
  BY DEF WeekInv
<1>1. /\ Setting(recorded, attempts, now, weekStart, weekCount, Week, WeeklyCycles)
      /\ Counted(DOMAIN attempts, attempts) /\ recorded \subseteq DOMAIN attempts
      /\ now \in Nat /\ skew \in Nat
  BY SettingFacts
<1>2. Window(recorded, attempts, now, weekStart, weekCount, Week, WeeklyCycles)
  BY DEF WeekInv
<1>3. \A k \in recorded : attempts[k] <= now
  BY <1>1 DEF PastRows
<1>4. CASE /\ UNCHANGED <<now, attempts, recorded>>
           /\ now - weekStart >= Week /\ weekStart' = now /\ weekCount' = 0
  <2>1. Window(recorded, attempts, now, now, 0, Week, WeeklyCycles)
    BY <1>1, <1>2, <1>3, <1>4, RollWindow
  <2> QED BY <1>4, <2>1
<1>5. CASE UNCHANGED <<now, weekStart, weekCount, attempts, recorded>>
  BY <1>2, <1>5
<1>6. ASSUME NEW mine \in BOOLEAN, Store(mine)
      PROVE  Window(recorded, attempts, now, weekStart, weekCount, Week, WeeklyCycles)'
  <2>1. /\ UNCHANGED <<now, weekStart, weekCount, recorded>>
        /\ \A h : Count(recorded, attempts', h) = Count(recorded, attempts, h)
    BY <1>6, StoreKeeps DEF Store, counters
  <2> QED BY <1>2, <2>1 DEF Window
<1>7. CASE Succeed
  <2>1. weekCount < WeeklyCycles
    BY <1>7 DEF Succeed, Gated
  <2>2. Window(recorded \cup ({last} \ {0}), attempts, now, weekStart, weekCount + 1, Week, WeeklyCycles)
    BY <1>1, <1>2, <2>1, RecordWindow
  <2> QED BY <1>7, <2>2 DEF Succeed
<1>8. CASE Tick
  <2>1. Window(recorded, attempts, now + 1, weekStart, weekCount, Week, WeeklyCycles)
    BY <1>1, <1>2, TickWindow
  <2> QED BY <1>8, <2>1 DEF Tick, counters, rows
<1>9. CASE Restart
  <2>1. now + skew \in Int /\ now + skew >= now
    BY <1>1
  <2>2. Window(recorded, attempts, now, now + skew, Count(DOMAIN attempts, attempts, now - (Week + 1)),
               Week, WeeklyCycles)
    BY <1>1, <1>2, <1>3, <2>1, RestoreWindow
  <2>3. weekCount' = Count(DOMAIN attempts, attempts, now - (Week + 1))
    BY <1>9, LastHoursCount DEF Restart
  <2> QED BY <1>9, <2>2, <2>3 DEF Restart
<1> QED
  BY <1>4, <1>5, <1>6, <1>7, <1>8, <1>9, WeekMoves

-----------------------------------------------------------------------------
(* With the clocks apart.                                                  *)

(* The window of a session is not over and no sleep it imposes ends: what  *)
(* is left of the moves of a step.                                         *)
LEMMA ApartMoves ==
  ASSUME PacerAssumption, PacerOK, Gated, ApartInv, FarApart, [PacerNext]_pacerVars
  PROVE  \/ UNCHANGED <<now, counters, attempts, recorded>>
         \/ \E mine \in BOOLEAN : Store(mine)
         \/ Succeed \/ Tick \/ Restart
<1>1. /\ now \in Nat /\ now <= Horizon /\ Horizon \in Nat /\ wake \in Nat
      /\ sessionStart \in Int /\ weekStart \in Int
      /\ Session \in Nat \ {0} /\ Week \in Nat \ {0}
  BY DEF PacerOK, Hours, PacerAssumption
<1>2. sessionStart > Horizon /\ weekStart > Horizon
  BY DEF ApartInv
<1>3. ~(now - sessionStart >= Session) /\ ~(now - weekStart >= Week)
  BY <1>1, <1>2
<1>4. CASE Acquire
  <2>1. weekStart' = weekStart /\ weekCount' = weekCount
    BY <1>3, <1>4, AcquireSteps
  <2>2. sessionStart' = sessionStart /\ sessionCount' = sessionCount
    BY <1>3, <1>4, AcquireSteps
  <2> QED BY <1>4, <2>1, <2>2 DEF Acquire, rows, counters
<1>5. ~WakeWeek
  <2>1. SUFFICES ASSUME WakeWeek PROVE FALSE
    OBVIOUS
  <2>2. now >= wake /\ wake >= weekStart + Week
    BY <2>1 DEF WakeWeek, Gated
  <2> QED BY <1>1, <1>2, <2>2
<1>6. ~WakeSession
  <2>1. SUFFICES ASSUME WakeSession PROVE FALSE
    OBVIOUS
  <2>2. now >= wake /\ wake >= sessionStart + Session
    BY <2>1 DEF WakeSession, Gated
  <2> QED BY <1>1, <1>2, <2>2
<1>7. CASE Fail \/ UNCHANGED pacerVars
  BY <1>7 DEF Fail, pacerVars, rows
<1> QED
  BY <1>4, <1>5, <1>6, <1>7 DEF PacerNext

(* The counter of the session keeps up with what was recorded.             *)
LEMMA ApartSession ==
  ASSUME PacerAssumption, PacerOK, PastRows, Gated, ApartInv, FarApart, [PacerNext]_pacerVars, SessionCycles > 0
  PROVE  First(recorded, attempts, now, sessionCount, Session, SessionCycles)'
<1>1. /\ Setting(recorded, attempts, now, sessionStart, sessionCount, Session, SessionCycles)
      /\ Counted(DOMAIN attempts, attempts) /\ recorded \subseteq DOMAIN attempts
      /\ now \in Nat /\ skew \in Nat
  BY SettingFacts
<1>2. First(recorded, attempts, now, sessionCount, Session, SessionCycles)
  BY DEF ApartInv
<1>3. \A k \in recorded : attempts[k] <= now
  BY <1>1 DEF PastRows
<1>4. CASE UNCHANGED <<now, counters, attempts, recorded>>
  BY <1>2, <1>4 DEF counters
<1>5. ASSUME NEW mine \in BOOLEAN, Store(mine)
      PROVE  First(recorded, attempts, now, sessionCount, Session, SessionCycles)'
  <2>1. /\ UNCHANGED <<now, sessionCount, recorded>>
        /\ \A h : Count(recorded, attempts', h) = Count(recorded, attempts, h)
    BY <1>5, StoreKeeps DEF Store, counters
  <2> QED BY <1>2, <2>1 DEF First
<1>6. CASE Succeed
  <2>1. sessionCount < SessionCycles
    BY <1>6 DEF Succeed, Gated
  <2>2. First(recorded \cup ({last} \ {0}), attempts, now, sessionCount + 1, Session, SessionCycles)
    BY <1>1, <1>2, <2>1, RecordFirst
  <2> QED BY <1>6, <2>2 DEF Succeed
<1>7. CASE Tick
  <2>1. First(recorded, attempts, now + 1, sessionCount, Session, SessionCycles)
    BY <1>1, <1>2, TickWindow
  <2> QED BY <1>7, <2>1 DEF Tick, counters, rows
<1>8. CASE Restart
  <2>1. now + skew \in Int /\ now + skew >= now
    BY <1>1
  <2>2. First(recorded, attempts, now, Count(DOMAIN attempts, attempts, now - (Session + 1)), Session, SessionCycles)
    BY <1>1, <1>2, <1>3, <2>1, RestoreWindow
  <2>3. sessionCount' = Count(DOMAIN attempts, attempts, now - (Session + 1))
    BY <1>8, LastHoursCount DEF Restart
  <2> QED BY <1>8, <2>2, <2>3 DEF Restart
<1> QED
  BY <1>4, <1>5, <1>6, <1>7, <1>8, ApartMoves

(* The counter of the week keeps up with what was recorded.             *)
LEMMA ApartWeek ==
  ASSUME PacerAssumption, PacerOK, PastRows, Gated, ApartInv, FarApart, [PacerNext]_pacerVars, WeeklyCycles > 0
  PROVE  First(recorded, attempts, now, weekCount, Week, WeeklyCycles)'
<1>1. /\ Setting(recorded, attempts, now, weekStart, weekCount, Week, WeeklyCycles)
      /\ Counted(DOMAIN attempts, attempts) /\ recorded \subseteq DOMAIN attempts
      /\ now \in Nat /\ skew \in Nat
  BY SettingFacts
<1>2. First(recorded, attempts, now, weekCount, Week, WeeklyCycles)
  BY DEF ApartInv
<1>3. \A k \in recorded : attempts[k] <= now
  BY <1>1 DEF PastRows
<1>4. CASE UNCHANGED <<now, counters, attempts, recorded>>
  BY <1>2, <1>4 DEF counters
<1>5. ASSUME NEW mine \in BOOLEAN, Store(mine)
      PROVE  First(recorded, attempts, now, weekCount, Week, WeeklyCycles)'
  <2>1. /\ UNCHANGED <<now, weekCount, recorded>>
        /\ \A h : Count(recorded, attempts', h) = Count(recorded, attempts, h)
    BY <1>5, StoreKeeps DEF Store, counters
  <2> QED BY <1>2, <2>1 DEF First
<1>6. CASE Succeed
  <2>1. weekCount < WeeklyCycles
    BY <1>6 DEF Succeed, Gated
  <2>2. First(recorded \cup ({last} \ {0}), attempts, now, weekCount + 1, Week, WeeklyCycles)
    BY <1>1, <1>2, <2>1, RecordFirst
  <2> QED BY <1>6, <2>2 DEF Succeed
<1>7. CASE Tick
  <2>1. First(recorded, attempts, now + 1, weekCount, Week, WeeklyCycles)
    BY <1>1, <1>2, TickWindow
  <2> QED BY <1>7, <2>1 DEF Tick, counters, rows
<1>8. CASE Restart
  <2>1. now + skew \in Int /\ now + skew >= now
    BY <1>1
  <2>2. First(recorded, attempts, now, Count(DOMAIN attempts, attempts, now - (Week + 1)), Week, WeeklyCycles)
    BY <1>1, <1>2, <1>3, <2>1, RestoreWindow
  <2>3. weekCount' = Count(DOMAIN attempts, attempts, now - (Week + 1))
    BY <1>8, LastHoursCount DEF Restart
  <2> QED BY <1>8, <2>2, <2>3 DEF Restart
<1> QED
  BY <1>4, <1>5, <1>6, <1>7, <1>8, ApartMoves

(* On clocks apart the limits hold, whatever the process goes through.     *)
LEMMA ApartStep ==
  ASSUME PacerAssumption, PacerOK, PastRows, Gated, ApartInv, [PacerNext]_pacerVars
  PROVE  ApartInv'
<1>1. skew' = skew
  BY DEF PacerNext, pacerVars, Acquire, WakeWeek, WakeSession, Tick, Restart, Succeed, Fail, Store
<1>2. SUFFICES ASSUME FarApart
               PROVE  /\ sessionStart' > Horizon /\ weekStart' > Horizon
                      /\ SessionCycles > 0 =>
                           First(recorded, attempts, now, sessionCount, Session, SessionCycles)'
                      /\ WeeklyCycles > 0 =>
                           First(recorded, attempts, now, weekCount, Week, WeeklyCycles)'
  BY <1>1 DEF ApartInv, FarApart
<1>3. sessionStart' > Horizon /\ weekStart' > Horizon
  <2>1. sessionStart > Horizon /\ weekStart > Horizon
    BY <1>2 DEF ApartInv
  <2>2. CASE Restart
    <3>1. sessionStart' = now + skew /\ weekStart' = now + skew
      BY <2>2 DEF Restart
    <3>2. now \in Nat /\ skew \in Nat /\ Horizon \in Nat /\ skew > Horizon
      BY <1>2, SettingFacts DEF FarApart, PacerAssumption
    <3> QED BY <3>1, <3>2
  <2>3. CASE UNCHANGED counters \/ Succeed
    BY <2>1, <2>3 DEF counters, Succeed
  <2> QED BY <1>2, <2>2, <2>3, ApartMoves DEF Tick, Store
<1> QED BY <1>2, <1>3, ApartSession, ApartWeek

-----------------------------------------------------------------------------
(* The theorems.                                                           *)

(* PacerInv is inductive.                                                  *)
LEMMA InitPacer ==
  ASSUME PacerAssumption, PacerInit
  PROVE  PacerInv
<1>1. /\ now = 0 /\ skew \in Nat /\ attempts = <<>> /\ recorded = {}
      /\ sessionStart = skew /\ weekStart = skew /\ sessionCount = 0 /\ weekCount = 0
      /\ loop = "top"
  BY DEF PacerInit, PacerAssumption
<1>2. \A h : Count({}, attempts, h) = 0
  BY FS_EmptySet DEF Count
<1>3. /\ Session \in Nat /\ Week \in Nat /\ SessionCycles \in Nat /\ WeeklyCycles \in Nat
      /\ Horizon \in Nat
  BY DEF PacerAssumption
<1>4. PastRows /\ Gated
  <2>1. DOMAIN attempts = {}
    BY <1>1
  <2> QED BY <1>1, <2>1 DEF PastRows, Gated
<1>5. SessionInv /\ WeekInv
  BY <1>1, <1>2, <1>3 DEF SessionInv, WeekInv, Window
<1>6. ApartInv
  BY <1>1, <1>2, <1>3 DEF ApartInv, First, FarApart
<1> QED BY <1>4, <1>5, <1>6 DEF PacerInv

(* The inductive invariant, in every behaviour.                            *)
LEMMA PacerInvariant ==
  ASSUME PacerAssumption
  PROVE  PacerSpec => [](PacerOK /\ PacerInv)
<1>1. PacerInit => PacerOK /\ PacerInv
  BY InitTypes, InitPacer
<1>2. PacerOK /\ PacerInv /\ [PacerNext]_pacerVars => (PacerOK /\ PacerInv)'
  BY TypeStep, PastRowsStep, GatedStep, SessionStep, WeekStep, ApartStep DEF PacerInv
<1> QED BY <1>1, <1>2, PTL DEF PacerSpec

(* In the length of a session, or in a week, no more than twice the cycles *)
(* of the limit run, whatever the clocks, restarts and runs left behind.   *)
THEOREM TwiceTheLimits == PacerSpec => []WithinTwiceTheLimits
<1>1. PacerOK /\ PacerInv => WithinTwiceTheLimits
  BY LastHoursCount DEF PacerInv, SessionInv, WeekInv, Window, WithinTwiceTheLimits
<1> QED BY <1>1, PacerInvariant, PacerAssumption, PTL

(* With the clocks apart, no more than the limit.                          *)
THEOREM TheLimits == PacerSpec => []WithinLimits
<1>1. PacerOK /\ PacerInv => WithinLimits
  BY LastHoursCount DEF PacerInv, ApartInv, First, WithinLimits
<1> QED BY <1>1, PacerInvariant, PacerAssumption, PTL
=============================================================================
