----------------------------- MODULE SuperCycle ------------------------------
(***************************************************************************)
(* The cycles of one competition as the daemon runs them, one after the    *)
(* other: retrieve assigns the actions, N attempts run side by side, the   *)
(* gate decides when enough of them have ended, promote picks the winner,  *)
(* marks and confirms it, and the daemon, which waits for promote only     *)
(* (RONDO_WAIT_ON_PROMOTE_TI), may trigger a tune run.  Attempts that are  *)
(* still running then are the stragglers of the cycles that follow.        *)
(*                                                                         *)
(* What an attempt does is Attempt's, how a winner is confirmed is         *)
(* PromotionGate's and BaselineRegistry's, and CycleQueue decides which    *)
(* cycle runs when.  Times are left out: a wait may end at any moment.     *)
(***************************************************************************)
EXTENDS Integers, Sequences, FiniteSets, FiniteSetsExt

CONSTANTS
    N,       \* attempts of a cycle (n_attempts, --expected)
    MinDone, \* --min-done of the gate
    Every,   \* _DEAD_ACTION_REEXPLORE_EVERY
    Backoff, \* _TUNE_BACKOFF_RUNS
    MaxLate, \* bound: stragglers at a time
    None     \* no value

ASSUME SuperCycleAssumption ==
    /\ N \in Nat \ {0} /\ MinDone \in 1..N /\ Every \in Nat /\ N < Every
    /\ Backoff \in Nat \ {0} /\ MaxLate \in Nat

\* A row of raw.attempts.  An attempt above the leaderboard's best keeps its
\* score and its gain next to the error (_judge_attempt), and so does one that
\* was cut short at fold 1; any other error has neither.
Row(label, cv, gain) == [label |-> label, cv |-> cv, gain |-> gain, futile |-> FALSE]
Outcomes ==
    {Row("jump", TRUE, 1), Row("neutral", TRUE, 0), Row("neutral", TRUE, 2),
     Row("error", TRUE, 2), Row("error", FALSE, None),
     [Row("regression", TRUE, 0) EXCEPT !.futile = TRUE]}

ASSUME NoneAssumption ==
    None \notin Nat /\ None \notin Outcomes /\ None \notin {"quorum", "ends"}

\* What the latest row with was_promoted not false is: a confirmed pipeline,
\* or a winner that nothing confirmed and nothing unmarked.
Marks == {None, "confirmed", "kept"}

VARIABLES
    pc,      \* of the cycle
    gate,    \* None while the gate waits, then why it fired
    rows,    \* rows of the cycle's super_cycle_id, by run_ts, until promote read them
    open,    \* attempts of the cycle that are still running
    late,    \* stragglers of earlier cycles
    total,   \* rows of the competition, modulo Every
    revived, \* whether the last assignment offered dead actions, too
    winner,  \* the row promote picked
    mark,    \* the mark on the latest marked row, and the one before it
    prior,
    known,   \* whether raw.pipelines has a valid row
    fails,   \* tune runs since the last improved one in raw.tuned_params,
             \* of the latest Backoff
    flight,  \* tune runs in flight that a cycle, or that the sweep triggered
    swept,
    \* history: since the last assignment the row count passed a multiple of
    \* Every, a straggler stored a row; tune runs of cycles that ended without
    \* an improvement since the last one
    passed, strayed, spent

cycle == <<pc, gate, rows, open, winner>>
tunes == <<fails, flight, swept, spent>>
marks == <<mark, prior, known>>
count == <<total, revived, passed, strayed>>
vars  == <<cycle, late, tunes, marks, count>>

CycleOK ==
    /\ pc \in {"idle", "triggered", "run", "promote", "confirm", "wrap"}
    /\ gate \in {None, "quorum", "ends"}
    /\ rows \in Seq(Outcomes) /\ winner \in Outcomes \cup {None}
    /\ mark \in Marks /\ prior \in Marks

CountsOK ==
    /\ open \in 0..N /\ late \in 0..MaxLate /\ total \in 0..(Every - 1)
    /\ fails \in 0..Backoff /\ flight \in Nat /\ swept \in Nat /\ spent \in Nat

FlagsOK ==
    known \in BOOLEAN /\ revived \in BOOLEAN /\ passed \in BOOLEAN /\ strayed \in BOOLEAN

TypeOK == CycleOK /\ CountsOK /\ FlagsOK

Init ==
    /\ pc = "idle" /\ gate = None /\ rows = <<>> /\ open = 0 /\ late = 0 /\ winner = None
    /\ mark = None /\ prior = None /\ known \in BOOLEAN
    /\ fails = 0 /\ flight = 0 /\ swept = 0 /\ spent = 0
    /\ total \in 0..(Every - 1) /\ revived = FALSE /\ passed = FALSE /\ strayed = FALSE

-----------------------------------------------------------------------------
(* Retrieve and the attempts.                                              *)

\* trigger_dag_run: the next cycle; what still runs is late from now on.
Trigger ==
    /\ pc = "idle" /\ late + open <= MaxLate
    /\ pc' = "triggered" /\ late' = late + open /\ open' = 0
    /\ UNCHANGED <<gate, rows, winner, tunes, marks, count>>

\* Nothing reads the rows of the cycle as such any more.
Over == pc' = "idle" /\ gate' = None /\ rows' = <<>> /\ winner' = None

\* Mutant of WindowOpen: open at the multiples only.
WindowOpenOnce(n) == n % Every = 0

\* _reexplore_window_open
WindowOpen(n) == n % Every < N

\* run_retrieve_task: dead actions are candidates while the window is open,
\* and the attempts start.
Retrieve ==
    /\ pc = "triggered" /\ pc' = "run" /\ open' = N
    /\ revived' = WindowOpen(total) /\ passed' = FALSE /\ strayed' = FALSE
    /\ UNCHANGED <<gate, rows, winner, late, tunes, marks, total>>

Counts ==
    /\ total' = IF total + 1 = Every THEN 0 ELSE total + 1
    /\ passed' = (passed \/ total' = 0)

\* insert_attempt of an attempt of the cycle; ...
Stores ==
    /\ open > 0 /\ open' = open - 1
    /\ \/ pc \in {"run", "promote"} /\ \E r \in Outcomes : rows' = Append(rows, r)
       \/ pc \notin {"run", "promote"} /\ UNCHANGED rows
    /\ Counts
    /\ UNCHANGED <<pc, gate, winner, late, tunes, marks, revived, strayed>>

\* ... of a straggler; ...
StoresLate ==
    /\ late > 0 /\ late' = late - 1 /\ strayed' = TRUE /\ Counts
    /\ UNCHANGED <<cycle, tunes, marks, revived>>

\* ... and a task that ends without a row: refused by a guard, or killed.
Dies ==
    /\ \/ open > 0 /\ open' = open - 1 /\ UNCHANGED late
       \/ late > 0 /\ late' = late - 1 /\ UNCHANGED open
    /\ UNCHANGED <<pc, gate, rows, winner, tunes, marks, count>>

-----------------------------------------------------------------------------
(* The gate.                                                               *)

\* Mutant of Succeeds: whatever is done.
SucceedsWhenDone(r) == r.cv \/ r.label = "error"

\* n_success: a row with a score that no futility exit cut short, even one
\* that is an error for its score.
Succeeds(r) == r.cv /\ ~r.futile

Successes == {i \in DOMAIN rows : Succeeds(rows[i])}

\* _should_fire: enough successes, all rows, or one of the limits on waiting;
\* without a context the gate lets the cycle pass before there are rows.
GateFires ==
    /\ pc \in {"triggered", "run"} /\ gate = None
    /\ gate' = IF Cardinality(Successes) >= MinDone THEN "quorum" ELSE "ends"
    /\ UNCHANGED <<pc, rows, open, winner, late, tunes, marks, count>>

-----------------------------------------------------------------------------
(* Promote.                                                                *)

Gained == {i \in DOMAIN rows : rows[i].gain # None}
Scored == {i \in DOMAIN rows : rows[i].cv}

\* Mutant of Picked: the first row with a gain.
PickedFirst == IF Gained # {} THEN rows[Min(Gained)] ELSE None

\* _pick_winner: the first row of the greatest gain, or the first with a score.
Picked ==
    LET best == {i \in Gained : \A j \in Gained : rows[j].gain <= rows[i].gain}
    IN  IF Gained # {} THEN rows[Min(best)]
        ELSE IF Scored # {} THEN rows[Min(Scored)] ELSE None

\* promote starts when the gate and retrieve are through.
Promote ==
    /\ pc = "run" /\ gate # None /\ pc' = "promote"
    /\ UNCHANGED <<gate, rows, open, winner, late, tunes, marks, count>>

\* The winner is marked before it is confirmed, and only a significant gain
\* without an error is confirmed at all; the losers are unmarked.
Pick ==
    /\ pc = "promote" /\ winner' = Picked
    /\ IF winner' = None
       THEN pc' = "wrap" /\ UNCHANGED <<mark, prior>>
       ELSE /\ mark' = "kept" /\ prior' = mark
            /\ pc' = IF winner'.label = "jump" THEN "confirm" ELSE "wrap"
    /\ UNCHANGED <<gate, rows, open, known, late, tunes, count>>

\* confirm and promotion: done; rejected and unmarked; or the train data could
\* not be loaded, and the mark stays.
Confirm ==
    /\ pc = "confirm" /\ pc' = "wrap"
    /\ \/ mark' = "confirmed" /\ known' = TRUE
       \/ mark' = prior /\ UNCHANGED known
       \/ UNCHANGED <<mark, known>>
    /\ UNCHANGED <<gate, rows, open, winner, prior, late, tunes, count>>

\* The task raises or is killed; the daemon counts a failed cycle.
Fails ==
    /\ pc # "idle" /\ Over
    /\ UNCHANGED <<open, late, tunes, marks, count>>

-----------------------------------------------------------------------------
(* Tune runs.                                                              *)

\* Mutant of MayTune: whether one is under way is left to the scheduler.
MayTuneAgain == fails < Backoff

\* _recent_tunes_all_failed and tune_run_in_flight.
MayTune == fails < Backoff /\ flight + swept = 0

\* _run_airflow_cycle after a success: a tune run for the latest marked row
\* if it is a pipeline; a failure to trigger is only logged.
Ends ==
    /\ pc = "wrap" /\ Over
    /\ \/ mark = "confirmed" /\ MayTune /\ flight' = flight + 1
       \/ UNCHANGED flight
    /\ UNCHANGED <<open, late, fails, swept, spent, marks, count>>

\* _sweep_idle_tuning, between two cycles: whatever the last runs brought.
Sweep ==
    /\ pc = "idle" /\ known /\ flight + swept = 0 /\ swept' = swept + 1
    /\ UNCHANGED <<cycle, late, fails, flight, spent, marks, count>>

OneMore(n) == IF n < Backoff THEN n + 1 ELSE n

\* tune_pipeline: a row with an improvement, a row without one, or an exit
\* without a row.
TuneEnds ==
    /\ \/ flight > 0 /\ flight' = flight - 1 /\ UNCHANGED swept
       \/ swept > 0 /\ swept' = swept - 1 /\ UNCHANGED flight
    /\ \/ fails' = 0 /\ spent' = 0
       \/ fails' = OneMore(fails) /\ spent' = spent + (flight - flight')
       \/ UNCHANGED <<fails, spent>>
    /\ UNCHANGED <<cycle, late, marks, count>>

-----------------------------------------------------------------------------
Next ==
    \/ Trigger \/ Retrieve \/ Stores \/ StoresLate \/ Dies \/ GateFires
    \/ Promote \/ Pick \/ Confirm \/ Fails \/ Ends \/ Sweep \/ TuneEnds

Spec == Init /\ [][Next]_vars

-----------------------------------------------------------------------------
(* Properties.                                                             *)

\* A cycle that the gate let pass for its successes has a winner
\* (bin/run_attempt_gate_task.py:48, #214): what counts as one there is what
\* promote can pick.
QuorumHasWinner ==
    pc \in {"confirm", "wrap"} /\ gate = "quorum" => winner # None

\* A jump that promote saw is confirmed, or a row of greater gain took its
\* place: noise that is not significant, or a score above the leaderboard's
\* best.  (No second row is tried when the first turns out to be neither.)
JumpTriedOrOutranked ==
    [][pc = "promote" /\ pc' = "wrap" =>
          \A i \in DOMAIN rows : rows[i].label = "jump" =>
              winner' # None /\ winner'.gain >= rows[i].gain]_vars

\* "매 100건마다 n_attempts틱만큼 죽은 액션도 정상 후보로" (action_optimizer.py:94):
\* a multiple of Every that the rows passed brings dead actions back, unless
\* rows of stragglers carried the count past the window.
DeadGetTheirTurn ==
    [][pc = "triggered" /\ pc' = "run" /\ passed /\ ~strayed => revived']_vars

\* Cycles retrigger tune runs for a pipeline that is not new, as a failed
\* cycle leaves the latest mark to an earlier one; since the last improvement
\* at most Backoff of these have ended without one.
StaleTunesBounded == spent <= Backoff
=============================================================================
