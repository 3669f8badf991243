# A verification project for reflexion-rondo

reflexion-rondo runs Kaggle competitions unattended: a daemon drains a queue of
competitions, starts an Airflow DAG run ("super-cycle") for every cycle, the
run's tasks let language models write candidate pipelines, evaluate them and
promote the best to the competition's baseline, and confirmed pipelines are
submitted to Kaggle within a daily budget.  Everything that is remembered is in
Postgres (`raw.*`, store/schema.sql) and MinIO (code, the blob
`best_pipeline.py`, cached submissions).

This directory holds TLA+ modules for the parts whose correctness depends on
orders of events or on algorithms with many cases, the TLC configurations that
check them on small instances, and TLAPS proofs about all of them.  Sources are
cited as path:line of the repository (without the leading src/).

## 1. Inventory

| Component | Code | State it keeps | Operations | Hard because |
|---|---|---|---|---|
| cycle daemon and queue | bin/run_daemon.py, bin/api.py, bin/airflow_client.py | raw.cycle_queue rows, locals of `_process`, `DaemonState`, `_running` | pop, lease, cycle, requeue, close, refill, reset at startup; enqueue, patch over HTTP | API threads interleave with every statement of the daemon; it may die anywhere; Airflow's answers get lost |
| cloud pacer | `OllamaPacer` in bin/run_daemon.py | window starts and counters, in memory | acquire, record, restore_from_db | two clocks, restarts, windows |
| submissions | bin/api.py, bin/submit.py, sweep in bin/run_daemon.py | raw.kaggle_submissions, raw.competitions.auto_submit_paused_reason | submit, auto-submit, submission thread, refresh, tripwire | a thread per submission, a subprocess with a timeout, Kaggle as an unreliable store |
| super-cycle tasks | bin/run_retrieve_task.py, run_attempt_task.py, run_attempt_gate_task.py, run_promote_task.py, cycle/run.py | raw.super_cycle_context, raw.attempts | retrieve, attempts in parallel, gate, promote | tasks of a run and of several runs overlap; stragglers |
| baseline registry | raw.pipelines and the blob; cycle/run.py, run_promote_task.py, establish_baseline.py, rebuild_best_pipeline.py, quarantine_leaks.py, freeze_base.py, backfill_materialized_code.py | rows (valid, invalid), materialized source and hash, the blob | promote, establish, quarantine, remeasure, rebuild, guard | two stores without a common transaction, several writers |
| promotion gate | cycle/promotion.py | raw.confirm_memo, raw.baseline_eval_cache | cross-seed and holdout confirmation | cached verdicts, failed measurements |
| fingerprint guards | cycle/run.py, store/fingerprint.py, establish_baseline.py | raw.competitions fingerprints, pause reason | guard, remeasure | scores measured under other data or knobs |
| tune lane | bin/tune_pipeline.py, evaluator/tuner.py | raw.tuned_params | trigger after promotion, idle sweep, tune | back-off, check-then-trigger |
| attempt evaluation | cycle/run.py, agents/coder.py, evaluator/contract.py | one attempt | generate, validate, evaluate, retry | retries that mix an old result with a new source |
| materialization | cycle/materialize.py | none (a function) | merge a patch into a base, replay | a pure algorithm with collisions |
| evaluator harness | evaluator/*.py | none | cross validation, significance, early exits | numerical |
| watchdog | runtime/isolate.py, runner.py | a subprocess and its files | start, poll, kill, read the result | kill races result |
| bandit, stagnation | cycle/action_optimizer.py, stagnation.py | raw.action_stats | decayed counts, stagnation signal | reads was_promoted |
| lessons | memory/*.py, archive_lessons.py, agents/reflector.py | raw.reflections | retrieve, transfer, archive | ranking |
| agents | agents/*.py | none | calls of language models, retries | arbitrary answers |
| configuration, data, tools | config, store/train_data.py, reset.py, seed_*, start_competition.py | files | load, seed, delete | sequential I/O |
| dashboard, health | dashboard.py, healthcheck.py | none | read | read only |

How they interact: the daemon and the API share a process, the table
raw.cycle_queue and `DaemonState`; the daemon talks to Airflow over HTTP and to
the tasks only through the database; the tasks of a run meet in raw.attempts
and raw.super_cycle_context; all writers of a baseline meet in raw.pipelines
and the blob; submissions read raw.pipelines and may quarantine rows of it.

The hazards are listed, each at its line, in PROJECT.json.

## 2. Modules

In the order in which they were written, which is the order of importance: the
queue decides what runs at all, the registry what every later attempt is
compared with, and the rest what an attempt is measured as.

| Module | Part | Runs | Proofs |
|---|---|---|---|
| WorkLedger, CycleQueue, CycleQueueLedger, CycleQueueHistory | the daemon and its queue, its abstract specification and the refinement, history | queue_safety, queue_ledger | DaemonProofs |
| Pacer | OllamaPacer | pacer | DaemonProofs |
| BaselineRegistry | rows, blob, promote task, tools | registry_sequential | BaselineRegistryProofs |
| Submissions | threads, sweep, budget, tripwire | submissions_* | SubmissionsProofs |
| PromotionGate | confirm_and_measure with its memories | gate_memory | PromotionGateProofs |
| Evaluation | eval_isolated: a child, its watcher, shortcuts and projections | evaluation | EvaluationProofs |
| Composition | merging, freezing and replaying sources | composition | CompositionProofs |
| Attempt | guards, retries and the judgement of an attempt, remeasurement | attempt | AttemptProofs |
| SuperCycle | retrieve, gate, promote, tune triggers of consecutive cycles | supercycle | SuperCycleProofs |

```
WorkLedger <--refines-- CycleQueueLedger --EXTENDS--> CycleQueue <--EXTENDS-- CycleQueueHistory
                              ^                                                     ^
                              +-- MCCycleQueue          MCCycleQueueHistory --------+
                              +-- DaemonProofs -------------------------------------+

a cycle of CycleQueue        is one round of SuperCycle (Trigger ... Ends)
an attempt of SuperCycle     is one round of Attempt (Retrieve ... Store)
an evaluation of Attempt     is one behaviour of Evaluation; its CPU promise
                             (BudgetHolds) is what Attempt!Evaluate assumes
a confirmation of SuperCycle is a call of PromotionGate and a promotion of
                             BaselineRegistry, whose merges are Composition's
```

The lower level is represented in the upper one by its outcomes, all of those
it may have; the modules do not INSTANCE each other, except for the queue's.
Modules are parameterised by CONSTANTS with named assumptions; a module MCx
gives them values for TLC where model values are not enough, and proofs live in
modules of their own.

What remains worth doing, in this order: overlapping promote tasks in
PromotionGate; two auto-submit requests at once; the feedback of a confirmation
to the bandit; the ranking of lessons.

## 3. The modules and the code

### CycleQueue (bin/run_daemon.py, bin/api.py, bin/airflow_client.py)

Every statement the daemon sends to Postgres is a transaction of its own, so
every read and every write is an action and the API handlers run between any
two of them.  `pc` is where the main thread is, `cur`, `spent`, `leaseEnd`,
`streak`, `won` and `lost` are the locals of `_process`, `shown` is the queue id
of `DaemonState`.

| In the model | In the code |
|---|---|
| `status`, `budget`, `prio`, `done`, `started` | the columns status, n_cycles, priority, cycles_done, `started_at is not null` |
| `older` | the order of `coalesce(last_leased_at, created_at)`; `Insert` puts rows at its end, `MoveBack` is the update of last_leased_at |
| `patching` | PATCH requests between their SELECT and their UPDATE |
| `awaited`, `orphans`, `triggered` | the run waited for, live runs nobody waits for, runs ever made |
| `missing` | competitions whose config module the current image lacks |
| `StartLease` ... `ClearState` | `_start_lease`, the loop of `_process`, `_finish_lease`, in the order of the statements |
| `TriggerFails`, `TriggerReplyLost`, `WaitGivesUp` | the `except` around Airflow: no run was made, a run was made, or one goes on |
| `Crash`, `Stop`, `Start`, `ResetStuck` | the process dies, ends on a signal, is restarted by the container, and resets the running rows |

A signal only sets `stopping`; the check at the top of the loop treats it like
a cancellation, so the item in work ends as `cancelled`.

**WorkLedger** is the abstract specification: work is submitted, leased to one
holder at a time, accounted for up to what it was submitted for and, once its
holder lets go of it with a final status, over.  **CycleQueueLedger** maps the
queue to it: an item is leased from its pop until `_process` forgets it,
whatever its row says in between; n_cycles is what is owed, cycles_done what is
paid.  **CycleQueueHistory** adds variables that record and never guard: items
cancelled during a cycle (`doomed`), who was passed over at a pop (`passed`,
`overtaken`), items with a successful cycle (`wins`).

### Pacer (class OllamaPacer)

`now` is `time.monotonic()`, `now + skew` is `time.time()`.  The windows are
started on one clock and compared with the other, as in the code; `Rolled` is
the roll of a window that has run out, `Restart` is a new process with
`restore_from_db`.  `attempts` is raw.attempts by the hour of run_ts, which the
restore counts; a row may be stored by a run the daemon no longer waits for.
`recorded` is history, what the properties count: the last row of each cycle
`record()` counted.

### BaselineRegistry (raw.pipelines and best_pipeline.py)

| In the model | In the code |
|---|---|
| `count`, `owner`, `label`, `judged`, `marked` | rows of raw.attempts in the order of run_ts, their super_cycle_id, label and was_promoted; `judged` remembers the baseline of the label |
| `row`, `mat` | raw.pipelines: valid or with an invalid_reason, and the merged source with the hash the guard trusts |
| `blob`, `paused` | the object in MinIO, the reason the guard leaves in raw.competitions |
| `Retrieve`, `Attempt*` | run_retrieve_task.py; run_attempt_core: guard, load, baseline, store |
| `PickWinner` ... `Commit` | run_promote_task.py, with insert and upload in one transaction |
| `Establish*` | establish_bootstrap_baseline and bin/establish_baseline.py |
| `Quarantine`, `Rebuild*`, `Unpause` | quarantine_leaks.py, a row `--remeasure` rejects, rebuild_best_pipeline.py, an UPDATE by the operator |
| `blind` | history: a read of the blob failed and was taken for its absence (store/s3_code.py:96-103) |

A merged source is the sequence of the attempts merged into it, so that equal
sequences stand for equal hashes.  Whether a gain is significant or confirmed
is open, except that the same test on the same rows answers the same.
`_baseline_source_guard` runs for attempts with a holdout, which every attempt
task of a super-cycle has.

### Submissions (bin/api.py, the sweep of bin/run_daemon.py, bin/submit.py)

| In the model | In the code |
|---|---|
| `rows` | raw.kaggle_submissions in the order of submitted_at: attempt, who asked, status, score, UTC day, and `age`: fresh (an upload may still run), late (longer ago than `_SUBMIT_TIMEOUT_SEC`), stale (longer than `_NOT_FOUND_STALE_HOURS`) |
| `thread` | the thread of a row in `_kaggle_submit`; one at a time is in `_submit_fit_gate` |
| `uploads` | what Kaggle took, with its message, its grade and whether it is still listed |
| `cached` | CSVs in the cache of submissions |
| `auto` | the handler of POST /api/submissions/auto: budget, the best unsubmitted ones in `todo`, or else the best, the last submitted, insert |
| `refresh` | the calls of refresh_submission_row: the sweep, and the endpoint |
| `confirmed`, `isolated`, `paused` | attempts in raw.pipelines, those with an invalid_reason, the pause |
| `failed` | history: the rows that have been in error |
| `disordered` | history: a row completed after one submitted later had, or a scored row was written over |

The thread writes `submitting`, `submitted` and `error` without looking at the
row; the refresh writes Kaggle's answer whatever the row has become.  A refresh
that changes nothing is no step.  The row is read right before the poll, so the
two are one action; the answer is written, and the tripwire looks, in later
ones.  A subprocess that fails may have handed the file to Kaggle.

### PromotionGate (cycle/promotion.py, its call in bin/run_promote_task.py)

| In the model | In the code |
|---|---|
| `line` | the valid rows of raw.pipelines with their scores, the latest last, and the blob with them |
| `memo`, `cache` | raw.confirm_memo and raw.baseline_eval_cache; `Expire` is their age, `_CACHE_TTL` |
| `call` | promote tasks in confirm_and_measure: winner, baseline and parameters read, the bar they are at, what was measured |
| `tuned` | what `_latest_tuned_params` returns: the result of the last tune run, or nothing |
| `top` | the best score of the leaderboard's snapshot and the margin above it |
| `Score` | what an evaluation of a source with given parameters measures: by the attempt's own seed, each confirmation seed, the holdout |

An evaluation is deterministic, higher is better, and a candidate scores the
same on every baseline it may be put on.  One score stands for a score and its
folds, so candidates with equal scores have one fingerprint here as in the
code; that they then behave the same, as the comment at cycle/promotion.py:53
takes them to, holds of the instance checked and is not shown.  Data and
evaluation knobs, which are part of the key, do not change.  Which sources a
merge contains and what the guard lets pass is left to BaselineRegistry; with
one task at a time the latest valid row is the best one.

### Evaluation (runtime/isolate.py, runtime/runner.py, evaluator/harness.py)

| In the model | In the code |
|---|---|
| `input` | source.py and input.json: the number of parameter candidates, whether fold scores are collected (merge-verify), and what fold 1 will tell of the source |
| `stage`, `done`, `outcome` | where evaluate_pipeline and the runner are, candidates fitted or folds finished, the result reached |
| `log`, `output` | _progress.log with its lines (stage, number, CPU seconds), output.json while it is written and after |
| `cpu`, `since` | CPU time of the child, of which since the last poll |
| `PreselectStart` ... `WriteEnds` | preselect_params, `_preselect_chose_base`, the folds, `_after_first_fold` with its shortcuts and its projection, `_check_leakage`, `_eval_holdout`, `_write` |
| `Exits` | the child ends or dies at any point |
| `Poll`, `Findings` | a round of `_watch`: memory, budget, both projections, the deadline, in its order |
| `Kill`, `Wait`, `Deadline`, `Reads` | the kill, proc.wait with its timeout, the wall timeout, `_read_result` |

The estimates are those of the code with integers in place of the floats:
`Estimate` is multiplied by the number of finished folds, the margin of 1.15 by
20 and the fraction of a half by 2.

### Composition (cycle/materialize.py, PatchedPipeline of evaluator/harness.py, bin/freeze_base.py, bin/rebuild_best_pipeline.py)

A patch is a record of what it defines: class members by name, top-level
helpers, the hooks it overrides.  A definition is a name for its text.

| In the model | In the code |
|---|---|
| `Merge`, `Composed`, `Unique`, `Freeze`, `Suppresses` | materialize_best_pipeline and its helpers: collisions, renamed members with a wrapper, dropped model hooks, frozen parameters and the helpers they make unreferenced |
| `Replay` | replay_best_pipeline |
| `Sequential`, `Columned`, `Offered`, `Owner` | what PatchedPipeline does with two objects |
| `Chain`, `Features`, `Lists` | what the merged class does when its wrappers run |
| `Selected`, `Model` | preselect_params, the order ensemble_spec, model_spec, build_model, and the member "base" |
| `layers`, `best` | raw.pipelines with the source, the parameters and what was frozen; best_pipeline.py |
| `Establish`, `Promote`, `FreezeBase`, `Quarantine` | the writers of the two; freeze_base.py with its check that the score stays the same |

`MeasuredIsDeployed` compares the two sides: what the patch did on the
baseline when it was measured, and what the merged source does.

### Attempt (bin/run_retrieve_task.py, run_attempt_core and what it calls in cycle/run.py, bin/establish_baseline.py)

| In the model | In the code |
|---|---|
| `config`, `stored`, `paused` | what train data and evaluation knobs are now; the two fingerprints and auto_submit_paused_reason of raw.competitions |
| `cv` | of each row of raw.pipelines the configuration its scores were measured under |
| `prev`, `loaded`, `folds` | prev_best_cv of the context, the train data of the task, `_prev_best_fold_scores`, each known by its configuration |
| `Guard` | `_fingerprint_guard`, once for each fingerprint |
| `Generates`, `Generate` | `_generate_until_valid`, `_generate_attempt_source` with the static errors |
| `Evaluate`, `RetryTie`, `RetryFailed`, `Settle` | `_evaluate_attempt`: at most two calls of eval_isolated, with what is left of the budget |
| `HarnessLabels`, `Significances`, `Judged` | `_label_and_gain`, is_significant_gain, `_judge_attempt` |
| `Store` | `_attempt_row`, `_save_code`, insert_attempt |
| `PromoteLoads`, `Promotes`, `Rejects`, `Establish` | what a promote task and the bootstrap baseline write into the registry |
| `Remeasure`, `Measures`, `Remeasured`, `CutOff` | `--remeasure`: row by row, fingerprints last; killed in between |

A guard is atomic here; two guards of two tasks that store the same first
fingerprint at once write the same value.  While an evaluation or the judgement
goes on the environment stands still, because neither reads anything it
changes; its steps commute to before or after.  A killed attempt is one whose
row is an error: neither leaves anything that is used.  One attempt at a time:
what attempts side by side do to each other through the registry is
BaselineRegistry's.

### SuperCycle (the four tasks of a DAG run, and the tune triggers of bin/run_daemon.py)

| In the model | In the code |
|---|---|
| `rows`, `open`, `late` | raw.attempts of the cycle in the order of run_ts, its running attempt tasks, those of earlier cycles |
| `Retrieve`, `WindowOpen`, `total` | assign_super_cycle_actions and `_reexplore_window_open` over the count of rows |
| `Stores`, `StoresLate`, `Dies` | an attempt task stores its row, or ends without one |
| `Succeeds`, `GateFires` | `_should_fire` of the gate |
| `Pick`, `Confirm`, `mark`, `prior` | `_pick_winner`, the confirmation, `_unmark_promoted`, and what was_promoted says of the latest marked row and the one before |
| `Ends`, `MayTune`, `Sweep` | `_maybe_trigger_tune`, `_recent_tunes_all_failed`, `_sweep_idle_tuning` |
| `TuneEnds`, `fails` | tune_pipeline.py: a row that improved, one that did not, or an exit without a row |

RONDO_WAIT_ON_PROMOTE_TI is taken as set; the default waits for the whole DAG
run, and then there are no stragglers.  Airflow repeating a retrieve task under
a new super_cycle_id is left out.

## 4. What each run checks

Runs expected to pass:

| Run | Question and answer |
|---|---|
| queue_safety | No row stays `running` without a holder; an item costs at most n_cycles runs plus `min(Lease, MaxFail)` per crash; `done` means consumed and, for good, earned by a success; a cancellation during a cycle prevents the next one; no item is served twice while another of at least its priority waits. |
| queue_ledger | The queue implements WorkLedger; cycles overlap only after a crash or a lost answer; every item ends. |
| registry_sequential | With runs one after the other and the tools kept out of them, promotions build on what the registry vouches for, a blob the guard passes has every confirmed layer, and marked jumps are pipelines, whatever is killed, fails or is quarantined between. |
| pacer | On one clock any period of a window's length sees at most twice the limit; with the clocks far apart it sees at most the limit. |
| submissions_settle | Of the rows auto-submit inserts on a day, no more than the budget are never in error; every row gets a final status once its day is over and keeps one. |
| submissions_tripwire | One divergence never pauses auto-submit; two among the last deltas always do if rows complete in order, no scored row is written over and nothing fails. |
| gate_memory | While nothing was tuned and the leaderboard stands still, what is remembered is what a gate without memory would say; only measured losses (or scores too good) are remembered; only what cleared its baseline on every seed and the holdout is promoted. |
| evaluation | The budget holds to a poll in every mode; no projection kills an evaluation that has its result, nor one that would fit with every fold as slow as its slowest; merge-verify ends complete or without a score; the worker gets an answer from any child. |
| composition | A promotion does what was measured; a patch that chooses a model gets it; replaying the rows gives the blob; no layer is lost or runs twice; the member "base" is the model of the baseline. |
| attempt | The stored code is the measured code; two evaluations share one budget; scores compare under one configuration; a jump beats the baseline it was written for; a pause of a guard is lifted by passing the guards. |
| supercycle | A quorum of successes has a winner; a jump is tried or outranked; dead actions get their turn; stale tune runs are bounded. |

One run expects a violation, of a statement of the repository the code does not
keep ("findings" in PROJECT.json quotes it): **queue_cancel_lost**, in which
`_start_lease` overwrites a cancellation written since the last check, as the
other writes of the daemon may.

The type invariants (`TypeOK`) are proved for every module and are invariants of
no run.

### Bounds, and why they are enough

- Queue: two items, so that one waits, is overtaken or is refilled while the
  other is in work, for two competitions, one of which an image may lack and
  one of which is refilled; one of them a bootstrap item.  queue_safety: three
  cycles with a lease of 2 give a full lease, a requeue and a short last lease,
  a circuit breaker at 2 closes inside a lease, an item of none ends at once,
  two priorities, one crash.  queue_ledger: two cycles with a lease of 1, hence
  a rotation at every cycle, one crash, one signal and one lost answer.  The
  accounting per crash is proved for any number.  Refilled items use up ids, so
  the number of items also bounds the refills.
- Registry: three attempts are the fewest with a layer above, at and below
  another one; three runs of one attempt task each let a straggler of the first
  meet the promotion of the next; one death, one failed read or write, two uses
  of tools (a quarantine and a rebuild).
- Pacer: windows of 2 and 3 hours with limits 1 and 2, so that both limits are
  reached at different times; five hours see every window end; two attempts an
  hour make the restore count more than cycles; the distance of the clocks is 0
  or longer than the horizon, as it is on any machine up for less time than the
  epoch is old.
- Submissions: settle has two attempts, two rows, a budget of 1, two days, one
  failure (a crash, an exception, a lost answer) and both refreshers; tripwire
  has the fewest rows with two divergences (three attempts ever better by
  cross-validation and ever worse on the leaderboard), hand submissions without
  an attempt between them, a single day and no failure, for one failure between
  the write of the score and the check is enough to miss a divergence.
- Gate: two candidates of which one is confirmed against either baseline and
  the other loses a seed but not the holdout, or everything once the baseline is
  tuned; one confirmation seed and the holdout; a leaderboard one score can
  exceed once tuned; two tune runs, so that a recommendation comes and goes; one
  failure; one promote task.
- Evaluation: three folds are the fewest with an average of finished folds that
  differs from the last one and a fold left after it; one or two candidates;
  a budget of three units and a burst of one let every check of a poll be the
  first to fail.
- Composition: fourteen patches, one for each way in which a merge
  distinguishes two definitions or reads a list of candidates, and four layers, so that a hook composed twice
  is composed once more or frozen; three candidates of the lists are tried.
- Attempt: two rows, so that a remeasurement can be between them; two changes
  of configuration, which also change it there and back; two units of budget
  and a burst of one.  The proofs are for any.
- SuperCycle: three attempts, a quorum of two, up to three stragglers, a window
  of three in a period of five, a back-off of two.

Deadlock is checked for the queue, for Attempt and for SuperCycle, which never
stop.  It is off in the other runs, whose bounds (attempts, hours, rows, days,
tune runs, layers) or whose end (an evaluation) end the behaviours; in
registry_sequential a run that is over does not come back.

### Fairness

- `FairSpec` of CycleQueue: weak fairness of `Daemon` and of `DagEnds`.  The
  main loop waits for nothing without a timeout (five hours for a run, timeouts
  of every HTTP call, finite sleeps of the pacer), compose restarts the
  container (deploy/compose.yml:14, `restart: always`), and the tasks of a run
  have execution timeouts in Airflow (bin/run_daemon.py:46).  Clients, signals,
  crashes and lost answers are never forced.
- `FairSpec` of Submissions: weak fairness of every thread (its subprocess has
  a timeout), of the sweep's refresh once begun, of Kaggle's grading and of
  time within a day; strong fairness of the sweep's poll of each row, which
  says that it comes to every row it selects again and again, and that of the
  polls that have an answer not all fail.  Midnight is not forced: the property
  is about rows whose day is over.
- `Spec` of Evaluation: weak fairness of the watcher, a loop of the worker
  whose every wait has a timeout, and strong fairness of `Deadline`: the wall
  clock does not stop for a watcher that polls forever, and the deadline is
  looked at in the waits between polls.  The child owes nothing: it may hang.

## 5. What is proved

**The queue** (DaemonProofs).  For every set of
items, every budget, lease, circuit breaker and any number of crashes, signals
and faults, from `QueueAssumption` alone (items are a finite set; lengths and
bounds are natural numbers, the lease and the breaker positive):

| Theorem | States |
|---|---|
| QueueInvariant | `Spec => []QueueInv` |
| TypeCorrect, ZombieFree, BudgetKept, DoneSpent | `TypeOK`, `NoZombieRunning`, `BudgetBound`, `DoneIsSpent` always hold |
| SequentialCycles | `SequentialUnlessFaulty` always holds |
| QueueImplementsLedger | `Spec => ImplementsLedger` |

The safety properties are not inductive: BudgetBound says nothing of a state
in which the daemon holds an item with cycles counted in memory only.
`QueueInv` adds what the code relies on at each program point:

- `HoldInv`: the daemon holds an item exactly at the points of `_process` and
  awaits a run exactly while it waits; an item being closed is not `running`.
- `LeaseInv`: what is counted in memory is at least what is written and at most
  a lease more, at most the budget, and at most the streak of failures more
  since the last success, which was written down.
- `AccountInv`: runs made for an item are at most the cycles written down, plus
  those in memory, plus the one in flight, plus `Loss = min(Lease, MaxFail)`
  for each crash.  A crash turns the middle two into one more `Loss`.

DaemonProofs has one lemma for each action that preserves QueueInv, one
step per conjunct that it can disturb, and composes them in `NextQueueInv`.
`SequentialCycles` has a step lemma of its own (orphans appear in three actions
only, each of which counts a fault or a crash, or happens with nothing in
flight).  `LedgerStep` shows that each step of the queue is a step of
the ledger or none: of the holder (`HolderStep`, where only `cur`, its status
and its progress change, with the bounds on progress from QueueInv), of a
client, or one the ledger does not see (`QuietStep`).

**Evaluations** (EvaluationProofs), for any number of folds and candidates, any
budget and pace of the watcher, from `EvaluationAssumption`:

| Theorem | Along |
|---|---|
| TypeCorrect | the type of `log` needs that CPU only grows |
| BudgetCorrect | `BudgetInv`: while the watcher waits, the child has used at most the budget and what came since the last poll |
| MergeVerifyCorrect | `CompleteInv`: in a merge-verify evaluation no shortcut was taken, so a result was reached behind all folds, and no projection decides |
| ProjectionsCorrect | `FinishedInv`: an evaluation with a result has logged `cv_done`, which silences both projections whatever the holdout logs after it |
| BackedCorrect | `FoldsInv`: the fold lines of the log are numbered from 1 on, one each, so that the last line is that of the last fold |

BackedCorrect (`ProjectionIsBacked`) is arithmetic: where the folds ended adds
up over their costs (`StepsAddUp`), so neither the average nor the running fold
exceeds the slowest one, and `EstimateBelow` bounds the estimate by what that
one predicts.  The induction over the folds is one over a least counterexample,
which needs no theorem with an operator parameter (`LeastElement`, from
`WFMin` and `NatLessThanWellFounded`).

**Attempts** (AttemptProofs), for any number of rows, of configurations to
come, any budget and burst, from `AttemptAssumption` and `NoneAssumption` (the
absent value is none of the others):

| Theorem | Along |
|---|---|
| TypeCorrect | one lemma for each group of variables |
| ResumeCorrect | `PauseInv`: a pause for a fingerprint has one stored, and between the two guards the first one's pause is gone |
| BudgetCorrect | `SpentInv`: what is used and what the worker believes is left add up to the budget and a burst per finished evaluation |
| CodeCorrect | `CodeInv`: before a second evaluation ends, the result kept is a tie or none, and the code under evaluation has passed the static checks |
| CompareCorrect | `CompareInv`, see below |
| JumpCorrect | both `CompareInv` and `CodeInv` |

`CompareInv` says what makes scores comparable although an attempt reads the
registry at three times.  `RegistryInv`: unless a remeasurement is under way or
was left half done, all scores are of the stored configuration; so are the last
attempt and the one being confirmed, or they are marked as overtaken; and an
attempt that began knows if any of this does not hold.  `ScanInv`: what a
remeasurement has left behind itself.  `KnowsInv`: an attempt that was not
overtaken read the stored configuration or nothing, runs under it once past
both guards, and found folds if it or a promotion since found a baseline.  The
one step that changes a stored fingerprint outside a remeasurement stores the
first one, and then there is no score yet it could contradict (`Unstored`).

**Super-cycles** (SuperCycleProofs), for any number of attempts and stragglers,
any quorum, period and back-off, from `SuperCycleAssumption` and
`NoneAssumption`: TypeCorrect; QuorumCorrect (a success is a row `_pick_winner`
may take, and rows are only added); JumpCorrect (`PickedFacts`: the picked row
has a gain no other exceeds); StaleTunesCorrect (one tune run is in flight at
most; a cycle triggers it below the back-off only, and those in vain are among
the failures counted); DeadActionsCorrect (after a multiple was passed, the
count and the attempts still running stay within the window, which is as wide as
a cycle).

**The history of the queue** (DaemonProofs, about CycleQueueHistory), from `QueueAssumption`.  `HistInv` adds to `QueueInv` what
successes, cancellations and leases leave behind:

| Theorem | Along |
|---|---|
| HistoryInvariant | `HSpec => []HistInv` |
| DoneEarned | `EarnInv`: a budget that is spent before its item is `done` was spent by a success, since only a success writes the last cycle down and keeps the item alive |
| DoomedIsOver | `DoomInv`: a doomed item is `Dead`, at every point of `_process` and in every status a cancellation and the lease together can leave; `DeadStays` says no step revives it |
| RoundRobin | `OvertakeInv`: what was overtaken waits at the front, as a lease moves its item behind all that wait |

**The baseline registry** (BaselineRegistryProofs), for any number of attempts,
runs, tools and failures, from the assumptions of the module.  The types
(RegistryTypeOK) hold of all behaviours.  The other three are stated as
`Sequential => ...`, where `Sequential` says that runs follow each other and
the tools keep out of them (`~Overlap /\ ~LiveTools`): the daemon waits for the
run it triggered, and the statements are false of two promote tasks at once
(section 7).

| Theorem | Along |
|---|---|
| SeqInvariant | the invariant the three share: one run, bootstrap or tool is at work at a time (`Exclusive`), and while it is the valid rows stand still, so that what it has read of them is still so (`RunInv`, `ToolInv`) |
| PassedBlobHoldsAll | `MatInv`: every valid row was promoted on top of those before it, and the guard compares the blob with the latest |
| JumpMarksAreRows | `MarkInv`: a mark is that of the winner of a run, and only a death, a fault or another label leaves it without a row when the run is over |
| PromotionsAlwaysStack | `PromoteInv`: from the guard to the commit the promote task works on what the latest valid row was promoted as, unless a read failed |

**The promotion gate** (PromotionGateProofs), for any candidates, bars,
parameters, scores, tune runs, expiries and failures.  `GateInv` says what a
call has cleared at each bar, and that all it, the cache and the memo hold was
measured under parameters of the set `Seen`: the untuned ones alone until a tune
run ends, any afterwards.  GateTypeOK, GateRejections and GatePromotions follow
from it, and GateMemory from its reading before the first tune run; that needs in addition what the code says of its fingerprints,
`SignatureAssumption`: candidates of the same rounded screening scores behave
alike (cycle/promotion.py:135).  Without it a memo of one candidate answers for
another.

**The pacer** (the last part of DaemonProofs), for any windows, limits, horizon, set of distances
of the clocks and pace at which rows come in, from `PacerAssumption` (the
distances are not negative: the epoch is older than the machine's uptime):

| Theorem | Along |
|---|---|
| PacerTypeOK | `AcquireSteps` and `WakeWeekSteps`: where acquire leads with which sleep |
| TwiceTheLimits | `Window`: of the recorded rows of a window's length, all but those in the counter are at most the limit, and those since its start are in the counter |
| TheLimits | `ApartInv`: as long as the clocks are apart no window of a process is over and no sleep ends (`ApartMoves`), so the counter has every recorded row of the window's length |

Neither limit is inductive: the number of cycles in the length of a window says
nothing of how many more the counter lets in.  `Window` relates the two, and is
kept because a counter is only reset once its window is over, by a roll
(`RollWindow`) or by the end of the sleep, whose end `Gated` keeps at or behind
that of its window; because a cycle only begins below both limits
(`RecordWindow`); and because the restore counts every row of an hour more than
the window, of which the recorded ones are some (`RestoreWindow`).  That a
window may end and its successor be used up in the same period is what the
factor of two is for.

**Merging sources** (CompositionProofs), for any set of patches, columns,
candidates with their ranks and number of layers, from `CompositionAssumption`
(members have plain names, a definition that reads `Shared` is in a class that
defines it, lists of candidates are sequences of ranked ones):

| Theorem | States | Along |
|---|---|---|
| CompositionInvariant, ReplayRebuilds | `ReplayReproduces` always holds | `CompositionInv`: rows are patches with parameters, and the blob is their replay; a freeze of the latest row commutes with merging it, a quarantine replays |
| ChosenModelRuns | `PromotedModelRuns` | a merge has the model hooks of the patch, and those of the base the patch neither redefines nor suppresses |
| LayersRunOnce | `LayersAccumulate` always holds | `IsStack`: the chain of a merge is that of the base with the patch's definition behind it, or the latter alone |
| MergeDeploysMeasured | `MeasuredIsDeployed` | hook by hook: features, lists, model, what runs before and after it |
| LedgerInvariant, BaseMemberSelected | `BaseMemberIsTheBest` always holds | `LedgerInv`: the parameters of a row are those chosen on the replay of the rows before it, as long as none is quarantined |
| BaselineTyped | `TypeOK` always holds | `TypeInv`: a wrapper calls members that are there, parameters come from the lists |

What a merged class does is defined by a recursive function over the calls of
its wrappers, and equality of two such functions is not an induction the
library's theorems can state here.  The proofs get it from two things.  A class
is `WellFormed` when its members have ranks that fall along the calls; every
merge and freeze of well formed classes is well formed (a helper takes the rank
of what it was, the new wrapper one above all).  And `Induction`, that a set of numbers
with 0 and the successors of its members has all, is applied to the set of
ranks up to which a statement about members holds (`CallInduction`).  With it,
`IsCalls` names any function that a wrapper computes from the two members it
calls (the order of `Then`, the union of columns or of lists), and one lemma
(`TogetherCalls`) says of all of them what a merge makes of the base's function
and the patch's.  `SharedOK` says that a class has the member `Shared` when a
definition of it reads it, which is why the helper a hook of the base reads is
still its own after a merge that does not redefine it.

**Submissions** (SubmissionsProofs), for any number of attempts, rows, days,
refreshers and failures, any scores and whatever Kaggle answers, from
`SubmissionsAssumption`:

| Theorem | Along |
|---|---|
| SubmissionsTypeOK | one lemma for each group of variables; `Moves` lists where a call of refresh_submission_row may go |
| DailyBudget | `BudgetInv`: what is spent of the day and what the handler still may insert fit into the budget at each of its points; a midnight leaves it the whole of the new day, and no other step but its insertions spends (`SpentStays`, `SpentGrows`) |
| PauseIsEarned | `PauseInv`: a refresh looks at a scored row, and rows that contradict each other go on doing so although they are written over, for scores and attempts stay |
| DivergenceCaught | `CaughtInv`: the newest scored row has been looked at without two divergences, or is being looked at, or the competition is paused; `NewestFour` ties the chain of the check to the last three deltas |

The inductive invariants TLC can evaluate were checked with it before they were
proved.  For
two properties of Submissions and two of Composition TLC had no counterexample
on the instances of the runs but the attempt to prove them gave one on a larger
instance, and they now say what the code keeps.  The budget held "up to one row per failure": one
upload in error puts several rows of one message in error, whose threads then
write `submitted`, so that one failure lets more than one further row in.  And
the divergence was caught "if rows complete in order": a scored row its late
thread writes over leaves the chart, and the newest four are others than those
looked at.  `MeasuredIsDeployed` took no list of candidates to repeat the
baseline's word for word in a way that matters: a list that names a candidate
twice does, for the union of the two in the attempt drops the repetition and the
merge, which sees that the texts are the same, does not compose them
(`Repeats`; the patch `Twice` is in the run since).  And `BaseMemberIsTheBest`
ignored that {} may be the best candidate, which is not frozen
(`OffersNothing`).

Only model-checked: the liveness properties (`EveryItemEnds`,
`EveryRowSettles`, `EvaluationEnds`), which the prover does not reach.  Every
other property of the passing runs is stated by a theorem.

## 6. What is not modelled, and known differences

Left out within the modelled parts:

- queue: scores, error texts and end times of rows; how long a competition has
  to be idle before it is refilled;
- registry: the one-time backfill and a second row for one attempt; two promote
  tasks at once in the properties (`Overlap` lets them in, see below);
- submissions: percentiles, leaderboard snapshots, pipelines the backfill found
  unverifiable (they are no candidates; every pipeline here is submittable), a
  manual end of the pause, more than one auto-submit request at a time;
- promotion gate: its calls by establish_baseline.py, and what record_confirm
  stores with the attempt;
- evaluation: the log is exact here, in the code it is rounded, to
  less than the unit of CPU; the child burns CPU only while the watcher
  waits; RLIMIT_CPU is a backstop above the budget that a polling watcher never
  lets a child reach; scores and metrics;
- composition: statements outside the class, imports, what a definition does;
  the unparsing of the source keeps its text;
- attempt: prompts, the parsing of answers and the static checks are arbitrary
  outcomes; the bandit update and the reflection after a row;
- supercycle: the sums of the bandit, its decays and Thompson samples (also its
  second update after a confirmation), and the stagnation signal, which only
  changes a prompt;
- the tune lane's search, an Optuna study, is numerical.

The components with status `not_modelled` in PROJECT.json are ranking by
similarity (lessons), answers of language models (agents), sequential I/O
(data, configuration, tools) and read-only views (dashboard, health check):
their correctness does not depend on an order of events, or is that of a
database or a library.

What the properties exclude, because the code does differ there:

- `MeasuredIsDeployed`: a sequential hook that repeats the baseline's word for
  word runs twice in the attempt and once in the merge, and so does a list of
  candidates that names one twice lose the repetition in the attempt only; a class member that is
  not a hook is one for both in the merge, where the attempt had two (a clash
  only warns).  Merge-verify rejects the promotion when the score differs.
- `BaseMemberIsTheBest`: the first baseline is not frozen
  (establish_bootstrap_baseline), so the member "base" of an ensemble on it
  takes the first of its candidates, not the one it was measured with; after a
  quarantine it may be so again, and when {} was the best or the list is empty
  nothing is frozen either.
- An annotated class attribute `override: list = [...]` counts when a patch
  runs and not when it is merged (`_extract_override_hooks` reads plain
  assignments); patches here use plain ones.
- `ScoreIsOfTheCode`: a tie is kept when its second code never passes the
  static checks, and is stored with that code.
- `GainIsComparable`: scores of two configurations do meet when a remeasurement
  overtakes an attempt, is cut off between rows and not repeated, or overtakes
  a promotion, and when a baseline is established from an attempt older than a
  remeasurement, against the docstring of bin/establish_baseline.py that warns
  of planting the cv_score of an earlier attempt as it is.  A remeasurement all
  of whose rows fail leaves the old fingerprints.
- `DeadGetTheirTurn`: stragglers that store rows between two assignments can
  carry the count past the window.
- `StaleTunesBounded`: a tune run that exits without a row counts as none, and
  the next cycle triggers it again.
- `JumpTriedOrOutranked`: an error whose score is above the leaderboard's best
  keeps its gain, wins, is not confirmed, and the jump below it is not tried;
  so does noise of greater gain.

Differences between documents and code met while modelling that have no run of
their own:

- The tune trigger of a cycle takes the latest row that is not known to be
  unpromoted (bin/run_daemon.py:538), where the docstring of
  `_maybe_trigger_tune` (line 395) speaks of this cycle's attempt: after a
  cycle without a winner an earlier pipeline is tuned again.  A winner without a
  significant gain keeps its mark, too.
- `_projected_cpu` says it only cuts short what the projection after fold 1
  would refuse (runtime/isolate.py:177-178); attempts that end at fold 1 with a
  tie, a reused result or a futility exit never meet that projection and are
  killed by this one while fold 1 runs.  A kill for memory, budget or time may
  also drop a score that was written.
- A quarantined layer below the latest row stays in the blob the guard passes,
  against docs/decisions.md:806, until the blob is rebuilt.
- Two promote tasks that overlap lose the layer of the first, against
  docs/decisions.md:785-787.
- The first sleep of a process spans the distance of the two clocks, against
  docs/runbook.md:153.
- Tune runs change `tuned_params` without a promotion (the 48 hour sweep,
  bin/run_daemon.py:435), where cycle/promotion.py:360-363 leaves them out of the
  key because only a promotion would.  A baseline score kept from before a tune
  run is then compared with a candidate evaluated after it, against the "paired
  gain(candidate@seed - baseline@seed)" of line 334; a rejection made before it
  is repeated after it.  `PromotionsAreMeasured` therefore lets the baseline be
  measured under any parameters; required of those of the candidate, it would fail in
  this model.
- A tune run that ends between an attempt and its promote task makes the two
  read different parameters, against the comment at
  bin/run_promote_task.py:418-419: the merged source then misses the attempt's score and
  the promotion is skipped (`Merge`).
- A baseline whose holdout cannot be measured rejects the winner
  (cycle/promotion.py:700), where the docstring at 341-342 says it does not.
- A rejection for exceeding the leaderboard's best score is remembered for 30
  days and consulted before the ceiling (cycle/promotion.py:373, 389), though
  the leaderboard moves.
- The winner is marked `was_promoted` before the confirmation and keeps the
  mark when its train data does not load or its source is missing
  (bin/run_promote_task.py:404-415), where the comment at 206 says what follows from
  such a mark.  `JumpMarksUnlessFaulty` is stated of behaviours without faults.
- The reset at startup nulls `started_at` (bin/run_daemon.py:745), which the
  comment at 610-611 calls the first start of an item; the next lease sets it
  only when no cycle is done.
- The early returns of `_process` (bin/run_daemon.py:645, 663, 709) leave
  `DaemonState` saying running, against docs/spec.md:534.
- After a poll that raised (bin/run_daemon.py:531-536) the next cycle starts
  beside a live run, against the "sequential" of line 1.
- The last lease of a bootstrap item decides whether its baseline is tried
  (bin/run_daemon.py:605), where the comment at 556 speaks of the batch.
- A failed GET of the blob is its absence (store/s3_code.py:96-103): a
  promotion then merges over nothing, against docs/decisions.md:785-787.
  `blind` marks it.
- A divergence is missed when rows complete out of order, when a scored row is
  written over by its late thread (bin/api.py:282), or when a refresh is cut off
  after writing `complete` (bin/api.py:760, 887), against
  docs/runbook.md:455-456.
- A submission that times out after Kaggle took the file is an `error` and is
  not counted (bin/api.py:259), where the comment at 600 says that errors did
  not reach Kaggle; and a thread or a refresh may take a row out of its error.
  Rows of one message are put in error together by one failed upload, as the
  newest upload of the message is the answer to all of them.
  `BudgetUnlessFailed` leaves out the rows that have been in error.
- The sweep measures the time of an upload from `submitted_at`
  (bin/run_daemon.py:262-268), though a thread may wait for the gate as long:
  the thread then overwrites a graded row, which the next sweep repairs.
- A competition whose last item is `done` is refilled at once
  (bin/run_daemon.py:313), where docs/runbook.md:96 says after 30 minutes.
- An item with n_cycles 0 is leased and closed as `done`.

## 7. Running

In this directory: `tlc -config queue_safety.cfg MCCycleQueueHistory.tla`, and
so on with the module that PROJECT.json names for each run (the longest,
queue_ledger and attempt, take three to four minutes with two workers);
`tlapm AttemptProofs.tla` and so on for the proofs, a minute or two each
(CompositionProofs takes four).
