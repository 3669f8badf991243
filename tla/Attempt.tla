------------------------------- MODULE Attempt -------------------------------
(***************************************************************************)
(* An attempt of a super-cycle, from the baseline its run retrieves to the *)
(* row it stores (bin/run_retrieve_task.py, bin/run_attempt_task.py,       *)
(* run_attempt_core of cycle/run.py): the fingerprint guards, the          *)
(* generations of code with their static checks, at most two evaluations   *)
(* on one CPU budget, and the judgement.  Around it the steps that change  *)
(* what scores are measured with and against: a new configuration,         *)
(* promotions, and bin/establish_baseline.py, also with --remeasure.       *)
(*                                                                         *)
(* A score is known by the configuration it was measured under: train data *)
(* and evaluation knobs, one fingerprint each.  Numbers of different       *)
(* configurations compare in any way; a patch compares with the baseline   *)
(* it was written for as its effect says.  The source guard and the blob   *)
(* are those of BaselineRegistry, and one eval_isolated keeps the promises *)
(* of Evaluation.                                                          *)
(***************************************************************************)
EXTENDS Integers, FiniteSets

CONSTANTS
    Rows,       \* rows of raw.pipelines
    Budget,     \* EVAL_CPU_BUDGET_SECS
    Burst,      \* CPU a child can use between two polls of its watcher
    None,       \* no value
    MaxChanges  \* bound: new configurations

ASSUME AttemptAssumption ==
    /\ Rows # {} /\ Budget \in Nat \ {0} /\ Burst \in Nat
    /\ MaxChanges \in Nat

\* A configuration: train data and evaluation knobs, by fingerprint.
Parts   == {"train", "eval"}
Configs == [Parts -> {0, 1}]

VARIABLES
    config,  \* what load_train returns and the evaluation knobs are
    stored,  \* raw.competitions.train_fingerprint and .eval_fingerprint
    paused,  \* auto_submit_paused_reason
    cv,      \* of each row of raw.pipelines, the configuration of its cv_score
             \* and fold_scores; None: no valid row
    \* the attempt
    pc, prev, loaded, folds, source, fault, round, left, used, result, error,
    moved,   \* what was read before the baseline was replaced: "prev" or "base"
    last,    \* the row of raw.attempts stored last without an error: whether it is a
             \* jump no promote task took, the configuration it ran under, whether the
             \* registry was measured anew beside it or since
    winner,  \* the attempt a promote task confirms, whether on the data of the attempt
    scan,    \* a remeasurement under way
    changes,
    \* history: a remeasurement wrote beside the attempt or a promotion, or
    \* was cut off and not repeated yet
    raced, torn

registry == <<config, stored, paused, cv>>
attempt  == <<pc, prev, loaded, folds, source, fault, round, left, used, result, error>>
others   == <<moved, winner, scan, changes, raced, torn>>
vars     == <<registry, attempt, last, others>>

\* What an evaluation finds out about a patch, against the baseline it was
\* written for: better, "flat" or worse after all folds, or an exit at fold 1.
Early   == {"tie", "futile"}
Kinds   == {"up", "flat", "down"} \cup Early

Sources   == [id : 0..1, valid : BOOLEAN]
Results   == [of : 0..1, kind : Kinds]
Stored    == [jump : BOOLEAN, yard : Configs, stale : BOOLEAN]
Confirmed == [yard : Configs, same : BOOLEAN, raced : BOOLEAN]
Scans     == [data : Configs, todo : SUBSET Rows, any : BOOLEAN]

ASSUME NoneAssumption ==
    /\ None \notin {0, 1} /\ None \notin Parts
    /\ None \notin Configs /\ None \notin Sources /\ None \notin Results
    /\ None \notin Stored /\ None \notin Confirmed /\ None \notin Scans

RegistryOK ==
    /\ config \in Configs /\ stored \in [Parts -> {0, 1, None}]
    /\ paused \in Parts \cup {None} /\ cv \in [Rows -> Configs \cup {None}]

AttemptOK ==
    /\ pc \in {"idle", "retrieved", "train", "eval", "generate", "folds", "evaluate", "next", "judge"}
    /\ prev \in Configs \cup {None} /\ folds \in Configs \cup {None}
    /\ loaded \in Configs \cup {None} /\ (pc \in {"idle", "retrieved"} \/ loaded # None)
    /\ source \in Sources \cup {None} /\ result \in Results \cup {None}
    /\ pc \in {"folds", "evaluate", "next", "judge"} => source # None

NumbersOK == round \in 0..1 /\ left \in Int /\ used \in Nat /\ changes \in 0..MaxChanges
FlagsOK   == fault \in BOOLEAN /\ error \in BOOLEAN /\ raced \in BOOLEAN /\ torn \in BOOLEAN

OthersOK ==
    /\ moved \subseteq {"prev", "base"} /\ last \in Stored \cup {None}
    /\ winner \in Confirmed \cup {None} /\ scan \in Scans \cup {None}

TypeOK == RegistryOK /\ AttemptOK /\ NumbersOK /\ FlagsOK /\ OthersOK

Init ==
    /\ config = [p \in Parts |-> 0] /\ stored = [p \in Parts |-> None] /\ paused = None
    /\ cv = [r \in Rows |-> None]
    /\ pc = "idle" /\ prev = None /\ loaded = None /\ folds = None
    /\ source = None /\ fault = FALSE /\ round = 0 /\ left = Budget /\ used = 0
    /\ result = None /\ error = FALSE
    /\ moved = {} /\ last = None /\ winner = None /\ scan = None
    /\ changes = 0 /\ raced = FALSE /\ torn = FALSE

Valid == {r \in Rows : cv[r] # None}
\* What a query for the best row may answer.
Best == IF Valid = {} THEN {None} ELSE {cv[r] : r \in Valid}

-----------------------------------------------------------------------------
(* Before the attempt.                                                     *)

\* run_retrieve_task: prev_best_cv goes into the context of the run.
Retrieve ==
    /\ pc = "idle" /\ pc' = "retrieved" /\ prev' \in Best
    /\ raced' = (scan # None \/ torn) /\ moved' = {}
    /\ UNCHANGED <<registry, last, loaded, folds, source, fault, round, left, used, result, error,
                   winner, scan, changes, torn>>

Load ==
    /\ pc = "retrieved" /\ pc' = "train" /\ loaded' = config
    /\ UNCHANGED <<registry, last, prev, folds, source, fault, round, left, used, result, error,
                   others>>

\* Mutants of Guard: without a baseline to compare with, a difference is let
\* through; ...
GuardOfBaselines(p, next) ==
    /\ pc = p
    /\ \/ /\ stored[p] = None /\ stored' = [stored EXCEPT ![p] = loaded[p]]
          /\ pc' = next /\ UNCHANGED paused
       \/ /\ stored[p] = loaded[p] \/ prev = None
          /\ paused' = IF paused = p THEN None ELSE paused
          /\ pc' = next /\ UNCHANGED stored
       \/ /\ stored[p] \notin {None, loaded[p]}
          /\ paused' = IF paused = None THEN p ELSE paused
          /\ pc' = "idle" /\ UNCHANGED stored
    /\ UNCHANGED <<config, cv, last, prev, loaded, folds, source, fault, round, left, used, result,
                   error, others>>

\* ... an equal fingerprint leaves the pause to the operator.
GuardForGood(p, next) ==
    /\ pc = p
    /\ \/ /\ stored[p] = None /\ stored' = [stored EXCEPT ![p] = loaded[p]]
          /\ pc' = next /\ UNCHANGED paused
       \/ /\ stored[p] = loaded[p] /\ pc' = next /\ UNCHANGED <<stored, paused>>
       \/ /\ stored[p] \notin {None, loaded[p]}
          /\ paused' = p /\ pc' = "idle" /\ UNCHANGED stored
    /\ UNCHANGED <<config, cv, last, prev, loaded, folds, source, fault, round, left, used, result,
                   error, others>>

\* _fingerprint_guard for one of the two fingerprints: the first one seen is
\* stored, a different one refuses the attempt, an equal one lifts the pause
\* an earlier refusal left.
Guard(p, next) ==
    /\ pc = p
    /\ \/ /\ stored[p] = None /\ stored' = [stored EXCEPT ![p] = loaded[p]]
          /\ pc' = next /\ UNCHANGED paused
       \/ /\ stored[p] = loaded[p] /\ paused' = IF paused = p THEN None ELSE paused
          /\ pc' = next /\ UNCHANGED stored
       \/ /\ stored[p] \notin {None, loaded[p]}
          /\ paused' = IF paused = None THEN p ELSE paused
          /\ pc' = "idle" /\ UNCHANGED stored
    /\ UNCHANGED <<config, cv, last, prev, loaded, folds, source, fault, round, left, used, result,
                   error, others>>

TrainGuard == Guard("train", "eval")
EvalGuard  == Guard("eval", "generate")

-----------------------------------------------------------------------------
(* Generation and evaluation.                                              *)

\* _generate_until_valid: the code of three tries at most; the last one is kept,
\* though it may not pass the static checks of validate_patch either.
Generates(id) == \E ok \in BOOLEAN : source' = [id |-> id, valid |-> ok]

\* _generate_attempt_source, and the static errors that end the attempt.
Generate ==
    /\ pc = "generate" /\ Generates(0)
    /\ pc' = "folds"
    /\ error' = ~source'.valid
    /\ left' = Budget /\ used' = 0 /\ round' = 0 /\ result' = None /\ fault' = FALSE
    /\ UNCHANGED <<registry, last, prev, loaded, folds, others>>

\* _prev_best_fold_scores, after the code was generated.
ReadFolds ==
    /\ pc = "folds" /\ folds' \in Best
    /\ pc' = IF error THEN "judge" ELSE "evaluate"
    /\ UNCHANGED <<registry, last, prev, loaded, source, fault, round, left, used, result, error,
                   others>>

\* The exits at fold 1 need a baseline to compare with.
Possible ==
    Kinds \ ((IF prev = None THEN Early ELSE {}) \cup (IF folds = None THEN {"futile"} ELSE {}))

\* What one evaluation may end with; any may fail or be killed.
Outcomes == {[fault |-> TRUE, result |-> result]}
            \cup {[fault |-> FALSE, result |-> [of |-> source.id, kind |-> k]] : k \in Possible}

Ends ==
    /\ \E o \in Outcomes : fault' = o.fault /\ result' = o.result
    /\ pc' = "next"
    /\ UNCHANGED <<registry, last, prev, loaded, folds, source, round, error, others>>

\* Mutant of Evaluate: every evaluation gets the whole budget.
EvaluateAfresh ==
    /\ pc = "evaluate"
    /\ \E real \in 0..(Budget + Burst) : \E peak \in 0..real :
           real - peak <= Burst /\ used' = used + real /\ left' = left - peak
    /\ Ends

\* eval_isolated with what is left of the budget: the CPU a child really used
\* exceeds that by a burst at most, and so does it the peak the watcher saw.
Evaluate ==
    /\ pc = "evaluate"
    /\ \E real \in 0..(left + Burst) : \E peak \in 0..real :
           real - peak <= Burst /\ used' = used + real /\ left' = left - peak
    /\ Ends

Again == pc' = "evaluate" /\ round' = 1 /\ UNCHANGED <<fault, left, used>>

\* No further evaluation.
Decided == pc' = "judge" /\ fault' = FALSE /\ round' = 0 /\ left' = Budget /\ used' = 0

\* A tie at fold 1 is kept, and tried once more with another code if there is
\* budget; the result stays if that code does not pass the static checks.
RetryTie ==
    /\ pc = "next" /\ ~fault /\ result.kind = "tie" /\ round = 0 /\ left > 0
    /\ Generates(1)
    /\ IF source'.valid THEN Again ELSE Decided
    /\ UNCHANGED <<registry, last, prev, loaded, folds, result, error, others>>

\* A failed evaluation is tried once more with code written to its feedback.
RetryFailed ==
    /\ pc = "next" /\ fault /\ round = 0 /\ left > 0
    /\ Generates(1)
    /\ IF source'.valid THEN Again /\ UNCHANGED error ELSE Decided /\ error' = TRUE
    /\ UNCHANGED <<registry, last, prev, loaded, folds, result, others>>

\* Mutant of Settle: a failed second evaluation keeps the result of the first.
SettleKeeping ==
    /\ pc = "next" /\ Decided
    /\ \/ ~fault /\ (result.kind # "tie" \/ round = 1 \/ left <= 0) /\ UNCHANGED <<error, result>>
       \/ fault /\ (round = 1 \/ left <= 0) /\ error' = TRUE /\ UNCHANGED result
    /\ UNCHANGED <<registry, last, prev, loaded, folds, source, others>>

\* The last evaluation decides: after a tie was tried again and failed, the
\* tie is not the result of the code that is stored.
Settle ==
    /\ pc = "next" /\ Decided
    /\ \/ ~fault /\ (result.kind # "tie" \/ round = 1 \/ left <= 0) /\ UNCHANGED <<error, result>>
       \/ /\ fault /\ (round = 1 \/ left <= 0) /\ error' = TRUE
          /\ result' = IF round = 1 THEN None ELSE result
    /\ UNCHANGED <<registry, last, prev, loaded, folds, source, others>>

-----------------------------------------------------------------------------
(* Judgement.                                                              *)

\* How a full score compares with prev_best_cv and with the baseline's folds.
\* A promotion in between makes the first a lower number than the base's, the
\* second a higher one.
WithPrev(kind) ==
    {k \in {"up", "flat", "down"} :
        prev # loaded \/ k = kind \/ ("prev" \in moved /\ (k = "up" \/ kind = "down"))}
WithFolds(kind) ==
    {k \in {"up", "flat", "down"} :
        folds # loaded \/ k = kind \/ ("base" \in moved /\ (k = "down" \/ kind = "up"))}

\* _label_and_gain against prev_best_cv; a neutral label without one, and a
\* regression is no different from it here.
HarnessLabels ==
    IF result.kind \in Early \/ prev = None THEN {"neutral"}
    ELSE {IF k = "up" THEN "jump" ELSE "neutral" : k \in WithPrev(result.kind)}

\* is_significant_gain: paired with the baseline's folds, or by the gain.
\* A fold-1 exit has neither folds nor a variance.
Significances ==
    IF result.kind \in Early THEN {FALSE}
    ELSE IF folds # None THEN {k = "up" : k \in WithFolds(result.kind)}
    ELSE IF prev # None THEN {k = "up" : k \in WithPrev(result.kind)}
    ELSE {FALSE}

\* Mutant of Judged: the label of the harness stands.
JudgedByMargin ==
    IF error THEN {"error"}
    ELSE {"error"} \cup HarnessLabels

\* _judge_attempt: leaderboard_ceiling_violation makes any score an error (one
\* without fold scores has no margin, so even a tie may be above the world's
\* best); the paired test decides what is a jump, whatever the harness saw.
Judged ==
    IF error THEN {"error"}
    ELSE {"error"} \cup {IF sig THEN "jump" ELSE IF h = "jump" THEN "neutral" ELSE h :
                            sig \in Significances, h \in HarnessLabels}

Clear ==
    /\ pc' = "idle"
    /\ prev' = None /\ loaded' = None /\ folds' = None /\ source' = None /\ fault' = FALSE
    /\ round' = 0 /\ left' = Budget /\ used' = 0 /\ result' = None /\ error' = FALSE
    /\ moved' = {} /\ raced' = FALSE

\* _attempt_row, _save_code and insert_attempt.  The row of an error serves
\* nothing here, as if the task were killed before it.
Store ==
    /\ pc = "judge" /\ Clear
    /\ \E j \in Judged :
           last' = IF j = "error" THEN last
                   ELSE [jump |-> j = "jump", yard |-> loaded, stale |-> raced]
    /\ UNCHANGED <<registry, winner, scan, changes, torn>>

-----------------------------------------------------------------------------
(* Around the attempt.                                                     *)

\* A release or a change of config/competitions.
Reconfigure ==
    /\ changes < MaxChanges /\ changes' = changes + 1
    /\ \E p \in Parts : config' = [config EXCEPT ![p] = 1 - @]
    /\ UNCHANGED <<stored, paused, cv, attempt, last, moved, winner, scan, raced, torn>>

\* Where an attempt is that has read prev_best_cv, or also its base, and not
\* yet what follows.
ReadBefore == [prev |-> {"retrieved", "train", "eval", "generate"}, base |-> {"folds"}]

\* A row of raw.pipelines is inserted for a score of configuration yard.
Inserts(yard, mixes) ==
    /\ \E r \in Rows \ Valid : cv' = [cv EXCEPT ![r] = yard]
    /\ torn' = (torn \/ mixes) /\ raced' = (raced \/ (mixes /\ pc # "idle"))
    /\ moved' = moved \cup {m \in {"prev", "base"} : pc \in ReadBefore[m]}

\* A promote task takes a jump, loads the train data, and confirms for long.
PromoteLoads ==
    /\ winner = None /\ last # None /\ last.jump
    /\ winner' = [yard |-> last.yard, same |-> config = last.yard,
                  raced |-> scan # None \/ last.stale]
    /\ last' = [last EXCEPT !.jump = FALSE]
    /\ UNCHANGED <<registry, attempt, moved, scan, changes, raced, torn>>

\* The merge is verified: its score has to be the attempt's again, which it
\* is on the data of the attempt only.  The row keeps the attempt's score.
Promotes ==
    /\ winner # None /\ winner.same /\ winner' = None
    /\ Inserts(winner.yard, winner.raced)
    /\ UNCHANGED <<config, stored, paused, attempt, last, scan, changes>>

Rejects ==
    /\ winner # None /\ winner' = None
    /\ UNCHANGED <<registry, attempt, last, moved, scan, changes, raced, torn>>

\* establish_bootstrap_baseline and establish_for_competition: without a valid
\* row, an attempt becomes the baseline with the score it was stored with.
Establish ==
    /\ Valid = {} /\ last # None
    /\ Inserts(last.yard, last.stale)
    /\ UNCHANGED <<config, stored, paused, attempt, last, winner, scan, changes>>

\* remeasure_competition evaluates the valid rows one by one, ...
Remeasure ==
    /\ scan = None /\ Valid # {}
    /\ scan' = [data |-> config, todo |-> Valid, any |-> FALSE] /\ torn' = FALSE
    /\ raced' = (raced \/ pc # "idle")
    /\ winner' = IF winner = None THEN None ELSE [winner EXCEPT !.raced = TRUE]
    /\ UNCHANGED <<registry, attempt, last, moved, changes>>

\* ... writing each score at once, and invalidating what fails; ...
Measures ==
    /\ scan # None
    /\ \E r \in scan.todo, fails \in BOOLEAN :
           /\ cv' = [cv EXCEPT ![r] = IF fails THEN None ELSE scan.data]
           /\ scan' = [scan EXCEPT !.todo = @ \ {r}, !.any = @ \/ ~fails]
    /\ UNCHANGED <<config, stored, paused, attempt, last, moved, winner, changes, raced, torn>>

\* ... and stores the fingerprints in the end, if any row could be measured.
Remeasured ==
    /\ scan # None /\ scan.todo = {} /\ scan' = None
    /\ IF scan.any
       THEN /\ stored' = scan.data /\ paused' = IF paused \in Parts THEN None ELSE paused
            /\ last' = IF last = None THEN None ELSE [last EXCEPT !.stale = TRUE]
       ELSE UNCHANGED <<stored, paused, last>>
    /\ UNCHANGED <<config, cv, attempt, moved, winner, changes, raced, torn>>

CutOff ==
    /\ scan # None /\ scan' = None
    /\ torn' = TRUE /\ raced' = (raced \/ pc # "idle")
    /\ UNCHANGED <<registry, attempt, last, moved, winner, changes>>

-----------------------------------------------------------------------------
Guards == TrainGuard \/ EvalGuard
Evaluation == Evaluate \/ RetryTie \/ RetryFailed \/ Settle
Task == Retrieve \/ Load \/ Guards \/ Generate \/ ReadFolds \/ Evaluation \/ Store
\* What the evaluations and the judgement do reads nothing that these change:
\* they are steps before or after it.
Environment ==
    /\ pc \notin {"evaluate", "next", "judge"}
    /\ \/ Reconfigure \/ PromoteLoads \/ Promotes \/ Rejects \/ Establish
       \/ Remeasure \/ Measures \/ Remeasured \/ CutOff

Next == Task \/ Environment
Spec == Init /\ [][Next]_vars

-----------------------------------------------------------------------------
(* Properties.                                                             *)

\* The code stored with an attempt is the code its score was measured with,
\* through retries of ties and failures (cycle/run.py:796, #405).  The one
\* exception is a tie whose second code never passes the static checks: then
\* that code is stored with the tie.
ScoreIsOfTheCode ==
    pc = "judge" /\ result # None =>
        \/ result.of = source.id /\ source.valid
        \/ result.kind = "tie" /\ ~source.valid

\* All evaluations of an attempt share one CPU budget: together they exceed it
\* by what two watchers may see too late, never by a second budget.
AttemptBudgetHolds == used <= Budget + 2 * Burst

\* Scores are compared under one configuration only: the guards stop every
\* attempt that does not run under the one the registry was measured under.
\* Exempt are attempts that a remeasurement overtakes, and registries mixed
\* by one that was cut off, by a promotion it overtook, or by a baseline
\* established from an attempt older than it.
GainIsComparable ==
    pc = "judge" /\ result # None /\ ~raced =>
        prev \in {None, loaded} /\ folds \in {None, loaded}

\* A jump is better than the baseline the patch was written for, though
\* prev_best_cv, the base and its folds are read at three different times and
\* promotions come in between.
JumpIsReal ==
    [][pc = "judge" /\ pc' = "idle" /\ ~raced /\ last' # last /\ last'.jump
          => result # None /\ result.kind = "up"]_vars

\* "remeasure 없이도 재개돼야 한다" (cycle/run.py:137): wherever the refusals of
\* two guards, reverts and remeasurements left the pause, an attempt that gets
\* past both guards has lifted it.
ResumedOnceServed == pc = "generate" => paused \notin Parts
=============================================================================
