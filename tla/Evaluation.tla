----------------------------- MODULE Evaluation -----------------------------
(***************************************************************************)
(* One call of eval_isolated (runtime/isolate.py): a worker runs generated *)
(* code in a child process (runtime/runner.py, which calls                 *)
(* evaluate_pipeline of evaluator/harness.py) and watches its memory, its  *)
(* CPU time and its progress log until the child ends or is killed; then   *)
(* it reads what the child left behind.                                    *)
(*                                                                         *)
(* CPU time is counted in units longer than the second the progress log    *)
(* rounds to.  The child uses CPU only while the watcher waits: a poll's   *)
(* own work takes no unit.  Scores are not modelled, only how a result was *)
(* reached: which fold-1 shortcut applies depends on the source alone, the *)
(* folds being the same in every evaluation.                               *)
(***************************************************************************)
EXTENDS Integers, Sequences, FiniteSets, FiniteSetsExt, Functions

CONSTANTS
    NSplits,    \* n_splits
    Candidates, \* how many param_candidates a pipeline may have
    Budget,     \* cpu_budget
    Burst       \* CPU the child can use between two polls

ASSUME EvaluationAssumption ==
    /\ NSplits \in Nat \ {0} /\ Candidates \subseteq Nat
    /\ Budget \in Nat \ {0} /\ Burst \in Nat \ {0}

VARIABLES
    input,   \* source.py and input.json
    stage,   \* where evaluate_pipeline and the runner are
    done,    \* candidates fitted, or folds finished
    cpu,     \* CPU the child has used
    since,   \* of which in this wait of the watcher
    log,     \* _progress.log
    outcome, \* the result the child has reached
    output,  \* output.json
    child,   \* the process
    pc,      \* the watcher
    late,    \* wall_timeout has passed
    reason,  \* why the watcher kills, or "none"
    verdict  \* the IsolatedResult

childVars == <<stage, done, log, outcome, output, child>>
watchVars == <<pc, reason, verdict>>
vars == <<input, cpu, since, late, childVars, watchVars>>

\* What fold 1 tells about the source: it is the base itself ("base": the
\* patch only lists candidates and preselect picked the base's; "tie": the
\* base's fold-1 score), an earlier attempt ("known"), hopeless ("futile"),
\* or none of these ("new").
Likeness == {"base", "tie", "known", "futile", "new"}
Inputs == [cands : Candidates, likeness : Likeness, collect : BOOLEAN]

\* The lines of the progress log: how far evaluate_pipeline was, and when.
Entries ==
    [stage : {"preselect_start", "preselect_fit", "preselect_done", "fold_done", "cv_done"},
     n : Nat, cpu : Nat]

Scores == {"tie", "reused", "futile", "full"}
Projections == {"projected", "preselect"}

TypeOK ==
    /\ input \in Inputs
    /\ stage \in {"setup", "preselect", "folds", "first", "counted", "late", "writing", "end"}
    /\ done \in Nat /\ (done <= input.cands \/ done <= NSplits)
    /\ cpu \in Nat /\ since \in 0..Burst
    /\ log \in Seq(Entries) /\ \A k \in DOMAIN log : log[k].cpu <= cpu
    /\ outcome \in Scores \cup {"none", "error"}
    /\ output \in {"none", "partial", "whole"}
    /\ child \in {"running", "exited", "killed"}
    /\ pc \in {"poll", "kill", "wait", "done"} /\ late \in BOOLEAN
    /\ reason \in Projections \cup {"none", "memory", "budget", "timeout"}
    /\ verdict \in Scores \cup {"none", "error"}

Init ==
    /\ input \in Inputs
    /\ stage = "setup" /\ done = 0 /\ cpu = 0 /\ since = 0 /\ log = <<>>
    /\ outcome = "none" /\ output = "none" /\ child = "running"
    /\ pc = "poll" /\ late = FALSE /\ reason = "none" /\ verdict = "none"

-----------------------------------------------------------------------------
(* The progress log.                                                       *)

Entry(s, n) == [stage |-> s, n |-> n, cpu |-> cpu]
Lines(s)    == {k \in DOMAIN log : log[k].stage = s}
Last(s)     == log[Max(Lines(s))]
CvDone      == Lines("cv_done") # {}

\* The folds are guarded by projections, unless a complete score is asked for.
Projecting == ~input.collect /\ NSplits >= 2

\* Mutant of Estimate: the running fold is counted twice.
EstimateTwice(f, left, start, last, now) ==
    now * f + left * Max({(now - last) * f, last - start})

\* What _projected_cpu estimates, times f: the finished folds took last, and
\* each that is left takes the larger of their average and of what the running
\* one took.  f is the number of finished folds, or 1.
Estimate(f, left, start, last, now) ==
    last * f + left * Max({(now - last) * f, last - start})

\* The estimate during the folds, over cpu_budget * _CPU_PROJECTION_MARGIN.
FoldsProjectOver ==
    LET finished == Cardinality(Lines("fold_done"))
        start    == Last("preselect_done").cpu
        last     == IF finished = 0 THEN start ELSE Last("fold_done").cpu
        f        == Max({finished, 1})
    IN  /\ ~CvDone /\ Lines("preselect_done") # {} /\ finished < NSplits
        /\ 20 * Estimate(f, NSplits - finished, start, last, cpu) > 23 * Budget * f

\* _projected_preselect_cpu, over cpu_budget * _PRESELECT_CPU_FRACTION.
PreselectProjectsOver ==
    LET total   == Last("preselect_start").n
        fitted  == Cardinality(Lines("preselect_fit"))
        start   == Last("preselect_start").cpu
        last    == IF fitted = 0 THEN start ELSE Last("preselect_fit").cpu
        running == Max({(cpu - last) * fitted, last - start})
    IN  /\ ~CvDone /\ Lines("preselect_done") = {} /\ Lines("preselect_start") # {}
        /\ fitted < total
        /\ IF fitted = 0 THEN 2 * cpu > Budget
           ELSE 2 * (last * fitted + running + (total - fitted - 1) * (last - start))
                    > Budget * fitted

-----------------------------------------------------------------------------
(* The child.                                                              *)

Alive == child = "running"

Burn ==
    /\ Alive /\ pc = "wait" /\ since < Burst /\ stage # "end"
    /\ cpu' = cpu + 1 /\ since' = since + 1
    /\ UNCHANGED <<input, late, childVars, watchVars>>

\* A step of the child that logs s and goes on at next.
Reaches(s, n, next) ==
    /\ log' = Append(log, Entry(s, n)) /\ stage' = next
    /\ UNCHANGED <<input, cpu, since, late, output, child, watchVars>>

\* preselect_params: with more than one candidate, each is fitted.
PreselectStart ==
    /\ Alive /\ stage = "setup" /\ input.cands > 1
    /\ Reaches("preselect_start", input.cands, "preselect")
    /\ UNCHANGED <<done, outcome>>

PreselectFit ==
    /\ Alive /\ stage = "preselect" /\ done < input.cands
    /\ done' = done + 1
    /\ Reaches("preselect_fit", done', "preselect")
    /\ UNCHANGED outcome

PreselectDone ==
    /\ Alive
    /\ \/ stage = "setup" /\ input.cands <= 1
       \/ stage = "preselect" /\ done = input.cands
    /\ done' = 0
    /\ Reaches("preselect_done", 0, "folds")
    /\ UNCHANGED outcome

\* Mutant of EndsCv: the result is returned without a word to the watcher.
EndsCvSilently(r) ==
    /\ outcome' = r /\ stage' = "late" /\ UNCHANGED done
    /\ log' = IF r = "full" THEN Append(log, Entry("cv_done", 0)) ELSE log
    /\ UNCHANGED <<input, cpu, since, late, output, child, watchVars>>

\* The cross-validation ends with result r.
EndsCv(r) ==
    /\ outcome' = r /\ Reaches("cv_done", 0, "late") /\ UNCHANGED done

\* _preselect_chose_base.
ChoosesBase ==
    stage = "folds" /\ done = 0 /\ input.likeness = "base" /\ ~input.collect

PreselectChoseBase == Alive /\ ChoosesBase /\ EndsCv("tie")

Fold ==
    /\ Alive /\ stage = "folds" /\ ~ChoosesBase /\ done < NSplits
    /\ done' = done + 1
    /\ Reaches("fold_done", done', IF done = 0 THEN "first" ELSE "folds")
    /\ UNCHANGED outcome

\* Mutant of Shortcut: it is taken by a merge-verify evaluation too.
ShortcutAlways(l) == stage = "first" /\ input.likeness = l

\* fold1_shortcut_ok (a discrete metric without fold1_reuse_discrete has the
\* likeness "new" or "futile") and the two shortcuts of _after_first_fold.
Shortcut(l) == stage = "first" /\ input.likeness = l /\ ~input.collect

Fold1Tie    == Alive /\ Shortcut("tie") /\ EndsCv("tie")
Fold1Futile == Alive /\ Shortcut("futile") /\ EndsCv("futile")

\* Execution leaves the usual path to write an error_trace.
Fails ==
    /\ outcome' = "error" /\ stage' = "writing" /\ output' = "partial"
    /\ UNCHANGED <<input, cpu, since, late, done, log, child, watchVars>>

\* The projection after fold 1, at the CPU time of the fold_done line.
ChildProjectsOver ==
    LET start == Last("preselect_done").cpu
        now   == Last("fold_done").cpu
    IN  Projecting /\ 20 * (now + (now - start) * (NSplits - 1)) > 23 * Budget

\* The rest of _after_first_fold: the folds of an earlier attempt are taken
\* over, the evaluation is refused, or it goes on.  A sample of the futile
\* ones goes on as well (_FUTILITY_AUDIT_FRAC).
AfterFirst ==
    /\ Alive /\ stage = "first" /\ ~Shortcut("tie")
    /\ \/ /\ Shortcut("known") /\ stage' = "counted"
          /\ UNCHANGED <<input, cpu, since, late, done, log, outcome, output, child, watchVars>>
       \/ /\ ~Shortcut("known") /\ ~ChildProjectsOver /\ stage' = "folds"
          /\ UNCHANGED <<input, cpu, since, late, done, log, outcome, output, child, watchVars>>
       \/ ~Shortcut("known") /\ ChildProjectsOver /\ Fails

\* The end of evaluate_pipeline; _check_leakage may still reject the score.
FoldsDone ==
    /\ Alive
    /\ \E leak \in BOOLEAN :
           \/ /\ stage = "folds" /\ done = NSplits
              /\ EndsCv(IF leak THEN "error" ELSE "full")
           \/ /\ stage = "counted"
              /\ EndsCv(IF leak THEN "error" ELSE "reused")

\* Any exception of the setup or of evaluate_pipeline.
Raises == Alive /\ stage \in {"setup", "preselect", "folds", "first"} /\ Fails

\* _eval_holdout, when there is a holdout: it selects the parameters again and
\* logs that it does (the lines of its fits, which no reader gets to, are left
\* out).  Its failure leaves the score alone.
Holdout ==
    /\ Alive /\ stage = "late" /\ outcome # "error"
    /\ input.cands > 1 /\ log[Len(log)].stage # "preselect_start"
    /\ Reaches("preselect_start", input.cands, "late")
    /\ UNCHANGED <<done, outcome>>

\* _write is not atomic: the file exists before it is complete.
WriteBegins ==
    /\ Alive /\ stage = "late" /\ stage' = "writing" /\ output' = "partial"
    /\ UNCHANGED <<input, cpu, since, late, done, log, outcome, child, watchVars>>

WriteEnds ==
    /\ Alive /\ stage = "writing" /\ stage' = "end" /\ output' = "whole"
    /\ UNCHANGED <<input, cpu, since, late, done, log, outcome, child, watchVars>>

\* The child exits, or dies at any point (a crash in a library, the kernel's
\* OOM killer, an os._exit of the generated code).
Exits ==
    /\ Alive /\ child' = "exited"
    /\ UNCHANGED <<input, cpu, since, late, stage, done, log, outcome, output, watchVars>>

Child ==
    \/ Burn \/ PreselectStart \/ PreselectFit \/ PreselectDone \/ PreselectChoseBase
    \/ Fold \/ Fold1Tie \/ Fold1Futile \/ AfterFirst \/ FoldsDone \/ Raises
    \/ Holdout \/ WriteBegins \/ WriteEnds \/ Exits

-----------------------------------------------------------------------------
(* The watcher.                                                            *)

\* Mutant of Findings: merge-verify evaluations are not held to the budget.
FindingsProjectingOnly ==
    {f \in {"memory"} : Alive} \cup
    {CASE Projecting /\ cpu > Budget          -> "budget"
       [] Projecting /\ FoldsProjectOver      -> "projected"
       [] Projecting /\ PreselectProjectsOver -> "preselect"
       [] late                                -> "timeout"
       [] OTHER                               -> "none"}

\* Mutant of Findings: no wall timeout.
FindingsNoTimeout ==
    {f \in {"memory"} : Alive} \cup
    {CASE cpu > Budget                        -> "budget"
       [] Projecting /\ FoldsProjectOver      -> "projected"
       [] Projecting /\ PreselectProjectsOver -> "preselect"
       [] OTHER                               -> "none"}

\* A poll in the order of _watch: what it may find, "none" if it goes on to
\* wait.  The memory of a child that has exited is not read any more, its CPU
\* time is until it is waited for.
Findings ==
    {f \in {"memory"} : Alive} \cup
    {CASE cpu > Budget                        -> "budget"
       [] Projecting /\ FoldsProjectOver      -> "projected"
       [] Projecting /\ PreselectProjectsOver -> "preselect"
       [] late                                -> "timeout"
       [] OTHER                               -> "none"}

Poll ==
    /\ pc = "poll" /\ reason' \in Findings
    /\ pc' = IF reason' = "none" THEN "wait" ELSE "kill"
    /\ UNCHANGED <<input, cpu, since, late, childVars, verdict>>

\* _read_result: the reason of a kill comes before anything that was written.
Reads ==
    /\ pc' = "done"
    /\ verdict' = IF reason = "none" /\ output = "whole" THEN outcome ELSE "error"

\* The child went on until it is killed.
Kill ==
    /\ pc = "kill" /\ Reads
    /\ child' = IF Alive THEN "killed" ELSE child
    /\ UNCHANGED <<input, cpu, since, late, stage, done, log, outcome, output, reason>>

\* proc.wait returns at once when the child has exited.
Wait ==
    /\ pc = "wait" /\ since' = 0
    /\ \/ Alive /\ pc' = "poll" /\ UNCHANGED verdict
       \/ ~Alive /\ Reads
    /\ UNCHANGED <<input, cpu, late, childVars, reason>>

\* wall_timeout passes, and with it the wait.
Deadline ==
    /\ pc = "wait" /\ Alive /\ pc' = "poll" /\ late' = TRUE /\ since' = 0
    /\ UNCHANGED <<input, cpu, childVars, reason, verdict>>

Watcher == Poll \/ Kill \/ Wait

Next == Child \/ Watcher \/ Deadline

\* The watcher is a loop of the worker, and endless waits outlast the wall
\* timeout; the child owes nothing.
Spec == Init /\ [][Next]_vars /\ WF_vars(Watcher) /\ SF_vars(Deadline)

-----------------------------------------------------------------------------
(* Properties.                                                             *)

Decides(R) == reason = "none" /\ reason' \in R

\* No evaluation, whatever its mode and wherever it is, uses more CPU than
\* the budget and what fits between two polls.
BudgetHolds == cpu <= Budget + Burst

\* A projection speaks of work still to be done: the watcher never decides on
\* one for an evaluation that has its result, whatever shortcut it took (#448).
ProjectionSparesTheFinished ==
    [][Decides(Projections) => outcome \in {"none", "error"}]_vars

\* Every fold as slow as the slowest one so far, finished or running.
SlowestProjectsOver ==
    LET finished == Cardinality(Lines("fold_done"))
        begin[n \in 1..(finished + 1)] ==
            IF n = 1 THEN Last("preselect_done").cpu
            ELSE (CHOOSE e \in Range(log) : e.stage = "fold_done" /\ e.n = n - 1).cpu
        costs == {begin[n + 1] - begin[n] : n \in 1..finished}
                     \cup {cpu - begin[finished + 1]}
    IN  20 * (begin[1] + NSplits * Max(costs)) > 23 * Budget

\* A kill by projection is backed by what was measured: never is an evaluation
\* killed that would fit with every fold as slow as its slowest one.
ProjectionIsBacked == [][Decides({"projected"}) => SlowestProjectsOver]_vars

\* A merge-verify evaluation, which stores the scores of the new base, ends
\* with all the folds computed or without a score, and no estimate ends it.
MergeVerifyIsComplete ==
    input.collect => verdict \in {"none", "error", "full"} /\ reason \notin Projections

\* The worker gets an answer, also from a child that hangs.
EvaluationEnds == <>(verdict # "none")
=============================================================================
