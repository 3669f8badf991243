-------------------------- MODULE EvaluationProofs --------------------------
(***************************************************************************)
(* Proofs about one isolated evaluation, for any number of folds and       *)
(* candidates, any CPU budget and any pace of the watcher.                 *)
(***************************************************************************)
EXTENDS Evaluation, FiniteSetTheorems, SequenceTheorems, WellFoundedInduction, TLAPS

\* A line written to the log is an entry, and the ones before it stay.
LEMMA LogStep ==
    ASSUME TypeOK, NEW s \in {"preselect_start", "preselect_fit", "preselect_done",
                              "fold_done", "cv_done"},
           NEW n \in Nat, log' = Append(log, Entry(s, n))
    PROVE  /\ log' \in Seq(Entries)
           /\ \A k \in DOMAIN log' : log'[k].cpu <= cpu
           /\ \A k \in DOMAIN log : k \in DOMAIN log' /\ log'[k] = log[k]
           /\ \E k \in DOMAIN log' : log'[k].stage = s
<1>1. Entry(s, n) \in Entries /\ Entry(s, n).cpu = cpu /\ Entry(s, n).stage = s
  BY DEF TypeOK, Entries, Entry
<1>2. log \in Seq(Entries)
  BY DEF TypeOK
<1>3. /\ log' \in Seq(Entries) /\ Len(log') = Len(log) + 1
      /\ \A k \in 1..Len(log) : log'[k] = log[k]
      /\ log'[Len(log) + 1] = Entry(s, n)
  BY <1>1, <1>2, AppendProperties
<1>4. /\ DOMAIN log = 1..Len(log) /\ DOMAIN log' = 1..(Len(log) + 1) /\ Len(log) \in Nat
  BY <1>2, <1>3, LenProperties
<1>5. \A k \in DOMAIN log' : log'[k].cpu <= cpu
  <2> SUFFICES ASSUME NEW k \in DOMAIN log' PROVE log'[k].cpu <= cpu
    OBVIOUS
  <2>1. CASE k = Len(log) + 1
    BY <2>1, <1>1, <1>3 DEF TypeOK
  <2>2. CASE k \in DOMAIN log
    BY <2>2, <1>3, <1>4 DEF TypeOK
  <2> QED
    BY <2>1, <2>2, <1>4
<1> QED
  BY <1>1, <1>3, <1>4, <1>5

\* A step that leaves the log and the watcher's clock alone keeps the log.
LEMMA LogKept ==
    ASSUME TypeOK, UNCHANGED log, cpu' = cpu \/ cpu' = cpu + 1
    PROVE  log' \in Seq(Entries) /\ \A k \in DOMAIN log' : log'[k].cpu <= cpu'
<1>1. \A k \in DOMAIN log : log[k].cpu \in Nat
  <2>1. \A k \in DOMAIN log : log[k] \in Entries
    BY ElementOfSeq, LenProperties DEF TypeOK
  <2> QED
    BY <2>1 DEF Entries
<1> QED
  BY <1>1 DEF TypeOK

\* Every step of the child keeps the type.
LEMMA ChildType == ASSUME TypeOK, Child PROVE TypeOK'
<1> USE EvaluationAssumption
<1>0. input.cands \in Nat
  BY DEF TypeOK, Inputs
<1>1. CASE Burn
  BY <1>1, LogKept DEF Burn, TypeOK, childVars, watchVars
<1>2. CASE PreselectStart
  <2>1. log' = Append(log, Entry("preselect_start", input.cands))
    BY <1>2 DEF PreselectStart, Reaches
  <2> QED
    BY <1>2, <2>1, <1>0, LogStep DEF PreselectStart, Reaches, TypeOK, watchVars
<1>3. CASE PreselectFit
  <2>1. log' = Append(log, Entry("preselect_fit", done + 1)) /\ done + 1 \in Nat
    BY <1>3 DEF PreselectFit, Reaches, TypeOK
  <2>2. log' \in Seq(Entries) /\ \A k \in DOMAIN log' : log'[k].cpu <= cpu
    BY <2>1, LogStep
  <2> QED
    BY <1>3, <2>2, <1>0 DEF PreselectFit, Reaches, TypeOK, watchVars
<1>4. CASE PreselectDone
  <2>1. log' = Append(log, Entry("preselect_done", 0))
    BY <1>4 DEF PreselectDone, Reaches
  <2> QED
    BY <1>4, <2>1, <1>0, LogStep DEF PreselectDone, Reaches, TypeOK, watchVars
<1>5. ASSUME NEW r \in Scores \cup {"error"}, EndsCv(r) PROVE TypeOK'
  <2>1. log' = Append(log, Entry("cv_done", 0))
    BY <1>5 DEF EndsCv, Reaches
  <2> QED
    BY <1>5, <2>1, LogStep DEF EndsCv, Reaches, TypeOK, watchVars
<1>6. CASE PreselectChoseBase \/ Fold1Tie \/ Fold1Futile \/ FoldsDone
  BY <1>5, <1>6 DEF PreselectChoseBase, Fold1Tie, Fold1Futile, FoldsDone, Scores
<1>7. CASE Fold
  <2>1. log' = Append(log, Entry("fold_done", done + 1)) /\ done + 1 \in Nat
    BY <1>7 DEF Fold, Reaches, TypeOK
  <2>2. log' \in Seq(Entries) /\ \A k \in DOMAIN log' : log'[k].cpu <= cpu
    BY <2>1, LogStep
  <2> QED
    BY <1>7, <2>2, <1>0 DEF Fold, Reaches, TypeOK, watchVars
<1>8. CASE AfterFirst \/ Raises \/ WriteBegins \/ WriteEnds \/ Exits
  BY <1>8, LogKept DEF AfterFirst, Raises, Fails, WriteBegins, WriteEnds, Exits, TypeOK,
     watchVars
<1>9. CASE Holdout
  <2>1. log' = Append(log, Entry("preselect_start", input.cands))
    BY <1>9 DEF Holdout, Reaches
  <2> QED
    BY <1>9, <2>1, <1>0, LogStep DEF Holdout, Reaches, TypeOK, watchVars
<1> QED
  BY <1>1, <1>2, <1>3, <1>4, <1>6, <1>7, <1>8, <1>9 DEF Child

\* The watcher kills for a reason, or not at all.
LEMMA FindingsType ==
    Findings \subseteq Projections \cup {"none", "memory", "budget", "timeout"}
  BY DEF Findings, Projections

\* So does every step of the watcher.
LEMMA WatcherType == ASSUME TypeOK, Watcher \/ Deadline PROVE TypeOK'
<1>1. CASE Poll
  <2>1. reason' \in Projections \cup {"none", "memory", "budget", "timeout"}
    BY <1>1, FindingsType DEF Poll
  <2> QED
    BY <1>1, <2>1, LogKept DEF Poll, TypeOK, childVars
<1>2. CASE Kill \/ Wait \/ Deadline
  <2>1. /\ log' \in Seq(Entries) /\ \A k \in DOMAIN log' : log'[k].cpu <= cpu'
        /\ since' \in 0..Burst
    BY <1>2, LogKept, EvaluationAssumption DEF Kill, Wait, Deadline, childVars, TypeOK
  <2>2. verdict' \in Scores \cup {"none", "error"}
    BY <1>2 DEF Kill, Wait, Deadline, Reads, TypeOK
  <2>3. pc' \in {"poll", "kill", "wait", "done"} /\ child' \in {"running", "exited", "killed"}
    BY <1>2 DEF Kill, Wait, Deadline, Reads, TypeOK, childVars
  <2> QED
    BY <1>2, <2>1, <2>2, <2>3 DEF Kill, Wait, Deadline, childVars, TypeOK
<1> QED
  BY <1>1, <1>2 DEF Watcher

\* An evaluation starts with the type ...
LEMMA TypeInit == ASSUME Init PROVE TypeOK
<1>1. input.cands \in Nat
  BY EvaluationAssumption DEF Init, Inputs
<1>2. log \in Seq(Entries) /\ DOMAIN log = {}
  BY EmptySeq DEF Init
<1>3. \A k \in DOMAIN log : log[k].cpu <= cpu
  BY <1>2
<1>4. done \in Nat /\ (done <= input.cands \/ done <= NSplits) /\ cpu \in Nat /\ since \in 0..Burst
  BY <1>1, EvaluationAssumption DEF Init
<1> QED
  BY <1>2, <1>3, <1>4 DEF Init, TypeOK

\* ... and every step keeps it.
LEMMA TypeStep == ASSUME TypeOK, [Next]_vars PROVE TypeOK'
<1>1. CASE UNCHANGED vars
  BY <1>1 DEF vars, childVars, watchVars, TypeOK
<1> QED
  BY <1>1, ChildType, WatcherType DEF Next

\* Every state of an evaluation has the type; its log lines never run ahead of
\* the CPU time they were written at.
THEOREM TypeCorrect == Spec => []TypeOK
  BY TypeInit, TypeStep, PTL DEF Spec

-----------------------------------------------------------------------------
(* The CPU budget.  A poll that lets the child go on has seen no more than *)
(* the budget, and until the next one the child uses a burst at most.      *)

BudgetInv ==
    /\ TypeOK
    /\ pc = "wait" => cpu <= Budget + since
    /\ cpu <= Budget + Burst

\* A poll that finds nothing has seen a child within its budget, and one that
\* decides on a projection has seen no cv_done line and a projecting mode.
LEMMA FindingsMean ==
    /\ "none" \in Findings => ~(cpu > Budget)
    /\ \A p \in Projections : p \in Findings => Projecting /\ ~CvDone
<1>1. "none" \in Findings => ~(cpu > Budget)
  BY DEF Findings
<1>2. "projected" \in Findings => Projecting /\ FoldsProjectOver
  BY DEF Findings
<1>3. "preselect" \in Findings => Projecting /\ PreselectProjectsOver
  BY DEF Findings
<1>4. (FoldsProjectOver => ~CvDone) /\ (PreselectProjectsOver => ~CvDone)
  BY DEF FoldsProjectOver, PreselectProjectsOver
<1> QED
  BY <1>1, <1>2, <1>3, <1>4 DEF Projections

\* BudgetHolds (isolate.py:279): in every mode and at every stage the child
\* has used the budget and one burst at most.
THEOREM BudgetCorrect == Spec => []BudgetHolds
<1>1. ASSUME Init PROVE BudgetInv
  <2>1. pc = "poll" /\ cpu = 0
    BY <1>1 DEF Init
  <2> QED
    BY <1>1, <2>1, TypeInit, EvaluationAssumption DEF BudgetInv
<1>2. ASSUME BudgetInv, [Next]_vars PROVE BudgetInv'
  <2>1. TypeOK /\ TypeOK'
    BY <1>2, TypeStep DEF BudgetInv
  <2>2. CASE Burn
    BY <1>2, <2>1, <2>2, EvaluationAssumption DEF Burn, BudgetInv, TypeOK, watchVars
  <2>3. CASE Child /\ ~Burn
    <3>1. UNCHANGED <<cpu, since, pc>>
      BY <2>3 DEF Child, PreselectStart, PreselectFit, PreselectDone, PreselectChoseBase,
         Fold, Fold1Tie, Fold1Futile, AfterFirst, FoldsDone, Raises, Holdout, WriteBegins,
         WriteEnds, Exits, EndsCv, Reaches, Fails, watchVars
    <3> QED
      BY <1>2, <2>1, <3>1 DEF BudgetInv
  <2>4. CASE Poll
    <3>1. pc' = "wait" => ~(cpu > Budget)
      BY <2>4, FindingsMean DEF Poll
    <3> QED
      BY <1>2, <2>1, <2>4, <3>1, EvaluationAssumption DEF Poll, BudgetInv, TypeOK
  <2>5. CASE Kill \/ Wait \/ Deadline
    BY <1>2, <2>1, <2>5 DEF Kill, Wait, Deadline, Reads, BudgetInv
  <2>6. CASE UNCHANGED vars
    BY <1>2, <2>1, <2>6 DEF vars, watchVars, BudgetInv
  <2> QED
    BY <1>2, <2>2, <2>3, <2>4, <2>5, <2>6 DEF Next, Watcher
<1>3. BudgetInv => BudgetHolds
  BY DEF BudgetInv, BudgetHolds
<1> QED
  BY <1>1, <1>2, <1>3, PTL DEF Spec

-----------------------------------------------------------------------------
(* Merge-verify evaluations.  Every shortcut and every projection asks     *)
(* first whether a complete score is wanted.                               *)

CompleteInv ==
    input.collect =>
        /\ stage # "counted"
        /\ outcome \in {"none", "error", "full"}
        /\ verdict \in {"none", "error", "full"}
        /\ reason \notin Projections

\* MergeVerifyIsComplete (harness.py:1212): a merge-verify evaluation is never
\* ended by an estimate, and its score is that of all folds.
THEOREM MergeVerifyCorrect == Spec => []MergeVerifyIsComplete
<1>1. Init => CompleteInv
  BY DEF Init, CompleteInv, Projections
<1>2. ASSUME CompleteInv, [Next]_vars PROVE CompleteInv'
  <2> SUFFICES ASSUME input'.collect PROVE CompleteInv'
    BY DEF CompleteInv
  <2>0. input' = input
    BY <1>2 DEF Next, Child, Watcher, vars, childVars, watchVars, Burn, PreselectStart,
       PreselectFit, PreselectDone, PreselectChoseBase, Fold, Fold1Tie, Fold1Futile,
       AfterFirst, FoldsDone, Raises, Holdout, WriteBegins, WriteEnds, Exits, EndsCv,
       Reaches, Fails, Poll, Kill, Wait, Deadline, Reads
  <2>1. CASE Child
    <3>1. UNCHANGED <<reason, verdict>>
      BY <2>1 DEF Child, Burn, PreselectStart, PreselectFit, PreselectDone,
         PreselectChoseBase, Fold, Fold1Tie, Fold1Futile, AfterFirst, FoldsDone, Raises,
         Holdout, WriteBegins, WriteEnds, Exits, EndsCv, Reaches, Fails, watchVars
    <3>2. stage' # "counted" /\ outcome' \in {"none", "error", "full"}
      BY <1>2, <2>0, <2>1 DEF CompleteInv, Child, Burn, PreselectStart, PreselectFit,
         PreselectDone, PreselectChoseBase, ChoosesBase, Fold, Fold1Tie, Fold1Futile,
         Shortcut, AfterFirst, FoldsDone, Raises, Holdout, WriteBegins, WriteEnds, Exits,
         EndsCv, Reaches, Fails, childVars
    <3> QED
      BY <1>2, <2>0, <3>1, <3>2 DEF CompleteInv
  <2>2. CASE Poll
    <3>1. reason' \notin Projections
      BY <2>0, <2>2, FindingsMean DEF Poll, Projecting
    <3> QED
      BY <1>2, <2>0, <2>2, <3>1 DEF Poll, CompleteInv, childVars
  <2>3. CASE Kill \/ Wait \/ Deadline
    BY <1>2, <2>0, <2>3 DEF Kill, Wait, Deadline, Reads, CompleteInv, childVars
  <2>4. CASE UNCHANGED vars
    BY <1>2, <2>4 DEF vars, childVars, watchVars, CompleteInv
  <2> QED
    BY <1>2, <2>1, <2>2, <2>3, <2>4 DEF Next, Watcher
<1>3. CompleteInv => MergeVerifyIsComplete
  BY DEF CompleteInv, MergeVerifyIsComplete
<1> QED
  BY <1>1, <1>2, <1>3, PTL DEF Spec

-----------------------------------------------------------------------------
(* Finished evaluations.  Whatever ended the cross-validation with a score *)
(* has written cv_done before, and the log only grows.                     *)

FinishedInv == TypeOK /\ (outcome \in Scores => CvDone)

\* The log keeps its cv_done line.
LEMMA CvDoneStays ==
    ASSUME TypeOK, CvDone,
           \/ UNCHANGED log
           \/ \E s \in {"preselect_start", "preselect_fit", "preselect_done", "fold_done",
                        "cv_done"}, n \in Nat : log' = Append(log, Entry(s, n))
    PROVE  CvDone'
<1>1. PICK k \in DOMAIN log : log[k].stage = "cv_done"
  BY DEF CvDone, Lines
<1>2. k \in DOMAIN log' /\ log'[k] = log[k]
  BY LogStep
<1> QED
  BY <1>1, <1>2 DEF CvDone, Lines

\* ProjectionSparesTheFinished (isolate.py:300, #448): a poll never decides on a
\* projection when the evaluation has its score.
THEOREM ProjectionsCorrect == Spec => ProjectionSparesTheFinished
<1>1. Init => FinishedInv
  BY TypeInit DEF Init, FinishedInv, Scores
<1>2. ASSUME FinishedInv, [Next]_vars PROVE FinishedInv'
  <2>1. TypeOK /\ TypeOK'
    BY <1>2, TypeStep DEF FinishedInv
  <2>2. ASSUME NEW r \in Scores \cup {"error"}, EndsCv(r) PROVE CvDone'
    <3>1. log' = Append(log, Entry("cv_done", 0))
      BY <2>2 DEF EndsCv, Reaches
    <3> QED
      BY <2>1, <3>1, LogStep DEF CvDone, Lines
  <2>3. CASE PreselectChoseBase \/ Fold1Tie \/ Fold1Futile \/ FoldsDone
    BY <2>1, <2>2, <2>3 DEF PreselectChoseBase, Fold1Tie, Fold1Futile, FoldsDone, Scores,
       FinishedInv
  <2>4. ASSUME \/ PreselectStart \/ PreselectFit \/ PreselectDone \/ Fold \/ Holdout
        PROVE  FinishedInv'
    <3>1. UNCHANGED outcome
      BY <2>4 DEF PreselectStart, PreselectFit, PreselectDone, Fold, Holdout
    <3>2. input.cands \in Nat /\ done + 1 \in Nat
      <4>1. input \in Inputs /\ done \in Nat
        BY <2>1 DEF TypeOK
      <4>2. input.cands \in Nat
        BY <4>1, EvaluationAssumption DEF Inputs
      <4>3. done + 1 \in Nat
        BY <4>1
      <4> QED
        BY <4>2, <4>3
    <3>3. \E s \in {"preselect_start", "preselect_fit", "preselect_done", "fold_done",
                    "cv_done"}, n \in Nat : log' = Append(log, Entry(s, n))
      BY <2>4, <3>2 DEF PreselectStart, PreselectFit, PreselectDone, Fold, Holdout, Reaches
    <3>4. CvDone => CvDone'
      BY <2>1, <3>3, CvDoneStays
    <3> QED
      BY <1>2, <2>1, <3>1, <3>4 DEF FinishedInv
  <2>5. CASE \/ Burn \/ AfterFirst \/ Raises \/ WriteBegins \/ WriteEnds \/ Exits
             \/ Watcher \/ Deadline \/ UNCHANGED vars
    <3>1. UNCHANGED log /\ (outcome' = outcome \/ outcome' = "error")
      BY <2>5 DEF Burn, AfterFirst, Raises, Fails, WriteBegins, WriteEnds, Exits, Watcher,
         Poll, Kill, Wait, Deadline, Reads, vars, childVars
    <3>2. CvDone => CvDone'
      BY <3>1 DEF CvDone, Lines
    <3> QED
      BY <1>2, <2>1, <3>1, <3>2 DEF FinishedInv, Scores
  <2> QED
    BY <1>2, <2>3, <2>4, <2>5 DEF Next, Child
<1>3. ASSUME FinishedInv, [Next]_vars, Decides(Projections)
      PROVE  outcome \in {"none", "error"}
  <2>1. reason' # reason /\ reason' \in Projections
    BY <1>3 DEF Decides, Projections
  <2>2. Poll
    BY <1>3, <2>1 DEF Next, Child, Watcher, vars, watchVars, Burn, PreselectStart,
       PreselectFit, PreselectDone, PreselectChoseBase, Fold, Fold1Tie, Fold1Futile,
       AfterFirst, FoldsDone, Raises, Holdout, WriteBegins, WriteEnds, Exits, EndsCv,
       Reaches, Fails, Kill, Wait, Deadline
  <2>3. ~CvDone
    BY <2>1, <2>2, FindingsMean DEF Poll
  <2> QED
    BY <1>3, <2>3 DEF FinishedInv, TypeOK
<1>4. ASSUME FinishedInv, [Next]_vars
      PROVE  [Decides(Projections) => outcome \in {"none", "error"}]_vars
  BY <1>3, <1>4
<1> QED
  BY <1>1, <1>2, <1>4, PTL DEF Spec, ProjectionSparesTheFinished

-----------------------------------------------------------------------------
(* The estimate of the folds.  It lets every fold that is left take the     *)
(* longer of the average and of the running one; the slowest fold takes no  *)
(* less than either.                                                        *)

\* A nonempty set of numbers has a least one.
LEMMA LeastElement ==
    ASSUME NEW T, T \subseteq Nat, T # {}
    PROVE  \E n \in T : \A m \in T : n <= m
<1>1. \E x \in T : \A y \in T : ~(<<y, x>> \in OpToRel(<, Nat))
  BY NatLessThanWellFounded, WFMin
<1>2. PICK x \in T : \A y \in T : ~(<<y, x>> \in OpToRel(<, Nat))
  BY <1>1
<1>3. \A y \in T : ~(y < x)
  BY <1>2 DEF OpToRel
<1>4. x \in Nat /\ \A y \in T : y \in Nat
  OBVIOUS
<1>5. \A y \in T : x <= y
  BY <1>3, <1>4
<1> QED
  BY <1>5

\* Of integers that have a bound Max is the greatest.
LEMMA MaxIsGreatest ==
    ASSUME NEW n \in Int, NEW T, T \subseteq Int, T # {}, \A m \in T : m <= n
    PROVE  Max(T) \in T /\ \A m \in T : m <= Max(T)
<1> DEFINE U == {n - m : m \in T}
<1>1. U \subseteq Nat /\ U # {}
  OBVIOUS
<1>2. PICK u \in U : \A v \in U : u <= v
  BY <1>1, LeastElement
<1>3. PICK x \in T : u = n - x
  OBVIOUS
<1>4. \A m \in T : m <= x
  <2> SUFFICES ASSUME NEW m \in T PROVE m <= x
    OBVIOUS
  <2>1. u <= n - m
    BY <1>2
  <2> QED
    BY <1>3, <2>1
<1>5. \E y \in T : \A m \in T : m <= y
  BY <1>4
<1> QED
  BY <1>5 DEF Max

\* Of two numbers Max is one, and not below the other.
LEMMA MaxOfTwo ==
    ASSUME NEW a \in Int, NEW b \in Int
    PROVE  /\ Max({a, b}) = a \/ Max({a, b}) = b
           /\ Max({a, b}) \in Int /\ a <= Max({a, b}) /\ b <= Max({a, b})
<1>1. PICK c \in Int : a <= c /\ b <= c
  <2>1. a <= b \/ b <= a
    OBVIOUS
  <2> QED
    BY <2>1
<1>2. Max({a, b}) \in {a, b} /\ \A m \in {a, b} : m <= Max({a, b})
  BY <1>1, MaxIsGreatest
<1> QED
  BY <1>2

\* A bound on every step bounds the way.
LEMMA StepsAddUp ==
    ASSUME NEW n \in Nat, NEW b, NEW M \in Int, \A i \in 1..(n + 1) : b[i] \in Int,
           \A i \in 1..n : b[i + 1] - b[i] <= M
    PROVE  b[n + 1] <= b[1] + n * M
<1> DEFINE way(k) == b[k + 1] <= b[1] + k * M
<1>1. way(0)
  OBVIOUS
<1>2. ASSUME NEW k \in Nat, k + 1 <= n, way(k)
      PROVE  way(k + 1)
  <2>1. k + 1 \in 1..n /\ (k + 1) \in 1..(n + 1) /\ (k + 2) \in 1..(n + 1) /\ 1 \in 1..(n + 1)
    <3> HIDE DEF way
    <3> QED
      BY <1>2
  <2>2. b[k + 2] - b[k + 1] <= M
    BY <2>1
  <2>3. b[k + 2] \in Int /\ b[k + 1] \in Int /\ b[1] \in Int
    BY <2>1
  <2>4. (k + 1) * M = k * M + M /\ k * M \in Int
    OBVIOUS
  <2>5. b[k + 2] <= b[1] + (k * M + M)
    BY <1>2, <2>2, <2>3, <2>4
  <2> QED
    BY <2>4, <2>5
<1> HIDE DEF way
<1> SUFFICES ASSUME ~way(n) PROVE FALSE
  BY DEF way
<1> DEFINE T == {k \in 0..n : ~way(k)}
<1>3. T \subseteq Nat /\ n \in T
  OBVIOUS
<1>4. PICK k \in T : \A m \in T : k <= m
  <2> HIDE DEF T
  <2> QED
    BY <1>3, LeastElement
<1>5. k # 0
  BY <1>1
<1>6. k - 1 \in 0..n /\ k - 1 \in Nat /\ (k - 1) + 1 = k /\ k <= n /\ ~(k <= k - 1)
  BY <1>5
<1>7. way(k - 1)
  BY <1>4, <1>6
<1>8. way((k - 1) + 1)
  BY <1>2, <1>6, <1>7
<1>9. ~way(k)
  OBVIOUS
<1> QED
  BY <1>6, <1>8, <1>9

\* Factors keep an order.
LEMMA Times == ASSUME NEW a \in Int, NEW b \in Int, NEW c \in Nat, a <= b PROVE a * c <= b * c
  OBVIOUS

\* What the estimate of the watcher says, with M at least the running fold and
\* at least the average of the f that are finished.
LEMMA EstimateBelow ==
    ASSUME NEW f \in Nat \ {0}, NEW left \in Nat, NEW start \in Int, NEW last \in Int,
           NEW now \in Int, NEW M \in Int, now - last <= M, last - start <= f * M
    PROVE  Estimate(f, left, start, last, now) <= f * (start + (f + left) * M)
<1> DEFINE x == (now - last) * f
           y == last - start
           z == f * M
<1>1. x \in Int /\ y \in Int /\ z \in Int
  OBVIOUS
<1>2. x <= z
  <2>1. (now - last) * f <= M * f
    BY Times
  <2> QED
    BY <2>1
<1>3. y <= z
  OBVIOUS
<1> HIDE DEF x, y, z
<1> DEFINE m == Max({x, y})
<1>4. m \in Int /\ m <= z
  BY <1>1, <1>2, <1>3, MaxOfTwo
<1>5. Estimate(f, left, start, last, now) = last * f + left * m
  BY DEF Estimate, x, y
<1> HIDE DEF m
<1>6. m * left <= z * left
  BY <1>1, <1>4, Times
<1>7. last * f <= (start + z) * f
  <2>1. last <= start + z /\ start + z \in Int
    BY <1>1, <1>3 DEF y
  <2> QED
    BY <2>1, Times
<1>8. last * f + m * left <= (start + z) * f + z * left
  BY <1>1, <1>4, <1>6, <1>7
<1>9. (start + z) * f + z * left = f * (start + (f + left) * M)
  BY DEF z
<1>10. left * m = m * left
  BY <1>4
<1> QED
  BY <1>5, <1>8, <1>9, <1>10

\* A factor of both sides may go.
LEMMA Cancel ==
    ASSUME NEW f \in Nat \ {0}, NEW a \in Int, NEW b \in Int, f * a > f * b
    PROVE  a > b
<1> SUFFICES ASSUME a <= b PROVE FALSE
  OBVIOUS
<1>1. a * f <= b * f
  BY Times
<1> QED
  BY <1>1

-----------------------------------------------------------------------------
(* The lines of the folds.                                                 *)

\* The lines of finished folds are numbered from 1 on, one each.
Folds == Lines("fold_done")
Numbered ==
    /\ \A k \in Folds : log[k].n \in 1..Cardinality(Folds)
    /\ \A j, k \in Folds : j < k => log[j].n < log[k].n
    /\ \A n \in 1..Cardinality(Folds) : \E k \in Folds : log[k].n = n

\* Until the cross-validation ends, done counts them.
FoldsInv ==
    /\ TypeOK /\ Numbered
    /\ stage \in {"setup", "preselect"} => Folds = {}
    /\ stage \in {"folds", "first"} => done = Cardinality(Folds)

\* Lines of the log are finitely many entries.
LEMMA LinesFacts ==
    ASSUME TypeOK, NEW s
    PROVE  /\ Len(log) \in Nat /\ Lines(s) \subseteq 1..Len(log) /\ DOMAIN log = 1..Len(log)
           /\ IsFiniteSet(Lines(s)) /\ Cardinality(Lines(s)) \in Nat
           /\ \A k \in 1..Len(log) : log[k] \in Entries /\ log[k].cpu \in Nat /\ log[k].cpu <= cpu
<1>1. log \in Seq(Entries) /\ \A k \in DOMAIN log : log[k].cpu <= cpu
  BY DEF TypeOK
<1>2. Len(log) \in Nat /\ DOMAIN log = 1..Len(log) /\ \A k \in 1..Len(log) : log[k] \in Entries
  BY <1>1, LenProperties, ElementOfSeq
<1>3. Lines(s) \subseteq 1..Len(log)
  BY <1>2 DEF Lines
<1>4. IsFiniteSet(1..Len(log))
  BY <1>2, FS_Interval
<1>5. IsFiniteSet(Lines(s))
  BY <1>3, <1>4, FS_Subset
<1>6. Cardinality(Lines(s)) \in Nat
  BY <1>5, FS_CardinalityType
<1>7. \A e \in Entries : e.cpu \in Nat
  BY DEF Entries
<1> QED
  BY <1>1, <1>2, <1>3, <1>5, <1>6, <1>7

\* A line more.
LEMMA LinesGrow ==
    ASSUME TypeOK, NEW s, NEW n \in Nat, log' = Append(log, Entry(s, n)), NEW t
    PROVE  /\ \A k \in 1..Len(log) : log'[k] = log[k]
           /\ t # s => Lines(t)' = Lines(t)
           /\ Lines(s)' = Lines(s) \cup {Len(log) + 1}
           /\ log'[Len(log) + 1].n = n
<1> DEFINE N == Len(log)
           e == Entry(s, n)
<1>1. log \in Seq(Entries) /\ N \in Nat /\ DOMAIN log = 1..N
  BY LinesFacts DEF TypeOK
<1>2. e.stage = s /\ e.n = n
  BY DEF Entry
<1> HIDE DEF e
<1>3. PICK S : S = Entries \cup {e}
  OBVIOUS
<1>4. log \in Seq(S) /\ e \in S
  <2>1. \A k \in 1..N : log[k] \in S
    BY <1>1, <1>3, ElementOfSeq
  <2> QED
    BY <1>1, <1>3, <2>1, IsASeq
<1>5. Len(log') = N + 1 /\ log'[N + 1] = e /\ \A k \in 1..N : log'[k] = log[k]
  BY <1>4, AppendProperties DEF e
<1>6. DOMAIN log' = 1..(N + 1)
  BY <1>4, <1>5, AppendProperties, LenProperties DEF e
<1>7. \A r : Lines(r)' = {k \in 1..(N + 1) : log'[k].stage = r}
  BY <1>6 DEF Lines
<1>8. \A r : Lines(r) = {k \in 1..N : log[k].stage = r}
  BY <1>1 DEF Lines
<1>9. \A k \in 1..(N + 1) : k \in 1..N \/ k = N + 1
  BY <1>1
<1>10. N + 1 \in 1..(N + 1) /\ N + 1 \notin 1..N /\ \A k \in 1..N : k \in 1..(N + 1)
  BY <1>1
<1> HIDE DEF N
<1>11. t # s => Lines(t)' = Lines(t)
  BY <1>2, <1>5, <1>7, <1>8, <1>9, <1>10
<1>12. Lines(s)' = Lines(s) \cup {N + 1}
  BY <1>2, <1>5, <1>7, <1>8, <1>9, <1>10
<1> QED
  BY <1>2, <1>5, <1>11, <1>12 DEF N

\* Other lines leave the numbers alone.
LEMMA NumberedStays ==
    ASSUME TypeOK, Numbered, NEW s, s # "fold_done", NEW n \in Nat,
           log' = Append(log, Entry(s, n)) \/ log' = log
    PROVE  Numbered' /\ Folds' = Folds
<1>1. Folds \subseteq 1..Len(log)
  BY LinesFacts DEF Folds
<1>2. CASE log' = log
  BY <1>2 DEF Folds, Lines, Numbered
<1>3. CASE log' = Append(log, Entry(s, n))
  <2>1. Folds' = Folds /\ \A k \in Folds : log'[k] = log[k]
    BY <1>1, <1>3, LinesGrow DEF Folds
  <2>2. Cardinality(Folds)' = Cardinality(Folds)
    BY <2>1
  <2>3. /\ \A k \in Folds' : log'[k].n \in 1..Cardinality(Folds)'
        /\ \A j, k \in Folds' : j < k => log'[j].n < log'[k].n
        /\ \A i \in 1..Cardinality(Folds)' : \E k \in Folds' : log'[k].n = i
    BY <2>1, <2>2 DEF Numbered
  <2> QED
    BY <2>1, <2>3 DEF Numbered
<1> QED
  BY <1>2, <1>3

\* A fold more has the next number.
LEMMA NumberedGrows ==
    ASSUME TypeOK, Numbered, log' = Append(log, Entry("fold_done", Cardinality(Folds) + 1))
    PROVE  Numbered' /\ Cardinality(Folds)' = Cardinality(Folds) + 1
<1> DEFINE F == Cardinality(Folds)
           N == Len(log)
<1>1. /\ N \in Nat /\ Folds \subseteq 1..N /\ IsFiniteSet(Folds) /\ F \in Nat
  BY LinesFacts DEF Folds
<1>2. F + 1 \in Nat
  BY <1>1
<1>3. /\ \A k \in 1..N : log'[k] = log[k]
      /\ Folds' = Folds \cup {N + 1} /\ log'[N + 1].n = F + 1
  BY <1>2, LinesGrow DEF Folds
<1>4. N + 1 \notin Folds
  BY <1>1
<1>5. Cardinality(Folds \cup {N + 1}) = F + 1
  BY <1>1, <1>4, FS_AddElement
<1>6. Cardinality(Folds)' = F + 1
  BY <1>3, <1>5
<1>7. /\ \A k \in Folds : log[k].n \in 1..F
      /\ \A j, k \in Folds : j < k => log[j].n < log[k].n
      /\ \A n \in 1..F : \E k \in Folds : log[k].n = n
  BY DEF Numbered
<1>8. \A k \in Folds : log'[k] = log[k] /\ k < N + 1 /\ k \in Int
  BY <1>1, <1>3
<1>0. /\ F + 1 \in 1..(F + 1) /\ N + 1 \in Int /\ \A i \in 1..F : i \in 1..(F + 1) /\ i < F + 1
  BY <1>1
<1> HIDE DEF F, N
<1>9. ASSUME NEW k \in Folds'
      PROVE  log'[k].n \in 1..(F + 1)
  <2>1. CASE k = N + 1
    <3>1. log'[k].n = F + 1
      BY <1>3, <2>1
    <3> QED
      BY <1>0, <3>1
  <2>2. CASE k # N + 1
    <3>1. k \in Folds
      BY <1>3, <2>2
    <3>2. log'[k].n = log[k].n /\ log[k].n \in 1..F
      BY <1>7, <1>8, <3>1
    <3> QED
      BY <1>0, <3>2
  <2> QED
    BY <2>1, <2>2
<1>10. ASSUME NEW j \in Folds', NEW k \in Folds', j < k
       PROVE  log'[j].n < log'[k].n
  <2>2. j # N + 1
    <3>1. ASSUME j = N + 1 PROVE FALSE
      <4>1. k = N + 1 \/ k \in Folds
        BY <1>3
      <4>2. k = N + 1 \/ k < N + 1
        BY <1>8, <4>1
      <4>3. k \in Int
        BY <1>0, <1>8, <4>1
      <4> QED
        BY <1>0, <1>10, <3>1, <4>2, <4>3
    <3> QED
      BY <3>1
  <2>3. j \in Folds
    BY <1>3, <2>2
  <2>4. log'[j].n = log[j].n /\ log[j].n \in 1..F
    BY <1>7, <1>8, <2>3
  <2>5. CASE k = N + 1
    <3>1. log'[k].n = F + 1
      BY <1>3, <2>5
    <3>2. log[j].n < F + 1
      BY <1>0, <2>4
    <3> QED
      BY <2>4, <3>1, <3>2
  <2>6. CASE k # N + 1
    <3>1. k \in Folds
      BY <1>3, <2>6
    <3>2. log'[k].n = log[k].n
      BY <1>8, <3>1
    <3>3. log[j].n < log[k].n
      BY <1>7, <1>10, <2>3, <3>1
    <3> QED
      BY <2>4, <3>2, <3>3
  <2> QED
    BY <2>5, <2>6
<1>11. ASSUME NEW n \in 1..(F + 1)
       PROVE  \E k \in Folds' : log'[k].n = n
  <2>1. CASE n = F + 1
    BY <1>3, <2>1
  <2>2. CASE n # F + 1
    <3>1. n \in 1..F
      BY <1>1, <2>2
    <3>2. PICK k \in Folds : log[k].n = n
      BY <1>7, <3>1
    <3> QED
      BY <1>3, <1>8, <3>2
  <2> QED
    BY <2>1, <2>2
<1>12. /\ \A k \in Folds' : log'[k].n \in 1..Cardinality(Folds)'
       /\ \A j, k \in Folds' : j < k => log'[j].n < log'[k].n
       /\ \A n \in 1..Cardinality(Folds)' : \E k \in Folds' : log'[k].n = n
  BY <1>6, <1>9, <1>10, <1>11 DEF F
<1>13. Numbered'
  BY <1>12 DEF Numbered
<1> QED
  BY <1>6, <1>13 DEF F

\* An evaluation has no fold yet when it starts ...
LEMMA FoldsInit == ASSUME Init PROVE FoldsInv
<1>1. TypeOK
  BY TypeInit
<1>2. Folds = {} /\ stage = "setup"
  BY DEF Init, Folds, Lines
<1>3. Cardinality(Folds) = 0
  BY <1>2, FS_EmptySet
<1>4. Numbered
  BY <1>2, <1>3 DEF Numbered
<1> QED
  BY <1>1, <1>2, <1>4 DEF FoldsInv

\* ... and each of its steps keeps the lines of the folds in order.
LEMMA FoldsStep == ASSUME FoldsInv, [Next]_vars PROVE FoldsInv'
<1>1. TypeOK /\ TypeOK' /\ Numbered
  BY TypeStep DEF FoldsInv
<1>2. IsFiniteSet(Folds) /\ Cardinality(Folds) \in Nat
  BY <1>1, LinesFacts DEF Folds
<1>3. ASSUME NEW s, s # "fold_done", NEW n \in Nat,
             log' = Append(log, Entry(s, n)) \/ log' = log,
             stage' \in {"setup", "preselect"} => stage \in {"setup", "preselect"},
             stage' \in {"folds", "first"} => done' = Cardinality(Folds)
      PROVE  FoldsInv'
  <2>1. Numbered' /\ Folds' = Folds
    BY <1>1, <1>3, NumberedStays
  <2>2. Cardinality(Folds)' = Cardinality(Folds)
    BY <2>1
  <2>3. (stage \in {"setup", "preselect"})' => Folds' = {}
    BY <1>3, <2>1 DEF FoldsInv
  <2>4. (stage \in {"folds", "first"})' => done' = Cardinality(Folds)'
    BY <1>3, <2>2
  <2> QED
    BY <1>1, <2>1, <2>3, <2>4 DEF FoldsInv
<1>4. 0 \in Nat /\ input.cands \in Nat /\ done + 1 \in Nat
  <2>1. input \in Inputs /\ done \in Nat
    BY <1>1 DEF TypeOK
  <2>2. input.cands \in Nat
    BY <2>1, EvaluationAssumption DEF Inputs
  <2> QED
    BY <2>1, <2>2
<1>5. CASE PreselectStart \/ Holdout
  <2>1. /\ log' = Append(log, Entry("preselect_start", input.cands))
        /\ stage' = stage \/ (stage = "setup" /\ stage' = "preselect")
        /\ stage' \notin {"folds", "first"}
    BY <1>5 DEF PreselectStart, Holdout, Reaches
  <2> QED
    BY <1>3, <1>4, <2>1
<1>6. CASE PreselectFit
  <2>1. /\ log' = Append(log, Entry("preselect_fit", done + 1))
        /\ stage' = "preselect" /\ stage = "preselect"
    BY <1>6 DEF PreselectFit, Reaches
  <2> QED
    BY <1>3, <1>4, <2>1
<1>7. CASE PreselectDone
  <2>1. /\ log' = Append(log, Entry("preselect_done", 0))
        /\ stage' = "folds" /\ stage \in {"setup", "preselect"} /\ done' = 0
    BY <1>7 DEF PreselectDone, Reaches
  <2>2. Folds = {}
    BY <2>1 DEF FoldsInv
  <2>3. done' = Cardinality(Folds)
    BY <2>1, <2>2, FS_EmptySet
  <2> QED
    BY <1>3, <1>4, <2>1, <2>3
<1>8. ASSUME NEW r, EndsCv(r) PROVE FoldsInv'
  <2>1. log' = Append(log, Entry("cv_done", 0)) /\ stage' = "late"
    BY <1>8 DEF EndsCv, Reaches
  <2> QED
    BY <1>3, <1>4, <2>1
<1>9. CASE PreselectChoseBase \/ Fold1Tie \/ Fold1Futile \/ FoldsDone
  BY <1>8, <1>9 DEF PreselectChoseBase, Fold1Tie, Fold1Futile, FoldsDone
<1>10. CASE Fold
  <2>1. /\ log' = Append(log, Entry("fold_done", done + 1)) /\ done' = done + 1
        /\ stage = "folds" /\ stage' \in {"folds", "first"}
    BY <1>10 DEF Fold, Reaches
  <2>2. done = Cardinality(Folds)
    BY <2>1 DEF FoldsInv
  <2>3. log' = Append(log, Entry("fold_done", Cardinality(Folds) + 1))
    BY <2>1, <2>2
  <2>4. Numbered' /\ Cardinality(Folds)' = Cardinality(Folds) + 1
    BY <1>1, <2>3, NumberedGrows
  <2>5. done' = Cardinality(Folds)'
    BY <2>1, <2>2, <2>4
  <2>6. stage' \notin {"setup", "preselect"}
    BY <2>1
  <2> QED
    BY <1>1, <2>4, <2>5, <2>6 DEF FoldsInv
<1>11. CASE \/ Burn \/ AfterFirst \/ Raises \/ WriteBegins \/ WriteEnds \/ Exits
            \/ Watcher \/ Deadline \/ UNCHANGED vars
  <2>1. UNCHANGED <<log, done>>
    BY <1>11 DEF Burn, AfterFirst, Raises, Fails, WriteBegins, WriteEnds, Exits, Watcher,
       Poll, Kill, Wait, Deadline, vars, childVars
  <2>2. \/ stage' = stage \/ stage' \notin {"setup", "preselect", "folds", "first"}
        \/ stage = "first" /\ stage' = "folds"
    BY <1>11 DEF Burn, AfterFirst, Raises, Fails, WriteBegins, WriteEnds, Exits, Watcher,
       Poll, Kill, Wait, Deadline, vars, childVars
  <2>3. stage' \in {"setup", "preselect"} => stage \in {"setup", "preselect"}
    BY <2>2
  <2>4. stage' \in {"folds", "first"} => done' = Cardinality(Folds)
    BY <2>1, <2>2 DEF FoldsInv
  <2>5. "cv_done" # "fold_done"
    OBVIOUS
  <2> QED
    BY <1>3, <1>4, <2>1, <2>3, <2>4, <2>5
<1> QED
  BY <1>5, <1>6, <1>7, <1>9, <1>10, <1>11 DEF Next, Child

\* The last line of a kind is one of them, and no other comes after it.
LEMMA LastFacts ==
    ASSUME TypeOK, NEW s, Lines(s) # {}
    PROVE  /\ Max(Lines(s)) \in Lines(s) /\ \A k \in Lines(s) : k <= Max(Lines(s))
           /\ Last(s).cpu \in Nat /\ Last(s).cpu <= cpu
<1>1. /\ Len(log) \in Nat /\ Lines(s) \subseteq 1..Len(log)
      /\ \A k \in 1..Len(log) : log[k].cpu \in Nat /\ log[k].cpu <= cpu
  BY LinesFacts
<1>2. Len(log) \in Int /\ Lines(s) \subseteq Int /\ \A m \in Lines(s) : m <= Len(log)
  BY <1>1
<1>3. Max(Lines(s)) \in Lines(s) /\ \A k \in Lines(s) : k <= Max(Lines(s))
  BY <1>2, MaxIsGreatest
<1> QED
  BY <1>1, <1>3 DEF Last

\* Where the n-th fold ended.
EndOf(n) == CHOOSE e \in Range(log) : e.stage = "fold_done" /\ e.n = n

\* There is one line for every finished fold ...
LEMMA EndFacts ==
    ASSUME FoldsInv, NEW n \in 1..Cardinality(Folds)
    PROVE  /\ EndOf(n).cpu \in Nat /\ EndOf(n).cpu <= cpu
           /\ \E k \in Folds : log[k] = EndOf(n) /\ log[k].n = n
<1>1. /\ TypeOK /\ DOMAIN log = 1..Len(log)
      /\ \A k \in 1..Len(log) : log[k].cpu \in Nat /\ log[k].cpu <= cpu
  BY LinesFacts DEF FoldsInv
<1>2. Folds = {k \in 1..Len(log) : log[k].stage = "fold_done"}
  BY <1>1 DEF Folds, Lines
<1>3. PICK k \in Folds : log[k].n = n
  BY DEF FoldsInv, Numbered
<1>4. Range(log) = {log[j] : j \in 1..Len(log)}
  BY <1>1 DEF Range
<1>5. log[k] \in Range(log) /\ log[k].stage = "fold_done" /\ log[k].n = n
  BY <1>2, <1>3, <1>4
<1>6. EndOf(n) \in Range(log) /\ EndOf(n).stage = "fold_done" /\ EndOf(n).n = n
  BY <1>5 DEF EndOf
<1>7. PICK j \in 1..Len(log) : EndOf(n) = log[j]
  BY <1>4, <1>6
<1>8. j \in Folds /\ log[j].n = n
  BY <1>2, <1>6, <1>7
<1> QED
  BY <1>1, <1>7, <1>8

\* ... and the last line is the one of the last fold.
LEMMA LastFold ==
    ASSUME FoldsInv, Folds # {}
    PROVE  /\ Cardinality(Folds) \in 1..Cardinality(Folds)
           /\ EndOf(Cardinality(Folds)) = Last("fold_done")
<1> DEFINE F == Cardinality(Folds)
           m == Max(Folds)
<1>1. TypeOK /\ IsFiniteSet(Folds) /\ F \in Nat /\ Folds \subseteq 1..Len(log) /\ Len(log) \in Nat
  BY LinesFacts DEF FoldsInv, Folds
<1>2. F # 0
  BY <1>1, FS_EmptySet
<1>3. F \in 1..F
  BY <1>1, <1>2
<1>4. PICK k \in Folds : log[k] = EndOf(F) /\ log[k].n = F
  BY <1>3, EndFacts
<1>5. m \in Folds /\ k <= m
  BY <1>1, LastFacts DEF Folds
<1>6. log[m].n \in 1..F /\ (k < m => log[k].n < log[m].n)
  BY <1>5 DEF FoldsInv, Numbered
<1>7. ~(k < m)
  <2>1. ASSUME k < m PROVE FALSE
    <3>1. F < log[m].n
      BY <1>4, <1>6, <2>1
    <3>2. log[m].n \in Int /\ log[m].n <= F
      BY <1>1, <1>6
    <3> QED
      BY <1>1, <3>1, <3>2
  <2> QED
    BY <2>1
<1>8. k = m
  <2>0. Folds \subseteq Int
    BY <1>1
  <2>1. k \in Int /\ m \in Int
    <3> HIDE DEF m
    <3> QED
      BY <1>5, <2>0
  <2> QED
    BY <1>5, <1>7, <2>1
<1>9. EndOf(F) = Last("fold_done")
  BY <1>4, <1>8 DEF Last, Folds
<1> QED
  BY <1>3, <1>9

\* A projection over the budget is backed: with every fold as slow as the
\* slowest one so far, the evaluation does not fit either.
LEMMA Backed == ASSUME FoldsInv, FoldsProjectOver PROVE SlowestProjectsOver
<1> DEFINE F == Cardinality(Folds)
           start == Last("preselect_done").cpu
           begin == [n \in 1..(F + 1) |-> IF n = 1 THEN start ELSE EndOf(n - 1).cpu]
           costs == {begin[n + 1] - begin[n] : n \in 1..F} \cup {cpu - begin[F + 1]}
           M == Max(costs)
           last == IF F = 0 THEN start ELSE Last("fold_done").cpu
           f == Max({F, 1})
<1>1. SlowestProjectsOver = (20 * (begin[1] + NSplits * M) > 23 * Budget)
  BY DEF SlowestProjectsOver, EndOf, Folds
<1>2. /\ Lines("preselect_done") # {} /\ F < NSplits
      /\ 20 * Estimate(f, NSplits - F, start, last, cpu) > 23 * Budget * f
  BY DEF FoldsProjectOver, Folds
<1>3. TypeOK /\ IsFiniteSet(Folds) /\ F \in Nat /\ cpu \in Nat
  BY LinesFacts DEF FoldsInv, Folds, TypeOK
<1>4. NSplits \in Nat /\ Budget \in Nat
  BY EvaluationAssumption
<1>5. start \in Nat /\ start <= cpu
  BY <1>2, <1>3, LastFacts
<1> HIDE DEF F, start
<1>6. \A n \in 1..(F + 1) : begin[n] \in Int /\ 0 <= begin[n] /\ begin[n] <= cpu
  <2> SUFFICES ASSUME NEW n \in 1..(F + 1)
               PROVE  begin[n] \in Int /\ 0 <= begin[n] /\ begin[n] <= cpu
    OBVIOUS
  <2>1. CASE n = 1
    BY <1>5, <2>1
  <2>2. CASE n # 1
    <3>1. n - 1 \in 1..F
      BY <1>3, <2>2
    <3>2. EndOf(n - 1).cpu \in Nat /\ EndOf(n - 1).cpu <= cpu
      BY <3>1, EndFacts DEF F
    <3>3. begin[n] = EndOf(n - 1).cpu
      BY <2>2
    <3> QED
      BY <3>2, <3>3
  <2> QED
    BY <2>1, <2>2
<1>7. begin[1] = start /\ begin[F + 1] = last
  <2>1. 1 \in 1..(F + 1) /\ F + 1 \in 1..(F + 1)
    BY <1>3
  <2>2. begin[1] = start
    BY <2>1
  <2>3. CASE F = 0
    BY <2>2, <2>3
  <2>4. CASE F # 0
    <3>1. Folds # {}
      BY <2>4, FS_EmptySet DEF F
    <3>2. EndOf(F) = Last("fold_done")
      BY <3>1, LastFold DEF F
    <3>3. F + 1 # 1 /\ (F + 1) - 1 = F
      BY <1>3, <2>4
    <3>4. begin[F + 1] = EndOf(F).cpu
      BY <2>1, <3>3
    <3> QED
      BY <2>2, <2>4, <3>2, <3>4
  <2> QED
    BY <2>2, <2>3, <2>4
<1> HIDE DEF begin, last
<1>8. costs \subseteq Int /\ costs # {} /\ \A c \in costs : c <= cpu
  <2>1. \A n \in 1..F : n \in 1..(F + 1) /\ n + 1 \in 1..(F + 1)
    BY <1>3
  <2>2. F + 1 \in 1..(F + 1)
    BY <1>3
  <2>3. \A n \in 1..F : begin[n + 1] - begin[n] \in Int /\ begin[n + 1] - begin[n] <= cpu
    BY <1>3, <1>6, <2>1
  <2>4. cpu - begin[F + 1] \in Int /\ cpu - begin[F + 1] <= cpu
    BY <1>3, <1>6, <2>2
  <2> QED
    BY <2>3, <2>4
<1>9. M \in Int /\ \A c \in costs : c <= M
  <2>0. cpu \in Int
    BY <1>3
  <2> HIDE DEF costs
  <2>1. M \in costs /\ \A c \in costs : c <= M
    BY <1>8, <2>0, MaxIsGreatest
  <2> QED
    BY <1>8, <2>1
<1>10. /\ \A n \in 1..F : begin[n + 1] - begin[n] <= M
       /\ cpu - begin[F + 1] <= M
  BY <1>9
<1> HIDE DEF costs, M
<1>11. begin[F + 1] <= begin[1] + F * M
  BY <1>3, <1>6, <1>9, <1>10, StepsAddUp
<1>12. last \in Int /\ last <= start + F * M /\ cpu - last <= M
  <2>1. F + 1 \in 1..(F + 1)
    BY <1>3
  <2> QED
    BY <1>6, <1>7, <1>10, <1>11, <2>1
<1>13. f \in {F, 1} /\ F <= f /\ 1 <= f
  BY <1>3, MaxOfTwo
<1> HIDE DEF f
<1>14. Estimate(f, NSplits - F, start, last, cpu) <= f * (start + NSplits * M)
  <2>1. CASE F = 0
    <3>1. f = 1 /\ last = start /\ NSplits - F = NSplits
      BY <1>4, <1>13, <2>1 DEF last
    <3> DEFINE a == (cpu - start) * 1
               b == start - start
               m == Max({a, b})
    <3>2. Estimate(f, NSplits - F, start, last, cpu) = start * 1 + NSplits * m
      BY <3>1 DEF Estimate
    <3>3. a \in Int /\ b \in Int /\ a <= M /\ b <= M
      BY <1>3, <1>5, <1>9, <1>12, <3>1
    <3> HIDE DEF a, b
    <3>4. m \in Int /\ m <= M
      BY <1>9, <3>3, MaxOfTwo
    <3> HIDE DEF m
    <3>5. m * NSplits <= M * NSplits
      BY <1>4, <1>9, <3>4, Times
    <3>6. m * NSplits = NSplits * m /\ M * NSplits = NSplits * M
      BY <1>4, <1>9, <3>4
    <3>7. NSplits * m \in Int /\ NSplits * M \in Int
      BY <1>4, <1>9, <3>4
    <3>8. f * (start + NSplits * M) = start + NSplits * M /\ start * 1 = start
      BY <1>5, <3>1, <3>7
    <3> QED
      BY <1>5, <3>2, <3>5, <3>6, <3>7, <3>8
  <2>2. CASE F # 0
    <3>1. f = F /\ f \in Nat \ {0} /\ NSplits - F \in Nat /\ f + (NSplits - F) = NSplits
      BY <1>2, <1>3, <1>4, <1>13, <2>2
    <3>2. last - start <= f * M /\ cpu \in Int /\ start \in Int
      <4>1. f * M \in Int /\ f * M = F * M
        BY <1>9, <3>1
      <4> QED
        BY <1>3, <1>5, <1>12, <4>1
    <3>3. Estimate(f, NSplits - F, start, last, cpu) <= f * (start + (f + (NSplits - F)) * M)
      BY <1>9, <1>12, <3>1, <3>2, EstimateBelow
    <3> QED
      BY <3>1, <3>3
  <2> QED
    BY <2>1, <2>2
<1>15. f \in Nat \ {0} /\ Estimate(f, NSplits - F, start, last, cpu) \in Int
  <2>1. f \in Nat \ {0}
    BY <1>3, <1>13
  <2> DEFINE a == (cpu - last) * f
             b == last - start
  <2>2. a \in Int /\ b \in Int
    BY <1>3, <1>5, <1>12, <2>1
  <2>3. Estimate(f, NSplits - F, start, last, cpu) = last * f + (NSplits - F) * Max({a, b})
    BY DEF Estimate
  <2> HIDE DEF a, b
  <2>4. Max({a, b}) \in Int
    BY <2>2, MaxOfTwo
  <2> QED
    BY <1>3, <1>4, <1>12, <2>1, <2>3, <2>4
<1> DEFINE E == Estimate(f, NSplits - F, start, last, cpu)
           G == start + NSplits * M
<1>16. G \in Int
  BY <1>4, <1>5, <1>9
<1>17. E <= f * G /\ 20 * E > 23 * Budget * f /\ E \in Int
  BY <1>2, <1>14, <1>15
<1> HIDE DEF E
<1>18. SlowestProjectsOver = (20 * G > 23 * Budget)
  BY <1>1, <1>7
<1> HIDE DEF G
<1>19. f * (20 * G) > f * (23 * Budget)
  <2>1. f * G \in Int /\ f * (20 * G) = 20 * (f * G) /\ f * (23 * Budget) = 23 * Budget * f
    BY <1>4, <1>15, <1>16
  <2>2. 23 * Budget * f \in Int
    BY <1>4, <1>15
  <2> QED
    BY <1>17, <2>1, <2>2
<1>20. 20 * G > 23 * Budget
  <2>1. 20 * G \in Int /\ 23 * Budget \in Int
    BY <1>4, <1>16
  <2> QED
    BY <1>15, <1>19, <2>1, Cancel
<1> QED
  BY <1>18, <1>20

\* ProjectionIsBacked (isolate.py:203): whatever the pace of the folds and of
\* the watcher, a poll that kills on the estimate of the folds kills an
\* evaluation that would not fit with every fold as slow as its slowest one.
THEOREM BackedCorrect == Spec => ProjectionIsBacked
<1>1. ASSUME FoldsInv, [Next]_vars, Decides({"projected"})
      PROVE  SlowestProjectsOver
  <2>1. reason' # reason /\ reason' = "projected"
    BY <1>1 DEF Decides
  <2>2. Poll
    BY <1>1, <2>1 DEF Next, Child, Watcher, vars, watchVars, Burn, PreselectStart,
       PreselectFit, PreselectDone, PreselectChoseBase, Fold, Fold1Tie, Fold1Futile,
       AfterFirst, FoldsDone, Raises, Holdout, WriteBegins, WriteEnds, Exits, EndsCv,
       Reaches, Fails, Kill, Wait, Deadline
  <2>3. "projected" \in Findings
    BY <2>1, <2>2 DEF Poll
  <2>4. FoldsProjectOver
    BY <2>3 DEF Findings
  <2> QED
    BY <1>1, <2>4, Backed
<1>2. ASSUME FoldsInv, [Next]_vars
      PROVE  [Decides({"projected"}) => SlowestProjectsOver]_vars
  BY <1>1, <1>2
<1> QED
  BY <1>2, FoldsInit, FoldsStep, PTL DEF Spec, ProjectionIsBacked

=============================================================================
