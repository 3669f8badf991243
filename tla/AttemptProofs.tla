---------------------------- MODULE AttemptProofs ----------------------------
(***************************************************************************)
(* Proofs about an attempt and what goes on around it, for any number of   *)
(* rows and configurations to come, any budget and any pace of the         *)
(* watcher.                                                                *)
(***************************************************************************)
EXTENDS Attempt, TLAPS

-----------------------------------------------------------------------------
(* The inductive invariants.                                               *)

\* While no remeasurement is under way or was left half done, the registry
\* holds scores of one configuration, the stored one.
Fresh == ~torn /\ scan = None

RegistryInv ==
    /\ Fresh => \A r \in Rows : cv[r] \in {None, stored}
    /\ last # None => last.stale \/ last.yard = stored
    /\ winner # None => winner.raced \/ (winner.yard = stored /\ scan = None)
    /\ pc # "idle" => raced \/ Fresh

\* A remeasurement has left behind its own scores; if it failed throughout, a
\* baseline established since has the score of an attempt of before.
ScanInv ==
    scan # None =>
        /\ scan.todo \subseteq Valid
        /\ scan.any => \E r \in Rows \ scan.todo : cv[r] # None
        /\ \/ torn
           \/ \A r \in Rows \ scan.todo :
                 \/ cv[r] = None
                 \/ scan.any /\ cv[r] = scan.data
                 \/ ~scan.any /\ scan.todo = {} /\ cv[r] = stored

Guarded  == {"generate", "folds", "evaluate", "next", "judge"}
Compared == {"evaluate", "next", "judge"}

\* What an attempt that no remeasurement overtakes knows of the baseline.
KnowsInv ==
    pc = "idle" \/ raced \/
        /\ prev \in {None, stored}
        /\ pc = "eval" => stored["train"] = loaded["train"]
        /\ pc \in Guarded => stored = loaded
        /\ pc \in Compared => folds \in {None, stored}
        /\ prev # None \/ "prev" \in moved => Valid # {}
        /\ pc \in Compared /\ (prev # None \/ "prev" \in moved) => folds # None

CompareInv == TypeOK /\ RegistryInv /\ ScanInv /\ KnowsInv

\* The code and the result: a result without a code of its own is a tie.
Kept == result = None \/ (round = 1 /\ result.kind = "tie")

CodeInv ==
    /\ pc \notin Compared => result = None
    /\ pc = "folds" => (error <=> ~source.valid)
    /\ pc = "evaluate" => source.valid /\ ~error /\ Kept
    /\ pc = "next" => /\ source.valid /\ ~error
                      /\ fault => Kept
                      /\ ~fault => result # None /\ result.of = source.id
    /\ pc = "judge" => (result = None => error) /\ ScoreIsOfTheCode

\* Each evaluation takes a burst at most from what its watcher saw.
SpentInv ==
    /\ pc = "folds" => used + left <= Budget /\ round = 0
    /\ pc = "evaluate" => used + left <= Budget + round * Burst
    /\ pc = "next" /\ round = 0 => used + left <= Budget + Burst
    /\ AttemptBudgetHolds

\* A pause has a stored fingerprint to be lifted for, and the guards lift it
\* one after the other.
PauseInv ==
    /\ \A p \in Parts : paused = p => stored[p] # None
    /\ pc = "eval" => paused # "train"
    /\ ResumedOnceServed

-----------------------------------------------------------------------------
(* Types.                                                                  *)

\* The initial state has the type: each part in turn.
LEMMA TypeInit == ASSUME Init PROVE TypeOK
<1> USE AttemptAssumption
<1>1. RegistryOK
  BY DEF Init, RegistryOK, Configs, Parts
<1>2. AttemptOK
  BY DEF Init, AttemptOK
<1>3. NumbersOK
  BY DEF Init, NumbersOK
<1>4. FlagsOK
  BY DEF Init, FlagsOK
<1>5. OthersOK
  BY DEF Init, OthersOK
<1> QED
  BY <1>1, <1>2, <1>3, <1>4, <1>5 DEF TypeOK

\* What a query for the best row may answer is a configuration, if anything.
LEMMA BestType == ASSUME RegistryOK PROVE Best \subseteq Configs \cup {None}
  BY DEF Best, Valid, RegistryOK

\* What is kept between attempts stays typed: fingerprints, pause and scores.
LEMMA RegistryStep == ASSUME TypeOK, [Next]_vars PROVE RegistryOK'
<1> USE DEF TypeOK, RegistryOK
<1>1. CASE Guards
  <2>1. PICK p \in Parts, next \in {"eval", "generate"} : Guard(p, next)
    BY <1>1 DEF Guards, TrainGuard, EvalGuard, Parts
  <2>2. loaded[p] \in {0, 1}
    BY <2>1 DEF Guard, AttemptOK, Configs, Parts
  <2>3. stored' \in [Parts -> {0, 1, None}]
    BY <2>1, <2>2 DEF Guard
  <2>4. paused' \in Parts \cup {None}
    BY <2>1 DEF Guard
  <2> QED
    BY <2>1, <2>3, <2>4 DEF Guard
<1>2. CASE Reconfigure
  BY <1>2 DEF Reconfigure, Configs
<1>3. CASE Promotes \/ Establish
  <2>1. PICK yard \in Configs, r \in Rows : cv' = [cv EXCEPT ![r] = yard]
    BY <1>3 DEF Promotes, Establish, Inserts, OthersOK, Confirmed, Stored
  <2> QED
    BY <1>3, <2>1 DEF Promotes, Establish
<1>4. CASE Measures
  BY <1>4 DEF Measures, OthersOK, Scans
<1>5. CASE Remeasured
  BY <1>5 DEF Remeasured, OthersOK, Scans, Configs
<1>6. CASE UNCHANGED registry
  BY <1>6 DEF registry
<1> QED
  BY <1>1, <1>2, <1>3, <1>4, <1>5, <1>6 DEF Next, Task, Environment, Evaluation, Retrieve, Load,
     Generate, ReadFolds, Evaluate, Ends, RetryTie, RetryFailed, Settle, Store, PromoteLoads,
     Rejects, Remeasure, CutOff, registry, vars

\* The attempt stays typed, and from its code on has one.
LEMMA AttemptStep == ASSUME TypeOK, [Next]_vars PROVE AttemptOK'
<1> USE NoneAssumption DEF TypeOK, AttemptOK
<1>1. CASE Retrieve
  BY <1>1, BestType DEF Retrieve
<1>2. CASE Load
  BY <1>2, NoneAssumption DEF Load, RegistryOK
<1>3. CASE Guards
  BY <1>3 DEF Guards, TrainGuard, EvalGuard, Guard
<1>4. CASE Generate
  BY <1>4 DEF Generate, Generates, Sources
<1>5. CASE ReadFolds
  BY <1>5, BestType DEF ReadFolds
<1>6. CASE Evaluate
  <2>1. PICK o \in Outcomes : result' = o.result
    BY <1>6 DEF Evaluate, Ends
  <2>2. result' \in Results \cup {None}
    <3>1. CASE o.result = result
      BY <2>1, <3>1
    <3>2. CASE o.result # result
      <4>1. PICK k \in Possible : o.result = [of |-> source.id, kind |-> k]
        BY <3>2 DEF Outcomes
      <4>2. k \in Kinds
        BY DEF Possible
      <4>3. source.id \in 0..1
        BY <1>6 DEF Evaluate, Sources
      <4> QED
        BY <2>1, <4>1, <4>2, <4>3 DEF Results
    <3> QED
      BY <3>1, <3>2
  <2> QED
    BY <1>6, <2>2 DEF Evaluate, Ends
<1>7. CASE RetryTie \/ RetryFailed
  <2>1. source' \in Sources
    BY <1>7 DEF RetryTie, RetryFailed, Generates, Sources
  <2>2. pc' \in {"evaluate", "judge"}
    BY <1>7 DEF RetryTie, RetryFailed, Again, Decided
  <2>3. UNCHANGED <<prev, folds, loaded, result>> /\ loaded # None
    BY <1>7 DEF RetryTie, RetryFailed
  <2> QED
    BY <2>1, <2>2, <2>3
<1>8. CASE Settle
  <2>1. result' = result \/ result' = None
    BY <1>8 DEF Settle
  <2> QED
    BY <1>8, <2>1 DEF Settle, Decided
<1>9. CASE Store
  BY <1>9 DEF Store, Clear
<1>10. CASE UNCHANGED attempt
  BY <1>10 DEF attempt
<1> QED
  BY <1>1, <1>2, <1>3, <1>4, <1>5, <1>6, <1>7, <1>8, <1>9, <1>10 DEF Next, Task, Environment,
     Evaluation, Reconfigure, PromoteLoads, Promotes, Rejects, Establish, Remeasure, Measures,
     Remeasured, CutOff, vars

\* Counts and CPU seconds stay integers; the budget left may go below zero.
LEMMA NumbersStep == ASSUME TypeOK, [Next]_vars PROVE NumbersOK'
<1> USE AttemptAssumption DEF NumbersOK
<1>1. changes' \in 0..MaxChanges
  <2>1. CASE Reconfigure
    BY <2>1 DEF TypeOK, Reconfigure
  <2>2. CASE UNCHANGED changes
    BY <2>2 DEF TypeOK
  <2> QED
    BY <2>1, <2>2 DEF Next, Task, Guards, TrainGuard, EvalGuard, Guard, Evaluation, Environment,
       Retrieve, Load, Generate, ReadFolds, Evaluate, Ends, RetryTie, RetryFailed, Settle, Store,
       PromoteLoads, Promotes, Rejects, Establish, Remeasure, Measures, Remeasured, CutOff,
       others, vars
<1>2. CASE Evaluate
  <2>1. PICK real \in 0..(left + Burst) : \E peak \in 0..real :
           used' = used + real /\ left' = left - peak
    BY <1>2 DEF Evaluate
  <2>2. round' = round
    BY <1>2 DEF Evaluate, Ends
  <2> QED
    BY <1>1, <2>1, <2>2 DEF TypeOK
<1>3. CASE ~Evaluate
  <2>1. /\ left' = left \/ left' = Budget
        /\ used' = used \/ used' = 0
        /\ round' = round \/ round' = 0 \/ round' = 1
    BY <1>3 DEF Next, Task, Guards, TrainGuard, EvalGuard, Guard, Evaluation, Environment,
       Retrieve, Load, Generate, ReadFolds, RetryTie, RetryFailed, Again, Decided, Settle, Store,
       Clear, Reconfigure, PromoteLoads, Promotes, Rejects, Establish, Remeasure, Measures,
       Remeasured, CutOff, attempt, vars
  <2> QED
    BY <1>1, <2>1 DEF TypeOK
<1> QED
  BY <1>2, <1>3

\* Flags stay Boolean.
LEMMA FlagsStep == ASSUME TypeOK, [Next]_vars PROVE FlagsOK'
<1> USE DEF TypeOK, FlagsOK
<1>1. fault' \in BOOLEAN
  <2>1. CASE Evaluate
    <3>1. PICK o \in Outcomes : fault' = o.fault
      BY <2>1 DEF Evaluate, Ends
    <3>2. o.fault = TRUE \/ o.fault = FALSE
      BY <3>1 DEF Outcomes
    <3> QED
      BY <3>1, <3>2
  <2>2. CASE ~Evaluate
    BY <2>2 DEF Next, Task, Guards, TrainGuard, EvalGuard, Guard, Evaluation, Environment,
       Retrieve, Load, Generate, ReadFolds, RetryTie, RetryFailed, Again, Decided, Settle, Store,
       Clear, Reconfigure, PromoteLoads, Promotes, Rejects, Establish, Remeasure, Measures,
       Remeasured, CutOff, attempt, vars
  <2> QED
    BY <2>1, <2>2
<1>2. error' \in BOOLEAN
  BY DEF Next, Task, Guards, TrainGuard, EvalGuard, Guard, Evaluation, Environment,
     Retrieve, Load, Generate, ReadFolds, Evaluate, Ends, RetryTie, RetryFailed, Settle, Store,
     Clear, Reconfigure, PromoteLoads, Promotes, Rejects, Establish, Remeasure, Measures,
     Remeasured, CutOff, attempt, vars
<1>3. raced' \in BOOLEAN
  BY DEF Next, Task, Guards, TrainGuard, EvalGuard, Guard, Evaluation, Environment,
     Retrieve, Load, Generate, ReadFolds, Evaluate, Ends, RetryTie, RetryFailed, Settle, Store,
     Clear, Reconfigure, PromoteLoads, Promotes, Rejects, Establish, Inserts, Remeasure,
     Measures, Remeasured, CutOff, others, vars
<1>4. torn' \in BOOLEAN
  <2>1. CASE Promotes \/ Establish
    BY <2>1 DEF Promotes, Establish, Inserts
  <2>2. CASE ~(Promotes \/ Establish)
    BY <2>2 DEF Next, Task, Guards, TrainGuard, EvalGuard, Guard, Evaluation, Environment,
       Retrieve, Load, Generate, ReadFolds, Evaluate, Ends, RetryTie, RetryFailed, Settle, Store,
       Reconfigure, PromoteLoads, Rejects, Remeasure, Measures, Remeasured, CutOff, others, vars
  <2> QED
    BY <2>1, <2>2
<1> QED
  BY <1>1, <1>2, <1>3, <1>4

\* A remeasurement under way is one.
LEMMA ScanType == ASSUME TypeOK, Remeasure \/ Measures PROVE scan' \in Scans
<1> USE NoneAssumption DEF TypeOK, OthersOK
<1>1. CASE Remeasure
  BY <1>1 DEF Remeasure, Scans, Valid, RegistryOK
<1>2. CASE Measures
  <2>1. PICK r \in scan.todo, fails \in BOOLEAN :
           scan' = [scan EXCEPT !.todo = @ \ {r}, !.any = @ \/ ~fails]
    BY <1>2 DEF Measures
  <2>2. scan \in Scans
    BY <1>2 DEF Measures
  <2>3. (scan.any \/ ~fails) \in BOOLEAN /\ scan.todo \ {r} \in SUBSET Rows
    BY <2>2 DEF Scans
  <2> QED
    BY <2>1, <2>2, <2>3 DEF Scans
<1> QED
  BY <1>1, <1>2

\* Stored and confirmed attempts and the remeasurement stay typed.
LEMMA OthersStep == ASSUME TypeOK, [Next]_vars PROVE OthersOK'
<1> USE NoneAssumption DEF TypeOK, OthersOK
<1>1. CASE Retrieve
  BY <1>1 DEF Retrieve
<1>2. CASE Store
  <2>1. PICK j \in Judged :
           last' = IF j = "error" THEN last ELSE [jump |-> j = "jump", yard |-> loaded, stale |-> raced]
    BY <1>2 DEF Store
  <2>2. loaded \in Configs /\ raced \in BOOLEAN
    BY <1>2 DEF Store, AttemptOK, FlagsOK
  <2>3. last' \in Stored \cup {None}
    BY <2>1, <2>2 DEF Stored
  <2> QED
    BY <1>2, <2>3 DEF Store, Clear
<1>3. CASE PromoteLoads
  <2>1. winner' \in Confirmed
    BY <1>3 DEF PromoteLoads, Stored, Confirmed, FlagsOK
  <2>2. last' \in Stored
    BY <1>3 DEF PromoteLoads, Stored
  <2> QED
    BY <1>3, <2>1, <2>2 DEF PromoteLoads
<1>4. CASE Promotes \/ Establish
  BY <1>4 DEF Promotes, Establish, Inserts
<1>5. CASE Rejects \/ CutOff
  BY <1>5 DEF Rejects, CutOff
<1>6. CASE Remeasure
  <2>1. scan' \in Scans
    BY <1>6, ScanType
  <2>2. winner' \in Confirmed \cup {None}
    BY <1>6 DEF Remeasure, Confirmed
  <2> QED
    BY <1>6, <2>1, <2>2 DEF Remeasure
<1>7. CASE Measures
  <2>1. scan' \in Scans
    BY <1>7, ScanType
  <2> QED
    BY <1>7, <2>1 DEF Measures
<1>8. CASE Remeasured
  <2>1. last' \in Stored \cup {None}
    BY <1>8 DEF Remeasured, Stored
  <2> QED
    BY <1>8, <2>1 DEF Remeasured
<1>9. CASE UNCHANGED <<last, moved, winner, scan>>
  BY <1>9
<1> QED
  BY <1>1, <1>2, <1>3, <1>4, <1>5, <1>6, <1>7, <1>8, <1>9 DEF Next, Task, Guards, TrainGuard,
     EvalGuard, Guard, Evaluation, Environment, Load, Generate, ReadFolds, Evaluate, Ends,
     RetryTie, RetryFailed, Settle, Reconfigure, others, vars

\* Every step keeps the type.
LEMMA TypeStep == ASSUME TypeOK, [Next]_vars PROVE TypeOK'
  BY RegistryStep, AttemptStep, NumbersStep, FlagsStep, OthersStep DEF TypeOK

\* Every state of attempts, promotions and remeasurements has the type.
THEOREM TypeCorrect == Spec => []TypeOK
  BY TypeInit, TypeStep, PTL DEF Spec

-----------------------------------------------------------------------------
(* Pauses.                                                                 *)

\* ResumedOnceServed (cycle/run.py:137): an attempt past both guards has left
\* no pause of theirs behind.
THEOREM ResumeCorrect == Spec => []ResumedOnceServed
<1>1. Init => PauseInv
  BY NoneAssumption DEF Init, PauseInv, ResumedOnceServed
<1>2. ASSUME TypeOK, PauseInv, [Next]_vars PROVE PauseInv'
  <2> USE NoneAssumption DEF PauseInv, ResumedOnceServed
  <2>1. CASE TrainGuard
    <3>1. stored'["train"] # None /\ stored'["eval"] = stored["eval"]
      <4>1. loaded["train"] # None
        BY <1>2, <2>1 DEF TrainGuard, Guard, TypeOK, AttemptOK, Configs, Parts
      <4> QED
        BY <1>2, <2>1, <4>1 DEF TrainGuard, Guard, TypeOK, RegistryOK, Parts
    <3>2. /\ pc' \in {"eval", "idle"} /\ pc = "train"
          /\ paused' \in {None, paused, "train"}
          /\ pc' = "eval" => paused' # "train"
      BY <1>2, <2>1 DEF TrainGuard, Guard, Parts
    <3> QED
      BY <1>2, <3>1, <3>2 DEF Parts
  <2>2. CASE EvalGuard
    <3>1. stored'["eval"] # None /\ stored'["train"] = stored["train"]
      <4>1. loaded["eval"] # None
        BY <1>2, <2>2 DEF EvalGuard, Guard, TypeOK, AttemptOK, Configs, Parts
      <4> QED
        BY <1>2, <2>2, <4>1 DEF EvalGuard, Guard, TypeOK, RegistryOK, Parts
    <3>2. /\ pc' \in {"generate", "idle"} /\ pc = "eval"
          /\ paused' \in {None, paused, "eval"}
          /\ pc' = "generate" => paused' # "eval"
      BY <1>2, <2>2 DEF EvalGuard, Guard, Parts
    <3> QED
      BY <1>2, <3>1, <3>2 DEF Parts
  <2>3. CASE Remeasured
    <3>1. \/ UNCHANGED <<stored, paused>>
          \/ stored' = scan.data /\ paused' \notin Parts
      BY <1>2, <2>3 DEF Remeasured, TypeOK, RegistryOK
    <3>2. \A p \in Parts : scan.data[p] # None
      BY <1>2, <2>3 DEF Remeasured, TypeOK, OthersOK, Scans, Configs
    <3>3. pc' = pc
      BY <2>3 DEF Remeasured, attempt
    <3> QED
      BY <1>2, <3>1, <3>2, <3>3 DEF Parts
  <2>4. CASE /\ UNCHANGED <<stored, paused>>
             /\ pc' = pc \/ pc' \notin {"eval", "generate"}
    BY <1>2, <2>4
  <2> QED
    BY <1>2, <2>1, <2>2, <2>3, <2>4 DEF Next, Task, Guards, Evaluation, Environment, Retrieve,
       Load, Generate, ReadFolds, Evaluate, Ends, RetryTie, RetryFailed, Again, Decided, Settle,
       Store, Clear, Reconfigure, PromoteLoads, Promotes, Rejects, Establish, Remeasure, Measures,
       CutOff, registry, attempt, vars
<1>3. PauseInv => ResumedOnceServed
  BY DEF PauseInv
<1> QED
  BY <1>1, <1>2, <1>3, TypeInit, TypeStep, PTL DEF Spec

-----------------------------------------------------------------------------
(* The CPU budget.                                                         *)

\* AttemptBudgetHolds (cycle/run.py:756): two evaluations together exceed the
\* budget by what each watcher may see too late.
THEOREM BudgetCorrect == Spec => []AttemptBudgetHolds
<1> USE AttemptAssumption
<1>1. ASSUME Init PROVE SpentInv
  BY <1>1 DEF Init, SpentInv, AttemptBudgetHolds
<1>2. ASSUME TypeOK, SpentInv, [Next]_vars PROVE SpentInv'
  <2> USE DEF SpentInv, AttemptBudgetHolds
  <2>1. round \in 0..1 /\ left \in Int /\ used \in Nat
    BY <1>2 DEF TypeOK, NumbersOK
  <2>2. CASE Evaluate
    <3>1. PICK real \in 0..(left + Burst) : \E peak \in 0..real :
             real - peak <= Burst /\ used' = used + real /\ left' = left - peak
      BY <2>2 DEF Evaluate
    <3>2. pc = "evaluate" /\ pc' = "next" /\ round' = round
      BY <2>2 DEF Evaluate, Ends
    <3>3. used + left <= Budget + round * Burst
      BY <1>2, <3>2
    <3>4. used' <= Budget + 2 * Burst /\ (round = 0 => used' + left' <= Budget + Burst)
      <4>1. CASE round = 0
        BY <2>1, <3>1, <3>3, <4>1
      <4>2. CASE round = 1
        BY <2>1, <3>1, <3>3, <4>2
      <4> QED
        BY <2>1, <4>1, <4>2
    <3> QED
      BY <3>2, <3>4
  <2>3. CASE RetryTie \/ RetryFailed
    <3>1. /\ pc = "next" /\ round = 0
          /\ \/ pc' = "judge" /\ used' = 0
             \/ pc' = "evaluate" /\ round' = 1 /\ used' = used /\ left' = left
      BY <2>3 DEF RetryTie, RetryFailed, Again, Decided
    <3>2. AttemptBudgetHolds'
      BY <1>2, <3>1
    <3>3. pc' \notin {"folds", "next"}
      BY <3>1
    <3>4. ASSUME pc' = "evaluate" PROVE used' + left' <= Budget + round' * Burst
      <4>1. used + left <= Budget + Burst
        BY <1>2, <3>1
      <4>2. round' = 1 /\ used' = used /\ left' = left
        BY <3>1, <3>4
      <4> QED
        BY <2>1, <4>1, <4>2
    <3> QED
      BY <3>2, <3>3, <3>4
  <2>4. CASE Generate \/ Settle \/ Store
    <3>1. /\ used' = 0 /\ left' = Budget /\ round' = 0
          /\ pc' \in {"folds", "judge", "idle"}
      BY <2>4 DEF Generate, Settle, Decided, Store, Clear
    <3> QED
      BY <3>1
  <2>5. CASE ReadFolds
    <3>1. UNCHANGED <<used, left, round>> /\ pc = "folds" /\ pc' \in {"evaluate", "judge"}
      BY <2>5 DEF ReadFolds
    <3> QED
      BY <1>2, <3>1
  <2>6. CASE Retrieve \/ Load \/ Guards
    <3>1. used' = used /\ pc' \notin {"folds", "evaluate", "next"}
      BY <2>6 DEF Retrieve, Load, Guards, TrainGuard, EvalGuard, Guard
    <3> QED
      BY <1>2, <3>1
  <2>7. CASE UNCHANGED attempt
    BY <1>2, <2>7 DEF attempt
  <2> QED
    BY <1>2, <2>2, <2>3, <2>4, <2>5, <2>6, <2>7 DEF Next, Task, Evaluation, Environment,
       Reconfigure, PromoteLoads, Promotes, Rejects, Establish, Remeasure, Measures, Remeasured,
       CutOff, vars
<1>3. SpentInv => AttemptBudgetHolds
  BY DEF SpentInv
<1> QED
  BY <1>1, <1>2, <1>3, TypeInit, TypeStep, PTL DEF Spec

-----------------------------------------------------------------------------
(* Code and result.                                                        *)

\* The code of an attempt and the result of its evaluations stay together.
LEMMA CodeStep == ASSUME TypeOK, CodeInv, [Next]_vars PROVE CodeInv'
<1> USE DEF CodeInv, Compared, Kept, ScoreIsOfTheCode
<1>1. CASE Generate
  <2>1. pc' = "folds" /\ result' = None /\ error' = ~source'.valid
    BY <1>1 DEF Generate
  <2> QED
    BY <2>1
<1>2. CASE ReadFolds
  <2>1. /\ pc = "folds" /\ result = None /\ UNCHANGED <<source, error, result>>
        /\ \/ error /\ pc' = "judge"
           \/ ~error /\ pc' = "evaluate"
    BY <1>2 DEF ReadFolds
  <2> QED
    BY <2>1
<1>3. CASE Evaluate
  <2>1. /\ pc = "evaluate" /\ pc' = "next" /\ UNCHANGED <<source, round, error>>
    BY <1>3 DEF Evaluate, Ends
  <2>2. /\ fault' => result' = result
        /\ ~fault' => result' # None /\ result'.of = source.id
    <3>1. PICK o \in Outcomes : fault' = o.fault /\ result' = o.result
      BY <1>3 DEF Evaluate, Ends
    <3>2. CASE o.fault
      BY <3>1, <3>2 DEF Outcomes
    <3>3. CASE ~o.fault
      <4>1. PICK k \in Possible : o.result = [of |-> source.id, kind |-> k]
        BY <3>3 DEF Outcomes
      <4>2. o.result \in Results
        <5>1. source.id \in 0..1
          BY <2>1 DEF TypeOK, AttemptOK, Sources
        <5> QED
          BY <4>1, <5>1 DEF Results, Possible
      <4> QED
        BY <3>1, <3>3, <4>1, <4>2, NoneAssumption
    <3> QED
      BY <3>1, <3>2, <3>3
  <2> QED
    BY <2>1, <2>2
<1>4. CASE RetryTie
  <2>1. pc = "next" /\ ~fault /\ result.kind = "tie" /\ UNCHANGED <<result, error>>
    BY <1>4 DEF RetryTie
  <2>2. \/ source'.valid /\ pc' = "evaluate" /\ round' = 1
        \/ ~source'.valid /\ pc' = "judge"
    BY <1>4 DEF RetryTie, Again, Decided
  <2> QED
    BY <2>1, <2>2
<1>5. CASE RetryFailed
  <2>1. pc = "next" /\ result = None /\ ~error /\ UNCHANGED result
    BY <1>5 DEF RetryFailed
  <2>2. \/ source'.valid /\ pc' = "evaluate" /\ error' = error
        \/ pc' = "judge" /\ error'
    BY <1>5 DEF RetryFailed, Again, Decided
  <2> QED
    BY <2>1, <2>2
<1>6. CASE Settle
  <2>1. pc = "next" /\ pc' = "judge" /\ UNCHANGED source
    BY <1>6 DEF Settle, Decided
  <2>2. \/ ~fault /\ result' = result
        \/ fault /\ error' /\ result' = None
    BY <1>6 DEF Settle, TypeOK, NumbersOK
  <2> QED
    BY <2>1, <2>2
<1>7. CASE Store
  BY <1>7 DEF Store, Clear
<1>8. CASE /\ UNCHANGED <<source, fault, round, result, error>>
           /\ pc' = pc \/ (pc' \notin Compared \cup {"folds"} /\ pc \notin Compared)
  BY <1>8
<1> QED
  BY <1>1, <1>2, <1>3, <1>4, <1>5, <1>6, <1>7, <1>8 DEF Next, Task, Guards, TrainGuard,
     EvalGuard, Guard, Evaluation, Environment, Retrieve, Load, Reconfigure, PromoteLoads,
     Promotes, Rejects, Establish, Remeasure, Measures, Remeasured, CutOff, attempt, vars

\* ScoreIsOfTheCode (cycle/run.py:796): whichever evaluation decides, the code
\* it was given is the code that is stored, but for a tie kept from the first.
THEOREM CodeCorrect == Spec => []ScoreIsOfTheCode
<1>1. Init => CodeInv
  BY DEF Init, CodeInv, Compared, ScoreIsOfTheCode
<1>2. CodeInv => ScoreIsOfTheCode
  BY DEF CodeInv, Compared, ScoreIsOfTheCode
<1> QED
  BY <1>1, <1>2, CodeStep, TypeInit, TypeStep, PTL DEF Spec

-----------------------------------------------------------------------------
(* What scores are compared with.                                          *)

\* A fingerprint is stored once only, when no score can be of the
\* configuration that is stored so far.
LEMMA Unstored ==
  ASSUME RegistryOK, NEW p \in Parts, stored[p] = None
  PROVE stored \notin Configs
  BY NoneAssumption DEF Configs

\* While the registry is not being measured anew, it answers with the stored
\* configuration, and with nothing only if it holds nothing.
LEMMA FreshBest ==
  ASSUME RegistryOK, RegistryInv, Fresh
  PROVE /\ Best \subseteq {None, stored}
        /\ Valid # {} => None \notin Best
  BY NoneAssumption DEF RegistryInv, RegistryOK, Best, Valid

\* A guard leaves the stored fingerprints alone, or stores the first one.
LEMMA GuardStep ==
  ASSUME TypeOK, NEW p \in Parts, NEW next, Guard(p, next)
  PROVE /\ \/ stored' = stored
           \/ stored \notin Configs
        /\ pc' # "idle" => stored'[p] = loaded[p]
        /\ \A q \in Parts \ {p} : stored'[q] = stored[q]
<1>1. CASE stored[p] = None
  <2>1. stored \notin Configs
    BY <1>1, Unstored DEF TypeOK
  <2>2. stored' = [stored EXCEPT ![p] = loaded[p]]
    BY <1>1, NoneAssumption DEF Guard, TypeOK, AttemptOK, RegistryOK, Configs
  <2> QED
    BY <2>1, <2>2 DEF TypeOK, RegistryOK
<1>2. CASE stored[p] # None
  <2>1. stored' = stored
    BY <1>2 DEF Guard
  <2>2. pc' # "idle" => stored[p] = loaded[p]
    BY <1>2 DEF Guard
  <2> QED
    BY <2>1, <2>2
<1> QED
  BY <1>1, <1>2

\* The row inserted for a score of configuration yard.
LEMMA InsertStep ==
  ASSUME TypeOK, NEW yard \in Configs, NEW mixes \in BOOLEAN, Inserts(yard, mixes)
  PROVE /\ Valid' # {} /\ Valid \subseteq Valid'
        /\ \A r \in Rows : cv'[r] = cv[r] \/ cv'[r] = yard
        /\ \A r \in Valid : cv'[r] = cv[r]
<1>1. PICK r \in Rows \ Valid : cv' = [cv EXCEPT ![r] = yard]
  BY DEF Inserts
<1>2. yard # None /\ cv \in [Rows -> Configs \cup {None}]
  BY NoneAssumption DEF TypeOK, RegistryOK
<1>3. cv'[r] = yard /\ \A q \in Rows \ {r} : cv'[q] = cv[q]
  BY <1>1, <1>2
<1> QED
  BY <1>1, <1>2, <1>3 DEF Valid

\* Every step keeps a registry of one configuration that is not mixed knowingly.
LEMMA RegistryInvStep == ASSUME CompareInv, [Next]_vars PROVE RegistryInv'
<1> USE NoneAssumption DEF RegistryInv, Fresh, CompareInv
<1>1. CASE Retrieve
  BY <1>1 DEF Retrieve, registry
<1>2. CASE Guards
  <2>1. PICK p \in Parts, next \in {"eval", "generate"} : Guard(p, next)
    BY <1>2 DEF Guards, TrainGuard, EvalGuard, Parts
  <2>2. stored' = stored \/ stored \notin Configs
    BY <2>1, GuardStep
  <2>3. UNCHANGED <<cv, last, winner, scan, raced, torn>> /\ pc # "idle"
    BY <2>1 DEF Guard, others, Parts
  <2>4. CASE stored' = stored
    BY <2>3, <2>4
  <2>5. CASE stored \notin Configs
    <3>1. \A r \in Rows : cv[r] = stored => cv[r] = None
      BY <2>5 DEF TypeOK, RegistryOK
    <3>2. last # None => last.yard # stored
      BY <2>5 DEF TypeOK, OthersOK, Stored
    <3>3. winner # None => winner.yard # stored
      BY <2>5 DEF TypeOK, OthersOK, Confirmed
    <3> QED
      BY <2>3, <3>1, <3>2, <3>3
  <2> QED
    BY <2>2, <2>4, <2>5
<1>3. CASE Store
  <2>1. PICK j \in Judged :
           last' = IF j = "error" THEN last ELSE [jump |-> j = "jump", yard |-> loaded, stale |-> raced]
    BY <1>3 DEF Store
  <2>2. raced \/ stored = loaded
    BY <1>3 DEF Store, KnowsInv, Guarded
  <2>3. UNCHANGED <<registry, winner, scan, torn>> /\ pc' = "idle"
    BY <1>3 DEF Store, Clear
  <2> QED
    BY <2>1, <2>2, <2>3 DEF registry
<1>4. CASE PromoteLoads
  BY <1>4 DEF PromoteLoads, registry, attempt, TypeOK, OthersOK, Stored
<1>5. CASE Promotes
  <2>1. Inserts(winner.yard, winner.raced) /\ winner # None /\ winner' = None
    BY <1>5 DEF Promotes
  <2>2. winner.yard \in Configs /\ winner.raced \in BOOLEAN
    BY <2>1 DEF TypeOK, OthersOK, Confirmed
  <2>3. \A r \in Rows : cv'[r] = cv[r] \/ cv'[r] = winner.yard
    BY <2>1, <2>2, InsertStep
  <2>4. torn' = (torn \/ winner.raced) /\ raced' = (raced \/ (winner.raced /\ pc # "idle"))
    BY <2>1 DEF Inserts
  <2>5. UNCHANGED <<stored, last, scan, pc>>
    BY <1>5 DEF Promotes, attempt
  <2> QED
    BY <2>1, <2>3, <2>4, <2>5
<1>6. CASE Establish
  <2>1. Inserts(last.yard, last.stale) /\ last # None
    BY <1>6 DEF Establish
  <2>2. last.yard \in Configs /\ last.stale \in BOOLEAN
    BY <2>1 DEF TypeOK, OthersOK, Stored
  <2>3. \A r \in Rows : cv'[r] = cv[r] \/ cv'[r] = last.yard
    BY <2>1, <2>2, InsertStep
  <2>4. torn' = (torn \/ last.stale) /\ raced' = (raced \/ (last.stale /\ pc # "idle"))
    BY <2>1 DEF Inserts
  <2>5. UNCHANGED <<stored, last, winner, scan, pc>>
    BY <1>6 DEF Establish, attempt
  <2> QED
    BY <2>1, <2>3, <2>4, <2>5
<1>7. CASE Remeasure
  <2>1. scan' # None
    BY <1>7, ScanType
  <2>2. UNCHANGED <<stored, cv, last, pc>> /\ raced' = (raced \/ pc # "idle")
    BY <1>7 DEF Remeasure, registry, attempt
  <2>3. winner' # None => winner'.raced
    BY <1>7 DEF Remeasure, TypeOK, OthersOK, Confirmed
  <2> QED
    BY <2>1, <2>2, <2>3
<1>8. CASE Measures
  <2>1. scan # None /\ scan' # None
    BY <1>8, ScanType DEF Measures
  <2>2. UNCHANGED <<stored, last, winner, raced, pc>>
    BY <1>8 DEF Measures, attempt
  <2> QED
    BY <2>1, <2>2
<1>9. CASE Remeasured
  <2>1. scan # None /\ scan' = None /\ UNCHANGED <<cv, pc, winner, raced, torn>> /\ scan.todo = {}
    BY <1>9 DEF Remeasured, attempt
  <2>2. ~torn => \A r \in Rows : cv[r] \in {None, stored'}
    BY <1>9, <2>1 DEF Remeasured, ScanInv
  <2>3. last' # None => last'.stale \/ last'.yard = stored'
    BY <1>9 DEF Remeasured, TypeOK, OthersOK, Stored
  <2>4. winner # None => winner.raced
    BY <2>1
  <2>5. pc # "idle" => raced
    BY <2>1
  <2> QED
    BY <2>1, <2>2, <2>3, <2>4, <2>5
<1>10. CASE CutOff
  BY <1>10 DEF CutOff, registry, attempt
<1>11. CASE /\ UNCHANGED <<stored, cv, last, winner, scan, raced, torn>>
            /\ pc' = "idle" \/ pc # "idle"
  BY <1>11
<1> QED
  BY <1>1, <1>2, <1>3, <1>4, <1>5, <1>6, <1>7, <1>8, <1>9, <1>10, <1>11 DEF Next, Task,
     Evaluation, Environment, Load, Generate, ReadFolds, Evaluate, Ends, RetryTie, RetryFailed,
     Settle, Reconfigure, Rejects, registry, attempt, others, vars

\* Every step keeps what a remeasurement has left behind itself.
LEMMA ScanInvStep == ASSUME CompareInv, [Next]_vars PROVE ScanInv'
<1> USE NoneAssumption DEF ScanInv, CompareInv
<1>1. CASE Guards
  <2>1. PICK p \in Parts, next \in {"eval", "generate"} : Guard(p, next)
    BY <1>1 DEF Guards, TrainGuard, EvalGuard, Parts
  <2>2. stored' = stored \/ stored \notin Configs
    BY <2>1, GuardStep
  <2>3. UNCHANGED <<cv, scan, torn>>
    BY <2>1 DEF Guard, others
  <2>4. stored \notin Configs => \A r \in Rows : cv[r] = stored => cv[r] = None
    BY DEF TypeOK, RegistryOK
  <2>5. Valid' = Valid
    BY <2>3 DEF Valid
  <2> QED
    BY <2>2, <2>3, <2>4, <2>5
<1>2. CASE Promotes
  <2>1. Inserts(winner.yard, winner.raced) /\ winner # None /\ UNCHANGED scan
    BY <1>2 DEF Promotes
  <2>2. winner.yard \in Configs /\ winner.raced \in BOOLEAN
    BY <2>1 DEF TypeOK, OthersOK, Confirmed
  <2>3. Valid \subseteq Valid' /\ \A r \in Valid : cv'[r] = cv[r]
    BY <2>1, <2>2, InsertStep
  <2>4. torn' = (torn \/ winner.raced)
    BY <2>1 DEF Inserts
  <2>5. scan # None => torn'
    BY <2>1, <2>4 DEF RegistryInv
  <2>6. \A r \in Rows : cv[r] # None => cv'[r] # None
    BY <2>3 DEF Valid
  <2> QED
    BY <2>1, <2>3, <2>5, <2>6
<1>3. CASE Establish
  <2>1. Inserts(last.yard, last.stale) /\ last # None /\ Valid = {} /\ UNCHANGED <<scan, stored>>
    BY <1>3 DEF Establish
  <2>2. last.yard \in Configs /\ last.stale \in BOOLEAN
    BY <2>1 DEF TypeOK, OthersOK, Stored
  <2>3. \A r \in Rows : cv'[r] = cv[r] \/ cv'[r] = last.yard
    BY <2>1, <2>2, InsertStep
  <2>4. \A r \in Rows : cv[r] = None
    BY <2>1 DEF Valid
  <2>5. scan # None => scan.todo = {} /\ ~scan.any
    BY <2>1, <2>4
  <2>6. torn' \/ last.yard = stored
    BY <2>1 DEF Inserts, RegistryInv
  <2> QED
    BY <2>1, <2>3, <2>4, <2>5, <2>6
<1>4. CASE Remeasure
  <2>1. scan' = [data |-> config, todo |-> Valid, any |-> FALSE] /\ cv' = cv
    BY <1>4 DEF Remeasure, registry
  <2>2. scan'.todo \subseteq Valid' /\ ~scan'.any
    BY <2>1 DEF Valid
  <2>3. \A r \in Rows \ scan'.todo : cv'[r] = None
    BY <2>1 DEF Valid
  <2> QED
    BY <2>2, <2>3
<1>5. CASE Measures
  <2>1. PICK r \in scan.todo, fails \in BOOLEAN :
           /\ cv' = [cv EXCEPT ![r] = IF fails THEN None ELSE scan.data]
           /\ scan' = [scan EXCEPT !.todo = @ \ {r}, !.any = @ \/ ~fails]
    BY <1>5 DEF Measures
  <2>2. scan \in Scans /\ UNCHANGED <<stored, torn>>
    BY <1>5 DEF Measures, TypeOK, OthersOK
  <2>3. /\ scan'.todo = scan.todo \ {r} /\ scan'.data = scan.data
        /\ scan'.any <=> (scan.any \/ ~fails)
    BY <2>1, <2>2 DEF Scans
  <2>4. scan.data # None /\ r \in Rows /\ cv[r] # None
    BY <2>1, <2>2 DEF Scans, Valid
  <2>5. /\ \A q \in Rows \ {r} : cv'[q] = cv[q]
        /\ fails => cv'[r] = None
        /\ ~fails => cv'[r] = scan.data
    BY <2>1, <2>4 DEF TypeOK, RegistryOK
  <2>6. scan'.todo \subseteq Valid'
    BY <2>2, <2>3, <2>5 DEF Valid
  <2>7. scan'.any => \E q \in Rows \ scan'.todo : cv'[q] # None
    <3>1. CASE fails
      BY <2>2, <2>3, <2>4, <2>5, <3>1
    <3>2. CASE ~fails
      BY <2>3, <2>4, <2>5, <3>2
    <3> QED
      BY <3>1, <3>2
  <2>8. ASSUME ~torn, NEW q \in Rows \ scan'.todo
        PROVE cv'[q] = None \/ (scan'.any /\ cv'[q] = scan'.data)
    <3>1. CASE q = r
      BY <2>3, <2>5, <3>1
    <3>2. CASE q # r
      BY <2>1, <2>2, <2>3, <2>5, <2>8, <3>2
    <3> QED
      BY <3>1, <3>2
  <2> QED
    BY <2>2, <2>6, <2>7, <2>8
<1>6. CASE Remeasured \/ CutOff
  BY <1>6 DEF Remeasured, CutOff
<1>7. CASE UNCHANGED <<stored, cv, scan, torn>>
  BY <1>7 DEF Valid
<1> QED
  BY <1>1, <1>2, <1>3, <1>4, <1>5, <1>6, <1>7 DEF Next, Task, Evaluation, Environment, Retrieve,
     Load, Generate, ReadFolds, Evaluate, Ends, RetryTie, RetryFailed, Settle, Store, Reconfigure,
     PromoteLoads, Rejects, registry, attempt, others, vars

\* Every step keeps what the attempt knows of its baseline.
LEMMA KnowsInvStep == ASSUME CompareInv, [Next]_vars PROVE KnowsInv'
<1> USE NoneAssumption DEF KnowsInv, Guarded, Compared, CompareInv
<1>1. CASE Retrieve
  <2>1. /\ pc' = "retrieved" /\ prev' \in Best /\ moved' = {} /\ UNCHANGED registry
        /\ raced' \/ Fresh
    BY <1>1 DEF Retrieve, Fresh
  <2>2. UNCHANGED <<stored, cv>>
    BY <2>1 DEF registry
  <2>3. Valid = {} => prev' = None
    BY <2>1 DEF Best
  <2>4. Valid' = Valid
    BY <2>2 DEF Valid
  <2>5. Fresh => Best \subseteq {None, stored}
    BY FreshBest DEF TypeOK
  <2> QED
    BY <2>1, <2>2, <2>3, <2>4, <2>5
<1>2. CASE TrainGuard \/ EvalGuard
  <2>1. PICK p \in Parts, next \in {"eval", "generate"} :
           Guard(p, next) /\ (p = "train" <=> next = "eval")
    BY <1>2 DEF TrainGuard, EvalGuard, Parts
  <2>2. /\ stored' = stored \/ stored \notin Configs
        /\ pc' # "idle" => stored'[p] = loaded[p]
        /\ \A q \in Parts \ {p} : stored'[q] = stored[q]
    BY <2>1, GuardStep
  <2>3. UNCHANGED <<cv, prev, loaded, moved, raced>> /\ pc = p /\ pc' \in {next, "idle"}
    BY <2>1 DEF Guard, others, Parts
  <2>4. prev \in Configs \cup {None}
    BY DEF TypeOK, AttemptOK
  <2>5. CASE pc' # "idle" /\ ~raced
    <3>1. prev \in {None, stored'}
      BY <2>2, <2>3, <2>4, <2>5, <2>1 DEF Parts
    <3>2. Valid' = Valid
      BY <2>3 DEF Valid
    <3>3. CASE p = "train"
      BY <2>1, <2>2, <2>3, <2>5, <3>1, <3>2, <3>3
    <3>4. CASE p = "eval"
      <4>1. pc' = "generate"
        BY <2>1, <2>3, <2>5, <3>4
      <4>2. stored'["eval"] = loaded["eval"] /\ stored'["train"] = loaded["train"]
        BY <2>2, <2>3, <2>5, <3>4 DEF Parts
      <4>3. loaded \in [Parts -> {0, 1}] /\ stored' \in [Parts -> {0, 1, None}]
        BY <2>3, <3>4, RegistryStep DEF TypeOK, AttemptOK, RegistryOK, Configs, Parts
      <4>4. stored' = loaded
        BY <4>2, <4>3 DEF Parts
      <4> QED
        BY <2>3, <2>5, <3>1, <3>2, <3>4, <4>1, <4>4
    <3> QED
      BY <3>3, <3>4 DEF Parts
  <2> QED
    BY <2>3, <2>5
<1>3. CASE ReadFolds
  <2>1. /\ pc = "folds" /\ pc' \in {"evaluate", "judge"} /\ folds' \in Best
        /\ UNCHANGED <<stored, cv, prev, loaded, moved, raced>>
    BY <1>3 DEF ReadFolds, registry, others
  <2>2. ~raced => Fresh
    BY <2>1 DEF RegistryInv
  <2>3. Valid' = Valid
    BY <2>1 DEF Valid
  <2>4. Fresh => Best \subseteq {None, stored} /\ (Valid # {} => None \notin Best)
    BY FreshBest DEF TypeOK
  <2> QED
    BY <2>1, <2>2, <2>3, <2>4
<1>4. CASE Environment /\ (Promotes \/ Establish)
  <2>1. PICK yard \in Configs, mixes \in BOOLEAN : Inserts(yard, mixes)
    BY <1>4 DEF Promotes, Establish, TypeOK, OthersOK, Confirmed, Stored
  <2>2. Valid' # {}
    BY <2>1, InsertStep
  <2>3. raced' = (raced \/ (mixes /\ pc # "idle"))
    BY <2>1 DEF Inserts
  <2>4. UNCHANGED <<stored, pc, prev, loaded, folds>>
    BY <1>4 DEF Promotes, Establish, attempt
  <2>5. pc \notin Compared
    BY <1>4 DEF Environment
  <2> QED
    BY <2>2, <2>3, <2>4, <2>5
<1>5. CASE Remeasure \/ CutOff
  <2>1. raced' = (raced \/ pc # "idle") /\ pc' = pc
    BY <1>5 DEF Remeasure, CutOff, attempt
  <2> QED
    BY <2>1
<1>6. CASE Measures \/ Remeasured
  <2>1. scan # None /\ UNCHANGED <<pc, raced>>
    BY <1>6 DEF Measures, Remeasured, attempt
  <2>2. pc = "idle" \/ raced
    BY <2>1 DEF RegistryInv, Fresh
  <2> QED
    BY <2>1, <2>2
<1>7. CASE Store
  BY <1>7 DEF Store, Clear
<1>8. CASE /\ UNCHANGED <<stored, cv, prev, folds, moved, raced>>
           /\ \/ UNCHANGED <<pc, loaded>>
              \/ pc = "retrieved" /\ pc' = "train"
              \/ pc = "generate" /\ pc' = "folds" /\ loaded' = loaded
              \/ pc \in Compared /\ pc' \in Compared /\ loaded' = loaded
  BY <1>8 DEF Valid
<1> QED
  BY <1>1, <1>2, <1>3, <1>4, <1>5, <1>6, <1>7, <1>8 DEF Next, Task, Guards, Evaluation,
     Environment, Load, Generate, Evaluate, Ends, RetryTie, RetryFailed, Again, Decided, Settle,
     Reconfigure, PromoteLoads, Rejects, registry, attempt, others, vars

\* The first state has no score to compare with.
LEMMA CompareInit == ASSUME Init PROVE CompareInv
<1>1. TypeOK
  BY TypeInit
<1>2. RegistryInv
  BY DEF Init, RegistryInv, Fresh
<1>3. ScanInv
  BY DEF Init, ScanInv
<1>4. KnowsInv
  BY DEF Init, KnowsInv
<1> QED
  BY <1>1, <1>2, <1>3, <1>4 DEF CompareInv

\* The three parts are inductive together.
LEMMA CompareStep == ASSUME CompareInv, [Next]_vars PROVE CompareInv'
<1>1. TypeOK'
  BY TypeStep DEF CompareInv
<1> QED
  BY <1>1, RegistryInvStep, ScanInvStep, KnowsInvStep DEF CompareInv

\* GainIsComparable (cycle/run.py:137, cycle/run.py:151): an attempt that no
\* remeasurement overtakes is judged by scores of its own configuration.
THEOREM CompareCorrect == Spec => []GainIsComparable
<1>1. CompareInv => GainIsComparable
  BY DEF CompareInv, KnowsInv, Guarded, Compared, GainIsComparable
<1> QED
  BY <1>1, CompareInit, CompareStep, PTL DEF Spec

\* JumpIsReal (cycle/run.py:760): only a patch that beats the baseline it was
\* written for is stored as a jump, though promotions come in between.
THEOREM JumpCorrect == Spec => JumpIsReal
<1>1. ASSUME CompareInv, CodeInv, [Next]_vars
      PROVE [pc = "judge" /\ pc' = "idle" /\ ~raced /\ last' # last /\ last'.jump
                => result # None /\ result.kind = "up"]_vars
  <2> SUFFICES ASSUME pc = "judge", pc' = "idle", ~raced, last' # last, last'.jump
               PROVE result # None /\ result.kind = "up"
    OBVIOUS
  <2>1. Store
    BY <1>1 DEF Next, Task, Guards, TrainGuard, EvalGuard, Guard, Evaluation, Environment,
       Retrieve, Load, Generate, ReadFolds, Evaluate, Ends, RetryTie, RetryFailed, Settle, vars
  <2>2. PICK j \in Judged :
           last' = IF j = "error" THEN last ELSE [jump |-> j = "jump", yard |-> loaded, stale |-> raced]
    BY <2>1 DEF Store
  <2>3. j = "jump" /\ "jump" \in Judged
    BY <2>2
  <2>4. ~error
    BY <2>3 DEF Judged
  <2>5. result # None
    BY <1>1, <2>4 DEF CodeInv
  <2>6. TRUE \in Significances
    <3>1. PICK sig \in Significances, h \in HarnessLabels :
             "jump" = IF sig THEN "jump" ELSE IF h = "jump" THEN "neutral" ELSE h
      BY <2>3, <2>4 DEF Judged
    <3>2. sig
      BY <3>1
    <3>3. sig \in BOOLEAN
      BY DEF Significances
    <3> QED
      BY <3>2, <3>3
  <2>7. result.kind \notin Early /\ result.kind \in {"up", "flat", "down"}
    <3>1. result.kind \notin Early
      BY <2>6 DEF Significances
    <3>2. result \in Results
      BY <1>1, <2>5 DEF CompareInv, TypeOK, AttemptOK
    <3> QED
      BY <3>1, <3>2 DEF Results, Kinds
  <2>8. folds # None
    <3>1. prev # None => folds # None
      BY <1>1 DEF CompareInv, KnowsInv, Compared
    <3> QED
      BY <2>6, <2>7, <3>1 DEF Significances
  <2>9. folds = loaded
    BY <1>1, <2>8 DEF CompareInv, KnowsInv, Guarded, Compared
  <2>10. "up" \in WithFolds(result.kind)
    BY <2>6, <2>7, <2>8 DEF Significances
  <2> QED
    BY <2>5, <2>9, <2>10 DEF WithFolds
<1>2. Init => CodeInv
  BY DEF Init, CodeInv, Compared, ScoreIsOfTheCode
<1>3. CompareInv => TypeOK
  BY DEF CompareInv
<1> QED
  BY <1>1, <1>2, <1>3, CompareInit, CompareStep, CodeStep, PTL DEF Spec, JumpIsReal
=============================================================================
