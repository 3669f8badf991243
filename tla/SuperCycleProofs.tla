-------------------------- MODULE SuperCycleProofs --------------------------
(***************************************************************************)
(* Proofs about the cycles of a competition, for any number of attempts,   *)
(* any quorum, any number of stragglers and any back-off of tune runs.     *)
(***************************************************************************)
EXTENDS SuperCycle, SequenceTheorems, FiniteSetTheorems, WellFoundedInduction, TLAPS

\* A nonempty set of numbers has a least one, and Min is it.
LEMMA MinFacts ==
    ASSUME NEW S, S \subseteq Nat, S # {}
    PROVE  Min(S) \in S /\ \A y \in S : Min(S) <= y
<1> DEFINE R == OpToRel(<, Nat)
<1>1. \E x \in S : \A y \in S : ~(<<y, x>> \in R)
  BY NatLessThanWellFounded, WFMin
<1>2. \A x, y \in Nat : y < x => <<y, x>> \in R
  BY DEF OpToRel
<1> HIDE DEF R
<1>3. PICK x \in S : \A y \in S : ~(<<y, x>> \in R)
  BY <1>1
<1>4. \A y \in S : ~(y < x)
  BY <1>2, <1>3
<1>5. \A y \in S : x <= y
  BY <1>4
<1> QED
  BY <1>3, <1>5 DEF Min

\* Any other number below the modulus is its own remainder.
LEMMA SmallRemainder == ASSUME NEW a \in Nat, NEW b \in Nat, a < b PROVE a % b = a
  OBVIOUS

\* The gain of a row that has one is a number.
LEMMA GainFacts ==
    ASSUME NEW r \in Outcomes
    PROVE  /\ r.gain # None => r.gain \in {0, 1, 2}
           /\ r.label = "jump" => r.gain = 1
           /\ r.cv /\ ~r.futile => r.cv
  BY DEF Outcomes, Row

-----------------------------------------------------------------------------
(* The winner.                                                             *)

\* promote picks a row with a score or a gain if there is one, and of those
\* with a gain one that no other exceeds.
LEMMA PickedFacts ==
    ASSUME rows \in Seq(Outcomes)
    PROVE  /\ Picked \in Outcomes \cup {None}
           /\ Scored # {} => Picked # None
           /\ \A i \in Gained : Picked # None /\ Picked.gain >= rows[i].gain
<1> USE NoneAssumption
<1>1. DOMAIN rows \subseteq Nat /\ \A i \in DOMAIN rows : rows[i] \in Outcomes
  BY LenProperties, ElementOfSeq
<1>2. Gained \subseteq Nat /\ Scored \subseteq Nat
  BY <1>1 DEF Gained, Scored
<1> DEFINE best == {i \in Gained : \A j \in Gained : rows[j].gain <= rows[i].gain}
<1>3. ASSUME Gained # {} PROVE best # {}
  <2>1. \A i \in Gained : rows[i].gain \in {0, 1, 2}
    BY <1>1, GainFacts DEF Gained
  <2>2. CASE \E i \in Gained : rows[i].gain = 2
    BY <2>1, <2>2
  <2>3. CASE \A i \in Gained : rows[i].gain # 2
    BY <1>3, <2>1, <2>3
  <2> QED
    BY <2>2, <2>3
<1>4. CASE Gained # {}
  <2>1. Min(best) \in best
    <3>1. best \subseteq Nat /\ best # {}
      BY <1>2, <1>3, <1>4
    <3> HIDE DEF best
    <3> QED
      BY <3>1, MinFacts
  <2>2. Picked = rows[Min(best)]
    BY <1>4 DEF Picked
  <2>3. Picked \in Outcomes /\ \A i \in Gained : rows[i].gain <= Picked.gain
    BY <1>1, <2>1, <2>2 DEF Gained
  <2>4. \A i \in Gained : rows[i].gain \in {0, 1, 2}
    BY <1>1, GainFacts DEF Gained
  <2>5. Picked.gain \in {0, 1, 2}
    BY <2>1, <2>2, <2>4
  <2> QED
    BY <2>3, <2>4, <2>5
<1>5. CASE Gained = {} /\ Scored # {}
  <2>1. Min(Scored) \in Scored
    BY <1>2, <1>5, MinFacts
  <2> QED
    BY <1>1, <1>5, <2>1 DEF Picked, Scored
<1>6. CASE Gained = {} /\ Scored = {}
  BY <1>6 DEF Picked
<1> QED
  BY <1>4, <1>5, <1>6

-----------------------------------------------------------------------------
(* Types.                                                                  *)

\* The first start has the type ...
LEMMA TypeInit == ASSUME Init PROVE TypeOK
<1>1. CycleOK
  BY EmptySeq DEF Init, CycleOK, Marks
<1>2. CountsOK
  BY SuperCycleAssumption DEF Init, CountsOK
<1>3. FlagsOK
  BY DEF Init, FlagsOK
<1> QED
  BY <1>1, <1>2, <1>3 DEF TypeOK

\* ... every step keeps the cycle's part of it, ...
LEMMA CycleStep == ASSUME CycleOK, [Next]_vars PROVE CycleOK'
<1>1. CASE Stores
  <2>1. rows' \in Seq(Outcomes)
    <3>1. CASE UNCHANGED rows
      BY <3>1 DEF CycleOK
    <3>2. CASE \E r \in Outcomes : rows' = Append(rows, r)
      BY <3>2, AppendProperties DEF CycleOK
    <3> QED
      BY <1>1, <3>1, <3>2 DEF Stores
  <2> QED
    BY <1>1, <2>1 DEF Stores, CycleOK, marks
<1>2. CASE Pick
  <2>1. Picked \in Outcomes \cup {None}
    BY PickedFacts DEF CycleOK
  <2> QED
    BY <1>2, <2>1 DEF CycleOK, Marks, Pick
<1>3. CASE Fails \/ Ends
  <2>1. <<>> \in Seq(Outcomes)
    BY EmptySeq
  <2> QED
    BY <1>3, <2>1 DEF CycleOK, Fails, Ends, Over, marks
<1>4. CASE \/ Trigger \/ Retrieve \/ GateFires \/ Promote \/ Dies \/ StoresLate \/ Confirm
           \/ Sweep \/ TuneEnds \/ UNCHANGED vars
  BY <1>4 DEF CycleOK, Marks, Trigger, Retrieve, GateFires, Promote, Dies, StoresLate, Confirm,
     Sweep, TuneEnds, cycle, marks, vars
<1> QED
  BY <1>1, <1>2, <1>3, <1>4 DEF Next

\* ... the counts' ...
LEMMA CountsStep == ASSUME CountsOK, [Next]_vars PROVE CountsOK'
<1> USE SuperCycleAssumption
<1>1. /\ total' \in 0..(Every - 1)
      /\ \A n \in 0..(Every - 1) : n + 1 # Every => n + 1 \in 0..(Every - 1)
  BY DEF CountsOK, Next, Trigger, Retrieve, Stores, StoresLate, Dies, GateFires, Promote, Pick,
     Confirm, Fails, Ends, Sweep, TuneEnds, Counts, count, vars
<1>2. open' \in 0..N /\ late' \in 0..MaxLate
  BY DEF CountsOK, Next, Trigger, Retrieve, Stores, StoresLate, Dies, GateFires, Promote, Pick,
     Confirm, Fails, Ends, Sweep, TuneEnds, cycle, vars
<1>3. CASE TuneEnds
  <2>1. \A n \in 0..Backoff : OneMore(n) \in 0..Backoff
    BY DEF OneMore
  <2> QED
    BY <1>1, <1>2, <1>3, <2>1 DEF CountsOK, TuneEnds
<1>4. CASE Sweep \/ Ends
  BY <1>1, <1>2, <1>4 DEF CountsOK, Sweep, Ends
<1>5. CASE UNCHANGED <<fails, flight, swept, spent>>
  BY <1>1, <1>2, <1>5 DEF CountsOK
<1> QED
  BY <1>3, <1>4, <1>5 DEF Next, Trigger, Retrieve, Stores, StoresLate, Dies, GateFires, Promote,
     Pick, Confirm, Fails, tunes, vars

\* ... and the flags'.
LEMMA FlagsStep == ASSUME FlagsOK, [Next]_vars PROVE FlagsOK'
<1>1. CASE Retrieve
  <2>1. WindowOpen(total) \in BOOLEAN
    BY DEF WindowOpen
  <2> QED
    BY <1>1, <2>1 DEF FlagsOK, Retrieve, marks
<1>2. CASE Stores \/ StoresLate
  <2>1. (passed \/ total' = 0) \in BOOLEAN
    OBVIOUS
  <2> QED
    BY <1>2, <2>1 DEF FlagsOK, Stores, StoresLate, Counts, marks
<1>3. CASE \/ Trigger \/ GateFires \/ Promote \/ Dies \/ Pick \/ Confirm \/ Fails \/ Ends
           \/ Sweep \/ TuneEnds \/ UNCHANGED vars
  BY <1>3 DEF FlagsOK, Trigger, GateFires, Promote, Dies, Pick, Confirm, Fails, Ends, Sweep,
     TuneEnds, count, marks, vars
<1> QED
  BY <1>1, <1>2, <1>3 DEF Next

\* Every step keeps the type.
LEMMA TypeStep == ASSUME TypeOK, [Next]_vars PROVE TypeOK'
  BY CycleStep, CountsStep, FlagsStep DEF TypeOK

\* Every state of the cycles has the type.
THEOREM TypeCorrect == Spec => []TypeOK
  BY TypeInit, TypeStep, PTL DEF Spec

-----------------------------------------------------------------------------
(* The quorum and the winner.  A success has a score, so from the moment   *)
(* the gate counts one there is a row that promote can pick; rows are only *)
(* added until it does.                                                    *)

QuorumInv ==
    /\ TypeOK
    /\ pc = "idle" => gate = None
    /\ gate = "quorum" /\ pc \in {"triggered", "run", "promote"} => Scored # {}
    /\ QuorumHasWinner

\* Rows that arrive leave the scored ones where they are.
LEMMA ScoredStays ==
    ASSUME TypeOK, Scored # {}, NEW r \in Outcomes, rows' = Append(rows, r)
    PROVE  Scored' # {}
<1>1. PICK i \in DOMAIN rows : rows[i].cv
  BY DEF Scored
<1>2. i \in DOMAIN rows' /\ rows'[i] = rows[i]
  BY AppendProperties, LenProperties DEF TypeOK, CycleOK
<1> QED
  BY <1>1, <1>2 DEF Scored

\* A quorum has at least one row in it.
LEMMA QuorumIsNonempty ==
    ASSUME TypeOK, Cardinality(Successes) >= MinDone
    PROVE  Scored # {}
<1>1. SUFFICES ASSUME Successes = {} PROVE FALSE
  BY DEF Successes, Scored, Succeeds
<1>2. Cardinality(Successes) = 0
  BY <1>1, FS_EmptySet
<1> QED
  BY <1>2, SuperCycleAssumption

\* QuorumHasWinner (run_attempt_gate_task.py:48, #214): when the gate let a
\* cycle pass for its successes, promote finds a winner.
THEOREM QuorumCorrect == Spec => []QuorumHasWinner
<1>1. ASSUME Init PROVE QuorumInv
  BY <1>1, TypeInit, NoneAssumption DEF Init, QuorumInv, QuorumHasWinner
<1>2. ASSUME QuorumInv, [Next]_vars PROVE QuorumInv'
  <2>1. TypeOK /\ TypeOK'
    BY <1>2, TypeStep DEF QuorumInv
  <2>2. CASE Stores
    <3>1. Scored # {} => Scored' # {}
      BY <2>1, <2>2, ScoredStays DEF Stores, Scored
    <3> QED
      BY <1>2, <2>1, <2>2, <3>1 DEF Stores, QuorumInv, QuorumHasWinner
  <2>3. CASE GateFires
    <3>1. gate' = "quorum" => Scored' # {}
      BY <2>1, <2>3, QuorumIsNonempty DEF GateFires, Scored
    <3> QED
      BY <1>2, <2>1, <2>3, <3>1 DEF GateFires, QuorumInv, QuorumHasWinner
  <2>4. CASE Pick
    <3>1. Scored # {} => Picked # None
      BY <2>1, PickedFacts DEF TypeOK, CycleOK
    <3> QED
      BY <1>2, <2>1, <2>4, <3>1 DEF Pick, QuorumInv, QuorumHasWinner
  <2>5. CASE Fails \/ Ends
    BY <2>1, <2>5, NoneAssumption DEF Fails, Ends, Over, QuorumInv, QuorumHasWinner
  <2>6. CASE \/ Trigger \/ Retrieve \/ StoresLate \/ Dies \/ Promote \/ Confirm \/ Sweep
             \/ TuneEnds \/ UNCHANGED vars
    <3>1. UNCHANGED <<gate, rows, winner>>
      BY <2>6 DEF Trigger, Retrieve, StoresLate, Dies, Promote, Confirm, Sweep, TuneEnds,
         cycle, vars
    <3>2. /\ pc' = "idle" => pc = "idle"
          /\ pc' \in {"triggered", "run", "promote"} =>
                pc = "idle" \/ pc \in {"triggered", "run", "promote"}
          /\ pc' \in {"confirm", "wrap"} => pc \in {"confirm", "wrap"}
      BY <2>6 DEF Trigger, Retrieve, StoresLate, Dies, Promote, Confirm, Sweep, TuneEnds,
         cycle, vars
    <3>3. Scored' = Scored
      BY <3>1 DEF Scored
    <3>4. QuorumHasWinner'
      BY <1>2, <3>1, <3>2 DEF QuorumInv, QuorumHasWinner
    <3>5. gate' = "quorum" /\ pc' \in {"triggered", "run", "promote"} => Scored' # {}
      <4>1. CASE pc = "idle"
        BY <1>2, <3>1, <4>1, NoneAssumption DEF QuorumInv
      <4>2. CASE pc # "idle"
        <5>1. ASSUME gate' = "quorum", pc' \in {"triggered", "run", "promote"}
              PROVE  Scored' # {}
          BY <1>2, <3>1, <3>2, <3>3, <4>2, <5>1 DEF QuorumInv
        <5> QED
          BY <5>1
      <4> QED
        BY <4>1, <4>2
    <3> QED
      BY <1>2, <2>1, <3>1, <3>2, <3>4, <3>5 DEF QuorumInv
  <2> QED
    BY <1>2, <2>2, <2>3, <2>4, <2>5, <2>6 DEF Next
<1>3. QuorumInv => QuorumHasWinner
  BY DEF QuorumInv
<1> QED
  BY <1>1, <1>2, <1>3, PTL DEF Spec

\* JumpTriedOrOutranked (run_promote_task.py:45): promote goes on to confirm,
\* or its winner's gain is at least that of every jump.
THEOREM JumpCorrect == Spec => JumpTriedOrOutranked
<1>1. ASSUME TypeOK, [Next]_vars, pc = "promote", pc' = "wrap",
             NEW i \in DOMAIN rows, rows[i].label = "jump"
      PROVE  winner' # None /\ winner'.gain >= rows[i].gain
  <2>1. Pick
    BY <1>1 DEF Next, Trigger, Retrieve, Stores, StoresLate, Dies, GateFires, Promote, Confirm,
       Fails, Over, Ends, Sweep, TuneEnds, cycle, vars
  <2>2. rows[i] \in Outcomes
    BY <1>1, ElementOfSeq, LenProperties DEF TypeOK, CycleOK
  <2>3. i \in Gained
    BY <1>1, <2>2, GainFacts, NoneAssumption DEF Gained
  <2> QED
    BY <1>1, <2>1, <2>3, PickedFacts DEF Pick, TypeOK, CycleOK
<1>2. ASSUME TypeOK, [Next]_vars
      PROVE  [pc = "promote" /\ pc' = "wrap" =>
                \A i \in DOMAIN rows : rows[i].label = "jump" =>
                    winner' # None /\ winner'.gain >= rows[i].gain]_vars
  BY <1>1, <1>2
<1> QED
  BY <1>2, TypeInit, TypeStep, PTL DEF Spec, JumpTriedOrOutranked

-----------------------------------------------------------------------------
(* Tune runs.  Never are two in flight, and one that a cycle triggered     *)
(* started with fewer than Backoff runs in vain.                           *)

TuneInv ==
    /\ CountsOK
    /\ flight + swept <= 1
    /\ flight = 1 => fails < Backoff
    /\ spent <= fails

\* StaleTunesBounded (run_daemon.py:538): however often a cycle finds a mark
\* that is not its own, at most Backoff tune runs in a row are in vain.
THEOREM StaleTunesCorrect == Spec => []StaleTunesBounded
<1>1. ASSUME Init PROVE TuneInv
  <2>1. CountsOK
    BY <1>1, TypeInit DEF TypeOK
  <2>2. fails = 0 /\ flight = 0 /\ swept = 0 /\ spent = 0
    BY <1>1 DEF Init
  <2> QED
    BY <2>1, <2>2, SuperCycleAssumption DEF TuneInv
<1>2. ASSUME TuneInv, [Next]_vars PROVE TuneInv'
  <2>1. CountsOK'
    BY <1>2, CountsStep DEF TuneInv
  <2>2. CASE TuneEnds
    <3>1. fails \in Nat /\ flight \in Nat /\ swept \in Nat /\ spent \in Nat /\ Backoff \in Nat
      BY <1>2, SuperCycleAssumption DEF TuneInv, CountsOK
    <3>2. fails < Backoff => OneMore(fails) = fails + 1
      BY DEF OneMore
    <3>3. OneMore(fails) >= fails
      BY <3>1 DEF OneMore
    <3>4. CASE flight > 0
      BY <1>2, <2>1, <2>2, <3>1, <3>2, <3>4 DEF TuneEnds, TuneInv
    <3>5. CASE flight = 0
      <4>1. flight' = flight /\ swept' = swept - 1 /\ swept > 0
        BY <2>2, <3>5 DEF TuneEnds
      <4>2. \/ fails' = 0 /\ spent' = 0
            \/ fails' = OneMore(fails) /\ spent' = spent
            \/ fails' = fails /\ spent' = spent
        BY <2>2, <3>1, <4>1 DEF TuneEnds
      <4>3. spent' <= fails'
        BY <1>2, <2>1, <3>1, <3>3, <4>2 DEF TuneInv, CountsOK
      <4> QED
        BY <1>2, <2>1, <3>1, <3>5, <4>1, <4>3 DEF TuneInv
    <3> QED
      BY <3>1, <3>4, <3>5
  <2>3. CASE Ends \/ Sweep
    <3>1. fails \in Nat /\ flight \in Nat /\ swept \in Nat /\ Backoff \in Nat
      BY <1>2, SuperCycleAssumption DEF TuneInv, CountsOK
    <3>2. UNCHANGED <<fails, spent>>
      BY <2>3 DEF Ends, Sweep
    <3>3. \/ UNCHANGED <<flight, swept>>
          \/ flight + swept = 0 /\ fails < Backoff /\ flight' = flight + 1 /\ UNCHANGED swept
          \/ flight + swept = 0 /\ swept' = swept + 1 /\ UNCHANGED flight
      BY <2>3 DEF Ends, Sweep, MayTune
    <3> QED
      BY <1>2, <2>1, <3>1, <3>2, <3>3 DEF TuneInv
  <2>4. CASE UNCHANGED tunes
    BY <1>2, <2>1, <2>4 DEF tunes, TuneInv
  <2> QED
    BY <1>2, <2>2, <2>3, <2>4 DEF Next, Trigger, Retrieve, Stores, StoresLate, Dies, GateFires,
       Promote, Pick, Confirm, Fails, vars
<1>3. TuneInv => StaleTunesBounded
  BY SuperCycleAssumption DEF TuneInv, CountsOK, StaleTunesBounded
<1> QED
  BY <1>1, <1>2, <1>3, PTL DEF Spec

-----------------------------------------------------------------------------
(* Dead actions.  While no straggler stores a row, the rows stored since   *)
(* the last assignment and the attempts that are still open are N at most. *)

WindowInv ==
    /\ CountsOK
    /\ passed /\ ~strayed => total + open < N

\* DeadGetTheirTurn (action_optimizer.py:94): the assignment after the count
\* passed a multiple of Every has dead actions among its candidates.
THEOREM DeadActionsCorrect == Spec => DeadGetTheirTurn
<1>1. ASSUME Init PROVE WindowInv
  BY <1>1, TypeInit DEF Init, WindowInv, TypeOK
<1>2. ASSUME WindowInv, [Next]_vars PROVE WindowInv'
  <2>1. CountsOK'
    BY <1>2, CountsStep DEF WindowInv
  <2>2. CASE Stores
    <3>1. /\ total \in Nat /\ open \in Nat /\ open <= N /\ N \in Nat
          /\ open > 0 /\ open' = open - 1
      BY <1>2, <2>2, SuperCycleAssumption DEF WindowInv, CountsOK, Stores
    <3>2. UNCHANGED strayed /\ (passed' => passed \/ total' = 0)
      BY <2>2 DEF Stores, Counts
    <3>3. total' = 0 \/ total' = total + 1
      BY <2>2 DEF Stores, Counts
    <3>4. ASSUME passed', ~strayed' PROVE total' + open' < N
      <4>1. CASE total' = 0
        BY <3>1, <4>1
      <4>2. CASE total' # 0
        <5>1. passed /\ ~strayed
          BY <3>2, <3>4, <4>2
        <5> QED
          BY <1>2, <3>1, <3>3, <4>2, <5>1 DEF WindowInv
      <4> QED
        BY <4>1, <4>2
    <3> QED
      BY <2>1, <3>4 DEF WindowInv
  <2>3. CASE StoresLate
    BY <2>1, <2>3 DEF StoresLate, WindowInv
  <2>4. CASE Trigger \/ Retrieve \/ Dies
    <3>1. total \in Nat /\ open \in Nat
      BY <1>2 DEF WindowInv, CountsOK
    <3>2. passed' => passed /\ strayed' = strayed /\ total' = total
      BY <2>4 DEF Trigger, Retrieve, Dies, count
    <3>3. passed' => open' = 0 \/ open' = open - 1 \/ open' = open
      BY <2>4 DEF Trigger, Retrieve, Dies
    <3>4. ASSUME passed', ~strayed' PROVE total' + open' < N
      <4>1. passed /\ ~strayed
        BY <3>2, <3>4
      <4>2. total' = total /\ (open' = 0 \/ open' = open - 1 \/ open' = open)
        BY <3>2, <3>3, <3>4
      <4> QED
        BY <1>2, <3>1, <4>1, <4>2, SuperCycleAssumption DEF WindowInv
    <3> QED
      BY <2>1, <3>4 DEF WindowInv
  <2>5. CASE UNCHANGED <<open, count>>
    BY <1>2, <2>1, <2>5 DEF count, WindowInv
  <2> QED
    BY <1>2, <2>2, <2>3, <2>4, <2>5 DEF Next, GateFires, Promote, Pick, Confirm, Fails, Ends,
       Sweep, TuneEnds, cycle, vars
<1>3. ASSUME WindowInv, [Next]_vars, pc = "triggered", pc' = "run", passed, ~strayed
      PROVE  revived'
  <2>1. Retrieve
    BY <1>3 DEF Next, Trigger, Stores, StoresLate, Dies, GateFires, Promote, Pick, Confirm,
       Fails, Over, Ends, Sweep, TuneEnds, cycle, vars
  <2>2. total \in Nat /\ total < N /\ total < Every /\ Every \in Nat
    BY <1>3, SuperCycleAssumption DEF WindowInv, CountsOK
  <2>3. total % Every = total
    BY <2>2, SmallRemainder
  <2> QED
    BY <2>1, <2>2, <2>3 DEF Retrieve, WindowOpen
<1>4. ASSUME WindowInv, [Next]_vars
      PROVE  [pc = "triggered" /\ pc' = "run" /\ passed /\ ~strayed => revived']_vars
  BY <1>3, <1>4
<1> QED
  BY <1>1, <1>2, <1>4, PTL DEF Spec, DeadGetTheirTurn
=============================================================================
