------------------------ MODULE PromotionGateProofs ------------------------
(***************************************************************************)
(* Proofs about the promotion gate, for any number of candidates, tasks,   *)
(* seeds, tune runs, refreshes, expiries and failures, and any scores.     *)
(*                                                                         *)
(* The argument is GateInv.  What a task, the cache and the memo hold was  *)
(* measured under parameters of the set Seen: those the untuned baseline   *)
(* starts with alone as long as no tune run has ended, any parameters      *)
(* afterwards.  The first reading gives MemoryIsTransparent, the second    *)
(* RejectionsAreMeasured and PromotionsAreMeasured.                        *)
(***************************************************************************)
EXTENDS PromotionGate, SequenceTheorems, TLAPS

-----------------------------------------------------------------------------
(* The inductive invariant.                                                *)

Points == {"free", "fetch", "consult", "base", "measure", "cand", "judge", "merge", "promote"}

Calls == [at : Points, cand : Sources, cv : Nat, base : Sources, params : Params,
          bar : 0..Holdout, mark : Nat, got : Nat, lost : BOOLEAN]

Seen == IF tunes = 0 THEN {NoParams} ELSE Params
SeenTops == IF moves = 0 THEN {top} ELSE Tops

\* On bar i the candidate of c has beaten, or has not beaten, a score the
\* baseline has under parameters of P.
Beats(c, i, p) == Clears(Score[c.cand][c.params][i], Score[c.base][p][i], i)
Cleared(c, i, P) == \E p \in P : Beats(c, i, p)
Missed(c, P) == \E i \in 1..Holdout, p \in P : ~Beats(c, i, p)

Bars == {"base", "measure", "cand", "judge"}

\* A task on one of the bars: the earlier ones were cleared, or one was lost
\* and only the holdout is left; its two scores are measured ones.
BarsOK(c, P) ==
    /\ c.bar \in 1..Holdout
    /\ c.at = "judge" => c.bar = Holdout
    /\ c.bar < Holdout => ~c.lost
    /\ ~c.lost => \A i \in 1..Holdout : i < c.bar => Cleared(c, i, P)
    /\ c.lost => Missed(c, P)
    /\ c.bar = Holdout /\ c.at # "cand" => c.got = Score[c.cand][c.params][Holdout]
    /\ c.at = "judge" \/ (c.at = "cand" /\ c.bar < Holdout) =>
         \E p \in P : c.mark = Score[c.base][p][c.bar]

\* A task at any point.
CallOK(c, P) ==
    /\ c \in Calls
    /\ c.at # "free" => c.cand \in Cands /\ \E p \in P : c.cv = Score[c.cand][p][0]
    /\ c.at \notin {"free", "fetch"} => c.params \in P
    /\ c.at \in {"free", "fetch", "consult"} => ~c.lost
    /\ c.at \in Bars => BarsOK(c, P)
    /\ c.at \in {"merge", "promote"} => \A i \in 1..Holdout : Cleared(c, i, P)

\* A remembered rejection: too good for a best score of T, or lost on a bar.
Measured(key, P, T) ==
    \E c \in Cands, pa, pb, pc \in P :
       /\ Score[c][pa][0] = key[2]
       /\ \/ \E best \in T : key[2] > best
          \/ \E bar \in 1..Holdout : ~Clears(Score[c][pc][bar], Score[key[1]][pb][bar], bar)

Entries == [key : Sources \X (1..Holdout), score : Nat]

KeptScore(e, P) == \E p \in P : e.score = Score[e.key[1]][p][e.key[2]]

LineOK  == line \in Seq([src : Sources, cv : Nat]) /\ line # <<>>
WorldOK == /\ tuned \in Seen /\ top \in Tops /\ tunes \in Nat /\ moves \in Nat
CallsOK == /\ DOMAIN call = Tasks
           /\ \A t \in Tasks : CallOK(call[t], Seen)
CacheOK == /\ cache \subseteq Entries
           /\ \A e, f \in cache : e.key = f.key => e = f
           /\ \A e \in cache : KeptScore(e, Seen)
MemoOK  == /\ memo \subseteq Sources \X Nat
           /\ \A key \in memo : Measured(key, Seen, SeenTops)

GateInv == LineOK /\ WorldOK /\ CallsOK /\ CacheOK /\ MemoOK

-----------------------------------------------------------------------------
(* Lemmas about the operators.                                             *)

\* Every score is a number.
LEMMA ScoreFacts ==
    \A s \in Sources, p \in Params, i \in 0..Holdout : Score[s][p][i] \in Nat
  BY GateAssumption

\* There is at least one bar, and the holdout is the last.
LEMMA HoldoutFacts == Holdout \in Nat \ {0}
  BY GateAssumption

\* What was seen are parameters, and the untuned ones are always among them.
LEMMA SeenFacts ==
    /\ Seen \subseteq Params /\ NoParams \in Seen
    /\ top \in Tops => SeenTops \subseteq Tops /\ top \in SeenTops
  BY GateAssumption DEF Seen, SeenTops

\* What is true of a task by the parameters of P is true by those of a larger
\* set.
LEMMA CallOKGrows ==
    ASSUME NEW c, NEW P, NEW Q, P \subseteq Q, CallOK(c, P)
    PROVE  CallOK(c, Q)
<1>1. \A i : Cleared(c, i, P) => Cleared(c, i, Q)
  BY DEF Cleared
<1>2. Missed(c, P) => Missed(c, Q)
  BY DEF Missed
<1>3. BarsOK(c, P) => BarsOK(c, Q)
  BY <1>1, <1>2 DEF BarsOK
<1> QED
  BY <1>1, <1>3 DEF CallOK

\* So it is with remembered rejections and kept scores.
LEMMA MeasuredGrows ==
    ASSUME NEW key, NEW P, NEW Q, P \subseteq Q, NEW S, NEW T, S \subseteq T,
           Measured(key, P, S)
    PROVE  Measured(key, Q, T)
  BY DEF Measured

\* A task without a winner knows nothing.
LEMMA FreeOK == ASSUME NEW P PROVE CallOK(Free, P)
  BY GateAssumption DEF Free, CallOK, Calls, Points, Bars, Sources

\* The latest pipeline of the line has a source and a score.
LEMMA BestFacts == LineOK => Best.src \in Sources /\ Best.cv \in Nat
<1> SUFFICES ASSUME LineOK PROVE Best.src \in Sources /\ Best.cv \in Nat
  OBVIOUS
<1> DEFINE Rows == [src : Sources, cv : Nat]
<1>1. line \in Seq(Rows) /\ line # <<>>
  BY DEF LineOK
<1> HIDE DEF Rows
<1>2. line[Len(line)] \in Rows
  BY <1>1
<1> USE DEF Rows
<1> QED
  BY <1>2 DEF Best

-----------------------------------------------------------------------------
(* Steps of a task: what it knows afterwards is true.                      *)

\* One task's knowledge changes, the parameters seen do not.
LEMMA BecomesStep ==
    ASSUME CallsOK, NEW t \in Tasks, NEW c, CallOK(c, Seen), Becomes(t, c), tunes' = tunes
    PROVE  CallsOK'
<1>1. Seen' = Seen
  BY DEF Seen
<1>2. DOMAIN call' = Tasks
  BY DEF CallsOK, Becomes
<1>3. \A s \in Tasks : call'[s] = c \/ call'[s] = call[s]
  BY DEF CallsOK, Becomes
<1>4. \A s \in Tasks : CallOK(call'[s], Seen)
  BY <1>3 DEF CallsOK
<1> QED
  BY <1>1, <1>2, <1>4 DEF CallsOK

\* The parts a task's step leaves alone.
LEMMA ElsewhereStep ==
    ASSUME GateInv, Elsewhere
    PROVE  LineOK' /\ WorldOK' /\ Seen' = Seen /\ SeenTops' = SeenTops /\ tunes' = tunes
  BY DEF GateInv, Elsewhere, LineOK, WorldOK, Seen, SeenTops, tuning, world

\* Memo and cache stay what they are.
LEMMA CachesStep ==
    ASSUME GateInv, Elsewhere, UNCHANGED caches
    PROVE  CacheOK' /\ MemoOK'
  BY ElsewhereStep DEF GateInv, CacheOK, MemoOK, caches

\* A winner comes with a score it has under the parameters of its time.
LEMMA AttemptStep ==
    ASSUME GateInv, NEW t \in Tasks, NEW c \in Cands, Attempt(t, c)
    PROVE  GateInv'
<1> DEFINE new == [Free EXCEPT !.at = "fetch", !.cand = c, !.cv = Score[c][tuned][0]]
<1>1. tuned \in Seen /\ tuned \in Params
  BY SeenFacts DEF GateInv, WorldOK
<1>2. new.at = "fetch" /\ new.cand = c /\ new.cv = Score[c][tuned][0] /\ new.lost = FALSE
  BY DEF Free
<1>3. Score[c][tuned][0] \in Nat
  BY <1>1, ScoreFacts, GateAssumption DEF Sources
<1>4. new \in Calls
  <2>1. Free \in Calls
    BY GateAssumption DEF Free, Calls, Points, Sources
  <2> QED
    BY <1>3, <2>1 DEF Calls, Points, Sources
<1> HIDE DEF new
<1>5. CallOK(new, Seen)
  BY <1>1, <1>2, <1>4 DEF CallOK, Bars
<1>6. Becomes(t, new) /\ Elsewhere /\ UNCHANGED caches
  BY DEF Attempt, new
<1> QED
  BY <1>5, <1>6, BecomesStep, ElsewhereStep, CachesStep DEF GateInv

\* Ending a task forgets what it knew.
LEMMA EndsStep ==
    ASSUME CallsOK, NEW t \in Tasks, Ends(t), tunes' = tunes
    PROVE  CallsOK'
  BY BecomesStep, FreeOK DEF Ends

\* Baseline and parameters are read.
LEMMA FetchStep ==
    ASSUME GateInv, NEW t \in Tasks, Fetch(t)
    PROVE  GateInv'
<1>1. Elsewhere /\ UNCHANGED caches
  BY DEF Fetch
<1>2. CASE Ends(t)
  BY <1>1, <1>2, EndsStep, ElsewhereStep, CachesStep DEF GateInv
<1>3. CASE ~Ends(t)
  <2> DEFINE c == call[t]
             new == [c EXCEPT !.at = "consult", !.base = Best.src, !.params = tuned]
  <2>1. Becomes(t, new)
    BY <1>3 DEF Fetch
  <2>2. CallOK(c, Seen) /\ c \in Calls /\ c.at = "fetch"
    BY DEF GateInv, CallsOK, CallOK, Fetch, At
  <2>3. Best.src \in Sources
    BY BestFacts DEF GateInv
  <2>4. tuned \in Seen /\ tuned \in Params
    BY SeenFacts DEF GateInv, WorldOK
  <2> HIDE DEF c
  <2>5. new \in Calls
    BY <2>2, <2>3, <2>4 DEF Calls, Points
  <2>6. /\ new.at = "consult" /\ new.params = tuned /\ new.cand = c.cand
        /\ new.cv = c.cv /\ new.lost = c.lost
    BY <2>2 DEF Calls
  <2> HIDE DEF new
  <2>7. CallOK(new, Seen)
    BY <2>2, <2>4, <2>5, <2>6 DEF CallOK, Bars
  <2> QED
    BY <1>1, <2>1, <2>7, BecomesStep, ElsewhereStep, CachesStep DEF GateInv
<1> QED
  BY <1>2, <1>3

\* The candidate is known, too good, or goes to the first bar.
LEMMA ConsultStep ==
    ASSUME GateInv, NEW t \in Tasks, Consult(t)
    PROVE  GateInv'
<1> DEFINE c == call[t]
<1>1. Elsewhere /\ At(t, "consult")
  BY DEF Consult
<1>2. CallOK(c, Seen) /\ c \in Calls /\ c.at = "consult" /\ c.cand \in Cands /\ c.params \in Seen
  BY <1>1 DEF GateInv, CallsOK, CallOK, At
<1>3. CASE Ends(t) /\ UNCHANGED caches
  BY <1>1, <1>3, EndsStep, ElsewhereStep, CachesStep DEF GateInv
<1>4. CASE TooGood(c) /\ Ends(t) /\ Remember(t)
  <2>1. Key(c) \in Sources \X Nat
    BY <1>2 DEF Calls, Key
  <2>2. top \in SeenTops
    BY SeenFacts DEF GateInv, WorldOK
  <2>3. Measured(Key(c), Seen, SeenTops)
    <3>1. PICK p \in Seen : c.cv = Score[c.cand][p][0]
      BY <1>2 DEF CallOK
    <3>2. Key(c)[2] = c.cv /\ c.cv > top
      BY <1>4 DEF Key, TooGood
    <3> QED
      BY <1>2, <2>2, <3>1, <3>2 DEF Measured
  <2>4. CacheOK' /\ MemoOK'
    BY <1>1, <1>4, <2>1, <2>3, ElsewhereStep DEF GateInv, CacheOK, MemoOK, Remember
  <2> QED
    BY <1>1, <1>4, <2>4, EndsStep, ElsewhereStep DEF GateInv
<1>5. CASE Becomes(t, [c EXCEPT !.at = First(1), !.bar = 1]) /\ UNCHANGED caches
  <2> DEFINE new == [c EXCEPT !.at = First(1), !.bar = 1]
  <2>1. First(1) \in {"base", "cand"} /\ (First(1) = "cand" => Holdout = 1)
    BY DEF First
  <2>2. c.lost = FALSE
    BY <1>2 DEF CallOK, Calls
  <2> HIDE DEF c
  <2>3. new \in Calls
    <3>1. 1 \in 0..Holdout
      BY GateAssumption
    <3>2. First(1) \in Points
      BY <2>1 DEF Points
    <3> QED
      BY <1>2, <3>1, <3>2 DEF Calls
  <2>4. /\ new.at = First(1) /\ new.bar = 1 /\ new.cand = c.cand /\ new.cv = c.cv
        /\ new.params = c.params /\ new.lost = FALSE /\ new.got = c.got
    BY <1>2, <2>2 DEF Calls
  <2> HIDE DEF new
  <2>5. CASE Holdout # 1
    <3>1. BarsOK(new, Seen)
      BY <2>1, <2>4, <2>5, GateAssumption DEF BarsOK
    <3>2. CallOK(new, Seen)
      BY <1>2, <2>1, <2>3, <2>4, <3>1 DEF CallOK, Bars
    <3> QED
      BY <1>1, <1>5, <3>2, BecomesStep, ElsewhereStep, CachesStep DEF GateInv, new, c
  <2>6. CASE Holdout = 1
    <3>1. new.at = "cand"
      BY <2>4, <2>6 DEF First
    <3>2. BarsOK(new, Seen)
      BY <2>4, <2>6, <3>1 DEF BarsOK
    <3>3. CallOK(new, Seen)
      BY <1>2, <2>3, <2>4, <3>1, <3>2 DEF CallOK, Bars
    <3> QED
      BY <1>1, <1>5, <3>3, BecomesStep, ElsewhereStep, CachesStep DEF GateInv, new, c
  <2> QED
    BY <2>5, <2>6
<1> QED
  BY <1>3, <1>4, <1>5 DEF Consult

\* The mark to clear is a score the baseline has under parameters seen.
LEMMA AgainstStep ==
    ASSUME GateInv, NEW t \in Tasks, call[t].at \in {"base", "measure"}, NEW p \in Seen,
           Against(t, Score[call[t].base][p][call[t].bar]), tunes' = tunes
    PROVE  CallsOK'
<1> DEFINE c == call[t]
           score == Score[c.base][p][c.bar]
           point == IF c.bar = Holdout THEN "judge" ELSE "cand"
           new == [c EXCEPT !.mark = score, !.at = point]
<1>1. CallOK(c, Seen) /\ c \in Calls /\ BarsOK(c, Seen) /\ c.at \in {"base", "measure"}
  BY DEF GateInv, CallsOK, CallOK, Bars
<1>2. Becomes(t, new)
  BY DEF Against
<1>3. score \in Nat
  BY <1>1, ScoreFacts, SeenFacts DEF Calls
<1> HIDE DEF c, score
<1>4. /\ point \in {"judge", "cand"} /\ (point = "judge" <=> c.bar = Holdout)
  OBVIOUS
<1> HIDE DEF point
<1>5. new \in Calls
  BY <1>1, <1>3, <1>4 DEF Calls, Points
<1>6. /\ new.at = point /\ new.mark = score /\ new.bar = c.bar /\ new.cand = c.cand
      /\ new.cv = c.cv /\ new.base = c.base /\ new.params = c.params /\ new.got = c.got
      /\ new.lost = c.lost
  BY <1>1 DEF Calls
<1> HIDE DEF new
<1>7. BarsOK(new, Seen)
  <2>1. \A i : Cleared(new, i, Seen) <=> Cleared(c, i, Seen)
    BY <1>6 DEF Cleared, Beats
  <2>2. Missed(new, Seen) <=> Missed(c, Seen)
    BY <1>6 DEF Missed, Beats
  <2>3. new.mark = Score[new.base][p][new.bar]
    BY <1>6 DEF score
  <2> QED
    BY <1>1, <1>4, <1>6, <2>1, <2>2, <2>3 DEF BarsOK
<1>8. CallOK(new, Seen)
  BY <1>1, <1>4, <1>5, <1>6, <1>7 DEF CallOK, Bars
<1> QED
  BY <1>2, <1>8, BecomesStep DEF GateInv

\* The kept score of the baseline, or none.
LEMMA BaselineStep ==
    ASSUME GateInv, NEW t \in Tasks, Baseline(t)
    PROVE  GateInv'
<1> DEFINE c == call[t]
<1>1. Elsewhere /\ UNCHANGED caches /\ c.at = "base"
  BY DEF Baseline, At
<1>2. CallOK(c, Seen) /\ c \in Calls /\ BarsOK(c, Seen)
  BY <1>1 DEF GateInv, CallsOK, CallOK, Bars
<1>3. CallsOK'
  <2>1. CASE \E e \in cache : e.key = Slot(c) /\ Against(t, e.score)
    <3>1. PICK e \in cache : e.key = Slot(c) /\ Against(t, e.score)
      BY <2>1
    <3>2. PICK p \in Seen : e.score = Score[e.key[1]][p][e.key[2]]
      BY DEF GateInv, CacheOK, KeptScore
    <3>3. e.score = Score[c.base][p][c.bar]
      BY <3>1, <3>2 DEF Slot
    <3> QED
      BY <1>1, <3>1, <3>3, AgainstStep, ElsewhereStep
  <2>2. CASE Goes(t, "measure")
    <3> DEFINE new == [c EXCEPT !.at = "measure"]
    <3>1. Becomes(t, new)
      BY <2>2 DEF Goes
    <3> HIDE DEF c
    <3>2. new \in Calls
      BY <1>2 DEF Calls, Points
    <3>3. /\ new.at = "measure" /\ new.bar = c.bar /\ new.cand = c.cand /\ new.cv = c.cv
          /\ new.base = c.base /\ new.params = c.params /\ new.got = c.got
          /\ new.mark = c.mark /\ new.lost = c.lost
      BY <1>2 DEF Calls
    <3> HIDE DEF new
    <3>4. BarsOK(new, Seen)
      <4>1. \A i : Cleared(new, i, Seen) <=> Cleared(c, i, Seen)
        BY <3>3 DEF Cleared, Beats
      <4>2. Missed(new, Seen) <=> Missed(c, Seen)
        BY <3>3 DEF Missed, Beats
      <4> QED
        BY <1>1, <1>2, <3>3, <4>1, <4>2 DEF BarsOK
    <3>5. CallOK(new, Seen)
      BY <1>1, <1>2, <3>2, <3>3, <3>4 DEF CallOK, Bars
    <3> QED
      BY <1>1, <3>1, <3>5, BecomesStep, ElsewhereStep DEF GateInv
  <2> QED
    BY <2>1, <2>2 DEF Baseline
<1> QED
  BY <1>1, <1>3, ElsewhereStep, CachesStep DEF GateInv

\* The baseline is measured and its score is kept.
LEMMA MeasureStep ==
    ASSUME GateInv, NEW t \in Tasks, Measure(t)
    PROVE  GateInv'
<1> DEFINE c == call[t]
           score == Score[c.base][c.params][c.bar]
           entry == [key |-> Slot(c), score |-> score]
<1>1. /\ Elsewhere /\ UNCHANGED memo /\ c.at = "measure" /\ Against(t, score)
      /\ cache' = {e \in cache : e.key # Slot(c)} \cup {entry}
  BY DEF Measure, At
<1>2. CallOK(c, Seen) /\ c \in Calls /\ BarsOK(c, Seen) /\ c.params \in Seen
  BY <1>1 DEF GateInv, CallsOK, CallOK, Bars
<1>3. CallsOK'
  BY <1>1, <1>2, AgainstStep, ElsewhereStep
<1>4. entry \in Entries /\ KeptScore(entry, Seen)
  <2>1. Slot(c) \in Sources \X (1..Holdout)
    BY <1>2 DEF Calls, Slot, BarsOK
  <2>2. score \in Nat
    BY <1>2, ScoreFacts, SeenFacts DEF Calls
  <2>3. KeptScore(entry, Seen)
    BY <1>2 DEF KeptScore, Slot
  <2> QED
    BY <2>1, <2>2, <2>3 DEF Entries
<1>5. CacheOK'
  <2>1. entry.key = Slot(c)
    OBVIOUS
  <2> HIDE DEF entry, c, score
  <2> QED
    BY <1>1, <1>4, <2>1, ElsewhereStep DEF GateInv, CacheOK
<1>6. MemoOK'
  BY <1>1, ElsewhereStep DEF GateInv, MemoOK
<1> QED
  BY <1>1, <1>3, <1>5, <1>6, ElsewhereStep DEF GateInv

\* A seed is won or lost, or the holdout of the candidate is known.
LEMMA CandidateStep ==
    ASSUME GateInv, NEW t \in Tasks, Candidate(t)
    PROVE  GateInv'
<1> DEFINE c == call[t]
           score == Score[c.cand][c.params][c.bar]
           lost == score <= c.mark
           next == IF lost THEN Holdout ELSE c.bar + 1
<1>1. Elsewhere /\ UNCHANGED caches /\ c.at = "cand"
  BY DEF Candidate, At
<1>2. /\ CallOK(c, Seen) /\ c \in Calls /\ BarsOK(c, Seen) /\ c.params \in Seen
      /\ c.cand \in Cands /\ c.bar \in 1..Holdout
  BY <1>1 DEF GateInv, CallsOK, CallOK, Bars, BarsOK
<1>3. score \in Nat
  BY <1>2, ScoreFacts, SeenFacts DEF Calls, BarsOK
<1>4. ASSUME c.bar = Holdout PROVE CallsOK'
  <2> DEFINE new == [c EXCEPT !.got = score, !.at = "base"]
  <2>1. Becomes(t, new)
    BY <1>4 DEF Candidate
  <2>2. score = Score[c.cand][c.params][c.bar]
    OBVIOUS
  <2> HIDE DEF c, score
  <2>3. new \in Calls
    BY <1>2, <1>3 DEF Calls, Points
  <2>4. /\ new.at = "base" /\ new.bar = c.bar /\ new.cand = c.cand /\ new.cv = c.cv
        /\ new.base = c.base /\ new.params = c.params /\ new.got = score
        /\ new.mark = c.mark /\ new.lost = c.lost
    BY <1>2 DEF Calls
  <2> HIDE DEF new
  <2>5. BarsOK(new, Seen)
    <3>1. \A i : Cleared(new, i, Seen) <=> Cleared(c, i, Seen)
      BY <2>4 DEF Cleared, Beats
    <3>2. Missed(new, Seen) <=> Missed(c, Seen)
      BY <2>4 DEF Missed, Beats
    <3> QED
      BY <1>1, <1>2, <1>4, <2>2, <2>4, <3>1, <3>2 DEF BarsOK
  <2>6. CallOK(new, Seen)
    BY <1>1, <1>2, <2>3, <2>4, <2>5 DEF CallOK, Bars
  <2> QED
    BY <1>1, <2>1, <2>6, BecomesStep, ElsewhereStep DEF GateInv
<1>5. ASSUME c.bar # Holdout PROVE CallsOK'
  <2> DEFINE new == [c EXCEPT !.lost = lost, !.bar = next, !.at = First(next)]
  <2>1. Becomes(t, new)
    BY <1>5 DEF Candidate
  <2>2. PICK p \in Seen : c.mark = Score[c.base][p][c.bar]
    BY <1>1, <1>2, <1>5, GateAssumption DEF BarsOK
  <2>3. Clears(score, c.mark, c.bar) <=> ~lost
    BY <1>2, <1>3, <1>5 DEF Clears, Calls
  <2>4. Beats(c, c.bar, p) <=> ~lost
    BY <2>2, <2>3 DEF Beats
  <2>5. /\ next \in 1..Holdout
        /\ ~lost => next = c.bar + 1
        /\ lost => next = Holdout
    BY <1>2, <1>5, GateAssumption
  <2>6. lost \in BOOLEAN
    OBVIOUS
  <2> HIDE DEF c, score, lost, next
  <2>7. First(next) \in {"base", "cand"} /\ (First(next) = "cand" <=> next = Holdout)
    BY DEF First
  <2>8. new \in Calls
    <3>1. next \in 0..Holdout /\ First(next) \in Points
      BY <2>5, <2>7, HoldoutFacts DEF Points
    <3> QED
      BY <1>2, <2>6, <3>1 DEF Calls
  <2>9. /\ new.at = First(next) /\ new.bar = next /\ new.cand = c.cand /\ new.cv = c.cv
        /\ new.base = c.base /\ new.params = c.params
    BY <1>2 DEF Calls
  <2>10. new.lost = lost
    BY <1>2 DEF Calls
  <2> HIDE DEF new
  <2>11. \A i, q : Beats(new, i, q) <=> Beats(c, i, q)
    BY <2>9 DEF Beats
  <2>12. ~c.lost
    BY <1>2, <1>5, GateAssumption DEF BarsOK
  <2>13. BarsOK(new, Seen)
    <3>1. ~new.lost => \A i \in 1..Holdout : i < new.bar => Cleared(new, i, Seen)
      <4> SUFFICES ASSUME ~lost, NEW i \in 1..Holdout, i < next PROVE Cleared(new, i, Seen)
        BY <2>9, <2>10
      <4>1. next = c.bar + 1 /\ c.bar \in Nat
        BY <1>2, <2>5, HoldoutFacts
      <4>2. i < c.bar \/ i = c.bar
        BY <4>1
      <4>3. CASE i < c.bar
        BY <1>2, <2>11, <2>12, <4>3 DEF BarsOK, Cleared
      <4>4. CASE i = c.bar
        BY <2>2, <2>4, <2>11, <4>4 DEF Cleared
      <4> QED
        BY <4>2, <4>3, <4>4
    <3>2. new.lost => Missed(new, Seen)
      BY <1>2, <2>2, <2>4, <2>10, <2>11 DEF Missed
    <3>3. new.bar \in 1..Holdout /\ (new.bar < Holdout => ~new.lost)
      <4>1. new.bar \in 1..Holdout /\ (new.bar < Holdout => new.bar # Holdout)
        BY <2>5, <2>9, HoldoutFacts
      <4>2. lost => new.bar = Holdout
        BY <2>5, <2>9
      <4>3. new.bar # Holdout => ~new.lost
        BY <4>2, <2>10
      <4> QED
        BY <4>1, <4>3
    <3>4. /\ new.at # "judge" /\ (new.at = "cand" <=> new.bar = Holdout)
      BY <2>7, <2>9
    <3> QED
      BY <3>1, <3>2, <3>3, <3>4 DEF BarsOK
  <2>14. CallOK(new, Seen)
    BY <1>1, <1>2, <2>7, <2>8, <2>9, <2>13 DEF CallOK, Bars
  <2> QED
    BY <1>1, <2>1, <2>14, BecomesStep, ElsewhereStep DEF GateInv
<1> QED
  BY <1>1, <1>4, <1>5, ElsewhereStep, CachesStep DEF GateInv

\* A loss is remembered, with the bar it was lost on.
LEMMA JudgeStep ==
    ASSUME GateInv, NEW t \in Tasks, Judge(t)
    PROVE  GateInv'
<1> DEFINE c == call[t]
<1>1. Elsewhere /\ c.at = "judge"
  BY DEF Judge, At
<1>2. /\ CallOK(c, Seen) /\ c \in Calls /\ BarsOK(c, Seen) /\ c.params \in Seen
      /\ c.cand \in Cands /\ c.bar = Holdout
  BY <1>1 DEF GateInv, CallsOK, CallOK, Bars, BarsOK
<1>3. PICK p \in Seen : c.mark = Score[c.base][p][Holdout]
  BY <1>1, <1>2 DEF BarsOK
<1>4. c.got < c.mark <=> ~Beats(c, Holdout, p)
  <2>1. c.got = Score[c.cand][c.params][Holdout]
    BY <1>1, <1>2 DEF BarsOK
  <2>2. c.got \in Nat /\ c.mark \in Nat
    BY <1>2 DEF Calls
  <2> QED
    BY <1>3, <2>1, <2>2 DEF Beats, Clears
<1>5. CASE (c.lost \/ c.got < c.mark) /\ Ends(t) /\ Remember(t)
  <2>1. PICK i \in 1..Holdout, q \in Seen : ~Beats(c, i, q)
    BY <1>2, <1>3, <1>4, <1>5, GateAssumption DEF BarsOK, Missed
  <2>2. Measured(Key(c), Seen, SeenTops)
    <3>1. Key(c)[1] = c.base /\ Key(c)[2] = c.cv
      BY DEF Key
    <3>2. PICK o \in Seen : c.cv = Score[c.cand][o][0]
      BY <1>1, <1>2 DEF CallOK
    <3> QED
      BY <1>2, <2>1, <3>1, <3>2 DEF Measured, Beats
  <2>3. Key(c) \in Sources \X Nat
    BY <1>2 DEF Calls, Key
  <2>4. CacheOK' /\ MemoOK'
    BY <1>1, <1>5, <2>2, <2>3, ElsewhereStep DEF GateInv, CacheOK, MemoOK, Remember
  <2> QED
    BY <1>1, <1>5, <2>4, EndsStep, ElsewhereStep DEF GateInv
<1>6. CASE ~(c.lost \/ c.got < c.mark) /\ Goes(t, "merge") /\ UNCHANGED caches
  <2> DEFINE new == [c EXCEPT !.at = "merge"]
  <2>1. Becomes(t, new)
    BY <1>6 DEF Goes
  <2>2. \A i \in 1..Holdout : Cleared(c, i, Seen)
    <3>1. \A i \in 1..Holdout : i < Holdout => Cleared(c, i, Seen)
      BY <1>2, <1>6 DEF BarsOK
    <3>2. Cleared(c, Holdout, Seen)
      BY <1>3, <1>4, <1>6 DEF Cleared
    <3> QED
      BY <3>1, <3>2, GateAssumption
  <2> HIDE DEF c
  <2>3. new \in Calls
    BY <1>2 DEF Calls, Points
  <2>4. /\ new.at = "merge" /\ new.cand = c.cand /\ new.cv = c.cv
        /\ new.base = c.base /\ new.params = c.params
    BY <1>2 DEF Calls
  <2> HIDE DEF new
  <2>5. CallOK(new, Seen)
    BY <1>1, <1>2, <2>2, <2>3, <2>4 DEF CallOK, Bars, Cleared, Beats
  <2> QED
    BY <1>1, <1>6, <2>1, <2>5, BecomesStep, ElsewhereStep, CachesStep DEF GateInv
<1> QED
  BY <1>5, <1>6 DEF Judge

\* The merged source repeats the score or the task ends.
LEMMA MergeStep ==
    ASSUME GateInv, NEW t \in Tasks, Merge(t)
    PROVE  GateInv'
<1> DEFINE c == call[t]
           new == [c EXCEPT !.at = "promote"]
<1>1. Elsewhere /\ UNCHANGED caches /\ c.at = "merge"
  BY DEF Merge, At
<1>2. CASE Ends(t)
  BY <1>1, <1>2, EndsStep, ElsewhereStep, CachesStep DEF GateInv
<1>3. CASE ~Ends(t)
  <2>1. Becomes(t, new)
    BY <1>3 DEF Merge, Goes
  <2>2. CallOK(c, Seen) /\ c \in Calls
    BY DEF GateInv, CallsOK, CallOK
  <2> HIDE DEF c
  <2>3. new \in Calls
    BY <2>2 DEF Calls, Points
  <2>4. /\ new.at = "promote" /\ new.cand = c.cand /\ new.cv = c.cv
        /\ new.base = c.base /\ new.params = c.params
    BY <2>2 DEF Calls
  <2> HIDE DEF new
  <2>5. CallOK(new, Seen)
    BY <1>1, <2>2, <2>3, <2>4 DEF CallOK, Bars, Cleared, Beats
  <2> QED
    BY <1>1, <2>1, <2>5, BecomesStep, ElsewhereStep, CachesStep DEF GateInv
<1> QED
  BY <1>2, <1>3

\* A layer is added to the line.
LEMMA PromoteStep ==
    ASSUME GateInv, NEW t \in Tasks, Promote(t)
    PROVE  GateInv'
<1> DEFINE Rows == [src : Sources, cv : Nat]
           row == [src |-> call[t].cand, cv |-> call[t].cv]
<1>1. call[t] \in Calls
  BY DEF GateInv, CallsOK, CallOK
<1>2. row \in Rows
  BY <1>1 DEF Calls
<1>3. line' = Append(line, row) /\ line \in Seq(Rows) /\ line # <<>>
  BY DEF Promote, GateInv, LineOK
<1> HIDE DEF Rows, row
<1>4. line' \in Seq(Rows) /\ line' # <<>>
  BY <1>2, <1>3
<1>5. LineOK'
  BY <1>4 DEF LineOK, Rows
<1>6. Ends(t) /\ UNCHANGED <<caches, tuning, world>>
  BY DEF Promote
<1>7. CallsOK'
  BY <1>6, EndsStep DEF GateInv, tuning
<1>8. WorldOK' /\ CacheOK' /\ MemoOK'
  BY <1>6 DEF GateInv, WorldOK, CacheOK, MemoOK, caches, tuning, world, Seen, SeenTops
<1> QED
  BY <1>5, <1>7, <1>8 DEF GateInv

-----------------------------------------------------------------------------
(* Steps of the others, and the invariant.                                 *)

\* An expired row is forgotten.
LEMMA ExpireStep == ASSUME GateInv, Expire PROVE GateInv'
<1>1. memo' \subseteq memo /\ cache' \subseteq cache
  BY DEF Expire
<1>2. UNCHANGED <<line, call, tuning, world>>
  BY DEF Expire
<1>3. Seen' = Seen /\ SeenTops' = SeenTops
  BY <1>2 DEF Seen, SeenTops, tuning, world
<1>4. LineOK' /\ WorldOK' /\ CallsOK'
  BY <1>2, <1>3 DEF GateInv, LineOK, WorldOK, CallsOK, tuning, world
<1>5. CacheOK' /\ MemoOK'
  BY <1>1, <1>3 DEF GateInv, CacheOK, MemoOK
<1> QED
  BY <1>4, <1>5 DEF GateInv

\* A layer is taken away.
LEMMA QuarantineStep == ASSUME GateInv, Quarantine PROVE GateInv'
<1> DEFINE Rows == [src : Sources, cv : Nat]
<1>1. line' = SubSeq(line, 1, Len(line) - 1) /\ line \in Seq(Rows) /\ Len(line) > 1
  BY DEF Quarantine, Front, GateInv, LineOK
<1> HIDE DEF Rows
<1>2. line' \in Seq(Rows) /\ Len(line') = Len(line) - 1
  BY <1>1, SubSeqProperties
<1>3. line' # <<>>
  <2>1. Len(line) \in Nat /\ Len(line) > 1
    BY <1>1
  <2>2. Len(line') # 0
    BY <1>2, <2>1
  <2> QED
    BY <2>2
<1>4. LineOK'
  BY <1>2, <1>3 DEF LineOK, Rows
<1>5. UNCHANGED <<caches, call, tuning, world>>
  BY DEF Quarantine
<1>6. WorldOK' /\ CallsOK' /\ CacheOK' /\ MemoOK'
  BY <1>5 DEF GateInv, WorldOK, CallsOK, CacheOK, MemoOK, caches, tuning, world, Seen, SeenTops
<1> QED
  BY <1>4, <1>6 DEF GateInv

\* Another best score, or other parameters: what was seen stays seen.
LEMMA WorldStep ==
    ASSUME GateInv, RankMoves \/ \E p \in Params : TuneEnds(p)
    PROVE  GateInv'
<1>1. UNCHANGED <<line, caches, call>>
  BY DEF RankMoves, TuneEnds
<1>2. WorldOK' /\ Seen \subseteq Seen' /\ SeenTops \subseteq SeenTops'
  <2>1. CASE RankMoves
    <3>1. moves' = moves + 1 /\ moves' # 0 /\ top' \in Tops /\ UNCHANGED tuning /\ moves' \in Nat
      BY <2>1 DEF RankMoves, GateInv, WorldOK
    <3>2. Seen' = Seen
      BY <3>1 DEF Seen, tuning
    <3>3. SeenTops' = Tops
      BY <3>1 DEF SeenTops
    <3> QED
      BY <3>1, <3>2, <3>3, SeenFacts DEF GateInv, WorldOK, tuning
  <2>2. ASSUME NEW p \in Params, TuneEnds(p)
        PROVE  WorldOK' /\ Seen \subseteq Seen' /\ SeenTops \subseteq SeenTops'
    <3>1. tunes' # 0 /\ tuned' = p /\ UNCHANGED world /\ tunes' \in Nat
      BY <2>2 DEF TuneEnds, GateInv, WorldOK
    <3>2. Seen' = Params
      BY <3>1 DEF Seen
    <3>3. SeenTops' = SeenTops
      BY <3>1 DEF SeenTops, world
    <3> QED
      BY <3>1, <3>2, <3>3, SeenFacts DEF GateInv, WorldOK, world
  <2> QED
    BY <2>1, <2>2
<1>3. LineOK'
  BY <1>1 DEF GateInv, LineOK
<1>4. CallsOK'
  BY <1>1, <1>2, CallOKGrows DEF GateInv, CallsOK
<1>5. CacheOK'
  BY <1>1, <1>2 DEF GateInv, CacheOK, caches, KeptScore
<1>6. MemoOK'
  BY <1>1, <1>2, MeasuredGrows DEF GateInv, MemoOK, caches
<1> QED
  BY <1>2, <1>3, <1>4, <1>5, <1>6 DEF GateInv

\* Before the first winner.
LEMMA InitGateInv == Init => GateInv
<1> SUFFICES ASSUME Init PROVE GateInv
  OBVIOUS
<1>1. LineOK
  <2> DEFINE row == [src |-> Base, cv |-> Score[Base][NoParams][0]]
             Rows == [src : Sources, cv : Nat]
  <2>1. Base \in Sources /\ NoParams \in Params /\ 0 \in 0..Holdout
    BY GateAssumption DEF Sources
  <2>2. row \in Rows
    BY <2>1, ScoreFacts
  <2>3. line = <<row>>
    BY DEF Init
  <2> HIDE DEF row, Rows
  <2>4. line \in Seq(Rows) /\ line # <<>>
    BY <2>2, <2>3
  <2> QED
    BY <2>4 DEF LineOK, Rows
<1>2. WorldOK
  BY SeenFacts DEF Init, WorldOK
<1>3. CallsOK
  BY FreeOK DEF Init, CallsOK
<1> QED
  BY <1>1, <1>2, <1>3 DEF Init, GateInv, CacheOK, MemoOK

\* Every step of a task.
LEMMA TaskStep == ASSUME GateInv, NEW t \in Tasks, Task(t) PROVE GateInv'
<1>1. CASE Errs(t) \/ Dies(t)
  <2>1. Elsewhere /\ UNCHANGED caches /\ Ends(t)
    BY <1>1 DEF Errs, Dies
  <2> QED
    BY <2>1, EndsStep, ElsewhereStep, CachesStep DEF GateInv
<1> QED
  BY <1>1, AttemptStep, FetchStep, ConsultStep, BaselineStep, MeasureStep, CandidateStep,
     JudgeStep, MergeStep, PromoteStep DEF Task

\* Every step of the specification.
LEMMA GateStep == GateInv /\ [Next]_vars => GateInv'
<1> SUFFICES ASSUME GateInv, [Next]_vars PROVE GateInv'
  OBVIOUS
<1>1. CASE UNCHANGED vars
  BY <1>1 DEF vars, GateInv, LineOK, WorldOK, CallsOK, CacheOK, MemoOK, caches, tuning, world,
     Seen, SeenTops
<1>2. CASE Next
  BY <1>2, TaskStep, ExpireStep, QuarantineStep, WorldStep DEF Next
<1> QED
  BY <1>1, <1>2

\* What tasks, cache and memo hold was measured, in every reachable state.
THEOREM GateInvariant == Spec => []GateInv
<1> QED
  BY InitGateInv, GateStep, PTL DEF Spec

-----------------------------------------------------------------------------
(* What the project is after.                                              *)

\* The state of the gate is what its variables say: sources, scores, bars.
THEOREM GateTypeOK == Spec => []TypeOK
<1>1. GateInv => TypeOK
  <2> SUFFICES ASSUME GateInv PROVE TypeOK
    OBVIOUS
  <2>1. \A t \in Tasks : call[t] \in Calls
    BY DEF GateInv, CallsOK, CallOK
  <2>2. \A t \in Tasks : call[t].cand \in Sources /\ call[t].base \in Sources
                         /\ call[t].params \in Params /\ call[t].bar \in 0..Holdout
    BY <2>1 DEF Calls
  <2>3. tuned \in Params
    BY SeenFacts DEF GateInv, WorldOK
  <2>4. \A e \in cache : e.key \in Sources \X (1..Holdout) /\ e.score \in Nat
    BY DEF GateInv, CacheOK, Entries
  <2> QED
    BY <2>2, <2>3, <2>4 DEF GateInv, LineOK, WorldOK, CacheOK, MemoOK, TypeOK
<1> QED
  BY <1>1, GateInvariant, PTL

\* Behind every remembered rejection is a measured loss, or a score that was
\* too good (_rejected_by_error keeps failures out of raw.confirm_memo).
THEOREM GateRejections == Spec => []RejectionsAreMeasured
<1>1. GateInv => RejectionsAreMeasured
  <2> SUFFICES ASSUME GateInv, NEW key \in memo
               PROVE  \E c \in Cands, pa, pb, pc \in Params :
                        /\ Score[c][pa][0] = key[2]
                        /\ \/ \E best \in Tops : key[2] > best
                           \/ \E bar \in 1..Holdout :
                                ~Clears(Score[c][pc][bar], Score[key[1]][pb][bar], bar)
    BY DEF RejectionsAreMeasured
  <2>1. Measured(key, Seen, SeenTops)
    BY DEF GateInv, MemoOK
  <2>2. Seen \subseteq Params /\ SeenTops \subseteq Tops
    BY SeenFacts DEF GateInv, WorldOK
  <2>3. Measured(key, Params, Tops)
    BY <2>1, <2>2, MeasuredGrows
  <2> QED
    BY <2>3 DEF Measured
<1> QED
  BY <1>1, GateInvariant, PTL

\* As long as nothing was tuned and the leaderboard stands still, the memory
\* of confirm_memo and baseline_eval_cache changes no verdict.
THEOREM GateMemory == Spec => []MemoryIsTransparent
<1>1. GateInv => MemoryIsTransparent
  <2> SUFFICES ASSUME GateInv, tunes = 0, moves = 0
               PROVE  /\ \A b \in Sources, c \in Cands :
                           <<b, Score[c][NoParams][0]>> \in memo => ~Passes(c, b, NoParams)
                      /\ \A e \in cache : e.score = Score[e.key[1]][NoParams][e.key[2]]
    BY DEF MemoryIsTransparent
  <2>1. Seen = {NoParams} /\ SeenTops = {top}
    BY DEF Seen, SeenTops
  <2>2. \A e \in cache : e.score = Score[e.key[1]][NoParams][e.key[2]]
    BY <2>1 DEF GateInv, CacheOK, KeptScore
  <2>3. ASSUME NEW b \in Sources, NEW c \in Cands, <<b, Score[c][NoParams][0]>> \in memo
        PROVE  ~Passes(c, b, NoParams)
    <3> DEFINE key == <<b, Score[c][NoParams][0]>>
    <3>1. Measured(key, {NoParams}, {top})
      BY <2>1, <2>3 DEF GateInv, MemoOK
    <3>2. PICK d \in Cands : /\ Score[d][NoParams][0] = key[2]
                             /\ \/ key[2] > top
                                \/ \E bar \in 1..Holdout :
                                     ~Clears(Score[d][NoParams][bar], Score[key[1]][NoParams][bar], bar)
      BY <3>1 DEF Measured
    <3>3. Score[d][NoParams] = Score[c][NoParams]
      BY <3>2, SignatureAssumption
    <3>4. CASE Score[c][NoParams][0] > top
      <4>1. Score[c][NoParams][0] \in Nat /\ top \in Nat
        BY ScoreFacts, GateAssumption DEF GateInv, WorldOK, Sources
      <4> QED
        BY <3>4, <4>1 DEF Passes
    <3>5. CASE \E bar \in 1..Holdout :
                 ~Clears(Score[c][NoParams][bar], Score[b][NoParams][bar], bar)
      BY <3>5 DEF Passes
    <3> QED
      BY <3>2, <3>3, <3>4, <3>5
  <2> QED
    BY <2>2, <2>3
<1> QED
  BY <1>1, GateInvariant, PTL

\* Nothing is promoted that has not cleared every seed and the holdout
\* against the very baseline it was confirmed against.
THEOREM GatePromotions == Spec => PromotionsAreMeasured
<1> DEFINE Earned(t) == \A bar \in 1..Holdout : \E p \in Params :
              Clears(Score[call[t].cand][call[t].params][bar], Score[call[t].base][p][bar], bar)
<1>1. GateInv => \A t \in Tasks : At(t, "promote") => Earned(t)
  <2> SUFFICES ASSUME GateInv, NEW t \in Tasks, At(t, "promote") PROVE Earned(t)
    OBVIOUS
  <2>1. \A i \in 1..Holdout : Cleared(call[t], i, Seen)
    BY DEF GateInv, CallsOK, CallOK, At
  <2> QED
    BY <2>1, SeenFacts DEF Cleared, Beats
<1>2. GateInv => [\A t \in Tasks : At(t, "promote") /\ line' # line /\ call'[t] = Free => Earned(t)]_vars
  BY <1>1
<1> QED
  BY <1>2, GateInvariant, PTL DEF PromotionsAreMeasured

=============================================================================
