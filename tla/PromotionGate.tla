--------------------------- MODULE PromotionGate ---------------------------
(* The gate between a significant gain and a promotion (cycle/promotion.py),  *)
(* with the rejections it remembers and the scores of the baseline it keeps,  *)
(* while tune runs (bin/tune_pipeline.py) change the parameters every         *)
(* evaluation gets.  One competition.  An evaluation is deterministic, and a  *)
(* candidate does the same on every baseline.  How rows and blob of the       *)
(* registry are written is the matter of BaselineRegistry.                    *)
EXTENDS Naturals, Sequences, FiniteSets, SequencesExt

CONSTANTS Cands,     \* candidates
          Base,      \* the confirmed pipeline at the start
          Params,    \* what raw.tuned_params may recommend
          NoParams,  \* nothing: no run yet, or the last one improved nothing
          Holdout,   \* the last bar; the earlier ones are PROMOTE_CONFIRM_SEEDS
          Score,     \* by source, parameters and bar; bar 0 is the attempt's own seed
          Tops,      \* what the leaderboard's best score, plus margin, may be
          Tasks,     \* promote tasks that may overlap
          MaxTunes, MaxMoves, MaxFaults   \* bounds of the model

Sources == Cands \cup {Base}

ASSUME GateAssumption ==
  /\ Base \notin Cands /\ NoParams \in Params /\ Holdout \in Nat \ {0}
  /\ Score \in [Sources -> [Params -> [0..Holdout -> Nat]]]
  /\ Tops \subseteq Nat
  /\ MaxTunes \in Nat /\ MaxMoves \in Nat /\ MaxFaults \in Nat

\* _rounded_signature: equal rounded scores are the same behaviour ("no risk
\* of merging too much", promotion.py:135).
ASSUME SignatureAssumption ==
  \A c, d \in Cands : Score[c][NoParams][0] = Score[d][NoParams][0] =>
    Score[c][NoParams] = Score[d][NoParams]

VARIABLES line,    \* valid rows of raw.pipelines: [src, cv], the latest last
          memo,    \* raw.confirm_memo: keys of rejections
          cache,   \* raw.baseline_eval_cache: [key, score]
          call,    \* the promote tasks
          tuned,   \* what _latest_tuned_params returns
          top,     \* raw.leaderboard_snapshot
          tunes, moves, faults   \* tune runs ended, refreshes and failures so far

caches == <<memo, cache>>
tuning == <<tuned, tunes>>
world == <<top, moves>>
vars == <<line, caches, call, tuning, world, faults>>

Free == [at |-> "free", cand |-> Base, cv |-> 0, base |-> Base, params |-> NoParams,
         bar |-> 0, mark |-> 0, got |-> 0, lost |-> FALSE]

Init ==
  /\ line = <<[src |-> Base, cv |-> Score[Base][NoParams][0]]>>
  /\ memo = {} /\ cache = {} /\ call = [t \in Tasks |-> Free]
  /\ tuned = NoParams /\ top \in Tops /\ tunes = 0 /\ moves = 0 /\ faults = 0

Best == line[Len(line)]
Fault == faults < MaxFaults /\ faults' = faults + 1

-----------------------------------------------------------------------------
(* A promote task with a winner.                                              *)
At(t, point) == call[t].at = point
Becomes(t, c) == call' = [call EXCEPT ![t] = c]
Goes(t, point) == Becomes(t, [call[t] EXCEPT !.at = point])
Ends(t) == Becomes(t, Free)

Elsewhere == UNCHANGED <<line, tuning, world>>

\* The winner of a super-cycle, evaluated with the parameters of its time.
Attempt(t, c) ==
  LET cv == Score[c][tuned][0]
  IN /\ At(t, "free") /\ \A i \in DOMAIN line : line[i].src # c
     /\ cv > Best.cv /\ cv <= top
     /\ Becomes(t, [Free EXCEPT !.at = "fetch", !.cand = c, !.cv = cv])
     /\ Elsewhere /\ UNCHANGED <<caches, faults>>

\* The promote task tests the gain again and reads baseline and parameters.
Fetch(t) ==
  /\ At(t, "fetch")
  /\ IF call[t].cv > Best.cv
     THEN Becomes(t, [call[t] EXCEPT !.at = "consult", !.base = Best.src, !.params = tuned])
     ELSE Ends(t)
  /\ Elsewhere /\ UNCHANGED <<caches, faults>>

\* _eval_context_key and _rounded_signature: the baseline's source and the
\* candidate's scores, for which cv stands; data and knobs never change here.
\* The parameters are no part of it.
\* Mutant of Key: the baseline is left out.
KeyOfScores(c) == <<Base, c.cv>>

Key(c) == <<c.base, c.cv>>

\* leaderboard_ceiling_violation
TooGood(c) == c.cv > top

Remember(t) == memo' = memo \cup {Key(call[t])} /\ UNCHANGED cache

\* On a seed the baseline is evaluated first, on the holdout the candidate.
First(bar) == IF bar = Holdout THEN "cand" ELSE "base"

Consult(t) ==
  /\ At(t, "consult")
  /\ \/ Key(call[t]) \in memo /\ Ends(t) /\ UNCHANGED caches
     \/ Key(call[t]) \notin memo /\ TooGood(call[t]) /\ Ends(t) /\ Remember(t)
     \/ /\ Key(call[t]) \notin memo /\ ~TooGood(call[t]) /\ UNCHANGED caches
        /\ Becomes(t, [call[t] EXCEPT !.at = First(1), !.bar = 1])
  /\ Elsewhere /\ UNCHANGED faults

\* _baseline_cv and the second half of _holdout_gate.
Slot(c) == <<c.base, c.bar>>

Against(t, score) ==
  Becomes(t, [call[t] EXCEPT !.mark = score, !.at = IF call[t].bar = Holdout THEN "judge" ELSE "cand"])

Baseline(t) ==
  /\ At(t, "base")
  /\ \/ \E e \in cache : e.key = Slot(call[t]) /\ Against(t, e.score)
     \/ (\A e \in cache : e.key # Slot(call[t])) /\ Goes(t, "measure")
  /\ Elsewhere /\ UNCHANGED <<caches, faults>>

Measure(t) ==
  LET score == Score[call[t].base][call[t].params][call[t].bar]
  IN /\ At(t, "measure") /\ Against(t, score)
     /\ cache' = {e \in cache : e.key # Slot(call[t])} \cup {[key |-> Slot(call[t]), score |-> score]}
     /\ Elsewhere /\ UNCHANGED <<memo, faults>>

\* One seed of _cross_seed_confirm, or the candidate's half of _holdout_gate.
\* After a seed that is lost the holdout is still measured.
Candidate(t) ==
  LET score == Score[call[t].cand][call[t].params][call[t].bar]
      lost == score <= call[t].mark
      next == IF lost THEN Holdout ELSE call[t].bar + 1
  IN /\ At(t, "cand")
     /\ IF call[t].bar = Holdout
        THEN Becomes(t, [call[t] EXCEPT !.got = score, !.at = "base"])
        ELSE Becomes(t, [call[t] EXCEPT !.lost = lost, !.bar = next, !.at = First(next)])
     /\ Elsewhere /\ UNCHANGED <<caches, faults>>

\* Mutant of Errs: the failure is remembered.
ErrsForGood(t) ==
  /\ call[t].at \in {"measure", "cand"} /\ Fault
  /\ Ends(t) /\ Remember(t)
  /\ Elsewhere

\* An evaluation fails: a rejection that is not remembered.
Errs(t) ==
  /\ call[t].at \in {"measure", "cand"} /\ Fault
  /\ Ends(t) /\ Elsewhere /\ UNCHANGED caches

\* Mutant of Judge: what was lost on a seed is forgiven by the holdout.
JudgeHoldout(t) ==
  /\ At(t, "judge")
  /\ IF call[t].got < call[t].mark
     THEN Ends(t) /\ Remember(t)
     ELSE Goes(t, "merge") /\ UNCHANGED caches
  /\ Elsewhere /\ UNCHANGED faults

Judge(t) ==
  /\ At(t, "judge")
  /\ IF call[t].lost \/ call[t].got < call[t].mark
     THEN Ends(t) /\ Remember(t)
     ELSE Goes(t, "merge") /\ UNCHANGED caches
  /\ Elsewhere /\ UNCHANGED faults

\* _promote_winner: the merged source has to repeat the attempt's score, with
\* the parameters the task has read.
Merge(t) ==
  /\ At(t, "merge")
  /\ IF Score[call[t].cand][call[t].params][0] = call[t].cv THEN Goes(t, "promote") ELSE Ends(t)
  /\ Elsewhere /\ UNCHANGED <<caches, faults>>

Promote(t) ==
  /\ At(t, "promote")
  /\ line' = Append(line, [src |-> call[t].cand, cv |-> call[t].cv])
  /\ Ends(t)
  /\ UNCHANGED <<caches, tuning, world, faults>>

\* The task is killed.
Dies(t) ==
  /\ ~At(t, "free") /\ Fault /\ Ends(t)
  /\ Elsewhere /\ UNCHANGED caches

Task(t) ==
  \/ \E c \in Cands : Attempt(t, c)
  \/ Fetch(t) \/ Consult(t) \/ Baseline(t) \/ Measure(t) \/ Candidate(t) \/ Errs(t)
  \/ Judge(t) \/ Merge(t) \/ Promote(t) \/ Dies(t)

\* Rows older than _CACHE_TTL are ignored.
Expire ==
  /\ \/ \E key \in memo : memo' = memo \ {key} /\ UNCHANGED cache
     \/ \E e \in cache : cache' = cache \ {e} /\ UNCHANGED memo
  /\ UNCHANGED <<line, call, tuning, world, faults>>

\* quarantine_leaks and rebuild_best_pipeline take the latest layer away.
Quarantine ==
  /\ Len(line) > 1 /\ line' = Front(line)
  /\ UNCHANGED <<caches, call, tuning, world, faults>>

\* POST /api/leaderboard/refresh.
RankMoves ==
  /\ moves < MaxMoves /\ moves' = moves + 1
  /\ top' \in Tops \ {top}
  /\ UNCHANGED <<line, caches, call, tuning, faults>>

\* tune_pipeline: a run inserts its rows at its end; the latest is what
\* _latest_tuned_params returns, nothing unless it improved.
TuneEnds(params) ==
  /\ tunes < MaxTunes /\ tunes' = tunes + 1
  /\ tuned' = params
  /\ UNCHANGED <<line, caches, call, world, faults>>

Next == (\E t \in Tasks : Task(t)) \/ Expire \/ Quarantine \/ RankMoves \/ (\E p \in Params : TuneEnds(p))

Spec == Init /\ [][Next]_vars

-----------------------------------------------------------------------------
TypeOK ==
  /\ line \in Seq([src : Sources, cv : Nat]) /\ line # <<>>
  /\ memo \subseteq Sources \X Nat
  /\ \A e \in cache : e.key \in Sources \X (1..Holdout) /\ e.score \in Nat
  /\ \A e, f \in cache : e.key = f.key => e = f
  /\ \A t \in Tasks : call[t].cand \in Sources /\ call[t].base \in Sources
                      /\ call[t].params \in Params /\ call[t].bar \in 0..Holdout
  /\ tuned \in Params /\ top \in Tops

Clears(score, mark, bar) == IF bar = Holdout THEN score >= mark ELSE score > mark

\* The gate without memory: on every bar the candidate clears the baseline,
\* measured under the same parameters, and no score is too good.
Passes(c, b, p) ==
  /\ Score[c][p][0] <= top
  /\ \A bar \in 1..Holdout : Clears(Score[c][p][bar], Score[b][p][bar], bar)

(* The memory changes no verdict ("동작과 동일", cycle/promotion.py:10): as    *)
(* long as nothing was tuned and the leaderboard stands still, a remembered   *)
(* rejection is what the gate without memory says of every candidate with     *)
(* these scores, before and after promotions, quarantines and failures, and   *)
(* so is a kept score.                                                        *)
MemoryIsTransparent ==
  tunes = 0 /\ moves = 0 =>
    /\ \A b \in Sources, c \in Cands :
         <<b, Score[c][NoParams][0]>> \in memo => ~Passes(c, b, NoParams)
    /\ \A e \in cache : e.score = Score[e.key[1]][NoParams][e.key[2]]

(* A failure is never remembered as a verdict (the comment of                 *)
(* _rejected_by_error): behind every remembered rejection is a measured loss  *)
(* against that baseline, or a score that was too good, under parameters that *)
(* were recommended at some time.                                             *)
RejectionsAreMeasured ==
  \A key \in memo : \E c \in Cands, pa, pb, pc \in Params :
    /\ Score[c][pa][0] = key[2]
    /\ \/ \E best \in Tops : key[2] > best
       \/ \E bar \in 1..Holdout : ~Clears(Score[c][pc][bar], Score[key[1]][pb][bar], bar)

(* Nothing is promoted that has not beaten the very baseline it was confirmed *)
(* against on every seed and the holdout, under whatever parameters that      *)
(* baseline was measured.                                                     *)
PromotionsAreMeasured ==
  [][\A t \in Tasks : At(t, "promote") /\ line' # line /\ call'[t] = Free =>
       \A bar \in 1..Holdout : \E p \in Params :
         Clears(Score[call[t].cand][call[t].params][bar], Score[call[t].base][p][bar], bar)]_vars
=============================================================================
