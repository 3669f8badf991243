-------------------------- MODULE MCPromotionGate --------------------------
(* Instances of PromotionGate for TLC.                                        *)
EXTENDS PromotionGate

CONSTANTS base, good, lucky, untuned, tuned1, t1

Both   == {good, lucky}
Params2 == {untuned, tuned1}
Alone  == {t1}

\* The attempt's seed, one confirmation seed, the holdout.  `good' clears
\* `base' everywhere; `lucky' loses its seed to `good' but not its holdout,
\* and gains so little from tuning that it loses to a tuned `base'.
Sheet(main, seed, holdout) == (0 :> main) @@ (1 :> seed) @@ (2 :> holdout)

Scores ==
  (base  :> ((untuned :> Sheet(50, 50, 50)) @@ (tuned1 :> Sheet(60, 60, 60)))) @@
  (good  :> ((untuned :> Sheet(90, 80, 80)) @@ (tuned1 :> Sheet(100, 90, 90)))) @@
  (lucky :> ((untuned :> Sheet(95, 70, 85)) @@ (tuned1 :> Sheet(105, 55, 58))))

MCScore == [s \in Sources |-> Scores[s]]
=============================================================================
