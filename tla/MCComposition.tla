--------------------------- MODULE MCComposition ----------------------------
(* Patches that meet in every way a merge distinguishes.                   *)
EXTENDS Composition, TLC

Patch(members, override) == [members |-> members, helpers |-> <<>>, override |-> override]

Clean  == Patch(Plain("preprocess") :> "p1" @@ Plain("postprocess_predictions") :> "q1", {})
Scale  == Patch(Plain("preprocess") :> "p2", {})
Again  == Patch(Plain("preprocess") :> "p1", {})
Fresh  == Patch(Plain("preprocess") :> "p3", {"preprocess"})
Ratios == Patch(Plain("feature_transform") :> "f1" @@ Plain("shared") :> "s1", {})
Counts == Patch(Plain("feature_transform") :> "f2" @@ Plain("shared") :> "s2", {})
Bins   == Patch(Plain("feature_transform") :> "f3", {})
Boost  == [Patch(Plain("build_model") :> "m1" @@ Plain("param_candidates") :> "c1", {})
              EXCEPT !.helpers = "helper" :> "h1"]
Forest == [Patch(Plain("build_model") :> "m2", {}) EXCEPT !.helpers = "helper" :> "h2"]
Search == Patch(Plain("param_candidates") :> "c2", {})
Twice  == Patch(Plain("param_candidates") :> "c3", {})
Narrow == Patch(Plain("param_candidates") :> "c1", {"param_candidates"})
Swap   == Patch(Plain("model_spec") :> "d1", {})
Blend  == Patch(Plain("ensemble_spec") :> "e1", {})

MCPatches == {Clean, Scale, Again, Fresh, Ratios, Counts, Bins,
              Boost, Forest, Search, Twice, Narrow, Swap, Blend}

MCColumns    == [f1 |-> {"x", "y"}, f2 |-> {"y", "z"}, f3 |-> {"y"}]
MCCandidates == [c1 |-> <<"a", "b">>, c2 |-> <<"b", "c", "d">>, c3 |-> <<"a", "a", "a", "none">>]
MCRank       == [a |-> 1, b |-> 2, c |-> 3, d |-> 4, none |-> 2]
=============================================================================
