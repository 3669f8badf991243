---------------------------- MODULE Composition -----------------------------
(***************************************************************************)
(* How patches become the baseline of a competition.  An attempt runs its  *)
(* patch on top of the baseline, two objects tied by PatchedPipeline       *)
(* (evaluator/harness.py).  A promotion merges the two sources into one    *)
(* class (cycle/materialize.py), which is the baseline of later attempts   *)
(* and is submitted: it should do what was measured.  The registry keeps   *)
(* the promoted sources to rebuild the baseline from.                      *)
(*                                                                         *)
(* A definition is a name for its text: equal names are equal texts.  What *)
(* a pipeline does is which definitions run, in which order and on which   *)
(* parameters; that two pipelines that do the same score the same is the   *)
(* determinism of the folds.                                               *)
(***************************************************************************)
EXTENDS Integers, Sequences, FiniteSets, SequencesExt, FiniteSetsExt, Functions

CONSTANTS
    Patches,    \* the sources attempts are made of, see CompositionAssumption
    Columns,    \* the columns each definition of feature_transform makes
    Candidates, \* the list each definition of param_candidates returns
    OnBase,     \* the definitions of ensemble_spec with a member "base"
    Reads,      \* the definitions that use Shared through self
    Rank,       \* what the inner holdout says of the candidates
    Shared,     \* a class member that is not a hook
    NoParams,   \* no parameters, {}
    Trivial,    \* BasePipeline.build_model
    MaxCandidates, \* _MAX_PARAM_CANDIDATES
    MaxLayers   \* bound on the rows of raw.pipelines

Composable == {"preprocess", "feature_transform", "postprocess_predictions", "param_candidates"}
Hooks      == Composable \cup {"build_model", "ensemble_spec", "model_spec"}

\* The members of a class: hooks, Shared, and the helpers of a merge.
Plain(h) == <<h, "", 0>>
Names    == {Plain(h) : h \in Hooks \cup {Shared}}

\* A patch defines members and top-level helpers, opts out of composing with
\* override, and gets frozen_params when it is promoted.
ASSUME CompositionAssumption ==
    /\ Shared \notin Hooks /\ MaxCandidates \in Nat \ {0} /\ MaxLayers \in Nat
    /\ NoParams \in DOMAIN Rank /\ \A c \in DOMAIN Rank : Rank[c] \in Int
    /\ \A p \in Patches :
        /\ DOMAIN p = {"members", "helpers", "override"}
        /\ DOMAIN p.members \subseteq Names /\ p.override \subseteq Composable
        /\ \A n \in DOMAIN p.members : p.members[n] \in Reads => Plain(Shared) \in DOMAIN p.members
        /\ LET h == "param_candidates"
           IN  Plain(h) \in DOMAIN p.members => Candidates[p.members[Plain(h)]] \in Seq(DOMAIN Rank)

VARIABLES
    layers, \* raw.pipelines: the promoted sources, oldest first
    best    \* best_pipeline.py: [members, helpers], as merged

vars == <<layers, best>>

\* Definitions put together: those of f win.
f ** g == [x \in DOMAIN f \cup DOMAIN g |-> IF x \in DOMAIN f THEN f[x] ELSE g[x]]

Nothing == <<>>
NoBase  == [members |-> Nothing, helpers |-> Nothing]

-----------------------------------------------------------------------------
(* materialize_best_pipeline.  A member is <<"own", text>>, a wrapper that *)
(* calls two others, <<"both", name, name>>, or <<"only", params>>.        *)

Source(p, frozen) ==
    [members  |-> [n \in DOMAIN p.members |-> <<"own", p.members[n]>>],
     helpers  |-> p.helpers, override |-> p.override, frozen |-> frozen]

\* _real_collisions
Collisions(f, g) == {n \in DOMAIN f \cap DOMAIN g : f[n] # g[n]}

\* _unique_name
Unique(h, role, existing) ==
    <<h, role, Min({i \in 1..(Cardinality(existing) + 1) : <<h, role, i>> \notin existing})>>

\* _synthesize_composed_member, for every hook that is composed.
Composed(base, patch, hooks) ==
    LET existing == DOMAIN base \cup DOMAIN patch
        prev(h)  == Unique(h, "prev", existing)
        new(h)   == Unique(h, "new", existing)
    IN  [n \in {prev(h) : h \in hooks} |-> base[Plain(n[1])]]
        ** [n \in {new(h) : h \in hooks} |-> patch[Plain(n[1])]]
        ** [n \in {Plain(h) : h \in hooks} |-> <<"both", prev(n[1]), new(n[1])>>]

\* _HOOK_SUPPRESSORS: the hooks of the base that a patch for one model drops.
Suppressors == [ensemble_spec |-> {"build_model", "model_spec"},
                model_spec    |-> {"build_model", "ensemble_spec"}]

Defines(members, h) == Plain(h) \in DOMAIN members

Suppresses(members, h) ==
    /\ h \in DOMAIN Suppressors /\ ~Defines(members, h)
    /\ \E s \in Suppressors[h] : Defines(members, s)

\* _apply_frozen_params: one candidate is left, and of the helpers that once
\* listed the others, those that something still refers to.
Refs(node) == IF node[1] = "both" THEN {node[2], node[3]} ELSE {}

\* Mutant of Freeze: the list is left as it was.
FreezeNothing(members, params) == members

Freeze(members, params) ==
    LET one   == [n \in {Plain("param_candidates")} |-> <<"only", params>>] ** members
        chain == {n \in DOMAIN one : n[1] = "param_candidates" /\ n[2] # ""}
        kept  == UNION {K \in SUBSET chain :
                    \A n \in K : \E m \in (DOMAIN one \ chain) \cup K : n \in Refs(one[m])}
    IN  IF params = NoParams \/ ~Defines(members, "param_candidates") THEN members
        ELSE Restrict(one, (DOMAIN one \ chain) \cup kept)

\* Helpers of one name with two definitions make the merge fail.
Mergeable(base, patch) == Collisions(base.helpers, patch.helpers) = {}

\* The hooks that the merge composes, and the names that it drops.
Composing(base, patch) ==
    {h \in Composable \ patch.override : Plain(h) \in Collisions(base.members, patch.members)}

Dropped(members) == {Plain(h) : h \in {g \in Hooks : Suppresses(members, g)}}

\* Mutant of Together: the patch replaces the hooks of the base.
Replace(base, patch) ==
    LET all == patch.members ** base.members
    IN  Restrict(all, DOMAIN all \ Dropped(patch.members))

\* Mutant of Together: the model hooks of the base are kept (before #374).
KeepAll(base, patch) ==
    Composed(base.members, patch.members, Composing(base, patch)) ** patch.members ** base.members

Together(base, patch) ==
    LET all == Composed(base.members, patch.members, Composing(base, patch))
                   ** patch.members ** base.members
    IN  Restrict(all, DOMAIN all \ Dropped(patch.members))

Merge(base, patch) ==
    [members |-> Freeze(Together(base, patch), patch.frozen),
     helpers |-> patch.helpers ** base.helpers]

\* replay_best_pipeline, of the rows that are not quarantined.
Replay(ls) ==
    LET upto[k \in 0..Len(ls)] ==
            IF k = 0 THEN NoBase
            ELSE IF ls[k].valid THEN Merge(upto[k - 1], Source(ls[k].patch, ls[k].frozen))
            ELSE upto[k - 1]
    IN  upto[Len(ls)]

-----------------------------------------------------------------------------
(* What an object of such a class does when it is called.                  *)

\* A text, and the shared member it finds if it reads it.
Runs(members, text) ==
    <<text, IF text \in Reads /\ Defines(members, Shared) THEN members[Plain(Shared)] ELSE <<>> >>

\* preprocess and postprocess_predictions: the texts that run, in order.
Chain(members, h) ==
    LET call[n \in DOMAIN members] ==
            IF members[n][1] = "both" THEN call[members[n][2]] \o call[members[n][3]]
            ELSE <<Runs(members, members[n][2])>>
    IN  IF Defines(members, h) THEN call[Plain(h)] ELSE <<>>

\* _union_feature_columns: the columns, each with the text it comes from.
Features(members) ==
    LET call[n \in DOMAIN members] ==
            IF members[n][1] = "both" THEN call[members[n][3]] ** call[members[n][2]]
            ELSE [c \in Columns[members[n][2]] |-> Runs(members, members[n][2])]
    IN  IF Defines(members, "feature_transform") THEN call[Plain("feature_transform")] ELSE Nothing

\* _union_param_candidates
Union(s, t) == FoldLeft(LAMBDA u, c : IF c \in Range(u) THEN u ELSE Append(u, c), <<>>, s \o t)

Lists(members) ==
    LET call[n \in DOMAIN members] ==
            CASE members[n][1] = "both" -> Union(call[members[n][2]], call[members[n][3]])
              [] members[n][1] = "only" -> <<members[n][2]>>
              [] OTHER -> Candidates[members[n][2]]
    IN  call[Plain("param_candidates")]

-----------------------------------------------------------------------------
(* PatchedPipeline: a patch on top of a baseline, which is itself one      *)
(* object on top of BasePipeline.                                          *)

Composes(base, patch, h) == h \notin patch.override /\ Defines(base.members, h)

Sequential(base, patch, h) ==
    IF ~Defines(patch.members, h) THEN Chain(base.members, h)
    ELSE IF ~Composes(base, patch, h) THEN Chain(patch.members, h)
    ELSE Chain(base.members, h) \o Chain(patch.members, h)

\* Mutant of Columned: the columns of the base win.
ColumnedBaseFirst(base, patch) == Features(base.members) ** Features(patch.members)

Columned(base, patch) ==
    IF ~Defines(patch.members, "feature_transform") THEN Features(base.members)
    ELSE IF ~Composes(base, patch, "feature_transform") THEN Features(patch.members)
    ELSE Features(patch.members) ** Features(base.members)

Offered(base, patch) ==
    LET h == "param_candidates"
    IN  IF Defines(patch.members, h)
        THEN IF Composes(base, patch, h) THEN Union(Lists(base.members), Lists(patch.members))
             ELSE Lists(patch.members)
        ELSE IF Defines(base.members, h) THEN Lists(base.members) ELSE <<NoParams>>

\* Whose build_model, ensemble_spec or model_spec is called, if any.
Owner(base, patch, h) ==
    IF Defines(patch.members, h) THEN {patch.members}
    ELSE IF Defines(base.members, h) /\ ~Suppresses(patch.members, h) THEN {base.members}
    ELSE {}

\* preselect_params: the first of the best of those that are tried.
Selected(base, patch) ==
    LET offered == Offered(base, patch)
        tried   == SubSeq(offered, 1, Min({MaxCandidates, Len(offered)}))
        top     == {i \in DOMAIN tried : \A j \in DOMAIN tried \ {i} : Rank[tried[j]] <= Rank[tried[i]]}
    IN  IF Owner(base, patch, "ensemble_spec") \cup Owner(base, patch, "model_spec") # {} \/ tried = <<>>
        THEN NoParams
        ELSE tried[Min(top)]

\* fit_predict: ensemble_spec, else model_spec, else build_model.  The member
\* "base" is the build_model of the pipeline, _base_member.
Model(base, patch) ==
    LET text(h)  == {Runs(m, m[Plain(h)][2]) : m \in Owner(base, patch, h)}
        offered  == Offered(base, patch)
        member   == IF \E t \in text("ensemble_spec") : t[1] \in OnBase
                    THEN <<text("build_model"), IF offered = <<>> THEN NoParams ELSE offered[1]>>
                    ELSE <<>>
        built    == IF text("build_model") = {} THEN {<<Trivial, <<>> >>} ELSE text("build_model")
    IN  CASE text("ensemble_spec") # {} -> <<"ensemble", text("ensemble_spec"), member>>
          [] text("ensemble_spec") = {} /\ text("model_spec") # {} -> <<"spec", text("model_spec"), <<>> >>
          [] OTHER -> <<"build", built, Selected(base, patch)>>

Does(base, patch) ==
    [pre   |-> Sequential(base, patch, "preprocess"),
     feats |-> Columned(base, patch),
     model |-> Model(base, patch),
     post  |-> Sequential(base, patch, "postprocess_predictions")]

\* A merged source is a patch on BasePipeline when it is evaluated.
AsPatch(merged) ==
    [members |-> merged.members, helpers |-> merged.helpers, override |-> {}, frozen |-> NoParams]
Alone(merged)   == Does(NoBase, AsPatch(merged))

-----------------------------------------------------------------------------
(* The baseline and its rows.                                              *)

TypeOK ==
    /\ \A k \in DOMAIN layers :
           /\ layers[k].patch \in Patches /\ layers[k].valid \in BOOLEAN
           /\ {layers[k].params, layers[k].frozen} \subseteq DOMAIN Rank
    /\ Len(layers) <= MaxLayers
    /\ \A n \in DOMAIN best.members : LET node == best.members[n] IN
           \/ node[1] = "both" /\ n[1] \in Composable /\ Refs(node) \subseteq DOMAIN best.members
           \/ node[1] = "only" /\ n[1] = "param_candidates" /\ node[2] \in DOMAIN Rank
           \/ node[1] = "own" /\ n[1] \in Hooks \cup {Shared}

Init == layers = <<>> /\ best = NoBase

Valid == {k \in DOMAIN layers : layers[k].valid}

Row(p, params, frozen) == [patch |-> p, params |-> params, frozen |-> frozen, valid |-> TRUE]

\* establish_bootstrap_baseline and bin/establish_baseline.py: the source of
\* the first baseline is merged with nothing and its params are not frozen.
Establish(p) ==
    /\ Valid = {} /\ Len(layers) < MaxLayers
    /\ layers' = Append(layers, Row(p, Selected(NoBase, Source(p, NoParams)), NoParams))
    /\ best' = Merge(NoBase, Source(p, NoParams))

\* _promote_winner of bin/run_promote_task.py: a patch measured on the current
\* baseline.  Merge-verify may reject it when the merge scores otherwise.
Promote(p) ==
    LET params == Selected(best, Source(p, NoParams))
    IN  /\ Len(layers) < MaxLayers /\ Mergeable(best, Source(p, params))
        /\ layers' = Append(layers, Row(p, params, params))
        /\ best' = Merge(best, Source(p, params))

\* bin/freeze_base.py: the params of the latest row, afterwards, if they give
\* the score that was stored.
Latest == Max(Valid)

FreezeOnly(params) ==
    [members |-> Nothing, helpers |-> Nothing, override |-> {}, frozen |-> params]

\* Mutant of FreezeBase: the row keeps its source as it was.
FreezeBlobOnly ==
    /\ Valid # {} /\ layers[Latest].params # NoParams
    /\ best' = Merge(best, FreezeOnly(layers[Latest].params))
    /\ UNCHANGED layers

FreezeBase ==
    /\ Valid # {} /\ layers[Latest].params # NoParams
    /\ Defines(best.members, "param_candidates") => Lists(best.members) # <<layers[Latest].params>>
    /\ LET merged == Merge(best, FreezeOnly(layers[Latest].params))
       IN  /\ Alone(merged) = Alone(best)
           /\ best' = merged
    /\ layers' = [layers EXCEPT ![Latest].frozen = layers[Latest].params]

\* A quarantine, and bin/rebuild_best_pipeline.py after it.
Quarantine(k) ==
    /\ k \in Valid /\ Valid # {k}
    /\ layers' = [layers EXCEPT ![k].valid = FALSE]
    /\ best' = Replay(layers')

Next ==
    \/ \E p \in Patches : Establish(p) \/ Promote(p)
    \/ FreezeBase
    \/ \E k \in 1..MaxLayers : Quarantine(k)

Spec == Init /\ [][Next]_vars

-----------------------------------------------------------------------------
(* Properties.                                                             *)

Promoted  == Len(layers') > Len(layers)
NewPatch  == Source(layers'[Len(layers')].patch, NoParams)

\* What merging does not reproduce: a hook of the base repeated word for word
\* (it runs twice in the attempt, once in the merge, and a list that names a
\* candidate twice loses the repetition in the attempt only), and a member that
\* is not a hook defined anew (each object has its own, the merged class one).
Repeats(members) == Union(Lists(members), Lists(members)) # Lists(members)
Restates(base, patch) ==
    \E h \in {"preprocess", "postprocess_predictions", "param_candidates"} \ patch.override :
        /\ Defines(base.members, h) /\ Defines(patch.members, h)
        /\ base.members[Plain(h)] = patch.members[Plain(h)]
        /\ h = "param_candidates" => Repeats(patch.members)
Shadows(base, patch) == Plain(Shared) \in Collisions(base.members, patch.members)

\* The baseline a promotion makes does what was measured: whatever the chain of
\* layers, overrides, suppressed hooks and frozen parameters it stands on.
MeasuredIsDeployed ==
    [][Promoted /\ ~Restates(best, NewPatch) /\ ~Shadows(best, NewPatch)
           => Alone(best') = Does(best, NewPatch)]_vars

\* A promoted patch that chooses a model gets that model, in the merge too
\* (#374), also where the merge does not do what was measured.
ModelHooks == {"build_model", "ensemble_spec", "model_spec"}
PromotedModelRuns ==
    [][Promoted /\ (\E h \in ModelHooks : Defines(NewPatch.members, h))
           => \A t \in Alone(best').model[2] : <<"own", t[1]>> \in Range(NewPatch.members)]_vars

\* The baseline is what the valid rows make when they are merged again, also
\* after parameters were frozen behind a promotion and rows quarantined.
ReplayReproduces == best = Replay(layers)

\* What a chain of layers is to do, without merging: a hook of a layer comes
\* after those of the layers before it, or replaces them if it opts out.
Stacked(h) ==
    LET upto[k \in 0..Len(layers)] ==
            IF k = 0 THEN <<>>
            ELSE IF ~layers[k].valid \/ ~Defines(layers[k].patch.members, h) THEN upto[k - 1]
            ELSE LET own == <<layers[k].patch.members[Plain(h)]>>
                 IN  IF h \in layers[k].patch.override \/ upto[k - 1] = own THEN own
                     ELSE upto[k - 1] \o own
    IN  upto[Len(layers)]

\* No layer is lost and none runs twice, however often its hook is composed.
LayersAccumulate ==
    \A h \in {"preprocess", "postprocess_predictions"} :
        LET runs == Chain(best.members, h)
        IN  [k \in DOMAIN runs |-> runs[k][1]] = Stacked(h)

\* The member "base" of an ensemble is the model of the baseline with the
\* parameters it is measured with, as long as every row that has parameters is
\* frozen, none is quarantined and no list is empty or has {} in it: {} is not
\* frozen when it is the best, and then the member gets the first of the list.
OffersNothing(p) ==
    LET h == "param_candidates"
    IN  /\ Defines(p.members, h)
        /\ Candidates[p.members[Plain(h)]] = <<>> \/ NoParams \in Range(Candidates[p.members[Plain(h)]])

BaseMemberIsTheBest ==
    (\A k \in DOMAIN layers :
         layers[k].valid /\ layers[k].frozen = layers[k].params /\ ~OffersNothing(layers[k].patch))
        /\ Alone(best).model[1] = "build"
    => Alone(best).model[3] = Offered(NoBase, AsPatch(best))[1]
=============================================================================
