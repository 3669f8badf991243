-------------------------- MODULE CompositionProofs -------------------------
(***************************************************************************)
(* Proofs about merging, freezing and replaying sources, for any patches,  *)
(* lists of candidates and numbers of layers.                              *)
(***************************************************************************)
EXTENDS Composition, FiniteSetTheorems, SequenceTheorems, WellFoundedInduction, TLAPS

-----------------------------------------------------------------------------
(* Induction.                                                              *)

(* A nonempty set of numbers has a least one.                              *)
LEMMA LeastElement ==
    ASSUME NEW T, T \subseteq Nat, T # {}
    PROVE  \E n \in T : \A m \in T : n <= m
<1>1. \E x \in T : \A y \in T : ~(<<y, x>> \in OpToRel(<, Nat))
  BY NatLessThanWellFounded, WFMin
<1>2. PICK x \in T : \A y \in T : ~(<<y, x>> \in OpToRel(<, Nat))
  BY <1>1
<1>3. \A y \in T : ~(y < x)
  BY <1>2 DEF OpToRel
<1>4. x \in Nat /\ \A y \in T : y \in Nat
  OBVIOUS
<1>5. \A y \in T : x <= y
  BY <1>3, <1>4
<1> QED
  BY <1>5

(* Min is the least element.                                               *)
LEMMA MinIsLeast ==
    ASSUME NEW T, T \subseteq Nat, T # {}
    PROVE  Min(T) \in T /\ \A m \in T : Min(T) <= m
  BY LeastElement DEF Min

(* A set with 0 and the successors of its numbers has every number.        *)
LEMMA Induction ==
    ASSUME NEW S, 0 \in S, \A n \in Nat : n \in S => n + 1 \in S
    PROVE  Nat \subseteq S
<1> SUFFICES ASSUME Nat \ S # {} PROVE FALSE
  OBVIOUS
<1>1. PICK n \in Nat \ S : \A m \in Nat \ S : n <= m
  BY LeastElement
<1>2. n # 0 /\ n - 1 \in Nat /\ (n - 1) + 1 = n /\ ~(n <= n - 1)
  BY <1>1
<1>3. n - 1 \in S
  BY <1>1, <1>2
<1> QED
  BY <1>1, <1>2, <1>3

-----------------------------------------------------------------------------
(* Names.                                                                  *)

(* A plain name tells its member, and that it is plain.                    *)
LEMMA PlainHook == \A h : Plain(h)[1] = h
  BY DEF Plain

(* Plain names have no role.                                               *)
LEMMA PlainRole == \A h : Plain(h)[2] = ""
  BY DEF Plain

(* A helper's name tells its hook and its role, and is not a plain name.   *)
LEMMA UniqueNames ==
    \A h, role, E : Unique(h, role, E)[1] = h /\ Unique(h, role, E)[2] = role
  BY DEF Unique

(* Of more names than there are members one is free, and Unique finds it.  *)
LEMMA UniqueIsFree ==
    ASSUME NEW h, NEW role, NEW E, IsFiniteSet(E)
    PROVE  Unique(h, role, E) \notin E
<1> DEFINE c == Cardinality(E) + 1
           T == {i \in 1..c : <<h, role, i>> \notin E}
           named == [i \in 1..c |-> <<h, role, i>>]
<1>1. Cardinality(E) \in Nat /\ c \in Nat
  BY FS_CardinalityType
<1>2. T # {}
  <2> SUFFICES ASSUME T = {} PROVE FALSE
    OBVIOUS
  <2>1. \A i \in 1..c : named[i] \in E
    OBVIOUS
  <2>2. named \in Injection(1..c, E)
    BY <2>1 DEF Injection, IsInjective
  <2>3. IsFiniteSet(1..c) /\ Cardinality(1..c) = c
    BY <1>1, FS_Interval
  <2>4. Cardinality(1..c) <= Cardinality(E)
    BY <2>2, FS_Injection
  <2> QED
    BY <1>1, <2>3, <2>4
<1>3. T \subseteq Nat
  OBVIOUS
<1>4. Min(T) \in T
  BY <1>2, <1>3, MinIsLeast
<1> QED
  BY <1>4 DEF Unique

-----------------------------------------------------------------------------
(* One merge.                                                              *)

\* The names of the two versions of a composed hook.
Known(base, patch)   == DOMAIN base.members \cup DOMAIN patch.members
Prev(base, patch, h) == Unique(h, "prev", Known(base, patch))
New(base, patch, h)  == Unique(h, "new", Known(base, patch))

Prevs(base, patch)    == {Prev(base, patch, h) : h \in Composing(base, patch)}
News(base, patch)     == {New(base, patch, h) : h \in Composing(base, patch)}
Wrappers(base, patch) == {Plain(h) : h \in Composing(base, patch)}

(* Only model hooks are dropped, and only those the patch lacks.           *)
LEMMA DroppedFacts ==
    ASSUME NEW members
    PROVE  /\ Dropped(members) \subseteq {Plain("ensemble_spec"), Plain("model_spec")}
           /\ Dropped(members) \cap DOMAIN members = {}
           /\ \A h \in Hooks : Plain(h) \in Dropped(members) <=> Suppresses(members, h)
  BY PlainHook, PlainRole DEF Dropped, Suppresses, Suppressors, Defines

(* What a composed hook has in both classes.                               *)
LEMMA ComposingFacts ==
    ASSUME NEW base, NEW patch, NEW h \in Composing(base, patch)
    PROVE  /\ h \in Composable /\ h \notin patch.override
           /\ Plain(h) \in DOMAIN base.members /\ Plain(h) \in DOMAIN patch.members
           /\ base.members[Plain(h)] # patch.members[Plain(h)]
  BY DEF Composing, Collisions

(* The class that composes the hooks: wrappers and what they call.         *)
LEMMA ComposedFacts ==
    ASSUME NEW base, NEW patch
    PROVE  /\ DOMAIN Composed(base.members, patch.members, Composing(base, patch))
                  = Prevs(base, patch) \cup News(base, patch) \cup Wrappers(base, patch)
           /\ \A h \in Composing(base, patch) :
                  LET c == Composed(base.members, patch.members, Composing(base, patch))
                  IN  /\ c[Prev(base, patch, h)] = base.members[Plain(h)]
                      /\ c[New(base, patch, h)] = patch.members[Plain(h)]
                      /\ c[Plain(h)] = <<"both", Prev(base, patch, h), New(base, patch, h)>>
<1> DEFINE H == Composing(base, patch)
           E == Known(base, patch)
           A == [n \in {Unique(h, "prev", E) : h \in H} |-> base.members[Plain(n[1])]]
           B == [n \in {Unique(h, "new", E) : h \in H} |-> patch.members[Plain(n[1])]]
           C == [n \in {Plain(h) : h \in H} |->
                    <<"both", Unique(n[1], "prev", E), Unique(n[1], "new", E)>>]
           c == Composed(base.members, patch.members, H)
<1>1. c = A ** B ** C
  BY DEF Composed, Known
<1>2. /\ DOMAIN A = Prevs(base, patch) /\ DOMAIN B = News(base, patch)
      /\ DOMAIN C = Wrappers(base, patch)
  BY DEF Prevs, News, Wrappers, Prev, New
<1>3. DOMAIN c = Prevs(base, patch) \cup News(base, patch) \cup Wrappers(base, patch)
  BY <1>1, <1>2 DEF **
<1>4. ASSUME NEW h \in H
      PROVE  /\ c[Prev(base, patch, h)] = base.members[Plain(h)]
             /\ c[New(base, patch, h)] = patch.members[Plain(h)]
             /\ c[Plain(h)] = <<"both", Prev(base, patch, h), New(base, patch, h)>>
  <2>1. /\ Prev(base, patch, h)[1] = h /\ Prev(base, patch, h)[2] = "prev"
        /\ New(base, patch, h)[1] = h /\ New(base, patch, h)[2] = "new"
    BY UniqueNames DEF Prev, New
  <2>2. Plain(h)[1] = h /\ Plain(h)[2] = ""
    BY PlainHook, PlainRole
  <2>3. \A n \in DOMAIN A : n[2] = "prev"
    BY UniqueNames
  <2>4. \A n \in DOMAIN B : n[2] = "new"
    BY UniqueNames
  <2>5. Prev(base, patch, h) \in DOMAIN A /\ A[Prev(base, patch, h)] = base.members[Plain(h)]
    BY <2>1 DEF Prev
  <2>6. /\ New(base, patch, h) \notin DOMAIN A /\ New(base, patch, h) \in DOMAIN B
        /\ B[New(base, patch, h)] = patch.members[Plain(h)]
    BY <2>1, <2>3 DEF New
  <2>7. Plain(h) \notin DOMAIN A /\ Plain(h) \notin DOMAIN B
    BY <2>2, <2>3, <2>4
  <2>8. Plain(h) \in DOMAIN C /\ C[Plain(h)] = <<"both", Prev(base, patch, h), New(base, patch, h)>>
    BY <2>2 DEF Prev, New
  <2> HIDE DEF A, B, C
  <2> QED
    BY <1>1, <2>5, <2>6, <2>7, <2>8 DEF **
<1> QED
  BY <1>3, <1>4

(* What a merge makes is not dropped.                                      *)
LEMMA MadeIsKept ==
    ASSUME NEW base, NEW patch
    PROVE  (Prevs(base, patch) \cup News(base, patch) \cup Wrappers(base, patch))
               \cap Dropped(patch.members) = {}
<1>1. \A h \in Composing(base, patch) : h \notin {"ensemble_spec", "model_spec"}
  BY ComposingFacts DEF Composable
<1>2. \A h : /\ Prev(base, patch, h)[2] = "prev" /\ New(base, patch, h)[2] = "new"
  BY UniqueNames DEF Prev, New
<1>3. \A n \in Dropped(patch.members) : n[2] = "" /\ n[1] \in {"ensemble_spec", "model_spec"}
  BY DroppedFacts, PlainHook, PlainRole
<1>4. \A n \in Prevs(base, patch) \cup News(base, patch) : n[2] # ""
  BY <1>2 DEF Prevs, News
<1>5. \A n \in Wrappers(base, patch) : n[1] \notin {"ensemble_spec", "model_spec"}
  BY <1>1, PlainHook DEF Wrappers
<1> QED
  BY <1>3, <1>4, <1>5

\* The members before any is dropped.
Everything(base, patch) ==
    Composed(base.members, patch.members, Composing(base, patch)) ** patch.members ** base.members

(* The members a merge does not drop are as they were put together.        *)
LEMMA TogetherKeeps ==
    ASSUME NEW base, NEW patch
    PROVE  /\ DOMAIN Together(base, patch) = DOMAIN Everything(base, patch) \ Dropped(patch.members)
           /\ \A n \in DOMAIN Together(base, patch) :
                  Together(base, patch)[n] = Everything(base, patch)[n]
  BY DEF Together, Everything, Restrict

(* The names of a merged class, before parameters are frozen.              *)
LEMMA TogetherNames ==
    ASSUME NEW base, NEW patch
    PROVE  DOMAIN Together(base, patch)
               = (Prevs(base, patch) \cup News(base, patch) \cup Wrappers(base, patch)
                     \cup Known(base, patch)) \ Dropped(patch.members)
<1>1. DOMAIN Composed(base.members, patch.members, Composing(base, patch))
          = Prevs(base, patch) \cup News(base, patch) \cup Wrappers(base, patch)
  BY ComposedFacts
<1>2. DOMAIN Everything(base, patch)
          = Prevs(base, patch) \cup News(base, patch) \cup Wrappers(base, patch) \cup Known(base, patch)
  BY <1>1 DEF **, Known, Everything
<1> QED
  BY <1>2, TogetherKeeps

(* Of a composed hook it has both versions under names of their own and a  *)
(* wrapper that calls them.                                                *)
LEMMA TogetherNew ==
    ASSUME NEW base, NEW patch, NEW h \in Composing(base, patch)
    PROVE  /\ Prev(base, patch, h) \in DOMAIN Together(base, patch)
           /\ New(base, patch, h) \in DOMAIN Together(base, patch)
           /\ Plain(h) \in DOMAIN Together(base, patch)
           /\ Together(base, patch)[Prev(base, patch, h)] = base.members[Plain(h)]
           /\ Together(base, patch)[New(base, patch, h)] = patch.members[Plain(h)]
           /\ Together(base, patch)[Plain(h)] = <<"both", Prev(base, patch, h), New(base, patch, h)>>
<1> DEFINE c == Composed(base.members, patch.members, Composing(base, patch))
           W == Prevs(base, patch) \cup News(base, patch) \cup Wrappers(base, patch)
<1>1. {Prev(base, patch, h), New(base, patch, h), Plain(h)} \subseteq W
  BY DEF Prevs, News, Wrappers
<1>2. W \subseteq DOMAIN Together(base, patch)
  BY MadeIsKept, TogetherNames
<1>3. DOMAIN c = W
  BY ComposedFacts
<1>4. \A n \in W : Everything(base, patch)[n] = c[n]
  <2> HIDE DEF W
  <2> QED
    BY <1>3 DEF **, Everything
<1>5. /\ c[Prev(base, patch, h)] = base.members[Plain(h)]
      /\ c[New(base, patch, h)] = patch.members[Plain(h)]
      /\ c[Plain(h)] = <<"both", Prev(base, patch, h), New(base, patch, h)>>
  BY ComposedFacts
<1> HIDE DEF c, W
<1>6. \A n \in W : Together(base, patch)[n] = c[n]
  BY <1>2, <1>4, TogetherKeeps
<1> QED
  BY <1>1, <1>2, <1>5, <1>6

(* Its other members are those of the patch or, if there is none, those of *)
(* the base.                                                               *)
LEMMA TogetherOld ==
    ASSUME NEW base, NEW patch, NEW n \in DOMAIN Together(base, patch),
           n \notin Prevs(base, patch) \cup News(base, patch) \cup Wrappers(base, patch)
    PROVE  Together(base, patch)[n] = IF n \in DOMAIN patch.members
                                      THEN patch.members[n] ELSE base.members[n]
<1> DEFINE c == Composed(base.members, patch.members, Composing(base, patch))
<1>1. n \notin DOMAIN c
  BY ComposedFacts
<1>2. n \in Known(base, patch)
  BY TogetherNames
<1>3. Together(base, patch)[n] = Everything(base, patch)[n]
  BY TogetherKeeps
<1> HIDE DEF c
<1> QED
  BY <1>1, <1>2, <1>3 DEF **, Everything, Known, c

(* Among them those of the base that the patch does not have.              *)
LEMMA TogetherOldBase ==
    ASSUME NEW base, NEW patch, NEW n \in DOMAIN Together(base, patch), n \notin DOMAIN patch.members,
           n \notin Prevs(base, patch) \cup News(base, patch) \cup Wrappers(base, patch)
    PROVE  Together(base, patch)[n] = base.members[n]
<1>1. Together(base, patch)[n] = IF n \in DOMAIN patch.members
                                 THEN patch.members[n] ELSE base.members[n]
  BY TogetherOld
<1> QED
  BY <1>1

-----------------------------------------------------------------------------
(* Frozen parameters.                                                      *)

Pc == Plain("param_candidates")

\* The members once the list is replaced, the helpers of lists among them,
\* and those of the helpers that are still referred to.
Replaced(members, params) == [n \in {Pc} |-> <<"only", params>>] ** members
Helpers(members) == {n \in DOMAIN members : n[1] = "param_candidates" /\ n[2] # ""}
Supported(members, K) ==
    \A n \in K : \E m \in (DOMAIN members \ Helpers(members)) \cup K : n \in Refs(members[m])
Kept(members) == UNION {K \in SUBSET Helpers(members) : Supported(members, K)}

(* Freezing in terms of these.                                             *)
LEMMA FreezeUnfolded ==
    ASSUME NEW members, NEW params
    PROVE  LET one == Replaced(members, params)
           IN  Freeze(members, params) =
                   IF params = NoParams \/ Pc \notin DOMAIN members THEN members
                   ELSE Restrict(one, (DOMAIN one \ Helpers(one)) \cup Kept(one))
  BY DEF Freeze, Replaced, Helpers, Supported, Kept, Pc, Defines

(* The replaced list is the only difference.                               *)
LEMMA ReplacedFacts ==
    ASSUME NEW members, NEW params, Pc \in DOMAIN members
    PROVE  /\ DOMAIN Replaced(members, params) = DOMAIN members
           /\ Replaced(members, params)[Pc] = <<"only", params>>
           /\ \A n \in DOMAIN members : n # Pc => Replaced(members, params)[n] = members[n]
  BY DEF Replaced, **

(* What is kept is supported, and so is what it refers to.                 *)
LEMMA KeptFacts ==
    ASSUME NEW members
    PROVE  /\ Kept(members) \subseteq Helpers(members)
           /\ Supported(members, Kept(members))
           /\ \A m \in (DOMAIN members \ Helpers(members)) \cup Kept(members) :
                  Refs(members[m]) \cap Helpers(members) \subseteq Kept(members)
<1>1. Kept(members) \subseteq Helpers(members)
  BY DEF Kept
<1>2. ASSUME NEW n \in Kept(members)
      PROVE  \E m \in (DOMAIN members \ Helpers(members)) \cup Kept(members) : n \in Refs(members[m])
  <2>1. PICK K \in SUBSET Helpers(members) : n \in K /\ Supported(members, K)
    BY DEF Kept
  <2>2. PICK m \in (DOMAIN members \ Helpers(members)) \cup K : n \in Refs(members[m])
    BY <2>1 DEF Supported
  <2>3. K \subseteq Kept(members)
    BY <2>1 DEF Kept
  <2> QED
    BY <2>2, <2>3
<1>3. Supported(members, Kept(members))
  BY <1>2 DEF Supported
<1>4. ASSUME NEW m \in (DOMAIN members \ Helpers(members)) \cup Kept(members),
             NEW r \in Refs(members[m]), r \in Helpers(members)
      PROVE  r \in Kept(members)
  <2> DEFINE K == Kept(members) \cup {r}
  <2>1. K \subseteq Helpers(members)
    BY <1>1, <1>4
  <2>2. ASSUME NEW n \in K
        PROVE  \E x \in (DOMAIN members \ Helpers(members)) \cup K : n \in Refs(members[x])
    <3>1. CASE n = r
      BY <1>4, <3>1
    <3>2. CASE n \in Kept(members)
      BY <1>2, <3>2
    <3> QED
      BY <3>1, <3>2
  <2>3. Supported(members, K)
    BY <2>2 DEF Supported
  <2>4. K \subseteq Kept(members)
    BY <2>1, <2>3 DEF Kept
  <2> QED
    BY <2>4
<1> QED
  BY <1>1, <1>3, <1>4

(* The list is replaced, helpers of lists may go, nothing else changes and *)
(* nothing that is referred to is missed.                                  *)
LEMMA FreezeFacts ==
    ASSUME NEW members, NEW params
    PROVE  /\ DOMAIN Freeze(members, params) \subseteq DOMAIN members
           /\ \A n \in DOMAIN members :
                  n[1] # "param_candidates" \/ n[2] = "" => n \in DOMAIN Freeze(members, params)
           /\ \A n \in DOMAIN Freeze(members, params) :
                  n # Pc => Freeze(members, params)[n] = members[n]
           /\ params # NoParams /\ Pc \in DOMAIN members =>
                  Freeze(members, params)[Pc] = <<"only", params>>
           /\ params = NoParams => Freeze(members, params) = members
           /\ \A n \in DOMAIN Freeze(members, params) :
                  Refs(members[n]) \subseteq DOMAIN members =>
                      Refs(Freeze(members, params)[n]) \subseteq DOMAIN Freeze(members, params)
<1>1. CASE params = NoParams \/ Pc \notin DOMAIN members
  BY <1>1, FreezeUnfolded
<1>2. CASE params # NoParams /\ Pc \in DOMAIN members
  <2> DEFINE one == Replaced(members, params)
             D == (DOMAIN one \ Helpers(one)) \cup Kept(one)
             f == Freeze(members, params)
  <2>1. f = Restrict(one, D)
    BY <1>2, FreezeUnfolded
  <2>2. /\ DOMAIN one = DOMAIN members /\ one[Pc] = <<"only", params>>
        /\ \A n \in DOMAIN members : n # Pc => one[n] = members[n]
    BY <1>2, ReplacedFacts
  <2>3. D \subseteq DOMAIN one
    BY KeptFacts DEF Helpers
  <2>4. DOMAIN f = D /\ \A n \in D : f[n] = one[n]
    BY <2>1 DEF Restrict
  <2>5. \A n \in DOMAIN members : n[1] # "param_candidates" \/ n[2] = "" => n \in D
    BY <2>2 DEF Helpers
  <2>6. Pc \in D
    BY <1>2, <2>5, PlainRole DEF Pc
  <2>7. ASSUME NEW n \in D, Refs(members[n]) \subseteq DOMAIN members
        PROVE  Refs(one[n]) \subseteq D
    <3>1. CASE n = Pc
      BY <2>2, <3>1 DEF Refs
    <3>2. CASE n # Pc
      <4>1. Refs(one[n]) \subseteq DOMAIN one
        BY <2>2, <2>3, <2>7, <3>2
      <4>2. Refs(one[n]) \cap Helpers(one) \subseteq Kept(one)
        BY KeptFacts
      <4> QED
        BY <4>1, <4>2
    <3> QED
      BY <3>1, <3>2
  <2> HIDE DEF one, D, f
  <2>8. DOMAIN f \subseteq DOMAIN members /\ f[Pc] = <<"only", params>>
    BY <2>2, <2>3, <2>4, <2>6
  <2>9. \A n \in DOMAIN f : n # Pc => f[n] = members[n]
    BY <2>2, <2>3, <2>4
  <2>10. \A n \in DOMAIN f : Refs(members[n]) \subseteq DOMAIN members => Refs(f[n]) \subseteq DOMAIN f
    BY <2>4, <2>7
  <2> QED
    BY <1>2, <2>4, <2>5, <2>8, <2>9, <2>10 DEF f
<1> QED
  BY <1>1, <1>2

(* Freezing again the same way changes nothing, and freezing what was not  *)
(* frozen yet is freezing once.                                            *)
LEMMA FreezeTwice ==
    ASSUME NEW members, NEW old, NEW params, old \in {NoParams, params}
    PROVE  Freeze(Freeze(members, old), params) = Freeze(members, params)
<1>1. CASE old = NoParams
  BY <1>1, FreezeFacts
<1>2. CASE old = params /\ (params = NoParams \/ Pc \notin DOMAIN members)
  BY <1>2, FreezeUnfolded
<1>3. CASE old = params /\ params # NoParams /\ Pc \in DOMAIN members
  <2> DEFINE one == Replaced(members, params)
             D == (DOMAIN one \ Helpers(one)) \cup Kept(one)
             f == Freeze(members, params)
             two == Replaced(f, params)
  <2>1. f = Restrict(one, D)
    BY <1>3, FreezeUnfolded
  <2>2. DOMAIN one = DOMAIN members /\ one[Pc] = <<"only", params>>
    BY <1>3, ReplacedFacts
  <2>3. D \subseteq DOMAIN one
    BY KeptFacts DEF Helpers
  <2>4. DOMAIN f = D /\ \A n \in D : f[n] = one[n]
    BY <2>1 DEF Restrict
  <2>5. Pc \in D
    BY <1>3, <2>2, PlainRole DEF Helpers, Pc
  <2>6. two = f
    <3>1. DOMAIN two = DOMAIN f /\ two[Pc] = f[Pc] /\ \A n \in DOMAIN f : n # Pc => two[n] = f[n]
      BY <2>2, <2>4, <2>5, ReplacedFacts
    <3>2. f = [n \in D |-> f[n]]
      BY <2>1 DEF Restrict
    <3>3. two = [n \in DOMAIN two |-> two[n]]
      BY DEF Replaced, **
    <3> HIDE DEF two, f, D, one
    <3>4. \A n \in D : two[n] = f[n]
      BY <2>4, <3>1
    <3> QED
      BY <2>4, <3>1, <3>2, <3>3, <3>4
  <2>7. Helpers(f) = Kept(one)
    BY <2>3, <2>4, KeptFacts DEF Helpers
  <2>8. DOMAIN f \ Helpers(f) = DOMAIN one \ Helpers(one)
    BY <2>4, <2>7, KeptFacts
  <2>9. Supported(f, Kept(one))
    <3>1. \A n \in Kept(one) :
            \E m \in (DOMAIN one \ Helpers(one)) \cup Kept(one) : n \in Refs(one[m])
      BY KeptFacts DEF Supported
    <3> QED
      BY <2>4, <2>8, <3>1 DEF Supported
  <2>10. Kept(f) = Kept(one)
    BY <2>7, <2>9 DEF Kept
  <2>11. Freeze(f, params) = Restrict(f, D)
    <3>1. Freeze(f, params) = Restrict(two, (DOMAIN two \ Helpers(two)) \cup Kept(two))
      BY <1>3, <2>4, <2>5, FreezeUnfolded
    <3> QED
      BY <2>6, <2>8, <2>10, <3>1
  <2>12. Restrict(f, D) = f
    BY <2>1 DEF Restrict
  <2> QED
    BY <1>3, <2>11, <2>12
<1> QED
  BY <1>1, <1>2, <1>3

-----------------------------------------------------------------------------
(* The rows.                                                               *)

IsRow(r) ==
    /\ r = [patch |-> r.patch, params |-> r.params, frozen |-> r.frozen, valid |-> r.valid]
    /\ r.patch \in Patches /\ r.frozen \in {NoParams, r.params} /\ r.valid \in BOOLEAN

\* Rows are rows of patches, whose parameters are frozen or not.
RowsOK(ls) == \E S : ls \in Seq(S) /\ \A r \in S : IsRow(r)

(* A sequence of rows is one, over any set that has them.                  *)
LEMMA RowsOfSeq == ASSUME NEW S, NEW ls \in Seq(S), \A r \in S : IsRow(r) PROVE RowsOK(ls)
  BY DEF RowsOK

(* Rows are numbered and there is nothing else.                            *)
LEMMA RowsFacts ==
    ASSUME NEW ls, RowsOK(ls)
    PROVE  /\ Len(ls) \in Nat /\ DOMAIN ls = 1..Len(ls)
           /\ \A k \in 1..Len(ls) : IsRow(ls[k])
<1>1. PICK S : ls \in Seq(S) /\ \A r \in S : IsRow(r)
  BY DEF RowsOK
<1> QED
  BY <1>1, LenProperties, ElementOfSeq

(* A row more.                                                             *)
LEMMA RowsAppend ==
    ASSUME NEW ls, RowsOK(ls), NEW r, IsRow(r)
    PROVE  /\ RowsOK(Append(ls, r))
           /\ Len(Append(ls, r)) = Len(ls) + 1
           /\ Append(ls, r)[Len(ls) + 1] = r
           /\ \A k \in 1..Len(ls) : Append(ls, r)[k] = ls[k]
<1>1. PICK S : ls \in Seq(S) /\ \A x \in S : IsRow(x)
  BY DEF RowsOK
<1> DEFINE T == S \cup {r}
<1>2. ls \in Seq(T) /\ \A x \in T : IsRow(x)
  <2>1. \A k \in 1..Len(ls) : ls[k] \in T
    BY <1>1, ElementOfSeq
  <2>2. ls \in Seq(T)
    BY <1>1, <2>1, IsASeq, LenProperties
  <2> QED
    BY <1>1, <2>2
<1>3. Append(ls, r) \in Seq(T)
  BY <1>2, AppendProperties
<1>4. RowsOK(Append(ls, r))
  BY <1>2, <1>3 DEF RowsOK
<1> QED
  BY <1>2, <1>4, AppendProperties

(* A row changed.                                                          *)
LEMMA RowsExcept ==
    ASSUME NEW ls, RowsOK(ls), NEW i \in 1..Len(ls), NEW r, IsRow(r)
    PROVE  /\ RowsOK([ls EXCEPT ![i] = r])
           /\ Len([ls EXCEPT ![i] = r]) = Len(ls)
           /\ [ls EXCEPT ![i] = r][i] = r
           /\ \A k \in 1..Len(ls) : k # i => [ls EXCEPT ![i] = r][k] = ls[k]
<1>1. PICK S : ls \in Seq(S) /\ \A x \in S : IsRow(x)
  BY DEF RowsOK
<1> DEFINE T == S \cup {r}
           ms == [ls EXCEPT ![i] = r]
<1>2. Len(ls) \in Nat /\ DOMAIN ls = 1..Len(ls) /\ \A k \in 1..Len(ls) : ls[k] \in S
  BY <1>1, LenProperties, ElementOfSeq
<1>3. /\ ms = [k \in 1..Len(ls) |-> ms[k]] /\ ms[i] = r
      /\ \A k \in 1..Len(ls) : k # i => ms[k] = ls[k]
  BY <1>2
<1>4. \A k \in 1..Len(ls) : ms[k] \in T
  BY <1>2, <1>3
<1> HIDE DEF ms
<1>5. ms \in Seq(T)
  BY <1>2, <1>3, <1>4, IsASeq
<1>6. Len(ms) = Len(ls)
  BY <1>2, <1>3, <1>5, LenProperties
<1>7. RowsOK(ms)
  BY <1>1, <1>5 DEF RowsOK
<1> QED
  BY <1>3, <1>6, <1>7 DEF ms

(* Max is the greatest element.                                            *)
LEMMA MaxIsGreatest ==
    ASSUME NEW n \in Nat, NEW T, T \subseteq 1..n, T # {}
    PROVE  Max(T) \in T /\ \A m \in T : m <= Max(T)
<1> DEFINE U == {n - m : m \in T}
<1>1. U \subseteq Nat /\ U # {}
  OBVIOUS
<1>2. PICK u \in U : \A v \in U : u <= v
  BY <1>1, LeastElement
<1>3. PICK x \in T : u = n - x
  OBVIOUS
<1>4. \A m \in T : m <= x
  BY <1>2, <1>3
<1>5. \E y \in T : \A m \in T : m <= y
  BY <1>4
<1> QED
  BY <1>5 DEF Max

(* The latest row is valid, and all later ones are not.                    *)
LEMMA LatestFacts ==
    ASSUME RowsOK(layers), Valid # {}
    PROVE  /\ Latest \in 1..Len(layers) /\ layers[Latest].valid
           /\ \A k \in 1..Len(layers) : k > Latest => ~layers[k].valid
<1>1. Len(layers) \in Nat /\ Valid \subseteq 1..Len(layers)
  BY RowsFacts DEF Valid
<1>2. Latest \in Valid /\ \A m \in Valid : m <= Latest
  BY <1>1, MaxIsGreatest DEF Latest
<1> QED
  BY <1>1, <1>2, RowsFacts DEF Valid

(* What is promoted or established is a row.                               *)
LEMMA NewRows ==
    ASSUME NEW p \in Patches, NEW params, NEW frozen \in {NoParams, params}
    PROVE  /\ IsRow(Row(p, params, frozen))
           /\ Row(p, params, frozen).valid /\ Row(p, params, frozen).patch = p
           /\ Row(p, params, frozen).params = params /\ Row(p, params, frozen).frozen = frozen
  BY DEF Row, IsRow

(* The two ways in which a row changes.                                    *)
LEMMA RowChanges ==
    ASSUME NEW r, IsRow(r)
    PROVE  /\ [r EXCEPT !.frozen = r.params]
                  = [patch |-> r.patch, params |-> r.params, frozen |-> r.params, valid |-> r.valid]
           /\ [r EXCEPT !.valid = FALSE]
                  = [patch |-> r.patch, params |-> r.params, frozen |-> r.frozen, valid |-> FALSE]
<1>1. r = [patch |-> r.patch, params |-> r.params, frozen |-> r.frozen, valid |-> r.valid]
  BY DEF IsRow
<1> DEFINE p == r.patch
           q == r.params
           f == r.frozen
           v == r.valid
<1>2. r = [patch |-> p, params |-> q, frozen |-> f, valid |-> v] /\ r.params = q
  BY <1>1
<1> HIDE DEF p, q, f, v
<1>3. [r EXCEPT !.frozen = q] = [patch |-> p, params |-> q, frozen |-> q, valid |-> v]
  BY <1>2
<1>4. [r EXCEPT !.valid = FALSE] = [patch |-> p, params |-> q, frozen |-> f, valid |-> FALSE]
  <2> DEFINE s == [r EXCEPT !.valid = FALSE]
  <2>1. r \in [patch : {p}, params : {q}, frozen : {f}, valid : {v, FALSE}]
    BY <1>2
  <2>2. s \in [patch : {p}, params : {q}, frozen : {f}, valid : {v, FALSE}]
    BY <2>1
  <2>3. s.valid = FALSE
    BY <2>1
  <2> HIDE DEF s
  <2>4. s = [patch |-> s.patch, params |-> s.params, frozen |-> s.frozen, valid |-> s.valid]
    BY <2>2
  <2>5. s.patch = p /\ s.params = q /\ s.frozen = f
    BY <2>2
  <2>6. s = [patch |-> p, params |-> q, frozen |-> f, valid |-> FALSE]
    BY <2>3, <2>4, <2>5, Zenon
  <2> QED
    BY <2>6 DEF s
<1> QED
  BY <1>3, <1>4 DEF p, q, f, v

\* The latest row, its parameters frozen.
FrozenRow == [layers[Latest] EXCEPT !.frozen = layers[Latest].params]

(* Freezing the latest row changes that row.                               *)
LEMMA FreezeRow ==
    ASSUME RowsOK(layers), FreezeBase
    PROVE  /\ layers' = [layers EXCEPT ![Latest] = FrozenRow] /\ Latest \in 1..Len(layers)
           /\ IsRow(FrozenRow) /\ FrozenRow.valid
           /\ FrozenRow.patch = layers[Latest].patch /\ FrozenRow.frozen = layers[Latest].params
<1>1. Latest \in 1..Len(layers) /\ layers[Latest].valid /\ IsRow(layers[Latest])
  BY LatestFacts, RowsFacts DEF FreezeBase
<1>2. layers' = [layers EXCEPT ![Latest] = FrozenRow]
  BY DEF FreezeBase, FrozenRow
<1> DEFINE r == layers[Latest]
<1>3. FrozenRow = [patch |-> r.patch, params |-> r.params, frozen |-> r.params, valid |-> r.valid]
  BY <1>1, RowChanges DEF FrozenRow
<1>4. IsRow(FrozenRow)
  BY <1>1, <1>3 DEF IsRow
<1> QED
  BY <1>1, <1>2, <1>3, <1>4

(* A quarantined row stays a row.                                          *)
LEMMA QuarantinedRow ==
    ASSUME RowsOK(layers), NEW k, Quarantine(k)
    PROVE  /\ k \in 1..Len(layers)
           /\ IsRow([layers[k] EXCEPT !.valid = FALSE])
           /\ layers' = [layers EXCEPT ![k] = [layers[k] EXCEPT !.valid = FALSE]]
<1>1. k \in 1..Len(layers) /\ IsRow(layers[k])
  BY RowsFacts DEF Quarantine, Valid
<1> DEFINE r == layers[k]
<1>2. [r EXCEPT !.valid = FALSE]
          = [patch |-> r.patch, params |-> r.params, frozen |-> r.frozen, valid |-> FALSE]
  BY <1>1, RowChanges
<1>3. IsRow([r EXCEPT !.valid = FALSE])
  BY <1>1, <1>2 DEF IsRow
<1>4. layers' = [layers EXCEPT ![k] = [r EXCEPT !.valid = FALSE]]
  BY DEF Quarantine
<1> QED
  BY <1>1, <1>3, <1>4

(* Every step leaves rows.  Only a promotion or a bootstrap adds one.      *)
LEMMA RowsStep ==
    ASSUME RowsOK(layers), [Next]_vars
    PROVE  /\ RowsOK(layers')
           /\ Promoted => \E p \in Patches : Establish(p) \/ Promote(p)
<1>1. CASE UNCHANGED vars
  BY <1>1, RowsFacts DEF vars, Promoted
<1>2. ASSUME NEW p \in Patches, Establish(p)
      PROVE  RowsOK(layers')
  BY <1>2, NewRows, RowsAppend DEF Establish
<1>3. ASSUME NEW p \in Patches, Promote(p)
      PROVE  RowsOK(layers')
  BY <1>3, NewRows, RowsAppend DEF Promote
<1>4. CASE FreezeBase
  BY <1>4, FreezeRow, RowsExcept, RowsFacts DEF Promoted
<1>5. ASSUME NEW k, Quarantine(k)
      PROVE  RowsOK(layers') /\ ~Promoted
  <2>1. /\ k \in 1..Len(layers) /\ IsRow([layers[k] EXCEPT !.valid = FALSE])
        /\ layers' = [layers EXCEPT ![k] = [layers[k] EXCEPT !.valid = FALSE]]
    BY <1>5, QuarantinedRow
  <2> DEFINE r == [layers[k] EXCEPT !.valid = FALSE]
  <2>2. k \in 1..Len(layers) /\ IsRow(r) /\ layers' = [layers EXCEPT ![k] = r]
    BY <2>1
  <2> HIDE DEF r
  <2>3. RowsOK(layers') /\ Len(layers') = Len(layers)
    BY <2>2, RowsExcept
  <2> QED
    BY <2>3, RowsFacts DEF Promoted
<1> QED
  BY <1>1, <1>2, <1>3, <1>4, <1>5 DEF Next

(* The first rows are none.                                                *)
LEMMA NoRows == RowsOK(<<>>)
<1>1. PICK S : S = {}
  OBVIOUS
<1>2. PICK ls : ls = <<>>
  OBVIOUS
<1>3. ls \in Seq(S) /\ \A r \in S : IsRow(r)
  BY <1>1, <1>2
<1>4. RowsOK(ls)
  BY <1>3, RowsOfSeq
<1> QED
  BY <1>2, <1>4

-----------------------------------------------------------------------------
(* The model that is promoted.                                             *)

\* What a class calls for a model hook, if it defines it.
Called(members, h) == IF Defines(members, h) THEN {Runs(members, members[Plain(h)][2])} ELSE {}

(* Nothing is defined where nothing is defined.                            *)
LEMMA NothingDefined == DOMAIN NoBase.members = {} /\ \A h : ~Defines(NoBase.members, h)
  BY DEF NoBase, Nothing, Defines

(* A class on its own is the owner of what it defines.                     *)
LEMMA AloneOwner ==
    ASSUME NEW m, NEW h
    PROVE  Owner(NoBase, AsPatch(m), h) = IF Defines(m.members, h) THEN {m.members} ELSE {}
  BY NothingDefined DEF Owner, AsPatch

(* Which model a class on its own runs.                                    *)
LEMMA AloneModel ==
    ASSUME NEW m
    PROVE  /\ Defines(m.members, "ensemble_spec") =>
                  Alone(m).model[2] = Called(m.members, "ensemble_spec")
           /\ ~Defines(m.members, "ensemble_spec") /\ Defines(m.members, "model_spec") =>
                  Alone(m).model[2] = Called(m.members, "model_spec")
           /\ ~Defines(m.members, "ensemble_spec") /\ ~Defines(m.members, "model_spec")
              /\ Defines(m.members, "build_model") =>
                  Alone(m).model[2] = Called(m.members, "build_model")
<1> DEFINE M == m.members
           text(h) == {Runs(x, x[Plain(h)][2]) : x \in Owner(NoBase, AsPatch(m), h)}
           member  == IF \E t \in text("ensemble_spec") : t[1] \in OnBase
                      THEN <<text("build_model"),
                             IF Offered(NoBase, AsPatch(m)) = <<>> THEN NoParams
                             ELSE Offered(NoBase, AsPatch(m))[1]>>
                      ELSE <<>>
           built == IF text("build_model") = {} THEN {<<Trivial, <<>> >>} ELSE text("build_model")
           sel == Selected(NoBase, AsPatch(m))
           e == text("ensemble_spec")
           s == text("model_spec")
           model == Model(NoBase, AsPatch(m))
<1>1. model = CASE e # {} -> <<"ensemble", e, member>>
                [] e = {} /\ s # {} -> <<"spec", s, <<>> >>
                [] OTHER -> <<"build", built, sel>>
  BY DEF Model
<1>2. Alone(m).model = model
  BY DEF Alone, Does
<1>3. ASSUME NEW h PROVE text(h) = Called(M, h)
  BY AloneOwner DEF Called
<1>4. \A h : Called(M, h) = {} <=> ~Defines(M, h)
  BY DEF Called
<1>5. e = Called(M, "ensemble_spec") /\ s = Called(M, "model_spec")
      /\ text("build_model") = Called(M, "build_model")
  BY <1>3
<1>6. (e = {} <=> ~Defines(M, "ensemble_spec")) /\ (s = {} <=> ~Defines(M, "model_spec"))
      /\ (text("build_model") = {} <=> ~Defines(M, "build_model"))
  BY <1>4, <1>5
<1> HIDE DEF model, member, sel, e, s, built
<1>7. e # {} => model[2] = e
  BY <1>1
<1>8. e = {} /\ s # {} => model[2] = s
  BY <1>1
<1>9. e = {} /\ s = {} => model[2] = built
  BY <1>1
<1>10. text("build_model") # {} => built = text("build_model")
  BY DEF built
<1> HIDE DEF text
<1>11. Defines(M, "ensemble_spec") => Alone(m).model[2] = Called(M, "ensemble_spec")
  BY <1>2, <1>5, <1>6, <1>7
<1>12. ~Defines(M, "ensemble_spec") /\ Defines(M, "model_spec") =>
           Alone(m).model[2] = Called(M, "model_spec")
  BY <1>2, <1>5, <1>6, <1>8
<1>13. ~Defines(M, "ensemble_spec") /\ ~Defines(M, "model_spec") /\ Defines(M, "build_model") =>
           Alone(m).model[2] = Called(M, "build_model")
  BY <1>2, <1>5, <1>6, <1>9, <1>10
<1> QED
  BY <1>11, <1>12, <1>13

(* A merged class has the model hooks of the patch, and those of the base  *)
(* that the patch neither redefines nor suppresses.                        *)
LEMMA MergedModel ==
    ASSUME NEW base, NEW patch, NEW h \in ModelHooks
    PROVE  LET m == Merge(base, patch).members
           IN  /\ Defines(m, h) <=> \/ Defines(patch.members, h)
                                    \/ Defines(base.members, h) /\ ~Suppresses(patch.members, h)
               /\ Defines(m, h) => m[Plain(h)] = IF Defines(patch.members, h)
                                                 THEN patch.members[Plain(h)]
                                                 ELSE base.members[Plain(h)]
<1> DEFINE t == Together(base, patch)
           m == Freeze(t, patch.frozen)
           n == Plain(h)
<1>1. Merge(base, patch).members = m
  BY DEF Merge
<1>2. n[1] = h /\ n[2] = "" /\ h \in Hooks /\ h \notin Composable
  BY PlainHook, PlainRole DEF ModelHooks, Hooks, Composable
<1>3. n \notin Prevs(base, patch) \cup News(base, patch) \cup Wrappers(base, patch)
  <2>1. \A g \in Composing(base, patch) : Prev(base, patch, g)[2] = "prev" /\ New(base, patch, g)[2] = "new"
    BY UniqueNames DEF Prev, New
  <2>2. \A g \in Composing(base, patch) : g # h
    BY <1>2, ComposingFacts
  <2>3. \A x \in Prevs(base, patch) \cup News(base, patch) : x[2] # ""
    BY <2>1 DEF Prevs, News
  <2>4. \A x \in Wrappers(base, patch) : x[1] # h
    BY <2>2, PlainHook DEF Wrappers
  <2> HIDE DEF n
  <2> QED
    BY <1>2, <2>3, <2>4
<1> DEFINE W == Prevs(base, patch) \cup News(base, patch) \cup Wrappers(base, patch)
<1>4. n \in DOMAIN t <=> n \in Known(base, patch) /\ n \notin Dropped(patch.members)
  <2>1. DOMAIN t = (W \cup Known(base, patch)) \ Dropped(patch.members)
    BY TogetherNames
  <2> HIDE DEF t, n, W
  <2> QED
    BY <1>3, <2>1 DEF W
<1>5. n \in DOMAIN t => t[n] = IF n \in DOMAIN patch.members
                               THEN patch.members[n] ELSE base.members[n]
  <2>1. \A x \in DOMAIN t : x \notin W => t[x] = IF x \in DOMAIN patch.members
                                                  THEN patch.members[x] ELSE base.members[x]
    BY TogetherOld
  <2> HIDE DEF t, n, W
  <2> QED
    BY <1>3, <2>1 DEF W
<1>6. n \in Dropped(patch.members) <=> Suppresses(patch.members, h)
  BY <1>2, DroppedFacts
<1>7. n \in Dropped(patch.members) => n \notin DOMAIN patch.members
  BY DroppedFacts
<1>8. n \in DOMAIN m <=> n \in DOMAIN t
  BY <1>2, FreezeFacts
<1>9. n # Pc
  BY <1>2, PlainHook DEF Pc, Composable
<1>10. n \in DOMAIN m => m[n] = t[n]
  BY <1>9, FreezeFacts
<1> HIDE DEF t, m
<1> QED
  BY <1>1, <1>4, <1>5, <1>6, <1>7, <1>8, <1>10 DEF Defines, Known

(* The promoted patch is what is merged.                                   *)
LEMMA PromotedPatch ==
    ASSUME RowsOK(layers), [Next]_vars, Promoted
    PROVE  \E p \in Patches : \E frozen :
               /\ NewPatch = Source(p, NoParams)
               /\ \/ best' = Merge(best, Source(p, frozen)) /\ Promote(p)
                  \/ best' = Merge(NoBase, Source(p, frozen)) /\ Establish(p)
<1>1. PICK p \in Patches : Establish(p) \/ Promote(p)
  BY RowsStep
<1>2. ASSUME NEW params, NEW frozen \in {NoParams, params}, layers' = Append(layers, Row(p, params, frozen))
      PROVE  NewPatch = Source(p, NoParams)
  <2>1. layers'[Len(layers')] = Row(p, params, frozen)
    BY <1>2, NewRows, RowsAppend
  <2> QED
    BY <2>1, NewRows DEF NewPatch
<1>3. CASE Establish(p)
  BY <1>2, <1>3 DEF Establish
<1>4. CASE Promote(p)
  BY <1>2, <1>4 DEF Promote
<1> QED
  BY <1>1, <1>3, <1>4

(* A merge runs the model of the patch, if the patch chooses one.          *)
LEMMA MergedModelRuns ==
    ASSUME NEW base, NEW p, NEW frozen,
           \E h \in ModelHooks : Defines(Source(p, NoParams).members, h),
           NEW t \in Alone(Merge(base, Source(p, frozen))).model[2]
    PROVE  <<"own", t[1]>> \in Range(Source(p, NoParams).members)
<1> DEFINE patch == Source(p, frozen)
           pm == Source(p, NoParams).members
           m == Merge(base, patch)
<1>1. patch.members = pm /\ pm = [n \in DOMAIN p.members |-> <<"own", p.members[n]>>]
  BY DEF Source
<1>2. ASSUME NEW h \in ModelHooks, Defines(pm, h), Alone(m).model[2] = Called(m.members, h)
      PROVE  <<"own", t[1]>> \in Range(pm)
  <2>1. Defines(m.members, h) /\ m.members[Plain(h)] = pm[Plain(h)]
    BY <1>1, <1>2, MergedModel
  <2>2. t = Runs(m.members, pm[Plain(h)][2])
    BY <1>2, <2>1 DEF Called
  <2>3. t[1] = pm[Plain(h)][2]
    BY <2>2 DEF Runs
  <2>4. Plain(h) \in DOMAIN pm /\ pm[Plain(h)] = <<"own", p.members[Plain(h)]>>
    BY <1>1, <1>2 DEF Defines
  <2>5. <<"own", t[1]>> = pm[Plain(h)]
    BY <2>3, <2>4
  <2> QED
    BY <2>4, <2>5 DEF Range
<1>3. ASSUME NEW h \in ModelHooks, NEW g \in ModelHooks, h \in DOMAIN Suppressors,
             g \in Suppressors[h], Defines(pm, g)
      PROVE  Defines(m.members, h) => Defines(pm, h)
  <2>1. ~Defines(pm, h) => Suppresses(pm, h)
    BY <1>3 DEF Suppresses
  <2> QED
    BY <1>1, <2>1, MergedModel
<1>4. \A h \in ModelHooks : Defines(pm, h) => Defines(m.members, h)
  BY <1>1, MergedModel
<1>5. /\ \A h \in ModelHooks : h \in {"build_model", "ensemble_spec", "model_spec"}
      /\ {"build_model", "ensemble_spec", "model_spec"} \subseteq ModelHooks
  BY DEF ModelHooks
<1>6. Defines(m.members, "ensemble_spec") => Defines(pm, "ensemble_spec")
  <2>1. /\ "ensemble_spec" \in DOMAIN Suppressors
        /\ Suppressors["ensemble_spec"] = {"build_model", "model_spec"}
    BY DEF Suppressors
  <2> HIDE DEF m, pm
  <2> QED
    BY <1>3, <1>5, <2>1 DEF pm
<1>7. Defines(m.members, "model_spec") => Defines(pm, "model_spec")
  <2>1. /\ "model_spec" \in DOMAIN Suppressors
        /\ Suppressors["model_spec"] = {"build_model", "ensemble_spec"}
    BY DEF Suppressors
  <2> HIDE DEF m, pm
  <2> QED
    BY <1>3, <1>5, <2>1 DEF pm
<1>8. CASE Defines(m.members, "ensemble_spec")
  BY <1>2, <1>5, <1>6, <1>8, AloneModel
<1>9. CASE ~Defines(m.members, "ensemble_spec") /\ Defines(m.members, "model_spec")
  BY <1>2, <1>5, <1>7, <1>9, AloneModel
<1>10. CASE ~Defines(m.members, "ensemble_spec") /\ ~Defines(m.members, "model_spec")
  <2>1. ~Defines(pm, "ensemble_spec") /\ ~Defines(pm, "model_spec")
    BY <1>4, <1>5, <1>10
  <2>2. Defines(pm, "build_model")
    BY <1>5, <2>1
  <2> QED
    BY <1>2, <1>4, <1>5, <1>10, <2>2, AloneModel
<1> QED
  BY <1>8, <1>9, <1>10

-----------------------------------------------------------------------------
(* Replaying the rows.                                                     *)

\* f is what the first rows make, one after the other.
IsReplay(f, ls) ==
    f = [k \in 0..Len(ls) |->
            IF k = 0 THEN NoBase
            ELSE IF ls[k].valid THEN Merge(f[k - 1], Source(ls[k].patch, ls[k].frozen))
            ELSE f[k - 1]]

\* One row more.
Replayed(base, r) == IF r.valid THEN Merge(base, Source(r.patch, r.frozen)) ELSE base

(* The steps of a replay.                                                  *)
LEMMA ReplaySteps ==
    ASSUME NEW f, NEW ls, Len(ls) \in Nat, IsReplay(f, ls)
    PROVE  /\ f[0] = NoBase
           /\ \A k \in 1..Len(ls) : f[k] = Replayed(f[k - 1], ls[k])
  BY DEF IsReplay, Replayed

(* There is a replay of any rows.                                          *)
LEMMA ReplayExists ==
    ASSUME NEW ls, Len(ls) \in Nat
    PROVE  \E f : IsReplay(f, ls)
<1> DEFINE upto(f, n) == f = [k \in 0..n |->
                                IF k = 0 THEN NoBase
                                ELSE IF ls[k].valid
                                THEN Merge(f[k - 1], Source(ls[k].patch, ls[k].frozen))
                                ELSE f[k - 1]]
           S == {n \in Nat : \E f : upto(f, n)}
<1>1. 0 \in S
  <2>1. upto([k \in 0..0 |-> NoBase], 0)
    OBVIOUS
  <2> QED
    BY <2>1
<1>2. ASSUME NEW n \in Nat, n \in S
      PROVE  n + 1 \in S
  <2>1. PICK f : upto(f, n)
    BY <1>2
  <2> DEFINE last == IF ls[n + 1].valid
                     THEN Merge(f[n], Source(ls[n + 1].patch, ls[n + 1].frozen)) ELSE f[n]
             g == [k \in 0..(n + 1) |-> IF k = n + 1 THEN last ELSE f[k]]
  <2>2. \A k \in 0..n : g[k] = f[k]
    OBVIOUS
  <2>3. ASSUME NEW k \in 0..(n + 1)
        PROVE  g[k] = IF k = 0 THEN NoBase
                      ELSE IF ls[k].valid THEN Merge(g[k - 1], Source(ls[k].patch, ls[k].frozen))
                      ELSE g[k - 1]
    <3>1. CASE k = n + 1
      BY <2>2, <3>1
    <3>2. CASE k # n + 1
      <4>1. k \in 0..n /\ g[k] = f[k] /\ (k # 0 => k - 1 \in 0..n /\ g[k - 1] = f[k - 1])
        BY <3>2, <2>2
      <4>2. f[k] = IF k = 0 THEN NoBase
                   ELSE IF ls[k].valid THEN Merge(f[k - 1], Source(ls[k].patch, ls[k].frozen))
                   ELSE f[k - 1]
        BY <2>1, <4>1
      <4> HIDE DEF g
      <4> QED
        BY <4>1, <4>2
    <3> QED
      BY <3>1, <3>2
  <2>4. g = [k \in 0..(n + 1) |-> g[k]]
    OBVIOUS
  <2> HIDE DEF g
  <2>5. upto(g, n + 1)
    BY <2>3, <2>4
  <2> QED
    BY <2>5
<1> HIDE DEF S
<1>3. Len(ls) \in S
  BY <1>1, <1>2, Induction
<1> QED
  BY <1>3 DEF S, IsReplay

(* Replay is the last entry of a replay.                                   *)
LEMMA ReplayIs ==
    ASSUME NEW ls, Len(ls) \in Nat
    PROVE  \E f : IsReplay(f, ls) /\ Replay(ls) = f[Len(ls)]
<1>1. \E f : IsReplay(f, ls)
  BY ReplayExists
<1> QED
  BY <1>1 DEF Replay, IsReplay

(* Rows that begin alike are replayed alike.                               *)
LEMMA ReplayAgrees ==
    ASSUME NEW ls, NEW ms, Len(ls) \in Nat, Len(ms) \in Nat,
           NEW f, NEW g, IsReplay(f, ls), IsReplay(g, ms),
           NEW n \in Nat, n <= Len(ls), n <= Len(ms), \A k \in 1..n : ls[k] = ms[k]
    PROVE  \A k \in 0..n : f[k] = g[k]
<1> DEFINE S == {k \in Nat : k <= n => f[k] = g[k]}
<1>1. 0 \in S
  BY ReplaySteps
<1>2. ASSUME NEW k \in Nat, k \in S
      PROVE  k + 1 \in S
  <2> SUFFICES ASSUME k + 1 <= n PROVE f[k + 1] = g[k + 1]
    OBVIOUS
  <2>1. f[k] = g[k] /\ k + 1 \in 1..n /\ k + 1 \in 1..Len(ls) /\ k + 1 \in 1..Len(ms) /\ (k + 1) - 1 = k
    BY <1>2
  <2>2. f[k + 1] = Replayed(f[k], ls[k + 1]) /\ g[k + 1] = Replayed(g[k], ms[k + 1])
    BY <2>1, ReplaySteps
  <2> QED
    BY <2>1, <2>2
<1> HIDE DEF S
<1>3. \A k \in Nat : k \in S
  BY <1>1, <1>2, Induction
<1> QED
  BY <1>3 DEF S

(* A row more is a merge more.                                             *)
LEMMA ReplayAppend ==
    ASSUME NEW ls, RowsOK(ls), NEW r, IsRow(r)
    PROVE  Replay(Append(ls, r)) = Replayed(Replay(ls), r)
<1> DEFINE ms == Append(ls, r)
<1>1. /\ Len(ls) \in Nat /\ Len(ms) = Len(ls) + 1 /\ ms[Len(ls) + 1] = r
      /\ \A k \in 1..Len(ls) : ls[k] = ms[k]
  BY RowsAppend, RowsFacts
<1> HIDE DEF ms
<1>2. PICK f : IsReplay(f, ls) /\ Replay(ls) = f[Len(ls)]
  BY <1>1, ReplayIs
<1>3. PICK g : IsReplay(g, ms) /\ Replay(ms) = g[Len(ms)]
  BY <1>1, ReplayIs
<1>4. f[Len(ls)] = g[Len(ls)]
  BY <1>1, <1>2, <1>3, ReplayAgrees
<1>5. g[Len(ms)] = Replayed(g[Len(ls)], r)
  BY <1>1, <1>3, ReplaySteps
<1> QED
  BY <1>2, <1>3, <1>4, <1>5 DEF ms

(* Rows that are not valid add nothing.                                    *)
LEMMA ReplayInvalid ==
    ASSUME NEW ls, Len(ls) \in Nat, NEW f, IsReplay(f, ls),
           NEW i \in 0..Len(ls), \A k \in 1..Len(ls) : k > i => ~ls[k].valid
    PROVE  f[Len(ls)] = f[i]
<1> DEFINE S == {n \in Nat : i + n <= Len(ls) => f[i + n] = f[i]}
<1>1. 0 \in S
  OBVIOUS
<1>2. ASSUME NEW n \in Nat, n \in S
      PROVE  n + 1 \in S
  <2> SUFFICES ASSUME i + (n + 1) <= Len(ls) PROVE f[i + (n + 1)] = f[i]
    OBVIOUS
  <2>1. /\ f[i + n] = f[i] /\ i + (n + 1) \in 1..Len(ls) /\ i + (n + 1) > i
        /\ (i + (n + 1)) - 1 = i + n
    BY <1>2
  <2>2. f[i + (n + 1)] = Replayed(f[i + n], ls[i + (n + 1)])
    BY <2>1, ReplaySteps
  <2> QED
    BY <2>1, <2>2 DEF Replayed
<1>3. S \subseteq Nat
  OBVIOUS
<1> HIDE DEF S
<1>4. Len(ls) - i \in S
  BY <1>1, <1>2, Induction
<1> QED
  BY <1>4 DEF S

(* Freezing parameters in a merge is merging with them frozen.             *)
LEMMA MergeFreeze ==
    ASSUME NEW base, NEW p, NEW old, NEW params, old \in {NoParams, params}
    PROVE  Merge(Merge(base, Source(p, old)), FreezeOnly(params)) = Merge(base, Source(p, params))
<1> DEFINE b == Merge(base, Source(p, old))
           x == Together(base, Source(p, old))
           e == FreezeOnly(params)
<1>1. /\ e.members = Nothing /\ e.helpers = Nothing /\ e.override = {} /\ e.frozen = params
      /\ DOMAIN Nothing = {}
  BY DEF FreezeOnly, Nothing
<1>2. b = [members |-> Freeze(x, old), helpers |-> p.helpers ** base.helpers]
  BY DEF Merge, Source
<1>3. x = Together(base, Source(p, params))
  BY DEF Together, Source, Composing
<1>4. x = [n \in DOMAIN x |-> x[n]]
  BY DEF Together, Restrict
<1>5. Freeze(x, old) = [n \in DOMAIN Freeze(x, old) |-> Freeze(x, old)[n]]
  BY <1>4, FreezeUnfolded DEF Restrict
<1> DEFINE m == Freeze(x, old)
<1>6. Together(b, e) = m
  <2>1. Composing(b, e) = {}
    BY <1>1 DEF Composing, Collisions
  <2>2. Dropped(e.members) = {}
    BY <1>1 DEF Dropped, Suppresses, Defines
  <2>3. Prevs(b, e) = {} /\ News(b, e) = {} /\ Wrappers(b, e) = {} /\ Known(b, e) = DOMAIN m
    BY <1>1, <1>2, <2>1 DEF Prevs, News, Wrappers, Known
  <2>4. b.members = m
    BY <1>2
  <2> HIDE DEF b, m, e
  <2>5. DOMAIN Together(b, e) = DOMAIN m
    <3>1. DOMAIN Together(b, e)
              = (Prevs(b, e) \cup News(b, e) \cup Wrappers(b, e) \cup Known(b, e)) \ Dropped(e.members)
      BY TogetherNames
    <3> QED
      BY <2>2, <2>3, <3>1
  <2>6. \A n \in DOMAIN Together(b, e) :
            n \notin Prevs(b, e) \cup News(b, e) \cup Wrappers(b, e) =>
                Together(b, e)[n] = IF n \in DOMAIN e.members THEN e.members[n] ELSE b.members[n]
    BY TogetherOld
  <2>7. \A n \in DOMAIN m : Together(b, e)[n] = m[n]
    BY <1>1, <2>3, <2>5, <2>4, <2>6
  <2>8. Together(b, e) = [n \in DOMAIN Together(b, e) |-> Together(b, e)[n]]
    BY DEF Together, Restrict
  <2> QED
    BY <1>5, <2>5, <2>7, <2>8 DEF m
<1>7. Freeze(m, params) = Freeze(x, params)
  BY FreezeTwice
<1>8. e.helpers ** b.helpers = b.helpers
  BY <1>1, <1>2 DEF **
<1>9. Merge(b, e) = [members |-> Freeze(x, params), helpers |-> p.helpers ** base.helpers]
  BY <1>1, <1>2, <1>6, <1>7, <1>8 DEF Merge
<1> QED
  BY <1>3, <1>9 DEF Merge, Source

(* A freeze of the latest parameters is one of the latest row.             *)
LEMMA ReplayFreeze ==
    ASSUME RowsOK(layers), best = Replay(layers), FreezeBase
    PROVE  best' = Replay(layers')
<1> DEFINE i == Latest
           r == FrozenRow
           ms == [layers EXCEPT ![i] = r]
           params == layers[i].params
<1>1. /\ layers' = ms /\ i \in 1..Len(layers) /\ IsRow(r) /\ r.valid
      /\ r.patch = layers[i].patch /\ r.frozen = params
  BY FreezeRow
<1>2. /\ Len(layers) \in Nat /\ layers[i].valid /\ IsRow(layers[i])
      /\ \A k \in 1..Len(layers) : k > i => ~layers[k].valid
  BY RowsFacts, LatestFacts DEF FreezeBase
<1>3. /\ Len(ms) = Len(layers) /\ ms[i] = r
      /\ \A k \in 1..Len(layers) : k # i => ms[k] = layers[k]
  BY <1>1, RowsExcept
<1>4. best' = Merge(best, FreezeOnly(params))
  BY DEF FreezeBase
<1> HIDE DEF ms, r, i, params
<1>5. PICK f : IsReplay(f, layers) /\ Replay(layers) = f[Len(layers)]
  BY <1>2, ReplayIs
<1>6. PICK g : IsReplay(g, ms) /\ Replay(ms) = g[Len(ms)]
  BY <1>2, <1>3, ReplayIs
<1>7. f[Len(layers)] = f[i]
  BY <1>1, <1>2, <1>5, ReplayInvalid
<1>8. g[Len(ms)] = g[i]
  BY <1>1, <1>2, <1>3, <1>6, ReplayInvalid
<1>9. f[i - 1] = g[i - 1]
  <2>1. i - 1 \in Nat /\ i - 1 <= Len(layers) /\ \A k \in 1..(i - 1) : layers[k] = ms[k]
    BY <1>1, <1>2, <1>3
  <2> QED
    BY <1>2, <1>3, <1>5, <1>6, <2>1, ReplayAgrees
<1>10. f[i] = Merge(f[i - 1], Source(layers[i].patch, layers[i].frozen))
  BY <1>1, <1>2, <1>5, ReplaySteps DEF Replayed
<1>11. g[i] = Merge(f[i - 1], Source(layers[i].patch, params))
  BY <1>1, <1>2, <1>3, <1>6, <1>9, ReplaySteps DEF Replayed
<1>12. layers[i].frozen \in {NoParams, params}
  BY <1>2 DEF IsRow, params
<1>13. Merge(f[i], FreezeOnly(params)) = g[i]
  BY <1>10, <1>11, <1>12, MergeFreeze
<1> QED
  BY <1>1, <1>4, <1>5, <1>6, <1>7, <1>8, <1>13

(* Without a valid row there is no baseline.                               *)
LEMMA ReplayNothing ==
    ASSUME NEW ls, Len(ls) \in Nat, \A k \in 1..Len(ls) : ~ls[k].valid
    PROVE  Replay(ls) = NoBase
<1>1. PICK f : IsReplay(f, ls) /\ Replay(ls) = f[Len(ls)]
  BY ReplayIs
<1>2. f[Len(ls)] = f[0]
  BY <1>1, ReplayInvalid
<1> QED
  BY <1>1, <1>2, ReplaySteps

-----------------------------------------------------------------------------
(* What is proved about the specification.                                 *)

\* The inductive invariant.
CompositionInv == RowsOK(layers) /\ ReplayReproduces

(* The first state.                                                        *)
LEMMA InitInv == Init => CompositionInv
<1> SUFFICES ASSUME Init PROVE CompositionInv
  OBVIOUS
<1>1. PICK ls : ls = <<>>
  OBVIOUS
<1>2. layers = ls /\ best = NoBase /\ RowsOK(ls)
  BY <1>1, NoRows DEF Init
<1>3. Len(ls) = 0
  BY <1>1
<1>4. Replay(ls) = NoBase
  BY <1>3, ReplayNothing
<1> QED
  BY <1>2, <1>4 DEF CompositionInv, ReplayReproduces

(* Every step.                                                             *)
LEMMA StepInv == CompositionInv /\ [Next]_vars => CompositionInv'
<1> SUFFICES ASSUME CompositionInv, [Next]_vars PROVE CompositionInv'
  OBVIOUS
<1>1. RowsOK(layers) /\ best = Replay(layers) /\ RowsOK(layers')
  BY RowsStep DEF CompositionInv, ReplayReproduces
<1>2. Len(layers) \in Nat /\ DOMAIN layers = 1..Len(layers)
  BY <1>1, RowsFacts
<1>3. CASE UNCHANGED vars
  BY <1>1, <1>3 DEF vars, CompositionInv, ReplayReproduces
<1>4. ASSUME NEW p \in Patches, Establish(p)
      PROVE  best' = Replay(layers')
  <2>1. best = NoBase
    BY <1>1, <1>2, <1>4, ReplayNothing DEF Establish, Valid
  <2> DEFINE params == Selected(NoBase, Source(p, NoParams))
             r == Row(p, params, NoParams)
  <2>2. IsRow(r) /\ r.valid /\ r.patch = p /\ r.frozen = NoParams
    BY NewRows
  <2>3. layers' = Append(layers, r) /\ best' = Merge(NoBase, Source(p, NoParams))
    BY <1>4 DEF Establish
  <2> HIDE DEF r, params
  <2>4. Replay(layers') = Replayed(Replay(layers), r)
    BY <1>1, <2>2, <2>3, ReplayAppend
  <2> QED
    BY <1>1, <2>1, <2>2, <2>3, <2>4 DEF Replayed
<1>5. ASSUME NEW p \in Patches, Promote(p)
      PROVE  best' = Replay(layers')
  <2> DEFINE params == Selected(best, Source(p, NoParams))
             r == Row(p, params, params)
  <2>1. IsRow(r) /\ r.valid /\ r.patch = p /\ r.frozen = params
    BY NewRows
  <2>2. layers' = Append(layers, r) /\ best' = Merge(best, Source(p, params))
    BY <1>5 DEF Promote
  <2> HIDE DEF r, params
  <2>3. Replay(layers') = Replayed(Replay(layers), r)
    BY <1>1, <2>1, <2>2, ReplayAppend
  <2> QED
    BY <1>1, <2>1, <2>2, <2>3 DEF Replayed
<1>6. FreezeBase => best' = Replay(layers')
  BY <1>1, ReplayFreeze
<1>7. ASSUME NEW k, Quarantine(k)
      PROVE  best' = Replay(layers')
  BY <1>7 DEF Quarantine
<1>8. CASE Next
  <2>1. best' = Replay(layers')
    BY <1>4, <1>5, <1>6, <1>7, <1>8 DEF Next
  <2> QED
    BY <1>1, <2>1 DEF CompositionInv, ReplayReproduces
<1> QED
  BY <1>3, <1>8

\* Rows and baseline belong together in every reachable state.
THEOREM CompositionInvariant == Spec => []CompositionInv
  BY InitInv, StepInv, PTL DEF Spec

\* The baseline is what replay_best_pipeline makes of the valid rows: however
\* promotions, freezes behind a promotion and quarantines follow each other.
THEOREM ReplayRebuilds == Spec => []ReplayReproduces
<1>1. CompositionInv => ReplayReproduces
  BY DEF CompositionInv
<1> QED
  BY <1>1, CompositionInvariant, PTL

(* A step that promotes a choice of a model.                               *)
LEMMA PromotedModelStep ==
    ASSUME CompositionInv, [Next]_vars, Promoted, \E h \in ModelHooks : Defines(NewPatch.members, h)
    PROVE  \A t \in Alone(best').model[2] : <<"own", t[1]>> \in Range(NewPatch.members)
<1>0. PICK p \in Patches : \E frozen :
          /\ NewPatch = Source(p, NoParams)
          /\ \/ best' = Merge(best, Source(p, frozen)) /\ Promote(p)
             \/ best' = Merge(NoBase, Source(p, frozen)) /\ Establish(p)
  BY PromotedPatch DEF CompositionInv
<1>1. PICK frozen :
          /\ NewPatch = Source(p, NoParams)
          /\ \/ best' = Merge(best, Source(p, frozen)) /\ Promote(p)
             \/ best' = Merge(NoBase, Source(p, frozen)) /\ Establish(p)
  BY <1>0
<1>2. PICK base : best' = Merge(base, Source(p, frozen))
  BY <1>1
<1> QED
  BY <1>1, <1>2, MergedModelRuns

\* A promoted patch that chooses a model gets it from materialize, whatever
\* the layers below it and whether or not the merge does what was measured.
THEOREM ChosenModelRuns == Spec => PromotedModelRuns
<1>1. CompositionInv /\ [Next]_vars =>
          [Promoted /\ (\E h \in ModelHooks : Defines(NewPatch.members, h))
               => \A t \in Alone(best').model[2] : <<"own", t[1]>> \in Range(NewPatch.members)]_vars
  BY PromotedModelStep
<1> QED
  BY <1>1, CompositionInvariant, PTL DEF Spec, PromotedModelRuns

-----------------------------------------------------------------------------
(* Classes that merges make.                                               *)

\* A wrapper calls two helpers of its hook of a lower rank; there is nothing
\* else but members of patches and the frozen list.
RankedAt(members, rank, n) ==
    \/ /\ members[n][1] = "both" /\ {members[n][2], members[n][3]} \subseteq DOMAIN members
       /\ members[n][2][2] # "" /\ members[n][3][2] # ""
       /\ n[1] \in Composable /\ members[n][2][1] = n[1] /\ members[n][3][1] = n[1]
       /\ rank[members[n][2]] < rank[n] /\ rank[members[n][3]] < rank[n]
    \/ members[n][1] = "own" /\ members[n] = <<"own", members[n][2]>>
    \/ members[n][1] = "only" /\ n[1] = "param_candidates"

Ranked(members, rank) == \A n \in DOMAIN members : RankedAt(members, rank, n)

WellFormed(members) ==
    /\ IsFiniteSet(DOMAIN members)
    /\ \E top \in Nat : \E rank \in [DOMAIN members -> 0..top] : Ranked(members, rank)

(* The members of a class by what they are.                                *)
LEMMA Kinds ==
    ASSUME NEW members, WellFormed(members), NEW n \in DOMAIN members
    PROVE  /\ \/ members[n][1] = "both"
              \/ members[n][1] = "own" /\ members[n] = <<"own", members[n][2]>>
              \/ members[n][1] = "only" /\ n[1] = "param_candidates"
           /\ members[n][1] = "both" =>
                  /\ members[n][2] \in DOMAIN members /\ members[n][3] \in DOMAIN members
                  /\ members[n][2][2] # "" /\ members[n][3][2] # ""
                  /\ n[1] \in Composable /\ members[n][2][1] = n[1] /\ members[n][3][1] = n[1]
           /\ Refs(members[n]) \subseteq DOMAIN members
<1>1. PICK top \in Nat : \E rank \in [DOMAIN members -> 0..top] : Ranked(members, rank)
  BY DEF WellFormed
<1>2. PICK rank \in [DOMAIN members -> 0..top] : Ranked(members, rank)
  BY <1>1
<1>3. \/ /\ members[n][1] = "both" /\ {members[n][2], members[n][3]} \subseteq DOMAIN members
         /\ members[n][2][2] # "" /\ members[n][3][2] # ""
         /\ n[1] \in Composable /\ members[n][2][1] = n[1] /\ members[n][3][1] = n[1]
      \/ members[n][1] = "own" /\ members[n] = <<"own", members[n][2]>>
      \/ members[n][1] = "only" /\ n[1] = "param_candidates"
  BY <1>2 DEF Ranked, RankedAt
<1>4. CASE members[n][1] = "both"
  BY <1>3, <1>4 DEF Refs
<1>5. CASE members[n][1] # "both"
  BY <1>3, <1>5 DEF Refs
<1> QED
  BY <1>4, <1>5

(* Other hooks than the list have wrappers and texts.                      *)
LEMMA OwnMember ==
    ASSUME NEW members, WellFormed(members), NEW n \in DOMAIN members, n[1] # "param_candidates"
    PROVE  members[n][1] = "both" \/ (members[n][1] = "own" /\ members[n] = <<"own", members[n][2]>>)
<1>1. \/ members[n][1] = "both"
      \/ members[n][1] = "own" /\ members[n] = <<"own", members[n][2]>>
      \/ members[n][1] = "only" /\ n[1] = "param_candidates"
  BY Kinds
<1> QED
  BY <1>1

(* What holds of a member if it holds of those it calls, holds of all.     *)
LEMMA CallInduction ==
    ASSUME NEW members, WellFormed(members), NEW P,
           \A n \in DOMAIN members :
               (members[n][1] = "both" => members[n][2] \in P /\ members[n][3] \in P) => n \in P
    PROVE  DOMAIN members \subseteq P
<1>1. PICK top \in Nat : \E rank \in [DOMAIN members -> 0..top] : Ranked(members, rank)
  BY DEF WellFormed
<1>2. PICK rank \in [DOMAIN members -> 0..top] : Ranked(members, rank)
  BY <1>1
<1> DEFINE S == {i \in Nat : \A n \in DOMAIN members : rank[n] < i => n \in P}
<1>3. 0 \in S
  BY <1>2
<1>4. ASSUME NEW i \in Nat, i \in S
      PROVE  i + 1 \in S
  <2> SUFFICES ASSUME NEW n \in DOMAIN members, rank[n] < i + 1
               PROVE  n \in P
    OBVIOUS
  <2>1. members[n][1] = "both" =>
            /\ members[n][2] \in DOMAIN members /\ members[n][3] \in DOMAIN members
            /\ rank[members[n][2]] < rank[n] /\ rank[members[n][3]] < rank[n]
    BY <1>2 DEF Ranked, RankedAt
  <2>2. \A m \in DOMAIN members : rank[m] \in Nat
    BY <1>2
  <2>3. \A m \in DOMAIN members : rank[m] < rank[n] => rank[m] < i
    BY <2>2
  <2>4. members[n][1] = "both" => members[n][2] \in P /\ members[n][3] \in P
    BY <1>4, <2>1, <2>3
  <2> QED
    BY <2>4
<1> HIDE DEF S
<1>5. top + 1 \in S
  BY <1>3, <1>4, Induction
<1>6. \A n \in DOMAIN members : rank[n] < top + 1
  BY <1>2
<1> QED
  BY <1>5, <1>6 DEF S

(* The names a merge makes are new, and the helpers of the base stay.      *)
LEMMA NewNames ==
    ASSUME NEW base, NEW patch, IsFiniteSet(DOMAIN base.members),
           IsFiniteSet(DOMAIN patch.members), DOMAIN patch.members \subseteq Names
    PROVE  /\ (Prevs(base, patch) \cup News(base, patch)) \cap Known(base, patch) = {}
           /\ \A n \in Prevs(base, patch) : n[2] = "prev"
           /\ \A n \in News(base, patch) : n[2] = "new"
           /\ \A n \in Wrappers(base, patch) \cup DOMAIN patch.members : n[2] = ""
           /\ \A n \in DOMAIN base.members :
                  n[2] # "" =>
                      /\ n \notin Prevs(base, patch) \cup News(base, patch) \cup Wrappers(base, patch)
                      /\ n \notin DOMAIN patch.members /\ n \in DOMAIN Together(base, patch)
<1>1. IsFiniteSet(Known(base, patch))
  BY FS_Union DEF Known
<1>2. (Prevs(base, patch) \cup News(base, patch)) \cap Known(base, patch) = {}
  BY <1>1, UniqueIsFree DEF Prevs, News, Prev, New
<1>3. \A n \in Prevs(base, patch) : n[2] = "prev"
  BY UniqueNames DEF Prevs, Prev
<1>4. \A n \in News(base, patch) : n[2] = "new"
  BY UniqueNames DEF News, New
<1>5. \A n \in Wrappers(base, patch) : n[2] = ""
  BY PlainRole DEF Wrappers
<1>6. \A n \in DOMAIN patch.members : n[2] = ""
  BY PlainRole DEF Names
<1>7. \A n \in Dropped(patch.members) : n[2] = ""
  BY DroppedFacts, PlainRole
<1>8. ASSUME NEW n \in DOMAIN base.members, n[2] # ""
      PROVE  /\ n \notin Prevs(base, patch) \cup News(base, patch) \cup Wrappers(base, patch)
             /\ n \notin DOMAIN patch.members /\ n \in DOMAIN Together(base, patch)
  <2>1. n \in Known(base, patch)
    BY DEF Known
  <2>2. n \notin Dropped(patch.members)
    BY <1>7, <1>8
  <2>3. n \in DOMAIN Together(base, patch)
    BY <2>1, <2>2, TogetherNames
  <2> QED
    BY <1>2, <1>5, <1>6, <1>8, <2>1, <2>3
<1> QED
  BY <1>2, <1>3, <1>4, <1>5, <1>6, <1>8

(* The values of a function on a finite set are finitely many.             *)
LEMMA FiniteImage ==
    ASSUME NEW S, IsFiniteSet(S), NEW f, f = [x \in S |-> f[x]]
    PROVE  IsFiniteSet({f[x] : x \in S})
<1> DEFINE T == {f[x] : x \in S}
<1>1. f \in [S -> T]
  OBVIOUS
<1>2. f \in Surjection(S, T)
  BY <1>1 DEF Surjection
<1> QED
  BY <1>2, FS_Surjection

(* There are finitely many names.                                          *)
LEMMA FiniteNames == IsFiniteSet(Composable) /\ IsFiniteSet(Names)
<1>1. \A h : IsFiniteSet({h})
  BY FS_Singleton
<1>2. IsFiniteSet(Composable)
  <2>1. Composable = {"preprocess"} \cup {"feature_transform"} \cup {"postprocess_predictions"}
                         \cup {"param_candidates"}
    BY DEF Composable
  <2> QED
    BY <1>1, <2>1, FS_Union
<1>3. IsFiniteSet(Hooks \cup {Shared})
  <2>1. Hooks \cup {Shared} = Composable \cup {"build_model"} \cup {"ensemble_spec"}
                                  \cup {"model_spec"} \cup {Shared}
    BY DEF Hooks
  <2> QED
    BY <1>1, <1>2, <2>1, FS_Union
<1> DEFINE f == [h \in Hooks \cup {Shared} |-> Plain(h)]
<1>4. Names = {f[h] : h \in Hooks \cup {Shared}}
  BY DEF Names
<1>5. f = [h \in Hooks \cup {Shared} |-> f[h]]
  OBVIOUS
<1> HIDE DEF f
<1> QED
  BY <1>2, <1>3, <1>4, <1>5, FiniteImage

(* So a patch has finitely many members, all of them its own.              *)
LEMMA SourceFacts ==
    ASSUME CompositionAssumption, NEW p \in Patches, NEW frozen
    PROVE  /\ DOMAIN Source(p, frozen).members = DOMAIN p.members
           /\ IsFiniteSet(DOMAIN p.members) /\ DOMAIN p.members \subseteq Names
           /\ \A n \in DOMAIN p.members : Source(p, frozen).members[n] = <<"own", p.members[n]>>
           /\ Source(p, frozen).override = p.override /\ Source(p, frozen).frozen = frozen
<1>1. DOMAIN p.members \subseteq Names
  BY DEF CompositionAssumption
<1>2. IsFiniteSet(DOMAIN p.members)
  BY <1>1, FiniteNames, FS_Subset
<1> QED
  BY <1>1, <1>2 DEF Source

\* A patch, all of whose members are its own.
IsPatch(patch) ==
    /\ IsFiniteSet(DOMAIN patch.members) /\ DOMAIN patch.members \subseteq Names
    /\ \A n \in DOMAIN patch.members :
           patch.members[n][1] = "own" /\ patch.members[n] = <<"own", patch.members[n][2]>>

(* Sources are patches.                                                    *)
LEMMA SourceIsPatch ==
    ASSUME CompositionAssumption, NEW p \in Patches, NEW frozen
    PROVE  IsPatch(Source(p, frozen))
<1>1. ASSUME NEW n \in DOMAIN p.members
      PROVE  /\ Source(p, frozen).members[n][1] = "own"
             /\ Source(p, frozen).members[n] = <<"own", Source(p, frozen).members[n][2]>>
  BY SourceFacts
<1> QED
  BY <1>1, SourceFacts DEF IsPatch

(* What the members of a merge are: wrappers, the two versions they call,  *)
(* members of the patch, and the rest of the base.                         *)
LEMMA TogetherCases ==
    ASSUME NEW base, IsFiniteSet(DOMAIN base.members), NEW patch, IsPatch(patch),
           NEW n \in DOMAIN Together(base, patch)
    PROVE  LET t == Together(base, patch)
           IN  \/ \E h \in Composing(base, patch) :
                      n = Plain(h) /\ t[n] = <<"both", Prev(base, patch, h), New(base, patch, h)>>
               \/ \E h \in Composing(base, patch) :
                      n = Prev(base, patch, h) /\ t[n] = base.members[Plain(h)]
               \/ \E h \in Composing(base, patch) :
                      n = New(base, patch, h) /\ t[n] = patch.members[Plain(h)]
               \/ /\ n \in DOMAIN patch.members /\ n \notin Wrappers(base, patch)
                  /\ t[n] = patch.members[n]
               \/ /\ n \in DOMAIN base.members \ DOMAIN patch.members
                  /\ n \notin Prevs(base, patch) \cup News(base, patch) \cup Wrappers(base, patch)
                  /\ t[n] = base.members[n]
<1> DEFINE t == Together(base, patch)
           H == Composing(base, patch)
<1>1. \A h \in H :
          /\ t[Prev(base, patch, h)] = base.members[Plain(h)]
          /\ t[New(base, patch, h)] = patch.members[Plain(h)]
          /\ t[Plain(h)] = <<"both", Prev(base, patch, h), New(base, patch, h)>>
  BY TogetherNew
<1> HIDE DEF H, t
<1>2. CASE n \in Wrappers(base, patch)
  BY <1>1, <1>2 DEF Wrappers, H, t
<1>3. CASE n \in Prevs(base, patch)
  BY <1>1, <1>3 DEF Prevs, H, t
<1>4. CASE n \in News(base, patch)
  BY <1>1, <1>4 DEF News, H, t
<1>5. CASE n \notin Prevs(base, patch) \cup News(base, patch) \cup Wrappers(base, patch)
  <2>1. t[n] = IF n \in DOMAIN patch.members THEN patch.members[n] ELSE base.members[n]
    BY <1>5, TogetherOld DEF t
  <2>2. n \in Known(base, patch)
    BY <1>5, TogetherNames
  <2>3. CASE n \in DOMAIN patch.members
    BY <1>5, <2>1, <2>3 DEF t
  <2>4. CASE n \notin DOMAIN patch.members
    BY <1>5, <2>1, <2>2, <2>4 DEF t, Known
  <2> QED
    BY <2>3, <2>4
<1> QED
  BY <1>2, <1>3, <1>4, <1>5

(* A merge is well formed.                                                 *)
LEMMA TogetherWellFormed ==
    ASSUME NEW base, WellFormed(base.members), NEW patch, IsPatch(patch)
    PROVE  WellFormed(Together(base, patch))
<1> DEFINE t == Together(base, patch)
           H == Composing(base, patch)
           bm == base.members
<1>1. IsFiniteSet(DOMAIN bm)
  BY DEF WellFormed
<1>2. PICK top \in Nat : \E rank \in [DOMAIN bm -> 0..top] : Ranked(bm, rank)
  BY DEF WellFormed
<1>3. PICK rank \in [DOMAIN bm -> 0..top] : Ranked(bm, rank)
  BY <1>2
<1>4. /\ IsFiniteSet(DOMAIN patch.members) /\ DOMAIN patch.members \subseteq Names
  BY DEF IsPatch
<1>5. IsFiniteSet(DOMAIN t)
  <2>1. IsFiniteSet(H)
    BY FiniteNames, FS_Subset DEF Composing
  <2> DEFINE f == [h \in H |-> Prev(base, patch, h)]
             g == [h \in H |-> New(base, patch, h)]
             w == [h \in H |-> Plain(h)]
  <2>2. Prevs(base, patch) = {f[h] : h \in H} /\ f = [h \in H |-> f[h]]
    BY DEF Prevs
  <2>3. News(base, patch) = {g[h] : h \in H} /\ g = [h \in H |-> g[h]]
    BY DEF News
  <2>4. Wrappers(base, patch) = {w[h] : h \in H} /\ w = [h \in H |-> w[h]]
    BY DEF Wrappers
  <2> HIDE DEF f, g, w, H
  <2>5. /\ IsFiniteSet(Prevs(base, patch)) /\ IsFiniteSet(News(base, patch))
        /\ IsFiniteSet(Wrappers(base, patch))
    BY <2>1, <2>2, <2>3, <2>4, FiniteImage
  <2>6. IsFiniteSet(Known(base, patch))
    BY <1>1, <1>4, FS_Union DEF Known
  <2>7. IsFiniteSet(Prevs(base, patch) \cup News(base, patch) \cup Wrappers(base, patch)
                        \cup Known(base, patch))
    BY <2>5, <2>6, FS_Union
  <2>8. DOMAIN t \subseteq Prevs(base, patch) \cup News(base, patch) \cup Wrappers(base, patch)
                        \cup Known(base, patch)
    BY TogetherNames
  <2> QED
    BY <2>7, <2>8, FS_Subset
<1> DEFINE rk == [n \in DOMAIN t |->
                    IF n \in Wrappers(base, patch) THEN top + 1
                    ELSE IF n \in Prevs(base, patch) THEN rank[Plain(n[1])]
                    ELSE IF n \in News(base, patch) \cup DOMAIN patch.members THEN 0
                    ELSE rank[n]]
<1>6. \A h \in H : Plain(h) \in DOMAIN bm
  BY ComposingFacts
<1>7. /\ \A h \in H : Prev(base, patch, h)[1] = h
      /\ \A h \in H : Prev(base, patch, h) \in Prevs(base, patch)
      /\ \A h \in H : New(base, patch, h) \in News(base, patch)
      /\ \A h \in H : Plain(h) \in Wrappers(base, patch)
  BY UniqueNames DEF Prevs, News, Wrappers, Prev
<1>8. \A n \in Prevs(base, patch) : Plain(n[1]) \in DOMAIN bm
  BY <1>6, <1>7 DEF Prevs
<1>9. rk \in [DOMAIN t -> 0..(top + 1)]
  <2>1. \A n \in DOMAIN bm : rank[n] \in 0..(top + 1)
    BY <1>3
  <2>2. ASSUME NEW n \in DOMAIN t, n \notin Wrappers(base, patch), n \notin Prevs(base, patch),
               n \notin News(base, patch) \cup DOMAIN patch.members
        PROVE  n \in DOMAIN bm
    <3>1. n \in Known(base, patch)
      BY <2>2, TogetherNames
    <3> QED
      BY <2>2, <3>1 DEF Known
  <2> HIDE DEF t, bm, H
  <2> QED
    BY <1>8, <2>1, <2>2
<1>10. \A n \in DOMAIN bm : n[2] # "" => n \in DOMAIN t /\ rk[n] = rank[n]
  BY <1>1, <1>4, NewNames
<1>11. \A n \in DOMAIN bm : bm[n][1] = "both" =>
          /\ {bm[n][2], bm[n][3]} \subseteq DOMAIN bm
          /\ bm[n][2][2] # "" /\ bm[n][3][2] # ""
          /\ n[1] \in Composable /\ bm[n][2][1] = n[1] /\ bm[n][3][1] = n[1]
          /\ rank[bm[n][2]] < rank[n] /\ rank[bm[n][3]] < rank[n]
  BY <1>3 DEF Ranked, RankedAt
<1>12. \A n \in DOMAIN bm :
          \/ bm[n][1] = "both"
          \/ bm[n][1] = "own" /\ bm[n] = <<"own", bm[n][2]>>
          \/ bm[n][1] = "only" /\ n[1] = "param_candidates"
  BY <1>3 DEF Ranked, RankedAt
<1> DEFINE Good(n) == RankedAt(t, rk, n)
<1>13. ASSUME NEW n \in DOMAIN t, NEW m \in DOMAIN bm, t[n] = bm[m], rk[n] = rank[m],
              n[1] = m[1]
       PROVE  Good(n)
  <2> HIDE DEF rk, t, bm, H
  <2>1. CASE bm[m][1] = "both"
    <3>1. t[n][2] = bm[m][2] /\ t[n][3] = bm[m][3] /\ t[n][1] = "both"
      BY <1>13, <2>1
    <3>2. /\ bm[m][2] \in DOMAIN t /\ bm[m][3] \in DOMAIN t
          /\ rk[bm[m][2]] = rank[bm[m][2]] /\ rk[bm[m][3]] = rank[bm[m][3]]
      BY <1>10, <1>11, <2>1
    <3>3. {t[n][2], t[n][3]} \subseteq DOMAIN t
      BY <3>1, <3>2
    <3>4. t[n][2][2] # "" /\ t[n][3][2] # ""
      BY <1>11, <2>1, <3>1
    <3>5. n[1] \in Composable /\ t[n][2][1] = n[1] /\ t[n][3][1] = n[1]
      BY <1>11, <1>13, <2>1, <3>1
    <3>6. rk[t[n][2]] < rk[n] /\ rk[t[n][3]] < rk[n]
      <4>1. rank[bm[m][2]] < rank[m] /\ rank[bm[m][3]] < rank[m]
        BY <1>11, <2>1
      <4>2. rk[t[n][2]] = rank[bm[m][2]] /\ rk[t[n][3]] = rank[bm[m][3]] /\ rk[n] = rank[m]
        BY <1>13, <3>1, <3>2
      <4> QED
        BY <4>1, <4>2
    <3> QED
      BY <3>1, <3>3, <3>4, <3>5, <3>6 DEF RankedAt
  <2>2. CASE bm[m][1] = "own" /\ bm[m] = <<"own", bm[m][2]>>
    BY <1>13, <2>2 DEF RankedAt
  <2>3. CASE bm[m][1] = "only" /\ m[1] = "param_candidates"
    <3>1. t[n][1] = "only"
      BY <1>13, <2>3
    <3>2. n[1] = "param_candidates"
      BY <1>13, <2>3
    <3> QED
      BY <3>1, <3>2 DEF RankedAt
  <2> QED
    BY <1>12, <2>1, <2>2, <2>3
<1>14. ASSUME NEW h \in H, NEW n \in DOMAIN t, n = Plain(h),
              t[n] = <<"both", Prev(base, patch, h), New(base, patch, h)>>
       PROVE  Good(n)
  <2>1. Prev(base, patch, h) \in DOMAIN t /\ New(base, patch, h) \in DOMAIN t
    BY TogetherNew
  <2>2. Prev(base, patch, h)[2] = "prev" /\ New(base, patch, h)[2] = "new"
    BY <1>1, <1>4, <1>7, NewNames
  <2>3. n \in Wrappers(base, patch) /\ rk[n] = top + 1
    BY <1>7, <1>14
  <2>4. Prev(base, patch, h) \notin Wrappers(base, patch) /\ New(base, patch, h) \notin Wrappers(base, patch)
    BY <1>1, <1>4, <2>2, NewNames
  <2>5. New(base, patch, h) \notin Prevs(base, patch)
    BY <1>1, <1>4, <2>2, NewNames
  <2>6. rk[Prev(base, patch, h)] = rank[Plain(h)] /\ rk[New(base, patch, h)] = 0
    BY <1>7, <2>1, <2>4, <2>5
  <2>7. rank[Plain(h)] \in 0..top
    BY <1>3, <1>6
  <2>8. t[n][1] = "both" /\ t[n][2] = Prev(base, patch, h) /\ t[n][3] = New(base, patch, h)
    BY <1>14
  <2>9. Prev(base, patch, h)[2] # "" /\ New(base, patch, h)[2] # ""
    BY <2>2
  <2> HIDE DEF rk, t, bm, H
  <2>10. rk[t[n][2]] < rk[n] /\ rk[t[n][3]] < rk[n]
    <3>1. rank[Plain(h)] < top + 1 /\ 0 < top + 1
      BY <2>7
    <3> QED
      BY <2>3, <2>6, <2>8, <3>1
  <2>11. t[n][2][2] # "" /\ t[n][3][2] # ""
    BY <2>8, <2>9
  <2>12. {t[n][2], t[n][3]} \subseteq DOMAIN t
    BY <2>1, <2>8
  <2>13. n[1] = h /\ h \in Composable
    BY <1>14, PlainHook, ComposingFacts DEF H
  <2>14. t[n][2][1] = n[1] /\ t[n][3][1] = n[1]
    BY <2>8, <2>13, UniqueNames DEF Prev, New
  <2> QED
    BY <2>8, <2>10, <2>11, <2>12, <2>13, <2>14 DEF RankedAt
<1>15. ASSUME NEW h \in H, NEW n \in DOMAIN t, n = Prev(base, patch, h), t[n] = bm[Plain(h)]
       PROVE  Good(n)
  <2>1. n \notin Wrappers(base, patch) /\ n \in Prevs(base, patch)
    BY <1>1, <1>4, <1>7, <1>15, NewNames
  <2>2. rk[n] = rank[Plain(h)]
    BY <1>7, <1>15, <2>1
  <2>3. Plain(h) \in DOMAIN bm
    BY <1>6
  <2>4. n[1] = h /\ Plain(h)[1] = h
    BY <1>7, <1>15, PlainHook
  <2> HIDE DEF rk, t, bm, H
  <2> QED
    BY <1>13, <1>15, <2>2, <2>3, <2>4
<1>16. ASSUME NEW n \in DOMAIN t PROVE Good(n)
  <2>1. \A m \in DOMAIN patch.members :
            patch.members[m][1] = "own" /\ patch.members[m] = <<"own", patch.members[m][2]>>
    BY DEF IsPatch
  <2>2. ASSUME NEW m \in DOMAIN patch.members, t[n] = patch.members[m]
        PROVE  Good(n)
    <3>1. t[n][1] = "own" /\ t[n] = <<"own", t[n][2]>>
      BY <2>1, <2>2
    <3> QED
      BY <3>1 DEF RankedAt
  <2>3. CASE \E h \in H : n = New(base, patch, h) /\ t[n] = patch.members[Plain(h)]
    BY <2>2, <2>3, ComposingFacts
  <2>4. CASE \E h \in H : n = Prev(base, patch, h) /\ t[n] = bm[Plain(h)]
    BY <1>15, <2>4
  <2>5. CASE \E h \in H : /\ n = Plain(h)
                          /\ t[n] = <<"both", Prev(base, patch, h), New(base, patch, h)>>
    BY <1>14, <2>5
  <2>6. CASE /\ n \in DOMAIN bm \ DOMAIN patch.members
             /\ n \notin Prevs(base, patch) \cup News(base, patch) \cup Wrappers(base, patch)
             /\ t[n] = bm[n]
    <3>1. rk[n] = rank[n]
      BY <2>6
    <3> QED
      BY <1>13, <2>6, <3>1
  <2>7. CASE n \in DOMAIN patch.members /\ t[n] = patch.members[n]
    BY <2>2, <2>7
  <2> HIDE DEF rk, Good
  <2> QED
    BY <1>1, <2>3, <2>4, <2>5, <2>6, <2>7, TogetherCases
<1>17. Ranked(t, rk)
  BY <1>16 DEF Ranked, RankedAt
<1>18. top + 1 \in Nat
  OBVIOUS
<1> HIDE DEF rk, t
<1> QED
  BY <1>5, <1>9, <1>17, <1>18 DEF WellFormed, t

(* Freezing parameters keeps a class well formed.                          *)
LEMMA FreezeWellFormed ==
    ASSUME NEW members, WellFormed(members), NEW params
    PROVE  WellFormed(Freeze(members, params))
<1> DEFINE f == Freeze(members, params)
<1>1. PICK top \in Nat : \E rank \in [DOMAIN members -> 0..top] : Ranked(members, rank)
  BY DEF WellFormed
<1>2. PICK rank \in [DOMAIN members -> 0..top] : Ranked(members, rank)
  BY <1>1
<1> DEFINE rk == [n \in DOMAIN f |-> rank[n]]
<1>3. DOMAIN f \subseteq DOMAIN members
  BY FreezeFacts
<1>4. IsFiniteSet(DOMAIN f)
  BY <1>3, FS_Subset DEF WellFormed
<1>5. rk \in [DOMAIN f -> 0..top]
  BY <1>3
<1>6. \A n \in DOMAIN f : n # Pc => f[n] = members[n]
  BY FreezeFacts
<1>7. \A n \in DOMAIN f : Refs(f[n]) \subseteq DOMAIN f
  <2>1. \A n \in DOMAIN members : Refs(members[n]) \subseteq DOMAIN members
    BY Kinds
  <2>2. \A n \in DOMAIN f : Refs(members[n]) \subseteq DOMAIN members => Refs(f[n]) \subseteq DOMAIN f
    BY FreezeFacts
  <2> QED
    BY <1>3, <2>1, <2>2
<1>8. f[Pc] = <<"only", params>> \/ f = members
  BY FreezeFacts, FreezeUnfolded
<1> DEFINE Good(n, m, r) == RankedAt(m, r, n)
<1>9. \A n \in DOMAIN members : Good(n, members, rank)
  BY <1>2 DEF Ranked
<1>10. ASSUME NEW n \in DOMAIN f, f[n] = members[n]
       PROVE  Good(n, f, rk)
  <2>1. Good(n, members, rank) /\ rk[n] = rank[n]
    BY <1>3, <1>9
  <2>2. CASE members[n][1] = "both"
    <3>1. /\ f[n][1] = "both" /\ f[n][2] = members[n][2] /\ f[n][3] = members[n][3]
          /\ {f[n][2], f[n][3]} \subseteq DOMAIN f
      BY <1>7, <1>10, <2>2 DEF Refs
    <3>2. rk[f[n][2]] = rank[f[n][2]] /\ rk[f[n][3]] = rank[f[n][3]]
      BY <3>1
    <3>3. /\ members[n][2][2] # "" /\ members[n][3][2] # ""
          /\ n[1] \in Composable /\ members[n][2][1] = n[1] /\ members[n][3][1] = n[1]
      BY <2>1, <2>2 DEF RankedAt
    <3>4. /\ rank[members[n][2]] < rank[n] /\ rank[members[n][3]] < rank[n] /\ rk[n] = rank[n]
      BY <2>1, <2>2 DEF RankedAt
    <3> HIDE DEF f, rk
    <3> QED
      BY <3>1, <3>2, <3>3, <3>4 DEF RankedAt
  <2>3. CASE members[n][1] = "own" /\ members[n] = <<"own", members[n][2]>>
    BY <1>10, <2>3 DEF RankedAt
  <2>4. CASE members[n][1] = "only" /\ n[1] = "param_candidates"
    BY <1>10, <2>4 DEF RankedAt
  <2> QED
    BY <2>1, <2>2, <2>3, <2>4 DEF RankedAt
<1>11. ASSUME NEW n \in DOMAIN f PROVE Good(n, f, rk)
  <2>1. CASE f[n] = members[n]
    BY <1>10, <2>1
  <2>2. CASE f[n] # members[n]
    <3>1. n = Pc /\ f[n] = <<"only", params>>
      BY <1>6, <1>8, <2>2
    <3>2. n[1] = "param_candidates"
      BY <3>1, PlainHook DEF Pc
    <3>3. f[n][1] = "only"
      BY <3>1
    <3> QED
      BY <3>2, <3>3 DEF RankedAt
  <2> HIDE DEF f, rk, Good
  <2> QED
    BY <2>1, <2>2
<1>12. Ranked(f, rk)
  BY <1>11 DEF Ranked
<1> HIDE DEF f, rk
<1> QED
  BY <1>4, <1>5, <1>12 DEF WellFormed, f

(* Nothing is well formed.                                                 *)
LEMMA NothingWellFormed == WellFormed(NoBase.members)
<1>1. PICK m : m = NoBase.members
  OBVIOUS
<1>2. DOMAIN m = {}
  BY <1>1, NothingDefined
<1> DEFINE rank == [n \in DOMAIN m |-> 0]
<1>3. rank \in [DOMAIN m -> 0..0] /\ 0 \in Nat /\ IsFiniteSet(DOMAIN m)
  BY <1>2, FS_EmptySet
<1>4. Ranked(m, rank)
  BY <1>2 DEF Ranked
<1>5. WellFormed(m)
  BY <1>3, <1>4 DEF WellFormed
<1> QED
  BY <1>1, <1>5

(* So are the classes of a replay.                                         *)
LEMMA ReplayWellFormed ==
    ASSUME CompositionAssumption, NEW ls, RowsOK(ls), NEW f, IsReplay(f, ls)
    PROVE  \A k \in 0..Len(ls) : WellFormed(f[k].members)
<1> DEFINE S == {k \in Nat : k <= Len(ls) => WellFormed(f[k].members)}
<1>0. Len(ls) \in Nat
  BY RowsFacts
<1>1. 0 \in S
  BY <1>0, ReplaySteps, NothingWellFormed
<1>2. ASSUME NEW k \in Nat, k \in S
      PROVE  k + 1 \in S
  <2> SUFFICES ASSUME k + 1 <= Len(ls) PROVE WellFormed(f[k + 1].members)
    OBVIOUS
  <2>1. k + 1 \in 1..Len(ls) /\ (k + 1) - 1 = k /\ WellFormed(f[k].members)
    BY <1>0, <1>2
  <2>2. f[k + 1] = Replayed(f[k], ls[k + 1])
    BY <1>0, <2>1, ReplaySteps
  <2>3. ls[k + 1].patch \in Patches
    BY <2>1, RowsFacts DEF IsRow
  <2> DEFINE src == Source(ls[k + 1].patch, ls[k + 1].frozen)
  <2>4. WellFormed(Merge(f[k], src).members)
    <3>1. IsPatch(src)
      BY <2>3, SourceIsPatch
    <3>2. WellFormed(Together(f[k], src))
      BY <2>1, <3>1, TogetherWellFormed
    <3>3. WellFormed(Freeze(Together(f[k], src), src.frozen))
      BY <3>2, FreezeWellFormed
    <3> QED
      BY <3>3 DEF Merge
  <2> QED
    BY <2>1, <2>2, <2>4 DEF Replayed
<1> HIDE DEF S
<1>3. \A k \in Nat : k \in S
  BY <1>1, <1>2, Induction
<1> QED
  BY <1>0, <1>3 DEF S

-----------------------------------------------------------------------------
(* What the members of a class return when they are called.                *)

\* What a wrapper makes of what the two versions return.
Then(kind, s, t) ==
    CASE kind = "chain" -> s \o t
      [] kind = "features" -> t ** s
      [] OTHER -> Union(s, t)

\* What every member returns, when one that calls no others returns its leaf.
IsCalls(c, members, leaf, kind) ==
    c = [n \in DOMAIN members |->
            IF members[n][1] = "both" THEN Then(kind, c[members[n][2]], c[members[n][3]]) ELSE leaf[n]]

(* Member by member.                                                       *)
LEMMA CallsOf ==
    ASSUME NEW members, NEW leaf, NEW kind, NEW c, IsCalls(c, members, leaf, kind)
    PROVE  \A n \in DOMAIN members :
               /\ members[n][1] = "both" => c[n] = Then(kind, c[members[n][2]], c[members[n][3]])
               /\ members[n][1] # "both" => c[n] = leaf[n]
<1>1. ASSUME NEW n \in DOMAIN members
      PROVE  c[n] = IF members[n][1] = "both" THEN Then(kind, c[members[n][2]], c[members[n][3]]) ELSE leaf[n]
  BY DEF IsCalls
<1> QED
  BY <1>1

(* A well-formed class has calls.                                          *)
LEMMA CallsExist ==
    ASSUME NEW members, WellFormed(members), NEW leaf, NEW kind
    PROVE  \E c : IsCalls(c, members, leaf, kind)
<1>1. PICK top \in Nat : \E rank \in [DOMAIN members -> 0..top] : Ranked(members, rank)
  BY DEF WellFormed
<1>2. PICK rank \in [DOMAIN members -> 0..top] : Ranked(members, rank)
  BY <1>1
<1> DEFINE below(i) == {n \in DOMAIN members : rank[n] < i}
           partly(c, i) == /\ c = [n \in below(i) |-> c[n]]
                           /\ \A n \in below(i) :
                                  /\ members[n][1] = "both" => c[n] = Then(kind, c[members[n][2]], c[members[n][3]])
                                  /\ members[n][1] # "both" => c[n] = leaf[n]
           S == {i \in Nat : \E c : partly(c, i)}
<1>3. \A n \in DOMAIN members : rank[n] \in 0..top
  BY <1>2
<1>4. \A n \in DOMAIN members : members[n][1] = "both" =>
          /\ members[n][2] \in DOMAIN members /\ members[n][3] \in DOMAIN members
          /\ rank[members[n][2]] < rank[n] /\ rank[members[n][3]] < rank[n]
  BY <1>2 DEF Ranked, RankedAt
<1>5. 0 \in S
  <2>1. below(0) = {}
    BY <1>3
  <2> DEFINE d == [n \in below(0) |-> leaf[n]]
  <2>2. partly(d, 0)
    <3>1. d = [n \in below(0) |-> d[n]]
      OBVIOUS
    <3> QED
      BY <2>1, <3>1
  <2> QED
    BY <2>2
<1>6. ASSUME NEW i \in Nat, i \in S
      PROVE  i + 1 \in S
  <2>1. PICK c : partly(c, i)
    BY <1>6
  <2> DEFINE d == [n \in below(i + 1) |->
                     IF members[n][1] = "both" THEN Then(kind, c[members[n][2]], c[members[n][3]]) ELSE leaf[n]]
  <2>2. below(i) \subseteq below(i + 1)
    BY <1>3
  <2>3. \A n \in below(i + 1) : members[n][1] = "both" =>
            members[n][2] \in below(i) /\ members[n][3] \in below(i)
    BY <1>3, <1>4
  <2>4. \A n \in below(i) : d[n] = c[n]
    <3> HIDE DEF below
    <3> QED
      BY <2>1, <2>2
  <2>5. ASSUME NEW n \in below(i + 1)
        PROVE  /\ members[n][1] = "both" => d[n] = Then(kind, d[members[n][2]], d[members[n][3]])
               /\ members[n][1] # "both" => d[n] = leaf[n]
    <3> HIDE DEF below
    <3>1. members[n][1] # "both" => d[n] = leaf[n]
      OBVIOUS
    <3>2. members[n][1] = "both" => d[n] = Then(kind, c[members[n][2]], c[members[n][3]])
      OBVIOUS
    <3> HIDE DEF d
    <3> QED
      BY <2>3, <2>4, <3>1, <3>2
  <2>6. d = [n \in below(i + 1) |-> d[n]]
    OBVIOUS
  <2> HIDE DEF d, below
  <2>7. partly(d, i + 1)
    BY <2>5, <2>6
  <2> HIDE DEF partly
  <2> QED
    BY <2>7
<1> HIDE DEF S
<1>7. top + 1 \in S
  BY <1>5, <1>6, Induction
<1>8. PICK c : partly(c, top + 1)
  BY <1>7 DEF S
<1>9. below(top + 1) = DOMAIN members
  BY <1>3
<1> HIDE DEF below
<1>10. IsCalls(c, members, leaf, kind)
  <2>1. c = [n \in DOMAIN members |-> c[n]]
    BY <1>8, <1>9
  <2>2. \A n \in DOMAIN members :
            c[n] = IF members[n][1] = "both" THEN Then(kind, c[members[n][2]], c[members[n][3]]) ELSE leaf[n]
    BY <1>8, <1>9
  <2>3. [n \in DOMAIN members |-> c[n]]
            = [n \in DOMAIN members |->
                 IF members[n][1] = "both" THEN Then(kind, c[members[n][2]], c[members[n][3]]) ELSE leaf[n]]
    BY <2>2
  <2> QED
    BY <2>1, <2>3 DEF IsCalls
<1> QED
  BY <1>10

(* And no others.                                                          *)
LEMMA OneCalls ==
    ASSUME NEW members, WellFormed(members), NEW leaf, NEW kind,
           NEW c, IsCalls(c, members, leaf, kind), NEW d, IsCalls(d, members, leaf, kind)
    PROVE  \A n \in DOMAIN members : c[n] = d[n]
<1> DEFINE P == {n \in DOMAIN members : c[n] = d[n]}
<1>1. \A n \in DOMAIN members :
          /\ members[n][1] = "both" => c[n] = Then(kind, c[members[n][2]], c[members[n][3]])
          /\ members[n][1] # "both" => c[n] = leaf[n]
  BY CallsOf
<1>2. \A n \in DOMAIN members :
          /\ members[n][1] = "both" => d[n] = Then(kind, d[members[n][2]], d[members[n][3]])
          /\ members[n][1] # "both" => d[n] = leaf[n]
  BY CallsOf
<1>3. ASSUME NEW n \in DOMAIN members,
             members[n][1] = "both" => members[n][2] \in P /\ members[n][3] \in P
      PROVE  n \in P
  <2>1. CASE members[n][1] = "both"
    BY <1>1, <1>2, <1>3, <2>1
  <2>2. CASE members[n][1] # "both"
    BY <1>1, <1>2, <2>2
  <2> QED
    BY <2>1, <2>2
<1> HIDE DEF P
<1>4. DOMAIN members \subseteq P
  BY <1>3, CallInduction
<1> QED
  BY <1>4 DEF P

(* Calls are sequences, of two at least for a wrapper.                     *)
LEMMA CallsAreSequences ==
    ASSUME NEW members, WellFormed(members), NEW leaf, NEW c, IsCalls(c, members, leaf, "chain"),
           NEW X, \A n \in DOMAIN members : leaf[n] \in Seq(X) /\ Len(leaf[n]) >= 1
    PROVE  \A n \in DOMAIN members :
               /\ c[n] \in Seq(X) /\ Len(c[n]) >= 1
               /\ members[n][1] = "both" => Len(c[n]) >= 2
<1> DEFINE P == {n \in DOMAIN members : c[n] \in Seq(X) /\ Len(c[n]) >= 1}
<1>0. \A n \in DOMAIN members :
          /\ members[n][1] = "both" => c[n] = Then("chain", c[members[n][2]], c[members[n][3]])
          /\ members[n][1] # "both" => c[n] = leaf[n]
  BY CallsOf
<1>1. ASSUME NEW n \in DOMAIN members, members[n][1] = "both",
             members[n][2] \in P, members[n][3] \in P
      PROVE  c[n] \in Seq(X) /\ Len(c[n]) >= 2
  <2> DEFINE a == c[members[n][2]]
             b == c[members[n][3]]
  <2>1. c[n] = Then("chain", a, b)
    BY <1>0, <1>1
  <2>2. a \in Seq(X) /\ b \in Seq(X) /\ Len(a) >= 1 /\ Len(b) >= 1
    BY <1>1
  <2> HIDE DEF a, b
  <2>3. a \o b \in Seq(X) /\ Len(a \o b) = Len(a) + Len(b) /\ Len(a) \in Nat /\ Len(b) \in Nat
    BY <2>2, ConcatProperties, LenProperties
  <2> QED
    BY <2>1, <2>2, <2>3 DEF Then
<1>2. ASSUME NEW n \in DOMAIN members,
             members[n][1] = "both" => members[n][2] \in P /\ members[n][3] \in P
      PROVE  n \in P
  <2>1. CASE members[n][1] = "both"
    <3>1. c[n] \in Seq(X) /\ Len(c[n]) >= 2
      BY <1>1, <1>2, <2>1
    <3>2. Len(c[n]) \in Nat
      BY <3>1, LenProperties
    <3> QED
      BY <3>1, <3>2
  <2>2. CASE members[n][1] # "both"
    BY <1>0, <2>2
  <2> QED
    BY <2>1, <2>2
<1> HIDE DEF P
<1>3. DOMAIN members \subseteq P
  BY <1>2, CallInduction
<1>4. \A n \in DOMAIN members : members[n][1] = "both" =>
          members[n][2] \in DOMAIN members /\ members[n][3] \in DOMAIN members
  BY Kinds
<1>5. \A n \in DOMAIN members : members[n][1] = "both" => Len(c[n]) >= 2
  BY <1>1, <1>3, <1>4
<1>6. \A n \in DOMAIN members : c[n] \in Seq(X) /\ Len(c[n]) >= 1
  BY <1>3 DEF P
<1> QED
  BY <1>5, <1>6

\* What the members of a class return, kind by kind: the texts that run, what
\* they run on, the columns they make, the candidates they offer.
TextLeaf(members) == [n \in DOMAIN members |-> <<members[n][2]>>]
RunLeaf(members)  == [n \in DOMAIN members |-> <<Runs(members, members[n][2])>>]
FeatureLeaf(members) ==
    [n \in DOMAIN members |-> [c \in Columns[members[n][2]] |-> Runs(members, members[n][2])]]
ListLeaf(members) ==
    [n \in DOMAIN members |-> IF members[n][1] = "only" THEN <<members[n][2]>>
                              ELSE Candidates[members[n][2]]]

(* A chain is what its member returns.                                     *)
LEMMA ChainIs ==
    ASSUME NEW members, WellFormed(members)
    PROVE  \E c : /\ IsCalls(c, members, RunLeaf(members), "chain")
                  /\ \A h : Chain(members, h) = IF Defines(members, h) THEN c[Plain(h)] ELSE <<>>
<1> DEFINE call == CHOOSE c : c = [n \in DOMAIN members |->
                       IF members[n][1] = "both" THEN c[members[n][2]] \o c[members[n][3]]
                       ELSE <<Runs(members, members[n][2])>>]
<1>1. \A c : IsCalls(c, members, RunLeaf(members), "chain") <=>
                 c = [n \in DOMAIN members |->
                       IF members[n][1] = "both" THEN c[members[n][2]] \o c[members[n][3]]
                       ELSE <<Runs(members, members[n][2])>>]
  <2>1. \A c : [n \in DOMAIN members |->
                   IF members[n][1] = "both" THEN Then("chain", c[members[n][2]], c[members[n][3]])
                   ELSE RunLeaf(members)[n]]
               = [n \in DOMAIN members |->
                   IF members[n][1] = "both" THEN c[members[n][2]] \o c[members[n][3]]
                   ELSE <<Runs(members, members[n][2])>>]
    BY DEF Then, RunLeaf
  <2> QED
    BY <2>1 DEF IsCalls
<1>2. IsCalls(call, members, RunLeaf(members), "chain")
  <2>1. \E c : IsCalls(c, members, RunLeaf(members), "chain")
    BY CallsExist
  <2> QED
    BY <1>1, <2>1
<1>3. \A h : Chain(members, h) = IF Defines(members, h) THEN call[Plain(h)] ELSE <<>>
  BY DEF Chain
<1> HIDE DEF call
<1> QED
  BY <1>2, <1>3

(* So are columns.                                                         *)
LEMMA FeaturesIs ==
    ASSUME NEW members, WellFormed(members)
    PROVE  LET h == "feature_transform"
           IN  \E c : /\ IsCalls(c, members, FeatureLeaf(members), "features")
                      /\ Features(members) = IF Defines(members, h) THEN c[Plain(h)] ELSE Nothing
<1> DEFINE call == CHOOSE c : c = [n \in DOMAIN members |->
                       IF members[n][1] = "both" THEN c[members[n][3]] ** c[members[n][2]]
                       ELSE [x \in Columns[members[n][2]] |-> Runs(members, members[n][2])]]
<1>1. \A c : IsCalls(c, members, FeatureLeaf(members), "features") <=>
                 c = [n \in DOMAIN members |->
                       IF members[n][1] = "both" THEN c[members[n][3]] ** c[members[n][2]]
                       ELSE [x \in Columns[members[n][2]] |-> Runs(members, members[n][2])]]
  <2>1. \A c : [n \in DOMAIN members |->
                   IF members[n][1] = "both" THEN Then("features", c[members[n][2]], c[members[n][3]])
                   ELSE FeatureLeaf(members)[n]]
               = [n \in DOMAIN members |->
                   IF members[n][1] = "both" THEN c[members[n][3]] ** c[members[n][2]]
                   ELSE [x \in Columns[members[n][2]] |-> Runs(members, members[n][2])]]
    BY DEF Then, FeatureLeaf
  <2> QED
    BY <2>1 DEF IsCalls
<1>2. IsCalls(call, members, FeatureLeaf(members), "features")
  <2>1. \E c : IsCalls(c, members, FeatureLeaf(members), "features")
    BY CallsExist
  <2> QED
    BY <1>1, <2>1
<1>3. Features(members) = IF Defines(members, "feature_transform")
                          THEN call[Plain("feature_transform")] ELSE Nothing
  BY DEF Features
<1> HIDE DEF call
<1> QED
  BY <1>2, <1>3

(* So are candidates.                                                      *)
LEMMA ListsIs ==
    ASSUME NEW members, WellFormed(members)
    PROVE  \E c : /\ IsCalls(c, members, ListLeaf(members), "lists")
                  /\ Lists(members) = c[Plain("param_candidates")]
<1> DEFINE call == CHOOSE c : c = [n \in DOMAIN members |->
                       CASE members[n][1] = "both" -> Union(c[members[n][2]], c[members[n][3]])
                         [] members[n][1] = "only" -> <<members[n][2]>>
                         [] OTHER -> Candidates[members[n][2]]]
<1>1. \A c : IsCalls(c, members, ListLeaf(members), "lists") <=>
                 c = [n \in DOMAIN members |->
                       CASE members[n][1] = "both" -> Union(c[members[n][2]], c[members[n][3]])
                         [] members[n][1] = "only" -> <<members[n][2]>>
                         [] OTHER -> Candidates[members[n][2]]]
  <2>1. \A c : [n \in DOMAIN members |->
                   IF members[n][1] = "both" THEN Then("lists", c[members[n][2]], c[members[n][3]])
                   ELSE ListLeaf(members)[n]]
               = [n \in DOMAIN members |->
                       CASE members[n][1] = "both" -> Union(c[members[n][2]], c[members[n][3]])
                         [] members[n][1] = "only" -> <<members[n][2]>>
                         [] OTHER -> Candidates[members[n][2]]]
    BY DEF Then, ListLeaf
  <2> QED
    BY <2>1 DEF IsCalls
<1>2. IsCalls(call, members, ListLeaf(members), "lists")
  <2>1. \E c : IsCalls(c, members, ListLeaf(members), "lists")
    BY CallsExist
  <2> QED
    BY <1>1, <2>1
<1>3. Lists(members) = call[Plain("param_candidates")]
  BY DEF Lists
<1> HIDE DEF call
<1> QED
  BY <1>2, <1>3

\* The firsts of a sequence of tuples.
Firsts(s) == [k \in DOMAIN s |-> s[k][1]]

(* The firsts of what is put together.                                     *)
LEMMA FirstsOfConcat ==
    ASSUME NEW X, NEW a \in Seq(X), NEW b \in Seq(X)
    PROVE  Firsts(a \o b) = Firsts(a) \o Firsts(b)
<1> DEFINE Y == {x[1] : x \in X}
           u == Firsts(a)
           v == Firsts(b)
<1>1. /\ Len(a) \in Nat /\ DOMAIN a = 1..Len(a) /\ Len(b) \in Nat /\ DOMAIN b = 1..Len(b)
      /\ \A k \in 1..Len(a) : a[k] \in X
      /\ \A k \in 1..Len(b) : b[k] \in X
  BY LenProperties, ElementOfSeq
<1>2. u = [k \in 1..Len(a) |-> a[k][1]] /\ v = [k \in 1..Len(b) |-> b[k][1]]
  BY <1>1 DEF Firsts
<1>3. u \in Seq(Y) /\ v \in Seq(Y)
  <2>1. \A k \in 1..Len(a) : a[k][1] \in Y
    BY <1>1
  <2>2. \A k \in 1..Len(b) : b[k][1] \in Y
    BY <1>1
  <2> HIDE DEF Y, u, v
  <2> QED
    BY <1>1, <1>2, <2>1, <2>2, IsASeq
<1> HIDE DEF u, v, Y
<1>4. Len(u) = Len(a) /\ Len(v) = Len(b)
  BY <1>1, <1>2, <1>3, LenProperties
<1>5. /\ a \o b \in Seq(X) /\ Len(a \o b) = Len(a) + Len(b)
      /\ \A k \in 1..(Len(a) + Len(b)) :
             (a \o b)[k] = IF k <= Len(a) THEN a[k] ELSE b[k - Len(a)]
  BY ConcatProperties
<1>6. /\ u \o v \in Seq(Y) /\ Len(u \o v) = Len(a) + Len(b)
      /\ \A k \in 1..(Len(a) + Len(b)) :
             (u \o v)[k] = IF k <= Len(a) THEN u[k] ELSE v[k - Len(a)]
  <2>1. /\ u \o v \in Seq(Y) /\ Len(u \o v) = Len(u) + Len(v)
        /\ \A k \in 1..(Len(u) + Len(v)) :
               (u \o v)[k] = IF k <= Len(u) THEN u[k] ELSE v[k - Len(u)]
    BY <1>3, ConcatProperties
  <2> QED
    BY <1>4, <2>1
<1>7. DOMAIN (a \o b) = 1..(Len(a) + Len(b)) /\ DOMAIN (u \o v) = 1..(Len(a) + Len(b))
  BY <1>5, <1>6, LenProperties
<1>8. u \o v = [k \in 1..(Len(a) + Len(b)) |-> (u \o v)[k]]
  <2>1. PICK w : w = u \o v
    OBVIOUS
  <2>2. w \in Seq(Y) /\ DOMAIN w = 1..(Len(a) + Len(b))
    BY <1>6, <1>7, <2>1
  <2>3. w = [k \in 1..(Len(a) + Len(b)) |-> w[k]]
    BY <2>2, SeqDef
  <2> QED
    BY <2>1, <2>3
<1>9. ASSUME NEW k \in 1..(Len(a) + Len(b))
      PROVE  (u \o v)[k] = (a \o b)[k][1]
  <2>1. CASE k <= Len(a)
    <3>1. k \in 1..Len(a)
      BY <1>1, <2>1
    <3> QED
      BY <1>2, <1>5, <1>6, <2>1, <3>1
  <2>2. CASE ~(k <= Len(a))
    <3>1. k - Len(a) \in 1..Len(b)
      BY <1>1, <2>2
    <3> QED
      BY <1>2, <1>5, <1>6, <2>2, <3>1
  <2> QED
    BY <2>1, <2>2
<1> QED
  BY <1>7, <1>8, <1>9 DEF Firsts, u, v

\* The texts of a hook, in the order in which they run.
Ran(members, h) == Firsts(Chain(members, h))

(* Texts are sequences, of two at least for a wrapper.                     *)
LEMMA TextsAreSequences ==
    ASSUME NEW members, WellFormed(members), NEW t, IsCalls(t, members, TextLeaf(members), "chain")
    PROVE  \A n \in DOMAIN members :
               /\ members[n][1] = "both" => Len(t[n]) >= 2
               /\ members[n][1] # "both" => t[n] = <<members[n][2]>>
<1> DEFINE X == {members[n][2] : n \in DOMAIN members}
<1>1. \A n \in DOMAIN members :
          /\ TextLeaf(members)[n] \in Seq(X) /\ Len(TextLeaf(members)[n]) >= 1
          /\ TextLeaf(members)[n] = <<members[n][2]>>
  BY DEF TextLeaf
<1> HIDE DEF X
<1>2. \A n \in DOMAIN members : members[n][1] = "both" => Len(t[n]) >= 2
  BY <1>1, CallsAreSequences
<1>3. \A n \in DOMAIN members : members[n][1] # "both" => t[n] = TextLeaf(members)[n]
  BY CallsOf
<1> QED
  BY <1>1, <1>2, <1>3

(* The texts of a chain are the texts that its member returns.             *)
LEMMA RanIs ==
    ASSUME NEW members, WellFormed(members), NEW h,
           NEW t, IsCalls(t, members, TextLeaf(members), "chain")
    PROVE  /\ ~Defines(members, h) => Ran(members, h) = <<>>
           /\ Defines(members, h) => Ran(members, h) = t[Plain(h)]
<1>1. PICK call : /\ IsCalls(call, members, RunLeaf(members), "chain")
                  /\ \A g : Chain(members, g) = IF Defines(members, g) THEN call[Plain(g)] ELSE <<>>
  BY ChainIs
<1> DEFINE X == {Runs(members, members[n][2]) : n \in DOMAIN members}
<1>2. \A n \in DOMAIN members :
          /\ RunLeaf(members)[n] \in Seq(X) /\ Len(RunLeaf(members)[n]) >= 1
          /\ RunLeaf(members)[n] = <<Runs(members, members[n][2])>>
  BY DEF RunLeaf
<1> HIDE DEF X
<1>3. \A n \in DOMAIN members : call[n] \in Seq(X)
  BY <1>1, <1>2, CallsAreSequences
<1>4. \A n \in DOMAIN members :
          /\ members[n][1] = "both" => call[n] = Then("chain", call[members[n][2]], call[members[n][3]])
          /\ members[n][1] # "both" => call[n] = RunLeaf(members)[n]
  BY <1>1, CallsOf
<1>5. \A n \in DOMAIN members :
          members[n][1] = "both" => t[n] = Then("chain", t[members[n][2]], t[members[n][3]])
  BY CallsOf
<1> DEFINE P == {n \in DOMAIN members : Firsts(call[n]) = t[n]}
<1>6. ASSUME NEW n \in DOMAIN members,
             members[n][1] = "both" => members[n][2] \in P /\ members[n][3] \in P
      PROVE  n \in P
  <2>1. CASE members[n][1] = "both"
    <3> DEFINE a == call[members[n][2]]
               b == call[members[n][3]]
    <3>1. members[n][2] \in DOMAIN members /\ members[n][3] \in DOMAIN members
      BY <2>1, Kinds
    <3>2. call[n] = Then("chain", a, b)
      BY <1>4, <2>1
    <3>3. t[n] = Then("chain", Firsts(a), Firsts(b))
      <4>1. Firsts(a) = t[members[n][2]] /\ Firsts(b) = t[members[n][3]]
        BY <1>6, <2>1
      <4> QED
        BY <1>5, <2>1, <4>1
    <3>4. a \in Seq(X) /\ b \in Seq(X)
      BY <1>3, <3>1
    <3> HIDE DEF a, b
    <3>5. Firsts(Then("chain", a, b)) = Then("chain", Firsts(a), Firsts(b))
      BY <3>4, FirstsOfConcat DEF Then
    <3> QED
      BY <3>2, <3>3, <3>5
  <2>2. CASE members[n][1] # "both"
    <3> DEFINE r == Runs(members, members[n][2])
    <3>1. call[n] = <<r>>
      BY <1>2, <1>4, <2>2
    <3>2. t[n] = <<members[n][2]>>
      BY <2>2, TextsAreSequences
    <3>3. r[1] = members[n][2]
      BY DEF Runs
    <3> HIDE DEF r
    <3>4. Firsts(<<r>>) = <<r[1]>>
      BY DEF Firsts
    <3> QED
      BY <3>1, <3>2, <3>3, <3>4
  <2> QED
    BY <2>1, <2>2
<1> HIDE DEF P
<1>7. DOMAIN members \subseteq P
  BY <1>6, CallInduction
<1>8. Defines(members, h) => Ran(members, h) = t[Plain(h)]
  BY <1>1, <1>7 DEF P, Ran, Defines
<1>9. ~Defines(members, h) => Ran(members, h) = <<>>
  BY <1>1 DEF Ran, Firsts
<1> QED
  BY <1>8, <1>9

\* Members that are kept return what they returned, if they call no others.
Carries(h, from, leaf, to, new) ==
    \A m \in DOMAIN from, n \in DOMAIN to :
        m[1] = h /\ n[1] = h /\ to[n] = from[m] /\ from[m][1] # "both" => new[n] = leaf[m]

\* Kept members return what they returned.
Carried(h, from, t, to, c) ==
    \A m \in DOMAIN from, n \in DOMAIN to :
        m[1] = h /\ n[1] = h /\ to[n] = from[m] => c[n] = t[m]

(* Members of the base return in a merge what they returned, under         *)
(* whatever name they are there.                                           *)
LEMMA OldCalls ==
    ASSUME NEW base, WellFormed(base.members), NEW patch, IsPatch(patch), NEW h, NEW kind,
           NEW leaf, NEW t, IsCalls(t, base.members, leaf, kind),
           NEW new, NEW c, IsCalls(c, Together(base, patch), new, kind),
           Carries(h, base.members, leaf, Together(base, patch), new)
    PROVE  Carried(h, base.members, t, Together(base, patch), c)
<1> DEFINE T == Together(base, patch)
           bm == base.members
           P == {x \in DOMAIN bm : x[1] = h /\ x[2] # "" => c[x] = t[x]}
<1>1. \A x \in DOMAIN bm : x[2] # "" => x \in DOMAIN T /\ T[x] = bm[x]
  <2>1. IsFiniteSet(DOMAIN bm) /\ IsFiniteSet(DOMAIN patch.members) /\ DOMAIN patch.members \subseteq Names
    BY DEF WellFormed, IsPatch
  <2>2. \A x \in DOMAIN bm : x[2] # "" =>
            /\ x \notin Prevs(base, patch) \cup News(base, patch) \cup Wrappers(base, patch)
            /\ x \notin DOMAIN patch.members /\ x \in DOMAIN T
    BY <2>1, NewNames
  <2>3. ASSUME NEW x \in DOMAIN bm, x[2] # ""
        PROVE  T[x] = bm[x]
    BY <2>2, <2>3, TogetherOldBase
  <2> QED
    BY <2>2, <2>3
<1>2. \A x \in DOMAIN bm :
          /\ bm[x][1] = "both" => t[x] = Then(kind, t[bm[x][2]], t[bm[x][3]])
          /\ bm[x][1] # "both" => t[x] = leaf[x]
  BY CallsOf
<1>3. \A x \in DOMAIN T :
          /\ T[x][1] = "both" => c[x] = Then(kind, c[T[x][2]], c[T[x][3]])
          /\ T[x][1] # "both" => c[x] = new[x]
  BY CallsOf
<1>4. \A x \in DOMAIN bm : bm[x][1] = "both" =>
          /\ bm[x][2] \in DOMAIN bm /\ bm[x][3] \in DOMAIN bm
          /\ bm[x][2][2] # "" /\ bm[x][3][2] # ""
          /\ bm[x][2][1] = x[1] /\ bm[x][3][1] = x[1]
  BY Kinds
<1>5. \A x \in DOMAIN bm, y \in DOMAIN T :
          x[1] = h /\ y[1] = h /\ T[y] = bm[x] /\ bm[x][1] # "both" => new[y] = leaf[x]
  BY DEF Carries
<1> HIDE DEF T, bm
<1>6. ASSUME NEW x \in DOMAIN bm, x[1] = h, NEW y \in DOMAIN T, y[1] = h, T[y] = bm[x],
             bm[x][1] = "both" => bm[x][2] \in P /\ bm[x][3] \in P
      PROVE  c[y] = t[x]
  <2>1. CASE bm[x][1] = "both"
    <3> DEFINE a == bm[x][2]
               b == bm[x][3]
    <3>1. c[a] = t[a] /\ c[b] = t[b]
      BY <1>4, <1>6, <2>1
    <3>2. t[x] = Then(kind, t[a], t[b])
      BY <1>2, <2>1
    <3>3. T[y][1] = "both" /\ T[y][2] = a /\ T[y][3] = b
      BY <1>6, <2>1
    <3> HIDE DEF a, b
    <3>4. c[y] = Then(kind, c[a], c[b])
      BY <1>3, <3>3
    <3> QED
      BY <3>1, <3>2, <3>4
  <2>2. CASE bm[x][1] # "both"
    <3>1. T[y][1] # "both"
      BY <1>6, <2>2
    <3>2. c[y] = new[y]
      BY <1>3, <3>1
    <3>3. t[x] = leaf[x]
      BY <1>2, <2>2
    <3>4. new[y] = leaf[x]
      BY <1>5, <1>6, <2>2
    <3> QED
      BY <3>2, <3>3, <3>4
  <2> QED
    BY <2>1, <2>2
<1>7. ASSUME NEW x \in DOMAIN bm,
             bm[x][1] = "both" => bm[x][2] \in P /\ bm[x][3] \in P
      PROVE  x \in P
  BY <1>1, <1>6, <1>7
<1> HIDE DEF P
<1>8. DOMAIN bm \subseteq P
  BY <1>7, CallInduction DEF bm
<1>9. \A m \in DOMAIN bm : bm[m][1] = "both" => bm[m][2] \in P /\ bm[m][3] \in P
  BY <1>4, <1>8
<1>10. \A m \in DOMAIN bm, n \in DOMAIN T : m[1] = h /\ n[1] = h /\ T[n] = bm[m] => c[n] = t[m]
  BY <1>6, <1>9
<1> QED
  BY <1>10 DEF bm, T, Carried

\* What the hook of the base returns and what that of the patch returns, put
\* together if the hook is composed, or one of them.
PutTogether(base, patch, kind, h, t, own, c) ==
    /\ Plain(h) \in DOMAIN base.members \ DOMAIN patch.members => c[Plain(h)] = t[Plain(h)]
    /\ Plain(h) \in DOMAIN patch.members /\ h \in Composing(base, patch) =>
           c[Plain(h)] = Then(kind, t[Plain(h)], own[Plain(h)])
    /\ Plain(h) \in DOMAIN patch.members /\ h \notin Composing(base, patch) =>
           c[Plain(h)] = own[Plain(h)]

(* What the hook of a merged class returns: what that of the base returns  *)
(* and what that of the patch returns, put together, or one of them.       *)
LEMMA TogetherCalls ==
    ASSUME NEW base, WellFormed(base.members), NEW patch, IsPatch(patch), NEW h \in Composable, NEW kind,
           NEW leaf, NEW t, IsCalls(t, base.members, leaf, kind), NEW own,
           NEW new, NEW c, IsCalls(c, Together(base, patch), new, kind),
           Carries(h, base.members, leaf, Together(base, patch), new),
           Carries(h, patch.members, own, Together(base, patch), new)
    PROVE  /\ Plain(h) \in DOMAIN Together(base, patch) <=> Plain(h) \in Known(base, patch)
           /\ PutTogether(base, patch, kind, h, t, own, c)
<1> DEFINE T == Together(base, patch)
           n == Plain(h)
           bm == base.members
           pm == patch.members
<1>0. \A x \in DOMAIN bm, y \in DOMAIN T : x[1] = h /\ y[1] = h /\ T[y] = bm[x] => c[y] = t[x]
  <2>1. Carried(h, base.members, t, Together(base, patch), c)
    <3> HIDE DEF T, bm, pm, n
    <3> QED
      BY OldCalls
  <2> QED
    BY <2>1 DEF Carried
<1>1. n[1] = h /\ n[2] = "" /\ h \notin {"ensemble_spec", "model_spec"}
  BY PlainHook, PlainRole DEF Composable
<1>2. n \notin Dropped(pm)
  BY <1>1, DroppedFacts, PlainHook
<1>3. n \notin Prevs(base, patch) \cup News(base, patch)
  <2>1. IsFiniteSet(DOMAIN bm) /\ IsFiniteSet(DOMAIN pm) /\ DOMAIN pm \subseteq Names
    BY DEF WellFormed, IsPatch
  <2>2. (\A x \in Prevs(base, patch) : x[2] = "prev") /\ (\A x \in News(base, patch) : x[2] = "new")
    BY <2>1, NewNames
  <2> QED
    BY <1>1, <2>2
<1>4. n \in Wrappers(base, patch) <=> h \in Composing(base, patch)
  BY PlainHook DEF Wrappers
<1>5. h \in Composing(base, patch) => n \in DOMAIN bm /\ n \in DOMAIN pm
  BY ComposingFacts
<1>6. n \in DOMAIN T <=> n \in Known(base, patch)
  BY <1>2, <1>3, <1>4, <1>5, TogetherNames DEF Known
<1>7. ASSUME n \in Known(base, patch), h \notin Composing(base, patch)
      PROVE  T[n] = IF n \in DOMAIN pm THEN pm[n] ELSE bm[n]
  <2>1. n \in DOMAIN T
    BY <1>6, <1>7
  <2>2. n \notin Prevs(base, patch) \cup News(base, patch) \cup Wrappers(base, patch)
    BY <1>3, <1>4, <1>7
  <2> HIDE DEF n
  <2> QED
    BY <2>1, <2>2, TogetherOld
<1>8. \A x \in DOMAIN T :
          /\ T[x][1] = "both" => c[x] = Then(kind, c[T[x][2]], c[T[x][3]])
          /\ T[x][1] # "both" => c[x] = new[x]
  BY CallsOf
<1>9. \A x \in DOMAIN pm : pm[x][1] = "own"
  BY DEF IsPatch
<1>10. ASSUME NEW x \in DOMAIN T, x[1] = h, n \in DOMAIN pm, T[x] = pm[n]
       PROVE  c[x] = own[n]
  <2>1. \A y \in DOMAIN pm, z \in DOMAIN T :
            y[1] = h /\ z[1] = h /\ T[z] = pm[y] /\ pm[y][1] # "both" => new[z] = own[y]
    BY DEF Carries
  <2> HIDE DEF n, T, pm
  <2>2. T[x][1] # "both" /\ pm[n][1] # "both"
    BY <1>9, <1>10
  <2> QED
    BY <1>1, <1>8, <1>10, <2>1, <2>2
<1> HIDE DEF n
<1>11. ASSUME n \in DOMAIN bm \ DOMAIN pm
       PROVE  c[n] = t[n]
  <2>1. n \in DOMAIN T /\ T[n] = bm[n]
    BY <1>5, <1>6, <1>7, <1>11 DEF Known
  <2> HIDE DEF T, bm, pm
  <2> QED
    BY <1>0, <1>1, <1>11, <2>1
<1>12. ASSUME n \in DOMAIN pm, h \notin Composing(base, patch)
       PROVE  c[n] = own[n]
  <2>1. n \in DOMAIN T /\ T[n] = pm[n]
    BY <1>6, <1>7, <1>12 DEF Known
  <2> QED
    BY <1>1, <1>10, <1>12, <2>1
<1>13. ASSUME h \in Composing(base, patch)
       PROVE  c[n] = Then(kind, t[n], own[n])
  <2> DEFINE p == Prev(base, patch, h)
             q == New(base, patch, h)
  <2>1. /\ p \in DOMAIN T /\ q \in DOMAIN T /\ n \in DOMAIN T
        /\ T[p] = bm[n] /\ T[q] = pm[n] /\ T[n] = <<"both", p, q>>
    BY <1>13, TogetherNew DEF n
  <2>2. n \in DOMAIN bm /\ n \in DOMAIN pm
    BY <1>5, <1>13
  <2>3. p[1] = h /\ q[1] = h
    BY UniqueNames DEF Prev, New
  <2> HIDE DEF p, q, T, bm, pm
  <2>4. c[p] = t[n]
    BY <1>0, <1>1, <2>1, <2>2, <2>3
  <2>5. c[q] = own[n]
    BY <1>10, <2>1, <2>2, <2>3
  <2>6. c[n] = Then(kind, c[p], c[q])
    BY <1>8, <2>1
  <2> QED
    BY <2>4, <2>5, <2>6
<1> QED
  BY <1>6, <1>11, <1>12, <1>13 DEF n, PutTogether

(* Freezing parameters changes no other hook.                              *)
LEMMA FrozenCalls ==
    ASSUME NEW members, WellFormed(members), NEW params, NEW h, h # "param_candidates", NEW kind,
           NEW new, NEW t, IsCalls(t, members, new, kind),
           NEW c, IsCalls(c, Freeze(members, params), new, kind)
    PROVE  \A n \in DOMAIN Freeze(members, params) : n[1] = h => c[n] = t[n]
<1> DEFINE F == Freeze(members, params)
           P == {x \in DOMAIN F : x[1] = h => c[x] = t[x]}
<1>1. DOMAIN F \subseteq DOMAIN members /\ \A n \in DOMAIN F : n # Pc => F[n] = members[n]
  BY FreezeFacts
<1>2. WellFormed(F)
  BY FreezeWellFormed
<1>3. \A x \in DOMAIN F : F[x][1] = "both" =>
          /\ F[x][2] \in DOMAIN F /\ F[x][3] \in DOMAIN F
          /\ F[x][2][1] = x[1] /\ F[x][3][1] = x[1]
  BY <1>2, Kinds
<1>4. Pc[1] # h
  BY PlainHook DEF Pc
<1>5. \A x \in DOMAIN members :
          /\ members[x][1] = "both" => t[x] = Then(kind, t[members[x][2]], t[members[x][3]])
          /\ members[x][1] # "both" => t[x] = new[x]
  BY CallsOf
<1>6. \A x \in DOMAIN F :
          /\ F[x][1] = "both" => c[x] = Then(kind, c[F[x][2]], c[F[x][3]])
          /\ F[x][1] # "both" => c[x] = new[x]
  BY CallsOf
<1> HIDE DEF F
<1>7. ASSUME NEW x \in DOMAIN F, F[x][1] = "both" => F[x][2] \in P /\ F[x][3] \in P
      PROVE  x \in P
  <2> SUFFICES ASSUME x[1] = h PROVE c[x] = t[x]
    OBVIOUS
  <2>1. x \in DOMAIN members /\ F[x] = members[x]
    BY <1>1, <1>4
  <2>2. CASE F[x][1] = "both"
    <3>1. c[F[x][2]] = t[F[x][2]] /\ c[F[x][3]] = t[F[x][3]]
      BY <1>3, <1>7, <2>2
    <3> QED
      BY <1>5, <1>6, <2>1, <2>2, <3>1
  <2>3. CASE F[x][1] # "both"
    BY <1>5, <1>6, <2>1, <2>3
  <2> QED
    BY <2>2, <2>3
<1> HIDE DEF P
<1>8. DOMAIN F \subseteq P
  BY <1>2, <1>7, CallInduction
<1> QED
  BY <1>8 DEF P, F

(* The same for a merge, parameters frozen if it is about another hook.    *)
LEMMA MergeCalls ==
    ASSUME NEW base, WellFormed(base.members), NEW patch, IsPatch(patch), NEW h \in Composable, NEW kind,
           h # "param_candidates" \/ patch.frozen = NoParams,
           NEW leaf, NEW t, IsCalls(t, base.members, leaf, kind), NEW own,
           NEW new, NEW c, IsCalls(c, Merge(base, patch).members, new, kind),
           Carries(h, base.members, leaf, Merge(base, patch).members, new),
           Carries(h, patch.members, own, Merge(base, patch).members, new)
    PROVE  /\ Plain(h) \in DOMAIN Merge(base, patch).members <=> Plain(h) \in Known(base, patch)
           /\ PutTogether(base, patch, kind, h, t, own, c)
<1> DEFINE T == Together(base, patch)
           F == Freeze(T, patch.frozen)
           n == Plain(h)
<1>1. Merge(base, patch).members = F
  BY DEF Merge
<1>2. WellFormed(T)
  BY TogetherWellFormed
<1>3. PICK d : IsCalls(d, T, new, kind)
  BY <1>2, CallsExist
<1>4. \A x \in DOMAIN T : x[1] = h => x \in DOMAIN F /\ F[x] = T[x]
  <2>1. CASE patch.frozen = NoParams
    BY <2>1, FreezeFacts
  <2>2. CASE h # "param_candidates"
    <3>1. Pc[1] # h
      BY <2>2, PlainHook DEF Pc
    <3>2. /\ \A x \in DOMAIN T : x[1] # "param_candidates" \/ x[2] = "" => x \in DOMAIN F
          /\ \A x \in DOMAIN F : x # Pc => F[x] = T[x]
      BY FreezeFacts
    <3> HIDE DEF T, F
    <3> QED
      BY <2>2, <3>1, <3>2
  <2> QED
    BY <2>1, <2>2
<1>5. Carries(h, base.members, leaf, T, new) /\ Carries(h, patch.members, own, T, new)
  <2> HIDE DEF T, F
  <2> QED
    BY <1>1, <1>4 DEF Carries
<1>6. /\ n \in DOMAIN T <=> n \in Known(base, patch)
      /\ PutTogether(base, patch, kind, h, t, own, d)
  <2>1. IsCalls(d, Together(base, patch), new, kind)
    BY <1>3
  <2>2. Carries(h, base.members, leaf, Together(base, patch), new)
    BY <1>5
  <2>3. Carries(h, patch.members, own, Together(base, patch), new)
    BY <1>5
  <2>4. /\ Plain(h) \in DOMAIN Together(base, patch) <=> Plain(h) \in Known(base, patch)
        /\ PutTogether(base, patch, kind, h, t, own, d)
    <3> HIDE DEF T, F, n
    <3> QED
      BY <2>1, <2>2, <2>3, TogetherCalls
  <2> QED
    BY <2>4
<1>7. DOMAIN F \subseteq DOMAIN T
  BY FreezeFacts
<1>8. \A x \in DOMAIN F : x[1] = h => c[x] = d[x]
  <2>1. CASE h # "param_candidates"
    <3>1. IsCalls(c, Freeze(T, patch.frozen), new, kind)
      BY <1>1
    <3>2. PICK q : q = patch.frozen
      OBVIOUS
    <3>3. IsCalls(c, Freeze(T, q), new, kind)
      BY <3>1, <3>2
    <3> HIDE DEF T
    <3>4. \A x \in DOMAIN Freeze(T, q) : x[1] = h => c[x] = d[x]
      BY <1>2, <1>3, <2>1, <3>3, FrozenCalls
    <3> QED
      BY <3>2, <3>4
  <2>2. CASE patch.frozen = NoParams
    <3>1. F = T
      BY <2>2, FreezeFacts
    <3>2. WellFormed(T) /\ IsCalls(c, T, new, kind)
      BY <1>1, <1>2, <3>1
    <3> HIDE DEF F, T
    <3>3. \A x \in DOMAIN T : c[x] = d[x]
      BY <1>3, <3>2, OneCalls
    <3> QED
      BY <3>1, <3>3
  <2> QED
    BY <2>1, <2>2
<1>9. n[1] = h
  BY PlainHook
<1>10. Known(base, patch) = DOMAIN base.members \cup DOMAIN patch.members
  BY DEF Known
<1>11. n \in DOMAIN F <=> n \in DOMAIN T
  BY <1>4, <1>7, <1>9
<1>12. n \in DOMAIN F => c[n] = d[n]
  BY <1>8, <1>9
<1>13. n \in DOMAIN patch.members \cup DOMAIN base.members => n \in DOMAIN F
  BY <1>6, <1>10, <1>11
<1> HIDE DEF n, F, T
<1>14. PutTogether(base, patch, kind, h, t, own, c)
  BY <1>6, <1>12, <1>13 DEF PutTogether, n
<1> QED
  BY <1>1, <1>6, <1>11, <1>14 DEF n

\* The hooks whose versions run one after the other.
Chained == {"preprocess", "postprocess_predictions"}

(* Texts are carried.                                                      *)
LEMMA TextsAreCarried ==
    ASSUME NEW h, NEW from, NEW to
    PROVE  Carries(h, from, TextLeaf(from), to, TextLeaf(to))
  BY DEF Carries, TextLeaf

(* One row more, for what runs.                                            *)
LEMMA MergeRan ==
    ASSUME CompositionAssumption, NEW base, WellFormed(base.members),
           NEW p \in Patches, NEW frozen, NEW h \in Chained
    PROVE  LET own == <<p.members[Plain(h)]>>
               ran == Ran(Merge(base, Source(p, frozen)).members, h)
               old == Ran(base.members, h)
           IN  /\ ~Defines(p.members, h) => ran = old
               /\ Defines(p.members, h) /\ (h \in p.override \/ old = own) => ran = own
               /\ Defines(p.members, h) /\ h \notin p.override /\ old # own =>
                      ran = Then("chain", old, own)
<1> DEFINE patch == Source(p, frozen)
           n == Plain(h)
           x == p.members[n]
           bm == base.members
           T == Together(base, patch)
           F == Freeze(T, frozen)
           H == Composing(base, patch)
<1>1. /\ IsPatch(patch) /\ DOMAIN patch.members = DOMAIN p.members
      /\ patch.override = p.override /\ patch.frozen = frozen
      /\ n \in DOMAIN p.members => patch.members[n] = <<"own", x>>
  BY SourceIsPatch, SourceFacts
<1>2. Merge(base, patch).members = F
  BY <1>1 DEF Merge
<1>3. WellFormed(F)
  BY <1>1, TogetherWellFormed, FreezeWellFormed
<1>4. PICK t : IsCalls(t, bm, TextLeaf(bm), "chain")
  BY CallsExist
<1>5. PICK c : IsCalls(c, F, TextLeaf(F), "chain")
  BY <1>3, CallsExist
<1>6. h \in Composable /\ h # "param_candidates"
  BY DEF Chained, Composable
<1>7. /\ n \in DOMAIN F <=> n \in Known(base, patch)
      /\ PutTogether(base, patch, "chain", h, t, TextLeaf(patch.members), c)
  <2>1. /\ Carries(h, base.members, TextLeaf(bm), Merge(base, patch).members, TextLeaf(F))
        /\ Carries(h, patch.members, TextLeaf(patch.members), Merge(base, patch).members, TextLeaf(F))
    BY <1>2, TextsAreCarried
  <2>2. IsCalls(c, Merge(base, patch).members, TextLeaf(F), "chain")
    BY <1>2, <1>5
  <2> DEFINE l == TextLeaf(F)
             own == TextLeaf(patch.members)
             old == TextLeaf(bm)
  <2>3. IsCalls(t, base.members, old, "chain")
    BY <1>4
  <2> HIDE DEF l, own, old, F, patch
  <2>4. /\ Plain(h) \in DOMAIN Merge(base, patch).members <=> Plain(h) \in Known(base, patch)
        /\ PutTogether(base, patch, "chain", h, t, own, c)
    BY <1>1, <1>6, <2>1, <2>2, <2>3, MergeCalls DEF l, own, old
  <2> QED
    BY <1>2, <2>4 DEF own
<1>8. n[1] # "param_candidates"
  BY PlainHook DEF Chained
<1>9. n \in DOMAIN patch.members => TextLeaf(patch.members)[n] = <<x>>
  BY <1>1 DEF TextLeaf
<1>10. /\ n \in DOMAIN bm \ DOMAIN patch.members => c[n] = t[n]
       /\ n \in DOMAIN patch.members /\ h \in H => c[n] = Then("chain", t[n], <<x>>)
       /\ n \in DOMAIN patch.members /\ h \notin H => c[n] = <<x>>
  BY <1>7, <1>9 DEF PutTogether
<1>11. /\ n \notin DOMAIN F => Ran(F, h) = <<>>
       /\ n \in DOMAIN F => Ran(F, h) = c[n]
  BY <1>3, <1>5, RanIs DEF Defines
<1>12. /\ n \notin DOMAIN bm => Ran(bm, h) = <<>>
       /\ n \in DOMAIN bm => Ran(bm, h) = t[n]
  BY <1>4, RanIs DEF Defines
<1>13. h \in H <=> /\ n \in DOMAIN bm /\ n \in DOMAIN patch.members
                   /\ bm[n] # patch.members[n] /\ h \notin p.override
  BY <1>1 DEF Composing, Collisions, Chained, Composable
<1>14. n \in DOMAIN bm => (t[n] = <<x>> <=> bm[n] = <<"own", x>>)
  <2> SUFFICES ASSUME n \in DOMAIN bm PROVE t[n] = <<x>> <=> bm[n] = <<"own", x>>
    OBVIOUS
  <2>1. /\ bm[n][1] = "both" => Len(t[n]) >= 2
        /\ bm[n][1] # "both" => t[n] = <<bm[n][2]>>
    BY <1>4, TextsAreSequences
  <2>2. \/ bm[n][1] = "both"
        \/ bm[n][1] = "own" /\ bm[n] = <<"own", bm[n][2]>>
    BY <1>8, OwnMember
  <2>3. CASE bm[n][1] = "both"
    <3>1. t[n] # <<x>>
      <4> SUFFICES ASSUME t[n] = <<x>> PROVE FALSE
        OBVIOUS
      <4> HIDE DEF bm, n, x
      <4>1. Len(t[n]) = 1
        OBVIOUS
      <4> QED
        BY <2>1, <2>3, <4>1
    <3>2. bm[n] # <<"own", x>>
      BY <2>3
    <3> QED
      BY <3>1, <3>2
  <2>4. CASE bm[n][1] = "own" /\ bm[n] = <<"own", bm[n][2]>>
    <3>1. t[n] = <<bm[n][2]>>
      BY <2>1, <2>4
    <3> DEFINE y == bm[n][2]
    <3>2. t[n] = <<y>> /\ bm[n] = <<"own", y>>
      BY <2>4, <3>1
    <3> HIDE DEF y, bm, x, n
    <3>3. <<y>> = <<x>> <=> y = x
      OBVIOUS
    <3>4. <<"own", y>> = <<"own", x>> <=> y = x
      OBVIOUS
    <3> QED
      BY <3>2, <3>3, <3>4
  <2> QED
    BY <2>2, <2>3, <2>4
<1> DEFINE own == <<x>>
           ran == Ran(F, h)
           old == Ran(bm, h)
<1>16. n \in Known(base, patch) <=> n \in DOMAIN bm \/ n \in DOMAIN p.members
  BY <1>1 DEF Known
<1>17. own # <<>>
  OBVIOUS
<1>18. Then("chain", <<>>, own) = own
  BY DEF Then
<1> HIDE DEF own, ran, old, F, T, H, patch, bm, x, n
<1>19. n \notin DOMAIN p.members => ran = old
  BY <1>1, <1>7, <1>10, <1>11, <1>12, <1>16 DEF ran, old
<1>20. n \in DOMAIN p.members => ran = c[n]
  BY <1>7, <1>11, <1>16 DEF ran
<1>21. n \in DOMAIN p.members /\ h \in p.override => ran = own
  BY <1>1, <1>10, <1>13, <1>20 DEF own
<1>22. n \in DOMAIN p.members /\ old = own => ran = own
  <2> SUFFICES ASSUME n \in DOMAIN p.members, old = own PROVE ran = own
    OBVIOUS
  <2>1. n \in DOMAIN bm /\ t[n] = own
    BY <1>12, <1>17 DEF old
  <2>2. bm[n] = patch.members[n]
    BY <1>1, <1>14, <2>1 DEF own
  <2> QED
    BY <1>1, <1>10, <1>13, <1>20, <2>2 DEF own
<1>23. n \in DOMAIN p.members /\ h \notin p.override /\ old # own => ran = Then("chain", old, own)
  <2> SUFFICES ASSUME n \in DOMAIN p.members, h \notin p.override, old # own
               PROVE  ran = Then("chain", old, own)
    OBVIOUS
  <2>1. CASE n \in DOMAIN bm
    <3>1. old = t[n]
      BY <1>12, <2>1 DEF old
    <3>2. bm[n] # patch.members[n]
      BY <1>1, <1>14, <2>1, <3>1 DEF own
    <3>3. h \in H
      BY <1>1, <1>13, <2>1, <3>2
    <3> QED
      BY <1>1, <1>10, <1>20, <3>1, <3>3 DEF own
  <2>2. CASE n \notin DOMAIN bm
    <3>1. old = <<>>
      BY <1>12, <2>2 DEF old
    <3>2. ran = own
      BY <1>1, <1>10, <1>13, <1>20, <2>2 DEF own
    <3> QED
      BY <1>18, <3>1, <3>2
  <2> QED
    BY <2>1, <2>2
<1> QED
  BY <1>2, <1>19, <1>21, <1>22, <1>23 DEF own, ran, old, F, T, patch, bm, x, n, Defines

\* What Stacked computes, row by row.
IsStack(s, ls, h) ==
    s = [k \in 0..Len(ls) |->
            IF k = 0 THEN <<>>
            ELSE IF ~ls[k].valid \/ ~Defines(ls[k].patch.members, h) THEN s[k - 1]
            ELSE LET own == <<ls[k].patch.members[Plain(h)]>>
                 IN  IF h \in ls[k].patch.override \/ s[k - 1] = own THEN own
                     ELSE s[k - 1] \o own]

(* The texts that run after each row of a replay are stacked.              *)
LEMMA RanIsStack ==
    ASSUME CompositionAssumption, RowsOK(layers), NEW f, IsReplay(f, layers), NEW h \in Chained
    PROVE  LET s == [k \in 0..Len(layers) |-> Ran(f[k].members, h)]
           IN  IsStack(s, layers, h)
<1> DEFINE N == Len(layers)
           s == [k \in 0..N |-> Ran(f[k].members, h)]
           row(k) == IF k = 0 THEN <<>>
                     ELSE IF ~layers[k].valid \/ ~Defines(layers[k].patch.members, h) THEN s[k - 1]
                     ELSE LET own == <<layers[k].patch.members[Plain(h)]>>
                          IN  IF h \in layers[k].patch.override \/ s[k - 1] = own THEN own
                              ELSE s[k - 1] \o own
<1>1. N \in Nat /\ \A k \in 1..N : IsRow(layers[k])
  BY RowsFacts
<1>2. \A k \in 0..N : WellFormed(f[k].members)
  BY ReplayWellFormed
<1>3. s[0] = row(0)
  <2>1. f[0] = NoBase
    BY <1>1, ReplaySteps
  <2>2. Ran(NoBase.members, h) = <<>>
    BY NothingDefined DEF Ran, Firsts, Chain
  <2> QED
    BY <1>1, <2>1, <2>2
<1>4. ASSUME NEW k \in 1..N
      PROVE  s[k] = row(k)
  <2> DEFINE base == f[k - 1]
             p == layers[k].patch
             own == <<p.members[Plain(h)]>>
  <2>1. k - 1 \in 0..N /\ k \in 0..N
    BY <1>1
  <2>2. s[k - 1] = Ran(base.members, h) /\ s[k] = Ran(f[k].members, h) /\ WellFormed(base.members)
    BY <1>2, <2>1
  <2>3. f[k] = Replayed(base, layers[k]) /\ p \in Patches
    <3>1. IsRow(layers[k]) /\ f[k] = Replayed(base, layers[k])
      BY <1>1, ReplaySteps
    <3> QED
      BY <3>1 DEF IsRow
  <2>4. CASE ~layers[k].valid
    BY <2>2, <2>3, <2>4 DEF Replayed
  <2>5. CASE layers[k].valid
    <3>1. f[k] = Merge(base, Source(p, layers[k].frozen))
      BY <2>3, <2>5 DEF Replayed
    <3>2. /\ ~Defines(p.members, h) => s[k] = s[k - 1]
          /\ Defines(p.members, h) /\ (h \in p.override \/ s[k - 1] = own) => s[k] = own
          /\ Defines(p.members, h) /\ h \notin p.override /\ s[k - 1] # own => s[k] = Then("chain", s[k - 1], own)
      <4> HIDE DEF own, p, base, s
      <4>1. LET ran == Ran(Merge(base, Source(p, layers[k].frozen)).members, h)
                old == Ran(base.members, h)
            IN  /\ ~Defines(p.members, h) => ran = old
                /\ Defines(p.members, h) /\ (h \in p.override \/ old = own) => ran = own
                /\ Defines(p.members, h) /\ h \notin p.override /\ old # own => ran = Then("chain", old, own)
        BY <2>2, <2>3, MergeRan DEF own
      <4> QED
        BY <2>2, <3>1, <4>1
    <3>3. row(k) = IF ~Defines(p.members, h) THEN s[k - 1]
                   ELSE IF h \in p.override \/ s[k - 1] = own THEN own ELSE Then("chain", s[k - 1], own)
      <4>1. k # 0
        BY <1>1
      <4> HIDE DEF own, p, s
      <4> QED
        BY <2>5, <4>1 DEF Then, own, p
    <3> HIDE DEF row, s, own, p, base
    <3> QED
      BY <3>2, <3>3
  <2> QED
    BY <2>4, <2>5
<1>5. \A k \in 0..N : s[k] = row(k)
  <2>1. \A k \in 0..N : k = 0 \/ k \in 1..N
    BY <1>1
  <2> HIDE DEF s, row
  <2> QED
    BY <1>3, <1>4, <2>1
<1>6. s = [k \in 0..N |-> row(k)]
  BY <1>5
<1> QED
  BY <1>6 DEF IsStack

(* There is one stack.                                                     *)
LEMMA StackIsUnique ==
    ASSUME NEW ls, Len(ls) \in Nat, NEW h, NEW s, IsStack(s, ls, h), NEW u, IsStack(u, ls, h)
    PROVE  s[Len(ls)] = u[Len(ls)]
<1> DEFINE S == {k \in Nat : k <= Len(ls) => s[k] = u[k]}
           after(prev, k) == IF ~ls[k].valid \/ ~Defines(ls[k].patch.members, h) THEN prev
                             ELSE LET own == <<ls[k].patch.members[Plain(h)]>>
                                  IN  IF h \in ls[k].patch.override \/ prev = own THEN own
                                      ELSE prev \o own
<1>1. /\ s = [k \in 0..Len(ls) |-> IF k = 0 THEN <<>> ELSE after(s[k - 1], k)]
      /\ u = [k \in 0..Len(ls) |-> IF k = 0 THEN <<>> ELSE after(u[k - 1], k)]
  BY DEF IsStack
<1> HIDE DEF after
<1>2. 0 \in S
  BY <1>1
<1>3. ASSUME NEW k \in Nat, k \in S
      PROVE  k + 1 \in S
  <2> SUFFICES ASSUME k + 1 <= Len(ls) PROVE s[k + 1] = u[k + 1]
    OBVIOUS
  <2>1. k + 1 \in 0..Len(ls) /\ k + 1 # 0 /\ (k + 1) - 1 = k /\ s[k] = u[k]
    BY <1>3
  <2>2. s[k + 1] = after(s[(k + 1) - 1], k + 1) /\ u[k + 1] = after(u[(k + 1) - 1], k + 1)
    BY <1>1, <2>1
  <2> QED
    BY <2>1, <2>2
<1> HIDE DEF S
<1>4. Len(ls) \in S
  BY <1>2, <1>3, Induction
<1> QED
  BY <1>4 DEF S

(* The layers accumulate in a baseline that its rows reproduce.            *)
LEMMA InvAccumulates ==
    ASSUME CompositionAssumption, CompositionInv
    PROVE  LayersAccumulate
<1>1. RowsOK(layers) /\ best = Replay(layers) /\ Len(layers) \in Nat
  BY RowsFacts DEF CompositionInv, ReplayReproduces
<1>2. PICK f : IsReplay(f, layers) /\ Replay(layers) = f[Len(layers)]
  BY <1>1, ReplayIs
<1>3. ASSUME NEW h \in Chained
      PROVE  Ran(best.members, h) = Stacked(h)
  <2> DEFINE s == [k \in 0..Len(layers) |-> Ran(f[k].members, h)]
  <2>1. IsStack(s, layers, h)
    BY <1>1, <1>2, RanIsStack
  <2>2. s[Len(layers)] = Ran(best.members, h)
    BY <1>1, <1>2
  <2> HIDE DEF s
  <2> DEFINE u == CHOOSE u : IsStack(u, layers, h)
  <2>3. IsStack(u, layers, h)
    BY <2>1
  <2>4. Stacked(h) = u[Len(layers)]
    BY DEF Stacked, IsStack
  <2> HIDE DEF u
  <2> QED
    BY <1>1, <2>1, <2>2, <2>3, <2>4, StackIsUnique
<1> QED
  BY <1>3 DEF LayersAccumulate, Ran, Firsts, Chained

\* No layer is lost and none runs twice: what the baseline runs before and
\* after the model is what the valid rows define, in their order, each patch
\* once, however many layers compose the hook.
THEOREM LayersRunOnce == Spec => []LayersAccumulate
<1>1. CompositionInv => LayersAccumulate
  BY CompositionAssumption, InvAccumulates
<1> QED
  BY <1>1, CompositionInvariant, PTL

-----------------------------------------------------------------------------
(* A merge does what was measured.                                         *)

\* Texts that read the shared member stand in a class that has it.
SharedOK(members) ==
    \A n \in DOMAIN members :
        members[n][1] = "own" /\ members[n][2] \in Reads => Defines(members, Shared)

\* A patch on a baseline, where neither defines the other's member anew.
Fits(base, patch) ==
    /\ WellFormed(base.members) /\ SharedOK(base.members)
    /\ IsPatch(patch) /\ SharedOK(patch.members)
    /\ ~Shadows(base, patch)

(* Sources have what their texts read.                                     *)
LEMMA SourceShared ==
    ASSUME CompositionAssumption, NEW p \in Patches, NEW frozen
    PROVE  SharedOK(Source(p, frozen).members)
<1> DEFINE m == Source(p, frozen).members
<1>1. DOMAIN m = DOMAIN p.members /\ \A n \in DOMAIN p.members : m[n] = <<"own", p.members[n]>>
  BY SourceFacts
<1>2. \A n \in DOMAIN p.members : p.members[n] \in Reads => Plain(Shared) \in DOMAIN p.members
  BY DEF CompositionAssumption
<1> HIDE DEF m
<1>3. \A n \in DOMAIN m : m[n][2] \in Reads => Plain(Shared) \in DOMAIN m
  BY <1>1, <1>2
<1> QED
  BY <1>3 DEF SharedOK, Defines, m

(* A patch is well formed.                                                 *)
LEMMA PatchWellFormed ==
    ASSUME NEW patch, IsPatch(patch)
    PROVE  WellFormed(patch.members)
<1> DEFINE m == patch.members
           rank == [n \in DOMAIN m |-> 0]
<1>1. IsFiniteSet(DOMAIN m) /\ \A n \in DOMAIN m : m[n][1] = "own" /\ m[n] = <<"own", m[n][2]>>
  BY DEF IsPatch
<1>2. rank \in [DOMAIN m -> 0..0] /\ 0 \in Nat
  OBVIOUS
<1>3. Ranked(m, rank)
  BY <1>1 DEF Ranked, RankedAt
<1> HIDE DEF m, rank
<1>4. WellFormed(m)
  BY <1>1, <1>2, <1>3 DEF WellFormed
<1> QED
  BY <1>4 DEF m

(* The shared member is that of the base or the patch, which are the same  *)
(* if both have one.                                                       *)
LEMMA SharedKept ==
    ASSUME CompositionAssumption, NEW base, NEW patch
    PROVE  LET F == Merge(base, patch).members
               s == Plain(Shared)
           IN  /\ s \in DOMAIN F <=> s \in Known(base, patch)
               /\ s \in DOMAIN patch.members => F[s] = patch.members[s]
               /\ s \in DOMAIN base.members \ DOMAIN patch.members => F[s] = base.members[s]
<1> DEFINE T == Together(base, patch)
           F == Freeze(T, patch.frozen)
           s == Plain(Shared)
           W == Prevs(base, patch) \cup News(base, patch) \cup Wrappers(base, patch)
<1>1. Merge(base, patch).members = F
  BY DEF Merge
<1>2. s[1] = Shared /\ s[2] = "" /\ Shared \notin Hooks
  BY PlainHook, PlainRole DEF CompositionAssumption
<1>3. Shared \notin Composable /\ Shared # "param_candidates" /\ Shared \notin {"ensemble_spec", "model_spec"}
  BY <1>2 DEF Hooks, Composable
<1>4. s \notin W
  <2>1. \A g \in Composing(base, patch) : Prev(base, patch, g)[2] = "prev" /\ New(base, patch, g)[2] = "new"
    BY UniqueNames DEF Prev, New
  <2>2. \A g \in Composing(base, patch) : g # Shared
    BY <1>3, ComposingFacts
  <2>3. \A x \in Prevs(base, patch) \cup News(base, patch) : x[2] # ""
    BY <2>1 DEF Prevs, News
  <2>4. \A x \in Wrappers(base, patch) : x[1] # Shared
    BY <2>2, PlainHook DEF Wrappers
  <2> HIDE DEF s
  <2> QED
    BY <1>2, <2>3, <2>4
<1>5. s \notin Dropped(patch.members)
  <2>1. \A x \in Dropped(patch.members) : x[1] \in {"ensemble_spec", "model_spec"}
    BY DroppedFacts, PlainHook
  <2> HIDE DEF s
  <2> QED
    BY <1>2, <1>3, <2>1
<1>6. s \in DOMAIN T <=> s \in Known(base, patch)
  <2>1. DOMAIN T = (W \cup Known(base, patch)) \ Dropped(patch.members)
    BY TogetherNames
  <2> HIDE DEF T, s, W
  <2> QED
    BY <1>4, <1>5, <2>1
<1>7. s \in DOMAIN T => T[s] = IF s \in DOMAIN patch.members
                               THEN patch.members[s] ELSE base.members[s]
  <2>1. \A x \in DOMAIN T : x \notin W => T[x] = IF x \in DOMAIN patch.members
                                                  THEN patch.members[x] ELSE base.members[x]
    BY TogetherOld
  <2> HIDE DEF T, s, W
  <2> QED
    BY <1>4, <2>1
<1>8. (s \in DOMAIN F <=> s \in DOMAIN T) /\ (s \in DOMAIN F => F[s] = T[s])
  <2>1. s # Pc
    BY <1>2, <1>3, PlainHook DEF Pc
  <2>2. /\ DOMAIN F \subseteq DOMAIN T
        /\ \A x \in DOMAIN T : x[1] # "param_candidates" \/ x[2] = "" => x \in DOMAIN F
        /\ \A x \in DOMAIN F : x # Pc => F[x] = T[x]
    BY FreezeFacts
  <2> HIDE DEF s, T, F
  <2> QED
    BY <1>2, <2>1, <2>2
<1> HIDE DEF F, T, W, s
<1>9. s \in Known(base, patch) <=> s \in DOMAIN base.members \/ s \in DOMAIN patch.members
  BY DEF Known
<1> QED
  BY <1>1, <1>6, <1>7, <1>8, <1>9 DEF s

(* Texts find in the merge what they found.                                *)
LEMMA RunsKept ==
    ASSUME CompositionAssumption, NEW base, NEW patch, Fits(base, patch)
    PROVE  LET F == Merge(base, patch).members
           IN  /\ \A n \in DOMAIN base.members : base.members[n][1] = "own" =>
                      Runs(F, base.members[n][2]) = Runs(base.members, base.members[n][2])
               /\ \A n \in DOMAIN patch.members :
                      Runs(F, patch.members[n][2]) = Runs(patch.members, patch.members[n][2])
               /\ \A n \in DOMAIN patch.members, m \in DOMAIN base.members :
                      patch.members[n] = base.members[m] =>
                          Runs(patch.members, patch.members[n][2]) = Runs(base.members, base.members[m][2])
<1> DEFINE F == Merge(base, patch).members
           s == Plain(Shared)
           bm == base.members
           pm == patch.members
<1>1. /\ s \in DOMAIN F <=> s \in DOMAIN bm \/ s \in DOMAIN pm
      /\ s \in DOMAIN pm => F[s] = pm[s]
      /\ s \in DOMAIN bm \ DOMAIN pm => F[s] = bm[s]
  BY SharedKept DEF Known
<1>2. s \in DOMAIN bm /\ s \in DOMAIN pm => bm[s] = pm[s]
  BY DEF Fits, Shadows, Collisions
<1>3. \A n \in DOMAIN bm : bm[n][1] = "own" /\ bm[n][2] \in Reads => s \in DOMAIN bm
  BY DEF Fits, SharedOK, Defines
<1>4. \A n \in DOMAIN pm : pm[n][1] = "own" /\ (pm[n][2] \in Reads => s \in DOMAIN pm)
  BY DEF Fits, SharedOK, Defines, IsPatch
<1> HIDE DEF F, bm, pm, s
<1>5. \A members, x : x \notin Reads => Runs(members, x) = <<x, <<>> >>
  BY DEF Runs
<1>6. \A members, x : x \in Reads /\ s \in DOMAIN members => Runs(members, x) = <<x, members[s]>>
  BY DEF Runs, Defines, s
<1>7. ASSUME NEW n \in DOMAIN bm, bm[n][1] = "own"
      PROVE  Runs(F, bm[n][2]) = Runs(bm, bm[n][2])
  <2>1. CASE bm[n][2] \notin Reads
    BY <1>5, <2>1
  <2>2. CASE bm[n][2] \in Reads
    <3>1. s \in DOMAIN bm /\ s \in DOMAIN F
      BY <1>1, <1>3, <1>7, <2>2
    <3>2. F[s] = bm[s]
      BY <1>1, <1>2, <3>1
    <3> QED
      BY <1>6, <2>2, <3>1, <3>2
  <2> QED
    BY <2>1, <2>2
<1>8. ASSUME NEW n \in DOMAIN pm
      PROVE  Runs(F, pm[n][2]) = Runs(pm, pm[n][2])
  <2>1. CASE pm[n][2] \notin Reads
    BY <1>5, <2>1
  <2>2. CASE pm[n][2] \in Reads
    <3>1. s \in DOMAIN pm /\ s \in DOMAIN F
      BY <1>1, <1>4, <2>2
    <3>2. F[s] = pm[s]
      BY <1>1, <3>1
    <3> QED
      BY <1>6, <2>2, <3>1, <3>2
  <2> QED
    BY <2>1, <2>2
<1>9. ASSUME NEW n \in DOMAIN pm, NEW m \in DOMAIN bm, pm[n] = bm[m]
      PROVE  Runs(pm, pm[n][2]) = Runs(bm, bm[m][2])
  <2>1. bm[m][1] = "own"
    BY <1>4, <1>9
  <2>2. CASE pm[n][2] \notin Reads
    BY <1>5, <1>9, <2>2
  <2>3. CASE pm[n][2] \in Reads
    <3>1. s \in DOMAIN pm /\ s \in DOMAIN bm
      BY <1>3, <1>4, <1>9, <2>1, <2>3
    <3> QED
      BY <1>2, <1>6, <1>9, <2>3, <3>1
  <2> QED
    BY <2>2, <2>3
<1> QED
  BY <1>7, <1>8, <1>9 DEF F, bm, pm

(* A merge has what its texts read.                                        *)
LEMMA MergeShared ==
    ASSUME CompositionAssumption, NEW base, WellFormed(base.members), SharedOK(base.members),
           NEW patch, IsPatch(patch), SharedOK(patch.members)
    PROVE  SharedOK(Merge(base, patch).members)
<1> DEFINE T == Together(base, patch)
           F == Freeze(T, patch.frozen)
           s == Plain(Shared)
           bm == base.members
           pm == patch.members
<1>1. Merge(base, patch).members = F
  BY DEF Merge
<1>2. s \in DOMAIN F <=> s \in DOMAIN bm \/ s \in DOMAIN pm
  BY <1>1, SharedKept DEF Known
<1>3. ASSUME NEW n \in DOMAIN T, T[n][1] = "own"
      PROVE  (\E m \in DOMAIN bm : T[n] = bm[m]) \/ (\E m \in DOMAIN pm : T[n] = pm[m])
  <2>1. IsFiniteSet(DOMAIN base.members)
    BY DEF WellFormed
  <2>2. \/ \E h \in Composing(base, patch) :
               n = Plain(h) /\ T[n] = <<"both", Prev(base, patch, h), New(base, patch, h)>>
        \/ \E h \in Composing(base, patch) :
               n = Prev(base, patch, h) /\ T[n] = base.members[Plain(h)]
        \/ \E h \in Composing(base, patch) :
               n = New(base, patch, h) /\ T[n] = patch.members[Plain(h)]
        \/ /\ n \in DOMAIN patch.members /\ n \notin Wrappers(base, patch)
           /\ T[n] = patch.members[n]
        \/ /\ n \in DOMAIN base.members \ DOMAIN patch.members
           /\ n \notin Prevs(base, patch) \cup News(base, patch) \cup Wrappers(base, patch)
           /\ T[n] = base.members[n]
    BY <2>1, TogetherCases
  <2>3. \A h \in Composing(base, patch) : Plain(h) \in DOMAIN bm /\ Plain(h) \in DOMAIN pm
    BY ComposingFacts
  <2> HIDE DEF T
  <2>4. ~\E h \in Composing(base, patch) :
               n = Plain(h) /\ T[n] = <<"both", Prev(base, patch, h), New(base, patch, h)>>
    BY <1>3
  <2> HIDE DEF bm, pm
  <2> QED
    BY <2>2, <2>3, <2>4 DEF bm, pm
<1>4. ASSUME NEW n \in DOMAIN F, F[n][1] = "own"
      PROVE  n \in DOMAIN T /\ F[n] = T[n]
  <2>1. /\ DOMAIN F \subseteq DOMAIN T
        /\ \A x \in DOMAIN F : x # Pc => F[x] = T[x]
    BY FreezeFacts
  <2>2. CASE n = Pc
    <3>1. F[Pc] = <<"only", patch.frozen>> \/ F = T
      BY <2>1, <2>2, FreezeFacts
    <3>2. <<"only", patch.frozen>>[1] = "only"
      OBVIOUS
    <3> HIDE DEF T, F
    <3> QED
      BY <1>4, <2>1, <2>2, <3>1, <3>2
  <2>3. CASE n # Pc
    BY <2>1, <2>3
  <2> QED
    BY <2>2, <2>3
<1>5. \A m \in DOMAIN bm : bm[m][1] = "own" /\ bm[m][2] \in Reads => s \in DOMAIN bm
  BY DEF SharedOK, Defines
<1>6. \A m \in DOMAIN pm : pm[m][1] = "own" /\ pm[m][2] \in Reads => s \in DOMAIN pm
  BY DEF SharedOK, Defines
<1> HIDE DEF T, F, s, bm, pm
<1>7. \A n \in DOMAIN F : F[n][1] = "own" /\ F[n][2] \in Reads => s \in DOMAIN F
  BY <1>2, <1>3, <1>4, <1>5, <1>6
<1> QED
  BY <1>1, <1>7 DEF SharedOK, Defines, s

(* So do the classes of a replay.                                          *)
LEMMA ReplayShared ==
    ASSUME CompositionAssumption, NEW ls, RowsOK(ls), NEW f, IsReplay(f, ls)
    PROVE  \A k \in 0..Len(ls) : SharedOK(f[k].members)
<1> DEFINE S == {k \in Nat : k <= Len(ls) => SharedOK(f[k].members)}
<1>0. Len(ls) \in Nat
  BY RowsFacts
<1>1. 0 \in S
  <2>1. f[0] = NoBase
    BY <1>0, ReplaySteps
  <2>2. SharedOK(NoBase.members)
    BY NothingDefined DEF SharedOK
  <2> QED
    BY <2>1, <2>2
<1>2. ASSUME NEW k \in Nat, k \in S
      PROVE  k + 1 \in S
  <2> SUFFICES ASSUME k + 1 <= Len(ls) PROVE SharedOK(f[k + 1].members)
    OBVIOUS
  <2>1. k + 1 \in 1..Len(ls) /\ (k + 1) - 1 = k /\ SharedOK(f[k].members) /\ k \in 0..Len(ls)
    BY <1>0, <1>2
  <2>2. f[k + 1] = Replayed(f[k], ls[k + 1])
    BY <1>0, <2>1, ReplaySteps
  <2>3. ls[k + 1].patch \in Patches
    BY <2>1, RowsFacts DEF IsRow
  <2> DEFINE src == Source(ls[k + 1].patch, ls[k + 1].frozen)
  <2>4. IsPatch(src) /\ SharedOK(src.members)
    BY <2>3, SourceIsPatch, SourceShared
  <2>5. WellFormed(f[k].members)
    BY <2>1, ReplayWellFormed
  <2>6. SharedOK(Merge(f[k], src).members)
    <3> HIDE DEF src
    <3> QED
      BY <2>1, <2>4, <2>5, MergeShared
  <2> QED
    BY <2>1, <2>2, <2>6 DEF Replayed
<1> HIDE DEF S
<1>3. \A k \in Nat : k \in S
  BY <1>1, <1>2, Induction
<1> QED
  BY <1>0, <1>3 DEF S

(* Texts are carried with what they find.                                  *)
LEMMA RunsAreCarried ==
    ASSUME CompositionAssumption, NEW base, NEW patch, Fits(base, patch), NEW h, h # "param_candidates"
    PROVE  LET F == Merge(base, patch).members
           IN  /\ Carries(h, base.members, RunLeaf(base.members), F, RunLeaf(F))
               /\ Carries(h, patch.members, RunLeaf(patch.members), F, RunLeaf(F))
               /\ Carries(h, base.members, FeatureLeaf(base.members), F, FeatureLeaf(F))
               /\ Carries(h, patch.members, FeatureLeaf(patch.members), F, FeatureLeaf(F))
<1> DEFINE F == Merge(base, patch).members
           bm == base.members
           pm == patch.members
<1>1. /\ \A n \in DOMAIN bm : bm[n][1] = "own" => Runs(F, bm[n][2]) = Runs(bm, bm[n][2])
      /\ \A n \in DOMAIN pm : Runs(F, pm[n][2]) = Runs(pm, pm[n][2])
  BY RunsKept
<1>2. \A n \in DOMAIN bm : n[1] = h /\ bm[n][1] # "both" => bm[n][1] = "own"
  BY OwnMember DEF Fits
<1> HIDE DEF F, bm, pm
<1>3. ASSUME NEW m \in DOMAIN bm, NEW n \in DOMAIN F, m[1] = h, F[n] = bm[m], bm[m][1] # "both"
      PROVE  RunLeaf(F)[n] = RunLeaf(bm)[m] /\ FeatureLeaf(F)[n] = FeatureLeaf(bm)[m]
  <2>1. Runs(F, F[n][2]) = Runs(bm, bm[m][2]) /\ F[n][2] = bm[m][2]
    BY <1>1, <1>2, <1>3
  <2> QED
    BY <2>1 DEF RunLeaf, FeatureLeaf
<1>4. ASSUME NEW m \in DOMAIN pm, NEW n \in DOMAIN F, F[n] = pm[m]
      PROVE  RunLeaf(F)[n] = RunLeaf(pm)[m] /\ FeatureLeaf(F)[n] = FeatureLeaf(pm)[m]
  <2>1. Runs(F, F[n][2]) = Runs(pm, pm[m][2]) /\ F[n][2] = pm[m][2]
    BY <1>1, <1>4
  <2> QED
    BY <2>1 DEF RunLeaf, FeatureLeaf
<1> QED
  BY <1>3, <1>4 DEF F, bm, pm, Carries

\* The same in the words of PatchedPipeline: x of the base, y of the patch.
OneOrBoth(base, patch, kind, h, x, y, z) ==
    /\ ~Defines(patch.members, h) /\ Defines(base.members, h) => z = x
    /\ Defines(patch.members, h) /\ ~Composes(base, patch, h) => z = y
    /\ Defines(patch.members, h) /\ Composes(base, patch, h)
           /\ base.members[Plain(h)] # patch.members[Plain(h)] => z = Then(kind, x, y)
    /\ Defines(patch.members, h) /\ Composes(base, patch, h)
           /\ base.members[Plain(h)] = patch.members[Plain(h)] => z = y

(* What is put together of two classes is what they return.                *)
LEMMA PutTogetherCases ==
    ASSUME NEW base, NEW patch, NEW h \in Composable, NEW kind, NEW t, NEW own, NEW c,
           PutTogether(base, patch, kind, h, t, own, c)
    PROVE  OneOrBoth(base, patch, kind, h, t[Plain(h)], own[Plain(h)], c[Plain(h)])
<1> DEFINE n == Plain(h)
<1>1. h \in Composing(base, patch) <=>
          /\ n \in DOMAIN base.members /\ n \in DOMAIN patch.members
          /\ base.members[n] # patch.members[n] /\ h \notin patch.override
  BY DEF Composing, Collisions
<1> HIDE DEF n
<1>2. /\ n \in DOMAIN base.members \ DOMAIN patch.members => c[n] = t[n]
      /\ n \in DOMAIN patch.members /\ h \in Composing(base, patch) => c[n] = Then(kind, t[n], own[n])
      /\ n \in DOMAIN patch.members /\ h \notin Composing(base, patch) => c[n] = own[n]
  BY DEF PutTogether, n
<1> QED
  BY <1>1, <1>2 DEF n, Defines, Composes, OneOrBoth

(* What a merge runs before and after the model is what the patch ran on   *)
(* top of the base, if the patch does not repeat it.                       *)
LEMMA ChainMerged ==
    ASSUME CompositionAssumption, NEW base, NEW patch, Fits(base, patch), NEW h \in Chained,
           Defines(patch.members, h) /\ Composes(base, patch, h) =>
               base.members[Plain(h)] # patch.members[Plain(h)]
    PROVE  Chain(Merge(base, patch).members, h) = Sequential(base, patch, h)
<1> DEFINE F == Merge(base, patch).members
           bm == base.members
           pm == patch.members
           n == Plain(h)
<1>1. WellFormed(bm) /\ IsPatch(patch) /\ WellFormed(pm) /\ WellFormed(F)
  BY PatchWellFormed, TogetherWellFormed, FreezeWellFormed DEF Fits, Merge
<1>2. h \in Composable /\ h # "param_candidates"
  BY DEF Chained, Composable
<1>3. PICK t : /\ IsCalls(t, bm, RunLeaf(bm), "chain")
               /\ \A g : Chain(bm, g) = IF Defines(bm, g) THEN t[Plain(g)] ELSE <<>>
  BY <1>1, ChainIs
<1>4. PICK u : /\ IsCalls(u, pm, RunLeaf(pm), "chain")
               /\ \A g : Chain(pm, g) = IF Defines(pm, g) THEN u[Plain(g)] ELSE <<>>
  BY <1>1, ChainIs
<1>5. PICK c : /\ IsCalls(c, F, RunLeaf(F), "chain")
               /\ \A g : Chain(F, g) = IF Defines(F, g) THEN c[Plain(g)] ELSE <<>>
  BY <1>1, ChainIs
<1>6. Defines(pm, h) => Chain(pm, h) = RunLeaf(pm)[n]
  <2>1. IsCalls(u, patch.members, RunLeaf(pm), "chain")
    BY <1>4
  <2>2. \A x \in DOMAIN patch.members : u[x] = RunLeaf(pm)[x]
    <3>1. \A x \in DOMAIN pm : pm[x][1] # "both" => u[x] = RunLeaf(pm)[x]
      BY <2>1, CallsOf
    <3>2. \A x \in DOMAIN pm : pm[x][1] # "both"
      BY <1>1 DEF IsPatch
    <3> QED
      BY <3>1, <3>2
  <2>3. Defines(pm, h) => Chain(pm, h) = u[n] /\ n \in DOMAIN patch.members
    BY <1>4 DEF Defines
  <2> QED
    BY <2>2, <2>3
<1> DEFINE old == RunLeaf(bm)
           own == RunLeaf(pm)
           new == RunLeaf(F)
<1>7. Carries(h, bm, old, F, new) /\ Carries(h, pm, own, F, new)
  BY <1>2, RunsAreCarried
<1>8. /\ IsCalls(t, bm, old, "chain") /\ IsCalls(c, F, new, "chain")
      /\ Defines(pm, h) => Chain(pm, h) = own[n]
  BY <1>3, <1>5, <1>6
<1> HIDE DEF old, own, new
<1>9. /\ Plain(h) \in DOMAIN F <=> Plain(h) \in Known(base, patch)
      /\ PutTogether(base, patch, "chain", h, t, own, c)
  BY <1>1, <1>2, <1>7, <1>8, MergeCalls
<1>10. /\ ~Defines(pm, h) /\ Defines(bm, h) => c[n] = t[n]
       /\ Defines(pm, h) /\ ~Composes(base, patch, h) => c[n] = own[n]
       /\ Defines(pm, h) /\ Composes(base, patch, h) /\ bm[n] # pm[n] => c[n] = Then("chain", t[n], own[n])
  <2>1. OneOrBoth(base, patch, "chain", h, t[Plain(h)], own[Plain(h)], c[Plain(h)])
    BY <1>2, <1>9, PutTogetherCases
  <2> QED
    BY <2>1 DEF OneOrBoth
<1>11. Defines(F, h) <=> Defines(bm, h) \/ Defines(pm, h)
  BY <1>9 DEF Defines, Known
<1>12. Composes(base, patch, h) => Defines(bm, h)
  BY DEF Composes
<1> DEFINE old1 == Chain(bm, h)
           own1 == Chain(pm, h)
           new1 == Chain(F, h)
<1>13. /\ Defines(bm, h) => old1 = t[n]
       /\ ~Defines(bm, h) => old1 = <<>>
       /\ Defines(F, h) => new1 = c[n]
       /\ ~Defines(F, h) => new1 = <<>>
  BY <1>3, <1>5
<1>14. Sequential(base, patch, h) = IF ~Defines(pm, h) THEN old1
                                    ELSE IF ~Composes(base, patch, h) THEN own1
                                    ELSE Then("chain", old1, own1)
  BY DEF Sequential, Then
<1>15. Defines(pm, h) => own1 = own[n]
  BY <1>8
<1> HIDE DEF F, bm, pm, n, old1, own1, new1
<1>16. CASE ~Defines(pm, h)
  BY <1>10, <1>11, <1>13, <1>14, <1>16 DEF F, new1
<1>17. CASE Defines(pm, h) /\ ~Composes(base, patch, h)
  BY <1>10, <1>11, <1>13, <1>14, <1>15, <1>17 DEF F, new1
<1>18. CASE Defines(pm, h) /\ Composes(base, patch, h)
  <2>1. bm[n] # pm[n]
    BY <1>18 DEF bm, pm, n
  <2>2. new1 = Then("chain", old1, own1)
    BY <1>10, <1>11, <1>12, <1>13, <1>15, <1>18, <2>1
  <2> QED
    BY <1>14, <1>18, <2>2 DEF F, new1
<1> QED
  BY <1>16, <1>17, <1>18

(* What is put on top of itself is itself.                                 *)
LEMMA OnTopOfItself ==
    ASSUME NEW D, NEW f, f = [x \in D |-> f[x]]
    PROVE  f ** f = f
  BY DEF **

(* The columns of a merge are those of the patch on top of the base.       *)
LEMMA FeaturesMerged ==
    ASSUME CompositionAssumption, NEW base, NEW patch, Fits(base, patch)
    PROVE  Features(Merge(base, patch).members) = Columned(base, patch)
<1> DEFINE F == Merge(base, patch).members
           bm == base.members
           pm == patch.members
           h == "feature_transform"
           n == Plain(h)
<1>1. WellFormed(bm) /\ IsPatch(patch) /\ WellFormed(pm) /\ WellFormed(F)
  BY PatchWellFormed, TogetherWellFormed, FreezeWellFormed DEF Fits, Merge
<1>2. h \in Composable /\ h # "param_candidates"
  BY DEF Composable
<1>3. PICK t : /\ IsCalls(t, bm, FeatureLeaf(bm), "features")
               /\ Features(bm) = IF Defines(bm, h) THEN t[n] ELSE Nothing
  BY <1>1, FeaturesIs
<1>4. PICK u : /\ IsCalls(u, pm, FeatureLeaf(pm), "features")
               /\ Features(pm) = IF Defines(pm, h) THEN u[n] ELSE Nothing
  BY <1>1, FeaturesIs
<1>5. PICK c : /\ IsCalls(c, F, FeatureLeaf(F), "features")
               /\ Features(F) = IF Defines(F, h) THEN c[n] ELSE Nothing
  BY <1>1, FeaturesIs
<1> DEFINE old == FeatureLeaf(bm)
           own == FeatureLeaf(pm)
           new == FeatureLeaf(F)
<1>6. Defines(pm, h) => Features(pm) = own[n]
  <2>1. IsCalls(u, patch.members, FeatureLeaf(pm), "features")
    BY <1>4
  <2>2. \A x \in DOMAIN patch.members : u[x] = FeatureLeaf(pm)[x]
    <3>1. \A x \in DOMAIN pm : pm[x][1] # "both" => u[x] = FeatureLeaf(pm)[x]
      BY <2>1, CallsOf
    <3>2. \A x \in DOMAIN pm : pm[x][1] # "both"
      BY <1>1 DEF IsPatch
    <3> QED
      BY <3>1, <3>2
  <2>3. Defines(pm, h) => Features(pm) = u[n] /\ n \in DOMAIN patch.members
    BY <1>4 DEF Defines
  <2> QED
    BY <2>2, <2>3
<1>7. Carries(h, bm, old, F, new) /\ Carries(h, pm, own, F, new)
  BY <1>2, RunsAreCarried
<1>8. IsCalls(t, bm, old, "features") /\ IsCalls(c, F, new, "features")
  BY <1>3, <1>5
<1>9. Defines(pm, h) /\ Defines(bm, h) /\ bm[n] = pm[n] => t[n] = own[n] /\ own[n] ** own[n] = own[n]
  <2> SUFFICES ASSUME n \in DOMAIN pm, n \in DOMAIN bm, bm[n] = pm[n]
               PROVE  t[n] = own[n] /\ own[n] ** own[n] = own[n]
    BY DEF Defines
  <2>1. pm[n][1] = "own" /\ bm[n][1] # "both"
    BY <1>1 DEF IsPatch
  <2>2. t[n] = old[n]
    <3>1. \A x \in DOMAIN bm : bm[x][1] # "both" => t[x] = FeatureLeaf(bm)[x]
      BY <1>3, CallsOf
    <3> QED
      BY <2>1, <3>1
  <2>3. Runs(pm, pm[n][2]) = Runs(bm, bm[n][2])
    BY RunsKept
  <2> DEFINE r == Runs(pm, pm[n][2])
             cols == Columns[pm[n][2]]
  <2>4. own[n] = [x \in cols |-> r]
    BY DEF FeatureLeaf
  <2>5. old[n] = [x \in cols |-> r]
    BY <2>3 DEF FeatureLeaf
  <2>6. own[n] = [x \in cols |-> own[n][x]]
    <3> HIDE DEF own, r, cols
    <3> QED
      BY <2>4
  <2> HIDE DEF own, r, cols, old
  <2>7. own[n] ** own[n] = own[n]
    BY <2>6, OnTopOfItself
  <2> QED
    BY <2>2, <2>4, <2>5, <2>7
<1> HIDE DEF old, own, new
<1>10. /\ Plain(h) \in DOMAIN F <=> Plain(h) \in Known(base, patch)
       /\ PutTogether(base, patch, "features", h, t, own, c)
  BY <1>1, <1>2, <1>7, <1>8, MergeCalls
<1>11. /\ ~Defines(pm, h) /\ Defines(bm, h) => c[n] = t[n]
       /\ Defines(pm, h) /\ ~Composes(base, patch, h) => c[n] = own[n]
       /\ Defines(pm, h) /\ Composes(base, patch, h) /\ bm[n] # pm[n] =>
              c[n] = Then("features", t[n], own[n])
       /\ Defines(pm, h) /\ Composes(base, patch, h) /\ bm[n] = pm[n] => c[n] = own[n]
  <2>1. OneOrBoth(base, patch, "features", h, t[Plain(h)], own[Plain(h)], c[Plain(h)])
    BY <1>2, <1>10, PutTogetherCases
  <2> QED
    BY <2>1 DEF OneOrBoth
<1>12. Defines(F, h) <=> Defines(bm, h) \/ Defines(pm, h)
  BY <1>10 DEF Defines, Known
<1>13. Composes(base, patch, h) => Defines(bm, h)
  BY DEF Composes
<1> DEFINE old1 == Features(bm)
           own1 == Features(pm)
           new1 == Features(F)
<1>14. /\ Defines(bm, h) => old1 = t[n]
       /\ ~Defines(bm, h) => old1 = Nothing
       /\ Defines(F, h) => new1 = c[n]
       /\ ~Defines(F, h) => new1 = Nothing
  BY <1>3, <1>5
<1>15. Columned(base, patch) = IF ~Defines(pm, h) THEN old1
                               ELSE IF ~Composes(base, patch, h) THEN own1
                               ELSE own1 ** old1
  BY DEF Columned
<1>16. Defines(pm, h) => own1 = own[n]
  BY <1>6
<1>17. Then("features", t[n], own[n]) = own[n] ** t[n]
  BY DEF Then
<1> HIDE DEF F, bm, pm, n, h, old1, own1, new1
<1>18. CASE ~Defines(pm, h)
  BY <1>11, <1>12, <1>14, <1>15, <1>18 DEF F, new1
<1>19. CASE Defines(pm, h) /\ ~Composes(base, patch, h)
  BY <1>11, <1>12, <1>14, <1>15, <1>16, <1>19 DEF F, new1
<1>20. CASE Defines(pm, h) /\ Composes(base, patch, h)
  <2>1. new1 = c[n] /\ own1 = own[n] /\ old1 = t[n]
    BY <1>12, <1>13, <1>14, <1>16, <1>20
  <2>2. c[n] = own[n] ** t[n]
    <3>1. CASE bm[n] = pm[n]
      BY <1>9, <1>11, <1>13, <1>20, <3>1
    <3>2. CASE bm[n] # pm[n]
      BY <1>11, <1>17, <1>20, <3>2
    <3> QED
      BY <3>1, <3>2
  <2>3. Columned(base, patch) = own1 ** old1
    BY <1>15, <1>20
  <2> QED
    BY <2>1, <2>2, <2>3 DEF F, new1
<1> QED
  BY <1>18, <1>19, <1>20

(* Candidates are carried.                                                 *)
LEMMA ListsAreCarried ==
    ASSUME NEW h, NEW from, NEW to
    PROVE  Carries(h, from, ListLeaf(from), to, ListLeaf(to))
  BY DEF Carries, ListLeaf

(* The candidates of a class on its own are its list.                      *)
LEMMA AloneOffered ==
    ASSUME NEW m
    PROVE  /\ Defines(m.members, "param_candidates") => Offered(NoBase, AsPatch(m)) = Lists(m.members)
           /\ ~Defines(m.members, "param_candidates") => Offered(NoBase, AsPatch(m)) = <<NoParams>>
<1>1. AsPatch(m).members = m.members
  BY DEF AsPatch
<1>2. ~Defines(NoBase.members, "param_candidates")
  BY NothingDefined
<1> QED
  BY <1>1, <1>2 DEF Offered, Composes

(* A merge with a list of its own offers what the patch offered on top of  *)
(* the base, unless it repeats a list that repeats a candidate.            *)
LEMMA OfferedMerged ==
    ASSUME CompositionAssumption, NEW base, NEW patch, Fits(base, patch), patch.frozen = NoParams,
           LET h == "param_candidates"
           IN  Defines(patch.members, h) /\ Composes(base, patch, h)
                  /\ base.members[Plain(h)] = patch.members[Plain(h)] => ~Repeats(patch.members)
    PROVE  Offered(NoBase, AsPatch(Merge(base, patch))) = Offered(base, patch)
<1> DEFINE m == Merge(base, patch)
           F == m.members
           bm == base.members
           pm == patch.members
           h == "param_candidates"
           n == Plain(h)
<1>1. WellFormed(bm) /\ IsPatch(patch) /\ WellFormed(pm) /\ WellFormed(F)
  BY PatchWellFormed, TogetherWellFormed, FreezeWellFormed DEF Fits, Merge
<1>2. h \in Composable
  BY DEF Composable
<1>3. PICK t : IsCalls(t, bm, ListLeaf(bm), "lists") /\ Lists(bm) = t[n]
  BY <1>1, ListsIs
<1>4. PICK u : IsCalls(u, pm, ListLeaf(pm), "lists") /\ Lists(pm) = u[n]
  BY <1>1, ListsIs
<1>5. PICK c : IsCalls(c, F, ListLeaf(F), "lists") /\ Lists(F) = c[n]
  BY <1>1, ListsIs
<1> DEFINE old == ListLeaf(bm)
           own == ListLeaf(pm)
           new == ListLeaf(F)
<1>6. Defines(pm, h) => Lists(pm) = own[n]
  <2>1. \A x \in DOMAIN pm : pm[x][1] # "both" => u[x] = ListLeaf(pm)[x]
    BY <1>4, CallsOf
  <2>2. \A x \in DOMAIN pm : pm[x][1] # "both"
    BY <1>1 DEF IsPatch
  <2> QED
    BY <1>4, <2>1, <2>2 DEF Defines
<1>7. Carries(h, bm, old, F, new) /\ Carries(h, pm, own, F, new)
  BY ListsAreCarried
<1>8. IsCalls(t, bm, old, "lists") /\ IsCalls(c, F, new, "lists")
  BY <1>3, <1>5
<1>9. Defines(pm, h) /\ Defines(bm, h) /\ bm[n] = pm[n] => t[n] = own[n]
  <2> SUFFICES ASSUME n \in DOMAIN pm, n \in DOMAIN bm, bm[n] = pm[n]
               PROVE  t[n] = own[n]
    BY DEF Defines
  <2>1. bm[n][1] # "both"
    BY <1>1 DEF IsPatch
  <2>2. t[n] = old[n]
    <3>1. \A x \in DOMAIN bm : bm[x][1] # "both" => t[x] = ListLeaf(bm)[x]
      BY <1>3, CallsOf
    <3> QED
      BY <2>1, <3>1
  <2>3. old[n] = own[n]
    <3>1. \A x \in DOMAIN bm : old[x] = IF bm[x][1] = "only" THEN <<bm[x][2]>> ELSE Candidates[bm[x][2]]
      BY DEF ListLeaf
    <3>2. \A x \in DOMAIN pm : own[x] = IF pm[x][1] = "only" THEN <<pm[x][2]>> ELSE Candidates[pm[x][2]]
      BY DEF ListLeaf
    <3> HIDE DEF old, own, bm, pm, n
    <3> QED
      BY <3>1, <3>2
  <2> QED
    BY <2>2, <2>3
<1> HIDE DEF old, own, new
<1>10. /\ Plain(h) \in DOMAIN F <=> Plain(h) \in Known(base, patch)
       /\ PutTogether(base, patch, "lists", h, t, own, c)
  BY <1>1, <1>2, <1>7, <1>8, MergeCalls
<1>11. /\ ~Defines(pm, h) /\ Defines(bm, h) => c[n] = t[n]
       /\ Defines(pm, h) /\ ~Composes(base, patch, h) => c[n] = own[n]
       /\ Defines(pm, h) /\ Composes(base, patch, h) /\ bm[n] # pm[n] =>
              c[n] = Then("lists", t[n], own[n])
       /\ Defines(pm, h) /\ Composes(base, patch, h) /\ bm[n] = pm[n] => c[n] = own[n]
  <2>1. OneOrBoth(base, patch, "lists", h, t[Plain(h)], own[Plain(h)], c[Plain(h)])
    BY <1>2, <1>10, PutTogetherCases
  <2> QED
    BY <2>1 DEF OneOrBoth
<1>12. Defines(F, h) <=> Defines(bm, h) \/ Defines(pm, h)
  BY <1>10 DEF Defines, Known
<1>13. Composes(base, patch, h) => Defines(bm, h)
  BY DEF Composes
<1>14. Defines(pm, h) /\ Composes(base, patch, h) /\ bm[n] = pm[n] => Union(Lists(pm), Lists(pm)) = Lists(pm)
  BY DEF Repeats
<1> DEFINE old1 == Lists(bm)
           own1 == Lists(pm)
           new1 == Lists(F)
           offered == Offered(base, patch)
           merged == Offered(NoBase, AsPatch(m))
<1>15. old1 = t[n] /\ new1 = c[n] /\ (Defines(pm, h) => own1 = own[n])
  BY <1>3, <1>5, <1>6
<1>16. /\ Defines(pm, h) /\ Composes(base, patch, h) => offered = Union(old1, own1)
       /\ Defines(pm, h) /\ ~Composes(base, patch, h) => offered = own1
       /\ ~Defines(pm, h) /\ Defines(bm, h) => offered = old1
       /\ ~Defines(pm, h) /\ ~Defines(bm, h) => offered = <<NoParams>>
  BY DEF Offered
<1>17. /\ Defines(F, h) => merged = new1
       /\ ~Defines(F, h) => merged = <<NoParams>>
  BY AloneOffered
<1>18. Then("lists", t[n], own[n]) = Union(t[n], own[n])
  BY DEF Then
<1> HIDE DEF m, F, bm, pm, n, h, old1, own1, new1, offered, merged
<1>19. CASE ~Defines(pm, h)
  BY <1>11, <1>12, <1>15, <1>16, <1>17, <1>19 DEF offered, merged, m
<1>20. CASE Defines(pm, h) /\ ~Composes(base, patch, h)
  BY <1>11, <1>12, <1>15, <1>16, <1>17, <1>20 DEF offered, merged, m
<1>21. CASE Defines(pm, h) /\ Composes(base, patch, h)
  <2>1. merged = c[n] /\ own1 = own[n] /\ old1 = t[n] /\ offered = Union(old1, own1)
    BY <1>12, <1>15, <1>16, <1>17, <1>21
  <2>2. c[n] = Union(t[n], own[n])
    <3>1. CASE bm[n] = pm[n]
      <4>1. t[n] = own[n] /\ c[n] = own[n]
        BY <1>9, <1>11, <1>13, <1>21, <3>1
      <4>2. Union(own1, own1) = own1
        BY <1>14, <1>21, <3>1 DEF own1
      <4> QED
        BY <2>1, <4>1, <4>2
    <3>2. CASE bm[n] # pm[n]
      BY <1>11, <1>18, <1>21, <3>2
    <3> QED
      BY <3>1, <3>2
  <2> QED
    BY <2>1, <2>2 DEF offered, merged, m
<1> QED
  BY <1>19, <1>20, <1>21

\* What is called for a model hook of a patch on a base.
Texts(base, patch, h) == {Runs(m, m[Plain(h)][2]) : m \in Owner(base, patch, h)}

\* Model and Selected of what they are made of.
Modelled(e, s, b, offered, sel) ==
    LET member == IF \E t \in e : t[1] \in OnBase
                  THEN <<b, IF offered = <<>> THEN NoParams ELSE offered[1]>> ELSE <<>>
        built  == IF b = {} THEN {<<Trivial, <<>> >>} ELSE b
    IN  CASE e # {} -> <<"ensemble", e, member>>
          [] e = {} /\ s # {} -> <<"spec", s, <<>> >>
          [] OTHER -> <<"build", built, sel>>

First(tried) ==
    LET top == {i \in DOMAIN tried : \A j \in DOMAIN tried \ {i} : Rank[tried[j]] <= Rank[tried[i]]}
    IN  tried[Min(top)]

Tried(offered) == SubSeq(offered, 1, Min({MaxCandidates, Len(offered)}))

(* In these terms.                                                         *)
LEMMA ModelIs ==
    ASSUME NEW base, NEW patch
    PROVE  Model(base, patch) =
               Modelled(Texts(base, patch, "ensemble_spec"), Texts(base, patch, "model_spec"),
                        Texts(base, patch, "build_model"), Offered(base, patch), Selected(base, patch))
  BY DEF Model, Modelled, Texts

(* The same for what is selected.                                         *)
LEMMA SelectedIs ==
    ASSUME NEW base, NEW patch
    PROVE  LET e == Texts(base, patch, "ensemble_spec")
               s == Texts(base, patch, "model_spec")
               tried == Tried(Offered(base, patch))
           IN  /\ e # {} \/ s # {} \/ tried = <<>> => Selected(base, patch) = NoParams
               /\ e = {} /\ s = {} /\ tried # <<>> => Selected(base, patch) = First(tried)
<1> DEFINE e == Texts(base, patch, "ensemble_spec")
           s == Texts(base, patch, "model_spec")
           tried == Tried(Offered(base, patch))
<1>1. \A h : Texts(base, patch, h) = {} <=> Owner(base, patch, h) = {}
  BY DEF Texts
<1>2. e = {} /\ s = {} <=> Owner(base, patch, "ensemble_spec") \cup Owner(base, patch, "model_spec") = {}
  BY <1>1
<1>3. Selected(base, patch) =
          IF Owner(base, patch, "ensemble_spec") \cup Owner(base, patch, "model_spec") # {} \/ tried = <<>>
          THEN NoParams ELSE First(tried)
  BY DEF Selected, First, Tried
<1> HIDE DEF e, s, tried
<1>4. e # {} \/ s # {} \/ tried = <<>> => Selected(base, patch) = NoParams
  BY <1>2, <1>3
<1>5. e = {} /\ s = {} /\ tried # <<>> => Selected(base, patch) = First(tried)
  BY <1>2, <1>3
<1> QED
  BY <1>4, <1>5 DEF e, s, tried

(* Of one candidate that one is tried, and selected.                       *)
LEMMA OneCandidate ==
    ASSUME CompositionAssumption, NEW x
    PROVE  Tried(<<x>>) # <<>> /\ First(Tried(<<x>>)) = x
<1>1. PICK s : s = <<x>>
  OBVIOUS
<1>2. s \in Seq({x}) /\ Len(s) = 1 /\ s[1] = x
  BY <1>1
<1>3. Min({MaxCandidates, Len(s)}) = 1
  <2> DEFINE T == {MaxCandidates, Len(s)}
  <2>1. MaxCandidates \in Nat /\ MaxCandidates >= 1
    BY DEF CompositionAssumption
  <2>2. T \subseteq Nat /\ T # {} /\ 1 \in T /\ \A k \in T : k >= 1
    BY <1>2, <2>1
  <2> HIDE DEF T
  <2>3. Min(T) \in T /\ Min(T) <= 1
    BY <2>2, MinIsLeast
  <2>4. Min(T) \in Nat /\ Min(T) >= 1
    BY <2>2, <2>3
  <2>5. Min(T) = 1
    BY <2>3, <2>4
  <2> QED
    BY <2>5 DEF T
<1>4. PICK u : u = SubSeq(s, 1, 1)
  OBVIOUS
<1>5. u \in Seq({x}) /\ Len(u) = 1 /\ u[1] = x
  BY <1>2, <1>4, SubSeqProperties
<1>6. DOMAIN u = {1} /\ u # <<>>
  <2>1. DOMAIN u = 1..1
    BY <1>5, LenProperties
  <2>2. Len(u) # 0
    BY <1>5
  <2> QED
    BY <2>1, <2>2
<1> DEFINE top == {i \in DOMAIN u : \A j \in DOMAIN u \ {i} : Rank[u[j]] <= Rank[u[i]]}
<1>7. top = {1}
  BY <1>6
<1>8. Min(top) = 1
  <2>1. Min({1}) \in {1}
    BY MinIsLeast
  <2> QED
    BY <1>7, <2>1
<1>9. First(u) = x
  BY <1>5, <1>8 DEF First
<1>10. Tried(<<x>>) = u
  BY <1>1, <1>3, <1>4 DEF Tried
<1> QED
  BY <1>6, <1>9, <1>10

(* A merge calls the models that the patch called on top of the base.      *)
LEMMA TextsMerged ==
    ASSUME CompositionAssumption, NEW base, NEW patch, Fits(base, patch), NEW h \in ModelHooks
    PROVE  Texts(NoBase, AsPatch(Merge(base, patch)), h) = Texts(base, patch, h)
<1> DEFINE m == Merge(base, patch)
           F == m.members
           bm == base.members
           pm == patch.members
           n == Plain(h)
<1>1. /\ Defines(F, h) <=> \/ Defines(pm, h)
                           \/ Defines(bm, h) /\ ~Suppresses(pm, h)
      /\ Defines(F, h) => F[n] = IF Defines(pm, h) THEN pm[n] ELSE bm[n]
  BY MergedModel
<1>2. /\ \A x \in DOMAIN bm : bm[x][1] = "own" => Runs(F, bm[x][2]) = Runs(bm, bm[x][2])
      /\ \A x \in DOMAIN pm : Runs(F, pm[x][2]) = Runs(pm, pm[x][2])
  BY RunsKept
<1>3. n \in DOMAIN bm => bm[n][1] = "own"
  <2> SUFFICES ASSUME n \in DOMAIN bm PROVE bm[n][1] = "own"
    OBVIOUS
  <2>1. n[1] = h /\ h \notin Composable /\ h # "param_candidates"
    BY PlainHook DEF ModelHooks, Composable
  <2>2. WellFormed(bm)
    BY DEF Fits
  <2> HIDE DEF n, bm
  <2>3. bm[n][1] = "both" \/ bm[n][1] = "own"
    BY <2>1, <2>2, OwnMember
  <2>4. bm[n][1] = "both" => n[1] \in Composable
    BY <2>2, Kinds
  <2> QED
    BY <2>1, <2>3, <2>4
<1>4. Owner(NoBase, AsPatch(m), h) = IF Defines(F, h) THEN {F} ELSE {}
  BY AloneOwner
<1>5. Owner(base, patch, h) = IF Defines(pm, h) THEN {pm}
                              ELSE IF Defines(bm, h) /\ ~Suppresses(pm, h) THEN {bm} ELSE {}
  BY DEF Owner
<1> DEFINE made == Texts(NoBase, AsPatch(m), h)
           had == Texts(base, patch, h)
           r(x) == Runs(x, x[n][2])
<1>6. made = {r(x) : x \in Owner(NoBase, AsPatch(m), h)} /\ had = {r(x) : x \in Owner(base, patch, h)}
  BY DEF Texts
<1>7. Defines(pm, h) => Runs(F, pm[n][2]) = Runs(pm, pm[n][2])
  BY <1>2 DEF Defines
<1>8. Defines(bm, h) => Runs(F, bm[n][2]) = Runs(bm, bm[n][2])
  BY <1>2, <1>3 DEF Defines
<1> HIDE DEF made, had, F, m, bm, pm, n
<1>9. CASE Defines(pm, h)
  <2>1. Owner(NoBase, AsPatch(m), h) = {F} /\ Owner(base, patch, h) = {pm} /\ F[n] = pm[n]
    BY <1>1, <1>4, <1>5, <1>9
  <2>2. made = {r(F)} /\ had = {r(pm)}
    BY <1>6, <2>1
  <2>3. r(F) = r(pm)
    BY <1>7, <1>9, <2>1
  <2> QED
    BY <2>2, <2>3 DEF made, had, m
<1>10. CASE ~Defines(pm, h) /\ Defines(bm, h) /\ ~Suppresses(pm, h)
  <2>1. Owner(NoBase, AsPatch(m), h) = {F} /\ Owner(base, patch, h) = {bm} /\ F[n] = bm[n]
    BY <1>1, <1>4, <1>5, <1>10
  <2>2. made = {r(F)} /\ had = {r(bm)}
    BY <1>6, <2>1
  <2>3. r(F) = r(bm)
    BY <1>8, <1>10, <2>1
  <2> QED
    BY <2>2, <2>3 DEF made, had, m
<1>11. CASE ~Defines(pm, h) /\ ~(Defines(bm, h) /\ ~Suppresses(pm, h))
  <2>1. Owner(NoBase, AsPatch(m), h) = {} /\ Owner(base, patch, h) = {}
    BY <1>1, <1>4, <1>5, <1>11
  <2>2. made = {} /\ had = {}
    BY <1>6, <2>1
  <2> QED
    BY <2>2 DEF made, had, m
<1> QED
  BY <1>9, <1>10, <1>11

(* The frozen list of a merge is all that it offers.                       *)
LEMMA FrozenOffered ==
    ASSUME NEW base, WellFormed(base.members), NEW patch, IsPatch(patch), patch.frozen # NoParams,
           Defines(Merge(base, patch).members, "param_candidates")
    PROVE  Offered(NoBase, AsPatch(Merge(base, patch))) = <<patch.frozen>>
<1> DEFINE m == Merge(base, patch)
           t == Together(base, patch)
<1>1. m.members = Freeze(t, patch.frozen)
  BY DEF Merge
<1>2. WellFormed(m.members)
  BY <1>1, TogetherWellFormed, FreezeWellFormed
<1>3. Offered(NoBase, AsPatch(m)) = Lists(m.members)
  BY AloneOffered
<1>4. PICK c : IsCalls(c, m.members, ListLeaf(m.members), "lists") /\ Lists(m.members) = c[Pc]
  BY <1>2, ListsIs DEF Pc
<1>5. Pc \in DOMAIN m.members
  BY DEF Defines, Pc
<1>6. m.members[Pc] = <<"only", patch.frozen>>
  <2>1. /\ DOMAIN Freeze(t, patch.frozen) \subseteq DOMAIN t
        /\ Pc \in DOMAIN t => Freeze(t, patch.frozen)[Pc] = <<"only", patch.frozen>>
    BY FreezeFacts
  <2> HIDE DEF m, t
  <2> QED
    BY <1>1, <1>5, <2>1
<1> HIDE DEF m
<1>7. m.members[Pc][1] = "only" /\ m.members[Pc][2] = patch.frozen
  BY <1>6
<1>8. c[Pc] = ListLeaf(m.members)[Pc]
  <2>1. \A n \in DOMAIN m.members : m.members[n][1] # "both" => c[n] = ListLeaf(m.members)[n]
    BY <1>4, CallsOf
  <2> QED
    BY <1>5, <1>7, <2>1
<1>9. ListLeaf(m.members)[Pc] = <<patch.frozen>>
  BY <1>5, <1>7 DEF ListLeaf
<1>10. Offered(NoBase, AsPatch(m)) = <<patch.frozen>>
  BY <1>3, <1>4, <1>8, <1>9
<1> QED
  BY <1>10 DEF m

(* So it runs the model that the patch ran, on the same parameters.        *)
LEMMA ModelMerged ==
    ASSUME CompositionAssumption, NEW base, NEW patch, Fits(base, patch),
           patch.frozen \in {NoParams, Selected(base, patch)},
           LET h == "param_candidates"
           IN  Defines(patch.members, h) /\ Composes(base, patch, h)
                  /\ base.members[Plain(h)] = patch.members[Plain(h)] => ~Repeats(patch.members)
    PROVE  Model(NoBase, AsPatch(Merge(base, patch))) = Model(base, patch)
<1> DEFINE m == Merge(base, patch)
           a == AsPatch(m)
           e == Texts(base, patch, "ensemble_spec")
           s == Texts(base, patch, "model_spec")
           b == Texts(base, patch, "build_model")
           offered == Offered(base, patch)
           merged == Offered(NoBase, a)
           sel == Selected(base, patch)
           made == Selected(NoBase, a)
<1>1. /\ Texts(NoBase, a, "ensemble_spec") = e
      /\ Texts(NoBase, a, "model_spec") = s
      /\ Texts(NoBase, a, "build_model") = b
  BY TextsMerged DEF ModelHooks
<1>2. /\ Model(base, patch) = Modelled(e, s, b, offered, sel)
      /\ Model(NoBase, a) = Modelled(e, s, b, merged, made)
  BY <1>1, ModelIs
<1>3. /\ e # {} \/ s # {} \/ Tried(offered) = <<>> => sel = NoParams
      /\ e = {} /\ s = {} /\ Tried(offered) # <<>> => sel = First(Tried(offered))
  BY SelectedIs
<1>4. /\ e # {} \/ s # {} \/ Tried(merged) = <<>> => made = NoParams
      /\ e = {} /\ s = {} /\ Tried(merged) # <<>> => made = First(Tried(merged))
  BY <1>1, SelectedIs
<1>5. CASE patch.frozen = NoParams
  <2>1. merged = offered
    BY <1>5, OfferedMerged
  <2> HIDE DEF a, e, s, b, offered, merged, sel, made
  <2>2. made = sel
    BY <1>3, <1>4, <2>1
  <2> QED
    BY <1>2, <2>1, <2>2 DEF a, m
<1>6. CASE patch.frozen # NoParams
  <2>1. patch.frozen = sel /\ sel # NoParams
    BY <1>6
  <2>2. e = {} /\ s = {}
    <3> HIDE DEF e, s, b, offered, merged, sel, made
    <3> QED
      BY <1>3, <2>1
  <2>3. made = sel
    <3>1. CASE Defines(m.members, "param_candidates")
      <4>1. merged = <<sel>>
        BY <2>1, <3>1, FrozenOffered DEF Fits
      <4>2. Tried(<<sel>>) # <<>> /\ First(Tried(<<sel>>)) = sel
        BY OneCandidate
      <4> QED
        BY <1>4, <2>2, <4>1, <4>2
    <3>2. CASE ~Defines(m.members, "param_candidates")
      <4>1. ~Defines(base.members, "param_candidates") /\ ~Defines(patch.members, "param_candidates")
        <5>1. Pc \in DOMAIN Together(base, patch) <=> Pc \in DOMAIN m.members
          <6>1. Pc[2] = ""
            BY PlainRole DEF Pc
          <6>2. m.members = Freeze(Together(base, patch), patch.frozen)
            BY DEF Merge
          <6> HIDE DEF m
          <6> DEFINE T == Together(base, patch)
                     F == Freeze(T, patch.frozen)
          <6>3. DOMAIN F \subseteq DOMAIN T /\ (Pc \in DOMAIN T => Pc \in DOMAIN F)
            BY <6>1, FreezeFacts
          <6>4. DOMAIN m.members = DOMAIN F
            BY <6>2
          <6> HIDE DEF F
          <6> QED
            BY <6>3, <6>4
        <5>2. Pc \in Known(base, patch) => Pc \in DOMAIN Together(base, patch)
          <6>1. Pc \notin Dropped(patch.members)
            BY DroppedFacts, PlainHook DEF Pc
          <6> QED
            BY <6>1, TogetherNames
        <5> HIDE DEF m
        <5> QED
          BY <3>2, <5>1, <5>2 DEF Defines, Pc, Known
      <4>2. offered = <<NoParams>>
        BY <4>1 DEF Offered
      <4>3. Tried(<<NoParams>>) # <<>> /\ First(Tried(<<NoParams>>)) = NoParams
        BY OneCandidate
      <4> HIDE DEF sel, offered, e, s
      <4>4. sel = NoParams
        BY <1>3, <2>2, <4>2, <4>3
      <4> QED
        BY <2>1, <4>4
    <3> QED
      BY <3>1, <3>2
  <2> HIDE DEF e, s, b, offered, merged, sel, made
  <2>4. Modelled(e, s, b, merged, made) = Modelled(e, s, b, offered, sel)
    BY <2>2, <2>3 DEF Modelled
  <2> QED
    BY <1>2, <2>4 DEF a, m
<1> QED
  BY <1>5, <1>6

(* What a class on its own does.                                           *)
LEMMA AloneDoes ==
    ASSUME NEW m
    PROVE  Alone(m) = [pre   |-> Chain(m.members, "preprocess"),
                       feats |-> Features(m.members),
                       model |-> Model(NoBase, AsPatch(m)),
                       post  |-> Chain(m.members, "postprocess_predictions")]
<1>1. AsPatch(m).members = m.members
  BY DEF AsPatch
<1>2. \A h : ~Defines(NoBase.members, h)
  BY NothingDefined
<1>3. ASSUME NEW h
      PROVE  Sequential(NoBase, AsPatch(m), h) = Chain(m.members, h)
  <2>1. CASE Defines(m.members, h)
    BY <1>1, <1>2, <2>1 DEF Sequential, Composes
  <2>2. CASE ~Defines(m.members, h)
    <3>1. Chain(m.members, h) = <<>> /\ Chain(NoBase.members, h) = <<>>
      BY <1>2, <2>2 DEF Chain
    <3> QED
      BY <1>1, <2>2, <3>1 DEF Sequential
  <2> QED
    BY <2>1, <2>2
<1>4. Columned(NoBase, AsPatch(m)) = Features(m.members)
  <2>1. CASE Defines(m.members, "feature_transform")
    BY <1>1, <1>2, <2>1 DEF Columned, Composes
  <2>2. CASE ~Defines(m.members, "feature_transform")
    <3>1. Features(m.members) = Nothing /\ Features(NoBase.members) = Nothing
      BY <1>2, <2>2 DEF Features
    <3> QED
      BY <1>1, <2>2, <3>1 DEF Columned
  <2> QED
    BY <2>1, <2>2
<1> QED
  BY <1>3, <1>4 DEF Alone, Does

(* An attempt does not know which parameters a promotion will freeze.      *)
LEMMA FrozenLater ==
    ASSUME NEW base, NEW p, NEW frozen
    PROVE  /\ Does(base, Source(p, frozen)) = Does(base, Source(p, NoParams))
           /\ Selected(base, Source(p, frozen)) = Selected(base, Source(p, NoParams))
<1> DEFINE x == Source(p, frozen)
           y == Source(p, NoParams)
<1>1. x.members = y.members /\ x.override = y.override
  BY DEF Source
<1> HIDE DEF x, y
<1>2. \A h : (Composes(base, x, h) <=> Composes(base, y, h)) /\ Owner(base, x, h) = Owner(base, y, h)
  BY <1>1 DEF Composes, Owner
<1>3. \A h : Sequential(base, x, h) = Sequential(base, y, h)
  BY <1>1, <1>2 DEF Sequential
<1>4. Columned(base, x) = Columned(base, y)
  BY <1>1, <1>2 DEF Columned
<1>5. Offered(base, x) = Offered(base, y)
  BY <1>1, <1>2 DEF Offered
<1>6. \A h : Texts(base, x, h) = Texts(base, y, h)
  BY <1>2 DEF Texts
<1>7. Selected(base, x) = Selected(base, y)
  <2> DEFINE e == Texts(base, x, "ensemble_spec")
             s == Texts(base, x, "model_spec")
             tried == Tried(Offered(base, x))
  <2>1. /\ e # {} \/ s # {} \/ tried = <<>> => Selected(base, x) = NoParams
        /\ e = {} /\ s = {} /\ tried # <<>> => Selected(base, x) = First(tried)
    BY SelectedIs
  <2>2. e = Texts(base, y, "ensemble_spec") /\ s = Texts(base, y, "model_spec")
        /\ tried = Tried(Offered(base, y))
    BY <1>5, <1>6
  <2> HIDE DEF e, s, tried
  <2>3. /\ e # {} \/ s # {} \/ tried = <<>> => Selected(base, y) = NoParams
        /\ e = {} /\ s = {} /\ tried # <<>> => Selected(base, y) = First(tried)
    BY <2>2, SelectedIs
  <2> QED
    BY <2>1, <2>3
<1>8. Model(base, x) = Model(base, y)
  BY <1>5, <1>6, <1>7, ModelIs
<1> QED
  BY <1>3, <1>4, <1>7, <1>8 DEF Does, x, y

(* One promotion.                                                          *)
LEMMA MergeDoes ==
    ASSUME CompositionAssumption, NEW base, WellFormed(base.members), SharedOK(base.members),
           NEW p \in Patches, NEW frozen \in {NoParams, Selected(base, Source(p, NoParams))},
           ~Restates(base, Source(p, NoParams)), ~Shadows(base, Source(p, NoParams))
    PROVE  Alone(Merge(base, Source(p, frozen))) = Does(base, Source(p, NoParams))
<1> DEFINE patch == Source(p, frozen)
           x == Source(p, NoParams)
           m == Merge(base, patch)
<1>1. patch.members = x.members /\ patch.override = x.override /\ patch.frozen = frozen
  BY DEF Source
<1>2. IsPatch(patch) /\ SharedOK(patch.members)
  BY SourceIsPatch, SourceShared
<1>3. Fits(base, patch)
  <2> HIDE DEF patch, x
  <2> QED
    BY <1>1, <1>2 DEF Fits, Shadows, x
<1>4. \A h \in {"preprocess", "postprocess_predictions", "param_candidates"} :
          Defines(patch.members, h) /\ Composes(base, patch, h)
             /\ base.members[Plain(h)] = patch.members[Plain(h)]
          => h = "param_candidates" /\ ~Repeats(patch.members)
  <2> HIDE DEF patch, x
  <2> QED
    BY <1>1 DEF Restates, Composes, x
<1>5. patch.frozen \in {NoParams, Selected(base, patch)}
  BY <1>1, FrozenLater
<1>6. Does(base, patch) = Does(base, x)
  BY FrozenLater
<1> HIDE DEF patch, x
<1>7. ASSUME NEW h \in Chained
      PROVE  Chain(m.members, h) = Sequential(base, patch, h)
  <2>1. h \in {"preprocess", "postprocess_predictions", "param_candidates"} /\ h # "param_candidates"
    BY DEF Chained
  <2>2. Defines(patch.members, h) /\ Composes(base, patch, h) =>
            base.members[Plain(h)] # patch.members[Plain(h)]
    BY <1>4, <2>1
  <2> QED
    BY <1>3, <2>2, ChainMerged
<1>8. Features(m.members) = Columned(base, patch)
  BY <1>3, FeaturesMerged
<1>9. Model(NoBase, AsPatch(m)) = Model(base, patch)
  <2>1. LET h == "param_candidates"
        IN  Defines(patch.members, h) /\ Composes(base, patch, h)
               /\ base.members[Plain(h)] = patch.members[Plain(h)] => ~Repeats(patch.members)
    BY <1>4
  <2> QED
    BY <1>3, <1>5, <2>1, ModelMerged
<1> HIDE DEF m
<1>10. Chain(m.members, "preprocess") = Sequential(base, patch, "preprocess")
  BY <1>7 DEF Chained
<1>11. Chain(m.members, "postprocess_predictions") = Sequential(base, patch, "postprocess_predictions")
  BY <1>7 DEF Chained
<1>12. Alone(m) = Does(base, patch)
  BY <1>8, <1>9, <1>10, <1>11, AloneDoes DEF Does
<1> QED
  BY <1>6, <1>12 DEF m, patch, x

(* What rows make is well formed and has what its texts read.              *)
LEMMA BestIsSound ==
    ASSUME CompositionAssumption, CompositionInv
    PROVE  WellFormed(best.members) /\ SharedOK(best.members)
<1>1. RowsOK(layers) /\ best = Replay(layers) /\ Len(layers) \in Nat
  BY RowsFacts DEF CompositionInv, ReplayReproduces
<1>2. PICK f : IsReplay(f, layers) /\ Replay(layers) = f[Len(layers)]
  BY <1>1, ReplayIs
<1>3. Len(layers) \in 0..Len(layers)
  BY <1>1
<1>4. WellFormed(f[Len(layers)].members) /\ SharedOK(f[Len(layers)].members)
  BY <1>1, <1>2, <1>3, ReplayWellFormed, ReplayShared
<1> QED
  BY <1>1, <1>2, <1>4

(* The step that promotes.                                                 *)
LEMMA MeasuredStep ==
    ASSUME CompositionAssumption, CompositionInv, [Next]_vars, Promoted,
           ~Restates(best, NewPatch), ~Shadows(best, NewPatch)
    PROVE  Alone(best') = Does(best, NewPatch)
<1>1. RowsOK(layers) /\ best = Replay(layers)
  BY DEF CompositionInv, ReplayReproduces
<1>2. PICK p \in Patches : \E frozen :
          /\ NewPatch = Source(p, NoParams)
          /\ \/ best' = Merge(best, Source(p, frozen)) /\ Promote(p)
             \/ best' = Merge(NoBase, Source(p, frozen)) /\ Establish(p)
  BY <1>1, PromotedPatch
<1>3. NewPatch = Source(p, NoParams) /\ (Promote(p) \/ Establish(p))
  BY <1>2
<1>4. Promote(p) => best' = Merge(best, Source(p, Selected(best, Source(p, NoParams))))
  BY DEF Promote
<1>5. Establish(p) => best' = Merge(best, Source(p, NoParams))
  <2> SUFFICES ASSUME Establish(p) PROVE best' = Merge(best, Source(p, NoParams))
    OBVIOUS
  <2>1. Len(layers) \in Nat /\ DOMAIN layers = 1..Len(layers)
    BY <1>1, RowsFacts
  <2>2. best = NoBase
    BY <1>1, <2>1, ReplayNothing DEF Establish, Valid
  <2> QED
    BY <2>2 DEF Establish
<1>6. PICK frozen \in {NoParams, Selected(best, Source(p, NoParams))} :
          best' = Merge(best, Source(p, frozen))
  BY <1>3, <1>4, <1>5
<1>7. Alone(Merge(best, Source(p, frozen))) = Does(best, Source(p, NoParams))
  <2>1. ~Restates(best, Source(p, NoParams)) /\ ~Shadows(best, Source(p, NoParams))
    BY <1>3
  <2>2. WellFormed(best.members) /\ SharedOK(best.members)
    BY BestIsSound
  <2> QED
    BY <2>1, <2>2, MergeDoes
<1> QED
  BY <1>3, <1>6, <1>7

\* The baseline of materialize does what PatchedPipeline measured: for any
\* patches, in any chain of layers, with hooks composed, overridden and
\* suppressed, and with the parameters frozen that preselect_params chose.
THEOREM MergeDeploysMeasured == Spec => MeasuredIsDeployed
<1>1. CompositionInv /\ [Next]_vars =>
          [Promoted /\ ~Restates(best, NewPatch) /\ ~Shadows(best, NewPatch)
               => Alone(best') = Does(best, NewPatch)]_vars
  BY CompositionAssumption, MeasuredStep
<1> QED
  BY <1>1, CompositionInvariant, PTL DEF Spec, MeasuredIsDeployed

-----------------------------------------------------------------------------
(* The parameters that are selected.                                       *)

(* A set of numbers, and the set without its greatest.                     *)
LEMMA NumberSets ==
    ASSUME NEW n \in Nat, NEW S \in SUBSET (1..n)
    PROVE  /\ IsFiniteSet(S) /\ Cardinality(S) \in Nat /\ Cardinality(S) < n + 1
           /\ Cardinality(S) = 0 <=> S = {}
           /\ S # {} => /\ S \ {Max(S)} \in SUBSET (1..n)
                        /\ Cardinality(S \ {Max(S)}) = Cardinality(S) - 1
<1>1. IsFiniteSet(1..n) /\ Cardinality(1..n) = n
  BY FS_Interval
<1>2. IsFiniteSet(S) /\ Cardinality(S) <= Cardinality(1..n)
  BY <1>1, FS_Subset
<1>3. Cardinality(S) \in Nat
  BY <1>2, FS_CardinalityType
<1>4. Cardinality(S) = 0 <=> S = {}
  BY <1>2, FS_EmptySet
<1>5. ASSUME S # {}
      PROVE  S \ {Max(S)} \in SUBSET (1..n) /\ Cardinality(S \ {Max(S)}) = Cardinality(S) - 1
  <2>1. Max(S) \in S
    BY <1>5, MaxIsGreatest
  <2>2. Cardinality(S \ {Max(S)}) = Cardinality(S) - 1
    BY <1>2, <2>1, FS_RemoveElement
  <2> QED
    BY <2>2
<1>6. Cardinality(S) < n + 1
  BY <1>1, <1>2, <1>3
<1> QED
  BY <1>2, <1>3, <1>4, <1>5, <1>6

(* What holds of a set of numbers if it holds without its greatest, holds  *)
(* of all of them.                                                         *)
LEMMA SubsetInduction ==
    ASSUME NEW n \in Nat, NEW P, {} \in P,
           \A S \in SUBSET (1..n) : S # {} /\ S \ {Max(S)} \in P => S \in P
    PROVE  SUBSET (1..n) \subseteq P
<1> DEFINE K == {k \in Nat : \A S \in SUBSET (1..n) : Cardinality(S) = k => S \in P}
<1>1. \A S \in SUBSET (1..n) : Cardinality(S) \in Nat /\ (Cardinality(S) = 0 <=> S = {})
  BY NumberSets
<1>2. 0 \in K
  BY <1>1
<1>3. ASSUME NEW k \in Nat, k \in K
      PROVE  k + 1 \in K
  <2> SUFFICES ASSUME NEW S \in SUBSET (1..n), Cardinality(S) = k + 1 PROVE S \in P
    OBVIOUS
  <2>1. S # {}
    BY <1>1
  <2>2. S \ {Max(S)} \in SUBSET (1..n) /\ Cardinality(S \ {Max(S)}) = Cardinality(S) - 1
    BY <2>1, NumberSets
  <2>3. S \ {Max(S)} \in P
    BY <1>3, <2>2
  <2> QED
    BY <2>1, <2>3
<1> HIDE DEF K
<1>4. Nat \subseteq K
  BY <1>2, <1>3, Induction
<1> QED
  BY <1>1, <1>4 DEF K

\* What _union_param_candidates keeps of the candidates at some places.
IsUnion(u, all) ==
    u = [S \in SUBSET DOMAIN all |->
            IF S = {} THEN <<>>
            ELSE IF all[Max(S)] \in Range(u[S \ {Max(S)}]) THEN u[S \ {Max(S)}]
            ELSE Append(u[S \ {Max(S)}], all[Max(S)])]

(* It is defined.                                                          *)
LEMMA UnionExists ==
    ASSUME NEW all, NEW n \in Nat, DOMAIN all = 1..n
    PROVE  \E u : IsUnion(u, all)
<1> DEFINE D == SUBSET DOMAIN all
           next(u, S) == IF S = {} THEN <<>>
                         ELSE IF all[Max(S)] \in Range(u[S \ {Max(S)}]) THEN u[S \ {Max(S)}]
                         ELSE Append(u[S \ {Max(S)}], all[Max(S)])
           below(k) == {S \in D : Cardinality(S) < k}
           partly(u, k) == u = [S \in below(k) |-> u[S]] /\ \A S \in below(k) : u[S] = next(u, S)
           K == {k \in Nat : \E u : partly(u, k)}
<1>0. D = SUBSET (1..n)
  OBVIOUS
<1>1. \A S \in D : Cardinality(S) \in Nat /\ Cardinality(S) < n + 1
  BY <1>0, NumberSets
<1>2. \A S \in D : S # {} => S \ {Max(S)} \in D /\ Cardinality(S \ {Max(S)}) = Cardinality(S) - 1
  BY <1>0, NumberSets
<1>3. 0 \in K
  <2>1. below(0) = {}
    BY <1>1
  <2> DEFINE u == [S \in below(0) |-> S]
  <2>2. u = [S \in below(0) |-> u[S]]
    OBVIOUS
  <2>3. partly(u, 0)
    BY <2>1, <2>2
  <2> QED
    BY <2>3
<1>4. ASSUME NEW k \in Nat, k \in K
      PROVE  k + 1 \in K
  <2>1. PICK u : partly(u, k)
    BY <1>4
  <2> DEFINE v == [S \in below(k + 1) |-> next(u, S)]
  <2>2. below(k) \subseteq below(k + 1)
    BY <1>1
  <2>3. ASSUME NEW S \in below(k + 1), S # {}
        PROVE  S \ {Max(S)} \in below(k)
    <3> DEFINE R == S \ {Max(S)}
    <3>1. S \in D /\ Cardinality(S) < k + 1 /\ Cardinality(S) \in Nat
      BY <1>1
    <3>2. R \in D /\ Cardinality(R) = Cardinality(S) - 1
      BY <1>2, <2>3, <3>1
    <3> HIDE DEF R, D
    <3>3. Cardinality(R) < k
      BY <3>1, <3>2
    <3>4. R \in below(k)
      BY <3>2, <3>3
    <3> QED
      BY <3>4 DEF R
  <2> HIDE DEF below
  <2>4. \A S \in below(k) : v[S] = u[S]
    <3> HIDE DEF next
    <3> QED
      BY <2>1, <2>2
  <2>5. \A S \in below(k + 1) : next(u, S) = next(v, S)
    <3> SUFFICES ASSUME NEW S \in below(k + 1) PROVE next(u, S) = next(v, S)
      OBVIOUS
    <3>1. CASE S = {}
      BY <3>1
    <3>2. CASE S # {}
      <4>1. v[S \ {Max(S)}] = u[S \ {Max(S)}]
        BY <2>3, <2>4, <3>2
      <4> HIDE DEF v
      <4> QED
        BY <4>1
    <3> QED
      BY <3>1, <3>2
  <2>6. v = [S \in below(k + 1) |-> v[S]] /\ \A S \in below(k + 1) : v[S] = next(u, S)
    OBVIOUS
  <2> HIDE DEF v, next
  <2>7. partly(v, k + 1)
    BY <2>5, <2>6
  <2> QED
    BY <2>7
<1> HIDE DEF K
<1>5. Nat \subseteq K
  BY <1>3, <1>4, Induction
<1>6. n + 1 \in K
  BY <1>5
<1>7. below(n + 1) = D
  BY <1>1
<1> HIDE DEF partly
<1>8. PICK u : partly(u, n + 1)
  BY <1>6 DEF K
<1> HIDE DEF below, D
<1>9. u = [S \in D |-> u[S]] /\ \A S \in D : u[S] = next(u, S)
  BY <1>7, <1>8 DEF partly
<1> HIDE DEF next
<1>10. [S \in D |-> u[S]] = [S \in D |-> next(u, S)]
  BY <1>9
<1>11. u = [S \in D |-> next(u, S)]
  BY <1>9, <1>10
<1> QED
  BY <1>11 DEF next, D, IsUnion

(* Union is all that it keeps.                                             *)
LEMMA UnionIs ==
    ASSUME NEW s, NEW t, \E u : IsUnion(u, s \o t)
    PROVE  \E u : IsUnion(u, s \o t) /\ Union(s, t) = u[DOMAIN (s \o t)]
<1> DEFINE all == s \o t
           u == CHOOSE u : IsUnion(u, all)
<1>1. IsUnion(u, all)
  OBVIOUS
<1>2. Union(s, t) = u[DOMAIN all]
  BY DEF Union, FoldLeft, MapThenFoldSet, IsUnion
<1> QED
  BY <1>1, <1>2

(* The union of lists is a list of their candidates, and it is not empty   *)
(* unless they are.                                                        *)
LEMMA UnionFacts ==
    ASSUME NEW X, NEW s \in Seq(X), NEW t \in Seq(X)
    PROVE  Union(s, t) \in Seq(X) /\ (s # <<>> => Union(s, t) # <<>>)
<1>1. PICK all : all = s \o t
  OBVIOUS
<1>2. all \in Seq(X) /\ Len(all) = Len(s) + Len(t) /\ Len(s) \in Nat /\ Len(t) \in Nat
  BY <1>1, ConcatProperties, LenProperties
<1>3. PICK n \in Nat : n = Len(all)
  BY <1>2
<1>4. DOMAIN all = 1..n /\ \A i \in 1..n : all[i] \in X
  BY <1>2, <1>3, LenProperties, ElementOfSeq
<1>5. \E u : IsUnion(u, s \o t)
  BY <1>1, <1>4, UnionExists
<1>6. PICK u : IsUnion(u, s \o t) /\ Union(s, t) = u[DOMAIN (s \o t)]
  BY <1>5, UnionIs
<1>7. IsUnion(u, all) /\ Union(s, t) = u[1..n]
  BY <1>1, <1>4, <1>6
<1> DEFINE P == {S \in SUBSET (1..n) : u[S] \in Seq(X) /\ (S # {} => u[S] # <<>>)}
<1>8. \A S \in SUBSET (1..n) :
          u[S] = IF S = {} THEN <<>>
                 ELSE IF all[Max(S)] \in Range(u[S \ {Max(S)}]) THEN u[S \ {Max(S)}]
                 ELSE Append(u[S \ {Max(S)}], all[Max(S)])
  BY <1>4, <1>7 DEF IsUnion
<1>9. {} \in P
  <2>1. u[{}] = <<>>
    BY <1>8
  <2>2. <<>> \in Seq(X)
    OBVIOUS
  <2> QED
    BY <2>1, <2>2
<1>10. ASSUME NEW S \in SUBSET (1..n), S # {}, S \ {Max(S)} \in P
       PROVE  S \in P
  <2> DEFINE x == all[Max(S)]
             v == u[S \ {Max(S)}]
  <2>1. Max(S) \in 1..n
    BY <1>10, MaxIsGreatest
  <2>2. x \in X /\ v \in Seq(X)
    BY <1>4, <1>10, <2>1
  <2>3. u[S] = IF x \in Range(v) THEN v ELSE Append(v, x)
    BY <1>8, <1>10
  <2> HIDE DEF x, v
  <2>4. CASE x \in Range(v)
    <3>1. v # <<>>
      <4> SUFFICES ASSUME v = <<>> PROVE FALSE
        OBVIOUS
      <4>1. DOMAIN v = {}
        OBVIOUS
      <4> QED
        BY <2>4, <4>1 DEF Range
    <3> QED
      BY <2>2, <2>3, <2>4, <3>1
  <2>5. CASE x \notin Range(v)
    <3>1. Append(v, x) \in Seq(X) /\ Append(v, x) # <<>>
      BY <2>2, AppendProperties
    <3> QED
      BY <2>3, <2>5, <3>1
  <2> QED
    BY <2>4, <2>5
<1> HIDE DEF P
<1>11. SUBSET (1..n) \subseteq P
  BY <1>9, <1>10, SubsetInduction
<1>12. Union(s, t) \in Seq(X) /\ (1..n # {} => Union(s, t) # <<>>)
  BY <1>7, <1>11 DEF P
<1>13. s # <<>> => 1..n # {}
  <2> SUFFICES ASSUME s # <<>> PROVE 1 \in 1..n
    OBVIOUS
  <2>1. Len(s) # 0
    BY EmptySeq
  <2> QED
    BY <1>2, <1>3, <2>1
<1> QED
  BY <1>12, <1>13

\* Parameters that are not {}.
Proper == DOMAIN Rank \ {NoParams}

(* Some number is the greatest of finitely many.                           *)
LEMMA GreatestExists ==
    ASSUME NEW r, NEW n \in Nat, n >= 1, \A i \in 1..n : r[i] \in Int
    PROVE  \E i \in 1..n : \A j \in 1..n : r[j] <= r[i]
<1> DEFINE K == {k \in Nat : k >= 1 /\ k <= n => \E i \in 1..k : \A j \in 1..k : r[j] <= r[i]}
<1>1. 0 \in K
  OBVIOUS
<1>2. ASSUME NEW k \in Nat, k \in K
      PROVE  k + 1 \in K
  <2> SUFFICES ASSUME k + 1 <= n
               PROVE  \E i \in 1..(k + 1) : \A j \in 1..(k + 1) : r[j] <= r[i]
    OBVIOUS
  <2>0. \A j \in 1..(k + 1) : j \in 1..n /\ r[j] \in Int /\ (j \in 1..k \/ j = k + 1)
    OBVIOUS
  <2>1. CASE k = 0
    BY <2>0, <2>1
  <2>2. CASE k # 0
    <3>1. PICK i \in 1..k : \A j \in 1..k : r[j] <= r[i]
      BY <1>2, <2>2
    <3>2. CASE r[k + 1] <= r[i]
      BY <2>0, <3>1, <3>2
    <3>3. CASE ~(r[k + 1] <= r[i])
      <4>1. i \in 1..(k + 1) /\ k + 1 \in 1..(k + 1)
        OBVIOUS
      <4>2. \A j \in 1..(k + 1) : r[j] <= r[k + 1]
        <5> SUFFICES ASSUME NEW j \in 1..(k + 1) PROVE r[j] <= r[k + 1]
          OBVIOUS
        <5>1. r[j] \in Int /\ r[i] \in Int /\ r[k + 1] \in Int
          BY <2>0, <4>1
        <5>2. CASE j \in 1..k
          BY <3>1, <3>3, <5>1, <5>2
        <5>3. CASE j = k + 1
          BY <5>1, <5>3
        <5> QED
          BY <2>0, <5>2, <5>3
      <4> QED
        BY <4>1, <4>2
    <3> QED
      BY <3>2, <3>3
  <2> QED
    BY <2>1, <2>2
<1> HIDE DEF K
<1>3. n \in K
  BY <1>1, <1>2, Induction
<1> QED
  BY <1>3 DEF K

(* What is selected of the candidates that are tried is one of them.       *)
LEMMA FirstIsTried ==
    ASSUME CompositionAssumption, NEW X, X \subseteq DOMAIN Rank, NEW s \in Seq(X), s # <<>>
    PROVE  First(s) \in X
<1>1. Len(s) \in Nat /\ Len(s) >= 1 /\ DOMAIN s = 1..Len(s) /\ \A i \in 1..Len(s) : s[i] \in X
  BY EmptySeq, LenProperties, ElementOfSeq
<1> DEFINE r == [i \in 1..Len(s) |-> Rank[s[i]]]
           top == {i \in DOMAIN s : \A j \in DOMAIN s \ {i} : Rank[s[j]] <= Rank[s[i]]}
<1>2. \A i \in 1..Len(s) : r[i] \in Int
  BY <1>1 DEF CompositionAssumption
<1> HIDE DEF r
<1>3. PICK i \in 1..Len(s) : \A j \in 1..Len(s) : r[j] <= r[i]
  BY <1>1, <1>2, GreatestExists
<1>4. i \in top
  BY <1>1, <1>3 DEF r
<1>5. top \subseteq Nat /\ top # {} /\ top \subseteq 1..Len(s)
  BY <1>1, <1>4
<1>6. First(s) = s[Min(top)]
  BY DEF First
<1> HIDE DEF top
<1>7. Min(top) \in top
  BY <1>5, MinIsLeast
<1> QED
  BY <1>1, <1>5, <1>6, <1>7

(* Of a list something is tried.                                           *)
LEMMA TriedFacts ==
    ASSUME CompositionAssumption, NEW X, NEW s \in Seq(X), s # <<>>
    PROVE  Tried(s) \in Seq(X) /\ Tried(s) # <<>>
<1> DEFINE T == {MaxCandidates, Len(s)}
           m == Min(T)
           u == SubSeq(s, 1, m)
<1>1. Len(s) \in Nat /\ Len(s) >= 1 /\ MaxCandidates \in Nat /\ MaxCandidates >= 1
  BY EmptySeq, LenProperties DEF CompositionAssumption
<1>2. T \subseteq Nat /\ T # {} /\ Len(s) \in T /\ \A x \in T : x >= 1
  BY <1>1
<1>3. Tried(s) = u
  BY DEF Tried
<1> HIDE DEF T
<1>4. m \in T /\ m <= Len(s)
  BY <1>2, MinIsLeast
<1> HIDE DEF m
<1>10. m \in Nat /\ m >= 1 /\ m <= Len(s)
  BY <1>2, <1>4
<1>5. m \in 1..Len(s)
  BY <1>1, <1>10
<1>6. u \in Seq(X) /\ Len(u) = IF 1 <= m THEN m - 1 + 1 ELSE 0
  <2>1. \A i \in 1..m : s[i] \in X
    BY <1>1, <1>5, ElementOfSeq
  <2>2. m \in 1..(Len(s) + 1) /\ 1 \in 1..(Len(s) + 1) /\ m \in 0..Len(s)
    BY <1>1, <1>5
  <2> QED
    BY <1>1, <1>5, <2>2, SubSeqProperties
<1>7. Len(u) # 0
  BY <1>1, <1>5, <1>6
<1>8. u # <<>>
  <2> HIDE DEF u
  <2> QED
    BY <1>7
<1> QED
  BY <1>3, <1>6, <1>8

\* Every list of a class, that of a patch or the frozen one, is one of S.
ListsIn(members, S) ==
    \A n \in DOMAIN members : n[1] = "param_candidates" =>
        /\ members[n][1] = "own" => Candidates[members[n][2]] \in S
        /\ members[n][1] = "only" => <<members[n][2]>> \in S

\* Lists of parameters, and those that are not empty and without {}.
AnyLists    == Seq(DOMAIN Rank)
ProperLists == Seq(Proper) \ {<<>>}
Closed(S)   == \A x, y \in S : Union(x, y) \in S

(* The union of such lists is such a list.                                 *)
LEMMA ListsAreClosed == Closed(AnyLists) /\ Closed(ProperLists)
<1>1. \A x, y \in Seq(DOMAIN Rank) : Union(x, y) \in Seq(DOMAIN Rank)
  BY UnionFacts
<1>2. \A x, y \in Seq(Proper) \ {<<>>} : Union(x, y) \in Seq(Proper) \ {<<>>}
  BY UnionFacts
<1> QED
  BY <1>1, <1>2 DEF Closed, AnyLists, ProperLists

(* So wrappers return such lists too.                                      *)
LEMMA ListsReturned ==
    ASSUME NEW members, WellFormed(members), NEW S, Closed(S), ListsIn(members, S),
           Defines(members, "param_candidates")
    PROVE  Lists(members) \in S
<1>1. PICK c : IsCalls(c, members, ListLeaf(members), "lists") /\ Lists(members) = c[Pc]
  BY ListsIs DEF Pc
<1> DEFINE P == {n \in DOMAIN members : n[1] = "param_candidates" => c[n] \in S}
<1>2. ASSUME NEW n \in DOMAIN members, members[n][1] = "both" => members[n][2] \in P /\ members[n][3] \in P
      PROVE  n \in P
  <2> SUFFICES ASSUME n[1] = "param_candidates" PROVE c[n] \in S
    OBVIOUS
  <2>1. /\ members[n][1] = "both" => c[n] = Then("lists", c[members[n][2]], c[members[n][3]])
        /\ members[n][1] # "both" => c[n] = ListLeaf(members)[n]
    BY <1>1, CallsOf
  <2>2. /\ members[n][1] = "both" \/ members[n][1] = "own" \/ members[n][1] = "only"
        /\ members[n][1] = "both" => members[n][2][1] = n[1] /\ members[n][3][1] = n[1]
    BY Kinds
  <2>3. CASE members[n][1] = "both"
    <3> DEFINE s == c[members[n][2]]
               t == c[members[n][3]]
    <3>1. s \in S /\ t \in S
      BY <1>2, <2>2, <2>3
    <3>2. c[n] = Then("lists", s, t)
      BY <2>1, <2>3
    <3> HIDE DEF s, t
    <3>3. c[n] = Union(s, t)
      BY <3>2 DEF Then
    <3> QED
      BY <3>1, <3>3 DEF Closed
  <2>4. CASE members[n][1] = "own"
    <3>1. c[n] = Candidates[members[n][2]]
      BY <2>1, <2>4 DEF ListLeaf
    <3> QED
      BY <2>4, <3>1 DEF ListsIn
  <2>5. CASE members[n][1] = "only"
    <3>1. c[n] = <<members[n][2]>>
      BY <2>1, <2>5 DEF ListLeaf
    <3> QED
      BY <2>5, <3>1 DEF ListsIn
  <2> QED
    BY <2>2, <2>3, <2>4, <2>5
<1> HIDE DEF P
<1>3. DOMAIN members \subseteq P
  BY <1>2, CallInduction
<1>4. Pc \in DOMAIN members /\ Pc[1] = "param_candidates"
  BY PlainHook DEF Defines, Pc
<1> QED
  BY <1>1, <1>3, <1>4 DEF P

(* What an attempt tries: lists if there are any.                          *)
LEMMA OfferedLists ==
    ASSUME NEW base, NEW patch, NEW S, Closed(S),
           WellFormed(base.members), ListsIn(base.members, S),
           WellFormed(patch.members), ListsIn(patch.members, S)
    PROVE  LET h == "param_candidates"
           IN  /\ Defines(base.members, h) \/ Defines(patch.members, h) => Offered(base, patch) \in S
               /\ ~(Defines(base.members, h) \/ Defines(patch.members, h)) =>
                      Offered(base, patch) = <<NoParams>>
<1>1. Defines(base.members, "param_candidates") => Lists(base.members) \in S
  BY ListsReturned
<1>2. Defines(patch.members, "param_candidates") => Lists(patch.members) \in S
  BY ListsReturned
<1> QED
  BY <1>1, <1>2 DEF Offered, Composes, Closed

(* What is selected is on one of the lists or {}.                          *)
LEMMA SelectedProper ==
    ASSUME CompositionAssumption, NEW base, NEW patch,
           WellFormed(base.members), ListsIn(base.members, ProperLists),
           WellFormed(patch.members), ListsIn(patch.members, ProperLists)
    PROVE  /\ Selected(base, patch) \in Proper \cup {NoParams}
           /\ Texts(base, patch, "ensemble_spec") = {} /\ Texts(base, patch, "model_spec") = {}
              /\ (Defines(base.members, "param_candidates") \/ Defines(patch.members, "param_candidates"))
                  => Selected(base, patch) \in Proper
<1> DEFINE e == Texts(base, patch, "ensemble_spec")
           s == Texts(base, patch, "model_spec")
           offered == Offered(base, patch)
           sel == Selected(base, patch)
           listed == Defines(base.members, "param_candidates") \/ Defines(patch.members, "param_candidates")
<1>1. /\ e # {} \/ s # {} \/ Tried(offered) = <<>> => sel = NoParams
      /\ e = {} /\ s = {} /\ Tried(offered) # <<>> => sel = First(Tried(offered))
  BY SelectedIs
<1>2. (listed => offered \in ProperLists) /\ (~listed => offered = <<NoParams>>)
  BY ListsAreClosed, OfferedLists
<1>4. ASSUME listed
      PROVE  Tried(offered) # <<>> /\ First(Tried(offered)) \in Proper
  <2>1. offered \in Seq(Proper) /\ offered # <<>>
    BY <1>2, <1>4 DEF ProperLists
  <2> HIDE DEF offered
  <2>2. PICK x \in Seq(Proper) : x = offered
    BY <2>1
  <2>3. Tried(x) \in Seq(Proper) /\ Tried(x) # <<>>
    BY <2>1, <2>2, TriedFacts
  <2>4. First(Tried(x)) \in Proper
    BY <2>3, FirstIsTried DEF Proper
  <2> QED
    BY <2>2, <2>3, <2>4
<1>5. Tried(<<NoParams>>) # <<>> /\ First(Tried(<<NoParams>>)) = NoParams
  BY OneCandidate
<1> HIDE DEF e, s, offered, sel
<1>6. listed /\ e = {} /\ s = {} => sel \in Proper
  BY <1>1, <1>4
<1>7. sel \in Proper \cup {NoParams}
  <2>1. CASE e # {} \/ s # {}
    BY <1>1, <2>1
  <2>2. CASE e = {} /\ s = {} /\ listed
    BY <1>6, <2>2
  <2>3. CASE e = {} /\ s = {} /\ ~listed
    BY <1>1, <1>2, <1>5, <2>3
  <2> QED
    BY <2>1, <2>2, <2>3
<1> QED
  BY <1>6, <1>7 DEF e, s, sel

(* The list of a patch, if it names no {} and is not empty.                *)
LEMMA SourceLists ==
    ASSUME CompositionAssumption, NEW p \in Patches, ~OffersNothing(p), NEW frozen
    PROVE  ListsIn(Source(p, frozen).members, ProperLists)
<1> DEFINE m == Source(p, frozen).members
<1> SUFFICES ASSUME NEW n \in DOMAIN m, n[1] = "param_candidates"
             PROVE  m[n][1] = "own" /\ Candidates[m[n][2]] \in Seq(Proper) \ {<<>>}
  BY DEF ListsIn, ProperLists
<1>1. DOMAIN m = DOMAIN p.members /\ m[n] = <<"own", p.members[n]>> /\ n \in Names
  BY SourceFacts
<1>2. n = Pc
  <2>1. PICK h \in Hooks \cup {Shared} : n = Plain(h)
    BY <1>1 DEF Names
  <2> QED
    BY <2>1, PlainHook DEF Pc
<1> DEFINE t == Candidates[p.members[Pc]]
<1>3. t \in Seq(DOMAIN Rank) /\ t # <<>> /\ NoParams \notin Range(t)
  <2>1. Pc \in DOMAIN p.members
    BY <1>1, <1>2
  <2> HIDE DEF m
  <2> QED
    BY <2>1 DEF CompositionAssumption, OffersNothing, Defines, Pc
<1> HIDE DEF t
<1>4. t \in Seq(Proper)
  <2>1. \A i \in 1..Len(t) : t[i] \in DOMAIN Rank /\ t[i] \in Range(t)
    BY <1>3, ElementOfSeq, LenProperties DEF Range
  <2>2. \A i \in 1..Len(t) : t[i] \in Proper
    BY <1>3, <2>1 DEF Proper
  <2> QED
    BY <1>3, <2>2, IsASeq, LenProperties
<1>5. m[n][1] = "own" /\ m[n][2] = p.members[Pc]
  BY <1>1, <1>2
<1> HIDE DEF m
<1> QED
  BY <1>3, <1>4, <1>5 DEF t

(* The lists of a merge are those of the base and of the patch, and what   *)
(* is frozen.                                                              *)
LEMMA MergeLists ==
    ASSUME NEW S, NEW base, WellFormed(base.members), ListsIn(base.members, S),
           NEW patch, IsPatch(patch), ListsIn(patch.members, S),
           patch.frozen # NoParams => <<patch.frozen>> \in S
    PROVE  ListsIn(Merge(base, patch).members, S)
<1> DEFINE t == Together(base, patch)
           m == Freeze(t, patch.frozen)
<1>1. Merge(base, patch).members = m
  BY DEF Merge
<1>2. ASSUME NEW n \in DOMAIN t, n[1] = "param_candidates"
      PROVE  /\ t[n][1] = "own" => Candidates[t[n][2]] \in S
             /\ t[n][1] = "only" => <<t[n][2]>> \in S
  <2>0. IsFiniteSet(DOMAIN base.members)
    BY DEF WellFormed
  <2>1. \A h : Plain(h)[1] = h /\ Prev(base, patch, h)[1] = h /\ New(base, patch, h)[1] = h
    BY PlainHook, UniqueNames DEF Prev, New
  <2>2. \A h \in Composing(base, patch) :
            Plain(h) \in DOMAIN base.members /\ Plain(h) \in DOMAIN patch.members
    BY ComposingFacts
  <2>3. \/ \E h \in Composing(base, patch) : t[n] = <<"both", Prev(base, patch, h), New(base, patch, h)>>
        \/ \E k \in DOMAIN base.members : k[1] = "param_candidates" /\ t[n] = base.members[k]
        \/ \E k \in DOMAIN patch.members : k[1] = "param_candidates" /\ t[n] = patch.members[k]
    <3>1. \/ \E h \in Composing(base, patch) :
                 n = Plain(h) /\ t[n] = <<"both", Prev(base, patch, h), New(base, patch, h)>>
          \/ \E h \in Composing(base, patch) : n = Prev(base, patch, h) /\ t[n] = base.members[Plain(h)]
          \/ \E h \in Composing(base, patch) : n = New(base, patch, h) /\ t[n] = patch.members[Plain(h)]
          \/ n \in DOMAIN patch.members /\ t[n] = patch.members[n]
          \/ n \in DOMAIN base.members /\ t[n] = base.members[n]
      BY <2>0, TogetherCases
    <3> HIDE DEF t
    <3> QED
      BY <1>2, <2>1, <2>2, <3>1
  <2> HIDE DEF t
  <2>4. CASE \E h \in Composing(base, patch) : t[n] = <<"both", Prev(base, patch, h), New(base, patch, h)>>
    <3>1. t[n][1] = "both"
      BY <2>4
    <3> QED
      BY <3>1
  <2>5. CASE \E k \in DOMAIN base.members : k[1] = "param_candidates" /\ t[n] = base.members[k]
    BY <2>5 DEF ListsIn
  <2>6. CASE \E k \in DOMAIN patch.members : k[1] = "param_candidates" /\ t[n] = patch.members[k]
    BY <2>6 DEF ListsIn
  <2> QED
    BY <2>3, <2>4, <2>5, <2>6
<1>3. /\ DOMAIN m \subseteq DOMAIN t
      /\ \A n \in DOMAIN m : n # Pc => m[n] = t[n]
      /\ patch.frozen # NoParams /\ Pc \in DOMAIN t => m[Pc] = <<"only", patch.frozen>>
      /\ patch.frozen = NoParams => m = t
  BY FreezeFacts
<1> HIDE DEF m, t
<1> SUFFICES ASSUME NEW n \in DOMAIN m, n[1] = "param_candidates"
             PROVE  /\ m[n][1] = "own" => Candidates[m[n][2]] \in S
                    /\ m[n][1] = "only" => <<m[n][2]>> \in S
  BY <1>1 DEF ListsIn
<1>4. CASE m[n] = t[n]
  <2>1. n \in DOMAIN t
    BY <1>3
  <2> QED
    BY <1>2, <1>4, <2>1
<1>5. CASE m[n] # t[n]
  <2>1. m[n] = <<"only", patch.frozen>> /\ <<patch.frozen>> \in S
    BY <1>3, <1>5
  <2> QED
    BY <2>1
<1> QED
  BY <1>4, <1>5

\* The parameters of a row are those that were selected on the rows before it,
\* as long as none has been quarantined.
ParamsOK(ls) ==
    (\A k \in 1..Len(ls) : ls[k].valid) =>
        \A f : IsReplay(f, ls) =>
            \A k \in 1..Len(ls) : ls[k].params = Selected(f[k - 1], Source(ls[k].patch, NoParams))

(* A row more.                                                             *)
LEMMA ParamsAppend ==
    ASSUME RowsOK(layers), ParamsOK(layers), best = Replay(layers), NEW r, IsRow(r),
           r.params = Selected(best, Source(r.patch, NoParams)), layers' = Append(layers, r)
    PROVE  ParamsOK(layers')
<1> DEFINE N == Len(layers)
           ms == Append(layers, r)
<1>1. /\ RowsOK(ms) /\ Len(ms) = N + 1 /\ N \in Nat
      /\ ms[N + 1] = r /\ \A k \in 1..N : ms[k] = layers[k]
  BY RowsAppend, RowsFacts
<1> HIDE DEF ms
<1> SUFFICES ASSUME \A k \in 1..Len(ms) : ms[k].valid, NEW g, IsReplay(g, ms), NEW k \in 1..Len(ms)
             PROVE  ms[k].params = Selected(g[k - 1], Source(ms[k].patch, NoParams))
  BY DEF ParamsOK, ms
<1>2. PICK f : IsReplay(f, layers) /\ Replay(layers) = f[N]
  BY <1>1, ReplayIs
<1> HIDE DEF N
<1>3. \A i \in 0..N : f[i] = g[i]
  <2>1. /\ N \in Nat /\ N <= Len(layers) /\ N <= Len(ms) /\ \A i \in 1..N : layers[i] = ms[i]
        /\ Len(layers) \in Nat /\ Len(ms) \in Nat
    BY <1>1 DEF N
  <2>2. IsReplay(f, layers) /\ IsReplay(g, ms)
    BY <1>2
  <2> QED
    BY <2>1, <2>2, ReplayAgrees
<1>4. CASE k = N + 1
  <2>1. g[k - 1] = best /\ ms[k] = r
    BY <1>1, <1>2, <1>3, <1>4
  <2> QED
    BY <2>1
<1>5. CASE k # N + 1
  <2>1. k \in 1..N /\ k - 1 \in 0..N
    BY <1>1, <1>5
  <2>2. \A i \in 1..N : layers[i].valid
    <3>1. \A i \in 1..N : i \in 1..Len(ms)
      BY <1>1
    <3> QED
      BY <1>1, <3>1
  <2>3. layers[k].params = Selected(f[k - 1], Source(layers[k].patch, NoParams))
    BY <1>2, <2>1, <2>2 DEF ParamsOK, N
  <2>4. f[k - 1] = g[k - 1] /\ layers[k] = ms[k]
    BY <1>1, <1>3, <2>1
  <2> QED
    BY <2>3, <2>4
<1> QED
  BY <1>4, <1>5

(* The latest row frozen.                                                  *)
LEMMA ParamsFreeze ==
    ASSUME RowsOK(layers), ParamsOK(layers), FreezeBase
    PROVE  ParamsOK(layers')
<1> DEFINE N == Len(layers)
           ms == [layers EXCEPT ![Latest] = FrozenRow]
<1>1. /\ layers' = ms /\ Latest \in 1..N /\ IsRow(FrozenRow) /\ FrozenRow.valid
      /\ FrozenRow.patch = layers[Latest].patch /\ FrozenRow.params = layers[Latest].params
  BY FreezeRow, RowChanges, RowsFacts DEF FrozenRow
<1>2. /\ Len(ms) = N /\ N \in Nat /\ ms[Latest] = FrozenRow
      /\ \A k \in 1..N : k # Latest => ms[k] = layers[k]
  BY <1>1, RowsExcept, RowsFacts
<1>3. /\ layers[Latest].valid /\ \A k \in 1..N : k > Latest => ~layers[k].valid
  BY LatestFacts DEF FreezeBase
<1> HIDE DEF ms, N
<1> SUFFICES ASSUME \A k \in 1..N : ms[k].valid, NEW g, IsReplay(g, ms), NEW k \in 1..N
             PROVE  ms[k].params = Selected(g[k - 1], Source(ms[k].patch, NoParams))
  BY <1>1, <1>2 DEF ParamsOK
<1>4. \A i \in 1..N : layers[i].valid
  BY <1>2, <1>3
<1>5. Latest = N
  BY <1>1, <1>2, <1>3, <1>4
<1>6. PICK f : IsReplay(f, layers)
  BY <1>2, ReplayExists DEF N
<1>7. f[k - 1] = g[k - 1]
  <2> DEFINE n == N - 1
  <2>1. n \in Nat /\ n <= N /\ \A i \in 1..n : layers[i] = ms[i]
    BY <1>1, <1>2, <1>5
  <2>2. k - 1 \in 0..n
    BY <1>2
  <2> HIDE DEF n
  <2>3. \A i \in 0..n : f[i] = g[i]
    BY <1>2, <1>6, <2>1, ReplayAgrees DEF N
  <2> QED
    BY <2>2, <2>3
<1>8. layers[k].params = Selected(f[k - 1], Source(layers[k].patch, NoParams))
  BY <1>4, <1>6 DEF ParamsOK, N
<1>9. ms[k].params = layers[k].params /\ ms[k].patch = layers[k].patch
  BY <1>1, <1>2
<1> QED
  BY <1>7, <1>8, <1>9

\* Rows, baseline and parameters belong together.
LedgerInv == CompositionInv /\ ParamsOK(layers)

(* The first state.                                                        *)
LEMMA InitLedger == Init => LedgerInv
<1> SUFFICES ASSUME Init PROVE ParamsOK(layers)
  BY InitInv DEF LedgerInv
<1>1. Len(layers) = 0
  BY DEF Init
<1>2. 1..0 = {}
  OBVIOUS
<1> QED
  BY <1>1, <1>2 DEF ParamsOK

(* Every step.                                                             *)
LEMMA StepLedger == LedgerInv /\ [Next]_vars => LedgerInv'
<1> SUFFICES ASSUME LedgerInv, [Next]_vars PROVE ParamsOK(layers')
  BY StepInv DEF LedgerInv
<1>1. RowsOK(layers) /\ ParamsOK(layers) /\ best = Replay(layers)
  BY DEF LedgerInv, CompositionInv, ReplayReproduces
<1>2. Len(layers) \in Nat /\ DOMAIN layers = 1..Len(layers)
  BY <1>1, RowsFacts
<1>3. CASE UNCHANGED vars
  BY <1>1, <1>3 DEF vars
<1>4. ASSUME NEW p \in Patches, Establish(p)
      PROVE  ParamsOK(layers')
  <2> DEFINE params == Selected(NoBase, Source(p, NoParams))
             r == Row(p, params, NoParams)
  <2>1. best = NoBase
    BY <1>1, <1>2, <1>4, ReplayNothing DEF Establish, Valid
  <2>2. layers' = Append(layers, r)
    BY <1>4 DEF Establish
  <2>3. IsRow(r) /\ r.patch = p /\ r.params = params
    BY NewRows
  <2>4. r.params = Selected(best, Source(r.patch, NoParams))
    BY <2>1, <2>3
  <2> HIDE DEF r
  <2> QED
    BY <1>1, <2>2, <2>3, <2>4, ParamsAppend
<1>5. ASSUME NEW p \in Patches, Promote(p)
      PROVE  ParamsOK(layers')
  <2> DEFINE params == Selected(best, Source(p, NoParams))
             r == Row(p, params, params)
  <2>1. layers' = Append(layers, r)
    BY <1>5 DEF Promote
  <2>2. IsRow(r) /\ r.patch = p /\ r.params = params
    BY NewRows
  <2>3. r.params = Selected(best, Source(r.patch, NoParams))
    BY <2>2
  <2> HIDE DEF r
  <2> QED
    BY <1>1, <2>1, <2>2, <2>3, ParamsAppend
<1>6. CASE FreezeBase
  BY <1>1, <1>6, ParamsFreeze
<1>7. ASSUME NEW i, Quarantine(i)
      PROVE  ParamsOK(layers')
  <2> DEFINE r == [layers[i] EXCEPT !.valid = FALSE]
  <2>1. i \in 1..Len(layers) /\ IsRow(r) /\ layers' = [layers EXCEPT ![i] = r]
    BY <1>1, <1>7, QuarantinedRow
  <2>2. ~r.valid
    BY <1>1, <2>1, RowsFacts, RowChanges
  <2> HIDE DEF r
  <2>3. Len(layers') = Len(layers) /\ layers'[i] = r
    BY <1>1, <2>1, RowsExcept
  <2> QED
    BY <2>1, <2>2, <2>3 DEF ParamsOK
<1> QED
  BY <1>3, <1>4, <1>5, <1>6, <1>7 DEF Next

\* The parameters of a row are those that preselect_params chose on what the
\* rows before it make, as long as none has been quarantined.
THEOREM LedgerInvariant == Spec => []LedgerInv
<1> QED
  BY InitLedger, StepLedger, PTL DEF Spec

\* Rows that all stand, are frozen if they have parameters, and list no {}.
FrozenLedger(ls) ==
    /\ RowsOK(ls) /\ ParamsOK(ls)
    /\ \A k \in 1..Len(ls) :
           ls[k].valid /\ ls[k].frozen = ls[k].params /\ ~OffersNothing(ls[k].patch)

(* A row of such a ledger.                                                 *)
LEMMA FrozenRowFacts ==
    ASSUME CompositionAssumption, NEW ls, FrozenLedger(ls), NEW f, IsReplay(f, ls), NEW k \in 1..Len(ls)
    PROVE  /\ ls[k].patch \in Patches /\ ~OffersNothing(ls[k].patch)
           /\ f[k] = Merge(f[k - 1], Source(ls[k].patch, ls[k].frozen))
           /\ ls[k].frozen = Selected(f[k - 1], Source(ls[k].patch, NoParams))
<1>1. RowsOK(ls) /\ ls[k].valid /\ ls[k].frozen = ls[k].params /\ ~OffersNothing(ls[k].patch)
  BY DEF FrozenLedger
<1>2. Len(ls) \in Nat /\ IsRow(ls[k])
  BY <1>1, RowsFacts
<1>3. f[k] = Replayed(f[k - 1], ls[k])
  BY <1>2, ReplaySteps
<1>4. ls[k].params = Selected(f[k - 1], Source(ls[k].patch, NoParams))
  BY DEF FrozenLedger, ParamsOK
<1> QED
  BY <1>1, <1>2, <1>3, <1>4 DEF Replayed, IsRow

(* Whatever it makes lists parameters.                                     *)
LEMMA ReplayLists ==
    ASSUME CompositionAssumption, NEW ls, FrozenLedger(ls), NEW f, IsReplay(f, ls)
    PROVE  \A k \in 0..Len(ls) : WellFormed(f[k].members) /\ ListsIn(f[k].members, ProperLists)
<1>1. RowsOK(ls) /\ Len(ls) \in Nat
  BY RowsFacts DEF FrozenLedger
<1>2. \A k \in 0..Len(ls) : WellFormed(f[k].members)
  BY <1>1, ReplayWellFormed
<1> DEFINE K == {k \in Nat : k <= Len(ls) => ListsIn(f[k].members, ProperLists)}
<1>3. 0 \in K
  <2>1. f[0] = NoBase
    BY <1>1, ReplaySteps
  <2>2. ListsIn(f[0].members, ProperLists)
    BY <2>1, NothingDefined DEF ListsIn
  <2> QED
    BY <2>2
<1>4. ASSUME NEW n \in Nat, n \in K
      PROVE  n + 1 \in K
  <2> SUFFICES ASSUME n + 1 <= Len(ls) PROVE ListsIn(f[n + 1].members, ProperLists)
    OBVIOUS
  <2>1. n + 1 \in 1..Len(ls) /\ n \in 0..Len(ls) /\ (n + 1) - 1 = n
    BY <1>1
  <2> DEFINE p == ls[n + 1].patch
             frozen == ls[n + 1].frozen
  <2>2. ListsIn(f[n].members, ProperLists) /\ WellFormed(f[n].members)
    BY <1>2, <1>4, <2>1
  <2>3. /\ p \in Patches /\ ~OffersNothing(p)
        /\ f[n + 1] = Merge(f[n], Source(p, frozen)) /\ frozen = Selected(f[n], Source(p, NoParams))
    BY <2>1, FrozenRowFacts
  <2> HIDE DEF p, frozen
  <2>4. IsPatch(Source(p, NoParams)) /\ ListsIn(Source(p, NoParams).members, ProperLists)
    BY <2>3, SourceIsPatch, SourceLists
  <2>5. WellFormed(Source(p, NoParams).members)
    BY <2>4, PatchWellFormed
  <2>6. frozen \in Proper \cup {NoParams}
    BY <2>2, <2>3, <2>4, <2>5, SelectedProper
  <2>7. /\ IsPatch(Source(p, frozen)) /\ ListsIn(Source(p, frozen).members, ProperLists)
        /\ Source(p, frozen).frozen = frozen
    BY <2>3, SourceIsPatch, SourceLists, SourceFacts
  <2>8. frozen # NoParams => <<frozen>> \in ProperLists
    BY <2>6 DEF ProperLists
  <2>9. ListsIn(Merge(f[n], Source(p, frozen)).members, ProperLists)
    BY <2>2, <2>7, <2>8, MergeLists
  <2> QED
    BY <2>3, <2>9
<1> HIDE DEF K
<1>5. Nat \subseteq K
  BY <1>3, <1>4, Induction
<1>6. \A k \in 0..Len(ls) : k \in Nat /\ k <= Len(ls)
  BY <1>1
<1> QED
  BY <1>2, <1>5, <1>6 DEF K

(* A class runs a model of its own exactly if the patch ran one on top of  *)
(* the base it was merged with.                                            *)
LEMMA TextsKept ==
    ASSUME NEW base, NEW patch, NEW h \in ModelHooks
    PROVE  ~Defines(Merge(base, patch).members, h) => Texts(base, patch, h) = {}
<1> DEFINE m == Merge(base, patch).members
<1>1. Defines(m, h) <=> Defines(patch.members, h) \/ (Defines(base.members, h) /\ ~Suppresses(patch.members, h))
  BY MergedModel
<1> HIDE DEF m
<1> SUFFICES ASSUME ~Defines(m, h) PROVE Texts(base, patch, h) = {}
  BY DEF m
<1>2. Owner(base, patch, h) = {}
  BY <1>1 DEF Owner
<1> QED
  BY <1>2 DEF Texts

(* A class on its own that builds its model builds it with the parameters  *)
(* that it selects, and then none that it runs is an ensemble or a spec.   *)
LEMMA BuiltModel ==
    ASSUME NEW m, Alone(m).model[1] = "build"
    PROVE  /\ Alone(m).model[3] = Selected(NoBase, AsPatch(m))
           /\ Texts(NoBase, AsPatch(m), "ensemble_spec") = {}
           /\ Texts(NoBase, AsPatch(m), "model_spec") = {}
<1> DEFINE a == AsPatch(m)
           e == Texts(NoBase, a, "ensemble_spec")
           s == Texts(NoBase, a, "model_spec")
           b == Texts(NoBase, a, "build_model")
           offered == Offered(NoBase, a)
           sel == Selected(NoBase, a)
<1>1. Alone(m).model = Modelled(e, s, b, offered, sel)
  BY ModelIs DEF Alone, Does
<1> HIDE DEF e, s, b, offered, sel
<1>2. e = {} /\ s = {} /\ Modelled(e, s, b, offered, sel)[3] = sel
  BY <1>1 DEF Modelled
<1> QED
  BY <1>1, <1>2 DEF e, s, sel

(* What a class runs it defines.                                           *)
LEMMA NoTexts ==
    ASSUME NEW m, NEW h, Texts(NoBase, AsPatch(m), h) = {}
    PROVE  ~Defines(m.members, h)
<1> SUFFICES ASSUME Defines(m.members, h) PROVE FALSE
  OBVIOUS
<1>1. Owner(NoBase, AsPatch(m), h) = {m.members}
  BY AloneOwner
<1>2. Runs(m.members, m.members[Plain(h)][2]) \in Texts(NoBase, AsPatch(m), h)
  BY <1>1 DEF Texts
<1> QED
  BY <1>2

(* The first parameters of a baseline of frozen rows are selected.         *)
LEMMA FrozenIsSelected ==
    ASSUME CompositionAssumption, CompositionInv, FrozenLedger(layers), Alone(best).model[1] = "build"
    PROVE  Selected(NoBase, AsPatch(best)) = Offered(NoBase, AsPatch(best))[1]
<1> DEFINE N == Len(layers)
           offered == Offered(NoBase, AsPatch(best))
           sel == Selected(NoBase, AsPatch(best))
<1>1. RowsOK(layers) /\ best = Replay(layers) /\ N \in Nat
  BY RowsFacts DEF CompositionInv, ReplayReproduces
<1>2. PICK f : IsReplay(f, layers) /\ best = f[N]
  BY <1>1, ReplayIs
<1>3. Texts(NoBase, AsPatch(best), "ensemble_spec") = {} /\ Texts(NoBase, AsPatch(best), "model_spec") = {}
  BY BuiltModel
<1>4. /\ ~Defines(best.members, "ensemble_spec") /\ ~Defines(best.members, "model_spec")
  BY <1>3, NoTexts
<1>5. \E x : offered = <<x>>
  <2>1. CASE ~Defines(best.members, "param_candidates")
    BY <2>1, AloneOffered
  <2>2. CASE Defines(best.members, "param_candidates")
    <3>1. N # 0
      <4> SUFFICES ASSUME N = 0 PROVE FALSE
        OBVIOUS
      <4>1. best = NoBase
        BY <1>1, <1>2, ReplaySteps
      <4> QED
        BY <2>2, <4>1, NothingDefined
    <3>2. N \in 1..Len(layers) /\ N - 1 \in 0..Len(layers)
      BY <1>1, <3>1
    <3> DEFINE p == layers[N].patch
               frozen == layers[N].frozen
               base == f[N - 1]
    <3>3. WellFormed(base.members) /\ ListsIn(base.members, ProperLists)
      BY <1>2, <3>2, ReplayLists
    <3>4. /\ p \in Patches /\ ~OffersNothing(p)
          /\ best = Merge(base, Source(p, frozen)) /\ frozen = Selected(base, Source(p, NoParams))
      BY <1>2, <3>2, FrozenRowFacts
    <3> HIDE DEF p, frozen, base, N
    <3>5. IsPatch(Source(p, NoParams)) /\ ListsIn(Source(p, NoParams).members, ProperLists)
      BY <3>4, SourceIsPatch, SourceLists
    <3>6. WellFormed(Source(p, NoParams).members)
      BY <3>5, PatchWellFormed
    <3>7. /\ Texts(base, Source(p, NoParams), "ensemble_spec") = {}
          /\ Texts(base, Source(p, NoParams), "model_spec") = {}
      <4>1. /\ Texts(base, Source(p, frozen), "ensemble_spec") = {}
            /\ Texts(base, Source(p, frozen), "model_spec") = {}
        BY <1>4, <3>4, TextsKept DEF ModelHooks
      <4>2. \A h : Texts(base, Source(p, frozen), h) = Texts(base, Source(p, NoParams), h)
        <5>1. Source(p, frozen).members = Source(p, NoParams).members
          BY DEF Source
        <5> QED
          BY <5>1 DEF Texts, Owner
      <4> QED
        BY <4>1, <4>2
    <3>8. Defines(base.members, "param_candidates") \/ Defines(Source(p, NoParams).members, "param_candidates")
      <4> DEFINE x == Source(p, frozen)
      <4>1. x.members = Source(p, NoParams).members
        BY DEF Source
      <4>2. /\ best.members = Freeze(Together(base, x), x.frozen)
            /\ DOMAIN Freeze(Together(base, x), x.frozen) \subseteq DOMAIN Together(base, x)
        BY <3>4, FreezeFacts DEF Merge
      <4>3. IsPatch(x) /\ IsFiniteSet(DOMAIN base.members)
        BY <3>3, <3>4, SourceIsPatch DEF WellFormed
      <4>4. Pc \in DOMAIN Together(base, x) /\ Pc[2] = ""
        BY <2>2, <4>2, PlainRole DEF Defines, Pc
      <4> HIDE DEF x
      <4>5. Pc \notin Prevs(base, x) \cup News(base, x)
        <5>1. \A h : Prev(base, x, h)[2] = "prev" /\ New(base, x, h)[2] = "new"
          BY UniqueNames DEF Prev, New
        <5> QED
          BY <4>4, <5>1 DEF Prevs, News
      <4>6. Wrappers(base, x) \subseteq Known(base, x)
        BY ComposingFacts DEF Wrappers, Known
      <4>7. DOMAIN Together(base, x)
            = (Prevs(base, x) \cup News(base, x) \cup Wrappers(base, x) \cup Known(base, x))
                  \ Dropped(x.members)
        BY TogetherNames
      <4>8. Pc \in Known(base, x)
        BY <4>4, <4>5, <4>6, <4>7
      <4> QED
        BY <4>1, <4>8 DEF Known, Pc, Defines
    <3>9. frozen \in Proper
      BY <3>3, <3>4, <3>5, <3>6, <3>7, <3>8, SelectedProper
    <3>10. IsPatch(Source(p, frozen)) /\ Source(p, frozen).frozen = frozen
      BY <3>4, SourceIsPatch, SourceFacts
    <3>11. offered = <<frozen>>
      BY <2>2, <3>3, <3>4, <3>9, <3>10, FrozenOffered DEF Proper
    <3> QED
      BY <3>11
  <2> QED
    BY <2>1, <2>2
<1>6. PICK x : offered = <<x>>
  BY <1>5
<1>7. Tried(offered) # <<>> /\ First(Tried(offered)) = x
  BY <1>6, OneCandidate
<1>8. Tried(offered) # <<>> => sel = First(Tried(offered))
  BY <1>3, SelectedIs
<1> QED
  BY <1>6, <1>7, <1>8

\* The base member of an ensemble gets the parameters the baseline is measured
\* with, for any patches and any number of frozen layers: once the parameters
\* that won are frozen they are the only ones on the list.
THEOREM BaseMemberSelected == Spec => []BaseMemberIsTheBest
<1>1. ASSUME LedgerInv
      PROVE  BaseMemberIsTheBest
  <2>1. CompositionInv /\ ParamsOK(layers) /\ RowsOK(layers) /\ DOMAIN layers = 1..Len(layers)
    BY <1>1, RowsFacts DEF LedgerInv, CompositionInv
  <2> SUFFICES ASSUME \A k \in DOMAIN layers :
                          /\ layers[k].valid /\ layers[k].frozen = layers[k].params
                          /\ ~OffersNothing(layers[k].patch),
                      Alone(best).model[1] = "build"
               PROVE  Alone(best).model[3] = Offered(NoBase, AsPatch(best))[1]
    BY DEF BaseMemberIsTheBest
  <2>2. FrozenLedger(layers)
    BY <2>1 DEF FrozenLedger
  <2>3. Selected(NoBase, AsPatch(best)) = Offered(NoBase, AsPatch(best))[1]
    BY <2>1, <2>2, CompositionAssumption, FrozenIsSelected
  <2> QED
    BY <2>3, BuiltModel
<1> QED
  BY <1>1, LedgerInvariant, PTL DEF Spec

-----------------------------------------------------------------------------
(* Types.                                                                  *)

\* Members belong to hooks, or are the shared one.
HooksOnly(members) == \A n \in DOMAIN members : n[1] \in Hooks \cup {Shared}

(* Lists of a source are lists of parameters.                              *)
LEMMA SourceTyped ==
    ASSUME CompositionAssumption, NEW p \in Patches, NEW frozen
    PROVE  /\ ListsIn(Source(p, frozen).members, AnyLists)
           /\ HooksOnly(Source(p, frozen).members)
<1> DEFINE m == Source(p, frozen).members
<1>1. DOMAIN m = DOMAIN p.members /\ \A n \in DOMAIN m : m[n] = <<"own", p.members[n]>> /\ n \in Names
  BY SourceFacts
<1>2. \A n \in Names : n[1] \in Hooks \cup {Shared} /\ n = Plain(n[1])
  BY PlainHook DEF Names
<1>3. ASSUME NEW n \in DOMAIN m, n[1] = "param_candidates"
      PROVE  m[n][1] = "own" /\ Candidates[m[n][2]] \in AnyLists
  <2>1. n = Pc /\ Pc \in DOMAIN p.members
    BY <1>1, <1>2, <1>3 DEF Pc
  <2>2. Candidates[p.members[Pc]] \in AnyLists
    BY <2>1 DEF CompositionAssumption, AnyLists, Pc
  <2>3. m[n][1] = "own" /\ m[n][2] = p.members[Pc]
    BY <1>1, <2>1
  <2> HIDE DEF m
  <2> QED
    BY <2>2, <2>3
<1> HIDE DEF m
<1>4. ListsIn(m, AnyLists)
  BY <1>3 DEF ListsIn
<1>5. HooksOnly(m)
  BY <1>1, <1>2 DEF HooksOnly
<1> QED
  BY <1>4, <1>5 DEF m

(* What is selected are parameters.                                        *)
LEMMA SelectedTyped ==
    ASSUME CompositionAssumption, NEW base, WellFormed(base.members), ListsIn(base.members, AnyLists),
           NEW p \in Patches
    PROVE  Selected(base, Source(p, NoParams)) \in DOMAIN Rank
<1> DEFINE patch == Source(p, NoParams)
           e == Texts(base, patch, "ensemble_spec")
           s == Texts(base, patch, "model_spec")
           offered == Offered(base, patch)
           sel == Selected(base, patch)
<1>1. /\ e # {} \/ s # {} \/ Tried(offered) = <<>> => sel = NoParams
      /\ e = {} /\ s = {} /\ Tried(offered) # <<>> => sel = First(Tried(offered))
  BY SelectedIs
<1>2. IsPatch(patch) /\ ListsIn(patch.members, AnyLists)
  BY SourceIsPatch, SourceTyped
<1>3. WellFormed(patch.members)
  BY <1>2, PatchWellFormed
<1> HIDE DEF patch
<1>4. offered \in AnyLists \/ offered = <<NoParams>>
  BY <1>2, <1>3, ListsAreClosed, OfferedLists
<1>5. NoParams \in DOMAIN Rank
  BY DEF CompositionAssumption
<1>6. offered \in Seq(DOMAIN Rank)
  <2>1. <<NoParams>> \in Seq(DOMAIN Rank)
    BY <1>5
  <2> QED
    BY <1>4, <2>1 DEF AnyLists
<1> HIDE DEF e, s, offered, sel
<1>7. ASSUME Tried(offered) # <<>>
      PROVE  First(Tried(offered)) \in DOMAIN Rank
  <2>1. PICK x \in Seq(DOMAIN Rank) : x = offered
    BY <1>6
  <2>2. x # <<>> => Tried(x) \in Seq(DOMAIN Rank)
    BY TriedFacts
  <2>3. Tried(<<>>) = <<>>
    <3> SUFFICES ASSUME NEW m, m = Min({MaxCandidates, 0}) PROVE SubSeq(<<>>, 1, m) = <<>>
      BY DEF Tried
    <3>1. {MaxCandidates, 0} \subseteq Nat /\ 0 \in {MaxCandidates, 0} /\ {MaxCandidates, 0} # {}
      BY DEF CompositionAssumption
    <3>2. m \in Nat /\ m <= 0
      BY <3>1, MinIsLeast
    <3>3. m = 0
      BY <3>2
    <3> QED
      BY <3>3
  <2>4. Tried(x) \in Seq(DOMAIN Rank) /\ Tried(x) # <<>>
    BY <1>7, <2>1, <2>2, <2>3
  <2> QED
    BY <2>1, <2>4, FirstIsTried
<1>8. sel \in DOMAIN Rank
  <2>1. CASE e # {} \/ s # {} \/ Tried(offered) = <<>>
    BY <1>1, <1>5, <2>1
  <2>2. CASE e = {} /\ s = {} /\ Tried(offered) # <<>>
    BY <1>1, <1>7, <2>2
  <2> QED
    BY <2>1, <2>2
<1> QED
  BY <1>8 DEF sel, patch

(* A merge has the hooks of both.                                          *)
LEMMA MergeHooks ==
    ASSUME NEW base, HooksOnly(base.members), NEW patch, HooksOnly(patch.members)
    PROVE  HooksOnly(Merge(base, patch).members)
<1> DEFINE t == Together(base, patch)
           m == Freeze(t, patch.frozen)
<1>1. Merge(base, patch).members = m /\ DOMAIN m \subseteq DOMAIN t
  BY FreezeFacts DEF Merge
<1>2. DOMAIN t = (Prevs(base, patch) \cup News(base, patch) \cup Wrappers(base, patch)
                     \cup Known(base, patch)) \ Dropped(patch.members)
  BY TogetherNames
<1>3. \A n \in Known(base, patch) : n[1] \in Hooks \cup {Shared}
  BY DEF HooksOnly, Known
<1>4. \A h \in Composing(base, patch) : h \in Hooks
  BY ComposingFacts DEF Hooks
<1>5. \A h : Plain(h)[1] = h /\ Prev(base, patch, h)[1] = h /\ New(base, patch, h)[1] = h
  BY PlainHook, UniqueNames DEF Prev, New
<1>6. \A n \in Prevs(base, patch) \cup News(base, patch) \cup Wrappers(base, patch) : n[1] \in Hooks
  BY <1>4, <1>5 DEF Prevs, News, Wrappers
<1> HIDE DEF m, t
<1> QED
  BY <1>1, <1>2, <1>3, <1>6 DEF HooksOnly

\* Rows of parameters, as many as there may be.
RowsTyped(ls) ==
    /\ RowsOK(ls) /\ Len(ls) <= MaxLayers
    /\ \A k \in 1..Len(ls) : ls[k].params \in DOMAIN Rank

(* What they make lists parameters.                                        *)
LEMMA ReplayTyped ==
    ASSUME CompositionAssumption, NEW ls, RowsTyped(ls), NEW f, IsReplay(f, ls)
    PROVE  \A k \in 0..Len(ls) : ListsIn(f[k].members, AnyLists) /\ HooksOnly(f[k].members)
<1>1. RowsOK(ls) /\ Len(ls) \in Nat /\ \A k \in 1..Len(ls) : IsRow(ls[k]) /\ ls[k].params \in DOMAIN Rank
  BY RowsFacts DEF RowsTyped
<1>2. \A k \in 0..Len(ls) : WellFormed(f[k].members)
  BY <1>1, ReplayWellFormed
<1>3. f[0] = NoBase /\ \A k \in 1..Len(ls) : f[k] = Replayed(f[k - 1], ls[k])
  BY <1>1, ReplaySteps
<1> DEFINE K == {k \in Nat : k <= Len(ls) => ListsIn(f[k].members, AnyLists) /\ HooksOnly(f[k].members)}
<1>4. 0 \in K
  <2>1. ListsIn(NoBase.members, AnyLists) /\ HooksOnly(NoBase.members)
    BY NothingDefined DEF ListsIn, HooksOnly
  <2> QED
    BY <1>3, <2>1
<1>5. ASSUME NEW n \in Nat, n \in K
      PROVE  n + 1 \in K
  <2> SUFFICES ASSUME n + 1 <= Len(ls)
               PROVE  ListsIn(f[n + 1].members, AnyLists) /\ HooksOnly(f[n + 1].members)
    OBVIOUS
  <2>1. n + 1 \in 1..Len(ls) /\ n \in 0..Len(ls) /\ (n + 1) - 1 = n
    BY <1>1
  <2> DEFINE base == f[n]
             p == ls[n + 1].patch
             frozen == ls[n + 1].frozen
  <2>2. WellFormed(base.members) /\ ListsIn(base.members, AnyLists) /\ HooksOnly(base.members)
    BY <1>2, <1>5, <2>1
  <2>3. f[n + 1] = Replayed(base, ls[n + 1]) /\ IsRow(ls[n + 1]) /\ ls[n + 1].params \in DOMAIN Rank
    BY <1>1, <1>3, <2>1
  <2>4. p \in Patches /\ (frozen # NoParams => frozen \in DOMAIN Rank)
    BY <2>3 DEF IsRow
  <2>5. f[n + 1] = base \/ f[n + 1] = Merge(base, Source(p, frozen))
    BY <2>3 DEF Replayed
  <2> HIDE DEF base, p, frozen
  <2> DEFINE patch == Source(p, frozen)
  <2>6. IsPatch(patch) /\ ListsIn(patch.members, AnyLists) /\ HooksOnly(patch.members) /\ patch.frozen = frozen
    BY <2>4, SourceIsPatch, SourceTyped, SourceFacts
  <2> HIDE DEF patch
  <2>7. patch.frozen # NoParams => <<patch.frozen>> \in AnyLists
    BY <2>4, <2>6 DEF AnyLists
  <2>8. ListsIn(Merge(base, patch).members, AnyLists) /\ HooksOnly(Merge(base, patch).members)
    BY <2>2, <2>6, <2>7, MergeLists, MergeHooks
  <2> QED
    BY <2>2, <2>5, <2>8 DEF patch
<1> HIDE DEF K
<1>6. Nat \subseteq K
  BY <1>4, <1>5, Induction
<1>7. \A k \in 0..Len(ls) : k \in Nat /\ k <= Len(ls)
  BY <1>1
<1> QED
  BY <1>6, <1>7 DEF K

(* So does the baseline.                                                   *)
LEMMA BestTyped ==
    ASSUME CompositionAssumption, RowsTyped(layers), best = Replay(layers)
    PROVE  WellFormed(best.members) /\ ListsIn(best.members, AnyLists) /\ HooksOnly(best.members)
<1>1. RowsOK(layers) /\ Len(layers) \in Nat
  BY RowsFacts DEF RowsTyped
<1>2. PICK f : IsReplay(f, layers) /\ Replay(layers) = f[Len(layers)]
  BY <1>1, ReplayIs
<1>3. Len(layers) \in 0..Len(layers)
  BY <1>1
<1>4. WellFormed(f[Len(layers)].members)
  BY <1>1, <1>2, <1>3, ReplayWellFormed
<1>5. ListsIn(f[Len(layers)].members, AnyLists) /\ HooksOnly(f[Len(layers)].members)
  BY <1>2, <1>3, ReplayTyped
<1> QED
  BY <1>2, <1>4, <1>5

\* The inductive invariant of types.
TypeInv == CompositionInv /\ RowsTyped(layers)

(* A row more.                                                             *)
LEMMA TypedAppend ==
    ASSUME RowsTyped(layers), Len(layers) < MaxLayers, CompositionAssumption,
           NEW r, IsRow(r), r.params \in DOMAIN Rank, layers' = Append(layers, r)
    PROVE  RowsTyped(layers')
<1> DEFINE ms == Append(layers, r)
           N == Len(layers)
<1>1. /\ RowsOK(ms) /\ Len(ms) = N + 1 /\ N \in Nat
      /\ ms[N + 1] = r /\ \A k \in 1..N : ms[k] = layers[k]
  BY RowsAppend, RowsFacts DEF RowsTyped
<1>2. \A k \in 1..N : layers[k].params \in DOMAIN Rank
  BY DEF RowsTyped
<1>3. N < MaxLayers /\ MaxLayers \in Nat
  BY DEF CompositionAssumption
<1> HIDE DEF ms, N
<1>4. ASSUME NEW k \in 1..(N + 1)
      PROVE  ms[k].params \in DOMAIN Rank
  <2>1. CASE k = N + 1
    BY <1>1, <2>1
  <2>2. CASE k # N + 1
    <3>1. k \in 1..N
      BY <1>1, <2>2
    <3> QED
      BY <1>1, <1>2, <3>1
  <2> QED
    BY <2>1, <2>2
<1>5. N + 1 <= MaxLayers
  BY <1>1, <1>3
<1> QED
  BY <1>1, <1>4, <1>5 DEF RowsTyped, ms

(* A row changed.                                                          *)
LEMMA TypedExcept ==
    ASSUME NEW ls, RowsTyped(ls), NEW i \in 1..Len(ls), NEW r, IsRow(r), r.params = ls[i].params
    PROVE  RowsTyped([ls EXCEPT ![i] = r])
<1> DEFINE ms == [ls EXCEPT ![i] = r]
<1>1. RowsOK(ls) /\ Len(ls) <= MaxLayers /\ \A k \in 1..Len(ls) : ls[k].params \in DOMAIN Rank
  BY DEF RowsTyped
<1>2. RowsOK(ms) /\ Len(ms) = Len(ls) /\ ms[i] = r /\ \A k \in 1..Len(ls) : k # i => ms[k] = ls[k]
  BY <1>1, RowsExcept
<1> HIDE DEF ms
<1>3. \A k \in 1..Len(ls) : ms[k].params \in DOMAIN Rank
  BY <1>1, <1>2
<1>4. RowsTyped(ms)
  BY <1>1, <1>2, <1>3 DEF RowsTyped
<1> QED
  BY <1>4 DEF ms

(* Every step.                                                             *)
LEMMA StepTyped ==
    ASSUME CompositionAssumption, TypeInv, [Next]_vars
    PROVE  TypeInv'
<1> SUFFICES RowsTyped(layers')
  BY StepInv DEF TypeInv
<1>1. RowsOK(layers) /\ RowsTyped(layers) /\ best = Replay(layers)
  BY DEF TypeInv, CompositionInv, ReplayReproduces
<1>2. Len(layers) \in Nat /\ DOMAIN layers = 1..Len(layers) /\ \A k \in 1..Len(layers) : IsRow(layers[k])
  BY <1>1, RowsFacts
<1>3. CASE UNCHANGED vars
  BY <1>1, <1>3 DEF vars
<1>4. ASSUME NEW p \in Patches, Establish(p)
      PROVE  RowsTyped(layers')
  <2> DEFINE params == Selected(NoBase, Source(p, NoParams))
             r == Row(p, params, NoParams)
  <2>1. WellFormed(NoBase.members) /\ ListsIn(NoBase.members, AnyLists)
    BY NothingWellFormed, NothingDefined DEF ListsIn
  <2>2. params \in DOMAIN Rank
    BY <2>1, SelectedTyped
  <2>3. layers' = Append(layers, r) /\ Len(layers) < MaxLayers
    BY <1>4 DEF Establish
  <2>4. IsRow(r) /\ r.params = params
    BY NewRows
  <2> HIDE DEF r
  <2> QED
    BY <1>1, <2>2, <2>3, <2>4, TypedAppend
<1>5. ASSUME NEW p \in Patches, Promote(p)
      PROVE  RowsTyped(layers')
  <2> DEFINE params == Selected(best, Source(p, NoParams))
             r == Row(p, params, params)
  <2>1. WellFormed(best.members) /\ ListsIn(best.members, AnyLists)
    BY <1>1, BestTyped
  <2>2. params \in DOMAIN Rank
    BY <2>1, SelectedTyped
  <2>3. layers' = Append(layers, r) /\ Len(layers) < MaxLayers
    BY <1>5 DEF Promote
  <2>4. IsRow(r) /\ r.params = params
    BY NewRows
  <2> HIDE DEF r
  <2> QED
    BY <1>1, <2>2, <2>3, <2>4, TypedAppend
<1>6. CASE FreezeBase
  <2>1. layers' = [layers EXCEPT ![Latest] = FrozenRow] /\ Latest \in 1..Len(layers) /\ IsRow(FrozenRow)
    BY <1>1, <1>6, FreezeRow
  <2>2. FrozenRow.params = layers[Latest].params
    BY <1>2, <2>1, RowChanges DEF FrozenRow
  <2> QED
    BY <1>1, <2>1, <2>2, TypedExcept
<1>7. ASSUME NEW i, Quarantine(i)
      PROVE  RowsTyped(layers')
  <2> DEFINE r == [layers[i] EXCEPT !.valid = FALSE]
  <2>1. i \in 1..Len(layers) /\ IsRow(r) /\ layers' = [layers EXCEPT ![i] = r]
    BY <1>1, <1>7, QuarantinedRow
  <2>2. r.params = layers[i].params
    BY <1>2, <2>1, RowChanges
  <2> HIDE DEF r
  <2> QED
    BY <1>1, <2>1, <2>2, TypedExcept
<1> QED
  BY <1>3, <1>4, <1>5, <1>6, <1>7 DEF Next

(* What rows make is typed.                                                *)
LEMMA InvTyped ==
    ASSUME CompositionAssumption, TypeInv
    PROVE  TypeOK
<1>1. RowsTyped(layers) /\ RowsOK(layers) /\ best = Replay(layers)
  BY DEF TypeInv, CompositionInv, ReplayReproduces
<1>2. DOMAIN layers = 1..Len(layers) /\ \A k \in 1..Len(layers) : IsRow(layers[k])
  BY <1>1, RowsFacts
<1>3. NoParams \in DOMAIN Rank
  BY DEF CompositionAssumption
<1>4. ASSUME NEW k \in DOMAIN layers
      PROVE  /\ layers[k].patch \in Patches /\ layers[k].valid \in BOOLEAN
             /\ {layers[k].params, layers[k].frozen} \subseteq DOMAIN Rank
  <2>1. layers[k].params \in DOMAIN Rank
    BY <1>1, <1>2 DEF RowsTyped
  <2>2. layers[k].patch \in Patches /\ layers[k].frozen \in {NoParams, layers[k].params}
    BY <1>2 DEF IsRow
  <2>3. layers[k].valid \in BOOLEAN
    BY <1>2 DEF IsRow
  <2> QED
    BY <1>3, <2>1, <2>2, <2>3
<1>5. WellFormed(best.members) /\ ListsIn(best.members, AnyLists) /\ HooksOnly(best.members)
  BY <1>1, BestTyped
<1>6. ASSUME NEW n \in DOMAIN best.members
      PROVE  LET node == best.members[n] IN
             \/ node[1] = "both" /\ n[1] \in Composable /\ Refs(node) \subseteq DOMAIN best.members
             \/ node[1] = "only" /\ n[1] = "param_candidates" /\ node[2] \in DOMAIN Rank
             \/ node[1] = "own" /\ n[1] \in Hooks \cup {Shared}
  <2> DEFINE node == best.members[n]
  <2>1. /\ node[1] = "both" \/ node[1] = "own" \/ (node[1] = "only" /\ n[1] = "param_candidates")
        /\ node[1] = "both" => n[1] \in Composable
        /\ Refs(node) \subseteq DOMAIN best.members
    BY <1>5, Kinds
  <2>2. node[1] = "own" => n[1] \in Hooks \cup {Shared}
    BY <1>5 DEF HooksOnly
  <2>3. node[1] = "only" => node[2] \in DOMAIN Rank
    <3> SUFFICES ASSUME node[1] = "only" PROVE node[2] \in DOMAIN Rank
      OBVIOUS
    <3>1. <<node[2]>> \in Seq(DOMAIN Rank)
      BY <1>5, <2>1 DEF ListsIn, AnyLists
    <3> DEFINE x == node[2]
    <3> HIDE DEF x
    <3>2. <<x>> \in Seq(DOMAIN Rank)
      BY <3>1 DEF x
    <3>3. x \in DOMAIN Rank
      BY <3>2
    <3> QED
      BY <3>3 DEF x
  <2> HIDE DEF node
  <2>4. \/ node[1] = "both" /\ n[1] \in Composable /\ Refs(node) \subseteq DOMAIN best.members
        \/ node[1] = "only" /\ n[1] = "param_candidates" /\ node[2] \in DOMAIN Rank
        \/ node[1] = "own" /\ n[1] \in Hooks \cup {Shared}
    BY <2>1, <2>2, <2>3
  <2> QED
    BY <2>4 DEF node
<1>7. Len(layers) <= MaxLayers
  BY <1>1 DEF RowsTyped
<1> QED
  BY <1>4, <1>6, <1>7 DEF TypeOK

\* Type correctness: wrappers call members that are there, and parameters come
\* from the lists.
THEOREM BaselineTyped == Spec => []TypeOK
<1>1. Init => TypeInv
  <2> SUFFICES ASSUME Init PROVE RowsTyped(layers)
    BY InitInv DEF TypeInv
  <2>1. layers = <<>> /\ Len(layers) = 0
    BY DEF Init
  <2>2. 1..0 = {}
    OBVIOUS
  <2>3. RowsOK(layers)
    BY <2>1, NoRows
  <2>4. 0 <= MaxLayers
    BY CompositionAssumption DEF CompositionAssumption
  <2> QED
    BY <2>1, <2>2, <2>3, <2>4 DEF RowsTyped
<1>2. TypeInv /\ [Next]_vars => TypeInv'
  BY CompositionAssumption, StepTyped
<1>3. TypeInv => TypeOK
  BY CompositionAssumption, InvTyped
<1> QED
  BY <1>1, <1>2, <1>3, PTL DEF Spec
=============================================================================
