----------------------- MODULE BaselineRegistryProofs -----------------------
(***************************************************************************)
(* Proofs about the baseline registry, for any number of runs, attempt     *)
(* tasks and attempts, any number of tasks killed, of uploads and reads    *)
(* that fail and of uses of the operator's tools.  What is proved of the   *)
(* registry as a whole is proved under the discipline the runbook asks     *)
(* for, Sequential: one run at a time, the tools kept out of runs.         *)
(***************************************************************************)
EXTENDS BaselineRegistry, SequenceTheorems, FiniteSetTheorems, WellFoundedInduction, TLAPS

Sequential == ~Overlap /\ ~LiveTools

USE DEF attemptVars, taskVars, promoteVars, establishVars, toolVars, boundVars

-----------------------------------------------------------------------------
(* The inductive invariants.                                               *)

\* Types need to know who is at work: a promote task has a winner of its run,
\* a bootstrap a candidate, a rebuild rows to replay.
WorkInv ==
    /\ \A r \in Runs : ppc[r] \in Steps => winner[r] \in Rows(r)
    /\ epc # "idle" => chosen \in 1..count

TypeInv == TypeOK /\ WorkInv

Busy(r) == ppc[r] = "open" \/ ppc[r] \in Steps

\* One run, one bootstrap or one tool at a time.
Exclusive ==
    /\ \A r, s \in Runs : Busy(r) /\ Busy(s) => r = s
    /\ \A r \in Runs : Busy(r) => epc = "idle" /\ tpc = "idle"
    /\ epc # "idle" => tpc = "idle"

\* Nothing of a run before it starts.
OffInv ==
    \A r \in Runs : ppc[r] = "off" =>
        /\ Rows(r) = {}
        /\ \A i \in Slots : apc[<<r, i>>] = "todo"

\* While a run is at work the valid rows stand still: its attempts are judged
\* against them, come after them, and a jump needs one.
RunInv ==
    \A r \in Runs : Busy(r) =>
        /\ hadBest[r] => Valid # {}
        /\ \A i \in Slots : apc[<<r, i>>] = "eval" => seen[<<r, i>>] = Valid
        /\ \A a \in Rows(r) :
              /\ judged[a] = Valid
              /\ label[a] = "jump" => Valid # {}
              /\ \A v \in Valid : v < a

\* A guard that would fail stops the attempts of the run.
Begun(r) == Rows(r) # {} \/ \E i \in Slots : apc[<<r, i>>] \in {"guarded", "loaded", "eval"}

Early(r) == ppc[r] \in {"open", "stage1", "guard"}

GuardedInv ==
    \A r \in Runs : Early(r) /\ Begun(r) /\ faults = 0 => GuardPasses(blob)

\* From the guard on a promote task works for a jump, on what the latest valid
\* row was promoted as.
PromoteInv ==
    \A r \in Runs :
        /\ ppc[r] \in Steps \ {"stage1"} => label[winner[r]] = "jump"
        /\ ppc[r] = "fetch" /\ ~blind => blob = mat[Latest]
        /\ ppc[r] \in {"confirm", "verify", "upload", "commit"} /\ ~blind =>
              current[r] = mat[Latest]

\* The others: a bootstrap needs an empty registry, a rebuild a filled one.
ToolInv ==
    /\ epc # "idle" => Valid = {}
    /\ tpc # "idle" => Valid # {} /\ replay = InOrder(Valid)

\* A registry with a valid row has a blob, and every valid row was promoted on
\* top of those before it.
BlobInv ==
    /\ Valid # {} => blob # <<>>
    /\ epc = "commit" => blob # <<>>
MatInv  == ~blind => \A v, u \in Valid : u <= v => u \in ToSet(mat[v])
RowInv  == \A a \in Attempts : row[a] # "none" => a <= count

\* A mark is that of the winner of a run; a jump keeps it for its row.
MarkInv ==
    \A a \in marked :
        /\ a \in 1..count /\ owner[a] \in Runs
        /\ winner[owner[a]] = a /\ ppc[owner[a]] \notin {"off", "open"}
        /\ deaths = 0 /\ faults = 0 /\ label[a] = "jump" /\ ppc[owner[a]] = "over" =>
              row[a] # "none"

SeqInv ==
    /\ TypeInv /\ Exclusive /\ OffInv /\ RunInv /\ GuardedInv /\ PromoteInv /\ ToolInv
    /\ BlobInv /\ MatInv /\ RowInv /\ MarkInv

-----------------------------------------------------------------------------
(* Lemmas about the operators.                                             *)

\* Attempts are numbers, and any set of them is finite.
LEMMA AttemptFacts ==
    /\ MaxAttempts \in Nat /\ Attempts \subseteq Nat \ {0} /\ Nobody \notin Attempts
    /\ \A S \in SUBSET Attempts : IsFiniteSet(S) /\ Cardinality(S) \in Nat
<1>1. MaxAttempts \in Nat /\ Attempts \subseteq Nat \ {0} /\ Nobody \notin Attempts
  BY RegistryAssumption DEF Attempts, Nobody
<1>2. IsFiniteSet(Attempts)
  BY <1>1, FS_Interval DEF Attempts
<1> QED
  BY <1>1, <1>2, FS_Subset, FS_CardinalityType

\* A larger attempt has a larger rank.
LEMMA RankGrows ==
    ASSUME NEW S \in SUBSET Attempts, NEW a \in S, NEW b \in S, a < b
    PROVE  Rank(a, S) < Rank(b, S)
<1> DEFINE A == {c \in S : c <= a}
           B == {c \in S : c <= b}
<1>1. A \in SUBSET B /\ b \in B /\ b \notin A
  <2>1. a \in Nat /\ b \in Nat /\ \A c \in S : c \in Nat
    BY AttemptFacts
  <2>2. \A c \in S : c <= a => c <= b
    BY <2>1
  <2>3. b <= b /\ ~(b <= a)
    BY <2>1
  <2> QED
    BY <2>2, <2>3
<1>2. A \in SUBSET Attempts /\ B \in SUBSET Attempts
  OBVIOUS
<1> HIDE DEF A, B
<1>3. Cardinality(A) <= Cardinality(B) /\ (Cardinality(B) = Cardinality(A) => B = A)
  BY <1>1, <1>2, AttemptFacts, FS_Subset
<1>4. Cardinality(A) < Cardinality(B)
  BY <1>1, <1>2, <1>3, AttemptFacts
<1> QED
  BY <1>4 DEF Rank, A, B

\* Every rank is that of exactly one attempt.
LEMMA RankFacts ==
    ASSUME NEW S \in SUBSET Attempts
    PROVE  /\ \A a \in S : Rank(a, S) \in 1..Cardinality(S)
           /\ \A a, b \in S : Rank(a, S) = Rank(b, S) => a = b
           /\ \A i \in 1..Cardinality(S) : \E a \in S : Rank(a, S) = i
<1> DEFINE n == Cardinality(S)
           rank == [a \in S |-> Rank(a, S)]
<1>1. n \in Nat /\ IsFiniteSet(S)
  BY AttemptFacts
<1>2. \A a \in S : Rank(a, S) \in 1..n
  <2> SUFFICES ASSUME NEW a \in S PROVE Rank(a, S) \in 1..n
    OBVIOUS
  <2> DEFINE A == {c \in S : c <= a}
  <2>1. A \in SUBSET S /\ A \in SUBSET Attempts /\ a \in A
    <3>1. a \in Nat
      BY AttemptFacts
    <3>2. a <= a
      BY <3>1
    <3> QED
      BY <3>2
  <2> HIDE DEF A
  <2>2. Cardinality(A) <= n /\ Cardinality(A) \in Nat /\ IsFiniteSet(A)
    BY <1>1, <2>1, AttemptFacts, FS_Subset
  <2>3. Cardinality(A) # 0
    BY <2>1, <2>2, FS_EmptySet
  <2>4. Cardinality(A) \in 1..n
    BY <1>1, <2>2, <2>3
  <2> QED
    BY <2>4 DEF A, Rank
<1>3. \A a, b \in S : Rank(a, S) = Rank(b, S) => a = b
  <2> SUFFICES ASSUME NEW a \in S, NEW b \in S, Rank(a, S) = Rank(b, S), a # b PROVE FALSE
    OBVIOUS
  <2>1. a < b \/ b < a
    BY AttemptFacts
  <2>2. Rank(a, S) \in Nat /\ Rank(b, S) \in Nat
    BY <1>1, <1>2
  <2> QED
    BY <2>1, <2>2, RankGrows
<1>4. rank \in Injection(S, 1..n)
  BY <1>2, <1>3 DEF Injection, IsInjective
<1>5. IsFiniteSet(1..n) /\ Cardinality(1..n) = n
  BY <1>1, FS_Interval
<1> HIDE DEF rank
<1>6. rank \in Surjection(S, 1..n)
  BY <1>4, <1>5, FS_Injection
<1>7. \A i \in 1..n : \E a \in S : rank[a] = i
  BY <1>6 DEF Surjection
<1> QED
  BY <1>2, <1>3, <1>7 DEF rank

\* A replay merges exactly the attempts it is given.
LEMMA InOrderFacts ==
    ASSUME NEW S \in SUBSET Attempts
    PROVE  /\ InOrder(S) \in Sources /\ ToSet(InOrder(S)) = S
           /\ S # {} => InOrder(S) # <<>>
<1> DEFINE n == Cardinality(S)
           at(i) == CHOOSE a \in S : Rank(a, S) = i
<1>1. n \in Nat /\ IsFiniteSet(S)
  BY AttemptFacts
<1>2. \A i \in 1..n : at(i) \in S /\ Rank(at(i), S) = i
  BY RankFacts
<1>3. \A a \in S : Rank(a, S) \in 1..n /\ at(Rank(a, S)) = a
  BY <1>2, RankFacts
<1>4. InOrder(S) = [i \in 1..n |-> at(i)]
  BY DEF InOrder
<1> HIDE DEF n, at
<1>5. InOrder(S) \in [1..n -> Attempts]
  BY <1>2, <1>4
<1>6. InOrder(S) \in Sources
  BY <1>1, <1>5 DEF Sources
<1>7. DOMAIN InOrder(S) = 1..n
  BY <1>4
<1>8. ToSet(InOrder(S)) = S
  BY <1>2, <1>3, <1>4, <1>7 DEF ToSet
<1>9. S # {} => InOrder(S) # <<>>
  <2> SUFFICES ASSUME NEW a \in S, InOrder(S) = <<>> PROVE FALSE
    OBVIOUS
  <2>1. 1..n = {}
    BY <1>7
  <2> QED
    BY <1>3, <2>1
<1> QED
  BY <1>6, <1>8, <1>9

\* Sources: nothing, one layer, one layer more.
LEMMA SourceFacts ==
    /\ <<>> \in Sources
    /\ \A a \in Attempts : <<a>> \in Sources /\ a \in ToSet(<<a>>) /\ <<a>> # <<>>
    /\ \A s \in Sources, a \in Attempts :
          /\ Append(s, a) \in Sources /\ Append(s, a) # <<>>
          /\ ToSet(Append(s, a)) = ToSet(s) \cup {a}
<1>1. <<>> \in Sources
  BY DEF Sources
<1>2. ASSUME NEW a \in Attempts
      PROVE  <<a>> \in Sources /\ a \in ToSet(<<a>>) /\ <<a>> # <<>>
  <2>1. <<a>> \in Sources /\ <<a>> # <<>>
    BY DEF Sources
  <2>2. 1 \in DOMAIN <<a>> /\ <<a>>[1] = a
    OBVIOUS
  <2> QED
    BY <2>1, <2>2 DEF ToSet
<1>3. ASSUME NEW s \in Sources, NEW a \in Attempts
      PROVE  /\ Append(s, a) \in Sources /\ Append(s, a) # <<>>
             /\ ToSet(Append(s, a)) = ToSet(s) \cup {a}
  <2> DEFINE n == Len(s)
             more == Append(s, a)
  <2>1. s \in Seq(Attempts) /\ n \in Nat /\ DOMAIN s = 1..n
    BY DEF Sources
  <2>2. /\ more \in Seq(Attempts) /\ DOMAIN more = 1..(n + 1) /\ more[n + 1] = a
        /\ \A i \in 1..n : more[i] = s[i]
    BY <2>1, AppendProperties
  <2> HIDE DEF n, more
  <2>3. more # <<>>
    BY <2>1, <2>2
  <2>4. ToSet(more) \subseteq ToSet(s) \cup {a}
    <3> SUFFICES ASSUME NEW i \in 1..(n + 1) PROVE more[i] \in ToSet(s) \cup {a}
      BY <2>2 DEF ToSet
    <3>1. i \in 1..n \/ i = n + 1
      BY <2>1
    <3> QED
      BY <2>1, <2>2, <3>1 DEF ToSet
  <2>5. ToSet(s) \cup {a} \subseteq ToSet(more)
    <3>1. a \in ToSet(more)
      <4>1. n + 1 \in DOMAIN more
        BY <2>1, <2>2
      <4> QED
        BY <2>2, <4>1 DEF ToSet
    <3>2. ASSUME NEW i \in DOMAIN s PROVE s[i] \in ToSet(more)
      <4>1. i \in DOMAIN more /\ more[i] = s[i]
        BY <2>1, <2>2
      <4> QED
        BY <4>1 DEF ToSet
    <3> QED
      BY <3>1, <3>2 DEF ToSet
  <2> QED
    BY <2>2, <2>3, <2>4, <2>5 DEF Sources, more
<1> QED
  BY <1>1, <1>2, <1>3

\* There is a latest valid row if there is one at all.
LEMMA LatestFacts ==
    Valid # {} => Latest \in Valid /\ \A v \in Valid : v <= Latest
<1> SUFFICES ASSUME Valid # {} PROVE Latest \in Valid /\ \A v \in Valid : v <= Latest
  OBVIOUS
<1> DEFINE Under == {MaxAttempts - v : v \in Valid}
           R == OpToRel(<, Nat)
<1>1. Valid \subseteq 1..MaxAttempts /\ MaxAttempts \in Nat
  BY AttemptFacts DEF Valid, Attempts
<1>2. Under \subseteq Nat /\ Under # {}
  <2>1. \A v \in Valid : MaxAttempts - v \in Nat
    BY <1>1
  <2> QED
    BY <2>1
<1> HIDE DEF Under
<1>3. \E x \in Under : \A y \in Under : ~(<<y, x>> \in R)
  BY <1>2, NatLessThanWellFounded, WFMin
<1>4. \A x, y \in Nat : y < x => <<y, x>> \in R
  BY DEF OpToRel
<1> HIDE DEF R
<1>5. PICK x \in Under : \A y \in Under : ~(y < x)
  BY <1>2, <1>3, <1>4
<1>6. PICK a \in Valid : x = MaxAttempts - a
  BY DEF Under
<1>7. \A v \in Valid : MaxAttempts - v \in Under
  BY DEF Under
<1>8. \A v \in Valid : v <= a
  BY <1>1, <1>5, <1>6, <1>7
<1> QED
  BY <1>8 DEF Latest

\* What a download answers when nothing fails is the blob.
LEMMA DownloadFacts ==
    ASSUME TypeInv, NEW b \in Downloads, Download(b)
    PROVE  /\ b \in Sources /\ faults' \in Nat /\ blind' \in BOOLEAN
           /\ ~blind' => ~blind /\ b = blob
           /\ faults' = 0 => faults = 0 /\ b = blob
<1>1. faults \in Nat /\ blind \in BOOLEAN /\ blob \in Sources
  BY DEF TypeInv, TypeOK, StoreTypes, OtherTypes
<1>2. CASE b = blob /\ UNCHANGED <<faults, blind>>
  BY <1>1, <1>2
<1>3. CASE b = <<>> /\ faults' = faults + 1 /\ blind' = TRUE
  BY <1>1, <1>3, SourceFacts
<1> QED
  BY <1>2, <1>3 DEF Download

\* The attempts of a run, and a merge into the baseline.
LEMMA RowsFacts == TypeInv => \A r \in Runs : Rows(r) \subseteq 1..count /\ Rows(r) \subseteq Attempts
  BY AttemptFacts DEF TypeInv, TypeOK, AttemptTypes, Rows, Attempts

LEMMA MergedFacts ==
    ASSUME TypeInv, NEW r \in Runs, ppc[r] \in Steps
    PROVE  /\ winner[r] \in Rows(r) /\ winner[r] \in Attempts
           /\ Merged(r) \in Sources /\ Merged(r) # <<>>
<1>1. winner[r] \in Rows(r) /\ winner[r] \in Attempts
  BY RowsFacts DEF TypeInv, WorkInv
<1>2. current[r] \in Sources
  BY DEF TypeInv, TypeOK, PromoteTypes
<1> QED
  BY <1>1, <1>2, SourceFacts DEF Merged

-----------------------------------------------------------------------------
(* Types are kept by every step.                                           *)

\* A run starts.
LEMMA RetrieveTypes ==
    ASSUME TypeInv, NEW r \in Runs, Retrieve(r)
    PROVE  TypeInv'
<1>1. AttemptTypes' /\ StoreTypes' /\ TaskTypes' /\ OtherTypes'
  BY DEF TypeInv, TypeOK, AttemptTypes, StoreTypes, TaskTypes, OtherTypes, Retrieve
<1>2. PromoteTypes'
  BY DEF TypeInv, TypeOK, PromoteTypes, Retrieve, Steps
<1>3. WorkInv'
  BY AttemptFacts DEF TypeInv, TypeOK, WorkInv, Rows, Steps, AttemptTypes, PromoteTypes,
     OtherTypes, Retrieve
<1> QED
  BY <1>1, <1>2, <1>3 DEF TypeInv, TypeOK

\* An attempt task compares blob and registry.
LEMMA AttemptGuardTypes ==
    ASSUME TypeInv, NEW t \in Tasks, NEW b \in Downloads, AttemptGuard(t, b)
    PROVE  TypeInv'
<1>1. AttemptTypes' /\ PromoteTypes'
  BY DEF TypeInv, TypeOK, AttemptTypes, PromoteTypes, AttemptGuard
<1>2. TaskTypes'
  BY DownloadFacts, SourceFacts DEF TypeInv, TypeOK, TaskTypes, AttemptGuard
<1>3. OtherTypes'
  BY DownloadFacts DEF TypeInv, TypeOK, OtherTypes, AttemptGuard
<1>4. StoreTypes'
  BY AttemptFacts, SourceFacts DEF TypeInv, TypeOK, StoreTypes, AttemptGuard
<1>5. WorkInv'
  BY AttemptFacts DEF TypeInv, TypeOK, WorkInv, Rows, Steps, AttemptTypes, PromoteTypes,
     OtherTypes, AttemptGuard
<1> QED
  BY <1>1, <1>2, <1>3, <1>4, <1>5 DEF TypeInv, TypeOK

\* It loads the blob it works on.
LEMMA AttemptLoadTypes ==
    ASSUME TypeInv, NEW t \in Tasks, NEW b \in Downloads, AttemptLoad(t, b)
    PROVE  TypeInv'
<1>1. AttemptTypes' /\ StoreTypes' /\ PromoteTypes'
  BY DEF TypeInv, TypeOK, AttemptTypes, StoreTypes, PromoteTypes, AttemptLoad
<1>2. TaskTypes'
  BY DownloadFacts, SourceFacts DEF TypeInv, TypeOK, TaskTypes, AttemptLoad
<1>3. OtherTypes'
  BY DownloadFacts DEF TypeInv, TypeOK, OtherTypes, AttemptLoad
<1>4. WorkInv'
  BY AttemptFacts DEF TypeInv, TypeOK, WorkInv, Rows, Steps, AttemptTypes, PromoteTypes,
     OtherTypes, AttemptLoad
<1> QED
  BY <1>1, <1>2, <1>3, <1>4 DEF TypeInv, TypeOK

\* It reads what it is judged against.
LEMMA AttemptBaselineTypes ==
    ASSUME TypeInv, NEW t \in Tasks, AttemptBaseline(t)
    PROVE  TypeInv'
<1>1. AttemptTypes' /\ StoreTypes' /\ PromoteTypes' /\ OtherTypes'
  BY DEF TypeInv, TypeOK, AttemptTypes, StoreTypes, PromoteTypes, OtherTypes, AttemptBaseline
<1>2. TaskTypes'
  BY SourceFacts DEF TypeInv, TypeOK, TaskTypes, AttemptBaseline, Valid
<1>3. WorkInv'
  BY AttemptFacts DEF TypeInv, TypeOK, WorkInv, Rows, Steps, AttemptTypes, PromoteTypes,
     OtherTypes, AttemptBaseline, Valid
<1> QED
  BY <1>1, <1>2, <1>3 DEF TypeInv, TypeOK

\* It stores its attempt.
LEMMA AttemptStoreTypes ==
    ASSUME TypeInv, NEW t \in Tasks, NEW l \in {"jump", "other", "error"}, AttemptStore(t, l)
    PROVE  TypeInv'
<1>1. StoreTypes' /\ PromoteTypes' /\ OtherTypes'
  BY DEF TypeInv, TypeOK, StoreTypes, PromoteTypes, OtherTypes, AttemptStore
<1>2. AttemptTypes'
  BY AttemptFacts DEF TypeInv, TypeOK, AttemptTypes, AttemptStore, Over, Tasks, TaskTypes,
     Attempts
<1>3. TaskTypes'
  BY SourceFacts DEF TypeInv, TypeOK, TaskTypes, AttemptStore, Over, Tasks
<1>4. WorkInv'
  BY AttemptFacts DEF TypeInv, TypeOK, WorkInv, Rows, Steps, AttemptTypes, PromoteTypes,
     OtherTypes, AttemptStore, Over, Tasks
<1> QED
  BY <1>1, <1>2, <1>3, <1>4 DEF TypeInv, TypeOK

\* It is killed.
LEMMA AttemptDiesTypes ==
    ASSUME TypeInv, NEW t \in Tasks, AttemptDies(t)
    PROVE  TypeInv'
<1>1. AttemptTypes' /\ StoreTypes' /\ PromoteTypes' /\ OtherTypes'
  BY DEF TypeInv, TypeOK, AttemptTypes, StoreTypes, PromoteTypes, OtherTypes, AttemptDies
<1>2. TaskTypes'
  BY SourceFacts DEF TypeInv, TypeOK, TaskTypes, AttemptDies, Over
<1>3. WorkInv'
  BY AttemptFacts DEF TypeInv, TypeOK, WorkInv, Rows, Steps, AttemptTypes, PromoteTypes,
     OtherTypes, AttemptDies, Over
<1> QED
  BY <1>1, <1>2, <1>3 DEF TypeInv, TypeOK

\* A run ends with a winner, or without.
LEMMA PickWinnerTypes ==
    ASSUME TypeInv, NEW r \in Runs, NEW w \in Attempts \cup {Nobody}, PickWinner(r, w)
    PROVE  TypeInv'
<1>1. AttemptTypes' /\ TaskTypes' /\ OtherTypes'
  BY DEF TypeInv, TypeOK, AttemptTypes, TaskTypes, OtherTypes, PickWinner, Step
<1>2. PromoteTypes'
  BY RowsFacts DEF TypeInv, TypeOK, PromoteTypes, PickWinner, Step, Steps
<1>3. StoreTypes'
  BY AttemptFacts, SourceFacts, RowsFacts DEF TypeInv, TypeOK, StoreTypes, PickWinner, Step
<1>4. WorkInv'
  BY AttemptFacts DEF TypeInv, TypeOK, WorkInv, Rows, Steps, AttemptTypes, PromoteTypes,
     OtherTypes, PickWinner, Step
<1> QED
  BY <1>1, <1>2, <1>3, <1>4 DEF TypeInv, TypeOK

\* The significance test of the promote task.
LEMMA Stage1Types ==
    ASSUME TypeInv, NEW r \in Runs, NEW s \in BOOLEAN, Stage1(r, s)
    PROVE  TypeInv'
<1>1. AttemptTypes' /\ StoreTypes' /\ TaskTypes' /\ OtherTypes'
  BY DEF TypeInv, TypeOK, AttemptTypes, StoreTypes, TaskTypes, OtherTypes, Stage1, Step
<1>2. PromoteTypes'
  BY DEF TypeInv, TypeOK, PromoteTypes, Stage1, Step, Steps
<1>3. WorkInv'
  BY AttemptFacts DEF TypeInv, TypeOK, WorkInv, Rows, Steps, AttemptTypes, PromoteTypes,
     OtherTypes, Stage1, Step
<1> QED
  BY <1>1, <1>2, <1>3 DEF TypeInv, TypeOK

\* Its look at blob and registry.
LEMMA PromoteGuardTypes ==
    ASSUME TypeInv, NEW r \in Runs, NEW b \in Downloads, PromoteGuard(r, b)
    PROVE  TypeInv'
<1>1. AttemptTypes' /\ TaskTypes'
  BY DEF TypeInv, TypeOK, AttemptTypes, TaskTypes, PromoteGuard, Step
<1>2. PromoteTypes'
  BY DownloadFacts, SourceFacts DEF TypeInv, TypeOK, PromoteTypes, PromoteGuard, Step, Steps
<1>3. OtherTypes'
  BY DownloadFacts DEF TypeInv, TypeOK, OtherTypes, PromoteGuard, Step
<1>4. StoreTypes'
  BY AttemptFacts, SourceFacts DEF TypeInv, TypeOK, StoreTypes, PromoteGuard, Step
<1>5. WorkInv'
  BY AttemptFacts DEF TypeInv, TypeOK, WorkInv, Rows, Steps, AttemptTypes, PromoteTypes,
     OtherTypes, PromoteGuard, Step
<1> QED
  BY <1>1, <1>2, <1>3, <1>4, <1>5 DEF TypeInv, TypeOK

\* It reads the blob it merges into.
LEMMA FetchTypes ==
    ASSUME TypeInv, NEW r \in Runs, NEW b \in Downloads, Fetch(r, b)
    PROVE  TypeInv'
<1>1. AttemptTypes' /\ StoreTypes' /\ TaskTypes'
  BY DEF TypeInv, TypeOK, AttemptTypes, StoreTypes, TaskTypes, Fetch, Step
<1>2. PromoteTypes'
  BY DownloadFacts, SourceFacts DEF TypeInv, TypeOK, PromoteTypes, Fetch, Step, Steps
<1>3. OtherTypes'
  BY DownloadFacts DEF TypeInv, TypeOK, OtherTypes, Fetch, Step
<1>4. WorkInv'
  BY AttemptFacts DEF TypeInv, TypeOK, WorkInv, Rows, Steps, AttemptTypes, PromoteTypes,
     OtherTypes, Fetch, Step
<1> QED
  BY <1>1, <1>2, <1>3, <1>4 DEF TypeInv, TypeOK

\* Its train data does not load.
LEMMA NoTrainTypes ==
    ASSUME TypeInv, NEW r \in Runs, NoTrain(r)
    PROVE  TypeInv'
<1>1. AttemptTypes' /\ StoreTypes' /\ TaskTypes'
  BY DEF TypeInv, TypeOK, AttemptTypes, StoreTypes, TaskTypes, NoTrain, Step
<1>2. PromoteTypes'
  BY DEF TypeInv, TypeOK, PromoteTypes, NoTrain, Step, Steps
<1>3. OtherTypes'
  BY DEF TypeInv, TypeOK, OtherTypes, NoTrain, Step
<1>4. WorkInv'
  BY AttemptFacts DEF TypeInv, TypeOK, WorkInv, Rows, Steps, AttemptTypes, PromoteTypes,
     OtherTypes, NoTrain, Step
<1> QED
  BY <1>1, <1>2, <1>3, <1>4 DEF TypeInv, TypeOK

\* A confirmation or a merge passes.
LEMMA AcceptTypes ==
    ASSUME TypeInv, NEW r \in Runs, Accept(r)
    PROVE  TypeInv'
<1>1. AttemptTypes' /\ StoreTypes' /\ TaskTypes' /\ OtherTypes'
  BY DEF TypeInv, TypeOK, AttemptTypes, StoreTypes, TaskTypes, OtherTypes, Accept, Step
<1>2. PromoteTypes'
  BY DEF TypeInv, TypeOK, PromoteTypes, Accept, Step, Steps
<1>3. WorkInv'
  BY AttemptFacts DEF TypeInv, TypeOK, WorkInv, Rows, Steps, AttemptTypes, PromoteTypes,
     OtherTypes, Accept, Step
<1> QED
  BY <1>1, <1>2, <1>3 DEF TypeInv, TypeOK

\* A confirmation or a merge fails.
LEMMA RejectTypes ==
    ASSUME TypeInv, NEW r \in Runs, Reject(r)
    PROVE  TypeInv'
<1>1. AttemptTypes' /\ TaskTypes' /\ OtherTypes'
  BY DEF TypeInv, TypeOK, AttemptTypes, TaskTypes, OtherTypes, Reject, Step
<1>2. PromoteTypes'
  BY DEF TypeInv, TypeOK, PromoteTypes, Reject, Step, Steps
<1>3. StoreTypes'
  BY AttemptFacts, SourceFacts DEF TypeInv, TypeOK, StoreTypes, Reject, Step
<1>4. WorkInv'
  BY AttemptFacts DEF TypeInv, TypeOK, WorkInv, Rows, Steps, AttemptTypes, PromoteTypes,
     OtherTypes, Reject, Step
<1> QED
  BY <1>1, <1>2, <1>3, <1>4 DEF TypeInv, TypeOK

\* The merged source goes to MinIO.
LEMMA UploadTypes ==
    ASSUME TypeInv, NEW r \in Runs, Upload(r)
    PROVE  TypeInv'
<1>1. AttemptTypes' /\ TaskTypes' /\ OtherTypes'
  BY DEF TypeInv, TypeOK, AttemptTypes, TaskTypes, OtherTypes, Upload, Step
<1>2. PromoteTypes'
  BY DEF TypeInv, TypeOK, PromoteTypes, Upload, Step, Steps
<1>3. StoreTypes'
  <2>1. ppc[r] \in Steps
    BY DEF Upload, Step, Steps
  <2>2. winner[r] \in Attempts /\ Merged(r) \in Sources
    BY <2>1, MergedFacts
  <2> QED
    BY <2>2 DEF TypeInv, TypeOK, StoreTypes, Upload
<1>4. WorkInv'
  BY AttemptFacts DEF TypeInv, TypeOK, WorkInv, Rows, Steps, AttemptTypes, PromoteTypes,
     OtherTypes, Upload, Step
<1> QED
  BY <1>1, <1>2, <1>3, <1>4 DEF TypeInv, TypeOK

\* The upload fails, with or without effect.
LEMMA UploadFailsTypes ==
    ASSUME TypeInv, NEW r \in Runs, UploadFails(r)
    PROVE  TypeInv'
<1>1. AttemptTypes' /\ TaskTypes'
  BY DEF TypeInv, TypeOK, AttemptTypes, TaskTypes, UploadFails, Step
<1>2. PromoteTypes'
  BY DEF TypeInv, TypeOK, PromoteTypes, UploadFails, Step, Steps
<1>3. StoreTypes'
  <2>1. ppc[r] \in Steps
    BY DEF UploadFails, Step, Steps
  <2>2. winner[r] \in Attempts /\ Merged(r) \in Sources
    BY <2>1, MergedFacts
  <2> QED
    BY <2>2 DEF TypeInv, TypeOK, StoreTypes, UploadFails
<1>4. OtherTypes'
  BY DEF TypeInv, TypeOK, OtherTypes, UploadFails, Step
<1>5. WorkInv'
  BY AttemptFacts DEF TypeInv, TypeOK, WorkInv, Rows, Steps, AttemptTypes, PromoteTypes,
     OtherTypes, UploadFails, Step
<1> QED
  BY <1>1, <1>2, <1>3, <1>4, <1>5 DEF TypeInv, TypeOK

\* The row becomes visible.
LEMMA CommitTypes ==
    ASSUME TypeInv, NEW r \in Runs, Commit(r)
    PROVE  TypeInv'
<1>1. AttemptTypes' /\ TaskTypes' /\ OtherTypes'
  BY DEF TypeInv, TypeOK, AttemptTypes, TaskTypes, OtherTypes, Commit, Step
<1>2. PromoteTypes'
  BY DEF TypeInv, TypeOK, PromoteTypes, Commit, Step, Steps
<1>3. StoreTypes'
  <2>1. ppc[r] \in Steps
    BY DEF Commit, Step, Steps
  <2>2. winner[r] \in Attempts /\ Merged(r) \in Sources
    BY <2>1, MergedFacts
  <2> QED
    BY <2>2 DEF TypeInv, TypeOK, StoreTypes, Commit
<1>4. WorkInv'
  BY AttemptFacts DEF TypeInv, TypeOK, WorkInv, Rows, Steps, AttemptTypes, PromoteTypes,
     OtherTypes, Commit, Step
<1> QED
  BY <1>1, <1>2, <1>3, <1>4 DEF TypeInv, TypeOK

\* The promote task is killed.
LEMMA PromoteDiesTypes ==
    ASSUME TypeInv, NEW r \in Runs, PromoteDies(r)
    PROVE  TypeInv'
<1>1. AttemptTypes' /\ StoreTypes' /\ TaskTypes'
  BY DEF TypeInv, TypeOK, AttemptTypes, StoreTypes, TaskTypes, PromoteDies
<1>2. PromoteTypes'
  BY DEF TypeInv, TypeOK, PromoteTypes, PromoteDies, Steps
<1>3. OtherTypes'
  BY DEF TypeInv, TypeOK, OtherTypes, PromoteDies
<1>4. WorkInv'
  BY AttemptFacts DEF TypeInv, TypeOK, WorkInv, Rows, Steps, AttemptTypes, PromoteTypes,
     OtherTypes, PromoteDies
<1> QED
  BY <1>1, <1>2, <1>3, <1>4 DEF TypeInv, TypeOK

\* A bootstrap picks a candidate.
LEMMA EstablishPickTypes ==
    ASSUME TypeInv, NEW a \in Attempts, EstablishPick(a)
    PROVE  TypeInv'
<1>1. AttemptTypes' /\ StoreTypes' /\ TaskTypes' /\ PromoteTypes'
  BY DEF TypeInv, TypeOK, AttemptTypes, StoreTypes, TaskTypes, PromoteTypes, EstablishPick
<1>2. OtherTypes'
  BY DEF TypeInv, TypeOK, OtherTypes, EstablishPick, EstablishStep
<1>3. WorkInv'
  BY AttemptFacts DEF TypeInv, TypeOK, WorkInv, Rows, Steps, AttemptTypes, PromoteTypes,
     OtherTypes, EstablishPick, EstablishStep
<1> QED
  BY <1>1, <1>2, <1>3 DEF TypeInv, TypeOK

\* It goes on to another.
LEMMA EstablishNextTypes ==
    ASSUME TypeInv, NEW a \in Attempts, EstablishNext(a)
    PROVE  TypeInv'
<1>1. AttemptTypes' /\ StoreTypes' /\ TaskTypes' /\ PromoteTypes'
  BY DEF TypeInv, TypeOK, AttemptTypes, StoreTypes, TaskTypes, PromoteTypes, EstablishNext
<1>2. OtherTypes'
  BY DEF TypeInv, TypeOK, OtherTypes, EstablishNext
<1>3. WorkInv'
  BY AttemptFacts DEF TypeInv, TypeOK, WorkInv, Rows, Steps, AttemptTypes, PromoteTypes,
     OtherTypes, EstablishNext
<1> QED
  BY <1>1, <1>2, <1>3 DEF TypeInv, TypeOK

\* The candidate is confirmed or is not.
LEMMA EstablishConfirmTypes ==
    ASSUME TypeInv, NEW c \in BOOLEAN, EstablishConfirm(c)
    PROVE  TypeInv'
<1>1. AttemptTypes' /\ StoreTypes' /\ TaskTypes' /\ PromoteTypes'
  BY DEF TypeInv, TypeOK, AttemptTypes, StoreTypes, TaskTypes, PromoteTypes, EstablishConfirm
<1>2. OtherTypes'
  BY DEF TypeInv, TypeOK, OtherTypes, EstablishConfirm, EstablishStep
<1>3. WorkInv'
  BY AttemptFacts DEF TypeInv, TypeOK, WorkInv, Rows, Steps, AttemptTypes, PromoteTypes,
     OtherTypes, EstablishConfirm, EstablishStep
<1> QED
  BY <1>1, <1>2, <1>3 DEF TypeInv, TypeOK

\* Its source becomes the blob.
LEMMA EstablishUploadTypes ==
    ASSUME TypeInv, EstablishUpload
    PROVE  TypeInv'
<1>1. AttemptTypes' /\ TaskTypes' /\ PromoteTypes'
  BY DEF TypeInv, TypeOK, AttemptTypes, TaskTypes, PromoteTypes, EstablishUpload
<1>2. OtherTypes'
  BY DEF TypeInv, TypeOK, OtherTypes, EstablishUpload, EstablishStep
<1>3. StoreTypes'
  <2>1. chosen \in Attempts
    BY AttemptFacts DEF TypeInv, TypeOK, WorkInv, AttemptTypes, Attempts, EstablishUpload,
       EstablishStep
  <2>2. <<chosen>> \in Sources
    BY <2>1, SourceFacts
  <2> QED
    BY <2>1, <2>2 DEF TypeInv, TypeOK, StoreTypes, EstablishUpload
<1>4. WorkInv'
  BY AttemptFacts DEF TypeInv, TypeOK, WorkInv, Rows, Steps, AttemptTypes, PromoteTypes,
     OtherTypes, EstablishUpload, EstablishStep
<1> QED
  BY <1>1, <1>2, <1>3, <1>4 DEF TypeInv, TypeOK

\* Its row becomes visible.
LEMMA EstablishCommitTypes ==
    ASSUME TypeInv, EstablishCommit
    PROVE  TypeInv'
<1>1. AttemptTypes' /\ TaskTypes' /\ PromoteTypes'
  BY DEF TypeInv, TypeOK, AttemptTypes, TaskTypes, PromoteTypes, EstablishCommit
<1>2. OtherTypes'
  BY DEF TypeInv, TypeOK, OtherTypes, EstablishCommit, EstablishStep
<1>3. StoreTypes'
  <2>1. chosen \in Attempts
    BY AttemptFacts DEF TypeInv, TypeOK, WorkInv, AttemptTypes, Attempts, EstablishCommit,
       EstablishStep
  <2>2. <<chosen>> \in Sources
    BY <2>1, SourceFacts
  <2> QED
    BY <2>1, <2>2 DEF TypeInv, TypeOK, StoreTypes, EstablishCommit
<1>4. WorkInv'
  BY AttemptFacts DEF TypeInv, TypeOK, WorkInv, Rows, Steps, AttemptTypes, PromoteTypes,
     OtherTypes, EstablishCommit, EstablishStep
<1> QED
  BY <1>1, <1>2, <1>3, <1>4 DEF TypeInv, TypeOK

\* The bootstrap is killed.
LEMMA EstablishDiesTypes ==
    ASSUME TypeInv, EstablishDies
    PROVE  TypeInv'
<1>1. AttemptTypes' /\ StoreTypes' /\ TaskTypes' /\ PromoteTypes'
  BY DEF TypeInv, TypeOK, AttemptTypes, StoreTypes, TaskTypes, PromoteTypes, EstablishDies
<1>2. OtherTypes'
  BY DEF TypeInv, TypeOK, OtherTypes, EstablishDies
<1>3. WorkInv'
  BY AttemptFacts DEF TypeInv, TypeOK, WorkInv, Rows, Steps, AttemptTypes, PromoteTypes,
     OtherTypes, EstablishDies
<1> QED
  BY <1>1, <1>2, <1>3 DEF TypeInv, TypeOK

\* A row is taken out of the registry.
LEMMA QuarantineTypes ==
    ASSUME TypeInv, NEW a \in Attempts, Quarantine(a)
    PROVE  TypeInv'
<1>1. AttemptTypes' /\ TaskTypes' /\ PromoteTypes'
  BY DEF TypeInv, TypeOK, AttemptTypes, TaskTypes, PromoteTypes, Quarantine
<1>2. OtherTypes'
  BY DEF TypeInv, TypeOK, OtherTypes, Quarantine, MayUseTool
<1>3. StoreTypes'
  BY AttemptFacts, SourceFacts DEF TypeInv, TypeOK, StoreTypes, Quarantine, MayUseTool
<1>4. WorkInv'
  BY AttemptFacts DEF TypeInv, TypeOK, WorkInv, Rows, Steps, AttemptTypes, PromoteTypes,
     OtherTypes, Quarantine, MayUseTool
<1> QED
  BY <1>1, <1>2, <1>3, <1>4 DEF TypeInv, TypeOK

\* The rebuild merges the valid rows anew.
LEMMA RebuildReplayTypes ==
    ASSUME TypeInv, RebuildReplay
    PROVE  TypeInv'
<1>1. AttemptTypes' /\ StoreTypes' /\ TaskTypes' /\ PromoteTypes'
  BY DEF TypeInv, TypeOK, AttemptTypes, StoreTypes, TaskTypes, PromoteTypes, RebuildReplay
<1>2. OtherTypes'
  BY InOrderFacts DEF TypeInv, TypeOK, OtherTypes, RebuildReplay, MayUseTool, Valid
<1>3. WorkInv'
  BY AttemptFacts DEF TypeInv, TypeOK, WorkInv, Rows, Steps, AttemptTypes, PromoteTypes,
     OtherTypes, RebuildReplay, MayUseTool
<1> QED
  BY <1>1, <1>2, <1>3 DEF TypeInv, TypeOK

\* The replay becomes the blob.
LEMMA RebuildUploadTypes ==
    ASSUME TypeInv, RebuildUpload
    PROVE  TypeInv'
<1>1. AttemptTypes' /\ TaskTypes' /\ PromoteTypes'
  BY DEF TypeInv, TypeOK, AttemptTypes, TaskTypes, PromoteTypes, RebuildUpload
<1>2. OtherTypes'
  BY DEF TypeInv, TypeOK, OtherTypes, RebuildUpload
<1>3. StoreTypes'
  BY DEF TypeInv, TypeOK, StoreTypes, OtherTypes, RebuildUpload
<1>4. WorkInv'
  BY AttemptFacts DEF TypeInv, TypeOK, WorkInv, Rows, Steps, AttemptTypes, PromoteTypes,
     OtherTypes, RebuildUpload
<1> QED
  BY <1>1, <1>2, <1>3, <1>4 DEF TypeInv, TypeOK

\* The latest valid row vouches for it.
LEMMA RebuildRecordTypes ==
    ASSUME TypeInv, RebuildRecord
    PROVE  TypeInv'
<1>1. AttemptTypes' /\ TaskTypes' /\ PromoteTypes'
  BY DEF TypeInv, TypeOK, AttemptTypes, TaskTypes, PromoteTypes, RebuildRecord
<1>2. OtherTypes'
  BY DEF TypeInv, TypeOK, OtherTypes, RebuildRecord
<1>3. StoreTypes'
  <2>1. replay \in Sources
    BY DEF TypeInv, TypeOK, OtherTypes
  <2>2. mat' = mat \/ mat' = [mat EXCEPT ![Latest] = replay]
    BY DEF RebuildRecord
  <2>3. mat' \in [Attempts -> Sources]
    BY <2>1, <2>2 DEF TypeInv, TypeOK, StoreTypes
  <2> QED
    BY <2>3 DEF TypeInv, TypeOK, StoreTypes, RebuildRecord
<1>4. WorkInv'
  BY AttemptFacts DEF TypeInv, TypeOK, WorkInv, Rows, Steps, AttemptTypes, PromoteTypes,
     OtherTypes, RebuildRecord
<1> QED
  BY <1>1, <1>2, <1>3, <1>4 DEF TypeInv, TypeOK

\* The rebuild is killed.
LEMMA RebuildDiesTypes ==
    ASSUME TypeInv, RebuildDies
    PROVE  TypeInv'
<1>1. AttemptTypes' /\ StoreTypes' /\ TaskTypes' /\ PromoteTypes'
  BY DEF TypeInv, TypeOK, AttemptTypes, StoreTypes, TaskTypes, PromoteTypes, RebuildDies
<1>2. OtherTypes'
  BY DEF TypeInv, TypeOK, OtherTypes, RebuildDies
<1>3. WorkInv'
  BY AttemptFacts DEF TypeInv, TypeOK, WorkInv, Rows, Steps, AttemptTypes, PromoteTypes,
     OtherTypes, RebuildDies
<1> QED
  BY <1>1, <1>2, <1>3 DEF TypeInv, TypeOK

\* The operator lifts the pause.
LEMMA UnpauseTypes ==
    ASSUME TypeInv, Unpause
    PROVE  TypeInv'
<1>1. AttemptTypes' /\ TaskTypes' /\ PromoteTypes'
  BY DEF TypeInv, TypeOK, AttemptTypes, TaskTypes, PromoteTypes, Unpause
<1>2. StoreTypes'
  BY AttemptFacts, SourceFacts DEF TypeInv, TypeOK, StoreTypes, Unpause, MayUseTool
<1>3. OtherTypes'
  BY DEF TypeInv, TypeOK, OtherTypes, Unpause, MayUseTool
<1>4. WorkInv'
  BY AttemptFacts DEF TypeInv, TypeOK, WorkInv, Rows, Steps, AttemptTypes, PromoteTypes,
     OtherTypes, Unpause, MayUseTool
<1> QED
  BY <1>1, <1>2, <1>3, <1>4 DEF TypeInv, TypeOK

-----------------------------------------------------------------------------
(* What each part of the invariant depends on, and that every step keeps   *)
(* the invariant.                                                          *)

\* What who is at work depend on.
LEMMA ExclusiveFrame ==
    ASSUME Exclusive, UNCHANGED <<ppc, epc, tpc>>
    PROVE  Exclusive'
  BY DEF Exclusive, Busy

\* What what a run has not begun depend on.
LEMMA OffInvFrame ==
    ASSUME OffInv, UNCHANGED <<ppc, owner, count, apc>>
    PROVE  OffInv'
  BY DEF OffInv, Rows

\* What what runs are judged against depends on.
LEMMA RunInvFrame ==
    ASSUME RunInv, UNCHANGED <<ppc, hadBest, row, apc, seen, owner, count, judged, label>>
    PROVE  RunInv'
  BY DEF RunInv, Busy, Rows, Valid

\* What the guard depend on.
LEMMA GuardedInvFrame ==
    ASSUME GuardedInv, UNCHANGED <<ppc, owner, count, apc, faults, blob, row, mat>>
    PROVE  GuardedInv'
  BY DEF GuardedInv, Early, Begun, Rows, GuardPasses, Valid, Latest

\* What promote tasks depend on.
LEMMA PromoteInvFrame ==
    ASSUME PromoteInv, UNCHANGED <<ppc, label, winner, blob, mat, row, blind, current>>
    PROVE  PromoteInv'
  BY DEF PromoteInv, Valid, Latest, Steps

\* What the tools depend on.
LEMMA ToolInvFrame ==
    ASSUME ToolInv, UNCHANGED <<epc, row, tpc, replay>>
    PROVE  ToolInv'
  BY DEF ToolInv, Valid

\* What the blob depend on.
LEMMA BlobInvFrame ==
    ASSUME BlobInv, UNCHANGED <<row, blob, epc>>
    PROVE  BlobInv'
  BY DEF BlobInv, Valid

\* What what rows were promoted as depend on.
LEMMA MatInvFrame ==
    ASSUME MatInv, UNCHANGED <<blind, row, mat>>
    PROVE  MatInv'
  BY DEF MatInv, Valid

\* What rows depend on.
LEMMA RowInvFrame ==
    ASSUME RowInv, UNCHANGED <<row, count>>
    PROVE  RowInv'
  BY DEF RowInv

\* What marks depend on.
LEMMA MarkInvFrame ==
    ASSUME MarkInv, UNCHANGED <<marked, count, owner, winner, ppc, deaths, faults, label, row>>
    PROVE  MarkInv'
  BY DEF MarkInv

\* A task belongs to a run.
LEMMA TaskFacts == \A t \in Tasks : t[1] \in Runs /\ t[2] \in Slots /\ t = <<t[1], t[2]>>
  BY DEF Tasks

\* The run at work is alone.
LEMMA OnlyOne ==
    ASSUME SeqInv, NEW r \in Runs, Busy(r)
    PROVE  epc = "idle" /\ tpc = "idle" /\ \A s \in Runs : Busy(s) => s = r
  BY DEF SeqInv, Exclusive

\* A tool used in the disciplined way is alone, too.
LEMMA ToolAlone ==
    ASSUME Sequential, MayUseTool
    PROVE  epc = "idle" /\ tpc = "idle" /\ \A s \in Runs : ~Busy(s)
  BY DEF Sequential, MayUseTool, Quiet, Active, Busy

\* Without a run at work nothing is to be shown of runs.
LEMMA NobodyAtWork ==
    ASSUME \A s \in Runs : ~Busy(s)'
    PROVE  RunInv' /\ GuardedInv' /\ PromoteInv'
<1>1. RunInv'
  BY DEF RunInv
<1>2. GuardedInv'
  BY DEF GuardedInv, Early, Busy, Steps
<1>3. PromoteInv'
  BY DEF PromoteInv, Busy, Steps
<1> QED
  BY <1>1, <1>2, <1>3

\* A guard that had to pass has to pass, if less is begun.
LEMMA GuardedLess ==
    ASSUME GuardedInv, UNCHANGED <<row, mat, blob>>,
           \A r \in Runs : (Early(r) /\ Begun(r) /\ faults = 0)' =>
               Early(r) /\ Begun(r) /\ faults = 0
    PROVE  GuardedInv'
  BY DEF GuardedInv, GuardPasses, Valid, Latest

\* A promote task past its significance test works for a jump over a filled
\* registry.
LEMMA JumpFacts ==
    ASSUME SeqInv, NEW r \in Runs, ppc[r] \in Steps \ {"stage1"}
    PROVE  /\ Busy(r) /\ winner[r] \in Rows(r) /\ winner[r] \in Attempts
           /\ winner[r] <= count
           /\ label[winner[r]] = "jump" /\ Valid # {} /\ blob # <<>>
           /\ \A v \in Valid : v < winner[r]
<1>1. Busy(r) /\ winner[r] \in Rows(r) /\ label[winner[r]] = "jump"
  BY DEF SeqInv, TypeInv, WorkInv, PromoteInv, Busy
<1>2. winner[r] \in Attempts /\ winner[r] \in 1..count
  BY <1>1, RowsFacts DEF SeqInv
<1>3. Valid # {} /\ \A v \in Valid : v < winner[r]
  BY <1>1 DEF SeqInv, RunInv
<1>4. winner[r] <= count
  BY <1>2 DEF SeqInv, TypeInv, TypeOK, AttemptTypes
<1> QED
  BY <1>1, <1>2, <1>3, <1>4 DEF SeqInv, BlobInv


\* A run starts.
LEMMA RetrieveStep ==
    ASSUME Sequential, SeqInv, NEW r \in Runs, Retrieve(r)
    PROVE  SeqInv'
<1>1. TypeInv'
  BY RetrieveTypes DEF SeqInv
<1>2. /\ \A s \in Runs : ~Busy(s)
      /\ epc = "idle" /\ tpc = "idle"
  BY DEF Sequential, Retrieve, Active, Busy
<1>3. /\ ppc[r] = "off" /\ ppc' = [ppc EXCEPT ![r] = "open"] /\ ppc \in [Runs -> {"off", "open", "over"} \cup Steps]
      /\ hadBest'[r] = (Valid # {})
      /\ UNCHANGED <<attemptVars, marked, row, mat, blob, taskVars, winner, current,
                     establishVars, toolVars, boundVars>>
  BY DEF Retrieve, SeqInv, TypeInv, TypeOK, PromoteTypes
<1>4. \A s \in Runs : Busy(s)' => s = r
  BY <1>2, <1>3 DEF Busy, Steps
<1>5. Rows(r)' = {} /\ \A i \in Slots : apc'[<<r, i>>] = "todo"
  BY <1>3 DEF SeqInv, OffInv, Rows
<1>6. Exclusive'
  BY <1>2, <1>3, <1>4 DEF Exclusive
<1>7. RunInv'
  BY <1>3, <1>4, <1>5 DEF RunInv, Valid
<1>8. GuardedInv'
  <2>1. ~Begun(r)'
    BY <1>5 DEF Begun
  <2>2. \A s \in Runs : ~(Early(s) /\ Begun(s))'
    BY <1>4, <2>1 DEF Early, Busy, Steps
  <2> QED
    BY <2>2 DEF GuardedInv
<1>9. PromoteInv'
  BY <1>3, <1>4 DEF SeqInv, PromoteInv, Valid, Latest, Steps, Busy
<1>10. OffInv'
  BY <1>3 DEF SeqInv, OffInv, Rows
<1>11. MarkInv'
  BY <1>3 DEF SeqInv, MarkInv
<1>12. ToolInv' /\ BlobInv' /\ MatInv' /\ RowInv'
  BY <1>3, ToolInvFrame, BlobInvFrame, MatInvFrame, RowInvFrame DEF SeqInv
<1> QED
  BY <1>1, <1>6, <1>7, <1>8, <1>9, <1>10, <1>11, <1>12 DEF SeqInv

\* An attempt task compares blob and registry.
LEMMA AttemptGuardStep ==
    ASSUME Sequential, SeqInv, NEW t \in Tasks, NEW b \in Downloads, AttemptGuard(t, b)
    PROVE  SeqInv'
<1>1. TypeInv'
  BY AttemptGuardTypes DEF SeqInv
<1>2. Exclusive' /\ ToolInv' /\ BlobInv' /\ RowInv'
  BY ExclusiveFrame, ToolInvFrame, BlobInvFrame, RowInvFrame DEF SeqInv, AttemptGuard
<1>3. OffInv'
  BY DEF SeqInv, TypeInv, TypeOK, OffInv, Rows, AttemptTypes, PromoteTypes, TaskTypes, Tasks,
     AttemptGuard, Steps
<1>4. RunInv'
  BY DEF SeqInv, TypeInv, TypeOK, RunInv, Busy, Rows, Valid, AttemptTypes, PromoteTypes,
     TaskTypes, Tasks, AttemptGuard, Steps
<1>5. GuardedInv'
  <2> SUFFICES ASSUME NEW s \in Runs, Early(s)', Begun(s)', faults' = 0 PROVE GuardPasses(blob)'
    BY DEF GuardedInv
  <2>1. Early(s) /\ faults = 0 /\ b = blob /\ Rows(s)' = Rows(s)
    BY DownloadFacts DEF SeqInv, AttemptGuard, Early, Rows
  <2>2. GuardPasses(blob)' <=> GuardPasses(blob)
    BY DEF AttemptGuard, GuardPasses, Valid, Latest
  <2>3. CASE Begun(s)
    BY <2>1, <2>2, <2>3 DEF SeqInv, GuardedInv
  <2>4. CASE ~Begun(s)
    <3>1. PICK i \in Slots : apc'[<<s, i>>] \in {"guarded", "loaded", "eval"}
      BY <2>1, <2>4 DEF Begun
    <3>2. apc[<<s, i>>] \notin {"guarded", "loaded", "eval"}
      BY <2>4 DEF Begun
    <3>3. apc' = [apc EXCEPT ![t] = IF GuardPasses(b) THEN "guarded" ELSE "over"]
      BY DEF AttemptGuard
    <3>4. <<s, i>> = t /\ apc'[t] = "guarded"
      BY <3>1, <3>2, <3>3 DEF SeqInv, TypeInv, TypeOK, TaskTypes
    <3>5. GuardPasses(b)
      BY <3>3, <3>4 DEF SeqInv, TypeInv, TypeOK, TaskTypes
    <3> QED
      BY <2>1, <2>2, <3>5
  <2> QED
    BY <2>3, <2>4
<1>6. PromoteInv'
  BY DownloadFacts DEF SeqInv, TypeInv, TypeOK, PromoteInv, Valid, Latest, Steps, PromoteTypes,
     StoreTypes, OtherTypes, AttemptGuard
<1>7. MatInv'
  BY DownloadFacts DEF SeqInv, TypeInv, TypeOK, MatInv, Valid, OtherTypes, StoreTypes,
     AttemptGuard
<1>8. MarkInv'
  BY DownloadFacts DEF SeqInv, TypeInv, TypeOK, MarkInv, AttemptTypes, PromoteTypes, OtherTypes,
     StoreTypes, AttemptGuard, Steps
<1> QED
  BY <1>1, <1>2, <1>3, <1>4, <1>5, <1>6, <1>7, <1>8 DEF SeqInv

\* It loads the blob it works on.
LEMMA AttemptLoadStep ==
    ASSUME Sequential, SeqInv, NEW t \in Tasks, NEW b \in Downloads, AttemptLoad(t, b)
    PROVE  SeqInv'
<1>1. TypeInv'
  BY AttemptLoadTypes DEF SeqInv
<1>2. Exclusive' /\ ToolInv' /\ BlobInv' /\ RowInv'
  BY ExclusiveFrame, ToolInvFrame, BlobInvFrame, RowInvFrame DEF SeqInv, AttemptLoad
<1>3. OffInv'
  BY DEF SeqInv, TypeInv, TypeOK, OffInv, Rows, AttemptTypes, PromoteTypes, TaskTypes, Tasks,
     AttemptLoad, Steps
<1>4. RunInv'
  BY DEF SeqInv, TypeInv, TypeOK, RunInv, Busy, Rows, Valid, AttemptTypes, PromoteTypes,
     TaskTypes, Tasks, AttemptLoad, Steps
<1>5. GuardedInv'
  <2>1. \A s \in Runs : (Early(s) /\ Begun(s) /\ faults = 0)' =>
            Early(s) /\ Begun(s) /\ faults = 0
    <3>1. UNCHANGED <<ppc, attemptVars>> /\ apc[t] = "guarded"
      BY DEF AttemptLoad, promoteVars
    <3>2. \A u : apc'[u] = apc[u] \/ u = t
      BY DEF SeqInv, TypeInv, TypeOK, TaskTypes, AttemptLoad
    <3>3. \A s \in Runs : Rows(s)' = Rows(s) /\ (Early(s)' => Early(s))
      BY <3>1 DEF Rows, Early, attemptVars
    <3>4. \A s \in Runs, i \in Slots :
              apc'[<<s, i>>] \in {"guarded", "loaded", "eval"}
                  => apc[<<s, i>>] \in {"guarded", "loaded", "eval"}
      BY <3>1, <3>2
    <3>5. \A s \in Runs : Begun(s)' => Begun(s)
      BY <3>3, <3>4 DEF Begun
    <3>6. faults' = 0 => faults = 0
      BY DownloadFacts DEF SeqInv, TypeInv, TypeOK, OtherTypes, AttemptLoad
    <3> QED
      BY <3>3, <3>5, <3>6
  <2> QED
    BY <2>1, GuardedLess DEF SeqInv, AttemptLoad
<1>6. PromoteInv'
  BY DownloadFacts DEF SeqInv, TypeInv, TypeOK, PromoteInv, Valid, Latest, Steps, PromoteTypes,
     StoreTypes, OtherTypes, AttemptLoad
<1>7. MatInv'
  BY DownloadFacts DEF SeqInv, TypeInv, TypeOK, MatInv, Valid, OtherTypes, StoreTypes,
     AttemptLoad
<1>8. MarkInv'
  BY DownloadFacts DEF SeqInv, TypeInv, TypeOK, MarkInv, AttemptTypes, PromoteTypes, OtherTypes,
     StoreTypes, AttemptLoad, Steps
<1> QED
  BY <1>1, <1>2, <1>3, <1>4, <1>5, <1>6, <1>7, <1>8 DEF SeqInv

\* It reads what it is judged against.
LEMMA AttemptBaselineStep ==
    ASSUME Sequential, SeqInv, NEW t \in Tasks, AttemptBaseline(t)
    PROVE  SeqInv'
<1>1. TypeInv'
  BY AttemptBaselineTypes DEF SeqInv
<1>2. Exclusive' /\ PromoteInv' /\ ToolInv' /\ BlobInv' /\ MatInv' /\ RowInv' /\ MarkInv'
  BY ExclusiveFrame, PromoteInvFrame, ToolInvFrame, BlobInvFrame, MatInvFrame, RowInvFrame,
     MarkInvFrame DEF SeqInv, AttemptBaseline
<1>3. OffInv'
  BY DEF SeqInv, TypeInv, TypeOK, OffInv, Rows, AttemptTypes, PromoteTypes, TaskTypes, Tasks,
     AttemptBaseline, Valid, Steps
<1>4. RunInv'
  BY DEF SeqInv, TypeInv, TypeOK, RunInv, Busy, Rows, Valid, AttemptTypes, PromoteTypes,
     TaskTypes, Tasks, AttemptBaseline, Steps
<1>5. GuardedInv'
  <2>1. \A s \in Runs : (Early(s) /\ Begun(s) /\ faults = 0)' =>
            Early(s) /\ Begun(s) /\ faults = 0
    <3>1. UNCHANGED <<ppc, faults, attemptVars>> /\ apc[t] = "loaded"
      BY DEF AttemptBaseline, promoteVars, boundVars
    <3>2. \A u : apc'[u] = apc[u] \/ u = t
      BY DEF SeqInv, TypeInv, TypeOK, TaskTypes, AttemptBaseline
    <3>3. \A s \in Runs : Rows(s)' = Rows(s) /\ (Early(s)' => Early(s))
      BY <3>1 DEF Rows, Early, attemptVars
    <3>4. \A s \in Runs, i \in Slots :
              apc'[<<s, i>>] \in {"guarded", "loaded", "eval"}
                  => apc[<<s, i>>] \in {"guarded", "loaded", "eval"}
      BY <3>1, <3>2
    <3>5. \A s \in Runs : Begun(s)' => Begun(s)
      BY <3>3, <3>4 DEF Begun
    <3> QED
      BY <3>1, <3>3, <3>5
  <2> QED
    BY <2>1, GuardedLess DEF SeqInv, AttemptBaseline
<1> QED
  BY <1>1, <1>2, <1>3, <1>4, <1>5 DEF SeqInv

\* It stores its attempt.
LEMMA AttemptStoreStep ==
    ASSUME Sequential, SeqInv, NEW t \in Tasks, NEW l \in {"jump", "other", "error"}, AttemptStore(t, l)
    PROVE  SeqInv'
<1> DEFINE n == count + 1
<1>1. TypeInv'
  BY AttemptStoreTypes DEF SeqInv
<1>2. /\ count \in Nat /\ n \in Attempts /\ count' = n /\ t[1] \in Runs /\ apc[t] = "eval"
      /\ l = "jump" => hadBest[t[1]] \/ seen[t] # {}
      /\ owner' = [owner EXCEPT ![n] = t[1]] /\ label' = [label EXCEPT ![n] = l]
      /\ judged' = [judged EXCEPT ![n] = seen[t]]
      /\ UNCHANGED <<marked, row, mat, blob, promoteVars, establishVars, toolVars, boundVars>>
  BY TaskFacts, AttemptFacts DEF AttemptStore, SeqInv, TypeInv, TypeOK, AttemptTypes, Attempts
<1>3. /\ \A a \in 1..count : /\ owner'[a] = owner[a] /\ label'[a] = label[a]
                             /\ judged'[a] = judged[a] /\ a \in 1..n /\ a # n
      /\ owner'[n] = t[1] /\ label'[n] = l /\ judged'[n] = seen[t]
      /\ \A a \in 1..n : a \in 1..count \/ a = n
  BY <1>2, AttemptFacts DEF SeqInv, TypeInv, TypeOK, AttemptTypes, Attempts
<1>4. \A u \in Tasks : apc'[u] = apc[u] \/ apc'[u] = "over"
  BY DEF AttemptStore, Over, SeqInv, TypeInv, TypeOK, TaskTypes
<1>5. \A u \in Tasks : seen'[u] = seen[u] \/ apc'[u] = "over"
  BY DEF AttemptStore, Over, SeqInv, TypeInv, TypeOK, TaskTypes
<1> HIDE DEF n
<1>6. /\ \A s \in Runs \ {t[1]} : Rows(s)' = Rows(s)
      /\ Rows(t[1])' = Rows(t[1]) \cup {n} /\ n \in 1..n
  <2>1. n \in 1..n
    BY <1>2, AttemptFacts
  <2> QED
    BY <1>2, <1>3, <2>1 DEF Rows
<1>7. Valid' = Valid /\ \A v \in Valid : v < n
  <2>1. \A v \in Valid : v <= count /\ v \in Nat
    BY AttemptFacts DEF SeqInv, RowInv, Valid
  <2>2. n = count + 1
    BY DEF n
  <2> QED
    BY <1>2, <2>1, <2>2 DEF Valid
<1>8. OffInv'
  <2>1. ppc[t[1]] # "off"
    BY <1>2, TaskFacts DEF SeqInv, OffInv
  <2>2. \A s \in Runs, i \in Slots : <<s, i>> \in Tasks
    BY DEF Tasks
  <2>3. \A s \in Runs : ppc'[s] = "off" => s # t[1] /\ ppc[s] = "off"
    BY <1>2, <2>1
  <2>4. \A s \in Runs, i \in Slots : ppc[s] = "off" => <<s, i>> # t
    BY <1>2 DEF SeqInv, OffInv
  <2>5. \A s \in Runs, i \in Slots : <<s, i>> # t => apc'[<<s, i>>] = apc[<<s, i>>]
    BY <2>2 DEF AttemptStore, Over, SeqInv, TypeInv, TypeOK, TaskTypes
  <2> QED
    BY <1>6, <2>3, <2>4, <2>5 DEF SeqInv, OffInv
<1>9. RunInv'
  <2> SUFFICES ASSUME NEW s \in Runs, Busy(s)'
               PROVE  (/\ hadBest[s] => Valid # {}
                       /\ \A i \in Slots : apc[<<s, i>>] = "eval" => seen[<<s, i>>] = Valid
                       /\ \A a \in Rows(s) :
                             /\ judged[a] = Valid
                             /\ label[a] = "jump" => Valid # {}
                             /\ \A v \in Valid : v < a)'
    BY DEF RunInv
  <2>1. Busy(s) /\ (hadBest[s] => Valid # {}) /\ hadBest' = hadBest
    BY <1>2 DEF SeqInv, RunInv, Busy
  <2>2. \A i \in Slots : <<s, i>> \in Tasks
    BY DEF Tasks
  <2>3. ASSUME NEW i \in Slots, apc'[<<s, i>>] = "eval" PROVE seen'[<<s, i>>] = Valid'
    <3>1. apc[<<s, i>>] = "eval" /\ seen'[<<s, i>>] = seen[<<s, i>>]
      BY <1>4, <1>5, <2>2, <2>3
    <3> QED
      BY <1>7, <2>1, <3>1 DEF SeqInv, RunInv
  <2>4. ASSUME NEW a \in Rows(s)
        PROVE  /\ judged'[a] = Valid'
               /\ label'[a] = "jump" => Valid' # {}
               /\ \A v \in Valid' : v < a
    <3>1. judged'[a] = judged[a] /\ label'[a] = label[a]
      BY <1>3, RowsFacts DEF SeqInv
    <3> QED
      BY <1>7, <2>1, <3>1 DEF SeqInv, RunInv
  <2>5. ASSUME s = t[1]
        PROVE  /\ judged'[n] = Valid'
               /\ label'[n] = "jump" => Valid' # {}
               /\ \A v \in Valid' : v < n
    <3>1. seen[t] = Valid
      BY <1>2, <2>1, <2>5, TaskFacts DEF SeqInv, RunInv
    <3> QED
      BY <1>2, <1>3, <1>7, <2>1, <2>5, <3>1
  <2> QED
    BY <1>6, <1>7, <2>1, <2>3, <2>4, <2>5
<1>10. GuardedInv'
  <2>1. ASSUME NEW s \in Runs, (Early(s) /\ Begun(s) /\ faults = 0)'
        PROVE  Early(s) /\ Begun(s) /\ faults = 0
    <3>1. Early(s) /\ faults = 0
      BY <1>2, <2>1 DEF Early
    <3>2. CASE s = t[1]
      BY <1>2, <3>1, <3>2, TaskFacts DEF Begun
    <3>3. CASE s # t[1]
      <4>1. \A i \in Slots : <<s, i>> \in Tasks
        BY DEF Tasks
      <4> QED
        BY <1>4, <1>6, <2>1, <3>1, <3>3, <4>1 DEF Begun
    <3> QED
      BY <3>2, <3>3
  <2> QED
    BY <1>2, <2>1, GuardedLess DEF SeqInv
<1>11. PromoteInv'
  <2>1. \A r \in Runs : ppc[r] \in Steps => label'[winner[r]] = label[winner[r]]
    BY <1>3, RowsFacts DEF SeqInv, TypeInv, WorkInv
  <2>2. mat'[Latest'] = mat[Latest]
    BY <1>2 DEF Latest, Valid
  <2> QED
    BY <1>2, <2>1, <2>2 DEF SeqInv, PromoteInv, Steps
<1>12. RowInv'
  <2>1. \A a \in Attempts : a <= count => a <= n
    BY <1>2, AttemptFacts DEF n
  <2> QED
    BY <1>2, <2>1 DEF SeqInv, RowInv
<1>13. MarkInv'
  BY <1>2, <1>3 DEF SeqInv, MarkInv
<1>14. Exclusive' /\ ToolInv' /\ BlobInv' /\ MatInv'
  BY <1>2, ExclusiveFrame, ToolInvFrame, BlobInvFrame, MatInvFrame DEF SeqInv
<1> QED
  BY <1>1, <1>8, <1>9, <1>10, <1>11, <1>12, <1>13, <1>14 DEF SeqInv

\* It is killed.
LEMMA AttemptDiesStep ==
    ASSUME Sequential, SeqInv, NEW t \in Tasks, AttemptDies(t)
    PROVE  SeqInv'
<1>1. TypeInv'
  BY AttemptDiesTypes DEF SeqInv
<1>2. Exclusive' /\ PromoteInv' /\ ToolInv' /\ BlobInv' /\ MatInv' /\ RowInv' /\ MarkInv'
  BY ExclusiveFrame, PromoteInvFrame, ToolInvFrame, BlobInvFrame, MatInvFrame, RowInvFrame,
     MarkInvFrame DEF SeqInv, AttemptDies, Over
<1>3. OffInv'
  BY DEF SeqInv, TypeInv, TypeOK, OffInv, Rows, AttemptTypes, PromoteTypes, TaskTypes, Tasks,
     AttemptDies, Over, Steps
<1>4. RunInv'
  BY DEF SeqInv, TypeInv, TypeOK, RunInv, Busy, Rows, Valid, AttemptTypes, PromoteTypes,
     TaskTypes, Tasks, AttemptDies, Over, Steps
<1>5. GuardedInv'
  <2>1. \A s \in Runs, i \in Slots :
            apc'[<<s, i>>] = apc[<<s, i>>] \/ apc'[<<s, i>>] = "over"
    BY DEF SeqInv, TypeInv, TypeOK, TaskTypes, Tasks, AttemptDies, Over
  <2>2. \A s \in Runs : Rows(s)' = Rows(s) /\ Early(s)' = Early(s) /\ faults' = faults
    BY DEF AttemptDies, Rows, Early
  <2>3. \A s \in Runs : (Early(s) /\ Begun(s) /\ faults = 0)' =>
            Early(s) /\ Begun(s) /\ faults = 0
    BY <2>1, <2>2 DEF Begun
  <2> QED
    BY <2>3, GuardedLess DEF SeqInv, AttemptDies
<1> QED
  BY <1>1, <1>2, <1>3, <1>4, <1>5 DEF SeqInv

\* A run ends with a winner, or without.
LEMMA PickWinnerStep ==
    ASSUME Sequential, SeqInv, NEW r \in Runs, NEW w \in Attempts \cup {Nobody}, PickWinner(r, w)
    PROVE  SeqInv'
<1>1. TypeInv'
  BY PickWinnerTypes DEF SeqInv
<1>2. ToolInv' /\ BlobInv' /\ MatInv' /\ RowInv'
  BY ToolInvFrame, BlobInvFrame, MatInvFrame, RowInvFrame DEF SeqInv, PickWinner, Step
<1>3. Exclusive'
  BY DEF SeqInv, TypeInv, TypeOK, Exclusive, Busy, PromoteTypes, PickWinner, Step, Steps
<1>4. OffInv'
  BY DEF SeqInv, TypeInv, TypeOK, OffInv, Rows, AttemptTypes, PromoteTypes, TaskTypes, Tasks,
     PickWinner, Step, Steps
<1>5. RunInv'
  BY DEF SeqInv, TypeInv, TypeOK, RunInv, Busy, Rows, Valid, AttemptTypes, PromoteTypes,
     TaskTypes, Tasks, PickWinner, Step, Steps
<1>6. GuardedInv'
  <2>1. \A s \in Runs : (Early(s) /\ Begun(s) /\ faults = 0)' =>
            Early(s) /\ Begun(s) /\ faults = 0
    BY DEF SeqInv, TypeInv, TypeOK, PromoteTypes, TaskTypes, OtherTypes, Early, Begun, Rows,
       PickWinner, Step
  <2> QED
    BY <2>1, GuardedLess DEF SeqInv, PickWinner, Step
<1>7. PromoteInv'
  BY DEF SeqInv, TypeInv, TypeOK, PromoteInv, Valid, Latest, Steps, PromoteTypes, StoreTypes,
     OtherTypes, PickWinner, Step
<1>8. MarkInv'
  <2>1. /\ marked' = (marked \ Rows(r)) \cup ({w} \ {Nobody}) /\ ppc[r] = "open"
        /\ w = Nobody \/ w \in Rows(r)
        /\ w # Nobody => ppc'[r] = "stage1" /\ winner'[r] = w
        /\ \A s \in Runs \ {r} : ppc'[s] = ppc[s] /\ winner'[s] = winner[s]
        /\ UNCHANGED <<count, owner, deaths, faults, label, row>>
    BY DEF PickWinner, Step, SeqInv, TypeInv, TypeOK, PromoteTypes
  <2>2. \A a \in marked' : \/ a \in marked /\ owner[a] # r
                           \/ a = w /\ w \in Rows(r)
    BY <2>1 DEF Rows, SeqInv, MarkInv
  <2>3. w \in Rows(r) => w \in 1..count /\ owner[w] = r /\ w # Nobody
    BY RowsFacts, AttemptFacts DEF SeqInv, Rows
  <2> QED
    BY <2>1, <2>2, <2>3 DEF SeqInv, MarkInv
<1> QED
  BY <1>1, <1>2, <1>3, <1>4, <1>5, <1>6, <1>7, <1>8 DEF SeqInv

\* The significance test of the promote task.
LEMMA Stage1Step ==
    ASSUME Sequential, SeqInv, NEW r \in Runs, NEW s \in BOOLEAN, Stage1(r, s)
    PROVE  SeqInv'
<1>1. TypeInv'
  BY Stage1Types DEF SeqInv
<1>2. ToolInv' /\ BlobInv' /\ MatInv' /\ RowInv'
  BY ToolInvFrame, BlobInvFrame, MatInvFrame, RowInvFrame DEF SeqInv, Stage1, Step
<1>3. Exclusive'
  BY DEF SeqInv, TypeInv, TypeOK, Exclusive, Busy, PromoteTypes, Stage1, Step, Steps
<1>4. OffInv'
  BY DEF SeqInv, TypeInv, TypeOK, OffInv, Rows, AttemptTypes, PromoteTypes, TaskTypes, Tasks,
     Stage1, Step, Steps
<1>5. RunInv'
  BY DEF SeqInv, TypeInv, TypeOK, RunInv, Busy, Rows, Valid, AttemptTypes, PromoteTypes,
     TaskTypes, Tasks, Stage1, Step, Steps
<1>6. GuardedInv'
  <2>1. \A q \in Runs : (Early(q) /\ Begun(q) /\ faults = 0)' =>
            Early(q) /\ Begun(q) /\ faults = 0
    BY DEF SeqInv, TypeInv, TypeOK, PromoteTypes, TaskTypes, OtherTypes, Early, Begun, Rows,
       Stage1, Step
  <2> QED
    BY <2>1, GuardedLess DEF SeqInv, Stage1, Step
<1>7. PromoteInv'
  <2>1. /\ ppc[r] = "stage1" /\ ppc'[r] \in {"guard", "over"} /\ (ppc'[r] = "guard" => s)
        /\ \A q \in Runs \ {r} : ppc'[q] = ppc[q]
        /\ UNCHANGED <<label, winner, blob, mat, row, blind, current>>
    BY DEF Stage1, Step, SeqInv, TypeInv, TypeOK, PromoteTypes
  <2>2. s => label[winner[r]] = "jump"
    <3>1. judged[winner[r]] = Valid
      BY <2>1 DEF SeqInv, TypeInv, WorkInv, RunInv, Busy, Steps
    <3> QED
      BY <3>1 DEF Stage1
  <2>3. mat'[Latest'] = mat[Latest]
    BY <2>1 DEF Latest, Valid
  <2> QED
    BY <2>1, <2>2, <2>3 DEF SeqInv, PromoteInv, Steps
<1>8. MarkInv'
  <2>1. /\ ppc[r] = "stage1" /\ ppc'[r] \in {"guard", "over"} /\ (~s <=> ppc'[r] = "over")
        /\ \A q \in Runs \ {r} : ppc'[q] = ppc[q]
        /\ UNCHANGED <<marked, count, owner, label, winner, row, deaths, faults>>
    BY DEF Stage1, Step, SeqInv, TypeInv, TypeOK, PromoteTypes
  <2>2. ~s => label[winner[r]] # "jump"
    <3>1. judged[winner[r]] = Valid
      BY <2>1 DEF SeqInv, TypeInv, WorkInv, RunInv, Busy, Steps
    <3> QED
      BY <3>1 DEF Stage1
  <2> QED
    BY <2>1, <2>2 DEF SeqInv, MarkInv
<1> QED
  BY <1>1, <1>2, <1>3, <1>4, <1>5, <1>6, <1>7, <1>8 DEF SeqInv

\* Its look at blob and registry.
LEMMA PromoteGuardStep ==
    ASSUME Sequential, SeqInv, NEW r \in Runs, NEW b \in Downloads, PromoteGuard(r, b)
    PROVE  SeqInv'
<1>1. TypeInv'
  BY PromoteGuardTypes DEF SeqInv
<1>2. ToolInv' /\ BlobInv' /\ RowInv'
  BY ToolInvFrame, BlobInvFrame, RowInvFrame DEF SeqInv, PromoteGuard, Step
<1>3. Exclusive'
  BY DEF SeqInv, TypeInv, TypeOK, Exclusive, Busy, PromoteTypes, PromoteGuard, Step, Steps
<1>4. OffInv'
  BY DEF SeqInv, TypeInv, TypeOK, OffInv, Rows, AttemptTypes, PromoteTypes, TaskTypes, Tasks,
     PromoteGuard, Step, Steps
<1>5. RunInv'
  BY DEF SeqInv, TypeInv, TypeOK, RunInv, Busy, Rows, Valid, AttemptTypes, PromoteTypes,
     TaskTypes, Tasks, PromoteGuard, Step, Steps
<1>6. GuardedInv'
  <2>1. \A s \in Runs : (Early(s) /\ Begun(s) /\ faults = 0)' =>
            Early(s) /\ Begun(s) /\ faults = 0
    BY DownloadFacts DEF SeqInv, TypeInv, TypeOK, PromoteTypes, TaskTypes, OtherTypes, Early,
       Begun, Rows, PromoteGuard, Step
  <2> QED
    BY <2>1, GuardedLess DEF SeqInv, PromoteGuard, Step
<1>7. PromoteInv'
  <2>1. /\ ppc[r] = "guard" /\ ppc'[r] \in {"fetch", "over"} /\ (ppc'[r] = "fetch" => GuardPasses(b))
        /\ \A q \in Runs \ {r} : ppc'[q] = ppc[q]
        /\ UNCHANGED <<label, winner, blob, mat, row, current>>
    BY DEF PromoteGuard, Step, SeqInv, TypeInv, TypeOK, PromoteTypes
  <2>2. label[winner[r]] = "jump" /\ Valid # {} /\ blob # <<>>
    BY <2>1, JumpFacts DEF Steps
  <2>3. ~blind' => ~blind /\ b = blob
    BY DownloadFacts DEF PromoteGuard, SeqInv
  <2>4. ppc'[r] = "fetch" /\ ~blind' => blob = mat[Latest]
    BY <2>1, <2>2, <2>3 DEF GuardPasses
  <2>5. mat'[Latest'] = mat[Latest]
    BY <2>1 DEF Latest, Valid
  <2> QED
    BY <2>1, <2>2, <2>3, <2>4, <2>5 DEF SeqInv, PromoteInv, Steps
<1>8. MatInv'
  BY DownloadFacts DEF SeqInv, TypeInv, TypeOK, MatInv, Valid, OtherTypes, StoreTypes,
     PromoteGuard, Step
<1>9. MarkInv'
  <2>1. /\ ppc[r] = "guard" /\ ppc'[r] \in {"fetch", "over"} /\ (ppc'[r] = "over" => ~GuardPasses(b))
        /\ \A q \in Runs \ {r} : ppc'[q] = ppc[q]
        /\ UNCHANGED <<marked, count, owner, label, winner, row, deaths>>
    BY DEF PromoteGuard, Step, SeqInv, TypeInv, TypeOK, PromoteTypes
  <2>2. faults' = 0 => faults = 0 /\ b = blob
    BY DownloadFacts DEF PromoteGuard, SeqInv
  <2>3. Early(r) /\ Begun(r)
    BY <2>1, JumpFacts DEF Early, Begun, Steps
  <2>4. faults' = 0 => GuardPasses(b)
    BY <2>2, <2>3 DEF SeqInv, GuardedInv
  <2> QED
    BY <2>1, <2>2, <2>4 DEF SeqInv, MarkInv
<1> QED
  BY <1>1, <1>2, <1>3, <1>4, <1>5, <1>6, <1>7, <1>8, <1>9 DEF SeqInv

\* It reads the blob it merges into.
LEMMA FetchStep ==
    ASSUME Sequential, SeqInv, NEW r \in Runs, NEW b \in Downloads, Fetch(r, b)
    PROVE  SeqInv'
<1>1. TypeInv'
  BY FetchTypes DEF SeqInv
<1>2. ToolInv' /\ BlobInv' /\ RowInv'
  BY ToolInvFrame, BlobInvFrame, RowInvFrame DEF SeqInv, Fetch, Step
<1>3. Exclusive'
  BY DEF SeqInv, TypeInv, TypeOK, Exclusive, Busy, PromoteTypes, Fetch, Step, Steps
<1>4. OffInv'
  BY DEF SeqInv, TypeInv, TypeOK, OffInv, Rows, AttemptTypes, PromoteTypes, TaskTypes, Tasks,
     Fetch, Step, Steps
<1>5. RunInv'
  BY DEF SeqInv, TypeInv, TypeOK, RunInv, Busy, Rows, Valid, AttemptTypes, PromoteTypes,
     TaskTypes, Tasks, Fetch, Step, Steps
<1>6. GuardedInv'
  <2>1. \A s \in Runs : (Early(s) /\ Begun(s) /\ faults = 0)' =>
            Early(s) /\ Begun(s) /\ faults = 0
    BY DownloadFacts DEF SeqInv, TypeInv, TypeOK, PromoteTypes, TaskTypes, OtherTypes, Early,
       Begun, Rows, Fetch, Step
  <2> QED
    BY <2>1, GuardedLess DEF SeqInv, Fetch, Step
<1>7. PromoteInv'
  BY DownloadFacts DEF SeqInv, TypeInv, TypeOK, PromoteInv, Valid, Latest, Steps, PromoteTypes,
     StoreTypes, OtherTypes, Fetch, Step
<1>8. MatInv'
  BY DownloadFacts DEF SeqInv, TypeInv, TypeOK, MatInv, Valid, OtherTypes, StoreTypes, Fetch,
     Step
<1>9. MarkInv'
  BY DownloadFacts DEF SeqInv, TypeInv, TypeOK, MarkInv, AttemptTypes, PromoteTypes, OtherTypes,
     StoreTypes, Fetch, Step, Steps
<1> QED
  BY <1>1, <1>2, <1>3, <1>4, <1>5, <1>6, <1>7, <1>8, <1>9 DEF SeqInv

\* Its train data does not load.
LEMMA NoTrainStep ==
    ASSUME Sequential, SeqInv, NEW r \in Runs, NoTrain(r)
    PROVE  SeqInv'
<1>1. TypeInv'
  BY NoTrainTypes DEF SeqInv
<1>2. ToolInv' /\ BlobInv' /\ MatInv' /\ RowInv'
  BY ToolInvFrame, BlobInvFrame, MatInvFrame, RowInvFrame DEF SeqInv, NoTrain, Step
<1>3. Exclusive'
  BY DEF SeqInv, TypeInv, TypeOK, Exclusive, Busy, PromoteTypes, NoTrain, Step, Steps
<1>4. OffInv'
  BY DEF SeqInv, TypeInv, TypeOK, OffInv, Rows, AttemptTypes, PromoteTypes, TaskTypes, Tasks,
     NoTrain, Step, Steps
<1>5. RunInv'
  BY DEF SeqInv, TypeInv, TypeOK, RunInv, Busy, Rows, Valid, AttemptTypes, PromoteTypes,
     TaskTypes, Tasks, NoTrain, Step, Steps
<1>6. GuardedInv'
  BY DEF SeqInv, TypeInv, TypeOK, GuardedInv, Early, Begun, Rows, GuardPasses, Valid, Latest,
     AttemptTypes, PromoteTypes, TaskTypes, OtherTypes, Tasks, NoTrain, Step, Steps
<1>7. PromoteInv'
  BY DEF SeqInv, TypeInv, TypeOK, PromoteInv, Valid, Latest, Steps, PromoteTypes, StoreTypes,
     OtherTypes, NoTrain, Step
<1>8. MarkInv'
  BY DEF SeqInv, TypeInv, TypeOK, MarkInv, AttemptTypes, PromoteTypes, OtherTypes, StoreTypes,
     NoTrain, Step, Steps
<1> QED
  BY <1>1, <1>2, <1>3, <1>4, <1>5, <1>6, <1>7, <1>8 DEF SeqInv

\* A confirmation or a merge passes.
LEMMA AcceptStep ==
    ASSUME Sequential, SeqInv, NEW r \in Runs, Accept(r)
    PROVE  SeqInv'
<1>1. TypeInv'
  BY AcceptTypes DEF SeqInv
<1>2. ToolInv' /\ BlobInv' /\ MatInv' /\ RowInv'
  BY ToolInvFrame, BlobInvFrame, MatInvFrame, RowInvFrame DEF SeqInv, Accept, Step
<1>3. Exclusive'
  BY DEF SeqInv, TypeInv, TypeOK, Exclusive, Busy, PromoteTypes, Accept, Step, Steps
<1>4. OffInv'
  BY DEF SeqInv, TypeInv, TypeOK, OffInv, Rows, AttemptTypes, PromoteTypes, TaskTypes, Tasks,
     Accept, Step, Steps
<1>5. RunInv'
  BY DEF SeqInv, TypeInv, TypeOK, RunInv, Busy, Rows, Valid, AttemptTypes, PromoteTypes,
     TaskTypes, Tasks, Accept, Step, Steps
<1>6. GuardedInv'
  <2>1. \A s \in Runs : (Early(s) /\ Begun(s) /\ faults = 0)' =>
            Early(s) /\ Begun(s) /\ faults = 0
    BY DEF SeqInv, TypeInv, TypeOK, PromoteTypes, TaskTypes, OtherTypes, Early, Begun, Rows,
       Accept, Step
  <2> QED
    BY <2>1, GuardedLess DEF SeqInv, Accept, Step
<1>7. PromoteInv'
  BY DEF SeqInv, TypeInv, TypeOK, PromoteInv, Valid, Latest, Steps, PromoteTypes, StoreTypes,
     OtherTypes, Accept, Step
<1>8. MarkInv'
  BY DEF SeqInv, TypeInv, TypeOK, MarkInv, AttemptTypes, PromoteTypes, OtherTypes, StoreTypes,
     Accept, Step, Steps
<1> QED
  BY <1>1, <1>2, <1>3, <1>4, <1>5, <1>6, <1>7, <1>8 DEF SeqInv

\* A confirmation or a merge fails.
LEMMA RejectStep ==
    ASSUME Sequential, SeqInv, NEW r \in Runs, Reject(r)
    PROVE  SeqInv'
<1>1. TypeInv'
  BY RejectTypes DEF SeqInv
<1>2. ToolInv' /\ BlobInv' /\ MatInv' /\ RowInv'
  BY ToolInvFrame, BlobInvFrame, MatInvFrame, RowInvFrame DEF SeqInv, Reject, Step
<1>3. Exclusive'
  BY DEF SeqInv, TypeInv, TypeOK, Exclusive, Busy, PromoteTypes, Reject, Step, Steps
<1>4. OffInv'
  BY DEF SeqInv, TypeInv, TypeOK, OffInv, Rows, AttemptTypes, PromoteTypes, TaskTypes, Tasks,
     Reject, Step, Steps
<1>5. RunInv'
  BY DEF SeqInv, TypeInv, TypeOK, RunInv, Busy, Rows, Valid, AttemptTypes, PromoteTypes,
     TaskTypes, Tasks, Reject, Step, Steps
<1>6. GuardedInv'
  <2>1. \A s \in Runs : (Early(s) /\ Begun(s) /\ faults = 0)' =>
            Early(s) /\ Begun(s) /\ faults = 0
    BY DEF SeqInv, TypeInv, TypeOK, PromoteTypes, TaskTypes, OtherTypes, Early, Begun, Rows,
       Reject, Step
  <2> QED
    BY <2>1, GuardedLess DEF SeqInv, Reject, Step
<1>7. PromoteInv'
  BY DEF SeqInv, TypeInv, TypeOK, PromoteInv, Valid, Latest, Steps, PromoteTypes, StoreTypes,
     OtherTypes, Reject, Step
<1>8. MarkInv'
  BY DEF SeqInv, TypeInv, TypeOK, MarkInv, AttemptTypes, PromoteTypes, OtherTypes, StoreTypes,
     Reject, Step, Steps
<1> QED
  BY <1>1, <1>2, <1>3, <1>4, <1>5, <1>6, <1>7, <1>8 DEF SeqInv

\* The merged source goes to MinIO.
LEMMA UploadStep ==
    ASSUME Sequential, SeqInv, NEW r \in Runs, Upload(r)
    PROVE  SeqInv'
<1>1. TypeInv'
  BY UploadTypes DEF SeqInv
<1>2. /\ ppc[r] = "upload" /\ ppc'[r] = "commit" /\ \A q \in Runs \ {r} : ppc'[q] = ppc[q]
      /\ blob' = Merged(r)
      /\ UNCHANGED <<attemptVars, marked, row, mat, taskVars, hadBest, winner, current,
                     establishVars, toolVars, boundVars>>
  BY DEF Upload, Step, SeqInv, TypeInv, TypeOK, PromoteTypes
<1>3. Busy(r) /\ Busy(r)' /\ \A q \in Runs : Busy(q)' => q = r
  BY <1>2, OnlyOne DEF Busy, Steps
<1>4. Exclusive' /\ RunInv' /\ OffInv'
  <2>1. Exclusive'
    BY <1>2, <1>3, OnlyOne DEF Exclusive
  <2>2. RunInv'
    BY <1>2, <1>3 DEF SeqInv, RunInv, Valid, Rows
  <2>3. OffInv'
    BY <1>2 DEF SeqInv, OffInv, Rows
  <2> QED
    BY <2>1, <2>2, <2>3
<1>5. GuardedInv'
  <2>1. \A q \in Runs : ~Early(q)'
    BY <1>2, <1>3 DEF Early, Busy, Steps
  <2> QED
    BY <2>1 DEF GuardedInv
<1>6. PromoteInv'
  <2>1. mat'[Latest'] = mat[Latest]
    BY <1>2 DEF Latest, Valid
  <2>2. label[winner[r]] = "jump"
    BY <1>2, JumpFacts DEF Steps
  <2>3. \A q \in Runs \ {r} : ~Busy(q)'
    BY <1>3
  <2> QED
    BY <1>2, <2>1, <2>2, <2>3 DEF SeqInv, PromoteInv, Busy, Steps
<1>7. BlobInv'
  <2>1. blob' # <<>>
    BY <1>2, MergedFacts DEF SeqInv, Steps
  <2> QED
    BY <2>1 DEF BlobInv
<1>8. MarkInv'
  BY <1>2 DEF SeqInv, MarkInv
<1>9. ToolInv' /\ MatInv' /\ RowInv'
  BY <1>2, ToolInvFrame, MatInvFrame, RowInvFrame DEF SeqInv
<1> QED
  BY <1>1, <1>4, <1>5, <1>6, <1>7, <1>8, <1>9 DEF SeqInv

\* The upload fails, with or without effect.
LEMMA UploadFailsStep ==
    ASSUME Sequential, SeqInv, NEW r \in Runs, UploadFails(r)
    PROVE  SeqInv'
<1>1. TypeInv'
  BY UploadFailsTypes DEF SeqInv
<1>2. ToolInv' /\ MatInv' /\ RowInv'
  BY ToolInvFrame, MatInvFrame, RowInvFrame DEF SeqInv, UploadFails, Step
<1>3. Exclusive'
  BY DEF SeqInv, TypeInv, TypeOK, Exclusive, Busy, PromoteTypes, UploadFails, Step, Merged,
     Steps
<1>4. OffInv'
  BY DEF SeqInv, TypeInv, TypeOK, OffInv, Rows, AttemptTypes, PromoteTypes, TaskTypes, Tasks,
     UploadFails, Step, Merged, Steps
<1>5. RunInv'
  BY DEF SeqInv, TypeInv, TypeOK, RunInv, Busy, Rows, Valid, AttemptTypes, PromoteTypes,
     TaskTypes, Tasks, UploadFails, Step, Merged, Steps
<1>6. GuardedInv'
  BY DEF SeqInv, TypeInv, TypeOK, GuardedInv, Early, Begun, Rows, GuardPasses, Valid, Latest,
     AttemptTypes, PromoteTypes, TaskTypes, OtherTypes, Tasks, UploadFails, Step, Merged, Steps
<1>7. PromoteInv'
  <2>1. /\ ppc[r] = "upload" /\ ppc'[r] = "over" /\ \A q \in Runs \ {r} : ppc'[q] = ppc[q]
    BY DEF UploadFails, Step, SeqInv, TypeInv, TypeOK, PromoteTypes
  <2>2. \A q \in Runs : ~Busy(q)'
    BY <2>1, OnlyOne DEF Busy, Steps
  <2> QED
    BY <2>2, NobodyAtWork
<1>8. BlobInv'
  BY DEF SeqInv, TypeInv, TypeOK, BlobInv, Valid, OtherTypes, StoreTypes, UploadFails, Step,
     Merged
<1>9. MarkInv'
  BY DEF SeqInv, TypeInv, TypeOK, MarkInv, AttemptTypes, PromoteTypes, OtherTypes, StoreTypes,
     UploadFails, Step, Merged, Steps
<1> QED
  BY <1>1, <1>2, <1>3, <1>4, <1>5, <1>6, <1>7, <1>8, <1>9 DEF SeqInv

\* The row becomes visible.
LEMMA CommitStep ==
    ASSUME Sequential, SeqInv, NEW r \in Runs, Commit(r)
    PROVE  SeqInv'
<1> DEFINE w == winner[r]
<1>1. TypeInv'
  BY CommitTypes DEF SeqInv
<1>2. /\ ppc[r] = "commit" /\ ppc'[r] = "over" /\ \A q \in Runs \ {r} : ppc'[q] = ppc[q]
      /\ row' = [row EXCEPT ![w] = "valid"] /\ mat' = [mat EXCEPT ![w] = Merged(r)]
      /\ UNCHANGED <<attemptVars, marked, blob, taskVars, hadBest, winner, current,
                     establishVars, toolVars, boundVars>>
  BY DEF Commit, Step, SeqInv, TypeInv, TypeOK, PromoteTypes
<1>3. /\ Busy(r) /\ w \in Rows(r) /\ w \in Attempts /\ w <= count /\ Valid # {} /\ blob # <<>>
      /\ \A v \in Valid : v < w
  BY <1>2, JumpFacts DEF Steps
<1>4. epc = "idle" /\ tpc = "idle" /\ \A q \in Runs : ~Busy(q)'
  BY <1>2, <1>3, OnlyOne DEF Busy, Steps
<1> HIDE DEF w
<1>5. Valid' = Valid \cup {w}
  BY <1>2, <1>3 DEF Valid, SeqInv, TypeInv, TypeOK, StoreTypes
<1>6. MatInv'
  <2> SUFFICES ASSUME ~blind, NEW v \in Valid', NEW u \in Valid', u <= v
               PROVE  u \in ToSet(mat'[v])
    BY <1>2 DEF MatInv
  <2>1. \A x, y \in Valid : y <= x => y \in ToSet(mat[x])
    BY DEF SeqInv, MatInv
  <2>2. CASE v = w
    <3>1. mat'[v] = Merged(r)
      BY <1>2, <1>3, <2>2 DEF SeqInv, TypeInv, TypeOK, StoreTypes
    <3>2. current[r] = mat[Latest] /\ current[r] \in Sources
      BY <1>2 DEF SeqInv, PromoteInv, TypeInv, TypeOK, PromoteTypes
    <3>3. ToSet(Merged(r)) = ToSet(mat[Latest]) \cup {w}
      BY <1>3, <3>2, SourceFacts DEF Merged, w
    <3>4. u \in Valid => u \in ToSet(mat[Latest])
      BY <1>3, <2>1, LatestFacts
    <3> QED
      BY <1>5, <3>1, <3>3, <3>4
  <2>3. CASE v # w
    <3>1. v \in Valid /\ v < w /\ mat'[v] = mat[v]
      BY <1>2, <1>3, <1>5, <2>3 DEF SeqInv, TypeInv, TypeOK, StoreTypes, Valid
    <3>2. u # w
      BY <1>3, <3>1, AttemptFacts DEF Valid
    <3> QED
      BY <1>5, <2>1, <3>1, <3>2
  <2> QED
    BY <2>2, <2>3
<1>7. RowInv'
  BY <1>2, <1>3 DEF SeqInv, RowInv, TypeInv, TypeOK, StoreTypes
<1>8. MarkInv'
  BY <1>2 DEF SeqInv, MarkInv, TypeInv, TypeOK, StoreTypes, w
<1>9. Exclusive' /\ RunInv' /\ GuardedInv' /\ PromoteInv'
  BY <1>2, <1>4, NobodyAtWork DEF Exclusive
<1>10. OffInv'
  BY <1>2 DEF SeqInv, OffInv, Rows
<1>11. ToolInv' /\ BlobInv'
  BY <1>2, <1>3, <1>4 DEF ToolInv, BlobInv
<1> QED
  BY <1>1, <1>6, <1>7, <1>8, <1>9, <1>10, <1>11 DEF SeqInv

\* The promote task is killed.
LEMMA PromoteDiesStep ==
    ASSUME Sequential, SeqInv, NEW r \in Runs, PromoteDies(r)
    PROVE  SeqInv'
<1>1. TypeInv'
  BY PromoteDiesTypes DEF SeqInv
<1>2. ToolInv' /\ BlobInv' /\ MatInv' /\ RowInv'
  BY ToolInvFrame, BlobInvFrame, MatInvFrame, RowInvFrame DEF SeqInv, PromoteDies
<1>3. Exclusive'
  BY DEF SeqInv, TypeInv, TypeOK, Exclusive, Busy, PromoteTypes, PromoteDies, Steps
<1>4. OffInv'
  BY DEF SeqInv, TypeInv, TypeOK, OffInv, Rows, AttemptTypes, PromoteTypes, TaskTypes, Tasks,
     PromoteDies, Steps
<1>5. RunInv'
  BY DEF SeqInv, TypeInv, TypeOK, RunInv, Busy, Rows, Valid, AttemptTypes, PromoteTypes,
     TaskTypes, Tasks, PromoteDies, Steps
<1>6. GuardedInv'
  <2>1. \A s \in Runs : (Early(s) /\ Begun(s) /\ faults = 0)' =>
            Early(s) /\ Begun(s) /\ faults = 0
    BY DEF SeqInv, TypeInv, TypeOK, PromoteTypes, TaskTypes, OtherTypes, Early, Begun, Rows,
       PromoteDies
  <2> QED
    BY <2>1, GuardedLess DEF SeqInv, PromoteDies
<1>7. PromoteInv'
  BY DEF SeqInv, TypeInv, TypeOK, PromoteInv, Valid, Latest, Steps, PromoteTypes, StoreTypes,
     OtherTypes, PromoteDies
<1>8. MarkInv'
  BY DEF SeqInv, TypeInv, TypeOK, MarkInv, AttemptTypes, PromoteTypes, OtherTypes, StoreTypes,
     PromoteDies, Steps
<1> QED
  BY <1>1, <1>2, <1>3, <1>4, <1>5, <1>6, <1>7, <1>8 DEF SeqInv

\* A bootstrap picks a candidate.
LEMMA EstablishPickStep ==
    ASSUME Sequential, SeqInv, NEW a \in Attempts, EstablishPick(a)
    PROVE  SeqInv'
<1>1. TypeInv'
  BY EstablishPickTypes DEF SeqInv
<1>2. OffInv' /\ RunInv' /\ GuardedInv' /\ PromoteInv' /\ MatInv' /\ RowInv' /\ MarkInv'
  BY OffInvFrame, RunInvFrame, GuardedInvFrame, PromoteInvFrame, MatInvFrame, RowInvFrame,
     MarkInvFrame DEF SeqInv, EstablishPick, EstablishStep
<1>3. Exclusive'
  BY DEF SeqInv, Exclusive, Sequential, EstablishPick, EstablishStep, Active, Busy
<1>4. ToolInv'
  BY DEF SeqInv, TypeInv, TypeOK, ToolInv, Valid, OtherTypes, StoreTypes, EstablishPick,
     EstablishStep
<1>5. BlobInv'
  BY DEF SeqInv, TypeInv, TypeOK, BlobInv, Valid, OtherTypes, StoreTypes, EstablishPick,
     EstablishStep
<1> QED
  BY <1>1, <1>2, <1>3, <1>4, <1>5 DEF SeqInv

\* It goes on to another.
LEMMA EstablishNextStep ==
    ASSUME Sequential, SeqInv, NEW a \in Attempts, EstablishNext(a)
    PROVE  SeqInv'
<1>1. TypeInv'
  BY EstablishNextTypes DEF SeqInv
<1>2. Exclusive' /\ OffInv' /\ RunInv' /\ GuardedInv' /\ PromoteInv' /\ ToolInv' /\ BlobInv' /\
      MatInv' /\ RowInv' /\ MarkInv'
  BY ExclusiveFrame, OffInvFrame, RunInvFrame, GuardedInvFrame, PromoteInvFrame, ToolInvFrame,
     BlobInvFrame, MatInvFrame, RowInvFrame, MarkInvFrame DEF SeqInv, EstablishNext
<1> QED
  BY <1>1, <1>2 DEF SeqInv

\* The candidate is confirmed or is not.
LEMMA EstablishConfirmStep ==
    ASSUME Sequential, SeqInv, NEW c \in BOOLEAN, EstablishConfirm(c)
    PROVE  SeqInv'
<1>1. TypeInv'
  BY EstablishConfirmTypes DEF SeqInv
<1>2. OffInv' /\ RunInv' /\ GuardedInv' /\ PromoteInv' /\ MatInv' /\ RowInv' /\ MarkInv'
  BY OffInvFrame, RunInvFrame, GuardedInvFrame, PromoteInvFrame, MatInvFrame, RowInvFrame,
     MarkInvFrame DEF SeqInv, EstablishConfirm, EstablishStep
<1>3. Exclusive'
  BY DEF SeqInv, TypeInv, TypeOK, Exclusive, Busy, PromoteTypes, EstablishConfirm,
     EstablishStep, Steps
<1>4. ToolInv'
  BY DEF SeqInv, TypeInv, TypeOK, ToolInv, Valid, OtherTypes, StoreTypes, EstablishConfirm,
     EstablishStep
<1>5. BlobInv'
  BY DEF SeqInv, TypeInv, TypeOK, BlobInv, Valid, OtherTypes, StoreTypes, EstablishConfirm,
     EstablishStep
<1> QED
  BY <1>1, <1>2, <1>3, <1>4, <1>5 DEF SeqInv

\* Its source becomes the blob.
LEMMA EstablishUploadStep ==
    ASSUME Sequential, SeqInv, EstablishUpload
    PROVE  SeqInv'
<1>1. TypeInv'
  BY EstablishUploadTypes DEF SeqInv
<1>2. OffInv' /\ RunInv' /\ MatInv' /\ RowInv' /\ MarkInv'
  BY OffInvFrame, RunInvFrame, MatInvFrame, RowInvFrame, MarkInvFrame DEF SeqInv,
     EstablishUpload, EstablishStep
<1>3. Exclusive'
  BY DEF SeqInv, TypeInv, TypeOK, Exclusive, Busy, PromoteTypes, EstablishUpload, EstablishStep,
     Steps
<1>4. GuardedInv'
  <2>1. \A q \in Runs : ~Busy(q)
    BY DEF SeqInv, Exclusive, EstablishUpload, EstablishStep
  <2>2. \A q \in Runs : ~Busy(q)'
    BY <2>1 DEF EstablishUpload, Busy
  <2> QED
    BY <2>2, NobodyAtWork
<1>5. PromoteInv'
  <2>1. \A q \in Runs : ~Busy(q)
    BY DEF SeqInv, Exclusive, EstablishUpload, EstablishStep
  <2>2. \A q \in Runs : ~Busy(q)'
    BY <2>1 DEF EstablishUpload, Busy
  <2> QED
    BY <2>2, NobodyAtWork
<1>6. ToolInv'
  BY DEF SeqInv, TypeInv, TypeOK, ToolInv, Valid, OtherTypes, StoreTypes, EstablishUpload,
     EstablishStep
<1>7. BlobInv'
  BY DEF SeqInv, TypeInv, TypeOK, BlobInv, Valid, OtherTypes, StoreTypes, EstablishUpload,
     EstablishStep
<1> QED
  BY <1>1, <1>2, <1>3, <1>4, <1>5, <1>6, <1>7 DEF SeqInv

\* Its row becomes visible.
LEMMA EstablishCommitStep ==
    ASSUME Sequential, SeqInv, EstablishCommit
    PROVE  SeqInv'
<1>1. TypeInv'
  BY EstablishCommitTypes DEF SeqInv
<1>2. OffInv'
  BY OffInvFrame DEF SeqInv, EstablishCommit, EstablishStep
<1>3. Exclusive'
  BY DEF SeqInv, TypeInv, TypeOK, Exclusive, Busy, PromoteTypes, EstablishCommit, EstablishStep,
     Steps
<1>4. RunInv'
  <2>1. \A q \in Runs : ~Busy(q)
    BY DEF SeqInv, Exclusive, EstablishCommit, EstablishStep
  <2>2. \A q \in Runs : ~Busy(q)'
    BY <2>1 DEF EstablishCommit, Busy
  <2> QED
    BY <2>2, NobodyAtWork
<1>5. GuardedInv'
  <2>1. \A q \in Runs : ~Busy(q)
    BY DEF SeqInv, Exclusive, EstablishCommit, EstablishStep
  <2>2. \A q \in Runs : ~Busy(q)'
    BY <2>1 DEF EstablishCommit, Busy
  <2> QED
    BY <2>2, NobodyAtWork
<1>6. PromoteInv'
  <2>1. \A q \in Runs : ~Busy(q)
    BY DEF SeqInv, Exclusive, EstablishCommit, EstablishStep
  <2>2. \A q \in Runs : ~Busy(q)'
    BY <2>1 DEF EstablishCommit, Busy
  <2> QED
    BY <2>2, NobodyAtWork
<1>7. ToolInv'
  BY DEF SeqInv, TypeInv, TypeOK, ToolInv, Valid, OtherTypes, StoreTypes, EstablishCommit,
     EstablishStep
<1>8. BlobInv'
  BY DEF SeqInv, TypeInv, TypeOK, BlobInv, Valid, OtherTypes, StoreTypes, EstablishCommit,
     EstablishStep
<1>9. MatInv'
  <2>1. /\ chosen \in Attempts /\ Valid' = {chosen} /\ mat'[chosen] = <<chosen>>
    <3>1. chosen \in Attempts /\ Valid = {}
      BY AttemptFacts DEF SeqInv, TypeInv, TypeOK, WorkInv, AttemptTypes, Attempts, ToolInv,
         EstablishCommit, EstablishStep
    <3> QED
      BY <3>1 DEF EstablishCommit, Valid, SeqInv, TypeInv, TypeOK, StoreTypes
  <2> QED
    BY <2>1, SourceFacts DEF MatInv
<1>10. RowInv'
  <2>1. chosen \in 1..count
    BY DEF SeqInv, TypeInv, WorkInv, EstablishCommit, EstablishStep
  <2>2. chosen <= count
    BY <2>1 DEF SeqInv, TypeInv, TypeOK, AttemptTypes
  <2> QED
    BY <2>2 DEF SeqInv, RowInv, EstablishCommit, TypeInv, TypeOK, StoreTypes
<1>11. MarkInv'
  BY DEF SeqInv, TypeInv, TypeOK, MarkInv, AttemptTypes, PromoteTypes, OtherTypes, StoreTypes,
     EstablishCommit, EstablishStep, Steps
<1> QED
  BY <1>1, <1>2, <1>3, <1>4, <1>5, <1>6, <1>7, <1>8, <1>9, <1>10, <1>11 DEF SeqInv

\* The bootstrap is killed.
LEMMA EstablishDiesStep ==
    ASSUME Sequential, SeqInv, EstablishDies
    PROVE  SeqInv'
<1>1. TypeInv'
  BY EstablishDiesTypes DEF SeqInv
<1>2. OffInv' /\ RunInv' /\ GuardedInv' /\ PromoteInv' /\ MatInv' /\ RowInv'
  BY OffInvFrame, RunInvFrame, GuardedInvFrame, PromoteInvFrame, MatInvFrame, RowInvFrame DEF
     SeqInv, EstablishDies
<1>3. Exclusive'
  BY DEF SeqInv, TypeInv, TypeOK, Exclusive, Busy, PromoteTypes, EstablishDies, Steps
<1>4. ToolInv'
  BY DEF SeqInv, TypeInv, TypeOK, ToolInv, Valid, OtherTypes, StoreTypes, EstablishDies
<1>5. BlobInv'
  BY DEF SeqInv, TypeInv, TypeOK, BlobInv, Valid, OtherTypes, StoreTypes, EstablishDies
<1>6. MarkInv'
  BY DEF SeqInv, TypeInv, TypeOK, MarkInv, AttemptTypes, PromoteTypes, OtherTypes, StoreTypes,
     EstablishDies, Steps
<1> QED
  BY <1>1, <1>2, <1>3, <1>4, <1>5, <1>6 DEF SeqInv

\* A row is taken out of the registry.
LEMMA QuarantineStep ==
    ASSUME Sequential, SeqInv, NEW a \in Attempts, Quarantine(a)
    PROVE  SeqInv'
<1>1. TypeInv'
  BY QuarantineTypes DEF SeqInv
<1>2. Exclusive' /\ OffInv'
  BY ExclusiveFrame, OffInvFrame DEF SeqInv, Quarantine, MayUseTool
<1>3. RunInv'
  <2>1. \A q \in Runs : ~Busy(q)
    BY ToolAlone DEF Quarantine
  <2>2. \A q \in Runs : ~Busy(q)'
    BY <2>1 DEF Quarantine, Busy, MayUseTool
  <2> QED
    BY <2>2, NobodyAtWork
<1>4. GuardedInv'
  <2>1. \A q \in Runs : ~Busy(q)
    BY ToolAlone DEF Quarantine
  <2>2. \A q \in Runs : ~Busy(q)'
    BY <2>1 DEF Quarantine, Busy, MayUseTool
  <2> QED
    BY <2>2, NobodyAtWork
<1>5. PromoteInv'
  <2>1. \A q \in Runs : ~Busy(q)
    BY ToolAlone DEF Quarantine
  <2>2. \A q \in Runs : ~Busy(q)'
    BY <2>1 DEF Quarantine, Busy, MayUseTool
  <2> QED
    BY <2>2, NobodyAtWork
<1>6. ToolInv'
  BY DEF SeqInv, TypeInv, TypeOK, ToolInv, Valid, OtherTypes, StoreTypes, Quarantine, MayUseTool
<1>7. BlobInv'
  BY DEF SeqInv, TypeInv, TypeOK, BlobInv, Valid, OtherTypes, StoreTypes, Quarantine, MayUseTool
<1>8. MatInv'
  BY DEF SeqInv, TypeInv, TypeOK, MatInv, Valid, OtherTypes, StoreTypes, Quarantine, MayUseTool
<1>9. RowInv'
  BY DEF SeqInv, TypeInv, TypeOK, RowInv, AttemptTypes, StoreTypes, Quarantine, MayUseTool
<1>10. MarkInv'
  BY DEF SeqInv, TypeInv, TypeOK, MarkInv, AttemptTypes, PromoteTypes, OtherTypes, StoreTypes,
     Quarantine, MayUseTool, Steps
<1> QED
  BY <1>1, <1>2, <1>3, <1>4, <1>5, <1>6, <1>7, <1>8, <1>9, <1>10 DEF SeqInv

\* The rebuild merges the valid rows anew.
LEMMA RebuildReplayStep ==
    ASSUME Sequential, SeqInv, RebuildReplay
    PROVE  SeqInv'
<1>1. TypeInv'
  BY RebuildReplayTypes DEF SeqInv
<1>2. OffInv' /\ RunInv' /\ GuardedInv' /\ PromoteInv' /\ BlobInv' /\ MatInv' /\ RowInv' /\
      MarkInv'
  BY OffInvFrame, RunInvFrame, GuardedInvFrame, PromoteInvFrame, BlobInvFrame, MatInvFrame,
     RowInvFrame, MarkInvFrame DEF SeqInv, RebuildReplay, MayUseTool
<1>3. Exclusive'
  <2>1. epc = "idle" /\ \A q \in Runs : ~Busy(q)
    BY ToolAlone DEF RebuildReplay
  <2> QED
    BY <2>1 DEF Exclusive, Busy, RebuildReplay
<1>4. ToolInv'
  BY DEF SeqInv, TypeInv, TypeOK, ToolInv, Valid, OtherTypes, StoreTypes, RebuildReplay,
     MayUseTool
<1> QED
  BY <1>1, <1>2, <1>3, <1>4 DEF SeqInv

\* The replay becomes the blob.
LEMMA RebuildUploadStep ==
    ASSUME Sequential, SeqInv, RebuildUpload
    PROVE  SeqInv'
<1>1. TypeInv'
  BY RebuildUploadTypes DEF SeqInv
<1>2. OffInv' /\ RunInv' /\ MatInv' /\ RowInv' /\ MarkInv'
  BY OffInvFrame, RunInvFrame, MatInvFrame, RowInvFrame, MarkInvFrame DEF SeqInv, RebuildUpload
<1>3. Exclusive'
  BY DEF SeqInv, TypeInv, TypeOK, Exclusive, Busy, PromoteTypes, RebuildUpload, Steps
<1>4. GuardedInv'
  <2>1. \A q \in Runs : ~Busy(q)
    BY DEF SeqInv, Exclusive, RebuildUpload
  <2>2. \A q \in Runs : ~Busy(q)'
    BY <2>1 DEF RebuildUpload, Busy
  <2> QED
    BY <2>2, NobodyAtWork
<1>5. PromoteInv'
  <2>1. \A q \in Runs : ~Busy(q)
    BY DEF SeqInv, Exclusive, RebuildUpload
  <2>2. \A q \in Runs : ~Busy(q)'
    BY <2>1 DEF RebuildUpload, Busy
  <2> QED
    BY <2>2, NobodyAtWork
<1>6. ToolInv'
  BY DEF SeqInv, TypeInv, TypeOK, ToolInv, Valid, OtherTypes, StoreTypes, RebuildUpload
<1>7. BlobInv'
  <2>1. blob' # <<>>
    BY InOrderFacts DEF SeqInv, ToolInv, RebuildUpload, Valid
  <2> QED
    BY <2>1 DEF BlobInv
<1> QED
  BY <1>1, <1>2, <1>3, <1>4, <1>5, <1>6, <1>7 DEF SeqInv

\* The latest valid row vouches for it.
LEMMA RebuildRecordStep ==
    ASSUME Sequential, SeqInv, RebuildRecord
    PROVE  SeqInv'
<1>1. TypeInv'
  BY RebuildRecordTypes DEF SeqInv
<1>2. OffInv' /\ RunInv' /\ BlobInv' /\ RowInv' /\ MarkInv'
  BY OffInvFrame, RunInvFrame, BlobInvFrame, RowInvFrame, MarkInvFrame DEF SeqInv, RebuildRecord
<1>3. Exclusive'
  BY DEF SeqInv, TypeInv, TypeOK, Exclusive, Busy, PromoteTypes, RebuildRecord, Steps
<1>4. GuardedInv'
  <2>1. \A q \in Runs : ~Busy(q)
    BY DEF SeqInv, Exclusive, RebuildRecord
  <2>2. \A q \in Runs : ~Busy(q)'
    BY <2>1 DEF RebuildRecord, Busy
  <2> QED
    BY <2>2, NobodyAtWork
<1>5. PromoteInv'
  <2>1. \A q \in Runs : ~Busy(q)
    BY DEF SeqInv, Exclusive, RebuildRecord
  <2>2. \A q \in Runs : ~Busy(q)'
    BY <2>1 DEF RebuildRecord, Busy
  <2> QED
    BY <2>2, NobodyAtWork
<1>6. ToolInv'
  BY DEF SeqInv, TypeInv, TypeOK, ToolInv, Valid, OtherTypes, StoreTypes, RebuildRecord
<1>7. MatInv'
  <2>1. /\ Valid # {} /\ replay = InOrder(Valid) /\ Valid' = Valid
        /\ mat' = [mat EXCEPT ![Latest] = replay] /\ blind' = blind
    BY DEF SeqInv, ToolInv, RebuildRecord, Valid
  <2>2. ToSet(replay) = Valid
    BY <2>1, InOrderFacts DEF Valid
  <2>3. \A v \in Valid : mat'[v] = mat[v] \/ mat'[v] = replay
    BY <2>1 DEF SeqInv, TypeInv, TypeOK, StoreTypes, Valid
  <2> QED
    BY <2>1, <2>2, <2>3 DEF SeqInv, MatInv
<1> QED
  BY <1>1, <1>2, <1>3, <1>4, <1>5, <1>6, <1>7 DEF SeqInv

\* The rebuild is killed.
LEMMA RebuildDiesStep ==
    ASSUME Sequential, SeqInv, RebuildDies
    PROVE  SeqInv'
<1>1. TypeInv'
  BY RebuildDiesTypes DEF SeqInv
<1>2. OffInv' /\ RunInv' /\ GuardedInv' /\ PromoteInv' /\ BlobInv' /\ MatInv' /\ RowInv'
  BY OffInvFrame, RunInvFrame, GuardedInvFrame, PromoteInvFrame, BlobInvFrame, MatInvFrame,
     RowInvFrame DEF SeqInv, RebuildDies
<1>3. Exclusive'
  BY DEF SeqInv, TypeInv, TypeOK, Exclusive, Busy, PromoteTypes, RebuildDies, Steps
<1>4. ToolInv'
  BY DEF SeqInv, TypeInv, TypeOK, ToolInv, Valid, OtherTypes, StoreTypes, RebuildDies
<1>5. MarkInv'
  BY DEF SeqInv, TypeInv, TypeOK, MarkInv, AttemptTypes, PromoteTypes, OtherTypes, StoreTypes,
     RebuildDies, Steps
<1> QED
  BY <1>1, <1>2, <1>3, <1>4, <1>5 DEF SeqInv

\* The operator lifts the pause.
LEMMA UnpauseStep ==
    ASSUME Sequential, SeqInv, Unpause
    PROVE  SeqInv'
<1>1. TypeInv'
  BY UnpauseTypes DEF SeqInv
<1>2. Exclusive' /\ OffInv' /\ RunInv' /\ GuardedInv' /\ PromoteInv' /\ ToolInv' /\ BlobInv' /\
      MatInv' /\ RowInv' /\ MarkInv'
  BY ExclusiveFrame, OffInvFrame, RunInvFrame, GuardedInvFrame, PromoteInvFrame, ToolInvFrame,
     BlobInvFrame, MatInvFrame, RowInvFrame, MarkInvFrame DEF SeqInv, Unpause, MayUseTool
<1> QED
  BY <1>1, <1>2 DEF SeqInv

-----------------------------------------------------------------------------
(* The invariants hold initially and are kept, and what follows.           *)

\* Nothing is stored, promoted or at work at first.
LEMMA InitInv == Init => SeqInv
<1> SUFFICES ASSUME Init PROVE SeqInv
  OBVIOUS
<1>1. TypeInv
  <2>1. AttemptTypes
    <3>1. count \in 0..MaxAttempts
      BY AttemptFacts DEF Init
    <3>2. /\ owner \in [Attempts -> Runs \cup {Nobody}]
          /\ label \in [Attempts -> {"none", "jump", "other", "error"}]
          /\ judged \in [Attempts -> SUBSET Attempts]
      BY DEF Init
    <3> QED
      BY <3>1, <3>2 DEF AttemptTypes
  <2>2. TaskTypes
    BY SourceFacts DEF Init, TaskTypes
  <2>3. StoreTypes /\ PromoteTypes /\ OtherTypes
    BY SourceFacts DEF Init, StoreTypes, PromoteTypes, OtherTypes
  <2>4. WorkInv
    BY DEF Init, WorkInv, Steps
  <2> QED
    BY <2>1, <2>2, <2>3, <2>4 DEF TypeInv, TypeOK
<1>2. /\ \A r \in Runs : ~Busy(r) /\ ~Early(r) /\ Rows(r) = {}
      /\ Valid = {} /\ marked = {}
  <2>1. \A r \in Runs : ~Busy(r) /\ ~Early(r)
    BY DEF Init, Busy, Early, Steps
  <2>2. \A r \in Runs : Rows(r) = {}
    BY DEF Init, Rows
  <2> QED
    BY <2>1, <2>2 DEF Init, Valid
<1>3. OffInv
  BY <1>2 DEF Init, OffInv, Tasks
<1>4. Exclusive /\ RunInv /\ GuardedInv
  BY <1>2 DEF Init, Exclusive, RunInv, GuardedInv
<1>5. PromoteInv /\ ToolInv /\ BlobInv /\ MatInv /\ RowInv
  BY <1>2 DEF Init, PromoteInv, ToolInv, BlobInv, MatInv, RowInv, Steps
<1>6. MarkInv
  BY <1>2 DEF MarkInv
<1> QED
  BY <1>1, <1>3, <1>4, <1>5, <1>6 DEF SeqInv

\* Every step of the program keeps the types.
LEMMA TypeStep ==
    ASSUME TypeInv, [Next]_vars
    PROVE  TypeInv'
<1>1. ASSUME NEW t \in Tasks, Attempt(t) PROVE TypeInv'
  BY <1>1, AttemptGuardTypes, AttemptLoadTypes, AttemptBaselineTypes, AttemptDiesTypes,
     AttemptStoreTypes DEF Attempt
<1>2. ASSUME NEW r \in Runs, Retrieve(r) PROVE TypeInv'
  BY <1>2, RetrieveTypes
<1>3. ASSUME NEW r \in Runs, Promote(r) PROVE TypeInv'
  BY <1>3, PickWinnerTypes, Stage1Types, PromoteGuardTypes, FetchTypes, NoTrainTypes,
     AcceptTypes, RejectTypes, UploadTypes, UploadFailsTypes, CommitTypes, PromoteDiesTypes
     DEF Promote
<1>4. CASE Establish
  BY <1>4, EstablishPickTypes, EstablishNextTypes, EstablishConfirmTypes,
     EstablishUploadTypes, EstablishCommitTypes, EstablishDiesTypes DEF Establish
<1>5. CASE Operator
  BY <1>5, QuarantineTypes, RebuildReplayTypes, RebuildUploadTypes, RebuildRecordTypes,
     RebuildDiesTypes, UnpauseTypes DEF Operator
<1>6. CASE UNCHANGED vars
  BY <1>6 DEF TypeInv, WorkInv, Rows, TypeOK, AttemptTypes, StoreTypes, TaskTypes,
     PromoteTypes, OtherTypes, vars
<1> QED
  BY <1>1, <1>2, <1>3, <1>4, <1>5, <1>6 DEF Next

\* Under the discipline every step keeps the invariant.
LEMMA SeqStep ==
    ASSUME Sequential, SeqInv, [Next]_vars
    PROVE  SeqInv'
<1>1. ASSUME NEW t \in Tasks, Attempt(t) PROVE SeqInv'
  BY <1>1, AttemptGuardStep, AttemptLoadStep, AttemptBaselineStep, AttemptDiesStep,
     AttemptStoreStep DEF Attempt
<1>2. ASSUME NEW r \in Runs, Retrieve(r) PROVE SeqInv'
  BY <1>2, RetrieveStep
<1>3. ASSUME NEW r \in Runs, Promote(r) PROVE SeqInv'
  BY <1>3, PickWinnerStep, Stage1Step, PromoteGuardStep, FetchStep, NoTrainStep, AcceptStep,
     RejectStep, UploadStep, UploadFailsStep, CommitStep, PromoteDiesStep DEF Promote
<1>4. CASE Establish
  BY <1>4, EstablishPickStep, EstablishNextStep, EstablishConfirmStep, EstablishUploadStep,
     EstablishCommitStep, EstablishDiesStep DEF Establish
<1>5. CASE Operator
  BY <1>5, QuarantineStep, RebuildReplayStep, RebuildUploadStep, RebuildRecordStep,
     RebuildDiesStep, UnpauseStep DEF Operator
<1>6. CASE UNCHANGED vars
  <2>1. TypeInv'
    BY TypeStep DEF SeqInv
  <2>2. /\ Exclusive' /\ OffInv' /\ RunInv' /\ GuardedInv' /\ PromoteInv' /\ ToolInv'
        /\ BlobInv' /\ MatInv' /\ RowInv' /\ MarkInv'
    BY <1>6, ExclusiveFrame, OffInvFrame, RunInvFrame, GuardedInvFrame, PromoteInvFrame,
       ToolInvFrame, BlobInvFrame, MatInvFrame, RowInvFrame, MarkInvFrame DEF SeqInv, vars
  <2> QED
    BY <2>1, <2>2 DEF SeqInv
<1> QED
  BY <1>1, <1>2, <1>3, <1>4, <1>5, <1>6 DEF Next

\* The registry's variables keep their types, whatever overlaps: a promote task
\* always has an attempt of its own run for a winner, and a bootstrap a stored
\* candidate.
THEOREM RegistryTypeOK == Spec => []TypeOK
<1>1. Init => TypeInv
  BY InitInv DEF SeqInv
<1>2. TypeInv /\ [Next]_vars => TypeInv'
  BY TypeStep
<1>3. TypeInv => TypeOK
  BY DEF TypeInv
<1> QED
  BY <1>1, <1>2, <1>3, PTL DEF Spec

\* The inductive invariant, under the discipline.
THEOREM SeqInvariant == ASSUME Sequential PROVE Spec => []SeqInv
<1>1. SeqInv /\ [Next]_vars => SeqInv'
  BY SeqStep
<1> QED
  BY <1>1, InitInv, PTL DEF Spec

\* PassedBlobIsComplete of run_attempt_core and run_promote_task: one run at a
\* time and the tools kept out of runs, a blob _baseline_source_guard lets pass
\* holds every confirmed attempt, whatever was killed or failed on the way, as
\* long as no read of the blob failed.
THEOREM PassedBlobHoldsAll == ASSUME Sequential PROVE Spec => []PassedBlobIsComplete
<1>1. SeqInv => PassedBlobIsComplete
  <2> SUFFICES ASSUME SeqInv, GuardPasses(blob), ~blind, NEW v \in Valid
               PROVE  v \in ToSet(blob)
    BY DEF PassedBlobIsComplete
  <2>1. blob # <<>>
    BY DEF SeqInv, BlobInv
  <2>2. blob = mat[Latest]
    BY <2>1 DEF GuardPasses
  <2>3. Latest \in Valid /\ v <= Latest
    BY LatestFacts
  <2> QED
    BY <2>2, <2>3 DEF SeqInv, MatInv
<1> QED
  BY <1>1, SeqInvariant, PTL

\* JumpMarksUnlessFaulty of run_promote_task: a jump marked as promoted when
\* its run is over is a pipeline, as long as nothing was killed and nothing
\* failed.
THEOREM JumpMarksAreRows == ASSUME Sequential PROVE Spec => []JumpMarksUnlessFaulty
<1>1. SeqInv => JumpMarksUnlessFaulty
  BY DEF SeqInv, MarkInv, JumpMarksUnlessFaulty
<1> QED
  BY <1>1, SeqInvariant, PTL

\* A row only becomes valid when a promotion or a bootstrap commits.
LEMMA OnlyCommitsValidate ==
    ASSUME [Next]_vars, NEW a \in Attempts, NewlyValid(a)
    PROVE  EstablishCommit \/ \E r \in Runs : Commit(r)
<1>1. row' # row
  BY DEF NewlyValid
<1>2. ASSUME NEW t \in Tasks, Attempt(t) PROVE FALSE
  BY <1>1, <1>2 DEF Attempt, AttemptGuard, AttemptLoad, AttemptBaseline, AttemptStore,
     AttemptDies
<1>3. ASSUME NEW r \in Runs, Retrieve(r) PROVE FALSE
  BY <1>1, <1>3 DEF Retrieve
<1>4. ASSUME NEW r \in Runs, Promote(r) PROVE Commit(r)
  BY <1>1, <1>4 DEF Promote, PickWinner, Stage1, PromoteGuard, Fetch, NoTrain, Accept, Reject,
     Upload, UploadFails, PromoteDies
<1>5. ASSUME Establish PROVE EstablishCommit
  BY <1>1, <1>5 DEF Establish, EstablishPick, EstablishNext, EstablishConfirm, EstablishUpload,
     EstablishDies
<1>6. ~Operator
  <2>1. ASSUME NEW b \in Attempts, Quarantine(b) PROVE FALSE
    <3>1. row' = [row EXCEPT ![b] = "invalid"]
      BY <2>1 DEF Quarantine
    <3>2. row'[a] = row[a] \/ row'[a] = "invalid" \/ row'[a] # "valid"
      BY <3>1
    <3> QED
      BY <3>1, <3>2 DEF NewlyValid
  <2> QED
    BY <1>1, <2>1 DEF Operator, RebuildReplay, RebuildUpload, RebuildRecord, RebuildDies, Unpause
<1>7. ~UNCHANGED vars
  BY <1>1 DEF vars
<1> QED
  BY <1>2, <1>3, <1>4, <1>5, <1>6, <1>7 DEF Next

\* PromotionsStack of _promote_winner and establish_bootstrap_baseline: a row
\* becomes valid as one layer more on what the latest valid row was promoted
\* as, or as the first layer of an empty registry.
THEOREM PromotionsAlwaysStack == ASSUME Sequential PROVE Spec => PromotionsStack
<1> DEFINE Stacks(a) == NewlyValid(a) /\ ~blind =>
               mat'[a] = IF Valid = {} THEN <<a>> ELSE Append(mat[Latest], a)
<1>1. SeqInv /\ [Next]_vars => [\A a \in Attempts : Stacks(a)]_vars
  <2> SUFFICES ASSUME SeqInv, [Next]_vars, NEW a \in Attempts, NewlyValid(a), ~blind
               PROVE  mat'[a] = IF Valid = {} THEN <<a>> ELSE Append(mat[Latest], a)
    OBVIOUS
  <2>1. CASE EstablishCommit
    <3>1. Valid = {} /\ chosen \in Attempts /\ a = chosen
      BY <2>1, AttemptFacts DEF SeqInv, ToolInv, TypeInv, TypeOK, WorkInv, AttemptTypes,
         StoreTypes, Attempts, EstablishCommit, EstablishStep, NewlyValid
    <3>2. mat'[a] = <<a>>
      BY <2>1, <3>1 DEF EstablishCommit, SeqInv, TypeInv, TypeOK, StoreTypes
    <3> QED
      BY <3>1, <3>2
  <2>2. ASSUME NEW r \in Runs, Commit(r)
        PROVE  mat'[a] = Append(mat[Latest], a) /\ Valid # {}
    <3>1. ppc[r] = "commit" /\ ppc[r] \in Steps \ {"stage1"}
      BY <2>2 DEF Commit, Step, Steps
    <3>2. Valid # {} /\ winner[r] \in Attempts /\ current[r] = mat[Latest]
      BY <3>1, JumpFacts DEF SeqInv, PromoteInv
    <3>3. a = winner[r]
      BY <2>2, <3>2 DEF Commit, SeqInv, TypeInv, TypeOK, StoreTypes, NewlyValid
    <3> QED
      BY <2>2, <3>2, <3>3 DEF Commit, Merged, SeqInv, TypeInv, TypeOK, StoreTypes
  <2> QED
    BY <2>1, <2>2, OnlyCommitsValidate
<1> QED
  BY <1>1, SeqInvariant, PTL DEF Spec, PromotionsStack

=============================================================================
