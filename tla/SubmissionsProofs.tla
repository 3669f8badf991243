------------------------- MODULE SubmissionsProofs -------------------------
(***************************************************************************)
(* Proofs about submissions, for any number of attempts, rows, days and    *)
(* failures, any scores and whatever Kaggle answers: the day's budget, and *)
(* when the tripwire pauses auto-submit.                                   *)
(***************************************************************************)
EXTENDS Submissions, SequenceTheorems, FiniteSetTheorems, WellFoundedInduction, TLAPS

USE DEF outside, gate, bounds, history

-----------------------------------------------------------------------------
(* The inductive invariant.                                                *)

\* Rows that count against the budget of a day whatever becomes of them.
Spent(d) == {r \in DOMAIN rows \ failed : rows[r].day = d /\ rows[r].by = "auto"}

\* No row is of a day to come, and a row that says error has been in error.
Dated ==
  \A r \in DOMAIN rows : /\ rows[r].day <= day
                         /\ rows[r].status = "error" => r \in failed

\* What the handler still may insert fits into the day when `spent' is spent.
Room(spent) ==
  /\ auto.at = "pick" => spent + auto.left <= PerDay
  /\ auto.at \in {"best", "last"} => spent + 1 <= PerDay
  /\ auto.at = "last" => Len(auto.todo) = 1
  /\ auto.at = "insert" => spent + Len(auto.todo) <= PerDay

\* The handler has room in the day, also in one that begins before it inserts.
BudgetInv ==
  /\ \A d \in 1..MaxDays : Cardinality(Spent(d)) <= PerDay
  /\ Dated /\ Room(Cardinality(Spent(day)))

Contradicted == {r \in WithScore : \E q \in WithScore : q < r /\ Diverged(r, q)}

Tripped == {"isolate", "pause"}

\* A refresh looks at scores, and what makes it isolate a row stays true.
PauseInv ==
  /\ \A p \in Refreshers : refresh[p].at = "detect" => refresh[p].row \in WithScore
  /\ (\E p \in Refreshers : refresh[p].at \in Tripped) \/ paused => Cardinality(Contradicted) >= 2

Newer(m) == \A q \in Charted : q <= m

\* A scored row is complete.
Whole == \A r \in DOMAIN rows : rows[r].scored => rows[r].status = "complete"

\* What keeps a divergence of the newest score from being forgotten.
Watched(m) ==
  \/ paused \/ Divergences(Chain(m)) < 2
  \/ \E p \in Refreshers : refresh[p].at \in Tripped \cup {"detect"} /\ refresh[p].row = m

\* In order: the newest score on the chart has been looked at, or is being
\* looked at, with the three before it.
CaughtInv ==
  ~disordered /\ faults = 0 => Whole /\ \A m \in Charted : Newer(m) => Watched(m)

-----------------------------------------------------------------------------
(* The greatest of a set of numbers below a bound.                         *)
LEMMA HasMax ==
  ASSUME NEW S \in SUBSET Nat, S # {}, NEW n \in Nat, \A x \in S : x <= n
  PROVE  Max(S) \in S /\ \A x \in S : x <= Max(S)
<1> DEFINE Under == {n - x : x \in S}
<1>1. Under \in SUBSET Nat /\ Under # {}
  <2>1. \A x \in S : n - x \in Nat
    OBVIOUS
  <2> QED BY <2>1
<1> HIDE DEF Under
<1> DEFINE R == OpToRel(<, Nat)
<1>2. \E x \in Under : \A y \in Under : ~(<<y, x>> \in R)
  BY <1>1, NatLessThanWellFounded, WFMin
<1>3. \A x, y \in Nat : y < x => <<y, x>> \in R
  BY DEF OpToRel
<1> HIDE DEF R
<1>4. PICK x \in Under : \A y \in Under : ~(y < x)
  BY <1>1, <1>2, <1>3
<1>5. PICK m \in S : x = n - m
  BY DEF Under
<1>6. \A y \in S : n - y \in Under
  BY DEF Under
<1>7. \A y \in S : y <= m
  BY <1>4, <1>5, <1>6
<1> QED BY <1>7 DEF Max

-----------------------------------------------------------------------------
(* The types.                                                              *)

(* Writing one place of a sequence.                                        *)
LEMMA Updated ==
  ASSUME NEW S, NEW s \in Seq(S), NEW i \in DOMAIN s, NEW e \in S
  PROVE  LET t == [s EXCEPT ![i] = e]
         IN /\ t \in Seq(S) /\ Len(t) = Len(s) /\ DOMAIN t = DOMAIN s
            /\ t[i] = e /\ \A j \in DOMAIN s : j # i => t[j] = s[j]
<1>1. Len(s) \in Nat /\ DOMAIN s = 1..Len(s) /\ s \in [1..Len(s) -> S]
  BY LenProperties, ElementOfSeq
<1> DEFINE t == [s EXCEPT ![i] = e]
<1>2. t \in [1..Len(s) -> S]
  BY <1>1
<1>3. t \in Seq(S) /\ Len(t) = Len(s)
  BY <1>1, <1>2, SeqDef, LenProperties
<1> QED BY <1>1, <1>2, <1>3

(* A row and its fields.                                                   *)
LEMMA RowFacts ==
  ASSUME TableTypes, NEW r \in DOMAIN rows
  PROVE  /\ rows[r] \in Row /\ r \in 1..Len(rows) /\ r \in Nat
         /\ rows[r].attempt \in Attempts \cup {NoAttempt} /\ rows[r].by \in {"auto", "hand"}
         /\ rows[r].status \in Statuses /\ rows[r].scored \in BOOLEAN
         /\ rows[r].day \in 1..MaxDays /\ rows[r].age \in {"fresh", "late", "stale"}
<1>1. rows \in Seq(Row)
  BY DEF TableTypes
<1>2. Len(rows) \in Nat /\ DOMAIN rows = 1..Len(rows) /\ rows \in [1..Len(rows) -> Row]
  BY <1>1, LenProperties, ElementOfSeq
<1>3. rows[r] \in Row /\ r \in 1..Len(rows) /\ r \in Nat
  BY <1>2
<1> QED BY <1>3 DEF Row

Tables == Len(rows) \in Nat /\ DOMAIN rows = 1..Len(rows) /\ DOMAIN thread = DOMAIN rows

(* Every row has its thread.                                               *)
LEMMA TableFacts ==
  ASSUME TableTypes PROVE Tables
BY LenProperties DEF TableTypes, Tables

(* A table of rows is finite, and numbered.                                *)
LEMMA FiniteTable ==
  ASSUME NEW t \in Seq(Row)
  PROVE  Len(t) \in Nat /\ DOMAIN t = 1..Len(t) /\ DOMAIN t \subseteq Nat
         /\ IsFiniteSet(DOMAIN t)
<1>1. Len(t) \in Nat /\ DOMAIN t = 1..Len(t)
  BY LenProperties
<1>2. 1..Len(t) \subseteq Nat
  BY <1>1
<1>3. IsFiniteSet(1..Len(t))
  BY <1>1, FS_Interval
<1> QED BY <1>1, <1>2, <1>3

\* An insertion.
Inserted(a, by) ==
  /\ Len(rows') = Len(rows) + 1 /\ DOMAIN rows' = 1..(Len(rows) + 1)
  /\ \A q \in DOMAIN rows : rows'[q] = rows[q]
  /\ LET new == rows'[Len(rows) + 1]
     IN /\ new.attempt = a /\ new.by = by /\ new.day = day
        /\ new.status = "queued" /\ new.scored = FALSE

(* An insertion adds a row and its thread.                                 *)
LEMMA InsertTypes ==
  ASSUME TableTypes, SubmissionsAssumption, day \in 1..MaxDays,
         NEW a \in Attempts \cup {NoAttempt}, NEW by \in {"auto", "hand"}, Insert(a, by)
  PROVE  TableTypes' /\ Inserted(a, by)
<1> DEFINE new == [attempt |-> a, by |-> by, status |-> "queued",
                   scored |-> FALSE, day |-> day, age |-> "fresh"]
           At == {"spawned", "over"} \cup Unsent \cup Sent
<1>1. new \in Row
  BY DEF Row, Statuses
<1>2. new.attempt = a /\ new.by = by /\ new.day = day /\ new.status = "queued"
      /\ new.scored = FALSE
  OBVIOUS
<1>3. rows' = Append(rows, new) /\ thread' = Append(thread, "spawned") /\ Len(rows) < MaxRows
  BY DEF Insert
<1>4. rows \in Seq(Row) /\ thread \in Seq(At) /\ "spawned" \in At /\ Len(thread) = Len(rows)
  BY DEF TableTypes
<1> HIDE DEF new, At
<1>5. /\ rows' \in Seq(Row) /\ Len(rows') = Len(rows) + 1
      /\ rows'[Len(rows) + 1] = new
      /\ \A q \in 1..Len(rows) : rows'[q] = rows[q]
  BY <1>1, <1>3, <1>4, AppendProperties
<1>6. /\ thread' \in Seq(At) /\ Len(thread') = Len(thread) + 1
      /\ thread'[Len(thread) + 1] = "spawned"
      /\ \A q \in 1..Len(thread) : thread'[q] = thread[q]
  BY <1>3, <1>4, AppendProperties
<1>7. Len(rows) \in Nat /\ DOMAIN rows = 1..Len(rows) /\ DOMAIN thread = 1..Len(rows)
      /\ DOMAIN rows' = 1..(Len(rows) + 1) /\ DOMAIN thread' = 1..(Len(rows) + 1)
  BY <1>4, <1>5, <1>6, LenProperties
<1>8. Inserted(a, by)
  BY <1>2, <1>5, <1>7 DEF Inserted
<1>9. Len(rows') <= MaxRows
  BY <1>3, <1>5, <1>7 DEF SubmissionsAssumption
<1>10. ASSUME NEW q \in DOMAIN thread', thread'[q] = "fitted"
       PROVE  q \in DOMAIN thread /\ thread[q] = "fitted"
  BY <1>4, <1>6, <1>7, <1>10
<1>11. \A q, r \in DOMAIN thread' : thread'[q] = "fitted" /\ thread'[r] = "fitted" => q = r
  BY <1>10 DEF TableTypes
<1>12. TableTypes'
  BY <1>4, <1>5, <1>6, <1>9, <1>11 DEF TableTypes, At
<1> QED BY <1>8, <1>12

(* What no write to a row changes.                                         *)
Kept ==
  /\ Len(rows') = Len(rows) /\ DOMAIN rows' = DOMAIN rows
  /\ \A q \in DOMAIN rows : /\ rows'[q].attempt = rows[q].attempt
                            /\ rows'[q].by = rows[q].by
                            /\ rows'[q].day = rows[q].day
                            /\ (rows[q].scored => rows'[q].scored)

(* A thread writes a status and moves on.                                  *)
LEMMA StatusWritten ==
  ASSUME TableTypes, NEW r \in DOMAIN rows, NEW s \in Statuses,
         rows' = [rows EXCEPT ![r].status = s]
  PROVE  /\ rows' \in Seq(Row) /\ Kept
         /\ rows'[r].status = s /\ rows'[r].scored = rows[r].scored
         /\ \A q \in DOMAIN rows : q # r => rows'[q] = rows[q]
<1>1. rows[r] \in Row /\ rows \in Seq(Row)
  BY RowFacts DEF TableTypes
<1> DEFINE new == [rows[r] EXCEPT !.status = s]
<1>2. new \in Row
  BY <1>1 DEF Row
<1>3. new.attempt = rows[r].attempt /\ new.by = rows[r].by /\ new.day = rows[r].day
      /\ new.scored = rows[r].scored /\ new.status = s
  BY <1>1 DEF Row
<1>4. rows' = [rows EXCEPT ![r] = new]
  OBVIOUS
<1> HIDE DEF new
<1>5. /\ rows' \in Seq(Row) /\ Len(rows') = Len(rows) /\ DOMAIN rows' = DOMAIN rows
      /\ rows'[r] = new /\ \A j \in DOMAIN rows : j # r => rows'[j] = rows[j]
  BY <1>1, <1>2, <1>4, Updated
<1> QED BY <1>3, <1>5 DEF Kept

\* What a refresh writes.
Overwritten(r, s, scored) ==
  rows' = [rows EXCEPT ![r].status = s, ![r].scored = @ \/ scored]

(* A refresh writes a status, and a score that stays.                      *)
LEMMA ScoreWritten ==
  ASSUME TableTypes, NEW r \in DOMAIN rows, NEW s \in Statuses, NEW scored \in BOOLEAN,
         Overwritten(r, s, scored)
  PROVE  /\ rows' \in Seq(Row) /\ Kept
         /\ rows'[r].status = s /\ rows'[r].scored = (rows[r].scored \/ scored)
         /\ \A q \in DOMAIN rows : q # r => rows'[q] = rows[q]
<1>1. rows[r] \in Row /\ rows \in Seq(Row) /\ rows[r].scored \in BOOLEAN
  BY RowFacts DEF TableTypes
<1> DEFINE mid == [rows[r] EXCEPT !.status = s]
           new == [mid EXCEPT !.scored = rows[r].scored \/ scored]
<1>2. mid \in Row /\ mid.scored = rows[r].scored
  BY <1>1 DEF Row
<1>3. new \in Row
  BY <1>1, <1>2 DEF Row
<1>4. new.attempt = rows[r].attempt /\ new.by = rows[r].by /\ new.day = rows[r].day
      /\ new.status = s
  BY <1>1 DEF Row
<1>5. new.scored = (rows[r].scored \/ scored)
  BY <1>2 DEF Row
<1>6. rows' = [rows EXCEPT ![r] = new]
  <2>1. [rows EXCEPT ![r] = mid][r] = mid
    OBVIOUS
  <2> QED BY <1>2, <2>1 DEF Overwritten
<1> HIDE DEF new, mid
<1> DEFINE table == [rows EXCEPT ![r] = new]
<1>7a. /\ table \in Seq(Row) /\ Len(table) = Len(rows) /\ DOMAIN table = DOMAIN rows
       /\ table[r] = new /\ \A j \in DOMAIN rows : j # r => table[j] = rows[j]
  BY <1>1, <1>3, Updated
<1>7b. rows' = table
  BY <1>6
<1> HIDE DEF table
<1>7. /\ rows' \in Seq(Row) /\ Len(rows') = Len(rows) /\ DOMAIN rows' = DOMAIN rows
      /\ rows'[r] = new /\ \A j \in DOMAIN rows : j # r => rows'[j] = rows[j]
  BY <1>7a, <1>7b
<1>8. Kept
  BY <1>4, <1>5, <1>7 DEF Kept
<1> QED BY <1>4, <1>5, <1>7, <1>8

(* Rows grow old.                                                          *)
LEMMA AgeWritten ==
  ASSUME TableTypes, NEW age \in {"fresh", "late", "stale"}, NEW S,
         rows' = [r \in DOMAIN rows |-> IF r \in S THEN [rows[r] EXCEPT !.age = age] ELSE rows[r]]
  PROVE  /\ rows' \in Seq(Row) /\ Kept
         /\ \A q \in DOMAIN rows : /\ rows'[q].status = rows[q].status
                                   /\ rows'[q].scored = rows[q].scored
<1>1. DOMAIN rows = 1..Len(rows) /\ Len(rows) \in Nat
  BY TableFacts DEF Tables
<1>2. ASSUME NEW q \in DOMAIN rows
      PROVE  /\ rows'[q] \in Row /\ rows'[q].attempt = rows[q].attempt
             /\ rows'[q].by = rows[q].by /\ rows'[q].day = rows[q].day
             /\ rows'[q].status = rows[q].status /\ rows'[q].scored = rows[q].scored
  <2>1. rows[q] \in Row
    BY RowFacts
  <2>2. rows'[q] = rows[q] \/ rows'[q] = [rows[q] EXCEPT !.age = age]
    OBVIOUS
  <2> QED BY <2>1, <2>2 DEF Row
<1>3. rows' \in [1..Len(rows) -> Row]
  BY <1>1, <1>2
<1>4. rows' \in Seq(Row) /\ Len(rows') = Len(rows) /\ DOMAIN rows' = DOMAIN rows
  BY <1>1, <1>3, SeqDef, LenProperties
<1> QED BY <1>2, <1>4 DEF Kept

(* A thread moves on.                                                      *)
LEMMA ThreadGoes ==
  ASSUME TableTypes, NEW r \in DOMAIN rows, NEW to, Goes(r, to),
         to \in {"spawned", "over"} \cup Unsent \cup Sent,
         to = "fitted" => \A q \in DOMAIN thread : thread[q] # "fitted",
         rows' \in Seq(Row), Len(rows') = Len(rows)
  PROVE  TableTypes'
<1> DEFINE At == {"spawned", "over"} \cup Unsent \cup Sent
<1>1. thread \in Seq(At) /\ r \in DOMAIN thread /\ Len(thread) = Len(rows)
  BY TableFacts DEF TableTypes, Tables
<1>2. thread' = [thread EXCEPT ![r] = to] /\ to \in At
  BY DEF Goes
<1> HIDE DEF At
<1>3. /\ thread' \in Seq(At) /\ Len(thread') = Len(thread) /\ DOMAIN thread' = DOMAIN thread
      /\ thread'[r] = to /\ \A j \in DOMAIN thread : j # r => thread'[j] = thread[j]
  BY <1>1, <1>2, Updated
<1>4. \A q, s \in DOMAIN thread' : thread'[q] = "fitted" /\ thread'[s] = "fitted" => q = s
  BY <1>3 DEF TableTypes
<1>5. rows' \in Seq(Row) /\ Len(rows') <= MaxRows
  BY DEF TableTypes
<1> QED BY <1>1, <1>3, <1>4, <1>5 DEF TableTypes, At

(* The statuses a row may get.                                             *)
LEMMA StatusFacts ==
  ASSUME SubmissionsAssumption, NEW g \in Answers, g # "none"
  PROVE  (IF g = "unscored" THEN "complete" ELSE g) \in Statuses
BY DEF Answers, Statuses, Terminal, SubmissionsAssumption

(* A thread's step.                                                        *)
LEMMA ThreadTypes ==
  ASSUME TableTypes, NEW r \in DOMAIN rows, Thread(r)
  PROVE  TableTypes' /\ Kept /\ failed' \subseteq failed \cup {r}
<1> USE DEF Unsent, Sent
<1>1. CASE Begin(r)
  <2>1. "submitting" \in Statuses
    BY DEF Statuses
  <2>2. rows' \in Seq(Row) /\ Kept
    BY <1>1, <2>1, StatusWritten DEF Begin, Writes
  <2>3. Goes(r, "upload") \/ Goes(r, "waiting")
    BY <1>1 DEF Begin
  <2>4. TableTypes'
    BY <2>2, <2>3, ThreadGoes DEF Kept
  <2>5. failed' \subseteq failed \cup {r}
    BY <1>1 DEF Begin, Writes, Fail
  <2> QED BY <2>2, <2>4, <2>5
<1>2. CASE Upload(r)
  <2>1. rows' = rows /\ Kept /\ rows' \in Seq(Row) /\ failed' = failed
    BY <1>2 DEF Upload, Kept, TableTypes
  <2>2. \/ Goes(r, "uploaded")
        \/ Goes(r, "fitted") /\ \A q \in DOMAIN thread : thread[q] # "fitted"
    BY <1>2 DEF Upload
  <2>3. TableTypes'
    <3>1. CASE Goes(r, "uploaded")
      BY <2>1, <3>1, ThreadGoes
    <3>2. CASE Goes(r, "fitted") /\ \A q \in DOMAIN thread : thread[q] # "fitted"
      BY <2>1, <3>2, ThreadGoes
    <3> QED BY <2>2, <3>1, <3>2
  <2> QED BY <2>1, <2>3
<1>3. CASE Submitted(r) \/ Fails(r)
  <2>1. "submitted" \in Statuses /\ "error" \in Statuses
    BY DEF Statuses, Terminal
  <2>2. Goes(r, "over") /\ (Writes(r, "submitted") \/ Writes(r, "error"))
    BY <1>3 DEF Submitted, Fails
  <2>3. rows' \in Seq(Row) /\ Kept
    <3>1. CASE Writes(r, "submitted")
      BY <2>1, <3>1, StatusWritten DEF Writes
    <3>2. CASE Writes(r, "error")
      BY <2>1, <3>2, StatusWritten DEF Writes
    <3> QED BY <2>2, <3>1, <3>2
  <2>4. TableTypes'
    BY <2>2, <2>3, ThreadGoes DEF Kept
  <2>5. failed' \subseteq failed \cup {r}
    BY <2>2 DEF Writes, Fail
  <2> QED BY <2>3, <2>4, <2>5
<1>4. CASE ThreadRaises(r)
  <2>1. rows' = rows /\ Kept /\ rows' \in Seq(Row) /\ failed' = failed /\ Goes(r, "over")
    BY <1>4 DEF ThreadRaises, Kept, TableTypes
  <2>2. TableTypes'
    BY <2>1, ThreadGoes
  <2> QED BY <2>1, <2>2
<1> QED BY <1>1, <1>2, <1>3, <1>4 DEF Thread

(* The write of a refresh.                                                 *)
LEMMA WriteTypes ==
  ASSUME SubmissionsAssumption, TableTypes, RefreshTypes, NEW p \in Refreshers, Write(p)
  PROVE  LET r == refresh[p].row
             got == refresh[p].got
             status == IF got = "unscored" THEN "complete" ELSE got
         IN /\ TableTypes' /\ Kept /\ r \in DOMAIN rows /\ failed' \subseteq failed \cup {r}
            /\ rows'[r].status = status
            /\ rows'[r].scored = (rows[r].scored \/ got = "complete")
            /\ \A q \in DOMAIN rows : q # r => rows'[q] = rows[q]
<1> DEFINE r == refresh[p].row
           got == refresh[p].got
           status == IF got = "unscored" THEN "complete" ELSE got
           scored == got = "complete"
<1>1. r \in DOMAIN rows /\ got \in Answers /\ got # "none"
  BY DEF Write, RefreshTypes
<1>2. status \in Statuses /\ scored \in BOOLEAN
  BY <1>1, StatusFacts
<1>3. /\ Overwritten(r, status, scored)
      /\ thread' = thread /\ Fail(r, status)
  BY DEF Write, Overwritten
<1> HIDE DEF r, status, scored
<1>4. /\ rows' \in Seq(Row) /\ Kept
      /\ rows'[r].status = status /\ rows'[r].scored = (rows[r].scored \/ scored)
      /\ \A q \in DOMAIN rows : q # r => rows'[q] = rows[q]
  BY <1>1, <1>2, <1>3, ScoreWritten
<1>5. TableTypes'
  BY <1>3, <1>4 DEF TableTypes, Kept
<1>6. failed' \subseteq failed \cup {r}
  BY <1>3 DEF Fail
<1> QED BY <1>1, <1>4, <1>5, <1>6 DEF r, status, scored

(* The rows, in every step.                                                *)
LEMMA TableStep ==
  ASSUME SubmissionsAssumption, TypeOK, Next
  PROVE  /\ TableTypes' /\ failed' \subseteq DOMAIN rows' /\ failed \subseteq failed'
         /\ \/ Kept
            \/ /\ AutoInsert /\ Inserted(Head(auto.todo), "auto")
            \/ \E a \in ByHand : Submit(a) /\ Inserted(a, "hand")
<1>1. TableTypes /\ failed \subseteq DOMAIN rows /\ day \in 1..MaxDays
  BY DEF TypeOK, OtherTypes
<1>2. CASE \E a \in ByHand : Submit(a)
  <2>1. PICK a \in ByHand : Submit(a)
    BY <1>2
  <2>2. a \in Attempts \cup {NoAttempt} /\ Insert(a, "hand") /\ failed' = failed
    BY <2>1 DEF SubmissionsAssumption, Submit
  <2>3. TableTypes' /\ Inserted(a, "hand")
    BY <1>1, <2>2, InsertTypes
  <2>4. DOMAIN rows \subseteq DOMAIN rows'
    BY <1>1, <2>3, TableFacts DEF Tables, Inserted
  <2> QED BY <1>1, <2>1, <2>2, <2>3, <2>4
<1>3. CASE AutoInsert
  <2>1. Head(auto.todo) \in Attempts
    BY <1>3, HeadTailProperties DEF AutoInsert, TypeOK, AutoTypes
  <2>2. Insert(Head(auto.todo), "auto") /\ failed' = failed
    BY <1>3 DEF AutoInsert
  <2>3. TableTypes' /\ Inserted(Head(auto.todo), "auto")
    BY <1>1, <2>1, <2>2, InsertTypes
  <2>4. DOMAIN rows \subseteq DOMAIN rows'
    BY <1>1, <2>3, TableFacts DEF Tables, Inserted
  <2> QED BY <1>1, <1>3, <2>2, <2>3, <2>4
<1>4. CASE \E r \in DOMAIN rows : Thread(r)
  <2>1. PICK r \in DOMAIN rows : Thread(r)
    BY <1>4
  <2>2. TableTypes' /\ Kept /\ failed' \subseteq failed \cup {r}
    BY <1>1, <2>1, ThreadTypes
  <2>3. failed \subseteq failed'
    BY <2>1 DEF Thread, Begin, Upload, Submitted, Fails, ThreadRaises, Writes, Fail
  <2> QED BY <1>1, <2>2, <2>3 DEF Kept
<1>5. CASE \E p \in Refreshers : Write(p)
  <2>1. PICK p \in Refreshers : Write(p)
    BY <1>5
  <2>2. TableTypes' /\ Kept /\ refresh[p].row \in DOMAIN rows
        /\ failed' \subseteq failed \cup {refresh[p].row}
    BY <1>1, <2>1, WriteTypes DEF TypeOK
  <2>3. failed \subseteq failed'
    BY <2>1 DEF Write, Fail
  <2> QED BY <1>1, <2>2, <2>3 DEF Kept
<1>6. CASE Timeout \/ Expire
  <2> DEFINE aged(age, S) ==
        rows' = [r \in DOMAIN rows |-> IF r \in S THEN [rows[r] EXCEPT !.age = age] ELSE rows[r]]
  <2>1. thread' = thread /\ failed' = failed /\ \E age \in {"late", "stale"} : \E S : aged(age, S)
    BY <1>6 DEF Timeout, Expire, Become
  <2>2. PICK age \in {"late", "stale"} : \E S : aged(age, S)
    BY <2>1
  <2>3. PICK S : aged(age, S)
    BY <2>2
  <2>4. rows' \in Seq(Row) /\ Kept
    BY <1>1, <2>3, AgeWritten
  <2>5. TableTypes'
    BY <1>1, <2>1, <2>4 DEF TableTypes, Kept
  <2> QED BY <1>1, <2>1, <2>4, <2>5 DEF Kept
<1>7. CASE Crash
  <2>1. rows' = rows /\ failed' = failed /\ thread' = [r \in DOMAIN thread |-> "over"]
    BY <1>7 DEF Crash
  <2>2. Kept
    BY <2>1 DEF Kept
  <2>3. DOMAIN thread = 1..Len(rows) /\ Len(rows) \in Nat
    BY <1>1, TableFacts DEF Tables
  <2> DEFINE At == {"spawned", "over"} \cup Unsent \cup Sent
  <2>4. thread' \in [1..Len(rows) -> At]
    BY <2>1, <2>3
  <2>5. thread' \in Seq(At) /\ Len(thread') = Len(rows)
    BY <2>3, <2>4, SeqDef, LenProperties
  <2>6. \A q \in DOMAIN thread' : thread'[q] # "fitted"
    BY <2>1
  <2>7. TableTypes'
    BY <1>1, <2>1, <2>5, <2>6 DEF TableTypes
  <2> QED BY <1>1, <2>1, <2>2, <2>7
<1>8. CASE /\ UNCHANGED <<rows, thread, failed>>
  BY <1>1, <1>8 DEF TableTypes, Kept
<1>9. \/ \E a \in ByHand : Submit(a)
      \/ AutoInsert
      \/ \E r \in DOMAIN rows : Thread(r)
      \/ \E p \in Refreshers : Write(p)
      \/ Timeout \/ Expire \/ Crash
      \/ UNCHANGED <<rows, thread, failed>>
  BY DEF Next, AutoSubmit, AutoStart, AutoPick, AutoBest, AutoLast, AutoNext, AutoRaises,
         SweepPolls, ApiPolls, Polls, Refresh, Detect, Isolate, Pause, Raises, Confirm,
         Grade, Drop, Midnight
<1> QED BY <1>2, <1>3, <1>4, <1>5, <1>6, <1>7, <1>8, <1>9

(* What Kaggle, the cache and the pipelines hold.                          *)
LEMMA OutsideStep ==
  ASSUME SubmissionsAssumption, TypeOK, Next
  PROVE  OutsideTypes'
<1>1. OutsideTypes /\ TableTypes /\ day \in 1..MaxDays
  BY DEF TypeOK, OtherTypes
<1>2. uploads' \in Seq(Sending)
  <2>1. CASE \E r \in DOMAIN rows : Upload(r)
    <3>1. PICK r \in DOMAIN rows : Upload(r)
      BY <2>1
    <3> DEFINE new == [message |-> Message(r), grade |-> "pending", day |-> day, listed |-> TRUE]
    <3>2. Message(r) \in {"auto", "hand"} \X (Attempts \cup {NoAttempt})
      BY <1>1, RowFacts DEF Message
    <3>3. new \in Sending
      BY <1>1, <3>2 DEF Sending
    <3>4. uploads' = Append(uploads, new)
      BY <3>1 DEF Upload
    <3> HIDE DEF new
    <3> QED BY <1>1, <3>3, <3>4, AppendProperties DEF OutsideTypes
  <2>2. CASE \E u \in DOMAIN uploads : Grade(u)
    <3>1. PICK u \in DOMAIN uploads, g \in Grades : uploads' = [uploads EXCEPT ![u].grade = g]
      BY <2>2 DEF Grade
    <3>2. uploads \in Seq(Sending) /\ uploads[u] \in Sending
      BY <1>1, ElementOfSeq, LenProperties DEF OutsideTypes
    <3> DEFINE new == [uploads[u] EXCEPT !.grade = g]
    <3>3. new \in Sending
      BY <3>2 DEF Sending
    <3>4. uploads' = [uploads EXCEPT ![u] = new]
      BY <3>1
    <3> HIDE DEF new
    <3> QED BY <3>2, <3>3, <3>4, Updated
  <2>3. CASE \E u \in DOMAIN uploads : Drop(u)
    <3>1. PICK u \in DOMAIN uploads : uploads' = [uploads EXCEPT ![u].listed = FALSE]
      BY <2>3 DEF Drop
    <3>2. uploads \in Seq(Sending) /\ uploads[u] \in Sending
      BY <1>1, ElementOfSeq, LenProperties DEF OutsideTypes
    <3> DEFINE new == [uploads[u] EXCEPT !.listed = FALSE]
    <3>3. new \in Sending
      BY <3>2 DEF Sending
    <3>4. uploads' = [uploads EXCEPT ![u] = new]
      BY <3>1
    <3> HIDE DEF new
    <3> QED BY <3>2, <3>3, <3>4, Updated
  <2>4. CASE UNCHANGED uploads
    BY <1>1, <2>4 DEF OutsideTypes
  <2>5. \/ \E r \in DOMAIN rows : Upload(r)
        \/ \E u \in DOMAIN uploads : Grade(u)
        \/ \E u \in DOMAIN uploads : Drop(u)
        \/ UNCHANGED uploads
    BY DEF Next, AutoSubmit, AutoStart, AutoPick, AutoBest, AutoLast, AutoNext, AutoInsert, AutoRaises,
           SweepPolls, ApiPolls, Polls, Refresh, Write, Detect, Isolate, Pause, Raises, Confirm,
           Midnight, Submit, Thread, Begin, Submitted, Fails, ThreadRaises, Crash, Timeout,
           Expire, Become
  <2> QED BY <2>1, <2>2, <2>3, <2>4, <2>5
<1>3. cached' \subseteq Attempts
  <2>1. CASE \E r \in DOMAIN rows : Submitted(r)
    <3>1. PICK r \in DOMAIN rows : Submitted(r)
      BY <2>1
    <3>2. rows[r].attempt \in Attempts \cup {NoAttempt}
      BY <1>1, RowFacts
    <3> QED BY <1>1, <3>1, <3>2 DEF Submitted, OutsideTypes
  <2>2. CASE UNCHANGED cached
    BY <1>1, <2>2 DEF OutsideTypes
  <2>3. (\E r \in DOMAIN rows : Submitted(r)) \/ UNCHANGED cached
    BY DEF Next, AutoSubmit, AutoStart, AutoPick, AutoBest, AutoLast, AutoNext, AutoInsert, AutoRaises,
           SweepPolls, ApiPolls, Polls, Refresh, Write, Detect, Isolate, Pause, Raises, Confirm,
           Midnight, Submit, Thread, Begin, Upload, Fails, ThreadRaises, Crash, Timeout,
           Expire, Become, Grade, Drop
  <2> QED BY <2>1, <2>2, <2>3
<1>4. confirmed \subseteq confirmed' /\ confirmed' \subseteq Attempts
  <2>1. (\E a \in Attempts : Confirm(a)) \/ UNCHANGED confirmed
    BY DEF Next, AutoSubmit, AutoStart, AutoPick, AutoBest, AutoLast, AutoNext, AutoInsert, AutoRaises,
           SweepPolls, ApiPolls, Polls, Refresh, Write, Detect, Isolate, Pause, Raises,
           Midnight, Submit, Thread, Begin, Upload, Submitted, Fails, ThreadRaises, Crash, Timeout,
           Expire, Become, Grade, Drop
  <2> QED BY <1>1, <2>1 DEF Confirm, OutsideTypes
<1>5. isolated' \subseteq confirmed /\ paused' \in BOOLEAN
  <2>1. \/ \E p \in Refreshers : Isolate(p) \/ Pause(p)
        \/ UNCHANGED gate
    BY DEF Next, AutoSubmit, AutoStart, AutoPick, AutoBest, AutoLast, AutoNext, AutoInsert, AutoRaises,
           SweepPolls, ApiPolls, Polls, Refresh, Write, Detect, Raises, Confirm,
           Midnight, Submit, Thread, Begin, Upload, Submitted, Fails, ThreadRaises, Crash, Timeout,
           Expire, Become, Grade, Drop
  <2> QED BY <1>1, <2>1 DEF Isolate, Pause, OutsideTypes
<1> QED BY <1>2, <1>3, <1>4, <1>5 DEF OutsideTypes

(* What _unsubmitted_confirmed returns.                                    *)
LEMMA FirstOfFacts ==
  ASSUME NEW n \in Nat, NEW s \in FirstOf(n), OutsideTypes
  PROVE  s \in Seq(Attempts) /\ Len(s) = n
<1>1. s \in [1..n -> Attempts]
  BY DEF FirstOf, Unsubmitted, Submittable, OutsideTypes
<1> QED BY <1>1, SeqDef, LenProperties

(* The lesser of two numbers.                                              *)
LEMMA LeastFacts ==
  ASSUME NEW m \in Nat, NEW n \in Nat
  PROVE  Least(m, n) \in Nat /\ Least(m, n) <= m /\ (m > 0 /\ n > 0 => Least(m, n) > 0)
BY DEF Least

(* There are finitely many rows.                                           *)
LEMMA FiniteRows ==
  ASSUME TableTypes, NEW S \in SUBSET DOMAIN rows
  PROVE  IsFiniteSet(S) /\ Cardinality(S) \in Nat
<1>1. Len(rows) \in Nat /\ DOMAIN rows = 1..Len(rows)
  BY TableFacts DEF Tables
<1>2. IsFiniteSet(DOMAIN rows)
  BY <1>1, FS_Interval
<1> QED BY <1>2, FS_Subset, FS_CardinalityType

(* What the handler is about to insert.                                    *)
LEMMA AutoStep ==
  ASSUME SubmissionsAssumption, TypeOK, Next
  PROVE  AutoTypes'
<1> DEFINE Ats == {"idle", "pick", "best", "last", "insert"}
           Handler == [at : Ats, left : 0..PerDay, todo : Seq(Attempts)]
<1>1. /\ auto \in Handler /\ TableTypes /\ OutsideTypes /\ PerDay \in Nat
      /\ IsFiniteSet(Attempts)
  BY DEF TypeOK, AutoTypes, SubmissionsAssumption
<1>2. auto.at \in Ats /\ auto.left \in 0..PerDay /\ auto.todo \in Seq(Attempts)
  BY <1>1
<1>3. CASE auto' = NoAuto
  <2>1. NoAuto \in Handler /\ NoAuto.at = "idle"
    BY <1>1 DEF NoAuto
  <2> QED BY <1>3, <2>1 DEF AutoTypes
<1>4. CASE AutoStart
  <2>1. Cardinality(SpentToday) \in Nat /\ Cardinality(SpentToday) < PerDay
    BY <1>1, <1>4, FiniteRows DEF SpentToday, AutoStart
  <2> DEFINE left == PerDay - Cardinality(SpentToday)
  <2>2. left \in 0..PerDay /\ left # 0
    BY <1>1, <2>1
  <2>3. auto' = [auto EXCEPT !.at = "pick", !.left = left]
    BY <1>4 DEF AutoStart, AutoNext
  <2> HIDE DEF left
  <2>4. auto' \in Handler /\ auto'.at = "pick" /\ auto'.left = left
    BY <1>1, <2>2, <2>3
  <2> QED BY <2>2, <2>4 DEF AutoTypes
<1>5. CASE AutoPick
  <2>1. CASE auto' = [auto EXCEPT !.at = "best"]
    <3>1. auto' \in Handler /\ auto'.at = "best"
      BY <1>1, <2>1
    <3> QED BY <3>1 DEF AutoTypes
  <2>2. CASE \E s \in FirstOf(Least(auto.left, Cardinality(Unsubmitted))) :
               Unsubmitted # {} /\ auto' = [auto EXCEPT !.at = "insert", !.todo = s]
    <3> DEFINE n == Least(auto.left, Cardinality(Unsubmitted))
    <3>1. IsFiniteSet(Unsubmitted)
      BY <1>1, FS_Subset DEF Unsubmitted, Submittable, OutsideTypes
    <3>2. Cardinality(Unsubmitted) \in Nat /\ Cardinality(Unsubmitted) > 0
      BY <2>2, <3>1, FS_CardinalityType, FS_EmptySet
    <3>9. auto.left # 0
      BY <1>5 DEF AutoPick, TypeOK, AutoTypes
    <3>3. auto.left \in Nat /\ auto.left > 0
      BY <1>1, <1>2, <3>9
    <3>4. n \in Nat /\ n > 0
      BY <3>2, <3>3, LeastFacts
    <3> HIDE DEF n
    <3>5. PICK s \in FirstOf(n) : auto' = [auto EXCEPT !.at = "insert", !.todo = s]
      BY <2>2 DEF n
    <3>6. s \in Seq(Attempts) /\ s # <<>>
      BY <1>1, <3>4, FirstOfFacts
    <3>7. auto' \in Handler /\ auto'.at = "insert" /\ auto'.todo = s
      BY <1>1, <3>5, <3>6
    <3> QED BY <3>6, <3>7 DEF AutoTypes
  <2> QED BY <1>5, <2>1, <2>2 DEF AutoPick, AutoNext
<1>6. CASE \E a \in Attempts : auto' = [auto EXCEPT !.at = "last", !.todo = <<a>>]
  <2>1. PICK a \in Attempts : auto' = [auto EXCEPT !.at = "last", !.todo = <<a>>]
    BY <1>6
  <2>2. <<a>> \in Seq(Attempts) /\ <<a>> # <<>>
    OBVIOUS
  <2>3. auto' \in Handler /\ auto'.at = "last" /\ auto'.todo = <<a>>
    BY <1>1, <2>1, <2>2
  <2> QED BY <2>2, <2>3 DEF AutoTypes
<1>7. CASE AutoLast /\ auto' = [auto EXCEPT !.at = "insert"]
  <2>1. auto.todo # <<>>
    BY <1>7 DEF AutoLast, TypeOK, AutoTypes
  <2>2. auto' \in Handler /\ auto'.at = "insert" /\ auto'.todo = auto.todo
    BY <1>1, <1>7
  <2> QED BY <2>1, <2>2 DEF AutoTypes
<1>8. CASE AutoInsert /\ Len(auto.todo) # 1 /\ auto' = [auto EXCEPT !.todo = Tail(@)]
  <2>1. auto.todo # <<>> /\ auto.at = "insert"
    BY <1>8 DEF AutoInsert, TypeOK, AutoTypes
  <2>2. Tail(auto.todo) \in Seq(Attempts) /\ Len(Tail(auto.todo)) = Len(auto.todo) - 1
    BY <1>2, <2>1, HeadTailProperties
  <2>3. Len(Tail(auto.todo)) # 0 /\ Len(<<>>) = 0
    BY <1>2, <1>8, <2>2, LenProperties, EmptySeq
  <2>4. auto' \in Handler /\ auto'.at = "insert" /\ auto'.todo = Tail(auto.todo)
    BY <1>1, <1>8, <2>1, <2>2
  <2>5. auto'.todo # <<>>
    BY <2>3, <2>4
  <2> QED BY <2>4, <2>5 DEF AutoTypes
<1>9. CASE UNCHANGED auto
  BY <1>9 DEF TypeOK, AutoTypes
<1>10. \/ AutoStart \/ AutoPick
       \/ \E a \in Attempts : auto' = [auto EXCEPT !.at = "last", !.todo = <<a>>]
       \/ AutoLast /\ auto' = [auto EXCEPT !.at = "insert"]
       \/ AutoInsert /\ Len(auto.todo) # 1 /\ auto' = [auto EXCEPT !.todo = Tail(@)]
       \/ auto' = NoAuto \/ UNCHANGED auto
  <2>1. CASE AutoBest
    BY <2>1 DEF AutoBest, AutoNext
  <2>2. CASE AutoLast
    BY <2>2 DEF AutoLast, AutoNext
  <2>3. CASE AutoInsert
    BY <2>3 DEF AutoInsert
  <2>4. CASE AutoStart \/ AutoPick \/ AutoRaises
    BY <2>4 DEF AutoRaises
  <2>5. CASE ~AutoSubmit
    BY <2>5 DEF Next, SweepPolls, ApiPolls, Polls, Refresh, Write, Detect, Isolate, Pause, Raises,
           Confirm, Midnight, Submit, Thread, Begin, Upload, Submitted, Fails, ThreadRaises,
           Crash, Timeout, Expire, Become, Grade, Drop
  <2> QED BY <2>1, <2>2, <2>3, <2>4, <2>5 DEF AutoSubmit
<1> QED BY <1>3, <1>4, <1>5, <1>6, <1>7, <1>8, <1>9, <1>10

(* The answer a poll brings back.                                          *)
LEMMA VerdictFacts ==
  ASSUME SubmissionsAssumption, TypeOK, NEW r \in DOMAIN rows, Verdict(r) # "pending"
  PROVE  Verdict(r) \in Answers /\ Verdict(r) # "none"
<1> DEFINE found == {u \in DOMAIN uploads : uploads[u].message = Message(r) /\ uploads[u].listed}
<1>1. ASSUME found # {}
      PROVE  uploads[Max(found)].grade \in {"pending"} \cup Grades
  <2>1. uploads \in Seq(Sending) /\ Len(uploads) \in Nat /\ DOMAIN uploads = 1..Len(uploads)
    BY LenProperties DEF TypeOK, OutsideTypes
  <2>2. found \in SUBSET Nat /\ \A u \in found : u <= Len(uploads)
    BY <2>1
  <2> DEFINE top == Max(found)
  <2>3. top \in DOMAIN uploads
    <3> HIDE DEF found
    <3>1. top \in found
      BY <1>1, <2>1, <2>2, HasMax
    <3> QED BY <3>1 DEF found
  <2> HIDE DEF top
  <2>4. uploads[top] \in Sending
    BY <2>1, <2>3, ElementOfSeq
  <2>5. uploads[top].grade \in {"pending"} \cup Grades
    BY <2>4 DEF Sending
  <2> QED BY <2>5 DEF top
<1>2. KaggleSays(r) \in {"not_found", "pending"} \cup Grades
  BY <1>1 DEF KaggleSays
<1> QED BY <1>2 DEF Verdict, Answers, SubmissionsAssumption

(* One call of refresh_submission_row, in every step.                      *)
Asked(p) ==
  /\ refresh[p].at = "idle"
  /\ \E r \in DOMAIN rows :
       /\ Verdict(r) # "pending"
       /\ refresh'[p] = [at |-> "write", row |-> r, got |-> Verdict(r)]

Ends(p) ==
  \/ Fault \/ Write(p) \/ Pause(p)
  \/ Detect(p) /\ ~(Divergences(Chain(refresh[p].row)) >= 2)

Moves(p) ==
  \/ refresh'[p] = refresh[p]
  \/ refresh'[p] = Quiet /\ Ends(p)
  \/ Asked(p)
  \/ Write(p) /\ refresh[p].got = "complete" /\ rows[refresh[p].row].attempt # NoAttempt
     /\ refresh'[p] = [refresh[p] EXCEPT !.at = "detect"]
  \/ Detect(p) /\ Divergences(Chain(refresh[p].row)) >= 2
     /\ refresh'[p] = [refresh[p] EXCEPT !.at = "isolate"]
  \/ Isolate(p) /\ refresh'[p] = [refresh[p] EXCEPT !.at = "pause"]

(* A call moves in one of these ways only.                                 *)
LEMMA RefreshMoves ==
  ASSUME SubmissionsAssumption, TypeOK, Next, NEW p \in Refreshers
  PROVE  Moves(p)
<1>1. refresh \in [Refreshers -> [at : {"idle", "write", "detect", "isolate", "pause"},
                                  row : Nat, got : Answers]]
  BY DEF TypeOK, RefreshTypes
<1>2. CASE \E q \in Refreshers : \E r \in DOMAIN rows : Polls(q, r)
  <2>1. PICK q \in Refreshers, r \in DOMAIN rows : Polls(q, r)
    BY <1>2
  <2>2. CASE p = q
    BY <1>1, <2>1, <2>2 DEF Polls, Asked, Moves
  <2>3. CASE p # q
    BY <1>1, <2>1, <2>3 DEF Polls, Moves
  <2> QED BY <2>2, <2>3
<1>3. CASE \E q \in Refreshers : Write(q)
  <2>1. PICK q \in Refreshers : Write(q)
    BY <1>3
  <2>2. CASE p # q
    <3>1. refresh'[p] = refresh[p]
      BY <1>1, <2>1, <2>2 DEF Write
    <3> QED BY <3>1 DEF Moves, Ends
  <2>3. CASE p = q
    <3>1. CASE refresh[p].got = "complete" /\ rows[refresh[p].row].attempt # NoAttempt
      <4>1. refresh'[p] = [refresh[p] EXCEPT !.at = "detect"]
        BY <1>1, <2>1, <2>3, <3>1 DEF Write
      <4> QED BY <2>1, <2>3, <3>1, <4>1 DEF Moves, Ends
    <3>2. CASE ~(refresh[p].got = "complete" /\ rows[refresh[p].row].attempt # NoAttempt)
      <4>1. refresh'[p] = Quiet
        BY <1>1, <2>1, <2>3, <3>2 DEF Write
      <4> QED BY <2>1, <2>3, <4>1 DEF Moves, Ends
    <3> QED BY <3>1, <3>2
  <2> QED BY <2>2, <2>3
<1>4. CASE \E q \in Refreshers : Detect(q)
  <2>1. PICK q \in Refreshers : Detect(q)
    BY <1>4
  <2>2. CASE p # q
    BY <1>1, <2>1, <2>2 DEF Detect, Moves
  <2>3. CASE p = q
    <3>1. CASE Divergences(Chain(refresh[p].row)) >= 2
      <4>1. refresh'[p] = [refresh[p] EXCEPT !.at = "isolate"]
        BY <1>1, <2>1, <2>3, <3>1 DEF Detect
      <4> QED BY <2>1, <2>3, <3>1, <4>1 DEF Moves, Ends
    <3>2. CASE ~(Divergences(Chain(refresh[p].row)) >= 2)
      <4>1. refresh'[p] = Quiet
        BY <1>1, <2>1, <2>3, <3>2 DEF Detect
      <4> QED BY <2>1, <2>3, <3>2, <4>1 DEF Moves, Ends
    <3> QED BY <3>1, <3>2
  <2> QED BY <2>2, <2>3
<1>5. CASE \E q \in Refreshers : Isolate(q)
  BY <1>1, <1>5 DEF Isolate, Moves
<1>6. CASE \E q \in Refreshers : Pause(q) \/ Raises(q)
  <2>1. PICK q \in Refreshers : Pause(q) \/ Raises(q)
    BY <1>6
  <2>2. CASE p # q
    BY <1>1, <2>1, <2>2 DEF Pause, Raises, Moves, Ends
  <2>3. CASE p = q
    <3>1. refresh'[p] = Quiet /\ (Pause(p) \/ Fault)
      BY <1>1, <2>1, <2>3 DEF Pause, Raises
    <3> QED BY <3>1 DEF Moves, Ends
  <2> QED BY <2>2, <2>3
<1>7. CASE Crash
  BY <1>7 DEF Crash, Moves, Ends
<1>8. CASE UNCHANGED refresh
  BY <1>8 DEF Moves, Ends
<1>9. \/ \E q \in Refreshers : \E r \in DOMAIN rows : Polls(q, r)
      \/ \E q \in Refreshers : Write(q)
      \/ \E q \in Refreshers : Detect(q)
      \/ \E q \in Refreshers : Isolate(q)
      \/ \E q \in Refreshers : Pause(q) \/ Raises(q)
      \/ Crash \/ UNCHANGED refresh
  <2>1. CASE \E r \in DOMAIN rows : SweepPolls(r) \/ ApiPolls(r)
    BY <2>1 DEF SweepPolls, ApiPolls, SubmissionsAssumption, TypeOK, RefreshTypes
  <2>2. CASE \E q \in Refreshers : Refresh(q)
    BY <2>2 DEF Refresh
  <2>3. CASE /\ ~\E r \in DOMAIN rows : SweepPolls(r) \/ ApiPolls(r)
             /\ ~\E q \in Refreshers : Refresh(q)
    BY <2>3 DEF Next, AutoSubmit, AutoStart, AutoPick, AutoBest, AutoLast, AutoNext, AutoInsert,
           AutoRaises, Confirm, Midnight, Submit, Thread, Begin, Upload, Submitted, Fails,
           ThreadRaises, Timeout, Expire, Become, Grade, Drop
  <2> QED BY <2>1, <2>2, <2>3
<1> QED BY <1>2, <1>3, <1>4, <1>5, <1>6, <1>7, <1>8, <1>9

(* Rows are never deleted.                                                 *)
LEMMA RowsStay ==
  ASSUME SubmissionsAssumption, TypeOK, Next
  PROVE  DOMAIN rows \subseteq DOMAIN rows'
<1>1. Len(rows) \in Nat /\ DOMAIN rows = 1..Len(rows)
  BY TableFacts DEF Tables, TypeOK
<1>2. CASE Kept
  BY <1>2 DEF Kept
<1>3. CASE \E a, by : Inserted(a, by)
  BY <1>1, <1>3 DEF Inserted
<1> QED BY <1>2, <1>3, TableStep

(* A call asks about a row that is there.                                  *)
LEMMA RefreshStep ==
  ASSUME SubmissionsAssumption, TypeOK, Next
  PROVE  RefreshTypes'
<1> DEFINE Call == [at : {"idle", "write", "detect", "isolate", "pause"},
                    row : Nat, got : Answers]
<1>1. refresh \in [Refreshers -> Call] /\ TableTypes
  BY DEF TypeOK, RefreshTypes
<1>2. DOMAIN rows \subseteq DOMAIN rows'
  BY RowsStay
<1>3. ASSUME NEW p \in Refreshers
      PROVE  /\ refresh'[p] \in Call
             /\ refresh'[p].at # "idle" => /\ refresh'[p].row \in DOMAIN rows
                                           /\ refresh'[p].got # "none"
  <2>1. /\ refresh[p] \in Call
        /\ refresh[p].at # "idle" => refresh[p].row \in DOMAIN rows /\ refresh[p].got # "none"
    BY <1>1 DEF TypeOK, RefreshTypes
  <2>2. CASE refresh'[p] = refresh[p]
    BY <2>1, <2>2
  <2>3. CASE refresh'[p] = Quiet
    BY <2>3 DEF Quiet, Answers
  <2>4. CASE Asked(p)
    <3>1. PICK r \in DOMAIN rows : /\ Verdict(r) # "pending"
                                   /\ refresh'[p] = [at |-> "write", row |-> r, got |-> Verdict(r)]
      BY <2>4 DEF Asked
    <3>2. Verdict(r) \in Answers /\ Verdict(r) # "none" /\ r \in Nat
      BY <1>1, <3>1, VerdictFacts, RowFacts
    <3> QED BY <3>1, <3>2
  <2>5. CASE /\ refresh[p].at # "idle"
             /\ \E at \in {"detect", "isolate", "pause"} :
                  refresh'[p] = [refresh[p] EXCEPT !.at = at]
    BY <2>1, <2>5
  <2>6. Moves(p)
    BY RefreshMoves
  <2>7. Write(p) \/ Detect(p) \/ Isolate(p) => refresh[p].at # "idle"
    BY DEF Write, Detect, Isolate
  <2> QED BY <2>2, <2>3, <2>4, <2>5, <2>6, <2>7 DEF Moves, Ends
<1>4. DOMAIN refresh' = Refreshers /\ refresh' = [p \in Refreshers |-> refresh'[p]]
  BY <1>1 DEF Next, AutoSubmit, AutoStart, AutoPick, AutoBest, AutoLast, AutoNext, AutoInsert,
         AutoRaises, SweepPolls, ApiPolls, Polls, Refresh, Write, Detect, Isolate, Pause, Raises,
         Confirm, Midnight, Submit, Thread, Begin, Upload, Submitted, Fails,
         ThreadRaises, Crash, Timeout, Expire, Become, Grade, Drop
<1>5. refresh' \in [Refreshers -> Call]
  BY <1>3, <1>4
<1> QED BY <1>2, <1>3, <1>5 DEF RefreshTypes

(* A day, a fault more.                                                    *)
LEMMA OtherStep ==
  ASSUME SubmissionsAssumption, TypeOK, Next
  PROVE  /\ OtherTypes' /\ faults <= faults' /\ (disordered => disordered')
         /\ Midnight \/ UNCHANGED day
<1>1. /\ day \in 1..MaxDays /\ faults \in 0..MaxFaults /\ disordered \in BOOLEAN
      /\ MaxFaults \in Nat /\ MaxDays \in Nat
  BY DEF TypeOK, OtherTypes, SubmissionsAssumption
<1>2. Midnight \/ UNCHANGED day
  BY DEF Next, AutoSubmit, AutoStart, AutoPick, AutoBest, AutoLast, AutoNext, AutoInsert,
         AutoRaises, SweepPolls, ApiPolls, Polls, Refresh, Write, Detect, Isolate, Pause, Raises,
         Confirm, Submit, Thread, Begin, Upload, Submitted, Fails,
         ThreadRaises, Crash, Timeout, Expire, Become, Grade, Drop
<1>3. day' \in 1..MaxDays
  BY <1>1, <1>2 DEF Midnight
<1>4. Fault \/ UNCHANGED faults
  BY DEF Next, AutoSubmit, AutoStart, AutoPick, AutoBest, AutoLast, AutoNext, AutoInsert,
         AutoRaises, SweepPolls, ApiPolls, Polls, Refresh, Write, Detect, Isolate, Pause, Raises,
         Confirm, Midnight, Submit, Thread, Begin, Upload, Submitted, Fails,
         ThreadRaises, Crash, Timeout, Expire, Become, Grade, Drop
<1>5. faults' \in 0..MaxFaults /\ faults <= faults'
  BY <1>1, <1>4 DEF Fault
<1>6. \/ UNCHANGED disordered
      \/ \E r \in DOMAIN rows : Begin(r) \/ Submitted(r) \/ Fails(r)
      \/ \E p \in Refreshers : Write(p)
  BY DEF Next, AutoSubmit, AutoStart, AutoPick, AutoBest, AutoLast, AutoNext, AutoInsert,
         AutoRaises, SweepPolls, ApiPolls, Polls, Refresh, Detect, Isolate, Pause, Raises,
         Confirm, Midnight, Submit, Thread, Upload, ThreadRaises, Crash, Timeout, Expire, Become,
         Grade, Drop
<1>7. disordered' \in BOOLEAN /\ (disordered => disordered')
  BY <1>1, <1>6 DEF Begin, Submitted, Fails, Writes, Write
<1>8. failed' \subseteq DOMAIN rows'
  BY TableStep
<1> QED BY <1>2, <1>3, <1>5, <1>7, <1>8 DEF OtherTypes

(* Every step keeps the types.                                             *)
LEMMA TypeStep ==
  ASSUME SubmissionsAssumption, TypeOK, [Next]_vars
  PROVE  TypeOK'
<1>1. CASE Next
  BY <1>1, TableStep, OutsideStep, AutoStep, RefreshStep, OtherStep DEF TypeOK
<1>2. CASE UNCHANGED vars
  BY <1>2 DEF vars, TypeOK, TableTypes, OutsideTypes, AutoTypes, RefreshTypes, OtherTypes
<1> QED BY <1>1, <1>2

(* The types at the start.                                                 *)
LEMMA TypeInit ==
  ASSUME SubmissionsAssumption, Init PROVE TypeOK
<1>1. TableTypes
  BY EmptySeq DEF Init, TableTypes, SubmissionsAssumption
<1>2. OutsideTypes
  BY EmptySeq DEF Init, OutsideTypes, SubmissionsAssumption
<1>3. AutoTypes
  BY EmptySeq DEF Init, AutoTypes, NoAuto, SubmissionsAssumption
<1>4. RefreshTypes
  BY DEF Init, RefreshTypes, Quiet, Answers
<1>5. OtherTypes
  <2>1. day \in 1..MaxDays /\ faults \in 0..MaxFaults
    BY DEF Init, SubmissionsAssumption
  <2>2. failed = {} /\ disordered = FALSE
    BY DEF Init
  <2> QED BY <2>1, <2>2 DEF OtherTypes
<1> QED BY <1>1, <1>2, <1>3, <1>4, <1>5 DEF TypeOK

(* The types of all tables, handlers and calls, of the model of            *)
(* src/bin/api.py's submissions: every index is the row of somebody, the   *)
(* fit slot has one holder, the handler's list is never empty where its    *)
(* first element is taken.                                                 *)
THEOREM SubmissionsTypeOK == Spec => []TypeOK
<1>1. Init => TypeOK
  BY TypeInit, SubmissionsAssumption
<1>2. TypeOK /\ [Next]_vars => TypeOK'
  BY TypeStep, SubmissionsAssumption
<1> QED BY <1>1, <1>2, PTL DEF Spec

-----------------------------------------------------------------------------
(* The budget of a day.                                                    *)

(* What is spent of a day can be counted.                                  *)
LEMMA SpentFacts ==
  ASSUME TableTypes, NEW d
  PROVE  IsFiniteSet(Spent(d)) /\ Cardinality(Spent(d)) \in Nat
BY FiniteRows DEF Spent

(* A status says error only of a row that is in `failed'.                  *)
LEMMA ErrorsFail ==
  ASSUME SubmissionsAssumption, TypeOK, Next, Kept, Dated,
         NEW r \in DOMAIN rows, rows'[r].status = "error"
  PROVE  r \in failed'
<1>1. TableTypes /\ failed \subseteq failed'
  BY TableStep DEF TypeOK
<1>2. rows[r].status = "error" => r \in failed'
  BY <1>1 DEF Dated
<1>3. CASE \E q \in DOMAIN rows : Begin(q) \/ Submitted(q) \/ Fails(q)
  <2>1. PICK q \in DOMAIN rows, s \in {"submitting", "submitted", "error"} : Writes(q, s)
    BY <1>3 DEF Begin, Submitted, Fails
  <2>2. s \in Statuses
    BY DEF Statuses, Terminal
  <2>3. rows'[q].status = s /\ \A j \in DOMAIN rows : j # q => rows'[j] = rows[j]
    BY <1>1, <2>1, <2>2, StatusWritten DEF Writes
  <2>4. s = "error" => q \in failed'
    BY <2>1 DEF Writes, Fail
  <2> QED BY <1>2, <2>3, <2>4
<1>4. CASE \E p \in Refreshers : Write(p)
  <2>1. PICK p \in Refreshers : Write(p)
    BY <1>4
  <2> DEFINE status == IF refresh[p].got = "unscored" THEN "complete" ELSE refresh[p].got
  <2>2. /\ rows'[refresh[p].row].status = status
        /\ \A j \in DOMAIN rows : j # refresh[p].row => rows'[j] = rows[j]
    BY <1>1, <2>1, WriteTypes DEF TypeOK
  <2>3. Fail(refresh[p].row, status)
    BY <2>1 DEF Write
  <2> HIDE DEF status
  <2>4. status = "error" => refresh[p].row \in failed'
    BY <2>3 DEF Fail
  <2> QED BY <1>2, <2>2, <2>4
<1>5. CASE Timeout \/ Expire
  <2>1. \E age \in {"late", "stale"} : \E S :
          rows' = [q \in DOMAIN rows |-> IF q \in S THEN [rows[q] EXCEPT !.age = age] ELSE rows[q]]
    BY <1>5 DEF Timeout, Expire, Become
  <2>2. rows'[r].status = rows[r].status
    BY <1>1, <2>1, AgeWritten
  <2> QED BY <1>2, <2>2
<1>6. CASE UNCHANGED rows
  BY <1>2, <1>6
<1>7. CASE \E a, by : Inserted(a, by)
  BY <1>1, <1>7, TableFacts DEF Kept, Inserted, Tables
<1>8. \/ \E q \in DOMAIN rows : Begin(q) \/ Submitted(q) \/ Fails(q)
      \/ \E p \in Refreshers : Write(p)
      \/ Timeout \/ Expire \/ UNCHANGED rows
      \/ \E a \in ByHand : Submit(a)
      \/ AutoInsert
  BY DEF Next, AutoSubmit, AutoStart, AutoPick, AutoBest, AutoLast, AutoNext,
         AutoRaises, SweepPolls, ApiPolls, Polls, Refresh, Detect, Isolate, Pause, Raises,
         Confirm, Midnight, Thread, Upload, ThreadRaises, Crash, Grade, Drop
<1>9. CASE AutoInsert \/ \E a \in ByHand : Submit(a)
  <2>1. PICK row : rows' = Append(rows, row)
    BY <1>9 DEF AutoInsert, Submit, Insert
  <2>2. Len(rows') = Len(rows) + 1 /\ Len(rows) \in Nat
    BY <1>1, <2>1, LenProperties DEF TableTypes
  <2> QED BY <2>2 DEF Kept
<1> QED BY <1>3, <1>4, <1>5, <1>6, <1>8, <1>9

(* Days and errors of the rows.                                            *)
LEMMA DatedStep ==
  ASSUME SubmissionsAssumption, TypeOK, Next, Dated
  PROVE  Dated'
<1>1. day \in Nat /\ day' \in Nat /\ day <= day'
  <2>1. day \in Nat
    BY DEF TypeOK, OtherTypes
  <2>2. day' = day \/ day' = day + 1
    BY OtherStep DEF Midnight
  <2> QED BY <2>1, <2>2
<1>2. TableTypes /\ Tables /\ \A r \in DOMAIN rows : rows[r].day \in Nat
  BY TableFacts, RowFacts DEF TypeOK
<1>3. CASE Kept
  <2>1. \A r \in DOMAIN rows' : rows'[r].day <= day'
    BY <1>1, <1>2, <1>3 DEF Kept, Dated
  <2>2. \A r \in DOMAIN rows' : rows'[r].status = "error" => r \in failed'
    BY <1>3, ErrorsFail DEF Kept
  <2> QED BY <2>1, <2>2 DEF Dated
<1>4. CASE \E a, by : Inserted(a, by)
  <2>1. PICK a, by : Inserted(a, by)
    BY <1>4
  <2>2. \A r \in DOMAIN rows' : \/ r \in DOMAIN rows /\ rows'[r] = rows[r]
                                \/ rows'[r].day = day /\ rows'[r].status = "queued"
    BY <1>2, <2>1 DEF Inserted, Tables
  <2>3. failed \subseteq failed'
    BY TableStep
  <2>4. \A r \in DOMAIN rows' : rows'[r].day <= day'
    BY <1>1, <1>2, <2>2 DEF Dated
  <2>5. \A r \in DOMAIN rows' : rows'[r].status = "error" => r \in failed'
    BY <2>2, <2>3 DEF Dated
  <2> QED BY <2>4, <2>5 DEF Dated
<1> QED BY <1>3, <1>4, TableStep

(* Nothing but an insertion by the handler adds to what is spent of a day. *)
LEMMA SpentStays ==
  ASSUME SubmissionsAssumption, TypeOK, Next, NEW d,
         Kept \/ \E a : Inserted(a, "hand")
  PROVE  Cardinality(Spent(d)') <= Cardinality(Spent(d))
<1>1. TableTypes /\ Tables /\ failed \subseteq failed'
  BY TableStep, TableFacts DEF TypeOK
<1>2. Spent(d)' \subseteq Spent(d)
  <2>1. CASE Kept
    BY <1>1, <2>1 DEF Kept, Spent
  <2>2. CASE \E a : Inserted(a, "hand")
    <3>1. PICK a : Inserted(a, "hand")
      BY <2>2
    <3>2. \A r \in DOMAIN rows' : \/ r \in DOMAIN rows /\ rows'[r] = rows[r]
                                  \/ rows'[r].by = "hand"
      BY <1>1, <3>1 DEF Inserted, Tables
    <3> QED BY <1>1, <3>2 DEF Spent
  <2> QED BY <2>1, <2>2
<1> QED BY <1>1, <1>2, SpentFacts, FS_Subset

(* An insertion by the handler spends one of the day.                      *)
LEMMA SpentGrows ==
  ASSUME SubmissionsAssumption, TypeOK, Next, NEW d, NEW a, Inserted(a, "auto")
  PROVE  /\ Cardinality(Spent(d)') <= Cardinality(Spent(d)) + 1
         /\ d # day => Cardinality(Spent(d)') <= Cardinality(Spent(d))
<1>1. TableTypes /\ Tables /\ failed \subseteq failed'
  BY TableStep, TableFacts DEF TypeOK
<1> DEFINE new == Len(rows) + 1
<1>2. \A r \in DOMAIN rows' : \/ r \in DOMAIN rows /\ rows'[r] = rows[r]
                              \/ r = new /\ rows'[r].day = day
  BY <1>1 DEF Inserted, Tables
<1>3. Spent(d)' \subseteq Spent(d) \cup {new} /\ (d # day => Spent(d)' \subseteq Spent(d))
  BY <1>1, <1>2 DEF Spent
<1>4. IsFiniteSet(Spent(d)) /\ Cardinality(Spent(d)) \in Nat
  BY <1>1, SpentFacts
<1>5. /\ IsFiniteSet(Spent(d) \cup {new})
      /\ Cardinality(Spent(d) \cup {new}) \in Nat
      /\ Cardinality(Spent(d) \cup {new}) <= Cardinality(Spent(d)) + 1
  <2>1. IsFiniteSet(Spent(d) \cup {new})
    BY <1>4, FS_AddElement
  <2>2. Cardinality(Spent(d) \cup {new}) \in {Cardinality(Spent(d)), Cardinality(Spent(d)) + 1}
    BY <1>4, FS_AddElement
  <2> QED BY <1>4, <2>1, <2>2
<1>6. Cardinality(Spent(d)') \in Nat /\ Cardinality(Spent(d)') <= Cardinality(Spent(d) \cup {new})
  BY <1>3, <1>5, FS_Subset, FS_CardinalityType
<1>7. Cardinality(Spent(d)') <= Cardinality(Spent(d)) + 1
  BY <1>4, <1>5, <1>6
<1>8. d # day => Cardinality(Spent(d)') <= Cardinality(Spent(d))
  BY <1>3, <1>4, FS_Subset
<1> QED BY <1>7, <1>8

(* What the handler decides between two insertions stays within the room.  *)
LEMMA RoomStep ==
  ASSUME SubmissionsAssumption, TypeOK, TypeOK', Next, Dated,
         NEW m \in Nat, NEW n \in Nat, Room(m), m <= PerDay, n <= m,
         m = Cardinality(Spent(day)), ~AutoInsert
  PROVE  Room(n)'
<1>1. /\ PerDay \in Nat /\ auto.left \in 0..PerDay /\ auto.todo \in Seq(Attempts)
      /\ Len(auto.todo) \in Nat /\ TableTypes /\ OutsideTypes /\ IsFiniteSet(Attempts)
  BY LenProperties DEF TypeOK, AutoTypes, SubmissionsAssumption
<1>2. auto' \in [at : {"idle", "pick", "best", "last", "insert"}, left : 0..PerDay,
                 todo : Seq(Attempts)]
      /\ auto \in [at : {"idle", "pick", "best", "last", "insert"}, left : 0..PerDay,
                 todo : Seq(Attempts)]
  BY DEF TypeOK, AutoTypes
<1>3. CASE auto' = NoAuto
  BY <1>3 DEF NoAuto, Room
<1>4. CASE AutoStart
  <2>1. Spent(day) \subseteq SpentToday
    BY DEF Spent, SpentToday, Dated
  <2>2. IsFiniteSet(SpentToday) /\ Cardinality(SpentToday) \in Nat
    BY <1>1, FiniteRows DEF SpentToday
  <2>3. m <= Cardinality(SpentToday)
    BY <2>1, <2>2, FS_Subset
  <2>4. auto'.at = "pick" /\ auto'.left = PerDay - Cardinality(SpentToday)
    BY <1>2, <1>4 DEF AutoStart, AutoNext
  <2>5. n + auto'.left <= PerDay
    BY <1>1, <2>2, <2>3, <2>4
  <2> QED BY <2>4, <2>5 DEF Room
<1>5. CASE AutoPick
  <2>1. m + auto.left <= PerDay /\ auto.left # 0
    BY <1>5 DEF Room, AutoPick, TypeOK, AutoTypes
  <2>2. CASE auto' = [auto EXCEPT !.at = "best"]
    <3>1. auto'.at = "best"
      BY <1>2, <2>2
    <3>2. n + 1 <= PerDay
      BY <1>1, <2>1
    <3> QED BY <3>1, <3>2 DEF Room
  <2>3. CASE \E s \in FirstOf(Least(auto.left, Cardinality(Unsubmitted))) :
               auto' = [auto EXCEPT !.at = "insert", !.todo = s]
    <3> DEFINE k == Least(auto.left, Cardinality(Unsubmitted))
    <3>1. IsFiniteSet(Unsubmitted)
      BY <1>1, FS_Subset DEF Unsubmitted, Submittable, OutsideTypes
    <3>2. Cardinality(Unsubmitted) \in Nat
      BY <3>1, FS_CardinalityType
    <3>8. auto.left \in Nat
      BY <1>1
    <3>3. k \in Nat /\ k <= auto.left
      BY <3>2, <3>8, LeastFacts
    <3> HIDE DEF k
    <3>4. PICK s \in FirstOf(k) : auto' = [auto EXCEPT !.at = "insert", !.todo = s]
      BY <2>3 DEF k
    <3>5. Len(s) = k
      BY <1>1, <3>3, FirstOfFacts
    <3>6. auto'.at = "insert" /\ auto'.todo = s
      BY <1>2, <3>4
    <3>7. n + Len(auto'.todo) <= PerDay
      BY <1>1, <2>1, <3>3, <3>5, <3>6
    <3> QED BY <3>6, <3>7 DEF Room
  <2> QED BY <1>5, <2>2, <2>3 DEF AutoPick, AutoNext
<1>6. CASE AutoBest /\ \E a \in Attempts : auto' = [auto EXCEPT !.at = "last", !.todo = <<a>>]
  <2>1. m + 1 <= PerDay
    BY <1>6 DEF Room, AutoBest
  <2>2. auto'.at = "last" /\ Len(auto'.todo) = 1
    BY <1>2, <1>6
  <2>3. n + 1 <= PerDay
    BY <1>1, <2>1
  <2> QED BY <2>2, <2>3 DEF Room
<1>7. CASE AutoLast /\ auto' = [auto EXCEPT !.at = "insert"]
  <2>1. m + 1 <= PerDay /\ Len(auto.todo) = 1
    BY <1>7 DEF Room, AutoLast
  <2>2. auto'.at = "insert" /\ auto'.todo = auto.todo
    BY <1>2, <1>7
  <2>3. n + 1 <= PerDay
    BY <1>1, <2>1
  <2>4. Len(auto'.todo) = 1
    BY <2>1, <2>2
  <2> QED BY <2>2, <2>3, <2>4 DEF Room
<1>8. CASE UNCHANGED auto
  <2>1. auto.at = "pick" => n + auto.left <= PerDay
    BY <1>1 DEF Room
  <2>2. auto.at \in {"best", "last"} => n + 1 <= PerDay
    BY <1>1 DEF Room
  <2>3. auto.at = "insert" => n + Len(auto.todo) <= PerDay
    BY <1>1 DEF Room
  <2>4. auto.at = "last" => Len(auto.todo) = 1
    BY DEF Room
  <2> QED BY <1>8, <2>1, <2>2, <2>3, <2>4 DEF Room
<1>9. \/ AutoStart \/ AutoPick
      \/ AutoBest /\ \E a \in Attempts : auto' = [auto EXCEPT !.at = "last", !.todo = <<a>>]
      \/ AutoLast /\ auto' = [auto EXCEPT !.at = "insert"]
      \/ auto' = NoAuto \/ UNCHANGED auto
  <2>1. CASE AutoBest
    BY <2>1 DEF AutoBest, AutoNext
  <2>2. CASE AutoLast
    BY <2>2 DEF AutoLast, AutoNext
  <2>3. CASE AutoStart \/ AutoPick \/ AutoRaises
    BY <2>3 DEF AutoRaises
  <2>4. CASE ~AutoSubmit
    BY <2>4 DEF Next, SweepPolls, ApiPolls, Polls, Refresh, Write, Detect, Isolate, Pause, Raises,
           Confirm, Midnight, Submit, Thread, Begin, Upload, Submitted, Fails, ThreadRaises,
           Crash, Timeout, Expire, Become, Grade, Drop
  <2> QED BY <2>1, <2>2, <2>3, <2>4 DEF AutoSubmit
<1> QED BY <1>3, <1>4, <1>5, <1>6, <1>7, <1>8, <1>9

(* A midnight leaves the whole of the new day.                             *)
LEMMA RoomOfADay ==
  ASSUME SubmissionsAssumption, TypeOK, Room(Cardinality(Spent(day))), Dated, Midnight
  PROVE  Room(Cardinality(Spent(day)))' /\ Cardinality(Spent(day)') = 0
<1>1. /\ PerDay \in Nat /\ PerDay > 0 /\ auto.left \in 0..PerDay
      /\ Len(auto.todo) \in Nat /\ TableTypes /\ day \in Nat
  BY LenProperties DEF TypeOK, AutoTypes, OtherTypes, SubmissionsAssumption
<1>2. Cardinality(Spent(day)) \in Nat
  BY <1>1, SpentFacts
<1>3. rows' = rows /\ auto' = auto /\ failed' = failed /\ day' = day + 1
  BY DEF Midnight
<1>4. \A r \in DOMAIN rows : rows[r].day # day'
  BY <1>1, <1>3, RowFacts DEF Dated
<1>5. Spent(day)' = {}
  BY <1>3, <1>4 DEF Spent
<1>6. Cardinality(Spent(day)') = 0
  BY <1>5, FS_EmptySet
<1>7. /\ auto.at = "pick" => 0 + auto.left <= PerDay
      /\ auto.at \in {"best", "last"} => 0 + 1 <= PerDay
  BY <1>1
<1>8. auto.at = "insert" => 0 + Len(auto.todo) <= PerDay
  BY <1>1, <1>2 DEF Room
<1>9. auto.at = "last" => Len(auto.todo) = 1
  BY DEF Room
<1> QED BY <1>3, <1>6, <1>7, <1>8, <1>9 DEF Room

(* An insertion by the handler takes what it had room for.                 *)
LEMMA RoomOfOne ==
  ASSUME SubmissionsAssumption, TypeOK, Next, AutoInsert,
         Room(Cardinality(Spent(day))), Inserted(Head(auto.todo), "auto")
  PROVE  /\ Room(Cardinality(Spent(day)))' /\ day' = day
         /\ Cardinality(Spent(day)) + 1 <= PerDay
<1>1. /\ PerDay \in Nat /\ auto.todo \in Seq(Attempts) /\ auto.todo # <<>>
      /\ Len(auto.todo) \in Nat /\ TableTypes /\ auto.at = "insert" /\ day' = day
      /\ auto \in [at : {"idle", "pick", "best", "last", "insert"}, left : 0..PerDay,
                   todo : Seq(Attempts)]
  BY LenProperties DEF TypeOK, AutoTypes, SubmissionsAssumption, AutoInsert
<1>2. Len(auto.todo) # 0
  BY <1>1, EmptySeq
<1>3. Cardinality(Spent(day)) \in Nat /\ Cardinality(Spent(day)) + Len(auto.todo) <= PerDay
  BY <1>1, SpentFacts DEF Room
<1>4. Cardinality(Spent(day)) + 1 <= PerDay
  BY <1>1, <1>2, <1>3
<1>5. Cardinality(Spent(day)') <= Cardinality(Spent(day)) + 1
  <2>1. PICK e : e = day
    OBVIOUS
  <2>2. Cardinality(Spent(e)') <= Cardinality(Spent(e)) + 1
    BY SpentGrows
  <2>3. Spent(e) = Spent(day) /\ Spent(e)' = Spent(day)'
    BY <1>1, <2>1 DEF Spent
  <2> QED BY <2>2, <2>3
<1>6. Cardinality(Spent(day)') \in Nat
  <2>1. TableTypes'
    BY TableStep
  <2>2. IsFiniteSet(DOMAIN rows')
    BY <2>1, FiniteTable DEF TableTypes
  <2>3. Spent(day)' \subseteq DOMAIN rows'
    BY DEF Spent
  <2> QED BY <2>2, <2>3, FS_Subset, FS_CardinalityType
<1>7. CASE auto' = NoAuto
  <2>1. auto'.at = "idle"
    BY <1>7 DEF NoAuto
  <2>2. Room(Cardinality(Spent(day)))'
    BY <2>1 DEF Room
  <2> QED BY <1>1, <1>4, <2>2
<1>8. CASE auto' = [auto EXCEPT !.todo = Tail(@)]
  <2>1. auto'.at = "insert" /\ auto'.todo = Tail(auto.todo)
    BY <1>1, <1>8
  <2>2. Len(Tail(auto.todo)) = Len(auto.todo) - 1
    BY <1>1, HeadTailProperties
  <2>3. Cardinality(Spent(day)') + (Len(auto.todo) - 1) <= PerDay
    BY <1>1, <1>3, <1>5, <1>6
  <2>4. (Cardinality(Spent(day)) + Len(auto.todo) <= PerDay)'
    BY <2>1, <2>2, <2>3
  <2>5. Room(Cardinality(Spent(day)))'
    BY <2>1, <2>4 DEF Room
  <2> QED BY <1>1, <1>4, <2>5
<1> QED BY <1>7, <1>8 DEF AutoInsert

(* Every step stays within the budget.                                     *)
LEMMA BudgetStep ==
  ASSUME SubmissionsAssumption, TypeOK, TypeOK', BudgetInv, [Next]_vars
  PROVE  BudgetInv'
<1>1. /\ \A d \in 1..MaxDays : Cardinality(Spent(d)) <= PerDay
      /\ Dated /\ Room(Cardinality(Spent(day)))
  BY DEF BudgetInv
<1>2. TableTypes /\ PerDay \in Nat /\ day \in 1..MaxDays /\ \A d : Cardinality(Spent(d)) \in Nat
  BY SpentFacts DEF TypeOK, OtherTypes, SubmissionsAssumption
<1>3. CASE Next
  <2>1. Dated'
    BY <1>1, <1>3, DatedStep
  <2>2. CASE AutoInsert
    <3>1. Inserted(Head(auto.todo), "auto")
      <4>1. ~Kept /\ ~\E a \in ByHand : Submit(a)
        <5>1. \E row : rows' = Append(rows, row) /\ row.by = "auto"
          BY <2>2 DEF AutoInsert, Insert
        <5>2. Len(rows') = Len(rows) + 1 /\ Len(rows) \in Nat /\ rows'[Len(rows) + 1].by = "auto"
          BY <1>2, <5>1, LenProperties DEF TableTypes
        <5>3. (\E a \in ByHand : Submit(a)) => rows'[Len(rows) + 1].by = "hand"
          BY <1>2, LenProperties DEF TableTypes, Submit, Insert
        <5> QED BY <5>2, <5>3 DEF Kept
      <4> QED BY <1>3, <4>1, TableStep
    <3>2. /\ Room(Cardinality(Spent(day)))' /\ day' = day
          /\ Cardinality(Spent(day)) + 1 <= PerDay
      BY <1>1, <1>3, <2>2, <3>1, RoomOfOne
    <3>3. ASSUME NEW d \in 1..MaxDays
          PROVE  Cardinality(Spent(d)') <= PerDay
      <4>1. /\ Cardinality(Spent(d)') <= Cardinality(Spent(d)) + 1
            /\ d # day => Cardinality(Spent(d)') <= Cardinality(Spent(d))
        BY <1>3, <3>1, SpentGrows
      <4>2. Cardinality(Spent(d)') \in Nat
        <5>1. IsFiniteSet(DOMAIN rows')
          BY FiniteTable DEF TypeOK, TableTypes
        <5>2. Spent(d)' \subseteq DOMAIN rows'
          BY DEF Spent
        <5> QED BY <5>1, <5>2, FS_Subset, FS_CardinalityType
      <4>3. CASE d = day
        BY <1>2, <3>2, <4>1, <4>2, <4>3
      <4>4. CASE d # day
        BY <1>1, <1>2, <4>1, <4>2, <4>4
      <4> QED BY <4>3, <4>4
    <3> QED BY <2>1, <3>2, <3>3 DEF BudgetInv, Dated, Room
  <2>3. CASE ~AutoInsert
    <3>1. Kept \/ \E a : Inserted(a, "hand")
      BY <1>3, <2>3, TableStep
    <3>2. ASSUME NEW d
          PROVE  Cardinality(Spent(d)') \in Nat /\ Cardinality(Spent(d)') <= Cardinality(Spent(d))
      <4>1. Cardinality(Spent(d)') <= Cardinality(Spent(d))
        BY <1>3, <3>1, SpentStays
      <4>2. IsFiniteSet(DOMAIN rows')
        BY FiniteTable DEF TypeOK, TableTypes
      <4>3. Spent(d)' \subseteq DOMAIN rows'
        BY DEF Spent
      <4> QED BY <4>1, <4>2, <4>3, FS_Subset, FS_CardinalityType
    <3>3. \A d \in 1..MaxDays : Cardinality(Spent(d)') <= PerDay
      BY <1>1, <1>2, <3>2
    <3>4. Room(Cardinality(Spent(day)))'
      <4>1. CASE Midnight
        BY <1>1, <4>1, RoomOfADay
      <4>2. CASE day' = day
        <5>1. PICK d : d = day
          OBVIOUS
        <5>2. PICK m : m = Cardinality(Spent(day))
          OBVIOUS
        <5>3. PICK n : n = Cardinality(Spent(d)')
          OBVIOUS
        <5>4. Spent(d) = Spent(day) /\ Spent(d)' = Spent(day)'
          BY <4>2, <5>1 DEF Spent
        <5>5. m \in Nat /\ n \in Nat /\ n <= m /\ m <= PerDay /\ Room(m)
          BY <1>1, <1>2, <3>2, <5>1, <5>2, <5>3, <5>4
        <5>6. Room(n)'
          BY <1>1, <1>3, <2>3, <5>2, <5>5, RoomStep
        <5> QED BY <5>3, <5>4, <5>6 DEF Room
      <4> QED BY <1>3, <4>1, <4>2, OtherStep
    <3> QED BY <2>1, <3>3, <3>4 DEF BudgetInv, Dated, Room
  <2> QED BY <2>2, <2>3
<1>4. CASE UNCHANGED vars
  BY <1>4 DEF vars, BudgetInv, Spent, Dated, Room
<1> QED BY <1>3, <1>4

(* The budget at the start.                                                *)
LEMMA BudgetInit ==
  ASSUME SubmissionsAssumption, Init PROVE BudgetInv
<1>1. DOMAIN rows = {} /\ auto.at = "idle"
  BY EmptySeq DEF Init, NoAuto
<1>2. \A d : Spent(d) = {}
  BY <1>1 DEF Spent
<1>3. \A d : Cardinality(Spent(d)) = 0
  BY <1>2, FS_EmptySet
<1>4. PerDay \in Nat
  BY DEF SubmissionsAssumption
<1> QED BY <1>1, <1>3, <1>4 DEF BudgetInv, Dated, Room

(* The day's budget, for any number of attempts, rows, days and failures:  *)
(* of the rows the handler of POST /api/submissions/auto inserts on a day, *)
(* no more than SUBMISSIONS_PER_DAY are never in error, whatever threads,  *)
(* refreshes and midnights come between its count and its inserts.         *)
THEOREM DailyBudget == Spec => []BudgetUnlessFailed
<1>1. Init => TypeOK /\ BudgetInv
  BY TypeInit, BudgetInit, SubmissionsAssumption
<1>2. TypeOK /\ BudgetInv /\ [Next]_vars => (TypeOK /\ BudgetInv)'
  BY TypeStep, BudgetStep, SubmissionsAssumption
<1>3. BudgetInv => BudgetUnlessFailed
  BY DEF BudgetInv, Spent, BudgetUnlessFailed
<1> QED BY <1>1, <1>2, <1>3, PTL DEF Spec

-----------------------------------------------------------------------------
(* The tripwire.                                                           *)

(* A row keeps its attempt and its score.                                  *)
LEMMA Growth ==
  ASSUME SubmissionsAssumption, TypeOK, Next, NEW r \in DOMAIN rows
  PROVE  /\ r \in DOMAIN rows' /\ rows'[r].attempt = rows[r].attempt
         /\ rows[r].scored => rows'[r].scored
<1>1. CASE Kept
  BY <1>1 DEF Kept
<1>2. CASE \E a, by : Inserted(a, by)
  BY <1>2, RowsStay DEF Inserted
<1> QED BY <1>1, <1>2, TableStep

(* Two rows that diverge go on doing so.                                   *)
LEMMA DivergedStays ==
  ASSUME SubmissionsAssumption, TypeOK, Next, NEW r \in DOMAIN rows, NEW q \in DOMAIN rows
  PROVE  Diverged(r, q)' <=> Diverged(r, q)
BY Growth DEF Diverged

(* A row that contradicts another goes on doing so.                        *)
LEMMA ContradictedStays ==
  ASSUME SubmissionsAssumption, TypeOK, Next, Cardinality(Contradicted) >= 2
  PROVE  Cardinality(Contradicted)' >= 2
<1>1. WithScore \subseteq WithScore' /\ WithScore \subseteq DOMAIN rows
  BY Growth DEF WithScore
<1>2. Contradicted \subseteq Contradicted'
  BY <1>1, DivergedStays DEF Contradicted
<1>3. IsFiniteSet(DOMAIN rows')
  <2>1. rows' \in Seq(Row)
    BY TableStep DEF TableTypes
  <2> QED BY <2>1, FiniteTable
<1>4. Contradicted' \subseteq DOMAIN rows'
  BY DEF Contradicted, WithScore
<1>5. IsFiniteSet(Contradicted')
  BY <1>3, <1>4, FS_Subset
<1>6. /\ Cardinality(Contradicted') \in Nat /\ Cardinality(Contradicted) \in Nat
      /\ Cardinality(Contradicted) <= Cardinality(Contradicted')
  BY <1>2, <1>5, FS_Subset, FS_CardinalityType
<1> QED BY <1>6

\* How the rows of a chain diverge from the one before.
Diverging(chain) ==
  {r \in chain : \E q \in chain : /\ q < r /\ \A s \in chain : s >= r \/ s <= q
                                  /\ Diverged(r, q)}

(* A chain of scored rows shows no divergence that is not there.           *)
LEMMA ChainContradicts ==
  ASSUME TableTypes, NEW m \in WithScore
  PROVE  /\ Diverging(Chain(m)) \subseteq Contradicted
         /\ Divergences(Chain(m)) \in Nat
         /\ Divergences(Chain(m)) <= Cardinality(Contradicted)
<1>1. Chain(m) \subseteq WithScore
  BY DEF Chain, Newest, Charted, Scored, WithScore
<1>2. Diverging(Chain(m)) \subseteq Contradicted
  BY <1>1 DEF Diverging, Contradicted
<1>3. Contradicted \in SUBSET DOMAIN rows
  BY DEF Contradicted, WithScore
<1>4. IsFiniteSet(Contradicted)
  BY <1>3, FiniteRows
<1>5. Divergences(Chain(m)) = Cardinality(Diverging(Chain(m)))
  BY DEF Divergences, Diverging
<1> QED BY <1>2, <1>4, <1>5, FS_Subset, FS_CardinalityType

(* Where a call goes.                                                      *)
LEMMA CallFacts ==
  ASSUME NEW p \in Refreshers,
         refresh[p] \in [at : {"idle", "write", "detect", "isolate", "pause"},
                        row : Nat, got : Answers]
  PROVE  /\ refresh'[p] = Quiet => refresh'[p].at = "idle"
         /\ Asked(p) => refresh'[p].at = "write"
         /\ \A at \in {"detect", "isolate", "pause"} :
              refresh'[p] = [refresh[p] EXCEPT !.at = at]
                => refresh'[p].at = at /\ refresh'[p].row = refresh[p].row
<1>1. refresh'[p] = Quiet => refresh'[p].at = "idle"
  BY DEF Quiet
<1>2. Asked(p) => refresh'[p].at = "write"
  <2>1. ASSUME NEW r, refresh'[p] = [at |-> "write", row |-> r, got |-> Verdict(r)]
        PROVE  refresh'[p].at = "write"
    BY <2>1
  <2> QED BY <2>1 DEF Asked
<1>3. ASSUME NEW at \in {"detect", "isolate", "pause"},
             refresh'[p] = [refresh[p] EXCEPT !.at = at]
      PROVE  refresh'[p].at = at /\ refresh'[p].row = refresh[p].row
  BY <1>3
<1> QED BY <1>1, <1>2, <1>3

(* Every step keeps the reason of a pause.                                 *)
LEMMA PauseStep ==
  ASSUME SubmissionsAssumption, TypeOK, PauseInv, [Next]_vars
  PROVE  PauseInv'
<1>1. CASE Next
  <2>1. TableTypes /\ WithScore \subseteq WithScore'
    BY <1>1, Growth DEF TypeOK, WithScore
  <2>2. /\ \A p \in Refreshers : refresh[p].at = "detect" => refresh[p].row \in WithScore
        /\ (\E p \in Refreshers : refresh[p].at \in Tripped) \/ paused
             => Cardinality(Contradicted) >= 2
    BY DEF PauseInv
  <2>3. ASSUME NEW p \in Refreshers
        PROVE  refresh[p] \in [at : {"idle", "write", "detect", "isolate", "pause"},
                               row : Nat, got : Answers]
    BY DEF TypeOK, RefreshTypes
  <2>4. ASSUME NEW p \in Refreshers, refresh'[p].at = "detect"
        PROVE  refresh'[p].row \in WithScore'
    <3>1. CASE refresh'[p] = refresh[p]
      BY <2>1, <2>2, <2>4, <3>1
    <3>2. CASE /\ Write(p) /\ refresh[p].got = "complete"
               /\ rows[refresh[p].row].attempt # NoAttempt
               /\ refresh'[p] = [refresh[p] EXCEPT !.at = "detect"]
      <4>1. /\ refresh[p].row \in DOMAIN rows /\ rows'[refresh[p].row].scored
        BY <2>1, <3>2, WriteTypes DEF TypeOK
      <4>2. refresh'[p].row = refresh[p].row
        BY <2>3, <3>2
      <4> QED BY <1>1, <3>2, <4>1, <4>2, Growth DEF WithScore
    <3>3. CASE \/ refresh'[p] = Quiet \/ Asked(p)
               \/ refresh'[p] = [refresh[p] EXCEPT !.at = "isolate"]
               \/ refresh'[p] = [refresh[p] EXCEPT !.at = "pause"]
      BY <2>3, <2>4, <3>3, CallFacts
    <3>4. Moves(p)
      BY <1>1, RefreshMoves
    <3> QED BY <3>1, <3>2, <3>3, <3>4, Zenon DEF Moves
  <2>5. ASSUME (\E p \in Refreshers : refresh'[p].at \in Tripped) \/ paused'
        PROVE  Cardinality(Contradicted)' >= 2
    <3>1. CASE \E p \in Refreshers : refresh[p].at \in Tripped \/ paused
      <4>1. Cardinality(Contradicted) >= 2
        BY <2>2, <3>1
      <4> QED BY <1>1, <4>1, ContradictedStays
    <3>2. CASE \E p \in Refreshers : refresh[p].at = "detect"
                                     /\ Divergences(Chain(refresh[p].row)) >= 2
      <4>1. PICK p \in Refreshers : refresh[p].at = "detect"
                                    /\ Divergences(Chain(refresh[p].row)) >= 2
        BY <3>2
      <4>2. refresh[p].row \in WithScore
        BY <2>2, <4>1
      <4>3. Contradicted \in SUBSET DOMAIN rows
        BY DEF Contradicted, WithScore
      <4>4. Cardinality(Contradicted) \in Nat
        BY <2>1, <4>3, FiniteRows
      <4>5. /\ Divergences(Chain(refresh[p].row)) \in Nat
            /\ Divergences(Chain(refresh[p].row)) <= Cardinality(Contradicted)
        BY <2>1, <4>2, ChainContradicts
      <4>6. Cardinality(Contradicted) >= 2
        BY <4>1, <4>4, <4>5
      <4> QED BY <1>1, <4>6, ContradictedStays
    <3>3. ASSUME NEW p \in Refreshers, refresh'[p].at \in Tripped
          PROVE  \/ refresh[p].at \in Tripped
                 \/ refresh[p].at = "detect" /\ Divergences(Chain(refresh[p].row)) >= 2
      <4>1. CASE Detect(p) /\ Divergences(Chain(refresh[p].row)) >= 2
        BY <4>1 DEF Detect
      <4>2. CASE refresh'[p] = refresh[p] \/ Isolate(p)
        BY <3>3, <4>2 DEF Isolate, Tripped
      <4>3. CASE \/ refresh'[p] = Quiet \/ Asked(p)
                 \/ refresh'[p] = [refresh[p] EXCEPT !.at = "detect"]
        BY <2>3, <3>3, <4>3, CallFacts DEF Tripped
      <4>4. Moves(p)
        BY <1>1, RefreshMoves
      <4> QED BY <4>1, <4>2, <4>3, <4>4, Zenon DEF Moves
    <3>4. paused' => paused \/ \E p \in Refreshers : refresh[p].at \in Tripped
      <4>1. UNCHANGED paused \/ \E p \in Refreshers : Pause(p)
        BY <1>1 DEF Next, AutoSubmit, AutoStart, AutoPick, AutoBest, AutoLast, AutoNext, AutoInsert,
           AutoRaises, SweepPolls, ApiPolls, Polls, Refresh, Write, Detect, Isolate, Raises,
           Confirm, Midnight, Submit, Thread, Begin, Upload, Submitted, Fails,
           ThreadRaises, Crash, Timeout, Expire, Become, Grade, Drop
      <4> QED BY <4>1 DEF Pause, Tripped
    <3>5. Refreshers # {}
      BY DEF SubmissionsAssumption
    <3> QED BY <2>5, <3>1, <3>2, <3>3, <3>4, <3>5
  <2> QED BY <2>4, <2>5 DEF PauseInv
<1>2. CASE UNCHANGED vars
  BY <1>2 DEF vars, PauseInv, Contradicted, WithScore, Diverged
<1> QED BY <1>1, <1>2

(* One divergence never stops auto-submit: whatever is written over        *)
(* whatever, in whichever order, there are two scored rows that contradict *)
(* scored rows submitted before them when the handler is paused.           *)
THEOREM PauseIsEarned == Spec => []PauseNeedsTwo
<1>1. Init => TypeOK /\ PauseInv
  <2>1. ASSUME Init PROVE PauseInv
    BY <2>1 DEF Init, Quiet, Tripped, PauseInv
  <2> QED BY <2>1, TypeInit, SubmissionsAssumption
<1>2. TypeOK /\ PauseInv /\ [Next]_vars => (TypeOK /\ PauseInv)'
  BY TypeStep, PauseStep, SubmissionsAssumption
<1>3. PauseInv => PauseNeedsTwo
  BY DEF PauseInv, PauseNeedsTwo, Contradicted
<1> QED BY <1>1, <1>2, <1>3, PTL DEF Spec

-----------------------------------------------------------------------------
(* A divergence is caught.                                                 *)

(* The chart stays as it is, or gets a new newest row that is about to be  *)
(* looked at.                                                              *)
Added(p) ==
  /\ refresh'[p].at = "detect" /\ refresh'[p].row \in Charted'
  /\ \A q \in Charted' : q <= refresh'[p].row

\* Only what a step changes of the status and score of rows matters.
LEMMA ChartStays ==
  ASSUME SubmissionsAssumption, TypeOK, Next, Whole,
         \A r \in DOMAIN rows : \/ rows'[r].status = rows[r].status
                                   /\ rows'[r].scored = rows[r].scored
                                \/ ~rows[r].scored /\ ~rows'[r].scored,
         \A r \in DOMAIN rows' \ DOMAIN rows : ~rows'[r].scored
  PROVE  Whole' /\ Charted' = Charted
<1>1. \A r \in DOMAIN rows : r \in DOMAIN rows' /\ rows'[r].attempt = rows[r].attempt
  BY Growth
<1>2. Whole'
  BY DEF Whole
<1>3. ASSUME NEW r \in Charted PROVE r \in Charted'
  BY <1>1, <1>3 DEF Charted, Scored
<1>4. ASSUME NEW r \in Charted' PROVE r \in Charted
  BY <1>1, <1>4 DEF Charted, Scored
<1> QED BY <1>2, <1>3, <1>4

(* The chart in a step of a run in order.                                  *)
LEMMA ChartStep ==
  ASSUME SubmissionsAssumption, TypeOK, Next, Whole, ~disordered', ~Fault
  PROVE  Whole' /\ (Charted' = Charted \/ \E p \in Refreshers : Added(p))
<1>1. TableTypes /\ Tables /\ RefreshTypes
  BY TableFacts DEF TypeOK
<1>2. CASE \E r \in DOMAIN rows : Begin(r) \/ Submitted(r)
  <2>1. PICK r \in DOMAIN rows, s \in {"submitting", "submitted"} : Writes(r, s)
    BY <1>2 DEF Begin, Submitted
  <2>2. s \in Statuses
    BY DEF Statuses, Terminal
  <2>3. /\ rows'[r].scored = rows[r].scored /\ DOMAIN rows' = DOMAIN rows
        /\ \A q \in DOMAIN rows : q # r => rows'[q] = rows[q]
    BY <1>1, <2>1, <2>2, StatusWritten DEF Writes, Kept
  <2>4. r \notin Scored
    BY <2>1 DEF Writes
  <2>5. ~rows[r].scored
    BY <2>4 DEF Scored, Whole
  <2>6. \A q \in DOMAIN rows : \/ rows'[q].status = rows[q].status
                                  /\ rows'[q].scored = rows[q].scored
                               \/ ~rows[q].scored /\ ~rows'[q].scored
    BY <2>3, <2>5
  <2>7. \A q \in DOMAIN rows' \ DOMAIN rows : ~rows'[q].scored
    BY <2>3
  <2> QED BY <2>6, <2>7, ChartStays
<1>3. CASE \E p \in Refreshers : Write(p)
  <2>1. PICK p \in Refreshers : Write(p)
    BY <1>3
  <2> DEFINE r == refresh[p].row
             got == refresh[p].got
             status == IF got = "unscored" THEN "complete" ELSE got
  <2>2. /\ r \in DOMAIN rows /\ rows'[r].status = status /\ Kept
        /\ rows'[r].scored = (rows[r].scored \/ got = "complete")
        /\ \A q \in DOMAIN rows : q # r => rows'[q] = rows[q]
    BY <1>1, <2>1, WriteTypes
  <2>3. /\ got = "complete" => \A q \in Scored : ~(q > r)
        /\ r \in Scored => status = "complete"
    BY <2>1 DEF Write
  <2>4. rows[r].scored => rows[r].status = "complete" /\ status = "complete"
    BY <2>2, <2>3 DEF Scored, Whole
  <2>5. \A q \in DOMAIN rows' \ DOMAIN rows : ~rows'[q].scored
    BY <2>2 DEF Kept
  <2>6. rows[r].scored \in BOOLEAN
    BY <1>1, <2>2, RowFacts
  <2>7. CASE rows[r].scored \/ got # "complete"
    <3>1. \/ rows'[r].status = rows[r].status /\ rows'[r].scored = rows[r].scored
          \/ ~rows[r].scored /\ ~rows'[r].scored
      BY <2>2, <2>4, <2>6, <2>7
    <3>2. \A q \in DOMAIN rows : \/ rows'[q].status = rows[q].status
                                    /\ rows'[q].scored = rows[q].scored
                                 \/ ~rows[q].scored /\ ~rows'[q].scored
      BY <2>2, <3>1
    <3> QED BY <2>5, <3>2, ChartStays
  <2>8. CASE ~rows[r].scored /\ got = "complete"
    <3>1. rows'[r].scored /\ rows'[r].status = "complete"
      BY <2>2, <2>8
    <3>2. Whole'
      BY <2>2, <3>1 DEF Whole, Kept
    <3>3. \A q \in Charted' : q # r => q \in Charted
      BY <2>2 DEF Charted, Scored, Kept
    <3>4. \A q \in Charted' : q \in Nat /\ r \in Nat
      BY <1>1, <2>2 DEF Charted, Scored, Kept, Tables
    <3>5. \A q \in Charted' : q <= r
      <4>1. \A q \in Charted : q \in Scored
        BY DEF Charted
      <4>2. \A q \in Charted' : q # r => ~(q > r)
        BY <2>3, <2>8, <3>3, <4>1
      <4> QED BY <3>4, <4>2
    <3>6. CASE rows[r].attempt # NoAttempt
      <4>1. refresh[p] \in [at : {"idle", "write", "detect", "isolate", "pause"},
                            row : Nat, got : Answers]
        BY <1>1 DEF RefreshTypes
      <4>2. refresh'[p] = [refresh[p] EXCEPT !.at = "detect"]
        BY <1>1, <2>1, <2>8, <3>6 DEF Write, RefreshTypes
      <4>3. refresh'[p].at = "detect" /\ refresh'[p].row = r
        BY <4>1, <4>2, CallFacts
      <4>4. r \in Charted'
        BY <2>2, <3>1, <3>6 DEF Charted, Scored, Kept
      <4>5. Added(p)
        BY <3>5, <4>3, <4>4 DEF Added
      <4> QED BY <3>2, <4>5
    <3>7. CASE rows[r].attempt = NoAttempt
      <4>1. r \notin Charted' /\ r \notin Charted
        BY <2>2, <3>7 DEF Charted, Kept
      <4>2. ASSUME NEW q \in Charted PROVE q \in Charted'
        <5>1. q # r /\ q \in DOMAIN rows
          BY <4>1 DEF Charted, Scored
        <5>2. rows'[q] = rows[q] /\ q \in DOMAIN rows'
          BY <2>2, <5>1 DEF Kept
        <5> QED BY <5>2 DEF Charted, Scored
      <4>3. \A q \in Charted' : q \in Charted
        BY <3>3, <4>1
      <4> QED BY <3>2, <4>2, <4>3
    <3> QED BY <3>6, <3>7
  <2> QED BY <2>6, <2>7, <2>8
<1>4. CASE Timeout \/ Expire
  <2>1. \E age \in {"late", "stale"} : \E S :
          rows' = [q \in DOMAIN rows |-> IF q \in S THEN [rows[q] EXCEPT !.age = age] ELSE rows[q]]
    BY <1>4 DEF Timeout, Expire, Become
  <2>2. /\ DOMAIN rows' = DOMAIN rows
        /\ \A q \in DOMAIN rows : /\ rows'[q].status = rows[q].status
                                  /\ rows'[q].scored = rows[q].scored
    BY <1>1, <2>1, AgeWritten DEF Kept
  <2> QED BY <2>2, ChartStays
<1>5. CASE UNCHANGED rows
  BY <1>5, ChartStays
<1>6. CASE AutoInsert \/ \E a \in ByHand : Submit(a)
  <2>1. \E row : rows' = Append(rows, row)
    BY <1>6 DEF AutoInsert, Submit, Insert
  <2>2. ~Kept
    <3>1. Len(rows') = Len(rows) + 1 /\ Len(rows) \in Nat
      BY <1>1, <2>1, LenProperties DEF TableTypes
    <3> QED BY <3>1 DEF Kept
  <2>3. PICK a, by : Inserted(a, by)
    BY <2>2, TableStep
  <2>4. /\ \A q \in DOMAIN rows : rows'[q] = rows[q]
        /\ \A q \in DOMAIN rows' \ DOMAIN rows : ~rows'[q].scored
    BY <1>1, <2>3 DEF Inserted, Tables
  <2> QED BY <2>4, ChartStays
<1>7. \/ \E r \in DOMAIN rows : Begin(r) \/ Submitted(r)
      \/ \E p \in Refreshers : Write(p)
      \/ Timeout \/ Expire \/ UNCHANGED rows
      \/ \E a \in ByHand : Submit(a)
      \/ AutoInsert
  BY DEF Next, AutoSubmit, AutoStart, AutoPick, AutoBest, AutoLast, AutoNext,
         AutoRaises, SweepPolls, ApiPolls, Polls, Refresh, Detect, Isolate, Pause, Raises,
         Confirm, Midnight, Thread, Upload, Fails, ThreadRaises, Crash, Grade, Drop
<1> QED BY <1>2, <1>3, <1>4, <1>5, <1>6, <1>7

(* The chart is a finite set of rows.                                      *)
LEMMA ChartedRows ==
  ASSUME TableTypes
  PROVE  /\ Charted \subseteq DOMAIN rows /\ Charted \in SUBSET Nat
         /\ IsFiniteSet(Charted) /\ \A m \in Charted : m <= Len(rows)
<1>1. Charted \subseteq DOMAIN rows
  BY DEF Charted, Scored
<1> QED BY <1>1, FiniteRows, TableFacts DEF Tables

(* Where the chart stays, what the check sees of it stays.                 *)
LEMMA SameChain ==
  ASSUME SubmissionsAssumption, TypeOK, Next, Charted' = Charted, NEW m \in Charted
  PROVE  Divergences(Chain(m))' = Divergences(Chain(m))
<1>1. TableTypes /\ Charted \subseteq DOMAIN rows
  BY ChartedRows DEF TypeOK
<1>2. Chain(m)' = Chain(m)
  BY DEF Chain, Newest
<1>3. Chain(m) \subseteq DOMAIN rows
  BY <1>1 DEF Chain, Newest
<1>4. Diverging(Chain(m))' = Diverging(Chain(m))
  BY <1>2, <1>3, DivergedStays DEF Diverging
<1> QED BY <1>4 DEF Divergences, Diverging

(* Nothing but a failure lets go of what is watched.                        *)
LEMMA WatchedStays ==
  ASSUME SubmissionsAssumption, TypeOK, Next, ~Fault, Charted' = Charted,
         NEW m \in Charted, Watched(m)
  PROVE  Watched(m)'
<1>1. CASE paused
  <2>1. paused'
    BY <1>1 DEF Next, AutoSubmit, AutoStart, AutoPick, AutoBest, AutoLast, AutoNext, AutoInsert,
       AutoRaises, SweepPolls, ApiPolls, Polls, Refresh, Write, Detect, Isolate, Pause, Raises,
       Confirm, Midnight, Submit, Thread, Begin, Upload, Submitted, Fails,
       ThreadRaises, Crash, Timeout, Expire, Become, Grade, Drop
  <2> QED BY <2>1 DEF Watched
<1>2. CASE Divergences(Chain(m)) < 2
  <2>1. Divergences(Chain(m))' = Divergences(Chain(m))
    BY SameChain
  <2> QED BY <1>2, <2>1 DEF Watched
<1>3. ASSUME NEW p \in Refreshers, refresh[p].at \in Tripped \cup {"detect"}, refresh[p].row = m
      PROVE  Watched(m)'
  <2>1. refresh[p] \in [at : {"idle", "write", "detect", "isolate", "pause"},
                        row : Nat, got : Answers]
    BY DEF TypeOK, RefreshTypes
  <2>2. CASE refresh'[p] = refresh[p]
    BY <1>3, <2>2 DEF Watched
  <2>3. CASE Pause(p)
    BY <2>3 DEF Pause, Watched
  <2>4. CASE Detect(p) /\ ~(Divergences(Chain(refresh[p].row)) >= 2)
    <3>1. m \in WithScore /\ TableTypes
      BY DEF Charted, Scored, WithScore, TypeOK
    <3>2. Divergences(Chain(m)) \in Nat
      BY <3>1, ChainContradicts
    <3>3. Divergences(Chain(m)) < 2
      BY <1>3, <2>4, <3>2
    <3> QED BY <1>2, <3>3
  <2>5. CASE \E at \in {"detect", "isolate", "pause"} : refresh'[p] = [refresh[p] EXCEPT !.at = at]
    <3>1. refresh'[p].at \in Tripped \cup {"detect"} /\ refresh'[p].row = m
      BY <1>3, <2>1, <2>5, CallFacts DEF Tripped
    <3> QED BY <3>1 DEF Watched
  <2>6. ~Asked(p) /\ ~Write(p)
    BY <1>3 DEF Asked, Write, Tripped
  <2>7. Moves(p)
    BY RefreshMoves
  <2> QED BY <2>2, <2>3, <2>4, <2>5, <2>6, <2>7 DEF Moves, Ends
<1> QED BY <1>1, <1>2, <1>3 DEF Watched

(* Every step keeps the newest score watched.                              *)
LEMMA CaughtStep ==
  ASSUME SubmissionsAssumption, TypeOK, CaughtInv, [Next]_vars
  PROVE  CaughtInv'
<1>1. CASE Next
  <2>1. ASSUME ~disordered', faults' = 0
        PROVE  Whole' /\ \A m \in Charted' : Newer(m)' => Watched(m)'
    <3>1. /\ ~disordered /\ faults = 0 /\ ~Fault
      <4>1. faults \in Nat /\ faults <= faults' /\ (disordered => disordered')
        BY <1>1, OtherStep DEF TypeOK, OtherTypes
      <4>2. faults = 0
        BY <2>1, <4>1
      <4> QED BY <2>1, <4>1, <4>2 DEF Fault
    <3>2. Whole /\ \A m \in Charted : Newer(m) => Watched(m)
      BY <3>1 DEF CaughtInv
    <3>3. Whole' /\ (Charted' = Charted \/ \E p \in Refreshers : Added(p))
      BY <1>1, <2>1, <3>1, <3>2, ChartStep
    <3>4. CASE Charted' = Charted
      <4>1. ASSUME NEW m \in Charted', Newer(m)'
            PROVE  Watched(m)'
        <5>1. m \in Charted /\ Newer(m)
          BY <3>4, <4>1 DEF Newer
        <5> QED BY <1>1, <3>1, <3>2, <3>4, <5>1, WatchedStays
      <4> QED BY <3>3, <4>1
    <3>5. ASSUME NEW p \in Refreshers, Added(p)
          PROVE  \A m \in Charted' : Newer(m)' => Watched(m)'
      <4>1. ASSUME NEW m \in Charted', Newer(m)'
            PROVE  refresh'[p].row = m
        <5>1. DOMAIN rows' \subseteq Nat
          BY <1>1, TableStep, FiniteTable DEF TableTypes
        <5>2. m \in Nat /\ refresh'[p].row \in Nat
          BY <3>5, <4>1, <5>1 DEF Added, Charted, Scored
        <5>3. m <= refresh'[p].row /\ refresh'[p].row <= m
          BY <3>5, <4>1 DEF Added, Newer
        <5> QED BY <5>2, <5>3
      <4> QED BY <3>5, <4>1 DEF Added, Watched
    <3> QED BY <3>3, <3>4, <3>5
  <2> QED BY <2>1 DEF CaughtInv, Whole, Watched
<1>2. CASE UNCHANGED vars
  <2>1. /\ Charted' = Charted /\ UNCHANGED <<rows, refresh, paused, faults, disordered>>
        /\ \A m : (Newer(m)' <=> Newer(m)) /\ Chain(m)' = Chain(m)
    BY <1>2 DEF vars, Charted, Scored, Newer, Chain, Newest
  <2>2. ASSUME NEW m \in Charted, Watched(m)
        PROVE  Watched(m)'
    <3>1. Divergences(Chain(m))' = Divergences(Chain(m))
      BY <2>1 DEF Divergences, Diverged
    <3> QED BY <2>1, <2>2, <3>1 DEF Watched
  <2>3. ASSUME ~disordered', faults' = 0
        PROVE  Whole' /\ \A m \in Charted' : Newer(m)' => Watched(m)'
    <3>1. Whole /\ \A m \in Charted : Newer(m) => Watched(m)
      BY <2>1, <2>3 DEF CaughtInv
    <3>2. Whole'
      BY <2>1, <3>1 DEF Whole
    <3> QED BY <2>1, <2>2, <3>1, <3>2
  <2> QED BY <2>3 DEF CaughtInv, Whole, Watched
<1> QED BY <1>1, <1>2

(* The chart is empty at the start.                                        *)
LEMMA CaughtInit ==
  ASSUME Init PROVE CaughtInv
<1>1. DOMAIN rows = {}
  BY EmptySeq DEF Init
<1> QED BY <1>1 DEF CaughtInv, Whole, Charted, Scored

(* The four newest of the chart are its newest and the three before.       *)
LEMMA NewestFour ==
  ASSUME TableTypes, NEW m \in Charted, Newer(m)
  PROVE  Newest(Charted, 4) = Chain(m)
<1>1. Charted \in SUBSET Nat /\ IsFiniteSet(Charted)
  BY ChartedRows
<1> DEFINE Later(r) == {q \in Charted : q > r}
           Between(r) == {q \in {s \in Charted : s < m} : q > r}
<1>2. Later(m) = {}
  <2>1. \A q \in Charted : q \in Nat /\ m \in Nat /\ q <= m
    BY <1>1 DEF Newer
  <2>2. \A q \in Charted : ~(q > m)
    BY <2>1
  <2> QED BY <2>2
<1>3. Cardinality(Later(m)) < 4
  BY <1>2, FS_EmptySet
<1>4. ASSUME NEW r \in Charted, r # m
      PROVE  r < m /\ (Cardinality(Later(r)) < 4 <=> Cardinality(Between(r)) < 3)
  <2>1. r < m
    BY <1>1, <1>4 DEF Newer
  <2>2. Later(r) = Between(r) \cup {m} /\ m \notin Between(r)
    <3>1. m > r /\ ~(m < m) /\ \A q \in Charted : q < m \/ q = m
      BY <1>1, <1>4, <2>1 DEF Newer
    <3> QED BY <3>1
  <2>3. IsFiniteSet(Between(r))
    BY <1>1, FS_Subset
  <2> HIDE DEF Later, Between
  <2>4. Cardinality(Later(r)) = Cardinality(Between(r)) + 1 /\ Cardinality(Between(r)) \in Nat
    BY <2>2, <2>3, FS_AddElement, FS_CardinalityType
  <2> QED BY <2>1, <2>4
<1>5. \A r : r \in Newest(Charted, 4) <=> r \in Charted /\ Cardinality(Later(r)) < 4
  BY DEF Newest
<1>6. \A r : r \in Chain(m) <=>
            (r = m \/ (r \in Charted /\ r < m /\ Cardinality(Between(r)) < 3))
  BY DEF Chain, Newest
<1>7. ~(m < m)
  BY <1>1
<1> HIDE DEF Later, Between
<1>8. \A r : r \in Newest(Charted, 4) <=> r \in Chain(m)
  BY <1>3, <1>4, <1>5, <1>6, <1>7
<1> QED BY <1>8

(* What is watched is caught when nobody is about to look.                 *)
LEMMA CaughtMeans ==
  ASSUME TypeOK, CaughtInv PROVE DivergenceIsCaughtInOrder
<1>1. SUFFICES ASSUME ~disordered, faults = 0, LookedAt,
                      Divergences(Newest(Charted, 4)) >= 2
               PROVE  paused
  BY DEF DivergenceIsCaughtInOrder, DivergenceIsCaught
<1>2. TableTypes
  BY DEF TypeOK
<1>3. Charted # {}
  <2>1. ASSUME Charted = {} PROVE FALSE
    <3>1. Newest(Charted, 4) = {}
      BY <2>1 DEF Newest
    <3>2. Divergences(Newest(Charted, 4)) = Cardinality({})
      BY <3>1 DEF Divergences
    <3> QED BY <1>1, <3>2, FS_EmptySet
  <2> QED BY <2>1
<1> DEFINE m == Max(Charted)
<1>4. m \in Charted /\ Newer(m)
  BY <1>2, <1>3, ChartedRows, TableFacts, HasMax DEF Newer, Tables
<1> HIDE DEF m
<1>5. Newest(Charted, 4) = Chain(m)
  BY <1>2, <1>4, NewestFour
<1>6. Watched(m)
  BY <1>1, <1>4 DEF CaughtInv
<1>7. m \in WithScore
  BY <1>4 DEF Charted, Scored, WithScore
<1>8. Divergences(Chain(m)) \in Nat
  BY <1>2, <1>7, ChainContradicts
<1>9. ~(Divergences(Chain(m)) < 2)
  BY <1>1, <1>5, <1>8
<1>10. \A p \in Refreshers : refresh[p].at \notin Tripped \cup {"detect"}
  BY <1>1 DEF LookedAt, Tripped
<1> QED BY <1>6, <1>9, <1>10 DEF Watched

(* As long as rows complete in the order they were submitted in, no scored *)
(* one is written over and nothing fails, two divergences among the last   *)
(* three deltas pause the competition by the time nobody is about to look: *)
(* the sweep and the endpoint may interleave as they like, and every other *)
(* row be inserted, uploaded and polled meanwhile.                         *)
THEOREM DivergenceCaught == Spec => []DivergenceIsCaughtInOrder
<1>1. Init => TypeOK /\ CaughtInv
  BY TypeInit, CaughtInit, SubmissionsAssumption
<1>2. TypeOK /\ CaughtInv /\ [Next]_vars => (TypeOK /\ CaughtInv)'
  BY TypeStep, CaughtStep, SubmissionsAssumption
<1>3. TypeOK /\ CaughtInv => DivergenceIsCaughtInOrder
  BY CaughtMeans
<1> QED BY <1>1, <1>2, <1>3, PTL DEF Spec
=============================================================================
