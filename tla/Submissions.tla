---------------------------- MODULE Submissions ----------------------------
(* Submissions to Kaggle of one competition (bin/api.py, bin/run_daemon.py):  *)
(* rows of raw.kaggle_submissions, the thread that generates and uploads the  *)
(* file of each, the sweep and the endpoint that refresh a row from Kaggle's  *)
(* list, the auto-submit handler with its daily budget, and the tripwire that *)
(* stops it when the leaderboard contradicts cross-validation.                *)
EXTENDS Naturals, Sequences, FiniteSets, SequencesExt

CONSTANTS Attempts,    \* the attempts that get a row in raw.pipelines
          Early,       \* those that have it at the start
          NoAttempt,   \* the null attempt_id of a submission made by hand
          CV,          \* cv_score, oriented so that more is better
          LB,          \* public score, likewise; equal inside the dead band
          Backed,      \* attempts whose base has a snapshot, or needs none
          Gains,       \* <<a, b>>: a is a significant gain over b
          ByHand,      \* what POST /api/submissions may ask for
          Refreshers,  \* who may be inside refresh_submission_row at once
          Grades,      \* how Kaggle may grade an upload
          PerDay,      \* SUBMISSIONS_PER_DAY
          MaxRows, MaxDays, MaxFaults     \* bounds of the model

ASSUME SubmissionsAssumption ==
  /\ IsFiniteSet(Attempts) /\ Early \subseteq Attempts /\ NoAttempt \notin Attempts
  /\ ByHand \subseteq Attempts \cup {NoAttempt}
  /\ CV \in [Attempts -> Nat] /\ LB \in [Attempts -> Nat]
  /\ Backed \subseteq Attempts /\ Gains \subseteq Attempts \X Attempts
  /\ Refreshers \subseteq {"sweep", "api"} /\ "sweep" \in Refreshers
  /\ Grades \subseteq {"complete", "unscored", "error", "invalid"}
  /\ PerDay \in Nat \ {0} /\ MaxDays \in Nat \ {0}
  /\ MaxRows \in Nat /\ MaxFaults \in Nat

VARIABLES rows,        \* raw.kaggle_submissions, in the order of submitted_at
          thread,      \* where the thread of each row is
          uploads,     \* what Kaggle took, oldest first
          cached,      \* attempts whose CSV is in the cache
          confirmed,   \* attempts with a row in raw.pipelines
          isolated,    \* those of them with an invalid_reason
          paused,      \* auto_submit_paused_reason is set
          auto,        \* the handler of POST /api/submissions/auto
          refresh,     \* the calls of refresh_submission_row
          day, faults,
          failed,      \* history: the rows that have been in error
          disordered   \* history: a row completed after a later one had, or a
                       \* scored one was written over

history == <<failed, disordered>>
vars == <<rows, thread, uploads, cached, confirmed, isolated, paused, auto,
          refresh, day, faults, history>>
outside == <<uploads, cached, confirmed>>
gate == <<isolated, paused>>
bounds == <<day, faults>>

Terminal == {"complete", "error", "invalid"}
Statuses == Terminal \cup {"queued", "submitting", "submitted", "unknown"}

\* What _sweep_stale_submissions selects; "pending" is never written.
\* Mutant of Swept: rows whose thread died are left out.
SweptSubmitted == {"submitted"}

Swept == {"queued", "submitting", "submitted"}

Quiet == [at |-> "idle", row |-> 0, got |-> "none"]
NoAuto == [at |-> "idle", left |-> 0, todo |-> <<>>]

Init ==
  /\ rows = <<>> /\ thread = <<>> /\ uploads = <<>> /\ cached = {}
  /\ confirmed = Early /\ isolated = {} /\ paused = FALSE /\ auto = NoAuto
  /\ refresh = [p \in Refreshers |-> Quiet]
  /\ day = 1 /\ faults = 0 /\ failed = {} /\ disordered = FALSE

Fault == faults < MaxFaults /\ faults' = faults + 1

(* _start_submission: the row is inserted, then its thread is started.        *)
Insert(a, by) ==
  /\ Len(rows) < MaxRows
  /\ rows' = Append(rows, [attempt |-> a, by |-> by, status |-> "queued",
                           scored |-> FALSE, day |-> day, age |-> "fresh"])
  /\ thread' = Append(thread, "spawned")

(* POST /api/submissions: no look at the budget or the pause.                 *)
Submit(a) ==
  /\ Insert(a, "hand")
  /\ UNCHANGED <<outside, gate, refresh, bounds, auto, history>>

-----------------------------------------------------------------------------
(* POST /api/submissions/auto.                                                *)
RowsOf(a) == {r \in DOMAIN rows : rows[r].attempt = a}

\* Mutant of SpentToday: only what Kaggle has graded counts.
GradedToday == {r \in DOMAIN rows : rows[r].day = day /\ rows[r].status = "complete"}

SpentToday == {r \in DOMAIN rows : rows[r].day = day /\ rows[r].status # "error"}

Submittable == confirmed \ isolated

\* _unsubmitted_confirmed: its candidates, its ORDER BY (what follows the
\* score decides between equals, and is left open), and its first n.
Unsubmitted == {a \in Submittable : RowsOf(a) = {}}

Before(a, b) ==
  \/ a \in Backed /\ b \notin Backed
  \/ (a \in Backed <=> b \in Backed) /\ CV[a] > CV[b]

FirstOf(n) ==
  {s \in [1..n -> Unsubmitted] : \A i \in 1..n :
     LET rest == Unsubmitted \ {s[j] : j \in 1..(i - 1)}
     IN s[i] \in rest /\ \A a \in rest : ~Before(a, s[i])}

\* _best_attempt: its candidates, and the best of them.
Uncompleted ==
  {a \in Submittable : \A r \in RowsOf(a) : rows[r].status # "complete"}

IsBest(a) == a \in Uncompleted /\ \A b \in Uncompleted : CV[b] <= CV[a]

\* _last_submitted_attempt, when the rows of `old` are submitted and were last
\* checked more than an hour ago.
LastSubmitted(old) ==
  LET counted == {r \in DOMAIN rows \ old : /\ rows[r].attempt # NoAttempt
                                            /\ rows[r].status \notin {"error", "invalid"}}
  IN IF counted = {} THEN NoAttempt ELSE rows[Max(counted)].attempt

Least(m, n) == IF m < n THEN m ELSE n

AutoNext(step) ==
  /\ auto' = step
  /\ UNCHANGED <<rows, thread, outside, gate, refresh, bounds, history>>

\* The pause is read first and the count next; a pause that is set in between
\* stops the handler as little as one that is set after both.
AutoStart ==
  /\ auto.at = "idle" /\ ~paused /\ Cardinality(SpentToday) < PerDay
  /\ AutoNext([auto EXCEPT !.at = "pick", !.left = PerDay - Cardinality(SpentToday)])

AutoPick ==
  /\ auto.at = "pick"
  /\ \/ Unsubmitted = {} /\ AutoNext([auto EXCEPT !.at = "best"])
     \/ /\ Unsubmitted # {}
        /\ \E s \in FirstOf(Least(auto.left, Cardinality(Unsubmitted))) :
             AutoNext([auto EXCEPT !.at = "insert", !.todo = s])

AutoBest ==
  /\ auto.at = "best"
  /\ \/ Uncompleted = {} /\ AutoNext(NoAuto)
     \/ \E a \in Attempts : IsBest(a) /\ AutoNext([auto EXCEPT !.at = "last", !.todo = <<a>>])

AutoLast ==
  /\ auto.at = "last"
  /\ \E old \in SUBSET {r \in DOMAIN rows : rows[r].status = "submitted"} :
       LET last == LastSubmitted(old)
       IN AutoNext(IF \/ last = Head(auto.todo)
                      \/ last # NoAttempt /\ <<Head(auto.todo), last>> \notin Gains
                   THEN NoAuto ELSE [auto EXCEPT !.at = "insert"])

AutoInsert ==
  /\ auto.at = "insert"
  /\ Insert(Head(auto.todo), "auto")
  /\ auto' = IF Len(auto.todo) = 1 THEN NoAuto ELSE [auto EXCEPT !.todo = Tail(@)]
  /\ UNCHANGED <<outside, gate, refresh, bounds, history>>

\* A statement fails: the rest of the batch is not inserted.
AutoRaises ==
  /\ auto.at # "idle" /\ Fault /\ auto' = NoAuto
  /\ UNCHANGED <<rows, thread, outside, gate, refresh, day, history>>

AutoSubmit == AutoStart \/ AutoPick \/ AutoBest \/ AutoLast \/ AutoInsert \/ AutoRaises

-----------------------------------------------------------------------------
(* _kaggle_submit, the thread of row r. None of its writes looks at the row.  *)
(* A thread that found no CSV in the cache is `waiting' until its file is     *)
(* with Kaggle, at _submit_fit_gate or fitting inside it, one at a time; one  *)
(* with a CSV is at `upload' until then.                                      *)
Unsent == {"waiting", "upload"}
Sent == {"fitted", "uploaded"}

Goes(r, to) == thread' = [thread EXCEPT ![r] = to]

Scored == {r \in DOMAIN rows : rows[r].status = "complete" /\ rows[r].scored}

Fail(r, status) == failed' = IF status = "error" THEN failed \cup {r} ELSE failed

Writes(r, status) ==
  /\ rows' = [rows EXCEPT ![r].status = status]
  /\ Fail(r, status) /\ disordered' = (disordered \/ r \in Scored)

Begin(r) ==
  /\ thread[r] = "spawned"
  /\ Goes(r, IF rows[r].attempt \in cached THEN "upload" ELSE "waiting")
  /\ Writes(r, "submitting")
  /\ UNCHANGED <<outside, gate, refresh, bounds, auto>>

\* Kaggle takes the file. Its description is the message of the row.
Message(r) == <<rows[r].by, rows[r].attempt>>

Upload(r) ==
  /\ \/ thread[r] = "upload" /\ Goes(r, "uploaded")
     \/ /\ thread[r] = "waiting" /\ \A q \in DOMAIN thread : thread[q] # "fitted"
        /\ Goes(r, "fitted")
  /\ uploads' = Append(uploads, [message |-> Message(r), grade |-> "pending",
                                 day |-> day, listed |-> TRUE])
  /\ UNCHANGED <<rows, cached, confirmed, gate, refresh, bounds, auto, history>>

\* The subprocess returns 0; the CSV of a fit goes to the cache, if it can.
Submitted(r) ==
  /\ thread[r] \in Sent /\ Goes(r, "over") /\ Writes(r, "submitted")
  /\ \/ /\ thread[r] = "fitted" /\ UNCHANGED faults
        /\ cached' = cached \cup ({rows[r].attempt} \ {NoAttempt})
     \/ thread[r] = "fitted" /\ cached' = cached /\ Fault
     \/ thread[r] = "uploaded" /\ UNCHANGED <<cached, faults>>
  /\ UNCHANGED <<uploads, confirmed, gate, refresh, day, auto>>

\* No token, a non-zero exit or the timeout: before Kaggle has the file, or
\* when it has it already.
Fails(r) ==
  /\ thread[r] \in Unsent \cup Sent /\ Fault /\ Goes(r, "over") /\ Writes(r, "error")
  /\ UNCHANGED <<outside, gate, refresh, day, auto>>

\* Any other exception ends the thread without a write.
ThreadRaises(r) ==
  /\ thread[r] # "over" /\ Fault /\ Goes(r, "over")
  /\ UNCHANGED <<rows, outside, gate, refresh, day, auto, history>>

Thread(r) == Begin(r) \/ Upload(r) \/ Submitted(r) \/ Fails(r) \/ ThreadRaises(r)

-----------------------------------------------------------------------------
(* _sweep_stale_submissions and refresh_submission_row. A refresh that leaves *)
(* the row as it is, after the back-off of _submission_refresh_due, without a *)
(* token, after a failing CLI or with a pending answer, is no step. The row   *)
(* is read right before the poll: what changes between the two is as if it    *)
(* changed between the poll and the write.                                    *)
Sweepable(r) ==
  /\ rows[r].status \in Swept
  /\ rows[r].status = "submitting" => rows[r].age # "fresh"

\* _poll_kaggle_once: the newest listed upload with the row's message.
KaggleSays(r) ==
  LET found == {u \in DOMAIN uploads : uploads[u].message = Message(r) /\ uploads[u].listed}
  IN IF found = {} THEN "not_found" ELSE uploads[Max(found)].grade

Verdict(r) ==
  IF KaggleSays(r) # "not_found" THEN KaggleSays(r)
  ELSE IF rows[r].age = "stale" THEN "unknown" ELSE "pending"

Polls(p, r) ==
  /\ refresh[p].at = "idle" /\ rows[r].status \notin Terminal /\ Verdict(r) # "pending"
  /\ refresh' = [refresh EXCEPT ![p] = [at |-> "write", row |-> r, got |-> Verdict(r)]]
  /\ UNCHANGED <<rows, thread, outside, gate, bounds, auto, history>>

SweepPolls(r) == Sweepable(r) /\ Polls("sweep", r)

ApiPolls(r) == "api" \in Refreshers /\ Polls("api", r)

\* The answer is written to the row, whatever the row says by now.
Write(p) ==
  LET r == refresh[p].row
      got == refresh[p].got
      scored == got = "complete"
      status == IF got = "unscored" THEN "complete" ELSE got
  IN /\ refresh[p].at = "write"
     /\ rows' = [rows EXCEPT ![r].status = status, ![r].scored = @ \/ scored]
     /\ refresh' = IF scored /\ rows[r].attempt # NoAttempt
                   THEN [refresh EXCEPT ![p].at = "detect"]
                   ELSE [refresh EXCEPT ![p] = Quiet]
     /\ Fail(r, status)
     /\ disordered' = \/ disordered
                      \/ scored /\ \E q \in Scored : q > r
                      \/ r \in Scored /\ status # "complete"
     /\ UNCHANGED <<thread, outside, gate, bounds, auto>>

\* _detect_cv_lb_divergence: the row and the three scored ones submitted
\* before it, newest first.
Charted == {r \in Scored : rows[r].attempt # NoAttempt}

Newest(S, n) == {r \in S : Cardinality({q \in S : q > r}) < n}

\* Mutant of Chain: the row and the one before it.
ChainOfTwo(r) == {r} \cup Newest({q \in Charted : q < r}, 1)

Chain(r) == {r} \cup Newest({q \in Charted : q < r}, 3)

Diverged(r, q) ==
  CV[rows[r].attempt] > CV[rows[q].attempt] /\ LB[rows[r].attempt] < LB[rows[q].attempt]

\* How many neighbours of a chain diverge.
Divergences(chain) ==
  Cardinality({r \in chain : \E q \in chain : /\ q < r /\ \A s \in chain : s >= r \/ s <= q
                                              /\ Diverged(r, q)})

\* Mutant of Detect: one divergence is enough.
DetectOne(p) ==
  /\ refresh[p].at = "detect"
  /\ refresh' = IF Divergences(Chain(refresh[p].row)) >= 1
                THEN [refresh EXCEPT ![p].at = "isolate"]
                ELSE [refresh EXCEPT ![p] = Quiet]
  /\ UNCHANGED <<rows, thread, outside, gate, bounds, auto, history>>

Detect(p) ==
  /\ refresh[p].at = "detect"
  /\ refresh' = IF Divergences(Chain(refresh[p].row)) >= 2
                THEN [refresh EXCEPT ![p].at = "isolate"]
                ELSE [refresh EXCEPT ![p] = Quiet]
  /\ UNCHANGED <<rows, thread, outside, gate, bounds, auto, history>>

\* _apply_cv_lb_divergence_tripwire: two statements.
Isolate(p) ==
  /\ refresh[p].at = "isolate" /\ refresh' = [refresh EXCEPT ![p].at = "pause"]
  /\ isolated' = isolated \cup ({rows[refresh[p].row].attempt} \cap confirmed)
  /\ UNCHANGED <<rows, thread, outside, paused, bounds, auto, history>>

Pause(p) ==
  /\ refresh[p].at = "pause" /\ refresh' = [refresh EXCEPT ![p] = Quiet]
  /\ paused' = TRUE
  /\ UNCHANGED <<rows, thread, outside, isolated, bounds, auto, history>>

\* A statement fails; the sweep goes on with the next row.
Raises(p) ==
  /\ refresh[p].at # "idle" /\ Fault
  /\ refresh' = [refresh EXCEPT ![p] = Quiet]
  /\ UNCHANGED <<rows, thread, outside, gate, day, auto, history>>

Refresh(p) == Write(p) \/ Detect(p) \/ Isolate(p) \/ Pause(p) \/ Raises(p)

-----------------------------------------------------------------------------
(* The daemon dies and starts again: threads and calls are gone, a running    *)
(* subprocess with them, the rows stay.                                       *)
Crash ==
  /\ Fault
  /\ thread' = [r \in DOMAIN thread |-> "over"]
  /\ auto' = NoAuto /\ refresh' = [p \in Refreshers |-> Quiet]
  /\ UNCHANGED <<rows, outside, gate, day, history>>

\* A promotion adds a pipeline.
Confirm(a) ==
  /\ a \in Attempts \ confirmed /\ confirmed' = confirmed \cup {a}
  /\ UNCHANGED <<rows, thread, uploads, cached, gate, refresh, bounds, auto, history>>

\* Kaggle grades an upload, and drops old ones from its list.
Grade(u) ==
  /\ uploads[u].grade = "pending"
  /\ \E g \in Grades : uploads' = [uploads EXCEPT ![u].grade = g]
  /\ UNCHANGED <<rows, thread, cached, confirmed, gate, refresh, bounds, auto, history>>

Drop(u) ==
  /\ uploads[u].listed /\ uploads[u].day < day
  /\ \A v \in 1..(u - 1) : ~uploads[v].listed
  /\ uploads' = [uploads EXCEPT ![u].listed = FALSE]
  /\ UNCHANGED <<rows, thread, cached, confirmed, gate, refresh, bounds, auto, history>>

\* Time: rows outlive the timeout of an upload; a day begins; those of an
\* earlier day get older than _NOT_FOUND_STALE_HOURS.
Become(age, S) ==
  /\ S # {} /\ rows' = [r \in DOMAIN rows |-> IF r \in S THEN [rows[r] EXCEPT !.age = age] ELSE rows[r]]
  /\ UNCHANGED <<thread, outside, gate, refresh, bounds, auto, history>>

Timeout == Become("late", {r \in DOMAIN rows : rows[r].age = "fresh"})

Expire == Become("stale", {r \in DOMAIN rows : rows[r].day < day /\ rows[r].age = "late"})

Midnight ==
  /\ day < MaxDays /\ day' = day + 1
  /\ UNCHANGED <<rows, thread, outside, gate, refresh, faults, auto, history>>

Next ==
  \/ \E a \in ByHand : Submit(a)
  \/ AutoSubmit
  \/ \E r \in DOMAIN rows : Thread(r) \/ SweepPolls(r) \/ ApiPolls(r)
  \/ \E p \in Refreshers : Refresh(p)
  \/ \E a \in Attempts : Confirm(a)
  \/ \E u \in DOMAIN uploads : Grade(u) \/ Drop(u)
  \/ Crash \/ Timeout \/ Midnight \/ Expire

Spec == Init /\ [][Next]_vars

(* Threads end by the timeout of their subprocess; every sweep comes to every *)
(* row it selects, and of the polls that have an answer not all fail; Kaggle  *)
(* grades what it takes; time goes on within a day.                           *)
Fairness ==
  /\ \A r \in 1..MaxRows : /\ WF_vars(r \in DOMAIN rows /\ Thread(r))
                           /\ SF_vars(r \in DOMAIN rows /\ SweepPolls(r))
                           /\ WF_vars(r \in DOMAIN uploads /\ Grade(r))
  /\ WF_vars(Refresh("sweep")) /\ WF_vars(Timeout) /\ WF_vars(Expire)

FairSpec == Spec /\ Fairness

-----------------------------------------------------------------------------
Row == [attempt : Attempts \cup {NoAttempt}, by : {"auto", "hand"}, status : Statuses,
        scored : BOOLEAN, day : 1..MaxDays, age : {"fresh", "late", "stale"}]

Sending == [message : {"auto", "hand"} \X (Attempts \cup {NoAttempt}),
            grade : {"pending"} \cup Grades, day : 1..MaxDays, listed : BOOLEAN]

Answers == Grades \cup {"none", "unknown"}

TableTypes ==
  /\ rows \in Seq(Row) /\ Len(rows) <= MaxRows
  /\ thread \in Seq({"spawned", "over"} \cup Unsent \cup Sent) /\ Len(thread) = Len(rows)
  /\ \A q, r \in DOMAIN thread : thread[q] = "fitted" /\ thread[r] = "fitted" => q = r

OutsideTypes ==
  /\ uploads \in Seq(Sending)
  /\ cached \subseteq Attempts /\ confirmed \subseteq Attempts /\ isolated \subseteq confirmed
  /\ paused \in BOOLEAN

AutoTypes ==
  /\ auto \in [at : {"idle", "pick", "best", "last", "insert"}, left : 0..PerDay,
               todo : Seq(Attempts)]
  /\ auto.at = "pick" => auto.left # 0
  /\ auto.at \in {"last", "insert"} => auto.todo # <<>>

RefreshTypes ==
  /\ refresh \in [Refreshers -> [at : {"idle", "write", "detect", "isolate", "pause"},
                                 row : Nat, got : Answers]]
  /\ \A p \in Refreshers : refresh[p].at # "idle" => /\ refresh[p].row \in DOMAIN rows
                                                     /\ refresh[p].got # "none"

OtherTypes ==
  /\ day \in 1..MaxDays /\ faults \in 0..MaxFaults
  /\ failed \subseteq DOMAIN rows /\ disordered \in BOOLEAN

TypeOK == TableTypes /\ OutsideTypes /\ AutoTypes /\ RefreshTypes /\ OtherTypes

(* The day's budget: of the rows auto-submit inserts on a UTC day no more     *)
(* than SUBMISSIONS_PER_DAY are never in error (docs/runbook.md:171), although*)
(* the count is taken before the inserts and rows and days change in between. *)
(* A row in error is not counted and lets another one in; whether its thread  *)
(* or a refresh takes it out of its error again nobody asks.                  *)
BudgetUnlessFailed ==
  \A d \in 1..MaxDays :
    Cardinality({r \in DOMAIN rows \ failed : rows[r].day = d /\ rows[r].by = "auto"}) <= PerDay

(* No row stays open for good (the comment of _sweep_stale_submissions): once *)
(* its day is over it gets a status nothing looks at again and keeps one,     *)
(* although threads die with the daemon, answers fail and rows that were      *)
(* settled are written over.                                                  *)
Settled(r) == r \in DOMAIN rows /\ rows[r].status \in Terminal \cup {"unknown"}

EveryRowSettles ==
  \A r \in 1..MaxRows : (r \in DOMAIN rows /\ rows[r].day < day) ~> []Settled(r)

(* One divergence never stops auto-submit (_detect_cv_lb_divergence): a pause *)
(* needs two scored rows that contradict scored rows submitted before them.   *)
WithScore == {r \in DOMAIN rows : rows[r].scored /\ rows[r].attempt # NoAttempt}

PauseNeedsTwo ==
  paused => Cardinality({r \in WithScore : \E q \in WithScore : q < r /\ Diverged(r, q)}) >= 2

(* What the runbook promises of the tripwire: when two of the last three      *)
(* deltas diverge and nobody is about to look, the competition is paused.     *)
LookedAt == \A p \in Refreshers : refresh[p].at \notin {"detect", "isolate", "pause"}

DivergenceIsCaught ==
  LookedAt /\ Divergences(Newest(Charted, 4)) >= 2 => paused

(* It holds as long as rows complete in the order they were submitted in, no  *)
(* scored row is written over and no refresh is cut off between the write of  *)
(* the score and the check.                                                   *)
DivergenceIsCaughtInOrder == ~disordered /\ faults = 0 => DivergenceIsCaught
=============================================================================
