-------------------------- MODULE BaselineRegistry --------------------------
(***************************************************************************)
(* The confirmed baseline of one competition.  It is kept twice: as the    *)
(* rows of raw.pipelines (with the merged source each was promoted as) and *)
(* as one blob in MinIO, best_pipeline.py, that attempts are evaluated on  *)
(* and that promotions replace.  Writers of the two: the promote task of   *)
(* each super-cycle (bin/run_promote_task.py), the bootstrap baseline      *)
(* (cycle/run.py, bin/establish_baseline.py) and the operator's tools      *)
(* bin/quarantine_leaks.py, bin/establish_baseline.py --remeasure and      *)
(* bin/rebuild_best_pipeline.py.  What keeps them together: the            *)
(* transaction around insert and upload, and _baseline_source_guard.       *)
(*                                                                         *)
(* Attempts are numbered in the order of run_ts.  A merged source is the   *)
(* sequence of the attempts merged into it (materialize_best_pipeline      *)
(* appends one), so equal sequences stand for equal sha256.  Whether a     *)
(* gain is significant, a candidate is confirmed or a merge reproduces its *)
(* score is left open, except that two significance tests on the same      *)
(* numbers agree.  An attempt has at most one row here: one established    *)
(* again after a quarantine, a second row in the table, is valid again.    *)
(***************************************************************************)
EXTENDS Integers, FiniteSets, SequencesExt

CONSTANTS
    Runs,        \* DAG runs, one super-cycle each
    Slots,       \* attempt tasks of a run
    MaxAttempts, \* bound: attempts ever stored
    Overlap,     \* may a run start while an earlier one has not promoted yet?
    LiveTools,   \* are baselines established and the operator's tools used
                 \* while runs are active?
    MaxDeaths,   \* bound: promote tasks and tools killed half way
    MaxFaults,   \* bound: uploads that fail (answered or not), reads of the blob that
                 \* fail, train data that does not load
    MaxTools     \* bound: uses of the operator's tools

ASSUME RegistryAssumption ==
    /\ MaxAttempts \in Nat /\ MaxDeaths \in Nat /\ MaxFaults \in Nat /\ MaxTools \in Nat
    /\ Overlap \in BOOLEAN /\ LiveTools \in BOOLEAN

Attempts == 1..MaxAttempts
Nobody   == 0
Sources  == Seq(Attempts)   \* <<>>: no blob

VARIABLES
    \* raw.attempts
    count,    \* attempts stored so far
    owner,    \* super_cycle_id
    label,    \* label, "none" before the row exists
    judged,   \* the valid rows its label was judged against
    marked,   \* was_promoted
    \* raw.pipelines, by attempt_id
    row,      \* "none", "valid" (invalid_reason is null) or "invalid"
    mat,      \* materialized_code, with its sha256 the trusted one
    \* MinIO and raw.competitions
    blob,     \* best_pipeline.py
    paused,   \* auto_submit_paused_reason, as the source guard sets it
    \* the tasks of a run
    apc,      \* attempt tasks: "todo", "guarded", "loaded", "eval" or "over"
    base,     \* the best pipeline an attempt task works on (prev_code)
    seen,     \* the valid rows when it read the baseline's fold scores
    hadBest,  \* super_cycle_context.prev_best_cv is not null
    ppc,      \* the run, then its promote task
    winner,   \* the attempt _pick_winner chose
    current,  \* current_best of the promote task
    \* establish_bootstrap_baseline, establish_baseline
    epc, chosen,
    \* rebuild_best_pipeline
    tpc, replay,
    deaths, faults, tools,
    blind     \* has a read of the blob failed and been taken for its absence?

attemptVars   == <<count, owner, label, judged>>
taskVars      == <<apc, base, seen>>
promoteVars   == <<hadBest, ppc, winner, current>>
establishVars == <<epc, chosen>>
toolVars      == <<tpc, replay>>
boundVars     == <<deaths, faults, tools, blind>>
vars == <<attemptVars, marked, row, mat, blob, paused, taskVars, promoteVars,
          establishVars, toolVars, boundVars>>

Valid    == {a \in Attempts : row[a] = "valid"}
Latest   == CHOOSE a \in Valid : \A b \in Valid : b <= a   \* order by run_ts desc limit 1
Rank(a, S) == Cardinality({b \in S : b <= a})
InOrder(S) == [i \in 1..Cardinality(S) |-> CHOOSE a \in S : Rank(a, S) = i]
Rows(r)  == {a \in 1..count : owner[a] = r}
Tasks    == Runs \X Slots
Steps    == {"stage1", "guard", "fetch", "confirm", "verify", "upload", "commit"}
Active   == {r \in Runs : ppc[r] = "open" \/ ppc[r] \in Steps}
Quiet    == Active = {} /\ epc = "idle" /\ tpc = "idle"

AttemptTypes ==
    /\ count \in 0..MaxAttempts
    /\ owner \in [Attempts -> Runs \cup {Nobody}]
    /\ label \in [Attempts -> {"none", "jump", "other", "error"}]
    /\ judged \in [Attempts -> SUBSET Attempts]

StoreTypes ==
    /\ marked \in SUBSET Attempts
    /\ row \in [Attempts -> {"none", "valid", "invalid"}]
    /\ mat \in [Attempts -> Sources]
    /\ blob \in Sources
    /\ paused \in BOOLEAN

TaskTypes ==
    /\ apc \in [Tasks -> {"todo", "guarded", "loaded", "eval", "over"}]
    /\ base \in [Tasks -> Sources]
    /\ seen \in [Tasks -> SUBSET Attempts]

PromoteTypes ==
    /\ hadBest \in [Runs -> BOOLEAN]
    /\ ppc \in [Runs -> {"off", "open", "over"} \cup Steps]
    /\ winner \in [Runs -> Attempts \cup {Nobody}]
    /\ current \in [Runs -> Sources]

OtherTypes ==
    /\ epc \in {"idle", "confirm", "upload", "commit"}
    /\ chosen \in Attempts \cup {Nobody}
    /\ tpc \in {"idle", "upload", "record"}
    /\ replay \in Sources
    /\ deaths \in Nat /\ faults \in Nat /\ tools \in Nat /\ blind \in BOOLEAN

TypeOK == AttemptTypes /\ StoreTypes /\ TaskTypes /\ PromoteTypes /\ OtherTypes

Init ==
    /\ count = 0
    /\ owner = [a \in Attempts |-> Nobody]
    /\ label = [a \in Attempts |-> "none"]
    /\ judged = [a \in Attempts |-> {}]
    /\ marked = {}
    /\ row = [a \in Attempts |-> "none"]
    /\ mat = [a \in Attempts |-> <<>>]
    /\ blob = <<>> /\ paused = FALSE
    /\ apc = [t \in Tasks |-> "todo"] /\ base = [t \in Tasks |-> <<>>]
    /\ seen = [t \in Tasks |-> {}]
    /\ hadBest = [r \in Runs |-> FALSE]
    /\ ppc = [r \in Runs |-> "off"]
    /\ winner = [r \in Runs |-> Nobody]
    /\ current = [r \in Runs |-> <<>>]
    /\ epc = "idle" /\ chosen = Nobody
    /\ tpc = "idle" /\ replay = <<>>
    /\ deaths = 0 /\ faults = 0 /\ tools = 0 /\ blind = FALSE

-----------------------------------------------------------------------------
(* download_best_pipeline answers b: the blob, or nothing when the GET     *)
(* raised whatever it raised.                                              *)

Download(b) ==
    \/ b = blob /\ UNCHANGED <<faults, blind>>
    \/ /\ b = <<>> /\ blob # <<>>
       /\ faults < MaxFaults /\ faults' = faults + 1
       /\ blind' = TRUE

Downloads == {blob, <<>>}

(* _baseline_source_guard: no blob or no valid row passes, otherwise the   *)
(* blob has to be what the latest valid row was promoted as.               *)

\* Mutant of GuardPasses: no guard.
GuardIsBlind(b) == TRUE

GuardPasses(b) == b = <<>> \/ Valid = {} \/ b = mat[Latest]

-----------------------------------------------------------------------------
(* One super-cycle up to its promote task.                                 *)

\* run_retrieve_task.  The daemon starts the next cycle when the promote task
\* of the last one has ended; attempt tasks of it may still be running.
Retrieve(r) ==
    /\ ppc[r] = "off"
    /\ Overlap \/ Active = {}
    /\ LiveTools \/ (epc = "idle" /\ tpc = "idle")
    /\ ppc' = [ppc EXCEPT ![r] = "open"]
    /\ hadBest' = [hadBest EXCEPT ![r] = Valid # {}]
    /\ UNCHANGED <<attemptVars, marked, row, mat, blob, paused, taskVars, winner, current,
                   establishVars, toolVars, boundVars>>

\* run_attempt_core begins with the guard ...
AttemptGuard(t, b) ==
    /\ apc[t] = "todo" /\ ppc[t[1]] # "off"
    /\ Download(b)
    /\ apc' = [apc EXCEPT ![t] = IF GuardPasses(b) THEN "guarded" ELSE "over"]
    /\ paused' = (paused \/ ~GuardPasses(b))
    /\ UNCHANGED <<attemptVars, marked, row, mat, blob, base, seen, promoteVars,
                   establishVars, toolVars, deaths, tools>>

\* ... reads the blob again, a few queries later ...
AttemptLoad(t, b) ==
    /\ apc[t] = "guarded"
    /\ Download(b)
    /\ apc' = [apc EXCEPT ![t] = "loaded"]
    /\ base' = [base EXCEPT ![t] = b]
    /\ UNCHANGED <<attemptVars, marked, row, mat, blob, paused, seen, promoteVars,
                   establishVars, toolVars, deaths, tools>>

\* ... and the fold scores it is judged against after the code is generated.
AttemptBaseline(t) ==
    /\ apc[t] = "loaded"
    /\ apc' = [apc EXCEPT ![t] = "eval"]
    /\ seen' = [seen EXCEPT ![t] = Valid]
    /\ UNCHANGED <<attemptVars, marked, row, mat, blob, paused, base, promoteVars,
                   establishVars, toolVars, boundVars>>

\* What the task had read goes with it.
Over(t) ==
    /\ apc' = [apc EXCEPT ![t] = "over"]
    /\ base' = [base EXCEPT ![t] = <<>>]
    /\ seen' = [seen EXCEPT ![t] = {}]

\* insert_attempt, with was_promoted = False.  Without a best score in the
\* context and without baseline folds no gain is significant.
AttemptStore(t, l) ==
    LET a == count + 1 IN
    /\ apc[t] = "eval" /\ count < MaxAttempts
    /\ l = "jump" => hadBest[t[1]] \/ seen[t] # {}
    /\ count' = a
    /\ owner' = [owner EXCEPT ![a] = t[1]]
    /\ label' = [label EXCEPT ![a] = l]
    /\ judged' = [judged EXCEPT ![a] = seen[t]]
    /\ Over(t)
    /\ UNCHANGED <<marked, row, mat, blob, paused, promoteVars, establishVars, toolVars,
                   boundVars>>

\* Airflow kills an attempt task at its execution timeout.
AttemptDies(t) ==
    /\ apc[t] \in {"guarded", "loaded", "eval"}
    /\ Over(t)
    /\ UNCHANGED <<attemptVars, marked, row, mat, blob, paused, promoteVars, establishVars,
                   toolVars, boundVars>>

-----------------------------------------------------------------------------
(* run_promote_task.                                                       *)

Step(r, from, to) == ppc[r] = from /\ ppc' = [ppc EXCEPT ![r] = to]

\* The attempts stored when the gate let go of the run, stragglers left out.
\* The winner is marked before anything is known of it but its score.
PickWinner(r, w) ==
    /\ Step(r, "open", IF w = Nobody THEN "over" ELSE "stage1")
    /\ w \in Rows(r) \/ (w = Nobody /\ \A a \in Rows(r) : label[a] = "error")
    /\ winner' = [winner EXCEPT ![r] = w]
    /\ marked' = (marked \ Rows(r)) \cup ({w} \ {Nobody})
    /\ UNCHANGED <<attemptVars, row, mat, blob, paused, taskVars, hadBest, current,
                   establishVars, toolVars, boundVars>>

\* is_significant_gain once more: against the same rows it says the same, and
\* no attempt is significantly better than itself.
Stage1(r, significant) ==
    LET w == winner[r] IN
    /\ Step(r, "stage1", IF significant THEN "guard" ELSE "over")
    /\ significant => label[w] # "error" /\ w \notin Valid
    /\ judged[w] = Valid => significant = (label[w] = "jump")
    /\ UNCHANGED <<attemptVars, marked, row, mat, blob, paused, taskVars, hadBest, winner,
                   current, establishVars, toolVars, boundVars>>

\* BaselineSourceMismatchError ends the task; the winner stays marked.
PromoteGuard(r, b) ==
    /\ Step(r, "guard", IF GuardPasses(b) THEN "fetch" ELSE "over")
    /\ Download(b)
    /\ paused' = (paused \/ ~GuardPasses(b))
    /\ UNCHANGED <<attemptVars, marked, row, mat, blob, taskVars, hadBest, winner, current,
                   establishVars, toolVars, deaths, tools>>

Fetch(r, b) ==
    /\ Step(r, "fetch", "confirm")
    /\ Download(b)
    /\ current' = [current EXCEPT ![r] = b]
    /\ UNCHANGED <<attemptVars, marked, row, mat, blob, paused, taskVars, hadBest, winner,
                   establishVars, toolVars, deaths, tools>>

\* The train data (or the winner's source) did not load: no confirmation, no
\* promotion, still marked.
NoTrain(r) ==
    /\ Step(r, "fetch", "over")
    /\ faults < MaxFaults /\ faults' = faults + 1
    /\ UNCHANGED <<attemptVars, marked, row, mat, blob, paused, taskVars, hadBest, winner,
                   current, establishVars, toolVars, deaths, tools, blind>>

\* _confirm_winner and the merge-verify of _promote_winner pass ...
Accept(r) ==
    /\ Step(r, "confirm", "verify") \/ Step(r, "verify", "upload")
    /\ UNCHANGED <<attemptVars, marked, row, mat, blob, paused, taskVars, hadBest, winner,
                   current, establishVars, toolVars, boundVars>>

\* Mutant of Reject: the mark stays.
RejectKeepsMark(r) ==
    /\ Step(r, "confirm", "over") \/ Step(r, "verify", "over")
    /\ UNCHANGED <<attemptVars, marked, row, mat, blob, paused, taskVars, hadBest, winner,
                   current, establishVars, toolVars, boundVars>>

\* ... or take the mark back.
Reject(r) ==
    /\ Step(r, "confirm", "over") \/ Step(r, "verify", "over")
    /\ marked' = marked \ {winner[r]}
    /\ UNCHANGED <<attemptVars, row, mat, blob, paused, taskVars, hadBest, winner,
                   current, establishVars, toolVars, boundVars>>

\* Inside the transaction, after the insert nobody sees yet.
Merged(r) == Append(current[r], winner[r])

Upload(r) ==
    /\ Step(r, "upload", "commit")
    /\ blob' = Merged(r)
    /\ UNCHANGED <<attemptVars, marked, row, mat, paused, taskVars, hadBest, winner, current,
                   establishVars, toolVars, boundVars>>

\* The PUT raised, before or after MinIO had stored the object: the insert is
\* rolled back and the mark is taken back.
UploadFails(r) ==
    /\ Step(r, "upload", "over")
    /\ faults < MaxFaults /\ faults' = faults + 1
    /\ blob' \in {blob, Merged(r)}
    /\ marked' = marked \ {winner[r]}
    /\ UNCHANGED <<attemptVars, row, mat, paused, taskVars, hadBest, winner, current,
                   establishVars, toolVars, deaths, tools, blind>>

Commit(r) ==
    /\ Step(r, "commit", "over")
    /\ row' = [row EXCEPT ![winner[r]] = "valid"]
    /\ mat' = [mat EXCEPT ![winner[r]] = Merged(r)]
    /\ UNCHANGED <<attemptVars, marked, blob, paused, taskVars, hadBest, winner, current,
                   establishVars, toolVars, boundVars>>

\* The task is killed, or its commit fails: an open transaction is rolled back.
PromoteDies(r) ==
    /\ ppc[r] \in Steps /\ ppc' = [ppc EXCEPT ![r] = "over"]
    /\ deaths < MaxDeaths /\ deaths' = deaths + 1
    /\ UNCHANGED <<attemptVars, marked, row, mat, blob, paused, taskVars, hadBest, winner,
                   current, establishVars, toolVars, faults, tools, blind>>

-----------------------------------------------------------------------------
(* establish_bootstrap_baseline and bin/establish_baseline.py: a stored    *)
(* attempt without error becomes the first layer of a new baseline.        *)

EstablishStep(from, to) == epc = from /\ epc' = to

\* Mutant of EstablishPick: a confirmed baseline does not stop it.
EstablishPickAnyway(a) ==
    /\ EstablishStep("idle", "confirm")
    /\ LiveTools \/ (Active = {} /\ tpc = "idle")
    /\ a \in 1..count /\ label[a] # "error"
    /\ chosen' = a
    /\ UNCHANGED <<attemptVars, marked, row, mat, blob, paused, taskVars, promoteVars,
                   toolVars, boundVars>>

EstablishPick(a) ==
    /\ EstablishStep("idle", "confirm")
    /\ LiveTools \/ (Active = {} /\ tpc = "idle")
    /\ Valid = {}
    /\ a \in 1..count /\ label[a] # "error"
    /\ chosen' = a
    /\ UNCHANGED <<attemptVars, marked, row, mat, blob, paused, taskVars, promoteVars,
                   toolVars, boundVars>>

\* The tool goes on to the next of its candidates without asking again.
EstablishNext(a) ==
    /\ epc = "confirm" /\ a # chosen
    /\ a \in 1..count /\ label[a] # "error"
    /\ chosen' = a
    /\ UNCHANGED <<attemptVars, marked, row, mat, blob, paused, taskVars, promoteVars, epc,
                   toolVars, boundVars>>

EstablishConfirm(confirmed) ==
    /\ EstablishStep("confirm", IF confirmed THEN "upload" ELSE "idle")
    /\ UNCHANGED <<attemptVars, marked, row, mat, blob, paused, taskVars, promoteVars, chosen,
                   toolVars, boundVars>>

EstablishUpload ==
    /\ EstablishStep("upload", "commit")
    /\ blob' = <<chosen>>
    /\ UNCHANGED <<attemptVars, marked, row, mat, paused, taskVars, promoteVars, chosen,
                   toolVars, boundVars>>

EstablishCommit ==
    /\ EstablishStep("commit", "idle")
    /\ row' = [row EXCEPT ![chosen] = "valid"]
    /\ mat' = [mat EXCEPT ![chosen] = <<chosen>>]
    /\ UNCHANGED <<attemptVars, marked, blob, paused, taskVars, promoteVars, chosen,
                   toolVars, boundVars>>

EstablishDies ==
    /\ epc # "idle" /\ epc' = "idle"
    /\ deaths < MaxDeaths /\ deaths' = deaths + 1
    /\ UNCHANGED <<attemptVars, marked, row, mat, blob, paused, taskVars, promoteVars, chosen,
                   toolVars, faults, tools, blind>>

-----------------------------------------------------------------------------
(* The operator's tools.                                                   *)

MayUseTool ==
    /\ tpc = "idle" /\ tools < MaxTools /\ tools' = tools + 1
    /\ LiveTools \/ Quiet

\* quarantine_leaks, or a row --remeasure cannot evaluate any more.
Quarantine(a) ==
    /\ MayUseTool
    /\ row[a] = "valid"
    /\ row' = [row EXCEPT ![a] = "invalid"]
    /\ UNCHANGED <<attemptVars, marked, mat, blob, paused, taskVars, promoteVars,
                   establishVars, toolVars, deaths, faults, blind>>

\* rebuild_best_pipeline merges the valid rows in the order of run_ts; without
\* a valid row it exits and leaves the blob alone.
RebuildReplay ==
    /\ MayUseTool
    /\ Valid # {}
    /\ tpc' = "upload"
    /\ replay' = InOrder(Valid)
    /\ UNCHANGED <<attemptVars, marked, row, mat, blob, paused, taskVars, promoteVars,
                   establishVars, deaths, faults, blind>>

RebuildUpload ==
    /\ tpc = "upload" /\ tpc' = "record"
    /\ blob' = replay
    /\ UNCHANGED <<attemptVars, marked, row, mat, paused, taskVars, promoteVars,
                   establishVars, replay, boundVars>>

\* The replay becomes what the latest valid row is trusted for.
RebuildRecord ==
    /\ tpc = "record" /\ tpc' = "idle"
    /\ mat' = IF Valid = {} THEN mat ELSE [mat EXCEPT ![Latest] = replay]
    /\ UNCHANGED <<attemptVars, marked, row, blob, paused, taskVars, promoteVars,
                   establishVars, replay, boundVars>>

RebuildDies ==
    /\ tpc # "idle" /\ tpc' = "idle"
    /\ deaths < MaxDeaths /\ deaths' = deaths + 1
    /\ UNCHANGED <<attemptVars, marked, row, mat, blob, paused, taskVars, promoteVars,
                   establishVars, replay, faults, tools, blind>>

\* UPDATE raw.competitions SET auto_submit_paused_reason = NULL, by hand.
Unpause ==
    /\ paused /\ paused' = FALSE
    /\ MayUseTool
    /\ UNCHANGED <<attemptVars, marked, row, mat, blob, taskVars, promoteVars,
                   establishVars, toolVars, deaths, faults, blind>>

-----------------------------------------------------------------------------
Attempt(t) ==
    \/ \E b \in Downloads : AttemptGuard(t, b) \/ AttemptLoad(t, b)
    \/ AttemptBaseline(t) \/ AttemptDies(t)
    \/ \E l \in {"jump", "other", "error"} : AttemptStore(t, l)

Promote(r) ==
    \/ \E w \in Attempts \cup {Nobody} : PickWinner(r, w)
    \/ \E s \in BOOLEAN : Stage1(r, s)
    \/ \E b \in Downloads : PromoteGuard(r, b) \/ Fetch(r, b)
    \/ NoTrain(r) \/ Accept(r) \/ Reject(r)
    \/ Upload(r) \/ UploadFails(r) \/ Commit(r) \/ PromoteDies(r)

Establish ==
    \/ \E a \in Attempts : EstablishPick(a) \/ EstablishNext(a)
    \/ \E c \in BOOLEAN : EstablishConfirm(c)
    \/ EstablishUpload \/ EstablishCommit \/ EstablishDies

Operator ==
    \/ \E a \in Attempts : Quarantine(a)
    \/ RebuildReplay \/ RebuildUpload \/ RebuildRecord \/ RebuildDies \/ Unpause

Next ==
    \/ \E t \in Tasks : Attempt(t)
    \/ \E r \in Runs : Retrieve(r) \/ Promote(r)
    \/ Establish \/ Operator

Spec == Init /\ [][Next]_vars

-----------------------------------------------------------------------------
(* Properties.                                                             *)

NewlyValid(a) == row[a] # "valid" /\ row'[a] = "valid"
InTransaction == epc = "commit" \/ \E r \in Runs : ppc[r] = "commit"

\* With one run at a time and the operator's tools kept out of runs, every
\* promotion builds on exactly what the registry vouches for, whatever uploads
\* failed, were stored without an answer or were cut off before the commit, and
\* whatever was quarantined: no confirmed layer is merged over - unless a read
\* of the blob failed.
PromotionsStack ==
    [][\A a \in Attempts : NewlyValid(a) /\ ~blind =>
          mat'[a] = IF Valid = {} THEN <<a>> ELSE Append(mat[Latest], a)]_vars

\* Under the same conditions a blob the guard lets pass contains every
\* confirmed improvement, so _prev_best (the best valid row) and confirmation
\* (against the blob) judge by the same baseline.
PassedBlobIsComplete ==
    GuardPasses(blob) /\ ~InTransaction /\ tpc = "idle" /\ ~blind => Valid \subseteq ToSet(blob)

\* A jump that stays marked as promoted is a pipeline, as long as no task died
\* and nothing failed: a guard that fails does so before the attempts of the
\* run, never between their jump and its promotion.
JumpMarksUnlessFaulty ==
    deaths = 0 /\ faults = 0 =>
        \A a \in marked : label[a] = "jump" /\ ppc[owner[a]] = "over" => row[a] # "none"
=============================================================================
