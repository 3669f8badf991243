----------------------------- MODULE WorkLedger -----------------------------
(***************************************************************************)
(* What the cycle queue promises, whatever the daemon and the API do in    *)
(* between: work is submitted, leased to one holder at a time, paid for    *)
(* cycle by cycle up to what it was submitted for, and, once the holder    *)
(* has let go of it with a final status, over for good.                    *)
(*                                                                         *)
(* A cancellation of leased work is not part of the promise before the     *)
(* lease ends: the holder may overwrite it (see CancelIsFinal in           *)
(* CycleQueueHistory).  One of work nobody holds is.                       *)
(***************************************************************************)
EXTENDS Integers

CONSTANT Items

VARIABLES
    phase,  \* "absent", "waiting", "leased" or "over"
    owed,   \* cycles the item was submitted for
    paid    \* cycles accounted for

vars == <<phase, owed, paid>>

Init ==
    /\ phase = [q \in Items |-> "absent"]
    /\ owed \in [Items -> {0}]
    /\ paid \in [Items -> {0}]

Submit(F) ==
    /\ \A q \in F : phase[q] = "absent"
    /\ phase' = [q \in Items |-> IF q \in F THEN "waiting" ELSE phase[q]]
    /\ owed' \in [Items -> Nat]
    /\ \A q \in Items \ F : owed'[q] = owed[q]
    /\ UNCHANGED paid

LeaseOut(q) ==
    /\ phase[q] = "waiting"
    /\ \A p \in Items : phase[p] # "leased"
    /\ phase' = [phase EXCEPT ![q] = "leased"]
    /\ UNCHANGED <<owed, paid>>

\* The holder accounts for progress and keeps the lease (to = "leased"),
\* returns the item, or ends it.
Account(q, to) ==
    /\ phase[q] = "leased"
    /\ phase' = [phase EXCEPT ![q] = to]
    /\ paid'[q] >= paid[q] /\ paid'[q] <= owed[q]
    /\ paid' = [paid EXCEPT ![q] = paid'[q]]
    /\ UNCHANGED owed

Withdraw(q) ==
    /\ phase[q] = "waiting"
    /\ phase' = [phase EXCEPT ![q] = "over"]
    /\ UNCHANGED <<owed, paid>>

Next ==
    \/ \E F \in SUBSET Items : Submit(F)
    \/ \E q \in Items : LeaseOut(q) \/ Withdraw(q)
    \/ \E q \in Items, to \in {"waiting", "leased", "over"} : Account(q, to)

Spec == Init /\ [][Next]_vars
=============================================================================
