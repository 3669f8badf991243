---------------------------- MODULE MCCycleQueue ----------------------------
(* Small instances of CycleQueue.                                          *)
EXTENDS CycleQueueLedger

CONSTANTS q1, q2, alpha, beta

TwoItems   == {q1, q2}

\* The items the API can bootstrap are for one competition, the others for
\* the second one.
CompOfTwo   == [q \in TwoItems |-> IF q = q1 THEN alpha ELSE beta]

OnlyFirst == {q1}
OnlyBeta  == {beta}

OnlyAlpha == {alpha}
OnlyTwo   == {2}
OnlyZero  == {0}
=============================================================================
