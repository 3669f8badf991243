------------------------ MODULE MCCycleQueueHistory -------------------------
(* Small instances of CycleQueueHistory.                                   *)
EXTENDS CycleQueueHistory

CONSTANTS q1, q2, alpha, beta

TwoItems    == {q1, q2}
CompOfTwo   == [q \in TwoItems |-> IF q = q1 THEN alpha ELSE beta]
Nothing     == {}
OnlyBeta    == {beta}
OnlyFirst   == {q1}
OnlyAlpha   == {alpha}
ZeroOrThree == {0, 3}
OnlyTwo     == {2}
LowHigh     == {0, 1}
OnlyZero    == {0}
=============================================================================
