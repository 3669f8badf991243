------------------------- MODULE MCBaselineRegistry -------------------------
(* Small instances of BaselineRegistry.                                    *)
EXTENDS BaselineRegistry

CONSTANTS r1, r2, r3

TwoRuns   == {r1, r2}
ThreeRuns == {r1, r2, r3}
OneSlot   == {1}
=============================================================================
