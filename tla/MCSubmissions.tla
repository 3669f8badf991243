--------------------------- MODULE MCSubmissions ---------------------------
(* Instances of Submissions for TLC.                                          *)
EXTENDS Submissions

CONSTANTS a1, a2, a3
MCFirst == {a1}
MCTwo   == {a1, a2}
MCThree == {a1, a2, a3}

\* Each attempt is better by cross-validation and worse on the leaderboard.
MCCV == [a \in Attempts |-> CASE a = a1 -> 1 [] a = a2 -> 2 [] a = a3 -> 3]
MCLB == [a \in Attempts |-> CASE a = a1 -> 3 [] a = a2 -> 2 [] a = a3 -> 1]

MCGains == {<<a2, a1>>}
=============================================================================
