---------------------------- MODULE MCAiReviews ----------------------------
(* Small instances of AiReviews.                                           *)
EXTENDS AiReviews, TLC

CONSTANTS a1, a2, g1, g2, ra

\* All reviews are of one run.
RunOfReview == [r \in Reviews |-> ra]

NoFaults == {}
AllFaults == FaultKinds
LateAnswers == {"timeout"}
Exits == {"exit"}
\* The connection is lost with its process and never silent, and no interrupt is refused.
HonestFaults == {"exit", "stall", "output", "spawn"}
=============================================================================
