--------------------------- MODULE MCReviewAgent ---------------------------
(* Up to three iterations with up to two tool calls each.                   *)
EXTENDS ReviewAgent
=============================================================================
