-------------------------- MODULE MCReviewService --------------------------
(* Two workers; a delivery for the pull request p and one with an empty id, *)
(* which may come any number of times, and a delivery for q.                *)
EXTENDS ReviewService, TLC
CONSTANTS d1, e1, empty, p, q, w1, w2
MCDelivery == {d1, e1, empty}
MCPullRequest == {p, q}
MCWorker == {w1, w2}
MCPrOf == [d \in MCDelivery |-> IF d = e1 THEN q ELSE p]
Symmetry == Permutations(MCWorker)
=============================================================================
