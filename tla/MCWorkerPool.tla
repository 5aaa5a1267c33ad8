---------------------------- MODULE MCWorkerPool ----------------------------
(* Two workers; three deliveries for the pull request p, one of them with   *)
(* an empty id, and one for q.                                              *)
EXTENDS WorkerPool
CONSTANTS d1, d2, e1, empty, p, q, w1, w2
MCDelivery == {d1, d2, e1, empty}
MCPullRequest == {p, q}
MCWorker == {w1, w2}
MCPrOf == [d \in MCDelivery |-> IF d = e1 THEN q ELSE p]
=============================================================================
