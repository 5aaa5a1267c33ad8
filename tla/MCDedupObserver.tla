--------------------------- MODULE MCDedupObserver ---------------------------
(* Three ids, one of them empty; TTL 2 and a sweep every 3 ticks, so that   *)
(* an entry can expire before, at and after the sweep that removes it.      *)
EXTENDS DedupObserver
CONSTANTS d1, d2, empty
MCDeliveryId == {d1, d2, empty}
=============================================================================
