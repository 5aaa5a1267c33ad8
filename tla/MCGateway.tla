------------------------------ MODULE MCGateway ------------------------------
(* Two requests at a time, of two clients and one delivery.  A client may   *)
(* make one request in a window of two ticks, so a tick brings half a token *)
(* and an idle bucket fills up before the sweep, at the last tick.          *)
EXTENDS Gateway, TLC
CONSTANTS c1, c2, d1, s1, s2
MCClient == {c1, c2}
MCDeliveryId == {d1}
MCSlot == {s1, s2}
Symmetry == Permutations(MCClient) \cup Permutations(MCSlot)
=============================================================================
