--------------------------- MODULE DeliveryLedger ---------------------------
(***************************************************************************)
(* What deduplication promises, without a table to sweep: an id answered   *)
(* "new" is live for exactly Ttl, a live id is answered "duplicate", any   *)
(* other is answered "new", and the empty id is always "new".              *)
(***************************************************************************)
EXTENDS Integers

CONSTANTS DeliveryId, NoId, None, Ttl, MaxTime

VARIABLES
  now,
  live,      (* the expiry of each live id; None for every other id          *)
  answer     (* the last answer given: the id, when, and what                *)

ledgerVars == <<now, live, answer>>

Init ==
  /\ now = 0
  /\ live = [id \in DeliveryId |-> None]
  /\ answer = None

Ask(id) ==
  /\ answer' = [id |-> id, at |-> now, duplicate |-> live[id] # None]
  /\ live' = IF id = NoId \/ live[id] # None
             THEN live
             ELSE [live EXCEPT ![id] = now + Ttl]
  /\ UNCHANGED now

Forget ==
  /\ live' = [id \in DeliveryId |-> None]
  /\ answer' = None
  /\ UNCHANGED now

(* Time passes and every id whose time has come ceases to be live.         *)
Pass ==
  /\ now < MaxTime
  /\ now' = now + 1
  /\ live' = [id \in DeliveryId |-> IF live[id] # None /\ now' < live[id]
                                    THEN live[id] ELSE None]
  /\ UNCHANGED answer

Next == Pass \/ Forget \/ \E id \in DeliveryId : Ask(id)

Spec == Init /\ [][Next]_ledgerVars
=============================================================================
