---------------------------- MODULE Deduplicator ----------------------------
(***************************************************************************)
(* The TTL-based webhook deduplicator (src/reviewer/queue/dedup.py).       *)
(*                                                                         *)
(* A delivery id is remembered with the instant it expires.  Expired       *)
(* entries are swept only when an eviction is due, so between two sweeps   *)
(* the table holds entries that no longer count.  The class is called from *)
(* one event loop and no method awaits: every call is one step.            *)
(*                                                                         *)
(* time.monotonic() is the variable now, in whole ticks; the empty         *)
(* delivery id ("" when the header is missing) is the value NoId.          *)
(***************************************************************************)
EXTENDS Integers

CONSTANTS
  DeliveryId,           (* delivery ids that may be asked about              *)
  NoId,                 (* the empty delivery id, never remembered           *)
  None,                 (* absence of a table entry                          *)
  Ttl,                  (* ttl_seconds                                       *)
  MinEvictionInterval,  (* the constant 60 of __init__                       *)
  MaxTime               (* bound of the model on the clock                   *)

ASSUME DedupAssumption ==
  /\ Ttl \in Nat \ {0}
  /\ MinEvictionInterval \in Nat
  /\ MaxTime \in Nat
  /\ None \notin Nat

VARIABLES
  now,                  (* time.monotonic()                                  *)
  seen,                 (* _seen: the expiry of each remembered id, or None  *)
  lastEviction          (* _last_eviction                                    *)

dedupVars == <<now, seen, lastEviction>>

EvictionInterval == IF Ttl > MinEvictionInterval THEN Ttl ELSE MinEvictionInterval

DedupInit ==
  /\ now = 0
  /\ seen = [id \in DeliveryId |-> None]
  /\ lastEviction = 0

EvictionDue == now - lastEviction >= EvictionInterval

(* The entry is still good at the instant now.                             *)
Live(id) == seen[id] # None /\ now < seen[id]

(* A faulty sweep, kept to show that the properties notice it.             *)
KeptInverted ==
  IF EvictionDue
  THEN [id \in DeliveryId |-> IF Live(id) THEN None ELSE seen[id]]
  ELSE seen

(* A faulty sweep: an entry is kept in the instant it expires.             *)
KeptAtExpiry ==
  IF EvictionDue
  THEN [id \in DeliveryId |-> IF seen[id] # None /\ now <= seen[id] THEN seen[id] ELSE None]
  ELSE seen

(* The table after _maybe_evict: swept when an eviction is due.            *)
Kept ==
  IF EvictionDue
  THEN [id \in DeliveryId |-> IF Live(id) THEN seen[id] ELSE None]
  ELSE seen

(* The answer of is_duplicate(id) in the current state.                    *)
Duplicate(id) == id # NoId /\ Kept[id] # None /\ now < Kept[id]

(* A faulty call: a duplicate renews the entry.                            *)
CheckRenews(id) ==
  /\ lastEviction' = IF EvictionDue THEN now ELSE lastEviction
  /\ seen' = IF id = NoId THEN seen ELSE [Kept EXCEPT ![id] = now + Ttl]
  /\ UNCHANGED now

(* What is_duplicate(id) does to the state: evict if due, then remember a  *)
(* new id for Ttl.                                                         *)
Check(id) ==
  /\ UNCHANGED now
  /\ IF id = NoId
     THEN UNCHANGED <<seen, lastEviction>>
     ELSE /\ lastEviction' = IF EvictionDue THEN now ELSE lastEviction
          /\ seen' = IF Duplicate(id) THEN Kept
                                      ELSE [Kept EXCEPT ![id] = now + Ttl]

(* clear(): forget everything.                                             *)
Clear ==
  /\ seen' = [id \in DeliveryId |-> None]
  /\ UNCHANGED <<now, lastEviction>>

(* The clock advances.                                                     *)
Tick ==
  /\ now < MaxTime
  /\ now' = now + 1
  /\ UNCHANGED <<seen, lastEviction>>

DedupTypeOK ==
  /\ now \in Nat
  /\ lastEviction \in 0..now
  /\ seen \in [DeliveryId -> Nat \cup {None}]
=============================================================================
