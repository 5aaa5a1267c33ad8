---------------------------- MODULE RateLimiter ----------------------------
(***************************************************************************)
(* The per-client token buckets of src/reviewer/middleware/ratelimit.py.   *)
(*                                                                         *)
(* dispatch() reads the clock, sweeps the table of buckets, finds or makes *)
(* the client's bucket and charges it, all without an await: one step.     *)
(*                                                                         *)
(* Time is in whole ticks of time.monotonic().  A bucket refills by        *)
(* MaxRequests / Window tokens a tick, so tokens are counted in units of   *)
(* 1/Window: a request costs Window units and a tick brings MaxRequests.   *)
(* The rounding of floats is left out.                                     *)
(*                                                                         *)
(* An observer who begins to count at the instant since, whichever it is,  *)
(* states what the buckets add up to.                                      *)
(***************************************************************************)
EXTENDS Integers

CONSTANTS
  Client,              (* client addresses                                   *)
  MaxRequests,         (* max_requests                                       *)
  Window,              (* window_seconds                                     *)
  MinCleanupInterval,  (* the constant 120 of __init__                       *)
  NoBucket,            (* absence of a table entry                           *)
  MaxTime              (* bound of the model on the clock                    *)

ASSUME LimiterAssumption ==
  /\ MaxRequests \in Nat \ {0}
  /\ Window \in Nat \ {0}
  /\ MinCleanupInterval \in Nat
  /\ MaxTime \in Nat
  /\ NoBucket \notin [tokens : Nat, last : Nat]

VARIABLES
  now,          (* time.monotonic()                                          *)
  buckets,      (* _buckets: the bucket of each client, or NoBucket          *)
  lastCleanup,  (* _last_cleanup                                             *)
  since,        (* the instant from which the observer counts                *)
  admitted,     (* history: requests let through since then, by client       *)
  cleanups      (* history: sweeps of the table since then                   *)

limiterVars == <<now, buckets, lastCleanup, since, admitted, cleanups>>

Capacity == MaxRequests * Window
CleanupInterval ==
  IF 2 * Window > MinCleanupInterval THEN 2 * Window ELSE MinCleanupInterval

Bucket == [tokens : 0..Capacity, last : 0..now]

LimiterInit ==
  /\ now = 0
  /\ buckets = [c \in Client |-> NoBucket]
  /\ lastCleanup = 0
  /\ since \in 0..MaxTime
  /\ admitted = [c \in Client |-> 0]
  /\ cleanups = 0

CleanupDue == now - lastCleanup >= CleanupInterval

(* The bucket charged for c: the table has just been swept if that was     *)
(* due, and a client without a bucket gets a full one.                     *)
BucketOf(c) ==
  IF CleanupDue \/ buckets[c] = NoBucket
  THEN [tokens |-> Capacity, last |-> now]
  ELSE buckets[c]

(* A faulty refill: a bucket left alone for long overflows.                *)
RefilledUncapped(b) == b.tokens + (now - b.last) * MaxRequests

(* The tokens of a bucket at the instant now.                              *)
Refilled(b) ==
  IF b.tokens + (now - b.last) * MaxRequests < Capacity
  THEN b.tokens + (now - b.last) * MaxRequests
  ELSE Capacity

Level(c) == Refilled(BucketOf(c))

(* A request of c would be let through: there is a whole token.            *)
Allowed(c) == Level(c) >= Window

Counting == now >= since

(* A faulty call: a refused request empties its bucket.                    *)
ConsumePunishes(c) ==
  /\ buckets' = [d \in Client |->
       IF d = c THEN [tokens |-> IF Allowed(c) THEN Level(c) - Window ELSE 0, last |-> now]
       ELSE IF CleanupDue THEN NoBucket ELSE buckets[d]]
  /\ lastCleanup' = IF CleanupDue THEN now ELSE lastCleanup
  /\ cleanups' = IF CleanupDue /\ Counting THEN cleanups + 1 ELSE cleanups
  /\ admitted' = IF Allowed(c) /\ Counting THEN [admitted EXCEPT ![c] = @ + 1] ELSE admitted
  /\ UNCHANGED <<now, since>>

(* dispatch() for a request of c: sweep if due, refill the bucket, take a  *)
(* token if there is a whole one.  The time of the refill is noted even    *)
(* when the request is refused.                                            *)
Consume(c) ==
  /\ buckets' = [d \in Client |->
       IF d = c THEN [tokens |-> IF Allowed(c) THEN Level(c) - Window ELSE Level(c), last |-> now]
       ELSE IF CleanupDue THEN NoBucket ELSE buckets[d]]
  /\ lastCleanup' = IF CleanupDue THEN now ELSE lastCleanup
  /\ cleanups' = IF CleanupDue /\ Counting THEN cleanups + 1 ELSE cleanups
  /\ admitted' = IF Allowed(c) /\ Counting THEN [admitted EXCEPT ![c] = @ + 1] ELSE admitted
  /\ UNCHANGED <<now, since>>

Tick ==
  /\ now < MaxTime
  /\ now' = now + 1
  /\ UNCHANGED <<buckets, lastCleanup, since, admitted, cleanups>>

LimiterTypeOK ==
  /\ now \in Nat
  /\ buckets \in [Client -> Bucket \cup {NoBucket}]
  /\ lastCleanup \in 0..now
  /\ since \in Nat
  /\ admitted \in [Client -> Nat]
  /\ cleanups \in Nat

-----------------------------------------------------------------------------
Elapsed == IF Counting THEN now - since ELSE 0

(* The sweeps, which forget what clients have used, are rare: two of them  *)
(* lie at least a cleanup interval apart (_maybe_cleanup).                 *)
CleanupsAreRare == (cleanups - 1) * CleanupInterval <= Elapsed

(* How much the limit leaks: in any stretch of time a client gets through  *)
(* at most what a full bucket and the refill of the stretch allow, and a   *)
(* full bucket more for every sweep in it, of which there are few.  Over   *)
(* one window that is twice max_requests, and three times with a sweep.    *)
AdmissionsBounded ==
  /\ CleanupsAreRare
  /\ \A c \in Client :
       admitted[c] * Window <= (1 + cleanups) * Capacity + Elapsed * MaxRequests

(* No client is refused that has not used its share: a request refused a   *)
(* whole window after the counting began follows at least max_requests     *)
(* that were let through; refused ones cost nothing.                       *)
RefusalIsEarned ==
  \A c \in Client : (Elapsed >= Window /\ ~Allowed(c)) => admitted[c] >= MaxRequests
=============================================================================
