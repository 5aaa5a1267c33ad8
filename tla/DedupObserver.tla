--------------------------- MODULE DedupObserver ---------------------------
(***************************************************************************)
(* The deduplicator with its answers written down: every call of           *)
(* is_duplicate, clear() and the passing of time, in any order, and the    *)
(* properties of the answers.                                              *)
(***************************************************************************)
EXTENDS Deduplicator, Sequences

VARIABLES
  fresh,     (* history: the (id, instant) pairs answered "not a duplicate"  *)
  answer     (* history: the last answer                                     *)

vars == <<now, seen, lastEviction, fresh, answer>>

Init ==
  /\ DedupInit
  /\ fresh = <<>>
  /\ answer = None

(* One call of is_duplicate.                                               *)
IsDuplicate(id) ==
  /\ Check(id)
  /\ answer' = [id |-> id, at |-> now, duplicate |-> Duplicate(id)]
  /\ fresh' = IF Duplicate(id) \/ id = NoId
              THEN fresh
              ELSE Append(fresh, [id |-> id, at |-> now])

Forget ==
  /\ Clear
  /\ fresh' = <<>>
  /\ answer' = None

Pass == Tick /\ UNCHANGED <<fresh, answer>>

Next == Pass \/ Forget \/ \E id \in DeliveryId : IsDuplicate(id)

Spec == Init /\ [][Next]_vars

-----------------------------------------------------------------------------
Answers == [id : DeliveryId, at : Nat, duplicate : BOOLEAN]

TypeOK ==
  /\ DedupTypeOK
  /\ fresh \in Seq([id : DeliveryId, at : Nat])
  /\ answer \in Answers \cup {None}

(* No delivery is processed twice within the TTL: two "not a duplicate"    *)
(* answers for one id are at least Ttl apart, whatever was evicted in      *)
(* between (is_duplicate, _maybe_evict).                                   *)
AtMostOncePerTtl ==
  \A i, j \in DOMAIN fresh :
    (i < j /\ fresh[i].id = fresh[j].id) => fresh[i].at + Ttl <= fresh[j].at

(* Nothing is refused without a cause: an id answered "duplicate" was      *)
(* answered "new" less than Ttl before, and that answer was not itself a   *)
(* renewal of an older one (is_duplicate records only new ids).            *)
RefusedOnlyIfRecent ==
  (answer # None /\ answer.duplicate) =>
    \E i \in DOMAIN fresh :
      /\ fresh[i].id = answer.id
      /\ fresh[i].at <= answer.at
      /\ answer.at < fresh[i].at + Ttl

(* The sweep prevents memory growth: what outlives a sweep had not expired *)
(* when it ran, so no entry is older than the last eviction (_maybe_evict).*)
NothingExpiredSurvivesSweep ==
  \A id \in DeliveryId : seen[id] # None => lastEviction < seen[id]

(* The lazily swept table answers exactly as the ledger that forgets an id *)
(* the instant it expires: eviction is invisible to callers.               *)
Ledger == INSTANCE DeliveryLedger
            WITH live <- [id \in DeliveryId |-> IF Live(id) THEN seen[id] ELSE None]

ImplementsLedger == Ledger!Spec
=============================================================================
