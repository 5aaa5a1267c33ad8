----------------------------- MODULE DedupProofs -----------------------------
(***************************************************************************)
(* Proofs about the deduplicator: what DedupObserver checks on three ids   *)
(* and a short clock holds for every set of ids, every TTL and every       *)
(* eviction interval.                                                      *)
(***************************************************************************)
EXTENDS DedupObserver, TLAPS

(* Every answer "new" was given by now, about a real id.                   *)
FreshIsPast == \A i \in DOMAIN fresh : fresh[i].at <= now /\ fresh[i].id # NoId

(* An answer "new" is backed by its table entry until it expires: no sweep *)
(* takes it away and no later call changes it.                             *)
FreshIsRemembered ==
  \A i \in DOMAIN fresh :
    now < fresh[i].at + Ttl => seen[fresh[i].id] = fresh[i].at + Ttl

(* Every table entry stems from an answer "new".                           *)
EntryStemsFromFresh ==
  \A id \in DeliveryId : seen[id] # None =>
    \E i \in DOMAIN fresh : fresh[i].id = id /\ seen[id] = fresh[i].at + Ttl

(* The empty id is never remembered.                                       *)
EmptyIdUnknown == NoId \in DeliveryId => seen[NoId] = None

IInv ==
  /\ TypeOK
  /\ FreshIsPast
  /\ FreshIsRemembered
  /\ EntryStemsFromFresh
  /\ EmptyIdUnknown
  /\ AtMostOncePerTtl
  /\ RefusedOnlyIfRecent
  /\ NothingExpiredSurvivesSweep

USE DedupAssumption

-----------------------------------------------------------------------------
(* Sequences, and types.                                                   *)

(* The elements of a sequence.                                             *)
LEMMA SeqElements ==
  ASSUME NEW S, NEW s \in Seq(S)
  PROVE  Len(s) \in Nat /\ DOMAIN s = 1..Len(s) /\ \A i \in DOMAIN s : s[i] \in S
OBVIOUS

(* Append adds one element and keeps the others.                           *)
LEMMA AppendElements ==
  ASSUME NEW S, NEW s \in Seq(S), NEW e \in S
  PROVE  /\ Append(s, e) \in Seq(S)
         /\ DOMAIN Append(s, e) = 1..(Len(s) + 1)
         /\ Append(s, e)[Len(s) + 1] = e
         /\ \A i \in DOMAIN s : Append(s, e)[i] = s[i]
OBVIOUS

(* The table after a sweep is a table.                                     *)
LEMMA KeptType == DedupTypeOK => Kept \in [DeliveryId -> Nat \cup {None}]
BY DEF DedupTypeOK, Kept

(* The initial state has the types.                                        *)
LEMMA TypeInit == Init => TypeOK
BY DEF Init, DedupInit, TypeOK, DedupTypeOK

(* Every step keeps the types.                                             *)
LEMMA TypeStep == TypeOK /\ [Next]_vars => TypeOK'
<1> SUFFICES ASSUME TypeOK, [Next]_vars PROVE TypeOK'
  OBVIOUS
<1> USE DEF TypeOK, DedupTypeOK
<1>1. ASSUME NEW id \in DeliveryId, IsDuplicate(id) PROVE TypeOK'
  <2>1. DedupTypeOK'
    BY <1>1, KeptType DEF IsDuplicate, Check
  <2>2. (fresh \in Seq([id : DeliveryId, at : Nat]))'
    <3> DEFINE new == [id |-> id, at |-> now]
    <3>1. new \in [id : DeliveryId, at : Nat]
      OBVIOUS
    <3>2. Append(fresh, new) \in Seq([id : DeliveryId, at : Nat])
      BY <3>1, AppendElements
    <3> QED
      BY <1>1, <3>2 DEF IsDuplicate
  <2>3. Duplicate(id) \in BOOLEAN
    BY DEF Duplicate
  <2>4. (answer \in Answers \cup {None})'
    BY <1>1, <2>3 DEF IsDuplicate, Answers
  <2> QED
    BY <2>1, <2>2, <2>4
<1>2. CASE Pass
  BY <1>2 DEF Pass, Tick
<1>3. CASE Forget
  BY <1>3 DEF Forget, Clear
<1>4. CASE UNCHANGED vars
  BY <1>4 DEF vars
<1> QED
  BY <1>1, <1>2, <1>3, <1>4 DEF Next

(* The state always has the types the code gives it: no sweep is dated in  *)
(* the future, and a table entry is an instant (__init__, is_duplicate,    *)
(* _maybe_evict).                                                          *)
THEOREM TypeCorrect == Spec => []TypeOK
<1> QED
  BY TypeInit, TypeStep, PTL DEF Spec

-----------------------------------------------------------------------------
(* What the operators of the deduplicator do.                              *)

(* A sweep removes nothing that is still good and changes nothing else.    *)
LEMMA KeptLive ==
  ASSUME DedupTypeOK, NEW id \in DeliveryId
  PROVE  /\ Live(id) => Kept[id] = seen[id]
         /\ Kept[id] = seen[id] \/ Kept[id] = None
BY DEF Kept, Live, DedupTypeOK

(* The answer does not depend on whether a sweep is due.                   *)
LEMMA DuplicateIsLive ==
  ASSUME DedupTypeOK, NEW id \in DeliveryId
  PROVE  Duplicate(id) <=> (id # NoId /\ Live(id))
BY DEF Kept, Live, Duplicate, DedupTypeOK

(* After a sweep, and after a call that ran one, no entry is older than it.*)
LEMMA CheckSweeps ==
  ASSUME TypeOK, NothingExpiredSurvivesSweep, NEW id \in DeliveryId, Check(id)
  PROVE  NothingExpiredSurvivesSweep'
<1>1. CASE id = NoId
  BY <1>1 DEF Check, NothingExpiredSurvivesSweep
<1>2. CASE id # NoId
  <2> SUFFICES ASSUME NEW x \in DeliveryId, seen'[x] # None
               PROVE  lastEviction' < seen'[x]
    BY DEF NothingExpiredSurvivesSweep
  <2>1. Kept \in [DeliveryId -> Nat \cup {None}]
    BY KeptType DEF TypeOK
  <2>2. lastEviction' <= now /\ lastEviction' \in Nat
    BY <1>2 DEF Check, TypeOK, DedupTypeOK
  <2>3. ASSUME Kept[x] # None PROVE lastEviction' < Kept[x]
    BY <1>2, <2>3 DEF Kept, Live, Check, NothingExpiredSurvivesSweep, TypeOK, DedupTypeOK
  <2>4. seen'[x] = Kept[x] \/ seen'[x] = now + Ttl
    BY <1>2, <2>1 DEF Check
  <2> QED
    BY <2>2, <2>3, <2>4 DEF TypeOK, DedupTypeOK
<1> QED
  BY <1>1, <1>2

-----------------------------------------------------------------------------
(* The invariant.                                                          *)

(* A new deduplicator has an empty table and an empty history.             *)
LEMMA IInvInit == Init => IInv
<1> SUFFICES ASSUME Init PROVE IInv
  OBVIOUS
<1>1. TypeOK
  BY TypeInit
<1> QED
  BY <1>1 DEF Init, DedupInit, IInv, FreshIsPast, FreshIsRemembered, EntryStemsFromFresh,
     EmptyIdUnknown, AtMostOncePerTtl, RefusedOnlyIfRecent, NothingExpiredSurvivesSweep

(* An answer "duplicate", or any answer about the empty id, adds nothing   *)
(* to the history and changes only what a sweep removes.                   *)
LEMMA IInvRefuse ==
  ASSUME IInv, NEW id \in DeliveryId, IsDuplicate(id), Duplicate(id) \/ id = NoId
  PROVE  IInv'
<1> USE DEF IInv
<1>1. TypeOK'
  BY TypeStep DEF Next
<1>2. UNCHANGED <<now, fresh>>
  BY DEF IsDuplicate, Check
<1>3. \A x \in DeliveryId : /\ seen'[x] = seen[x] \/ seen'[x] = None
                            /\ Live(x) => seen'[x] = seen[x]
  BY KeptLive DEF IsDuplicate, Check, TypeOK
<1>4. \A i \in DOMAIN fresh : fresh[i] \in [id : DeliveryId, at : Nat]
  BY SeqElements DEF TypeOK
<1>5. FreshIsPast'
  BY <1>2 DEF FreshIsPast
<1>6. FreshIsRemembered'
  <2> SUFFICES ASSUME NEW i \in DOMAIN fresh, now < fresh[i].at + Ttl
               PROVE  seen'[fresh[i].id] = fresh[i].at + Ttl
    BY <1>2 DEF FreshIsRemembered
  <2>1. seen[fresh[i].id] = fresh[i].at + Ttl
    BY DEF FreshIsRemembered
  <2>2. Live(fresh[i].id)
    BY <2>1, <1>4 DEF Live
  <2> QED
    BY <2>1, <2>2, <1>3, <1>4
<1>7. EntryStemsFromFresh'
  BY <1>2, <1>3 DEF EntryStemsFromFresh
<1>8. EmptyIdUnknown'
  BY <1>3 DEF EmptyIdUnknown
<1>9. AtMostOncePerTtl'
  BY <1>2 DEF AtMostOncePerTtl
<1>10. RefusedOnlyIfRecent'
  <2> SUFFICES ASSUME Duplicate(id)
               PROVE  \E i \in DOMAIN fresh : /\ fresh[i].id = id
                                              /\ fresh[i].at <= now
                                              /\ now < fresh[i].at + Ttl
    BY <1>2 DEF IsDuplicate, RefusedOnlyIfRecent, Duplicate
  <2>1. Live(id)
    BY DuplicateIsLive DEF TypeOK
  <2>2. PICK i \in DOMAIN fresh : fresh[i].id = id /\ seen[id] = fresh[i].at + Ttl
    BY <2>1 DEF Live, EntryStemsFromFresh
  <2> QED
    BY <2>1, <2>2 DEF Live, FreshIsPast
<1>11. NothingExpiredSurvivesSweep'
  BY CheckSweeps DEF IsDuplicate
<1> QED
  BY <1>1, <1>5, <1>6, <1>7, <1>8, <1>9, <1>10, <1>11

(* An answer "new" appends to the history and writes the entry that backs  *)
(* it; every older answer about the same id has expired by then.           *)
LEMMA IInvAccept ==
  ASSUME IInv, NEW id \in DeliveryId, IsDuplicate(id), ~Duplicate(id), id # NoId
  PROVE  IInv'
<1> USE DEF IInv
<1> DEFINE n == Len(fresh) + 1
<1>1. TypeOK'
  BY TypeStep DEF Next
<1>2. now' = now /\ now \in Nat
  BY DEF IsDuplicate, Check, TypeOK, DedupTypeOK
<1>3. \A x \in DeliveryId \ {id} : /\ seen'[x] = seen[x] \/ seen'[x] = None
                                   /\ Live(x) => seen'[x] = seen[x]
  <2> TAKE x \in DeliveryId \ {id}
  <2>1. seen'[x] = Kept[x]
    BY KeptType DEF IsDuplicate, Check, TypeOK
  <2> QED
    BY <2>1, KeptLive DEF TypeOK
<1>4. seen'[id] = now + Ttl
  BY KeptType DEF IsDuplicate, Check, TypeOK
<1>5. /\ DOMAIN fresh = 1..Len(fresh) /\ Len(fresh) \in Nat
      /\ DOMAIN fresh' = 1..n
      /\ fresh'[n] = [id |-> id, at |-> now]
      /\ \A i \in DOMAIN fresh : fresh'[i] = fresh[i] /\ fresh[i] \in [id : DeliveryId, at : Nat]
  <2> DEFINE new == [id |-> id, at |-> now]
  <2>1. fresh \in Seq([id : DeliveryId, at : Nat]) /\ new \in [id : DeliveryId, at : Nat]
    BY <1>2 DEF TypeOK
  <2>2. fresh' = Append(fresh, new)
    BY DEF IsDuplicate
  <2>3. /\ DOMAIN fresh = 1..Len(fresh) /\ Len(fresh) \in Nat
        /\ \A i \in DOMAIN fresh : fresh[i] \in [id : DeliveryId, at : Nat]
    BY <2>1, SeqElements
  <2>4. /\ DOMAIN Append(fresh, new) = 1..n
        /\ Append(fresh, new)[n] = new
        /\ \A i \in DOMAIN fresh : Append(fresh, new)[i] = fresh[i]
    BY <2>1, AppendElements
  <2> HIDE DEF n
  <2> QED
    BY <2>2, <2>3, <2>4
<1>6. \A i \in DOMAIN fresh : fresh[i].id = id => fresh[i].at + Ttl <= now
  <2> SUFFICES ASSUME NEW i \in DOMAIN fresh, fresh[i].id = id, now < fresh[i].at + Ttl
               PROVE  FALSE
    BY <1>2, <1>5
  <2>1. seen[id] = fresh[i].at + Ttl
    BY DEF FreshIsRemembered
  <2>2. Live(id)
    BY <2>1, <1>5 DEF Live
  <2> QED
    BY <2>2, DuplicateIsLive DEF TypeOK
<1>7. FreshIsPast'
  BY <1>2, <1>5 DEF FreshIsPast
<1>8. FreshIsRemembered'
  <2> SUFFICES ASSUME NEW i \in 1..n, now < fresh'[i].at + Ttl
               PROVE  seen'[fresh'[i].id] = fresh'[i].at + Ttl
    BY <1>2, <1>5 DEF FreshIsRemembered
  <2>1. CASE i = n
    BY <2>1, <1>4, <1>5
  <2>2. CASE i # n
    <3>1. i \in DOMAIN fresh /\ fresh'[i] = fresh[i] /\ fresh[i] \in [id : DeliveryId, at : Nat]
      BY <2>2, <1>5
    <3>2. seen[fresh[i].id] = fresh[i].at + Ttl
      BY <3>1 DEF FreshIsRemembered
    <3>3. Live(fresh[i].id) /\ fresh[i].id # id
      BY <3>1, <3>2, <1>2, <1>6 DEF Live
    <3> QED
      BY <3>1, <3>2, <3>3, <1>3
  <2> QED
    BY <2>1, <2>2
<1>9. EntryStemsFromFresh'
  <2> SUFFICES ASSUME NEW x \in DeliveryId, seen'[x] # None
               PROVE  \E i \in DOMAIN fresh' : fresh'[i].id = x /\ seen'[x] = fresh'[i].at + Ttl
    BY DEF EntryStemsFromFresh
  <2>1. CASE x = id
    BY <2>1, <1>4, <1>5
  <2>2. CASE x # id
    <3>1. PICK i \in DOMAIN fresh : fresh[i].id = x /\ seen[x] = fresh[i].at + Ttl
      BY <2>2, <1>3 DEF EntryStemsFromFresh
    <3> QED
      BY <3>1, <2>2, <1>3, <1>5
  <2> QED
    BY <2>1, <2>2
<1>10. EmptyIdUnknown'
  BY <1>3 DEF EmptyIdUnknown
<1>11. AtMostOncePerTtl'
  <2> SUFFICES ASSUME NEW i \in 1..n, NEW j \in 1..n, i < j, fresh'[i].id = fresh'[j].id
               PROVE  fresh'[i].at + Ttl <= fresh'[j].at
    BY <1>2, <1>5 DEF AtMostOncePerTtl
  <2>1. i \in DOMAIN fresh /\ fresh'[i] = fresh[i]
    BY <1>5
  <2>2. CASE j = n
    BY <2>1, <2>2, <1>5, <1>6
  <2>3. CASE j # n
    BY <2>1, <2>3, <1>2, <1>5 DEF AtMostOncePerTtl
  <2> QED
    BY <2>2, <2>3
<1>12. RefusedOnlyIfRecent'
  BY DEF IsDuplicate, RefusedOnlyIfRecent
<1>13. NothingExpiredSurvivesSweep'
  BY CheckSweeps DEF IsDuplicate
<1> QED
  BY <1>1, <1>7, <1>8, <1>9, <1>10, <1>11, <1>12, <1>13

(* clear() empties the table and, with it, the history it answers for.     *)
LEMMA IInvForget == IInv /\ Forget => IInv'
<1> SUFFICES ASSUME IInv, Forget PROVE IInv'
  OBVIOUS
<1>1. TypeOK'
  BY TypeStep DEF IInv, Next
<1> QED
  BY <1>1 DEF Forget, Clear, IInv, FreshIsPast, FreshIsRemembered, EntryStemsFromFresh,
     EmptyIdUnknown, AtMostOncePerTtl, RefusedOnlyIfRecent, NothingExpiredSurvivesSweep

(* Time only makes entries expire.                                         *)
LEMMA IInvPass == IInv /\ Pass => IInv'
<1> SUFFICES ASSUME IInv, Pass PROVE IInv'
  OBVIOUS
<1> USE DEF IInv
<1>1. TypeOK'
  BY TypeStep DEF Next
<1>2. UNCHANGED <<seen, lastEviction, fresh, answer>> /\ now' = now + 1 /\ now \in Nat
  BY DEF Pass, Tick, TypeOK, DedupTypeOK
<1>3. \A i \in DOMAIN fresh : fresh[i].at \in Nat
  <2>1. \A i \in DOMAIN fresh : fresh[i] \in [id : DeliveryId, at : Nat]
    BY SeqElements DEF TypeOK
  <2> QED
    BY <2>1
<1>4. FreshIsPast'
  BY <1>2, <1>3 DEF FreshIsPast
<1>5. FreshIsRemembered'
  BY <1>2, <1>3 DEF FreshIsRemembered
<1>6. EntryStemsFromFresh' /\ EmptyIdUnknown'
  BY <1>2 DEF EntryStemsFromFresh, EmptyIdUnknown
<1>7. AtMostOncePerTtl' /\ RefusedOnlyIfRecent' /\ NothingExpiredSurvivesSweep'
  BY <1>2 DEF AtMostOncePerTtl, RefusedOnlyIfRecent, NothingExpiredSurvivesSweep
<1> QED
  BY <1>1, <1>4, <1>5, <1>6, <1>7

(* Every step keeps the invariant.                                         *)
LEMMA IInvStep == IInv /\ [Next]_vars => IInv'
<1> SUFFICES ASSUME IInv, [Next]_vars PROVE IInv'
  OBVIOUS
<1>1. ASSUME NEW id \in DeliveryId, IsDuplicate(id) PROVE IInv'
  BY <1>1, IInvAccept, IInvRefuse
<1>2. CASE Pass
  BY <1>2, IInvPass
<1>3. CASE Forget
  BY <1>3, IInvForget
<1>4. CASE UNCHANGED vars
  <2>1. TypeOK'
    BY TypeStep DEF IInv
  <2> QED
    BY <1>4, <2>1 DEF vars, IInv, FreshIsPast, FreshIsRemembered, EntryStemsFromFresh,
       EmptyIdUnknown, AtMostOncePerTtl, RefusedOnlyIfRecent, NothingExpiredSurvivesSweep
<1> QED
  BY <1>1, <1>2, <1>3, <1>4 DEF Next

(* The strengthened invariant holds in every state of the deduplicator.    *)
THEOREM Invariance == Spec => []IInv
<1> QED
  BY IInvInit, IInvStep, PTL DEF Spec

(* For any ids, TTL and eviction interval: no delivery is let through      *)
(* twice within the TTL (is_duplicate, _maybe_evict).                      *)
THEOREM OncePerTtl == Spec => []AtMostOncePerTtl
<1>1. IInv => AtMostOncePerTtl
  BY DEF IInv
<1> QED
  BY <1>1, Invariance, PTL

(* For any ids, TTL and eviction interval: a delivery is refused only when *)
(* it was let through less than the TTL before (is_duplicate).             *)
THEOREM NoSpuriousRefusal == Spec => []RefusedOnlyIfRecent
<1>1. IInv => RefusedOnlyIfRecent
  BY DEF IInv
<1> QED
  BY <1>1, Invariance, PTL

(* For any ids, TTL and eviction interval: the table holds nothing that    *)
(* had expired when the last sweep ran (_maybe_evict).                     *)
THEOREM SweepIsComplete == Spec => []NothingExpiredSurvivesSweep
<1>1. IInv => NothingExpiredSurvivesSweep
  BY DEF IInv
<1> QED
  BY <1>1, Invariance, PTL

-----------------------------------------------------------------------------
(* Refinement.                                                             *)

(* What the ledger takes for live.                                         *)
LedgerLive == [id \in DeliveryId |-> IF Live(id) THEN seen[id] ELSE None]

(* A call answers as the ledger does, and leaves the same ids live.        *)
LEMMA CheckRefines ==
  ASSUME IInv, NEW id \in DeliveryId, IsDuplicate(id)
  PROVE  Ledger!Ask(id)
<1>1. now' = now /\ now \in Nat
  BY DEF IInv, IsDuplicate, Check, TypeOK, DedupTypeOK
<1>2. Duplicate(id) <=> LedgerLive[id] # None
  BY DuplicateIsLive DEF IInv, TypeOK, LedgerLive, Live, EmptyIdUnknown
<1>3. answer' = [id |-> id, at |-> now, duplicate |-> LedgerLive[id] # None]
  BY <1>2, Zenon DEF IsDuplicate, Duplicate
<1>4. LedgerLive' = IF id = NoId \/ LedgerLive[id] # None
                    THEN LedgerLive ELSE [LedgerLive EXCEPT ![id] = now + Ttl]
  <2>1. CASE id = NoId \/ Duplicate(id)
    <3>1. ASSUME NEW x \in DeliveryId PROVE LedgerLive'[x] = LedgerLive[x]
      BY <1>1, <2>1, KeptLive DEF IInv, TypeOK, IsDuplicate, Check, LedgerLive, Live
    <3> QED
      BY <1>2, <2>1, <3>1 DEF LedgerLive
  <2>2. CASE id # NoId /\ ~Duplicate(id)
    <3>1. seen' = [Kept EXCEPT ![id] = now + Ttl]
      BY <2>2 DEF IsDuplicate, Check
    <3>2. ASSUME NEW x \in DeliveryId
          PROVE  LedgerLive'[x] = IF x = id THEN now + Ttl ELSE LedgerLive[x]
      BY <1>1, <3>1, KeptLive, KeptType DEF IInv, TypeOK, LedgerLive, Live
    <3> QED
      BY <1>2, <2>2, <3>2 DEF LedgerLive
  <2> QED
    BY <2>1, <2>2
<1> QED
  BY <1>1, <1>3, <1>4, Zenon DEF Ledger!Ask, LedgerLive

(* Every step is a step of the ledger, or none.                            *)
LEMMA StepRefines ==
  IInv /\ [Next]_vars => [Ledger!Next]_(Ledger!ledgerVars)
<1> SUFFICES ASSUME IInv, [Next]_vars
             PROVE  Ledger!Next \/ UNCHANGED Ledger!ledgerVars
  OBVIOUS
<1>1. ASSUME NEW id \in DeliveryId, IsDuplicate(id) PROVE Ledger!Next
  BY <1>1, CheckRefines DEF Ledger!Next
<1>2. CASE Pass
  BY <1>2 DEF IInv, TypeOK, DedupTypeOK, Pass, Tick, Live, Ledger!Pass, Ledger!Next
<1>3. CASE Forget
  BY <1>3 DEF Forget, Clear, Live, Ledger!Forget, Ledger!Next
<1>4. CASE UNCHANGED vars
  BY <1>4 DEF vars, Live, Ledger!ledgerVars
<1> QED
  BY <1>1, <1>2, <1>3, <1>4 DEF Next

(* For any ids, TTL and eviction interval: callers cannot tell the lazily  *)
(* swept table from a ledger that forgets each id the instant it expires.  *)
THEOREM RefinesLedger == Spec => ImplementsLedger
<1>1. Init => Ledger!Init
  BY DEF Init, DedupInit, Live, Ledger!Init
<1> QED
  BY <1>1, StepRefines, Invariance, PTL DEF Spec, ImplementsLedger, Ledger!Spec
=============================================================================
