-------------------------- MODULE TokenCacheProofs --------------------------
(***************************************************************************)
(* Proofs about the token cache, for every number of tasks and of          *)
(* installations and every choice of the times that TokenCacheAssumption   *)
(* allows.  The inductive invariant adds to the properties what is true of *)
(* an exchange under way: it is not older than a request may be, and its   *)
(* token was issued since it began.                                        *)
(***************************************************************************)
EXTENDS TokenCache, TLAPS

ExchangeIsRecent ==
  \A t \in Waiting :
    /\ exchange[t].since <= now
    /\ now <= exchange[t].since + MaxDelay
    /\ exchange[t].token # None => exchange[t].since + Ttl <= exchange[t].token

IInv ==
  /\ TypeOK
  /\ ExchangeIsRecent
  /\ TokenOutlivesItsRequest
  /\ CacheIsRecent

(* The parts of the state that the exchange of one task touches.           *)
LEMMA ExchangeType ==
  ASSUME TypeOK, NEW t \in Task, exchange[t] # None
  PROVE  /\ exchange[t].of \in Installation
         /\ exchange[t].since \in Nat
         /\ exchange[t].token \in Nat \cup {None}
         /\ exchange[t] \in [of : Installation, since : Nat, token : Nat \cup {None}]
  BY DEF TypeOK

LEMMA InitHolds == Init => IInv
  BY TokenCacheAssumption
  DEF Init, IInv, TypeOK, ExchangeIsRecent, Waiting, TokenOutlivesItsRequest, CacheIsRecent

(* The clock moves only while every exchange has time left.                *)
LEMMA TickStep == IInv /\ Tick => IInv'
<1> SUFFICES ASSUME IInv, Tick PROVE IInv'
  OBVIOUS
<1>1. TypeOK'
  BY DEF IInv, TypeOK, Tick
<1>2. ExchangeIsRecent'
  <2> SUFFICES ASSUME NEW t \in Task, exchange[t] # None
               PROVE  /\ exchange[t].since <= now + 1
                      /\ now + 1 <= exchange[t].since + MaxDelay
                      /\ exchange[t].token # None => exchange[t].since + Ttl <= exchange[t].token
    BY DEF ExchangeIsRecent, Waiting, Tick
  <2>1. t \in Waiting
    BY DEF Waiting
  <2>2. now - exchange[t].since < MaxDelay
    BY <2>1 DEF Tick
  <2> QED
    BY <2>1, <2>2, ExchangeType, TokenCacheAssumption DEF IInv, ExchangeIsRecent, TypeOK
<1>3. TokenOutlivesItsRequest' /\ CacheIsRecent'
  BY DEF IInv, TokenOutlivesItsRequest, CacheIsRecent, Tick
<1> QED
  BY <1>1, <1>2, <1>3 DEF IInv

(* A fresh token has more life left than a request takes.                  *)
LEMMA HitStep ==
  ASSUME NEW t \in Task, NEW i \in Installation, IInv, Hit(t, i)
  PROVE  IInv'
<1>1. cache[i] \in Nat /\ now \in Nat /\ now < cache[i] - Buffer
  BY DEF Hit, Fresh, IInv, TypeOK
<1>2. handed' = [expiry |-> cache[i], at |-> now]
  BY DEF Hit
<1>3. TypeOK'
  BY <1>1, <1>2 DEF IInv, TypeOK, Hit
<1>4. ExchangeIsRecent' /\ CacheIsRecent'
  BY DEF IInv, ExchangeIsRecent, CacheIsRecent, Waiting, Hit
<1>5. TokenOutlivesItsRequest'
  BY <1>1, <1>2, TokenCacheAssumption DEF TokenOutlivesItsRequest
<1> QED
  BY <1>3, <1>4, <1>5 DEF IInv

LEMMA MissStep ==
  ASSUME NEW t \in Task, NEW i \in Installation, IInv, Miss(t, i)
  PROVE  IInv'
<1> DEFINE new == [of |-> i, since |-> now, token |-> None]
<1>1. exchange' = [exchange EXCEPT ![t] = new]
  BY DEF Miss
<1>2. TypeOK'
  <2>1. new \in [of : Installation, since : Nat, token : Nat \cup {None}]
    BY DEF IInv, TypeOK
  <2> QED
    BY <1>1, <2>1 DEF IInv, TypeOK, Miss
<1>3. ExchangeIsRecent'
  <2> SUFFICES ASSUME NEW s \in Task, exchange'[s] # None
               PROVE  /\ exchange'[s].since <= now
                      /\ now <= exchange'[s].since + MaxDelay
                      /\ exchange'[s].token # None => exchange'[s].since + Ttl <= exchange'[s].token
    BY DEF ExchangeIsRecent, Waiting, Miss
  <2>1. CASE s = t
    <3>1. exchange'[s] = new
      BY <1>1, <2>1 DEF IInv, TypeOK
    <3> QED
      BY <3>1, TokenCacheAssumption DEF IInv, TypeOK
  <2>2. CASE s # t
    <3>1. exchange'[s] = exchange[s]
      BY <1>1, <2>2 DEF IInv, TypeOK
    <3> QED
      BY <3>1 DEF IInv, ExchangeIsRecent, Waiting
  <2> QED
    BY <2>1, <2>2
<1>4. TokenOutlivesItsRequest' /\ CacheIsRecent'
  BY DEF IInv, TokenOutlivesItsRequest, CacheIsRecent, Miss
<1> QED
  BY <1>2, <1>3, <1>4 DEF IInv

LEMMA IssueStep ==
  ASSUME NEW t \in Task, IInv, Issue(t)
  PROVE  IInv'
<1> DEFINE new == [exchange[t] EXCEPT !.token = now + Ttl]
<1>1. exchange' = [exchange EXCEPT ![t] = new]
  BY DEF Issue
<1>2. exchange[t] # None
  BY DEF Issue
<1>3. /\ new \in [of : Installation, since : Nat, token : Nat \cup {None}]
      /\ new.since = exchange[t].since
      /\ new.token = now + Ttl
  BY <1>2, ExchangeType, TokenCacheAssumption DEF IInv, TypeOK
<1>4. TypeOK'
  BY <1>1, <1>3 DEF IInv, TypeOK, Issue
<1>5. ExchangeIsRecent'
  <2> SUFFICES ASSUME NEW s \in Task, exchange'[s] # None
               PROVE  /\ exchange'[s].since <= now
                      /\ now <= exchange'[s].since + MaxDelay
                      /\ exchange'[s].token # None => exchange'[s].since + Ttl <= exchange'[s].token
    BY DEF ExchangeIsRecent, Waiting, Issue
  <2>1. CASE s = t
    <3> HIDE DEF new
    <3>1. exchange'[s] = new
      BY <1>1, <2>1 DEF IInv, TypeOK
    <3>2. exchange[t].since <= now /\ now <= exchange[t].since + MaxDelay
      BY <1>2 DEF IInv, ExchangeIsRecent, Waiting
    <3>3. now \in Nat /\ exchange[t].since \in Nat
      BY <1>2, ExchangeType DEF IInv, TypeOK
    <3> QED
      BY <3>1, <3>2, <3>3, <1>3, TokenCacheAssumption
  <2>2. CASE s # t
    <3>1. exchange'[s] = exchange[s]
      BY <1>1, <2>2 DEF IInv, TypeOK
    <3> QED
      BY <3>1 DEF IInv, ExchangeIsRecent, Waiting
  <2> QED
    BY <2>1, <2>2
<1>6. TokenOutlivesItsRequest' /\ CacheIsRecent'
  BY DEF IInv, TokenOutlivesItsRequest, CacheIsRecent, Issue
<1> QED
  BY <1>4, <1>5, <1>6 DEF IInv

(* The token was issued while the exchange was under way, so it is at most *)
(* MaxDelay old, and the cache it fills is as recent.                      *)
LEMMA AnswerStep ==
  ASSUME NEW t \in Task, IInv, Answer(t)
  PROVE  IInv'
<1> DEFINE i == exchange[t].of
           k == exchange[t].token
<1>1. /\ exchange[t] # None /\ k # None
      /\ exchange' = [exchange EXCEPT ![t] = None]
      /\ handed' = [expiry |-> k, at |-> now]
      /\ answered' = [answered EXCEPT ![i] = now]
      /\ cache' = [cache EXCEPT ![i] = k]
      /\ now' = now
  BY DEF Answer, HandOver, Issued
<1>2. /\ i \in Installation /\ k \in Nat /\ now \in Nat
      /\ now + Ttl <= k + MaxDelay
  <2>1. i \in Installation /\ k \in Nat /\ exchange[t].since \in Nat /\ now \in Nat
    BY <1>1, ExchangeType DEF IInv, TypeOK
  <2>2. now <= exchange[t].since + MaxDelay /\ exchange[t].since + Ttl <= k
    BY <1>1 DEF IInv, ExchangeIsRecent, Waiting
  <2> QED
    BY <2>1, <2>2, TokenCacheAssumption
<1> HIDE DEF i, k
<1>3. TypeOK'
  BY <1>1, <1>2 DEF IInv, TypeOK
<1>4. ExchangeIsRecent'
  <2> SUFFICES ASSUME NEW s \in Task, exchange'[s] # None
               PROVE  exchange'[s] = exchange[s]
    BY <1>1 DEF IInv, ExchangeIsRecent, Waiting
  <2> QED
    BY <1>1 DEF IInv, TypeOK
<1>5. TokenOutlivesItsRequest'
  BY <1>1, <1>2, TokenCacheAssumption DEF TokenOutlivesItsRequest
<1>6. CacheIsRecent'
  <2> SUFFICES ASSUME NEW j \in Installation, answered'[j] # None
               PROVE  cache'[j] # None /\ cache'[j] + MaxDelay >= answered'[j] + Ttl
    BY DEF CacheIsRecent
  <2>1. CASE j = i
    BY <1>1, <1>2, <2>1, TokenCacheAssumption DEF IInv, TypeOK
  <2>2. CASE j # i
    <3>1. cache'[j] = cache[j] /\ answered'[j] = answered[j]
      BY <1>1, <2>2 DEF IInv, TypeOK
    <3> QED
      BY <3>1 DEF IInv, CacheIsRecent
  <2> QED
    BY <2>1, <2>2
<1> QED
  BY <1>3, <1>4, <1>5, <1>6 DEF IInv

LEMMA FailStep ==
  ASSUME NEW t \in Task, IInv, Fail(t)
  PROVE  IInv'
<1>1. TypeOK'
  BY DEF IInv, TypeOK, Fail
<1>2. ExchangeIsRecent'
  <2> SUFFICES ASSUME NEW s \in Task, exchange'[s] # None
               PROVE  exchange'[s] = exchange[s]
    BY DEF IInv, ExchangeIsRecent, Waiting, Fail
  <2> QED
    BY DEF IInv, TypeOK, Fail
<1>3. TokenOutlivesItsRequest' /\ CacheIsRecent'
  BY DEF IInv, TokenOutlivesItsRequest, CacheIsRecent, Fail
<1> QED
  BY <1>1, <1>2, <1>3 DEF IInv

LEMMA InvalidateStep ==
  ASSUME NEW i \in Installation, IInv, Invalidate(i)
  PROVE  IInv'
<1>1. TypeOK'
  BY DEF IInv, TypeOK, Invalidate
<1>2. ExchangeIsRecent' /\ TokenOutlivesItsRequest'
  BY DEF IInv, ExchangeIsRecent, TokenOutlivesItsRequest, Waiting, Invalidate
<1>3. CacheIsRecent'
  <2> SUFFICES ASSUME NEW j \in Installation, answered'[j] # None
               PROVE  cache'[j] # None /\ cache'[j] + MaxDelay >= answered'[j] + Ttl
    BY DEF CacheIsRecent
  <2>1. cache'[j] = cache[j] /\ answered'[j] = answered[j]
    BY DEF IInv, TypeOK, Invalidate
  <2> QED
    BY <2>1 DEF IInv, CacheIsRecent
<1> QED
  BY <1>1, <1>2, <1>3 DEF IInv

LEMMA StepHolds == IInv /\ [Next]_vars => IInv'
<1> SUFFICES ASSUME IInv, [Next]_vars PROVE IInv'
  OBVIOUS
<1>1. CASE Tick
  BY <1>1, TickStep
<1>2. ASSUME NEW t \in Task, NEW i \in Installation, Hit(t, i) \/ Miss(t, i)
      PROVE  IInv'
  BY <1>2, HitStep, MissStep
<1>3. ASSUME NEW t \in Task, Issue(t) \/ Answer(t) \/ Fail(t)
      PROVE  IInv'
  BY <1>3, IssueStep, AnswerStep, FailStep
<1>4. ASSUME NEW i \in Installation, Invalidate(i)
      PROVE  IInv'
  BY <1>4, InvalidateStep
<1>5. CASE UNCHANGED vars
  BY <1>5 DEF vars, IInv, TypeOK, ExchangeIsRecent, Waiting, TokenOutlivesItsRequest, CacheIsRecent
<1> QED
  BY <1>1, <1>2, <1>3, <1>4, <1>5 DEF Next

(* The inductive invariant holds in every reachable state.                 *)
THEOREM Invariance == Spec => []IInv
  BY InitHolds, StepHolds, PTL DEF Spec

(* The types of the token cache (GitHubAuth).                              *)
THEOREM TypeCorrect == Spec => []TypeOK
  BY Invariance, PTL DEF IInv

(* A token handed out by get_installation_token, cached or fresh, does not *)
(* expire before the request it is used for has ended.                     *)
THEOREM TokensOutliveRequests == Spec => []TokenOutlivesItsRequest
  BY Invariance, PTL DEF IInv

(* Overlapping exchanges set the cache back by no more than the time that  *)
(* a request takes.                                                        *)
THEOREM CacheStaysRecent == Spec => []CacheIsRecent
  BY Invariance, PTL DEF IInv

(* Only a miss begins an exchange, and the cached token is then old.       *)
LEMMA RareStep ==
  ASSUME IInv, [Next]_vars, NEW t \in Task, NEW i \in Installation,
         exchange[t] = None, exchange'[t] # None, exchange'[t].of = i, answered[i] # None
  PROVE  now + MaxDelay + Buffer >= answered[i] + Ttl
<1>1. \E j \in Installation : Miss(t, j)
  <2>1. ASSUME NEW s \in Task, NEW j \in Installation, Miss(s, j)
        PROVE  Miss(t, j)
    BY <2>1 DEF Miss, IInv, TypeOK
  <2>2. ASSUME NEW s \in Task, Issue(s) \/ Answer(s) \/ Fail(s)
        PROVE  FALSE
    BY <2>2 DEF Issue, Answer, HandOver, Fail, IInv, TypeOK
  <2>3. ~Tick /\ ~UNCHANGED vars
    BY DEF Tick, vars
  <2>4. \A s \in Task, j \in Installation : ~Hit(s, j)
    BY DEF Hit
  <2>5. \A j \in Installation : ~Invalidate(j)
    BY DEF Invalidate
  <2> QED
    BY <2>1, <2>2, <2>3, <2>4, <2>5 DEF Next
<1>2. PICK j \in Installation : Miss(t, j)
  BY <1>1
<1>3. j = i
  BY <1>2 DEF Miss, IInv, TypeOK
<1>4. cache[i] # None /\ cache[i] + MaxDelay >= answered[i] + Ttl
  BY DEF IInv, CacheIsRecent
<1>5. ~(now < cache[i] - Buffer)
  BY <1>2, <1>3, <1>4 DEF Miss, Fresh
<1>6. cache[i] \in Nat /\ answered[i] \in Nat /\ now \in Nat
  BY <1>4 DEF IInv, TypeOK
<1> QED
  BY <1>4, <1>5, <1>6, TokenCacheAssumption

(* After an answer has filled the cache, no exchange begins before the     *)
(* token nears its end.                                                    *)
THEOREM RareExchanges == Spec => ExchangesAreRare
<1>1. IInv /\ [Next]_vars =>
        [\A t \in Task, i \in Installation :
           (exchange[t] = None /\ exchange'[t] # None /\ exchange'[t].of = i /\ answered[i] # None)
             => now + MaxDelay + Buffer >= answered[i] + Ttl]_vars
  BY RareStep
<1> QED
  BY Invariance, <1>1, PTL DEF Spec, ExchangesAreRare
=============================================================================
