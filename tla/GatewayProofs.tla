--------------------------- MODULE GatewayProofs ---------------------------
(***************************************************************************)
(* Proofs about the rate limit and the gateway, for every set of clients,  *)
(* slots and deliveries, every limit, window and interval of cleanup.      *)
(*                                                                         *)
(* The limiter's invariant is a balance: what a client has spent since the *)
(* observer began, plus what it has in store, lies between what a bucket   *)
(* that began empty and one that began full would have received, plus a    *)
(* full bucket for each sweep.                                             *)
(***************************************************************************)
EXTENDS Gateway, NaturalsInduction, WellFoundedInduction, TLAPS

Spent(c) == admitted[c] * Window
Stored(c) == IF buckets[c] = NoBucket THEN Capacity ELSE Refilled(buckets[c])

NotAhead == ~Counting => cleanups = 0 /\ \A c \in Client : admitted[c] = 0

NoMore ==
  \A c \in Client :
    Spent(c) + Stored(c) <= (1 + cleanups) * Capacity + Elapsed * MaxRequests

NoLess ==
  \A c \in Client :
    \/ Spent(c) + Stored(c) >= Capacity
    \/ Spent(c) + Stored(c) >= Elapsed * MaxRequests

SweepsApart == cleanups = 0 \/ (cleanups - 1) * CleanupInterval <= lastCleanup - since

LimiterInv == LimiterTypeOK /\ NotAhead /\ NoMore /\ NoLess /\ SweepsApart

-----------------------------------------------------------------------------
(* Arithmetic, stated once because the prover multiplies badly.            *)
LEMMA Distributes ==
  ASSUME NEW a \in Int, NEW b \in Int, NEW m \in Int
  PROVE  (a + b) * m = a * m + b * m
  OBVIOUS

LEMMA OneMore ==
  ASSUME NEW a \in Int, NEW m \in Int
  PROVE  (a + 1) * m = a * m + m
  BY Distributes

LEMMA ProductNat ==
  ASSUME NEW a \in Nat, NEW m \in Nat
  PROVE  a * m \in Nat
  OBVIOUS

LEMMA Monotone ==
  ASSUME NEW a \in Int, NEW b \in Int, NEW m \in Nat, a <= b
  PROVE  a * m <= b * m
<1>1. (b - a) * m \in Nat
  BY ProductNat
<1>2. b * m = (b - a) * m + a * m
  BY Distributes
<1> QED
  BY <1>1, <1>2

LEMMA CapacityFacts ==
  /\ Capacity \in Nat
  /\ Capacity >= Window
  /\ Window \in Nat \ {0} /\ MaxRequests \in Nat \ {0}
  /\ CleanupInterval \in Nat
<1>1. MaxRequests * Window = (MaxRequests - 1) * Window + Window
  BY OneMore, LimiterAssumption
<1>2. (MaxRequests - 1) * Window \in Nat
  BY ProductNat, LimiterAssumption
<1> QED
  BY <1>1, <1>2, LimiterAssumption DEF Capacity, CleanupInterval

(* A bucket holds between nothing and its capacity, and exactly what it    *)
(* held when it is looked at in the instant of its last refill.            *)
LEMMA RefilledFacts ==
  ASSUME NEW b \in Bucket, now \in Nat
  PROVE  /\ Refilled(b) \in 0..Capacity
         /\ b.last = now => Refilled(b) = b.tokens
         /\ b.last \in 0..now /\ b.tokens \in 0..Capacity
<1>1. b.last \in 0..now /\ b.tokens \in 0..Capacity
  BY DEF Bucket
<1>2. (now - b.last) * MaxRequests \in Nat
  BY <1>1, ProductNat, CapacityFacts
<1>3. b.last = now => (now - b.last) * MaxRequests = 0
  <2> SUFFICES ASSUME b.last = now PROVE (now - b.last) * MaxRequests = 0
    OBVIOUS
  <2>1. now - b.last = 0
    OBVIOUS
  <2> QED
    BY <2>1, CapacityFacts
<1> DEFINE gain == (now - b.last) * MaxRequests
<1>4. Refilled(b) = IF b.tokens + gain < Capacity THEN b.tokens + gain ELSE Capacity
  BY DEF Refilled
<1>5. gain \in Nat /\ (b.last = now => gain = 0)
  BY <1>2, <1>3
<1> HIDE DEF gain
<1> QED
  BY <1>1, <1>4, <1>5, CapacityFacts

LEMMA StoredFacts ==
  ASSUME LimiterTypeOK, NEW c \in Client
  PROVE  Stored(c) \in 0..Capacity
<1>1. buckets[c] \in Bucket \cup {NoBucket} /\ now \in Nat
  BY DEF LimiterTypeOK
<1> QED
  BY <1>1, RefilledFacts, CapacityFacts DEF Stored

-----------------------------------------------------------------------------
(* One call of the limiter: what it looks at and what it leaves.           *)
LEMMA LevelFacts ==
  ASSUME LimiterTypeOK, NEW c \in Client
  PROVE  /\ Level(c) \in 0..Capacity
         /\ CleanupDue => Level(c) = Capacity
         /\ ~CleanupDue => Level(c) = Stored(c)
<1>1. buckets[c] \in Bucket \cup {NoBucket} /\ now \in Nat
  BY DEF LimiterTypeOK
<1>2. [tokens |-> Capacity, last |-> now] \in Bucket
  BY <1>1, CapacityFacts DEF Bucket
<1>3. BucketOf(c) \in Bucket
  BY <1>1, <1>2 DEF BucketOf
<1>4. Refilled([tokens |-> Capacity, last |-> now]) = Capacity
  BY <1>1, <1>2, RefilledFacts
<1> QED
  BY <1>1, <1>3, <1>4, RefilledFacts DEF Level, BucketOf, Stored

LEMMA ConsumeCharges ==
  ASSUME LimiterTypeOK, NEW c \in Client, Consume(c)
  PROVE  /\ buckets' \in [Client -> Bucket \cup {NoBucket}]
         /\ Stored(c)' = IF Allowed(c) THEN Level(c) - Window ELSE Level(c)
         /\ \A d \in Client \ {c} :
              Stored(d)' = IF CleanupDue THEN Capacity ELSE Stored(d)
<1> DEFINE left == IF Allowed(c) THEN Level(c) - Window ELSE Level(c)
           b == [tokens |-> left, last |-> now]
<1>1. now \in Nat /\ now' = now /\ buckets \in [Client -> Bucket \cup {NoBucket}]
  BY DEF LimiterTypeOK, Consume
<1>2. left \in 0..Capacity
  BY LevelFacts, CapacityFacts DEF Allowed
<1>3. b \in Bucket /\ b # NoBucket
  <2>1. b \in Bucket
    BY <1>1, <1>2 DEF Bucket
  <2>2. b \in [tokens : Nat, last : Nat]
    BY <1>1, <1>2, CapacityFacts
  <2> QED
    BY <2>1, <2>2, LimiterAssumption
<1>4. /\ buckets'[c] = b
      /\ \A d \in Client \ {c} : buckets'[d] = IF CleanupDue THEN NoBucket ELSE buckets[d]
  BY DEF Consume
<1>5. buckets' \in [Client -> Bucket \cup {NoBucket}]
  <2>1. \A d \in Client : buckets'[d] \in Bucket \cup {NoBucket}
    BY <1>1, <1>3, <1>4
  <2>2. buckets' = [d \in Client |-> buckets'[d]]
    BY DEF Consume
  <2> HIDE DEF b
  <2> QED
    BY <2>1, <2>2
<1>6. Refilled(b) = left
  BY <1>1, <1>3, RefilledFacts
<1>7. Stored(c)' = left
  <2>1. Stored(c)' = IF buckets'[c] = NoBucket THEN Capacity ELSE Refilled(buckets[c])'
    BY DEF Stored
  <2>2. Refilled(buckets[c])' = Refilled(b)
    BY <1>1, <1>4 DEF Refilled
  <2> HIDE DEF b, left
  <2> QED
    BY <2>1, <2>2, <1>3, <1>4, <1>6
<1>8. ASSUME NEW d \in Client \ {c}
      PROVE  Stored(d)' = IF CleanupDue THEN Capacity ELSE Stored(d)
  BY <1>1, <1>4 DEF Stored, Refilled
<1> QED
  BY <1>5, <1>7, <1>8

LEMMA ConsumeType ==
  ASSUME LimiterTypeOK, NEW c \in Client, Consume(c)
  PROVE  LimiterTypeOK'
<1>1. Bucket' = Bucket
  BY DEF Bucket, Consume
<1>2. buckets' \in [Client -> Bucket \cup {NoBucket}]'
  BY <1>1, ConsumeCharges
<1>3. admitted' \in [Client -> Nat]
  BY DEF LimiterTypeOK, Consume
<1> QED
  BY <1>2, <1>3 DEF LimiterTypeOK, Consume

LEMMA ConsumeStep ==
  ASSUME LimiterInv, NEW c \in Client, Consume(c)
  PROVE  LimiterInv'
<1> USE DEF LimiterInv
<1>1. LimiterTypeOK'
  BY ConsumeType
<1>2. /\ now \in Nat /\ since \in Nat /\ lastCleanup \in 0..now /\ cleanups \in Nat
      /\ admitted \in [Client -> Nat]
      /\ now' = now /\ since' = since
      /\ Counting' = Counting /\ Elapsed' = Elapsed /\ Elapsed \in Nat
  BY DEF LimiterTypeOK, Consume, Counting, Elapsed
<1>3. cleanups' = IF CleanupDue /\ Counting THEN cleanups + 1 ELSE cleanups
  BY DEF Consume
<1>4. \A d \in Client :
        admitted'[d] = IF d = c /\ Allowed(c) /\ Counting THEN admitted[d] + 1 ELSE admitted[d]
  BY <1>2 DEF Consume
<1>5. NotAhead'
  BY <1>2, <1>3, <1>4 DEF NotAhead
<1>6. SweepsApart'
  <2>1. CASE CleanupDue /\ Counting
    <3>1. lastCleanup' = now /\ cleanups' = cleanups + 1
      BY <2>1 DEF Consume
    <3>2. CASE cleanups = 0
      <4>1. (cleanups' - 1) * CleanupInterval = 0
        <5>1. cleanups' - 1 = 0
          BY <3>1, <3>2
        <5> QED
          BY <5>1, CapacityFacts
      <4> QED
        BY <2>1, <3>1, <4>1, <1>2 DEF SweepsApart, Counting
    <3>3. CASE cleanups # 0
      <4>1. (cleanups - 1 + 1) * CleanupInterval = (cleanups - 1) * CleanupInterval + CleanupInterval
        BY <1>2, OneMore, CapacityFacts
      <4>2. cleanups' - 1 = cleanups - 1 + 1
        BY <3>1, <1>2
      <4>3. (cleanups - 1) * CleanupInterval <= lastCleanup - since
        BY <3>3 DEF SweepsApart
      <4>4. (cleanups - 1) * CleanupInterval \in Int
        BY <1>2, CapacityFacts
      <4>5. (cleanups' - 1) * CleanupInterval = (cleanups - 1) * CleanupInterval + CleanupInterval
        BY <4>1, <4>2
      <4>6. now - lastCleanup >= CleanupInterval
        BY <2>1 DEF CleanupDue
      <4> QED
        BY <1>2, <3>1, <4>3, <4>4, <4>5, <4>6, CapacityFacts DEF SweepsApart
    <3> QED
      BY <3>2, <3>3
  <2>2. CASE CleanupDue /\ ~Counting
    BY <1>2, <1>3, <2>2 DEF SweepsApart, NotAhead
  <2>3. CASE ~CleanupDue
    BY <1>2, <1>3, <2>3 DEF SweepsApart, Consume
  <2> QED
    BY <2>1, <2>2, <2>3
<1>7. ASSUME NEW d \in Client
      PROVE  /\ Spent(d)' + Stored(d)' <= (1 + cleanups') * Capacity + Elapsed * MaxRequests
             /\ \/ Spent(d)' + Stored(d)' >= Capacity
                \/ Spent(d)' + Stored(d)' >= Elapsed * MaxRequests
  <2> DEFINE spent == Spent(d)
             spentAfter == Spent(d)'
             stored == Stored(d)
             storedAfter == Stored(d)'
             gained == Elapsed * MaxRequests
             given == (1 + cleanups) * Capacity
             givenAfter == (1 + cleanups') * Capacity
  <2>1. spent \in Nat /\ gained \in Nat /\ given \in Nat /\ given >= Capacity
    <3>1. given = cleanups * Capacity + Capacity
      BY <1>2, OneMore, CapacityFacts
    <3> QED
      BY <1>2, <3>1, ProductNat, CapacityFacts DEF Spent
  <2>2. spentAfter = IF d = c /\ Allowed(c) /\ Counting THEN spent + Window ELSE spent
    BY <1>2, <1>4, OneMore, CapacityFacts DEF Spent
  <2>3. ~Counting => spent = 0 /\ gained = 0 /\ spentAfter = 0
    <3> SUFFICES ASSUME ~Counting PROVE spent = 0 /\ gained = 0
      BY <2>2
    <3>1. admitted[d] = 0 /\ Elapsed = 0
      BY DEF NotAhead, Elapsed
    <3> QED
      BY <3>1, CapacityFacts DEF Spent
  <2>4. givenAfter = IF CleanupDue /\ Counting THEN given + Capacity ELSE given
    <3>1. (1 + cleanups + 1) * Capacity = given + Capacity
      BY <1>2, OneMore, CapacityFacts
    <3> QED
      BY <1>2, <1>3, <3>1
  <2>5. stored \in 0..Capacity
    BY StoredFacts
  <2>6. /\ spent + stored <= given + gained
        /\ spent + stored >= Capacity \/ spent + stored >= gained
    BY DEF NoMore, NoLess
  <2>7. CASE d # c
    <3>1. storedAfter = IF CleanupDue THEN Capacity ELSE stored
      BY <2>7, ConsumeCharges
    <3> HIDE DEF spent, spentAfter, stored, storedAfter, gained, given, givenAfter
    <3>2. /\ spentAfter + storedAfter <= givenAfter + gained
          /\ spentAfter + storedAfter >= Capacity \/ spentAfter + storedAfter >= gained
      BY <2>1, <2>2, <2>3, <2>4, <2>5, <2>6, <2>7, <3>1, CapacityFacts
    <3> QED
      BY <3>2 DEF spent, spentAfter, stored, storedAfter, gained, given, givenAfter
  <2>8. CASE d = c
    <3>1. /\ storedAfter = IF Allowed(c) THEN Level(c) - Window ELSE Level(c)
          /\ Level(c) \in 0..Capacity
          /\ Level(c) = IF CleanupDue THEN Capacity ELSE stored
          /\ Allowed(c) => Level(c) >= Window
      BY <2>8, ConsumeCharges, LevelFacts DEF Allowed
    <3> HIDE DEF spent, spentAfter, stored, storedAfter, gained, given, givenAfter
    <3>2. /\ spentAfter + storedAfter <= givenAfter + gained
          /\ spentAfter + storedAfter >= Capacity \/ spentAfter + storedAfter >= gained
      BY <2>1, <2>2, <2>3, <2>4, <2>5, <2>6, <2>8, <3>1, CapacityFacts
    <3> QED
      BY <3>2 DEF spent, spentAfter, stored, storedAfter, gained, given, givenAfter
  <2> QED
    BY <2>7, <2>8
<1>8. NoMore' /\ NoLess'
  BY <1>2, <1>7 DEF NoMore, NoLess, Capacity
<1> QED
  BY <1>1, <1>5, <1>6, <1>8

LEMMA TickStep ==
  ASSUME LimiterInv, Tick
  PROVE  LimiterInv'
<1> USE DEF LimiterInv
<1>1. /\ now \in Nat /\ since \in Nat /\ lastCleanup \in 0..now /\ cleanups \in Nat
      /\ admitted \in [Client -> Nat] /\ buckets \in [Client -> Bucket \cup {NoBucket}]
      /\ now' = now + 1
      /\ UNCHANGED <<buckets, lastCleanup, since, admitted, cleanups>>
  BY DEF LimiterTypeOK, Tick
<1>2. LimiterTypeOK'
  <2>1. Bucket \subseteq Bucket'
    BY <1>1 DEF Bucket
  <2>2. buckets \in [Client -> Bucket' \cup {NoBucket}]
    BY <1>1, <2>1
  <2> QED
    BY <1>1, <2>2 DEF LimiterTypeOK
<1>3. /\ Elapsed \in Nat
      /\ Elapsed' = IF Counting THEN Elapsed + 1 ELSE Elapsed
      /\ Counting => Counting'
  BY <1>1 DEF Elapsed, Counting
<1>4. NotAhead' /\ SweepsApart'
  BY <1>1, <1>3 DEF NotAhead, SweepsApart
<1>5. ASSUME NEW c \in Client
      PROVE  /\ Spent(c)' + Stored(c)' <= (1 + cleanups) * Capacity + Elapsed' * MaxRequests
             /\ \/ Spent(c)' + Stored(c)' >= Capacity
                \/ Spent(c)' + Stored(c)' >= Elapsed' * MaxRequests
  <2> DEFINE spent == Spent(c)
             stored == Stored(c)
             storedAfter == Stored(c)'
             gained == Elapsed * MaxRequests
             gainedAfter == Elapsed' * MaxRequests
             given == (1 + cleanups) * Capacity
  <2>1. /\ spent \in Nat /\ gained \in Nat /\ given \in Nat /\ given >= Capacity
        /\ Spent(c)' = spent
    <3>1. given = cleanups * Capacity + Capacity
      BY <1>1, OneMore, CapacityFacts
    <3> QED
      BY <1>1, <1>3, <3>1, ProductNat, CapacityFacts DEF Spent
  <2>2. gainedAfter = IF Counting THEN gained + MaxRequests ELSE gained
    BY <1>3, OneMore, CapacityFacts
  <2>3. ~Counting => spent = 0 /\ gained = 0
    <3> SUFFICES ASSUME ~Counting PROVE spent = 0 /\ gained = 0
      OBVIOUS
    <3>1. admitted[c] = 0 /\ Elapsed = 0
      BY DEF NotAhead, Elapsed
    <3> QED
      BY <3>1, CapacityFacts DEF Spent
  <2>4. /\ stored \in 0..Capacity
        /\ storedAfter = IF stored + MaxRequests < Capacity THEN stored + MaxRequests ELSE Capacity
    <3>1. CASE buckets[c] = NoBucket
      BY <1>1, <3>1, CapacityFacts DEF Stored
    <3>2. CASE buckets[c] # NoBucket
      <4> DEFINE b == buckets[c]
                 gain == (now - b.last) * MaxRequests
                 gainAfter == (now + 1 - b.last) * MaxRequests
      <4>1. b \in Bucket
        BY <1>1, <3>2
      <4>2. b.last \in 0..now /\ b.tokens \in 0..Capacity
        BY <1>1, <4>1, RefilledFacts
      <4>3. gain \in Nat /\ gainAfter = gain + MaxRequests
        <5>1. now + 1 - b.last = (now - b.last) + 1
          BY <1>1, <4>2
        <5>2. ((now - b.last) + 1) * MaxRequests = gain + MaxRequests
          BY <1>1, <4>2, OneMore, CapacityFacts
        <5>3. gain \in Nat
          BY <1>1, <4>2, ProductNat, CapacityFacts
        <5> QED
          BY <5>1, <5>2, <5>3
      <4>4. stored = IF b.tokens + gain < Capacity THEN b.tokens + gain ELSE Capacity
        BY <3>2 DEF Stored, Refilled
      <4>5. storedAfter = IF b.tokens + gainAfter < Capacity THEN b.tokens + gainAfter ELSE Capacity
        <5>1. Stored(c)' = IF buckets'[c] = NoBucket THEN Capacity' ELSE Refilled(buckets[c])'
          BY DEF Stored
        <5>2. Capacity' = Capacity
          BY DEF Capacity
        <5>3. buckets'[c] = b /\ buckets' = buckets /\ now' = now + 1
          BY DEF Tick
        <5> DEFINE gainThen == (now' - buckets'[c].last) * MaxRequests
        <5>4. Refilled(buckets[c])' =
                IF buckets'[c].tokens + gainThen < Capacity' THEN buckets'[c].tokens + gainThen ELSE Capacity'
          BY DEF Refilled
        <5>5. gainThen = gainAfter
          BY <1>1, <4>2, <5>3, CapacityFacts
        <5> HIDE DEF gainThen, gainAfter
        <5>6. Refilled(buckets[c])' =
                IF b.tokens + gainAfter < Capacity THEN b.tokens + gainAfter ELSE Capacity
          BY <5>2, <5>3, <5>4, <5>5
        <5> QED
          BY <3>2, <5>1, <5>2, <5>3, <5>6
      <4> HIDE DEF gain, gainAfter, stored, storedAfter
      <4> QED
        BY <4>2, <4>3, <4>4, <4>5, CapacityFacts
    <3> QED
      BY <3>1, <3>2
  <2>5. /\ spent + stored <= given + gained
        /\ spent + stored >= Capacity \/ spent + stored >= gained
    BY DEF NoMore, NoLess
  <2> HIDE DEF spent, stored, storedAfter, gained, gainedAfter, given
  <2>6. /\ spent + storedAfter <= given + gainedAfter
        /\ spent + storedAfter >= Capacity \/ spent + storedAfter >= gainedAfter
    BY <2>1, <2>2, <2>3, <2>4, <2>5, CapacityFacts
  <2> QED
    BY <2>1, <2>6 DEF spent, stored, storedAfter, gained, gainedAfter, given
<1>6. NoMore' /\ NoLess'
  BY <1>1, <1>5 DEF NoMore, NoLess, Capacity
<1> QED
  BY <1>2, <1>4, <1>6

LEMMA LimiterInitHolds == LimiterInit => LimiterInv
<1> SUFFICES ASSUME LimiterInit PROVE LimiterInv
  OBVIOUS
<1>1. LimiterTypeOK
  BY LimiterAssumption DEF LimiterInit, LimiterTypeOK
<1>2. NotAhead /\ SweepsApart
  BY DEF LimiterInit, NotAhead, SweepsApart
<1>3. Elapsed = 0 /\ cleanups = 0
  BY LimiterAssumption DEF LimiterInit, Elapsed, Counting
<1>4. Elapsed * MaxRequests = 0 /\ (1 + cleanups) * Capacity = Capacity
  BY <1>3, CapacityFacts
<1>5. ASSUME NEW c \in Client
      PROVE  Spent(c) = 0 /\ Stored(c) = Capacity
  BY CapacityFacts DEF LimiterInit, Spent, Stored
<1>6. NoMore /\ NoLess
  BY <1>4, <1>5, CapacityFacts DEF NoMore, NoLess
<1> QED
  BY <1>1, <1>2, <1>6 DEF LimiterInv

(* What the invariant is for.                                              *)
LEMMA RareByDistance == LimiterInv => CleanupsAreRare
<1> SUFFICES ASSUME LimiterInv PROVE (cleanups - 1) * CleanupInterval <= Elapsed
  BY DEF CleanupsAreRare
<1>1. /\ now \in Nat /\ since \in Nat /\ lastCleanup \in 0..now /\ cleanups \in Nat
      /\ Elapsed \in Nat
  BY DEF LimiterInv, LimiterTypeOK, Elapsed, Counting
<1>2. CASE cleanups = 0
  <2>1. (cleanups - 1) * CleanupInterval <= 0 * CleanupInterval
    BY <1>2, Monotone, CapacityFacts
  <2>2. 0 * CleanupInterval = 0
    BY CapacityFacts
  <2>3. (cleanups - 1) * CleanupInterval \in Int
    BY <1>1, CapacityFacts
  <2> QED
    BY <1>1, <2>1, <2>2, <2>3
<1>3. CASE cleanups # 0
  <2>1. Counting
    BY <1>3 DEF LimiterInv, NotAhead
  <2>2. (cleanups - 1) * CleanupInterval <= lastCleanup - since
    BY <1>3 DEF LimiterInv, SweepsApart
  <2>3. (cleanups - 1) * CleanupInterval \in Int
    BY <1>1, CapacityFacts
  <2> QED
    BY <1>1, <2>1, <2>2, <2>3 DEF Elapsed
<1> QED
  BY <1>2, <1>3

LEMMA BoundedByBalance == LimiterInv => AdmissionsBounded
<1> SUFFICES ASSUME LimiterInv PROVE AdmissionsBounded
  OBVIOUS
<1>1. CleanupsAreRare
  BY RareByDistance
<1>2. ASSUME NEW c \in Client
      PROVE  Spent(c) <= (1 + cleanups) * Capacity + Elapsed * MaxRequests
  <2>1. Spent(c) + Stored(c) <= (1 + cleanups) * Capacity + Elapsed * MaxRequests
    BY DEF LimiterInv, NoMore
  <2>2. Stored(c) \in Nat
    BY StoredFacts, CapacityFacts DEF LimiterInv
  <2>3. /\ Spent(c) \in Nat
        /\ (1 + cleanups) * Capacity \in Nat
        /\ Elapsed * MaxRequests \in Nat
    <3>1. admitted[c] \in Nat /\ 1 + cleanups \in Nat /\ Elapsed \in Nat
      BY DEF LimiterInv, LimiterTypeOK, Elapsed, Counting
    <3> QED
      BY <3>1, ProductNat, CapacityFacts DEF Spent
  <2> QED
    BY <2>1, <2>2, <2>3
<1> QED
  BY <1>1, <1>2 DEF AdmissionsBounded, Spent

LEMMA EarnedByBalance == LimiterInv => RefusalIsEarned
<1> SUFFICES ASSUME LimiterInv, NEW c \in Client, Elapsed >= Window, ~Allowed(c)
             PROVE  admitted[c] >= MaxRequests
  BY DEF RefusalIsEarned
<1>1. admitted[c] \in Nat /\ Elapsed \in Nat
  BY DEF LimiterInv, LimiterTypeOK, Elapsed, Counting
<1>2. Elapsed * MaxRequests >= Capacity
  <2>1. Window * MaxRequests <= Elapsed * MaxRequests
    BY <1>1, Monotone, CapacityFacts
  <2>2. Window * MaxRequests = Capacity
    BY CapacityFacts DEF Capacity
  <2>3. Elapsed * MaxRequests \in Int /\ Capacity \in Int
    BY <1>1, CapacityFacts
  <2> QED
    BY <2>1, <2>2, <2>3
<1>3. Level(c) \in 0..Capacity /\ Level(c) < Window /\ Level(c) = Stored(c)
  BY LevelFacts, CapacityFacts DEF LimiterInv, Allowed
<1>4. Spent(c) \in Nat /\ Elapsed * MaxRequests \in Nat
  BY <1>1, ProductNat, CapacityFacts DEF Spent
<1>5. Spent(c) > Capacity - Window
  <2>1. Spent(c) + Stored(c) >= Capacity \/ Spent(c) + Stored(c) >= Elapsed * MaxRequests
    BY DEF LimiterInv, NoLess
  <2> QED
    BY <1>2, <1>3, <1>4, <2>1, CapacityFacts
<1>6. Capacity - Window = (MaxRequests - 1) * Window
  BY OneMore, CapacityFacts DEF Capacity
<1>7. admitted[c] <= MaxRequests - 1 => Spent(c) <= (MaxRequests - 1) * Window
  BY <1>1, Monotone, CapacityFacts DEF Spent
<1>8. (MaxRequests - 1) * Window \in Int
  BY CapacityFacts
<1> QED
  BY <1>1, <1>4, <1>5, <1>6, <1>7, <1>8, CapacityFacts

-----------------------------------------------------------------------------
(* The stack, outermost layer first.                                       *)
LEMMA StackIs == Stack = <<"signature", "limit", "logging", "route">>
<1>1. Added = <<"route", "logging", "limit", "signature">>
  BY DEF Added
<1> QED
  BY <1>1 DEF Reverse, Stack

LEMMA LeastExists ==
  ASSUME NEW S \in SUBSET Nat, S # {}
  PROVE  Min(S) \in S
<1>1. OpToRel(<, Nat) = {pair \in Nat \X Nat : pair[1] < pair[2]}
  BY DEF OpToRel
<1>2. PICK x \in S : \A y \in S : <<y, x>> \notin OpToRel(<, Nat)
  BY NatLessThanWellFounded, WFMin
<1>3. ASSUME NEW y \in S
      PROVE  x <= y
  <2>1. <<y, x>> \notin {pair \in Nat \X Nat : pair[1] < pair[2]}
    BY <1>1, <1>2
  <2>2. <<y, x>> \in Nat \X Nat /\ <<y, x>>[1] = y /\ <<y, x>>[2] = x
    OBVIOUS
  <2> QED
    BY <2>1, <2>2
<1>4. \E z \in S : \A y \in S : z <= y
  BY <1>3
<1> QED
  BY <1>4 DEF Min

(* The parser lets through exactly the reviewable payloads, and passes over*)
(* only those of no interest, whatever else is wrong with them.            *)
LEMMA ParserIsExact ==
  ASSUME NEW p \in Payload
  PROVE  /\ Parse(p) \in {"malformed", "ignored", "crash", "event"}
         /\ Parse(p) = "event" <=> Reviewable(p)
         /\ Parse(p) = "ignored" => OfNoInterest(p)
         /\ Nature(p) \in {"reviewable", "dull", "broken"}
         /\ Nature(p) = "reviewable" <=> Parse(p) = "event"
         /\ Parse(p) = "ignored" => Nature(p) = "dull"
<1> DEFINE checks == Checks(p)
           I == {i \in 1..11 : checks[i] # "none"}
<1>1. Len(checks) = 11
  BY DEF Checks
<1>2. Parse(p) = LET first == IF I # {} THEN Min(I) ELSE 0
                 IN  IF first = 0 THEN "event" ELSE checks[first]
  BY <1>1 DEF Parse, SelectInSeq
<1>3. I = {} <=> Reviewable(p)
  <2>1. I = {} <=>
          /\ checks[1] = "none" /\ checks[2] = "none" /\ checks[3] = "none"
          /\ checks[4] = "none" /\ checks[5] = "none" /\ checks[6] = "none"
          /\ checks[7] = "none" /\ checks[8] = "none" /\ checks[9] = "none"
          /\ checks[10] = "none" /\ checks[11] = "none"
    <3> HIDE DEF checks
    <3> QED
      OBVIOUS
  <2>2. I = {} <=>
          /\ p.body = "object" /\ p.type = "pull_request" /\ p.action = "supported"
          /\ p.pr = "object" /\ p.fields = "complete" /\ p.installation # "mistyped"
    BY <2>1 DEF Checks, Fault, Payload
  <2> QED
    BY <2>2 DEF Reviewable, Payload
<1>4. ASSUME I # {}
      PROVE  /\ Parse(p) \in {"malformed", "ignored", "crash"}
             /\ Parse(p) = "ignored" => OfNoInterest(p)
  <2>1. Min(I) \in I
    BY <1>4, LeastExists
  <2>2. Parse(p) = checks[Min(I)]
    BY <1>2, <1>4, <2>1
  <2>3. ASSUME NEW i \in I
        PROVE  /\ checks[i] \in {"malformed", "ignored", "crash"}
               /\ checks[i] = "ignored" => OfNoInterest(p)
    BY DEF Checks, Fault, OfNoInterest
  <2> QED
    BY <2>1, <2>2, <2>3
<1>5. I = {} => Parse(p) = "event"
  BY <1>2
<1> QED
  BY <1>3, <1>4, <1>5 DEF Nature

-----------------------------------------------------------------------------
(* How far a request has got agrees with what has been done for it.        *)
SlotOK(s) ==
  /\ request[s] = Nothing =>
       passed[s] = 0 /\ s \notin charged /\ answer[s] = "none" /\ logged[s] = 0
  /\ s \in charged <=> passed[s] > 1 \/ answer[s] = "limited"
  /\ (passed[s] > 0 /\ GithubSecret) => request[s].kind # "unsigned"
  /\ answer[s] = "none" \/ passed[s] < 3 => payload[s] = "unread"
  /\ answer[s] # "none" => \/ passed[s] = 0 /\ Verified(s) /\ answer[s] \in {"unsigned", "crash"}
                           \/ passed[s] = 1 /\ answer[s] = "limited"
                           \/ passed[s] = 3 /\ answer[s] \notin {"unsigned", "limited"}
  /\ logged[s] # 0 => logged[s] = Status(answer[s]) /\ passed[s] = 3 /\ answer[s] # "none"
  /\ payload[s] = "reviewable" <=> answer[s] \in {"queued", "rejected"}
  /\ answer[s] = "ignored" => payload[s] = "dull"

SlotTypeOK ==
  /\ request \in [Slot -> Request \cup {Nothing}]
  /\ passed \in [Slot -> 0..3]
  /\ charged \subseteq Slot
  /\ payload \in [Slot -> {"unread", "reviewable", "dull", "broken"}]
  /\ answer \in [Slot -> {"none", "queued", "rejected", "ignored", "served",
                         "malformed", "unsigned", "unrouted", "limited", "crash"}]
  /\ logged \in [Slot -> {0, 200, 400, 404, 500}]

PoolOK == remembered \subseteq accounted /\ accounted \subseteq DeliveryId

Inv == LimiterInv /\ SlotTypeOK /\ PoolOK /\ \A s \in Slot : SlotOK(s)

LEMMA AtFacts ==
  ASSUME SlotTypeOK, NEW s \in Slot, NEW name \in {"signature", "limit", "logging", "route"},
         At(s, name)
  PROVE  /\ request[s] \in Request /\ answer[s] = "none"
         /\ name = "signature" => passed[s] = 0
         /\ name = "limit" => passed[s] = 1
         /\ name = "logging" => passed[s] = 2
         /\ name = "route" => passed[s] = 3
<1>1. passed[s] \in 0..3 /\ request[s] \in Request \cup {Nothing}
  BY DEF SlotTypeOK
<1> QED
  BY <1>1, StackIs DEF At

LEMMA EnteredLog ==
  ASSUME SlotTypeOK, NEW s \in Slot
  PROVE  Entered(s, "logging") <=> passed[s] = 3
<1>1. passed[s] \in 0..3
  BY DEF SlotTypeOK
<1>2. Stack[1] # "logging" /\ Stack[2] # "logging" /\ Stack[3] = "logging"
  BY StackIs
<1> QED
  BY <1>1, <1>2 DEF Entered

(* A step that is one slot's own leaves the others as they were.           *)
LEMMA OthersKept ==
  ASSUME NEW s \in Slot, \A t \in Slot : SlotOK(t), SlotOK(s)',
         \A t \in Slot \ {s} :
           /\ request'[t] = request[t] /\ passed'[t] = passed[t] /\ (t \in charged' <=> t \in charged)
           /\ payload'[t] = payload[t] /\ answer'[t] = answer[t] /\ logged'[t] = logged[t]
  PROVE  \A t \in Slot : SlotOK(t)'
<1> SUFFICES ASSUME NEW t \in Slot, t # s PROVE SlotOK(t)'
  OBVIOUS
<1> QED
  BY DEF SlotOK, Verified

LEMMA LimiterKept == LimiterInv /\ UNCHANGED limiterVars => LimiterInv'
<1> SUFFICES ASSUME LimiterInv, UNCHANGED limiterVars PROVE LimiterInv'
  OBVIOUS
<1> QED
  BY DEF LimiterInv, LimiterTypeOK, NotAhead, NoMore, NoLess, SweepsApart, Spent, Stored,
         Refilled, Capacity, CleanupInterval, Elapsed, Counting, Bucket, limiterVars

LEMMA InitInv == Init => Inv
  BY LimiterInitHolds DEF Init, Inv, SlotTypeOK, SlotOK, PoolOK

LEMMA ArriveStep ==
  ASSUME Inv, NEW s \in Slot, Arrive(s)
  PROVE  Inv'
<1>1. SlotTypeOK' /\ PoolOK' /\ LimiterInv'
  BY LimiterKept DEF Arrive, Inv, SlotTypeOK, PoolOK, poolVars
<1>2. SlotOK(s)'
  BY DEF Arrive, Inv, SlotOK, SlotTypeOK
<1>3. \A t \in Slot : SlotOK(t)'
  BY <1>2, OthersKept DEF Arrive, Inv, SlotTypeOK
<1> QED
  BY <1>1, <1>3 DEF Inv

LEMMA VerifyStep ==
  ASSUME Inv, NEW s \in Slot, Verify(s)
  PROVE  Inv'
<1>1. request[s] \in Request /\ answer[s] = "none" /\ passed[s] = 0
  BY AtFacts DEF Verify, Inv
<1>2. SlotTypeOK' /\ PoolOK' /\ LimiterInv'
  BY <1>1, LimiterKept DEF Verify, Pass, Answer, Inv, SlotTypeOK, PoolOK, poolVars
<1>3. SlotOK(s)'
  <2>1. /\ UNCHANGED <<request, charged, payload, logged>>
        /\ \/ /\ Verified(s)
              /\ answer'[s] \in {"unsigned", "crash"} /\ passed'[s] = 0
           \/ /\ ~(Verified(s) /\ request[s].kind = "unsigned")
              /\ answer'[s] = "none" /\ passed'[s] = 1
    BY <1>1 DEF Verify, Pass, Answer, Inv, SlotTypeOK
  <2>2. SlotOK(s) /\ request[s] # Nothing
    BY DEF Verify, At, Inv
  <2> QED
    BY <1>1, <2>1, <2>2 DEF SlotOK, Verified
<1>4. \A t \in Slot : SlotOK(t)'
  BY <1>3, OthersKept DEF Verify, Pass, Answer, Inv, SlotTypeOK
<1> QED
  BY <1>2, <1>4 DEF Inv

LEMMA LimitStep ==
  ASSUME Inv, NEW s \in Slot, Limit(s)
  PROVE  Inv'
<1>1. request[s] \in Request /\ answer[s] = "none" /\ passed[s] = 1
  BY AtFacts DEF Limit, Inv
<1>2. LimiterInv'
  <2>1. request[s].client \in Client
    BY <1>1 DEF Request
  <2> QED
    BY <2>1, ConsumeStep DEF Limit, Inv
<1>3. SlotTypeOK' /\ PoolOK'
  BY <1>1 DEF Limit, Pass, Answer, Inv, SlotTypeOK, PoolOK, poolVars
<1>4. SlotOK(s)'
  BY <1>1 DEF Limit, Pass, Answer, Inv, SlotOK, SlotTypeOK
<1>5. \A t \in Slot : SlotOK(t)'
  BY <1>4, OthersKept DEF Limit, Pass, Answer, Inv, SlotTypeOK
<1> QED
  BY <1>2, <1>3, <1>5 DEF Inv

LEMMA EnterLogStep ==
  ASSUME Inv, NEW s \in Slot, EnterLog(s)
  PROVE  Inv'
<1>1. request[s] \in Request /\ answer[s] = "none" /\ passed[s] = 2
  BY AtFacts DEF EnterLog, Inv
<1>2. SlotTypeOK' /\ PoolOK' /\ LimiterInv'
  BY <1>1, LimiterKept DEF EnterLog, Pass, Inv, SlotTypeOK, PoolOK, poolVars
<1>3. SlotOK(s)'
  BY <1>1 DEF EnterLog, Pass, Inv, SlotOK, SlotTypeOK
<1>4. \A t \in Slot : SlotOK(t)'
  BY <1>3, OthersKept DEF EnterLog, Pass, Inv, SlotTypeOK
<1> QED
  BY <1>2, <1>4 DEF Inv

LEMMA WebhooksStep ==
  ASSUME Inv, NEW s \in Slot, Webhooks(s)
  PROVE  Inv'
<1>1. request[s] \in Request /\ answer[s] = "none" /\ passed[s] = 3
  BY AtFacts DEF Webhooks, Inv
<1> DEFINE d == request[s].delivery
<1>2. d \in DeliveryId
  BY <1>1 DEF Request
<1>2b. PICK b \in Bodies : \E a \in IF b.result = "event" THEN Submit(d) ELSE {b.result} :
        /\ payload' = [payload EXCEPT ![s] = b.nature]
        /\ Answer(s, a)
        /\ remembered' = IF b.result = "event" THEN remembered \cup {d} ELSE remembered
        /\ accounted' = IF a \in {"queued", "rejected"} THEN accounted \cup {d} ELSE accounted
  BY DEF Webhooks
<1>3. PICK a \in IF b.result = "event" THEN Submit(d) ELSE {b.result} :
        /\ payload' = [payload EXCEPT ![s] = b.nature]
        /\ Answer(s, a)
        /\ remembered' = IF b.result = "event" THEN remembered \cup {d} ELSE remembered
        /\ accounted' = IF a \in {"queued", "rejected"} THEN accounted \cup {d} ELSE accounted
  BY <1>2b
<1>4. /\ b.result \in {"malformed", "ignored", "crash", "event"}
      /\ b.nature \in {"reviewable", "dull", "broken"}
      /\ b.nature = "reviewable" <=> b.result = "event"
      /\ b.result = "ignored" => b.nature = "dull"
  BY ParserIsExact DEF Bodies
<1>5. /\ b.result = "event" => a \in {"queued", "rejected"}
      /\ b.result # "event" => a = b.result /\ a \in {"malformed", "ignored", "crash"}
  BY <1>3, <1>4 DEF Submit
<1>6. /\ SlotTypeOK' /\ LimiterInv'
  BY <1>1, <1>3, <1>4, <1>5, LimiterKept DEF Webhooks, Answer, Inv, SlotTypeOK
<1>7. PoolOK'
  BY <1>2, <1>3, <1>5 DEF Inv, PoolOK
<1>8. SlotOK(s)'
  BY <1>1, <1>3, <1>4, <1>5 DEF Webhooks, Answer, Inv, SlotOK, SlotTypeOK
<1>9. \A t \in Slot : SlotOK(t)'
  BY <1>3, <1>8, OthersKept DEF Webhooks, Answer, Inv, SlotTypeOK
<1> QED
  BY <1>6, <1>7, <1>9 DEF Inv

LEMMA ProbeStep ==
  ASSUME Inv, NEW s \in Slot, Probe(s)
  PROVE  Inv'
<1>1. request[s] \in Request /\ answer[s] = "none" /\ passed[s] = 3
  BY AtFacts DEF Probe, Inv
<1>2. SlotTypeOK' /\ PoolOK' /\ LimiterInv'
  BY <1>1, LimiterKept DEF Probe, Answer, Inv, SlotTypeOK, PoolOK, poolVars
<1>3. SlotOK(s)'
  BY <1>1 DEF Probe, Answer, Inv, SlotOK, SlotTypeOK
<1>4. \A t \in Slot : SlotOK(t)'
  BY <1>3, OthersKept DEF Probe, Answer, Inv, SlotTypeOK
<1> QED
  BY <1>2, <1>4 DEF Inv

LEMMA LeaveLogStep ==
  ASSUME Inv, NEW s \in Slot, LeaveLog(s)
  PROVE  Inv'
<1>1. passed[s] = 3 /\ answer[s] # "none"
  BY EnteredLog DEF LeaveLog, Inv
<1>2. Status(answer[s]) \in {200, 400, 404, 500}
  BY <1>1 DEF Status, Inv, SlotOK, SlotTypeOK
<1>3. SlotTypeOK' /\ PoolOK' /\ LimiterInv'
  BY <1>2, LimiterKept DEF LeaveLog, Inv, SlotTypeOK, PoolOK, poolVars
<1>4. SlotOK(s)'
  <2>1. logged'[s] = Status(answer[s]) /\ UNCHANGED <<request, passed, charged, payload, answer>>
    BY DEF LeaveLog, Inv, SlotTypeOK
  <2>2. Status(answer[s])' = Status(answer[s])
    BY <2>1 DEF Status
  <2> QED
    BY <1>1, <2>1, <2>2 DEF Inv, SlotOK
<1>5. \A t \in Slot : SlotOK(t)'
  BY <1>4, OthersKept DEF LeaveLog, Inv, SlotTypeOK
<1> QED
  BY <1>3, <1>5 DEF Inv

LEMMA ReplyStep ==
  ASSUME Inv, NEW s \in Slot, Reply(s)
  PROVE  Inv'
<1>1. SlotTypeOK' /\ PoolOK' /\ LimiterInv'
  BY LimiterKept DEF Reply, Inv, SlotTypeOK, PoolOK, poolVars
<1>2. SlotOK(s)'
  BY DEF Reply, Inv, SlotOK, SlotTypeOK
<1>3. \A t \in Slot : SlotOK(t)'
  BY <1>2, OthersKept DEF Reply, Inv, SlotTypeOK
<1> QED
  BY <1>1, <1>3 DEF Inv

LEMMA SlotsKept == (\A s \in Slot : SlotOK(s)) /\ SlotTypeOK /\ UNCHANGED slotVars
                     => (\A s \in Slot : SlotOK(s)') /\ SlotTypeOK'
  BY DEF SlotOK, SlotTypeOK, Status, Verified, slotVars

LEMMA NextStep == Inv /\ [Next]_vars => Inv'
<1> SUFFICES ASSUME Inv, [Next]_vars PROVE Inv'
  OBVIOUS
<1>1. ASSUME NEW s \in Slot,
             \/ Arrive(s) \/ Verify(s) \/ Limit(s) \/ EnterLog(s)
             \/ Webhooks(s) \/ Probe(s) \/ LeaveLog(s) \/ Reply(s)
      PROVE  Inv'
  BY <1>1, ArriveStep, VerifyStep, LimitStep, EnterLogStep, WebhooksStep, ProbeStep,
     LeaveLogStep, ReplyStep
<1>2. ASSUME NEW d \in DeliveryId, Forget(d)
      PROVE  Inv'
  BY <1>2, LimiterKept, SlotsKept DEF Forget, Inv, PoolOK
<1>3. CASE GatewayTick
  BY <1>3, TickStep, SlotsKept DEF GatewayTick, Inv, PoolOK, poolVars
<1>4. CASE UNCHANGED vars
  BY <1>4, LimiterKept, SlotsKept DEF vars, poolVars, Inv, PoolOK
<1> QED
  BY <1>1, <1>2, <1>3, <1>4 DEF Next

-----------------------------------------------------------------------------
(* Every reachable state satisfies the invariant.                          *)
THEOREM Invariance == Spec => []Inv
  BY InitInv, NextStep, PTL DEF Spec

(* TypeOK: the state of the limiter and of the gateway is well typed; in   *)
(* particular no bucket ever holds less than nothing or more than its      *)
(* capacity (TokenBucket.consume).                                         *)
THEOREM TypeCorrect == Spec => []TypeOK
<1>1. Inv => TypeOK
  <2>1. Len(Stack) = 4
    BY StackIs
  <2> QED
    BY <2>1 DEF Inv, LimiterInv, SlotTypeOK, PoolOK, TypeOK
<1> QED
  BY <1>1, Invariance, PTL

(* AdmissionsBounded: whatever the traffic, a client gets through at most  *)
(* a full bucket, the refill of the time, and a full bucket for each sweep *)
(* of the table (RateLimitMiddleware.dispatch).                            *)
THEOREM LimitHolds == Spec => []AdmissionsBounded
  BY Invariance, BoundedByBalance, PTL DEF Inv

(* CleanupsAreRare: sweeps of the table of buckets lie a cleanup interval  *)
(* apart (_maybe_cleanup).                                                 *)
THEOREM SweepsAreRare == Spec => []CleanupsAreRare
  BY Invariance, RareByDistance, PTL DEF Inv

(* RefusalIsEarned: a client refused has used its share of the last window *)
(* (TokenBucket.consume charges nothing for a refusal).                    *)
THEOREM LimitIsFair == Spec => []RefusalIsEarned
  BY Invariance, EarnedByBalance, PTL DEF Inv

(* ChargedWereSigned: the order of add_middleware in create_app keeps      *)
(* unverified webhooks from the rate limit.                                *)
THEOREM SignatureGuardsLimit == Spec => []ChargedWereSigned
<1>1. Inv => ChargedWereSigned
  <2> SUFFICES ASSUME Inv, GithubSecret, NEW s \in charged
               PROVE  request[s].kind # "unsigned"
    BY DEF ChargedWereSigned
  <2>1. s \in Slot
    BY DEF Inv, SlotTypeOK
  <2>2. passed[s] > 0
    BY <2>1 DEF Inv, SlotOK, SlotTypeOK
  <2> QED
    BY <2>1, <2>2 DEF Inv, SlotOK
<1> QED
  BY <1>1, Invariance, PTL

(* AnswersFitPayloads: the parser's checks, in their order, let through    *)
(* exactly the reviewable events (parse_webhook).                          *)
THEOREM ParserSound == Spec => []AnswersFitPayloads
<1>1. Inv => AnswersFitPayloads
  BY DEF Inv, SlotOK, AnswersFitPayloads
<1> QED
  BY <1>1, Invariance, PTL

(* RememberedWereAnswered: no failed delivery is remembered as seen.       *)
THEOREM FailuresAreForgotten == Spec => []RememberedWereAnswered
<1>1. Inv => RememberedWereAnswered
  BY DEF Inv, PoolOK, RememberedWereAnswered
<1> QED
  BY <1>1, Invariance, PTL

(* LogTellsTheAdmitted: exactly the requests that the rate limit lets      *)
(* through are logged, with the status sent; what the limit refuses, and   *)
(* what ends at the signature, reaches neither the log nor the route.      *)
THEOREM LogIsComplete == Spec => LogTellsTheAdmitted
<1> DEFINE Told(s) ==
             IF s \in charged /\ answer[s] # "limited"
             THEN logged[s] = Status(answer[s])
             ELSE /\ logged[s] = 0 /\ payload[s] = "unread"
                  /\ answer[s] = "limited" \/ (Verified(s) /\ answer[s] \in {"unsigned", "crash"})
           A == \A s \in Slot : (request[s] # Nothing /\ request'[s] = Nothing) => Told(s)
<1>1. ASSUME Inv, Next, NEW s \in Slot, request[s] # Nothing, request'[s] = Nothing
      PROVE  Reply(s)
  <2>1. PICK t \in Slot : Arrive(t) \/ Reply(t)
    <3>1. request' # request
      BY <1>1
    <3> QED
      BY <1>1, <3>1 DEF Next, Verify, Limit, EnterLog, Webhooks, Probe, LeaveLog, Forget,
                       GatewayTick, slotVars
  <2>2. t = s
    BY <1>1, <2>1 DEF Arrive, Reply, Inv, SlotTypeOK
  <2> QED
    BY <1>1, <2>1, <2>2 DEF Arrive
<1>2. ASSUME Inv, NEW s \in Slot, Reply(s)
      PROVE  Told(s)
  <2>1. /\ passed[s] = 3 => logged[s] # 0
        /\ answer[s] # "none"
    BY <1>2, EnteredLog DEF Inv, Reply
  <2>2. SlotOK(s) /\ SlotTypeOK
    BY <1>2 DEF Inv
  <2>3. CASE passed[s] = 3
    BY <2>1, <2>2, <2>3 DEF SlotOK, SlotTypeOK
  <2>4. CASE passed[s] # 3
    BY <2>1, <2>2, <2>4 DEF SlotOK, SlotTypeOK
  <2> QED
    BY <2>3, <2>4
<1>3. Inv /\ [Next]_vars => [A]_vars
  BY <1>1, <1>2
<1> QED
  BY <1>3, Invariance, PTL DEF Spec, LogTellsTheAdmitted
=============================================================================
