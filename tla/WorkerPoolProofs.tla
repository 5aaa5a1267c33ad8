-------------------------- MODULE WorkerPoolProofs --------------------------
(***************************************************************************)
(* Proofs about the worker pool: its safety invariants hold, and it        *)
(* implements the job board, for every number of workers and deliveries,   *)
(* every queue capacity, and with no bound on the clock or the jobs.       *)
(***************************************************************************)
EXTENDS WorkerPool, FiniteSetTheorems, TLAPS

(* Only reviews that have started are cancelled.                           *)
CancelledHasStarted == cancelled \subseteq 1..HandedOut

(* Before start() no worker has a loop to be in and nothing is accepted.   *)
NewIsIdle == phase = "new" => jobs = <<>> /\ \A w \in Worker : pc[w] = "none"

(* Handlers are cut off only once shutdown has stopped waiting.            *)
AbortsAfterJoin == aborted # {} => phase \in {"cancelling", "stopped"}

(* Unless it timed out, the join ended with no work open, and none has     *)
(* been added since.                                                       *)
JoinedIsIdle == (phase \in {"cancelling", "stopped"} /\ ~timedOut) => unfinished = 0

IInv ==
  /\ TypeOK
  /\ JoinCountsOpenWork
  /\ EveryJobInOnePlace
  /\ RegistryHoldsNewest
  /\ CancelledOnlyForCause
  /\ DrainLosesNothing
  /\ CancelledHasStarted
  /\ NewIsIdle
  /\ AbortsAfterJoin
  /\ JoinedIsIdle

USE DedupAssumption, RegistryAssumption, PoolAssumption

-----------------------------------------------------------------------------
(* Sequences, sets and counters.                                           *)

(* The elements of a sequence.                                             *)
LEMMA SeqElements ==
  ASSUME NEW S, NEW s \in Seq(S)
  PROVE  Len(s) \in Nat /\ DOMAIN s = 1..Len(s) /\ \A i \in 1..Len(s) : s[i] \in S
OBVIOUS

(* Append adds one element and keeps the others.                           *)
LEMMA AppendElements ==
  ASSUME NEW S, NEW s \in Seq(S), NEW e \in S
  PROVE  /\ Append(s, e) \in Seq(S)
         /\ Len(Append(s, e)) = Len(s) + 1
         /\ Append(s, e)[Len(s) + 1] = e
         /\ \A i \in 1..Len(s) : Append(s, e)[i] = s[i]
OBVIOUS

(* Tail drops the head and shifts the others.                              *)
LEMMA TailElements ==
  ASSUME NEW S, NEW s \in Seq(S), s # <<>>
  PROVE  /\ Tail(s) \in Seq(S)
         /\ Len(s) \in Nat \ {0}
         /\ Head(s) = s[1] /\ Head(s) \in S
         /\ Len(Tail(s)) = Len(s) - 1
         /\ \A i \in 1..(Len(s) - 1) : Tail(s)[i] = s[i + 1]
OBVIOUS

(* The set of reviewing workers is finite and counted.                     *)
LEMMA ReviewingFinite ==
  /\ IsFiniteSet(Reviewing)
  /\ Cardinality(Reviewing) \in Nat
  /\ Cardinality(Reviewing) = 0 <=> Reviewing = {}
<1>1. Reviewing \subseteq Worker
  BY DEF Reviewing
<1>2. IsFiniteSet(Reviewing)
  BY <1>1, FS_Subset
<1> QED
  BY <1>2, FS_CardinalityType, FS_EmptySet

(* Len(jobs) - Len(queue) is a count.                                      *)
LEMMA HandedOutType ==
  ASSUME TypeOK, EveryJobInOnePlace
  PROVE  HandedOut \in Nat /\ Len(jobs) \in Nat /\ Len(queue) \in Nat
BY SeqElements DEF TypeOK, EveryJobInOnePlace, HandedOut

-----------------------------------------------------------------------------
(* Types.                                                                  *)

(* A call of is_duplicate keeps the types of the deduplicator.             *)
LEMMA CheckType ==
  ASSUME DedupTypeOK, NEW d \in DeliveryId, Check(d)
  PROVE  DedupTypeOK'
<1>1. Kept \in [DeliveryId -> Nat \cup {None}]
  BY DEF DedupTypeOK, Kept
<1> QED
  BY <1>1 DEF DedupTypeOK, Check

(* The initial state has the types.                                        *)
LEMMA TypeInit == Init => TypeOK
<1> SUFFICES ASSUME Init PROVE TypeOK
  OBVIOUS
<1>1. DedupTypeOK /\ RegistryTypeOK
  BY DEF Init, DedupInit, RegistryInit, DedupTypeOK, RegistryTypeOK
<1>2. jobs \in Seq(DeliveryId) /\ queue \in Seq(Nat \ {0})
  BY DEF Init
<1> QED
  BY <1>1, <1>2 DEF Init, TypeOK

(* submit() keeps the types.                                               *)
LEMMA TypeSubmit ==
  ASSUME TypeOK, NEW d \in DeliveryId, Submit(d)
  PROVE  TypeOK'
<1>1. DedupTypeOK'
  BY CheckType DEF TypeOK, Submit
<1>2. CASE UNCHANGED <<jobs, queue, unfinished>>
  BY <1>1, <1>2 DEF TypeOK, RegistryTypeOK, Submit, registryVars
<1>3. CASE Enqueue(d)
  <2>1. jobs \in Seq(DeliveryId) /\ queue \in Seq(Nat \ {0}) /\ Len(jobs) + 1 \in Nat \ {0}
    BY SeqElements DEF TypeOK
  <2>2. jobs' \in Seq(DeliveryId) /\ queue' \in Seq(Nat \ {0})
    BY <1>3, <2>1, AppendElements DEF Enqueue
  <2> QED
    BY <1>1, <1>3, <2>2 DEF TypeOK, RegistryTypeOK, Submit, Enqueue, registryVars
<1> QED
  BY <1>2, <1>3 DEF Submit

-----------------------------------------------------------------------------
(* What the actions do to the sets the invariants speak of.                *)

(* Jobs in hand have been handed out, and are about a pull request.        *)
LEMMA InHandFacts ==
  ASSUME IInv
  PROVE  /\ \A j \in 1..Len(jobs) : PrOfJob(j) \in PullRequest
         /\ InHand \subseteq 1..HandedOut
         /\ HandedOut \in 0..Len(jobs)
<1>1. \A j \in 1..Len(jobs) : jobs[j] \in DeliveryId
  BY SeqElements DEF IInv, TypeOK
<1> QED
  BY <1>1, HandedOutType DEF IInv, PrOfJob, EveryJobInOnePlace, HandedOut

(* A step that moves no job and no reviewing worker.                       *)
LEMMA SameHands ==
  ASSUME UNCHANGED <<jobs, queue, job>>, Reviewing' = Reviewing
  PROVE  InHand' = InHand /\ HandedOut' = HandedOut
BY DEF InHand, HandedOut

(* Steps that change only how far shutdown is, or where an idle worker     *)
(* waits, keep the accounts.                                               *)
LEMMA SameAccounts ==
  ASSUME IInv, TypeOK',
         UNCHANGED <<jobs, queue, unfinished, job, handled, aborted>>,
         Reviewing' = Reviewing
  PROVE  JoinCountsOpenWork' /\ EveryJobInOnePlace'
<1>1. InHand' = InHand /\ HandedOut' = HandedOut
  BY SameHands
<1> QED
  BY <1>1 DEF IInv, JoinCountsOpenWork, EveryJobInOnePlace

(* ... and the registry, if they leave it alone.                           *)
LEMMA SameRegistry ==
  ASSUME IInv,
         UNCHANGED <<jobs, queue, job, registryVars>>,
         Reviewing' = Reviewing,
         phase' \in {"new", "running"} => phase \in {"new", "running"}
  PROVE  RegistryHoldsNewest' /\ CancelledHasStarted' /\ CancelledOnlyForCause'
<1>1. InHand' = InHand /\ HandedOut' = HandedOut
  BY SameHands
<1>2. RegistryHoldsNewest' /\ CancelledHasStarted'
  BY <1>1 DEF IInv, RegistryHoldsNewest, CancelledHasStarted, registryVars, PrOfJob
<1>3. CancelledOnlyForCause'
  BY <1>1 DEF IInv, CancelledOnlyForCause, registryVars, PrOfJob
<1> QED
  BY <1>2, <1>3

-----------------------------------------------------------------------------
(* The invariant, action by action.                                        *)

(* A new pool has no work, no tokens and no workers.                       *)
LEMMA IInvInit == Init => IInv
<1> SUFFICES ASSUME Init PROVE IInv
  OBVIOUS
<1>1. TypeOK
  BY TypeInit
<1>2. Reviewing = {}
  BY DEF Init, Reviewing
<1>3. InHand = {} /\ HandedOut = 0
  BY <1>2 DEF Init, InHand, HandedOut
<1>4. JoinCountsOpenWork
  BY <1>2, ReviewingFinite DEF Init, JoinCountsOpenWork
<1>5. EveryJobInOnePlace
  BY <1>2, <1>3 DEF Init, EveryJobInOnePlace
<1>6. RegistryHoldsNewest /\ CancelledOnlyForCause /\ CancelledHasStarted
  BY DEF Init, RegistryInit, RegistryHoldsNewest, CancelledOnlyForCause, CancelledHasStarted
<1>7. DrainLosesNothing /\ NewIsIdle /\ AbortsAfterJoin /\ JoinedIsIdle
  BY DEF Init, DrainLosesNothing, NewIsIdle, AbortsAfterJoin, JoinedIsIdle
<1> QED
  BY <1>1, <1>4, <1>5, <1>6, <1>7 DEF IInv

(* start() puts every worker in its loop.                                  *)
LEMMA IInvStart == IInv /\ Start => IInv'
<1> SUFFICES ASSUME IInv, Start PROVE IInv'
  OBVIOUS
<1> USE DEF Start, dedupVars, registryVars
<1>1. Reviewing' = Reviewing
  BY DEF IInv, TypeOK, NewIsIdle, Reviewing
<1>2. TypeOK'
  BY DEF IInv, TypeOK, DedupTypeOK, RegistryTypeOK
<1>3. JoinCountsOpenWork' /\ EveryJobInOnePlace'
  BY <1>1, <1>2, SameAccounts
<1>4. RegistryHoldsNewest' /\ CancelledHasStarted' /\ CancelledOnlyForCause'
  BY <1>1, SameRegistry
<1>5. DrainLosesNothing' /\ NewIsIdle' /\ AbortsAfterJoin' /\ JoinedIsIdle'
  BY DEF IInv, DrainLosesNothing, NewIsIdle, AbortsAfterJoin, JoinedIsIdle
<1> QED
  BY <1>2, <1>3, <1>4, <1>5 DEF IInv

(* submit() lengthens the queue and the history by the same job, or does   *)
(* nothing to either.                                                      *)
LEMMA IInvSubmit ==
  ASSUME IInv, NEW d \in DeliveryId, Submit(d)
  PROVE  IInv'
<1>1. TypeOK'
  BY TypeSubmit DEF IInv
<1>2. Reviewing' = Reviewing /\ InHand' = InHand
  BY DEF Submit, Reviewing, InHand
<1>3. phase = "running" /\ UNCHANGED <<phase, pc, job, handled, aborted, timedOut, registryVars>>
  BY DEF Submit
<1>4. DrainLosesNothing' /\ NewIsIdle' /\ AbortsAfterJoin' /\ JoinedIsIdle'
  BY <1>3 DEF IInv, DrainLosesNothing, NewIsIdle, AbortsAfterJoin, JoinedIsIdle
<1>5. CASE UNCHANGED <<jobs, queue, unfinished>>
  <2>1. JoinCountsOpenWork' /\ EveryJobInOnePlace'
    BY <1>1, <1>2, <1>3, <1>5, SameAccounts
  <2>2. RegistryHoldsNewest' /\ CancelledHasStarted' /\ CancelledOnlyForCause'
    BY <1>2, <1>3, <1>5, SameRegistry
  <2> QED
    BY <1>1, <1>4, <2>1, <2>2 DEF IInv
<1>6. CASE Enqueue(d)
  <2>1. /\ jobs \in Seq(DeliveryId) /\ queue \in Seq(Nat \ {0})
        /\ Len(jobs) \in Nat /\ Len(queue) \in Nat /\ Len(jobs) + 1 \in Nat \ {0}
        /\ HandedOut \in 0..Len(jobs)
    BY HandedOutType, InHandFacts DEF IInv, TypeOK
  <2>2. /\ Len(jobs') = Len(jobs) + 1 /\ Len(queue') = Len(queue) + 1
        /\ queue'[Len(queue) + 1] = Len(jobs) + 1
        /\ \A i \in 1..Len(jobs) : jobs'[i] = jobs[i]
        /\ \A i \in 1..Len(queue) : queue'[i] = queue[i]
        /\ queue' \in Seq(Nat \ {0})
    BY <1>6, <2>1, AppendElements DEF Enqueue
  <2>3. DOMAIN queue' = 1..(Len(queue) + 1) /\ DOMAIN queue = 1..Len(queue)
    BY <2>1, <2>2, SeqElements
  <2>4. HandedOut' = HandedOut
    BY <2>1, <2>2 DEF HandedOut
  <2>5. ASSUME NEW j \in 1..HandedOut PROVE PrOf[jobs'[j]] = PrOfJob(j)
    <3>1. j \in 1..Len(jobs)
      BY <2>1
    <3> QED
      BY <2>2, <3>1 DEF PrOfJob
  <2>6. JoinCountsOpenWork'
    BY <1>2, <1>6, <2>1, <2>2, ReviewingFinite DEF IInv, JoinCountsOpenWork, Enqueue
  <2>7. EveryJobInOnePlace'
    <3>1. ASSUME NEW i \in DOMAIN queue' PROVE queue'[i] = HandedOut + i
      <4>1. CASE i = Len(queue) + 1
        BY <2>1, <2>2, <4>1 DEF HandedOut
      <4>2. CASE i \in DOMAIN queue
        BY <2>2, <2>3, <4>2 DEF IInv, EveryJobInOnePlace
      <4> QED
        BY <2>1, <2>3, <4>1, <4>2
    <3>2. Len(queue') <= Len(jobs')
      BY <2>1, <2>2 DEF IInv, EveryJobInOnePlace
    <3> QED
      BY <1>2, <1>3, <2>4, <3>1, <3>2 DEF IInv, EveryJobInOnePlace
  <2>8. RegistryHoldsNewest' /\ CancelledHasStarted' /\ CancelledOnlyForCause'
    <3>1. InHand \subseteq 1..HandedOut /\ cancelled \subseteq 1..HandedOut
      BY InHandFacts DEF IInv, CancelledHasStarted
    <3>2. RegistryHoldsNewest'
      <4> SUFFICES ASSUME NEW pr \in PullRequest, active[pr] # NoToken
                   PROVE  /\ active[pr] \in InHand
                          /\ active[pr] \notin cancelled
                          /\ PrOf[jobs'[active[pr]]] = pr
                          /\ \A j \in (active[pr] + 1)..HandedOut : PrOf[jobs'[j]] # pr
        BY <1>2, <1>3, <2>4 DEF RegistryHoldsNewest, registryVars, PrOfJob
      <4>1. /\ active[pr] \in InHand /\ active[pr] \notin cancelled
            /\ PrOfJob(active[pr]) = pr
            /\ \A j \in (active[pr] + 1)..HandedOut : PrOfJob(j) # pr
        BY DEF IInv, RegistryHoldsNewest
      <4>2. active[pr] \in 1..HandedOut
        BY <3>1, <4>1
      <4>3. \A j \in (active[pr] + 1)..HandedOut : j \in 1..HandedOut
        BY <2>1, <4>2
      <4> QED
        BY <2>5, <4>1, <4>2, <4>3
    <3>3. CancelledOnlyForCause'
      BY <1>3, <2>1, <2>4, <2>5, <3>1 DEF IInv, CancelledOnlyForCause, registryVars, PrOfJob
    <3> QED
      BY <1>3, <2>4, <3>2, <3>3 DEF IInv, CancelledHasStarted, registryVars
  <2> QED
    BY <1>1, <1>4, <2>6, <2>7, <2>8 DEF IInv
<1> QED
  BY <1>5, <1>6 DEF Submit

(* A worker takes the oldest job: it leaves the queue for the hands of the *)
(* worker, and its token takes the place of the one registered before.     *)
LEMMA IInvTake ==
  ASSUME IInv, NEW w \in Worker, Take(w)
  PROVE  IInv'
<1> DEFINE h == Head(queue)
           pr == PrOfJob(h)
<1>1. /\ phase \in {"running", "joining"} /\ pc[w] = "get" /\ queue # <<>>
      /\ UNCHANGED <<phase, jobs, unfinished, handled, aborted, timedOut, dedupVars>>
      /\ queue' = Tail(queue)
      /\ job' = [job EXCEPT ![w] = h]
      /\ pc' = [pc EXCEPT ![w] = "review"]
      /\ Register(pr, h)
  BY DEF Take
<1>2. /\ queue \in Seq(Nat \ {0}) /\ Tail(queue) \in Seq(Nat \ {0})
      /\ Len(queue) \in Nat \ {0} /\ Len(jobs) \in Nat
      /\ Len(queue') = Len(queue) - 1
      /\ \A i \in 1..(Len(queue) - 1) : queue'[i] = queue[i + 1]
      /\ h = queue[1] /\ h \in Nat \ {0}
  BY <1>1, TailElements, HandedOutType DEF IInv, TypeOK
<1>3. /\ DOMAIN queue = 1..Len(queue) /\ DOMAIN queue' = 1..(Len(queue) - 1)
      /\ Len(queue) <= Len(jobs)
  BY <1>1, <1>2, SeqElements DEF IInv, EveryJobInOnePlace
<1>4. /\ h = HandedOut + 1 /\ HandedOut \in Nat /\ HandedOut' = HandedOut + 1
      /\ h \in 1..Len(jobs)
  BY <1>1, <1>2, <1>3 DEF IInv, EveryJobInOnePlace, HandedOut
<1>5. pr \in PullRequest
  BY <1>4, InHandFacts
<1>6. /\ InHand \subseteq 1..HandedOut /\ h \notin 1..HandedOut
      /\ 1..(HandedOut + 1) = (1..HandedOut) \cup {h}
  BY <1>4, InHandFacts
<1>7. w \notin Reviewing /\ Reviewing' = Reviewing \cup {w}
  BY <1>1 DEF IInv, TypeOK, Reviewing
<1>8. \A v \in Reviewing : job'[v] = job[v]
  BY <1>1, <1>7 DEF IInv, TypeOK, Reviewing
<1>9. job'[w] = h
  BY <1>1 DEF IInv, TypeOK
<1>10. InHand' = InHand \cup {h}
  BY <1>7, <1>8, <1>9 DEF InHand
<1>11. /\ active' = [active EXCEPT ![pr] = h]
       /\ cancelled' = IF active[pr] = NoToken THEN cancelled ELSE cancelled \cup {active[pr]}
  BY <1>1 DEF Register
<1>12. active[pr] # NoToken => active[pr] \in InHand
  BY <1>5 DEF IInv, RegistryHoldsNewest
<1> HIDE DEF h, pr
<1>13. TypeOK'
  <2>1. RegistryTypeOK'
    BY <1>2, <1>5, <1>6, <1>11, <1>12 DEF IInv, TypeOK, RegistryTypeOK
  <2> QED
    BY <1>1, <1>2, <2>1 DEF IInv, TypeOK, DedupTypeOK, dedupVars
<1>14. JoinCountsOpenWork'
  <2>1. Cardinality(Reviewing') = Cardinality(Reviewing) + 1
    BY <1>7, ReviewingFinite, FS_AddElement
  <2> QED
    BY <1>1, <1>2, <2>1, ReviewingFinite DEF IInv, JoinCountsOpenWork
<1>15. EveryJobInOnePlace'
  <2>1. \A i \in DOMAIN queue' : queue'[i] = HandedOut' + i
    <3> SUFFICES ASSUME NEW i \in 1..(Len(queue) - 1) PROVE queue[i + 1] = HandedOut + 1 + i
      BY <1>2, <1>3, <1>4
    <3>1. queue[i + 1] = HandedOut + (i + 1)
      BY <1>2, <1>3 DEF IInv, EveryJobInOnePlace
    <3> QED
      BY <1>4, <3>1
  <2>2. InHand' \cup handled' \cup aborted' = 1..HandedOut'
    BY <1>1, <1>4, <1>6, <1>10 DEF IInv, EveryJobInOnePlace
  <2>3. InHand' \cap (handled' \cup aborted') = {} /\ handled' \cap aborted' = {}
    BY <1>1, <1>6, <1>10 DEF IInv, EveryJobInOnePlace
  <2>4. ASSUME NEW u \in Reviewing', NEW v \in Reviewing', job'[u] = job'[v] PROVE u = v
    <3>1. \A x \in Reviewing : job[x] \in InHand
      BY DEF InHand
    <3>2. \A x, y \in Reviewing : job[x] = job[y] => x = y
      BY DEF IInv, EveryJobInOnePlace
    <3> QED
      BY <1>6, <1>7, <1>8, <1>9, <2>4, <3>1, <3>2
  <2>5. Len(queue') <= Len(jobs')
    BY <1>1, <1>2, <1>3
  <2> QED
    BY <2>1, <2>2, <2>3, <2>4, <2>5 DEF EveryJobInOnePlace
<1>16. cancelled \subseteq 1..HandedOut /\ cancelled' \subseteq 1..HandedOut
  BY <1>6, <1>11, <1>12 DEF IInv, CancelledHasStarted
<1>17. RegistryHoldsNewest'
  <2> SUFFICES ASSUME NEW x \in PullRequest, active'[x] # NoToken
               PROVE  /\ active'[x] \in InHand'
                      /\ active'[x] \notin cancelled'
                      /\ PrOf[jobs[active'[x]]] = x
                      /\ \A j \in (active'[x] + 1)..(HandedOut + 1) : PrOf[jobs[j]] # x
    BY <1>1, <1>4 DEF RegistryHoldsNewest, PrOfJob
  <2>1. CASE x = pr
    <3>1. active'[x] = h
      BY <1>5, <1>11, <2>1 DEF IInv, TypeOK, RegistryTypeOK
    <3>2. PrOf[jobs[h]] = x
      BY <2>1 DEF pr, PrOfJob
    <3>3. (h + 1)..(HandedOut + 1) = {}
      BY <1>4
    <3> QED
      BY <1>6, <1>10, <1>16, <3>1, <3>2, <3>3
  <2>2. CASE x # pr
    <3>1. active'[x] = active[x]
      BY <1>5, <1>11, <2>2 DEF IInv, TypeOK, RegistryTypeOK
    <3>2. /\ active[x] \in InHand /\ active[x] \notin cancelled /\ PrOf[jobs[active[x]]] = x
          /\ \A j \in (active[x] + 1)..HandedOut : PrOf[jobs[j]] # x
      BY <3>1 DEF IInv, RegistryHoldsNewest, PrOfJob
    <3>3. active[pr] # NoToken => active[pr] # active[x]
      <4>1. active[pr] # NoToken => PrOf[jobs[active[pr]]] = pr
        BY <1>5 DEF IInv, RegistryHoldsNewest, PrOfJob
      <4> QED
        BY <2>2, <3>2, <4>1
    <3>4. active[x] \notin cancelled'
      BY <1>11, <3>2, <3>3
    <3>5. PrOf[jobs[h]] # x
      BY <2>2 DEF pr, PrOfJob
    <3>6. \A j \in (active[x] + 1)..(HandedOut + 1) :
            j = h \/ j \in (active[x] + 1)..HandedOut
      BY <1>4, <1>6, <3>2
    <3> QED
      BY <1>10, <3>1, <3>2, <3>4, <3>5, <3>6
  <2> QED
    BY <2>1, <2>2
<1>18. CancelledOnlyForCause'
  <2> SUFFICES ASSUME NEW j \in cancelled', phase \in {"new", "running"}
               PROVE  \E k \in (j + 1)..(HandedOut + 1) : PrOf[jobs[k]] = PrOf[jobs[j]]
    BY <1>1, <1>4 DEF CancelledOnlyForCause, PrOfJob
  <2>1. j \in 1..HandedOut
    BY <1>16
  <2>2. CASE j \in cancelled
    <3>1. PICK k \in (j + 1)..HandedOut : PrOf[jobs[k]] = PrOf[jobs[j]]
      BY <2>2 DEF IInv, CancelledOnlyForCause, PrOfJob
    <3>2. k \in (j + 1)..(HandedOut + 1)
      BY <1>4, <2>1, <3>1
    <3> QED
      BY <3>1, <3>2
  <2>3. CASE j \notin cancelled
    <3>1. active[pr] # NoToken /\ j = active[pr]
      BY <1>11, <2>3
    <3>2. PrOf[jobs[j]] = pr /\ PrOf[jobs[h]] = pr
      BY <1>5, <3>1 DEF IInv, RegistryHoldsNewest, PrOfJob, pr
    <3>3. h \in (j + 1)..(HandedOut + 1)
      BY <1>4, <2>1
    <3> QED
      BY <3>2, <3>3
  <2> QED
    BY <2>2, <2>3
<1>19. DrainLosesNothing' /\ NewIsIdle' /\ AbortsAfterJoin' /\ JoinedIsIdle'
  BY <1>1 DEF IInv, DrainLosesNothing, NewIsIdle, AbortsAfterJoin, JoinedIsIdle
<1>20. CancelledHasStarted'
  BY <1>4, <1>16 DEF CancelledHasStarted
<1> QED
  BY <1>13, <1>14, <1>15, <1>17, <1>18, <1>19, <1>20 DEF IInv

(* The finally clause: whichever way the handler ended, the job leaves the *)
(* hands of its worker for one of the two sets of jobs that have ended,    *)
(* and a newer review of the pull request is no longer registered.         *)
LEMMA ReleaseKeeps ==
  ASSUME IInv, NEW w \in Worker, Release(w),
         UNCHANGED <<jobs, queue, phase, timedOut, dedupVars>>,
         NEW to \in {"get", "exit"}, pc' = [pc EXCEPT ![w] = to],
         \/ handled' = handled \cup {job[w]} /\ aborted' = aborted
         \/ handled' = handled /\ aborted' = aborted \cup {job[w]}
  PROVE  /\ TypeOK' /\ JoinCountsOpenWork' /\ EveryJobInOnePlace'
         /\ RegistryHoldsNewest' /\ CancelledOnlyForCause' /\ CancelledHasStarted'
<1> DEFINE j == job[w]
           pr == PrOfJob(j)
<1>1. /\ w \in Reviewing /\ Reviewing' = Reviewing \ {w}
      /\ unfinished' = unfinished - 1
      /\ job' = [job EXCEPT ![w] = 0]
      /\ active' = [active EXCEPT ![pr] = NoToken] /\ cancelled' = cancelled
  BY DEF Release, Complete, Reviewing, IInv, TypeOK
<1>2. /\ InHand \subseteq 1..HandedOut /\ HandedOut \in Nat /\ HandedOut' = HandedOut
      /\ HandedOut <= Len(jobs) /\ Len(jobs) \in Nat /\ Len(queue) \in Nat
  BY InHandFacts, HandedOutType DEF IInv, HandedOut
<1>3. j \in InHand /\ j \in 1..HandedOut /\ j \in 1..Len(jobs)
  BY <1>1, <1>2 DEF InHand
<1>4. pr \in PullRequest
  BY <1>3, InHandFacts
<1>5. \A v \in Reviewing' : job'[v] = job[v]
  BY <1>1 DEF IInv, TypeOK, Reviewing
<1>6. \A u, v \in Reviewing : job[u] = job[v] => u = v
  BY DEF IInv, EveryJobInOnePlace
<1>7. InHand' = InHand \ {j}
  BY <1>1, <1>5, <1>6 DEF InHand
<1>8. Cardinality(Reviewing') = Cardinality(Reviewing) - 1
  BY <1>1, ReviewingFinite, FS_RemoveElement
<1> HIDE DEF pr
<1>9. unfinished \in Nat \ {0}
  BY <1>1, <1>2, ReviewingFinite DEF IInv, JoinCountsOpenWork
<1>10. TypeOK'
  <2>1. RegistryTypeOK' /\ DedupTypeOK'
    BY <1>1 DEF IInv, TypeOK, RegistryTypeOK, DedupTypeOK, dedupVars
  <2>2. handled' \subseteq Nat \ {0} /\ aborted' \subseteq Nat \ {0}
    <3>1. j \in Nat \ {0}
      BY <1>2, <1>3
    <3> HIDE DEF j
    <3>2. handled' \subseteq handled \cup {j} /\ aborted' \subseteq aborted \cup {j}
      BY DEF j
    <3> QED
      BY <3>1, <3>2 DEF IInv, TypeOK
  <2> HIDE DEF j
  <2> QED
    BY <1>1, <1>9, <2>1, <2>2 DEF IInv, TypeOK
<1> HIDE DEF j
<1>11. JoinCountsOpenWork'
  BY <1>1, <1>2, <1>8, ReviewingFinite DEF IInv, JoinCountsOpenWork
<1>12. EveryJobInOnePlace'
  <2>1. InHand' \cup handled' \cup aborted' = 1..HandedOut'
    BY <1>2, <1>3, <1>7 DEF IInv, EveryJobInOnePlace, j
  <2>2. InHand' \cap (handled' \cup aborted') = {} /\ handled' \cap aborted' = {}
    BY <1>3, <1>7 DEF IInv, EveryJobInOnePlace, j
  <2>3. \A u, v \in Reviewing' : job'[u] = job'[v] => u = v
    BY <1>1, <1>5, <1>6
  <2> QED
    BY <1>2, <2>1, <2>2, <2>3 DEF IInv, EveryJobInOnePlace
<1>13. RegistryHoldsNewest'
  <2> SUFFICES ASSUME NEW x \in PullRequest, active'[x] # NoToken
               PROVE  /\ active'[x] \in InHand'
                      /\ active'[x] \notin cancelled
                      /\ PrOf[jobs[active'[x]]] = x
                      /\ \A k \in (active'[x] + 1)..HandedOut : PrOf[jobs[k]] # x
    BY <1>1, <1>2 DEF RegistryHoldsNewest, PrOfJob
  <2>1. x # pr /\ active'[x] = active[x]
    BY <1>1, <1>4 DEF IInv, TypeOK, RegistryTypeOK
  <2>2. /\ active[x] \in InHand /\ active[x] \notin cancelled /\ PrOf[jobs[active[x]]] = x
        /\ \A k \in (active[x] + 1)..HandedOut : PrOf[jobs[k]] # x
    BY <2>1 DEF IInv, RegistryHoldsNewest, PrOfJob
  <2>3. active[x] # j
    BY <2>1, <2>2 DEF pr, PrOfJob
  <2> QED
    BY <1>7, <2>1, <2>2, <2>3
<1>14. CancelledOnlyForCause' /\ CancelledHasStarted'
  BY <1>1, <1>2 DEF IInv, CancelledOnlyForCause, CancelledHasStarted, PrOfJob
<1> QED
  BY <1>10, <1>11, <1>12, <1>13, <1>14

(* The handler returns or raises.                                          *)
LEMMA IInvFinish ==
  ASSUME IInv, NEW w \in Worker, Finish(w)
  PROVE  IInv'
<1>1. /\ TypeOK' /\ JoinCountsOpenWork' /\ EveryJobInOnePlace'
      /\ RegistryHoldsNewest' /\ CancelledOnlyForCause' /\ CancelledHasStarted'
  <2>1. LoopHead \in {"get", "exit"}
    BY DEF LoopHead
  <2> QED
    BY <2>1, ReleaseKeeps DEF Finish
<1>2. DrainLosesNothing' /\ NewIsIdle' /\ AbortsAfterJoin' /\ JoinedIsIdle'
  BY DEF Finish, IInv, DrainLosesNothing, NewIsIdle, AbortsAfterJoin, JoinedIsIdle
<1> QED
  BY <1>1, <1>2 DEF IInv

(* The handler is cancelled: this can only be after a join that timed out. *)
LEMMA IInvCancelReview ==
  ASSUME IInv, NEW w \in Worker, CancelReview(w)
  PROVE  IInv'
<1>1. /\ TypeOK' /\ JoinCountsOpenWork' /\ EveryJobInOnePlace'
      /\ RegistryHoldsNewest' /\ CancelledOnlyForCause' /\ CancelledHasStarted'
  BY ReleaseKeeps DEF CancelReview
<1>2. timedOut
  <2>1. w \in Reviewing
    BY DEF CancelReview, Release, Reviewing
  <2>2. unfinished # 0
    BY <2>1, ReviewingFinite, HandedOutType DEF IInv, JoinCountsOpenWork
  <2> QED
    BY <2>2 DEF CancelReview, IInv, JoinedIsIdle, TypeOK
<1>3. DrainLosesNothing' /\ NewIsIdle' /\ AbortsAfterJoin' /\ JoinedIsIdle'
  BY <1>2 DEF CancelReview, IInv, DrainLosesNothing, NewIsIdle, AbortsAfterJoin, JoinedIsIdle
<1> QED
  BY <1>1, <1>3 DEF IInv

(* A worker that waits for an event leaves its loop.                       *)
LEMMA IInvExit ==
  ASSUME IInv, NEW w \in Worker, Leave(w) \/ CancelIdle(w)
  PROVE  IInv'
<1>1. /\ phase \in {"joining", "cancelling"} /\ pc[w] = "get"
      /\ pc' = [pc EXCEPT ![w] = "exit"]
      /\ UNCHANGED <<phase, jobs, queue, unfinished, job, handled, aborted, timedOut>>
      /\ UNCHANGED <<dedupVars, registryVars>>
  BY DEF Leave, CancelIdle
<1>2. Reviewing' = Reviewing
  BY <1>1 DEF IInv, TypeOK, Reviewing
<1>3. TypeOK'
  BY <1>1 DEF IInv, TypeOK, DedupTypeOK, RegistryTypeOK, dedupVars, registryVars
<1>4. JoinCountsOpenWork' /\ EveryJobInOnePlace'
  BY <1>1, <1>2, <1>3, SameAccounts
<1>5. RegistryHoldsNewest' /\ CancelledHasStarted' /\ CancelledOnlyForCause'
  BY <1>1, <1>2, SameRegistry
<1>6. DrainLosesNothing' /\ NewIsIdle' /\ AbortsAfterJoin' /\ JoinedIsIdle'
  BY <1>1 DEF IInv, DrainLosesNothing, NewIsIdle, AbortsAfterJoin, JoinedIsIdle
<1> QED
  BY <1>3, <1>4, <1>5, <1>6 DEF IInv

(* shutdown() cancels what is registered and stops submissions.            *)
LEMMA IInvBeginShutdown == IInv /\ BeginShutdown => IInv'
<1> SUFFICES ASSUME IInv, BeginShutdown PROVE IInv'
  OBVIOUS
<1>1. /\ phase = "running" /\ phase' = "joining"
      /\ UNCHANGED <<jobs, queue, unfinished, pc, job, handled, aborted, timedOut, dedupVars>>
      /\ active' = [pr \in PullRequest |-> NoToken]
      /\ cancelled' = cancelled \cup {active[pr] : pr \in {p \in PullRequest : active[p] # NoToken}}
  BY DEF BeginShutdown, CancelAll
<1>2. Reviewing' = Reviewing
  BY <1>1 DEF Reviewing
<1>3. \A pr \in PullRequest : active[pr] # NoToken => active[pr] \in 1..HandedOut
  BY InHandFacts DEF IInv, RegistryHoldsNewest
<1>4. cancelled' \subseteq 1..HandedOut /\ HandedOut' = HandedOut
  BY <1>1, <1>3 DEF IInv, CancelledHasStarted, HandedOut
<1>5. TypeOK'
  <2>1. RegistryTypeOK'
    BY <1>1, <1>4, HandedOutType DEF IInv, TypeOK, RegistryTypeOK
  <2> QED
    BY <1>1, <2>1 DEF IInv, TypeOK, DedupTypeOK, dedupVars
<1>6. JoinCountsOpenWork' /\ EveryJobInOnePlace'
  BY <1>1, <1>2, <1>5, SameAccounts
<1>7. RegistryHoldsNewest' /\ CancelledHasStarted' /\ CancelledOnlyForCause'
  BY <1>1, <1>4 DEF RegistryHoldsNewest, CancelledHasStarted, CancelledOnlyForCause
<1>8. DrainLosesNothing' /\ NewIsIdle' /\ AbortsAfterJoin' /\ JoinedIsIdle'
  BY <1>1 DEF IInv, DrainLosesNothing, NewIsIdle, AbortsAfterJoin, JoinedIsIdle
<1> QED
  BY <1>5, <1>6, <1>7, <1>8 DEF IInv

(* The join ends with no work open, so that everything has been handled.   *)
LEMMA DrainedIsHandled ==
  ASSUME IInv, unfinished = 0, aborted = {}
  PROVE  handled = 1..Len(jobs)
<1>1. Len(queue) = 0 /\ Reviewing = {}
  BY ReviewingFinite, HandedOutType DEF IInv, JoinCountsOpenWork
<1>2. InHand = {} /\ HandedOut = Len(jobs)
  BY <1>1, HandedOutType DEF IInv, InHand, HandedOut
<1> QED
  BY <1>2 DEF IInv, EveryJobInOnePlace

(* The later steps of shutdown().                                          *)
LEMMA IInvShutdown ==
  ASSUME IInv, JoinDone \/ DrainTimeout \/ EndShutdown
  PROVE  IInv'
<1>1. /\ phase \in {"joining", "cancelling"} /\ phase' \in {"cancelling", "stopped"}
      /\ UNCHANGED <<jobs, queue, unfinished, pc, job, handled, aborted>>
      /\ UNCHANGED <<dedupVars, registryVars>>
      /\ timedOut' \in {timedOut, TRUE}
  BY DEF JoinDone, DrainTimeout, EndShutdown
<1>2. Reviewing' = Reviewing
  BY <1>1 DEF Reviewing
<1>3. TypeOK'
  BY <1>1 DEF IInv, TypeOK, DedupTypeOK, RegistryTypeOK, dedupVars, registryVars
<1>4. JoinCountsOpenWork' /\ EveryJobInOnePlace'
  BY <1>1, <1>2, <1>3, SameAccounts
<1>5. RegistryHoldsNewest' /\ CancelledHasStarted' /\ CancelledOnlyForCause'
  BY <1>1, <1>2, SameRegistry
<1>6. DrainLosesNothing' /\ JoinedIsIdle'
  <2>1. CASE JoinDone
    <3>1. aborted = {}
      BY <2>1 DEF JoinDone, IInv, AbortsAfterJoin
    <3>2. handled = 1..Len(jobs)
      BY <2>1, <3>1, DrainedIsHandled DEF JoinDone
    <3> QED
      BY <2>1, <3>2 DEF JoinDone, DrainLosesNothing, JoinedIsIdle
  <2>2. CASE DrainTimeout
    BY <2>2 DEF DrainTimeout, DrainLosesNothing, JoinedIsIdle
  <2>3. CASE EndShutdown
    BY <2>3 DEF EndShutdown, IInv, DrainLosesNothing, JoinedIsIdle
  <2> QED
    BY <2>1, <2>2, <2>3
<1>7. NewIsIdle' /\ AbortsAfterJoin'
  BY <1>1 DEF NewIsIdle, AbortsAfterJoin
<1> QED
  BY <1>3, <1>4, <1>5, <1>6, <1>7 DEF IInv

(* The clock touches nothing of the pool.                                  *)
LEMMA IInvIdle ==
  ASSUME IInv, PoolTick \/ UNCHANGED vars
  PROVE  IInv'
<1>1. UNCHANGED <<poolVars, registryVars>>
  BY DEF PoolTick, vars
<1>2. DedupTypeOK'
  BY DEF PoolTick, Tick, vars, dedupVars, IInv, TypeOK, DedupTypeOK
<1>3. TypeOK'
  BY <1>1, <1>2 DEF IInv, TypeOK, RegistryTypeOK, poolVars, registryVars
<1>4. Reviewing' = Reviewing
  BY <1>1 DEF Reviewing, poolVars
<1>5. JoinCountsOpenWork' /\ EveryJobInOnePlace'
  BY <1>1, <1>3, <1>4, SameAccounts DEF poolVars
<1>6. RegistryHoldsNewest' /\ CancelledHasStarted' /\ CancelledOnlyForCause'
  BY <1>1, <1>4, SameRegistry DEF poolVars
<1>7. DrainLosesNothing' /\ NewIsIdle' /\ AbortsAfterJoin' /\ JoinedIsIdle'
  BY <1>1 DEF poolVars, IInv, DrainLosesNothing, NewIsIdle, AbortsAfterJoin, JoinedIsIdle
<1> QED
  BY <1>3, <1>5, <1>6, <1>7 DEF IInv

(* Every step keeps the invariant.                                         *)
LEMMA IInvStep == IInv /\ [Next]_vars => IInv'
<1> SUFFICES ASSUME IInv, [Next]_vars PROVE IInv'
  OBVIOUS
<1>1. CASE Start
  BY <1>1, IInvStart
<1>2. CASE BeginShutdown
  BY <1>2, IInvBeginShutdown
<1>3. CASE JoinDone \/ DrainTimeout \/ EndShutdown
  BY <1>3, IInvShutdown
<1>4. ASSUME NEW d \in DeliveryId, Submit(d) PROVE IInv'
  BY <1>4, IInvSubmit
<1>5. ASSUME NEW w \in Worker, Take(w) PROVE IInv'
  BY <1>5, IInvTake
<1>6. ASSUME NEW w \in Worker, Finish(w) PROVE IInv'
  BY <1>6, IInvFinish
<1>7. ASSUME NEW w \in Worker, Leave(w) \/ CancelIdle(w) PROVE IInv'
  BY <1>7, IInvExit
<1>8. ASSUME NEW w \in Worker, CancelReview(w) PROVE IInv'
  BY <1>8, IInvCancelReview
<1>9. CASE PoolTick \/ UNCHANGED vars
  BY <1>9, IInvIdle
<1> QED
  BY <1>1, <1>2, <1>3, <1>4, <1>5, <1>6, <1>7, <1>8, <1>9 DEF Next

(* The strengthened invariant holds in every state of the pool.            *)
THEOREM Invariance == Spec => []IInv
<1> QED
  BY IInvInit, IInvStep, PTL DEF Spec

(* The state always has the types the code gives it; in particular the     *)
(* count of unfinished tasks never falls below zero, so task_done() is     *)
(* never called too often (_worker_loop).                                  *)
THEOREM TypeCorrect == Spec => []TypeOK
<1>1. IInv => TypeOK
  BY DEF IInv
<1> QED
  BY <1>1, Invariance, PTL

(* For any number of workers and any capacity, the queue is joined exactly *)
(* when nothing waits and no handler runs (_worker_loop, shutdown).        *)
THEOREM JoinIsExact == Spec => []JoinCountsOpenWork
<1>1. IInv => JoinCountsOpenWork
  BY DEF IInv
<1> QED
  BY <1>1, Invariance, PTL

(* For any number of workers and any capacity, no accepted job is lost or  *)
(* run twice, and jobs are handed out in order (submit, _worker_loop).     *)
THEOREM Conservation == Spec => []EveryJobInOnePlace
<1>1. IInv => EveryJobInOnePlace
  BY DEF IInv
<1> QED
  BY <1>1, Invariance, PTL

(* For any number of workers, what the registry holds for a pull request   *)
(* is the newest review started for it, in progress and not cancelled      *)
(* (CancellationRegistry.register, complete, is_cancelled).                *)
THEOREM RegistryIsCurrent == Spec => []RegistryHoldsNewest
<1>1. IInv => RegistryHoldsNewest
  BY DEF IInv
<1> QED
  BY <1>1, Invariance, PTL

(* For any number of workers, a review is cancelled only by a newer one of *)
(* the same pull request or by shutdown (register, cancel_all).            *)
THEOREM NoSpuriousCancellation == Spec => []CancelledOnlyForCause
<1>1. IInv => CancelledOnlyForCause
  BY DEF IInv
<1> QED
  BY <1>1, Invariance, PTL

(* For any number of workers and any capacity, a shutdown that does not    *)
(* time out has handled every accepted event (shutdown, _worker_loop).     *)
THEOREM GracefulDrain == Spec => []DrainLosesNothing
<1>1. IInv => DrainLosesNothing
  BY DEF IInv
<1> QED
  BY <1>1, Invariance, PTL

-----------------------------------------------------------------------------
(* Lost registrations.                                                     *)

(* A review that is registered, or cancelled, or has a superseded review   *)
(* that ended to blame.                                                    *)
Accounted(j) ==
  \/ active[PrOfJob(j)] = j
  \/ j \in cancelled
  \/ \E k \in (handled \cup aborted) \cap cancelled : k < j /\ PrOfJob(k) = PrOfJob(j)

LEMMA ReviewingJobs ==
  ASSUME IInv
  PROVE  \A v \in Reviewing : job[v] \in 1..HandedOut /\ PrOfJob(job[v]) \in PullRequest
<1>1. InHand \subseteq 1..HandedOut /\ HandedOut \in 0..Len(jobs) /\ Len(jobs) \in Nat
  BY InHandFacts, HandedOutType DEF IInv
<1>2. \A v \in Reviewing : job[v] \in InHand
  BY DEF InHand
<1>3. 1..HandedOut \subseteq 1..Len(jobs)
  BY <1>1
<1> QED
  BY <1>1, <1>2, <1>3, InHandFacts

(* Steps that leave the registry alone only add to what is to blame.       *)
LEMMA QuietStep ==
  ASSUME IInv, UnregisteredAfterSupersession,
         UNCHANGED <<job, registryVars, handled, aborted>>,
         Reviewing' = Reviewing,
         \A j \in 1..HandedOut : PrOfJob(j)' = PrOfJob(j)
  PROVE  UnregisteredAfterSupersession'
<1>1. \A w \in Reviewing : job[w] \in 1..HandedOut
  BY InHandFacts DEF InHand
<1>2. handled \cup aborted \subseteq 1..HandedOut
  BY DEF IInv, EveryJobInOnePlace
<1> QED
  BY <1>1, <1>2 DEF UnregisteredAfterSupersession, registryVars

LEMMA SupersessionSubmit ==
  ASSUME IInv, UnregisteredAfterSupersession, NEW d \in DeliveryId, Submit(d)
  PROVE  UnregisteredAfterSupersession'
<1>1. Reviewing' = Reviewing /\ UNCHANGED <<job, registryVars, handled, aborted>>
  BY DEF Submit, Reviewing
<1>2. \A j \in 1..Len(jobs) : jobs'[j] = jobs[j]
  <2>1. jobs \in Seq(DeliveryId)
    BY DEF IInv, TypeOK
  <2> QED
    BY <2>1, AppendElements DEF Submit, Enqueue
<1>3. HandedOut \in 0..Len(jobs) /\ Len(jobs) \in Nat
  BY InHandFacts, HandedOutType DEF IInv
<1>4. \A j \in 1..HandedOut : PrOfJob(j)' = PrOfJob(j)
  BY <1>2, <1>3 DEF PrOfJob
<1> QED
  BY <1>1, <1>4, QuietStep

(* A new review is registered, and the one it replaces is cancelled.       *)
LEMMA SupersessionTake ==
  ASSUME IInv, UnregisteredAfterSupersession, NEW w \in Worker, Take(w)
  PROVE  UnregisteredAfterSupersession'
<1> DEFINE h == Head(queue)
           pr == PrOfJob(h)
<1>1. /\ queue # <<>> /\ pc[w] = "get"
      /\ UNCHANGED <<jobs, handled, aborted>>
      /\ job' = [job EXCEPT ![w] = h]
      /\ pc' = [pc EXCEPT ![w] = "review"]
      /\ active' = [active EXCEPT ![pr] = h]
      /\ cancelled' = IF active[pr] = NoToken THEN cancelled ELSE cancelled \cup {active[pr]}
  BY DEF Take, Register
<1>2. Len(queue) \in Nat \ {0} /\ Len(jobs) \in Nat /\ h = queue[1] /\ 1 \in DOMAIN queue
  BY <1>1, TailElements, SeqElements, HandedOutType DEF IInv, TypeOK
<1>3. h = HandedOut + 1 /\ HandedOut \in Nat /\ h \in 1..Len(jobs)
  BY <1>2, HandedOutType DEF IInv, EveryJobInOnePlace, HandedOut
<1>4. pr \in PullRequest
  BY <1>3, InHandFacts
<1> HIDE DEF h, pr
<1>5. \A v \in Reviewing : job[v] \in 1..HandedOut /\ PrOfJob(job[v]) \in PullRequest
  BY ReviewingJobs
<1>6. Reviewing' \subseteq Reviewing \cup {w} /\ w \notin Reviewing
  BY <1>1 DEF IInv, TypeOK, Reviewing
<1>7. \A v \in Reviewing : job'[v] = job[v]
  BY <1>1, <1>6 DEF IInv, TypeOK
<1>8. job'[w] = h
  BY <1>1 DEF IInv, TypeOK
<1>9. active'[pr] = h
  BY <1>1, <1>4 DEF IInv, TypeOK, RegistryTypeOK
<1>10. ASSUME NEW v \in Reviewing
       PROVE  Accounted(job[v])'
  <2>1. Accounted(job[v])
    BY DEF UnregisteredAfterSupersession, Accounted
  <2>2. job'[v] = job[v] /\ job[v] # NoToken
    BY <1>3, <1>5, <1>7, RegistryAssumption
  <2>3. CASE active[PrOfJob(job[v])] = job[v]
    <3>1. CASE PrOfJob(job[v]) = pr
      BY <1>1, <2>2, <2>3, <3>1 DEF Accounted
    <3>2. CASE PrOfJob(job[v]) # pr
      <4>1. active'[PrOfJob(job[v])] = job[v]
        BY <1>1, <1>5, <2>3, <3>2 DEF IInv, TypeOK, RegistryTypeOK
      <4> QED
        BY <1>1, <2>2, <4>1 DEF Accounted, PrOfJob
    <3> QED
      BY <3>1, <3>2
  <2>4. CASE active[PrOfJob(job[v])] # job[v]
    <3>1. cancelled \subseteq cancelled'
      BY <1>1
    <3> QED
      BY <1>1, <2>1, <2>2, <2>4, <3>1 DEF Accounted, PrOfJob
  <2> QED
    BY <2>3, <2>4
<1>11. PrOf[jobs'[job'[w]]] = pr
  BY <1>1, <1>8 DEF pr, PrOfJob
<1>12. Accounted(job[w])'
  BY <1>8, <1>9, <1>11 DEF Accounted, PrOfJob
<1> QED
  BY <1>6, <1>10, <1>12 DEF UnregisteredAfterSupersession, Accounted

(* A review that ends unregisters a newer one; it had been cancelled, or   *)
(* had lost its own registration before.                                   *)
LEMMA SupersessionRelease ==
  ASSUME IInv, UnregisteredAfterSupersession, NEW w \in Worker, Release(w),
         UNCHANGED jobs,
         NEW to \in {"get", "exit"}, pc' = [pc EXCEPT ![w] = to],
         handled' \cup aborted' = handled \cup aborted \cup {job[w]}
  PROVE  UnregisteredAfterSupersession'
<1> DEFINE i == job[w]
           pr == PrOfJob(i)
<1>1. /\ w \in Reviewing /\ Reviewing' = Reviewing \ {w}
      /\ job' = [job EXCEPT ![w] = 0]
      /\ active' = [active EXCEPT ![pr] = NoToken] /\ cancelled' = cancelled
  BY DEF Release, Complete, Reviewing, IInv, TypeOK
<1>2. \A v \in Reviewing : job[v] \in 1..HandedOut /\ PrOfJob(job[v]) \in PullRequest
  BY ReviewingJobs
<1>3. \A v \in Reviewing' : job'[v] = job[v] /\ job[v] # i
  BY <1>1 DEF IInv, TypeOK, EveryJobInOnePlace, Reviewing
<1>4. HandedOut \in Nat
  BY HandedOutType DEF IInv
<1>5. Accounted(i)
  BY <1>1 DEF UnregisteredAfterSupersession, Accounted
<1>6. ASSUME NEW v \in Reviewing'
      PROVE  Accounted(job[v])'
  <2> DEFINE j == job[v]
  <2>1. v \in Reviewing /\ j \in 1..HandedOut /\ i \in 1..HandedOut /\ j # i /\ job'[v] = j
    BY <1>1, <1>2, <1>3
  <2>2. Accounted(j)
    BY <2>1 DEF UnregisteredAfterSupersession, Accounted
  <2>3. CASE PrOfJob(j) = pr /\ active[pr] = j
    <3>1. i < j
      <4>1. j # NoToken /\ \A n \in (j + 1)..HandedOut : PrOfJob(n) # pr
        BY <1>2, <2>1, <2>3, RegistryAssumption DEF IInv, RegistryHoldsNewest
      <4> QED
        BY <1>4, <2>1, <4>1
    <3>2. CASE i \in cancelled
      BY <1>1, <2>1, <2>3, <3>1, <3>2 DEF Accounted, PrOfJob
    <3>3. CASE i \notin cancelled
      <4>1. PICK k \in (handled \cup aborted) \cap cancelled : k < i /\ PrOfJob(k) = pr
        BY <1>5, <2>1, <2>3, <3>3 DEF Accounted
      <4>2. k < j
        <5>1. k \in 1..HandedOut
          BY <4>1 DEF IInv, EveryJobInOnePlace
        <5> QED
          BY <1>4, <2>1, <3>1, <4>1, <5>1
      <4>3. k \in (handled' \cup aborted') \cap cancelled'
        BY <1>1, <4>1
      <4> QED
        BY <2>1, <2>3, <4>1, <4>2, <4>3 DEF Accounted, PrOfJob
    <3> QED
      BY <3>2, <3>3
  <2>4. CASE ~(PrOfJob(j) = pr /\ active[pr] = j)
    <3>1. active[PrOfJob(j)] = j => active'[PrOfJob(j)] = j
      BY <1>1, <1>2, <2>1, <2>4 DEF IInv, TypeOK, RegistryTypeOK
    <3> QED
      BY <1>1, <2>1, <2>2, <3>1 DEF Accounted, PrOfJob
  <2> QED
    BY <2>3, <2>4
<1> QED
  BY <1>3, <1>6 DEF UnregisteredAfterSupersession, Accounted

LEMMA SupersessionBeginShutdown ==
  ASSUME IInv, UnregisteredAfterSupersession, BeginShutdown
  PROVE  UnregisteredAfterSupersession'
<1>1. /\ UNCHANGED <<jobs, pc, job, handled, aborted>>
      /\ cancelled' = cancelled \cup {active[pr] : pr \in {p \in PullRequest : active[p] # NoToken}}
  BY DEF BeginShutdown, CancelAll
<1>2. \A v \in Reviewing : job[v] \in 1..HandedOut /\ PrOfJob(job[v]) \in PullRequest
  BY ReviewingJobs
<1>3. HandedOut \in Nat
  BY HandedOutType DEF IInv
<1>4. \A v \in Reviewing : active[PrOfJob(job[v])] = job[v] => job[v] \in cancelled'
  BY <1>1, <1>2, <1>3, RegistryAssumption
<1>5. cancelled \subseteq cancelled' /\ Reviewing' = Reviewing
  BY <1>1 DEF Reviewing
<1> QED
  BY <1>1, <1>4, <1>5 DEF UnregisteredAfterSupersession, PrOfJob

LEMMA SupersessionStep ==
  IInv /\ UnregisteredAfterSupersession /\ [Next]_vars => UnregisteredAfterSupersession'
<1> SUFFICES ASSUME IInv, UnregisteredAfterSupersession, [Next]_vars
             PROVE  UnregisteredAfterSupersession'
  OBVIOUS
<1>1. CASE Start
  <2>1. Reviewing' = {}
    BY <1>1 DEF Start, Reviewing
  <2> QED
    BY <2>1 DEF UnregisteredAfterSupersession
<1>2. CASE BeginShutdown
  BY <1>2, SupersessionBeginShutdown
<1>3. CASE JoinDone \/ DrainTimeout \/ EndShutdown \/ PoolTick \/ UNCHANGED vars
  <2>1. UNCHANGED <<jobs, pc, job, registryVars, handled, aborted>>
    BY <1>3 DEF JoinDone, DrainTimeout, EndShutdown, PoolTick, vars, poolVars
  <2>2. Reviewing' = Reviewing /\ \A j \in 1..HandedOut : PrOfJob(j)' = PrOfJob(j)
    BY <2>1 DEF Reviewing, PrOfJob
  <2> QED
    BY <2>1, <2>2, QuietStep
<1>4. ASSUME NEW d \in DeliveryId, Submit(d) PROVE UnregisteredAfterSupersession'
  BY <1>4, SupersessionSubmit
<1>5. ASSUME NEW w \in Worker, Take(w) PROVE UnregisteredAfterSupersession'
  BY <1>5, SupersessionTake
<1>6. ASSUME NEW w \in Worker, Finish(w) PROVE UnregisteredAfterSupersession'
  <2>1. LoopHead \in {"get", "exit"}
    BY DEF LoopHead
  <2>2. handled' \cup aborted' = handled \cup aborted \cup {job[w]}
    BY <1>6 DEF Finish
  <2> QED
    BY <1>6, <2>1, <2>2, SupersessionRelease DEF Finish
<1>7. ASSUME NEW w \in Worker, CancelReview(w) PROVE UnregisteredAfterSupersession'
  <2>1. handled' \cup aborted' = handled \cup aborted \cup {job[w]}
    BY <1>7 DEF CancelReview
  <2> QED
    BY <1>7, <2>1, SupersessionRelease DEF CancelReview
<1>8. ASSUME NEW w \in Worker, Leave(w) \/ CancelIdle(w) PROVE UnregisteredAfterSupersession'
  <2>1. /\ UNCHANGED <<jobs, job, registryVars, handled, aborted>>
        /\ pc[w] = "get" /\ pc' = [pc EXCEPT ![w] = "exit"]
    BY <1>8 DEF Leave, CancelIdle
  <2>2. Reviewing' = Reviewing /\ \A j \in 1..HandedOut : PrOfJob(j)' = PrOfJob(j)
    BY <2>1 DEF IInv, TypeOK, Reviewing, PrOfJob
  <2> QED
    BY <2>1, <2>2, QuietStep
<1> QED
  BY <1>1, <1>2, <1>3, <1>4, <1>5, <1>6, <1>7, <1>8 DEF Next

(* For any number of workers, a review that lost its registration without  *)
(* being cancelled has a superseded review of its pull request that ended  *)
(* to blame (CancellationRegistry.register, complete).                     *)
THEOREM LossBeginsWithSupersession == Spec => []UnregisteredAfterSupersession
<1>1. Init => UnregisteredAfterSupersession
  BY DEF Init, Reviewing, UnregisteredAfterSupersession
<1> QED
  BY <1>1, SupersessionStep, Invariance, PTL DEF Spec

(* How much of its promise the registry keeps: two uncancelled reviews of  *)
(* one pull request are under way together only after a superseded review  *)
(* of it has ended and taken a registration with it (complete).            *)
OneActiveUnlessSuperseded ==
  \A v, w \in Reviewing :
    (v # w /\ PrOfJob(job[v]) = PrOfJob(job[w])) =>
      \/ job[v] \in cancelled \/ job[w] \in cancelled
      \/ \E k \in (handled \cup aborted) \cap cancelled :
           PrOfJob(k) = PrOfJob(job[v]) /\ (k < job[v] \/ k < job[w])

(* The promise of cancel.py holds of every pull request none of whose      *)
(* superseded reviews has ended (CancellationRegistry.register, complete). *)
THEOREM SecondReviewNeedsSupersession == Spec => []OneActiveUnlessSuperseded
<1>1. EveryJobInOnePlace /\ UnregisteredAfterSupersession => OneActiveUnlessSuperseded
  <2> SUFFICES ASSUME EveryJobInOnePlace, UnregisteredAfterSupersession,
                      NEW v \in Reviewing, NEW w \in Reviewing,
                      v # w, PrOfJob(job[v]) = PrOfJob(job[w]),
                      job[v] \notin cancelled, job[w] \notin cancelled
               PROVE  \E k \in (handled \cup aborted) \cap cancelled :
                        PrOfJob(k) = PrOfJob(job[v]) /\ (k < job[v] \/ k < job[w])
    BY DEF OneActiveUnlessSuperseded
  <2>1. job[v] # job[w]
    BY DEF EveryJobInOnePlace
  <2>2. active[PrOfJob(job[v])] # job[v] \/ active[PrOfJob(job[w])] # job[w]
    BY <2>1
  <2> QED
    BY <2>2 DEF UnregisteredAfterSupersession
<1> QED
  BY <1>1, Conservation, LossBeginsWithSupersession, PTL

-----------------------------------------------------------------------------
(* Refinement.                                                             *)

(* There are no more jobs in hand than workers reviewing.                  *)
LEMMA InHandBounded ==
  ASSUME TypeOK
  PROVE  Cardinality(InHand) \in Nat /\ Cardinality(InHand) <= Cardinality(Reviewing)
<1> DEFINE f == [v \in Reviewing |-> job[v]]
<1>1. f \in Surjection(Reviewing, InHand)
  BY DEF InHand, Surjection
<1>2. IsFiniteSet(InHand) /\ Cardinality(InHand) <= Cardinality(Reviewing)
  BY <1>1, ReviewingFinite, FS_Surjection
<1> QED
  BY <1>2, FS_CardinalityType

(* While a worker is free there is room in the hands of the pool.          *)
LEMMA FreeWorkerMeansRoom ==
  ASSUME TypeOK, NEW w \in Worker, w \notin Reviewing
  PROVE  Cardinality(InHand) < Cardinality(Worker)
<1>1. Reviewing \subseteq Worker /\ Reviewing # Worker
  BY DEF Reviewing
<1>2. Cardinality(Reviewing) < Cardinality(Worker) /\ Cardinality(Worker) \in Nat
  BY <1>1, FS_Subset, FS_CardinalityType
<1> QED
  BY <1>2, InHandBounded, ReviewingFinite

(* The job a worker lets go leaves the set of jobs in hand, and no other.  *)
LEMMA ReleaseHands ==
  ASSUME IInv, NEW w \in Worker, Release(w), UNCHANGED <<jobs, queue>>,
         NEW to \in {"get", "exit"}, pc' = [pc EXCEPT ![w] = to]
  PROVE  job[w] \in InHand /\ InHand' = InHand \ {job[w]} /\ HandedOut' = HandedOut
<1>1. w \in Reviewing /\ Reviewing' = Reviewing \ {w} /\ job' = [job EXCEPT ![w] = 0]
  BY DEF Release, Reviewing, IInv, TypeOK
<1>2. \A v \in Reviewing' : job'[v] = job[v]
  BY <1>1 DEF IInv, TypeOK, Reviewing
<1>3. \A u, v \in Reviewing : job[u] = job[v] => u = v
  BY DEF IInv, EveryJobInOnePlace
<1> QED
  BY <1>1, <1>2, <1>3 DEF InHand, HandedOut

(* Taking a job is handing it out.                                         *)
LEMMA TakeRefines ==
  ASSUME IInv, NEW w \in Worker, Take(w)
  PROVE  Board!HandOut
<1> DEFINE h == Head(queue)
<1>1. /\ phase \in {"running", "joining"} /\ pc[w] = "get" /\ queue # <<>>
      /\ UNCHANGED <<phase, jobs, handled>>
      /\ queue' = Tail(queue)
      /\ job' = [job EXCEPT ![w] = h]
      /\ pc' = [pc EXCEPT ![w] = "review"]
  BY DEF Take
<1>2. /\ Len(queue) \in Nat \ {0} /\ Len(jobs) \in Nat
      /\ Len(queue') = Len(queue) - 1 /\ h = queue[1] /\ 1 \in DOMAIN queue
  BY <1>1, TailElements, SeqElements, HandedOutType DEF IInv, TypeOK
<1>3. /\ h = HandedOut + 1 /\ HandedOut' = HandedOut + 1 /\ HandedOut < Len(jobs)
  BY <1>1, <1>2 DEF IInv, EveryJobInOnePlace, HandedOut
<1> HIDE DEF h
<1>4. w \notin Reviewing /\ Reviewing' = Reviewing \cup {w}
  BY <1>1 DEF IInv, TypeOK, Reviewing
<1>5. (\A v \in Reviewing : job'[v] = job[v]) /\ job'[w] = h
  BY <1>1, <1>4 DEF IInv, TypeOK, Reviewing
<1>6. InHand' = InHand \cup {h}
  BY <1>4, <1>5 DEF InHand
<1>7. Cardinality(InHand) < Cardinality(Worker)
  BY <1>4, FreeWorkerMeansRoom DEF IInv
<1>8. Board!Cardinality(InHand) = Cardinality(InHand)
  BY Zenon DEF Board!Cardinality, Cardinality
<1> QED
  BY <1>1, <1>3, <1>6, <1>7, <1>8 DEF Board!HandOut

(* Submitting is accepting, or nothing the board sees.                     *)
LEMMA SubmitRefines ==
  ASSUME IInv, NEW d \in DeliveryId, Submit(d)
  PROVE  Board!Accept \/ UNCHANGED Board!boardVars
<1>1. UNCHANGED <<phase, pc, job, handled>> /\ phase = "running" /\ InHand' = InHand
  BY DEF Submit, InHand, Reviewing
<1>2. CASE UNCHANGED <<jobs, queue, unfinished>>
  BY <1>1, <1>2 DEF Board!boardVars, HandedOut
<1>3. CASE Enqueue(d) /\ ~(Len(queue) >= QueueCapacity)
  <2>1. /\ jobs \in Seq(DeliveryId) /\ queue \in Seq(Nat \ {0})
        /\ Len(jobs) \in Nat /\ Len(queue) \in Nat /\ Len(jobs) + 1 \in Nat \ {0}
    BY HandedOutType DEF IInv, TypeOK
  <2>2. Len(jobs') = Len(jobs) + 1 /\ Len(queue') = Len(queue) + 1
    BY <1>3, <2>1, AppendElements DEF Enqueue
  <2>3. HandedOut' = HandedOut /\ Len(jobs) - HandedOut < QueueCapacity
    BY <1>3, <2>1, <2>2 DEF HandedOut
  <2> QED
    BY <1>1, <2>2, <2>3 DEF Board!Accept
<1> QED
  BY <1>2, <1>3 DEF Submit

(* Every step of the pool is a step of the board, or none.                 *)
LEMMA StepRefines == IInv /\ [Next]_vars => [Board!Next]_(Board!boardVars)
<1> SUFFICES ASSUME IInv, [Next]_vars
             PROVE  Board!Next \/ UNCHANGED Board!boardVars
  OBVIOUS
<1>1. ASSUME Start PROVE Board!Open
  <2>1. Reviewing' = {} /\ Reviewing = {}
    BY <1>1 DEF Start, Reviewing, IInv, TypeOK, NewIsIdle
  <2> QED
    BY <1>1, <2>1 DEF Start, Board!Open, InHand, HandedOut, IInv, NewIsIdle
<1>2. ASSUME BeginShutdown PROVE Board!Close
  BY <1>2 DEF BeginShutdown, Board!Close, InHand, Reviewing, HandedOut
<1>3. ASSUME JoinDone \/ DrainTimeout PROVE Board!GiveUp
  BY <1>3 DEF JoinDone, DrainTimeout, Board!GiveUp, InHand, Reviewing, HandedOut
<1>4. ASSUME NEW d \in DeliveryId, Submit(d)
      PROVE  Board!Accept \/ UNCHANGED Board!boardVars
  BY <1>4, SubmitRefines
<1>5. ASSUME NEW w \in Worker, Take(w) PROVE Board!HandOut
  BY <1>5, TakeRefines
<1>6. ASSUME NEW w \in Worker, Finish(w) PROVE job[w] \in InHand /\ Board!Finish(job[w])
  <2>1. job[w] \in InHand /\ InHand' = InHand \ {job[w]} /\ HandedOut' = HandedOut
    <3>1. LoopHead \in {"get", "exit"}
      BY DEF LoopHead
    <3> QED
      BY <1>6, <3>1, ReleaseHands DEF Finish
  <2> QED
    BY <1>6, <2>1 DEF Finish, Board!Finish
<1>7. ASSUME NEW w \in Worker, CancelReview(w) PROVE job[w] \in InHand /\ Board!Drop(job[w])
  <2>1. job[w] \in InHand /\ InHand' = InHand \ {job[w]} /\ HandedOut' = HandedOut
    BY <1>7, ReleaseHands DEF CancelReview
  <2> QED
    BY <1>7, <2>1 DEF CancelReview, Board!Drop
<1>8. ASSUME NEW w \in Worker, Leave(w) \/ CancelIdle(w) PROVE UNCHANGED Board!boardVars
  <2>1. Reviewing' = Reviewing
    BY <1>8 DEF Leave, CancelIdle, IInv, TypeOK, Reviewing
  <2> QED
    BY <1>8, <2>1 DEF Leave, CancelIdle, Board!boardVars, InHand, HandedOut
<1>9. ASSUME EndShutdown \/ PoolTick \/ UNCHANGED vars PROVE UNCHANGED Board!boardVars
  BY <1>9 DEF EndShutdown, PoolTick, vars, poolVars, Board!boardVars, InHand, Reviewing, HandedOut
<1> QED
  BY <1>1, <1>2, <1>3, <1>4, <1>5, <1>6, <1>7, <1>8, <1>9 DEF Next, Board!Next

(* For any number of workers and any capacity, the pool is a bounded       *)
(* first-in first-out job board (submit, _worker_loop, shutdown).          *)
THEOREM RefinesJobBoard == Spec => ImplementsJobBoard
<1>1. Init => Board!Init
  <2>1. Init => Reviewing = {}
    BY DEF Init, Reviewing
  <2> QED
    BY <2>1 DEF Init, Board!Init, InHand, HandedOut
<1> QED
  BY <1>1, StepRefines, Invariance, PTL DEF Spec, ImplementsJobBoard, Board!Spec

-----------------------------------------------------------------------------
(* What is left to do.                                                     *)

(* The workers that have not left their loop.                              *)
Alive == {w \in Worker : pc[w] # "exit"}

PhaseLeft == [new |-> 4, running |-> 3, joining |-> 2, cancelling |-> 1, stopped |-> 0]

(* An event is taken and then reviewed, a worker leaves, and the phases    *)
(* follow one another.                                                     *)
Work == Len(queue) + unfinished + Cardinality(Alive) + PhaseLeft[phase]

LEMMA PhasesLeft ==
  /\ PhaseLeft["new"] = 4 /\ PhaseLeft["running"] = 3 /\ PhaseLeft["joining"] = 2
  /\ PhaseLeft["cancelling"] = 1 /\ PhaseLeft["stopped"] = 0
BY DEF PhaseLeft

LEMMA AliveFinite == IsFiniteSet(Alive) /\ Cardinality(Alive) \in Nat
<1>1. Alive \subseteq Worker
  BY DEF Alive
<1>2. IsFiniteSet(Alive)
  BY <1>1, FS_Subset
<1> QED
  BY <1>2, FS_CardinalityType

(* A worker that leaves is one less; one that goes round is not.           *)
LEMMA AliveStep ==
  ASSUME TypeOK, NEW w \in Worker, pc[w] # "exit",
         NEW s \in {"get", "review", "exit"}, pc' = [pc EXCEPT ![w] = s]
  PROVE  Cardinality(Alive)' = IF s = "exit" THEN Cardinality(Alive) - 1 ELSE Cardinality(Alive)
<1>1. w \in Alive /\ pc \in [Worker -> {"none", "get", "review", "exit"}]
  BY DEF Alive, TypeOK
<1>2. CASE s = "exit"
  <2>1. Alive' = Alive \ {w}
    BY <1>1, <1>2 DEF Alive
  <2>2. Cardinality(Alive \ {w}) = Cardinality(Alive) - 1
    BY <1>1, AliveFinite, FS_RemoveElement
  <2> QED
    BY <1>2, <2>1, <2>2
<1>3. CASE s # "exit"
  <2>1. Alive' = Alive
    BY <1>1, <1>3 DEF Alive
  <2> QED
    BY <1>3, <2>1
<1> QED
  BY <1>2, <1>3

LEMMA WorkParts ==
  ASSUME TypeOK
  PROVE  /\ Len(queue) \in Nat /\ unfinished \in Nat /\ Cardinality(Alive) \in Nat
         /\ PhaseLeft[phase] \in Nat /\ Work \in Nat
<1>1. Len(queue) \in Nat /\ unfinished \in Nat
  BY SeqElements DEF TypeOK
<1>2. PhaseLeft[phase] \in Nat
  BY PhasesLeft DEF TypeOK
<1> QED
  BY <1>1, <1>2, AliveFinite DEF Work

(* Every step of the pool but an acceptance uses up some of its work, and  *)
(* an acceptance adds one taking and one review: after n events the pool   *)
(* takes no more than 2 * n steps, one for each worker and four of its     *)
(* own, and nothing is ever handed out or put back again (_worker_loop,    *)
(* shutdown).                                                              *)
WorkRunsOut ==
  [][ \/ Work' \in 0..(Work - 1)
      \/ Len(jobs') = Len(jobs) + 1 /\ Work' = Work + 2
    ]_<<poolVars, registryVars>>

LEMMA WorkStep ==
  ASSUME IInv, IInv', Next, ~UNCHANGED <<poolVars, registryVars>>
  PROVE  Work' \in 0..(Work - 1) \/ (Len(jobs') = Len(jobs) + 1 /\ Work' = Work + 2)
<1>1. TypeOK /\ TypeOK'
  BY DEF IInv
<1>2. /\ Len(queue) \in Nat /\ unfinished \in Nat /\ Cardinality(Alive) \in Nat
      /\ PhaseLeft[phase] \in Nat /\ Work \in Nat
  BY <1>1, WorkParts
<1>3. Len(queue') \in Nat /\ unfinished' \in Nat
  BY <1>1, SeqElements DEF TypeOK
<1>4. Work = Len(queue) + unfinished + Cardinality(Alive) + PhaseLeft[phase]
  BY DEF Work
<1>5. Work' = Len(queue') + unfinished' + Cardinality(Alive)' + PhaseLeft[phase']
  BY DEF Work
<1>6. CASE Start \/ BeginShutdown \/ JoinDone \/ DrainTimeout \/ EndShutdown
  <2>1. /\ UNCHANGED <<queue, unfinished>>
        /\ \/ phase = "new" /\ phase' = "running"
           \/ phase = "running" /\ phase' = "joining"
           \/ phase = "joining" /\ phase' = "cancelling"
           \/ phase = "cancelling" /\ phase' = "stopped"
    BY <1>6 DEF Start, BeginShutdown, JoinDone, DrainTimeout, EndShutdown
  <2>2. Alive' = Alive
    BY <1>6 DEF Start, BeginShutdown, JoinDone, DrainTimeout, EndShutdown, Alive, IInv, NewIsIdle
  <2>3. PhaseLeft[phase'] = PhaseLeft[phase] - 1 /\ PhaseLeft[phase'] \in Nat
    BY <2>1, PhasesLeft
  <2>4. Cardinality(Alive)' = Cardinality(Alive)
    BY <2>2
  <2> QED
    BY <1>2, <1>4, <1>5, <2>1, <2>3, <2>4
<1>7. ASSUME NEW d \in DeliveryId, Submit(d)
      PROVE  Len(jobs') = Len(jobs) + 1 /\ Work' = Work + 2
  <2>1. Enqueue(d) /\ UNCHANGED <<phase, pc>>
    BY <1>7 DEF Submit, poolVars
  <2>2. /\ Len(jobs') = Len(jobs) + 1 /\ Len(queue') = Len(queue) + 1
        /\ unfinished' = unfinished + 1
    <3>1. jobs \in Seq(DeliveryId) /\ queue \in Seq(Nat \ {0}) /\ Len(jobs) \in Nat
      BY <1>1, SeqElements DEF TypeOK
    <3> QED
      BY <2>1, <3>1, AppendElements DEF Enqueue
  <2>3. Cardinality(Alive)' = Cardinality(Alive)
    BY <2>1 DEF Alive
  <2> QED
    BY <1>2, <1>4, <1>5, <2>1, <2>2, <2>3
<1>8. ASSUME NEW w \in Worker, Take(w)
      PROVE  Work' \in 0..(Work - 1)
  <2>1. /\ queue # <<>> /\ queue' = Tail(queue) /\ UNCHANGED <<phase, unfinished>>
        /\ pc[w] = "get" /\ pc' = [pc EXCEPT ![w] = "review"]
    BY <1>8 DEF Take
  <2>2. Len(queue') = Len(queue) - 1
    BY <1>1, <2>1, TailElements DEF TypeOK
  <2>3. Cardinality(Alive)' = Cardinality(Alive)
    BY <1>1, <2>1, AliveStep
  <2> QED
    BY <1>2, <1>3, <1>4, <1>5, <2>1, <2>2, <2>3
<1>9. ASSUME NEW w \in Worker, Finish(w) \/ CancelReview(w)
      PROVE  Work' \in 0..(Work - 1)
  <2>1. /\ UNCHANGED <<phase, queue>> /\ unfinished' = unfinished - 1 /\ pc[w] = "review"
        /\ \E s \in {"get", "exit"} : pc' = [pc EXCEPT ![w] = s]
    BY <1>9 DEF Finish, CancelReview, Release, LoopHead
  <2>2. /\ Cardinality(Alive)' <= Cardinality(Alive)
        /\ Cardinality(Alive)' \in Nat
    <3>1. PICK s \in {"get", "exit"} : pc' = [pc EXCEPT ![w] = s]
      BY <2>1
    <3>2. Cardinality(Alive)' = IF s = "exit" THEN Cardinality(Alive) - 1 ELSE Cardinality(Alive)
      BY <1>1, <2>1, <3>1, AliveStep
    <3>3. w \in Alive /\ Cardinality(Alive) # 0
      <4>1. w \in Alive
        BY <2>1 DEF Alive
      <4> QED
        BY <4>1, AliveFinite, FS_EmptySet
    <3> QED
      BY <1>2, <3>2, <3>3
  <2> QED
    BY <1>2, <1>3, <1>4, <1>5, <2>1, <2>2
<1>10. ASSUME NEW w \in Worker, Leave(w) \/ CancelIdle(w)
       PROVE  Work' \in 0..(Work - 1)
  <2>1. /\ UNCHANGED <<phase, queue, unfinished>> /\ pc[w] = "get"
        /\ pc' = [pc EXCEPT ![w] = "exit"]
    BY <1>10 DEF Leave, CancelIdle
  <2>2. Cardinality(Alive)' = Cardinality(Alive) - 1
    BY <1>1, <2>1, AliveStep
  <2>3. Cardinality(Alive) # 0
    <3>1. w \in Alive
      BY <2>1 DEF Alive
    <3> QED
      BY <3>1, AliveFinite, FS_EmptySet
  <2> QED
    BY <1>2, <1>4, <1>5, <2>1, <2>2, <2>3
<1>11. ~PoolTick
  BY DEF PoolTick
<1> QED
  BY <1>6, <1>7, <1>8, <1>9, <1>10, <1>11 DEF Next

(* Whatever the order of acceptances, reviews and shutdown, the pool uses  *)
(* up its work (_worker_loop, shutdown).                                   *)
THEOREM WorkIsBounded == Spec => WorkRunsOut
<1>1. IInv /\ IInv' /\ [Next]_vars =>
        [ \/ Work' \in 0..(Work - 1)
          \/ Len(jobs') = Len(jobs) + 1 /\ Work' = Work + 2
        ]_<<poolVars, registryVars>>
  BY WorkStep DEF vars
<1> QED
  BY Invariance, <1>1, PTL DEF Spec, WorkRunsOut

(* As long as an event waits in a pool that has not stopped waiting for    *)
(* it, no worker has left its loop: each of them waits for an event, or    *)
(* reviews one and comes back for the next (_worker_loop).                 *)
WaitingIsServed ==
  (phase \in {"running", "joining"} /\ queue # <<>>) =>
    \A w \in Worker : pc[w] \in {"get", "review"}

(* While the pool runs none leaves, waiting or not; and none is left       *)
(* outside its loop by start().                                            *)
Manned ==
  /\ phase = "running" => \A w \in Worker : pc[w] \in {"get", "review"}
  /\ phase # "new" => \A w \in Worker : pc[w] # "none"
  /\ WaitingIsServed

LEMMA MannedStep ==
  ASSUME TypeOK, Manned, [Next]_vars
  PROVE  Manned'
<1>0. pc \in [Worker -> {"none", "get", "review", "exit"}]
  BY DEF TypeOK
<1>1. CASE Start
  BY <1>1 DEF Start, Manned, WaitingIsServed
<1>2. CASE BeginShutdown \/ JoinDone \/ DrainTimeout \/ EndShutdown
  <2>1. /\ UNCHANGED <<pc, queue>> /\ phase # "new" /\ phase' # "running"
        /\ phase' = "joining" => phase = "running"
    BY <1>2 DEF BeginShutdown, JoinDone, DrainTimeout, EndShutdown
  <2> QED
    BY <2>1 DEF Manned, WaitingIsServed
<1>3. ASSUME NEW d \in DeliveryId, Submit(d)
      PROVE  Manned'
  <2>1. UNCHANGED <<phase, pc>> /\ phase = "running"
    BY <1>3 DEF Submit
  <2> QED
    BY <2>1 DEF Manned, WaitingIsServed
<1>4. ASSUME NEW w \in Worker, Take(w)
      PROVE  Manned'
  <2>1. /\ phase' = phase /\ phase # "new" /\ queue # <<>>
        /\ phase \in {"running", "joining"} /\ pc' = [pc EXCEPT ![w] = "review"]
    BY <1>4 DEF Take, Manned
  <2>2. \A v \in Worker : pc'[v] \in {pc[v], "review"}
    BY <1>0, <2>1
  <2> QED
    BY <2>1, <2>2 DEF Manned, WaitingIsServed
<1>5. ASSUME NEW w \in Worker, Finish(w)
      PROVE  Manned'
  <2>1. /\ UNCHANGED <<phase, queue>> /\ phase \in {"running", "joining"}
        /\ pc' = [pc EXCEPT ![w] = LoopHead]
    BY <1>5 DEF Finish
  <2>2. LoopHead \in {"get", "exit"} /\ (phase = "running" \/ queue # <<>> => LoopHead = "get")
    BY DEF LoopHead
  <2>3. /\ \A v \in Worker : pc'[v] \in {pc[v], "get", "exit"}
        /\ phase = "running" \/ queue # <<>> => \A v \in Worker : pc'[v] \in {pc[v], "get"}
    BY <1>0, <2>1, <2>2
  <2> QED
    BY <2>1, <2>3 DEF Manned, WaitingIsServed
<1>6. ASSUME NEW w \in Worker, Leave(w) \/ CancelIdle(w) \/ CancelReview(w)
      PROVE  Manned'
  <2>1. /\ UNCHANGED <<phase, queue>> /\ phase \in {"joining", "cancelling"}
        /\ phase = "joining" => queue = <<>>
        /\ pc' = [pc EXCEPT ![w] = "exit"]
    BY <1>6 DEF Leave, LoopHead, CancelIdle, CancelReview
  <2>2. \A v \in Worker : pc'[v] \in {pc[v], "exit"}
    BY <1>0, <2>1
  <2> QED
    BY <2>1, <2>2 DEF Manned, WaitingIsServed
<1>7. CASE PoolTick \/ UNCHANGED vars
  BY <1>7 DEF PoolTick, vars, poolVars, Manned, WaitingIsServed
<1> QED
  BY <1>1, <1>2, <1>3, <1>4, <1>5, <1>6, <1>7 DEF Next

(* No event that waits is left without workers to take it (start,          *)
(* _worker_loop, shutdown).                                                *)
THEOREM NoEventIsAbandoned == Spec => []WaitingIsServed
<1>1. Init => Manned
  BY DEF Init, Manned, WaitingIsServed
<1>2. TypeOK /\ Manned /\ [Next]_vars => Manned'
  BY MannedStep
<1>3. Manned => WaitingIsServed
  BY DEF Manned
<1> QED
  BY TypeCorrect, <1>1, <1>2, <1>3, PTL DEF Spec
=============================================================================
