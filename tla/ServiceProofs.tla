--------------------------- MODULE ServiceProofs ---------------------------
(***************************************************************************)
(* Proofs about the application: it runs the worker pool, so that what is  *)
(* proved of the pool holds in it, and its own invariants, for every       *)
(* number of workers and deliveries and every TTL.                         *)
(*                                                                         *)
(* The argument about posts: a review in hand that posts after a newer one *)
(* is not the registered one, since the registered one is the newest that  *)
(* was started; so it is cancelled, or has lost its registration, and then *)
(* the pool's invariant names the superseded review that took it.          *)
(*                                                                         *)
(* The last theorem joins the contract of reviews to the service, with the *)
(* variables of the contract that the service does without.                *)
(***************************************************************************)
EXTENDS ReviewService, WorkerPoolProofs

VARIABLES superseded, asked, draft, says   (* of any one review: see HandlerFits *)

(* What is recorded of a pull request is a review of it that has started.  *)
NewestHasStarted ==
  \A pr \in PullRequest :
    newest[pr] # 0 => newest[pr] \in 1..HandedOut /\ PrOfJob(newest[pr]) = pr

OvertakersHaveStarted == overtook \subseteq 1..HandedOut

(* The clients follow the pool.                                            *)
ClientsFollowPool ==
  /\ clients = "unbuilt" => phase = "new"
  /\ clients \in {"httpClosed", "closed"} => phase = "stopped"

IdleOutsideRun == phase \in {"new", "stopped"} => Reviewing = {}

(* The deduplicator still remembers what was accepted within the TTL.      *)
AcceptanceRemembered ==
  \A i \in DOMAIN jobs :
    jobs[i] # NoId =>
      \/ now >= acceptedAt[i] + Ttl
      \/ seen[jobs[i]] # None /\ seen[jobs[i]] >= acceptedAt[i] + Ttl

PoolInv == IInv /\ UnregisteredAfterSupersession

-----------------------------------------------------------------------------
(* The pool within the application.                                        *)

LEMMA ServiceStepIsPoolStep == [ServiceNext]_allVars => [Next]_vars
<1>1. CASE StartUp
  BY <1>1 DEF StartUp, Next
<1>2. CASE PoolStep
  BY <1>2 DEF PoolStep, Next
<1>3. CASE CloseHttp \/ CloseOpenAI \/ UNCHANGED allVars
  BY <1>3 DEF CloseHttp, CloseOpenAI, allVars
<1>4. ASSUME NEW d \in DeliveryId, Deliver(d) PROVE Next
  BY <1>4 DEF Deliver, Next
<1>5. ASSUME NEW w \in Worker, Begin(w) \/ CutOff(w) PROVE Next
  BY <1>5 DEF Begin, CutOff, Next
<1>6. ASSUME NEW w \in Worker, ReviewStep(w) PROVE [Next]_vars
  <2>1. Finish(w) \/ UNCHANGED vars
    BY <1>6 DEF ReviewStep, Open, Answer, Post, Close, GoesOn, Returns
  <2> QED
    BY <2>1 DEF Next
<1> QED
  BY <1>1, <1>2, <1>3, <1>4, <1>5, <1>6 DEF ServiceNext

(* The application runs the pool: with reviews for handlers and the        *)
(* clients around it, every step is a step of the pool or none of its      *)
(* business (lifespan, handle_review).                                     *)
THEOREM ServiceIsPool == ServiceSpec => Spec
<1>1. ServiceInit => Init
  BY DEF ServiceInit
<1> QED
  BY <1>1, ServiceStepIsPoolStep, PTL DEF ServiceSpec, Spec

LEMMA PoolInvariant == ServiceSpec => []PoolInv
<1>1. Spec => []PoolInv
  <2>1. IInv /\ UnregisteredAfterSupersession => PoolInv
    BY DEF PoolInv
  <2> QED
    BY <2>1, Invariance, LossBeginsWithSupersession, PTL
<1> QED
  BY <1>1, ServiceIsPool, PTL

(* What a step of the pool only adds to.                                   *)
LEMMA PoolGrows ==
  ASSUME IInv, [Next]_vars
  PROVE  /\ cancelled \subseteq cancelled'
         /\ handled \subseteq handled' /\ aborted \subseteq aborted'
         /\ HandedOut' \in Nat /\ HandedOut <= HandedOut'
         /\ \A j \in 1..Len(jobs) : jobs'[j] = jobs[j]
<1>1. HandedOut \in Nat /\ Len(jobs) \in Nat /\ Len(queue) \in Nat /\ jobs \in Seq(DeliveryId)
  BY HandedOutType DEF IInv, TypeOK
<1>2. CASE UNCHANGED <<jobs, queue>>
  <2>1. cancelled \subseteq cancelled' /\ handled \subseteq handled' /\ aborted \subseteq aborted'
    BY <1>2 DEF Next, Start, BeginShutdown, JoinDone, DrainTimeout, EndShutdown, Submit, Take, Finish,
         Release, Leave, CancelIdle, CancelReview, PoolTick, Register, Complete, CancelAll, vars,
         poolVars, registryVars
  <2> QED
    BY <1>1, <1>2, <2>1 DEF HandedOut
<1>3. ASSUME NEW d \in DeliveryId, Submit(d), Enqueue(d)
      PROVE  /\ UNCHANGED <<cancelled, handled, aborted>>
             /\ HandedOut' = HandedOut
             /\ \A j \in 1..Len(jobs) : jobs'[j] = jobs[j]
  <2>1. UNCHANGED <<cancelled, handled, aborted>>
    BY <1>3 DEF Submit, registryVars
  <2>2. Len(jobs') = Len(jobs) + 1 /\ \A j \in 1..Len(jobs) : jobs'[j] = jobs[j]
    BY <1>1, <1>3, AppendElements DEF Enqueue
  <2>3. Len(queue') = Len(queue) + 1
    BY <1>1, <1>3, AppendElements DEF Enqueue, IInv, TypeOK
  <2> QED
    BY <1>1, <2>1, <2>2, <2>3 DEF HandedOut
<1>4. ASSUME NEW w \in Worker, Take(w)
      PROVE  /\ UNCHANGED <<jobs, handled, aborted>> /\ cancelled \subseteq cancelled'
             /\ HandedOut' = HandedOut + 1
  <2>1. UNCHANGED <<jobs, handled, aborted>> /\ cancelled \subseteq cancelled' /\ queue' = Tail(queue) /\ queue # <<>>
    BY <1>4 DEF Take, Register
  <2>2. Len(queue') = Len(queue) - 1
    BY <2>1, TailElements DEF IInv, TypeOK
  <2> QED
    BY <1>1, <2>1, <2>2 DEF HandedOut
<1>5. \/ UNCHANGED <<jobs, queue>>
      \/ \E d \in DeliveryId : Submit(d) /\ Enqueue(d)
      \/ \E w \in Worker : Take(w)
  BY DEF Next, Start, BeginShutdown, JoinDone, DrainTimeout, EndShutdown, Submit, Finish, Leave,
         CancelIdle, CancelReview, PoolTick, vars, poolVars
<1> QED
  BY <1>1, <1>2, <1>3, <1>4, <1>5

-----------------------------------------------------------------------------
(* Posts.                                                                  *)

PostInv == NewestHasStarted /\ OvertakersHaveStarted /\ OvertakingNeedsSupersession

(* Steps that post nothing.                                                *)
LEMMA QuietPosts ==
  ASSUME IInv, PostInv, [Next]_vars, UNCHANGED postVars
  PROVE  PostInv'
<1>1. /\ cancelled \subseteq cancelled'
      /\ handled \subseteq handled' /\ aborted \subseteq aborted'
      /\ HandedOut' \in Nat /\ HandedOut <= HandedOut'
      /\ \A j \in 1..Len(jobs) : jobs'[j] = jobs[j]
  BY PoolGrows
<1>2. HandedOut \in 0..Len(jobs) /\ Len(jobs) \in Nat
  BY InHandFacts, HandedOutType DEF IInv
<1>3. \A j \in 1..HandedOut : j \in 1..HandedOut' /\ PrOf[jobs'[j]] = PrOf[jobs[j]]
  BY <1>1, <1>2
<1>4. NewestHasStarted'
  BY <1>3 DEF PostInv, NewestHasStarted, PrOfJob, postVars
<1>5. OvertakersHaveStarted'
  BY <1>3 DEF PostInv, OvertakersHaveStarted, postVars
<1>6. handled \cup aborted \subseteq 1..HandedOut
  BY DEF IInv, EveryJobInOnePlace
<1>7. OvertakingNeedsSupersession'
  BY <1>1, <1>3, <1>6 DEF PostInv, OvertakersHaveStarted, OvertakingNeedsSupersession, PrOfJob, postVars
<1> QED
  BY <1>4, <1>5, <1>7 DEF PostInv

(* The review of a job in hand reaches GitHub.                             *)
LEMMA PostedKeeps ==
  ASSUME TypeOK, newest \in [PullRequest -> Nat], PoolInv, PostInv, [Next]_vars,
         NEW w \in Reviewing, Posted(job[w]),
         HandedOut' = HandedOut, UNCHANGED jobs
  PROVE  PostInv'
<1> DEFINE j == job[w]
           pr == PrOfJob(j)
<1>1. j \in 1..HandedOut /\ pr \in PullRequest
  BY ReviewingJobs DEF PoolInv
<1>2. /\ cancelled \subseteq cancelled'
      /\ handled \subseteq handled' /\ aborted \subseteq aborted'
  BY PoolGrows DEF PoolInv
<1>3. CASE j < newest[pr]
  <2>1. overtook' = overtook \cup {j} /\ newest' = newest
    BY <1>3 DEF Posted
  <2>2. newest[pr] \in (j + 1)..HandedOut /\ PrOfJob(newest[pr]) = pr
    <3>1. newest[pr] # 0 /\ newest[pr] \in Nat
      BY <1>1, <1>3
    <3>2. newest[pr] \in 1..HandedOut /\ PrOfJob(newest[pr]) = pr
      BY <1>1, <3>1 DEF PostInv, NewestHasStarted
    <3> QED
      BY <1>1, <1>3, <3>2
  <2>3. active[pr] # j
    <3>1. j # NoToken
      BY <1>1, RegistryAssumption
    <3> QED
      BY <1>1, <2>2, <3>1 DEF PoolInv, IInv, RegistryHoldsNewest
  <2>4. \/ j \in cancelled
        \/ \E k \in (handled \cup aborted) \cap cancelled : k < j /\ PrOfJob(k) = pr
    BY <2>3 DEF PoolInv, UnregisteredAfterSupersession
  <2>5. OvertakingNeedsSupersession'
    BY <1>2, <2>1, <2>4 DEF PostInv, OvertakingNeedsSupersession, PrOfJob
  <2>6. NewestHasStarted' /\ OvertakersHaveStarted'
    BY <1>1, <2>1 DEF PostInv, NewestHasStarted, OvertakersHaveStarted, PrOfJob
  <2> QED
    BY <2>5, <2>6 DEF PostInv
<1>4. CASE ~(j < newest[pr])
  <2>1. newest' = [newest EXCEPT ![pr] = j] /\ overtook' = overtook
    BY <1>4 DEF Posted
  <2>2. NewestHasStarted'
    BY <1>1, <2>1 DEF PostInv, NewestHasStarted, PrOfJob
  <2>3. OvertakersHaveStarted' /\ OvertakingNeedsSupersession'
    BY <1>2, <2>1 DEF PostInv, OvertakersHaveStarted, OvertakingNeedsSupersession, PrOfJob
  <2> QED
    BY <2>2, <2>3 DEF PostInv
<1> QED
  BY <1>3, <1>4

-----------------------------------------------------------------------------
(* Acceptance.                                                             *)

AcceptInv ==
  /\ acceptedAt \in Seq(Nat) /\ Len(acceptedAt) = Len(jobs)
  /\ AcceptanceRemembered
  /\ AcceptedOncePerTtl

(* A call about another delivery, or about one still remembered, does not  *)
(* make the deduplicator forget.                                           *)
LEMMA CheckRemembers ==
  ASSUME DedupTypeOK, NEW d \in DeliveryId, NEW e \in DeliveryId, NEW t \in Nat,
         Check(d),
         now >= t + Ttl \/ (seen[e] # None /\ seen[e] >= t + Ttl)
  PROVE  now' >= t + Ttl \/ (seen'[e] # None /\ seen'[e] >= t + Ttl)
<1>1. now' = now /\ now \in Nat /\ Ttl \in Nat \ {0} /\ None \notin Nat
  BY DedupAssumption DEF Check, DedupTypeOK
<1>2. CASE now >= t + Ttl
  BY <1>1, <1>2
<1>3. CASE ~(now >= t + Ttl)
  <2>1. seen[e] \in Nat /\ seen[e] >= t + Ttl /\ now < seen[e]
    BY <1>1, <1>3 DEF DedupTypeOK
  <2>2. Kept[e] = seen[e]
    BY <1>1, <2>1 DEF Kept, Live
  <2>3. seen'[e] = seen[e] \/ (e = d /\ seen'[e] = now + Ttl)
    <3>1. Kept \in [DeliveryId -> Nat \cup {None}]
      BY DEF Kept, DedupTypeOK
    <3> QED
      BY <2>2, <3>1 DEF Check
  <2>4. e = d /\ d # NoId => Duplicate(d)
    BY <1>1, <2>1, <2>2 DEF Duplicate
  <2>5. seen'[e] = seen[e]
    BY <2>2, <2>3, <2>4 DEF Check
  <2> QED
    BY <1>1, <2>1, <2>5
<1> QED
  BY <1>2, <1>3

LEMMA DeliverAccepts ==
  ASSUME TypeOK, AcceptInv, NEW d \in DeliveryId, Deliver(d)
  PROVE  AcceptInv'
<1>1. /\ jobs \in Seq(DeliveryId) /\ Len(jobs) \in Nat /\ DOMAIN jobs = 1..Len(jobs)
      /\ DOMAIN acceptedAt = 1..Len(jobs) /\ acceptedAt \in Seq(Nat)
      /\ \A i \in 1..Len(jobs) : acceptedAt[i] \in Nat /\ jobs[i] \in DeliveryId
      /\ now \in Nat /\ now' = now /\ Ttl \in Nat \ {0} /\ None \notin Nat
      /\ DedupTypeOK /\ Check(d)
  BY SeqElements, DedupAssumption DEF TypeOK, DedupTypeOK, AcceptInv, Deliver, Submit, Check
<1>2. \A i \in 1..Len(jobs) : jobs[i] # NoId =>
         \/ now' >= acceptedAt[i] + Ttl
         \/ seen'[jobs[i]] # None /\ seen'[jobs[i]] >= acceptedAt[i] + Ttl
  BY <1>1, CheckRemembers DEF AcceptInv, AcceptanceRemembered
<1>3. acceptedAt' = IF Len(jobs') > Len(jobs) THEN Append(acceptedAt, now) ELSE acceptedAt
  BY DEF Deliver
<1>4. CASE UNCHANGED <<jobs, queue, unfinished>>
  <2>1. acceptedAt' = acceptedAt
    <3>1. jobs' = jobs /\ ~(Len(jobs) > Len(jobs))
      BY <1>1, <1>4
    <3> QED
      BY <1>3, <3>1
  <2> QED
    BY <1>1, <1>2, <1>4, <2>1 DEF AcceptInv, AcceptanceRemembered, AcceptedOncePerTtl
<1>5. CASE Enqueue(d) /\ ~Duplicate(d)
  <2> DEFINE n == Len(jobs)
  <2>1. /\ jobs' = Append(jobs, d)
        /\ Len(jobs') = n + 1 /\ jobs'[n + 1] = d /\ \A i \in 1..n : jobs'[i] = jobs[i]
        /\ jobs' \in Seq(DeliveryId)
    BY <1>1, <1>5, AppendElements DEF Enqueue
  <2>2. acceptedAt' = Append(acceptedAt, now)
    <3>1. Len(jobs') > Len(jobs)
      BY <1>1, <2>1
    <3> QED
      BY <1>3, <3>1
  <2>3. /\ acceptedAt' \in Seq(Nat) /\ Len(acceptedAt') = n + 1
        /\ acceptedAt'[n + 1] = now /\ \A i \in 1..n : acceptedAt'[i] = acceptedAt[i]
    <3>1. Len(acceptedAt) = n
      BY DEF AcceptInv
    <3> QED
      BY <1>1, <2>2, <3>1, AppendElements
  <2>4. DOMAIN jobs' = 1..(n + 1)
    BY <2>1, SeqElements
  <2>5. d # NoId => seen'[d] = now + Ttl
    <3>1. Kept \in [DeliveryId -> Nat \cup {None}]
      BY <1>1 DEF Kept, DedupTypeOK
    <3> QED
      BY <1>1, <1>5, <3>1 DEF Check
  <2>6. AcceptanceRemembered'
    <3>1. ASSUME NEW i \in 1..(n + 1), jobs'[i] # NoId
          PROVE  \/ now' >= acceptedAt'[i] + Ttl
                 \/ seen'[jobs'[i]] # None /\ seen'[jobs'[i]] >= acceptedAt'[i] + Ttl
      <4>1. CASE i \in 1..n
        BY <1>2, <2>1, <2>3, <3>1, <4>1
      <4>2. CASE i = n + 1
        BY <1>1, <2>1, <2>3, <2>5, <3>1, <4>2
      <4> QED
        BY <1>1, <4>1, <4>2
    <3> QED
      BY <2>4, <3>1 DEF AcceptanceRemembered
  <2>7. \A i \in 1..n : jobs[i] = d /\ d # NoId => now - acceptedAt[i] >= Ttl
    <3>1. SUFFICES ASSUME NEW i \in 1..n, jobs[i] = d, d # NoId PROVE now >= acceptedAt[i] + Ttl
      BY <1>1
    <3>2. SUFFICES ASSUME seen[d] # None, seen[d] >= acceptedAt[i] + Ttl, ~(now >= acceptedAt[i] + Ttl)
                   PROVE  FALSE
      BY <1>1, <3>1 DEF AcceptInv, AcceptanceRemembered
    <3>3. seen[d] \in Nat /\ now < seen[d]
      BY <1>1, <3>1, <3>2 DEF DedupTypeOK
    <3>4. Kept[d] = seen[d]
      BY <1>1, <3>3 DEF Kept, Live
    <3> QED
      BY <1>1, <1>5, <3>1, <3>2, <3>3, <3>4 DEF Duplicate
  <2>8. AcceptedOncePerTtl'
    <3>1. ASSUME NEW i \in 1..(n + 1), NEW k \in 1..(n + 1), i < k,
                 jobs'[i] = jobs'[k], jobs'[i] # NoId
          PROVE  acceptedAt'[k] - acceptedAt'[i] >= Ttl
      <4>1. i \in 1..n
        BY <1>1, <3>1
      <4>2. CASE k \in 1..n
        BY <1>1, <2>1, <2>3, <3>1, <4>1, <4>2 DEF AcceptInv, AcceptedOncePerTtl
      <4>3. CASE k = n + 1
        BY <2>1, <2>3, <2>7, <3>1, <4>1, <4>3
      <4> QED
        BY <1>1, <4>2, <4>3
    <3> QED
      BY <2>4, <3>1 DEF AcceptedOncePerTtl
  <2> QED
    BY <2>1, <2>3, <2>6, <2>8 DEF AcceptInv
<1> QED
  BY <1>4, <1>5 DEF Deliver, Submit

(* Time only makes entries run out.                                        *)
LEMMA OthersAccept ==
  ASSUME TypeOK, AcceptInv, UNCHANGED <<jobs, acceptedAt, seen>>, now' \in {now, now + 1}
  PROVE  AcceptInv'
<1>1. /\ DOMAIN jobs = 1..Len(jobs)
      /\ \A i \in 1..Len(jobs) : acceptedAt[i] \in Nat
      /\ now \in Nat /\ Ttl \in Nat
  BY SeqElements, DedupAssumption DEF TypeOK, DedupTypeOK, AcceptInv
<1>2. AcceptanceRemembered'
  BY <1>1 DEF AcceptInv, AcceptanceRemembered
<1> QED
  BY <1>2 DEF AcceptInv, AcceptedOncePerTtl
-----------------------------------------------------------------------------
(* The shape of the state.                                                 *)

ServiceTypes ==
  /\ clients \in {"unbuilt", "absent", "open", "httpClosed", "closed"}
  /\ step \in [Worker -> {"off", "opening", "reviewing", "posting", "closing"}]
  /\ newest \in [PullRequest -> Nat]

StepFollowsPool == \A w \in Worker : step[w] = "off" <=> pc[w] # "review"

Shape == ServiceTypes /\ StepFollowsPool /\ ClientsFollowPool /\ IdleOutsideRun

SInv == Shape /\ PostInv /\ AcceptInv

LEMMA SInvInit == ServiceInit => SInv
<1> SUFFICES ASSUME ServiceInit PROVE SInv
  OBVIOUS
<1>1. Shape
  BY DEF ServiceInit, Init, Shape, ServiceTypes, StepFollowsPool, ClientsFollowPool, IdleOutsideRun,
         Reviewing
<1>2. PostInv
  BY DEF ServiceInit, PostInv, NewestHasStarted, OvertakersHaveStarted, OvertakingNeedsSupersession
<1>3. jobs = <<>> /\ acceptedAt = <<>>
  BY DEF ServiceInit, Init
<1>4. AcceptInv
  BY <1>3 DEF AcceptInv, AcceptanceRemembered, AcceptedOncePerTtl
<1> QED
  BY <1>1, <1>2, <1>4 DEF SInv

(* Posted moves one pull request's record, to a job that is a number.      *)
LEMMA PostedTypes ==
  ASSUME TypeOK, newest \in [PullRequest -> Nat], NEW w \in Worker,
         Posted(job[w]) \/ UNCHANGED postVars
  PROVE  newest' \in [PullRequest -> Nat]
BY DEF TypeOK, Posted, postVars

(* A worker whose handler is under way goes on or stops.                   *)
LEMMA ReviewShape ==
  ASSUME TypeOK, Shape, NEW w \in Worker, ReviewStep(w)
  PROVE  Shape'
<1>1. /\ phase \in {"running", "joining"} /\ pc[w] = "review"
      /\ phase' = phase /\ clients' = clients
      /\ \/ /\ pc' = pc
            /\ \E s \in {"reviewing", "posting", "closing"} : step' = [step EXCEPT ![w] = s]
         \/ /\ \E to \in {"get", "exit"} : pc' = [pc EXCEPT ![w] = to]
            /\ step' = [step EXCEPT ![w] = "off"]
  BY DEF ReviewStep, Open, Answer, Post, Close, At, GoesOn, Becomes, Returns, Finish, LoopHead, vars,
         poolVars
<1>2. newest' \in [PullRequest -> Nat]
  <2>1. Posted(job[w]) \/ UNCHANGED postVars
    BY DEF ReviewStep, Open, Answer, Post, Close
  <2> QED
    BY <2>1, PostedTypes DEF Shape, ServiceTypes
<1>3. ServiceTypes' /\ StepFollowsPool'
  BY <1>1, <1>2 DEF TypeOK, Shape, ServiceTypes, StepFollowsPool
<1>4. ClientsFollowPool' /\ IdleOutsideRun'
  BY <1>1 DEF Shape, ClientsFollowPool, IdleOutsideRun
<1> QED
  BY <1>3, <1>4 DEF Shape

LEMMA ShapeNext == IInv /\ Shape /\ [ServiceNext]_allVars => Shape'
<1> SUFFICES ASSUME IInv, Shape, [ServiceNext]_allVars PROVE Shape'
  OBVIOUS
<1>1. TypeOK /\ NewIsIdle
  BY DEF IInv
<1>2. CASE StartUp
  BY <1>1, <1>2 DEF StartUp, Start, NewIsIdle, Shape, ServiceTypes, StepFollowsPool, ClientsFollowPool,
                    IdleOutsideRun, Reviewing, postVars
<1>3. CASE PoolStep
  <2>1. UNCHANGED <<clients, step, newest>>
    BY <1>3 DEF PoolStep, serviceVars, postVars
  <2>2. /\ phase' = phase \/ (phase # "new" /\ phase # "stopped" /\ phase' # "new")
        /\ phase' = "stopped" => phase = "stopped" \/ \A w \in Worker : pc[w] = "exit"
        /\ pc' = pc \/ \E w \in Worker : pc[w] = "get" /\ pc' = [pc EXCEPT ![w] = "exit"]
    BY <1>3 DEF PoolStep, BeginShutdown, JoinDone, DrainTimeout, EndShutdown, Leave, CancelIdle, PoolTick,
                poolVars
  <2>3. Reviewing' = Reviewing /\ \A w \in Worker : pc'[w] = "review" <=> pc[w] = "review"
    BY <1>1, <2>2 DEF TypeOK, Reviewing
  <2>4. ServiceTypes' /\ StepFollowsPool'
    BY <2>1, <2>3 DEF Shape, ServiceTypes, StepFollowsPool
  <2>5. ClientsFollowPool'
    BY <2>1, <2>2 DEF Shape, ClientsFollowPool
  <2>6. IdleOutsideRun'
    BY <2>2, <2>3 DEF Shape, IdleOutsideRun, Reviewing
  <2> QED
    BY <2>4, <2>5, <2>6 DEF Shape
<1>4. CASE CloseHttp \/ CloseOpenAI
  BY <1>4 DEF CloseHttp, CloseOpenAI, Shape, ServiceTypes, StepFollowsPool, ClientsFollowPool,
              IdleOutsideRun, Reviewing, vars, poolVars, postVars
<1>5. ASSUME NEW d \in DeliveryId, Deliver(d) PROVE Shape'
  BY <1>5 DEF Deliver, Submit, Shape, ServiceTypes, StepFollowsPool, ClientsFollowPool, IdleOutsideRun,
              Reviewing, postVars
<1>6. ASSUME NEW w \in Worker, Begin(w) PROVE Shape'
  BY <1>1, <1>6 DEF Begin, Take, Becomes, TypeOK, Shape, ServiceTypes, StepFollowsPool,
                    ClientsFollowPool, IdleOutsideRun, postVars
<1>7. ASSUME NEW w \in Worker, ReviewStep(w) PROVE Shape'
  BY <1>1, <1>7, ReviewShape
<1>8. ASSUME NEW w \in Worker, CutOff(w) PROVE Shape'
  <2>1. newest' \in [PullRequest -> Nat]
    BY <1>1, <1>8, PostedTypes DEF CutOff, Shape, ServiceTypes
  <2> QED
    BY <1>1, <1>8, <2>1 DEF CutOff, CancelReview, Release, Becomes, TypeOK, Shape, ServiceTypes,
                            StepFollowsPool, ClientsFollowPool, IdleOutsideRun
<1>9. CASE UNCHANGED allVars
  BY <1>9 DEF allVars, serviceVars, Shape, ServiceTypes, StepFollowsPool, ClientsFollowPool,
              IdleOutsideRun, Reviewing, vars, poolVars, postVars
<1> QED
  BY <1>2, <1>3, <1>4, <1>5, <1>6, <1>7, <1>8, <1>9 DEF ServiceNext

-----------------------------------------------------------------------------
(* Every step keeps the invariants about posts and acceptance.             *)

LEMMA PostNext ==
  ASSUME PoolInv, Shape, PostInv, [ServiceNext]_allVars
  PROVE  PostInv'
<1>1. IInv /\ TypeOK /\ newest \in [PullRequest -> Nat] /\ [Next]_vars
  BY ServiceStepIsPoolStep DEF PoolInv, IInv, Shape, ServiceTypes
<1>2. CASE UNCHANGED postVars
  BY <1>1, <1>2, QuietPosts
<1>3. ASSUME NEW w \in Worker, Post(w) \/ CutOff(w), Posted(job[w]) PROVE PostInv'
  <2>1. w \in Reviewing /\ UNCHANGED <<jobs, queue>>
    BY <1>3 DEF Post, CutOff, At, GoesOn, Returns, Finish, CancelReview, Release, Reviewing, vars, poolVars
  <2>2. HandedOut' = HandedOut
    BY <2>1 DEF HandedOut
  <2> QED
    BY <1>1, <1>3, <2>1, <2>2, PostedKeeps
<1>4. \/ UNCHANGED postVars
      \/ \E w \in Worker : (Post(w) \/ CutOff(w)) /\ Posted(job[w])
  BY DEF ServiceNext, StartUp, PoolStep, CloseHttp, CloseOpenAI, Deliver, Begin, ReviewStep, Open, Answer,
         Post, Close, CutOff, allVars, serviceVars, postVars
<1> QED
  BY <1>2, <1>3, <1>4

LEMMA AcceptNext ==
  ASSUME TypeOK, AcceptInv, [ServiceNext]_allVars
  PROVE  AcceptInv'
<1>1. ASSUME NEW d \in DeliveryId, Deliver(d) PROVE AcceptInv'
  BY <1>1, DeliverAccepts
<1>2. CASE UNCHANGED <<jobs, acceptedAt, seen>> /\ now' \in {now, now + 1}
  BY <1>2, OthersAccept
<1>3. CASE StartUp \/ CloseHttp \/ CloseOpenAI \/ UNCHANGED allVars
  BY <1>2, <1>3 DEF StartUp, Start, CloseHttp, CloseOpenAI, allVars, serviceVars, vars, poolVars, dedupVars
<1>4. CASE PoolStep
  BY <1>2, <1>4 DEF PoolStep, BeginShutdown, JoinDone, DrainTimeout, EndShutdown, Leave, CancelIdle,
                    PoolTick, Tick, serviceVars, poolVars, dedupVars
<1>5. ASSUME NEW w \in Worker, Begin(w) \/ CutOff(w) \/ ReviewStep(w) PROVE AcceptInv'
  <2>1. acceptedAt' = acceptedAt /\ (Take(w) \/ Finish(w) \/ CancelReview(w) \/ UNCHANGED vars)
    BY <1>5 DEF Begin, CutOff, ReviewStep, Open, Answer, Post, Close, GoesOn, Returns
  <2>2. UNCHANGED <<jobs, seen, now>>
    BY <2>1 DEF Take, Finish, CancelReview, vars, poolVars, dedupVars
  <2> QED
    BY <1>2, <2>1, <2>2
<1> QED
  BY <1>1, <1>3, <1>4, <1>5 DEF ServiceNext

(* The reviews in hand, the clients, the posts and the acceptances agree   *)
(* with the pool at every step (lifespan, _worker_loop).                   *)
THEOREM ServiceInvariance == ServiceSpec => []SInv
<1>1. SInv /\ PoolInv /\ [ServiceNext]_allVars => SInv'
  BY ShapeNext, PostNext, AcceptNext DEF SInv, PoolInv, IInv
<1> QED
  BY <1>1, SInvInit, PoolInvariant, PTL DEF ServiceSpec

-----------------------------------------------------------------------------
(* What the runs check.                                                    *)

(* The variables of the application have their types, and the reviews go   *)
(* on exactly where the pool has a handler under way.                      *)
THEOREM ServiceTypeCorrect == ServiceSpec => []ServiceTypeOK
<1>1. SInv /\ PoolInv => ServiceTypeOK
  <2> SUFFICES ASSUME SInv, PoolInv PROVE ServiceTypeOK
    OBVIOUS
  <2>1. overtook \subseteq 1..Len(jobs)
    BY InHandFacts, HandedOutType DEF SInv, PoolInv, IInv, PostInv, OvertakersHaveStarted
  <2> QED
    BY <2>1 DEF ServiceTypeOK, SInv, Shape, ServiceTypes, StepFollowsPool, AcceptInv
<1> QED
  BY <1>1, ServiceInvariance, PoolInvariant, PTL

(* A review that posts after a newer one of its pull request had been      *)
(* cancelled before it could know, or had lost its registration to the end *)
(* of a superseded one (register, complete, post_review).                  *)
THEOREM LastWordIsNewest == ServiceSpec => []OvertakingNeedsSupersession
<1>1. SInv => OvertakingNeedsSupersession
  BY DEF SInv, PostInv
<1> QED
  BY <1>1, ServiceInvariance, PTL

(* The clients are open, or absent, as long as any handler runs (lifespan).*)
THEOREM ClientsLast == ServiceSpec => []ClientsOutliveReviews
<1>1. SInv => ClientsOutliveReviews
  BY DEF SInv, Shape, ServiceTypes, ClientsFollowPool, IdleOutsideRun, ClientsOutliveReviews
<1> QED
  BY <1>1, ServiceInvariance, PTL

(* No delivery is accepted twice within the TTL (submit, is_duplicate).    *)
THEOREM OncePerTtl == ServiceSpec => []AcceptedOncePerTtl
<1>1. SInv => AcceptedOncePerTtl
  BY DEF SInv, AcceptInv
<1> QED
  BY <1>1, ServiceInvariance, PTL

-----------------------------------------------------------------------------
(* The application and the contract of its reviews.  A review in the hands *)
(* of a worker is where the service has it, and over when it has returned. *)
Stage(w) == IF step[w] = "off" THEN "over" ELSE step[w]

Handler(w) == INSTANCE ReviewContract WITH phase <- Stage(w)

(* A step of the review of worker w as the pool and GitHub see it: it goes *)
(* on while no worker is being cancelled and there are clients to go on    *)
(* with; when it is over the handler returns to the pool or, cancelled,    *)
(* raises; and what it says reaches GitHub.                                *)
HandlerStep(w) ==
  /\ Handler(w)!Next
  /\ \E s \in {"off", "opening", "reviewing", "posting", "closing"} :
       /\ Becomes(w, s)
       /\ \/ s = step[w] /\ UNCHANGED vars
          \/ /\ s \notin {step[w], "off"} /\ UNCHANGED vars
             /\ phase \in {"running", "joining"} /\ clients = "open"
          \/ s = "off" /\ (Finish(w) \/ CancelReview(w))
  /\ IF says' = says THEN UNCHANGED postVars ELSE Posted(job[w])
  /\ UNCHANGED <<clients, acceptedAt>>

(* Whatever a review does that keeps its contract (as ReviewPipeline does: *)
(* PipelineProofs!RefinesContract), the service is a model of it: joined   *)
(* with the pool, its step is one of the service's own, or changes nothing *)
(* that the service has (handle_review, _worker_loop).                     *)
THEOREM HandlersFit ==
  ASSUME NEW w \in Worker, SInv, pc[w] = "review", HandlerStep(w)
  PROVE  ServiceNext \/ UNCHANGED allVars
<1>1. step \in [Worker -> {"off", "opening", "reviewing", "posting", "closing"}] /\ step[w] # "off"
  BY DEF SInv, Shape, ServiceTypes, StepFollowsPool
<1>2. PICK s \in {"off", "opening", "reviewing", "posting", "closing"} :
        /\ Becomes(w, s)
        /\ \/ s = step[w] /\ UNCHANGED vars
           \/ /\ s \notin {step[w], "off"} /\ UNCHANGED vars
              /\ phase \in {"running", "joining"} /\ clients = "open"
           \/ s = "off" /\ (Finish(w) \/ CancelReview(w))
  BY DEF HandlerStep
<1>3. /\ step'[w] = s
      /\ IF says' = says THEN UNCHANGED postVars ELSE Posted(job[w])
      /\ UNCHANGED <<clients, acceptedAt>>
      /\ Handler(w)!Next
  BY <1>1, <1>2 DEF HandlerStep, Becomes
<1>4. Stage(w) = step[w] /\ Stage(w)' = IF s = "off" THEN "over" ELSE s
  BY <1>1, <1>3 DEF Stage
(* What the contract leaves of the ways a step can go.                     *)
<1>5. \/ s = step[w] /\ says' = says
      \/ step[w] = "opening" /\ s \in {"reviewing", "posting", "closing", "off"} /\ says' = says
      \/ step[w] = "reviewing" /\ s \in {"posting", "closing", "off"} /\ says' = says
      \/ step[w] = "posting" /\ s \in {"closing", "off"}
      \/ step[w] = "closing" /\ s = "off" /\ says' = says
  <2>1. CASE Handler(w)!Supersede \/ Handler(w)!Ask
    BY <1>1, <1>4, <2>1 DEF Handler!Supersede, Handler!Ask
  <2>2. CASE Handler(w)!Open
    BY <1>1, <1>4, <2>2 DEF Handler!Open
  <2>3. CASE Handler(w)!Answer
    BY <1>1, <1>4, <2>3 DEF Handler!Answer
  <2>4. CASE Handler(w)!Post
    BY <1>1, <1>4, <2>4 DEF Handler!Post
  <2>5. CASE Handler(w)!Close
    BY <1>1, <1>4, <2>5 DEF Handler!Close
  <2> QED
    BY <1>3, <2>1, <2>2, <2>3, <2>4, <2>5 DEF Handler!Next
<1>6. CASE s = step[w]
  <2>1. step' = step /\ UNCHANGED <<vars, postVars>>
    BY <1>1, <1>2, <1>3, <1>5, <1>6 DEF Becomes
  <2> QED
    BY <1>3, <2>1 DEF allVars, serviceVars, postVars
<1>7. CASE s \notin {step[w], "off"}
  <2>1. At(w, step[w]) /\ GoesOn(w, s)
    BY <1>2, <1>7 DEF At, GoesOn
  <2>2. ReviewStep(w)
    BY <1>2, <1>3, <1>5, <1>7, <2>1 DEF ReviewStep, Open, Answer, Post, Close
  <2> QED
    BY <2>2 DEF ServiceNext
<1>8. CASE s = "off" /\ Finish(w)
  <2>1. At(w, step[w]) /\ Returns(w)
    BY <1>2, <1>8 DEF At, Returns, Finish
  <2>2. ReviewStep(w)
    BY <1>1, <1>3, <1>5, <1>8, <2>1 DEF ReviewStep, Open, Answer, Post, Close
  <2> QED
    BY <2>2 DEF ServiceNext
<1>9. CASE s = "off" /\ CancelReview(w)
  <2>1. CutOff(w)
    BY <1>1, <1>2, <1>3, <1>5, <1>9 DEF CutOff
  <2> QED
    BY <2>1 DEF ServiceNext
<1> QED
  BY <1>1, <1>2, <1>6, <1>7, <1>8, <1>9
=============================================================================
