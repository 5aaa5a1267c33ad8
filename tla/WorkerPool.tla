----------------------------- MODULE WorkerPool -----------------------------
(***************************************************************************)
(* The bounded worker pool (src/reviewer/queue/worker.py) with the         *)
(* deduplicator and the cancellation registry it owns.                     *)
(*                                                                         *)
(* Everything runs on one asyncio event loop, so a step of the model is    *)
(* the code between two awaits.  The handler is opaque here: a worker is   *)
(* in "review" from the moment it has taken an event until the handler     *)
(* returns, raises, or is cancelled.  A job is one accepted event, numbered*)
(* in order of acceptance; a redelivery accepted later is another job.     *)
(*                                                                         *)
(* Time enters twice: the clock of the deduplicator, and the drain timeout *)
(* of shutdown, which may fire at any moment while the queue is joined.    *)
(***************************************************************************)
EXTENDS Deduplicator, CancellationRegistry, Sequences, FiniteSets

CONSTANTS
  Worker,          (* range(worker_count)                                    *)
  QueueCapacity,   (* queue_capacity                                         *)
  PrOf,            (* the pull request each delivery is about                *)
  MaxJobs          (* bound of the model on accepted events                  *)

ASSUME PoolAssumption ==
  /\ IsFiniteSet(Worker) /\ Worker # {}
  /\ QueueCapacity \in Nat \ {0}
  /\ PrOf \in [DeliveryId -> PullRequest]
  /\ MaxJobs \in Nat

VARIABLES
  phase,        (* how far start() and shutdown() have got                   *)
  jobs,         (* history: the accepted deliveries, in order                *)
  queue,        (* _queue: the jobs waiting                                  *)
  unfinished,   (* _queue's count of gets not yet matched by task_done       *)
  pc,           (* where each worker's loop is suspended                     *)
  job,          (* the job each worker is reviewing                          *)
  handled,      (* history: jobs whose handler returned or raised            *)
  aborted,      (* history: jobs whose handler was cancelled                 *)
  timedOut      (* shutdown stopped waiting for the queue to drain           *)

poolVars == <<phase, jobs, queue, unfinished, pc, job, handled, aborted, timedOut>>
vars == <<poolVars, dedupVars, registryVars>>

PrOfJob(j) == PrOf[jobs[j]]
Reviewing == {w \in Worker : pc[w] = "review"}
InHand == {job[w] : w \in Reviewing}
HandedOut == Len(jobs) - Len(queue)

Init ==
  /\ DedupInit
  /\ RegistryInit
  /\ phase = "new"
  /\ jobs = <<>>
  /\ queue = <<>>
  /\ unfinished = 0
  /\ pc = [w \in Worker |-> "none"]
  /\ job = [w \in Worker |-> 0]
  /\ handled = {}
  /\ aborted = {}
  /\ timedOut = FALSE

(* start(): _running becomes true and the workers wait for an event.  (A   *)
(* task that has not run yet behaves as one that waits.)                   *)
Start ==
  /\ phase = "new"
  /\ phase' = "running"
  /\ pc' = [w \in Worker |-> "get"]
  /\ UNCHANGED <<jobs, queue, unfinished, job, handled, aborted, timedOut>>
  /\ UNCHANGED <<dedupVars, registryVars>>

(* put_nowait of a new job.                                                *)
Enqueue(d) ==
  /\ jobs' = Append(jobs, d)
  /\ queue' = Append(queue, Len(jobs) + 1)
  /\ unfinished' = unfinished + 1

(* A faulty submit: the bound of the queue is off by one.                  *)
SubmitOverfills(d) ==
  /\ phase = "running"
  /\ Len(jobs) < MaxJobs
  /\ Check(d)
  /\ IF Duplicate(d) \/ Len(queue) > QueueCapacity
     THEN UNCHANGED <<jobs, queue, unfinished>>
     ELSE Enqueue(d)
  /\ UNCHANGED <<phase, pc, job, handled, aborted, timedOut, registryVars>>

(* Another: the deduplicator is asked and not told.                        *)
SubmitUnrecorded(d) ==
  /\ phase = "running"
  /\ Len(jobs) < MaxJobs
  /\ IF Duplicate(d) \/ Len(queue) >= QueueCapacity
     THEN UNCHANGED <<jobs, queue, unfinished>>
     ELSE Enqueue(d)
  /\ UNCHANGED <<phase, pc, job, handled, aborted, timedOut, dedupVars, registryVars>>

(* submit() of a running pool: ask the deduplicator, which remembers the   *)
(* id; refuse a duplicate; refuse when the queue is full; else enqueue.    *)
(* (A pool that is not running raises QueueError and changes nothing.)     *)
Submit(d) ==
  /\ phase = "running"
  /\ Len(jobs) < MaxJobs
  /\ Check(d)
  /\ IF Duplicate(d) \/ Len(queue) >= QueueCapacity
     THEN UNCHANGED <<jobs, queue, unfinished>>
     ELSE Enqueue(d)
  /\ UNCHANGED <<phase, pc, job, handled, aborted, timedOut, registryVars>>

(* A faulty get: the newest job first.                                     *)
TakeNewest(w) ==
  /\ phase \in {"running", "joining"}
  /\ pc[w] = "get"
  /\ queue # <<>>
  /\ queue' = SubSeq(queue, 1, Len(queue) - 1)
  /\ job' = [job EXCEPT ![w] = queue[Len(queue)]]
  /\ pc' = [pc EXCEPT ![w] = "review"]
  /\ Register(PrOfJob(queue[Len(queue)]), queue[Len(queue)])
  /\ UNCHANGED <<phase, jobs, unfinished, handled, aborted, timedOut, dedupVars>>

(* A worker is woken in queue.get(): it takes the oldest job, registers    *)
(* its review, which cancels the one registered for the same pull request, *)
(* and calls the handler.                                                  *)
Take(w) ==
  /\ phase \in {"running", "joining"}
  /\ pc[w] = "get"
  /\ queue # <<>>
  /\ queue' = Tail(queue)
  /\ job' = [job EXCEPT ![w] = Head(queue)]
  /\ pc' = [pc EXCEPT ![w] = "review"]
  /\ Register(PrOfJob(Head(queue)), Head(queue))
  /\ UNCHANGED <<phase, jobs, unfinished, handled, aborted, timedOut, dedupVars>>

(* The finally clause: the review leaves the registry, task_done().        *)
Release(w) ==
  /\ pc[w] = "review"
  /\ Complete(PrOfJob(job[w]))
  /\ unfinished' = unfinished - 1
  /\ job' = [job EXCEPT ![w] = 0]

(* The loop condition of _worker_loop: where a worker goes next.           *)
LoopHead == IF phase = "running" \/ queue # <<>> THEN "get" ELSE "exit"

(* A faulty loop: an exception of the handler ends the worker.             *)
FinishDies(w) ==
  /\ phase \in {"running", "joining"}
  /\ Release(w)
  /\ pc' = [pc EXCEPT ![w] = "exit"]
  /\ handled' = handled \cup {job[w]}
  /\ UNCHANGED <<phase, jobs, queue, aborted, timedOut, dedupVars>>

(* The handler returns, or raises an exception, which is logged: either    *)
(* way the worker goes round its loop.                                     *)
Finish(w) ==
  /\ phase \in {"running", "joining"}
  /\ Release(w)
  /\ pc' = [pc EXCEPT ![w] = LoopHead]
  /\ handled' = handled \cup {job[w]}
  /\ UNCHANGED <<phase, jobs, queue, aborted, timedOut, dedupVars>>

(* queue.get() times out after its second and the loop condition is false: *)
(* the pool is shutting down and nothing waits.  (While it runs, or while  *)
(* something waits, the timeout only goes round the loop.)                 *)
Leave(w) ==
  /\ pc[w] = "get"
  /\ phase = "joining"
  /\ LoopHead = "exit"
  /\ pc' = [pc EXCEPT ![w] = "exit"]
  /\ UNCHANGED <<phase, jobs, queue, unfinished, job, handled, aborted, timedOut>>
  /\ UNCHANGED <<dedupVars, registryVars>>

(* shutdown(), up to the join of the queue: no more submissions, every     *)
(* registered review is cancelled.                                         *)
BeginShutdown ==
  /\ phase = "running"
  /\ phase' = "joining"
  /\ CancelAll
  /\ UNCHANGED <<jobs, queue, unfinished, pc, job, handled, aborted, timedOut, dedupVars>>

(* A faulty wait: an empty queue is taken for a drained one.               *)
JoinWhenEmpty ==
  /\ phase = "joining"
  /\ queue = <<>>
  /\ phase' = "cancelling"
  /\ UNCHANGED <<jobs, queue, unfinished, pc, job, handled, aborted, timedOut>>
  /\ UNCHANGED <<dedupVars, registryVars>>

(* queue.join() returns; every worker task is told to cancel.              *)
JoinDone ==
  /\ phase = "joining"
  /\ unfinished = 0
  /\ phase' = "cancelling"
  /\ UNCHANGED <<jobs, queue, unfinished, pc, job, handled, aborted, timedOut>>
  /\ UNCHANGED <<dedupVars, registryVars>>

(* The drain timeout fires first; every worker task is told to cancel.     *)
DrainTimeout ==
  /\ phase = "joining"
  /\ phase' = "cancelling"
  /\ timedOut' = TRUE
  /\ UNCHANGED <<jobs, queue, unfinished, pc, job, handled, aborted>>
  /\ UNCHANGED <<dedupVars, registryVars>>

(* A faulty loop: CancelledError in queue.get() goes round the loop.       *)
CancelIdleSwallowed(w) ==
  /\ phase = "cancelling"
  /\ pc[w] = "get"
  /\ UNCHANGED vars

(* CancelledError reaches a worker waiting for an event.                   *)
CancelIdle(w) ==
  /\ phase = "cancelling"
  /\ pc[w] = "get"
  /\ pc' = [pc EXCEPT ![w] = "exit"]
  /\ UNCHANGED <<phase, jobs, queue, unfinished, job, handled, aborted, timedOut>>
  /\ UNCHANGED <<dedupVars, registryVars>>

(* A faulty loop: task_done() only after a handler that ends by itself.    *)
CancelReviewUncounted(w) ==
  /\ phase = "cancelling"
  /\ pc[w] = "review"
  /\ Complete(PrOfJob(job[w]))
  /\ job' = [job EXCEPT ![w] = 0]
  /\ pc' = [pc EXCEPT ![w] = "exit"]
  /\ aborted' = aborted \cup {job[w]}
  /\ UNCHANGED <<phase, jobs, queue, unfinished, handled, timedOut, dedupVars>>

(* CancelledError reaches a handler: the review is abandoned where it was. *)
CancelReview(w) ==
  /\ phase = "cancelling"
  /\ Release(w)
  /\ pc' = [pc EXCEPT ![w] = "exit"]
  /\ aborted' = aborted \cup {job[w]}
  /\ UNCHANGED <<phase, jobs, queue, handled, timedOut, dedupVars>>

(* gather() of the workers returns and shutdown() ends.                    *)
EndShutdown ==
  /\ phase = "cancelling"
  /\ \A w \in Worker : pc[w] = "exit"
  /\ phase' = "stopped"
  /\ UNCHANGED <<jobs, queue, unfinished, pc, job, handled, aborted, timedOut>>
  /\ UNCHANGED <<dedupVars, registryVars>>

PoolTick == Tick /\ UNCHANGED <<poolVars, registryVars>>

Next ==
  \/ Start \/ BeginShutdown \/ JoinDone \/ DrainTimeout \/ EndShutdown
  \/ \E d \in DeliveryId : Submit(d)
  \/ \E w \in Worker : Take(w) \/ Finish(w) \/ Leave(w) \/ CancelIdle(w) \/ CancelReview(w)
  \/ PoolTick

(* The event loop runs every ready task, a handler ends (its calls have    *)
(* timeouts and its loops are bounded), and the drain timeout is a timer.  *)
(* Nothing obliges a webhook or a shutdown to come.                        *)
Fairness ==
  /\ \A w \in Worker : /\ WF_vars(Take(w))
                       /\ WF_vars(Finish(w))
                       /\ WF_vars(CancelIdle(w) \/ CancelReview(w))
  /\ WF_vars(JoinDone)
  /\ WF_vars(DrainTimeout)
  /\ WF_vars(EndShutdown)

Spec == Init /\ [][Next]_vars
FairSpec == Spec /\ Fairness

-----------------------------------------------------------------------------
TypeOK ==
  /\ DedupTypeOK
  /\ RegistryTypeOK
  /\ phase \in {"new", "running", "joining", "cancelling", "stopped"}
  /\ jobs \in Seq(DeliveryId)
  /\ queue \in Seq(Nat \ {0})
  /\ unfinished \in Nat
  /\ pc \in [Worker -> {"none", "get", "review", "exit"}]
  /\ job \in [Worker -> Nat]
  /\ handled \subseteq Nat \ {0}
  /\ aborted \subseteq Nat \ {0}
  /\ timedOut \in BOOLEAN

(* queue.join() can be trusted: the count of unfinished tasks is the       *)
(* number of events waiting plus the number being reviewed, through every  *)
(* path out of the loop body of _worker_loop.                              *)
JoinCountsOpenWork == unfinished = Len(queue) + Cardinality(Reviewing)

(* Conservation: the jobs not yet handed out wait in order, and every job  *)
(* handed out is in exactly one place: in the hands of exactly one worker, *)
(* handled, or aborted by shutdown.  None is lost and none is run twice.   *)
EveryJobInOnePlace ==
  /\ Len(queue) <= Len(jobs)
  /\ \A i \in DOMAIN queue : queue[i] = HandedOut + i
  /\ InHand \cup handled \cup aborted = 1..HandedOut
  /\ handled \cap aborted = {}
  /\ InHand \cap (handled \cup aborted) = {}
  /\ \A v, w \in Reviewing : job[v] = job[w] => v = w

(* A registered token belongs to a review in progress of that pull request *)
(* that is the newest one started for it and has not been cancelled: no    *)
(* token leaks, and is_cancelled never speaks of a review that has ended.  *)
RegistryHoldsNewest ==
  \A pr \in PullRequest : active[pr] # NoToken =>
    /\ active[pr] \in InHand
    /\ active[pr] \notin cancelled
    /\ PrOfJob(active[pr]) = pr
    /\ \A j \in (active[pr] + 1)..HandedOut : PrOfJob(j) # pr

(* No review is cancelled without cause: only a newer event taken for the  *)
(* same pull request, or shutdown, sets its token.                         *)
CancelledOnlyForCause ==
  \A j \in cancelled :
    \/ phase \notin {"new", "running"}
    \/ \E k \in (j + 1)..HandedOut : PrOfJob(k) = PrOfJob(j)

(* A review loses its registration without being cancelled only if it was  *)
(* taken away by the end of another: an older review of the same pull      *)
(* request that had itself been cancelled, or that had lost its own in the *)
(* same way.  So the damage always begins with a superseded review that    *)
(* has ended (register, complete).                                         *)
UnregisteredAfterSupersession ==
  \A w \in Reviewing :
    (active[PrOfJob(job[w])] # job[w] /\ job[w] \notin cancelled) =>
      \E k \in (handled \cup aborted) \cap cancelled :
        k < job[w] /\ PrOfJob(k) = PrOfJob(job[w])

(* A shutdown that does not time out has handled every accepted event:     *)
(* nothing is left in the queue and no handler was cut off.                *)
DrainLosesNothing ==
  (phase \in {"cancelling", "stopped"} /\ ~timedOut) => handled = 1..Len(jobs)

(* Every accepted event is reviewed to its end, unless a shutdown times    *)
(* out; in particular a failing review never costs the pool a worker.      *)
EveryJobEnds ==
  \A j \in 1..MaxJobs :
    (j <= Len(jobs)) ~> (j \in handled \/ (timedOut /\ phase = "stopped"))

(* A shutdown once begun ends.                                             *)
ShutdownEnds == (phase = "joining") ~> (phase = "stopped")

(* The pool is a bounded first-in first-out job board.                     *)
Board == INSTANCE JobBoard WITH
  Capacity <- QueueCapacity,
  Width <- Cardinality(Worker),
  open <- phase = "running",
  gaveUp <- phase \in {"cancelling", "stopped"},
  accepted <- Len(jobs),
  handedOut <- HandedOut,
  inHand <- InHand,
  done <- handled

ImplementsJobBoard == Board!Spec

-----------------------------------------------------------------------------
(* What the documentation says and the code does not do.                   *)

(* cancel.py: each pull request has at most one active review; a new one   *)
(* cancels any previous one.                                               *)
AtMostOneActiveReview ==
  \A v, w \in Reviewing :
    (v # w /\ PrOfJob(job[v]) = PrOfJob(job[w])) =>
      job[v] \in cancelled \/ job[w] \in cancelled

(* dedup.py: what is refused as a duplicate has been processed, that is,   *)
(* had been accepted.                                                      *)
DuplicateWasAccepted ==
  \A d \in DeliveryId : Duplicate(d) => \E j \in DOMAIN jobs : jobs[j] = d
=============================================================================
