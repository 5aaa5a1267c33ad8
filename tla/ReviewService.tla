--------------------------- MODULE ReviewService ---------------------------
(***************************************************************************)
(* The application while it runs (src/reviewer/main.py): the worker pool   *)
(* with handle_review as its handler, which reviews an event as            *)
(* ReviewContract says, and the clients of GitHub and of the model, made   *)
(* before the pool and closed after it.                                    *)
(*                                                                         *)
(* Here meet the order in which the pool starts and cancels reviews and    *)
(* the order in which their posts reach GitHub.  The last call of a review *)
(* and the end of its handler are one step, as nothing is awaited between. *)
(***************************************************************************)
EXTENDS WorkerPool

VARIABLES
  clients,      (* the clients of lifespan(), if a provider is configured    *)
  step,         (* how far each worker's review has got                      *)
  newest,       (* history: the newest review posted for each pull request   *)
  overtook,     (* history: reviews posted after a newer one of their own    *)
  acceptedAt    (* history: when each job was accepted                       *)

postVars == <<newest, overtook>>
serviceVars == <<clients, step, newest, overtook, acceptedAt>>
allVars == <<vars, serviceVars>>

ServiceInit ==
  /\ Init
  /\ clients = "unbuilt"
  /\ step = [w \in Worker |-> "off"]
  /\ newest = [pr \in PullRequest |-> 0]
  /\ overtook = {}
  /\ acceptedAt = <<>>

(* lifespan(), up to its yield: build the providers, or find that none is  *)
(* configured, and start the pool.                                         *)
StartUp ==
  /\ Start
  /\ clients' \in {"open", "absent"}
  /\ UNCHANGED <<step, postVars, acceptedAt>>

Deliver(d) ==
  /\ Submit(d)
  /\ acceptedAt' = IF Len(jobs') > Len(jobs) THEN Append(acceptedAt, now) ELSE acceptedAt
  /\ UNCHANGED <<clients, step, postVars>>

At(w, s) == phase \in {"running", "joining"} /\ pc[w] = "review" /\ step[w] = s
Becomes(w, s) == step' = [step EXCEPT ![w] = s]

GoesOn(w, s) == Becomes(w, s) /\ UNCHANGED vars
Returns(w) == Finish(w) /\ Becomes(w, "off")

Begin(w) ==
  /\ Take(w)
  /\ Becomes(w, "opening")
  /\ UNCHANGED <<clients, postVars, acceptedAt>>

(* Without providers handle_review returns at once.                        *)
Open(w) ==
  /\ At(w, "opening")
  /\ \/ clients = "open" /\ \E s \in {"reviewing", "posting", "closing"} : GoesOn(w, s)
     \/ Returns(w)
  /\ UNCHANGED <<clients, postVars, acceptedAt>>

Answer(w) ==
  /\ At(w, "reviewing")
  /\ \/ \E s \in {"posting", "closing"} : GoesOn(w, s)
     \/ Returns(w)
  /\ UNCHANGED <<clients, postVars, acceptedAt>>

(* The review of job j reaches GitHub.                                     *)
Posted(j) ==
  LET pr == PrOfJob(j)
  IN  IF j < newest[pr]
      THEN overtook' = overtook \cup {j} /\ UNCHANGED newest
      ELSE newest' = [newest EXCEPT ![pr] = j] /\ UNCHANGED overtook

Post(w) ==
  /\ At(w, "posting")
  /\ GoesOn(w, "closing") \/ Returns(w)
  /\ Posted(job[w]) \/ UNCHANGED postVars
  /\ UNCHANGED <<clients, acceptedAt>>

Close(w) ==
  /\ At(w, "closing")
  /\ Returns(w)
  /\ UNCHANGED <<clients, postVars, acceptedAt>>

(* The worker's task is cancelled; a post under way may have been done.    *)
CutOff(w) ==
  /\ CancelReview(w)
  /\ Becomes(w, "off")
  /\ (step[w] = "posting" /\ Posted(job[w])) \/ UNCHANGED postVars
  /\ UNCHANGED <<clients, acceptedAt>>

(* The steps of the pool that the reviews have no part in.                 *)
PoolStep ==
  /\ \/ BeginShutdown \/ JoinDone \/ DrainTimeout \/ EndShutdown
     \/ \E w \in Worker : Leave(w) \/ CancelIdle(w)
     \/ PoolTick
  /\ UNCHANGED serviceVars

(* A faulty end: the clients are closed while workers are being cancelled. *)
CloseHttpEarly ==
  /\ phase \in {"cancelling", "stopped"} /\ clients = "open"
  /\ clients' = "httpClosed"
  /\ UNCHANGED <<vars, step, postVars, acceptedAt>>

(* lifespan() after shutdown() has returned: one client, then the other.   *)
CloseHttp ==
  /\ phase = "stopped" /\ clients = "open"
  /\ clients' = "httpClosed"
  /\ UNCHANGED <<vars, step, postVars, acceptedAt>>

CloseOpenAI ==
  /\ clients = "httpClosed"
  /\ clients' = "closed"
  /\ UNCHANGED <<vars, step, postVars, acceptedAt>>

ReviewStep(w) == Open(w) \/ Answer(w) \/ Post(w) \/ Close(w)

ServiceNext ==
  \/ StartUp \/ PoolStep \/ CloseHttp \/ CloseOpenAI
  \/ \E d \in DeliveryId : Deliver(d)
  \/ \E w \in Worker : Begin(w) \/ ReviewStep(w) \/ CutOff(w)

ServiceSpec == ServiceInit /\ [][ServiceNext]_allVars

-----------------------------------------------------------------------------
ServiceTypeOK ==
  /\ clients \in {"unbuilt", "absent", "open", "httpClosed", "closed"}
  /\ step \in [Worker -> {"off", "opening", "reviewing", "posting", "closing"}]
  /\ \A w \in Worker : step[w] = "off" <=> pc[w] # "review"
  /\ newest \in [PullRequest -> Nat]
  /\ overtook \subseteq 1..Len(jobs)
  /\ acceptedAt \in Seq(Nat) /\ Len(acceptedAt) = Len(jobs)

(* The review that GitHub got last is the newest one posted, unless the    *)
(* older had been superseded, too late to stop its post, or an older one   *)
(* still had been superseded and, by its end, taken the registration from  *)
(* under it (register, complete, post_review).                             *)
OvertakingNeedsSupersession ==
  \A j \in overtook :
    \/ j \in cancelled
    \/ \E k \in (handled \cup aborted) \cap cancelled :
         k < j /\ PrOfJob(k) = PrOfJob(j)

(* No handler ever runs with a client that is closed or not yet made       *)
(* (lifespan).  Agents left behind by a gather are not in a handler any    *)
(* more and may: see ReviewPipeline.                                       *)
ClientsOutliveReviews == Reviewing # {} => clients \in {"open", "absent"}

(* A delivery is accepted again only when its time in the deduplicator has *)
(* run out; so if it is ever reviewed beside itself, its first review has  *)
(* waited and run for all of the TTL (submit, is_duplicate).               *)
AcceptedOncePerTtl ==
  \A i, k \in DOMAIN jobs :
    (i < k /\ jobs[i] = jobs[k] /\ jobs[i] # NoId) => acceptedAt[k] - acceptedAt[i] >= Ttl
=============================================================================
