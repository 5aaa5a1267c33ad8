------------------------------ MODULE Gateway ------------------------------
(***************************************************************************)
(* A request's way through the middleware of src/reviewer/main.py          *)
(* (signature, rate limit, logging) to the route and back, several at a    *)
(* time.  Each layer is a coroutine that awaits the next one, so a step is *)
(* what one layer does, and the layers of two requests interleave.         *)
(*                                                                         *)
(* The pool behind the route is its environment (WorkerPool models it):    *)
(* its queue has room or has not, and it forgets a delivery after its TTL. *)
(* The server drains its requests before it stops the pool, so submit()    *)
(* never finds it stopped.                                                 *)
(***************************************************************************)
EXTENDS RateLimiter, Webhook

CONSTANTS
  Slot,           (* requests that may be under way at the same time         *)
  DeliveryId,     (* the non-empty values of X-GitHub-Delivery               *)
  GithubSecret,   (* whether github_webhook_secret is set                    *)
  Nothing         (* an idle slot                                            *)

ASSUME GatewayAssumption == GithubSecret \in BOOLEAN

VARIABLES
  request,     (* the request in each slot                                   *)
  passed,      (* how many layers of the stack it has passed                 *)
  charged,     (* history: the slots whose request the limit was charged for *)
  payload,     (* history: what the route found in it                        *)
  answer,      (* what it is answered                                        *)
  logged,      (* the status that was logged for it, 0 before                *)
  remembered,  (* deliveries the deduplicator knows                          *)
  accounted    (* history: those answered "queued" or "rejected" meanwhile   *)

slotVars == <<request, passed, charged, payload, answer, logged>>
poolVars == <<remembered, accounted>>
vars == <<limiterVars, slotVars, poolVars>>

(* POST /webhook/github, with a signature that holds or not, and any other *)
(* request: the path of another provider, which is not verified and has no *)
(* route, or the health routes.                                            *)
Request ==
  [kind : {"signed", "unsigned", "other"}, client : Client, delivery : DeliveryId]

(* The route and the layers create_app() adds to it, in this order;        *)
(* Starlette wraps each one around those before it.                        *)
Added == <<"route", "logging", "limit", "signature">>

(* A faulty order: as the comment in create_app reads.                     *)
StackAsAdded == Append(Tail(Added), "route")

(* The layers a request passes, outermost first.                           *)
Stack == Reverse(Added)

(* What each answer is for the client and for the log; an exception is     *)
(* answered by the server's outermost handler.                             *)
Status(a) ==
  CASE a \in {"queued", "rejected", "ignored", "served"} -> 200
    [] a = "malformed" -> 400
    [] a = "unsigned" -> 401
    [] a = "unrouted" -> 404
    [] a = "limited" -> 429
    [] a = "crash" -> 500

Init ==
  /\ LimiterInit
  /\ request = [s \in Slot |-> Nothing]
  /\ passed = [s \in Slot |-> 0]
  /\ charged = {}
  /\ payload = [s \in Slot |-> "unread"]
  /\ answer = [s \in Slot |-> "none"]
  /\ logged = [s \in Slot |-> 0]
  /\ remembered = {}
  /\ accounted = {}

Arrive(s) ==
  /\ request[s] = Nothing
  /\ \E r \in Request : request' = [request EXCEPT ![s] = r]
  /\ UNCHANGED <<limiterVars, passed, charged, payload, answer, logged, poolVars>>

(* The request in s is about to enter a layer.                             *)
At(s, name) ==
  /\ request[s] # Nothing
  /\ answer[s] = "none"
  /\ Stack[passed[s] + 1] = name

Pass(s) ==
  /\ passed' = [passed EXCEPT ![s] = @ + 1]
  /\ UNCHANGED answer

Answer(s, a) ==
  /\ answer' = [answer EXCEPT ![s] = a]
  /\ UNCHANGED passed

(* Only the path of a provider whose secret is set is verified, and GitHub *)
(* is the only one the middleware knows.                                   *)
Verified(s) == GithubSecret /\ request[s].kind # "other"

(* SignatureVerificationMiddleware.  It catches a SignatureError only: a   *)
(* body that ends early raises, and so does the comparison of a signature  *)
(* outside ASCII, with nothing but the server's handler around this layer. *)
Verify(s) ==
  /\ At(s, "signature")
  /\ \/ Verified(s) /\ Answer(s, "crash")
     \/ Verified(s) /\ request[s].kind = "unsigned" /\ Answer(s, "unsigned")
     \/ ~(Verified(s) /\ request[s].kind = "unsigned") /\ Pass(s)
  /\ UNCHANGED <<limiterVars, request, charged, payload, logged, poolVars>>

(* RateLimitMiddleware.                                                    *)
Limit(s) ==
  /\ At(s, "limit")
  /\ Consume(request[s].client)
  /\ charged' = charged \cup {s}
  /\ IF Allowed(request[s].client) THEN Pass(s) ELSE Answer(s, "limited")
  /\ UNCHANGED <<request, payload, logged, poolVars>>

(* RequestLoggingMiddleware on the way in.                                 *)
EnterLog(s) ==
  /\ At(s, "logging")
  /\ Pass(s)
  /\ UNCHANGED <<limiterVars, request, charged, payload, logged, poolVars>>

(* What the parser makes of a payload, and what it was.                    *)
Bodies == {[result |-> Parse(p), nature |-> Nature(p)] : p \in Payload}

(* A faulty submit: a full queue is an exception for the route.            *)
SubmitFullRaises(d) == IF d \in remembered THEN {"rejected"} ELSE {"queued", "crash"}

(* The answers submit() may give, which remembers the delivery in any case.*)
Submit(d) == IF d \in remembered THEN {"rejected"} ELSE {"queued", "rejected"}

(* github_webhook(): parse the payload, submit the event.                  *)
Webhooks(s) ==
  /\ At(s, "route")
  /\ request[s].kind # "other"
  /\ LET d == request[s].delivery
     IN  \E b \in Bodies : \E a \in IF b.result = "event" THEN Submit(d) ELSE {b.result} :
           /\ payload' = [payload EXCEPT ![s] = b.nature]
           /\ Answer(s, a)
           /\ remembered' = IF b.result = "event" THEN remembered \cup {d} ELSE remembered
           /\ accounted' = IF a \in {"queued", "rejected"} THEN accounted \cup {d} ELSE accounted
  /\ UNCHANGED <<limiterVars, request, charged, logged>>

(* The health routes, and the router's answer for a path without a route.  *)
Probe(s) ==
  /\ At(s, "route")
  /\ request[s].kind = "other"
  /\ \E a \in {"served", "unrouted"} : Answer(s, a)
  /\ UNCHANGED <<limiterVars, request, charged, payload, logged, poolVars>>

Entered(s, name) == \E i \in 1..passed[s] : Stack[i] = name

(* RequestLoggingMiddleware on the way out: the status of the response, or *)
(* 500 when an exception comes up from the route.                          *)
LeaveLog(s) ==
  /\ answer[s] # "none"
  /\ Entered(s, "logging")
  /\ logged[s] = 0
  /\ logged' = [logged EXCEPT ![s] = Status(answer[s])]
  /\ UNCHANGED <<limiterVars, request, passed, charged, payload, answer, poolVars>>

(* The answer reaches the client once every layer entered has been left.   *)
Reply(s) ==
  /\ answer[s] # "none"
  /\ Entered(s, "logging") => logged[s] # 0
  /\ request' = [request EXCEPT ![s] = Nothing]
  /\ passed' = [passed EXCEPT ![s] = 0]
  /\ charged' = charged \ {s}
  /\ payload' = [payload EXCEPT ![s] = "unread"]
  /\ answer' = [answer EXCEPT ![s] = "none"]
  /\ logged' = [logged EXCEPT ![s] = 0]
  /\ UNCHANGED <<limiterVars, poolVars>>

(* A delivery's TTL runs out.                                              *)
Forget(d) ==
  /\ d \in remembered
  /\ remembered' = remembered \ {d}
  /\ accounted' = accounted \ {d}
  /\ UNCHANGED <<limiterVars, slotVars>>

GatewayTick == Tick /\ UNCHANGED <<slotVars, poolVars>>

Next ==
  \/ \E s \in Slot :
       \/ Arrive(s) \/ Verify(s) \/ Limit(s) \/ EnterLog(s)
       \/ Webhooks(s) \/ Probe(s) \/ LeaveLog(s) \/ Reply(s)
  \/ \E d \in DeliveryId : Forget(d)
  \/ GatewayTick

Spec == Init /\ [][Next]_vars

-----------------------------------------------------------------------------
TypeOK ==
  /\ LimiterTypeOK
  /\ request \in [Slot -> Request \cup {Nothing}]
  /\ passed \in [Slot -> 0..(Len(Stack) - 1)]
  /\ charged \subseteq Slot
  /\ payload \in [Slot -> {"unread", "reviewable", "dull", "broken"}]
  /\ answer \in [Slot -> {"none", "queued", "rejected", "ignored", "served",
                         "malformed", "unsigned", "unrouted", "limited", "crash"}]
  /\ logged \in [Slot -> {0, 200, 400, 404, 500}]
  /\ remembered \subseteq DeliveryId
  /\ accounted \subseteq DeliveryId

(* The secret guards the rate limit too: a webhook whose signature does not*)
(* hold uses up nobody's tokens (the order of add_middleware in main.py).  *)
ChargedWereSigned ==
  GithubSecret => \A s \in charged : request[s].kind # "unsigned"

(* Nothing but a reviewable event reaches the pool, and nothing but what   *)
(* the service is not for is passed over in silence: an event it should    *)
(* have understood and did not is answered with an error, whichever of the *)
(* parser's checks comes first (parse_webhook).                            *)
AnswersFitPayloads ==
  \A s \in Slot :
    /\ payload[s] = "reviewable" <=> answer[s] \in {"queued", "rejected"}
    /\ answer[s] = "ignored" => payload[s] = "dull"

(* A delivery that failed can be sent again: whichever layer refused it,   *)
(* it is remembered as seen only if some request with it was told, since   *)
(* it was last forgotten, that it was queued or rejected.                  *)
RememberedWereAnswered == remembered \subseteq accounted

(* The log tells the status of exactly the requests that the rate limit    *)
(* lets through.  The others were refused by the limit, or ended where the *)
(* signature is checked, and the route saw none of them.                   *)
LogTellsTheAdmitted ==
  [][\A s \in Slot : (request[s] # Nothing /\ request'[s] = Nothing) =>
       IF s \in charged /\ answer[s] # "limited"
       THEN logged[s] = Status(answer[s])
       ELSE /\ logged[s] = 0 /\ payload[s] = "unread"
            /\ answer[s] = "limited" \/ (Verified(s) /\ answer[s] \in {"unsigned", "crash"})]_vars
=============================================================================
