------------------------------ MODULE Webhook ------------------------------
(***************************************************************************)
(* What the route of src/reviewer/server/routes.py and the parser of       *)
(* src/reviewer/providers/github/webhook.py make of the body of a webhook. *)
(*                                                                         *)
(* A payload is described by what the parser tells apart.  The checks are  *)
(* in the order of the code: the first one that holds gives the answer.    *)
(* The route catches WebhookError only, so whatever raises anything else   *)
(* is answered 500 by the server.                                          *)
(***************************************************************************)
EXTENDS SequencesExt

(* type is the X-GitHub-Event header; fields, what _parse_pull_request     *)
(* reads; the rest are parts of the body.                                  *)
Payload ==
  [body : {"garbage", "json", "object"},
   type : {"pull_request", "other"},
   action : {"missing", "unsupported", "supported"},
   pr : {"missing", "mistyped", "draft", "object"},
   fields : {"complete", "missing", "mistyped"},
   installation : {"none", "mistyped", "given"}]

Fault(holds, result) == IF holds THEN result ELSE "none"

(* Each check of github_webhook() and parse_webhook() and what a payload   *)
(* that fails it comes to: "malformed" is answered 400, "ignored" 200,     *)
(* "crash" is an exception of another class than WebhookError.             *)
Checks(p) == <<
  Fault(p.body = "garbage", "malformed"),
  Fault(p.type = "other", "ignored"),
  Fault(p.body = "json", "crash"),
  Fault(p.action = "missing", "malformed"),
  Fault(p.action = "unsupported", "ignored"),
  Fault(p.pr = "missing", "malformed"),
  Fault(p.pr = "mistyped", "crash"),
  Fault(p.pr = "draft", "ignored"),
  Fault(p.fields = "missing", "malformed"),
  Fault(p.fields = "mistyped", "crash"),
  Fault(p.installation = "mistyped", "crash") >>

(* A faulty parser: drafts are reviewed.                                   *)
ParseDrafts(p) ==
  LET first == SelectInSeq(Checks(p), LAMBDA result : result # "none" /\ p.pr # "draft")
  IN  IF first = 0 THEN "event" ELSE Checks(p)[first]

(* What becomes of the payload; one that no check stops is an event for    *)
(* the pool, with or without an installation id.                           *)
Parse(p) ==
  LET first == SelectInSeq(Checks(p), LAMBDA result : result # "none")
  IN  IF first = 0 THEN "event" ELSE Checks(p)[first]

(* The events the service is for, and those it may pass over whatever else *)
(* their payloads hold.                                                    *)
Reviewable(p) ==
  p \in [body : {"object"}, type : {"pull_request"}, action : {"supported"},
         pr : {"object"}, fields : {"complete"}, installation : {"none", "given"}]

OfNoInterest(p) == p.type = "other" \/ p.action = "unsupported" \/ p.pr = "draft"

Nature(p) ==
  IF Reviewable(p) THEN "reviewable" ELSE IF OfNoInterest(p) THEN "dull" ELSE "broken"
=============================================================================
