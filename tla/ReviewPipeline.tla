--------------------------- MODULE ReviewPipeline ---------------------------
(***************************************************************************)
(* The review of one event (src/reviewer/reviewer/pipeline.py), from the   *)
(* check run to the posted review, with its single agent or its            *)
(* orchestrated ones, against a GitHub whose answers may get lost.         *)
(*                                                                         *)
(* The task of the pipeline may be cancelled at any await (a shutdown that *)
(* has waited long enough), whether the call of GitHub under way was done  *)
(* or not; and a newer push may set the cancel event at any moment.        *)
(***************************************************************************)
EXTENDS Orchestrator, GitHubReviewService

CONSTANT Solo      (* the agent of the single-agent mode                     *)

ASSUME PipelineAssumption ==
  /\ Agent = Role \cup {Synth, Solo}
  /\ Synth \notin Role /\ Solo \notin Role /\ Synth # Solo

VARIABLES
  stage,        (* the call that the pipeline is waiting for                 *)
  review,       (* the kind of the review to be posted                       *)
  checkId,      (* the pipeline knows the id of its check run                *)
  stale         (* history: the event was set before the post was begun      *)

pipeVars == <<stage, review, checkId, stale>>
vars == <<agentVars, orchVars, serviceVars, pipeVars>>

Init ==
  /\ AgentsInit
  /\ OrchInit
  /\ ServiceInit
  /\ stage = "create"
  /\ review = "none"
  /\ checkId = FALSE
  /\ stale = FALSE

(* A faulty conclusion: findings fail the check run.                       *)
ConclusionFails == IF review = "valid" THEN "failure" ELSE "success"

(* What the check run is to say of the posted review.                      *)
Conclusion == IF review = "valid" THEN "action_required" ELSE "success"

(* Step 1.  A ProviderError is passed over; an exception of another class  *)
(* (no token can be signed, an answer without an id) leaves the pipeline.  *)
CreateCheckRun ==
  /\ stage = "create"
  /\ \E c \in Calls :
       /\ CreateRun(c)
       /\ checkId' = (c.answer = "ok")
       /\ stage' = IF c.answer = "Exception" THEN "raised" ELSE "config"
  /\ UNCHANGED <<agentVars, orchVars, review, stale>>

(* An exception between steps 2 and 7: the check run, if its id is known,  *)
(* is to become a failure.                                                 *)
Fail == stage' = IF checkId THEN "failing" ELSE "raised"

(* The review is at hand: step 6 begins.                                   *)
BeginPost(kind) ==
  /\ stage' = "post"
  /\ review' = kind
  /\ stale' = cancel

(* Step 2: the configuration may disable the review, or be unreadable.     *)
FetchConfig ==
  /\ stage = "config"
  /\ \E file \in ConfigFile :
       \/ /\ RepoConfig(file) = "enabled"
          /\ stage' = "diff" /\ UNCHANGED <<review, stale>>
       \/ RepoConfig(file) = "disabled" /\ BeginPost("clean")
       \/ RepoConfig(file) = "error" /\ Fail /\ UNCHANGED <<review, stale>>
  /\ UNCHANGED <<agentVars, orchVars, serviceVars, checkId>>

(* Steps 3 to 5: nothing to review, few files, many files, or no answer.   *)
FetchDiff ==
  /\ stage = "diff"
  /\ \/ BeginPost("clean") /\ UNCHANGED <<agentVars, orchVars>>
     \/ /\ stage' = "single"
        /\ LoopHead(Solo)
        /\ UNCHANGED <<cancel, result, orchVars, review, stale>>
     \/ stage' = "multi" /\ StartRoles /\ UNCHANGED <<review, stale>>
     \/ Fail /\ UNCHANGED <<agentVars, orchVars, review, stale>>
  /\ UNCHANGED <<serviceVars, checkId>>

(* build_review_from_agent_result: the kinds of result it cannot read      *)
(* raise.                                                                  *)
Build(kind) ==
  IF kind \in {"badItems", "notObject"}
  THEN Fail /\ UNCHANGED <<review, stale>>
  ELSE BeginPost(kind)

SoloEnds ==
  /\ stage = "single"
  /\ \/ at[Solo] = "returned" /\ Build(result[Solo])
     \/ at[Solo] \in {"failed", "crashed"} /\ Fail /\ UNCHANGED <<review, stale>>
  /\ UNCHANGED <<agentVars, orchVars, serviceVars, checkId>>

OrchestratorEnds ==
  /\ stage = "multi"
  /\ \/ orch = "returned" /\ Build(OrchResult)
     \/ orch = "raised" /\ Fail /\ UNCHANGED <<review, stale>>
  /\ UNCHANGED <<agentVars, orchVars, serviceVars, checkId>>

Findings == IF review = "valid" THEN "findings" ELSE "none"

(* A faulty step 6: an error of the post is passed over, as that of the    *)
(* check run is.                                                           *)
PostReviewUnchecked ==
  /\ stage = "post"
  /\ \E c \in Calls : PostFindings(c, Findings)
  /\ stage' = IF checkId THEN "conclude" ELSE "done"
  /\ UNCHANGED <<agentVars, orchVars, review, checkId, stale>>

(* Another: a post that fails is tried again.                              *)
PostReviewRetries ==
  /\ stage = "post"
  /\ \E c \in Calls :
       /\ PostFindings(c, Findings)
       /\ \/ c.answer = "ok" /\ stage' = IF checkId THEN "conclude" ELSE "done"
          \/ c.answer \in Errors /\ UNCHANGED stage
  /\ UNCHANGED <<agentVars, orchVars, review, checkId, stale>>

(* Step 6.                                                                 *)
PostReview ==
  /\ stage = "post"
  /\ \E c \in Calls :
       /\ PostFindings(c, Findings)
       /\ \/ c.answer = "ok" /\ stage' = IF checkId THEN "conclude" ELSE "done"
          \/ c.answer \in Errors /\ Fail
  /\ UNCHANGED <<agentVars, orchVars, review, checkId, stale>>

(* A faulty step 7: an error here ends the pipeline.                       *)
ConcludeOnce ==
  /\ stage = "conclude"
  /\ \E c \in Calls :
       /\ UpdateRun(c, Conclusion)
       /\ stage' = IF c.answer = "ok" THEN "done" ELSE "raised"
  /\ UNCHANGED <<agentVars, orchVars, review, checkId, stale>>

(* Step 7.  An error here, too, makes the check run a failure.             *)
Conclude ==
  /\ stage = "conclude"
  /\ \E c \in Calls :
       /\ UpdateRun(c, Conclusion)
       /\ \/ c.answer = "ok" /\ stage' = "done"
          \/ c.answer \in Errors /\ Fail
  /\ UNCHANGED <<agentVars, orchVars, review, checkId, stale>>

(* The except clause: the check run becomes a failure.  The exception goes *)
(* on to the worker, which logs it; so does one of the update, unless it   *)
(* is a ProviderError, which is passed over.                               *)
MarkFailure ==
  /\ stage = "failing"
  /\ \E c \in Calls : UpdateRun(c, "failure")
  /\ stage' = "raised"
  /\ UNCHANGED <<agentVars, orchVars, review, checkId, stale>>

Over == stage \in {"done", "raised", "interrupted"}

(* What the call under way does at GitHub, if it is cut off.               *)
CutOffCall(c) ==
  CASE stage = "create"   -> CreateRun(c)
    [] stage = "post"     -> PostFindings(c, Findings)
    [] stage = "conclude" -> UpdateRun(c, Conclusion)
    [] stage = "failing"  -> UpdateRun(c, "failure")
    [] OTHER              -> UNCHANGED serviceVars

(* CancelledError at the await of the pipeline: no except clause catches   *)
(* it, the agents it waits for are cancelled with it, and the call under   *)
(* way may have been done.                                                 *)
Interrupt ==
  /\ ~Over
  /\ stage' = "interrupted"
  /\ \E c \in CutOff : CutOffCall(c)
  /\ CASE stage = "single" -> CancelAgents({Solo}) /\ UNCHANGED orch
       [] stage = "multi"  -> CancelAgents(CancelReaches) /\ orch' = "cancelled"
       [] OTHER            -> UNCHANGED <<at, orch>>
  /\ UNCHANGED <<cancel, turn, result, merged, review, checkId, stale>>

PipelineStep ==
  \/ CreateCheckRun \/ FetchConfig \/ FetchDiff \/ SoloEnds \/ OrchestratorEnds
  \/ PostReview \/ Conclude \/ MarkFailure

OrchestratorStep ==
  /\ stage = "multi"
  /\ Synthesize \/ GatherRaises \/ SynthesisEnds
  /\ UNCHANGED <<serviceVars, pipeVars>>

Next ==
  \/ PipelineStep
  \/ OrchestratorStep
  \/ \E a \in Agent : AgentStep(a) /\ UNCHANGED <<orchVars, serviceVars, pipeVars>>
  \/ Supersede /\ UNCHANGED <<orchVars, serviceVars, pipeVars>>
  \/ Interrupt

(* Every call has a timeout, so each coroutine is resumed again and again. *)
Fairness ==
  /\ WF_vars(PipelineStep)
  /\ WF_vars(OrchestratorStep)
  /\ \A a \in Agent : WF_vars(AgentStep(a) /\ UNCHANGED <<orchVars, serviceVars, pipeVars>>)

Spec == Init /\ [][Next]_vars
FairSpec == Spec /\ Fairness

-----------------------------------------------------------------------------
TypeOK ==
  /\ AgentsTypeOK
  /\ OrchTypeOK
  /\ ServiceTypeOK
  /\ stage \in {"create", "config", "diff", "single", "multi", "post", "conclude",
                "failing", "done", "raised", "interrupted"}
  /\ review \in {"clean", "valid", "malformed", "none"}
  /\ checkId \in BOOLEAN
  /\ stale \in BOOLEAN

(* A check run is never concluded well unless the review it speaks of has  *)
(* been posted, and then it agrees with what was posted (steps 6 and 7 of  *)
(* run_review_pipeline).                                                   *)
ConclusionIsBacked ==
  /\ checkRun = "success" => posted = "none"
  /\ checkRun = "action_required" => posted = "findings"

(* A check run whose id is known is left in progress only if GitHub        *)
(* refused even to make it a failure or the pipeline was cut off by        *)
(* shutdown; no path of errors forgets it (run_review_pipeline).           *)
CheckRunIsSettled ==
  (Over /\ checkId /\ checkRun = "in_progress") => ("failure" \in refused \/ stage = "interrupted")

(* A failed check run beside a posted review means that GitHub failed the  *)
(* pipeline after the review was done: an answer was lost or the           *)
(* conclusion refused; the review itself never fails after it was posted.  *)
FailureBesidesReviewIsGitHubs ==
  (checkRun = "failure" /\ posted # "nothing") => (lost \/ refused \cap {"success", "action_required"} # {})

(* Agents that run on after their review are left behind by gather() and   *)
(* by nothing else: some role raised, in the multi-agent mode.             *)
OrphansOnlyAfterCrash ==
  \A a \in Agent :
    (Running(a) /\ (Over \/ stage \in {"post", "conclude", "failing"})) =>
      a \in Role /\ \E r \in Role : RoleRaised(r)

(* Once the review is superseded no agent, of either mode or left behind,  *)
(* begins another call of the model (run_review_agent).                    *)
NoCallOnceSuperseded == [][cancel => \A a \in Agent : turn'[a] = turn[a]]_vars

(* The findings that are posted come from an agent that returned them: the *)
(* one of the single mode, the synthesis, or, when that has failed, a role.*)
FindingsHaveAnAuthor ==
  posted = "findings" =>
    \/ result[Solo] = "valid"
    \/ result[Synth] = "valid"
    \/ at[Synth] = "failed" /\ \E r \in Role : result[r] = "valid"

(* Where the synthesis failed, a review without findings means that no     *)
(* role that returned had any: the fallback drops none of them.            *)
NoRoleUnheard ==
  (review = "clean" /\ at[Synth] = "failed") => \A r \in Role : RoleFindings(r) = "clean"

(* What is posted is what agents found: nothing is invented on the way,    *)
(* and the failure of the synthesis costs no role its findings             *)
(* (run_orchestrated_review).                                              *)
FindingsAreTheAgents == FindingsHaveAnAuthor /\ NoRoleUnheard

(* What the pipeline, its orchestrator and each agent have left to do.     *)
StageLeft ==
  [create |-> 7, config |-> 6, diff |-> 5, single |-> 4, multi |-> 4, post |-> 3, conclude |-> 2,
   failing |-> 1, done |-> 0, raised |-> 0, interrupted |-> 0]

OrchLeft ==
  [off |-> 3, gathering |-> 2, synthesis |-> 1, returned |-> 0, raised |-> 0, cancelled |-> 0]

AgentLeft(a) ==
  IF at[a] \in {"idle", "ready", "calling", "tooling"}
  THEN 2 * (MaxIterations[a] - turn[a]) + [idle |-> 2, ready |-> 1, calling |-> 2, tooling |-> 1][at[a]]
  ELSE 0

(* Nobody goes back and nothing is tried twice: each step of a review uses *)
(* up something of what one of them had left, and gives none of it back,   *)
(* so that a review has only so many steps in it (run_review_pipeline,     *)
(* run_orchestrated_review, run_review_agent).                             *)
ReviewRunsOut ==
  [][/\ StageLeft[stage'] <= StageLeft[stage] /\ OrchLeft[orch'] <= OrchLeft[orch]
     /\ \A a \in Agent : AgentLeft(a)' \in 0..AgentLeft(a)
     /\ \/ StageLeft[stage'] < StageLeft[stage] \/ OrchLeft[orch'] < OrchLeft[orch]
        \/ \E a \in Agent : AgentLeft(a)' < AgentLeft(a)
    ]_<<at, turn, result, orchVars, serviceVars, pipeVars>>

(* Every review ends, and so does every agent it started.                  *)
ReviewEnds == <>[](Over /\ \A a \in Agent : ~Running(a))

(* The review keeps the contract that the worker pool is composed with:    *)
(* one post at most, no findings without a model that was asked before the *)
(* review was superseded (run_review_pipeline, run_review_agent).          *)
Phase ==
  CASE stage \in {"create", "config", "diff"} -> "opening"
    [] stage \in {"single", "multi"}           -> "reviewing"
    [] stage = "post"                          -> "posting"
    [] stage \in {"conclude", "failing"}       -> "closing"
    [] OTHER                                   -> "over"

Contract == INSTANCE ReviewContract WITH
  superseded <- cancel,
  phase <- Phase,
  asked <- \E a \in Agent : turn[a] > 0,
  draft <- IF stage = "post" THEN Findings ELSE "none",
  says <- posted

ImplementsReviewContract == Contract!Spec

-----------------------------------------------------------------------------
(* What the documentation says and the code does not do.                   *)

(* cancel.py: a superseded review is cancelled to avoid posting stale      *)
(* results; so no findings are posted whose event was set before the post  *)
(* began.                                                                  *)
StaleFindingsNotPosted == stale => posted # "findings"
=============================================================================
