------------------------------- MODULE Agents -------------------------------
(***************************************************************************)
(* Review agents as their callers see them (run_review_agent of            *)
(* src/reviewer/reviewer/agent.py): a bounded loop of model calls and tool *)
(* calls that returns a review, fails, crashes or is cancelled.  Several   *)
(* agents run on one event loop and share one cancel event, which a newer  *)
(* push may set at any moment.                                             *)
(*                                                                         *)
(* An agent is suspended in a call of the model ("calling") or in its tool *)
(* calls ("tooling"); a step is the code between two awaits.  ReviewAgent  *)
(* has the conversation and the trace that are left out here;              *)
(* AgentContract says when it implements this.                             *)
(***************************************************************************)
EXTENDS Integers

CONSTANTS
  Agent,
  MaxIterations     (* the iterations each agent may take                    *)

ASSUME AgentsAssumption == MaxIterations \in [Agent -> Nat]

VARIABLES
  cancel,           (* the cancel event is set                               *)
  at,               (* where each agent is                                   *)
  turn,             (* the iteration each agent is in                        *)
  result            (* what each agent returned                              *)

agentVars == <<cancel, at, turn, result>>

(* What a returned review can hold: no findings; findings of which some    *)
(* survive _parse_findings; findings none of which do; findings it cannot  *)
(* handle; or JSON that is no object with a list of findings.              *)
Kind == {"clean", "valid", "malformed", "badItems", "notObject"}

Running(a) == at[a] \in {"ready", "calling", "tooling"}

AgentsInit ==
  /\ cancel = FALSE
  /\ at = [a \in Agent |-> "idle"]
  /\ turn = [a \in Agent |-> 0]
  /\ result = [a \in Agent |-> "none"]

(* A faulty head of the loop: cancellation is looked at before the loop.   *)
LoopHeadChecksOnce(a) ==
  \/ /\ turn[a] < MaxIterations[a]
     /\ cancel => turn[a] > 0
     /\ turn' = [turn EXCEPT ![a] = @ + 1]
     /\ at' = [at EXCEPT ![a] = "calling"]
  \/ /\ \/ turn[a] >= MaxIterations[a]
        \/ cancel
        \/ turn[a] > 0
     /\ at' = [at EXCEPT ![a] = "failed"]
     /\ UNCHANGED turn

(* Another: cancellation is looked at from the second iteration on.        *)
LoopHeadChecksLate(a) ==
  \/ /\ turn[a] < MaxIterations[a]
     /\ cancel => turn[a] = 0
     /\ turn' = [turn EXCEPT ![a] = @ + 1]
     /\ at' = [at EXCEPT ![a] = "calling"]
  \/ /\ turn[a] > 0
     /\ at' = [at EXCEPT ![a] = "failed"]
     /\ UNCHANGED turn

(* The head of the loop: stop with an AgentError when the iterations are   *)
(* used up, the time is (after the first iteration this may always be so), *)
(* or the review is superseded; else call the model.                       *)
LoopHead(a) ==
  \/ /\ turn[a] < MaxIterations[a]
     /\ ~cancel
     /\ turn' = [turn EXCEPT ![a] = @ + 1]
     /\ at' = [at EXCEPT ![a] = "calling"]
  \/ /\ \/ turn[a] >= MaxIterations[a]
        \/ cancel
        \/ turn[a] > 0
     /\ at' = [at EXCEPT ![a] = "failed"]
     /\ UNCHANGED turn

(* An agent whose task was created runs for the first time.                *)
Begin(a) ==
  /\ at[a] = "ready"
  /\ LoopHead(a)
  /\ UNCHANGED <<cancel, result>>

(* The model answers with tool calls.                                      *)
AnswerTools(a) ==
  /\ at[a] = "calling"
  /\ at' = [at EXCEPT ![a] = "tooling"]
  /\ UNCHANGED <<cancel, turn, result>>

(* The model answers with a review, whole or cut off.                      *)
AnswerReview(a) ==
  /\ at[a] = "calling"
  /\ at' = [at EXCEPT ![a] = "returned"]
  /\ \E kind \in Kind : result' = [result EXCEPT ![a] = kind]
  /\ UNCHANGED <<cancel, turn>>

(* The call fails, or the answer is none the loop expects: AgentError; an  *)
(* answer without choices raises an exception of another class.            *)
AnswerUnusable(a) ==
  /\ at[a] = "calling"
  /\ \E outcome \in {"failed", "crashed"} : at' = [at EXCEPT ![a] = outcome]
  /\ UNCHANGED <<cancel, turn, result>>

(* The last tool call of the iteration returns.                            *)
ToolsDone(a) ==
  /\ at[a] = "tooling"
  /\ LoopHead(a)
  /\ UNCHANGED <<cancel, result>>

(* CancelledError is raised in every agent of the set that is running.     *)
CancelAgents(A) ==
  at' = [a \in Agent |-> IF a \in A /\ Running(a) THEN "cancelled" ELSE at[a]]

(* A newer push takes the place of this review in the registry.            *)
Supersede ==
  /\ ~cancel
  /\ cancel' = TRUE
  /\ UNCHANGED <<at, turn, result>>

AgentStep(a) ==
  Begin(a) \/ AnswerTools(a) \/ AnswerReview(a) \/ AnswerUnusable(a) \/ ToolsDone(a)

AgentsTypeOK ==
  /\ cancel \in BOOLEAN
  /\ at \in [Agent -> {"idle", "ready", "calling", "tooling",
                       "returned", "failed", "crashed", "cancelled"}]
  /\ turn \in [Agent -> Nat]
  /\ result \in [Agent -> Kind \cup {"none"}]
=============================================================================
