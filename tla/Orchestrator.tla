---------------------------- MODULE Orchestrator ----------------------------
(***************************************************************************)
(* The multi-agent review (src/reviewer/reviewer/orchestrator.py): one     *)
(* agent per role, run at once and gathered; their findings deduplicated;  *)
(* a synthesis agent with a single iteration, and a fallback to the raw    *)
(* findings when it fails.                                                 *)
(*                                                                         *)
(* asyncio.gather() without return_exceptions raises the first exception   *)
(* of a role and lets the other roles run on; cancelled itself, it cancels *)
(* them all.  Findings are abstracted to the kind of list they make up     *)
(* (Agents!Kind).                                                          *)
(***************************************************************************)
EXTENDS Agents, FiniteSets

CONSTANTS
  Role,         (* the agents of WorkerRole                                  *)
  Synth         (* the synthesis agent                                       *)

VARIABLES
  orch,         (* how far run_orchestrated_review has got                   *)
  merged        (* the kind of the deduplicated findings                     *)

orchVars == <<orch, merged>>

OrchInit == orch = "off" /\ merged = "none"

(* A role has ended when its agent returned a result that run_worker can   *)
(* read, or failed with an AgentError, which run_worker turns into a       *)
(* result without findings.                                                *)
RoleEnded(r) == at[r] = "failed" \/ (at[r] = "returned" /\ result[r] # "notObject")

(* An exception of another class leaves run_worker.                        *)
RoleRaised(r) == at[r] = "crashed" \/ (at[r] = "returned" /\ result[r] = "notObject")

RoleFindings(r) == IF at[r] = "failed" THEN "clean" ELSE result[r]

(* The findings of all roles, deduplicated: of those that overlap one is   *)
(* kept, and it may be a malformed one, also from a list that held valid   *)
(* ones (ContentProofs!MergedKinds shows that this is all there can be).   *)
Merged ==
  LET kinds == {RoleFindings(r) : r \in Role} \ {"clean"}
  IN  IF kinds = {} THEN {"clean"} ELSE kinds \cup {"malformed"}

StartRoles ==
  /\ orch = "off"
  /\ orch' = "gathering"
  /\ at' = [a \in Agent |-> IF a \in Role THEN "ready" ELSE at[a]]
  /\ UNCHANGED <<cancel, turn, result, merged>>

(* A faulty gather: goes on when the first role has ended.                 *)
SynthesizeEarly ==
  /\ orch = "gathering"
  /\ \E r \in Role : RoleEnded(r)
  /\ ~\E r \in Role : RoleRaised(r)
  /\ merged' = "clean"
  /\ orch' = "synthesis"
  /\ LoopHead(Synth)
  /\ UNCHANGED <<cancel, result>>

(* gather() returns: collect, deduplicate, and start the synthesis.        *)
Synthesize ==
  /\ orch = "gathering"
  /\ \A r \in Role : RoleEnded(r)
  /\ "badItems" \notin Merged
  /\ \E m \in Merged : merged' = m
  /\ orch' = "synthesis"
  /\ LoopHead(Synth)
  /\ UNCHANGED <<cancel, result>>

(* A faulty gather: waits for every role to end and sees no exceptions.    *)
GatherRaisesUnseen ==
  /\ orch = "gathering"
  /\ (\A r \in Role : RoleEnded(r)) /\ Merged # {"clean"}
  /\ orch' = "raised"
  /\ UNCHANGED <<agentVars, merged>>

(* gather() raises the exception of a role, or the findings cannot be      *)
(* collected or compared: what is no dict cannot be collected, and of two  *)
(* findings of one file the lines must be numbers, which the models do not *)
(* ask of a finding (a line "12" is a valid one).                          *)
GatherRaises ==
  /\ orch = "gathering"
  /\ \/ \E r \in Role : RoleRaised(r)
     \/ (\A r \in Role : RoleEnded(r)) /\ Merged # {"clean"}
  /\ orch' = "raised"
  /\ UNCHANGED <<agentVars, merged>>

(* A faulty fallback: one for every exception.                             *)
SynthesisEndsCatchAll ==
  /\ orch = "synthesis"
  /\ at[Synth] \in {"returned", "failed", "crashed"}
  /\ orch' = "returned"
  /\ UNCHANGED <<agentVars, merged>>

(* The synthesis returns, or fails and the deduplicated findings stand in, *)
(* if a verdict can be found for them (a severity that is a list raises    *)
(* TypeError); an exception of another class passes through.               *)
SynthesisEnds ==
  /\ orch = "synthesis"
  /\ \/ at[Synth] \in {"returned", "failed"} /\ orch' = "returned"
     \/ at[Synth] = "failed" /\ merged # "clean" /\ orch' = "raised"
     \/ at[Synth] = "crashed" /\ orch' = "raised"
  /\ UNCHANGED <<agentVars, merged>>

(* A faulty fallback: the result of a synthesis that failed is empty, like *)
(* that of a role.                                                         *)
OrchResultEmpty == IF at[Synth] = "returned" THEN result[Synth] ELSE "clean"

(* What run_orchestrated_review returned.                                  *)
OrchResult == IF at[Synth] = "returned" THEN result[Synth] ELSE merged

(* The agents that CancelledError reaches through the orchestrator: not    *)
(* those of a gather() that has already been given an exception to raise.  *)
CancelReaches ==
  IF orch # "gathering" THEN {Synth}
  ELSE IF \E r \in Role : RoleRaised(r) THEN {} ELSE Role

OrchTypeOK ==
  /\ orch \in {"off", "gathering", "synthesis", "returned", "raised", "cancelled"}
  /\ merged \in Kind \cup {"none"}
=============================================================================
