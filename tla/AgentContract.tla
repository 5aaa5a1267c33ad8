--------------------------- MODULE AgentContract ---------------------------
(***************************************************************************)
(* What an agent promises the caller that has started it: it keeps to the  *)
(* loop of the module Agents, whatever the model answers, unless its task  *)
(* is cancelled.                                                           *)
(***************************************************************************)
EXTENDS Agents

Init ==
  /\ cancel = FALSE
  /\ at = [a \in Agent |-> "ready"]
  /\ turn = [a \in Agent |-> 0]
  /\ result = [a \in Agent |-> "none"]

Interrupt(a) ==
  /\ Running(a)
  /\ CancelAgents({a})
  /\ UNCHANGED <<cancel, turn, result>>

Next == Supersede \/ \E a \in Agent : AgentStep(a) \/ Interrupt(a)

Spec == Init /\ [][Next]_agentVars
=============================================================================
