--------------------------- MODULE PipelineProofs ---------------------------
(***************************************************************************)
(* Proofs about the review of one event, for every set of roles and every  *)
(* number of iterations of each agent.                                     *)
(*                                                                         *)
(* The invariant has four parts: what GitHub shows at each stage, where    *)
(* the agents are at each stage, where a valid review comes from, and      *)
(* where a review without findings does.                                   *)
(***************************************************************************)
EXTENDS ReviewPipeline, TLAPS

Opening == {"create", "config", "diff"}
Before == Opening \cup {"single", "multi", "post"}

(* At GitHub: nothing is posted before the post, nothing concluded before  *)
(* the conclusion, and a failure after the post has its reason.            *)
Excused == lost \/ refused \cap {"success", "action_required"} # {}

GitHubInv ==
  /\ stage \in Before => posted = "nothing" /\ checkRun \in {"absent", "in_progress"}
  /\ stage = "conclude" => posted = Findings /\ checkRun # "failure"
  /\ stage \in {"failing", "done"} => checkRun # "failure"
  /\ (stage = "failing" /\ posted # "nothing") => Excused
  /\ ConclusionIsBacked
  /\ CheckRunIsSettled
  /\ FailureBesidesReviewIsGitHubs

(* The agents: who has been started at each stage, and who may still run.  *)
RolesEnded == \A r \in Role : RoleEnded(r)

Lineup ==
  /\ stage \in Opening => orch = "off" /\ \A a \in Agent : at[a] = "idle" /\ turn[a] = 0
  /\ stage = "single" => \A a \in Agent \ {Solo} : at[a] = "idle"
  /\ stage = "multi" =>
       /\ at[Solo] = "idle"
       /\ orch \in {"gathering", "synthesis", "returned", "raised"}
       /\ orch = "gathering" => at[Synth] = "idle"
       /\ orch = "synthesis" => RolesEnded
       /\ orch = "returned" => RolesEnded /\ at[Synth] \in {"returned", "failed"}
       /\ orch = "raised" => ~Running(Synth) /\ (RolesEnded \/ \E r \in Role : RoleRaised(r))

Working == \A a \in Agent : at[a] \in {"calling", "tooling", "returned"} => turn[a] > 0

AgentsInv == Lineup /\ Working /\ OrphansOnlyAfterCrash

(* Authors: only an agent that returned has a result, and what is merged   *)
(* or posted goes back to one.                                             *)
Author ==
  \/ result[Solo] = "valid"
  \/ result[Synth] = "valid"
  \/ at[Synth] = "failed" /\ \E r \in Role : result[r] = "valid"

AuthorInv ==
  /\ \A a \in Agent : result[a] # "none" => at[a] = "returned"
  /\ merged = "valid" => \E r \in Role : result[r] = "valid"
  /\ review = "valid" => Author
  /\ FindingsHaveAnAuthor

(* Nobody is dropped: until the agents have been heard there is no review, *)
(* and an empty list stems from roles without findings.                    *)
UnheardInv ==
  /\ stage \in Opening \cup {"single", "multi"} => review = "none"
  /\ merged = "clean" => \A r \in Role : RoleEnded(r) /\ RoleFindings(r) = "clean"
  /\ (review = "clean" /\ at[Synth] = "failed") => merged = "clean"

PInv == TypeOK /\ GitHubInv /\ AgentsInv /\ AuthorInv /\ UnheardInv

-----------------------------------------------------------------------------
(* What a step does to the agents.                                         *)
AtDomain == {"idle", "ready", "calling", "tooling", "returned", "failed", "crashed", "cancelled"}

LEMMA LoopHeadFacts ==
  ASSUME AgentsTypeOK, NEW a \in Agent, LoopHead(a)
  PROVE  /\ at' \in [Agent -> AtDomain] /\ turn' \in [Agent -> Nat]
         /\ \A b \in Agent \ {a} : at'[b] = at[b] /\ turn'[b] = turn[b]
         /\ \/ at'[a] = "failed" /\ turn'[a] = turn[a]
            \/ at'[a] = "calling" /\ turn'[a] = turn[a] + 1 /\ ~cancel
  BY DEF AgentsTypeOK, LoopHead, AtDomain

LEMMA AgentStepFacts ==
  ASSUME AgentsTypeOK, NEW a \in Agent, AgentStep(a)
  PROVE  /\ AgentsTypeOK' /\ cancel' = cancel
         /\ \A b \in Agent \ {a} : at'[b] = at[b] /\ turn'[b] = turn[b] /\ result'[b] = result[b]
         /\ Running(a)
         /\ at'[a] \in {"calling", "tooling", "returned", "failed", "crashed"}
         /\ turn'[a] = turn[a] \/ (turn'[a] = turn[a] + 1 /\ ~cancel)
         /\ result'[a] = result[a] \/ at'[a] = "returned"
         /\ at'[a] = "calling" => turn'[a] = turn[a] + 1
         /\ at'[a] \in {"tooling", "returned"} => at[a] = "calling"
<1>1. CASE Begin(a) \/ ToolsDone(a)
  <2>1. LoopHead(a) /\ UNCHANGED <<cancel, result>> /\ Running(a)
    BY <1>1 DEF Begin, ToolsDone, Running
  <2> QED
    BY <2>1, LoopHeadFacts DEF AgentsTypeOK, AtDomain
<1>2. CASE AnswerTools(a)
  BY <1>2 DEF AnswerTools, AgentsTypeOK, Running
<1>3. CASE AnswerReview(a)
  BY <1>3 DEF AnswerReview, AgentsTypeOK, Running
<1>4. CASE AnswerUnusable(a)
  BY <1>4 DEF AnswerUnusable, AgentsTypeOK, Running
<1> QED
  BY <1>1, <1>2, <1>3, <1>4 DEF AgentStep

LEMMA CancelFacts ==
  ASSUME AgentsTypeOK, NEW A \in SUBSET Agent, CancelAgents(A)
  PROVE  /\ at' \in [Agent -> AtDomain]
         /\ \A b \in Agent : at'[b] = at[b] \/ (b \in A /\ Running(b) /\ at'[b] = "cancelled")
         /\ \A b \in A : at'[b] \notin {"ready", "calling", "tooling"}
  BY DEF AgentsTypeOK, CancelAgents, AtDomain, Running

LEMMA Cast == /\ Synth \in Agent /\ Solo \in Agent /\ Synth # Solo
              /\ Role \subseteq Agent /\ Synth \notin Role /\ Solo \notin Role
              /\ \A a \in Agent : a \in Role \/ a = Synth \/ a = Solo
  BY PipelineAssumption

-----------------------------------------------------------------------------
(* Types.                                                                  *)
LEMMA TypeInit == Init => TypeOK
<1> SUFFICES ASSUME Init PROVE TypeOK
  OBVIOUS
<1>1. AgentsTypeOK
  BY DEF Init, AgentsInit, AgentsTypeOK
<1>2. OrchTypeOK
  BY DEF Init, OrchInit, OrchTypeOK
<1>3. ServiceTypeOK
  BY DEF Init, ServiceInit, ServiceTypeOK
<1> QED
  BY <1>1, <1>2, <1>3 DEF Init, TypeOK

LEMMA OrchResultType ==
  ASSUME TypeOK, NEW S, S = Kind \cup {"none"}
  PROVE  /\ OrchResult \in S
         /\ \A m \in Merged : m \in S
         /\ \A m \in Merged : m \in {"clean", "malformed"} \/ \E r \in Role : at[r] # "failed" /\ result[r] = m
<1>1. OrchResult \in S
  BY Cast DEF TypeOK, AgentsTypeOK, OrchTypeOK, OrchResult
<1>2. ASSUME NEW m \in Merged
      PROVE  m \in {"clean", "malformed"} \/ \E r \in Role : at[r] # "failed" /\ result[r] = m
  BY <1>2 DEF Merged, RoleFindings
<1>3. ASSUME NEW m \in Merged
      PROVE  m \in S
  BY <1>2, Cast DEF TypeOK, AgentsTypeOK, Kind
<1> QED
  BY <1>1, <1>2, <1>3

LEMMA TypeStep == TypeOK /\ [Next]_vars => TypeOK'
<1> SUFFICES ASSUME TypeOK, [Next]_vars PROVE TypeOK'
  OBVIOUS
<1> USE DEF TypeOK
<1>1. CASE CreateCheckRun
  BY <1>1 DEF CreateCheckRun, CreateRun, agentVars, orchVars, AgentsTypeOK, OrchTypeOK, ServiceTypeOK
<1>2. CASE FetchConfig
  BY <1>2 DEF FetchConfig, BeginPost, Fail, agentVars, orchVars, serviceVars,
              AgentsTypeOK, OrchTypeOK, ServiceTypeOK
<1>3. CASE FetchDiff
  <2>1. ServiceTypeOK' /\ checkId' \in BOOLEAN
    BY <1>3 DEF FetchDiff, serviceVars, ServiceTypeOK
  <2>2. CASE BeginPost("clean") /\ UNCHANGED <<agentVars, orchVars>>
    BY <2>1, <2>2 DEF BeginPost, agentVars, orchVars, AgentsTypeOK, OrchTypeOK
  <2>3. CASE stage' = "single" /\ LoopHead(Solo) /\ UNCHANGED <<cancel, result, orchVars, review, stale>>
    BY <2>1, <2>3, LoopHeadFacts, Cast DEF orchVars, AgentsTypeOK, OrchTypeOK, AtDomain
  <2>4. CASE stage' = "multi" /\ StartRoles /\ UNCHANGED <<review, stale>>
    BY <2>1, <2>4 DEF StartRoles, AgentsTypeOK, OrchTypeOK
  <2>5. CASE Fail /\ UNCHANGED <<agentVars, orchVars, review, stale>>
    BY <2>1, <2>5 DEF Fail, agentVars, orchVars, AgentsTypeOK, OrchTypeOK
  <2> QED
    BY <1>3, <2>2, <2>3, <2>4, <2>5 DEF FetchDiff
<1>4. CASE SoloEnds
  <2>1. AgentsTypeOK' /\ OrchTypeOK' /\ ServiceTypeOK' /\ checkId' \in BOOLEAN
    BY <1>4 DEF SoloEnds, agentVars, orchVars, serviceVars, AgentsTypeOK, OrchTypeOK, ServiceTypeOK
  <2>2. result[Solo] \in Kind \cup {"none"}
    BY Cast DEF AgentsTypeOK
  <2> QED
    BY <1>4, <2>1, <2>2 DEF SoloEnds, Build, BeginPost, Fail, Kind, AgentsTypeOK
<1>5. CASE OrchestratorEnds
  <2>1. AgentsTypeOK' /\ OrchTypeOK' /\ ServiceTypeOK' /\ checkId' \in BOOLEAN
    BY <1>5 DEF OrchestratorEnds, agentVars, orchVars, serviceVars, AgentsTypeOK, OrchTypeOK, ServiceTypeOK
  <2>2. OrchResult \in Kind \cup {"none"}
    BY OrchResultType
  <2> QED
    BY <1>5, <2>1, <2>2 DEF OrchestratorEnds, Build, BeginPost, Fail, Kind, AgentsTypeOK
<1>6. CASE PostReview
  BY <1>6 DEF PostReview, PostFindings, Findings, Fail, agentVars, orchVars,
              AgentsTypeOK, OrchTypeOK, ServiceTypeOK
<1>7. CASE Conclude
  BY <1>7 DEF Conclude, UpdateRun, Conclusion, Conclusions, Fail, agentVars, orchVars,
              AgentsTypeOK, OrchTypeOK, ServiceTypeOK
<1>8. CASE MarkFailure
  BY <1>8 DEF MarkFailure, UpdateRun, Conclusions, agentVars, orchVars,
              AgentsTypeOK, OrchTypeOK, ServiceTypeOK
<1>9. CASE OrchestratorStep
  <2>1. ServiceTypeOK' /\ UNCHANGED pipeVars
    BY <1>9 DEF OrchestratorStep, serviceVars, ServiceTypeOK
  <2>2. CASE Synthesize
    <3>1. AgentsTypeOK'
      BY <2>2, LoopHeadFacts, Cast DEF Synthesize, AgentsTypeOK, AtDomain
    <3>2. OrchTypeOK'
      BY <2>2, OrchResultType DEF Synthesize, OrchTypeOK
    <3> QED
      BY <2>1, <3>1, <3>2 DEF pipeVars
  <2>3. CASE GatherRaises \/ SynthesisEnds
    BY <2>1, <2>3 DEF GatherRaises, SynthesisEnds, agentVars, pipeVars, AgentsTypeOK, OrchTypeOK
  <2> QED
    BY <1>9, <2>2, <2>3 DEF OrchestratorStep
<1>10. CASE \E a \in Agent : AgentStep(a) /\ UNCHANGED <<orchVars, serviceVars, pipeVars>>
  BY <1>10, AgentStepFacts DEF orchVars, serviceVars, pipeVars, OrchTypeOK, ServiceTypeOK
<1>11. CASE Supersede /\ UNCHANGED <<orchVars, serviceVars, pipeVars>>
  BY <1>11 DEF Supersede, orchVars, serviceVars, pipeVars, AgentsTypeOK, OrchTypeOK, ServiceTypeOK
<1>12. CASE Interrupt
  <2>1. ServiceTypeOK'
    BY <1>12 DEF Interrupt, CutOffCall, CreateRun, PostFindings, UpdateRun, Findings, Conclusion,
                 Conclusions, serviceVars, ServiceTypeOK
  <2>2. AgentsTypeOK' /\ OrchTypeOK'
    <3>1. UNCHANGED <<cancel, turn, result, merged>>
      BY <1>12 DEF Interrupt
    <3>2. CASE stage = "single"
      BY <1>12, <3>1, <3>2, CancelFacts, Cast DEF Interrupt, AgentsTypeOK, OrchTypeOK, AtDomain
    <3>3. CASE stage = "multi"
      <4>1. CancelReaches \subseteq Agent
        BY Cast DEF CancelReaches
      <4> QED
        BY <1>12, <3>1, <3>3, <4>1, CancelFacts DEF Interrupt, AgentsTypeOK, OrchTypeOK, AtDomain
    <3>4. CASE stage \notin {"single", "multi"}
      BY <1>12, <3>1, <3>4 DEF Interrupt, AgentsTypeOK, OrchTypeOK
    <3> QED
      BY <3>2, <3>3, <3>4
  <2> QED
    BY <1>12, <2>1, <2>2 DEF Interrupt
<1>13. CASE UNCHANGED vars
  BY <1>13 DEF vars, agentVars, orchVars, serviceVars, pipeVars, AgentsTypeOK, OrchTypeOK, ServiceTypeOK
<1> QED
  BY <1>1, <1>2, <1>3, <1>4, <1>5, <1>6, <1>7, <1>8, <1>9, <1>10, <1>11, <1>12, <1>13
     DEF Next, PipelineStep

-----------------------------------------------------------------------------
(* What GitHub shows.                                                      *)
LEMMA GitHubInit == Init => GitHubInv
  BY DEF Init, ServiceInit, GitHubInv, ConclusionIsBacked, CheckRunIsSettled,
         FailureBesidesReviewIsGitHubs, Over, Before, Opening

(* A call that is cut off, by what the pipeline was waiting for.           *)
LEMMA CutOffFacts ==
  ASSUME TypeOK, Interrupt
  PROVE  /\ ~Over /\ stage' = "interrupted" /\ lost' = lost /\ refused' = refused
         /\ UNCHANGED <<review, checkId>>
         /\ posted' = posted \/ (stage = "post" /\ posted' = Findings /\ checkRun' = checkRun)
         /\ \/ checkRun' = checkRun
            \/ stage = "create" /\ checkRun' = "in_progress"
            \/ stage = "conclude" /\ checkRun' = Conclusion
            \/ stage = "failing" /\ checkRun' = "failure"
<1>1. PICK c \in CutOff : CutOffCall(c)
  BY DEF Interrupt
<1>2. c.answer \notin Errors /\ lost \in BOOLEAN
  BY DEF CutOff, Errors, TypeOK, ServiceTypeOK
<1>3. /\ ~Over /\ stage' = "interrupted"
      /\ UNCHANGED <<review, checkId>>
  BY DEF Interrupt
<1>4. CASE stage = "create"
  BY <1>1, <1>2, <1>3, <1>4 DEF CutOffCall, CreateRun
<1>5. CASE stage = "post"
  <2>1. PostFindings(c, Findings)
    BY <1>1, <1>5 DEF CutOffCall
  <2> QED
    BY <1>2, <1>3, <1>5, <2>1 DEF PostFindings
<1>6. CASE stage = "conclude"
  <2>1. UpdateRun(c, Conclusion)
    BY <1>1, <1>6 DEF CutOffCall
  <2> QED
    BY <1>2, <1>3, <1>6, <2>1 DEF UpdateRun
<1>7. CASE stage = "failing"
  <2>1. UpdateRun(c, "failure")
    BY <1>1, <1>7 DEF CutOffCall
  <2> QED
    BY <1>2, <1>3, <1>7, <2>1 DEF UpdateRun
<1>8. CASE stage \notin {"create", "post", "conclude", "failing"}
  BY <1>1, <1>3, <1>8 DEF CutOffCall, serviceVars
<1> QED
  BY <1>4, <1>5, <1>6, <1>7, <1>8

LEMMA GitHubStep == TypeOK /\ GitHubInv /\ [Next]_vars => GitHubInv'
<1> SUFFICES ASSUME TypeOK, GitHubInv, [Next]_vars PROVE GitHubInv'
  OBVIOUS
<1> USE DEF GitHubInv, ConclusionIsBacked, CheckRunIsSettled, FailureBesidesReviewIsGitHubs,
            Excused, Over, Before, Opening
<1>0. checkId \in BOOLEAN /\ refused \subseteq Conclusions /\ lost \in BOOLEAN
  BY DEF TypeOK, ServiceTypeOK
<1>1. CASE CreateCheckRun
  BY <1>1 DEF CreateCheckRun, CreateRun, Calls
<1>2. CASE FetchConfig
  BY <1>0, <1>2 DEF FetchConfig, BeginPost, Fail, serviceVars
<1>3. CASE FetchDiff
  BY <1>0, <1>3 DEF FetchDiff, BeginPost, Fail, serviceVars
<1>4. CASE SoloEnds
  BY <1>0, <1>4 DEF SoloEnds, Build, BeginPost, Fail, serviceVars
<1>5. CASE OrchestratorEnds
  BY <1>0, <1>5 DEF OrchestratorEnds, Build, BeginPost, Fail, serviceVars
<1>6. CASE PostReview
  <2>1. PICK c \in Calls :
          /\ PostFindings(c, Findings)
          /\ \/ c.answer = "ok" /\ stage' = IF checkId THEN "conclude" ELSE "done"
             \/ c.answer \in Errors /\ Fail
    BY <1>6 DEF PostReview
  <2>2. stage = "post" /\ UNCHANGED <<review, checkId>>
    BY <1>6 DEF PostReview
  <2>3. UNCHANGED <<checkRun, refused>> /\ Findings' = Findings
    BY <2>1, <2>2 DEF PostFindings, Findings
  <2>4. CASE c.answer = "ok" /\ stage' = IF checkId THEN "conclude" ELSE "done"
    <3>1. posted' = Findings
      BY <2>1, <2>4 DEF PostFindings, Calls
    <3> QED
      BY <1>0, <2>2, <2>3, <2>4, <3>1
  <2>5. CASE c.answer \in Errors /\ Fail
    <3>1. posted' = posted \/ lost'
      BY <2>1, <2>5 DEF PostFindings
    <3> QED
      BY <1>0, <2>2, <2>3, <2>5, <3>1 DEF Fail
  <2> QED
    BY <2>1, <2>4, <2>5
<1>7. CASE Conclude
  <2>1. PICK c \in Calls :
          /\ UpdateRun(c, Conclusion)
          /\ \/ c.answer = "ok" /\ stage' = "done"
             \/ c.answer \in Errors /\ Fail
    BY <1>7 DEF Conclude
  <2>2. stage = "conclude" /\ UNCHANGED <<review, checkId>> /\ posted' = posted
    BY <1>7, <2>1 DEF Conclude, UpdateRun
  <2>3. /\ Conclusion \in {"success", "action_required"}
        /\ Conclusion = "success" => posted = "none"
        /\ Conclusion = "action_required" => posted = "findings"
    BY <2>2 DEF Conclusion, Findings
  <2>4. checkRun' \in {checkRun, Conclusion}
    BY <2>1 DEF UpdateRun
  <2>5. CASE c.answer = "ok" /\ stage' = "done"
    <3>1. checkRun' = Conclusion
      BY <2>1, <2>5 DEF UpdateRun, Calls
    <3> QED
      BY <1>0, <2>2, <2>3, <2>5, <3>1
  <2>6. CASE c.answer \in Errors /\ Fail
    <3>1. Excused'
      BY <2>1, <2>3, <2>6 DEF UpdateRun
    <3> QED
      BY <1>0, <2>2, <2>3, <2>4, <2>6, <3>1 DEF Fail
  <2> QED
    BY <2>1, <2>5, <2>6
<1>8. CASE MarkFailure
  <2>1. PICK c \in Calls : UpdateRun(c, "failure")
    BY <1>8 DEF MarkFailure
  <2>2. stage = "failing" /\ stage' = "raised" /\ UNCHANGED <<review, checkId>>
    BY <1>8 DEF MarkFailure
  <2>3. /\ posted' = posted
        /\ checkRun' = "failure" \/ (checkRun' = checkRun /\ "failure" \in refused')
        /\ refused \subseteq refused' /\ (lost => lost')
    BY <1>0, <2>1 DEF UpdateRun, Calls
  <2> QED
    BY <1>0, <2>2, <2>3
<1>9. CASE UNCHANGED <<serviceVars, stage, review, checkId>>
  BY <1>9 DEF serviceVars, Findings
<1>10. CASE Interrupt
  BY <1>0, <1>10, CutOffFacts DEF Conclusion, Findings
<1>11. CASE \/ OrchestratorStep
            \/ Supersede /\ UNCHANGED <<orchVars, serviceVars, pipeVars>>
            \/ UNCHANGED vars
  BY <1>9, <1>11 DEF OrchestratorStep, pipeVars, vars
<1>12. CASE \E a \in Agent : AgentStep(a) /\ UNCHANGED <<orchVars, serviceVars, pipeVars>>
  BY <1>9, <1>12 DEF pipeVars
<1> QED
  BY <1>1, <1>2, <1>3, <1>4, <1>5, <1>6, <1>7, <1>8, <1>10, <1>11, <1>12
     DEF Next, PipelineStep

-----------------------------------------------------------------------------
(* Where the agents are.                                                   *)
LEMMA AgentsAtStart == Init => AgentsInv
  BY DEF Init, AgentsInit, OrchInit, AgentsInv, Lineup, Working, OrphansOnlyAfterCrash,
         Opening, Over, Running

(* An agent that has ended stays as it is; so do the roles' ends.          *)
LEMMA EndsStay ==
  ASSUME AgentsTypeOK, NEW a \in Agent, AgentStep(a), NEW b \in Agent
  PROVE  /\ ~Running(b) => b # a /\ ~Running(b)' /\ at'[b] = at[b] /\ result'[b] = result[b]
         /\ RoleEnded(b) => b # a /\ RoleEnded(b)'
         /\ RoleRaised(b) => b # a /\ RoleRaised(b)'
  BY AgentStepFacts DEF Running, RoleEnded, RoleRaised

LEMMA EndedNotRunning ==
  ASSUME NEW b
  PROVE  RoleEnded(b) \/ RoleRaised(b) => ~Running(b)
  BY DEF Running, RoleEnded, RoleRaised

LEMMA AgentsPipelineStep ==
  ASSUME TypeOK, AgentsInv, PipelineStep
  PROVE  AgentsInv'
<1>1. CASE CreateCheckRun \/ FetchConfig
  <2>1. /\ stage \in Opening /\ stage' \notin {"single", "multi"}
        /\ UNCHANGED <<agentVars, orchVars>>
    BY <1>1 DEF CreateCheckRun, FetchConfig, BeginPost, Fail, Opening
  <2> QED
    BY <2>1 DEF AgentsInv, Lineup, Working, OrphansOnlyAfterCrash, Running, agentVars, orchVars
<1>2. CASE FetchDiff
  <2>1. stage = "diff" /\ orch = "off" /\ \A a \in Agent : at[a] = "idle" /\ turn[a] = 0
    BY <1>2 DEF FetchDiff, AgentsInv, Lineup, Opening
  <2>2. CASE UNCHANGED <<agentVars, orchVars>> /\ stage' \in {"post", "failing", "raised"}
    BY <2>1, <2>2 DEF AgentsInv, Lineup, Working, OrphansOnlyAfterCrash, Running, agentVars, orchVars,
                      Opening
  <2>3. CASE stage' = "single" /\ LoopHead(Solo)
    BY <2>1, <2>3, LoopHeadFacts, Cast
       DEF AgentsInv, Lineup, Working, OrphansOnlyAfterCrash, Opening, Over, TypeOK, AgentsTypeOK
  <2>4. CASE stage' = "multi" /\ StartRoles
    BY <2>1, <2>4, Cast
       DEF StartRoles, AgentsInv, Lineup, Working, OrphansOnlyAfterCrash, Opening, Over
  <2> QED
    BY <1>2, <2>2, <2>3, <2>4 DEF FetchDiff, BeginPost, Fail
<1>3. CASE SoloEnds
  <2>1. /\ stage = "single" /\ stage' \in {"post", "failing", "raised"}
        /\ UNCHANGED <<agentVars, orchVars>> /\ ~Running(Solo)
    BY <1>3 DEF SoloEnds, Build, BeginPost, Fail, Running
  <2> QED
    BY <2>1 DEF AgentsInv, Lineup, Working, OrphansOnlyAfterCrash, Running, agentVars, orchVars,
                Opening
<1>4. CASE OrchestratorEnds
  <2>1. /\ stage = "multi" /\ stage' \in {"post", "failing", "raised"}
        /\ UNCHANGED <<agentVars, orchVars>> /\ orch \in {"returned", "raised"}
    BY <1>4 DEF OrchestratorEnds, Build, BeginPost, Fail
  <2>2. ~Running(Solo) /\ ~Running(Synth) /\ (RolesEnded \/ \E r \in Role : RoleRaised(r))
    BY <2>1 DEF AgentsInv, Lineup, Running
  <2>3. \A a \in Agent : Running(a) => a \in Role /\ \E r \in Role : RoleRaised(r)
    BY <2>2, EndedNotRunning, Cast DEF RolesEnded
  <2> QED
    BY <2>1, <2>3 DEF AgentsInv, Lineup, Working, OrphansOnlyAfterCrash, Running, RoleRaised,
                      agentVars, orchVars, Opening
<1>5. CASE PostReview \/ Conclude \/ MarkFailure
  <2>1. /\ stage \in {"post", "conclude", "failing"} /\ UNCHANGED <<agentVars, orchVars>>
        /\ stage' \in {"conclude", "failing", "done", "raised"}
    BY <1>5 DEF PostReview, Conclude, MarkFailure, Fail
  <2> QED
    BY <2>1 DEF AgentsInv, Lineup, Working, OrphansOnlyAfterCrash, Running, RoleRaised,
                agentVars, orchVars, Opening
<1> QED
  BY <1>1, <1>2, <1>3, <1>4, <1>5 DEF PipelineStep

LEMMA AgentsOrchestratorStep ==
  ASSUME TypeOK, AgentsInv, OrchestratorStep
  PROVE  AgentsInv'
<1>1. /\ stage = "multi" /\ stage' = stage /\ at[Solo] = "idle"
      /\ orch \in {"gathering", "synthesis"}
      /\ orch = "gathering" => at[Synth] = "idle"
      /\ orch = "synthesis" => RolesEnded
  BY DEF OrchestratorStep, pipeVars, Synthesize, GatherRaises, SynthesisEnds, AgentsInv, Lineup
<1>2. CASE Synthesize
  <2>1. /\ RolesEnded /\ orch' = "synthesis"
        /\ LoopHead(Synth) /\ result' = result
    BY <1>2 DEF Synthesize, RolesEnded
  <2>2. RolesEnded' /\ at'[Solo] = "idle"
    BY <1>1, <2>1, LoopHeadFacts, Cast DEF RolesEnded, RoleEnded, TypeOK
  <2>3. Working'
    BY <2>1, LoopHeadFacts, Cast DEF AgentsInv, Working, TypeOK, AgentsTypeOK
  <2> QED
    BY <1>1, <2>1, <2>2, <2>3 DEF AgentsInv, Lineup, OrphansOnlyAfterCrash, Opening, Over
<1>3. CASE GatherRaises
  <2>1. /\ UNCHANGED agentVars /\ orch' = "raised" /\ ~Running(Synth)
        /\ RolesEnded \/ \E r \in Role : RoleRaised(r)
    BY <1>1, <1>3 DEF GatherRaises, RolesEnded, Running
  <2> QED
    BY <1>1, <2>1 DEF AgentsInv, Lineup, Working, OrphansOnlyAfterCrash, Opening, Over, agentVars,
                      Running, RolesEnded, RoleEnded, RoleRaised
<1>4. CASE SynthesisEnds
  <2>1. /\ UNCHANGED agentVars /\ RolesEnded /\ ~Running(Synth)
        /\ \/ orch' = "raised"
           \/ orch' = "returned" /\ at[Synth] \in {"returned", "failed"}
    BY <1>1, <1>4 DEF SynthesisEnds, Running
  <2> QED
    BY <1>1, <2>1 DEF AgentsInv, Lineup, Working, OrphansOnlyAfterCrash, Opening, Over, agentVars,
                      Running, RolesEnded, RoleEnded, RoleRaised
<1> QED
  BY <1>2, <1>3, <1>4 DEF OrchestratorStep

LEMMA AgentsAgentStep ==
  ASSUME TypeOK, AgentsInv, NEW a \in Agent, AgentStep(a), UNCHANGED <<orchVars, serviceVars, pipeVars>>
  PROVE  AgentsInv'
<1>1. stage' = stage /\ orch' = orch /\ Running(a) /\ AgentsTypeOK
  BY AgentStepFacts DEF orchVars, pipeVars, TypeOK
<1>2. Working'
  BY <1>1, AgentStepFacts DEF AgentsInv, Working, AgentsTypeOK
<1>3. \A b \in Agent : at[b] = "idle" => at'[b] = "idle"
  BY <1>1, EndsStay DEF Running
<1>4. RolesEnded => RolesEnded'
  BY <1>1, EndsStay, Cast DEF RolesEnded
<1>5. (\E r \in Role : RoleRaised(r)) => \E r \in Role : RoleRaised(r)'
  BY <1>1, EndsStay, Cast
<1>6. Lineup'
  <2>1. CASE stage = "multi"
    BY <1>1, <1>3, <1>4, <1>5, <2>1, EndsStay, Cast
       DEF AgentsInv, Lineup, Opening, Running
  <2>2. CASE stage # "multi"
    BY <1>1, <1>3, <2>2, AgentStepFacts DEF AgentsInv, Lineup, Opening, Running
  <2> QED
    BY <2>1, <2>2
<1>7. OrphansOnlyAfterCrash'
  BY <1>1, <1>5, AgentStepFacts DEF AgentsInv, OrphansOnlyAfterCrash, Over, Running
<1> QED
  BY <1>2, <1>6, <1>7 DEF AgentsInv

LEMMA AgentsInterrupt ==
  ASSUME TypeOK, AgentsInv, Interrupt
  PROVE  AgentsInv'
<1>1. stage' = "interrupted" /\ UNCHANGED <<cancel, turn, result, merged>> /\ ~Over
  BY DEF Interrupt
<1>2. AgentsTypeOK
  BY DEF TypeOK
<1>3. SUFFICES Working' /\ OrphansOnlyAfterCrash'
  BY <1>1 DEF AgentsInv, Lineup, Opening
<1>4. CASE stage = "single"
  <2>1. CancelAgents({Solo})
    BY <1>4 DEF Interrupt
  <2>2. \A b \in Agent : at'[b] \in {at[b], "cancelled"} /\ ~Running(b)'
    BY <1>2, <1>4, <2>1, CancelFacts, Cast DEF AgentsInv, Lineup, Running
  <2> QED
    BY <1>1, <2>2 DEF AgentsInv, Working, OrphansOnlyAfterCrash
<1>5. CASE stage = "multi"
  <2>1. CancelAgents(CancelReaches) /\ CancelReaches \in SUBSET Agent
    BY <1>5, Cast DEF Interrupt, CancelReaches
  <2>2. \A b \in Agent : at'[b] \in {at[b], "cancelled"} /\ (Running(b)' => Running(b) /\ b \notin CancelReaches)
    BY <1>2, <2>1, CancelFacts DEF Running
  <2>3. \A b \in Agent : ~Running(b) => at'[b] = at[b]
    BY <1>2, <2>1, CancelFacts
  <2>4. (\E r \in Role : RoleRaised(r)) => \E r \in Role : RoleRaised(r)'
    BY <1>1, <2>3, EndedNotRunning, Cast DEF RoleRaised
  <2>5. ASSUME NEW b \in Agent, Running(b), b \notin CancelReaches
        PROVE  b \in Role /\ \E r \in Role : RoleRaised(r)
    <3>1. b # Solo
      BY <1>5, <2>5 DEF AgentsInv, Lineup, Running
    <3>2. CASE orch = "gathering"
      BY <1>5, <2>5, <3>1, <3>2, Cast DEF CancelReaches, AgentsInv, Lineup, Running
    <3>3. CASE orch # "gathering"
      <4>1. b \in Role
        BY <2>5, <3>1, <3>3, Cast DEF CancelReaches
      <4>2. ~RolesEnded
        BY <2>5, <4>1, EndedNotRunning DEF RolesEnded
      <4> QED
        BY <1>5, <3>3, <4>1, <4>2 DEF AgentsInv, Lineup
    <3> QED
      BY <3>2, <3>3
  <2> QED
    BY <1>1, <2>2, <2>4, <2>5 DEF AgentsInv, Working, OrphansOnlyAfterCrash
<1>6. CASE stage \notin {"single", "multi"}
  <2>1. at' = at
    BY <1>6 DEF Interrupt
  <2>2. stage \in Opening \/ stage \in {"post", "conclude", "failing"}
    BY <1>1, <1>6 DEF TypeOK, Over, Opening
  <2> QED
    BY <1>1, <2>1, <2>2 DEF AgentsInv, Lineup, Working, OrphansOnlyAfterCrash, Running, RoleRaised
<1> QED
  BY <1>4, <1>5, <1>6

LEMMA AgentsInvStep == TypeOK /\ AgentsInv /\ [Next]_vars => AgentsInv'
<1> SUFFICES ASSUME TypeOK, AgentsInv, [Next]_vars PROVE AgentsInv'
  OBVIOUS
<1>1. CASE \/ Supersede /\ UNCHANGED <<orchVars, serviceVars, pipeVars>>
           \/ UNCHANGED vars
  <2>1. UNCHANGED <<at, turn, result, orch, stage>>
    BY <1>1 DEF Supersede, vars, agentVars, orchVars, pipeVars
  <2> QED
    BY <2>1 DEF AgentsInv, Lineup, Working, OrphansOnlyAfterCrash, Over, Running, RolesEnded,
                RoleEnded, RoleRaised, Opening
<1> QED
  BY <1>1, AgentsPipelineStep, AgentsOrchestratorStep, AgentsAgentStep, AgentsInterrupt DEF Next

-----------------------------------------------------------------------------
(* Where findings come from.                                               *)
LEMMA AuthorAtStart == Init => AuthorInv
  BY DEF Init, AgentsInit, OrchInit, ServiceInit, AuthorInv, FindingsHaveAnAuthor

(* What can be lost of an agent: nothing, once it has a result.            *)
LEMMA AuthorStays ==
  ASSUME \A a \in Agent : result[a] # "none" => result'[a] = result[a],
         at[Synth] = "failed" => at'[Synth] = "failed",
         Author
  PROVE  Author'
  BY Cast DEF Author

LEMMA AuthorPipelineStep ==
  ASSUME TypeOK, AgentsInv, GitHubInv, AuthorInv, PipelineStep
  PROVE  AuthorInv'
<1>1. /\ merged' = merged /\ result' = result
      /\ \A a \in Agent : result[a] # "none" => at'[a] = "returned"
      /\ at[Synth] = "failed" => at'[Synth] = "failed"
  <2>1. CASE FetchDiff
    <3>1. \A a \in Agent : at[a] = "idle"
      BY <2>1 DEF FetchDiff, AgentsInv, Lineup, Opening
    <3>2. \A a \in Agent : result[a] = "none"
      BY <3>1 DEF AuthorInv
    <3> QED
      BY <2>1, <3>1, <3>2, Cast DEF FetchDiff, StartRoles, agentVars, orchVars
  <2>2. CASE ~FetchDiff
    BY <2>2 DEF PipelineStep, CreateCheckRun, FetchConfig, SoloEnds, OrchestratorEnds, PostReview,
                Conclude, MarkFailure, agentVars, orchVars, AuthorInv
  <2> QED
    BY <2>1, <2>2
<1>2. Author => Author'
  BY <1>1, AuthorStays
<1>3. review' = review \/ review' # "valid" \/ Author
  <2>1. CASE SoloEnds
    BY <2>1 DEF SoloEnds, Build, BeginPost, Author
  <2>2. CASE OrchestratorEnds
    <3>1. review' = review \/ (orch = "returned" /\ review' = OrchResult)
      BY <2>2 DEF OrchestratorEnds, Build, BeginPost
    <3>2. orch = "returned" => at[Synth] \in {"returned", "failed"}
      BY <2>2 DEF OrchestratorEnds, AgentsInv, Lineup
    <3> QED
      BY <3>1, <3>2 DEF OrchResult, Author, AuthorInv
  <2>3. CASE ~SoloEnds /\ ~OrchestratorEnds
    BY <2>3 DEF PipelineStep, CreateCheckRun, FetchConfig, FetchDiff, PostReview, Conclude,
                MarkFailure, BeginPost
  <2> QED
    BY <2>1, <2>2, <2>3
<1>4. posted' = posted \/ posted' # "findings" \/ review = "valid"
  BY DEF PipelineStep, CreateCheckRun, FetchConfig, FetchDiff, SoloEnds, OrchestratorEnds, PostReview,
         Conclude, MarkFailure, CreateRun, PostFindings, UpdateRun, Findings, serviceVars
<1>5. (posted = "findings" \/ review = "valid") => Author
  BY DEF AuthorInv, FindingsHaveAnAuthor, Author
<1>6. (posted' = "findings" \/ review' = "valid") => Author'
  BY <1>2, <1>3, <1>4, <1>5
<1> QED
  BY <1>1, <1>6 DEF AuthorInv, FindingsHaveAnAuthor, Author

(* What every other step keeps.                                            *)
Kept ==
  /\ \A a \in Agent : result[a] # "none" => result'[a] = result[a] /\ at'[a] = at[a]
  /\ \A a \in Agent : result'[a] = result[a] \/ at'[a] = "returned"
  /\ at[Synth] = "failed" => at'[Synth] = "failed"
  /\ review' = review
  /\ posted' \in {posted, Findings}
  /\ (merged' # merged /\ merged' = "valid") => \E r \in Role : result[r] = "valid"

LEMMA AuthorElsewhere ==
  ASSUME TypeOK, AuthorInv, Kept
  PROVE  AuthorInv'
<1> USE DEF Kept
<1>1. Author => Author'
  BY AuthorStays
<1>2. (\E r \in Role : result[r] = "valid") => \E r \in Role : result'[r] = "valid"
  BY Cast
<1>3. (posted' = "findings" \/ review' = "valid") => Author'
  BY <1>1 DEF AuthorInv, FindingsHaveAnAuthor, Author, Findings
<1> QED
  BY <1>2, <1>3 DEF AuthorInv, FindingsHaveAnAuthor, Author

LEMMA AuthorStep == TypeOK /\ AgentsInv /\ GitHubInv /\ AuthorInv /\ [Next]_vars => AuthorInv'
<1> SUFFICES ASSUME TypeOK, AgentsInv, GitHubInv, AuthorInv, [Next]_vars PROVE AuthorInv'
  OBVIOUS
<1>0. AgentsTypeOK
  BY DEF TypeOK
<1>1. CASE OrchestratorStep
  <2>1. UNCHANGED <<review, posted, result>> /\ orch \in {"gathering", "synthesis"}
    BY <1>1 DEF OrchestratorStep, Synthesize, GatherRaises, SynthesisEnds, agentVars, serviceVars, pipeVars
  <2>2. CASE Synthesize
    <3>1. at[Synth] = "idle" /\ LoopHead(Synth)
      BY <1>1, <2>2 DEF OrchestratorStep, Synthesize, AgentsInv, Lineup
    <3>2. merged' # "valid" \/ \E r \in Role : result[r] = "valid"
      BY <2>2, OrchResultType DEF Synthesize
    <3>3. \A a \in Agent : result[a] # "none" => at'[a] = at[a]
      BY <1>0, <3>1, LoopHeadFacts, Cast DEF AuthorInv
    <3>4. Kept
      BY <2>1, <3>1, <3>2, <3>3 DEF Kept
    <3> QED
      BY <3>4, AuthorElsewhere
  <2>3. CASE GatherRaises \/ SynthesisEnds
    <3>1. UNCHANGED <<at, merged>>
      BY <2>3 DEF GatherRaises, SynthesisEnds, agentVars
    <3>2. Kept
      BY <2>1, <3>1 DEF Kept
    <3> QED
      BY <3>2, AuthorElsewhere
  <2> QED
    BY <1>1, <2>2, <2>3 DEF OrchestratorStep
<1>2. ASSUME NEW a \in Agent, AgentStep(a), UNCHANGED <<orchVars, serviceVars, pipeVars>>
      PROVE  AuthorInv'
  <2>1. result[a] = "none"
    BY <1>0, <1>2, AgentStepFacts DEF AuthorInv, Running
  <2>2. \A b \in Agent : /\ result'[b] = result[b] \/ at'[b] = "returned"
                         /\ result[b] # "none" => result'[b] = result[b] /\ at'[b] = at[b]
    BY <1>0, <1>2, <2>1, AgentStepFacts
  <2>3. at[Synth] = "failed" => at'[Synth] = "failed"
    BY <1>0, <1>2, EndsStay, Cast DEF Running
  <2>5. Kept
    BY <1>2, <2>2, <2>3 DEF Kept, orchVars, serviceVars, pipeVars
  <2> QED
    BY <2>5, AuthorElsewhere
<1>3. CASE \/ Supersede /\ UNCHANGED <<orchVars, serviceVars, pipeVars>>
           \/ UNCHANGED vars
  <2>1. UNCHANGED <<at, result, merged, review, posted>>
    BY <1>3 DEF Supersede, vars, agentVars, orchVars, serviceVars, pipeVars
  <2>5. Kept
    BY <2>1 DEF Kept
  <2> QED
    BY <2>5, AuthorElsewhere
<1>4. CASE Interrupt
  <2>1. UNCHANGED <<result, merged, review>> /\ (posted' = posted \/ posted' = Findings)
    BY <1>4, CutOffFacts DEF Interrupt
  <2>2. \A b \in Agent : ~Running(b) => at'[b] = at[b]
    <3>1. CASE stage = "single"
      BY <1>0, <1>4, <3>1, CancelFacts, Cast DEF Interrupt
    <3>2. CASE stage = "multi"
      <4>1. CancelAgents(CancelReaches) /\ CancelReaches \in SUBSET Agent
        BY <1>4, <3>2, Cast DEF Interrupt, CancelReaches
      <4> QED
        BY <1>0, <4>1, CancelFacts
    <3>3. CASE stage \notin {"single", "multi"}
      BY <1>4, <3>3 DEF Interrupt
    <3> QED
      BY <3>1, <3>2, <3>3
  <2>3. \A b \in Agent : result[b] # "none" => at'[b] = at[b]
    BY <2>2 DEF AuthorInv, Running
  <2>4. at[Synth] = "failed" => at'[Synth] = "failed"
    BY <2>2, Cast DEF Running
  <2>5. Kept
    BY <2>1, <2>3, <2>4 DEF Kept
  <2> QED
    BY <2>5, AuthorElsewhere
<1> QED
  BY <1>1, <1>2, <1>3, <1>4, AuthorPipelineStep DEF Next

-----------------------------------------------------------------------------
(* Where no findings come from.                                            *)
LEMMA UnheardAtStart == Init => UnheardInv
  BY DEF Init, AgentsInit, OrchInit, ServiceInit, UnheardInv

(* What a step keeps that neither merges findings nor builds a review.     *)
HeardKept ==
  /\ review' = review /\ merged' = merged
  /\ stage' \in Opening \cup {"single", "multi"} => stage \in Opening \cup {"single", "multi"}
  /\ \A r \in Role : RoleEnded(r) => at'[r] = at[r] /\ result'[r] = result[r]
  /\ at'[Synth] = "failed" => at[Synth] = "failed" \/ review = "none"

LEMMA UnheardKept ==
  ASSUME UnheardInv, HeardKept
  PROVE  UnheardInv'
<1>1. (merged = "clean" => \A r \in Role : RoleEnded(r) /\ RoleFindings(r) = "clean")'
  BY DEF UnheardInv, HeardKept, RoleEnded, RoleFindings
<1> QED
  BY <1>1 DEF UnheardInv, HeardKept

LEMMA UnheardStep == TypeOK /\ AgentsInv /\ UnheardInv /\ [Next]_vars => UnheardInv'
<1> SUFFICES ASSUME TypeOK, AgentsInv, UnheardInv, [Next]_vars PROVE UnheardInv'
  OBVIOUS
<1>0. AgentsTypeOK
  BY DEF TypeOK
<1>1. CASE PipelineStep
  <2>1. /\ merged' = merged
        /\ \A r \in Role : RoleEnded(r) => at'[r] = at[r] /\ result'[r] = result[r]
        /\ at'[Synth] = "failed" => at[Synth] = "failed"
    <3>1. CASE FetchDiff
      <4>1. \A a \in Agent : at[a] = "idle"
        BY <3>1 DEF FetchDiff, AgentsInv, Lineup, Opening
      <4> QED
        BY <1>0, <3>1, <4>1, Cast, LoopHeadFacts
           DEF FetchDiff, StartRoles, agentVars, orchVars, RoleEnded, AgentsTypeOK
    <3>2. CASE ~FetchDiff
      BY <1>1, <3>2 DEF PipelineStep, CreateCheckRun, FetchConfig, SoloEnds, OrchestratorEnds, PostReview,
                  Conclude, MarkFailure, agentVars, orchVars
    <3> QED
      BY <3>1, <3>2
  <2>2. \/ review' = review
        \/ stage' = "post" /\ at[Synth] = "idle"
        \/ stage' = "post" /\ review' = OrchResult
    <3>1. CASE FetchConfig \/ FetchDiff \/ SoloEnds
      <4>1. at[Synth] = "idle"
        BY <3>1, Cast DEF FetchConfig, FetchDiff, SoloEnds, AgentsInv, Lineup, Opening
      <4> QED
        BY <3>1, <4>1 DEF FetchConfig, FetchDiff, SoloEnds, BeginPost, Build
    <3>2. CASE OrchestratorEnds
      BY <3>2 DEF OrchestratorEnds, Build, BeginPost
    <3>3. CASE CreateCheckRun \/ PostReview \/ Conclude \/ MarkFailure
      BY <3>3 DEF CreateCheckRun, PostReview, Conclude, MarkFailure
    <3> QED
      BY <1>1, <3>1, <3>2, <3>3 DEF PipelineStep
  <2>3. stage' \in Opening \cup {"single", "multi"} =>
          stage \in Opening \cup {"single", "multi"}
    BY <1>1 DEF PipelineStep, CreateCheckRun, FetchConfig, FetchDiff, SoloEnds, OrchestratorEnds,
                PostReview, Conclude, MarkFailure, BeginPost, Build, Fail, Opening
  <2>4. CASE review' = review
    <3>1. HeardKept
      BY <2>1, <2>3, <2>4 DEF HeardKept
    <3> QED
      BY <3>1, UnheardKept
  <2>5. CASE review' # review
    <3>1. (merged = "clean" => \A r \in Role : RoleEnded(r) /\ RoleFindings(r) = "clean")'
      BY <2>1 DEF UnheardInv, RoleEnded, RoleFindings
    <3>2. stage' = "post" /\ ((review' = "clean" /\ at'[Synth] = "failed") => merged' = "clean")
      BY <2>1, <2>2, <2>5 DEF OrchResult
    <3> QED
      BY <3>1, <3>2 DEF UnheardInv, Opening
  <2> QED
    BY <2>4, <2>5
<1>2. CASE OrchestratorStep
  <2>1. review' = "none" /\ review = "none" /\ stage' = stage /\ stage = "multi"
    BY <1>2 DEF OrchestratorStep, pipeVars, UnheardInv
  <2>2. CASE Synthesize
    <3>1. \A r \in Role : at'[r] = at[r] /\ result'[r] = result[r]
      BY <1>0, <2>2, LoopHeadFacts, Cast DEF Synthesize
    <3>2. merged' = "clean" => \A r \in Role : RoleFindings(r) = "clean"
      BY <2>2 DEF Synthesize, Merged
    <3>3. \A r \in Role : RoleEnded(r)
      BY <2>2 DEF Synthesize
    <3>4. (merged = "clean" => \A r \in Role : RoleEnded(r) /\ RoleFindings(r) = "clean")'
      BY <3>1, <3>2, <3>3 DEF RoleEnded, RoleFindings
    <3> QED
      BY <2>1, <3>4 DEF UnheardInv
  <2>3. CASE GatherRaises \/ SynthesisEnds
    <3>1. HeardKept
      BY <2>1, <2>3 DEF GatherRaises, SynthesisEnds, agentVars, HeardKept
    <3> QED
      BY <3>1, UnheardKept
  <2> QED
    BY <1>2, <2>2, <2>3 DEF OrchestratorStep
<1>3. ASSUME NEW a \in Agent, AgentStep(a), UNCHANGED <<orchVars, serviceVars, pipeVars>>
      PROVE  UnheardInv'
  <2>1. \A r \in Role : RoleEnded(r) => at'[r] = at[r] /\ result'[r] = result[r]
    BY <1>0, <1>3, EndsStay, EndedNotRunning, Cast
  <2>2. CASE a = Synth
    <3>1. stage \in Opening \cup {"single", "multi"}
      BY <1>0, <1>3, <2>2, AgentStepFacts, Cast
         DEF AgentsInv, OrphansOnlyAfterCrash, TypeOK, Over, Opening
    <3>2. HeardKept
      BY <1>3, <2>1, <3>1 DEF HeardKept, UnheardInv, orchVars, pipeVars
    <3> QED
      BY <3>2, UnheardKept
  <2>3. CASE a # Synth
    <3>1. at'[Synth] = at[Synth]
      BY <1>0, <1>3, <2>3, AgentStepFacts, Cast
    <3>2. HeardKept
      BY <1>3, <2>1, <3>1 DEF HeardKept, orchVars, pipeVars
    <3> QED
      BY <3>2, UnheardKept
  <2> QED
    BY <2>2, <2>3
<1>4. CASE \/ Supersede /\ UNCHANGED <<orchVars, serviceVars, pipeVars>>
           \/ UNCHANGED vars
  <2>1. HeardKept
    BY <1>4 DEF Supersede, HeardKept, vars, agentVars, orchVars, pipeVars
  <2> QED
    BY <2>1, UnheardKept
<1>5. CASE Interrupt
  <2>1. UNCHANGED <<result, merged, review>> /\ stage' = "interrupted"
    BY <1>5 DEF Interrupt
  <2>2. \A b \in Agent : at'[b] = at[b] \/ (Running(b) /\ at'[b] = "cancelled")
    <3>1. CASE stage = "single"
      BY <1>0, <1>5, <3>1, CancelFacts, Cast DEF Interrupt
    <3>2. CASE stage = "multi"
      <4>1. CancelAgents(CancelReaches) /\ CancelReaches \in SUBSET Agent
        BY <1>5, <3>2, Cast DEF Interrupt, CancelReaches
      <4> QED
        BY <1>0, <4>1, CancelFacts
    <3>3. CASE stage \notin {"single", "multi"}
      BY <1>5, <3>3 DEF Interrupt
    <3> QED
      BY <3>1, <3>2, <3>3
  <2>3. HeardKept
    BY <2>1, <2>2, EndedNotRunning, Cast DEF HeardKept, Opening
  <2> QED
    BY <2>3, UnheardKept
<1> QED
  BY <1>1, <1>2, <1>3, <1>4, <1>5 DEF Next

-----------------------------------------------------------------------------
(* GitHub, the agents and the authors of findings at every stage           *)
(* (run_review_pipeline, run_orchestrated_review).                         *)
THEOREM Invariance == Spec => []PInv
<1>1. Init => PInv
  BY TypeInit, GitHubInit, AgentsAtStart, AuthorAtStart, UnheardAtStart DEF PInv
<1>2. PInv /\ [Next]_vars => PInv'
  BY TypeStep, GitHubStep, AgentsInvStep, AuthorStep, UnheardStep DEF PInv
<1> QED
  BY <1>1, <1>2, PTL DEF Spec

-----------------------------------------------------------------------------
(* The contract of a review, stated without substitutions.                 *)
Asked == \E a \in Agent : turn[a] > 0
Draft == IF stage = "post" THEN Findings ELSE "none"

LEMMA ToStutter ==
  ASSUME UNCHANGED <<cancel, Phase, Asked, Draft, posted>>
  PROVE  UNCHANGED Contract!contractVars
  BY DEF Contract!contractVars, Asked, Draft

LEMMA ToOpen ==
  ASSUME Phase = "opening", Phase' \in {"reviewing", "posting", "closing", "over"},
         ~Asked' \/ (Asked' /\ Phase' = "reviewing" /\ ~cancel),
         UNCHANGED <<cancel, Draft, posted>>
  PROVE  Contract!Open
  BY DEF Contract!Open, Asked, Draft

LEMMA ToAsk ==
  ASSUME Phase # "opening", ~cancel, Asked', UNCHANGED <<cancel, Phase, Draft, posted>>
  PROVE  Contract!Ask
  BY DEF Contract!Ask, Asked, Draft

LEMMA ToAnswer ==
  ASSUME Phase = "reviewing",
         \/ Phase' = "posting" /\ (Draft' = "none" \/ (Asked /\ Draft' = "findings"))
         \/ Phase' \in {"closing", "over"} /\ Draft' = Draft,
         UNCHANGED <<cancel, Asked, posted>>
  PROVE  Contract!Answer
  BY DEF Contract!Answer, Asked, Draft

LEMMA ToPost ==
  ASSUME Phase = "posting", posted' \in {posted, Draft}, Phase' \in {"closing", "over"},
         Draft' = "none", UNCHANGED <<cancel, Asked>>
  PROVE  Contract!Post
  BY DEF Contract!Post, Asked, Draft

LEMMA ToClose ==
  ASSUME Phase \in {"opening", "reviewing", "closing"}, Phase' = "over",
         UNCHANGED <<cancel, Asked, Draft, posted>>
  PROVE  Contract!Close
  BY DEF Contract!Close, Asked, Draft

LEMMA OpeningFacts ==
  ASSUME AgentsInv, stage \in Opening
  PROVE  Phase = "opening" /\ Draft = "none" /\ ~Asked
  BY DEF AgentsInv, Lineup, Asked, Draft, Phase, Opening

(* A valid result took a call of the model.                                *)
LEMMA AuthorsAsked ==
  ASSUME AgentsInv, AuthorInv, NEW a \in Agent, result[a] # "none"
  PROVE  Asked
  BY DEF AgentsInv, Working, AuthorInv, Asked

LEMMA ContractPipelineStep ==
  ASSUME PInv, PipelineStep
  PROVE  Contract!Next \/ UNCHANGED Contract!contractVars
<1> USE DEF Contract!Next
<1>0. cancel' = cancel /\ TypeOK /\ AgentsInv /\ AgentsTypeOK /\ AuthorInv
  BY DEF PInv, TypeOK, PipelineStep, CreateCheckRun, FetchConfig, FetchDiff, SoloEnds, OrchestratorEnds,
         PostReview, Conclude, MarkFailure, StartRoles, agentVars
<1>1. CASE CreateCheckRun
  <2>1. /\ stage = "create" /\ stage' \in {"raised", "config"}
        /\ UNCHANGED <<turn, posted>>
    BY <1>1 DEF CreateCheckRun, CreateRun, agentVars
  <2>2. Asked' = Asked /\ Draft' = Draft /\ Phase = "opening"
    BY <2>1 DEF Asked, Draft, Phase
  <2>3. CASE stage' = "raised"
    <3>1. Phase' = "over"
      BY <2>3 DEF Phase
    <3> QED
      BY <1>0, <2>1, <2>2, <3>1, ToClose
  <2>4. CASE stage' = "config"
    <3>1. Phase' = "opening"
      BY <2>4 DEF Phase
    <3> QED
      BY <1>0, <2>1, <2>2, <3>1, ToStutter
  <2> QED
    BY <2>1, <2>3, <2>4
<1>2. CASE FetchConfig
  <2>1. /\ stage = "config" /\ stage' \in {"diff", "post", "failing", "raised"}
        /\ stage' = "post" => review' = "clean"
        /\ UNCHANGED <<turn, posted>>
    BY <1>2 DEF FetchConfig, BeginPost, Fail, agentVars, serviceVars
  <2>2. Phase = "opening" /\ Draft = "none" /\ ~Asked
    BY <1>0, <2>1, OpeningFacts DEF Opening
  <2>3. ~Asked' /\ Draft' = "none"
    BY <2>1, <2>2 DEF Asked, Draft, Findings
  <2>4. CASE stage' = "diff"
    <3>1. Phase' = "opening"
      BY <2>4 DEF Phase
    <3>2. Asked' = Asked
      BY <2>1 DEF Asked
    <3> QED
      BY <1>0, <2>1, <2>2, <2>3, <3>1, <3>2, ToStutter
  <2>5. CASE stage' # "diff"
    <3>1. Phase' \in {"posting", "closing", "over"}
      BY <2>1, <2>5 DEF Phase
    <3> QED
      BY <1>0, <2>1, <2>2, <2>3, <3>1, ToOpen
  <2> QED
    BY <2>4, <2>5
<1>3. CASE FetchDiff
  <2>1. /\ stage = "diff" /\ stage' \in {"single", "multi", "post", "failing", "raised"}
        /\ stage' = "post" => review' = "clean"
        /\ posted' = posted
    BY <1>3 DEF FetchDiff, BeginPost, Fail, serviceVars
  <2>2. Phase = "opening" /\ Draft = "none" /\ ~Asked
    BY <1>0, <2>1, OpeningFacts DEF Opening
  <2>3. Draft' = "none" /\ Phase' \in {"reviewing", "posting", "closing", "over"}
    BY <2>1, <2>2 DEF Draft, Findings, Phase
  <2>4. turn' = turn \/ (stage' = "single" /\ ~cancel)
    <3>1. turn' = turn \/ (stage' = "single" /\ LoopHead(Solo))
      BY <1>3 DEF FetchDiff, StartRoles, agentVars
    <3> QED
      BY <3>1 DEF LoopHead
  <2>5. ~Asked' \/ (Asked' /\ Phase' = "reviewing" /\ ~cancel)
    BY <2>2, <2>4 DEF Asked, Phase
  <2> QED
    BY <1>0, <2>1, <2>2, <2>3, <2>5, ToOpen
<1>4. CASE SoloEnds \/ OrchestratorEnds
  <2>1. /\ stage \in {"single", "multi"} /\ stage' \in {"post", "failing", "raised"}
        /\ UNCHANGED <<turn, posted>>
    BY <1>4 DEF SoloEnds, OrchestratorEnds, Build, BeginPost, Fail, agentVars, serviceVars
  <2>2. Phase = "reviewing" /\ Draft = "none" /\ Asked' = Asked
    BY <2>1 DEF Phase, Draft, Asked
  <2>3. CASE stage' = "post"
    <3>1. review' = "valid" => Asked
      <4>1. review' = result[Solo] \/ review' = OrchResult
        BY <1>4, <2>1, <2>3 DEF SoloEnds, OrchestratorEnds, Build, BeginPost, Fail
      <4>2. OrchResult = result[Synth] \/ OrchResult = merged
        BY DEF OrchResult
      <4>3. merged = "valid" => \E r \in Role : result[r] = "valid"
        BY <1>0 DEF AuthorInv
      <4> QED
        BY <1>0, <4>1, <4>2, <4>3, AuthorsAsked, Cast
    <3>2. Phase' = "posting" /\ (Draft' = "none" \/ (Asked /\ Draft' = "findings"))
      BY <2>3, <3>1 DEF Phase, Draft, Findings
    <3> QED
      BY <1>0, <2>1, <2>2, <3>2, ToAnswer
  <2>4. CASE stage' # "post"
    <3>1. Phase' \in {"closing", "over"} /\ Draft' = Draft
      BY <2>1, <2>2, <2>4 DEF Phase, Draft
    <3> QED
      BY <1>0, <2>1, <2>2, <3>1, ToAnswer
  <2> QED
    BY <2>3, <2>4
<1>5. CASE PostReview
  <2>1. /\ stage = "post" /\ stage' \in {"conclude", "done", "failing", "raised"}
        /\ posted' \in {posted, Findings} /\ turn' = turn
    BY <1>5 DEF PostReview, PostFindings, Fail, agentVars
  <2>2. /\ Phase = "posting" /\ Draft = Findings /\ Asked' = Asked
        /\ Phase' \in {"closing", "over"} /\ Draft' = "none"
    BY <2>1 DEF Phase, Draft, Asked
  <2> QED
    BY <1>0, <2>1, <2>2, ToPost
<1>6. CASE Conclude \/ MarkFailure
  <2>1. /\ stage \in {"conclude", "failing"} /\ stage' \in {"done", "failing", "raised"}
        /\ UNCHANGED <<turn, posted>>
    BY <1>6 DEF Conclude, MarkFailure, UpdateRun, Fail, agentVars
  <2>2. Phase = "closing" /\ Draft' = Draft /\ Asked' = Asked /\ Phase' \in {"closing", "over"}
    BY <2>1 DEF Phase, Draft, Asked
  <2>3. CASE Phase' = "closing"
    BY <1>0, <2>1, <2>2, <2>3, ToStutter
  <2>4. CASE Phase' = "over"
    BY <1>0, <2>1, <2>2, <2>4, ToClose
  <2> QED
    BY <2>2, <2>3, <2>4
<1> QED
  BY <1>1, <1>2, <1>3, <1>4, <1>5, <1>6 DEF PipelineStep

(* Steps of agents, wherever they are taken, ask or are not seen.          *)
LEMMA ContractAgentMoves ==
  ASSUME UNCHANGED <<cancel, stage, review, posted>>, Phase # "opening",
         \/ turn' = turn
         \/ ~cancel /\ \E a \in Agent : turn'[a] > 0
  PROVE  Contract!Next \/ UNCHANGED Contract!contractVars
<1>1. UNCHANGED <<cancel, Phase, Draft, posted>>
  BY DEF Phase, Draft, Findings
<1>2. CASE turn' = turn
  <2>1. Asked' = Asked
    BY <1>2 DEF Asked
  <2> QED
    BY <1>1, <2>1, ToStutter
<1>3. CASE ~cancel /\ \E a \in Agent : turn'[a] > 0
  <2>1. Asked'
    BY <1>3 DEF Asked
  <2> QED
    BY <1>1, <1>3, <2>1, ToAsk DEF Contract!Next
<1> QED
  BY <1>2, <1>3

LEMMA ContractStep == PInv /\ [Next]_vars => Contract!Next \/ UNCHANGED Contract!contractVars
<1> SUFFICES ASSUME PInv, [Next]_vars
             PROVE  Contract!Next \/ UNCHANGED Contract!contractVars
  OBVIOUS
<1>0. TypeOK /\ AgentsTypeOK /\ AgentsInv
  BY DEF PInv, TypeOK
<1>1. CASE OrchestratorStep
  <2>1. stage = "multi" /\ UNCHANGED <<cancel, stage, review, posted>>
    BY <1>1 DEF OrchestratorStep, Synthesize, GatherRaises, SynthesisEnds, agentVars, serviceVars, pipeVars
  <2>2. Phase # "opening"
    BY <2>1 DEF Phase
  <2>3. CASE Synthesize
    <3>1. LoopHead(Synth)
      BY <2>3 DEF Synthesize
    <3>2. turn' = turn \/ (~cancel /\ turn'[Synth] = turn[Synth] + 1)
      BY <1>0, <3>1, Cast DEF LoopHead, AgentsTypeOK
    <3>3. turn[Synth] \in Nat
      BY <1>0, Cast DEF AgentsTypeOK
    <3>4. turn' = turn \/ (~cancel /\ \E a \in Agent : turn'[a] > 0)
      BY <3>2, <3>3, Cast
    <3> QED
      BY <2>1, <2>2, <3>4, ContractAgentMoves
  <2>4. CASE GatherRaises \/ SynthesisEnds
    <3>1. turn' = turn
      BY <2>4 DEF GatherRaises, SynthesisEnds, agentVars
    <3> QED
      BY <2>1, <2>2, <3>1, ContractAgentMoves
  <2> QED
    BY <1>1, <2>3, <2>4 DEF OrchestratorStep
<1>2. ASSUME NEW a \in Agent, AgentStep(a), UNCHANGED <<orchVars, serviceVars, pipeVars>>
      PROVE  Contract!Next \/ UNCHANGED Contract!contractVars
  <2>1. UNCHANGED <<cancel, stage, review, posted>> /\ Running(a)
    BY <1>0, <1>2, AgentStepFacts DEF serviceVars, pipeVars
  <2>2. Phase # "opening"
    BY <1>0, <2>1 DEF AgentsInv, Lineup, Phase, Opening, Running
  <2>3. turn' = turn \/ (~cancel /\ \E b \in Agent : turn'[b] > 0)
    <3>1. turn \in [Agent -> Nat] /\ turn' \in [Agent -> Nat]
      BY <1>0, <1>2, AgentStepFacts DEF AgentsTypeOK
    <3>2. (\A b \in Agent : turn'[b] = turn[b]) \/ (turn'[a] = turn[a] + 1 /\ ~cancel)
      BY <1>0, <1>2, AgentStepFacts
    <3>3. CASE \A b \in Agent : turn'[b] = turn[b]
      BY <3>1, <3>3
    <3>4. CASE turn'[a] = turn[a] + 1 /\ ~cancel
      BY <1>2, <3>1, <3>4
    <3> QED
      BY <3>2, <3>3, <3>4
  <2> QED
    BY <2>1, <2>2, <2>3, ContractAgentMoves
<1>3. CASE Supersede /\ UNCHANGED <<orchVars, serviceVars, pipeVars>>
  <2>1. cancel' = TRUE /\ UNCHANGED <<stage, review, turn, posted>>
    BY <1>3 DEF Supersede, serviceVars, pipeVars
  <2>2. UNCHANGED <<Phase, Asked, Draft, posted>>
    BY <2>1 DEF Phase, Asked, Draft, Findings
  <2>3. Contract!Supersede
    BY <2>1, <2>2 DEF Contract!Supersede, Asked, Draft
  <2> QED
    BY <2>3 DEF Contract!Next
<1>4. CASE Interrupt
  <2>1. /\ stage' = "interrupted" /\ UNCHANGED <<cancel, turn>> /\ ~Over
        /\ posted' = posted \/ (stage = "post" /\ posted' = Findings)
    BY <1>0, <1>4, CutOffFacts DEF Interrupt
  <2>2. Phase' = "over" /\ Draft' = "none" /\ Asked' = Asked
    BY <2>1 DEF Phase, Draft, Asked
  <2>3. CASE stage = "post"
    <3>1. Phase = "posting" /\ posted' \in {posted, Draft}
      BY <2>1, <2>3 DEF Phase, Draft
    <3> QED
      BY <2>1, <2>2, <3>1, ToPost DEF Contract!Next
  <2>4. CASE stage # "post"
    <3>1. Phase \in {"opening", "reviewing", "closing"} /\ Draft = "none" /\ posted' = posted
      BY <1>0, <2>1, <2>4 DEF TypeOK, Phase, Draft, Over
    <3> QED
      BY <2>1, <2>2, <3>1, ToClose DEF Contract!Next
  <2> QED
    BY <2>3, <2>4
<1>5. CASE UNCHANGED vars
  <2>1. UNCHANGED <<cancel, stage, review, turn, posted>>
    BY <1>5 DEF vars, agentVars, serviceVars, pipeVars
  <2>2. UNCHANGED <<cancel, Phase, Asked, Draft, posted>>
    BY <2>1 DEF Phase, Asked, Draft, Findings
  <2> QED
    BY <2>2, ToStutter
<1> QED
  BY <1>1, <1>2, <1>3, <1>4, <1>5, ContractPipelineStep DEF Next

-----------------------------------------------------------------------------
(* TypeOK: every variable of the pipeline, of its agents and of GitHub has *)
(* its type.                                                               *)
THEOREM TypeCorrect == Spec => []TypeOK
  BY Invariance, PTL DEF PInv

(* ConclusionIsBacked: what the check run says well of a review has been   *)
(* posted (steps 6 and 7 of run_review_pipeline).                          *)
THEOREM ConclusionsAreTrue == Spec => []ConclusionIsBacked
<1>1. PInv => ConclusionIsBacked
  BY DEF PInv, GitHubInv
<1> QED
  BY <1>1, Invariance, PTL

(* CheckRunIsSettled: no path of errors forgets the check run it opened    *)
(* (the except clause of run_review_pipeline).                             *)
THEOREM ErrorsSettle == Spec => []CheckRunIsSettled
<1>1. PInv => CheckRunIsSettled
  BY DEF PInv, GitHubInv
<1> QED
  BY <1>1, Invariance, PTL

(* FailureBesidesReviewIsGitHubs: a failed check run beside a posted       *)
(* review has its cause at GitHub, not in the pipeline.                    *)
THEOREM FailuresHaveReasons == Spec => []FailureBesidesReviewIsGitHubs
<1>1. PInv => FailureBesidesReviewIsGitHubs
  BY DEF PInv, GitHubInv
<1> QED
  BY <1>1, Invariance, PTL

(* OrphansOnlyAfterCrash: only gather() leaves agents behind, and only     *)
(* when a role raised (_run_workers).                                      *)
THEOREM NoOtherOrphans == Spec => []OrphansOnlyAfterCrash
<1>1. PInv => OrphansOnlyAfterCrash
  BY DEF PInv, AgentsInv
<1> QED
  BY <1>1, Invariance, PTL

(* FindingsAreTheAgents: posted findings come from an agent that returned  *)
(* them, and none of a role is lost with the synthesis                     *)
(* (run_orchestrated_review, build_review_from_agent_result).              *)
THEOREM NothingIsInvented == Spec => []FindingsAreTheAgents
<1>1. PInv => FindingsAreTheAgents
  <2>1. PInv => FindingsHaveAnAuthor
    BY DEF PInv, AuthorInv
  <2>2. PInv => NoRoleUnheard
    BY DEF PInv, UnheardInv, NoRoleUnheard
  <2> QED
    BY <2>1, <2>2 DEF FindingsAreTheAgents
<1> QED
  BY <1>1, Invariance, PTL

(* NoCallOnceSuperseded: once the cancel event is set no agent begins      *)
(* another call of the model (the head of the loop of run_review_agent).   *)
THEOREM SupersessionStopsCalls == Spec => NoCallOnceSuperseded
<1>1. ASSUME PInv, [Next]_vars, cancel
      PROVE  \A a \in Agent : turn'[a] = turn[a]
  <2>0. AgentsTypeOK
    BY <1>1 DEF PInv, TypeOK
  <2>1. CASE PipelineStep
    BY <1>1, <2>1 DEF PipelineStep, CreateCheckRun, FetchConfig, FetchDiff, SoloEnds, OrchestratorEnds,
                      PostReview, Conclude, MarkFailure, StartRoles, LoopHead, agentVars
  <2>2. CASE OrchestratorStep
    BY <1>1, <2>2 DEF OrchestratorStep, Synthesize, GatherRaises, SynthesisEnds, LoopHead, agentVars
  <2>3. ASSUME NEW a \in Agent, AgentStep(a)
        PROVE  \A b \in Agent : turn'[b] = turn[b]
    <3>1. turn'[a] = turn[a] /\ \A b \in Agent \ {a} : turn'[b] = turn[b]
      BY <1>1, <2>0, <2>3, AgentStepFacts
    <3> QED
      BY <3>1
  <2>4. CASE Supersede \/ Interrupt \/ UNCHANGED vars
    BY <2>4 DEF Supersede, Interrupt, vars, agentVars
  <2> QED
    BY <1>1, <2>1, <2>2, <2>3, <2>4 DEF Next
<1> QED
  BY <1>1, Invariance, PTL DEF Spec, NoCallOnceSuperseded

(* ImplementsReviewContract: the pipeline does what the service, composed  *)
(* of the pool and the contract, takes for granted of its handler.         *)
THEOREM RefinesContract == Spec => ImplementsReviewContract
<1>1. Init => Contract!Init
  BY Cast DEF Init, AgentsInit, ServiceInit, Contract!Init, Phase
<1>2. PInv /\ [Next]_vars => [Contract!Next]_(Contract!contractVars)
  BY ContractStep
<1> QED
  BY <1>1, <1>2, Invariance, PTL DEF Spec, ImplementsReviewContract, Contract!Spec

-----------------------------------------------------------------------------
(* A review runs out: the turns of an agent are counted from none and up   *)
(* to its bound.                                                           *)
Counted(a) == turn[a] <= MaxIterations[a] /\ (at[a] \in {"idle", "ready"} => turn[a] = 0)

TurnsCounted == \A a \in Agent : Counted(a)

(* The moves of an agent, whoever makes them.                              *)
Started == {"idle", "ready", "calling", "tooling"}

Moves(a) ==
  \/ at'[a] = at[a] /\ turn'[a] = turn[a]
  \/ at[a] = "idle" /\ at'[a] = "ready" /\ turn'[a] = turn[a]
  \/ /\ at[a] \in {"idle", "ready", "tooling"} /\ at'[a] = "calling"
     /\ turn[a] < MaxIterations[a] /\ turn'[a] = turn[a] + 1
  \/ at[a] = "calling" /\ at'[a] = "tooling" /\ turn'[a] = turn[a]
  \/ at[a] \in Started /\ at'[a] \notin Started /\ turn'[a] = turn[a]

LEMMA MovesUseUp ==
  ASSUME TypeOK, NEW a \in Agent, Counted(a), Moves(a)
  PROVE  /\ Counted(a)'
         /\ AgentLeft(a)' \in 0..AgentLeft(a)
         /\ at'[a] # at[a] => AgentLeft(a)' < AgentLeft(a)
<1>1. MaxIterations[a] \in Nat /\ turn[a] \in Nat /\ turn[a] <= MaxIterations[a]
  BY AgentsAssumption DEF TypeOK, AgentsTypeOK, Counted
<1>2. at[a] \in {"idle", "ready"} => turn[a] = 0
  BY DEF Counted
<1>3. Counted(a)'
  BY <1>1, <1>2 DEF Moves, Counted, Started
<1>4. CASE at'[a] = at[a] /\ turn'[a] = turn[a]
  BY <1>1, <1>2, <1>3, <1>4 DEF AgentLeft
<1>5. CASE at[a] = "idle" /\ at'[a] = "ready" /\ turn'[a] = turn[a]
  BY <1>1, <1>2, <1>3, <1>5 DEF AgentLeft
<1>6. CASE /\ at[a] \in {"idle", "ready", "tooling"} /\ at'[a] = "calling"
           /\ turn[a] < MaxIterations[a] /\ turn'[a] = turn[a] + 1
  BY <1>1, <1>2, <1>3, <1>6 DEF AgentLeft
<1>7. CASE at[a] = "calling" /\ at'[a] = "tooling" /\ turn'[a] = turn[a]
  BY <1>1, <1>2, <1>3, <1>7 DEF AgentLeft
<1>8. CASE at[a] \in Started /\ at'[a] \notin Started /\ turn'[a] = turn[a]
  BY <1>1, <1>2, <1>3, <1>8 DEF AgentLeft, Started
<1> QED
  BY <1>3, <1>4, <1>5, <1>6, <1>7, <1>8 DEF Moves

LEMMA LoopHeadMoves ==
  ASSUME TypeOK, NEW a \in Agent, Counted(a), at[a] \in {"idle", "ready", "tooling"}, LoopHead(a)
  PROVE  \A b \in Agent : Moves(b) /\ (b = a => at'[b] # at[b])
<1>1. AgentsTypeOK
  BY DEF TypeOK
<1>2. /\ \A b \in Agent \ {a} : at'[b] = at[b] /\ turn'[b] = turn[b]
      /\ \/ at'[a] = "failed" /\ turn'[a] = turn[a]
         \/ at'[a] = "calling" /\ turn'[a] = turn[a] + 1
  BY <1>1, LoopHeadFacts
<1>3. at'[a] = "calling" => turn[a] < MaxIterations[a]
  BY <1>1 DEF LoopHead, AgentsTypeOK
<1> QED
  BY <1>2, <1>3 DEF Moves, Started

LEMMA AgentStepMoves ==
  ASSUME TypeOK, NEW a \in Agent, Counted(a), AgentStep(a)
  PROVE  \A b \in Agent : Moves(b) /\ (b = a => at'[b] # at[b])
<1>1. AgentsTypeOK
  BY DEF TypeOK
<1>2. CASE Begin(a) \/ ToolsDone(a)
  BY <1>2, LoopHeadMoves DEF Begin, ToolsDone
<1>3. CASE AnswerTools(a) \/ AnswerReview(a) \/ AnswerUnusable(a)
  <2>1. at[a] = "calling" /\ turn' = turn
    BY <1>3 DEF AnswerTools, AnswerReview, AnswerUnusable
  <2>2. \E s \in {"tooling", "returned", "failed", "crashed"} : at' = [at EXCEPT ![a] = s]
    BY <1>3 DEF AnswerTools, AnswerReview, AnswerUnusable
  <2> QED
    BY <1>1, <2>1, <2>2 DEF Moves, Started, AgentsTypeOK
<1> QED
  BY <1>2, <1>3 DEF AgentStep

LEMMA CancelMoves ==
  ASSUME TypeOK, NEW A \in SUBSET Agent, CancelAgents(A), turn' = turn
  PROVE  \A b \in Agent : Moves(b)
<1>1. \A b \in Agent : at'[b] = at[b] \/ (Running(b) /\ at'[b] = "cancelled")
  BY CancelFacts DEF TypeOK
<1> QED
  BY <1>1 DEF Moves, Started, Running

LEMMA StagesLeft ==
  /\ StageLeft["create"] = 7 /\ StageLeft["config"] = 6 /\ StageLeft["diff"] = 5
  /\ StageLeft["single"] = 4 /\ StageLeft["multi"] = 4 /\ StageLeft["post"] = 3
  /\ StageLeft["conclude"] = 2 /\ StageLeft["failing"] = 1
  /\ StageLeft["done"] = 0 /\ StageLeft["raised"] = 0 /\ StageLeft["interrupted"] = 0
  /\ OrchLeft["off"] = 3 /\ OrchLeft["gathering"] = 2 /\ OrchLeft["synthesis"] = 1
  /\ OrchLeft["returned"] = 0 /\ OrchLeft["raised"] = 0 /\ OrchLeft["cancelled"] = 0
  BY DEF StageLeft, OrchLeft

(* A step of the review: it moves the agents, uses up something, and gives *)
(* nothing back.                                                           *)
UsesUp ==
  /\ \A a \in Agent : Moves(a)
  /\ StageLeft[stage'] <= StageLeft[stage] /\ OrchLeft[orch'] <= OrchLeft[orch]
  /\ \/ StageLeft[stage'] < StageLeft[stage] \/ OrchLeft[orch'] < OrchLeft[orch]
     \/ \E a \in Agent : at'[a] # at[a]

LEMMA AgentsRestMove ==
  ASSUME UNCHANGED agentVars
  PROVE  \A a \in Agent : Moves(a)
  BY DEF agentVars, Moves

LEMMA PipelineUsesUp ==
  ASSUME TypeOK, AgentsInv, TurnsCounted, PipelineStep
  PROVE  UsesUp
<1>0. /\ orch \in {"off", "gathering", "synthesis", "returned", "raised", "cancelled"}
      /\ OrchLeft[orch] \in Nat
  BY StagesLeft DEF TypeOK, OrchTypeOK
<1>1. CASE FetchDiff
  <2>1. stage = "diff" /\ orch = "off" /\ \A a \in Agent : at[a] = "idle"
    BY <1>1 DEF FetchDiff, AgentsInv, Lineup, Opening
  <2>2. stage' \in {"post", "single", "multi", "failing", "raised"} /\ orch' \in {"off", "gathering"}
    BY <1>1, <2>1 DEF FetchDiff, BeginPost, Fail, StartRoles, orchVars
  <2>3. ASSUME NEW a \in Agent
        PROVE  Moves(a)
    <3>1. CASE UNCHANGED agentVars
      BY <3>1, AgentsRestMove
    <3>2. CASE LoopHead(Solo)
      BY <2>1, <3>2, LoopHeadMoves, Cast DEF TurnsCounted
    <3>3. CASE StartRoles
      BY <2>1, <3>3 DEF StartRoles, Moves
    <3> QED
      BY <1>1, <3>1, <3>2, <3>3 DEF FetchDiff
  <2> QED
    BY <2>1, <2>2, <2>3, StagesLeft DEF UsesUp
<1>2. CASE ~FetchDiff
  <2>1. UNCHANGED <<agentVars, orchVars>>
    BY <1>2 DEF PipelineStep, CreateCheckRun, FetchConfig, SoloEnds, OrchestratorEnds, PostReview,
                Conclude, MarkFailure
  <2>2. \/ stage = "create" /\ stage' \in {"config", "raised"}
        \/ stage = "config" /\ stage' \in {"diff", "post", "failing", "raised"}
        \/ stage \in {"single", "multi"} /\ stage' \in {"post", "failing", "raised"}
        \/ stage = "post" /\ stage' \in {"conclude", "done", "failing", "raised"}
        \/ stage = "conclude" /\ stage' \in {"done", "failing", "raised"}
        \/ stage = "failing" /\ stage' = "raised"
    BY <1>2 DEF PipelineStep, CreateCheckRun, FetchConfig, SoloEnds, OrchestratorEnds, PostReview,
                Conclude, MarkFailure, Build, BeginPost, Fail
  <2>3. StageLeft[stage'] < StageLeft[stage] /\ StageLeft[stage'] <= StageLeft[stage]
    BY <2>2, StagesLeft
  <2>4. orch' = orch
    BY <2>1 DEF orchVars
  <2> QED
    BY <1>0, <2>1, <2>3, <2>4, AgentsRestMove DEF UsesUp
<1> QED
  BY <1>1, <1>2

LEMMA OrchestratorUsesUp ==
  ASSUME TypeOK, AgentsInv, TurnsCounted, OrchestratorStep
  PROVE  UsesUp
<1>1. stage = "multi" /\ stage' = stage
  BY DEF OrchestratorStep, pipeVars
<1>2. \/ orch = "gathering" /\ orch' \in {"synthesis", "raised"}
      \/ orch = "synthesis" /\ orch' \in {"returned", "raised"}
  BY DEF OrchestratorStep, Synthesize, GatherRaises, SynthesisEnds
<1>3. ASSUME NEW a \in Agent
      PROVE  Moves(a)
  <2>1. CASE Synthesize
    <3>1. at[Synth] = "idle" /\ LoopHead(Synth)
      BY <1>1, <2>1 DEF Synthesize, AgentsInv, Lineup
    <3> QED
      BY <3>1, LoopHeadMoves, Cast DEF TurnsCounted
  <2>2. CASE GatherRaises \/ SynthesisEnds
    BY <2>2, AgentsRestMove DEF GatherRaises, SynthesisEnds
  <2> QED
    BY <2>1, <2>2 DEF OrchestratorStep
<1> QED
  BY <1>1, <1>2, <1>3, StagesLeft DEF UsesUp

LEMMA InterruptUsesUp ==
  ASSUME TypeOK, AgentsInv, TurnsCounted, Interrupt
  PROVE  UsesUp
<1>1. stage' = "interrupted" /\ ~Over /\ turn' = turn
  BY DEF Interrupt
<1>2. StageLeft[stage'] < StageLeft[stage] /\ StageLeft[stage'] <= StageLeft[stage]
  BY <1>1, StagesLeft DEF Over, TypeOK
<1>3. CASE stage = "single"
  <2>1. CancelAgents({Solo}) /\ orch' = orch
    BY <1>3 DEF Interrupt
  <2>2. \A a \in Agent : Moves(a)
    BY <1>1, <2>1, CancelMoves, Cast
  <2>3. OrchLeft[orch'] <= OrchLeft[orch]
    BY <2>1, StagesLeft DEF TypeOK, OrchTypeOK
  <2> QED
    BY <1>2, <2>2, <2>3 DEF UsesUp
<1>4. CASE stage = "multi"
  <2>1. CancelAgents(CancelReaches) /\ CancelReaches \in SUBSET Agent /\ orch' = "cancelled"
    BY <1>4, Cast DEF Interrupt, CancelReaches
  <2>2. \A a \in Agent : Moves(a)
    BY <1>1, <2>1, CancelMoves
  <2>3. OrchLeft[orch'] <= OrchLeft[orch]
    BY <2>1, StagesLeft DEF TypeOK, OrchTypeOK
  <2> QED
    BY <1>2, <2>2, <2>3 DEF UsesUp
<1>5. CASE stage \notin {"single", "multi"}
  <2>1. at' = at /\ orch' = orch
    BY <1>5 DEF Interrupt
  <2>2. \A a \in Agent : Moves(a)
    BY <1>1, <2>1 DEF Moves
  <2>3. OrchLeft[orch'] <= OrchLeft[orch]
    BY <2>1, StagesLeft DEF TypeOK, OrchTypeOK
  <2> QED
    BY <1>2, <2>2, <2>3 DEF UsesUp
<1> QED
  BY <1>3, <1>4, <1>5

LEMMA StepUsesUp ==
  ASSUME TypeOK, AgentsInv, TurnsCounted, Next,
         ~UNCHANGED <<at, turn, result, orchVars, serviceVars, pipeVars>>
  PROVE  UsesUp
<1>1. CASE \E a \in Agent : AgentStep(a) /\ UNCHANGED <<orchVars, serviceVars, pipeVars>>
  <2>1. PICK a \in Agent : AgentStep(a) /\ UNCHANGED <<orchVars, serviceVars, pipeVars>>
    BY <1>1
  <2>2. (\A b \in Agent : Moves(b)) /\ at'[a] # at[a]
    BY <2>1, AgentStepMoves DEF TurnsCounted
  <2>3. orch' = orch /\ stage' = stage
    BY <2>1 DEF orchVars, pipeVars
  <2>4. StageLeft[stage] \in Nat /\ OrchLeft[orch] \in Nat
    BY StagesLeft DEF TypeOK, OrchTypeOK
  <2> QED
    BY <2>2, <2>3, <2>4 DEF UsesUp
<1>2. CASE Supersede /\ UNCHANGED <<orchVars, serviceVars, pipeVars>>
  BY <1>2 DEF Supersede
<1> QED
  BY <1>1, <1>2, PipelineUsesUp, OrchestratorUsesUp, InterruptUsesUp DEF Next

LEMMA TurnsStep ==
  ASSUME TypeOK, AgentsInv, TurnsCounted, [Next]_vars
  PROVE  TurnsCounted'
<1>1. CASE UNCHANGED <<at, turn>>
  BY <1>1 DEF TurnsCounted, Counted
<1>2. CASE UsesUp
  BY <1>2, MovesUseUp DEF UsesUp, TurnsCounted
<1>3. UNCHANGED <<at, turn, result, orchVars, serviceVars, pipeVars>> => UNCHANGED <<at, turn>>
  OBVIOUS
<1>4. UNCHANGED vars => UNCHANGED <<at, turn>>
  BY DEF vars, agentVars
<1> QED
  BY <1>1, <1>2, <1>3, <1>4, StepUsesUp

(* ReviewRunsOut: no step of a review is ever gone back to or tried again  *)
(* (run_review_pipeline, run_orchestrated_review, run_review_agent).       *)
THEOREM EveryReviewIsBounded == Spec => ReviewRunsOut
<1>1. Init => TurnsCounted
  <2> SUFFICES ASSUME Init, NEW a \in Agent PROVE Counted(a)
    BY DEF TurnsCounted
  <2>1. turn[a] = 0 /\ MaxIterations[a] \in Nat
    BY AgentsAssumption DEF Init, AgentsInit
  <2> QED
    BY <2>1 DEF Counted
<1>2. PInv /\ TurnsCounted /\ [Next]_vars => TurnsCounted'
  BY TurnsStep DEF PInv
<1>3. PInv /\ TurnsCounted /\ [Next]_vars =>
        [/\ StageLeft[stage'] <= StageLeft[stage] /\ OrchLeft[orch'] <= OrchLeft[orch]
         /\ \A a \in Agent : AgentLeft(a)' \in 0..AgentLeft(a)
         /\ \/ StageLeft[stage'] < StageLeft[stage] \/ OrchLeft[orch'] < OrchLeft[orch]
            \/ \E a \in Agent : AgentLeft(a)' < AgentLeft(a)
        ]_<<at, turn, result, orchVars, serviceVars, pipeVars>>
  <2> SUFFICES ASSUME PInv, TurnsCounted, Next,
                      ~UNCHANGED <<at, turn, result, orchVars, serviceVars, pipeVars>>
               PROVE  /\ StageLeft[stage'] <= StageLeft[stage] /\ OrchLeft[orch'] <= OrchLeft[orch]
                      /\ \A a \in Agent : AgentLeft(a)' \in 0..AgentLeft(a)
                      /\ \/ StageLeft[stage'] < StageLeft[stage] \/ OrchLeft[orch'] < OrchLeft[orch]
                         \/ \E a \in Agent : AgentLeft(a)' < AgentLeft(a)
    BY DEF vars, agentVars
  <2>1. UsesUp
    BY StepUsesUp DEF PInv
  <2>2. \A a \in Agent : AgentLeft(a)' \in 0..AgentLeft(a) /\ (at'[a] # at[a] => AgentLeft(a)' < AgentLeft(a))
    BY <2>1, MovesUseUp DEF UsesUp, TurnsCounted, PInv
  <2> QED
    BY <2>1, <2>2 DEF UsesUp
<1> QED
  BY Invariance, <1>1, <1>2, <1>3, PTL DEF Spec, ReviewRunsOut

-----------------------------------------------------------------------------
(* Nobody waits in vain: an agent that is waited for has been started and  *)
(* not been cancelled.                                                     *)
WaitedFor(a) ==
  \/ stage = "single" /\ a = Solo
  \/ stage = "multi" /\ orch = "gathering" /\ a \in Role
  \/ stage = "multi" /\ orch = "synthesis" /\ a = Synth

Awaited == \A a \in Agent : WaitedFor(a) => at[a] \notin {"idle", "cancelled"}

LEMMA AwaitedStep ==
  ASSUME TypeOK, AgentsInv, Awaited, [Next]_vars
  PROVE  Awaited'
<1>0. AgentsTypeOK
  BY DEF TypeOK
<1>1. CASE FetchDiff
  <2>1. stage = "diff" /\ orch = "off" /\ \A a \in Agent : at[a] = "idle"
    BY <1>1 DEF FetchDiff, AgentsInv, Lineup, Opening
  <2>2. CASE stage' \notin {"single", "multi"}
    BY <2>2 DEF Awaited, WaitedFor
  <2>3. CASE stage' = "single" /\ LoopHead(Solo)
    BY <1>0, <2>3, LoopHeadFacts, Cast DEF Awaited, WaitedFor
  <2>4. CASE stage' = "multi" /\ StartRoles
    BY <2>4, Cast DEF StartRoles, Awaited, WaitedFor
  <2> QED
    BY <1>1, <2>2, <2>3, <2>4 DEF FetchDiff, BeginPost, Fail
<1>2. CASE PipelineStep /\ ~FetchDiff
  <2>1. stage' \notin {"single", "multi"}
    BY <1>2 DEF PipelineStep, CreateCheckRun, FetchConfig, SoloEnds, OrchestratorEnds, PostReview,
                Conclude, MarkFailure, Build, BeginPost, Fail
  <2> QED
    BY <2>1 DEF Awaited, WaitedFor
<1>3. CASE OrchestratorStep
  <2>1. CASE Synthesize
    <3>1. stage' = stage /\ orch' = "synthesis" /\ stage = "multi" /\ LoopHead(Synth)
      BY <1>3, <2>1 DEF OrchestratorStep, Synthesize, pipeVars
    <3> QED
      BY <1>0, <3>1, LoopHeadFacts, Cast DEF Awaited, WaitedFor
  <2>2. CASE GatherRaises \/ SynthesisEnds
    <3>1. stage' = "multi" /\ orch' \in {"raised", "returned"}
      BY <1>3, <2>2 DEF OrchestratorStep, GatherRaises, SynthesisEnds, pipeVars
    <3> QED
      BY <3>1 DEF Awaited, WaitedFor
  <2> QED
    BY <1>3, <2>1, <2>2 DEF OrchestratorStep
<1>4. CASE \E a \in Agent : AgentStep(a) /\ UNCHANGED <<orchVars, serviceVars, pipeVars>>
  <2>1. PICK a \in Agent : AgentStep(a) /\ UNCHANGED <<orchVars, serviceVars, pipeVars>>
    BY <1>4
  <2>2. stage' = stage /\ orch' = orch
    BY <2>1 DEF orchVars, pipeVars
  <2>3. \A b \in Agent : at'[b] = at[b] \/ at'[b] \notin {"idle", "cancelled"}
    BY <1>0, <2>1, AgentStepFacts
  <2> QED
    BY <2>2, <2>3 DEF Awaited, WaitedFor
<1>5. CASE Interrupt
  <2>1. stage' = "interrupted"
    BY <1>5 DEF Interrupt
  <2> QED
    BY <2>1 DEF Awaited, WaitedFor
<1>6. CASE \/ Supersede /\ UNCHANGED <<orchVars, serviceVars, pipeVars>>
           \/ UNCHANGED vars
  <2>1. UNCHANGED <<at, orch, stage>>
    BY <1>6 DEF Supersede, vars, agentVars, orchVars, pipeVars
  <2> QED
    BY <2>1 DEF Awaited, WaitedFor
<1> QED
  BY <1>1, <1>2, <1>3, <1>4, <1>5, <1>6 DEF Next

(* While a review waits for an agent, it runs; and once none that is       *)
(* waited for runs, whoever waits can go on: the gather with results or an *)
(* exception, the pipeline with a review or a failure (run_review_pipeline,*)
(* run_orchestrated_review).                                               *)
CanGoOn ==
  \/ stage = "single" /\ at[Solo] \in {"returned", "failed", "crashed"}
  \/ stage = "multi" /\ orch \in {"returned", "raised"}
  \/ stage = "multi" /\ orch = "gathering" /\ (RolesEnded \/ \E r \in Role : RoleRaised(r))
  \/ stage = "multi" /\ orch = "synthesis" /\ at[Synth] \in {"returned", "failed", "crashed"}

NobodyWaitsInVain ==
  stage \in {"single", "multi"} => CanGoOn \/ \E a \in Agent : WaitedFor(a) /\ Running(a)

(* Nobody in a review waits for agents that have all ended without his     *)
(* being told (run_review_pipeline, run_orchestrated_review, _run_workers).*)
THEOREM WaitsEnd == Spec => []NobodyWaitsInVain
<1>1. Init => Awaited
  BY DEF Init, Awaited, WaitedFor
<1>2. PInv /\ Awaited /\ [Next]_vars => Awaited'
  BY AwaitedStep DEF PInv
<1>3. PInv /\ Awaited => NobodyWaitsInVain
  <2> SUFFICES ASSUME PInv, Awaited, stage \in {"single", "multi"},
                      \A a \in Agent : WaitedFor(a) => ~Running(a)
               PROVE  CanGoOn
    BY DEF NobodyWaitsInVain
  <2>1. \A a \in Agent : WaitedFor(a) => at[a] \in {"returned", "failed", "crashed"}
    BY DEF PInv, TypeOK, AgentsTypeOK, Awaited, Running
  <2>2. CASE stage = "single"
    BY <2>1, <2>2, Cast DEF WaitedFor, CanGoOn
  <2>3. CASE stage = "multi" /\ orch = "gathering"
    <3>1. \A r \in Role : RoleEnded(r) \/ RoleRaised(r)
      BY <2>1, <2>3, Cast DEF WaitedFor, RoleEnded, RoleRaised
    <3> QED
      BY <2>3, <3>1 DEF CanGoOn, RolesEnded
  <2>4. CASE stage = "multi" /\ orch = "synthesis"
    BY <2>1, <2>4, Cast DEF WaitedFor, CanGoOn
  <2>5. stage = "multi" => orch \in {"gathering", "synthesis", "returned", "raised"}
    BY DEF PInv, AgentsInv, Lineup
  <2> QED
    BY <2>2, <2>3, <2>4, <2>5 DEF CanGoOn
<1> QED
  BY Invariance, <1>1, <1>2, <1>3, PTL DEF Spec
=============================================================================
