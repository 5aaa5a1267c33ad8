---------------------------- MODULE ReviewAgent ----------------------------
(***************************************************************************)
(* One run of the review agent (run_review_agent of                        *)
(* src/reviewer/reviewer/agent.py) with its conversation and its trace.    *)
(*                                                                         *)
(* The conversation is the list of messages after the system and the user  *)
(* message.  A tool call is known by the iteration it was made in and its  *)
(* place in the answer, so that the calls an assistant message repeats are *)
(* a set that knows their order; the model may ask for a function with     *)
(* arguments that parse, for one with arguments that do not, or for        *)
(* something that is no function.  A step is the code between two awaits, except that the *)
(* tool calls of an answer are taken one by one even where none awaits:    *)
(* only the agent looks at its conversation in between.                    *)
(***************************************************************************)
EXTENDS Integers, Sequences, FiniteSets

CONSTANTS
  MaxTurns,     (* max_iterations                                            *)
  MaxCalls      (* bound of the model on the tool calls of one answer        *)

ASSUME ReviewAgentAssumption == MaxTurns \in Nat /\ MaxCalls \in Nat \ {0}

VARIABLES
  cancel,       (* the cancel event is set                                   *)
  pc,           (* where the agent is                                        *)
  turn,         (* iteration                                                 *)
  messages,     (* the conversation                                          *)
  pending,      (* the tool calls of the last answer not yet looked at       *)
  steps,        (* trace.steps                                               *)
  review        (* what was returned                                         *)

vars == <<cancel, pc, turn, messages, pending, steps, review>>

Kind == {"clean", "valid", "malformed", "badItems", "notObject"}
Unparsable == {"garbage", "empty"}
CallKind == {"good", "badArguments", "notFunction"}

Answers == UNION {[1..n -> CallKind] : n \in 1..MaxCalls}

ToolMessage(id) == [role |-> "tool", id |-> id]
AssistantMessage(ids) == [role |-> "assistant", ids |-> ids]
ToolStep == [number |-> turn, what |-> "tool"]
LastStep == [number |-> turn, what |-> "end"]

FunctionIds(calls) == {calls[i].id : i \in {i \in DOMAIN calls : calls[i].kind # "notFunction"}}

Init ==
  /\ cancel = FALSE
  /\ pc = "ready"
  /\ turn = 0
  /\ messages = <<>>
  /\ pending = <<>>
  /\ steps = <<>>
  /\ review = "none"

(* The head of the loop: time, cancellation, iterations; else call.  The   *)
(* time can have run out from the second iteration on.                     *)
LoopHead ==
  \/ /\ turn < MaxTurns
     /\ ~cancel
     /\ turn' = turn + 1
     /\ pc' = "calling"
  \/ /\ turn >= MaxTurns \/ cancel \/ turn > 0
     /\ pc' = "failed"
     /\ UNCHANGED turn

Begin ==
  /\ pc = "ready"
  /\ LoopHead
  /\ UNCHANGED <<cancel, messages, pending, steps, review>>

(* Case 1: tool calls.  The assistant message repeats the function calls.  *)
AnswerTools ==
  /\ pc = "calling"
  /\ \E answer \in Answers :
       LET calls == [i \in DOMAIN answer |-> [id |-> <<turn, i>>, kind |-> answer[i]]]
       IN  /\ messages' = Append(messages, AssistantMessage(FunctionIds(calls)))
           /\ pending' = calls
  /\ pc' = "tooling"
  /\ UNCHANGED <<cancel, turn, steps, review>>

(* A faulty skip: the call stays where it was.                             *)
SkipCallNot ==
  /\ pc = "tooling" /\ pending # <<>>
  /\ Head(pending).kind = "notFunction"
  /\ UNCHANGED vars

(* What is no function is passed over.                                     *)
SkipCall ==
  /\ pc = "tooling" /\ pending # <<>>
  /\ Head(pending).kind = "notFunction"
  /\ pending' = Tail(pending)
  /\ UNCHANGED <<cancel, pc, turn, messages, steps, review>>

(* Faulty error paths: the model is not told; the trace is not told.       *)
RefuseArgumentsSilently ==
  /\ pc = "tooling" /\ pending # <<>>
  /\ Head(pending).kind = "badArguments"
  /\ steps' = Append(steps, ToolStep)
  /\ pending' = Tail(pending)
  /\ UNCHANGED <<cancel, pc, turn, messages, review>>

RefuseArgumentsUntraced ==
  /\ pc = "tooling" /\ pending # <<>>
  /\ Head(pending).kind = "badArguments"
  /\ messages' = Append(messages, ToolMessage(Head(pending).id))
  /\ pending' = Tail(pending)
  /\ UNCHANGED <<cancel, pc, turn, steps, review>>

(* Arguments that are no JSON are answered with an error.                  *)
RefuseArguments ==
  /\ pc = "tooling" /\ pending # <<>>
  /\ Head(pending).kind = "badArguments"
  /\ steps' = Append(steps, ToolStep)
  /\ messages' = Append(messages, ToolMessage(Head(pending).id))
  /\ pending' = Tail(pending)
  /\ UNCHANGED <<cancel, pc, turn, review>>

(* A tool returns its result or raises: the model is told, in either case. *)
ExecuteTool ==
  /\ pc = "tooling" /\ pending # <<>>
  /\ Head(pending).kind = "good"
  /\ steps' = Append(steps, ToolStep)
  /\ messages' = Append(messages, ToolMessage(Head(pending).id))
  /\ pending' = Tail(pending)
  /\ UNCHANGED <<cancel, pc, turn, review>>

(* A faulty loop: a superseded review goes on.                             *)
ToolsDoneRegardless ==
  /\ pc = "tooling" /\ pending = <<>>
  /\ \/ turn < MaxTurns /\ turn' = turn + 1 /\ pc' = "calling"
     \/ pc' = "failed" /\ UNCHANGED turn
  /\ UNCHANGED <<cancel, messages, pending, steps, review>>

(* Another: an iteration that ends in tool calls is not counted.           *)
ToolsDoneUncounted ==
  /\ pc = "tooling" /\ pending = <<>>
  /\ turn < MaxTurns /\ ~cancel
  /\ pc' = "calling"
  /\ UNCHANGED <<cancel, turn, messages, pending, steps, review>>

(* Every call has been answered: the loop goes on.                         *)
ToolsDone ==
  /\ pc = "tooling" /\ pending = <<>>
  /\ LoopHead
  /\ UNCHANGED <<cancel, messages, pending, steps, review>>

(* Case 2: the model stops with content, which parses or does not.         *)
AnswerStop ==
  /\ pc = "calling"
  /\ steps' = Append(steps, LastStep)
  /\ \/ /\ \E kind \in Kind : review' = kind
        /\ pc' = "returned"
     \/ /\ pc' = "failed"
        /\ UNCHANGED review
  /\ UNCHANGED <<cancel, turn, messages, pending>>

(* Case 3: the context is full: what there is of a review is returned, and *)
(* an empty one if nothing can be read of it.                              *)
AnswerLength ==
  /\ pc = "calling"
  /\ steps' = Append(steps, LastStep)
  /\ \E content \in Kind \cup Unparsable :
       review' = IF content \in Unparsable THEN "clean" ELSE content
  /\ pc' = "returned"
  /\ UNCHANGED <<cancel, turn, messages, pending>>

(* Case 4 (another finish reason, or "stop" without content), and a call   *)
(* that fails.                                                             *)
AnswerUnexpected ==
  /\ pc = "calling"
  /\ steps' = Append(steps, LastStep)
  /\ pc' = "failed"
  /\ UNCHANGED <<cancel, turn, messages, pending, review>>

(* An answer without choices raises IndexError before anything is traced.  *)
AnswerNoChoice ==
  /\ pc = "calling"
  /\ pc' = "crashed"
  /\ UNCHANGED <<cancel, turn, messages, pending, steps, review>>

(* CancelledError at an await.                                             *)
Interrupt ==
  /\ pc \in {"ready", "calling", "tooling"}
  /\ pc' = "cancelled"
  /\ UNCHANGED <<cancel, turn, messages, pending, steps, review>>

Supersede ==
  /\ ~cancel
  /\ cancel' = TRUE
  /\ UNCHANGED <<pc, turn, messages, pending, steps, review>>

Advance ==
  \/ Begin \/ AnswerTools \/ SkipCall \/ RefuseArguments \/ ExecuteTool \/ ToolsDone
  \/ AnswerStop \/ AnswerLength \/ AnswerUnexpected \/ AnswerNoChoice

Next == Advance \/ Interrupt \/ Supersede

(* The calls of the model and of the tools have timeouts, so the agent is  *)
(* resumed again and again.                                                *)
Spec == Init /\ [][Next]_vars
FairSpec == Spec /\ WF_vars(Advance)

-----------------------------------------------------------------------------
Id == (1..MaxTurns) \X (1..MaxCalls)

TypeOK ==
  /\ cancel \in BOOLEAN
  /\ pc \in {"ready", "calling", "tooling", "returned", "failed", "crashed", "cancelled"}
  /\ turn \in 0..MaxTurns
  /\ messages \in Seq([role : {"tool"}, id : Id] \cup [role : {"assistant"}, ids : SUBSET Id])
  /\ pending \in Seq([id : Id, kind : CallKind])
  /\ steps \in Seq([number : 1..MaxTurns, what : {"tool", "end"}])
  /\ review \in Kind \cup {"none"}

(* The model's protocol: whenever the conversation is sent, each call of   *)
(* an assistant message has been answered by a tool message before the     *)
(* next assistant message, and a tool message answers a call of the last   *)
(* assistant message, in the order of the calls and none twice, whatever   *)
(* path the call took (the loop body of run_review_agent).                 *)
AnsweredBy(i, j) == \A h \in (i + 1)..j : messages[h].role = "tool"

CallIsAnswered(i, id) ==
  \E j \in DOMAIN messages : i < j /\ messages[j] = ToolMessage(id) /\ AnsweredBy(i, j)

AnswersACall(j) ==
  /\ \E i \in 1..(j - 1) : /\ messages[i].role = "assistant"
                           /\ messages[j].id \in messages[i].ids
                           /\ AnsweredBy(i, j)
  /\ messages[j - 1].role = "tool" => messages[j - 1].id[2] < messages[j].id[2]

EveryCallAnswered ==
  pc = "calling" =>
    \A i \in DOMAIN messages :
      /\ messages[i].role = "assistant" => \A id \in messages[i].ids : CallIsAnswered(i, id)
      /\ messages[i].role = "tool" => AnswersACall(i)

(* The trace tells the conversation: in each iteration it has a tool step  *)
(* for each tool message, its steps are in the order of the iterations,    *)
(* and a run that returned has a last step (add_step on every path).       *)
ToolSteps(n) == {i \in DOMAIN steps : steps[i] = [number |-> n, what |-> "tool"]}
ToolMessages(n) == {i \in DOMAIN messages : messages[i].role = "tool" /\ messages[i].id[1] = n}

TraceTellsConversation ==
  /\ \A n \in 1..MaxTurns : Cardinality(ToolSteps(n)) = Cardinality(ToolMessages(n))
  /\ \A i, j \in DOMAIN steps : i < j => steps[i].number <= steps[j].number
  /\ pc = "returned" => steps # <<>> /\ steps[Len(steps)].what = "end"

(* The steps that a run has left: an iteration takes at most one for its   *)
(* answer, one for each call and one to go on.                             *)
Left ==
  IF pc \notin {"ready", "calling", "tooling"} THEN 0
  ELSE (MaxTurns - turn) * (MaxCalls + 2) + IF pc = "calling" THEN MaxCalls + 2 ELSE Len(pending) + 1

(* A run has only so many steps in it, whatever the model answers and      *)
(* whoever cancels it: each one uses some up (the loop of run_review_agent *)
(* and the loop over the calls of an answer in it).                        *)
LoopRunsOut == [][Left' \in 0..(Left - 1)]_<<pc, turn, messages, pending, steps, review>>

(* The loop ends, whatever the model answers.                              *)
AgentEnds == <>(pc \in {"returned", "failed", "crashed", "cancelled"})

(* To its caller the run is one agent of the module Agents: it keeps the   *)
(* bound on iterations, it heeds a cancellation before every call of the   *)
(* model, and it returns only what the model has answered.                 *)
Contract == INSTANCE AgentContract WITH
  Agent <- {"agent"},
  MaxIterations <- [a \in {"agent"} |-> MaxTurns],
  at <- [a \in {"agent"} |-> pc],
  turn <- [a \in {"agent"} |-> turn],
  result <- [a \in {"agent"} |-> review]

ImplementsContract == Contract!Spec
=============================================================================
