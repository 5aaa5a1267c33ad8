------------------------- MODULE ReviewAgentProofs -------------------------
(***************************************************************************)
(* Proofs about one run of the review agent, for every number of           *)
(* iterations and of tool calls in an answer.                              *)
(*                                                                         *)
(* The conversation is well formed at every step and not only when it is   *)
(* sent: the calls that have no answer yet are those still to be looked    *)
(* at, and they are calls of the last assistant message.                   *)
(***************************************************************************)
EXTENDS ReviewAgent, FiniteSetTheorems, TLAPS

Message == [role : {"tool"}, id : Id] \cup [role : {"assistant"}, ids : SUBSET Id]
Call == [id : Id, kind : CallKind]
Step == [number : 1..MaxTurns, what : {"tool", "end"}]

(* The calls to come: of this iteration, in order, behind what was told.   *)
CallsInOrder ==
  /\ pc \notin {"tooling", "cancelled"} => pending = <<>>
  /\ \A k \in DOMAIN pending : pending[k].id[1] = turn
  /\ \A k, l \in DOMAIN pending : k < l => pending[k].id[2] < pending[l].id[2]
  /\ pc = "tooling" =>
       \A k \in DOMAIN pending :
         messages[Len(messages)].role = "tool" => messages[Len(messages)].id[2] < pending[k].id[2]

(* They are calls of the last assistant message.                           *)
LastAssistant(i) ==
  messages[i].role = "assistant" /\ AnsweredBy(i, Len(messages))

CallsWereAsked ==
  pc = "tooling" =>
    \E i \in DOMAIN messages : LastAssistant(i) /\ FunctionIds(pending) \subseteq messages[i].ids

(* What has no answer is to come.                                          *)
IsToCome(i, id) == id \in FunctionIds(pending) /\ AnsweredBy(i, Len(messages))

Conversation ==
  \A i \in DOMAIN messages :
    /\ messages[i].role = "assistant" =>
         \A id \in messages[i].ids :
           CallIsAnswered(i, id) \/ (pc \in {"tooling", "cancelled"} /\ IsToCome(i, id))
    /\ messages[i].role = "tool" => AnswersACall(i)

(* The trace is never ahead of the loop.                                   *)
TraceInv ==
  /\ TraceTellsConversation
  /\ \A i \in DOMAIN steps : steps[i].number <= turn
  /\ pc \in {"calling", "tooling"} => turn > 0

IInv == TypeOK /\ CallsInOrder /\ CallsWereAsked /\ Conversation /\ TraceInv

-----------------------------------------------------------------------------
(* Lemmas about sequences, calls and counts.                               *)
LEMMA TailIds ==
  ASSUME NEW s \in Seq(Call), s # <<>>
  PROVE  /\ FunctionIds(Tail(s)) \subseteq FunctionIds(s)
         /\ FunctionIds(s) \subseteq FunctionIds(Tail(s)) \cup {Head(s).id}
         /\ Head(s).kind = "notFunction" => FunctionIds(Tail(s)) = FunctionIds(s)
         /\ Head(s).kind # "notFunction" => Head(s).id \in FunctionIds(s)
<1>1. /\ Len(s) \in Nat \ {0} /\ DOMAIN s = 1..Len(s) /\ Head(s) = s[1]
      /\ DOMAIN Tail(s) = 1..(Len(s) - 1)
      /\ \A i \in 1..(Len(s) - 1) : Tail(s)[i] = s[i + 1]
  OBVIOUS
<1>2. ASSUME NEW x \in FunctionIds(Tail(s))
      PROVE  x \in FunctionIds(s)
  <2>1. PICK i \in DOMAIN Tail(s) : Tail(s)[i].kind # "notFunction" /\ Tail(s)[i].id = x
    BY <1>2 DEF FunctionIds
  <2>2. i + 1 \in DOMAIN s /\ s[i + 1].kind # "notFunction" /\ s[i + 1].id = x
    BY <1>1, <2>1
  <2> QED
    BY <2>2 DEF FunctionIds
<1>3. ASSUME NEW x \in FunctionIds(s)
      PROVE  \/ x \in FunctionIds(Tail(s))
             \/ x = Head(s).id /\ Head(s).kind # "notFunction"
  <2>1. PICK i \in DOMAIN s : s[i].kind # "notFunction" /\ s[i].id = x
    BY <1>3 DEF FunctionIds
  <2>2. CASE i = 1
    BY <1>1, <2>1, <2>2
  <2>3. CASE i # 1
    <3>1. i - 1 \in DOMAIN Tail(s) /\ Tail(s)[i - 1] = s[i]
      BY <1>1, <2>3
    <3> QED
      BY <2>1, <3>1 DEF FunctionIds
  <2> QED
    BY <2>2, <2>3
<1>4. Head(s).kind # "notFunction" => Head(s).id \in FunctionIds(s)
  BY <1>1 DEF FunctionIds
<1> QED
  BY <1>2, <1>3, <1>4

(* A new message leaves what was answered answered.                        *)
LEMMA AppendKeeps ==
  ASSUME messages \in Seq(Message), NEW m \in Message, messages' = Append(messages, m)
  PROVE  /\ messages' \in Seq(Message)
         /\ Len(messages') = Len(messages) + 1
         /\ messages'[Len(messages')] = m
         /\ \A i \in DOMAIN messages : i \in DOMAIN messages' /\ messages'[i] = messages[i]
         /\ \A i \in DOMAIN messages' : i \in DOMAIN messages \/ i = Len(messages')
         /\ \A i \in DOMAIN messages : \A id : CallIsAnswered(i, id) => CallIsAnswered(i, id)'
         /\ \A j \in DOMAIN messages : AnswersACall(j) => AnswersACall(j)'
         /\ m.role = "tool" =>
              \A i \in DOMAIN messages :
                AnsweredBy(i, Len(messages)) => AnsweredBy(i, Len(messages))'
<1>1. /\ messages' \in Seq(Message)
      /\ Len(messages) \in Nat /\ Len(messages') = Len(messages) + 1
      /\ DOMAIN messages = 1..Len(messages) /\ DOMAIN messages' = 1..Len(messages')
      /\ messages'[Len(messages')] = m
      /\ \A i \in DOMAIN messages : messages'[i] = messages[i]
  OBVIOUS
<1>2. ASSUME NEW i \in DOMAIN messages, NEW j \in DOMAIN messages, AnsweredBy(i, j)
      PROVE  AnsweredBy(i, j)'
  BY <1>1, <1>2 DEF AnsweredBy
<1>3. \A i \in DOMAIN messages : \A id : CallIsAnswered(i, id) => CallIsAnswered(i, id)'
  BY <1>1, <1>2 DEF CallIsAnswered
<1>4. ASSUME NEW j \in DOMAIN messages, AnswersACall(j)
      PROVE  AnswersACall(j)'
  <2>1. PICK i \in 1..(j - 1) : /\ messages[i].role = "assistant"
                                /\ messages[j].id \in messages[i].ids
                                /\ AnsweredBy(i, j)
    BY <1>4 DEF AnswersACall
  <2>2. i \in DOMAIN messages /\ j - 1 \in DOMAIN messages
    BY <1>1, <2>1
  <2>3. AnsweredBy(i, j)'
    BY <1>2, <2>1, <2>2
  <2> QED
    BY <1>1, <1>4, <2>1, <2>2, <2>3 DEF AnswersACall
<1>5. ASSUME m.role = "tool", NEW i \in DOMAIN messages, AnsweredBy(i, Len(messages))
      PROVE  AnsweredBy(i, Len(messages))'
  BY <1>1, <1>5 DEF AnsweredBy
<1> QED
  BY <1>1, <1>3, <1>4, <1>5

-----------------------------------------------------------------------------
(* Types.                                                                  *)
LEMMA NewCalls ==
  ASSUME NEW answer \in Answers, turn \in 1..MaxTurns
  PROVE  [i \in DOMAIN answer |-> [id |-> <<turn, i>>, kind |-> answer[i]]] \in Seq(Call)
<1> DEFINE calls == [i \in DOMAIN answer |-> [id |-> <<turn, i>>, kind |-> answer[i]]]
<1>1. PICK n \in 1..MaxCalls : answer \in [1..n -> CallKind]
  BY DEF Answers
<1>2. DOMAIN answer = 1..n /\ n \in Nat
  BY <1>1, ReviewAgentAssumption
<1>3. ASSUME NEW i \in 1..n
      PROVE  [id |-> <<turn, i>>, kind |-> answer[i]] \in Call
  <2>1. i \in 1..MaxCalls /\ answer[i] \in CallKind
    BY <1>1, ReviewAgentAssumption
  <2> QED
    BY <2>1 DEF Call, Id
<1>4. calls \in [1..n -> Call]
  BY <1>2, <1>3
<1> QED
  BY <1>2, <1>4

LEMMA FunctionIdsType ==
  ASSUME NEW s \in Seq(Call)
  PROVE  FunctionIds(s) \subseteq Id
<1>1. \A i \in DOMAIN s : s[i] \in Call
  OBVIOUS
<1> QED
  BY <1>1 DEF FunctionIds, Call

LEMMA TypeStep ==
  ASSUME TypeOK, pc \in {"calling", "tooling"} => turn > 0, [Next]_vars
  PROVE  TypeOK'
<1> USE DEF TypeOK
<1>0. /\ turn \in Nat /\ MaxTurns \in Nat
      /\ pc \in {"calling", "tooling"} => turn \in 1..MaxTurns
  BY ReviewAgentAssumption
<1>1. CASE Begin \/ ToolsDone
  BY <1>0, <1>1 DEF Begin, ToolsDone, LoopHead
<1>2. CASE AnswerTools
  <2>1. PICK answer \in Answers :
          LET calls == [i \in DOMAIN answer |-> [id |-> <<turn, i>>, kind |-> answer[i]]]
          IN  /\ messages' = Append(messages, AssistantMessage(FunctionIds(calls)))
              /\ pending' = calls
    BY <1>2 DEF AnswerTools
  <2>2. pending' \in Seq(Call)
    BY <1>0, <1>2, <2>1, NewCalls DEF AnswerTools
  <2>3. messages' = Append(messages, AssistantMessage(FunctionIds(pending')))
    BY <2>1
  <2>4. AssistantMessage(FunctionIds(pending')) \in Message
    BY <2>2, FunctionIdsType DEF AssistantMessage, Message
  <2>5. messages' \in Seq(Message)
    BY <2>3, <2>4 DEF Message
  <2> QED
    BY <1>2, <2>2, <2>5 DEF AnswerTools, Message, Call
<1>3. CASE SkipCall
  BY <1>3 DEF SkipCall
<1>4. CASE RefuseArguments \/ ExecuteTool
  <2>1. /\ pc = "tooling" /\ pending # <<>> /\ pending' = Tail(pending)
        /\ steps' = Append(steps, ToolStep)
        /\ messages' = Append(messages, ToolMessage(Head(pending).id))
        /\ UNCHANGED <<cancel, pc, turn, review>>
    BY <1>4 DEF RefuseArguments, ExecuteTool
  <2>2. Head(pending) \in Call /\ pending' \in Seq(Call)
    <3>1. pending \in Seq(Call)
      BY DEF Call
    <3> QED
      BY <2>1, <3>1
  <2>3. ToolMessage(Head(pending).id) \in Message
    BY <2>2 DEF ToolMessage, Message, Call
  <2>4. ToolStep \in Step
    BY <1>0, <2>1 DEF ToolStep, Step
  <2>5. messages' \in Seq(Message) /\ steps' \in Seq(Step)
    BY <2>1, <2>3, <2>4 DEF Message, Step
  <2> QED
    BY <2>1, <2>2, <2>5 DEF Message, Step, Call
<1>5. CASE AnswerStop \/ AnswerLength \/ AnswerUnexpected
  <2>1. pc = "calling" /\ steps' = Append(steps, LastStep)
    BY <1>5 DEF AnswerStop, AnswerLength, AnswerUnexpected
  <2>2. LastStep \in Step
    BY <1>0, <2>1 DEF LastStep, Step
  <2>3. steps' \in Seq(Step)
    BY <2>1, <2>2 DEF Step
  <2>4. review' \in Kind \cup {"none"}
    BY <1>5 DEF AnswerStop, AnswerLength, AnswerUnexpected, Kind, Unparsable
  <2>5. pc' \in {"returned", "failed"} /\ UNCHANGED <<cancel, turn, messages, pending>>
    BY <1>5 DEF AnswerStop, AnswerLength, AnswerUnexpected
  <2> QED
    BY <2>3, <2>4, <2>5 DEF Step
<1>6. CASE AnswerNoChoice \/ Interrupt \/ Supersede
  BY <1>6 DEF AnswerNoChoice, Interrupt, Supersede
<1>7. CASE UNCHANGED vars
  BY <1>7 DEF vars
<1> QED
  BY <1>1, <1>2, <1>3, <1>4, <1>5, <1>6, <1>7 DEF Next, Advance

-----------------------------------------------------------------------------
(* The conversation.                                                       *)
Talk == CallsInOrder /\ CallsWereAsked /\ Conversation

LEMMA TypesByName ==
  ASSUME TypeOK
  PROVE  /\ messages \in Seq(Message) /\ pending \in Seq(Call) /\ steps \in Seq(Step)
         /\ turn \in Nat /\ Len(messages) \in Nat /\ DOMAIN messages = 1..Len(messages)
         /\ \A i \in DOMAIN messages :
              messages[i].role = "tool" => messages[i].id \in Id
         /\ \A k \in DOMAIN pending : pending[k] \in Call
<1>1. messages \in Seq(Message) /\ pending \in Seq(Call) /\ steps \in Seq(Step) /\ turn \in Nat
  BY ReviewAgentAssumption DEF TypeOK, Message, Call, Step
<1>2. \A i \in DOMAIN messages : messages[i] \in Message
  BY <1>1
<1>3. \A i \in DOMAIN messages : messages[i].role = "tool" => messages[i].id \in Id
  BY <1>2 DEF Message
<1> QED
  BY <1>1, <1>3

(* The conversation rests while neither it nor the calls change.           *)
LEMMA TalkRests ==
  ASSUME Talk, UNCHANGED <<messages, pending>>,
         \/ pc' \in {"ready", "calling", "returned", "failed", "crashed"} /\ pending = <<>>
         \/ pc' = pc /\ turn' = turn
         \/ pc' = "cancelled" /\ turn' = turn
  PROVE  Talk'
<1>1. CallsInOrder'
  BY DEF Talk, CallsInOrder
<1>2. CallsWereAsked'
  BY DEF Talk, CallsWereAsked, LastAssistant, AnsweredBy
<1>3. /\ \A i, id : CallIsAnswered(i, id)' <=> CallIsAnswered(i, id)
      /\ \A i, id : IsToCome(i, id)' <=> IsToCome(i, id)
      /\ \A j : AnswersACall(j)' <=> AnswersACall(j)
  BY DEF CallIsAnswered, AnsweredBy, IsToCome, AnswersACall
<1>4. pending = <<>> => FunctionIds(pending) = {}
  BY DEF FunctionIds
<1>5. \A i, id : (IsToCome(i, id) /\ pc \in {"tooling", "cancelled"}) => pc' \in {"tooling", "cancelled"}
  BY <1>4 DEF IsToCome
<1>6. Conversation'
  BY <1>3, <1>5 DEF Talk, Conversation
<1> QED
  BY <1>1, <1>2, <1>6 DEF Talk

LEMMA TalkAnswerTools ==
  ASSUME TypeOK, TypeOK', Talk, turn > 0, AnswerTools
  PROVE  Talk'
<1>1. PICK answer \in Answers :
        LET calls == [i \in DOMAIN answer |-> [id |-> <<turn, i>>, kind |-> answer[i]]]
        IN  /\ messages' = Append(messages, AssistantMessage(FunctionIds(calls)))
            /\ pending' = calls
  BY DEF AnswerTools
<1> DEFINE m == AssistantMessage(FunctionIds(pending'))
<1>2. /\ pc = "calling" /\ pc' = "tooling" /\ pending = <<>> /\ turn' = turn
      /\ messages' = Append(messages, m)
  BY <1>1 DEF AnswerTools, Talk, CallsInOrder
<1>3. messages \in Seq(Message) /\ pending' \in Seq(Call) /\ Len(messages) \in Nat
      /\ DOMAIN messages = 1..Len(messages)
  BY TypesByName DEF TypeOK, Call
<1>4. m \in Message /\ m.role = "assistant" /\ m.ids = FunctionIds(pending')
  BY <1>3, FunctionIdsType DEF AssistantMessage, Message
<1> HIDE DEF m
<1>5. /\ Len(messages') = Len(messages) + 1 /\ Len(messages') \in DOMAIN messages'
      /\ messages'[Len(messages')] = m
  BY <1>2, <1>3, <1>4, AppendKeeps
<1>6. CallsInOrder'
  <2>1. PICK n \in 1..MaxCalls : answer \in [1..n -> CallKind]
    BY DEF Answers
  <2>2. n \in Nat /\ DOMAIN pending' = 1..n /\ \A k \in 1..n : pending'[k].id = <<turn, k>>
    BY <1>1, <2>1, ReviewAgentAssumption
  <2> QED
    BY <1>2, <1>4, <1>5, <2>2 DEF CallsInOrder
<1>7. AnsweredBy(Len(messages), Len(messages))'
  BY <1>3, <1>5 DEF AnsweredBy
<1>8. CallsWereAsked'
  <2>1. LastAssistant(Len(messages))'
    BY <1>4, <1>5, <1>7 DEF LastAssistant
  <2> QED
    BY <1>4, <1>5, <2>1 DEF CallsWereAsked
<1>9. Conversation'
  <2>1. ASSUME NEW i \in DOMAIN messages
        PROVE  /\ messages'[i].role = "assistant" =>
                    \A id \in messages'[i].ids : CallIsAnswered(i, id)'
               /\ messages'[i].role = "tool" => AnswersACall(i)'
    BY <1>2, <1>3, <1>4, AppendKeeps DEF Talk, Conversation
  <2>2. \A id \in messages'[Len(messages')].ids : IsToCome(Len(messages), id)'
    BY <1>4, <1>5, <1>7 DEF IsToCome
  <2>3. \A i \in DOMAIN messages' : i \in DOMAIN messages \/ i = Len(messages')
    BY <1>2, <1>3, <1>4, AppendKeeps
  <2>4. messages'[Len(messages')].role # "tool"
    BY <1>4, <1>5
  <2> QED
    BY <1>2, <2>1, <2>2, <2>3, <2>4 DEF Conversation
<1> QED
  BY <1>6, <1>8, <1>9 DEF Talk

LEMMA TailInOrder ==
  ASSUME TypeOK, pending # <<>>, CallsInOrder
  PROVE  /\ Head(pending) \in Call /\ Head(pending).id[1] = turn
         /\ \A k \in DOMAIN Tail(pending) :
              /\ Tail(pending)[k].id[1] = turn
              /\ Head(pending).id[2] < Tail(pending)[k].id[2]
              /\ \E h \in DOMAIN pending : Tail(pending)[k] = pending[h]
         /\ \A k, l \in DOMAIN Tail(pending) :
              k < l => Tail(pending)[k].id[2] < Tail(pending)[l].id[2]
<1>1. pending \in Seq(Call)
  BY TypesByName
<1>2. /\ Len(pending) \in Nat \ {0} /\ DOMAIN pending = 1..Len(pending)
      /\ Head(pending) = pending[1] /\ DOMAIN Tail(pending) = 1..(Len(pending) - 1)
      /\ \A i \in 1..(Len(pending) - 1) : Tail(pending)[i] = pending[i + 1]
  BY <1>1
<1>3. \A k \in DOMAIN Tail(pending) : k + 1 \in DOMAIN pending /\ 1 < k + 1
  BY <1>2
<1>4. 1 \in DOMAIN pending /\ Head(pending) \in Call
  BY <1>1, <1>2
<1>5. \A k, l \in DOMAIN Tail(pending) : k < l => k + 1 < l + 1
  BY <1>2
<1> QED
  BY <1>2, <1>3, <1>4, <1>5 DEF CallsInOrder

LEMMA TalkSkipCall ==
  ASSUME TypeOK, Talk, SkipCall
  PROVE  Talk'
<1>1. /\ pc = "tooling" /\ pc' = pc /\ pending # <<>> /\ pending' = Tail(pending)
      /\ UNCHANGED <<turn, messages>>
  BY DEF SkipCall
<1>2. FunctionIds(pending') = FunctionIds(pending)
  BY <1>1, TypesByName, TailIds DEF SkipCall
<1>3. CallsInOrder'
  BY <1>1, TailInOrder DEF Talk, CallsInOrder
<1>4. CallsWereAsked'
  BY <1>1, <1>2 DEF Talk, CallsWereAsked, LastAssistant, AnsweredBy
<1>5. /\ \A i, id : CallIsAnswered(i, id)' <=> CallIsAnswered(i, id)
      /\ \A i, id : IsToCome(i, id)' <=> IsToCome(i, id)
      /\ \A j : AnswersACall(j)' <=> AnswersACall(j)
  BY <1>1, <1>2 DEF CallIsAnswered, AnsweredBy, IsToCome, AnswersACall
<1>6. Conversation'
  BY <1>1, <1>5 DEF Talk, Conversation
<1> QED
  BY <1>3, <1>4, <1>6 DEF Talk

(* What becomes of the conversation when the model is told of a call,      *)
(* whether it was refused or executed.                                     *)
Told ==
  /\ pc = "tooling" /\ pending # <<>> /\ Head(pending).kind # "notFunction"
  /\ pending' = Tail(pending)
  /\ messages' = Append(messages, ToolMessage(Head(pending).id))
  /\ steps' = Append(steps, ToolStep)
  /\ UNCHANGED <<pc, turn>>

LEMMA ToolCallsAreTold ==
  ASSUME RefuseArguments \/ ExecuteTool
  PROVE  Told
  BY DEF RefuseArguments, ExecuteTool, Told

LEMMA TalkTold ==
  ASSUME TypeOK, Talk, Told
  PROVE  Talk'
<1> DEFINE first == Head(pending).id
<1> DEFINE m == ToolMessage(first)
<1>1. /\ pc = "tooling" /\ pc' = "tooling" /\ pending' = Tail(pending) /\ turn' = turn
      /\ messages' = Append(messages, m)
  BY DEF Told
<1>2. /\ messages \in Seq(Message) /\ Len(messages) \in Nat /\ DOMAIN messages = 1..Len(messages)
      /\ pending \in Seq(Call)
  BY TypesByName
<1>3. m \in Message /\ m.role = "tool" /\ m.id = first
  BY TailInOrder DEF ToolMessage, Message, Call, Told, Talk
<1>4. /\ first \in FunctionIds(pending)
      /\ FunctionIds(pending') \subseteq FunctionIds(pending)
      /\ FunctionIds(pending) \subseteq FunctionIds(pending') \cup {first}
  BY <1>1, <1>2, TailIds DEF Told
<1>5. /\ Len(messages') = Len(messages) + 1 /\ Len(messages') \in DOMAIN messages'
      /\ messages'[Len(messages')] = m
  BY <1>1, <1>2, <1>3, AppendKeeps
<1>6. \A i \in DOMAIN messages :
        /\ i \in DOMAIN messages' /\ messages'[i] = messages[i]
        /\ AnsweredBy(i, Len(messages)) => AnsweredBy(i, Len(messages))'
        /\ AnswersACall(i) => AnswersACall(i)'
        /\ \A id : CallIsAnswered(i, id) => CallIsAnswered(i, id)'
  BY <1>1, <1>2, <1>3, AppendKeeps
<1>7. CallsInOrder'
  BY <1>1, <1>3, <1>5, TailInOrder DEF Talk, CallsInOrder, Told
<1>8. PICK i \in DOMAIN messages : LastAssistant(i) /\ FunctionIds(pending) \subseteq messages[i].ids
  BY <1>1 DEF Talk, CallsWereAsked
<1>9. CallsWereAsked'
  <2>1. LastAssistant(i)' /\ FunctionIds(pending') \subseteq messages'[i].ids
    BY <1>4, <1>6, <1>8 DEF LastAssistant
  <2> QED
    BY <1>6, <1>8, <2>1 DEF CallsWereAsked
<1>10. AnswersACall(Len(messages))'
  <2>1. i \in 1..(Len(messages') - 1)
    BY <1>2, <1>5, <1>8
  <2>2. /\ messages'[i].role = "assistant" /\ first \in messages'[i].ids
        /\ AnsweredBy(i, Len(messages))'
    BY <1>4, <1>6, <1>8 DEF LastAssistant
  <2>3. 1 \in DOMAIN pending /\ Head(pending) = pending[1]
    BY <1>2 DEF Told
  <2>4. messages[Len(messages)].role = "tool" => messages[Len(messages)].id[2] < first[2]
    BY <1>1, <2>3 DEF Talk, CallsInOrder
  <2>5. Len(messages') - 1 = Len(messages) /\ messages'[Len(messages)] = messages[Len(messages)]
    BY <1>2, <1>5, <1>6, <1>8
  <2> QED
    BY <1>3, <1>5, <2>1, <2>2, <2>4, <2>5 DEF AnswersACall
<1>11. ASSUME NEW h \in DOMAIN messages, messages[h].role = "assistant", NEW id \in messages[h].ids
       PROVE  CallIsAnswered(h, id)' \/ IsToCome(h, id)'
  <2>1. CASE CallIsAnswered(h, id)
    BY <1>6, <2>1
  <2>2. CASE IsToCome(h, id) /\ id # first
    BY <1>4, <1>6, <2>2 DEF IsToCome
  <2>3. CASE IsToCome(h, id) /\ id = first
    <3>1. AnsweredBy(h, Len(messages))'
      BY <1>6, <2>3 DEF IsToCome
    <3>2. h < Len(messages')
      BY <1>2, <1>5
    <3> QED
      BY <1>5, <2>3, <3>1, <3>2 DEF CallIsAnswered
  <2> QED
    BY <1>11, <2>1, <2>2, <2>3 DEF Talk, Conversation
<1>12. Conversation'
  <2>1. \A h \in DOMAIN messages' : h \in DOMAIN messages \/ h = Len(messages')
    BY <1>1, <1>2, <1>3, AppendKeeps
  <2>2. ASSUME NEW h \in DOMAIN messages, messages[h].role = "tool"
        PROVE  AnswersACall(h)'
    BY <1>6, <2>2 DEF Talk, Conversation
  <2>3. messages'[Len(messages')].role # "assistant"
    BY <1>3, <1>5
  <2> QED
    BY <1>1, <1>6, <1>10, <1>11, <2>1, <2>2, <2>3 DEF Conversation
<1> QED
  BY <1>7, <1>9, <1>12 DEF Talk

-----------------------------------------------------------------------------
(* The trace.                                                              *)
LEMMA StepAdded ==
  ASSUME steps \in Seq(Step), NEW s \in Step, steps' = Append(steps, s), NEW n \in Nat
  PROVE  /\ IsFiniteSet(ToolSteps(n)) /\ Len(steps) + 1 \notin ToolSteps(n)
         /\ s = [number |-> n, what |-> "tool"] => ToolSteps(n)' = ToolSteps(n) \cup {Len(steps) + 1}
         /\ s # [number |-> n, what |-> "tool"] => ToolSteps(n)' = ToolSteps(n)
<1>1. /\ Len(steps) \in Nat /\ DOMAIN steps = 1..Len(steps)
      /\ DOMAIN steps' = 1..(Len(steps) + 1) /\ steps'[Len(steps) + 1] = s
      /\ \A i \in 1..Len(steps) : steps'[i] = steps[i]
  OBVIOUS
<1>2. IsFiniteSet(ToolSteps(n))
  <2>1. ToolSteps(n) \subseteq 1..Len(steps)
    BY <1>1 DEF ToolSteps
  <2>2. IsFiniteSet(1..Len(steps))
    BY <1>1, FS_Interval
  <2> QED
    BY <2>1, <2>2, FS_Subset
<1>3. DOMAIN steps' = DOMAIN steps \cup {Len(steps) + 1} /\ Len(steps) + 1 \notin DOMAIN steps
  BY <1>1
<1> QED
  BY <1>1, <1>2, <1>3 DEF ToolSteps

LEMMA MessageAdded ==
  ASSUME messages \in Seq(Message), NEW m \in Message, messages' = Append(messages, m), NEW n \in Nat
  PROVE  /\ IsFiniteSet(ToolMessages(n)) /\ Len(messages) + 1 \notin ToolMessages(n)
         /\ m.role = "tool" /\ m.id[1] = n =>
              ToolMessages(n)' = ToolMessages(n) \cup {Len(messages) + 1}
         /\ ~(m.role = "tool" /\ m.id[1] = n) => ToolMessages(n)' = ToolMessages(n)
<1>1. /\ Len(messages) \in Nat /\ DOMAIN messages = 1..Len(messages)
      /\ DOMAIN messages' = 1..(Len(messages) + 1) /\ messages'[Len(messages) + 1] = m
      /\ \A i \in 1..Len(messages) : messages'[i] = messages[i]
  OBVIOUS
<1>2. IsFiniteSet(ToolMessages(n))
  <2>1. ToolMessages(n) \subseteq 1..Len(messages)
    BY <1>1 DEF ToolMessages
  <2>2. IsFiniteSet(1..Len(messages))
    BY <1>1, FS_Interval
  <2> QED
    BY <2>1, <2>2, FS_Subset
<1>3. DOMAIN messages' = DOMAIN messages \cup {Len(messages) + 1} /\ Len(messages) + 1 \notin DOMAIN messages
  BY <1>1
<1> QED
  BY <1>1, <1>2, <1>3 DEF ToolMessages

(* A step of the current iteration goes behind the others.                 *)
LEMMA StepsInOrder ==
  ASSUME TypeOK, TraceInv, turn > 0, NEW s \in Step, s.number = turn,
         steps' = Append(steps, s), turn' = turn
  PROVE  /\ \A i, j \in DOMAIN steps' : i < j => steps'[i].number <= steps'[j].number
         /\ \A i \in DOMAIN steps' : steps'[i].number <= turn'
         /\ steps' # <<>> /\ steps'[Len(steps')] = s
<1>1. steps \in Seq(Step) /\ turn \in Nat
  BY TypesByName
<1>2. /\ Len(steps) \in Nat /\ DOMAIN steps = 1..Len(steps)
      /\ DOMAIN steps' = 1..(Len(steps) + 1) /\ steps'[Len(steps) + 1] = s
      /\ \A i \in 1..Len(steps) : steps'[i] = steps[i]
      /\ Len(steps') = Len(steps) + 1
  BY <1>1
<1> QED
  BY <1>1, <1>2 DEF TraceInv, TraceTellsConversation

LEMMA TraceTold ==
  ASSUME TypeOK, Talk, TraceInv, Told
  PROVE  TraceInv'
<1> DEFINE m == ToolMessage(Head(pending).id)
<1>1. /\ steps \in Seq(Step) /\ messages \in Seq(Message) /\ turn \in 1..MaxTurns
      /\ pc' = "tooling" /\ turn' = turn /\ turn > 0
  BY TypesByName, ReviewAgentAssumption DEF TraceInv, Told, TypeOK
<1>2. m \in Message /\ m.role = "tool" /\ m.id[1] = turn
  BY TailInOrder DEF ToolMessage, Message, Call, Told, Talk
<1>3. ToolStep \in Step /\ ToolStep.number = turn /\ ToolStep = [number |-> turn, what |-> "tool"]
  BY <1>1 DEF ToolStep, Step
<1>4. ASSUME NEW n \in 1..MaxTurns
      PROVE  Cardinality(ToolSteps(n))' = Cardinality(ToolMessages(n))'
  <2>1. n \in Nat /\ Cardinality(ToolSteps(n)) = Cardinality(ToolMessages(n))
    BY ReviewAgentAssumption DEF TraceInv, TraceTellsConversation
  <2>2. IsFiniteSet(ToolSteps(n)) /\ IsFiniteSet(ToolMessages(n))
    BY <1>1, <1>2, <1>3, <2>1, StepAdded, MessageAdded DEF Told
  <2>3. CASE n = turn
    <3>1. /\ ToolSteps(n)' = ToolSteps(n) \cup {Len(steps) + 1} /\ Len(steps) + 1 \notin ToolSteps(n)
          /\ ToolMessages(n)' = ToolMessages(n) \cup {Len(messages) + 1}
          /\ Len(messages) + 1 \notin ToolMessages(n)
      BY <1>1, <1>2, <1>3, <2>1, <2>3, StepAdded, MessageAdded DEF Told
    <3> QED
      BY <2>1, <2>2, <3>1, FS_AddElement
  <2>4. CASE n # turn
    <3>0. ToolStep # [number |-> n, what |-> "tool"]
      BY <1>3, <2>4
    <3>1. ToolSteps(n)' = ToolSteps(n)
      BY <1>1, <1>3, <2>1, <3>0, StepAdded DEF Told
    <3>2. ToolMessages(n)' = ToolMessages(n)
      BY <1>1, <1>2, <2>1, <2>4, MessageAdded DEF Told
    <3> QED
      BY <2>1, <3>1, <3>2
  <2> QED
    BY <2>3, <2>4
<1>5. /\ \A i, j \in DOMAIN steps' : i < j => steps'[i].number <= steps'[j].number
      /\ \A i \in DOMAIN steps' : steps'[i].number <= turn'
  BY <1>1, <1>3, StepsInOrder DEF Told
<1> QED
  BY <1>1, <1>4, <1>5 DEF TraceInv, TraceTellsConversation

(* The last step of a run is no tool step.                                 *)
LEMMA TraceEnds ==
  ASSUME TypeOK, TraceInv, pc = "calling", pc' \in {"returned", "failed"},
         steps' = Append(steps, LastStep), UNCHANGED <<turn, messages>>
  PROVE  TraceInv'
<1>1. steps \in Seq(Step) /\ turn \in 1..MaxTurns /\ turn > 0
  BY TypesByName, ReviewAgentAssumption DEF TraceInv, TypeOK
<1>2. /\ LastStep \in Step /\ LastStep.number = turn /\ LastStep.what = "end"
      /\ \A n : LastStep # [number |-> n, what |-> "tool"]
  BY <1>1 DEF LastStep, Step
<1>3. ASSUME NEW n \in 1..MaxTurns
      PROVE  Cardinality(ToolSteps(n))' = Cardinality(ToolMessages(n))'
  <2>1. n \in Nat /\ Cardinality(ToolSteps(n)) = Cardinality(ToolMessages(n))
    BY ReviewAgentAssumption DEF TraceInv, TraceTellsConversation
  <2>2. ToolSteps(n)' = ToolSteps(n)
    BY <1>1, <1>2, <2>1, StepAdded
  <2>3. ToolMessages(n)' = ToolMessages(n)
    BY DEF ToolMessages
  <2> QED
    BY <2>1, <2>2, <2>3
<1>4. /\ \A i, j \in DOMAIN steps' : i < j => steps'[i].number <= steps'[j].number
      /\ \A i \in DOMAIN steps' : steps'[i].number <= turn'
      /\ steps' # <<>> /\ steps'[Len(steps')] = LastStep
  BY <1>1, <1>2, StepsInOrder
<1> QED
  BY <1>2, <1>3, <1>4 DEF TraceInv, TraceTellsConversation

LEMMA TraceAnswerTools ==
  ASSUME TypeOK, TypeOK', TraceInv, AnswerTools
  PROVE  TraceInv'
<1>1. PICK ids : messages' = Append(messages, AssistantMessage(ids))
  BY DEF AnswerTools
<1>2. messages \in Seq(Message) /\ messages' \in Seq(Message)
  BY DEF TypeOK, Message
<1>3. Len(messages) + 1 \in DOMAIN messages' /\ messages'[Len(messages) + 1] = AssistantMessage(ids)
  BY <1>1, <1>2
<1>4. AssistantMessage(ids) \in Message /\ AssistantMessage(ids).role = "assistant"
  BY <1>2, <1>3 DEF AssistantMessage
<1>5. pc = "calling" /\ pc' = "tooling" /\ UNCHANGED <<turn, steps>>
  BY DEF AnswerTools
<1>6. ASSUME NEW n \in 1..MaxTurns
      PROVE  Cardinality(ToolSteps(n))' = Cardinality(ToolMessages(n))'
  <2>1. n \in Nat /\ Cardinality(ToolSteps(n)) = Cardinality(ToolMessages(n))
    BY ReviewAgentAssumption DEF TraceInv, TraceTellsConversation
  <2>2. ToolMessages(n)' = ToolMessages(n)
    BY <1>1, <1>2, <1>4, <2>1, MessageAdded
  <2>3. ToolSteps(n)' = ToolSteps(n)
    BY <1>5 DEF ToolSteps
  <2> QED
    BY <2>1, <2>2, <2>3
<1> QED
  BY <1>5, <1>6 DEF TraceInv, TraceTellsConversation

(* The trace rests while neither it nor the conversation changes.          *)
LEMMA TraceRests ==
  ASSUME TypeOK, TraceInv, UNCHANGED <<messages, steps>>,
         pc' # "returned" \/ pc' = pc,
         turn' = turn \/ turn' = turn + 1,
         pc' \in {"calling", "tooling"} => turn' > 0
  PROVE  TraceInv'
<1>1. turn \in Nat /\ \A i \in DOMAIN steps : steps[i] \in Step
  BY TypesByName
<1>2. \A i \in DOMAIN steps' : steps'[i].number <= turn'
  BY <1>1 DEF TraceInv, Step
<1>3. \A n : Cardinality(ToolSteps(n))' = Cardinality(ToolSteps(n))
             /\ Cardinality(ToolMessages(n))' = Cardinality(ToolMessages(n))
  BY DEF ToolSteps, ToolMessages
<1> QED
  BY <1>2, <1>3 DEF TraceInv, TraceTellsConversation

-----------------------------------------------------------------------------
LEMMA InvInit == Init => IInv
<1> SUFFICES ASSUME Init PROVE IInv
  OBVIOUS
<1>1. TypeOK
  <2>1. /\ messages \in Seq(Message) /\ pending \in Seq(Call) /\ steps \in Seq(Step)
        /\ turn \in 0..MaxTurns
    BY ReviewAgentAssumption DEF Init
  <2> QED
    BY <2>1 DEF Init, TypeOK, Message, Call, Step
<1>2. messages = <<>> /\ steps = <<>> /\ pending = <<>> /\ pc = "ready" /\ turn = 0
  BY DEF Init
<1>3. CallsInOrder /\ CallsWereAsked /\ Conversation
  BY <1>2 DEF CallsInOrder, CallsWereAsked, Conversation
<1>4. \A n : ToolSteps(n) = {} /\ ToolMessages(n) = {}
  BY <1>2 DEF ToolSteps, ToolMessages
<1>5. TraceInv
  BY <1>2, <1>4 DEF TraceInv, TraceTellsConversation
<1> QED
  BY <1>1, <1>3, <1>5 DEF IInv

LEMMA InvStep == IInv /\ [Next]_vars => IInv'
<1> SUFFICES ASSUME IInv, [Next]_vars PROVE IInv'
  OBVIOUS
<1>0. /\ TypeOK /\ Talk /\ TraceInv /\ turn \in Nat
      /\ pc \in {"calling", "tooling"} => turn > 0
      /\ pc \notin {"tooling", "cancelled"} => pending = <<>>
  BY TypesByName DEF IInv, Talk, TraceInv, CallsInOrder
<1>1. TypeOK'
  BY <1>0, TypeStep
<1>2. CASE Begin \/ ToolsDone
  <2>1. /\ pending = <<>> /\ UNCHANGED <<messages, pending, steps>>
        /\ \/ pc' = "calling" /\ turn' = turn + 1
           \/ pc' = "failed" /\ turn' = turn
    BY <1>0, <1>2 DEF Begin, ToolsDone, LoopHead
  <2>2. Talk'
    BY <1>0, <2>1, TalkRests
  <2>3. TraceInv'
    BY <1>0, <2>1, TraceRests
  <2> QED
    BY <1>1, <2>2, <2>3 DEF IInv, Talk
<1>3. CASE AnswerTools
  <2>1. turn > 0
    BY <1>0, <1>3 DEF AnswerTools
  <2> QED
    BY <1>0, <1>1, <1>3, <2>1, TalkAnswerTools, TraceAnswerTools DEF IInv, Talk
<1>4. CASE SkipCall
  <2>1. UNCHANGED <<pc, turn, messages, steps>>
    BY <1>4 DEF SkipCall
  <2>2. TraceInv'
    BY <1>0, <2>1, TraceRests
  <2> QED
    BY <1>0, <1>1, <1>4, <2>2, TalkSkipCall DEF IInv, Talk
<1>5. CASE RefuseArguments \/ ExecuteTool
  BY <1>0, <1>1, <1>5, ToolCallsAreTold, TalkTold, TraceTold DEF IInv, Talk
<1>6. CASE AnswerStop \/ AnswerLength \/ AnswerUnexpected
  <2>1. /\ pc = "calling" /\ pc' \in {"returned", "failed"} /\ steps' = Append(steps, LastStep)
        /\ UNCHANGED <<turn, messages, pending>>
    BY <1>6 DEF AnswerStop, AnswerLength, AnswerUnexpected
  <2>2. Talk'
    BY <1>0, <2>1, TalkRests
  <2>3. TraceInv'
    BY <1>0, <2>1, TraceEnds
  <2> QED
    BY <1>1, <2>2, <2>3 DEF IInv, Talk
<1>7. CASE AnswerNoChoice \/ Interrupt \/ Supersede \/ UNCHANGED vars
  <2>1. /\ UNCHANGED <<turn, messages, pending, steps>>
        /\ pc' = pc \/ pc' = "cancelled" \/ (pc = "calling" /\ pc' = "crashed")
    BY <1>7 DEF AnswerNoChoice, Interrupt, Supersede, vars
  <2>2. Talk'
    BY <1>0, <2>1, TalkRests
  <2>3. TraceInv'
    BY <1>0, <2>1, TraceRests
  <2> QED
    BY <1>1, <2>2, <2>3 DEF IInv, Talk
<1> QED
  BY <1>2, <1>3, <1>4, <1>5, <1>6, <1>7 DEF Next, Advance

(* The conversation is well formed, and the trace tells it, at every step  *)
(* of run_review_agent.                                                    *)
THEOREM Invariance == Spec => []IInv
<1> QED
  BY InvInit, InvStep, PTL DEF Spec

(* TypeOK, whatever the number of iterations and of calls.                 *)
THEOREM TypeCorrect == Spec => []TypeOK
<1>1. IInv => TypeOK
  BY DEF IInv
<1> QED
  BY <1>1, Invariance, PTL

(* EveryCallAnswered: the conversation that is sent obeys the protocol of  *)
(* the model (the loop body of run_review_agent).                          *)
THEOREM ProtocolIsKept == Spec => []EveryCallAnswered
<1>1. IInv => EveryCallAnswered
  BY DEF IInv, Conversation, EveryCallAnswered
<1> QED
  BY <1>1, Invariance, PTL

(* TraceTellsConversation: a tool message for each tool step and a last    *)
(* step for each review (add_step on every path).                          *)
THEOREM TraceIsTrue == Spec => []TraceTellsConversation
<1>1. IInv => TraceTellsConversation
  BY DEF IInv, TraceInv
<1> QED
  BY <1>1, Invariance, PTL

-----------------------------------------------------------------------------
(* The loop runs out: an answer has at most MaxCalls calls, so a round has *)
(* MaxCalls + 2 steps.                                                     *)
CallsBounded == Len(pending) <= MaxCalls

Round == MaxCalls + 2

LEMMA BoundedInit == Init => CallsBounded
  BY ReviewAgentAssumption DEF Init, CallsBounded

LEMMA BoundedStep ==
  ASSUME TypeOK, CallsBounded, [Next]_vars
  PROVE  CallsBounded'
<1>1. pending \in Seq(Call) /\ MaxCalls \in Nat \ {0}
  BY ReviewAgentAssumption DEF TypeOK, Call
<1>2. CASE AnswerTools
  <2>1. PICK answer \in Answers :
          pending' = [i \in DOMAIN answer |-> [id |-> <<turn, i>>, kind |-> answer[i]]]
    BY <1>2 DEF AnswerTools
  <2>2. PICK n \in 1..MaxCalls : answer \in [1..n -> CallKind]
    BY DEF Answers
  <2>3. n \in Nat /\ n <= MaxCalls /\ DOMAIN pending' = 1..n
    BY <1>1, <2>1, <2>2
  <2>4. Len(pending') = n
    BY <2>1, <2>2, <2>3
  <2> QED
    BY <2>3, <2>4 DEF CallsBounded
<1>3. CASE SkipCall \/ RefuseArguments \/ ExecuteTool
  <2>1. pending # <<>> /\ pending' = Tail(pending)
    BY <1>3 DEF SkipCall, RefuseArguments, ExecuteTool
  <2>2. Len(pending) \in Nat /\ Len(pending') = Len(pending) - 1
    BY <1>1, <2>1
  <2> QED
    BY <1>1, <2>2 DEF CallsBounded
<1>4. CASE UNCHANGED pending
  BY <1>4 DEF CallsBounded
<1> QED
  BY <1>2, <1>3, <1>4 DEF Next, Advance, vars, Begin, ToolsDone, AnswerStop, AnswerLength,
     AnswerUnexpected, AnswerNoChoice, Interrupt, Supersede

LEMMA RoundArithmetic ==
  ASSUME NEW t \in 0..MaxTurns
  PROVE  /\ (MaxTurns - t) * Round \in Nat
         /\ t < MaxTurns => (MaxTurns - (t + 1)) * Round = (MaxTurns - t) * Round - Round
  BY ReviewAgentAssumption DEF Round

LEMMA LeftIsRounds ==
  Left = IF pc \notin {"ready", "calling", "tooling"} THEN 0
         ELSE (MaxTurns - turn) * Round + IF pc = "calling" THEN MaxCalls + 2 ELSE Len(pending) + 1
  BY DEF Left, Round

(* LoopRunsOut: each step of a run uses up some of what it has left, which *)
(* at the beginning is a step and a round for each iteration               *)
(* (run_review_agent).                                                     *)
THEOREM EveryRunIsBounded == Spec => LoopRunsOut
<1> DEFINE work == <<pc, turn, messages, pending, steps, review>>
           Bounded == IInv /\ CallsBounded
<1>1. Bounded /\ [Next]_vars => [Left' \in 0..(Left - 1)]_work
  <2> SUFFICES ASSUME IInv, CallsBounded, Next, ~UNCHANGED work
               PROVE  Left' \in 0..(Left - 1)
    BY DEF vars
  <2>1. /\ TypeOK /\ turn \in 0..MaxTurns /\ turn \in Nat /\ MaxTurns \in Nat /\ MaxCalls \in Nat \ {0}
        /\ Round = MaxCalls + 2
        /\ pending \in Seq(Call) /\ Len(pending) \in 0..MaxCalls
        /\ pc \in {"ready", "calling"} => pending = <<>> /\ Len(pending) = 0
    BY ReviewAgentAssumption DEF IInv, TypeOK, CallsInOrder, CallsBounded, Call, Round
  <2>2. CallsBounded' /\ pending' \in Seq(Call) /\ Len(pending') \in 0..MaxCalls
    <3>1. CallsBounded' /\ TypeOK'
      BY BoundedStep, InvStep DEF IInv
    <3>2. pending' \in Seq(Call)
      BY <3>1 DEF TypeOK, Call
    <3> QED
      BY <2>1, <3>1, <3>2 DEF CallsBounded
  <2>3. (MaxTurns - turn) * Round \in Nat
    BY <2>1, RoundArithmetic
  <2>4. CASE pc \in {"ready", "calling", "tooling"} /\ pc' \notin {"ready", "calling", "tooling"}
    <3>1. Left \in Nat \ {0}
      <4>1. CASE pc = "calling"
        <5>1. Left = (MaxTurns - turn) * Round + (MaxCalls + 2)
          BY <4>1, LeftIsRounds
        <5> QED
          BY <2>1, <2>3, <5>1
      <4>2. CASE pc # "calling"
        <5>1. Left = (MaxTurns - turn) * Round + (Len(pending) + 1)
          BY <2>4, <4>2, LeftIsRounds
        <5> QED
          BY <2>1, <2>3, <5>1
      <4> QED
        BY <4>1, <4>2
    <3>2. Left' = 0
      BY <2>4 DEF Left
    <3> QED
      BY <3>1, <3>2
  <2>5. CASE (Begin \/ ToolsDone) /\ pc' = "calling"
    <3>1. pc \in {"ready", "tooling"} /\ turn < MaxTurns /\ turn' = turn + 1 /\ pending = <<>>
      BY <2>1, <2>5 DEF Begin, ToolsDone, LoopHead
    <3>2. Left = (MaxTurns - turn) * Round + 1
      BY <3>1, LeftIsRounds
    <3>3. Left' = (MaxTurns - (turn + 1)) * Round + Round
      BY <2>1, <2>5, <3>1, LeftIsRounds DEF Left, Round
    <3>4. Left' = (MaxTurns - turn) * Round
      BY <2>1, <2>3, <3>1, <3>3, RoundArithmetic
    <3> QED
      BY <2>3, <3>2, <3>4
  <2>6. CASE AnswerTools
    <3>1. pc = "calling" /\ pc' = "tooling" /\ turn' = turn
      BY <2>6 DEF AnswerTools
    <3>2. Left = (MaxTurns - turn) * Round + (MaxCalls + 2)
      BY <3>1, LeftIsRounds
    <3>3. Left' = (MaxTurns - turn) * Round + (Len(pending') + 1)
      BY <3>1 DEF Left, Round
    <3> QED
      BY <2>1, <2>2, <2>3, <3>2, <3>3
  <2>7. CASE SkipCall \/ RefuseArguments \/ ExecuteTool
    <3>1. /\ pc = "tooling" /\ pc' = "tooling" /\ turn' = turn
          /\ pending # <<>> /\ pending' = Tail(pending)
      BY <2>7 DEF SkipCall, RefuseArguments, ExecuteTool
    <3>2. Len(pending') = Len(pending) - 1
      BY <2>1, <3>1
    <3>3. Left = (MaxTurns - turn) * Round + (Len(pending) + 1)
      BY <3>1, LeftIsRounds
    <3>4. Left' = (MaxTurns - turn) * Round + (Len(pending') + 1)
      BY <3>1 DEF Left, Round
    <3> QED
      BY <2>1, <2>2, <2>3, <3>2, <3>3, <3>4
  <2>8. CASE Supersede
    BY <2>8 DEF Supersede
  <2> QED
    BY <2>4, <2>5, <2>6, <2>7, <2>8
       DEF Next, Advance, Begin, ToolsDone, LoopHead, AnswerStop, AnswerLength, AnswerUnexpected,
           AnswerNoChoice, Interrupt
<1>2. Init => Bounded
  BY InvInit, BoundedInit
<1>3. Bounded /\ [Next]_vars => Bounded'
  BY InvStep, BoundedStep DEF IInv
<1> QED
  BY <1>1, <1>2, <1>3, PTL DEF Spec, LoopRunsOut

(* ImplementsContract: the run is an agent of the module Agents, whose     *)
(* promise the pipeline relies on.                                         *)
THEOREM RefinesContract == Spec => ImplementsContract
<1>1. Init => Contract!Init
  BY DEF Init, Contract!Init
<1>2. [Next]_vars => [Contract!Next]_(Contract!agentVars)
  <2> SUFFICES ASSUME [Next]_vars PROVE [Contract!Next]_(Contract!agentVars)
    OBVIOUS
  <2>1. CASE Begin
    BY <2>1 DEF Begin, LoopHead, Contract!Next, Contract!AgentStep, Contract!Begin, Contract!LoopHead
  <2>2. CASE ToolsDone
    BY <2>2 DEF ToolsDone, LoopHead, Contract!Next, Contract!AgentStep, Contract!ToolsDone, Contract!LoopHead
  <2>3. CASE AnswerTools
    BY <2>3 DEF AnswerTools, Contract!Next, Contract!AgentStep, Contract!AnswerTools
  <2>4. CASE AnswerStop \/ AnswerLength
    <3>1. /\ pc = "calling" /\ UNCHANGED <<cancel, turn>>
          /\ \/ pc' = "returned" /\ review' \in Kind
             \/ pc' = "failed" /\ UNCHANGED review
      BY <2>4 DEF AnswerStop, AnswerLength, Kind, Unparsable
    <3> QED
      BY <3>1 DEF Kind, Contract!Kind, Contract!Next, Contract!AgentStep, Contract!AnswerReview,
                  Contract!AnswerUnusable
  <2>5. CASE AnswerUnexpected \/ AnswerNoChoice
    BY <2>5 DEF AnswerUnexpected, AnswerNoChoice, Contract!Next, Contract!AgentStep,
                Contract!AnswerUnusable
  <2>6. CASE Interrupt
    BY <2>6 DEF Interrupt, Contract!Next, Contract!Interrupt, Contract!CancelAgents, Contract!Running
  <2>7. CASE Supersede
    BY <2>7 DEF Supersede, Contract!Next, Contract!Supersede
  <2>8. CASE SkipCall \/ RefuseArguments \/ ExecuteTool \/ UNCHANGED vars
    BY <2>8 DEF SkipCall, RefuseArguments, ExecuteTool, vars, Contract!agentVars
  <2> QED
    BY <2>1, <2>2, <2>3, <2>4, <2>5, <2>6, <2>7, <2>8 DEF Next, Advance
<1> QED
  BY <1>1, <1>2, PTL DEF Spec, ImplementsContract, Contract!Spec
=============================================================================
