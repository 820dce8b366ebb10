--------------------------- MODULE AgentLoopProofs ---------------------------
(***************************************************************************)
(* Proofs about AgentLoop for every value of its limits: the inductive     *)
(* invariant AgentInv, the safety properties that follow from it, and that *)
(* the agent implements Conversation.                                      *)
(***************************************************************************)
EXTENDS AgentLoop, TLAPS, SequenceTheorems

-----------------------------------------------------------------------------
(* Facts about the sequences the actions build. *)

\* The lists of calls parse_tool_calls may return are sequences of calls.
LEMMA CallListsAreSequences ==
  ASSUME NEW list \in CallLists
  PROVE  list \in Seq(CallKinds)
<1>1. PICK n \in 0..MaxBatch : list \in [1..n -> Offered]
  BY DEF CallLists
<1>2. n \in Nat /\ list \in [1..n -> CallKinds]
  BY <1>1, LimitsAssumption
<1>3. QED
  BY <1>2, SeqDef

\* A message added to the conversation is its last message.
LEMMA AppendLast ==
  ASSUME NEW S, NEW s \in Seq(S), NEW e \in S
  PROVE  /\ Append(s, e) \in Seq(S)
         /\ Append(s, e) # <<>>
         /\ Append(s, e)[Len(Append(s, e))] = e
<1>1. /\ Append(s, e) \in Seq(S)
      /\ Len(Append(s, e)) = Len(s) + 1
      /\ Append(s, e)[Len(s) + 1] = e
      /\ Len(s) \in Nat
  BY AppendProperties, LenProperties
<1>2. Append(s, e) # <<>>
  BY <1>1, EmptySeq
<1>3. QED
  BY <1>1, <1>2

\* Adding one more fragment of the same turn keeps the fragments to that turn.
LEMMA AppendSame ==
  ASSUME NEW s \in Seq(Nat), NEW n \in Nat, \A i \in DOMAIN s : s[i] = n
  PROVE  \A i \in DOMAIN Append(s, n) : Append(s, n)[i] = n
BY AppendProperties, LenProperties

\* What /regen leaves of a conversation.
LEMMA DropLast ==
  ASSUME NEW S, NEW s \in Seq(S), Len(s) >= 2
  PROVE  /\ SubSeq(s, 1, Len(s) - 1) \in Seq(S)
         /\ SubSeq(s, 1, Len(s) - 1) # <<>>
<1>1. Len(s) \in Nat /\ \A i \in 1..(Len(s) - 1) : s[i] \in S
  BY LenProperties, ElementOfSeq
<1>2. /\ SubSeq(s, 1, Len(s) - 1) \in Seq(S)
      /\ Len(SubSeq(s, 1, Len(s) - 1)) = Len(s) - 1
  BY <1>1, SubSeqProperties
<1>3. Len(SubSeq(s, 1, Len(s) - 1)) # 0
  BY <1>1, <1>2
<1>4. QED
  BY <1>2, <1>3, EmptySeq

-----------------------------------------------------------------------------
(* The inductive invariant. *)

\* main() starts with the system prompt, no response in hand and nothing counted.
LEMMA AgentInvInit == Init => AgentInv
<1> SUFFICES ASSUME Init PROVE AgentInv
  OBVIOUS
<1>1. TypeOK
  <2>1. messages \in Seq(MsgKinds) /\ calls \in Seq(CallKinds) /\ pending \in Seq(Nat)
    BY EmptySeq DEF Init, MsgKinds
  <2>2. last_exec \in [kind : CallKinds \cup {"none"}, approved : BOOLEAN]
    BY DEF Init, NoExec
  <2>3. QED
    BY <2>1, <2>2 DEF Init, TypeOK, Phases, Contents
<1>2. QED
  BY <1>1, LimitsAssumption
     DEF Init, AgentInv, BudgetInv, GateInv, LogInv, ResultPairing, ConfirmationGate,
         NoStaleFragment, TurnPhases, CallPhases, HandlePhases, NoExec


\* Facts every preservation step below rests on: the conversation can be
\* extended, shortened and restarted, and a call in hand can be taken off.
LEMMA StepFacts ==
  ASSUME AgentInv
  PROVE  /\ \A kind \in MsgKinds : /\ Append(messages, kind) \in Seq(MsgKinds)
                                   /\ Append(messages, kind) # <<>>
                                   /\ Append(messages, kind)[Len(Append(messages, kind))] = kind
         /\ calls # <<>> => Head(calls) \in CallKinds /\ Tail(calls) \in Seq(CallKinds)
         /\ Append(pending, inputs) \in Seq(Nat)
         /\ Len(pending) \in Nat /\ DOMAIN pending = 1..Len(pending)
         /\ <<>> \in Seq(Nat) /\ <<>> \in Seq(CallKinds) /\ <<"system">> \in Seq(MsgKinds)
<1>1. messages \in Seq(MsgKinds) /\ calls \in Seq(CallKinds) /\ pending \in Seq(Nat) /\ inputs \in Nat
  BY DEF AgentInv, TypeOK
<1>2. \A kind \in MsgKinds : /\ Append(messages, kind) \in Seq(MsgKinds)
                            /\ Append(messages, kind) # <<>>
                            /\ Append(messages, kind)[Len(Append(messages, kind))] = kind
  BY <1>1, AppendLast
<1>3. calls # <<>> => Head(calls) \in CallKinds /\ Tail(calls) \in Seq(CallKinds)
  BY <1>1, HeadTailProperties
<1>4. Append(pending, inputs) \in Seq(Nat) /\ Len(pending) \in Nat /\ DOMAIN pending = 1..Len(pending)
  BY <1>1, AppendProperties, LenProperties
<1>5. <<>> \in Seq(Nat) /\ <<>> \in Seq(CallKinds) /\ <<"system">> \in Seq(MsgKinds)
  BY EmptySeq DEF MsgKinds
<1>6. QED
  BY <1>2, <1>3, <1>4, <1>5

\* Every step of the agent, and of the signal handler in between, preserves the
\* invariant.
LEMMA AgentInvStep ==
  ASSUME AgentInv, [Next]_vars
  PROVE  AgentInv'
<1> USE LimitsAssumption, StepFacts DEF AgentInv, TypeOK, counters, history
<1>1. CASE signal_handler
  <2> USE <1>1 DEF signal_handler
  <2>1. TypeOK'
    <3>1. phase' \in Phases
      BY DEF Phases
    <3>2. flag' \in BOOLEAN
      OBVIOUS
    <3>3. cin_ok' \in BOOLEAN
      BY Zenon
    <3>4. QED
      BY <3>1, <3>2, <3>3
  <2>2. BudgetInv'
    BY DEF BudgetInv, HandlePhases, TurnPhases
  <2>3. GateInv'
    BY DEF GateInv, HandlePhases, RequiresConfirmation, Handled
  <2>4. LogInv'
    BY DEF LogInv, CallPhases, MsgKinds
  <2>5. ResultPairing'
    BY DEF ResultPairing, TurnPhases
  <2>6. ConfirmationGate'
    BY DEF ConfirmationGate, GateInv, TurnPhases, RequiresConfirmation, NoExec
  <2>7. NoStaleFragment'
    BY DEF NoStaleFragment, TurnPhases
  <2>8. QED
    BY <2>1, <2>2, <2>3, <2>4, <2>5, <2>6, <2>7
<1>2. CASE ReplExit
  <2> USE <1>2 DEF ReplExit
  <2>1. TypeOK'
    <3>1. flag' \in BOOLEAN
      BY Zenon
    <3>2. QED
      BY <3>1 DEF Phases
  <2>2. BudgetInv'
    BY DEF BudgetInv, HandlePhases, TurnPhases
  <2>3. GateInv'
    BY DEF GateInv, HandlePhases, RequiresConfirmation, Handled
  <2>4. LogInv'
    BY DEF LogInv, CallPhases, MsgKinds
  <2>5. ResultPairing'
    BY DEF ResultPairing, TurnPhases
  <2>6. ConfirmationGate'
    BY DEF ConfirmationGate, GateInv, TurnPhases, RequiresConfirmation, NoExec
  <2>7. NoStaleFragment'
    BY DEF NoStaleFragment, TurnPhases
  <2>8. QED
    BY <2>1, <2>2, <2>3, <2>4, <2>5, <2>6, <2>7
<1>3. CASE UserMessage
  <2> USE <1>3 DEF UserMessage, BeginTurn
  <2>1. TypeOK'
    <3>1. messages' \in Seq(MsgKinds)
      BY DEF MsgKinds
    <3>2. last_exec' \in [kind : CallKinds \cup {"none"}, approved : BOOLEAN]
      BY DEF NoExec
    <3>3. approved' \in BOOLEAN /\ phase' \in Phases
      BY DEF Phases
    <3>4. QED
      BY <3>1, <3>2, <3>3
  <2>2. BudgetInv'
    BY DEF BudgetInv, HandlePhases, TurnPhases
  <2>3. GateInv'
    BY DEF GateInv, HandlePhases, RequiresConfirmation, Handled
  <2>4. LogInv'
    BY DEF LogInv, CallPhases, MsgKinds
  <2>5. ResultPairing'
    BY DEF ResultPairing, TurnPhases
  <2>6. ConfirmationGate'
    BY DEF ConfirmationGate, GateInv, TurnPhases, RequiresConfirmation, NoExec
  <2>7. NoStaleFragment'
    BY DEF NoStaleFragment, TurnPhases
  <2>8. QED
    BY <2>1, <2>2, <2>3, <2>4, <2>5, <2>6, <2>7
<1>4. CASE Regen
  <2> USE <1>4 DEF Regen, BeginTurn
  <2>1. TypeOK'
    <3>1. messages' \in Seq(MsgKinds)
      BY DropLast
    <3>2. last_exec' \in [kind : CallKinds \cup {"none"}, approved : BOOLEAN]
      BY DEF NoExec
    <3>3. approved' \in BOOLEAN /\ phase' \in Phases
      BY DEF Phases
    <3>4. QED
      BY <3>1, <3>2, <3>3
  <2>2. BudgetInv'
    BY DEF BudgetInv, HandlePhases, TurnPhases
  <2>3. GateInv'
    BY DEF GateInv, HandlePhases, RequiresConfirmation, Handled
  <2>4. LogInv'
    BY DropLast DEF LogInv, CallPhases
  <2>5. ResultPairing'
    BY DEF ResultPairing, TurnPhases
  <2>6. ConfirmationGate'
    BY DEF ConfirmationGate, GateInv, TurnPhases, RequiresConfirmation, NoExec
  <2>7. NoStaleFragment'
    BY DEF NoStaleFragment, TurnPhases
  <2>8. QED
    BY <2>1, <2>2, <2>3, <2>4, <2>5, <2>6, <2>7
<1>5. CASE Clear
  <2> USE <1>5 DEF Clear
  <2>1. TypeOK'
    BY DEF GateInv, HandlePhases, Phases, Contents, CallKinds, MsgKinds
  <2>2. BudgetInv'
    BY DEF BudgetInv, HandlePhases, TurnPhases
  <2>3. GateInv'
    BY DEF GateInv, HandlePhases, RequiresConfirmation, Handled
  <2>4. LogInv'
    BY DEF LogInv, CallPhases, MsgKinds
  <2>5. ResultPairing'
    BY DEF ResultPairing, TurnPhases
  <2>6. ConfirmationGate'
    BY DEF ConfirmationGate, GateInv, TurnPhases, RequiresConfirmation, NoExec
  <2>7. NoStaleFragment'
    BY DEF NoStaleFragment, TurnPhases
  <2>8. QED
    BY <2>1, <2>2, <2>3, <2>4, <2>5, <2>6, <2>7
<1>6. CASE PlanCommand
  <2> USE <1>6 DEF PlanCommand
  <2>1. TypeOK'
    BY DEF GateInv, HandlePhases, Phases, Contents, CallKinds, MsgKinds
  <2>2. BudgetInv'
    BY DEF BudgetInv, HandlePhases, TurnPhases
  <2>3. GateInv'
    BY DEF GateInv, HandlePhases, RequiresConfirmation, Handled
  <2>4. LogInv'
    BY DEF LogInv, CallPhases, MsgKinds
  <2>5. ResultPairing'
    BY DEF ResultPairing, TurnPhases
  <2>6. ConfirmationGate'
    BY DEF ConfirmationGate, GateInv, TurnPhases, RequiresConfirmation, NoExec
  <2>7. NoStaleFragment'
    BY DEF NoStaleFragment, TurnPhases
  <2>8. QED
    BY <2>1, <2>2, <2>3, <2>4, <2>5, <2>6, <2>7
<1>7. CASE PostTask
  <2> USE <1>7 DEF PostTask, AfterTurn
  <2>1. TypeOK'
    BY DEF GateInv, HandlePhases, Phases, Contents, CallKinds, MsgKinds
  <2>2. BudgetInv'
    BY DEF BudgetInv, HandlePhases, TurnPhases
  <2>3. GateInv'
    BY DEF GateInv, HandlePhases, RequiresConfirmation, Handled
  <2>4. LogInv'
    BY DEF LogInv, CallPhases, MsgKinds
  <2>5. ResultPairing'
    BY DEF ResultPairing, TurnPhases
  <2>6. ConfirmationGate'
    BY DEF ConfirmationGate, GateInv, TurnPhases, RequiresConfirmation, NoExec
  <2>7. NoStaleFragment'
    BY DEF NoStaleFragment, TurnPhases
  <2>8. QED
    BY <2>1, <2>2, <2>3, <2>4, <2>5, <2>6, <2>7
<1>8. CASE RecvPartial
  <2> USE <1>8 DEF RecvPartial, Continuations
  <2>1. TypeOK'
    BY DEF GateInv, HandlePhases, Phases, Contents, CallKinds, MsgKinds
  <2>2. BudgetInv'
    BY DEF BudgetInv, HandlePhases, TurnPhases
  <2>3. GateInv'
    BY DEF GateInv, HandlePhases, RequiresConfirmation, Handled
  <2>4. LogInv'
    BY DEF LogInv, CallPhases, MsgKinds
  <2>5. ResultPairing'
    BY DEF ResultPairing, TurnPhases
  <2>6. ConfirmationGate'
    BY DEF ConfirmationGate, GateInv, TurnPhases, RequiresConfirmation, NoExec
  <2>7. NoStaleFragment'
    BY DEF NoStaleFragment, TurnPhases
  <2>8. QED
    BY <2>1, <2>2, <2>3, <2>4, <2>5, <2>6, <2>7
<1>9. CASE RecvEnd
  <2> USE <1>9 DEF RecvEnd
  <2>1. TypeOK'
    BY DEF GateInv, HandlePhases, Phases, Contents, CallKinds, MsgKinds
  <2>2. BudgetInv'
    BY DEF BudgetInv, HandlePhases, TurnPhases
  <2>3. GateInv'
    BY DEF GateInv, HandlePhases, RequiresConfirmation, Handled
  <2>4. LogInv'
    BY DEF LogInv, CallPhases, MsgKinds
  <2>5. ResultPairing'
    BY DEF ResultPairing, TurnPhases
  <2>6. ConfirmationGate'
    BY DEF ConfirmationGate, GateInv, TurnPhases, RequiresConfirmation, NoExec
  <2>7. NoStaleFragment'
    BY DEF NoStaleFragment, TurnPhases
  <2>8. QED
    BY <2>1, <2>2, <2>3, <2>4, <2>5, <2>6, <2>7
<1>10. CASE RecvError
  <2> USE <1>10 DEF RecvError, AfterTurn
  <2>1. TypeOK'
    BY DEF GateInv, HandlePhases, Phases, Contents, CallKinds, MsgKinds
  <2>2. BudgetInv'
    BY DEF BudgetInv, HandlePhases, TurnPhases
  <2>3. GateInv'
    BY DEF GateInv, HandlePhases, RequiresConfirmation, Handled
  <2>4. LogInv'
    BY DEF LogInv, CallPhases, MsgKinds
  <2>5. ResultPairing'
    BY DEF ResultPairing, TurnPhases
  <2>6. ConfirmationGate'
    BY DEF ConfirmationGate, GateInv, TurnPhases, RequiresConfirmation, NoExec
  <2>7. NoStaleFragment'
    BY DEF NoStaleFragment, TurnPhases
  <2>8. QED
    BY <2>1, <2>2, <2>3, <2>4, <2>5, <2>6, <2>7
<1>11. CASE ProcessResponse
  <2> USE <1>11 DEF ProcessResponse, AfterTurn, KeepFragment, TakeResponse
  <2>1. TypeOK'
    <3>1. calls' \in Seq(CallKinds)
      BY CallListsAreSequences
    <3>2. messages' \in Seq(MsgKinds)
      BY DEF MsgKinds
    <3>3. pending' \in Seq(Nat)
      OBVIOUS
    <3>4. phase' \in Phases
      BY DEF Phases
    <3>5. splice' \in {"none", "closed", "unclosed"}
      OBVIOUS
    <3>6. QED
      BY <3>1, <3>2, <3>3, <3>4, <3>5
  <2>2. BudgetInv'
    BY DEF BudgetInv, HandlePhases, TurnPhases
  <2>3. GateInv'
    BY DEF GateInv, HandlePhases, RequiresConfirmation, Handled
  <2>4. LogInv'
    BY DEF LogInv, CallPhases, MsgKinds
  <2>5. ResultPairing'
    BY DEF ResultPairing, TurnPhases
  <2>6. ConfirmationGate'
    BY DEF ConfirmationGate, GateInv, TurnPhases, RequiresConfirmation, NoExec
  <2>7. NoStaleFragment'
    <3>1. CASE KeepFragment /\ pending' = Append(pending, inputs)
      <4>1. \A i \in DOMAIN pending : pending[i] = inputs
        BY DEF NoStaleFragment, TurnPhases
      <4>2. \A i \in DOMAIN pending' : pending'[i] = inputs
        BY <3>1, <4>1, AppendSame, SMTT(40)
      <4>3. QED
        BY <4>2 DEF NoStaleFragment
    <3>2. CASE pending' = <<>>
      BY <3>2 DEF NoStaleFragment
    <3>3. CASE UNCHANGED pending
      BY <3>3 DEF NoStaleFragment, TurnPhases
    <3>4. QED
      BY <3>1, <3>2, <3>3
  <2>8. QED
    BY <2>1, <2>2, <2>3, <2>4, <2>5, <2>6, <2>7
<1>12. CASE SkipCall
  <2> USE <1>12 DEF SkipCall
  <2>1. TypeOK'
    <3>1. messages' \in Seq(MsgKinds)
      BY DEF MsgKinds
    <3>2. QED
      BY <3>1
  <2>2. BudgetInv'
    BY DEF BudgetInv, HandlePhases, TurnPhases
  <2>3. GateInv'
    BY DEF GateInv, HandlePhases, RequiresConfirmation, Handled
  <2>4. LogInv'
    BY DEF LogInv, CallPhases, MsgKinds
  <2>5. ResultPairing'
    BY DEF ResultPairing, TurnPhases
  <2>6. ConfirmationGate'
    BY DEF ConfirmationGate, GateInv, TurnPhases, RequiresConfirmation, NoExec
  <2>7. NoStaleFragment'
    BY DEF NoStaleFragment, TurnPhases
  <2>8. QED
    BY <2>1, <2>2, <2>3, <2>4, <2>5, <2>6, <2>7
<1>13. CASE CallLimit
  <2> USE <1>13 DEF CallLimit
  <2>1. TypeOK'
    BY DEF GateInv, HandlePhases, Phases, Contents, CallKinds, MsgKinds
  <2>2. BudgetInv'
    BY DEF BudgetInv, HandlePhases, TurnPhases
  <2>3. GateInv'
    BY DEF GateInv, HandlePhases, RequiresConfirmation, Handled
  <2>4. LogInv'
    BY DEF LogInv, CallPhases, MsgKinds
  <2>5. ResultPairing'
    BY DEF ResultPairing, TurnPhases
  <2>6. ConfirmationGate'
    BY DEF ConfirmationGate, GateInv, TurnPhases, RequiresConfirmation, NoExec
  <2>7. NoStaleFragment'
    BY DEF NoStaleFragment, TurnPhases
  <2>8. QED
    BY <2>1, <2>2, <2>3, <2>4, <2>5, <2>6, <2>7
<1>14. CASE TakeCall
  <2> USE <1>14 DEF TakeCall, NextGate
  <2>1. TypeOK'
    <3>1. approved' \in BOOLEAN /\ phase' \in Phases
      BY DEF Phases
    <3>2. QED
      BY <3>1
  <2>2. BudgetInv'
    BY DEF BudgetInv, HandlePhases, TurnPhases
  <2>3. GateInv'
    BY DEF GateInv, HandlePhases, RequiresConfirmation, Handled
  <2>4. LogInv'
    BY DEF LogInv, CallPhases, MsgKinds
  <2>5. ResultPairing'
    BY DEF ResultPairing, TurnPhases
  <2>6. ConfirmationGate'
    BY DEF ConfirmationGate, GateInv, TurnPhases, RequiresConfirmation, NoExec
  <2>7. NoStaleFragment'
    BY DEF NoStaleFragment, TurnPhases
  <2>8. QED
    BY <2>1, <2>2, <2>3, <2>4, <2>5, <2>6, <2>7
<1>15. CASE AnswerLocally
  <2> USE <1>15 DEF AnswerLocally, AddToolResult
  <2>1. TypeOK'
    BY DEF GateInv, HandlePhases, Phases, Contents, CallKinds, MsgKinds
  <2>2. BudgetInv'
    BY DEF BudgetInv, HandlePhases, TurnPhases
  <2>3. GateInv'
    BY DEF GateInv, HandlePhases, RequiresConfirmation, Handled
  <2>4. LogInv'
    BY DEF LogInv, CallPhases, MsgKinds
  <2>5. ResultPairing'
    BY DEF ResultPairing, TurnPhases
  <2>6. ConfirmationGate'
    BY DEF ConfirmationGate, GateInv, TurnPhases, RequiresConfirmation, NoExec
  <2>7. NoStaleFragment'
    BY DEF NoStaleFragment, TurnPhases
  <2>8. QED
    BY <2>1, <2>2, <2>3, <2>4, <2>5, <2>6, <2>7
<1>16. CASE ExecuteTool
  <2> USE <1>16 DEF ExecuteTool, AddToolResult
  <2>1. TypeOK'
    BY DEF GateInv, HandlePhases, Phases, Contents, CallKinds, MsgKinds
  <2>2. BudgetInv'
    BY DEF BudgetInv, HandlePhases, TurnPhases
  <2>3. GateInv'
    BY DEF GateInv, HandlePhases, RequiresConfirmation, Handled
  <2>4. LogInv'
    BY DEF LogInv, CallPhases, MsgKinds
  <2>5. ResultPairing'
    BY DEF ResultPairing, TurnPhases
  <2>6. ConfirmationGate'
    BY DEF ConfirmationGate, GateInv, TurnPhases, RequiresConfirmation, NoExec
  <2>7. NoStaleFragment'
    BY DEF NoStaleFragment, TurnPhases
  <2>8. QED
    BY <2>1, <2>2, <2>3, <2>4, <2>5, <2>6, <2>7
<1>17. CASE EndOfCalls
  <2> USE <1>17 DEF EndOfCalls, AfterTurn
  <2>1. TypeOK'
    BY DEF GateInv, HandlePhases, Phases, Contents, CallKinds, MsgKinds
  <2>2. BudgetInv'
    BY DEF BudgetInv, HandlePhases, TurnPhases
  <2>3. GateInv'
    BY DEF GateInv, HandlePhases, RequiresConfirmation, Handled
  <2>4. LogInv'
    BY DEF LogInv, CallPhases, MsgKinds
  <2>5. ResultPairing'
    BY DEF ResultPairing, TurnPhases
  <2>6. ConfirmationGate'
    BY DEF ConfirmationGate, GateInv, TurnPhases, RequiresConfirmation, NoExec
  <2>7. NoStaleFragment'
    BY DEF NoStaleFragment, TurnPhases
  <2>8. QED
    BY <2>1, <2>2, <2>3, <2>4, <2>5, <2>6, <2>7
<1>18. CASE ConfirmYes
  <2> USE <1>18 DEF ConfirmYes, NextGate
  <2>1. TypeOK'
    BY DEF GateInv, HandlePhases, Phases, Contents, CallKinds, MsgKinds
  <2>2. BudgetInv'
    BY DEF BudgetInv, HandlePhases, TurnPhases
  <2>3. GateInv'
    BY DEF GateInv, HandlePhases, RequiresConfirmation, Handled
  <2>4. LogInv'
    BY DEF LogInv, CallPhases, MsgKinds
  <2>5. ResultPairing'
    BY DEF ResultPairing, TurnPhases
  <2>6. ConfirmationGate'
    BY DEF ConfirmationGate, GateInv, TurnPhases, RequiresConfirmation, NoExec
  <2>7. NoStaleFragment'
    BY DEF NoStaleFragment, TurnPhases
  <2>8. QED
    BY <2>1, <2>2, <2>3, <2>4, <2>5, <2>6, <2>7
<1>19. CASE ConfirmNo
  <2> USE <1>19 DEF ConfirmNo, AddToolResult
  <2>1. TypeOK'
    <3>1. calls # <<>> /\ messages' \in Seq(MsgKinds)
      BY DEF GateInv, HandlePhases, MsgKinds
    <3>2. cin_ok' \in BOOLEAN
      BY Zenon
    <3>3. QED
      BY <3>1, <3>2 DEF Phases
  <2>2. BudgetInv'
    BY DEF BudgetInv, HandlePhases, TurnPhases
  <2>3. GateInv'
    BY DEF GateInv, HandlePhases, RequiresConfirmation, Handled
  <2>4. LogInv'
    BY DEF LogInv, CallPhases, MsgKinds
  <2>5. ResultPairing'
    BY DEF ResultPairing, TurnPhases
  <2>6. ConfirmationGate'
    BY DEF ConfirmationGate, GateInv, TurnPhases, RequiresConfirmation, NoExec
  <2>7. NoStaleFragment'
    BY DEF NoStaleFragment, TurnPhases
  <2>8. QED
    BY <2>1, <2>2, <2>3, <2>4, <2>5, <2>6, <2>7
<1>20. CASE UNCHANGED vars
  BY <1>20 DEF vars, BudgetInv, GateInv, LogInv, ResultPairing, ConfirmationGate, NoStaleFragment,
     TurnPhases, CallPhases, HandlePhases
<1>21. QED
  BY <1>1, <1>2, <1>3, <1>4, <1>5, <1>6, <1>7, <1>8, <1>9, <1>10, <1>11, <1>12, <1>13, <1>14, <1>15, <1>16, <1>17, <1>18, <1>19, <1>20 DEF Next, Repl, Generate, CallStep, User

-----------------------------------------------------------------------------
(* The theorems. *)

\* AgentInv holds of every state the agent can reach: the counters, the gates a
\* call has passed and the shape of the conversation are always as the code
\* assumes them, whenever SIGINT arrives.
THEOREM AgentSafety == Spec => []AgentInv
<1>1. AgentInv /\ [Next]_vars => AgentInv'
  BY AgentInvStep
<1>2. QED
  BY AgentInvInit, <1>1, PTL DEF Spec

\* Every variable keeps its type: in particular a call in hand is always there
\* to be taken off, and the failure counter never goes below zero.
THEOREM TypeCorrect == Spec => []TypeOK
<1>1. AgentInv => TypeOK
  BY DEF AgentInv
<1>2. QED
  BY AgentSafety, <1>1, PTL

\* One user message runs at most tool_call_limit tools, and no response is asked
\* for with an exhausted limit.
THEOREM LimitsHold == Spec => [](CallBudget /\ BudgetsRespected)
<1>1. AgentInv => CallBudget /\ BudgetsRespected
  BY DEF AgentInv, BudgetInv, CallBudget, BudgetsRespected, HandlePhases
<1>2. QED
  BY AgentSafety, <1>1, PTL

\* Every call given to handle_tool_call is answered by exactly one tool result.
THEOREM CallsAnswered == Spec => []ResultPairing
<1>1. AgentInv => ResultPairing
  BY DEF AgentInv
<1>2. QED
  BY AgentSafety, <1>1, PTL

\* A tool that requires confirmation, and every tool in plan mode, runs only
\* after the user agreed to that call.
THEOREM ConfirmedBeforeRun == Spec => []ConfirmationGate
<1>1. AgentInv => ConfirmationGate
  BY DEF AgentInv
<1>2. QED
  BY AgentSafety, <1>1, PTL

\* Fragments of a cut-off tool call are never spliced into a later user turn.
THEOREM FragmentsFresh == Spec => []NoStaleFragment
<1>1. AgentInv => NoStaleFragment
  BY DEF AgentInv
<1>2. QED
  BY AgentSafety, <1>1, PTL

-----------------------------------------------------------------------------
(* The agent implements Conversation. *)

\* Every step of the agent is a step of the conversation or leaves it alone.
LEMMA ConversationStep ==
  ASSUME AgentInv, [Next]_vars
  PROVE  [Conv!ConvNext]_<<messages, phase \in TurnPhases>>
<1>1. CASE signal_handler
  BY <1>1 DEF TurnPhases, signal_handler, Conv!ConvNext, Conv!EndTurn
<1>2. CASE ReplExit \/ PlanCommand
  <2>1. UNCHANGED messages /\ (phase' \in TurnPhases <=> phase \in TurnPhases)
    BY <1>2 DEF ReplExit, PlanCommand, TurnPhases
  <2>2. (phase' \in TurnPhases) = (phase \in TurnPhases)
    BY <2>1
  <2>3. QED
    BY <2>1, <2>2, Zenon
<1>3. CASE UserMessage
  BY <1>3 DEF TurnPhases, UserMessage, BeginTurn, Conv!ConvNext, Conv!Say
<1>4. CASE Regen
  BY <1>4 DEF TurnPhases, Regen, BeginTurn, Conv!ConvNext, Conv!Regenerate
<1>5. CASE Clear
  BY <1>5 DEF TurnPhases, Clear, Conv!ConvNext, Conv!Reset
<1>6. CASE PostTask \/ RecvPartial \/ RecvEnd \/ RecvError
  BY <1>6 DEF TurnPhases, PostTask, RecvPartial, RecvEnd, RecvError, AfterTurn, Conv!ConvNext, Conv!EndTurn
<1>7. CASE ProcessResponse
  BY <1>7 DEF TurnPhases, ProcessResponse, KeepFragment, TakeResponse, AfterTurn,
     Conv!ConvNext, Conv!Respond, Conv!EndTurn
<1>8. CASE SkipCall
  BY <1>8 DEF TurnPhases, SkipCall, AgentInv, LogInv, CallPhases, Conv!ConvNext, Conv!Observe,
     Conv!ToolOutput, Conv!LastKind
<1>9. CASE CallLimit \/ TakeCall \/ ConfirmYes
  <2>1. UNCHANGED messages /\ (phase' \in TurnPhases <=> phase \in TurnPhases)
    BY <1>9 DEF CallLimit, TakeCall, ConfirmYes, NextGate, TurnPhases
  <2>2. (phase' \in TurnPhases) = (phase \in TurnPhases)
    BY <2>1
  <2>3. QED
    BY <2>1, <2>2, Zenon
<1>10. CASE AnswerLocally \/ ExecuteTool \/ ConfirmNo
  <2>1. messages' = Append(messages, "result") /\ phase' = "calls" /\ phase \in CallPhases
    BY <1>10 DEF AnswerLocally, ExecuteTool, ConfirmNo, AddToolResult, CallPhases
  <2>2. messages # <<>> /\ messages[Len(messages)] \in {"assistant", "result", "syntax"}
    BY <2>1 DEF AgentInv, LogInv
  <2>3. QED
    BY <2>1, <2>2 DEF TurnPhases, CallPhases, Conv!ConvNext, Conv!Observe, Conv!ToolOutput, Conv!LastKind
<1>11. CASE EndOfCalls
  BY <1>11 DEF TurnPhases, EndOfCalls, AfterTurn, Conv!ConvNext, Conv!EndTurn
<1>12. CASE UNCHANGED vars
  <2>1. phase' = phase /\ messages' = messages
    BY <1>12 DEF vars
  <2>2. QED
    BY <2>1, Zenon
<1>13. QED
  BY <1>1, <1>2, <1>3, <1>4, <1>5, <1>6, <1>7, <1>8, <1>9, <1>10, <1>11, <1>12
     DEF Next, Repl, Generate, CallStep, User

\* The agent keeps the conversation the way Conversation promises: a turn only
\* adds to it, and tool output appears only after the response that asked for it.
THEOREM ImplementsConversation == Spec => ConversationKept
<1>1. Init => Conv!ConvInit
  BY DEF Init, Conv!ConvInit, TurnPhases
<1>2. AgentInv /\ [Next]_vars => [Conv!ConvNext]_<<messages, phase \in TurnPhases>>
  BY ConversationStep
<1>3. QED
  BY AgentSafety, <1>1, <1>2, PTL DEF Spec, ConversationKept, Conv!ConvSpec
=============================================================================
