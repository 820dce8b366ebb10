------------------------------ MODULE AgentLoop ------------------------------
(***************************************************************************)
(* The agent of tools/lmcode/cli.cpp: the read loop of main(), one user    *)
(* turn (generate_completion), the execution of the tool calls the model   *)
(* asks for (handle_tool_call) and the SIGINT handler that interrupts any  *)
(* of them.                                                                *)
(*                                                                         *)
(* The language model and the tools are the environment.  The text of a    *)
(* response is abstracted to what the agent tells apart: whether it is     *)
(* empty, whether it holds the start of a tool call and whether that call  *)
(* has been closed; the calls the parser finds in it are chosen freely.    *)
(***************************************************************************)
EXTENDS Naturals, Sequences

CONSTANTS
  ToolCallLimit,   \* cli_context::tool_call_limit (20)
  MaxTurns,        \* cli_context::max_conversation_turns (50)
  MaxFailed,       \* cli_context::max_failed_tool_calls (6)
  MaxPending,      \* MAX_PENDING_JSON, counted in fragments of a response
  Offered,         \* the kinds of tool calls the model makes
  MaxBatch,        \* bound: tool calls in one response
  MaxInputs        \* bound: user messages and /regen commands in a session

\* A parsed call by the branch it takes: no name, the SYNTAX_ERROR name, no
\* arguments, a name not in the registry, a task tool, a tool that only reads,
\* a tool that modifies files and asks first (write_file, replace_lines, ...),
\* and one that modifies files and does not (search_replace, swift_format).
CallKinds == {"noname", "syntax", "noargs", "unknown", "task", "read", "write", "edit"}

ASSUME LimitsAssumption ==
  /\ ToolCallLimit \in Nat \ {0}
  /\ MaxTurns \in Nat \ {0}
  /\ MaxFailed \in Nat \ {0}
  /\ MaxPending \in Nat
  /\ Offered \subseteq CallKinds
  /\ MaxBatch \in Nat \ {0}
  /\ MaxInputs \in Nat

VARIABLES
  phase,           \* where the main thread is, see Phases
  flag,            \* g_is_interrupted
  cin_ok,          \* std::cin is usable: no confirmation read has failed yet
  plan_mode,       \* cli_context::plan_mode
  single_turn,     \* params.single_turn
  messages,        \* the kinds of the entries of cli_context::messages
  content,         \* curr_content of the response being received
  calls,           \* the tool calls of the response not yet taken up
  pending,         \* pending_incomplete_json: the turn each fragment is from
  calls_in_turn,   \* cli_context::tool_calls_in_turn
  turns,           \* cli_context::conversation_turns
  failed,          \* cli_context::failed_tool_calls
  inputs,          \* history: user turns started so far
  taken,           \* history: calls given to handle_tool_call in this turn
  results,         \* history: tool results added to messages in this turn
  executed,        \* history: calls the executor ran in this turn
  approved,        \* history: the user said yes to the call being handled
  last_exec,       \* history: the last call the executor ran in this turn
  splice           \* history: what the last spliced fragments amounted to

counters == <<calls_in_turn, turns, failed>>
history  == <<inputs, taken, results, executed, approved, last_exec, splice>>
vars == <<phase, flag, cin_ok, plan_mode, single_turn, messages, content, calls,
          pending, counters, history>>

Phases == {"repl",     \* main() waits for a line of input
           "head",     \* at the while condition of generate_completion
           "wait",     \* in rd.next() or in the loop over its results
           "parse",    \* the result loop was left, line 589 not yet reached
           "calls",    \* in the loop over the tool calls of the response
           "plan",     \* plan mode asks whether to execute the call
           "confirm",  \* the confirmation of a call that requires one
           "execute",  \* every gate passed, tool_executor->execute is next
           "exited",   \* main() left the chat loop
           "killed"}   \* std::exit(130) from the signal handler

\* The roles of messages; the "user" entries by who writes them.
MsgKinds == {"system", "user", "assistant", "result", "syntax", "cont"}

\* curr_content: nothing; text without an open call; a call not closed; closed.
Contents == {"empty", "text", "open", "closed"}

NoExec == [kind |-> "none", approved |-> FALSE]

\* The results parse_tool_calls may return.
CallLists == UNION {[1..n -> Offered] : n \in 0..MaxBatch}

Modifies == {"write", "edit"}

\* cli_tool_executor::requires_confirmation.
RequiresConfirmation(kind) == kind = "write"

TypeOK ==
  /\ phase \in Phases
  /\ flag \in BOOLEAN /\ cin_ok \in BOOLEAN
  /\ plan_mode \in BOOLEAN /\ single_turn \in BOOLEAN
  /\ messages \in Seq(MsgKinds)
  /\ content \in Contents
  /\ calls \in Seq(CallKinds)
  /\ pending \in Seq(Nat)
  /\ calls_in_turn \in Nat /\ turns \in Nat /\ failed \in Nat
  /\ inputs \in Nat /\ taken \in Nat /\ results \in Nat /\ executed \in Nat
  /\ approved \in BOOLEAN
  /\ last_exec \in [kind : CallKinds \cup {"none"}, approved : BOOLEAN]
  /\ splice \in {"none", "closed", "unclosed"}

\* main() has loaded the model and added the system prompt; with --tools empty
\* the task tools are still described in it.
Init ==
  /\ phase = "repl"
  /\ flag = FALSE
  /\ cin_ok = TRUE
  /\ plan_mode = FALSE
  /\ single_turn \in BOOLEAN
  /\ messages = <<"system">>
  /\ content = "empty"
  /\ calls = <<>>
  /\ pending = <<>>
  /\ calls_in_turn = 0 /\ turns = 0 /\ failed = 0
  /\ inputs = 0 /\ taken = 0 /\ results = 0 /\ executed = 0
  /\ approved = FALSE
  /\ last_exec = NoExec
  /\ splice = "none"

-----------------------------------------------------------------------------
(* The signal handler, run at any moment of the main thread. *)

\* A first SIGINT sets the flag; a second one while it is set ends the process.
\* sa_flags is 0, so a confirmation being read fails and std::cin stays failed:
\* the answer counts as no.
signal_handler ==
  /\ phase \notin {"exited", "killed"}
  /\ IF flag THEN phase' = "killed" /\ UNCHANGED <<flag, cin_ok>>
     ELSE /\ flag' = TRUE
          /\ cin_ok' = (cin_ok /\ phase \notin {"plan", "confirm"})
          /\ UNCHANGED phase
  /\ UNCHANGED <<plan_mode, single_turn, messages, content, calls, pending,
                 counters, history>>

-----------------------------------------------------------------------------
(* The read loop of main(). *)

\* A line was read and the interrupt flag is set, or /exit, or end of input.
ReplExit ==
  /\ phase = "repl"
  /\ phase' = "exited"
  /\ flag' \in {flag, FALSE}
  /\ UNCHANGED <<cin_ok, plan_mode, single_turn, messages, content, calls,
                 pending, counters, history>>

\* Mutant: the fragment of an earlier turn is not discarded.
BeginTurnKeepsFragment ==
  /\ inputs < MaxInputs
  /\ phase' = "head"
  /\ calls_in_turn' = 0 /\ turns' = 0 /\ failed' = 0
  /\ inputs' = inputs + 1
  /\ taken' = 0 /\ results' = 0 /\ executed' = 0
  /\ approved' = FALSE
  /\ last_exec' = NoExec
  /\ splice' = "none"
  /\ UNCHANGED <<flag, cin_ok, plan_mode, single_turn, content, calls, pending>>

\* The counters main() resets before it calls generate_completion.
BeginTurn ==
  /\ inputs < MaxInputs
  /\ phase' = "head"
  /\ calls_in_turn' = 0 /\ turns' = 0 /\ failed' = 0
  /\ pending' = <<>>
  /\ inputs' = inputs + 1
  /\ taken' = 0 /\ results' = 0 /\ executed' = 0
  /\ approved' = FALSE
  /\ last_exec' = NoExec
  /\ splice' = "none"
  /\ UNCHANGED <<flag, cin_ok, plan_mode, single_turn, content, calls>>

UserMessage ==
  /\ phase = "repl" /\ ~flag
  /\ messages' = Append(messages, "user")
  /\ BeginTurn

\* /regen erases the last message, whatever it is, and generates again.
Regen ==
  /\ phase = "repl" /\ ~flag
  /\ Len(messages) >= 2
  /\ messages' = SubSeq(messages, 1, Len(messages) - 1)
  /\ BeginTurn

\* /clear drops the conversation and its counters, but not failed_tool_calls.
Clear ==
  /\ phase = "repl" /\ ~flag
  /\ messages' = <<"system">>
  /\ calls_in_turn' = 0 /\ turns' = 0
  /\ pending' = <<>>
  /\ UNCHANGED <<phase, flag, cin_ok, plan_mode, single_turn, content, calls,
                 failed, history>>

\* /plan toggles plan mode, /auto on leaves it and /auto off enters it.
PlanCommand ==
  /\ phase = "repl" /\ ~flag
  /\ plan_mode' = ~plan_mode
  /\ UNCHANGED <<phase, flag, cin_ok, single_turn, messages, content, calls,
                 pending, counters, history>>

-----------------------------------------------------------------------------
(* generate_completion: one response per iteration of its while loop. *)

\* Where main() goes on when generate_completion has returned.
AfterTurn == IF single_turn THEN "exited" ELSE "repl"

\* The while condition: post the conversation as a new task, or leave the loop.
PostTask ==
  /\ phase = "head"
  /\ IF calls_in_turn < ToolCallLimit
     THEN phase' = "wait" /\ content' = "empty"
     ELSE phase' = AfterTurn /\ UNCHANGED content
  /\ UNCHANGED <<flag, cin_ok, plan_mode, single_turn, messages, calls, pending,
                 counters, history>>

\* How the text can go on: a call may begin in it, and close.
Continuations(c) ==
  CASE c = "empty"  -> {"text", "open", "closed"}
    [] c = "text"   -> {"open", "closed"}
    [] c = "open"   -> {"closed"}
    [] c = "closed" -> {}

\* A partial result extends curr_content.
RecvPartial ==
  /\ phase = "wait" /\ ~flag
  /\ \E c \in Continuations(content) : content' = c
  /\ UNCHANGED <<phase, flag, cin_ok, plan_mode, single_turn, messages, calls,
                 pending, counters, history>>

\* Mutant: the wait for results does not look at the interrupt flag.
RecvEndDeaf ==
  /\ phase = "wait" /\ ~flag
  /\ phase' = "parse"
  /\ UNCHANGED <<flag, cin_ok, plan_mode, single_turn, messages, content, calls,
                 pending, counters, history>>

\* The final result, or the interrupt seen by rd.next() or by the result loop.
RecvEnd ==
  /\ phase = "wait"
  /\ phase' = "parse"
  /\ UNCHANGED <<flag, cin_ok, plan_mode, single_turn, messages, content, calls,
                 pending, counters, history>>

\* An error result returns at once: nothing is added, the flag is not reset.
RecvError ==
  /\ phase = "wait" /\ ~flag
  /\ phase' = AfterTurn
  /\ UNCHANGED <<flag, cin_ok, plan_mode, single_turn, messages, content, calls,
                 pending, counters, history>>

\* The call in the response is not closed: keep the fragment and ask for the
\* rest, or give up when the fragments exceed the cap.
KeepFragment ==
  /\ content = "open"
  /\ IF Len(pending) + 1 > MaxPending
     THEN /\ pending' = <<>>
          /\ phase' = AfterTurn
          /\ UNCHANGED messages
     ELSE /\ pending' = Append(pending, inputs)
          /\ phase' = "head"
          /\ messages' = Append(messages, "cont")
  /\ UNCHANGED <<calls, splice>>

\* Mutant: the response is parsed but not added to the conversation.
TakeResponseUnrecorded ==
  /\ content \in {"text", "closed"}
  /\ IF pending = <<>> THEN UNCHANGED splice
     ELSE splice' \in {"closed", "unclosed"}
  /\ pending' = <<>>
  /\ calls' \in CallLists
  /\ phase' = IF calls' = <<>> THEN AfterTurn ELSE "calls"
  /\ UNCHANGED messages

\* The response is taken as complete: spliced to the fragments kept before it,
\* added to the conversation and parsed.  Whether the spliced text really is a
\* closed call depends on the text alone, so both outcomes are possible.
TakeResponse ==
  /\ content \in {"text", "closed"}
  /\ IF pending = <<>> THEN UNCHANGED splice
     ELSE splice' \in {"closed", "unclosed"}
  /\ pending' = <<>>
  /\ messages' = Append(messages, "assistant")
  /\ calls' \in CallLists
  /\ phase' = IF calls' = <<>> THEN AfterTurn ELSE "calls"

ProcessResponse ==
  /\ phase = "parse"
  /\ flag' = FALSE
  /\ \/ /\ content = "empty"
        /\ phase' = AfterTurn
        /\ UNCHANGED <<messages, calls, pending, splice>>
     \/ KeepFragment
     \/ TakeResponse
  /\ UNCHANGED <<cin_ok, plan_mode, single_turn, content, counters, inputs, taken,
                 results, executed, approved, last_exec>>

-----------------------------------------------------------------------------
(* The loop over the calls of a response, and handle_tool_call. *)

\* Calls without a name or without arguments are skipped, a SYNTAX_ERROR call
\* is reported to the model and counted as a failure.
SkipCall ==
  /\ phase = "calls" /\ calls # <<>>
  /\ Head(calls) \in {"noname", "noargs", "syntax"}
  /\ calls' = Tail(calls)
  /\ IF Head(calls) = "syntax"
     THEN messages' = Append(messages, "syntax") /\ failed' = failed + 1
     ELSE UNCHANGED <<messages, failed>>
  /\ UNCHANGED <<phase, flag, cin_ok, plan_mode, single_turn, content, pending,
                 calls_in_turn, turns, history>>

Handled == CallKinds \ {"noname", "noargs", "syntax"}

\* The limit is reached: the rest of the response is dropped.
CallLimit ==
  /\ phase = "calls" /\ calls # <<>>
  /\ Head(calls) \in Handled
  /\ calls_in_turn >= ToolCallLimit
  /\ calls' = <<>>
  /\ UNCHANGED <<phase, flag, cin_ok, plan_mode, single_turn, messages, content,
                 pending, counters, history>>

\* Mutant: the confirmation is asked in plan mode instead of outside of it.
NextGateInverted(kind) == IF RequiresConfirmation(kind) /\ plan_mode THEN "confirm" ELSE "execute"

\* The gate a call meets once plan mode has let it pass or is off.
NextGate(kind) == IF RequiresConfirmation(kind) /\ ~plan_mode THEN "confirm" ELSE "execute"

\* handle_tool_call begins.
TakeCall ==
  /\ phase = "calls" /\ calls # <<>>
  /\ Head(calls) \in Handled
  /\ calls_in_turn < ToolCallLimit
  /\ taken' = taken + 1
  /\ approved' = FALSE
  /\ phase' = IF plan_mode THEN "plan" ELSE NextGate(Head(calls))
  /\ UNCHANGED <<flag, cin_ok, plan_mode, single_turn, messages, content, calls,
                 pending, counters, inputs, results, executed, last_exec, splice>>

\* add_tool_result_to_messages, and on to the next call.
AddToolResult ==
  /\ messages' = Append(messages, "result")
  /\ results' = results + 1
  /\ calls' = Tail(calls)
  /\ phase' = "calls"

\* The user answers yes to a confirmation; only while std::cin still works.
ConfirmYes ==
  /\ phase \in {"plan", "confirm"}
  /\ cin_ok
  /\ approved' = TRUE
  /\ phase' = IF phase = "plan" THEN NextGate(Head(calls)) ELSE "execute"
  /\ UNCHANGED <<flag, cin_ok, plan_mode, single_turn, messages, content, calls,
                 pending, counters, inputs, taken, results, executed, last_exec, splice>>

\* Mutant: a cancelled call gets no result message.
ConfirmNoSilent ==
  /\ phase \in {"plan", "confirm"}
  /\ cin_ok' \in {cin_ok, FALSE}
  /\ calls' = Tail(calls)
  /\ phase' = "calls"
  /\ calls_in_turn' = calls_in_turn + 1
  /\ UNCHANGED <<flag, plan_mode, single_turn, messages, content, pending, turns,
                 failed, inputs, taken, results, executed, approved, last_exec, splice>>

\* Any other answer cancels the call.  So does a read that fails: at the end of
\* the input, after a signal, or because the byte-wise std::cin shares stdin
\* with the wide-character console; std::cin is never cleared afterwards.
ConfirmNo ==
  /\ phase \in {"plan", "confirm"}
  /\ cin_ok' \in {cin_ok, FALSE}
  /\ AddToolResult
  /\ calls_in_turn' = calls_in_turn + 1
  /\ UNCHANGED <<flag, plan_mode, single_turn, content, pending, turns,
                 failed, inputs, taken, executed, approved, last_exec, splice>>

\* A tool that is not registered, and the task tools, never reach the executor.
\* The arguments of a task tool may make the JSON library throw an exception
\* that only generate_completion catches: the call is then not counted.
AnswerLocally ==
  /\ phase = "execute"
  /\ Head(calls) \in {"unknown", "task"}
  /\ AddToolResult
  /\ \/ calls_in_turn' = calls_in_turn + 1
     \/ Head(calls) = "task" /\ UNCHANGED calls_in_turn
  /\ UNCHANGED <<flag, cin_ok, plan_mode, single_turn, content, pending, turns,
                 failed, inputs, taken, executed, approved, last_exec, splice>>

\* Mutant: a success takes one failure back instead of clearing the counter.
ExecuteToolForgives ==
  /\ phase = "execute"
  /\ Head(calls) \in {"read", "write", "edit"}
  /\ executed' = executed + 1
  /\ last_exec' = [kind |-> Head(calls), approved |-> approved]
  /\ failed' \in {failed - 1, failed + 1}
  /\ AddToolResult
  /\ calls_in_turn' = calls_in_turn + 1
  /\ UNCHANGED <<flag, cin_ok, plan_mode, single_turn, content, pending, turns,
                 inputs, taken, approved, splice>>

\* tool_executor->execute; an exception in it is a failure.
ExecuteTool ==
  /\ phase = "execute"
  /\ Head(calls) \in {"read", "write", "edit"}
  /\ executed' = executed + 1
  /\ last_exec' = [kind |-> Head(calls), approved |-> approved]
  /\ failed' \in {0, failed + 1}
  /\ AddToolResult
  /\ calls_in_turn' = calls_in_turn + 1
  /\ UNCHANGED <<flag, cin_ok, plan_mode, single_turn, content, pending, turns,
                 inputs, taken, approved, splice>>

\* Mutant: the failure counter is not looked at.
EndOfCallsIgnoresFailures ==
  /\ phase = "calls" /\ calls = <<>>
  /\ turns' = turns + 1
  /\ phase' = IF turns + 1 >= MaxTurns THEN AfterTurn ELSE "head"
  /\ UNCHANGED <<flag, cin_ok, plan_mode, single_turn, messages, content, calls,
                 pending, calls_in_turn, failed, history>>

\* All calls are done: the failure limit and the turn limit end the turn.
EndOfCalls ==
  /\ phase = "calls" /\ calls = <<>>
  /\ turns' = turns + 1
  /\ phase' = IF failed >= MaxFailed \/ turns + 1 >= MaxTurns THEN AfterTurn ELSE "head"
  /\ UNCHANGED <<flag, cin_ok, plan_mode, single_turn, messages, content, calls,
                 pending, calls_in_turn, failed, history>>

-----------------------------------------------------------------------------

Repl     == ReplExit \/ UserMessage \/ Regen \/ Clear \/ PlanCommand
Generate == PostTask \/ RecvPartial \/ RecvEnd \/ RecvError \/ ProcessResponse
CallStep == SkipCall \/ CallLimit \/ TakeCall \/ AnswerLocally \/ ExecuteTool \/ EndOfCalls
User     == ConfirmYes \/ ConfirmNo

Next == signal_handler \/ Repl \/ Generate \/ CallStep \/ User

Spec == Init /\ [][Next]_vars

\* The main thread runs, and the server ends every response it was asked for;
\* nothing is assumed of the user or of signals.
Fairness ==
  /\ WF_vars(PostTask) /\ WF_vars(RecvEnd) /\ WF_vars(ProcessResponse)
  /\ WF_vars(CallStep)

FairSpec == Spec /\ Fairness

-----------------------------------------------------------------------------
(* Properties that hold. *)

\* The phases in which generate_completion is on the stack.
TurnPhases == {"head", "wait", "parse", "calls", "plan", "confirm", "execute"}

\* The executor runs at most tool_call_limit calls for one user message, over
\* all the responses of the turn and whatever calls are cancelled, unknown,
\* skipped or throw in between.
CallBudget == executed <= ToolCallLimit

\* While a response is being generated no limit of the turn is exhausted:
\* calls, conversation turns and consecutive failures have all been checked.
BudgetsRespected ==
  phase = "wait" =>
    /\ calls_in_turn < ToolCallLimit
    /\ turns < MaxTurns
    /\ failed < MaxFailed

\* Every call given to handle_tool_call leaves exactly one result in the
\* conversation on every path: executed, cancelled, unknown, task tool, thrown.
ResultPairing ==
  phase \in TurnPhases =>
    results + (IF phase \in {"plan", "confirm", "execute"} THEN 1 ELSE 0) = taken

\* A tool that requires confirmation, and every tool in plan mode, runs only
\* after the user said yes to that very call.
ConfirmationGate ==
  /\ phase \in TurnPhases
  /\ last_exec # NoExec
  /\ RequiresConfirmation(last_exec.kind) \/ plan_mode
  => last_exec.approved

\* A response is only ever spliced to fragments of the same user turn, even when
\* an error or an interrupt ended an earlier turn in the middle of a call.
NoStaleFragment ==
  phase \in TurnPhases => \A i \in DOMAIN pending : pending[i] = inputs

\* generate_completion always comes back: a session is not forever inside turns,
\* unless the user leaves a confirmation unanswered for ever.
TurnTerminates ==
  \/ []<>(phase \notin TurnPhases)
  \/ <>[](phase \in {"plan", "confirm"})

\* The agent keeps the conversation the way Conversation promises.
Conv == INSTANCE Conversation WITH log <- messages, busy <- (phase \in TurnPhases)

ConversationKept == Conv!ConvSpec

-----------------------------------------------------------------------------
(* The inductive invariant behind the safety properties. *)

\* The phases in which the calls of a response are worked off, and those in
\* which one of them is inside handle_tool_call.
CallPhases   == {"calls", "plan", "confirm", "execute"}
HandlePhases == {"plan", "confirm", "execute"}

\* The counters: no limit is exceeded where it is about to be relied upon.
BudgetInv ==
  /\ executed <= ToolCallLimit
  /\ calls_in_turn <= ToolCallLimit
  /\ phase \in TurnPhases => executed <= calls_in_turn
  /\ phase \in HandlePhases \cup {"wait"} => calls_in_turn < ToolCallLimit
  /\ phase \in {"head", "wait", "parse"} => turns < MaxTurns /\ failed < MaxFailed

\* The call in hand and the gates it has passed.
GateInv ==
  /\ phase \in HandlePhases => calls # <<>> /\ Head(calls) \in Handled
  /\ phase = "plan" => plan_mode
  /\ phase = "execute" /\ (RequiresConfirmation(Head(calls)) \/ plan_mode) => approved

\* The conversation is never empty, and ends in tool output or in the response
\* while the calls of that response are worked off.
LogInv ==
  /\ messages # <<>>
  /\ phase \in CallPhases => messages[Len(messages)] \in {"assistant", "result", "syntax"}

AgentInv ==
  /\ TypeOK
  /\ BudgetInv
  /\ GateInv
  /\ LogInv
  /\ ResultPairing
  /\ ConfirmationGate
  /\ NoStaleFragment

-----------------------------------------------------------------------------
(* What comments and documents say, and the code does not do. *)

\* "Max consecutive failures before stopping" (cli.cpp, max_failed_tool_calls).
FailuresBounded == failed <= MaxFailed

\* pending_incomplete_json is "cleared as soon as the closing delimiter is
\* received and the full JSON is successfully parsed" (cli.cpp).
ClearedWhenClosed == splice # "unclosed"

\* "All writing operations require explicit user authorization" (README.md).
WritesAuthorized == last_exec.kind \in Modifies => last_exec.approved

\* "Dopo il limite, il modello genera risposta normale", after the limit the
\* model generates a normal response (README-tool-support.md).
AnswerAfterLimit ==
  phase = "repl" /\ calls_in_turn >= ToolCallLimit =>
    messages[Len(messages)] = "assistant"

\* /regen: "Regenerate last response" (README.md).
RegenDropsResponse ==
  [][phase = "repl" /\ Len(messages') = Len(messages) - 1 /\ inputs' > inputs
       => messages[Len(messages)] = "assistant"]_vars
=============================================================================
