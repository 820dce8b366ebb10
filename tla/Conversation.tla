---------------------------- MODULE Conversation ----------------------------
(***************************************************************************)
(* What the agent promises about the conversation it keeps, whatever the   *)
(* model answers, the tools return, the user confirms or SIGINT cuts off:  *)
(* a turn only adds to the log, one entry at a time, tool output appears   *)
(* only after the response that asked for it, and between turns the log    *)
(* changes only by what the user asked: a message, /regen or /clear.       *)
(***************************************************************************)
EXTENDS Naturals, Sequences

VARIABLES log,    \* the kinds of the messages, oldest first
          busy    \* a user turn is being worked on

ToolOutput == {"result", "syntax"}

LastKind == log[Len(log)]

ConvInit == log = <<"system">> /\ busy = FALSE

Say == ~busy /\ busy' = TRUE /\ log' = Append(log, "user")

Regenerate ==
  /\ ~busy /\ Len(log) >= 2
  /\ busy' = TRUE
  /\ log' = SubSeq(log, 1, Len(log) - 1)

Reset == ~busy /\ log' = <<"system">> /\ UNCHANGED busy

\* The model's response, or the agent's request to go on with a cut-off one.
Respond ==
  /\ busy
  /\ \E kind \in {"assistant", "cont"} : log' = Append(log, kind)
  /\ busy' \in BOOLEAN

Observe ==
  /\ busy
  /\ log # <<>> /\ LastKind \in ToolOutput \cup {"assistant"}
  /\ \E kind \in ToolOutput : log' = Append(log, kind)
  /\ UNCHANGED busy

EndTurn == busy /\ busy' = FALSE /\ UNCHANGED log

ConvNext == Say \/ Regenerate \/ Reset \/ Respond \/ Observe \/ EndTurn

ConvSpec == ConvInit /\ [][ConvNext]_<<log, busy>>
=============================================================================
