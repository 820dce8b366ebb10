--------------------------- MODULE TerminalProofs ---------------------------
(***************************************************************************)
(* Proofs about Terminal, for every keyboard and every limit: the terminal *)
(* is given back at the end, the input line is read in raw mode, and both  *)
(* it and the buffer keep to their limits and lose no piece of an answer.  *)
(***************************************************************************)
EXTENDS Terminal, SequenceTheorems, TLAPS

\* The mode that console::init leaves, which cli_tui::init takes for the
\* initial one.
Base == [mode |-> IF SimpleIo THEN "cooked" ELSE "raw", cursor |-> TRUE]

Live == {"loading", "prompt", "reading", "command", "running", "tools", "asking", "exit"}

Owned == Live \ {"asking", "exit"}

TypeInv ==
  /\ pc \in Live \cup {"start", "console", "exit_console", "gone"}
  /\ tty \in [mode : Modes, cursor : BOOLEAN]
  /\ tui \in [enabled : BOOLEAN, initialized : BOOLEAN, valid : BOOLEAN, suspended : BOOLEAN,
              saved : Modes]

\* Before cli_tui::init the interface has touched nothing.
EarlyInv ==
  /\ con = "cooked"
  /\ pc \in {"start", "console"} => ~tui.initialized /\ ~tui.enabled /\ ~tui.suspended
  /\ pc = "start" => tty = [mode |-> "cooked", cursor |-> TRUE]
  /\ pc = "console" => tty = Base

\* The saved mode is the console's; without a terminal nothing is changed;
\* the terminal is suspended exactly while a confirmation is read; an enabled
\* interface has the terminal in its own mode whenever the loop has it.
LiveInv ==
  pc \in Live =>
    /\ tui.initialized
    /\ tui.valid => tui.saved = Base.mode
    /\ ~tui.valid => tty = Base /\ ~tui.enabled /\ ~tui.suspended
    /\ pc \in Owned => ~tui.suspended /\ (tui.enabled => tty = TuiMode)
    /\ pc = "asking" /\ tui.valid => tui.suspended
    /\ pc = "reading" => tui.enabled

\* What the two handlers of atexit leave.
EndInv ==
  /\ pc = "exit_console" => tty = Base
  /\ pc = "gone" => tty = [mode |-> "cooked", cursor |-> TRUE]

ModeInv == TypeInv /\ EarlyInv /\ LiveInv /\ EndInv

\* The steps that leave the terminal and the interface alone, and the place
\* in the loop within the states where the interface has it.
LEMMA QuietStep ==
  ASSUME ModeInv, UNCHANGED <<tty, con, tui>>,
         pc \in Owned, pc' \in Owned \cup {"exit"},
         pc' = "reading" => tui.enabled
  PROVE  ModeInv'
BY DEF ModeInv, TypeInv, EarlyInv, LiveInv, EndInv, Live, Owned, Base, TuiMode, Modes

\* Starting up, and what the handlers of atexit do.
LEMMA StartAndEnd ==
  ASSUME ModeInv, ConsoleInit \/ (\E isatty \in BOOLEAN : TuiInit(isatty)) \/ Load
                  \/ TuiCleanup \/ ConsoleCleanup
  PROVE  ModeInv'
<1> USE DEF ModeInv, TypeInv, EarlyInv, LiveInv, EndInv, Live, Owned, Base, TuiMode, Modes
<1>1. CASE ConsoleInit
  <2>1. /\ con' = "cooked" /\ tui' = tui /\ pc' = "console"
        /\ ~tui.initialized /\ ~tui.enabled /\ ~tui.suspended
    BY <1>1 DEF ConsoleInit
  <2>2. CASE SimpleIo BY <1>1, <2>2, <2>1 DEF ConsoleInit
  <2>3. CASE ~SimpleIo
    <3>1. tty = [mode |-> "cooked", cursor |-> TRUE] /\ tty' = [tty EXCEPT !.mode = "raw"]
      BY <1>1, <2>3 DEF ConsoleInit
    <3>2. tty' = [mode |-> "raw", cursor |-> TRUE] BY <3>1
    <3> QED BY <3>2, <2>1, <2>3
  <2> QED BY <2>2, <2>3
<1>2. CASE \E isatty \in BOOLEAN : TuiInit(isatty)
  <2>1. PICK isatty \in BOOLEAN : TuiInit(isatty) BY <1>2
  <2>2. /\ tui' = [tui EXCEPT !.initialized = TRUE, !.valid = isatty, !.saved = tty.mode]
        /\ tty = Base /\ tty' = tty /\ con' = con /\ pc = "console" /\ pc' = "loading"
    BY <2>1 DEF TuiInit
  <2>3. /\ tui'.initialized /\ tui'.saved = Base.mode
        /\ tui'.enabled = tui.enabled /\ tui'.suspended = tui.suspended
    BY <2>2
  <2>4. TypeInv' BY <2>2
  <2>5. ~tui'.enabled /\ ~tui'.suspended BY <2>2, <2>3
  <2> QED BY <2>2, <2>3, <2>4, <2>5
<1>3. CASE Load BY <1>3 DEF Load
<1>4. CASE TuiCleanup
  <2>1. /\ tui' = [tui EXCEPT !.enabled = FALSE, !.initialized = FALSE, !.suspended = FALSE]
        /\ pc = "exit" /\ pc' = "exit_console" /\ con' = con /\ tui.initialized
    BY <1>4 DEF TuiCleanup
  <2>2. tty' = [mode |-> IF tui.valid THEN tui.saved ELSE tty.mode, cursor |-> TRUE]
    BY <1>4, <2>1 DEF TuiCleanup
  <2>3. tty' = Base
    <3>1. CASE tui.valid BY <2>1, <2>2, <3>1
    <3>2. CASE ~tui.valid
      <4>1. tty = Base BY <2>1, <3>2
      <4>2. tty' = [mode |-> tty.mode, cursor |-> TRUE] BY <2>2, <3>2
      <4> QED BY <4>1, <4>2
    <3> QED BY <3>1, <3>2
  <2>4. TypeInv'
    <3>1. tui' \in [enabled : BOOLEAN, initialized : BOOLEAN, valid : BOOLEAN,
                    suspended : BOOLEAN, saved : Modes] BY <2>1
    <3>2. tty' \in [mode : Modes, cursor : BOOLEAN] BY <2>3
    <3> QED BY <2>1, <3>1, <3>2
  <2> QED BY <2>1, <2>3, <2>4
<1>5. CASE ConsoleCleanup
  <2>1. tui' = tui /\ con' = con /\ pc' = "gone" /\ tty = Base /\ con = "cooked"
    BY <1>5 DEF ConsoleCleanup
  <2>2. CASE SimpleIo BY <1>5, <2>1, <2>2 DEF ConsoleCleanup
  <2>3. CASE ~SimpleIo
    <3>1. tty = [mode |-> "raw", cursor |-> TRUE] /\ tty' = [tty EXCEPT !.mode = "cooked"]
      BY <1>5, <2>1, <2>3 DEF ConsoleCleanup
    <3>2. tty' = [mode |-> "cooked", cursor |-> TRUE] BY <3>1
    <3> QED BY <2>1, <3>2
  <2> QED BY <2>2, <2>3
<1> QED BY <1>1, <1>2, <1>3, <1>4, <1>5

\* Keys leave the modes alone.
LEMMA KeyStep ==
  ASSUME ModeInv, Key
  PROVE  ModeInv'
<1>1. UNCHANGED <<tty, con, tui>> /\ pc = "reading" /\ pc' \in {"reading", "command"}
  BY DEF Key, Type, Backspace, Delete, Left, Right, Up, Down, PageUp, PageDown, ClearScreen,
         Enter, Edit, Recall, Scroll
<1>2. tui.enabled BY <1>1 DEF ModeInv, LiveInv, Live
<1> QED BY <1>1, <1>2, QuietStep DEF Owned, Live

\* Commands switch the interface on and off.
LEMMA CommandStep ==
  ASSUME ModeInv, NEW name \in {"tui on", "tui off", "clear", "exit", "message"}, Command(name)
  PROVE  ModeInv'
<1> USE DEF ModeInv, TypeInv, EarlyInv, LiveInv, EndInv, Live, Owned, Base, TuiMode, Modes
<1>1. CASE name = "tui on"
  <2>1. enable /\ pc = "command" /\ pc' = "prompt" /\ con' = con BY <1>1 DEF Command
  <2>2. CASE UNCHANGED <<tty, tui>> BY <2>1, <2>2, QuietStep
  <2>3. CASE tui.valid /\ tui' = [tui EXCEPT !.enabled = TRUE] /\ tty' = TuiMode
    <3>1. TypeInv' BY <2>1, <2>3
    <3>2. /\ tui'.enabled /\ tui'.valid /\ tui'.initialized /\ ~tui'.suspended
          /\ tui'.saved = Base.mode
      BY <2>1, <2>3
    <3> QED BY <2>1, <2>3, <3>1, <3>2
  <2> QED BY <2>1, <2>2, <2>3 DEF enable
<1>2. CASE name = "tui off"
  <2>1. disable /\ pc = "command" /\ pc' = "prompt" /\ con' = con BY <1>2 DEF Command
  <2>2. CASE UNCHANGED <<tty, tui>> BY <2>1, <2>2, QuietStep
  <2>3. CASE /\ tui.enabled /\ tui' = [tui EXCEPT !.enabled = FALSE]
             /\ tty' = [mode |-> IF tui.valid THEN tui.saved ELSE tty.mode, cursor |-> TRUE]
    <3>1. tui.valid /\ tty' = Base BY <2>1, <2>3
    <3>2. TypeInv'
      <4>1. tty' \in [mode : Modes, cursor : BOOLEAN] BY <3>1
      <4> QED BY <2>1, <2>3, <4>1
    <3>3. /\ ~tui'.enabled /\ tui'.valid /\ tui'.initialized /\ ~tui'.suspended
          /\ tui'.saved = Base.mode
      BY <2>1, <2>3, <3>1
    <3> QED BY <2>1, <3>1, <3>2, <3>3
  <2> QED BY <2>1, <2>2, <2>3 DEF disable
<1>3. CASE name \notin {"tui on", "tui off"}
  <2>1. UNCHANGED <<tty, tui, con>> /\ pc = "command" /\ pc' \in {"prompt", "running", "exit"}
    BY <1>3 DEF Command
  <2> QED BY <2>1, QuietStep
<1> QED BY <1>1, <1>2, <1>3

\* A confirmation takes the terminal and gives it back; so does a signal that
\* comes in the middle of it.
LEMMA ConfirmationStep ==
  ASSUME ModeInv, Ask \/ Answer \/ Interrupt
  PROVE  ModeInv'
<1> USE DEF ModeInv, TypeInv, EarlyInv, LiveInv, EndInv, Live, Owned, Base, TuiMode, Modes
<1>1. CASE Ask
  <2>1. suspend /\ pc = "tools" /\ pc' = "asking" /\ con' = con BY <1>1 DEF Ask
  <2>2. CASE ~tui.valid /\ UNCHANGED <<tty, tui>> BY <2>1, <2>2
  <2>3. CASE /\ tui.valid /\ tui' = [tui EXCEPT !.suspended = TRUE]
             /\ tty' = [mode |-> tui.saved, cursor |-> TRUE]
    <3>1. TypeInv' BY <2>1, <2>3
    <3>2. tui'.suspended /\ tui'.valid /\ tui'.initialized /\ tui'.saved = Base.mode
      BY <2>1, <2>3
    <3> QED BY <2>1, <3>1, <3>2
  <2> QED BY <2>1, <2>2, <2>3 DEF suspend
<1>2. CASE Answer
  <2>1. resume /\ pc = "asking" /\ pc' = "tools" /\ con' = con BY <1>2 DEF Answer
  <2>2. CASE ~tui.valid /\ UNCHANGED <<tty, tui>> BY <2>1, <2>2
  <2>3. CASE tui.valid /\ tui' = [tui EXCEPT !.suspended = FALSE] /\ tty' = TuiMode
    <3>1. TypeInv' BY <2>1, <2>3
    <3>2. ~tui'.suspended /\ tui'.valid /\ tui'.initialized /\ tui'.saved = Base.mode
      BY <2>1, <2>3
    <3> QED BY <2>1, <2>3, <3>1, <3>2
  <2> QED BY <2>1, <2>2, <2>3 DEF resume
<1>3. CASE Interrupt BY <1>3 DEF Interrupt
<1> QED BY <1>1, <1>2, <1>3

\* The other steps of the loop.
LEMMA LoopStep ==
  ASSUME ModeInv,
         \/ BeginRead \/ ConsoleLine \/ EndOfInput \/ CommandInterrupted
         \/ (\E newline \in BOOLEAN : Stream(newline))
         \/ StreamError \/ EndRound \/ PrintTasks \/ NextRound \/ Finish
  PROVE  ModeInv'
<1>1. /\ UNCHANGED <<tty, con, tui>> /\ pc \in Owned /\ pc' \in Owned \cup {"exit"}
      /\ pc' = "reading" => tui.enabled
  BY DEF BeginRead, ConsoleLine, EndOfInput, CommandInterrupted, Stream, StreamError, EndRound,
         PrintTasks, NextRound, Finish, Owned, Live
<1> QED BY <1>1, QuietStep

\* Every step keeps the invariant.
LEMMA StepKeepsModes ==
  ASSUME ModeInv, [Next]_vars
  PROVE  ModeInv'
<1>1. CASE UNCHANGED vars
  BY <1>1 DEF vars, ModeInv, TypeInv, EarlyInv, LiveInv, EndInv, Live, Owned, Base, TuiMode
<1>2. CASE Next
  BY <1>2, StartAndEnd, KeyStep, CommandStep, ConfirmationStep, LoopStep DEF Next
<1> QED BY <1>1, <1>2

\* The invariant holds in every state.
LEMMA ModesHold == Spec => []ModeInv
<1>1. Init => ModeInv
  BY DEF Init, ModeInv, TypeInv, EarlyInv, LiveInv, EndInv, Live, Owned, Base, TuiMode, Modes
<1> QED BY <1>1, StepKeepsModes, PTL DEF Spec

\* However the program ends (a command, the end of the input, a model that
\* does not load, a second signal, also while a confirmation is read), the
\* handlers of atexit give the terminal back as the shell had it.
THEOREM GivenBack == Spec => []TerminalGivenBack
<1>1. ModeInv => TerminalGivenBack BY DEF ModeInv, EndInv, TerminalGivenBack
<1> QED BY <1>1, ModesHold, PTL

\* read_input runs only in the raw mode it is written for, whatever
\* confirmations came before it.
THEOREM RawReads == Spec => []ReadsRaw
<1>1. ModeInv => ReadsRaw BY DEF ModeInv, LiveInv, Live, Owned, ReadsRaw
<1> QED BY <1>1, ModesHold, PTL

-----------------------------------------------------------------------------
(* The buffer and the input line: StreamKept and the bounds of TypeOK. *)

Bytes == {"~"} \cup UNION {{c[i] : i \in DOMAIN c} : c \in Chars}

Line  == Seq(Nat)
Lines == Seq(Seq(Nat))

ScreenType == [lines : Lines, cur : Line, streaming : BOOLEAN, scroll : 0 .. MaxScroll]

ScreenInv ==
  /\ screen \in ScreenType /\ Len(screen.lines) <= MaxLines
  /\ pieces \in Nat
  /\ StreamKept

InputInv ==
  /\ input \in [text : Seq(Bytes), pos : Nat]
  /\ Len(input.text) <= MaxInput /\ input.pos <= Len(input.text)

HistoryInv ==
  /\ history \in [lines : Seq(Seq(Bytes)), index : Int]
  /\ Len(history.lines) <= MaxHistory
  /\ \A i \in DOMAIN history.lines : Len(history.lines[i]) <= MaxInput
  /\ -1 <= history.index /\ history.index < Len(history.lines)

BufferInv == ScreenInv /\ InputInv /\ HistoryInv

\* Lines without pieces hold none.
LEMMA NoPieces == PiecesOf(Printed) = {} /\ PiecesOf(<<>>) = {}
BY DEF PiecesOf, Printed

\* Lines selected from the end of others, in their order and mixed with lines that
\* hold no pieces, hold the last pieces too.  from gives the line each one was, or 0;
\* a line with pieces that was not selected is above all those that were.
LEMMA LastOfLast ==
  ASSUME NEW S \in Seq(Seq(Nat)), NEW T \in Seq(Seq(Nat)), NEW n \in Nat, HoldLast(S, n),
         NEW from \in [1 .. Len(T) -> 0 .. Len(S)],
         \A k \in 1 .. Len(T) : from[k] = 0 => T[k] \in {Printed, <<>>},
         \A k \in 1 .. Len(T) : from[k] # 0 => T[k] = S[from[k]],
         \A k, l \in 1 .. Len(T) : k < l /\ from[k] # 0 /\ from[l] # 0 => from[k] < from[l],
         \A m \in 1 .. Len(S) :
           \/ PiecesOf(S[m]) = {}
           \/ \E k \in 1 .. Len(T) : from[k] = m
           \/ \A k \in 1 .. Len(T) : from[k] # 0 => m < from[k]
  PROVE  HoldLast(T, n)
<1>1. /\ DOMAIN T = 1 .. Len(T) /\ DOMAIN S = 1 .. Len(S) /\ Len(S) \in Nat /\ Len(T) \in Nat
      /\ \A k \in 1 .. Len(S) : S[k] \in Seq(Nat)
  OBVIOUS
<1>2. \A k \in 1 .. Len(T) : PiecesOf(T[k]) # {} =>
        from[k] \in DOMAIN S /\ from[k] # 0 /\ T[k] = S[from[k]]
  <2> SUFFICES ASSUME NEW k \in 1 .. Len(T), PiecesOf(T[k]) # {}
               PROVE  from[k] \in DOMAIN S /\ from[k] # 0 /\ T[k] = S[from[k]]
    OBVIOUS
  <2>1. from[k] # 0
    BY NoPieces, Zenon
  <2>2. from[k] \in 0 .. Len(S)
    OBVIOUS
  <2>3. from[k] \in 1 .. Len(S)
    BY <1>1, <2>1, <2>2
  <2> QED BY <1>1, <2>1, <2>3, Zenon
<1>3. \A k \in DOMAIN S : \A x \in PiecesOf(S[k]) : x \in Nat
  BY <1>1 DEF PiecesOf
<1>4. ASSUME NEW k \in DOMAIN T, NEW i \in DOMAIN T[k], NEW j \in DOMAIN T[k], i < j
      PROVE  T[k][i] < T[k][j]
  <2>0. k \in 1 .. Len(T) /\ from[k] \in 0 .. Len(S)
    BY <1>1
  <2>1. CASE from[k] = 0
    <3>1. T[k] = <<0>> \/ T[k] = <<>>
      BY <2>0, <2>1, Zenon DEF Printed
    <3> QED BY <3>1, <1>4
  <2>2. CASE from[k] # 0
    <3>1. from[k] \in DOMAIN S /\ T[k] = S[from[k]]
      <4>1. from[k] \in 1 .. Len(S)
        BY <1>1, <2>0, <2>2
      <4> QED BY <1>1, <2>0, <2>2, <4>1, Zenon
    <3> QED BY <1>4, <3>1, Zenon DEF HoldLast
  <2> QED BY <2>1, <2>2
<1>5. ASSUME NEW k \in DOMAIN T, NEW l \in DOMAIN T, k < l,
             NEW x \in PiecesOf(T[k]), NEW y \in PiecesOf(T[l])
      PROVE  x < y
  <2>1. /\ from[k] \in DOMAIN S /\ from[k] # 0 /\ T[k] = S[from[k]]
        /\ from[l] \in DOMAIN S /\ from[l] # 0 /\ T[l] = S[from[l]]
    BY <1>1, <1>2, <1>5, Zenon
  <2>2. from[k] < from[l]
    BY <1>1, <1>5, <2>1, Zenon
  <2>3. x \in PiecesOf(S[from[k]]) /\ y \in PiecesOf(S[from[l]])
    BY <2>1, Zenon
  <2> QED BY <2>1, <2>2, <2>3, Zenon DEF HoldLast
<1>6. ASSUME NEW k \in DOMAIN T, NEW x \in PiecesOf(T[k])
      PROVE  x \in 1 .. n /\ \A y \in x .. n : \E l \in DOMAIN T : y \in PiecesOf(T[l])
  <2>1. from[k] \in DOMAIN S /\ from[k] # 0 /\ x \in PiecesOf(S[from[k]])
    BY <1>1, <1>2, <1>6
  <2>2. x \in 1 .. n
    BY <2>1 DEF HoldLast
  <2>3. ASSUME NEW y \in x .. n PROVE \E l \in DOMAIN T : y \in PiecesOf(T[l])
    <3>1. PICK m \in DOMAIN S : y \in PiecesOf(S[m])
      BY <2>1, <2>3 DEF HoldLast
    <3>2. ~(m < from[k])
      <4>1. x \in Nat /\ y \in Nat /\ ~(y < x)
        BY <2>2, <2>3
      <4>2. m < from[k] => y < x
        BY <2>1, <3>1, Zenon DEF HoldLast
      <4> QED BY <4>1, <4>2
    <3>3. PICK l \in 1 .. Len(T) : from[l] = m
      BY <1>1, <2>1, <3>1, <3>2
    <3>4. T[l] = S[m]
      BY <1>1, <3>1, <3>3
    <3> QED BY <1>1, <3>1, <3>3, <3>4, Zenon
  <2> QED BY <2>2, <2>3
<1> HIDE DEF PiecesOf
<1> QED BY <1>4, <1>5, <1>6 DEF HoldLast

\* Appending and dropping the first, index by index.
LEMMA LinesFacts ==
  ASSUME NEW L \in Seq(Seq(Nat)), NEW c \in Seq(Nat)
  PROVE  /\ Append(L, c) \in Seq(Seq(Nat)) /\ Len(Append(L, c)) = Len(L) + 1 /\ Len(L) \in Nat
         /\ \A i \in 1 .. Len(L) : Append(L, c)[i] = L[i]
         /\ Append(L, c)[Len(L) + 1] = c
         /\ L # <<>> => /\ Tail(L) \in Seq(Seq(Nat)) /\ Len(Tail(L)) = Len(L) - 1 /\ Len(L) > 0
                        /\ \A i \in 1 .. Len(L) - 1 : Tail(L)[i] = L[i + 1]
OBVIOUS

\* The oldest line is dropped.
LEMMA DropOldest ==
  ASSUME NEW L \in Seq(Seq(Nat)), L # <<>>, NEW c \in Seq(Nat), NEW n \in Nat,
         HoldLast(Append(L, c), n)
  PROVE  HoldLast(Append(Tail(L), c), n)
<1> DEFINE S == Append(L, c)
           T == Append(Tail(L), c)
           from == [k \in 1 .. Len(T) |-> k + 1]
<1>1. /\ S \in Seq(Seq(Nat)) /\ Len(S) = Len(L) + 1 /\ Len(L) \in Nat /\ Len(L) > 0
      /\ T \in Seq(Seq(Nat)) /\ Len(T) = Len(L)
      /\ \A i \in 1 .. Len(L) : S[i] = L[i]
      /\ S[Len(L) + 1] = c
  BY LinesFacts
<1>2. \A k \in 1 .. Len(T) : T[k] = S[k + 1]
  <2> SUFFICES ASSUME NEW k \in 1 .. Len(T) PROVE T[k] = S[k + 1]
    OBVIOUS
  <2>0. Tail(L) \in Seq(Seq(Nat)) /\ Len(Tail(L)) = Len(L) - 1
    BY LinesFacts
  <2>1. CASE k = Len(L)
    <3>1. T[k] = c
      BY <2>0, <2>1, <1>1, LinesFacts
    <3> QED BY <3>1, <1>1, <2>1
  <2>2. CASE k # Len(L)
    <3>1. k \in 1 .. Len(L) - 1 /\ k + 1 \in 1 .. Len(L)
      <4> HIDE DEF S, T
      <4> QED BY <1>1, <2>2
    <3>2. T[k] = Tail(L)[k] /\ Tail(L)[k] = L[k + 1]
      BY <2>0, <3>1, LinesFacts
    <3> QED BY <3>1, <3>2, <1>1
  <2> QED BY <2>1, <2>2
<1> HIDE DEF S, T
<1>3. from \in [1 .. Len(T) -> 0 .. Len(S)] /\ \A k \in 1 .. Len(T) : from[k] = k + 1 /\ from[k] # 0
  BY <1>1
<1>4. \A k \in 1 .. Len(T) : from[k] # 0 => T[k] = S[from[k]]
  BY <1>2, <1>3
<1>5. \A k, l \in 1 .. Len(T) : k < l => from[k] < from[l]
  BY <1>3, <1>1
<1>6. \A m \in 1 .. Len(S) : \/ \E k \in 1 .. Len(T) : from[k] = m
                             \/ \A k \in 1 .. Len(T) : m < from[k]
  <2> SUFFICES ASSUME NEW m \in 1 .. Len(S)
               PROVE  \/ \E k \in 1 .. Len(T) : from[k] = m
                      \/ \A k \in 1 .. Len(T) : m < from[k]
    OBVIOUS
  <2>1. CASE m = 1
    BY <2>1, <1>1, <1>3
  <2>2. CASE m # 1
    <3>1. m - 1 \in 1 .. Len(T) /\ from[m - 1] = m
      BY <2>2, <1>1, <1>3
    <3> QED BY <3>1
  <2> QED BY <2>1, <2>2
<1>7. HoldLast(S, n)
  BY DEF S
<1> HIDE DEF from
<1>8. /\ \A k \in 1 .. Len(T) : from[k] = 0 => T[k] \in {Printed, <<>>}
      /\ \A k, l \in 1 .. Len(T) : k < l /\ from[k] # 0 /\ from[l] # 0 => from[k] < from[l]
      /\ \A m \in 1 .. Len(S) : \/ PiecesOf(S[m]) = {}
                                \/ \E k \in 1 .. Len(T) : from[k] = m
                                \/ \A k \in 1 .. Len(T) : from[k] # 0 => m < from[k]
  <2>1. \A k \in 1 .. Len(T) : from[k] # 0
    BY <1>3, Zenon
  <2>2. \A k \in 1 .. Len(T) : from[k] = 0 => T[k] \in {Printed, <<>>}
    BY <2>1, Zenon
  <2>3. \A k, l \in 1 .. Len(T) : k < l /\ from[k] # 0 /\ from[l] # 0 => from[k] < from[l]
    BY <1>5, Zenon
  <2>4. \A m \in 1 .. Len(S) : \/ PiecesOf(S[m]) = {}
                               \/ \E k \in 1 .. Len(T) : from[k] = m
                               \/ \A k \in 1 .. Len(T) : from[k] # 0 => m < from[k]
    BY <1>6, Zenon
  <2> QED BY <2>2, <2>3, <2>4, Zenon
<1>9. HoldLast(T, n)
  <2>1. /\ S \in Seq(Seq(Nat)) /\ T \in Seq(Seq(Nat))
        /\ from \in [1 .. Len(T) -> 0 .. Len(S)]
    BY <1>1, <1>3, Zenon
  <2> QED BY <1>4, <1>7, <1>8, <2>1, LastOfLast, Zenon
<1> QED BY <1>9 DEF T

\* The line being built is committed, or a printed line comes before it.
LEMMA PushOne ==
  ASSUME NEW L \in Seq(Seq(Nat)), NEW cur \in Seq(Nat), NEW n \in Nat,
         HoldLast(Append(L, cur), n)
  PROVE  /\ HoldLast(Append(Append(L, cur), <<>>), n)
         /\ HoldLast(Append(Append(L, Printed), cur), n)
<1> DEFINE S == Append(L, cur)
           N == Len(L)
<1>0. Printed \in Seq(Nat) /\ <<>> \in Seq(Nat)
  BY DEF Printed
<1>1. /\ S \in Seq(Seq(Nat)) /\ Len(S) = N + 1 /\ N \in Nat
      /\ \A i \in 1 .. N : S[i] = L[i]
      /\ S[N + 1] = cur
  BY LinesFacts
<1>2. HoldLast(S, n)
  OBVIOUS
<1>3. HoldLast(Append(S, <<>>), n)
  <2> DEFINE T == Append(S, <<>>)
             from == [k \in 1 .. Len(T) |-> IF k = N + 2 THEN 0 ELSE k]
  <2>1. /\ T \in Seq(Seq(Nat)) /\ Len(T) = N + 2 /\ T[N + 2] = <<>>
        /\ \A i \in 1 .. N + 1 : T[i] = S[i]
    <3> HIDE DEF S
    <3> QED BY <1>0, <1>1, LinesFacts
  <2> HIDE DEF S, T, N
  <2>2. /\ from \in [1 .. Len(T) -> 0 .. Len(S)]
        /\ \A k \in 1 .. N + 1 : from[k] = k /\ from[k] # 0
        /\ from[N + 2] = 0
        /\ \A k \in 1 .. Len(T) : k \in 1 .. N + 1 \/ k = N + 2
        /\ \A k \in 1 .. N + 1 : k \in 1 .. Len(T)
    <3>1. Len(T) = N + 2 /\ Len(S) = N + 1 /\ N \in Nat
      BY <1>1, <2>1
    <3> QED BY <3>1
  <2> HIDE DEF from
  <2>3. /\ \A k \in 1 .. Len(T) : from[k] = 0 => T[k] \in {Printed, <<>>}
        /\ \A k \in 1 .. Len(T) : from[k] # 0 => T[k] = S[from[k]]
    BY <2>1, <2>2
  <2>4. \A k, l \in 1 .. Len(T) : k < l /\ from[k] # 0 /\ from[l] # 0 => from[k] < from[l]
    BY <1>1, <2>2
  <2>5. \A m \in 1 .. Len(S) : \E k \in 1 .. Len(T) : from[k] = m
    BY <1>1, <2>2
  <2>6. \A m \in 1 .. Len(S) : \/ PiecesOf(S[m]) = {}
                               \/ \E k \in 1 .. Len(T) : from[k] = m
                               \/ \A k \in 1 .. Len(T) : from[k] # 0 => m < from[k]
    BY <2>5, Zenon
  <2>7. /\ S \in Seq(Seq(Nat)) /\ T \in Seq(Seq(Nat)) /\ HoldLast(S, n)
        /\ from \in [1 .. Len(T) -> 0 .. Len(S)]
    BY <1>1, <1>2, <2>1, <2>2, Zenon
  <2>8. HoldLast(T, n)
    BY <2>3, <2>4, <2>6, <2>7, LastOfLast, Zenon
  <2> QED BY <2>8 DEF T, S
<1>4. HoldLast(Append(Append(L, Printed), cur), n)
  <2> DEFINE R == Append(L, Printed)
             T == Append(R, cur)
             from == [k \in 1 .. Len(T) |-> IF k = N + 1 THEN 0 ELSE IF k = N + 2 THEN N + 1 ELSE k]
  <2>0. /\ R \in Seq(Seq(Nat)) /\ Len(R) = N + 1 /\ R[N + 1] = Printed
        /\ \A i \in 1 .. N : R[i] = L[i]
    BY <1>0, LinesFacts
  <2> HIDE DEF R
  <2>1. /\ T \in Seq(Seq(Nat)) /\ Len(T) = N + 2 /\ T[N + 2] = cur /\ T[N + 1] = Printed
        /\ \A i \in 1 .. N : T[i] = S[i]
    <3>1. /\ T \in Seq(Seq(Nat)) /\ Len(T) = N + 2 /\ T[N + 2] = cur
          /\ \A i \in 1 .. N + 1 : T[i] = R[i]
      BY <2>0, <1>1, LinesFacts
    <3> HIDE DEF T, S, N
    <3>2. N + 1 \in 1 .. N + 1 /\ \A i \in 1 .. N : i \in 1 .. N + 1
      BY <1>1
    <3> QED BY <1>1, <2>0, <3>1, <3>2, Zenon
  <2> HIDE DEF S, T, N
  <2>2. /\ from \in [1 .. Len(T) -> 0 .. Len(S)]
        /\ \A k \in 1 .. N : from[k] = k /\ from[k] # 0
        /\ from[N + 1] = 0 /\ from[N + 2] = N + 1 /\ N + 1 # 0
        /\ \A k \in 1 .. Len(T) : k \in 1 .. N \/ k = N + 1 \/ k = N + 2
        /\ \A k \in 1 .. N : k \in 1 .. Len(T)
        /\ N + 2 \in 1 .. Len(T)
    BY <1>1, <2>1
  <2> HIDE DEF from
  <2>3. /\ \A k \in 1 .. Len(T) : from[k] = 0 => T[k] \in {Printed, <<>>}
        /\ \A k \in 1 .. Len(T) : from[k] # 0 => T[k] = S[from[k]]
    BY <1>1, <2>1, <2>2
  <2>4. ASSUME NEW k \in 1 .. Len(T), NEW l \in 1 .. Len(T), k < l, from[k] # 0, from[l] # 0
        PROVE  from[k] < from[l]
    <3>1. k \in 1 .. N \/ k = N + 2
      BY <2>2, <2>4, Zenon
    <3>2. l \in 1 .. N \/ l = N + 2
      BY <2>2, <2>4, Zenon
    <3>3. CASE l \in 1 .. N
      <4>1. k \in 1 .. N
        BY <1>1, <2>4, <3>1, <3>3
      <4> QED BY <2>2, <2>4, <3>3, <4>1, Zenon
    <3>4. CASE l = N + 2 /\ k \in 1 .. N
      <4>1. from[k] = k /\ from[l] = N + 1
        BY <2>2, <3>4, Zenon
      <4> QED BY <1>1, <3>4, <4>1
    <3>5. CASE l = N + 2 /\ k = N + 2
      BY <1>1, <2>4, <3>5
    <3> QED BY <3>1, <3>2, <3>3, <3>4, <3>5
  <2>5. \A m \in 1 .. Len(S) : \E k \in 1 .. Len(T) : from[k] = m
    <3> SUFFICES ASSUME NEW m \in 1 .. Len(S) PROVE \E k \in 1 .. Len(T) : from[k] = m
      OBVIOUS
    <3>1. m \in 1 .. N \/ m = N + 1
      BY <1>1
    <3> QED BY <2>2, <3>1, Zenon
  <2>6. \A m \in 1 .. Len(S) : \/ PiecesOf(S[m]) = {}
                               \/ \E k \in 1 .. Len(T) : from[k] = m
                               \/ \A k \in 1 .. Len(T) : from[k] # 0 => m < from[k]
    BY <2>5, Zenon
  <2>7. /\ S \in Seq(Seq(Nat)) /\ T \in Seq(Seq(Nat)) /\ HoldLast(S, n)
        /\ from \in [1 .. Len(T) -> 0 .. Len(S)]
    BY <1>1, <1>2, <2>1, <2>2, Zenon
  <2>8. HoldLast(T, n)
    BY <2>3, <2>4, <2>6, <2>7, LastOfLast, Zenon
  <2> QED BY <2>8 DEF T, R
<1> QED BY <1>3, <1>4

\* The lines are cleared, and the one being built stays.
LEMMA ClearLines ==
  ASSUME NEW L \in Seq(Seq(Nat)), NEW cur \in Seq(Nat), NEW n \in Nat,
         HoldLast(Append(L, cur), n)
  PROVE  HoldLast(Append(<<>>, cur), n)
<1> DEFINE S == Append(L, cur)
           T == Append(<<>>, cur)
           from == [k \in 1 .. Len(T) |-> Len(S)]
<1>1. /\ S \in Seq(Seq(Nat)) /\ Len(S) = Len(L) + 1 /\ Len(L) \in Nat /\ S[Len(L) + 1] = cur
      /\ T \in Seq(Seq(Nat)) /\ Len(T) = 1 /\ T[1] = cur /\ HoldLast(S, n)
  <2>1. <<>> \in Seq(Seq(Nat)) /\ Len(<<>>) = 0
    OBVIOUS
  <2> QED BY <2>1, LinesFacts
<1> HIDE DEF S, T
<1>2. /\ from \in [1 .. Len(T) -> 0 .. Len(S)]
      /\ \A k \in 1 .. Len(T) : k = 1 /\ from[k] = Len(S) /\ from[k] # 0
  BY <1>1
<1> HIDE DEF from
<1>3. \A k \in 1 .. Len(T) : from[k] # 0 => T[k] = S[from[k]]
  BY <1>1, <1>2
<1>4. \A m \in 1 .. Len(S) : \/ \E k \in 1 .. Len(T) : from[k] = m
                             \/ \A k \in 1 .. Len(T) : m < from[k]
  BY <1>1, <1>2
<1>5. \A k, l \in 1 .. Len(T) : k < l /\ from[k] # 0 /\ from[l] # 0 => from[k] < from[l]
  BY <1>1, <1>2
<1>6. \A k \in 1 .. Len(T) : from[k] = 0 => T[k] \in {Printed, <<>>}
  BY <1>2
<1>7. HoldLast(T, n)
  BY <1>1, <1>2, <1>3, <1>4, <1>5, <1>6, LastOfLast, Zenon
<1> QED BY <1>7 DEF T

\* The next piece goes to the line being built.
LEMMA PieceAdded ==
  ASSUME NEW L \in Seq(Seq(Nat)), NEW cur \in Seq(Nat), NEW n \in Nat,
         HoldLast(Append(L, cur), n)
  PROVE  HoldLast(Append(L, Append(cur, n + 1)), n + 1)
<1> DEFINE S == Append(L, cur)
           new == Append(cur, n + 1)
           T == Append(L, new)
           N == Len(L)
<1>1. /\ new \in Seq(Nat) /\ Len(new) = Len(cur) + 1 /\ Len(cur) \in Nat
      /\ DOMAIN new = 1 .. Len(cur) + 1 /\ DOMAIN cur = 1 .. Len(cur)
      /\ new[Len(cur) + 1] = n + 1 /\ \A i \in 1 .. Len(cur) : new[i] = cur[i]
  OBVIOUS
<1>2. PiecesOf(new) = PiecesOf(cur) \cup {n + 1}
  <2> HIDE DEF new
  <2>1. ASSUME NEW x \in PiecesOf(new) PROVE x \in PiecesOf(cur) \cup {n + 1}
    <3>1. PICK i \in 1 .. Len(cur) + 1 : x = new[i] /\ x # 0
      BY <1>1, <2>1, Zenon DEF PiecesOf
    <3>2. CASE i = Len(cur) + 1
      BY <1>1, <3>1, <3>2, Zenon
    <3>3. CASE i \in 1 .. Len(cur)
      <4>1. x = cur[i] /\ i \in DOMAIN cur
        BY <1>1, <3>1, <3>3, Zenon
      <4> QED BY <3>1, <4>1, Zenon DEF PiecesOf
    <3> QED BY <1>1, <3>2, <3>3
  <2>2. ASSUME NEW x \in PiecesOf(cur) PROVE x \in PiecesOf(new)
    <3>1. PICK i \in 1 .. Len(cur) : x = cur[i] /\ x # 0
      BY <1>1, <2>2 DEF PiecesOf
    <3>2. i \in DOMAIN new /\ new[i] = x
      BY <1>1, <3>1
    <3> QED BY <3>1, <3>2 DEF PiecesOf
  <2>3. n + 1 \in PiecesOf(new)
    <3>1. n + 1 # 0 /\ Len(cur) + 1 \in DOMAIN new
      BY <1>1
    <3> QED BY <1>1, <3>1 DEF PiecesOf
  <2> QED BY <2>1, <2>2, <2>3
<1>3. /\ DOMAIN S = 1 .. N + 1 /\ S[N + 1] = cur /\ DOMAIN T = 1 .. N + 1 /\ T[N + 1] = new
      /\ N \in Nat /\ \A k \in 1 .. N : T[k] = S[k]
  <2>1. S \in Seq(Seq(Nat)) /\ T \in Seq(Seq(Nat)) /\ Len(S) = N + 1 /\ Len(T) = N + 1
    BY <1>1, LinesFacts
  <2>2. /\ S[N + 1] = cur /\ T[N + 1] = new /\ N \in Nat
        /\ \A k \in 1 .. N : S[k] = L[k] /\ T[k] = L[k]
    <3> HIDE DEF new
    <3> QED BY <1>1, LinesFacts
  <2> HIDE DEF S, T, new, N
  <2> QED BY <2>1, <2>2
<1>4. HoldLast(S, n)
  OBVIOUS
<1> HIDE DEF S, T, new, N
<1>5. \A k \in 1 .. N + 1 : k \in 1 .. N \/ k = N + 1
  BY <1>3
<1>6. \A k \in 1 .. N + 1 : \A x \in PiecesOf(S[k]) : x \in 1 .. n
  BY <1>3, <1>4 DEF HoldLast
<1>7. /\ PiecesOf(T[N + 1]) = PiecesOf(S[N + 1]) \cup {n + 1}
      /\ \A k \in 1 .. N + 1 : k # N + 1 => PiecesOf(T[k]) = PiecesOf(S[k])
      /\ \A k \in 1 .. N + 1 : \A x : x \in PiecesOf(T[k]) => x \in PiecesOf(S[k]) \/ x = n + 1
      /\ \A k \in 1 .. N + 1 : \A x \in PiecesOf(S[k]) : x \in PiecesOf(T[k])
  <2>1. PiecesOf(T[N + 1]) = PiecesOf(S[N + 1]) \cup {n + 1}
    BY <1>2, <1>3
  <2>2. \A k \in 1 .. N + 1 : k # N + 1 => PiecesOf(T[k]) = PiecesOf(S[k])
    BY <1>3, <1>5, Zenon
  <2>3. \A k \in 1 .. N + 1 : \A x : x \in PiecesOf(T[k]) => x \in PiecesOf(S[k]) \/ x = n + 1
    BY <2>1, <2>2
  <2>4. \A k \in 1 .. N + 1 : \A x \in PiecesOf(S[k]) : x \in PiecesOf(T[k])
    BY <2>1, <2>2
  <2> QED BY <2>1, <2>2, <2>3, <2>4
<1>8. \A i \in 1 .. Len(cur) : cur[i] < n + 1 /\ cur[i] \in Nat
  <2> SUFFICES ASSUME NEW i \in 1 .. Len(cur) PROVE cur[i] < n + 1 /\ cur[i] \in Nat
    OBVIOUS
  <2>1. cur[i] \in Nat
    BY <1>1
  <2>2. cur[i] = 0 \/ cur[i] \in PiecesOf(cur)
    BY <1>1 DEF PiecesOf
  <2>3. N + 1 \in 1 .. N + 1
    BY <1>3
  <2> QED BY <2>1, <2>2, <2>3, <1>3, <1>6
<1>9. ASSUME NEW k \in 1 .. N + 1, NEW i \in DOMAIN T[k], NEW j \in DOMAIN T[k], i < j
      PROVE  T[k][i] < T[k][j]
  <2>1. CASE k \in 1 .. N
    BY <1>3, <1>4, <1>9, <2>1 DEF HoldLast
  <2>2. CASE k = N + 1
    <3>1. T[k] = new /\ i \in 1 .. Len(cur) + 1 /\ j \in 1 .. Len(cur) + 1 /\ i \in 1 .. Len(cur)
      BY <1>1, <1>3, <1>9, <2>2
    <3>2. CASE j = Len(cur) + 1
      BY <1>1, <1>8, <3>1, <3>2
    <3>3. CASE j \in 1 .. Len(cur)
      <4>1. \A a, b \in DOMAIN cur : a < b => cur[a] < cur[b]
        <5>1. N + 1 \in DOMAIN S /\ S[N + 1] = cur
          BY <1>3
        <5> QED BY <1>4, <5>1, Zenon DEF HoldLast
      <4> QED BY <1>1, <1>9, <3>1, <3>3, <4>1
    <3> QED BY <3>1, <3>2, <3>3, <1>1
  <2> QED BY <2>1, <2>2, <1>5
<1>10. ASSUME NEW k \in 1 .. N + 1, NEW l \in 1 .. N + 1, k < l,
              NEW x \in PiecesOf(T[k]), NEW y \in PiecesOf(T[l])
       PROVE  x < y
  <2>1. k # N + 1
    BY <1>3, <1>10
  <2>2. x \in PiecesOf(S[k]) /\ x \in 1 .. n
    BY <1>6, <1>7, <2>1
  <2>3. CASE y \in PiecesOf(S[l])
    BY <1>3, <1>4, <1>10, <2>2, <2>3 DEF HoldLast
  <2>4. CASE y = n + 1
    BY <2>2, <2>4
  <2> QED BY <1>7, <2>3, <2>4
<1>11. ASSUME NEW k \in 1 .. N + 1, NEW x \in PiecesOf(T[k])
       PROVE  x \in 1 .. n + 1 /\ \A y \in x .. n + 1 : \E l \in 1 .. N + 1 : y \in PiecesOf(T[l])
  <2>0. N + 1 \in 1 .. N + 1 /\ n + 1 \in PiecesOf(T[N + 1])
    <3>1. N + 1 \in 1 .. N + 1
      BY <1>3
    <3>2. n + 1 \in PiecesOf(T[N + 1])
      BY <1>7
    <3> QED BY <3>1, <3>2
  <2>1. CASE x = n + 1
    BY <2>0, <2>1
  <2>2. CASE x # n + 1
    <3>1. x \in PiecesOf(S[k]) /\ x \in 1 .. n
      BY <1>6, <1>7, <2>2
    <3>2. ASSUME NEW y \in x .. n PROVE \E l \in 1 .. N + 1 : y \in PiecesOf(T[l])
      <4>1. PICK l \in 1 .. N + 1 : y \in PiecesOf(S[l])
        BY <1>3, <1>4, <3>1, <3>2 DEF HoldLast
      <4> QED BY <4>1, <1>7
    <3>3. (\A y \in x .. n + 1 : y \in x .. n \/ y = n + 1) /\ x \in 1 .. n + 1
      <4> HIDE <3>2
      <4>1. x \in Nat
        BY <3>1
      <4>2. x \in 1 .. n + 1
        BY <3>1
      <4>3. ASSUME NEW y \in x .. n + 1 PROVE y \in x .. n \/ y = n + 1
        BY <4>1, <4>3
      <4> QED BY <4>2, <4>3
    <3> QED BY <2>0, <3>2, <3>3, Zenon
  <2> QED BY <2>1, <2>2
<1>12. HoldLast(T, n + 1)
  BY <1>3, <1>9, <1>10, <1>11, Zenon DEF HoldLast
<1> QED BY <1>12 DEF T, new

\* A screen within its limits that holds the last of n pieces.
Good(s, n) == s \in ScreenType /\ Len(s.lines) <= MaxLines /\ HoldLast(Append(s.lines, s.cur), n)

\* The fields of a screen, with their types.
LEMMA ScreenFields ==
  ASSUME NEW s \in ScreenType
  PROVE  /\ s.lines \in Seq(Seq(Nat)) /\ s.cur \in Seq(Nat)
         /\ s.streaming \in BOOLEAN /\ s.scroll \in 0 .. MaxScroll
BY DEF ScreenType, Line, Lines

\* push_line keeps the buffer within its limit; the line pushed may be the one being
\* built or a printed one.
LEMMA Pushed ==
  ASSUME NEW s \in ScreenType, Len(s.lines) <= MaxLines, NEW line \in Seq(Nat), NEW n \in Nat,
         NEW c \in Seq(Nat), HoldLast(Append(Append(s.lines, line), c), n)
  PROVE  /\ push_line(s, line) \in ScreenType /\ Len(push_line(s, line).lines) <= MaxLines
         /\ push_line(s, line).cur = s.cur
         /\ HoldLast(Append(push_line(s, line).lines, c), n)
<1> DEFINE all == Append(s.lines, line)
           L == IF Len(all) > MaxLines THEN Tail(all) ELSE all
<1>1. s.lines \in Seq(Seq(Nat)) /\ all \in Seq(Seq(Nat)) /\ Len(all) = Len(s.lines) + 1 /\ Len(s.lines) \in Nat
  BY ScreenFields, LinesFacts
<1>2. push_line(s, line) = [s EXCEPT !.lines = L]
  BY DEF push_line
<1>3. MaxLines \in Nat \ {0} /\ HoldLast(Append(all, c), n)
  BY TerminalAssumption
<1> HIDE DEF all
<1>4. L \in Seq(Seq(Nat)) /\ Len(L) <= MaxLines /\ HoldLast(Append(L, c), n)
  <2>1. CASE Len(all) > MaxLines
    <3>1. all # <<>>
      BY <1>1
    <3>2. Tail(all) \in Seq(Seq(Nat)) /\ Len(Tail(all)) = Len(all) - 1
      BY <1>1, <3>1, LinesFacts
    <3>3. HoldLast(Append(Tail(all), c), n)
      BY <1>1, <1>3, <3>1, DropOldest
    <3>4. Len(Tail(all)) <= MaxLines
      BY <1>1, <1>3, <2>1, <3>2
    <3> QED BY <2>1, <3>2, <3>3, <3>4
  <2>2. CASE ~(Len(all) > MaxLines)
    BY <1>1, <1>3, <2>2
  <2> QED BY <2>1, <2>2
<1> HIDE DEF L
<1>5. PICK t : t = [s EXCEPT !.lines = L]
  OBVIOUS
<1>6. L \in Lines
  BY <1>4 DEF Lines
<1>7. t \in ScreenType /\ t.lines = L /\ t.cur = s.cur
  BY <1>5, <1>6 DEF ScreenType
<1> QED BY <1>2, <1>4, <1>5, <1>7, Zenon

\* A printed line goes before the line being built.
LEMMA PrintKeeps ==
  ASSUME NEW s, NEW n \in Nat, Good(s, n)
  PROVE  Good(print(s), n)
<1>1. /\ s \in ScreenType /\ Len(s.lines) <= MaxLines /\ s.lines \in Seq(Seq(Nat)) /\ s.cur \in Seq(Nat)
  BY ScreenFields DEF Good
<1>0. Printed \in Seq(Nat)
  BY DEF Printed
<1>2. HoldLast(Append(Append(s.lines, Printed), s.cur), n)
  BY <1>1, PushOne DEF Good
<1> QED BY <1>0, <1>1, <1>2, Pushed, Zenon DEF Good, print

\* The line being built is pushed and a new one begun.
LEMMA CommitKeeps ==
  ASSUME NEW s, NEW n \in Nat, NEW b \in BOOLEAN, Good(s, n)
  PROVE  /\ Good([push_line(s, s.cur) EXCEPT !.cur = << >>, !.streaming = b], n)
         /\ Good([[push_line(s, s.cur) EXCEPT !.cur = << >>] EXCEPT !.streaming = b], n)
<1>1. /\ s \in ScreenType /\ Len(s.lines) <= MaxLines /\ s.lines \in Seq(Seq(Nat)) /\ s.cur \in Seq(Nat)
  BY ScreenFields DEF Good
<1>0. <<>> \in Seq(Nat) /\ <<>> \in Line
  BY DEF Line
<1>2. HoldLast(Append(Append(s.lines, s.cur), <<>>), n)
  BY <1>1, PushOne DEF Good
<1>3. PICK t : t = push_line(s, s.cur)
  OBVIOUS
<1>4. t \in ScreenType /\ Len(t.lines) <= MaxLines /\ HoldLast(Append(t.lines, <<>>), n)
  BY <1>0, <1>1, <1>2, <1>3, Pushed, Zenon
<1>5. PICK u : u = [t EXCEPT !.cur = << >>, !.streaming = b]
  OBVIOUS
<1>6. u \in ScreenType /\ u.lines = t.lines /\ u.cur = <<>>
  BY <1>0, <1>4, <1>5 DEF ScreenType
<1>7. PICK v : v = [t EXCEPT !.cur = << >>]
  OBVIOUS
<1>8. v \in ScreenType /\ v.lines = t.lines /\ v.cur = <<>>
  BY <1>0, <1>4, <1>7 DEF ScreenType
<1>9. PICK w : w = [v EXCEPT !.streaming = b]
  OBVIOUS
<1>10. w \in ScreenType /\ w.lines = t.lines /\ w.cur = <<>>
  BY <1>8, <1>9 DEF ScreenType
<1> QED BY <1>3, <1>4, <1>5, <1>6, <1>7, <1>9, <1>10, Zenon DEF Good

\* The end of an answer commits the line being built.
LEMMA FlushKeeps ==
  ASSUME NEW s, NEW n \in Nat, Good(s, n)
  PROVE  Good(flush_stream(s), n)
<1>1. CASE s.cur # << >>
  <2>1. flush_stream(s) = [push_line(s, s.cur) EXCEPT !.cur = << >>, !.streaming = FALSE]
    BY <1>1, Zenon DEF flush_stream
  <2> QED BY <2>1, CommitKeeps, Zenon
<1>2. CASE s.cur = << >>
  <2>1. flush_stream(s) = [s EXCEPT !.cur = << >>, !.streaming = FALSE]
    BY <1>2, Zenon DEF flush_stream
  <2>2. PICK t : t = [s EXCEPT !.cur = << >>, !.streaming = FALSE]
    OBVIOUS
  <2>3. s \in ScreenType /\ t \in ScreenType /\ t.lines = s.lines /\ t.cur = s.cur
    BY <1>2, <2>2 DEF Good, ScreenType
  <2> QED BY <2>1, <2>2, <2>3, Zenon DEF Good
<1> QED BY <1>1, <1>2

\* A piece of text, or a newline, is streamed.
LEMMA StreamKeeps ==
  ASSUME Good(screen, pieces), pieces \in Nat
  PROVE  /\ Good(print_stream(screen, TRUE), pieces)
         /\ Good(print_stream(screen, FALSE), pieces + 1) /\ pieces + 1 \in Nat
<1>1. Good(print_stream(screen, TRUE), pieces)
  <2>1. print_stream(screen, TRUE)
          = [[push_line(screen, screen.cur) EXCEPT !.cur = << >>] EXCEPT !.streaming = TRUE]
    BY Zenon DEF print_stream
  <2> QED BY <2>1, CommitKeeps, Zenon
<1>2. pieces + 1 \in Nat
  OBVIOUS
<1>3. Good(print_stream(screen, FALSE), pieces + 1)
  <2>1. PICK s : s = screen
    OBVIOUS
  <2>2. /\ s \in ScreenType /\ s.lines \in Seq(Seq(Nat)) /\ s.cur \in Seq(Nat)
        /\ Len(s.lines) <= MaxLines /\ HoldLast(Append(s.lines, s.cur), pieces)
    BY <2>1, ScreenFields DEF Good
  <2>3. PICK c : c = Append(s.cur, pieces + 1)
    OBVIOUS
  <2>4. c \in Seq(Nat) /\ HoldLast(Append(s.lines, c), pieces + 1)
    BY <2>2, <2>3, PieceAdded
  <2>5. PICK t : t = [s EXCEPT !.cur = c]
    OBVIOUS
  <2>6. t \in ScreenType /\ t.lines = s.lines /\ t.cur = c
    BY <2>2, <2>4, <2>5 DEF ScreenType, Line
  <2>7. PICK u : u = [t EXCEPT !.streaming = TRUE]
    OBVIOUS
  <2>8. u \in ScreenType /\ u.lines = s.lines /\ u.cur = c
    BY <2>6, <2>7 DEF ScreenType
  <2>9. t = [s EXCEPT !.cur = Append(@, pieces + 1)]
    BY <2>3, <2>5
  <2>10. u = print_stream(screen, FALSE)
    BY <2>1, <2>7, <2>9 DEF print_stream
  <2> QED BY <2>2, <2>4, <2>8, <2>10, Zenon DEF Good
<1> QED BY <1>1, <1>2, <1>3

\* Scrolling, and the screen cleared by the user.
LEMMA ScrollKeeps ==
  ASSUME NEW s, NEW n \in Nat, Good(s, n), NEW d \in Int
  PROVE  /\ Good(scroll_output(s, d), n) /\ Good([s EXCEPT !.scroll = 0], n)
         /\ Good([s EXCEPT !.lines = << >>, !.scroll = 0], n)
<1>1. /\ s \in ScreenType /\ s.scroll \in 0 .. MaxScroll /\ s.lines \in Seq(Seq(Nat)) /\ s.cur \in Seq(Nat)
      /\ MaxScroll \in Nat /\ MaxLines \in Nat
  BY ScreenFields, TerminalAssumption DEF Good
<1>2. ASSUME NEW x \in 0 .. MaxScroll PROVE Good([s EXCEPT !.scroll = x], n)
  <2>1. PICK t : t = [s EXCEPT !.scroll = x]
    OBVIOUS
  <2>2. t \in ScreenType /\ t.lines = s.lines /\ t.cur = s.cur
    BY <1>1, <2>1 DEF ScreenType
  <2> QED BY <2>1, <2>2, Zenon DEF Good
<1>3. Good(scroll_output(s, d), n)
  <2> DEFINE x == IF s.scroll + d < 0 THEN 0
                  ELSE IF s.scroll + d > MaxScroll THEN MaxScroll ELSE s.scroll + d
  <2>1. x \in 0 .. MaxScroll
    BY <1>1
  <2>2. scroll_output(s, d) = [s EXCEPT !.scroll = x]
    BY DEF scroll_output
  <2> HIDE DEF x
  <2> QED BY <1>2, <2>1, <2>2
<1>4. Good([s EXCEPT !.scroll = 0], n)
  <2>1. 0 \in 0 .. MaxScroll
    BY <1>1
  <2> QED BY <1>2, <2>1
<1>5. Good([s EXCEPT !.lines = << >>, !.scroll = 0], n)
  <2>1. PICK t : t = [s EXCEPT !.lines = << >>, !.scroll = 0]
    OBVIOUS
  <2>2. t \in ScreenType /\ t.lines = << >> /\ t.cur = s.cur
    <3>1. << >> \in Lines /\ 0 \in 0 .. MaxScroll
      BY <1>1 DEF Lines
    <3> QED BY <1>1, <2>1, <3>1 DEF ScreenType
  <2>3. HoldLast(Append(<<>>, s.cur), n)
    BY <1>1, ClearLines DEF Good
  <2>4. Len(t.lines) <= MaxLines
    BY <1>1, <2>2
  <2> QED BY <2>1, <2>2, <2>3, <2>4, Zenon DEF Good
<1> QED BY <1>3, <1>4, <1>5

\* Two strings of bytes, one after the other.
LEMMA Joined ==
  ASSUME NEW a \in Seq(Bytes), NEW b \in Seq(Bytes)
  PROVE  (a \o b) \in Seq(Bytes) /\ Len(a \o b) = Len(a) + Len(b)
OBVIOUS

\* The input line: bytes inserted up to the limit, and a byte taken out.
LEMMA InsertKeeps ==
  ASSUME InputInv, NEW bytes \in Seq(Bytes), NEW new, new = Insert(bytes)
  PROVE  /\ new \in [text : Seq(Bytes), pos : Nat]
         /\ Len(new.text) <= MaxInput /\ new.pos <= Len(new.text)
<1>1. PICK old, p : old = input.text /\ p = input.pos
  OBVIOUS
<1>2. /\ old \in Seq(Bytes) /\ p \in Nat /\ Len(old) \in Nat /\ Len(bytes) \in Nat /\ MaxInput \in Nat
      /\ Len(old) <= MaxInput /\ p <= Len(old)
  BY <1>1, TerminalAssumption DEF InputInv
<1> DEFINE room == IF MaxInput > Len(old) THEN MaxInput - Len(old) ELSE 0
           n == IF Len(bytes) < room THEN Len(bytes) ELSE room
           a == SubSeq(old, 1, p)
           b == SubSeq(bytes, 1, n)
           c == SubSeq(old, p + 1, Len(old))
<1>3. n \in Nat /\ n <= Len(bytes) /\ Len(old) + n <= MaxInput
  BY <1>2
<1>4. new = [text |-> a \o b \o c, pos |-> p + n]
  BY <1>1 DEF Insert
<1> HIDE DEF room, n
<1>5. a \in Seq(Bytes) /\ Len(a) = p
  BY <1>2
<1>6. b \in Seq(Bytes) /\ Len(b) = n
  BY <1>2, <1>3
<1>7. c \in Seq(Bytes) /\ Len(c) = Len(old) - p
  <2>1. \A i \in p + 1 .. Len(old) : i \in 1 .. Len(old)
    BY <1>2
  <2> QED BY <1>2, <2>1
<1> HIDE DEF a, b, c
<1>8. (a \o b) \in Seq(Bytes) /\ Len(a \o b) = p + n
  BY <1>5, <1>6, Joined
<1>9. (a \o b \o c) \in Seq(Bytes) /\ Len(a \o b \o c) = Len(old) + n
  <2>1. PICK ab : ab = a \o b
    OBVIOUS
  <2>2. (ab \o c) \in Seq(Bytes) /\ Len(ab \o c) = Len(ab) + Len(c)
    BY <1>7, <1>8, <2>1, Joined
  <2>3. Len(ab \o c) = (p + n) + (Len(old) - p)
    BY <1>7, <1>8, <2>1, <2>2
  <2>4. (p + n) + (Len(old) - p) = Len(old) + n
    BY <1>2, <1>3
  <2> QED BY <2>1, <2>2, <2>3, <2>4
<1>10. new.text = a \o b \o c /\ new.pos = p + n
  BY <1>4
<1>11. new \in [text : Seq(Bytes), pos : Nat]
  BY <1>2, <1>3, <1>4, <1>9
<1> QED BY <1>2, <1>3, <1>9, <1>10, <1>11

\* One byte taken out.
LEMMA RemoveKeeps ==
  ASSUME NEW s \in Seq(Bytes), NEW i \in 1 .. Len(s)
  PROVE  RemoveAt(s, i) \in Seq(Bytes) /\ Len(RemoveAt(s, i)) = Len(s) - 1
<1> DEFINE a == SubSeq(s, 1, i - 1)
           b == SubSeq(s, i + 1, Len(s))
<1>1. Len(s) \in Nat /\ RemoveAt(s, i) = a \o b
  BY DEF RemoveAt
<1>2. a \in Seq(Bytes) /\ Len(a) = i - 1
  <2>1. \A k \in 1 .. i - 1 : k \in 1 .. Len(s)
    BY <1>1
  <2> QED BY <1>1, <2>1
<1>3. b \in Seq(Bytes) /\ Len(b) = Len(s) - i
  <2>1. \A k \in i + 1 .. Len(s) : k \in 1 .. Len(s)
    BY <1>1
  <2> QED BY <1>1, <2>1
<1> HIDE DEF a, b
<1>4. (a \o b) \in Seq(Bytes) /\ Len(a \o b) = (i - 1) + (Len(s) - i)
  BY <1>2, <1>3, Joined
<1>5. (i - 1) + (Len(s) - i) = Len(s) - 1
  BY <1>1
<1> QED BY <1>1, <1>4, <1>5

\* The keys that edit the line.
LEMMA EditKeeps ==
  ASSUME BufferInv, (\E c \in Chars : Type(c)) \/ Backspace \/ Delete \/ Left \/ Right
  PROVE  BufferInv'
<1>1. InputInv /\ ScreenInv /\ HistoryInv
  BY DEF BufferInv
<1>2. UNCHANGED <<screen, history, pieces>>
  BY DEF Type, Backspace, Delete, Left, Right, Edit
<1>3. /\ input.text \in Seq(Bytes) /\ input.pos \in Nat /\ Len(input.text) \in Nat
      /\ Len(input.text) <= MaxInput /\ input.pos <= Len(input.text) /\ MaxInput \in Nat
  BY <1>1, TerminalAssumption DEF InputInv
<1>4. ASSUME NEW text \in Seq(Bytes), NEW pos \in Nat, Len(text) <= MaxInput, pos <= Len(text),
             input' = [text |-> text, pos |-> pos]
      PROVE  InputInv'
  BY <1>4 DEF InputInv
<1>5. InputInv'
  <2>1. CASE \E c \in Chars : Type(c)
    <3>1. PICK c \in Chars : input' = Insert(c)
      BY <2>1 DEF Type, Edit
    <3>2. c \in Seq(Bytes)
      <4>1. c \in Seq(UNION {{d[i] : i \in DOMAIN d} : d \in Chars})
        BY TerminalAssumption
      <4>2. \A i \in DOMAIN c : c[i] \in Bytes
        BY DEF Bytes
      <4> QED BY <4>1, <4>2
    <3> QED BY <1>1, <3>1, <3>2, InsertKeeps DEF InputInv
  <2>2. CASE Backspace
    <3>1. /\ input.pos > 0
          /\ input' = [text |-> RemoveAt(input.text, input.pos), pos |-> input.pos - 1]
      BY <2>2 DEF Backspace, Edit
    <3>2. /\ RemoveAt(input.text, input.pos) \in Seq(Bytes)
          /\ Len(RemoveAt(input.text, input.pos)) = Len(input.text) - 1
      <4>1. input.pos \in 1 .. Len(input.text)
        BY <1>3, <3>1
      <4> QED BY <1>3, <4>1, RemoveKeeps, Zenon
    <3>3. input.pos - 1 \in Nat /\ Len(input.text) - 1 <= MaxInput /\ input.pos - 1 <= Len(input.text) - 1
      BY <1>3, <3>1
    <3> QED BY <1>4, <3>1, <3>2, <3>3
  <2>3. CASE Delete
    <3>1. CASE input' = Insert(<<"~">>)
      <4>1. <<"~">> \in Seq(Bytes)
        BY DEF Bytes
      <4> QED BY <1>1, <3>1, <4>1, InsertKeeps DEF InputInv
    <3>2. CASE /\ input.pos < Len(input.text)
               /\ input' = [input EXCEPT !.text = RemoveAt(@, input.pos + 1)]
      <4>1. /\ RemoveAt(input.text, input.pos + 1) \in Seq(Bytes)
            /\ Len(RemoveAt(input.text, input.pos + 1)) = Len(input.text) - 1
        <5>1. input.pos + 1 \in 1 .. Len(input.text)
          BY <1>3, <3>2
        <5> QED BY <1>3, <5>1, RemoveKeeps, Zenon
      <4>2. input' = [text |-> RemoveAt(input.text, input.pos + 1), pos |-> input.pos]
        BY <1>1, <3>2 DEF InputInv
      <4>3. Len(input.text) - 1 <= MaxInput /\ input.pos <= Len(input.text) - 1
        BY <1>3, <3>2
      <4> QED BY <1>3, <1>4, <4>1, <4>2, <4>3
    <3> QED BY <2>3, <3>1, <3>2 DEF Delete, Edit
  <2>4. CASE Left \/ Right
    <3>1. PICK pos \in {input.pos - 1, input.pos + 1} :
            pos \in Nat /\ pos <= Len(input.text) /\ input' = [input EXCEPT !.pos = pos]
      <4>1. CASE Left
        <5>1. input.pos > 0 /\ input' = [input EXCEPT !.pos = input.pos - 1]
          BY <4>1 DEF Left, Edit
        <5>2. input.pos - 1 \in Nat /\ input.pos - 1 <= Len(input.text)
          BY <1>3, <5>1
        <5> QED BY <5>1, <5>2
      <4>2. CASE Right
        <5>1. input.pos < Len(input.text) /\ input' = [input EXCEPT !.pos = input.pos + 1]
          BY <4>2 DEF Right, Edit
        <5>2. input.pos + 1 \in Nat /\ input.pos + 1 <= Len(input.text)
          BY <1>3, <5>1
        <5> QED BY <5>1, <5>2
      <4> QED BY <2>4, <4>1, <4>2
    <3>2. input' = [text |-> input.text, pos |-> pos]
      BY <1>1, <3>1 DEF InputInv
    <3> QED BY <1>3, <1>4, <3>1, <3>2
  <2> QED BY <2>1, <2>2, <2>3, <2>4
<1> QED BY <1>1, <1>2, <1>5 DEF BufferInv, ScreenInv, StreamKept, HistoryInv

\* A line of the history, or an empty one, is taken up.
LEMMA RecallKeeps ==
  ASSUME BufferInv, Up \/ Down
  PROVE  BufferInv'
<1>1. InputInv /\ ScreenInv /\ HistoryInv
  BY DEF BufferInv
<1>2. /\ history.lines \in Seq(Seq(Bytes)) /\ Len(history.lines) \in Nat /\ history.index \in Int
      /\ DOMAIN history.lines = 1 .. Len(history.lines)
      /\ -1 <= history.index /\ history.index < Len(history.lines)
  BY <1>1 DEF HistoryInv
<1>3. PICK i \in Int : Recall(i) /\ -1 <= i /\ i < Len(history.lines)
  <2>1. CASE history.lines # << >> /\ Recall(Len(history.lines) - 1)
    <3>1. Len(history.lines) > 0
      BY <1>2, <2>1
    <3> QED BY <1>2, <2>1, <3>1
  <2>2. CASE history.index > 0 /\ Recall(history.index - 1)
    BY <1>2, <2>2
  <2>3. CASE Down
    <3>1. CASE history.index + 1 >= Len(history.lines)
      <4>1. Recall(-1)
        BY <2>3, <3>1 DEF Down
      <4> QED BY <1>2, <4>1
    <3>2. CASE ~(history.index + 1 >= Len(history.lines))
      <4>1. Recall(history.index + 1)
        BY <2>3, <3>2 DEF Down
      <4> QED BY <1>2, <3>2, <4>1
    <3> QED BY <3>1, <3>2
  <2> QED BY <2>1, <2>2, <2>3 DEF Up
<1>4. /\ UNCHANGED <<screen, pieces>>
      /\ history' = [history EXCEPT !.index = i]
  BY <1>3 DEF Recall
<1>5. PICK text : /\ input' = [text |-> text, pos |-> Len(text)]
                  /\ text = IF i = -1 THEN << >> ELSE history.lines[i + 1]
  BY <1>3 DEF Recall
<1>6. text \in Seq(Bytes) /\ Len(text) <= MaxInput /\ Len(text) \in Nat
  <2>1. CASE i = -1
    BY <1>5, <2>1, TerminalAssumption
  <2>2. CASE i # -1
    <3>1. i + 1 \in DOMAIN history.lines
      BY <1>2, <1>3, <2>2
    <3>2. text = history.lines[i + 1]
      BY <1>5, <2>2
    <3>3. text \in Seq(Bytes)
      BY <1>2, <3>1, <3>2
    <3> QED BY <1>1, <3>1, <3>2, <3>3 DEF HistoryInv
  <2> QED BY <2>1, <2>2
<1>7. InputInv'
  BY <1>5, <1>6 DEF InputInv
<1>8. HistoryInv'
  <2>1. history'.lines = history.lines /\ history'.index = i
    BY <1>1, <1>4 DEF HistoryInv
  <2>2. history' \in [lines : Seq(Seq(Bytes)), index : Int]
    BY <1>1, <1>4 DEF HistoryInv
  <2> QED BY <1>1, <1>3, <2>1, <2>2 DEF HistoryInv
<1> QED BY <1>1, <1>4, <1>7, <1>8 DEF BufferInv, ScreenInv, StreamKept

\* A line appended to the history, index by index.
LEMMA BytesAppended ==
  ASSUME NEW old \in Seq(Seq(Bytes)), NEW line \in Seq(Bytes)
  PROVE  /\ Append(old, line) \in Seq(Seq(Bytes)) /\ Len(Append(old, line)) = Len(old) + 1
         /\ Append(old, line)[Len(old) + 1] = line
         /\ \A i \in 1 .. Len(old) : Append(old, line)[i] = old[i]
OBVIOUS

\* The line entered is remembered, the oldest one is dropped at the limit.
LEMMA EnterKeeps ==
  ASSUME BufferInv, Enter
  PROVE  BufferInv'
<1>1. InputInv /\ ScreenInv /\ HistoryInv
  BY DEF BufferInv
<1>2. UNCHANGED <<screen, input, pieces>> /\ history' = Remember(input.text)
  BY DEF Enter
<1>3. PICK old, line, new : old = history.lines /\ line = input.text /\ new = Append(old, line)
  OBVIOUS
<1>4. /\ old \in Seq(Seq(Bytes)) /\ line \in Seq(Bytes) /\ Len(line) <= MaxInput
      /\ history.index \in Int /\ -1 <= history.index /\ history.index < Len(old)
      /\ Len(old) \in Nat /\ Len(old) <= MaxHistory /\ MaxHistory \in Nat \ {0}
      /\ \A i \in 1 .. Len(old) : Len(old[i]) <= MaxInput
  <2>1. line \in Seq(Bytes) /\ Len(line) <= MaxInput
    BY <1>1, <1>3 DEF InputInv
  <2>2. /\ old \in Seq(Seq(Bytes)) /\ Len(old) <= MaxHistory
        /\ history.index \in Int /\ -1 <= history.index /\ history.index < Len(old)
    BY <1>1, <1>3 DEF HistoryInv
  <2>3. \A i \in DOMAIN old : Len(old[i]) <= MaxInput
    BY <1>1, <1>3, Zenon DEF HistoryInv
  <2>4. Len(old) \in Nat /\ DOMAIN old = 1 .. Len(old) /\ MaxHistory \in Nat \ {0}
    BY <2>2, TerminalAssumption
  <2> QED BY <2>1, <2>2, <2>3, <2>4
<1>5. /\ new \in Seq(Seq(Bytes)) /\ Len(new) = Len(old) + 1
      /\ new[Len(old) + 1] = line /\ \A i \in 1 .. Len(old) : new[i] = old[i]
  <2>1. /\ Append(old, line) \in Seq(Seq(Bytes)) /\ Len(Append(old, line)) = Len(old) + 1
        /\ Append(old, line)[Len(old) + 1] = line
        /\ \A i \in 1 .. Len(old) : Append(old, line)[i] = old[i]
    BY <1>4, BytesAppended, Zenon
  <2> QED BY <1>3, <2>1, Zenon
<1>6. \A i \in 1 .. Len(new) : Len(new[i]) <= MaxInput
  <2> SUFFICES ASSUME NEW i \in 1 .. Len(new) PROVE Len(new[i]) <= MaxInput
    OBVIOUS
  <2>1. i \in 1 .. Len(old) \/ i = Len(old) + 1
    BY <1>4, <1>5
  <2> QED BY <1>4, <1>5, <2>1
<1>7. ASSUME NEW L \in Seq(Seq(Bytes)), Len(L) <= MaxHistory, Len(old) <= Len(L),
             \A i \in 1 .. Len(L) : Len(L[i]) <= MaxInput,
             history' = [history EXCEPT !.lines = L]
      PROVE  HistoryInv'
  <2>1. history'.lines = L /\ history'.index = history.index /\ DOMAIN L = 1 .. Len(L) /\ Len(L) \in Nat
    BY <1>1, <1>7 DEF HistoryInv
  <2>2. history' \in [lines : Seq(Seq(Bytes)), index : Int]
    BY <1>1, <1>7 DEF HistoryInv
  <2>3. history.index < Len(L)
    BY <1>4, <1>7, <2>1
  <2> QED BY <1>4, <1>7, <2>1, <2>2, <2>3 DEF HistoryInv
<1>8. HistoryInv'
  <2>1. CASE history' = history
    BY <1>1, <2>1 DEF HistoryInv
  <2>2. CASE history' = [history EXCEPT !.lines = IF Len(new) > MaxHistory THEN Tail(new) ELSE new]
    <3>1. CASE Len(new) > MaxHistory
      <4>1. /\ Tail(new) \in Seq(Seq(Bytes)) /\ Len(Tail(new)) = Len(new) - 1
            /\ \A i \in 1 .. Len(new) - 1 : Tail(new)[i] = new[i + 1]
        <5>1. new # << >>
          BY <1>4, <1>5
        <5> QED BY <1>5, <5>1
      <4>2. Len(Tail(new)) = Len(old)
        BY <1>4, <1>5, <4>1
      <4>3. \A i \in 1 .. Len(Tail(new)) : Len(Tail(new)[i]) <= MaxInput
        <5> SUFFICES ASSUME NEW i \in 1 .. Len(Tail(new)) PROVE Len(Tail(new)[i]) <= MaxInput
          OBVIOUS
        <5>1. i \in 1 .. Len(new) - 1 /\ i + 1 \in 1 .. Len(new)
          BY <1>4, <1>5, <4>1
        <5>2. Tail(new)[i] = new[i + 1]
          BY <4>1, <5>1
        <5> QED BY <1>6, <5>1, <5>2
      <4>4. history' = [history EXCEPT !.lines = Tail(new)]
        BY <2>2, <3>1
      <4>5. Len(Tail(new)) <= MaxHistory /\ Len(old) <= Len(Tail(new))
        BY <1>4, <4>2
      <4> QED BY <1>7, <4>1, <4>3, <4>4, <4>5, Zenon
    <3>2. CASE ~(Len(new) > MaxHistory)
      <4>1. Len(new) <= MaxHistory /\ Len(old) <= Len(new)
        BY <1>4, <1>5, <3>2
      <4>2. history' = [history EXCEPT !.lines = new]
        BY <2>2, <3>2
      <4> QED BY <1>5, <1>6, <1>7, <4>1, <4>2
    <3> QED BY <3>1, <3>2
  <2>3. \/ history' = history
        \/ history' = [history EXCEPT !.lines = IF Len(new) > MaxHistory THEN Tail(new) ELSE new]
    BY <1>2, <1>3, Zenon DEF Remember
  <2> QED BY <2>1, <2>2, <2>3
<1> QED BY <1>1, <1>2, <1>8 DEF BufferInv, ScreenInv, StreamKept, InputInv

\* Every key keeps the line, the history and the buffer within their limits.
LEMMA KeyKeeps ==
  ASSUME BufferInv, Key
  PROVE  BufferInv'
<1>1. ScreenInv /\ InputInv /\ HistoryInv /\ Good(screen, pieces) /\ pieces \in Nat /\ Page \in Int
  BY TerminalAssumption DEF BufferInv, ScreenInv, StreamKept, Good
<1>2. ASSUME Good(screen', pieces), UNCHANGED <<input, history, pieces>>
      PROVE  BufferInv'
  BY <1>1, <1>2 DEF BufferInv, ScreenInv, StreamKept, Good, InputInv, HistoryInv
<1>3. CASE PageUp
  <2>1. Good(scroll_output(screen, -Page), pieces)
    <3>1. -Page \in Int
      BY <1>1
    <3> QED BY <1>1, <3>1, ScrollKeeps, Zenon
  <2> QED BY <1>2, <1>3, <2>1 DEF PageUp, Scroll
<1>4. CASE PageDown
  <2>1. Good(scroll_output(screen, Page), pieces)
    BY <1>1, ScrollKeeps, Zenon
  <2> QED BY <1>2, <1>4, <2>1 DEF PageDown, Scroll
<1>5. CASE ClearScreen
  <2>1. Good([screen EXCEPT !.lines = << >>, !.scroll = 0], pieces)
    BY <1>1, ScrollKeeps, Zenon
  <2> QED BY <1>2, <1>5, <2>1 DEF ClearScreen
<1> QED BY <1>3, <1>4, <1>5, EditKeeps, RecallKeeps, EnterKeeps DEF Key

\* A read begins with an empty line, below the newest line of the history.
LEMMA BeginKeeps ==
  ASSUME BufferInv, BeginRead
  PROVE  BufferInv'
<1>1. ScreenInv /\ HistoryInv /\ Good(screen, pieces) /\ MaxInput \in Nat /\ pieces \in Nat
  BY TerminalAssumption DEF BufferInv, ScreenInv, StreamKept, Good
<1>2. /\ input' = [text |-> << >>, pos |-> 0] /\ history' = [history EXCEPT !.index = -1]
      /\ screen' = [screen EXCEPT !.scroll = 0] /\ pieces' = pieces
  BY DEF BeginRead
<1>3. ScreenInv'
  <2>1. Good(screen', pieces)
    <3>1. MaxLines \in Int
      BY TerminalAssumption
    <3> QED BY <1>1, <1>2, <3>1, ScrollKeeps, Zenon
  <2> QED BY <1>1, <1>2, <2>1 DEF ScreenInv, StreamKept, Good
<1>4. InputInv'
  BY <1>1, <1>2 DEF InputInv
<1>5. HistoryInv'
  <2>1. history'.lines = history.lines /\ history'.index = -1
    BY <1>1, <1>2 DEF HistoryInv
  <2>2. history' \in [lines : Seq(Seq(Bytes)), index : Int]
    <3>1. PICK i \in Int : i = -1
      OBVIOUS
    <3>2. history' = [history EXCEPT !.index = i]
      BY <1>2, <3>1
    <3> QED BY <1>1, <3>1, <3>2 DEF HistoryInv
  <2>3. history.lines \in Seq(Seq(Bytes))
    BY <1>1 DEF HistoryInv
  <2>4. -1 < Len(history.lines)
    BY <2>3
  <2> QED BY <1>1, <2>1, <2>2, <2>4 DEF HistoryInv
<1> QED BY <1>3, <1>4, <1>5 DEF BufferInv

\* What the loop prints and streams goes to the buffer.
LEMMA OutputKeeps ==
  ASSUME BufferInv,
         \/ \E name \in {"tui on", "tui off", "clear", "exit", "message"} : Command(name)
         \/ \E newline \in BOOLEAN : Stream(newline)
         \/ PrintTasks \/ Finish
  PROVE  BufferInv'
<1>1. ScreenInv /\ InputInv /\ HistoryInv /\ Good(screen, pieces) /\ pieces \in Nat
  BY DEF BufferInv, ScreenInv, StreamKept, Good
<1>2. UNCHANGED <<input, history>>
  BY DEF Command, Stream, PrintTasks, Finish
<1>3. ASSUME Good(screen', pieces'), pieces' \in Nat
      PROVE  BufferInv'
  BY <1>1, <1>2, <1>3 DEF BufferInv, ScreenInv, StreamKept, Good, InputInv, HistoryInv
<1>4. Good(print(screen), pieces) /\ Good(PrintIfEnabled(screen), pieces)
  BY <1>1, PrintKeeps, Zenon DEF PrintIfEnabled
<1>5. CASE \E name \in {"tui on", "tui off", "clear", "exit", "message"} : Command(name)
  <2>1. PICK name \in {"tui on", "tui off", "clear", "exit", "message"} : Command(name)
    BY <1>5
  <2>2. screen' \in {print(screen), PrintIfEnabled(screen), screen} /\ pieces' = pieces
    BY <2>1 DEF Command
  <2> QED BY <1>1, <1>3, <1>4, <2>2
<1>6. CASE \E newline \in BOOLEAN : Stream(newline)
  <2>1. PICK newline \in BOOLEAN : Stream(newline)
    BY <1>6
  <2>2. CASE ~tui.enabled
    <3>1. screen' = screen /\ pieces' = pieces
      BY <2>1, <2>2 DEF Stream
    <3> QED BY <1>1, <1>3, <3>1
  <2>3. CASE tui.enabled /\ newline = TRUE
    <3>1. screen' = print_stream(screen, TRUE) /\ pieces' = pieces
      BY <2>1, <2>3 DEF Stream
    <3> QED BY <1>1, <1>3, <3>1, StreamKeeps
  <2>4. CASE tui.enabled /\ newline = FALSE
    <3>1. screen' = print_stream(screen, FALSE) /\ pieces' = pieces + 1
      BY <2>1, <2>4 DEF Stream
    <3>2. Good(print_stream(screen, FALSE), pieces + 1) /\ pieces + 1 \in Nat
      BY <1>1, StreamKeeps, Zenon
    <3>3. Good(screen', pieces') /\ pieces' \in Nat
      BY <3>1, <3>2, Zenon
    <3> QED BY <1>3, <3>3
  <2> QED BY <2>2, <2>3, <2>4
<1>7. CASE PrintTasks
  BY <1>1, <1>3, <1>4, <1>7 DEF PrintTasks
<1>8. CASE Finish
  <2>1. Good(flush_stream(screen), pieces)
    BY <1>1, FlushKeeps
  <2>2. screen' \in {flush_stream(screen), screen} /\ pieces' = pieces
    BY <1>8, Zenon DEF Finish
  <2> QED BY <1>1, <1>3, <2>1, <2>2
<1> QED BY <1>5, <1>6, <1>7, <1>8

\* Every step keeps the buffer, the line and the history.
LEMMA StepKeepsBuffer ==
  ASSUME BufferInv, [Next]_vars
  PROVE  BufferInv'
<1>1. ASSUME UNCHANGED <<screen, input, history, pieces>>
      PROVE  BufferInv'
  BY <1>1 DEF BufferInv, ScreenInv, StreamKept, InputInv, HistoryInv
<1>2. CASE UNCHANGED vars
  BY <1>1, <1>2 DEF vars
<1>3. CASE \/ ConsoleInit \/ (\E isatty \in BOOLEAN : TuiInit(isatty)) \/ Load
           \/ TuiCleanup \/ ConsoleCleanup \/ ConsoleLine \/ EndOfInput \/ CommandInterrupted
           \/ StreamError \/ EndRound \/ Ask \/ Answer \/ NextRound \/ Interrupt
  BY <1>1, <1>3 DEF ConsoleInit, TuiInit, Load, TuiCleanup, ConsoleCleanup, ConsoleLine,
                    EndOfInput, CommandInterrupted, StreamError, EndRound, Ask, Answer,
                    NextRound, Interrupt
<1> QED BY <1>2, <1>3, KeyKeeps, BeginKeeps, OutputKeeps DEF Next

\* The buffer is empty at first, and so are the line and the history.
LEMMA BufferHolds == Spec => []BufferInv
<1>1. ASSUME Init PROVE BufferInv
  <2>1. /\ screen = [lines |-> << >>, cur |-> << >>, streaming |-> FALSE, scroll |-> 0]
        /\ input = [text |-> << >>, pos |-> 0] /\ history = [lines |-> << >>, index |-> -1]
        /\ pieces = 0
        /\ MaxInput \in Nat /\ MaxScroll \in Nat /\ MaxLines \in Nat /\ MaxHistory \in Nat
    BY <1>1, TerminalAssumption DEF Init
  <2>2. ScreenInv
    <3>1. screen \in ScreenType /\ Len(screen.lines) <= MaxLines
      BY <2>1 DEF ScreenType, Line, Lines
    <3>2. PICK L : L = Append(<< >>, << >>)
      OBVIOUS
    <3>3. DOMAIN L = {1} /\ L[1] = << >>
      BY <3>2
    <3>4. HoldLast(L, 0)
      BY <3>3, NoPieces DEF HoldLast
    <3> QED BY <2>1, <3>1, <3>2, <3>4 DEF ScreenInv, StreamKept
  <2>3. InputInv
    BY <2>1 DEF InputInv
  <2>4. HistoryInv
    BY <2>1 DEF HistoryInv
  <2> QED BY <2>2, <2>3, <2>4 DEF BufferInv
<1>2. ASSUME BufferInv /\ [Next]_vars PROVE BufferInv'
  BY <1>2, StepKeepsBuffer
<1> QED BY <1>1, <1>2, PTL DEF Spec

\* The cursor stays inside the line and the recalled line inside the history,
\* whatever keys come, and line, history and buffer keep to their limits.
THEOREM TypeCorrect == Spec => []TypeOK
<1>1. ModeInv /\ BufferInv => TypeOK
  <2> SUFFICES ASSUME ModeInv, BufferInv PROVE TypeOK
    OBVIOUS
  <2>1. /\ tty \in [mode : Modes, cursor : BOOLEAN] /\ con \in Modes
        /\ tui \in [enabled : BOOLEAN, initialized : BOOLEAN, valid : BOOLEAN,
                    suspended : BOOLEAN, saved : Modes]
    BY DEF ModeInv, TypeInv, EarlyInv, Modes
  <2>2. Len(screen.lines) <= MaxLines /\ screen.scroll \in 0 .. MaxScroll
    BY ScreenFields DEF BufferInv, ScreenInv
  <2>3. Len(input.text) <= MaxInput /\ input.pos \in 0 .. Len(input.text)
    BY DEF BufferInv, InputInv
  <2>4. Len(history.lines) <= MaxHistory /\ history.index \in -1 .. Len(history.lines) - 1
    BY DEF BufferInv, HistoryInv
  <2> QED BY <2>1, <2>2, <2>3, <2>4 DEF TypeOK
<1> QED BY <1>1, ModesHold, BufferHolds, PTL

\* The buffer and the line being built hold the last pieces of what was streamed,
\* in their order, whatever is printed between them, committed, dropped at the limit
\* or cleared.
THEOREM StreamAlwaysKept == Spec => []StreamKept
<1>1. BufferInv => StreamKept
  BY DEF BufferInv, ScreenInv
<1> QED BY <1>1, BufferHolds, PTL
=============================================================================
