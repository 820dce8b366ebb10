------------------------------ MODULE Terminal ------------------------------
(***************************************************************************)
(* The terminal of lmcode: the modes it is put in and given back from      *)
(* (common/console.cpp, tools/lmcode/cli_tui.cpp), the output buffer with  *)
(* the line that is being streamed (output_buffer.cpp), and the input line *)
(* with its history.  The chat loop of cli.cpp is kept as far as it calls  *)
(* these.  Drawing is left out: what render shows is a function of this    *)
(* state.                                                                  *)
(***************************************************************************)
EXTENDS Integers, Sequences, SequencesExt

CONSTANTS SimpleIo,     \* --simple-io
          Chars,        \* the characters of the keyboard, each its bytes
          MaxInput,     \* 4096 bytes of input
          MaxHistory,   \* MAX_HISTORY
          MaxLines,     \* MAX_BUFFER_LINES
          Rows,         \* the rows of the text area
          Page,         \* a page of scrolling
          MaxScroll,    \* 1000
          MaxPieces     \* bound: pieces of text the model streams

ASSUME TerminalAssumption ==
  /\ SimpleIo \in BOOLEAN
  /\ MaxHistory \in Nat \ {0} /\ MaxLines \in Nat \ {0}
  /\ {MaxInput, Rows, Page, MaxScroll, MaxPieces} \subseteq Nat
  /\ \A c \in Chars : c \in Seq(UNION {{d[i] : i \in DOMAIN d} : d \in Chars})

VARIABLES
  pc,           \* where the chat loop is
  tty,          \* the terminal: line discipline and cursor
  con,          \* console: the mode it will restore
  tui,          \* g_enabled, g_initialized, g_term_valid, g_suspended, g_initial_state
  screen,       \* lines_, g_stream_current_line, g_streaming, g_scroll_offset
  input,        \* g_input_buffer, g_cursor_pos
  history,      \* g_input_history, g_history_index
  interrupted,  \* g_is_interrupted
  pieces        \* the pieces of text streamed so far

vars == <<pc, tty, con, tui, screen, input, history, interrupted, pieces>>

Modes == {"cooked", "raw"}

\* A printed line; a streamed line is the sequence of its pieces, by number.
Printed == <<0>>

(***************************************************************************)
(* Output                                                                  *)
(***************************************************************************)
push_line(s, line) ==
  LET all == Append(s.lines, line)
  IN  [s EXCEPT !.lines = IF Len(all) > MaxLines THEN Tail(all) ELSE all]

print(s) == push_line(s, Printed)

\* A command's answer and the task tree are printed to the buffer only if the
\* interface is on.
PrintIfEnabled(s) == IF tui.enabled THEN print(s) ELSE s

\* Mutant of flush_stream: the partial line is pushed and not cleared.
flush_stream_keeps(s) ==
  [(IF s.cur # << >> THEN push_line(s, s.cur) ELSE s) EXCEPT !.streaming = FALSE]

flush_stream(s) ==
  [(IF s.cur # << >> THEN push_line(s, s.cur) ELSE s)
     EXCEPT !.cur = << >>, !.streaming = FALSE]

print_stream(s, newline) ==
  [(IF newline THEN [push_line(s, s.cur) EXCEPT !.cur = << >>]
               ELSE [s EXCEPT !.cur = Append(@, pieces + 1)])
     EXCEPT !.streaming = TRUE]

scroll_output(s, n) ==
  [s EXCEPT !.scroll = IF @ + n < 0 THEN 0 ELSE IF @ + n > MaxScroll THEN MaxScroll ELSE @ + n]

\* The first row that render shows, counted from 0, one row a line.
FirstRow(s) ==
  LET total == Len(s.lines) + (IF s.streaming /\ s.cur # << >> THEN 1 ELSE 0)
      first == total - Rows - s.scroll
  IN  IF first < 0 THEN 0 ELSE first

(***************************************************************************)
(* Modes                                                                   *)
(***************************************************************************)
TuiMode == [mode |-> "raw", cursor |-> FALSE]

\* console::init
ConsoleInit ==
  /\ pc = "start"
  /\ con' = tty.mode
  /\ tty' = IF SimpleIo THEN tty ELSE [tty EXCEPT !.mode = "raw"]
  /\ pc' = "console"
  /\ UNCHANGED <<tui, screen, input, history, interrupted, pieces>>

\* cli_tui::init; the interface is off at first.  The output may be no
\* terminal.
TuiInit(isatty) ==
  /\ pc = "console"
  /\ tui' = [tui EXCEPT !.initialized = TRUE, !.valid = isatty, !.saved = tty.mode]
  /\ pc' = "loading"
  /\ UNCHANGED <<tty, con, screen, input, history, interrupted, pieces>>

\* The model is loaded, or it cannot be.
Load ==
  /\ pc = "loading"
  /\ pc' \in {"prompt", "exit"}
  /\ UNCHANGED <<tty, con, tui, screen, input, history, interrupted, pieces>>

enable ==
  IF ~tui.initialized \/ ~tui.valid \/ tui.enabled
  THEN UNCHANGED <<tty, tui>>
  ELSE tui' = [tui EXCEPT !.enabled = TRUE] /\ tty' = TuiMode

disable ==
  IF ~tui.initialized \/ ~tui.enabled
  THEN UNCHANGED <<tty, tui>>
  ELSE /\ tui' = [tui EXCEPT !.enabled = FALSE]
       /\ tty' = [mode |-> IF tui.valid THEN tui.saved ELSE tty.mode, cursor |-> TRUE]

suspend ==
  IF ~tui.initialized \/ ~tui.valid \/ tui.suspended
  THEN UNCHANGED <<tty, tui>>
  ELSE /\ tui' = [tui EXCEPT !.suspended = TRUE]
       /\ tty' = [mode |-> tui.saved, cursor |-> TRUE]

\* Mutant of resume: the terminal is left as the confirmation had it.
resume_unchanged ==
  tui' = [tui EXCEPT !.suspended = FALSE] /\ UNCHANGED tty

resume ==
  IF ~tui.initialized \/ ~tui.valid \/ ~tui.suspended
  THEN UNCHANGED <<tty, tui>>
  ELSE tui' = [tui EXCEPT !.suspended = FALSE] /\ tty' = TuiMode

\* The handlers of atexit, last registered first: cli_tui::cleanup ...
TuiCleanup ==
  /\ pc = "exit"
  /\ tty' = IF tui.initialized
            THEN [mode |-> IF tui.valid THEN tui.saved ELSE tty.mode, cursor |-> TRUE]
            ELSE tty
  /\ tui' = [tui EXCEPT !.enabled = FALSE, !.initialized = FALSE, !.suspended = FALSE]
  /\ pc' = "exit_console"
  /\ UNCHANGED <<con, screen, input, history, interrupted, pieces>>

\* Mutant of ConsoleCleanup: the mode that was saved is not restored.
ConsoleCleanupKeeps ==
  /\ pc = "exit_console"
  /\ pc' = "gone"
  /\ UNCHANGED <<tty, con, tui, screen, input, history, interrupted, pieces>>

\* ... and console::cleanup.
ConsoleCleanup ==
  /\ pc = "exit_console"
  /\ tty' = IF SimpleIo THEN tty ELSE [tty EXCEPT !.mode = con]
  /\ pc' = "gone"
  /\ UNCHANGED <<con, tui, screen, input, history, interrupted, pieces>>

(***************************************************************************)
(* The input line.  Positions count bytes from 0.                          *)
(***************************************************************************)
\* read_input begins.
BeginRead ==
  /\ pc = "prompt" /\ tui.enabled
  /\ pc' = "reading"
  /\ input' = [text |-> << >>, pos |-> 0]
  /\ history' = [history EXCEPT !.index = -1]
  /\ screen' = [screen EXCEPT !.scroll = 0]
  /\ UNCHANGED <<tty, con, tui, interrupted, pieces>>

Edit(new) ==
  /\ pc = "reading"
  /\ input' = new
  /\ UNCHANGED <<pc, tty, con, tui, screen, history, interrupted, pieces>>

\* Bytes beyond the limit are dropped, one by one.
Insert(bytes) ==
  LET room == IF MaxInput > Len(input.text) THEN MaxInput - Len(input.text) ELSE 0
      n == IF Len(bytes) < room THEN Len(bytes) ELSE room
      old == input.text
  IN  [text |-> SubSeq(old, 1, input.pos) \o SubSeq(bytes, 1, n)
                  \o SubSeq(old, input.pos + 1, Len(old)),
       pos |-> input.pos + n]

Type(c) == Edit(Insert(c))

Backspace ==
  /\ input.pos > 0
  /\ Edit([text |-> RemoveAt(input.text, input.pos), pos |-> input.pos - 1])

\* At the end of the line the last byte of the key is taken for a character.
Delete ==
  \/ /\ input.pos < Len(input.text)
     /\ Edit([input EXCEPT !.text = RemoveAt(@, input.pos + 1)])
  \/ /\ input.pos = Len(input.text)
     /\ Edit(Insert(<<"~">>))

Left  == input.pos > 0 /\ Edit([input EXCEPT !.pos = @ - 1])
Right == input.pos < Len(input.text) /\ Edit([input EXCEPT !.pos = @ + 1])

Recall(i) ==
  /\ pc = "reading"
  /\ history' = [history EXCEPT !.index = i]
  /\ LET text == IF i = -1 THEN << >> ELSE history.lines[i + 1]
     IN  input' = [text |-> text, pos |-> Len(text)]
  /\ UNCHANGED <<pc, tty, con, tui, screen, interrupted, pieces>>

\* Mutant of Down: it does not stop at the newest line.
DownNoEnd ==
  /\ history.index >= 0
  /\ history' = [history EXCEPT !.index = @ + 1]
  /\ pc = "reading"
  /\ UNCHANGED <<pc, tty, con, tui, screen, input, interrupted, pieces>>

Up ==
  \/ history.index < 0 /\ history.lines # << >> /\ Recall(Len(history.lines) - 1)
  \/ history.index > 0 /\ Recall(history.index - 1)

Down ==
  /\ history.index >= 0
  /\ Recall(IF history.index + 1 >= Len(history.lines) THEN -1 ELSE history.index + 1)

Scroll(n) ==
  /\ pc = "reading"
  /\ screen' = scroll_output(screen, n)
  /\ UNCHANGED <<pc, tty, con, tui, input, history, interrupted, pieces>>

PageUp   == Scroll(-Page)
PageDown == Scroll(Page)

\* Ctrl-L
ClearScreen ==
  /\ pc = "reading"
  /\ screen' = [screen EXCEPT !.lines = << >>, !.scroll = 0]
  /\ UNCHANGED <<pc, tty, con, tui, input, history, interrupted, pieces>>

Remember(line) ==
  LET old == history.lines
      new == Append(old, line)
  IN  IF line = << >> \/ (old # << >> /\ Last(old) = line) THEN history
      ELSE [history EXCEPT !.lines = IF Len(new) > MaxHistory THEN Tail(new) ELSE new]

Enter ==
  /\ pc = "reading"
  /\ history' = Remember(input.text)
  /\ pc' = "command"
  /\ UNCHANGED <<tty, con, tui, screen, input, interrupted, pieces>>

\* console::readline, with an interface and a history of its own.
ConsoleLine ==
  /\ pc = "prompt" /\ ~tui.enabled
  /\ pc' = "command"
  /\ UNCHANGED <<tty, con, tui, screen, input, history, interrupted, pieces>>

EndOfInput ==
  /\ pc = "reading" \/ (pc = "prompt" /\ ~tui.enabled)
  /\ pc' = "exit"
  /\ UNCHANGED <<tty, con, tui, screen, input, history, interrupted, pieces>>

(***************************************************************************)
(* The chat loop                                                           *)
(***************************************************************************)
Command(name) ==
  /\ pc = "command" /\ ~interrupted
  /\ CASE name = "tui on"  -> enable
       [] name = "tui off" -> disable
       [] OTHER            -> UNCHANGED <<tty, tui>>
  /\ screen' = CASE name = "tui on" /\ tui.initialized /\ tui.valid -> print(screen)
                 [] name = "clear" -> PrintIfEnabled(screen)
                 [] OTHER -> screen
  /\ pc' = CASE name = "exit" -> "exit" [] name = "message" -> "running" [] OTHER -> "prompt"
  /\ UNCHANGED <<con, input, history, interrupted, pieces>>

\* An interrupt that came before the line was read ends the loop.
CommandInterrupted ==
  /\ pc = "command" /\ interrupted
  /\ interrupted' = FALSE
  /\ pc' = "exit"
  /\ UNCHANGED <<tty, con, tui, screen, input, history, pieces>>

\* A piece of text, or a newline, of the answer.
Stream(newline) ==
  /\ pc = "running" /\ ~interrupted /\ pieces < MaxPieces
  /\ screen' = IF tui.enabled THEN print_stream(screen, newline) ELSE screen
  /\ pieces' = IF newline \/ ~tui.enabled THEN pieces ELSE pieces + 1
  /\ UNCHANGED <<pc, tty, con, tui, input, history, interrupted>>

\* An error result: generate_completion returns at once.
StreamError ==
  /\ pc = "running" /\ ~interrupted
  /\ pc' = "prompt"
  /\ UNCHANGED <<tty, con, tui, screen, input, history, interrupted, pieces>>

EndRound ==
  /\ pc = "running"
  /\ interrupted' = FALSE
  /\ pc' = "tools"
  /\ UNCHANGED <<tty, con, tui, screen, input, history, pieces>>

\* A tool that changes the tasks; a tool that is confirmed first.
PrintTasks ==
  /\ pc = "tools"
  /\ screen' = PrintIfEnabled(screen)
  /\ UNCHANGED <<pc, tty, con, tui, input, history, interrupted, pieces>>

Ask ==
  /\ pc = "tools"
  /\ suspend
  /\ pc' = "asking"
  /\ UNCHANGED <<con, screen, input, history, interrupted, pieces>>

Answer ==
  /\ pc = "asking"
  /\ resume
  /\ pc' = "tools"
  /\ UNCHANGED <<con, screen, input, history, interrupted, pieces>>

NextRound ==
  /\ pc = "tools"
  /\ pc' = "running"
  /\ UNCHANGED <<tty, con, tui, screen, input, history, interrupted, pieces>>

Finish ==
  /\ pc = "tools"
  /\ screen' = IF tui.enabled THEN flush_stream(screen) ELSE screen
  /\ pc' = "prompt"
  /\ UNCHANGED <<tty, con, tui, input, history, interrupted, pieces>>

\* SIGINT or SIGTERM: the second one exits; a read that it breaks off counts
\* as the end of the input.
Interrupt ==
  /\ pc \notin {"start", "console", "exit", "exit_console", "gone"}
  /\ IF interrupted \/ pc = "reading"
     THEN pc' = "exit" /\ UNCHANGED interrupted
     ELSE interrupted' = TRUE /\ UNCHANGED pc
  /\ UNCHANGED <<tty, con, tui, screen, input, history, pieces>>

Init ==
  /\ pc = "start" /\ interrupted = FALSE /\ pieces = 0
  /\ tty = [mode |-> "cooked", cursor |-> TRUE] /\ con = "cooked"
  /\ tui = [enabled |-> FALSE, initialized |-> FALSE, valid |-> FALSE, suspended |-> FALSE,
            saved |-> "cooked"]
  /\ screen = [lines |-> << >>, cur |-> << >>, streaming |-> FALSE, scroll |-> 0]
  /\ input = [text |-> << >>, pos |-> 0]
  /\ history = [lines |-> << >>, index |-> -1]

Key ==
  \/ \E c \in Chars : Type(c)
  \/ Backspace \/ Delete \/ Left \/ Right \/ Up \/ Down
  \/ PageUp \/ PageDown \/ ClearScreen \/ Enter

Next ==
  \/ ConsoleInit \/ \E isatty \in BOOLEAN : TuiInit(isatty) \/ Load
  \/ TuiCleanup \/ ConsoleCleanup
  \/ BeginRead \/ Key \/ ConsoleLine \/ EndOfInput
  \/ \E name \in {"tui on", "tui off", "clear", "exit", "message"} : Command(name)
  \/ CommandInterrupted
  \/ \E newline \in BOOLEAN : Stream(newline)
  \/ StreamError \/ EndRound \/ PrintTasks \/ Ask \/ Answer \/ NextRound \/ Finish
  \/ Interrupt

Spec == Init /\ [][Next]_vars

-----------------------------------------------------------------------------
(***************************************************************************)
(* Properties                                                              *)
(***************************************************************************)
\* The cursor stays inside the input line and the history index inside the
\* history, whatever keys come, also at the limits of both.
TypeOK ==
  /\ tty \in [mode : Modes, cursor : BOOLEAN] /\ con \in Modes
  /\ tui \in [enabled : BOOLEAN, initialized : BOOLEAN, valid : BOOLEAN, suspended : BOOLEAN,
              saved : Modes]
  /\ Len(screen.lines) <= MaxLines /\ screen.scroll \in 0 .. MaxScroll
  /\ Len(input.text) <= MaxInput /\ input.pos \in 0 .. Len(input.text)
  /\ Len(history.lines) <= MaxHistory
  /\ history.index \in -1 .. Len(history.lines) - 1

\* However the program ends, the shell gets its terminal back as it was.
TerminalGivenBack == pc = "gone" => tty = [mode |-> "cooked", cursor |-> TRUE]

\* read_input takes bytes one by one, and draws its own cursor: it never runs
\* in a terminal that collects and echoes lines, whatever confirmations came
\* before.
ReadsRaw == pc = "reading" => tty = TuiMode /\ ~tui.suspended

PiecesOf(line) == {line[i] : i \in DOMAIN line} \ {0}

\* The lines L hold the last of n pieces: each line is in order, a line comes after
\* the lines above it, and no piece is missing between the first one there and the
\* n-th.
HoldLast(L, n) ==
  /\ \A k \in DOMAIN L : \A i, j \in DOMAIN L[k] : i < j => L[k][i] < L[k][j]
  /\ \A k, l \in DOMAIN L : k < l =>
       \A x \in PiecesOf(L[k]), y \in PiecesOf(L[l]) : x < y
  /\ \A k \in DOMAIN L : \A x \in PiecesOf(L[k]) :
       x \in 1 .. n /\ \A y \in x .. n : \E l \in DOMAIN L : y \in PiecesOf(L[l])

\* No piece of an answer is lost, doubled or put out of order: the buffer and
\* the line being built hold the last ones, all of them unless lines were
\* dropped at the limit or by Ctrl-L.
StreamKept == HoldLast(Append(screen.lines, screen.cur), pieces)

-----------------------------------------------------------------------------
(* What comments say, and the code does not do. *)

\* "Restore terminal to normal cooked mode with echo" (cli_tui.cpp, suspend): a
\* confirmation for which the interface was suspended, in a real terminal, is
\* read from a terminal that collects and echoes lines.
AskedWithEcho == pc = "asking" /\ tui.suspended => tty.mode = "cooked"

\* "Disabled by default - use /tui on to enable": as long as the interface is
\* off, the console has the terminal as console::init left it.
ConsoleUntouched ==
  pc = "prompt" /\ ~tui.enabled =>
    tty = [mode |-> IF SimpleIo THEN "cooked" ELSE "raw", cursor |-> TRUE]

\* "Page Up/Down -> scroll output", "positive = down, negative = up": Page Up
\* shows earlier rows if there are any.
PageUpShowsEarlier == [][PageUp /\ FirstRow(screen) > 0 => FirstRow(screen') < FirstRow(screen)]_vars

Whole(s) ==
  \A i \in DOMAIN s : /\ s[i] = "lead" => i < Len(s) /\ s[i + 1] = "cont"
                      /\ s[i] = "cont" => i > 1 /\ s[i - 1] = "lead"

\* "Accept UTF-8 multi-byte": a line that is entered is made of whole
\* characters.
WholeCharacters == pc = "command" => Whole(input.text)

\* "flush_stream commits whatever partial line is still in the buffer": none
\* is left when the user is asked for the next input.
NothingLeftOver == pc = "reading" => screen.cur = << >>
=============================================================================
