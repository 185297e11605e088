--------------------------- MODULE InteractiveLoop ---------------------------
(***************************************************************************)
(* `rupi interactive` (src/src/interactive.rs) over an open session        *)
(* (SessionHandle, src/src/run.rs): one loop that reads keys from a raw    *)
(* terminal, draws a frame at the bottom of the screen, hands the screen   *)
(* and the terminal to the runtime for the length of a turn, and closes    *)
(* the session when the user leaves.                                       *)
(*                                                                         *)
(* The user is a process of its own: a key is put in the terminal while    *)
(* the program is anywhere, and Ctrl-C is a key while the terminal is raw  *)
(* and a signal while it is not.                                           *)
(*                                                                         *)
(* The screen is a sequence of line owners. The turn, the commands behind  *)
(* the notes and the durable store are modelled elsewhere; here a turn     *)
(* prints lines and ends one way or the other.                             *)
(***************************************************************************)
EXTENDS Integers, Sequences, SequencesExt, FiniteSets

CONSTANTS Drafts,         \* buffers: the units of text on each line
          Widths,         \* units one row of the editor can hold
          MaxTyped,       \* keys waiting in the terminal at most
          MaxTurns,       \* turns of one session
          MaxLines        \* lines on the screen

Keys == {"edit", "enter", "ctrl_c"}
Causes == {"done", "cancelled", "budget", "failed", "sink"}
Points == {"reading", "handed", "armed", "running", "ended", "disarmed",
           "failing", "noting", "leaving", "gone"}

VARIABLES
  raw,          \* the terminal is in raw mode
  hook,         \* the panic hook that leaves raw mode is installed
  screen,       \* owners of the lines written so far, top to bottom
  row,          \* the line the cursor is on
  above,        \* Loop::above
  draft,        \* the buffer
  width,        \* Loop::columns, as units of text in a row
  at,           \* where the loop is
  working,      \* Loop::state is TurnState::Working
  token,        \* the number of the loop's cancel token
  spent,        \* tokens that were cancelled
  flag,         \* the token ACTIVE_FLAG points to, 0 for none
  handler,      \* our SIGINT handler is installed
  turn,         \* how the turn under way ended
  turns,        \* Loop::turns
  begun,        \* turns started
  typed,        \* keys waiting in the terminal
  session,      \* "open", or the reason it was closed for
  printed,      \* lines the turns printed
  noted,        \* lines of notes
  pressed,      \* tokens of the turns the user interrupted while they ran
  exit          \* how the process went, "" while it runs

vars == <<raw, hook, screen, row, above, draft, width, at, working, token, spent,
          flag, handler, turn, turns, begun, typed, session, printed, noted, pressed, exit>>

terminal == <<raw, hook>>
picture == <<screen, row, above>>
cancel == <<token, spent, flag, handler, pressed>>
counted == <<turns, begun, printed, noted>>

-----------------------------------------------------------------------------
(* The frame: the rows of the buffer and one status line, the caret parked *)
(* on its own row.                                                         *)

\* line_rows of one line of narrow text; an empty line is one empty row
LineRows(units, w) == IF units = 0 THEN 1 ELSE (units + w - 1) \div w

\* buffer_rows
Rows(d, w) == FoldLeft(LAMBDA sum, units : sum + LineRows(units, w), 0, d)

Empty == <<0>>

FrameLines(d, w) == [i \in 1 .. Rows(d, w) + 1 |-> "frame"]

\* What is left of the screen when it is cleared from line r down
ClearedFrom(s, r) == SubSeq(s, 1, r - 1)

\* Loop::erase: up to the row the frame starts on, and everything from there
ErasedAt == IF row - above < 1 THEN 1 ELSE row - above

\* Loop::draw, the caret on row `caret` of draft d in rows of w
DrawnAt(d, w, caret) ==
  /\ screen' = ClearedFrom(screen, ErasedAt) \o FrameLines(d, w)
  /\ row' = ErasedAt + caret
  /\ above' = caret

\* The caret is wherever the edits left it
Drawn(d, w) == \E caret \in 0 .. Rows(d, w) - 1 : DrawnAt(d, w, caret)

\* write_line, n times from the cursor's line, over what is there
WrittenOver(s, r, n, owner) ==
  [i \in 1 .. IF r + n - 1 > Len(s) THEN r + n - 1 ELSE Len(s) |->
     IF i \in r .. r + n - 1 THEN owner ELSE s[i]]

-----------------------------------------------------------------------------
(* Opening: the session is open before the terminal is made raw, and the   *)
(* panic hook is installed with it; the first frame is drawn.              *)

Init ==
  /\ raw = TRUE /\ hook = TRUE
  /\ width \in Widths
  /\ screen = FrameLines(Empty, width) /\ row = 1 /\ above = 0
  /\ draft = Empty /\ at = "reading" /\ working = FALSE
  /\ token = 1 /\ spent = {} /\ flag = 0 /\ handler = FALSE
  /\ turn = "" /\ turns = 0 /\ begun = 0
  /\ typed = <<>> /\ session = "open" /\ printed = 0 /\ noted = 0
  /\ pressed = {} /\ exit = ""

Room == Len(screen) < MaxLines

-----------------------------------------------------------------------------
(* The user                                                                *)

\* A key goes into the terminal's input. In raw mode Ctrl-C is one of them.
Type(key) ==
  /\ at # "gone" /\ Len(typed) < MaxTyped
  /\ key = "ctrl_c" => raw
  /\ typed' = Append(typed, key)
  /\ UNCHANGED <<terminal, picture, draft, width, at, working, cancel, turn, counted, session, exit>>

\* Ctrl-C while the terminal is not raw is SIGINT: sigint_handler cancels the
\* token ACTIVE_FLAG points to, and without our handler the process dies.
Interrupt ==
  /\ at # "gone" /\ ~raw
  /\ IF handler
       THEN /\ spent' = IF flag = 0 THEN spent ELSE spent \cup {flag}
            /\ pressed' = IF at \in {"armed", "running"} THEN pressed \cup {token} ELSE pressed
            /\ UNCHANGED <<at, exit, token, flag, handler>>
       ELSE /\ at' = "gone" /\ exit' = "killed"
            /\ UNCHANGED cancel
  /\ UNCHANGED <<terminal, picture, draft, width, working, turn, counted, typed, session>>

\* The terminal changes its width; the next thing the loop reads is the resize,
\* and its frame is redrawn for the new width. (How a terminal rewraps lines it
\* has shown is its own affair: the loop counts what it wrote.)
Resize(w) ==
  /\ at = "reading" /\ w # width
  /\ width' = w
  /\ Drawn(draft, w)
  /\ UNCHANGED <<terminal, draft, at, working, cancel, turn, counted, typed, session, exit>>

-----------------------------------------------------------------------------
(* Loop::run: one key                                                      *)

\* interrupt_action, for the state the loop reads the key in
InterruptAction == IF working THEN "cancel" ELSE IF draft = Empty THEN "quit" ELSE "keep"

ReadCtrlC ==
  /\ at = "reading" /\ typed # <<>> /\ Head(typed) = "ctrl_c"
  /\ typed' = Tail(typed)
  /\ at' = IF InterruptAction = "quit" THEN "leaving" ELSE at
  /\ spent' = IF InterruptAction = "cancel" THEN spent \cup {token} ELSE spent
  /\ UNCHANGED <<terminal, picture, draft, width, working, token, flag, handler, pressed,
                 turn, counted, session, exit>>

\* Editor::apply: the key changes the text or the caret and the frame is redrawn,
\* or it reports that nothing moved
ReadEdit ==
  /\ at = "reading" /\ typed # <<>> /\ Head(typed) = "edit"
  /\ typed' = Tail(typed)
  /\ \/ draft' \in Drafts /\ Drawn(draft', width)
     \/ UNCHANGED <<draft, picture>>
  /\ UNCHANGED <<terminal, width, at, working, cancel, turn, counted, session, exit>>

Entered ==
  /\ at = "reading" /\ typed # <<>> /\ Head(typed) = "enter"
  /\ typed' = Tail(typed)

\* Enter on a buffer of nothing but white changes nothing
EnterNothing ==
  /\ Entered
  /\ UNCHANGED <<terminal, picture, draft, width, at, working, cancel, turn, counted, session, exit>>

\* A prompt, or a template that expands to one: the buffer is taken, and hand_over
\* erases the frame, says "working" and leaves the line to the turn
EnterPrompt ==
  /\ Entered /\ draft # Empty
  /\ begun < MaxTurns /\ Room
  /\ draft' = Empty /\ working' = TRUE
  /\ screen' = Append(ClearedFrom(screen, ErasedAt), "status")
  /\ row' = ErasedAt + 1 /\ above' = 0
  /\ begun' = begun + 1 /\ turn' = ""
  /\ at' = "handed"
  /\ UNCHANGED <<terminal, width, cancel, turns, printed, noted, session, exit>>

\* A slash command the loop answers itself, known or not: the buffer is empty from
\* here on. /quit leaves; the others write a note, for which raw mode is left.
EnterCommand(quits) ==
  /\ Entered /\ draft # Empty
  /\ draft' = Empty
  /\ IF quits THEN at' = "leaving" /\ raw' = raw
              ELSE at' = "noting" /\ raw' = FALSE /\ Room
  /\ UNCHANGED <<hook, picture, width, working, cancel, turn, counted, session, exit>>

\* A command that reaches the session (a compaction, a listing, a change of model)
\* finds the durable log gone: the loop returns with the error
CommandFails ==
  /\ Entered /\ draft # Empty
  /\ draft' = Empty
  /\ turn' = "sink" /\ at' = "failing"
  /\ UNCHANGED <<terminal, picture, width, working, cancel, counted, session, exit>>

NoteFrom == row

\* write_note writes n lines from where the cursor is, in the frame that is still on
\* the screen, takes raw mode back and redraws: the erase goes up `above` lines
WriteNote(n) ==
  /\ at = "noting"
  /\ LET over == WrittenOver(screen, NoteFrom, n, "note")
         start == IF NoteFrom + n - above < 1 THEN 1 ELSE NoteFrom + n - above IN
       /\ screen' = ClearedFrom(over, start) \o FrameLines(Empty, width)
       /\ row' = start
  /\ above' = 0 /\ raw' = TRUE
  /\ noted' = noted + n
  /\ at' = "reading"
  /\ UNCHANGED <<hook, draft, width, working, cancel, turn, turns, begun, printed,
                 typed, session, exit>>

-----------------------------------------------------------------------------
(* Loop::turn                                                              *)

\* disable_raw_mode, then TurnInterruptGuard::install: the flag first
Arm ==
  /\ at = "handed"
  /\ IF raw THEN raw' = FALSE /\ UNCHANGED <<flag, handler, at>>
     ELSE IF flag = 0 THEN flag' = token /\ UNCHANGED <<raw, handler, at>>
     ELSE handler' = TRUE /\ at' = "armed" /\ UNCHANGED <<raw, flag>>
  /\ UNCHANGED <<hook, picture, draft, width, working, token, spent, pressed, turn,
                 counted, typed, session, exit>>

\* run_turn starts: a token that is already spent ends it before it says a word
Start ==
  /\ at = "armed"
  /\ at' = "running"
  /\ UNCHANGED <<terminal, picture, draft, width, working, cancel, turn, counted, typed,
                 session, exit>>

\* The turn writes a line of its own
PrintLine ==
  /\ at = "running" /\ turn = "" /\ Room
  /\ screen' = WrittenOver(screen, row, 1, "turn") /\ row' = row + 1
  /\ printed' = printed + 1
  /\ UNCHANGED <<terminal, above, draft, width, at, working, cancel, turn, turns, begun,
                 noted, typed, session, exit>>

\* A mutating tool asks for approval: a line of the turn's, and the answer is read
\* from the keys that wait in the terminal (approve_mutating_tool)
AskApproval ==
  /\ at = "running" /\ turn = "" /\ Room
  /\ screen' = WrittenOver(screen, row, 1, "turn") /\ row' = row + 1
  /\ printed' = printed + 1
  /\ \E n \in 0 .. Len(typed) : typed' = SubSeq(typed, n + 1, Len(typed))
  /\ UNCHANGED <<terminal, above, draft, width, at, working, cancel, turn, turns, begun,
                 noted, session, exit>>

\* The turn ends: cancelled only when the token says so, which the turn spends itself
\* when it refuses a response or its sink fails (turn.rs:3890-3900, 3929)
TurnEnds(cause) ==
  /\ at = "running"
  /\ spent' \in {spent, spent \cup {token}}
  /\ cause = "cancelled" => token \in spent'
  /\ turn' = cause /\ at' = "ended"
  /\ UNCHANGED <<terminal, picture, draft, width, working, token, flag, handler, pressed,
                 counted, typed, session, exit>>

\* (mutant) The spent token stays for the next turn.
DisarmKeepsToken ==
  /\ at = "ended"
  /\ IF flag # 0 THEN flag' = 0 /\ UNCHANGED <<handler, token, at>>
     ELSE handler' = FALSE /\ at' = "disarmed" /\ UNCHANGED <<flag, token>>
  /\ UNCHANGED <<terminal, picture, draft, width, working, spent, pressed, turn, counted,
                 typed, session, exit>>

\* The guard is dropped, the flag first; then a fresh token takes the spent one's place
Disarm ==
  /\ at = "ended"
  /\ IF flag # 0 THEN flag' = 0 /\ UNCHANGED <<handler, token, at>>
     ELSE handler' = FALSE /\ token' = token + 1 /\ at' = "disarmed" /\ UNCHANGED flag
  /\ UNCHANGED <<terminal, picture, draft, width, working, spent, pressed, turn, counted,
                 typed, session, exit>>

\* take_line and the line about a stopped turn, then raw mode again; a turn that
\* failed ends the loop, any other gives the frame back
Finish ==
  /\ at = "disarmed" /\ Room
  /\ LET said == IF turn \in {"cancelled", "budget"} THEN 2 ELSE 1
         lines == WrittenOver(screen, row, said, "turn") IN
       /\ raw' = TRUE
       /\ printed' = printed + said
       /\ IF turn \in {"failed", "sink"}
            THEN /\ screen' = lines /\ row' = row + said /\ above' = above
                 /\ at' = "failing" /\ UNCHANGED <<turns, working>>
            ELSE /\ screen' = ClearedFrom(lines, row + said) \o FrameLines(draft, width)
                 /\ row' = row + said /\ above' = 0
                 /\ turns' = IF turn = "done" THEN turns + 1 ELSE turns
                 /\ working' = FALSE /\ at' = "reading"
  /\ UNCHANGED <<hook, draft, width, cancel, turn, begun, noted, typed, session, exit>>

-----------------------------------------------------------------------------
(* Leaving                                                                 *)

\* SessionHandle::close: the durable end of the session, for a user who left
CloseSession ==
  /\ at = "leaving" /\ session = "open"
  /\ session' = "user_exit"
  /\ UNCHANGED <<terminal, picture, draft, width, at, working, cancel, turn, counted, typed, exit>>

\* close_after_failure: a failure the session outlives gets a durable end that
\* says what happened; after a sink failure nothing can be written
CloseFailed ==
  /\ at = "failing" /\ session = "open" /\ turn = "failed"
  /\ session' = "interrupted"
  /\ UNCHANGED <<terminal, picture, draft, width, at, working, cancel, turn, counted, typed, exit>>

\* The terminal guard is dropped on the way out, and the process ends. A sink
\* error while the session is closed is what gets reported instead; once it is
\* closed, what is reported is a transcript that could not be written.
Leave ==
  /\ at \in {"leaving", "failing"}
  /\ \/ exit' = "failed"
     \/ at = "leaving" /\ session # "open" /\ exit' = "left"
  /\ raw' = FALSE /\ hook' = FALSE /\ at' = "gone"
  /\ UNCHANGED <<picture, draft, width, working, cancel, turn, counted, typed, session>>

\* Reading from, writing to or setting the terminal fails: the loop returns, and
\* the guard is dropped; nothing closes the session
TerminalFails ==
  /\ at \in {"reading", "noting", "disarmed", "handed"}
  /\ at = "handed" => raw
  /\ raw' = FALSE /\ hook' = FALSE /\ at' = "gone" /\ exit' = "failed"
  /\ UNCHANGED <<picture, draft, width, working, cancel, turn, counted, typed, session>>

\* A panic on any thread: the hook leaves raw mode before the process aborts
Panic ==
  /\ at # "gone"
  /\ raw' = IF hook THEN FALSE ELSE raw
  /\ at' = "gone" /\ exit' = "aborted"
  /\ UNCHANGED <<hook, picture, draft, width, working, cancel, turn, counted, typed, session>>

Gone == at = "gone" /\ UNCHANGED vars

Program ==
  \/ ReadCtrlC \/ ReadEdit \/ EnterNothing \/ EnterPrompt \/ CommandFails
  \/ \E quits \in BOOLEAN : EnterCommand(quits)
  \/ \E n \in 1 .. 2 : WriteNote(n)
  \/ Arm \/ Start \/ PrintLine \/ AskApproval
  \/ (\E cause \in Causes : TurnEnds(cause))
  \/ Disarm \/ Finish \/ CloseSession \/ CloseFailed \/ Leave

Next ==
  \/ Program
  \/ \E key \in Keys : Type(key)
  \/ Interrupt
  \/ \E w \in Widths : Resize(w)
  \/ TerminalFails \/ Panic \/ Gone

Spec == Init /\ [][Next]_vars

-----------------------------------------------------------------------------
(* Properties                                                              *)

TypeOK ==
  /\ raw \in BOOLEAN /\ hook \in BOOLEAN /\ working \in BOOLEAN /\ handler \in BOOLEAN
  /\ screen \in Seq({"frame", "status", "turn", "note"}) /\ row \in 1 .. Len(screen) + 1
  /\ above \in 0 .. Len(screen) /\ draft \in Drafts /\ width \in Widths
  /\ at \in Points /\ turn \in Causes \cup {""} /\ typed \in Seq(Keys)
  /\ token \in 1 .. MaxTurns + 1 /\ spent \subseteq 1 .. token /\ flag \in {0, token}
  /\ session \in {"open", "user_exit", "interrupted"}
  /\ exit \in {"", "killed", "left", "failed", "aborted"}

Owned(owner) == Cardinality({i \in 1 .. Len(screen) : screen[i] = owner})

\* Whatever the loop draws, erases, redraws after a resize or writes beside a
\* turn, every line a turn printed is still on the screen (Loop::erase: the
\* record the user came to read).
TurnOutputStays == Owned("turn") = printed

\* The frame is where the loop believes it is whenever a key is read: it is the
\* last thing on the screen, it starts `above` lines over the cursor, and it is
\* as high as the draft needs.
FrameIsCounted ==
  at = "reading" =>
    /\ Len(screen) = row - above + Rows(draft, width)
    /\ \A i \in row - above .. Len(screen) : screen[i] = "frame"

\* A turn is stopped by nothing that came before its own guard stood: no token a turn
\* starts with was spent by an interrupt of an earlier turn or by that turn itself, which
\* also spends its token when it refuses a response or loses its sink.
StopsOnlyItsOwn ==
  /\ at \in {"reading", "handed"} => token \notin spent
  /\ turn = "cancelled" /\ at = "ended" => token \in spent

\* An interrupt once a turn is armed reaches that turn, and the process outlives it.
InterruptReaches == pressed \subseteq spent

\* However the process went (left, failed, panicked or killed by a signal), the
\* terminal it leaves behind is not raw.
TerminalIsRestored == at = "gone" => ~raw

\* A key is only ever read from a raw terminal, and no handler of an earlier
\* turn is left behind to swallow the signal.
ReadsRaw == at = "reading" => raw /\ ~handler /\ flag = 0 /\ ~working

\* The session says how it ended: a user who left is the only one recorded as
\* leaving, and a process that left without a word leaves the session open for
\* recovery.
EndIsHonest ==
  /\ session = "user_exit" => at \in {"leaving", "gone"} /\ turn \notin {"failed", "sink"}
  /\ session = "interrupted" => turn = "failed"
  /\ exit = "left" => session = "user_exit"
  /\ exit = "killed" => session = "open"

=============================================================================
