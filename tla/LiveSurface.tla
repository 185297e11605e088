----------------------------- MODULE LiveSurface -----------------------------
(***************************************************************************)
(* The streaming transcript of a turn (Surface, crates/rupi-tui/src/       *)
(* live.rs): the answer goes to stdout as it arrives, everything else to   *)
(* stderr, line by line, through a filter. Reasoning is held back until a  *)
(* labelled line of it can be written.                                     *)
(*                                                                         *)
(* A text is a sequence of characters: "x" one column, "W" two, a space    *)
(* and a newline.                                                          *)
(***************************************************************************)
EXTENDS Integers, Sequences, SequencesExt, FiniteSetsExt

CONSTANTS SurfaceWidths,  \* columns of the transcript, 0 for unbounded
          Label,          \* columns of a reasoning label
          MinColumn,      \* MIN_COLUMN, below which decoration goes
          Glyphs,         \* what a delta is made of
          MaxShown,       \* characters of one reasoning block
          MaxRequest      \* the request budget of a turn

Filters == {"all", "state", "warn", "none"}
Provenances == {"raw", "summary"}
States == {"succeeded", "failed", "unknown"}

VARIABLES options,        \* TranscriptOptions
          block,          \* Surface::block
          outOpen,        \* Surface::out_open
          shown,          \* what the open reasoning block has written to stderr
          chatter,        \* the kinds of line the last event wrote, reasoning apart
          fed,            \* what the open reasoning block was given
          torn,           \* a write of the open reasoning block failed
          stalled         \* the surface never comes back from cutting a line

vars == <<options, block, outOpen, shown, chatter, fed, torn, stalled>>

NL == "nl"
ColumnsOf(text) ==
  Cardinality({i \in 1 .. Len(text) : text[i] # NL})
    + Cardinality({i \in 1 .. Len(text) : text[i] = "W"})
Unspaced(text) == SelectSeq(text, LAMBDA c : c \notin {" ", NL})
FromTo(text, a, b) == SubSeq(text, a, b)

Idle == [kind |-> "idle", provenance |-> "", pending |-> <<>>, emitted |-> FALSE]
Assistant == [Idle EXCEPT !.kind = "assistant"]
Reasoning(p) == [kind |-> "reasoning", provenance |-> p, pending |-> <<>>, emitted |-> FALSE]

-----------------------------------------------------------------------------
(* Cutting a stream into lines                                             *)

\* continuation_indent, reasoning_budget
Indent == IF options.width = 0 \/ options.width < MinColumn THEN 0
          ELSE Min({Label, IF options.width > 4 THEN options.width - 4 ELSE 0})

Budget(emitted) ==
  LET reserve == IF emitted THEN Indent ELSE Label IN
  IF options.width = 0 \/ options.width < reserve THEN 0 ELSE options.width - reserve

TrimmedEnd(text) ==
  FromTo(text, 1, Max({i \in 1 .. Len(text) : text[i] # " "} \cup {0}))

Piece(found, line, rest) == [found |-> found, line |-> line, rest |-> rest, stalls |-> FALSE]
NoPiece(rest) == Piece(FALSE, <<>>, rest)

\* take_complete: a line that ended, or as much as the width holds, at a space
\* when there is one. A piece of nothing but spaces is not a line: the head loses
\* one space and the search starts again, and with no space to lose (one glyph
\* wider than the width) it would start again for ever.
SplitAt(pending, end) ==
  Piece(TRUE, FromTo(pending, 1, end - 1), FromTo(pending, end + 1, Len(pending)))
Unled(left) == IF left # <<>> /\ Head(left) = " " THEN Tail(left) ELSE left
LastSpace(pending, fits) == Max({i \in 1 .. fits : pending[i] = " "} \cup {0})
Within(pending, width) ==
  Max({i \in 0 .. Len(pending) : ColumnsOf(FromTo(pending, 1, i)) <= width})
HeadOf(pending, fits, space) ==
  TrimmedEnd(FromTo(pending, 1, IF space > 1 THEN space - 1 ELSE fits))
Fitting(pending, fits) == HeadOf(pending, fits, LastSpace(pending, fits))

RECURSIVE TakeComplete(_, _), Taken(_, _, _, _)
TakeComplete(pending, width) ==
  IF NL \in Range(pending) THEN SplitAt(pending, Min({i \in 1 .. Len(pending) : pending[i] = NL}))
  ELSE IF width = 0 \/ ColumnsOf(pending) < width THEN NoPiece(pending)
  ELSE LET line == Fitting(pending, Within(pending, width)) IN
       Taken(pending, width, line, Unled(FromTo(pending, Len(line) + 1, Len(pending))))
Taken(pending, width, line, rest) ==
  IF line # <<>> THEN Piece(TRUE, line, rest)
  ELSE IF rest = pending THEN [NoPiece(pending) EXCEPT !.stalls = TRUE]
  ELSE TakeComplete(rest, width)

Written(p, first, text) == [kind |-> "reasoning", provenance |-> p, label |-> first, text |-> text]

\* drain_reasoning: every complete line, the first one labelled
RECURSIVE Drained(_, _), DrainedOf(_, _, _)
Drained(b, lines) == DrainedOf(b, lines, TakeComplete(b.pending, Budget(b.emitted)))
DrainedOf(b, lines, piece) ==
  IF ~piece.found THEN [block |-> [b EXCEPT !.pending = piece.rest], lines |-> lines,
                        stalls |-> piece.stalls]
  ELSE Drained([b EXCEPT !.pending = piece.rest, !.emitted = TRUE],
               Append(lines, Written(b.provenance, ~b.emitted, piece.line)))

\* close_reasoning: what is complete, then the tail; or the one line that says
\* how much was withheld
WithTail(d) ==
  IF d.block.pending = <<>> THEN d.lines
  ELSE Append(d.lines, Written(d.block.provenance, ~d.block.emitted, d.block.pending))
ClosingLines(b) ==
  IF b.kind # "reasoning" THEN <<>>
  ELSE IF options.collapse THEN <<[kind |-> "collapsed"]>>
  ELSE WithTail(Drained(b, <<>>))

-----------------------------------------------------------------------------
(* The filter                                                              *)

\* shows_news
ShowsNews(filter, routine) ==
  IF routine THEN filter \in {"all", "state"} ELSE filter # "none"

\* DiagnosticFilter::prints, for the recorded result of a tool: routine_stream
\* makes only a success routine
PrintsRecorded(filter, state) ==
  CASE filter = "none" -> FALSE
    [] filter = "warn" -> state \in {"failed", "unknown"}
    [] OTHER -> TRUE

\* budget_milestone: half, three quarters, two left and the last request
Milestone(request) ==
  request \in {MaxRequest \div 2, (MaxRequest * 3) \div 4, MaxRequest - 2, MaxRequest} \ {0}

-----------------------------------------------------------------------------
(* Surface                                                                 *)

\* close_block, then the lines: the answer's line is ended first
Say(lines) ==
  /\ ~stalled
  /\ chatter' = {line.kind : line \in Range(lines)}
  /\ block' = Idle /\ outOpen' = FALSE /\ shown' = <<>> /\ fed' = <<>> /\ torn' = FALSE
  /\ UNCHANGED <<options, stalled>>

Line(kind) == [kind |-> kind]

\* text_delta
TextDelta(ended) ==
  /\ ~stalled
  /\ block' = Assistant /\ outOpen' = ~ended /\ shown' = <<>> /\ fed' = <<>> /\ torn' = FALSE
  /\ chatter' = {}
  /\ UNCHANGED <<options, stalled>>

\* reasoning: a block of its own for each provenance. Starting one closes a
\* reasoning block that is open; an answer's open line is left open.
ReasoningDelta(text, p) ==
  /\ options.reasoning /\ ShowsNews(options.filter, TRUE)
  /\ ~stalled
  /\ LET restart == ~(block.kind = "reasoning" /\ block.provenance = p)
         open == IF restart THEN Reasoning(p) ELSE block
         d == IF options.collapse THEN [block |-> open, lines |-> <<>>, stalls |-> FALSE]
              ELSE Drained([open EXCEPT !.pending = @ \o text], <<>>) IN
       /\ Len(fed) < MaxShown \/ restart
       /\ block' = d.block
       /\ shown' = IF restart THEN d.lines ELSE shown \o d.lines
       /\ stalled' = d.stalls
       /\ fed' = IF restart THEN text ELSE fed \o text
       /\ torn' = (torn /\ ~restart)
  /\ chatter' = {}
  /\ UNCHANGED <<options, outOpen>>

UserMessage == Say(IF ShowsNews(options.filter, TRUE) THEN <<Line("user")>> ELSE <<>>)

\* tool_requested and tool_progress
ToolNews == Say(IF ShowsNews(options.filter, TRUE) THEN <<Line("tool")>> ELSE <<>>)

\* tool_finished: a success is routine, unless the policy refused it
ToolFinished(state, refused) ==
  Say(IF ShowsNews(options.filter, state = "succeeded" /\ ~refused)
        THEN <<Line(state)>> ELSE <<>>)

\* request_started_with_budget: chatter for the widest filter, milestones for
\* the others; between the milestones nothing is closed either
RequestStarted(request) ==
  IF options.filter = "all" THEN Say(<<Line("request")>>)
  ELSE /\ Milestone(request)
       /\ Say(<<Line("milestone")>>)

Finish == Say(<<>>)

\* Surface::event, for an event that is not streamed
Recorded(state) ==
  Say(IF PrintsRecorded(options.filter, state) THEN <<Line(state)>> ELSE <<>>)

\* One of the writes fails, and whoever called keeps the first such error and goes
\* on (save). close_reasoning and drain_reasoning had taken what the block held, so
\* that is gone; the answer's line counts as open as before.
WriteFails ==
  /\ ~stalled
  /\ \/ block' \in {Idle, Assistant} /\ torn' = FALSE
     \/ /\ block.kind = "reasoning" /\ ~options.collapse
        /\ block' = [block EXCEPT !.pending = <<>>] /\ torn' = TRUE
     \/ /\ options.reasoning /\ ShowsNews(options.filter, TRUE) /\ ~options.collapse
        /\ \E p \in Provenances : block' = Reasoning(p) /\ torn' = TRUE
  /\ shown' = <<>> /\ fed' = <<>> /\ chatter' = {}
  /\ UNCHANGED <<options, outOpen, stalled>>

-----------------------------------------------------------------------------
Init ==
  /\ options \in [filter : Filters, reasoning : BOOLEAN, collapse : BOOLEAN,
                  width : SurfaceWidths]
  /\ block = Idle /\ outOpen = FALSE /\ shown = <<>> /\ chatter = {} /\ fed = <<>>
  /\ torn = FALSE /\ stalled = FALSE

Next ==
  \/ \E ended \in BOOLEAN : TextDelta(ended)
  \/ \E text \in Glyphs, p \in Provenances : ReasoningDelta(text, p)
  \/ UserMessage \/ ToolNews
  \/ \E state \in States, refused \in BOOLEAN : ToolFinished(state, refused)
  \/ \E request \in 1 .. MaxRequest : RequestStarted(request)
  \/ (\E state \in States : Recorded(state))
  \/ Finish \/ WriteFails

Spec == Init /\ [][Next]_vars

-----------------------------------------------------------------------------
(* Properties                                                              *)

TypeOK ==
  /\ options.filter \in Filters /\ options.width \in SurfaceWidths
  /\ block.kind \in {"idle", "assistant", "reasoning"}
  /\ outOpen \in BOOLEAN /\ torn \in BOOLEAN /\ fed \in Seq({"x", "W", " ", NL})

\* The lines of the open reasoning block, when it is closed here
OwnLines == shown \o ClosingLines(block)
TextOf(lines) == FlattenSeq([i \in 1 .. Len(lines) |-> lines[i].text])

\* An open block whose lines all went out
Open == block.kind = "reasoning" /\ ~options.collapse /\ ~stalled /\ ~torn

\* No part of a thought is lost or held twice: what a block was given is what it
\* has written when it is closed, spaces at the breaks apart (close_reasoning,
\* take_complete).
ThoughtIsWhole == Open => Unspaced(TextOf(OwnLines)) = Unspaced(fed)

\* What a block writes is written under its own label: one label, on the first
\* line, and one provenance to a block.
Labelled(lines) ==
  \A i \in 1 .. Len(lines) :
    lines[i].provenance = block.provenance /\ lines[i].label = (i = 1)
ThoughtIsLabelled == Open => Labelled(OwnLines)

\* A streamed line and the label or indent before it fit the width, unless a single
\* glyph does not fit there; and a block never holds back a line's worth of text.
Fits(first, text) ==
  LET before == IF first THEN Label ELSE Indent IN
  options.width > before + 1 => before + ColumnsOf(text) <= options.width

ThoughtFits ==
  Open =>
    /\ \A i \in 1 .. Len(shown) : Fits(shown[i].label, shown[i].text)
    /\ Fits(~block.emitted, block.pending)

\* "The live surface and the recorded trace must agree line for line": a tool
\* result that ran as asked is shown live exactly when the trace shows it
\* (DiagnosticFilter::prints, transcript.rs:132).
ViewsAgree ==
  \A state \in States :
    ShowsNews(options.filter, state = "succeeded") = PrintsRecorded(options.filter, state)

\* A quiet surface is quiet: under "none" nothing is written but the budget's
\* milestones (which shows_routine lets through), under "warn" neither the
\* user's words nor a tool's progress (Surface::shows_news, request_started_with_budget).
QuietIsQuiet ==
  /\ options.filter = "none" => chatter \subseteq {"milestone"}
  /\ options.filter = "warn" => chatter \subseteq {"milestone"} \union States

=============================================================================
