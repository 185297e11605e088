------------------------------ MODULE LineEditor ------------------------------
(***************************************************************************)
(* The buffer the user of `rupi interactive` types into                    *)
(* (crates/rupi-tui/src/editor.rs, complete.rs): lines and a caret, rows   *)
(* split by display columns, recall of what was submitted, and the Tab     *)
(* walk over command names. The loop repaints only when an intent reports  *)
(* that something moved.                                                   *)
(*                                                                         *)
(* A character is a member of a small set: what matters of it is whether   *)
(* it is white, part of a word, how many columns it takes and whether it   *)
(* clings to its neighbours. A text is the sequence of its lines.          *)
(***************************************************************************)
EXTENDS Integers, Sequences, SequencesExt, FiniteSetsExt

CONSTANTS Typeable,       \* the characters the user types
          Pastes,         \* what is pasted: its lines
          Names,          \* the completions, without the slash, in list order
          EditorWidths,   \* columns of text
          MaxText,        \* characters of the buffer and the history together
          MaxPress        \* presses of Tab in one cycle

VARIABLE ed               \* the Editor

vars == <<ed>>

None == -1

White(c) == c = " "
Word(c) == c \in {"a", "b", "W"}
Columns(c) == IF c = "W" THEN 2 ELSE IF c = "j" THEN 0 ELSE 1
Joiner(c) == c = "j"

\* continues_cluster, for a joiner and what it joins
Continues(previous, next) == Joiner(previous) \/ Joiner(next)

ColumnsOf(chars) ==
  Cardinality({i \in 1 .. Len(chars) : Columns(chars[i]) >= 1})
    + Cardinality({i \in 1 .. Len(chars) : Columns(chars[i]) = 2})
Slice(line, start, end) == SubSeq(line, start + 1, end)

-----------------------------------------------------------------------------
(* Rows                                                                    *)

\* Where the clusters of a line start, in offsets from 0
ClusterStarts(line) ==
  {i \in 0 .. Len(line) - 1 : i = 0 \/ ~Continues(line[i], line[i + 1])}

ClusterEnd(line, i) == Min({j \in ClusterStarts(line) : j > i} \cup {Len(line)})

\* line_rows: the offsets a row of one line starts at
RowStarts(line, width) ==
  LET starts[i \in 0 .. Len(line)] ==   \* of the rows that begin before offset i
        IF i = 0 THEN <<0>>
        ELSE IF /\ i \in ClusterStarts(line)
                /\ ColumnsOf(Slice(line, Last(starts[i - 1]), ClusterEnd(line, i))) > width
          THEN Append(starts[i - 1], i)
          ELSE starts[i - 1] IN
  starts[Len(line)]

\* Line n, cut at the starts
Cut(n, length, starts) ==
  [r \in 1 .. Len(starts) |->
     [line |-> n, start |-> starts[r],
      end |-> IF r = Len(starts) THEN length ELSE starts[r + 1], last |-> r = Len(starts)]]

LineRows(lines, n, width) == Cut(n, Len(lines[n]), RowStarts(lines[n], width))

\* buffer_rows: the display rows of the buffer
BufferRows(e) == FlattenSeq([n \in 1 .. Len(e.lines) |-> LineRows(e.lines, n, e.width)])

\* caret_row: which of the rows the caret sits on, and how far into it
CaretRow(e, rows) ==
  Min({i \in 1 .. Len(rows) :
         /\ rows[i].line = e.line /\ e.column >= rows[i].start
         /\ e.column < rows[i].end \/ rows[i].last})
CaretColumn(e, row) == ColumnsOf(Slice(e.lines[e.line], row.start, e.column))

\* column_at: the offset in start..end whose cell holds the wanted column, the
\* first i of whose cells reach it
ColumnAt(line, start, end, wanted) ==
  LET Reaching(i) ==
        IF i = end THEN end
        ELSE IF ColumnsOf(Slice(line, start, i + 1)) > wanted THEN i ELSE i + 1 IN
  Reaching(Min({i \in start .. end - 1 : ColumnsOf(Slice(line, start, i + 1)) >= wanted}
                 \cup {end}))

-----------------------------------------------------------------------------
(* The buffer                                                              *)

Line(e) == e.lines[e.line]
Before(e) == Slice(Line(e), 0, e.column)
Behind(e) == Slice(Line(e), e.column, Len(Line(e)))

Text(e) == e.lines
IsEmpty(e) == e.lines = << <<>> >>

Changed(e) == [editor |-> e, outcome |-> "changed"]
Unchanged(e) == [editor |-> e, outcome |-> "unchanged"]
If(moved, e) == IF moved THEN Changed(e) ELSE Unchanged(e)

EndOf(lines, n) == Len(lines[n])

\* recall_reset_on_edit: the recalled text is now the user's own
Owned(e) == [e EXCEPT !.desired = None, !.recall = None, !.draft = <<>>]

\* reset, after a submit or a cancel
Reset(e) == [Owned(e) EXCEPT !.lines = << <<>> >>, !.line = 1, !.column = 0]

\* load: the caret goes to the end
Load(e, lines) ==
  [e EXCEPT !.lines = lines, !.line = Len(lines), !.column = EndOf(lines, Len(lines)),
            !.desired = None]

\* splice_first
Spliced(e, chars) ==
  [e EXCEPT !.lines[e.line] = Before(e) \o chars \o Behind(e), !.column = @ + Len(chars)]

\* split_line
Split(e) ==
  [e EXCEPT !.lines = SubSeq(e.lines, 1, e.line - 1) \o <<Before(e), Behind(e)>>
                        \o SubSeq(e.lines, e.line + 1, Len(e.lines)),
            !.line = @ + 1, !.column = 0]

\* insert_str, carriage returns left out: the first line goes in at the caret, every
\* further one behind a line break
Inserted(e, text) ==
  FoldLeft(LAMBDA so_far, line : Spliced(Split(so_far), line), Spliced(e, Head(text)), Tail(text))

\* Two neighbouring lines become one, from line n on
Joined(lines, n) ==
  SubSeq(lines, 1, n - 1) \o <<lines[n] \o lines[n + 1]>> \o SubSeq(lines, n + 2, Len(lines))

\* delete_backward
Backspace(e) ==
  IF e.column > 0
    THEN Changed([e EXCEPT !.lines[e.line] = Slice(Line(e), 0, e.column - 1) \o Behind(e),
                           !.column = @ - 1])
  ELSE IF e.line = 1 THEN Unchanged(e)
  ELSE Changed([e EXCEPT !.lines = Joined(e.lines, e.line - 1), !.line = @ - 1,
                         !.column = EndOf(e.lines, e.line - 1)])

\* delete_ahead
DeleteForward(e) ==
  IF Behind(e) # <<>>
    THEN Changed([e EXCEPT !.lines[e.line] = Before(e) \o Tail(Behind(e))])
  ELSE IF e.line = Len(e.lines) THEN Unchanged(e)
  ELSE Changed([e EXCEPT !.lines = Joined(e.lines, e.line)])

DeleteToLineStart(e) ==
  If(e.column > 0, [e EXCEPT !.lines[e.line] = Behind(e), !.column = 0])

DeleteToLineEnd(e) ==
  If(Behind(e) # <<>>, [e EXCEPT !.lines[e.line] = Before(e)])

\* word_boundary: back over what is not a word, then over the word
WordStart(line, column) ==
  LET word == Max({i \in 1 .. column : Word(line[i])} \cup {0}) IN
  Max({i \in 0 .. word : i = 0 \/ ~Word(line[i])})

\* word_end: ahead over what is not a word, then over the word
WordEnd(line, column) ==
  LET word == Min({i \in column + 1 .. Len(line) : Word(line[i])} \cup {Len(line) + 1}) IN
  Min({i \in word .. Len(line) : i > column /\ ~Word(line[i])} \cup {Len(line) + 1}) - 1

DeleteWordBackward(e) ==
  IF e.column = 0 THEN Backspace(e)
  ELSE LET target == WordStart(Line(e), e.column) IN
       Changed([e EXCEPT !.lines[e.line] = Slice(Line(e), 0, target) \o Behind(e),
                         !.column = target])

-----------------------------------------------------------------------------
(* Motion                                                                  *)

Placed(e, line, column) ==
  LET moved == [e EXCEPT !.desired = None, !.line = line, !.column = column] IN
  If(line # e.line \/ column # e.column, moved)

MoveLeft(e) ==
  IF e.column > 0 THEN Placed(e, e.line, e.column - 1)
  ELSE IF e.line > 1 THEN Placed(e, e.line - 1, EndOf(e.lines, e.line - 1))
  ELSE Placed(e, e.line, e.column)

MoveRight(e) ==
  IF Behind(e) # <<>> THEN Placed(e, e.line, e.column + 1)
  ELSE IF e.line < Len(e.lines) THEN Placed(e, e.line + 1, 0)
  ELSE Placed(e, e.line, e.column)

\* move_word: over line edges first, empty lines included, then the word
MoveWordLeft(e) ==
  IF e.column > 0 THEN Placed(e, e.line, WordStart(Line(e), e.column))
  ELSE LET n == Max({i \in 1 .. e.line - 1 : e.lines[i] # <<>>} \cup {1}) IN
       IF n = e.line THEN Placed(e, e.line, 0)
       ELSE Placed(e, n, WordStart(e.lines[n], EndOf(e.lines, n)))

MoveWordRight(e) ==
  IF Behind(e) # <<>> THEN Placed(e, e.line, WordEnd(Line(e), e.column))
  ELSE LET n == Min({i \in e.line + 1 .. Len(e.lines) : e.lines[i] # <<>>}
                    \cup {Len(e.lines)}) IN
       IF n = e.line THEN Placed(e, e.line, e.column)
       ELSE Placed(e, n, IF e.lines[n] = <<>> THEN 0 ELSE WordEnd(e.lines[n], 0))

Indent(line) == Max({i \in 0 .. Len(line) : \A k \in 1 .. i : White(line[k])})

\* Home: the end, the start, then the indent
MoveLineStart(e) ==
  Placed(e, e.line, IF e.column = 0 THEN Len(Line(e))
                    ELSE IF e.column <= Indent(Line(e)) THEN 0 ELSE Indent(Line(e)))

MoveLineEnd(e) == Placed(e, e.line, Len(Line(e)))
MoveBufferStart(e) == Placed(e, 1, 0)
MoveBufferEnd(e) == Placed(e, Len(e.lines), EndOf(e.lines, Len(e.lines)))

-----------------------------------------------------------------------------
(* Recall, and motion by rows that turns into it at the edges              *)

\* Entry i of the history, counting back from the newest, 0
Entry(e, i) == e.history[Len(e.history) - i]

RecallOlder(e) ==
  IF e.recall + 1 >= Len(e.history) THEN Unchanged(e)
  ELSE Changed(Load([e EXCEPT !.draft = IF e.recall = None THEN Text(e) ELSE @,
                              !.recall = e.recall + 1],
                    Entry(e, e.recall + 1)))

RecallNewer(e) ==
  IF e.recall = None THEN Unchanged(e)
  ELSE IF e.recall = 0
    THEN Changed(Load([e EXCEPT !.recall = None, !.draft = <<>>], e.draft))
  ELSE Changed(Load([e EXCEPT !.recall = @ - 1], Entry(e, e.recall - 1)))

\* move_row, to a row there is, keeping the column that was wanted first
Wanted(e, row) == IF e.desired # None THEN e.desired ELSE CaretColumn(e, row)
ToRow(e, row, wanted) ==
  Changed([e EXCEPT !.desired = wanted, !.line = row.line,
                    !.column = ColumnAt(e.lines[row.line], row.start, row.end, wanted)])

Climb(e, rows, here) ==
  IF here > 1 THEN ToRow(e, rows[here - 1], Wanted(e, rows[here])) ELSE RecallOlder(e)
Descend(e, rows, here) ==
  IF here < Len(rows) THEN ToRow(e, rows[here + 1], Wanted(e, rows[here])) ELSE RecallNewer(e)

MoveUp(e) == Climb(e, BufferRows(e), CaretRow(e, BufferRows(e)))
MoveDown(e) == Descend(e, BufferRows(e), CaretRow(e, BufferRows(e)))

-----------------------------------------------------------------------------
(* Submit, cancel, and Tab                                                 *)

\* trim: white characters and empty lines at both ends
TrimmedLines(lines) ==
  LET black == {<<n, i>> \in (1 .. Len(lines)) \X (1 .. MaxText) :
                  i <= Len(lines[n]) /\ ~White(lines[n][i])} IN
  IF black = {} THEN << <<>> >>
  ELSE LET first == Min({p[1] : p \in black})
           last == Max({p[1] : p \in black})
           from == Min({p[2] : p \in {q \in black : q[1] = first}})
           to == Max({p[2] : p \in {q \in black : q[1] = last}}) IN
       [n \in 1 .. last - first + 1 |->
          LET line == lines[first + n - 1] IN
          SubSeq(line, IF n = 1 THEN from ELSE 1,
                       IF first + n - 1 = last THEN to ELSE Len(line))]

Submit(e) ==
  LET text == TrimmedLines(Text(e)) IN
  IF text = << <<>> >> THEN Unchanged(e)
  ELSE [outcome |-> "submit",
        editor |-> Reset([e EXCEPT !.history =
          IF @ # <<>> /\ @[Len(@)] = text THEN @ ELSE Append(@, text)])]

Cancel(e) == IF IsEmpty(e) THEN Unchanged(e) ELSE [outcome |-> "cancelled", editor |-> Reset(e)]

StartsWith(text, prefix) == IsPrefix(prefix, text)

\* Completions::matching, for a word without its slash
Matching(stem) == SelectSeq(Names, LAMBDA name : StartsWith(name, stem))

CommonPrefix(names) ==
  LET n == Max({k \in 0 .. Len(names[1]) :
                  \A i \in 1 .. Len(names) : StartsWith(names[i], SubSeq(names[1], 1, k))}) IN
  SubSeq(names[1], 1, n)

\* Completions::step: the shared prefix (or the only name, and a space), then
\* one name after the other; <<>> when there is nothing to offer
StepOver(found, press) ==
  IF found = <<>> \/ (Len(found) = 1 /\ press > 0) THEN <<>>
  ELSE IF Len(found) = 1 THEN <<"/">> \o found[1] \o <<" ">>
  ELSE IF press = 0 THEN <<"/">> \o CommonPrefix(found)
  ELSE <<"/">> \o found[((press - 1) % Len(found)) + 1]
TabStep(base, press) == StepOver(Matching(Tail(base)), press)

NoCycle == <<>>

\* cycle_still_open drops every slash a word starts with, where step drops one
Unslashed(word) ==
  SubSeq(word, Min({i \in 1 .. Len(word) : word[i] # "/"} \cup {Len(word) + 1}), Len(word))

CycleOpen(e, word) ==
  /\ e.base # NoCycle
  /\ StartsWith(word, e.base) \/ Unslashed(word) \in ToSet(Matching(Unslashed(e.base)))

\* Anything but Tab ends a completion cycle
Uncycled(e) == [e EXCEPT !.base = NoCycle, !.press = 0]

FirstWord(line) ==
  SubSeq(line, 1, Min({i \in 1 .. Len(line) : White(line[i])} \cup {Len(line) + 1}) - 1)

\* What the press offers, in the place of the word
Offered(e, word, offer) ==
  IF offer = <<>> THEN Unchanged(Uncycled(e))
  ELSE IF offer = word THEN Unchanged(e)
  ELSE Changed([e EXCEPT !.lines[1] = offer \o SubSeq(@, Len(word) + 1, Len(@)),
                         !.column = Len(offer), !.desired = None])
Walked(e, word) == Offered(e, word, TabStep(e.base, e.press))

\* complete: only over the first word of the first line, with the caret behind it
CompleteWord(e, word) ==
  IF e.line # 1 \/ e.column # Len(word) \/ word = <<>> \/ word[1] # "/" THEN Unchanged(Uncycled(e))
  ELSE IF CycleOpen(e, word) THEN Walked([e EXCEPT !.press = @ + 1], word)
  ELSE Walked([e EXCEPT !.base = word, !.press = 0], word)
Complete(e) == CompleteWord(e, FirstWord(e.lines[1]))

-----------------------------------------------------------------------------
(* Editor::apply                                                           *)

Deletions == {"backspace", "delete", "to_start", "to_end", "word"}
Motions == {"left", "right", "word_left", "word_right", "home", "end", "top", "bottom"}
Vertical == {"up", "down"}

Delete(e, intent) ==
  CASE intent = "backspace" -> Backspace(e)
    [] intent = "delete" -> DeleteForward(e)
    [] intent = "to_start" -> DeleteToLineStart(e)
    [] intent = "to_end" -> DeleteToLineEnd(e)
    [] intent = "word" -> DeleteWordBackward(e)

Go(e, intent) ==
  CASE intent = "left" -> MoveLeft(e)
    [] intent = "right" -> MoveRight(e)
    [] intent = "word_left" -> MoveWordLeft(e)
    [] intent = "word_right" -> MoveWordRight(e)
    [] intent = "home" -> MoveLineStart(e)
    [] intent = "end" -> MoveLineEnd(e)
    [] intent = "top" -> MoveBufferStart(e)
    [] intent = "bottom" -> MoveBufferEnd(e)
    [] intent = "up" -> MoveUp(e)
    [] intent = "down" -> MoveDown(e)

Size(lines) == FoldLeft(LAMBDA sum, line : sum + Len(line), Len(lines) - 1, lines)
Bounded(e) == FoldLeft(LAMBDA sum, text : sum + Size(text), Size(e.lines), e.history) <= MaxText

Is(result) == ed' = result.editor

\* What an intent that inserts nothing produces
Apply(e, intent) ==
  CASE intent = "submit" -> Submit(Uncycled(e))
    [] intent = "cancel" -> Cancel(Uncycled(e))
    [] intent = "complete" -> Complete(e)
    [] intent = "noop" -> Unchanged(Uncycled(e))
    [] intent \in Deletions -> Delete(Owned(Uncycled(e)), intent)
    [] OTHER -> Go(Uncycled(e), intent)

Intents == Deletions \cup Motions \cup Vertical \cup {"submit", "cancel", "complete", "noop"}

\* Insert, InsertNewline and a Paste with something in it
Put(text) ==
  LET result == Changed(Inserted(Owned(Uncycled(ed)), text)) IN
  Bounded(result.editor) /\ Is(result)
Insert(c) == Put(<< <<c>> >>)
InsertNewline == Put(<< <<>>, <<>> >>)
Paste(text) == Put(text)

\* An unbound key, or a Paste of nothing
Noop == Is(Unchanged(Uncycled(ed)))
Erase == \E intent \in Deletions : Is(Delete(Owned(Uncycled(ed)), intent))
Move == \E intent \in Motions \cup Vertical : Is(Go(Uncycled(ed), intent))
Send == Bounded(ed) /\ Is(Submit(Uncycled(ed)))
GiveUp == Is(Cancel(Uncycled(ed)))
Tab == ed.press < MaxPress /\ Size(ed.lines) < MaxText /\ Is(Complete(ed))

\* Editor::set_width, when the loop reads a resize; the loop draws in any case
SetWidth(w) ==
  /\ w # ed.width
  /\ ed' = [ed EXCEPT !.width = w, !.desired = None]

Init ==
  ed = [lines |-> << <<>> >>, line |-> 1, column |-> 0, desired |-> None,
        width |-> Max(EditorWidths), history |-> <<>>, recall |-> None,
        draft |-> <<>>, base |-> NoCycle, press |-> 0]

Next ==
  \/ \E c \in Typeable : Insert(c)
  \/ \E text \in Pastes : Paste(text)
  \/ InsertNewline \/ Noop \/ Erase \/ Move \/ Send \/ GiveUp \/ Tab
  \/ \E w \in EditorWidths : SetWidth(w)

Spec == Init /\ [][Next]_vars

-----------------------------------------------------------------------------
(* Properties                                                              *)

\* The invariants editor.rs lists for the buffer, and the recall's own.
TypeOK ==
  /\ ed.line \in 1 .. Len(ed.lines) /\ ed.column \in 0 .. Len(Line(ed))
  /\ ed.recall \in {None} \cup 0 .. Len(ed.history) - 1
  /\ (ed.recall = None) = (ed.draft = <<>>)

\* line_rows: the rows of a line are the line, in order and cut between clusters
\* only, and no row is wider than the surface unless one cluster is.
RowsFit ==
  \A n \in 1 .. Len(ed.lines) :
    LET line == ed.lines[n]  rows == LineRows(ed.lines, n, ed.width) IN
    /\ rows[1].start = 0 /\ rows[Len(rows)].end = Len(line)
    /\ \A r \in 1 .. Len(rows) :
         /\ r > 1 => rows[r].start = rows[r - 1].end /\ rows[r].start \in ClusterStarts(line)
         /\ rows[r].start < rows[r].end \/ line = <<>>
         /\ \/ ColumnsOf(Slice(line, rows[r].start, rows[r].end)) <= ed.width
            \/ ClusterEnd(line, rows[r].start) = rows[r].end

\* A deletion takes one piece of text that touches the caret: what is behind the
\* caret survives a deletion before it, what is before survives one behind it.
AllBefore(e) == FlattenSeq(SubSeq([n \in 1 .. Len(e.lines) |-> Append(e.lines[n], "nl")],
                                  1, e.line - 1)) \o Before(e)
AllBehind(e) == Behind(e) \o FlattenSeq(SubSeq([n \in 1 .. Len(e.lines) |-> <<"nl">> \o e.lines[n]],
                                               e.line + 1, Len(e.lines)))

DeletesAtTheCaret ==
  \A intent \in Deletions :
    LET e == Delete(ed, intent).editor IN
    IF intent \in {"delete", "to_end"}
      THEN AllBefore(e) = AllBefore(ed) /\ IsSuffix(AllBehind(e), AllBehind(ed))
      ELSE AllBehind(e) = AllBehind(ed) /\ IsPrefix(AllBefore(e), AllBefore(ed))

\* The loop repaints only what reports a change: an intent that reports none
\* moves neither the text nor the caret.
UnchangedKeepsTheFrame ==
  \A result \in {Apply(ed, intent) : intent \in Intents} :
    result.outcome = "unchanged" =>
      /\ result.editor.lines = ed.lines
      /\ result.editor.line = ed.line /\ result.editor.column = ed.column

\* Browsing the history loses nothing: coming back down past the newest entry
\* gives back the text that was in the buffer when the browsing began (recall).
DraftComesBack ==
  LET older == RecallOlder(ed)
      oldest == RecallOlder(older.editor) IN
  ed.recall = None /\ older.outcome = "changed" =>
    /\ RecallNewer(older.editor).editor.lines = ed.lines
    /\ oldest.outcome = "changed" =>
         RecallNewer(RecallNewer(oldest.editor).editor).editor.lines = ed.lines

\* Pressing Tab again and again walks over every name that matches the word.
TabWalks ==
  LET first == Complete([ed EXCEPT !.base = NoCycle, !.press = 0]).editor
      Pressed[k \in 0 .. Len(Names)] == IF k = 0 THEN first ELSE Complete(Pressed[k - 1]).editor
      found == Matching(Tail(first.base)) IN
  first.base # NoCycle /\ Len(found) > 1 =>
    \A i \in 1 .. Len(found) :
      \E k \in 0 .. Len(Names) : StartsWith(Pressed[k].lines[1], <<"/">> \o found[i])
=============================================================================
