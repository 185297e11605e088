---------------------------- MODULE WorkerServer ----------------------------
(***************************************************************************)
(* rupi_mcp::worker::serve_stdio and the resources of a session: a client   *)
(* pages through the trace, the messages or the diff with after_seq and    *)
(* limit, over a loop that answers a line at a time, while runs of the     *)
(* session end and change what it reads.                                   *)
(*                                                                         *)
(* An entry of the trace and a message are the number n under which they   *)
(* are known here and the seq the engine gave them, which a message may    *)
(* lack.  An engine either numbers what it returns one by one or gives any *)
(* seqs, and the service checks none.  A changed file is a number.  Of the *)
(* resources the one the client will read is followed.                     *)
(***************************************************************************)
EXTENDS Integers, Sequences, SequencesExt

CONSTANTS
  PageLimit,    \* MAX_RESOURCE_ITEMS
  MostItems,    \* bound: entries, messages or files of a session
  MostChanges,  \* bound: runs that end
  MostPages,    \* bound: pages the client asks for
  MostOthers    \* bound: other lines it writes

VARIABLES
  engine,     \* the seqs it gives: "counted", as n is, or "any"
  trace,      \* the session's trace
  messages,   \* the session's messages
  diff,       \* the session's diff; <<>> is none
  changes,    \* runs that have ended
  sent,       \* how many lines the client has written, [pages, others]
  pipe,       \* the lines not yet read, each [id, kind, after, limit]
  answered,   \* the line read last and its response, [line, silent, id, error, items, next]
  pager,      \* what the client reads: [kind, after, limit, got, waiting, ended, start]
  serving     \* serve_stdio has not returned an error

vars == <<engine, trace, messages, diff, changes, sent, pipe, answered, pager, serving>>

Resources == {"trace", "messages", "diff"}
\* Lines that are no request for a page: no JSON, no id, no method, a version that is
\* not 2.0, a method or a resource nobody knows, a call of a tool, and a line longer
\* than MAX_REQUEST_BYTES.
Refused == {"garbage", "malformed", "version", "method", "resource"}
OtherLines == Refused \cup {"notification", "tool", "overlong"}
NoNext == -1
NoId == 0
Line(id, kind, after, limit) == [id |-> id, kind |-> kind, after |-> after, limit |-> limit]

Init ==
  /\ engine \in {"counted", "any"}
  /\ trace = <<>> /\ messages = <<>> /\ diff = <<>> /\ changes = 0
  /\ sent = [pages |-> 0, others |-> 0] /\ pipe = <<>>
  /\ answered = [line |-> Line(0, "notification", NoNext, 1), silent |-> TRUE, id |-> NoId,
                 error |-> FALSE, items |-> <<>>, next |-> NoNext]
  /\ \E kind \in Resources :
       pager = [kind |-> kind, after |-> NoNext, limit |-> NoNext, got |-> <<>>, waiting |-> FALSE,
                ended |-> FALSE, start |-> 0]
  /\ serving = TRUE

-----------------------------------------------------------------------------
(* apply_execution, when a run of the session ends: the trace grows, the   *)
(* messages become those of the engine, whose first ones a compaction may  *)
(* have folded, and so does the diff.                                      *)

NoSeq == -1
Seqs == 1..MostItems
LastOf(items) == IF items = <<>> THEN 0 ELSE Last(items).n

\* What the engine may return: items from n to m, with the seqs it gives them.
Numberings(n, m, seqs) ==
  IF engine = "counted" THEN {[k \in 1..(m - n + 1) |-> n + k - 1]} ELSE [1..(m - n + 1) -> seqs]
Items(n, m, seqs) ==
  {[k \in DOMAIN given |-> [n |-> n + k - 1, seq |-> given[k]]] : given \in Numberings(n, m, seqs)}

TraceGrows ==
  /\ pager.kind = "trace"
  /\ \E grown \in LastOf(trace)..MostItems :
       \E more \in Items(LastOf(trace) + 1, grown, Seqs) : trace' = trace \o more
  /\ UNCHANGED <<messages, diff>>

\* An engine that returns no messages, or no diff, leaves them as they were.
MessagesReplaced ==
  /\ pager.kind = "messages"
  /\ \/ UNCHANGED messages
     \/ \E grown \in LastOf(messages)..MostItems : \E folded \in 0..(grown - 1) :
          messages' \in Items(folded + 1, grown, Seqs \cup {NoSeq})
  /\ UNCHANGED <<trace, diff>>

DiffReplaced ==
  /\ pager.kind = "diff"
  /\ \E files \in 0..MostItems :
       diff' = IF files = 0 THEN diff ELSE [k \in 1..files |-> 10 * changes' + k]
  /\ UNCHANGED <<trace, messages>>

RunEnds ==
  /\ changes < MostChanges /\ changes' = changes + 1
  /\ TraceGrows \/ MessagesReplaced \/ DiffReplaced
  /\ UNCHANGED <<engine, sent, pipe, answered, pager, serving>>

-----------------------------------------------------------------------------
(* The client.                                                             *)

Written == sent.pages + sent.others

Begun == pager.limit # NoNext

Begin(limit) ==
  /\ ~Begun
  /\ pager' = [pager EXCEPT !.limit = limit, !.start = changes]
  /\ UNCHANGED <<engine, trace, messages, diff, changes, sent, pipe, answered, serving>>

AskPage ==
  /\ Begun /\ ~pager.waiting /\ ~pager.ended /\ sent.pages < MostPages
  /\ sent' = [sent EXCEPT !.pages = @ + 1]
  /\ pipe' = Append(pipe, Line(Written + 1, pager.kind, pager.after, pager.limit))
  /\ pager' = [pager EXCEPT !.waiting = TRUE]
  /\ UNCHANGED <<engine, trace, messages, diff, changes, answered, serving>>

\* bound: how items are numbered has nothing to do with the lines between the pages.
Others == IF engine = "counted" THEN MostOthers ELSE 0

AskOther(kind) ==
  /\ sent.others < Others
  /\ sent' = [sent EXCEPT !.others = @ + 1]
  /\ pipe' = Append(pipe, Line(Written + 1, kind, NoNext, 1))
  /\ UNCHANGED <<engine, trace, messages, diff, changes, answered, pager, serving>>

-----------------------------------------------------------------------------
(* The pages.                                                              *)

\* parse_resource_uri brings a limit into the range of a page.
Clamped(limit) ==
  CASE limit < 1 -> 1 [] limit > PageLimit -> PageLimit [] OTHER -> limit

Upto(seq, n) == SubSeq(seq, 1, IF n < Len(seq) THEN n ELSE Len(seq))

\* A page of items, and after which seq the next one begins: that of its last
\* item, none where this has none.
Paged(items, limit) ==
  LET page == Upto(items, limit)
  IN [items |-> page, next |-> IF page = <<>> THEN NoNext ELSE Last(page).seq]

\* (mutant) the entry after_seq names comes again
PageItemsFrom(items, after, limit) ==
  Paged(SelectSeq(items, LAMBDA item : item.seq >= after), limit)

\* page_items: those whose seq is above after_seq; one without a seq counts as 0.
PageItems(items, after, limit) ==
  Paged(IF after = NoNext THEN items ELSE SelectSeq(items, LAMBDA item : item.seq > after), limit)

\* page_diff: after_seq is the number of files to pass over.
PageDiff(files, after, limit) ==
  LET start == IF after = NoNext THEN 0 ELSE after
      page == Upto(SubSeq(files, start + 1, Len(files)), limit) IN
  [items |-> page, next |-> IF Len(page) = limit THEN start + Len(page) ELSE NoNext]

Page(line) ==
  CASE line.kind = "trace" -> PageItems(trace, line.after, Clamped(line.limit))
    [] line.kind = "messages" -> PageItems(messages, line.after, Clamped(line.limit))
    [] line.kind = "diff" -> PageDiff(diff, line.after, Clamped(line.limit))
    [] OTHER -> [items |-> <<>>, next |-> NoNext]

-----------------------------------------------------------------------------
(* serve_stdio.                                                            *)

Quiet == {"notification"}

\* A response, or nothing to a notification; a line that is no JSON has no id to
\* answer to.
Respond ==
  /\ serving /\ pipe # <<>> /\ Head(pipe).kind # "overlong" /\ pipe' = Tail(pipe)
  /\ LET line == Head(pipe) page == Page(line) IN
       /\ answered' =
            [line |-> line, silent |-> line.kind \in Quiet,
             id |-> IF line.kind = "garbage" THEN NoId ELSE line.id,
             error |-> line.kind \in Refused,
             items |-> page.items, next |-> page.next]
       \* the client takes the page it waits for
       /\ pager' = IF line.kind \in Resources
                   THEN [pager EXCEPT !.waiting = FALSE, !.got = @ \o page.items,
                                      !.after = page.next, !.ended = page.next = NoNext]
                   ELSE pager
  /\ UNCHANGED <<engine, trace, messages, diff, changes, sent, serving>>

\* The loop ends with a line that is too long, or a response that cannot be written.
Fails ==
  /\ serving /\ pipe # <<>> /\ Head(pipe).kind \notin Quiet
  /\ pipe' = Tail(pipe) /\ serving' = FALSE
  /\ UNCHANGED <<engine, trace, messages, diff, changes, sent, answered, pager>>

Next ==
  \/ RunEnds \/ AskPage \/ Respond \/ Fails
  \/ \E limit \in 0..(PageLimit + 1) : Begin(limit)
  \/ \E kind \in OtherLines : AskOther(kind)

TypeOK ==
  /\ \A item \in ToSet(trace) \cup ToSet(messages) :
       item.n \in 1..MostItems /\ item.seq \in Seqs \cup {NoSeq}
  /\ changes \in 0..MostChanges /\ pager.kind \in Resources
  /\ Len(pipe) <= Written /\ Len(answered.items) <= PageLimit

-----------------------------------------------------------------------------
(* Properties.                                                             *)

\* Every request is answered, in its turn and under its id, whatever stood on the
\* lines before it, until the line at which the loop fails; a page is not an error;
\* only a notification is passed over.
EveryRequestAnswered ==
  /\ answered.line.id + Len(pipe) = Written - (IF serving THEN 0 ELSE 1)
  /\ answered.silent <=> answered.line.kind = "notification"
  /\ answered.line.kind \notin {"garbage", "notification"} => answered.id = answered.line.id
  /\ answered.error => answered.line.kind \notin Resources \cup {"tool"}

\* The known defects: an item that is not numbered above all before it may be
\* passed over or come twice, and a page whose last message has no seq ends the
\* reading.
Highest(items, k) == items[k].seq # NoSeq /\ \A j \in 1..(k - 1) : items[j].seq < items[k].seq
CutOff == pager.got # <<>> /\ Last(pager.got).seq = NoSeq
Complete(items) ==
  pager.ended /\ changes = pager.start /\ ~CutOff =>
    \A k \in DOMAIN items : Highest(items, k) => items[k] \in ToSet(pager.got)

\* A client that follows next_after_seq reads the trace of an engine that counts its
\* entries from its beginning, every entry once and in order, however many runs end
\* between two pages; when it is told that nothing is left, it has all there is at that
\* moment.  Under any other numbering it misses none that is numbered above all before it.
TraceIsFollowed ==
  pager.kind = "trace" =>
    /\ engine = "counted" => /\ IsPrefix(pager.got, trace)
                             /\ pager.ended /\ changes = pager.start => pager.got = trace
    /\ Complete(trace)

\* Of messages that are counted it misses none that is still there behind the last one
\* it has, and reads none twice, though the engine folds the first ones between two
\* pages; of others none that is numbered above all before it, unless it is cut off.
MessagesAreFollowed ==
  pager.kind = "messages" =>
    /\ engine = "counted" =>
         /\ \A i, j \in DOMAIN pager.got : i < j => pager.got[i].n < pager.got[j].n
         /\ \A k \in DOMAIN messages :
              pager.got # <<>> /\ messages[k].n \in Head(pager.got).n..Last(pager.got).n =>
                messages[k] \in ToSet(pager.got)
         /\ pager.ended /\ changes = pager.start => pager.got = messages
    /\ Complete(messages)

\* The pages of a diff that no run replaces meanwhile add up to it.
DiffIsWhole ==
  pager.kind = "diff" /\ Begun /\ changes = pager.start =>
    IsPrefix(pager.got, diff) /\ (pager.ended => pager.got = diff)
=============================================================================
