------------------------------ MODULE PiEntries ------------------------------
(***************************************************************************)
(* The entries of a session file of another agent, Pi, and the events the  *)
(* import makes of them (rupi-store, module pi_import): which entries are  *)
(* the conversation, what each of them says, and what it becomes.  Only    *)
(* operators; PiImport files the events, PiExport writes such entries.     *)
(*                                                                         *)
(* A text is the sequence of the positions of the blocks it is made of: a  *)
(* Gap is the blank line between two blocks, a Cut the note that Pi left   *)
(* bytes out.                                                              *)
(***************************************************************************)
EXTENDS Naturals, Integers, FiniteSets, Sequences, SequencesExt

NoId == 0
NoTurn == <<>>
NoCall == "pi-import-without-id"
Unknown == "unknown"
Gap == 0
Cut == -1

Fail(reason) == [failed |-> reason, lines |-> <<>>]

-----------------------------------------------------------------------------
(* Which entries are the conversation.                                     *)

ParentIn(entries, line) ==
  {l \in DOMAIN entries : entries[l].id = entries[line].parent}

\* The walk from a line to the root: the lines met, newest first, stopped by an
\* entry with no parent, by a parent that is not in the file, or by an entry met
\* before.
WalkFrom(entries, leaf) ==
  FoldLeft(LAMBDA walk, step :
             LET here == walk[Len(walk)]
                 above == ParentIn(entries, here)
             IN IF entries[here].parent = NoId \/ above = {} THEN walk
                ELSE IF \E k \in 1..(Len(walk) - 1) : walk[k] = here THEN walk
                ELSE Append(walk, CHOOSE l \in above : TRUE),
           <<leaf>>, entries)

ActivePath(entries) ==
  LET linear == \E l \in DOMAIN entries : entries[l].id = NoId
      duplicate == \E l, m \in DOMAIN entries : l # m /\ entries[l].id = entries[m].id
      walk == WalkFrom(entries, Len(entries))
      top == walk[Len(walk)]
  IN CASE entries = <<>> -> [failed |-> "", lines |-> <<>>]
       [] entries # <<>> /\ linear ->
            [failed |-> "", lines |-> [l \in DOMAIN entries |-> l]]
       [] entries # <<>> /\ ~linear /\ duplicate -> Fail("duplicate id")
       [] entries # <<>> /\ ~linear /\ ~duplicate /\ entries[top].parent = NoId ->
            [failed |-> "", lines |-> Reverse(walk)]
       [] entries # <<>> /\ ~linear /\ ~duplicate /\ entries[top].parent # NoId ->
            Fail(IF ParentIn(entries, top) = {} THEN "dangling parent" ELSE "cycle")

-----------------------------------------------------------------------------
(* What one entry says.                                                    *)

BlocksOf(entry, types) ==
  SelectSeq([b \in DOMAIN entry.blocks |-> b], LAMBDA b : entry.blocks[b].type \in types)

Joined(blocks) ==
  FoldLeft(LAMBDA text, b : IF text = <<>> THEN <<b>> ELSE text \o <<Gap, b>>, <<>>, blocks)

\* A bare string is read for a user's entry and for a result; an assistant's
\* content is read only when it is a list of blocks.
Unread(entry) == entry.plain /\ entry.kind = "assistant"

Prose(entry) == IF Unread(entry) THEN <<>> ELSE BlocksOf(entry, {"text"})
Kept(entry) == IF Unread(entry) THEN <<>> ELSE BlocksOf(entry, {"text", "image"})
Calls(entry) ==
  IF Unread(entry) THEN <<>>
  ELSE LET calls == BlocksOf(entry, {"call"})
       IN [k \in DOMAIN calls |-> entry.blocks[calls[k]]]
\* A thought with no text in it becomes nothing.
Thoughts(entry) == IF Unread(entry) THEN <<>> ELSE BlocksOf(entry, {"thinking"})
Attachments(entry) == Len(BlocksOf(entry, {"image", "bare image", "other"}))

\* A call Pi gave no id has one made of its entry's id and its number, which in
\* a file without ids is the same for every entry.
CallId(entry, calls, k) == IF calls[k].call = NoCall THEN <<entry.id, k>> ELSE <<calls[k].call>>

\* Whose turn an entry opens, or anchors: its id's, and its line's only without one.
Anchor(entry, line) == IF entry.id = NoId THEN <<"line", line>> ELSE <<"id", entry.id>>

EventText(entry) ==
  Joined(Prose(entry)) \o IF entry.cut /\ entry.kind # "assistant" THEN <<Cut>> ELSE <<>>

-----------------------------------------------------------------------------
(* The events of one entry.                                                *)

NoMessage == [role |-> "none", text |-> <<>>, images |-> 0, calls |-> <<>>, model |-> Unknown]

Event(kind, line, turn) ==
  [kind |-> kind, line |-> line, turn |-> turn, text |-> <<>>, calls |-> <<>>, name |-> "",
   attachments |-> 0, message |-> NoMessage]

Introducing(event, role, text, images, calls, model) ==
  [event EXCEPT !.message = [role |-> role, text |-> text, images |-> images,
                             calls |-> calls, model |-> model]]

MessageRecord(event, entry, role, calls, model) ==
  IF Kept(entry) = <<>> /\ calls = <<>> THEN event
  ELSE Introducing(event, role, Prose(entry), Len(BlocksOf(entry, {"image"})), calls, model)

UserEvents(entry, line, model) ==
  << MessageRecord([Event("user", line, Anchor(entry, line)) EXCEPT !.text = EventText(entry),
                                                                     !.attachments = Attachments(entry)],
                   entry, "user", <<>>, model) >>

AssistantEvents(entry, line, turn, model) ==
  LET found == Calls(entry)
      calls == [k \in DOMAIN found |-> [id |-> CallId(entry, found, k), name |-> found[k].name]]
      message(event) == MessageRecord(event, entry, "assistant", calls, model)
      prose == Prose(entry) # <<>>
      started == Event("request started", line, turn)
      delta == [Event("assistant delta", line, turn) EXCEPT !.text = Joined(Prose(entry))]
  IN << IF prose THEN started ELSE message(started) >>
     \o [k \in DOMAIN Thoughts(entry) |-> Event("reasoning", line, turn)]
     \o (IF prose THEN << message(delta) >> ELSE <<>>)
     \o [k \in DOMAIN calls |-> [Event("tool requested", line, turn) EXCEPT
                                    !.calls = <<calls[k].id>>, !.name = calls[k].name]]
     \o << [Event("request completed", line, turn) EXCEPT
               !.calls = [k \in DOMAIN calls |-> calls[k].id]] >>

\* (mutant) the message of a result is bound to the start of the tool
ResultEventsAtTheStart(entry, line, turn, model) ==
  LET of(kind) == [Event(kind, line, turn) EXCEPT !.calls = << <<entry.call>> >>,
                                                  !.name = entry.name]
      ended == [of(IF entry.failed THEN "tool failed" ELSE "tool completed") EXCEPT
                   !.text = EventText(entry)]
  IN << Introducing(of("tool started"), "tool", EventText(entry), 0,
                    << [id |-> <<entry.call>>, name |-> entry.name] >>, model),
        ended >>

ResultEvents(entry, line, turn, model) ==
  LET of(kind) == [Event(kind, line, turn) EXCEPT !.calls = << <<entry.call>> >>,
                                                  !.name = entry.name]
      ended == [of(IF entry.failed THEN "tool failed" ELSE "tool completed") EXCEPT
                   !.text = EventText(entry)]
  IN << of("tool started"),
        Introducing(ended, "tool", EventText(entry), 0,
                    << [id |-> <<entry.call>>, name |-> entry.name] >>, model) >>

Noted == {"model_change", "thinking_level_change", "compaction"}
SkippedKinds == {"compaction", "branch_summary", "label", "custom"}

\* The model in effect after an entry: the last one named.  A change that names none
\* makes it unknown; a reply that names none has the one before it.
Names(entry) ==
  entry.kind = "model_change" \/ (entry.kind = "assistant" /\ entry.model # "")
Named(entry) == IF entry.model = "" THEN Unknown ELSE entry.model
ModelAfter(entry, model) == IF Names(entry) THEN Named(entry) ELSE model

EntryEvents(entry, line, turn, model) ==
  CASE entry.kind = "user" -> UserEvents(entry, line, model)
    [] entry.kind = "assistant" -> AssistantEvents(entry, line, turn, ModelAfter(entry, model))
    [] entry.kind = "result" -> ResultEvents(entry, line, turn, model)
    [] entry.kind \in Noted -> << Event("diagnostic", line, turn) >>
    [] OTHER -> <<>>

PlanOf(entries, lines) ==
  FoldLeft(LAMBDA sofar, line :
             LET entry == entries[line]
                 turn == IF entry.kind = "user" THEN Anchor(entry, line) ELSE sofar.turn
             IN [events |-> sofar.events \o EntryEvents(entry, line, turn, sofar.model),
                 turn |-> turn,
                 model |-> ModelAfter(entry, sofar.model)],
           [events |-> <<>>, turn |-> NoTurn, model |-> Unknown], lines)

\* What the report counts of an entry on the path: skipped entries, and blocks
\* that carried no text the import could keep.
Reported(entry) ==
  \/ entry.kind \in SkippedKinds
  \/ entry.cut /\ entry.kind # "assistant"
ReportedBlocks(entry) ==
  IF entry.plain THEN {}
  ELSE Range(BlocksOf(entry, {"bare image", "other"}
                               \cup IF entry.kind = "assistant" THEN {"unnamed call"} ELSE {}))

-----------------------------------------------------------------------------
(* The reasons for which a session made of these entries cannot be resumed, *)
(* said of the file alone.  "said" is the path, as a sequence of entries.  *)

\* The user's entry that opened the turn; two of one id, in a file that lacks others,
\* open one turn.
UsersUpTo(said, i) == {u \in 1..i : said[u].kind = "user"}
Opening(said, i) == CHOOSE u \in UsersUpTo(said, i) : \A v \in UsersUpTo(said, i) : v <= u
SameTurn(said, i, j) ==
  \/ UsersUpTo(said, i) = UsersUpTo(said, j)
  \/ /\ UsersUpTo(said, i) # {} /\ UsersUpTo(said, j) # {}
     /\ said[Opening(said, i)].id # NoId
     /\ said[Opening(said, i)].id = said[Opening(said, j)].id

IdsOf(entry) ==
  LET calls == Calls(entry) IN [k \in DOMAIN calls |-> CallId(entry, calls, k)]
Replies(said) == {i \in DOMAIN said : said[i].kind = "assistant"}

\* A reply or a result before anything the user said has no turn.
OutsideATurn(said) == \E i \in Replies(said) : UsersUpTo(said, i) = {}

\* A reply of calls without prose, or a user's entry with nothing to keep.
Speechless(said) ==
  \/ \E i \in Replies(said) :
       Prose(said[i]) = <<>> /\ (Kept(said[i]) # <<>> \/ Calls(said[i]) # <<>>)
  \/ \E i \in DOMAIN said : said[i].kind = "user" /\ Kept(said[i]) = <<>>

\* The event says more than the message: the blank line between two blocks, or
\* the note about the bytes Pi left out.
Embellished(said) ==
  \E i \in DOMAIN said :
    \/ said[i].kind \in {"user", "assistant"} /\ Len(Prose(said[i])) > 1
    \/ said[i].kind = "user" /\ said[i].cut

\* A result answers one call above it that nothing has answered, in its own turn
\* and of its own tool.
Unanswered(said, i, id) ==
  {j \in Replies(said) : /\ j < i /\ \E k \in DOMAIN IdsOf(said[j]) : IdsOf(said[j])[k] = id
                         /\ ~\E r \in (j + 1)..(i - 1) :
                               said[r].kind = "result" /\ <<said[r].call>> = id}
Answers(said, i) ==
  \E j \in DOMAIN said :
    /\ Unanswered(said, i, <<said[i].call>>) = {j}
    /\ \E k \in DOMAIN Calls(said[j]) :
         /\ IdsOf(said[j])[k] = <<said[i].call>>
         /\ Calls(said[j])[k].name = said[i].name
    /\ SameTurn(said, i, j)
Unsolicited(said) == \E i \in DOMAIN said : said[i].kind = "result" /\ ~Answers(said, i)

\* Two calls of one reply, or of two replies of one turn, have the same id.
Ambiguous(said) ==
  \E i, j \in Replies(said) :
    \E k \in DOMAIN IdsOf(said[i]), l \in DOMAIN IdsOf(said[j]) :
      <<i, k>> # <<j, l>> /\ SameTurn(said, i, j) /\ IdsOf(said[i])[k] = IdsOf(said[j])[l]

CannotBeResumed(said) ==
  \/ OutsideATurn(said) \/ Speechless(said) \/ Embellished(said)
  \/ Unsolicited(said) \/ Ambiguous(said)
=============================================================================
