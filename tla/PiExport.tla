------------------------------ MODULE PiExport ------------------------------
(***************************************************************************)
(* Exporting a session in Pi's shape (rupi export): the trace, which       *)
(* records a reply as streamed deltas between the start and the end of a   *)
(* request, is folded into one entry per user message and one per reply,   *)
(* each the child of the one before it.  The trace grows while it is       *)
(* exported: every state is a moment at which an export may read it, a     *)
(* crash in the middle of a reply among them.                              *)
(***************************************************************************)
EXTENDS PiEntries, Naturals, Integers, Sequences

CONSTANTS
  Models,     \* the models that answer
  MaxEvents,  \* bound on the events of the trace
  MaxUsers    \* bound on the user messages

VARIABLES
  events,  \* the trace: [kind, said, model]
  request  \* the model of the request under way, or NoModel

exportVars == <<events, request>>

NoModel == ""
At(kind, model, said) == [kind |-> kind, model |-> model, said |-> said]
Of(kinds) == {e \in DOMAIN events : events[e].kind \in kinds}

-----------------------------------------------------------------------------
(* The fold.                                                               *)

NoReply == [at |-> 0, text |-> <<>>, model |-> NoModel]
NothingFolded == [entries |-> <<>>, reply |-> NoReply, model |-> NoModel, dropped |-> {}]

ExportedEntry(kind, at, text, model, parent) ==
  [kind |-> kind, id |-> at, parent |-> parent, text |-> text, model |-> model,
   plain |-> kind = "user", cut |-> FALSE, call |-> NoCall, name |-> "", failed |-> FALSE,
   blocks |-> IF text = <<>> THEN <<>> ELSE <<[type |-> "text", call |-> NoCall, name |-> ""]>>]

Push(fold, kind, at, text, model) ==
  LET count == Len(fold.entries)
      parent == IF count = 0 THEN NoId ELSE fold.entries[count].id
  IN [fold EXCEPT !.entries = Append(@, ExportedEntry(kind, at, text, model, parent))]

\* A reply whose request never ended is written before what follows it.
Flush(fold, model) ==
  IF fold.reply = NoReply THEN fold
  ELSE [Push(fold, "assistant", fold.reply.at, fold.reply.text,
             IF fold.reply.model = NoModel THEN model ELSE fold.reply.model)
          EXCEPT !.reply = NoReply]

FoldEvent(fold, e) ==
  LET event == events[e]
  IN CASE event.kind = "user" ->
            Push(Flush(fold, NoModel), "user", e, IF event.said THEN <<e>> ELSE <<>>, NoModel)
       [] event.kind = "request started" -> [fold EXCEPT !.model = event.model]
       [] event.kind = "assistant delta" ->
            [fold EXCEPT !.reply = IF fold.reply = NoReply
                                   THEN [at |-> e, text |-> <<e>>, model |-> fold.model]
                                   ELSE [@ EXCEPT !.text = Append(@, e)]]
       [] event.kind = "request completed" ->
            [Flush(fold, event.model) EXCEPT !.model = event.model]
       [] OTHER -> [fold EXCEPT !.dropped = @ \cup {e}]

Render ==
  LET order == [e \in DOMAIN events |-> e]
  IN Flush(FoldLeft(FoldEvent, NothingFolded, order), NoModel)

-----------------------------------------------------------------------------
(* The session that is exported.                                           *)

Init == events = <<>> /\ request = NoModel

Room == Len(events) < MaxEvents
Log(kind, model, said) == events' = Append(events, At(kind, model, said))

\* What the user says, or only an image.
Say(said) ==
  /\ Room /\ request = NoModel /\ Cardinality(Of({"user"})) < MaxUsers
  /\ Log("user", NoModel, said) /\ UNCHANGED request

Ask(model) ==
  /\ Room /\ request = NoModel /\ Of({"user"}) # {}
  /\ Log("request started", model, TRUE) /\ request' = model

Delta ==
  Room /\ request # NoModel /\ Log("assistant delta", NoModel, TRUE) /\ UNCHANGED request

\* Reasoning, a tool's events, a diagnostic: nothing the export writes.
Other == Room /\ events # <<>> /\ Log("other", NoModel, TRUE) /\ UNCHANGED request

\* The request ends, also when it failed; a later process ends one that a crash
\* left open.
Complete ==
  /\ Room /\ request # NoModel
  /\ Log("request completed", request, TRUE) /\ request' = NoModel

Next ==
  \/ \E said \in BOOLEAN : Say(said)
  \/ \E model \in Models : Ask(model)
  \/ Delta \/ Other \/ Complete


-----------------------------------------------------------------------------
\* The trace is what a turn loop records and the request under way its last.
TypeOK ==
  /\ request \in Models \cup {NoModel} /\ Len(events) <= MaxEvents
  /\ request # NoModel <=>
       Cardinality(Of({"request started"})) > Cardinality(Of({"request completed"}))

\* What was said, by the trace: every user message, and of every request the
\* text that arrived between its start and its end, with the model asked.
EndOf(s) == {c \in Of({"request completed"}) : c > s}
RequestText(s) ==
  SelectSeq([e \in DOMAIN events |-> e],
            LAMBDA e : /\ events[e].kind = "assistant delta" /\ e > s
                       /\ ~\E c \in EndOf(s) : c < e)
Talk ==
  LET speaks == SelectSeq([e \in DOMAIN events |-> e],
                  LAMBDA e : \/ events[e].kind = "user" /\ events[e].said
                             \/ events[e].kind = "request started" /\ RequestText(e) # <<>>)
  IN [k \in DOMAIN speaks |->
        IF events[speaks[k]].kind = "user" THEN [role |-> "user", text |-> <<speaks[k]>>]
        ELSE [role |-> "assistant", text |-> RequestText(speaks[k]),
              model |-> events[speaks[k]].model]]

\* The conversation an import of the export holds.
Imported ==
  LET entries == Render.entries
      plan == PlanOf(entries, ActivePath(entries).lines).events
      introducing == SelectSeq(plan, LAMBDA event : event.message # NoMessage)
  IN [k \in DOMAIN introducing |->
        LET entry == entries[introducing[k].line]
        IN IF introducing[k].message.role = "user" THEN [role |-> "user", text |-> entry.text]
           ELSE [role |-> "assistant", text |-> entry.text,
                 model |-> introducing[k].message.model]]

\* An export that is imported again holds the conversation of the trace: every
\* user message and every reply, whole, in order, by the model that gave it
\* (render, push_entry; active_path and plan of the import).
RoundTrip ==
  LET entries == Render.entries
  IN /\ ActivePath(entries) = [failed |-> "", lines |-> [l \in DOMAIN entries |-> l]]
     /\ Imported = Talk

\* Such a session can be resumed, unless the user once said nothing but an image.
RoundTripResumes ==
  CannotBeResumed(Render.entries) => \E u \in Of({"user"}) : ~events[u].said

\* Every event is in an entry, is the start or the end of a request, or is
\* counted as dropped: an export is never quieter about text than its trace.
NothingUncounted ==
  LET fold == Render
      written == UNION {Range(fold.entries[l].text) : l \in DOMAIN fold.entries}
  IN \A e \in DOMAIN events :
       \/ e \in written \/ e \in fold.dropped
       \/ events[e].kind \in {"request started", "request completed"}
       \/ events[e].kind = "user" /\ ~events[e].said

-----------------------------------------------------------------------------
(***************************************************************************)
(* The stamps of a Pi session: the export writes the days since 1970 as a  *)
(* civil date and the import reads the date back (export_pi.rs,            *)
(* pi_import.rs).  A calendar that only knows how long its months are      *)
(* walks through the days beside them.                                     *)
(***************************************************************************)
CONSTANT LastDay   \* the last day looked at

VARIABLES day, date   \* days since 1970-01-01; the same day as <<year, month, day>>

stampVars == <<day, date>>

\* pi_timestamp: from the days to the date.  The arithmetic is unsigned: a day of
\* the year below zero stops a checked build and is no date in any other.
NoDate == <<0, 0, 0>>
CivilDate(days) ==
  LET shifted == days + 719468
      era == shifted \div 146097
      dayOfEra == shifted - era * 146097
      yearOfEra == (dayOfEra - dayOfEra \div 1461 + dayOfEra \div 36524
                      - dayOfEra \div 146096) \div 365
      dayOfYear == dayOfEra - (365 * yearOfEra + yearOfEra \div 4 - yearOfEra \div 100)
      probe == (5 * dayOfYear + 2) \div 153
      month == IF probe < 10 THEN probe + 3 ELSE probe - 9
  IN IF dayOfYear < 0 THEN NoDate
     ELSE <<yearOfEra + era * 400 + (IF month <= 2 THEN 1 ELSE 0), month,
            dayOfYear - (153 * probe + 2) \div 5 + 1>>

\* days_from_epoch: from the date to the days.  Years before 0 are left out.
DaysFromEpoch(civil) ==
  LET early == civil[2] <= 2
      year == IF early THEN civil[1] - 1 ELSE civil[1]
      month == IF early THEN civil[2] + 9 ELSE civil[2] - 3
      era == year \div 400
      yearOfEra == year - era * 400
      dayOfEra == 365 * yearOfEra + yearOfEra \div 4 - yearOfEra \div 100
                    + (153 * month + 2) \div 5 + civil[3] - 1
  IN era * 146097 + dayOfEra - 719468

Leap(year) == year % 4 = 0 /\ (year % 100 # 0 \/ year % 400 = 0)
Length(year, month) ==
  CASE month = 2 -> IF Leap(year) THEN 29 ELSE 28
    [] month \in {4, 6, 9, 11} -> 30
    [] OTHER -> 31
Tomorrow ==
  LET y == date[1] m == date[2] d == date[3]
  IN CASE d < Length(y, m) -> <<y, m, d + 1>>
       [] d = Length(y, m) /\ m < 12 -> <<y, m + 1, 1>>
       [] d = Length(y, m) /\ m = 12 -> <<y + 1, 1, 1>>

StampInit == day = 0 /\ date = <<1970, 1, 1>>
StampNext == day < LastDay /\ day' = day + 1 /\ date' = Tomorrow

-----------------------------------------------------------------------------
StampTypeOK == day \in 0..LastDay /\ date[2] \in 1..12 /\ date[3] \in 1..31

\* It is so on every day that is not a 29th of February, which the export divides
\* by a cycle one day too long to see; the import reads every date right.
StampsKeepOtherDays ==
  /\ DaysFromEpoch(date) = day
  /\ CivilDate(day) = date \/ (date[2] = 2 /\ date[3] = 29)
=============================================================================
