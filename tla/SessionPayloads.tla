------------------------- MODULE SessionPayloads -------------------------
(***************************************************************************)
(* What a session line holds and what it points at: redaction at the       *)
(* write, the spill of large fields into content-addressed blobs, the      *)
(* recovery copy of a message, and the checks a resume makes of all of it  *)
(* (rupi-store: payload.rs, blob.rs, journal.rs, store.rs).                *)
(*                                                                         *)
(* A text is a sequence of tokens: "plain", "key" (a credential known by   *)
(* its own shape), "scheme" (the word before a credential) and "value"     *)
(* (a credential only after a scheme).  A path is a sequence of keys and a *)
(* key the sequence of its segments between slashes.  A blob is named by   *)
(* its content.  The order of a transaction's writes is SessionStore's;    *)
(* here one step writes a line and its message record.                     *)
(***************************************************************************)
EXTENDS Naturals, Sequences, FiniteSets, SequencesExt

CONSTANTS Chunks,             \* texts a provider streams as one delta
          Outputs,            \* texts a tool returns
          Arguments,          \* argument fields of a call: sequences of [path, text]
          Budget,             \* inline size of a line
          MaxSpills,          \* MAX_SPILLS_PER_LINE
          MaxLines, MaxStops  \* bounds: lines of a session; failed writes and stops

VARIABLES lines,    \* the trace: what reached the file
          buffer,   \* streamed lines not flushed yet
          records,  \* message records of the session log
          intents,  \* message intents pending in the WAL
          blobs,    \* content -> "entry" (renamed into place) | "synced"
          uprooted, \* history: needed contents that a power loss took with their directory
          doing,    \* the append in progress
          said,     \* texts streamed since the request began
          status,   \* "open" | "down" | "refused"
          stops     \* failed writes, crashes and power losses so far

vars == <<lines, buffer, records, intents, blobs, uprooted, doing, said, status, stops>>

-----------------------------------------------------------------------------
(* Texts, redaction and sizes *)

\* A credential by shape, or a value next to its scheme, becomes a marker.
Redact(text) ==
  [i \in DOMAIN text |->
     IF text[i] = "key" \/ (text[i] = "value" /\ i > 1 /\ text[i - 1] = "scheme")
     THEN "marker" ELSE text[i]]

Count(text, token) == Cardinality({i \in DOMAIN text : text[i] = token})
Size(text) == Len(text) + 2 * Count(text, "key") + Count(text, "marker")

\* The preview and notice that stay in a line for a spilled field.
Kept == <<"kept">>

RedactFields(fields) == [i \in DOMAIN fields |-> [fields[i] EXCEPT !.text = Redact(@)]]

-----------------------------------------------------------------------------
(* Bounding a line: the largest field that is no pointer is spilled first *)

Measure(fields) == FoldLeft(LAMBDA n, field : n + Size(field.text), 0, fields)

IsPointer(path) == Last(path) = <<"call_id">>
Joined(path) == FlattenSeq(path)
Spilled(line) == {line.ext[i].field : i \in DOMAIN line.ext}

Candidates(line) ==
  {i \in DOMAIN line.fields : /\ ~IsPointer(line.fields[i].path)
                              /\ Joined(line.fields[i].path) \notin Spilled(line)}

Largest(line) ==
  CHOOSE i \in Candidates(line) :
    \A j \in Candidates(line) : \/ Size(line.fields[j].text) < Size(line.fields[i].text)
                                \/ /\ Size(line.fields[j].text) = Size(line.fields[i].text)
                                   /\ i <= j

\* One round of payload::bound; a line that fits, or cannot shrink, stays.
SpillLargest(line) ==
  IF \/ Measure(line.fields) <= Budget
     \/ Candidates(line) = {}
     \/ Size(line.fields[Largest(line)].text) <= Size(Kept)
  THEN line
  ELSE LET i == Largest(line)
       IN [line EXCEPT !.fields[i].text = Kept,
                       !.ext = Append(@, [field |-> Joined(line.fields[i].path),
                                          ref |-> line.fields[i].text])]

Bound(line) == FoldLeft(LAMBDA l, round : SpillLargest(l), line, [r \in 1..MaxSpills |-> r])

\* The line that append_bounded writes for an event.
LineOf(event) ==
  Bound([kind |-> event.kind, fields |-> RedactFields(event.fields), ext |-> <<>>,
         visible |-> event.visible, blob |-> event.blob])

-----------------------------------------------------------------------------
(* The events of a response *)

Text(t) == <<[path |-> <<<<"text">>>>, text |-> t]>>
NoMessage == [text |-> <<>>, args |-> <<>>]
NoBlob == <<"none">>

Event(kind, fields, visible, blob, introduces, message) ==
  [kind |-> kind, fields |-> fields, visible |-> visible, blob |-> blob,
   introduces |-> introduces, message |-> message]

Delta(t) == Event("delta", Text(t), 0, NoBlob, FALSE, NoMessage)
Completed(args) ==
  Event("completed", <<>>, 0, NoBlob, TRUE, [text |-> FlattenSeq(said), args |-> args])
Requested(args) ==
  Event("requested", <<[path |-> <<<<"call_id">>>>, text |-> <<"plain", "plain">>]>> \o args,
        0, NoBlob, FALSE, NoMessage)
Returned(t, full) ==
  Event("returned", <<>>, Size(t), IF full THEN Redact(t) ELSE NoBlob, TRUE,
        [text |-> t, args |-> <<>>])

Redacted(message) == [text |-> Redact(message.text), args |-> RedactFields(message.args)]

\* A recovery copy above the inline limit goes to a blob of its own.
CopyBlob(message) == <<"copy", Redacted(message)>>
CopyIsLarge(message) == Size(Redacted(message).text) + Measure(Redacted(message).args) > Budget

-----------------------------------------------------------------------------
Idle == [step |-> "idle"]

Init ==
  /\ lines = <<>> /\ buffer = <<>> /\ records = <<>> /\ intents = {}
  /\ blobs = <<>> /\ uprooted = {} /\ said = <<>>
  /\ doing = Idle /\ status = "open" /\ stops = 0

Free == status = "open" /\ doing = Idle
Written == Len(lines) + Len(buffer)
LastKind == IF Written = 0 THEN "closed" ELSE Last(lines \o buffer).kind

\* Calls of the last response that no request line has announced yet.
CallsOpen == LastKind = "completed" /\ records # <<>> /\ Last(records).args # <<>>

Start(event, step, puts) ==
  /\ doing' = [step |-> step, event |-> event, puts |-> puts, fresh |-> {}]
  /\ UNCHANGED <<lines, buffer, records, intents, blobs, uprooted, status, stops>>

RefsOf(line) == [i \in DOMAIN line.ext |-> line.ext[i].ref]

\* An event that carries no message: its spilled fields, then its line.
Emit(event) == Start(event, "line", RefsOf(LineOf(event)))

\* emit_message: first the recovery copy, then the intent, then the line.
EmitMessage(event) ==
  Start(event, "intent", IF CopyIsLarge(event.message) THEN <<CopyBlob(event.message)>> ELSE <<>>)

StreamChunk ==
  /\ Free /\ Written < MaxLines
  /\ LastKind # "requested" /\ ~CallsOpen
  /\ \E t \in Chunks : said' = Append(said, t) /\ Emit(Delta(t))

CompleteRequest ==
  /\ Free /\ Written < MaxLines /\ LastKind # "requested" /\ ~CallsOpen
  /\ \E args \in Arguments \union {<<>>} :
       said \o args # <<>> /\ EmitMessage(Completed(args))
  /\ said' = <<>>

RequestTool ==
  /\ Free /\ Written < MaxLines /\ CallsOpen
  /\ \E args \in Arguments : RedactFields(args) = Last(records).args /\ Emit(Requested(args))
  /\ UNCHANGED said

\* The output a reducer shortened is put whole before the result is recorded.
ReturnTool ==
  /\ Free /\ Written < MaxLines /\ LastKind = "requested"
  /\ \E t \in Outputs, full \in BOOLEAN :
       LET event == Returned(t, full)
       IN Start(event, "archive", IF full THEN <<Redact(t)>> ELSE <<>>)
  /\ UNCHANGED said

-----------------------------------------------------------------------------
(* BlobStore::put, one file at a time *)

Known(content) == content \in DOMAIN blobs
SetBlob(content, state) ==
  blobs' = [c \in DOMAIN blobs \union {content} |-> IF c = content THEN state ELSE blobs[c]]

\* The bytes are written to a temporary file, synced and renamed.
WriteBlob ==
  /\ status = "open" /\ doing.step # "idle" /\ doing.puts # <<>>
  /\ ~Known(Head(doing.puts))
  /\ SetBlob(Head(doing.puts), "entry")
  /\ doing' = [doing EXCEPT !.fresh = @ \union {Head(doing.puts)}]
  /\ UNCHANGED <<lines, buffer, records, intents, uprooted, said, status, stops>>

\* The entry is synced also when the bytes were there already.
SyncBlob ==
  /\ status = "open" /\ doing.step # "idle" /\ doing.puts # <<>>
  /\ Known(Head(doing.puts))
  /\ SetBlob(Head(doing.puts), "synced")
  /\ doing' = [doing EXCEPT !.puts = Tail(@)]
  /\ UNCHANGED <<lines, buffer, records, intents, uprooted, said, status, stops>>

\* The whole output is in place: the result is a message event like any other.
ArchiveDone ==
  /\ status = "open" /\ doing.step = "archive" /\ doing.puts = <<>>
  /\ EmitMessage(doing.event) /\ UNCHANGED said

\* A failed write ends the process; its exit may still flush the buffer.
StopOnError ==
  /\ stops < MaxStops /\ stops' = stops + 1
  /\ lines' \in {lines, lines \o buffer} /\ buffer' = <<>>
  /\ doing' = Idle /\ said' = <<>> /\ status' = "down"

\* A write that fails ends the emission; what it wrote so far stays.
WriteFails ==
  /\ status = "open" /\ doing.step # "idle" /\ StopOnError
  /\ UNCHANGED <<records, intents, blobs, uprooted>>

-----------------------------------------------------------------------------
(* The transaction of a message *)

CopyOf(event) ==
  IF CopyIsLarge(event.message) THEN <<CopyBlob(event.message)>> ELSE <<>>

PrepareIntent ==
  /\ status = "open" /\ doing.step = "intent" /\ doing.puts = <<>>
  /\ intents' = intents \union {[at |-> Written + 1, message |-> Redacted(doing.event.message),
                                 copy |-> CopyOf(doing.event)]}
  /\ doing' = [doing EXCEPT !.step = "line", !.puts = RefsOf(LineOf(doing.event))]
  /\ UNCHANGED <<lines, buffer, records, blobs, uprooted, said, status, stops>>

\* A copy that this emission made, and no pending intent names, is removed.
RemoveCopies(event, fresh) ==
  blobs' = [c \in {b \in DOMAIN blobs :
                     ~(/\ b \in fresh /\ <<b>> = CopyOf(event)
                       /\ \A intent \in intents : intent.copy # <<b>>)} |-> blobs[c]]

IntentFails ==
  /\ status = "open" /\ doing.step = "intent" /\ doing.puts = <<>>
  /\ RemoveCopies(doing.event, doing.fresh) /\ StopOnError
  /\ UNCHANGED <<records, intents, uprooted>>

\* A streamed line stays in the buffer; any other line flushes it.
WriteLine ==
  /\ status = "open" /\ doing.step = "line" /\ doing.puts = <<>>
  /\ LET line == LineOf(doing.event)
     IN IF line.kind = "delta"
        THEN buffer' = Append(buffer, line) /\ UNCHANGED lines
        ELSE buffer' = <<>> /\ lines' = lines \o buffer \o <<line>>
  /\ doing' = IF doing.event.introduces THEN [doing EXCEPT !.step = "record"] ELSE Idle
  /\ UNCHANGED <<records, intents, blobs, uprooted, said, status, stops>>

MessageRecord(intent) == [at |-> intent.at, text |-> intent.message.text, args |-> intent.message.args]

AppendRecord ==
  /\ status = "open" /\ doing.step = "record"
  /\ \E intent \in intents :
       /\ intent.at = Len(lines)
       /\ records' = Append(records, MessageRecord(intent))
       /\ intents' = intents \ {intent}
  /\ doing' = Idle
  /\ UNCHANGED <<lines, buffer, blobs, uprooted, said, status, stops>>

-----------------------------------------------------------------------------
(* Stops *)

Crash ==
  /\ stops < MaxStops /\ status = "open"
  /\ status' = "down" /\ stops' = stops + 1
  /\ buffer' = <<>> /\ doing' = Idle /\ said' = <<>>
  /\ UNCHANGED <<lines, records, intents, blobs, uprooted>>

\* What the lines and the pending messages whose lines are there point at.
Owed == {intent \in intents : intent.at <= Len(lines)}
Needed ==
  UNION {{lines[i].blob} \union ToSet(RefsOf(lines[i])) : i \in DOMAIN lines}
    \union UNION {ToSet(intent.copy) : intent \in Owed}

\* A rename may be gone whose directory was not synced, and a directory with all it
\* holds that was made and whose own entry nobody syncs: here each blob has one of its
\* own, and a power loss takes one needed one of them at most (a bound).
PowerLoss ==
  /\ stops < MaxStops /\ status # "refused"
  /\ \E lost \in SUBSET {c \in DOMAIN blobs : blobs[c] = "entry"},
        gone \in {{}} \union {{c} : c \in {b \in DOMAIN blobs \intersect Needed : blobs[b] = "synced"}} :
       /\ blobs' = [c \in DOMAIN blobs \ (lost \union gone) |-> blobs[c]]
       /\ uprooted' = (uprooted \union gone) \intersect Needed
  /\ status' = "down" /\ stops' = stops + 1
  /\ buffer' = <<>> /\ doing' = Idle /\ said' = <<>>
  /\ UNCHANGED <<lines, records, intents>>

-----------------------------------------------------------------------------
(* Resume: pending messages are projected, then everything is validated *)

\* replace_string_field: the recorded name is split at every slash.
FieldNamed(fields, name) ==
  {i \in DOMAIN fields : fields[i].path = [s \in DOMAIN name |-> <<name[s]>>]}

RestoreField(fields, ext) ==
  [i \in DOMAIN fields |-> IF i \in FieldNamed(fields, ext.field)
                           THEN [fields[i] EXCEPT !.text = ext.ref] ELSE fields[i]]

Restorable(line) == \A i \in DOMAIN line.ext : FieldNamed(line.fields, line.ext[i].field) # {}
Restored(line) == FoldLeft(RestoreField, line.fields, line.ext)

\* validate_trace_payloads: every reference has its bytes.
RefsHeld(line) ==
  /\ \A i \in DOMAIN line.ext : Known(line.ext[i].ref)
  /\ line.blob = NoBlob \/ Known(line.blob)

\* The deltas between the request and its completion.
DeltasOf(at) ==
  LET from == CHOOSE f \in 0..(at - 1) :
                /\ f = 0 \/ lines[f].kind # "delta"
                /\ \A j \in (f + 1)..(at - 1) : lines[j].kind = "delta"
  IN FlattenSeq([i \in 1..(at - 1 - from) |-> Restored(lines[from + i])[1].text])

\* validate_message_projection and validate_assistant_message_content.
MessageAgrees(record) ==
  LET line == lines[record.at]
  IN CASE line.kind = "completed" -> record.text = DeltasOf(record.at)
       [] line.kind = "returned" -> Size(record.text) = line.visible

\* The call of a message is the call that was requested.
CallAgrees(record) ==
  \/ lines[record.at].kind # "completed" \/ record.args = <<>>
  \/ record.at = Len(lines)
  \/ lines[record.at + 1].kind # "requested"
  \/ /\ Restorable(lines[record.at + 1])
     /\ Tail(Restored(lines[record.at + 1])) = record.args

Valid(all) ==
  /\ \A i \in DOMAIN lines : RefsHeld(lines[i]) /\ Restorable(lines[i])
  /\ \A i \in DOMAIN all : MessageAgrees(all[i]) /\ CallAgrees(all[i])

CopiesReadable == \A intent \in Owed : intent.copy = <<>> \/ Known(intent.copy[1])

Recovered ==
  records \o SetToSortSeq({MessageRecord(intent) : intent \in Owed}, LAMBDA a, b : a.at < b.at)

\* A request, or a call, that was open is closed by a line of the recovery.
Closing ==
  IF lines # <<>> /\ (\/ Last(lines).kind \in {"delta", "requested"}
                     \/ (Last(lines).kind = "completed" /\ Last(Recovered).args # <<>>))
  THEN <<[kind |-> "closed", fields |-> <<>>, ext |-> <<>>, visible |-> 0, blob |-> NoBlob]>>
  ELSE <<>>

Resume ==
  /\ status = "down"
  /\ IF CopiesReadable /\ Valid(Recovered)
     THEN /\ status' = "open" /\ records' = Recovered /\ intents' = {}
          /\ lines' = lines \o Closing
     ELSE status' = "refused" /\ UNCHANGED <<lines, records, intents>>
  /\ UNCHANGED <<buffer, blobs, uprooted, doing, said, stops>>

-----------------------------------------------------------------------------
Next ==
  \/ StreamChunk \/ CompleteRequest \/ RequestTool \/ ReturnTool
  \/ WriteBlob \/ SyncBlob \/ ArchiveDone \/ WriteFails
  \/ PrepareIntent \/ IntentFails \/ WriteLine \/ AppendRecord
  \/ Crash \/ PowerLoss \/ Resume

Spec == Init /\ [][Next]_vars

-----------------------------------------------------------------------------
(* Properties *)

\* The state is well formed (payload.rs, blob.rs, store.rs Session).
TypeOK ==
  /\ status \in {"open", "down", "refused"} /\ stops \in 0..MaxStops
  /\ \A c \in DOMAIN blobs : blobs[c] \in {"entry", "synced"}
  /\ \A i \in DOMAIN buffer : buffer[i].kind = "delta"
  /\ \A i \in DOMAIN records : records[i].at \in DOMAIN lines

\* The known defect: a directory of blobs that a power loss took is missed.
Uprooted(content) == content \in uprooted /\ ~Known(content)
LineUprooted(line) ==
  Uprooted(line.blob) \/ \E i \in DOMAIN line.ext : Uprooted(line.ext[i].ref)
CopyUprooted(intent) == intent.copy # <<>> /\ Uprooted(intent.copy[1])

\* No line of the file, and no pending message whose event reached it, names
\* bytes that are not there, whatever stopped and whatever a power loss took but for
\* a directory of blobs (blob.rs: "Returning a reference before this sync would let a
\* durable journal line outlive the blob bytes").
NothingDangles ==
  /\ \A i \in DOMAIN lines : RefsHeld(lines[i]) \/ LineUprooted(lines[i])
  /\ \A intent \in Owed : intent.copy = <<>> \/ Known(intent.copy[1]) \/ CopyUprooted(intent)

SlashIn(line) ==
  \E i \in DOMAIN line.fields :
    \E k \in DOMAIN line.fields[i].path : Len(line.fields[i].path[k]) > 1

\* The redacted text of a message is not what its own lines add up to.
RedactionShows(record) ==
  CASE lines[record.at].kind = "completed" -> Redact(DeltasOf(record.at)) # DeltasOf(record.at)
    [] lines[record.at].kind = "returned" -> Count(record.text, "marker") > 0

\* A session is refused only where redaction changed a text between its line and
\* its message, a spilled field has a slash in its name, or a power loss took a
\* directory of blobs: no spill, recovery copy, removed copy or other stop makes one
\* unreadable (store.rs restore).
RefusedForCause ==
  status = "refused" =>
    \/ \E i \in DOMAIN lines : LineUprooted(lines[i])
    \/ \E intent \in Owed : CopyUprooted(intent)
    \/ \E i \in DOMAIN lines : SlashIn(lines[i])
    \/ \E i \in DOMAIN Recovered : RedactionShows(Recovered[i])

Clean(text) == Redact(text) = text
CleanFields(fields) == \A i \in DOMAIN fields : Clean(fields[i].text)

\* No text that reaches a file holds a credential the policy can see in it:
\* neither a line nor the bytes spilled from it, a message, its recovery copy or
\* an archived output (payload.rs: "The caller must apply the redaction policy to
\* line first").
SecretsStayOut ==
  /\ \A i \in DOMAIN (lines \o buffer) :
       LET line == (lines \o buffer)[i]
       IN CleanFields(line.fields) /\ \A e \in DOMAIN line.ext : Clean(line.ext[e].ref)
  /\ \A c \in DOMAIN blobs :
       IF c[1] = "copy" THEN Clean(c[2].text) /\ CleanFields(c[2].args) ELSE Clean(c)
  /\ \A i \in DOMAIN records : Clean(records[i].text) /\ CleanFields(records[i].args)
  /\ \A intent \in intents : Clean(intent.message.text)

\* A line above the budget has nothing left that spilling would shorten, or has
\* had all its spills, and no pointer of it was ever spilled (payload.rs bound).
LinesBounded ==
  \A i \in DOMAIN (lines \o buffer) :
    LET line == (lines \o buffer)[i]
    IN /\ \/ Measure(line.fields) <= Budget
          \/ Len(line.ext) = MaxSpills
          \/ \A c \in Candidates(line) : Size(line.fields[c].text) <= Size(Kept)
       /\ \A f \in DOMAIN line.fields : IsPointer(line.fields[f].path) => line.fields[f].text # Kept

=============================================================================
