------------------------------ MODULE PiImport ------------------------------
(***************************************************************************)
(* Importing a session another agent, Pi, recorded (rupi-store, module     *)
(* pi_import).  Pi's file is a tree of entries written one line at a time; *)
(* the newest entry is the leaf and the walk from it to the root is the    *)
(* conversation.  "plan" turns the entries of that walk into trace events, *)
(* some of which introduce a message; "write" files them as a new session, *)
(* one durable record at a time: the process can die between any two, and  *)
(* what a state holds is what it leaves.  What a resume of the session     *)
(* then says is the store's own checks, restricted to the events an import *)
(* makes.                                                                  *)
(***************************************************************************)
EXTENDS PiEntries, Naturals, FiniteSets, Sequences

CONSTANTS
  Sayings,      \* the entries Pi may write, without their place in the tree
  Ordinary,     \* those of them every session has
  MaxEntries,   \* bound on the entries of a file
  MaxOdd        \* bound on what is out of the ordinary in one file

VARIABLES
  file,    \* the entries read: a saying with its id and its parent's
  damaged, \* the lines that are not JSON objects
  odd,     \* how much is out of the ordinary
  stage,   \* "recording", "refused", "writing", "binding" or "done"
  path,    \* the lines of the entries on the active path, oldest first
  plan,    \* the events to write, in order
  next,    \* the event to write next
  trace,   \* the events written
  log      \* the messages written, each bound to an event of the trace

-----------------------------------------------------------------------------
(* The store's checks when the session is opened again, for events without *)
(* a causal parent.                                                        *)

Written(kinds) == {e \in DOMAIN trace : trace[e].kind \in kinds}
MessagesAt(e) == {m \in DOMAIN log : log[m].event = e}

RequestsHaveTurns ==
  \A e \in Written({"request started", "request completed"}) : trace[e].turn # NoTurn

\* A request is pending from when it was recorded to the first end that names
\* its call; the start, the end and the request agree on turn and name.
RequestsOf(call) == {e \in Written({"tool requested"}) : trace[e].calls = call}
EndsOf(call) == {e \in Written({"tool completed", "tool failed"}) : trace[e].calls = call}
PendingAt(e) ==
  LET call == trace[e].calls
      before(events) == {f \in events : f < e}
  IN {r \in before(RequestsOf(call)) :
        Cardinality({x \in before(EndsOf(call)) : x > r}) = 0}

ToolLifecyclesValid ==
  /\ \A e \in Written({"tool requested"}) : trace[e].turn # NoTurn
  /\ \A e \in Written({"tool started", "tool completed", "tool failed"}) :
       \E r \in DOMAIN trace :
         /\ PendingAt(e) = {r}
         /\ trace[r].turn = trace[e].turn /\ trace[r].name = trace[e].name

\* Every call of a recorded message has at most one request it could mean.
CallsAreUnambiguous ==
  \A m \in DOMAIN log :
    LET calls == log[m].message.calls
    IN log[m].message.role = "assistant" =>
         /\ \A j, k \in DOMAIN calls : calls[j].id = calls[k].id => j = k
         /\ \A k \in DOMAIN calls :
              Cardinality({r \in RequestsOf(<<calls[k].id>>) :
                             r > log[m].event /\ trace[r].turn = log[m].turn}) <= 1

\* Every user message and every ended call has its message.
EveryEventProjected ==
  \A e \in Written({"user", "tool completed", "tool failed"}) : MessagesAt(e) # {}

\* The message agrees with the event that introduces it.
ProjectionValid(m) ==
  LET event == trace[log[m].event]
      message == log[m].message
  IN /\ event.turn = log[m].turn
     /\ \/ event.kind = "user" /\ message.text = event.text
             /\ message.images <= event.attachments
        \/ event.kind = "assistant delta" /\ message.text = event.text
        \/ event.kind \in {"tool completed", "tool failed"}
             /\ message.calls[1].name = event.name

Resumable ==
  /\ RequestsHaveTurns /\ CallsAreUnambiguous /\ ToolLifecyclesValid
  /\ EveryEventProjected
  /\ \A m \in DOMAIN log : ProjectionValid(m)

-----------------------------------------------------------------------------
(* Pi writes its file; the import reads it once.                           *)

Init ==
  /\ file = <<>> /\ damaged = 0 /\ odd = 0 /\ stage = "recording"
  /\ path = <<>> /\ plan = <<>> /\ next = 1 /\ trace = <<>> /\ log = <<>>

Missing == 99   \* an id no entry of the file has

\* In a file with an entry without an id no id counts for anything.
Linear == \E l \in DOMAIN file : file[l].id = NoId

\* The places an entry may take: below the newest entry, on another branch, below
\* an entry that is gone, or with an id that is taken or none at all.
Places ==
  LET here == Len(file) + 1
      above == IF file = <<>> THEN NoId ELSE file[Len(file)].id
  IN IF Linear THEN {<<id, NoId>> : id \in {NoId, here} \cup {file[l].id : l \in DOMAIN file}}
     ELSE
     {<<here, above>>}
     \cup {<<here, p>> : p \in (0..here) \cup {Missing}}
     \cup (IF file = <<>> THEN {} ELSE {<<file[1].id, above>>})
     \cup {<<NoId, NoId>>}

OutOfPlace(place) ==
  ~Linear /\ place # <<Len(file) + 1, IF file = <<>> THEN NoId ELSE file[Len(file)].id>>

Record(saying, place) ==
  LET cost == (IF saying \in Ordinary THEN 0 ELSE 1) + (IF OutOfPlace(place) THEN 1 ELSE 0)
  IN /\ stage = "recording" /\ Len(file) < MaxEntries /\ odd + cost <= MaxOdd
     /\ file' = Append(file, [kind |-> saying.kind, blocks |-> saying.blocks,
                              plain |-> saying.plain, cut |-> saying.cut,
                              call |-> saying.call, name |-> saying.name,
                              failed |-> saying.failed, model |-> saying.model,
                              id |-> place[1], parent |-> place[2]])
     /\ odd' = odd + cost
     /\ UNCHANGED <<damaged, stage, path, plan, next, trace, log>>

Damage ==
  /\ stage = "recording" /\ damaged = 0 /\ odd < MaxOdd
  /\ damaged' = 1 /\ odd' = odd + 1
  /\ UNCHANGED <<file, stage, path, plan, next, trace, log>>

\* The import reads and plans before any destination is opened.
ReadAndPlan ==
  LET active == ActivePath(file)
  IN /\ stage = "recording"
     /\ IF active.failed # ""
        THEN stage' = "refused" /\ UNCHANGED <<path, plan>>
        ELSE /\ stage' = "writing"
             /\ path' = active.lines
             /\ plan' = PlanOf(file, active.lines).events
     /\ UNCHANGED <<file, damaged, odd, next, trace, log>>

Emit ==
  /\ stage = "writing" /\ next <= Len(plan)
  /\ trace' = Append(trace, plan[next])
  /\ IF plan[next].message = NoMessage
     THEN next' = next + 1 /\ UNCHANGED stage
     ELSE stage' = "binding" /\ UNCHANGED next
  /\ UNCHANGED <<file, damaged, odd, path, plan, log>>

\* The message of an event outside any turn gets a turn of its own.
AppendMessage ==
  /\ stage = "binding"
  /\ log' = Append(log, [event |-> Len(trace), message |-> plan[next].message,
                         turn |-> IF plan[next].turn # NoTurn THEN plan[next].turn
                                  ELSE Anchor(file[plan[next].line], plan[next].line)])
  /\ next' = next + 1 /\ stage' = "writing"
  /\ UNCHANGED <<file, damaged, odd, path, plan, trace>>

\* A session that imported nothing gets the one event that says so.
Finish ==
  /\ stage = "writing" /\ next > Len(plan)
  /\ trace' = IF trace = <<>> THEN << Event("diagnostic", 0, NoTurn) >> ELSE trace
  /\ stage' = "done"
  /\ UNCHANGED <<file, damaged, odd, path, plan, next, log>>

Write == Emit \/ AppendMessage \/ Finish

Next ==
  \/ \E saying \in Sayings, place \in Places : Record(saying, place)
  \/ Damage \/ ReadAndPlan \/ Write

-----------------------------------------------------------------------------
Stages == {"recording", "refused", "writing", "binding", "done"}

\* Every variable has the values the code can give it, and every message is
\* bound to an event that was written.
TypeOK ==
  /\ stage \in Stages /\ damaged \in 0..1 /\ odd \in 0..MaxOdd
  /\ Len(file) <= MaxEntries /\ next \in 1..(Len(plan) + 1)
  /\ \A l \in DOMAIN file : file[l].id \in 0..MaxEntries
  /\ Range(path) \subseteq DOMAIN file
  /\ \A m \in DOMAIN log : log[m].event \in DOMAIN trace

Said == [k \in DOMAIN path |-> file[path[k]]]

\* The conversations a file could hold: a root, entries each below the one
\* before it, and the newest entry last; in a file that is no tree, the file.
Conversations ==
  IF \E l \in DOMAIN file : file[l].id = NoId THEN {[l \in DOMAIN file |-> l]}
  ELSE {lines \in UNION {[1..n -> DOMAIN file] : n \in 0..Len(file)} :
          /\ file = <<>> \/ (lines # <<>> /\ lines[Len(lines)] = Len(file))
          /\ lines # <<>> => file[lines[1]].parent = NoId
          /\ \A k \in 2..Len(lines) : file[lines[k]].parent = file[lines[k - 1]].id
          /\ \A j, k \in DOMAIN lines : lines[j] = lines[k] => j = k}
IdsAreTaken ==
  /\ \A l \in DOMAIN file : file[l].id # NoId
  /\ \E l, m \in DOMAIN file : l # m /\ file[l].id = file[m].id

\* What is imported is one conversation of the file, the newest, and a file is
\* refused only when it has none or when an id is taken twice (active_path).
OneConversation ==
  /\ stage = "refused" => IdsAreTaken \/ Conversations = {}
  /\ stage \notin {"recording", "refused"} => ~IdsAreTaken /\ Conversations = {path}

\* An imported session can be resumed unless its file has one of the reasons
\* CannotBeResumed lists: what the import files and what the store asks of a
\* session agree on everything else (plan and write against restore).
ResumesUnlessKnown ==
  stage = "done" => (Resumable <=> ~CannotBeResumed(Said))

\* At every moment, which may be the import's last, the messages are those of the
\* first entries of the conversation, in their order, none twice and none of
\* another branch; at the end they are all there.
Speaks(entry) ==
  \/ entry.kind = "user" /\ Kept(entry) # <<>>
  \/ entry.kind = "assistant" /\ (Kept(entry) # <<>> \/ Calls(entry) # <<>>)
  \/ entry.kind = "result"
Speaking == SelectSeq(path, LAMBDA line : Speaks(file[line]))
MessageIsFaithful(m) ==
  LET entry == file[trace[log[m].event].line]
      message == log[m].message
  IN /\ entry.kind = (IF message.role = "tool" THEN "result" ELSE message.role)
     /\ entry.kind # "result" => message.text = Prose(entry)
     /\ entry.kind = "assistant" => Len(message.calls) = Len(Calls(entry))
     /\ \A l \in Range(path) :
          Names(file[l]) /\ l <= trace[log[m].event].line
            /\ (\A n \in Range(path) :
                   Names(file[n]) /\ l < n => n > trace[log[m].event].line)
          => message.model = Named(file[l])
TheirWords ==
  LET lines == [m \in DOMAIN log |-> trace[log[m].event].line]
  IN /\ IsPrefix(lines, Speaking)
     /\ stage = "done" => lines = Speaking
     /\ \A m \in DOMAIN log : MessageIsFaithful(m)

BlocksImported(line) ==
  LET entry == file[line]
      events == {e \in DOMAIN trace : trace[e].line = line}
      of(kinds) == {e \in events : trace[e].kind \in kinds}
      texts == UNION {Range(trace[e].text) : e \in events}
      images == {e \in events : trace[e].message.images > 0}
  IN (texts \cap DOMAIN entry.blocks)
     \cup (IF images # {} THEN Range(BlocksOf(entry, {"image"})) ELSE {})
     \cup (IF Cardinality(of({"tool requested"})) = Len(BlocksOf(entry, {"call"}))
           THEN Range(BlocksOf(entry, {"call"})) ELSE {})
     \cup (IF Cardinality(of({"reasoning"})) = Len(BlocksOf(entry, {"thinking"}))
           THEN Range(BlocksOf(entry, {"thinking"})) ELSE {})
\* What the import drops without a word, against pi_import.rs:9-15 and 643-645: a "more" or
\* session entry within the file, an assistant's bare string and the bytes its entry
\* says were left out, the images of a result, and thoughts and calls outside a reply or
\* without a text or, outside a reply, a name.
DroppedEntry(entry) == entry.kind = "session"
DroppedCut(entry) == entry.kind = "assistant"
DroppedBlocks(entry) ==
  CASE Unread(entry) -> DOMAIN entry.blocks
    [] entry.kind = "assistant" /\ ~Unread(entry) -> Range(BlocksOf(entry, {"blank thinking"}))
    [] entry.kind = "user" ->
         Range(BlocksOf(entry, {"thinking", "blank thinking", "call", "unnamed call"}))
    [] entry.kind = "result" ->
         Range(BlocksOf(entry, {"thinking", "blank thinking", "call", "unnamed call", "image"}))
    [] OTHER -> {}

\* But for those, whatever the conversation has is imported or named in the report as
\* left out: each entry, each block of it, and the bytes Pi left out of it.
NothingIsSilent ==
  stage = "done" =>
    \A line \in Range(path) :
      LET entry == file[line]
          events == {e \in DOMAIN trace : trace[e].line = line}
      IN /\ DroppedEntry(entry) \/ Reported(entry) \/ events # {}
         /\ DOMAIN entry.blocks
              \subseteq BlocksImported(line) \cup ReportedBlocks(entry) \cup DroppedBlocks(entry)
         /\ entry.cut => DroppedCut(entry) \/ \E e \in events : Cut \in Range(trace[e].text)

-----------------------------------------------------------------------------
(***************************************************************************)
(* rupi import-pi on a directory: every file in name order, each filed as  *)
(* a session of its own under the id its header gives it.  Several such    *)
(* commands may run at once, and any may be killed; sessions rupi records  *)
(* itself get ids that grow with time.  A listing of the sessions puts the *)
(* largest id first and calls it the newest.                               *)
(***************************************************************************)
CONSTANTS
  Importers,   \* the import commands
  Files,      \* the files of the directory, in name order
  Readable,   \* the files that can be read and planned
  IdOf,       \* the session id of a file: two files may have one id
  Imports,    \* the ids of imported sessions
  MaxNative   \* bound on the sessions rupi records itself

VARIABLES
  work,      \* command -> [next, imported, failed, end]
  session,   \* id -> [by, file, whole], or NoSession
  native,    \* how many sessions rupi recorded itself
  latest     \* the id of the session begun last

batchVars == <<work, session, native, latest>>

NoSession == [by |-> "none", file |-> 0, whole |-> FALSE]
Absent(id) == session[id] = NoSession

BatchInit ==
  /\ work = [c \in Importers |-> [next |-> 1, imported |-> 0, failed |-> 0, end |-> "none"]]
  /\ session = [id \in Imports |-> NoSession]
  /\ native = 0 /\ latest = 0

Running(c) == work[c].end = "none"
Here(c) == work[c].next
Finished(c) == Here(c) > Len(Files)
Filing(c) ==
  {id \in Imports : session[id].by = c /\ ~session[id].whole /\ session[id].file = Here(c)}

\* A file that cannot be read, or whose id has a session, is one failure line.
FileFails(c) ==
  /\ Running(c) /\ ~Finished(c) /\ Filing(c) = {}
  /\ Files[Here(c)] \notin Readable \/ ~Absent(IdOf[Files[Here(c)]])
  /\ work' = [work EXCEPT ![c].next = @ + 1, ![c].failed = @ + 1]
  /\ UNCHANGED <<session, native, latest>>

\* (mutant) a session that is there is written over
BeginAgain(c) ==
  /\ Running(c) /\ ~Finished(c) /\ Filing(c) = {}
  /\ Files[Here(c)] \in Readable
  /\ session' = [session EXCEPT ![IdOf[Files[Here(c)]]] =
                   [by |-> c, file |-> Here(c), whole |-> FALSE]]
  /\ latest' = IdOf[Files[Here(c)]]
  /\ UNCHANGED <<work, native>>

\* The lease and the first line of the log claim the id.
Begin(c) ==
  /\ Running(c) /\ ~Finished(c) /\ Filing(c) = {}
  /\ Files[Here(c)] \in Readable /\ Absent(IdOf[Files[Here(c)]])
  /\ session' = [session EXCEPT ![IdOf[Files[Here(c)]]] =
                   [by |-> c, file |-> Here(c), whole |-> FALSE]]
  /\ latest' = IdOf[Files[Here(c)]]
  /\ UNCHANGED <<work, native>>

Filed(c) ==
  /\ Running(c)
  /\ \E id \in Filing(c) : session' = [session EXCEPT ![id].whole = TRUE]
  /\ work' = [work EXCEPT ![c].next = @ + 1, ![c].imported = @ + 1]
  /\ UNCHANGED <<native, latest>>

\* The report's reader went away: the batch stops between two files.
PipeClosed(c) ==
  /\ Running(c) /\ ~Finished(c) /\ Filing(c) = {}
  /\ work' = [work EXCEPT ![c].end = "pipe closed"]
  /\ UNCHANGED <<session, native, latest>>

Kill(c) ==
  /\ Running(c) /\ work' = [work EXCEPT ![c].end = "killed"]
  /\ UNCHANGED <<session, native, latest>>

End(c) ==
  /\ Running(c) /\ Finished(c)
  /\ work' = [work EXCEPT ![c].end = IF @ = "none" /\ work[c].failed = 0
                                     THEN "success" ELSE "failure"]
  /\ UNCHANGED <<session, native, latest>>

RecordNatively ==
  /\ native < MaxNative /\ native' = native + 1 /\ latest' = native + 1
  /\ UNCHANGED <<work, session>>

Import(c) == FileFails(c) \/ Begin(c) \/ Filed(c) \/ PipeClosed(c) \/ End(c)
BatchNext == \/ \E c \in Importers : Import(c) \/ Kill(c)
        \/ RecordNatively

\* list_session_ids: every id with a session, the largest first.
Listed == (1..native) \cup {id \in Imports : ~Absent(id)}
Newest == CHOOSE id \in Listed : \A other \in Listed : other <= id

-----------------------------------------------------------------------------
\* Importers move through the files, and a session belongs to a command.
BatchTypeOK ==
  /\ \A c \in Importers : /\ work[c].next \in 1..(Len(Files) + 1)
                         /\ work[c].imported + work[c].failed = work[c].next - 1
  /\ \A id \in Imports : Absent(id) \/ session[id].by \in Importers

\* A command that reports success left every file of the directory in the store,
\* whole, as a session of its own, whatever other commands did meanwhile; one
\* that reports a failure did leave one out (execute_batch, begin).
SuccessIsWhole ==
  \A c \in Importers :
    LET own == {id \in Imports : session[id].by = c /\ session[id].whole}
    IN /\ work[c].end = "success" =>
            /\ \A f \in DOMAIN Files : \E id \in own : id = IdOf[Files[f]] /\ session[id].file = f
       /\ work[c].end = "failure" => Cardinality(own) < Len(Files)

\* Of every step: no session holds what two files or two commands wrote: once an id is claimed,
\* what it holds only grows to the whole of the one file.
ClaimedOnce ==
  \A id \in Imports :
    ~Absent(id) => /\ session'[id].by = session[id].by
                   /\ session'[id].file = session[id].file
                   /\ session[id].whole => session'[id].whole

=============================================================================
