--------------------------- MODULE SessionRestore ---------------------------
(***************************************************************************)
(* The two durable vocabularies of a rupi session.                         *)
(*                                                                         *)
(* An EVENT is one line of the canonical trace journal (rupi-core          *)
(* AgentEvent inside a TraceEntry); a RECORD is one line of the semantic   *)
(* session log (SessionRecord), the projection a resume rebuilds the       *)
(* model-visible window from.  Only the fields the recovery code compares  *)
(* are kept; payloads, models, timings and redaction are left out.         *)
(***************************************************************************)
EXTENDS Naturals, Sequences

CONSTANT Texts        \* the summary texts a compaction may produce

NoText == ""
ASSUME TextsAssumption == NoText \notin Texts

(* 0 stands for "absent" in every optional id, sequence or count below:     *)
(* the code starts sequences at 1 and refuses zero.                         *)

\* What is said to the model, and what it answers: a ModelRequestCompleted
\* that leaves an assistant message.
SaidKinds == {"UserMessage", "AssistantMessage"}

MessageKinds == SaidKinds \cup {"ContextSummary"}

\* Events whose projection record is attached to the WAL after the append.
RecordKinds == {"ContextReduced", "CompactionCompleted",
                "CheckpointCreated", "CheckpointCompleted"}

\* Events whose intent stays open until a later step releases it.
HeldKinds == {"CompactionStarted", "OutputLimited"}

\* Events that never touch the WAL.
PlainKinds == {"AssistantDelta", "CompactionEpoch", "CompactionAborted"}

EventKinds == MessageKinds \cup RecordKinds \cup HeldKinds \cup PlainKinds

Event == [id : Nat, seq : Nat, kind : EventKinds, turn : Nat, parent : Nat,
          epoch : Nat, from : Nat, through : Nat,
          removed : Nat, retained : Nat, text : Texts \cup {NoText}]

NewEvent(kind, id, turn) ==
  [id |-> id, seq |-> 0, kind |-> kind, turn |-> turn, parent |-> 0,
   epoch |-> 0, from |-> 0, through |-> 0, removed |-> 0, retained |-> 0,
   text |-> NoText]

\* (mutant) a message is thought safe to leave in the buffer
DurableExceptMessages(e) == e.kind \notin {"AssistantDelta", "UserMessage"}

\* requires_durable_write: only streaming deltas may wait in the buffer.
Durable(e) == e.kind # "AssistantDelta"

LogKinds == {"Message", "Reduction", "Compaction", "Aborted",
             "CheckpointBarrier", "CheckpointCompaction"}

Record == [kind : LogKinds, ev : Nat, seq : Nat, epoch : Nat,
           from : Nat, through : Nat, removed : Nat, retained : Nat,
           start : Nat, discarded : Nat, text : Texts \cup {NoText}]

BlankRecord ==
  [kind |-> "Message", ev |-> 0, seq |-> 0, epoch |-> 0, from |-> 0,
   through |-> 0, removed |-> 0, retained |-> 0, start |-> 0,
   discarded |-> 0, text |-> NoText]

MessageRecord(e) ==
  [BlankRecord EXCEPT !.ev = e.id, !.seq = e.seq, !.text = e.text]

\* What StoreTrace::emit derives from an event; range is the pending
\* compaction range noted when the CompactionEpoch event went by.
ProjectionOf(e, range) ==
  CASE e.kind \in MessageKinds -> MessageRecord(e)
    [] e.kind = "ContextReduced" ->
         [BlankRecord EXCEPT !.kind = "Reduction", !.ev = e.id, !.seq = e.seq,
            !.removed = e.removed, !.retained = e.retained]
    [] e.kind = "CompactionCompleted" ->
         [BlankRecord EXCEPT !.kind = "Compaction", !.epoch = e.epoch,
            !.from = range[1], !.through = range[2],
            !.removed = e.removed, !.retained = e.retained]
    [] e.kind = "CheckpointCompleted" ->
         [BlankRecord EXCEPT !.kind = "CheckpointCompaction",
            !.epoch = e.epoch, !.removed = e.removed,
            !.retained = e.retained]
    [] e.kind = "CheckpointCreated" ->
         [BlankRecord EXCEPT !.kind = "CheckpointBarrier",
            !.ev = e.id, !.epoch = e.epoch]

\* The marker recover_incomplete_compactions appends for a discarded attempt.
AbortMarker(start, summary) ==
  [BlankRecord EXCEPT !.kind = "Aborted", !.start = start,
     !.discarded = summary]

\* has_projection_for: the identity under which a record is looked up.
SameProjection(a, b) ==
  /\ a.kind = b.kind
  /\ IF a.kind \in {"Message", "Reduction", "CheckpointBarrier"}
       THEN a.ev = b.ev
       ELSE /\ a.epoch = b.epoch
            /\ a.removed = b.removed
            /\ a.retained = b.retained
            /\ a.from = b.from
            /\ a.through = b.through

Projected(rec, log) == \E i \in DOMAIN log : SameProjection(log[i], rec)

-----------------------------------------------------------------------------
(***************************************************************************)
(* What a reopening process reads off the disk: the fold that rebuilds the *)
(* model-visible window from the semantic log (restore_from_report), and   *)
(* the validators that decide whether the journal and the log may be       *)
(* continued at all.  Every operator is a function of the two files.       *)
(***************************************************************************)
(* ------------------------------ the window ------------------------------ *)

EmptyWindow ==
  [messages |-> <<>>, preBarrier |-> <<>>, barrierOpen |-> FALSE,
   capsule |-> 0, contextEpoch |-> 0, lastSeq |-> 0, lastCompaction |-> 0,
   lastContext |-> 0, lastCheckpoint |-> 0, seen |-> {}, ok |-> TRUE]

Cite(rec) == [ev |-> rec.ev, seq |-> rec.seq]

Drop(s, n) == SubSeq(s, n + 1, Len(s))

Reject(w) == [w EXCEPT !.ok = FALSE]

RestoreMessage(w, rec) ==
  IF rec.ev \in w.seen \/ rec.seq <= w.lastSeq
    THEN Reject(w)
    ELSE [w EXCEPT !.messages = Append(@, Cite(rec)),
                   !.barrierOpen = FALSE, !.preBarrier = <<>>,
                   !.lastSeq = rec.seq, !.seen = @ \cup {rec.ev}]

RestoreReduction(w, rec) ==
  LET retained == Len(w.messages) - rec.removed
      declared == IF w.capsule = 0 THEN rec.retained ELSE rec.retained - 1
  IN IF \/ rec.removed = 0
        \/ rec.ev \in w.seen \/ rec.seq <= w.lastSeq
        \/ rec.removed > Len(w.messages)
        \/ declared # retained
       THEN Reject(w)
       ELSE [w EXCEPT !.messages = Drop(@, rec.removed),
                      !.lastSeq = rec.seq, !.seen = @ \cup {rec.ev}]

\* The discarded summary may already have been projected.
RestoreAborted(w, rec) ==
  [w EXCEPT !.messages = SelectSeq(@, LAMBDA m : m.ev # rec.discarded)]

\* The summary is the last message; the retained tail moves behind it.
RestoreCompaction(w, rec) ==
  LET count == Len(w.messages) - 1
  IN IF \/ (rec.from = 0) # (rec.through = 0) \/ rec.from > rec.through
        \/ rec.epoch <= w.lastCompaction
        \/ rec.epoch <= w.lastContext
        \/ count < 0
        \/ rec.retained > count
        \/ rec.removed # count - rec.retained
       THEN Reject(w)
       ELSE [w EXCEPT !.messages = <<w.messages[count + 1]>> \o
                          SubSeq(w.messages, rec.removed + 1, count),
                      !.contextEpoch = rec.epoch,
                      !.lastCompaction = rec.epoch, !.lastContext = rec.epoch]

RestoreBarrier(w, rec) ==
  IF rec.ev \in w.seen \/ rec.epoch <= w.lastContext \/ w.barrierOpen
    THEN Reject(w)
    ELSE [w EXCEPT !.preBarrier = w.messages, !.messages = <<>>,
                   !.barrierOpen = TRUE, !.capsule = rec.ev,
                   !.contextEpoch = rec.epoch, !.lastContext = rec.epoch,
                   !.lastCheckpoint = rec.epoch, !.seen = @ \cup {rec.ev}]

\* (mutant) the messages the capsule replaces are restored with it
RestoreCheckpointKeepingPrefix(w, rec) ==
  [w EXCEPT !.messages = w.preBarrier,
            !.preBarrier = <<>>, !.barrierOpen = FALSE,
            !.contextEpoch = rec.epoch,
            !.lastCompaction = rec.epoch, !.lastContext = rec.epoch]

RestoreCheckpointCompaction(w, rec) ==
  IF \/ rec.epoch <= w.lastCompaction
     \/ rec.epoch # w.lastCheckpoint /\ rec.epoch <= w.lastContext
     \/ ~w.barrierOpen
     \/ rec.removed > Len(w.preBarrier)
     \/ rec.retained # Len(w.preBarrier) - rec.removed + 1
    THEN Reject(w)
    ELSE [w EXCEPT !.messages = Drop(w.preBarrier, rec.removed),
                   !.preBarrier = <<>>, !.barrierOpen = FALSE,
                   !.contextEpoch = rec.epoch,
                   !.lastCompaction = rec.epoch, !.lastContext = rec.epoch]

RestoreStep(w, rec) ==
  CASE ~w.ok                          -> w
    [] w.ok /\ rec.kind = "Message"   -> RestoreMessage(w, rec)
    [] w.ok /\ rec.kind = "Reduction" -> RestoreReduction(w, rec)
    [] w.ok /\ rec.kind = "Aborted"   -> RestoreAborted(w, rec)
    [] w.ok /\ rec.kind = "Compaction" -> RestoreCompaction(w, rec)
    [] w.ok /\ rec.kind = "CheckpointBarrier" -> RestoreBarrier(w, rec)
    [] w.ok /\ rec.kind = "CheckpointCompaction" ->
         RestoreCheckpointCompaction(w, rec)

Window ==
  [messages : Seq([ev : Nat, seq : Nat]), preBarrier : Seq([ev : Nat, seq : Nat]),
   barrierOpen : BOOLEAN, capsule : Nat, contextEpoch : Nat, lastSeq : Nat,
   lastCompaction : Nat, lastContext : Nat, lastCheckpoint : Nat,
   seen : SUBSET Nat, ok : BOOLEAN]

\* A line that does not decode to its type is malformed, and a log with a
\* malformed line is refused like one that does not fold.
Restore(log) ==
  LET fold[i \in 0..Len(log)] ==
        IF i = 0 THEN EmptyWindow ELSE RestoreStep(fold[i - 1], log[i])
      result == fold[Len(log)]
  IN IF result \in Window THEN result ELSE Reject(EmptyWindow)

(* --------------------------- trace integrity ---------------------------- *)

\* validate_trace_integrity: contiguous sequences, unique ids, known parents.
TraceIntegrity(journal) ==
  \A i \in DOMAIN journal :
    /\ journal[i].seq > 0
    /\ i > 1 => journal[i].seq = journal[i - 1].seq + 1
    /\ \A k \in 1..(i - 1) : journal[k].id # journal[i].id
    /\ journal[i].parent # 0 =>
         \E k \in 1..(i - 1) : journal[k].id = journal[i].parent

(* ------------------------ compaction lifecycles ------------------------- *)

Starts(journal) ==
  {s \in DOMAIN journal : journal[s].kind = "CompactionStarted"}

Completions(journal) ==
  {c \in DOMAIN journal : journal[c].kind = "CompactionCompleted"}

\* is_compaction_abort
AbortsStart(e, start) == e.kind = "CompactionAborted" /\ e.parent = start.id

Closes(journal, s, c) ==
  /\ s < c
  /\ \/ journal[c].kind = "CompactionCompleted"
     \/ AbortsStart(journal[c], journal[s])

ClosedBetween(journal, s, e) ==
  \E c \in (s + 1)..(e - 1) : Closes(journal, s, c)

\* Starts that nothing after them closed.
OpenStarts(journal) ==
  {s \in Starts(journal) : ~ClosedBetween(journal, s, Len(journal) + 1)}

AbortedStarts(journal) ==
  {s \in Starts(journal) :
     \E a \in DOMAIN journal : s < a /\ AbortsStart(journal[a], journal[s])}

\* No start while another is open, no completion without an open start.
WellNested(journal) ==
  /\ \A s, t \in Starts(journal) : s < t => ClosedBetween(journal, s, t)
  /\ \A c \in Completions(journal) :
       \E s \in Starts(journal) : s < c /\ ~ClosedBetween(journal, s, c)

Between(journal, s, e, kind) ==
  {k \in (s + 1)..(e - 1) :
     journal[k].kind = kind /\ journal[k].turn = journal[s].turn}

\* (mutant) the abort marker names no summary
StagedSummaryUnnamed(journal, s) == 0

\* The summary staged after a start, as find_incomplete_compactions and
\* find_aborted_compactions report it (0 when none was reached).
StagedSummary(journal, s) ==
  LET end == IF \E a \in DOMAIN journal : AbortsStart(journal[a], journal[s])
               THEN CHOOSE a \in DOMAIN journal :
                      AbortsStart(journal[a], journal[s])
               ELSE Len(journal) + 1
      staged == Between(journal, s, end, "ContextSummary")
  IN IF staged = {} THEN 0 ELSE journal[CHOOSE k \in staged : TRUE].id

OrderedBounds(e) == e.from # 0 /\ e.from <= e.through

\* The completion c answers the start s.
Completes(journal, s, c) ==
  s \in Starts(journal) /\ s < c /\ ~ClosedBetween(journal, s, c)

\* find_incomplete_compactions accepts the history and its open attempt.
CompactionsRecoverable(journal) ==
  /\ WellNested(journal)
  /\ \A c \in Completions(journal), s \in Starts(journal) :
       Completes(journal, s, c) => journal[s].turn = journal[c].turn
  /\ \A s \in OpenStarts(journal) :
       LET staged(kind) == Between(journal, s, Len(journal) + 1, kind) IN
         /\ \A k, m \in staged("ContextSummary") : k = m
         /\ \A k \in staged("CompactionEpoch") :
              journal[k].epoch # 0 /\ OrderedBounds(journal[k])

\* aborted_compaction_event_ids
AbortedIds(journal) ==
  {journal[k].id : k \in {k \in DOMAIN journal :
     /\ journal[k].kind \in {"ContextSummary", "CompactionEpoch"}
     /\ \E s \in Starts(journal), a \in DOMAIN journal :
          /\ s < k /\ k < a
          /\ AbortsStart(journal[a], journal[s])
          /\ ~ClosedBetween(journal, s, a)}}

\* validate_compaction_lifecycles
CompactionLifecycles(journal) ==
  /\ WellNested(journal)
  /\ OpenStarts(journal) = {}
  /\ \A c \in Completions(journal), s \in Starts(journal) :
       Completes(journal, s, c) =>
         /\ journal[s].turn = journal[c].turn
         /\ journal[c].epoch # 0 /\ journal[c].removed # 0
         /\ \E sum \in Between(journal, s, c, "ContextSummary") :
              /\ Between(journal, s, c, "ContextSummary") = {sum}
              /\ \E ep \in Between(journal, s, c, "CompactionEpoch") :
                   /\ {k \in Between(journal, s, c, "CompactionEpoch") :
                         journal[k].epoch = journal[c].epoch} = {ep}
                   /\ OrderedBounds(journal[ep])
                   /\ journal[sum].seq < journal[ep].seq
                   /\ journal[ep].seq < journal[c].seq

(* ------------------------ checkpoint lifecycles ------------------------- *)

Checkpoints(journal) ==
  {k \in DOMAIN journal : journal[k].kind = "CheckpointCreated"}

CheckpointCompletions(journal) ==
  {c \in DOMAIN journal : journal[c].kind = "CheckpointCompleted"}

OpenCheckpoints(journal) ==
  {k \in Checkpoints(journal) :
     ~\E c \in CheckpointCompletions(journal) : k < c}

\* find_incomplete_checkpoints accepts the history.
CheckpointsRecoverable(journal) ==
  /\ \A k, m \in Checkpoints(journal) : k < m =>
       /\ journal[k].epoch # journal[m].epoch
       /\ \E c \in CheckpointCompletions(journal) : k < c /\ c < m
  /\ \A c \in CheckpointCompletions(journal) :
       \E k \in Checkpoints(journal) :
         /\ k < c
         /\ \A m \in (k + 1)..(c - 1) : journal[m].kind \notin
              {"CheckpointCreated", "CheckpointCompleted"}
         /\ journal[k].epoch = journal[c].epoch
         /\ journal[k].turn = journal[c].turn
         /\ journal[k].removed = journal[c].removed

\* validate_checkpoint_lifecycles
CheckpointLifecycles(journal) ==
  CheckpointsRecoverable(journal) /\ OpenCheckpoints(journal) = {}
(* ------------------- reconstruction and alignment ---------------------- *)

EventOf(journal, id) ==
  {k \in DOMAIN journal : journal[k].id = id}

\* The epoch and summary events recover_projection_record joins a completion
\* to: same turn, earlier, same context epoch; summary after the range.
EpochsFor(journal, c) ==
  {k \in DOMAIN journal :
     /\ k < c /\ journal[k].kind = "CompactionEpoch"
     /\ journal[k].turn = journal[c].turn
     /\ journal[k].epoch = journal[c].epoch}

SummariesFor(journal, c, through) ==
  {k \in DOMAIN journal :
     /\ k < c /\ journal[k].kind = "ContextSummary"
     /\ journal[k].turn = journal[c].turn
     /\ journal[k].seq > through}

\* recover_projection_record refuses a completion it cannot join uniquely.
Reconstructible(journal, log, k) ==
  journal[k].kind = "CompactionCompleted" =>
    \E ep \in EpochsFor(journal, k) :
      /\ EpochsFor(journal, k) = {ep}
      /\ \E sum \in SummariesFor(journal, k, journal[ep].through) :
           /\ SummariesFor(journal, k, journal[ep].through) = {sum}
           /\ Projected(MessageRecord(journal[sum]), log)

\* (mutant) the completion is projected without the range of its epoch event
RecoveredWithoutRange(journal, k) == ProjectionOf(journal[k], <<0, 0>>)

RecoveredRecord(journal, k) ==
  LET range == IF journal[k].kind = "CompactionCompleted"
                 THEN LET ep == CHOOSE ep \in EpochsFor(journal, k) : TRUE
                      IN <<journal[ep].from, journal[ep].through>>
                 ELSE <<0, 0>>
  IN ProjectionOf(journal[k], range)

HasMessage(log, id) ==
  \E i \in DOMAIN log : log[i].kind = "Message" /\ log[i].ev = id

AnswerKinds == {"AssistantMessage", "OutputLimited"}

\* The answer was streamed: its request, which began no earlier than the turn
\* or the end of the request before it, left deltas in the trace.
Streamed(journal, k) ==
  \E d \in 1..(k - 1) :
    /\ journal[d].kind = "AssistantDelta" /\ journal[d].turn = journal[k].turn
    /\ \A m \in (d + 1)..(k - 1) : journal[m].kind \notin AnswerKinds

\* Some assistant message of the trace, whichever, is in the log.
AnsweredOnce(journal, log) ==
  \E m \in DOMAIN journal :
    journal[m].kind = "AssistantMessage" /\ HasMessage(log, journal[m].id)

\* Canonical events that imply a projection carry it.
ForwardAligned(journal, log) ==
  \A k \in DOMAIN journal :
    LET e == journal[k] IN
      /\ e.kind \in {"UserMessage", "ContextSummary"} =>
           e.id \in AbortedIds(journal) \/ HasMessage(log, e.id)
      /\ e.kind \in AnswerKinds /\ Streamed(journal, k) =>
           AnsweredOnce(journal, log)
      /\ e.kind = "CompactionEpoch" /\ e.id \notin AbortedIds(journal) =>
           \E i \in DOMAIN log :
             /\ log[i].kind = "Compaction" /\ log[i].epoch = e.epoch
             /\ log[i].from = e.from /\ log[i].through = e.through
      /\ e.kind = "ContextReduced" =>
           \E i \in DOMAIN log :
             /\ log[i].kind = "Reduction" /\ log[i].ev = e.id
             /\ log[i].removed = e.removed /\ log[i].retained = e.retained
      /\ e.kind \in {"CheckpointCreated", "CheckpointCompleted"} =>
           Projected(ProjectionOf(e, <<0, 0>>), log)
      /\ e.kind = "CompactionCompleted" =>
           \E i \in DOMAIN log :
             /\ log[i].kind = "Compaction" /\ log[i].epoch = e.epoch
             /\ log[i].removed = e.removed /\ log[i].retained = e.retained

\* The epoch events a projected compaction claims, in journal order.  The
\* blob is looked up in the FIRST of them, discarded attempts included.
ClaimedEpochs(journal, rec) ==
  {k \in DOMAIN journal :
     /\ journal[k].kind = "CompactionEpoch" /\ journal[k].epoch = rec.epoch
     /\ journal[k].from = rec.from /\ journal[k].through = rec.through}

FirstOf(S) == CHOOSE k \in S : \A m \in S : k <= m

ClaimedCompletion(journal, rec) ==
  {c \in Completions(journal) :
     /\ journal[c].epoch = rec.epoch
     /\ journal[c].removed = rec.removed
     /\ journal[c].retained = rec.retained}

CompactionAligned(journal, log, i) ==
  LET rec == log[i] IN
    /\ ClaimedEpochs(journal, rec) # {}
    /\ ClaimedCompletion(journal, rec) # {}
    /\ i > 1 /\ log[i - 1].kind = "Message"
    /\ LET c == FirstOf(ClaimedCompletion(journal, rec))
           sums == SummariesFor(journal, c, rec.through)
       IN \E k \in sums : sums = {k} /\ log[i - 1].ev = journal[k].id
    /\ journal[FirstOf(ClaimedEpochs(journal, rec))].text = log[i - 1].text

\* Projected facts point back at the canonical event with the same sequence.
BackwardAligned(journal, log) ==
  \A i \in DOMAIN log :
    /\ log[i].kind \in {"Message", "Reduction"} =>
         \E k \in EventOf(journal, log[i].ev) : journal[k].seq = log[i].seq
    /\ log[i].kind = "Compaction" => CompactionAligned(journal, log, i)

\* Store::restore: everything a resume checks once recovery has run.
Resumable(journal, log) ==
  /\ Restore(log).ok
  /\ TraceIntegrity(journal)
  /\ CompactionLifecycles(journal)
  /\ CheckpointLifecycles(journal)
  /\ ForwardAligned(journal, log)
  /\ BackwardAligned(journal, log)
=============================================================================
