---------------------------- MODULE SessionStore ----------------------------
(***************************************************************************)
(* One rupi session on disk: the trace journal, the semantic log and the   *)
(* projection WAL that joins them, written by the holder of the session    *)
(* lease and recovered by the next one.                                    *)
(*                                                                         *)
(* Every durable write of Session::emit / emit_transaction / emit_message  *)
(* is a step of its own and the process may crash between any two of them, *)
(* in the middle of a compaction or a checkpoint, and during recovery.     *)
(* A torn last line is truncated or completed by recover_append_tail, so a *)
(* write either happened or did not.                                       *)
(***************************************************************************)
EXTENDS SessionRestore, FiniteSets

CONSTANTS
  MaxDeltas, MaxPrompts, MaxAnswers, MaxReductions, MaxLimited, MaxCompactions,
  MaxCheckpoints, \* bounds: how many of each the runtime starts
  MaxBoots      \* bound: times the session is opened (first one included)

\* What the runtime starts of its own accord; everything else follows.
StartKinds == {"AssistantDelta", "UserMessage", "AssistantMessage", "ContextReduced",
               "OutputLimited", "CompactionStarted", "CheckpointCreated"}

Quota ==
  [k \in StartKinds |->
     CASE k = "AssistantDelta" -> MaxDeltas
       [] k = "UserMessage" -> MaxPrompts
       [] k = "AssistantMessage" -> MaxAnswers
       [] k = "ContextReduced" -> MaxReductions
       [] k = "OutputLimited" -> MaxLimited
       [] k = "CompactionStarted" -> MaxCompactions
       [] k = "CheckpointCreated" -> MaxCheckpoints]

ASSUME BoundsAssumption ==
  /\ {MaxDeltas, MaxPrompts, MaxAnswers, MaxReductions, MaxLimited, MaxCompactions,
      MaxCheckpoints} \subseteq Nat
  /\ MaxBoots \in Nat \ {0}

VARIABLES
  journal,   \* durable lines of trace.jsonl
  log,       \* durable lines of session.jsonl, without the header
  wal,       \* pending intents of wal.jsonl: [ev, rec]
  buffer,    \* journal lines still in LineWriter's memory
  lastSeq,   \* TraceJournal::last_seq of the running process
  nextId,    \* fresh event ids (uuidv7 in the code)
  boots,     \* opens so far; also the turn id of everything an open emits
  proc,      \* "down", "recovering", "open" or "refused"
  stage,     \* the pass of recover_projection that is running
  tx,        \* the transaction in flight: [step, ev, rec]
  script,    \* the compaction or checkpoint in progress
  live,      \* TurnLoop's messages after the checkpoint floor
  capsule,   \* the checkpoint capsule at the floor (0: none)
  context    \* TurnLoop::context_epoch

vars == <<journal, log, wal, buffer, lastSeq, nextId, boots, proc, stage,
          tx, script, live, capsule, context>>

NoRecord == [BlankRecord EXCEPT !.kind = "Aborted"]
NoEvent == NewEvent("AssistantDelta", 0, 0)
NoCite == [ev |-> 0, seq |-> 0]
Idle == [step |-> "idle", ev |-> NoEvent]
NoScript == [step |-> "none", prefix |-> 0, text |-> NoText, from |-> 0,
             through |-> 0, start |-> 0, cite |-> NoCite]

Init ==
  /\ journal = <<>> /\ log = <<>> /\ wal = {}
  /\ buffer = <<>> /\ lastSeq = 0 /\ nextId = 1 /\ boots = 1
  /\ proc = "open" /\ stage = "none"
  /\ tx = Idle /\ script = NoScript
  /\ live = <<>> /\ capsule = 0 /\ context = 0

(* ------------------------- the write primitives ------------------------- *)

\* The sequence is one past the last one this process knows of.
Stamped(e) == [e EXCEPT !.seq = lastSeq + 1]

\* TraceJournal::append_bounded: a durable line takes the buffered deltas out
\* in front of it, a delta waits for the next durable line.
AppendJournal(e) ==
  /\ lastSeq' = lastSeq + 1
  /\ IF Durable(e)
       THEN journal' = journal \o Append(buffer, Stamped(e)) /\ buffer' = <<>>
       ELSE journal' = journal /\ buffer' = Append(buffer, Stamped(e))

Fresh(kind) == NewEvent(kind, nextId, boots)

\* The WAL prepare every transaction starts with.
Prepare(e) ==
  /\ tx' = [step |-> "prepared", ev |-> e]
  /\ wal' = wal \cup {[ev |-> e, rec |-> NoRecord]}
  /\ nextId' = nextId + 1

(* ---------------- what the runtime asks the store to do ----------------- *)

Ready == proc = "open" /\ tx = Idle

Used(kind) ==
  Cardinality({k \in DOMAIN journal : journal[k].kind = kind})
    + Cardinality({k \in DOMAIN buffer : buffer[k].kind = kind})

\* Nothing else is under way and the bound leaves room for one more.
MayStart(kind) == Ready /\ script = NoScript /\ Used(kind) < Quota[kind]

Request(e) ==
  /\ Prepare(e)
  /\ UNCHANGED <<journal, log, buffer, lastSeq, boots, proc, stage, live,
                 capsule, context>>

\* A streamed assistant delta: journalled, not yet synced.
EmitDelta ==
  /\ MayStart("AssistantDelta")
  /\ AppendJournal(Fresh("AssistantDelta"))
  /\ nextId' = nextId + 1
  /\ UNCHANGED <<log, wal, boots, proc, stage, tx, script, live, capsule,
                 context>>

\* Session::emit_message: the prepare carries the message's own payload.
PrepareMessage ==
  /\ \E kind \in SaidKinds : MayStart(kind) /\ Request(Fresh(kind))
  /\ UNCHANGED script

\* evict_oldest_with_estimate: an L0 reduction of the oldest d messages.
PrepareReduction ==
  /\ MayStart("ContextReduced")
  /\ \E d \in DOMAIN live :
       Request([Fresh("ContextReduced") EXCEPT !.removed = d,
                  !.retained = Len(live) - d + IF capsule = 0 THEN 0 ELSE 1])
  /\ UNCHANGED script

\* A ModelRequestCompleted that stopped at the output limit projects nothing;
\* its intent is held until the flush that ends the turn.
PrepareLimited ==
  /\ MayStart("OutputLimited")
  /\ Request(Fresh("OutputLimited"))
  /\ UNCHANGED script

(* compact_range: Started, Summary, Epoch, Completed, then the splice.      *)

StartCompaction ==
  /\ MayStart("CompactionStarted")
  /\ \E p \in DOMAIN live, text \in Texts :
       script' = [NoScript EXCEPT !.step = "opening", !.prefix = p,
                    !.text = text, !.start = nextId,
                    !.from = live[1].seq, !.through = live[p].seq]
  /\ Request(Fresh("CompactionStarted"))

PrepareSummary ==
  /\ Ready /\ script.step = "started"
  /\ Request([Fresh("ContextSummary") EXCEPT !.text = script.text])
  /\ UNCHANGED script

EmitEpoch ==
  /\ Ready /\ script.step = "summarized"
  /\ AppendJournal([Fresh("CompactionEpoch") EXCEPT !.epoch = context + 1,
                      !.from = script.from, !.through = script.through,
                      !.text = script.text])
  /\ script' = [script EXCEPT !.step = "bounded"]
  /\ nextId' = nextId + 1
  /\ UNCHANGED <<log, wal, boots, proc, stage, tx, live, capsule, context>>

PrepareCompleted ==
  /\ Ready /\ script.step = "bounded"
  /\ Request([Fresh("CompactionCompleted") EXCEPT !.epoch = context + 1,
                !.removed = script.prefix,
                !.retained = Len(live) - script.prefix])
  /\ UNCHANGED script

(* checkpoint and checkpoint_turn_prefix: CheckpointCreated carries the      *)
(* barrier, the L3 completion closes it.  The capsule file itself is synced  *)
(* before either, so it always exists when its event does.                   *)

StartCheckpoint ==
  /\ MayStart("CheckpointCreated")
  /\ \E p \in DOMAIN live \cup {Len(live)} :
       /\ script' = [NoScript EXCEPT !.step = "opening", !.prefix = p]
       /\ Request([Fresh("CheckpointCreated") EXCEPT !.epoch = context + 1,
                     !.removed = p])

PrepareCheckpointCompleted ==
  /\ Ready /\ script.step = "barred"
  /\ Request([Fresh("CheckpointCompleted") EXCEPT !.epoch = context + 1,
                !.removed = script.prefix,
                !.retained = Len(live) - script.prefix + 1])
  /\ UNCHANGED script

(* ------------------- one transaction, write by write -------------------- *)

\* What the runtime does with its own state once the emit of e returned.
Return(e) ==
  LET cite == [ev |-> e.id, seq |-> e.seq] IN
  CASE e.kind \in SaidKinds ->
         live' = Append(live, cite) /\ UNCHANGED <<script, capsule, context>>
    [] e.kind = "ContextReduced" ->
         live' = Drop(live, e.removed) /\ UNCHANGED <<script, capsule, context>>
    [] e.kind = "CompactionStarted" ->
         /\ script' = [script EXCEPT !.step = "started"]
         /\ UNCHANGED <<live, capsule, context>>
    [] e.kind = "ContextSummary" ->
         /\ script' = [script EXCEPT !.step = "summarized", !.cite = cite]
         /\ UNCHANGED <<live, capsule, context>>
    [] e.kind = "CompactionCompleted" ->
         /\ live' = <<script.cite>> \o Drop(live, e.removed)
         /\ script' = NoScript /\ context' = e.epoch /\ UNCHANGED capsule
    [] e.kind = "CheckpointCreated" ->
         /\ script' = [script EXCEPT !.step = "barred", !.cite = cite]
         /\ UNCHANGED <<live, capsule, context>>
    [] e.kind = "CheckpointCompleted" ->
         /\ live' = Drop(live, e.removed) /\ capsule' = script.cite.ev
         /\ script' = NoScript /\ context' = e.epoch
    [] OTHER -> UNCHANGED <<live, script, capsule, context>>

\* Recovery has no window yet: it only finishes the checkpoint it found.
Finish(e) ==
  /\ tx' = Idle
  /\ IF proc = "open" THEN Return(e)
                      ELSE UNCHANGED <<live, script, capsule, context>>

Writing(step) == proc \in {"open", "recovering"} /\ tx.step = step

\* The canonical append.  A held intent needs nothing more for now.
JournalEvent ==
  /\ Writing("prepared")
  /\ AppendJournal(tx.ev)
  /\ IF tx.ev.kind \in HeldKinds
       THEN Finish(Stamped(tx.ev))
       ELSE /\ tx' = [step |-> "journaled", ev |-> Stamped(tx.ev)]
            /\ UNCHANGED <<live, script, capsule, context>>
  /\ UNCHANGED <<log, wal, nextId, boots, proc, stage>>

Projection == ProjectionOf(tx.ev, <<script.from, script.through>>)

IntentsOf(id) == {i \in wal : i.ev.id = id}

\* ProjectionWal::set_projection, only for the records an event implies.
AttachRecord ==
  /\ Writing("journaled") /\ tx.ev.kind \in RecordKinds
  /\ wal' = (wal \ IntentsOf(tx.ev.id)) \cup
              {[i EXCEPT !.rec = Projection] : i \in IntentsOf(tx.ev.id)}
  /\ tx' = [tx EXCEPT !.step = "attached"]
  /\ UNCHANGED <<journal, log, buffer, lastSeq, nextId, boots, proc, stage,
                 script, live, capsule, context>>

\* The semantic append.
AppendLog ==
  /\ \/ Writing("journaled") /\ tx.ev.kind \in MessageKinds
     \/ Writing("attached")
  /\ log' = Append(log, Projection)
  /\ tx' = [tx EXCEPT !.step = "logged"]
  /\ UNCHANGED <<journal, wal, buffer, lastSeq, nextId, boots, proc, stage,
                 script, live, capsule, context>>

\* The WAL commit.  A completed compaction still has its start to release.
CommitTransaction ==
  /\ Writing("logged")
  /\ wal' = wal \ IntentsOf(tx.ev.id)
  /\ IF tx.ev.kind = "CompactionCompleted"
       THEN /\ tx' = [tx EXCEPT !.step = "committed"]
            /\ UNCHANGED <<live, script, capsule, context>>
       ELSE Finish(tx.ev)
  /\ UNCHANGED <<journal, log, buffer, lastSeq, nextId, boots, proc, stage>>

\* commit_projection_intent of the compaction's start.
ReleaseStart ==
  /\ Writing("committed")
  /\ wal' = wal \ IntentsOf(script.start)
  /\ Finish(tx.ev)
  /\ UNCHANGED <<journal, log, buffer, lastSeq, nextId, boots, proc, stage>>

(* --------------------- flush, stop, crash and reopen --------------------- *)

\* Session::flush: commit_empty_completion_intents one by one ...
ReleaseLimited ==
  /\ Ready /\ script = NoScript
  /\ \E i \in wal : i.ev.kind = "OutputLimited" /\ wal' = wal \ {i}
  /\ UNCHANGED <<journal, log, buffer, lastSeq, nextId, boots, proc, stage,
                 tx, script, live, capsule, context>>

\* ... then, with nothing pending, the buffered deltas.
FlushBuffer ==
  /\ Ready /\ script = NoScript /\ wal = {} /\ buffer # <<>>
  /\ journal' = journal \o buffer /\ buffer' = <<>>
  /\ UNCHANGED <<log, wal, lastSeq, nextId, boots, proc, stage, tx, script,
                 live, capsule, context>>

Forget ==
  /\ buffer' = <<>> /\ lastSeq' = 0 /\ tx' = Idle /\ script' = NoScript
  /\ live' = <<>> /\ capsule' = 0 /\ context' = 0 /\ stage' = "none"

\* The process dies between two writes; of the buffered lines a prefix may
\* have reached the disk.  The last boot allowed is not interrupted.
Crash ==
  /\ proc \in {"open", "recovering"} /\ boots < MaxBoots
  /\ proc' = "down"
  /\ \E n \in 0..Len(buffer) : journal' = journal \o SubSeq(buffer, 1, n)
  /\ Forget
  /\ UNCHANGED <<log, wal, nextId, boots>>

\* A refused resume drops the handle; another attempt may be made.
GiveUp ==
  /\ proc = "refused" /\ boots < MaxBoots
  /\ proc' = "down"
  /\ Forget
  /\ UNCHANGED <<journal, log, wal, nextId, boots>>

\* (mutant) the append position is read off the semantic log
OpenAtLogPosition ==
  /\ proc = "down"
  /\ proc' = "recovering" /\ stage' = "barriers" /\ boots' = boots + 1
  /\ lastSeq' = IF log = <<>> THEN 0 ELSE log[Len(log)].seq
  /\ UNCHANGED <<journal, log, wal, buffer, nextId, tx, script, live, capsule,
                 context>>

\* Store::resume: the append position comes back from the file.
Open ==
  /\ proc = "down"
  /\ proc' = "recovering" /\ stage' = "barriers" /\ boots' = boots + 1
  /\ lastSeq' = IF journal = <<>> THEN 0 ELSE journal[Len(journal)].seq
  /\ UNCHANGED <<journal, log, wal, buffer, nextId, tx, script, live, capsule,
                 context>>

(* ----------------- recover_projection, write by write ------------------- *)

Recovering(s) == proc = "recovering" /\ tx = Idle /\ stage = s

Journaled(i) == EventOf(journal, i.ev.id) # {}
Position(i) == CHOOSE k \in EventOf(journal, i.ev.id) : TRUE

Advance(next) ==
  /\ stage' = next
  /\ UNCHANGED <<journal, log, wal, buffer, lastSeq, nextId, boots, proc, tx,
                 script, live, capsule, context>>

RecoveryLog(rec) ==
  /\ log' = Append(log, rec)
  /\ UNCHANGED <<journal, wal, buffer, lastSeq, nextId, boots, proc, stage,
                 tx, script, live, capsule, context>>

RecoveryCommit(i) ==
  /\ wal' = wal \ {i}
  /\ UNCHANGED <<journal, log, buffer, lastSeq, nextId, boots, proc, stage,
                 tx, script, live, capsule, context>>

(* recover_pending_checkpoint_barriers *)

Barred(i) == Projected(RecoveredRecord(journal, Position(i)), log)

PendingBarriers ==
  {i \in wal : Journaled(i) /\ journal[Position(i)].kind = "CheckpointCreated"}

AppendBarrier ==
  /\ Recovering("barriers") /\ TraceIntegrity(journal)
  /\ \E i \in PendingBarriers :
       ~Barred(i) /\ RecoveryLog(RecoveredRecord(journal, Position(i)))

CommitBarrier ==
  /\ Recovering("barriers") /\ TraceIntegrity(journal)
  /\ \E i \in PendingBarriers : Barred(i) /\ RecoveryCommit(i)

BarriersDone ==
  /\ Recovering("barriers") /\ TraceIntegrity(journal)
  /\ PendingBarriers = {}
  /\ Advance("compactions")

(* recover_incomplete_compactions: every attempt that is still open, or was  *)
(* declared aborted by an earlier recovery that did not finish.              *)

Discarded == OpenStarts(journal) \cup AbortedStarts(journal)

Marked(s) ==
  \E k \in DOMAIN log : log[k].kind = "Aborted" /\ log[k].start = journal[s].id

StaleIntents(s) ==
  {i \in wal : i.ev.id \in {journal[s].id, StagedSummary(journal, s)}}

DeclareAborted ==
  /\ Recovering("compactions") /\ CompactionsRecoverable(journal)
  /\ \E s \in OpenStarts(journal) :
       AppendJournal([NewEvent("CompactionAborted", nextId, journal[s].turn)
                        EXCEPT !.parent = journal[s].id])
  /\ nextId' = nextId + 1
  /\ UNCHANGED <<log, wal, boots, proc, stage, tx, script, live, capsule,
                 context>>

MarkAborted ==
  /\ Recovering("compactions") /\ CompactionsRecoverable(journal)
  /\ OpenStarts(journal) = {}
  /\ \E s \in Discarded :
       /\ ~Marked(s)
       /\ RecoveryLog(AbortMarker(journal[s].id, StagedSummary(journal, s)))

CommitAborted ==
  /\ Recovering("compactions") /\ CompactionsRecoverable(journal)
  /\ OpenStarts(journal) = {}
  /\ \E s \in Discarded :
       Marked(s) /\ \E i \in StaleIntents(s) : RecoveryCommit(i)

CompactionsDone ==
  /\ Recovering("compactions") /\ CompactionsRecoverable(journal)
  /\ OpenStarts(journal) = {}
  /\ \A s \in Discarded : Marked(s) /\ StaleIntents(s) = {}
  /\ Advance("checkpoints")

(* recover_incomplete_checkpoints: the L3 completion is derived from the     *)
(* window that stood before the barrier.                                     *)

BarrierOf(k) ==
  {b \in DOMAIN log :
     log[b].kind = "CheckpointBarrier" /\ log[b].ev = journal[k].id}

BeforeBarrier(k) ==
  Restore(SubSeq(log, 1, FirstOf(BarrierOf(k)) - 1))

CheckpointClosable(k) ==
  /\ BarrierOf(k) # {}
  /\ BeforeBarrier(k).ok
  /\ journal[k].removed <= Len(BeforeBarrier(k).messages)

CloseCheckpoint ==
  /\ Recovering("checkpoints") /\ CheckpointsRecoverable(journal)
  /\ \E k \in OpenCheckpoints(journal) :
       /\ CheckpointClosable(k)
       /\ Request([NewEvent("CheckpointCompleted", nextId, journal[k].turn)
            EXCEPT !.parent = journal[k].id, !.epoch = journal[k].epoch,
                   !.removed = journal[k].removed,
                   !.retained = Len(BeforeBarrier(k).messages)
                                  - journal[k].removed + 1])
  /\ UNCHANGED script

CheckpointsDone ==
  /\ Recovering("checkpoints") /\ CheckpointsRecoverable(journal)
  /\ OpenCheckpoints(journal) = {}
  /\ Advance("pending")

(* The remaining intents, in canonical order; the unjournaled ones last.     *)

Lifecycles == CompactionLifecycles(journal) /\ CheckpointLifecycles(journal)

\* (mutant) only intents whose event reached the trace are visited
NextJournaled ==
  {i \in wal : Journaled(i) /\
     \A o \in wal : Journaled(o) => Position(i) <= Position(o)}

NextPending ==
  {i \in wal :
     IF Journaled(i)
       THEN \A o \in wal : Journaled(o) => Position(i) <= Position(o)
       ELSE \A o \in wal : ~Journaled(o)}

\* (mutant) an intent without an attached record owes nothing
NothingAttached(i) ==
  \/ i.rec = NoRecord
  \/ Journaled(i) /\ i.ev.id \in AbortedIds(journal)

\* Intents that are simply closed.
NothingToProject(i) ==
  \/ ~Journaled(i) /\ (i.rec # NoRecord => ~Projected(i.rec, log))
  \/ Journaled(i) /\ i.ev.id \in AbortedIds(journal)
  \/ Journaled(i) /\ journal[Position(i)].kind \notin MessageKinds \cup RecordKinds

Recoverable(i) ==
  i.rec # NoRecord \/ Reconstructible(journal, log, Position(i))

Owed(i) ==
  IF i.rec # NoRecord THEN i.rec ELSE RecoveredRecord(journal, Position(i))

Stuck(i) == ~NothingToProject(i) /\ ~(Journaled(i) /\ Recoverable(i))

\* (mutant) the log is not asked before the record is appended
UnprojectedUnasked(i) == ~NothingToProject(i) /\ ~Stuck(i)

Unprojected(i) ==
  ~NothingToProject(i) /\ ~Stuck(i) /\ ~Projected(Owed(i), log)

ProjectPending ==
  /\ Recovering("pending") /\ Lifecycles
  /\ \E i \in NextPending :
       Unprojected(i) /\ RecoveryLog(Owed(i))

CommitPending ==
  /\ Recovering("pending") /\ Lifecycles
  /\ \E i \in NextPending :
       ~Stuck(i) /\ ~Unprojected(i) /\ RecoveryCommit(i)

PendingDone ==
  /\ Recovering("pending") /\ Lifecycles /\ wal = {}
  /\ Advance("verify")

(* Store::restore accepts the session and the runtime loads its window.      *)

Resume ==
  /\ Recovering("verify") /\ wal = {} /\ Resumable(journal, log)
  /\ proc' = "open" /\ stage' = "none"
  /\ LET w == Restore(log) IN
       live' = w.messages /\ capsule' = w.capsule /\ context' = w.contextEpoch
  /\ UNCHANGED <<journal, log, wal, buffer, lastSeq, nextId, boots, tx,
                 script>>

Unacceptable ==
  CASE stage = "barriers"    -> ~TraceIntegrity(journal)
    [] stage = "compactions" -> ~CompactionsRecoverable(journal)
    [] stage = "checkpoints" ->
         \/ ~CheckpointsRecoverable(journal)
         \/ \E k \in OpenCheckpoints(journal) : ~CheckpointClosable(k)
    [] stage = "pending" -> ~Lifecycles \/ \E i \in NextPending : Stuck(i)
    [] stage = "verify"  -> wal # {} \/ ~Resumable(journal, log)
    [] OTHER -> FALSE

\* Every error recovery or verification returns: no append handle is handed
\* out and nothing more is written.
Refuse ==
  /\ proc = "recovering" /\ tx = Idle /\ Unacceptable
  /\ proc' = "refused"
  /\ UNCHANGED <<journal, log, wal, buffer, lastSeq, nextId, boots, stage,
                 tx, script, live, capsule, context>>

(* ------------------------------- the spec -------------------------------- *)

Runtime ==
  \/ EmitDelta \/ PrepareMessage \/ PrepareReduction \/ PrepareLimited
  \/ StartCompaction \/ PrepareSummary \/ EmitEpoch \/ PrepareCompleted
  \/ StartCheckpoint \/ PrepareCheckpointCompleted
  \/ ReleaseLimited \/ FlushBuffer

Transaction ==
  JournalEvent \/ AttachRecord \/ AppendLog \/ CommitTransaction \/ ReleaseStart

Recovery ==
  \/ AppendBarrier \/ CommitBarrier \/ BarriersDone
  \/ DeclareAborted \/ MarkAborted \/ CommitAborted \/ CompactionsDone
  \/ CloseCheckpoint \/ CheckpointsDone
  \/ ProjectPending \/ CommitPending \/ PendingDone
  \/ Resume \/ Refuse

Next == Runtime \/ Transaction \/ Recovery \/ Crash \/ GiveUp \/ Open

\* Recovery and the writes of a transaction are straight-line code of one
\* process: once begun they run to the end unless it crashes.  Nothing makes
\* the user reopen a session, so Open is fair only where a run asks for it.
Fairness == WF_vars(Transaction) /\ WF_vars(Recovery)

Spec == Init /\ [][Next]_vars /\ Fairness

(* ------------------------------ properties ------------------------------ *)

Cites == [ev : Nat, seq : Nat]

Intents == [ev : Event, rec : Record]

Transactions ==
  [step : {"idle", "prepared", "journaled", "attached", "logged", "committed"},
   ev : Event]

Scripts ==
  [step : {"none", "opening", "started", "summarized", "bounded", "barred"},
   prefix : Nat, text : Texts \cup {NoText}, from : Nat, through : Nat,
   start : Nat, cite : Cites]

\* Every variable keeps its type.
TypeOK ==
  /\ journal \in Seq(Event) /\ buffer \in Seq(Event)
  /\ log \in Seq(Record) /\ wal \subseteq Intents
  /\ lastSeq \in Nat /\ nextId \in Nat /\ boots \in Nat
  /\ proc \in {"down", "recovering", "open", "refused"}
  /\ stage \in {"none", "barriers", "compactions", "checkpoints", "pending",
                "verify"}
  /\ tx \in Transactions /\ script \in Scripts
  /\ live \in Seq(Cites) /\ capsule \in Nat /\ context \in Nat

(* Canonical first: a message or reduction line never exists without the     *)
(* trace line it projects, under the same sequence - across lost buffers,    *)
(* reused sequences and crashes in recovery (emit_transaction, emit_message, *)
(* recover_projection).                                                      *)
CanonicalFirst ==
  \A i \in DOMAIN log : log[i].kind \in {"Message", "Reduction"} =>
    \E k \in EventOf(journal, log[i].ev) : journal[k].seq = log[i].seq

(* Write ahead: a canonical event that owes a projection has it, or still    *)
(* has the intent recovery needs to produce it, or was publicly discarded    *)
(* (the prepare/commit protocol of ProjectionWal).                           *)
NothingLost ==
  \A k \in DOMAIN journal :
    journal[k].kind \in MessageKinds \cup {"ContextReduced"} =>
      \/ \E i \in DOMAIN log :
           log[i].ev = journal[k].id /\ log[i].kind \in {"Message", "Reduction"}
      \/ IntentsOf(journal[k].id) # {}
      \/ journal[k].id \in AbortedIds(journal)

(* A fact is projected once, however often a crash replays its intent        *)
(* (has_projection_for, asked before every append of recover_projection).    *)
ProjectedOnce ==
  \A i, k \in DOMAIN log :
    i # k /\ SameProjection(log[i], log[k]) =>
      log[i].kind = "Aborted" /\ log[i].start # log[k].start

(* Sequences stay contiguous and ids unique although a crash loses buffered  *)
(* deltas whose numbers are then used again (TraceJournal::open).            *)
ContiguousTrace == proc = "open" => TraceIntegrity(journal \o buffer)

(* Between operations, only output-limited completions hold an intent, so    *)
(* Session::flush, which releases those and no others, never meets an        *)
(* incomplete transaction.                                                   *)
FlushNeverBlocked ==
  Ready /\ script = NoScript => \A i \in wal : i.ev.kind = "OutputLimited"

EpochEvents == {k \in DOMAIN journal : journal[k].kind = "CompactionEpoch"}

(* The known defect of compact_range: the range it cites for a window that   *)
(* already starts with a summary may run backwards.                          *)
InvertedRange == \E k \in EpochEvents : ~OrderedBounds(journal[k])

(* The known defect of validate_projection_alignment: a discarded attempt    *)
(* claims the epoch and range of a later one under another summary.          *)
ShadowedSummary ==
  \E k, m \in EpochEvents :
    /\ k < m /\ journal[k].id \in AbortedIds(journal)
    /\ journal[k].epoch = journal[m].epoch /\ journal[k].from = journal[m].from
    /\ journal[k].through = journal[m].through
    /\ journal[k].text # journal[m].text

(* The known defect of the join by range: a summary written and evicted      *)
(* earlier in the turn also lies after the range of a later compaction.      *)
AmbiguousSummary ==
  \E k \in EpochEvents :
    Cardinality(SummariesFor(journal, k, journal[k].through)) > 1

(* The known defect of the same check: an answer cut off at the output limit *)
(* projects nothing, but once it was streamed some answer must be projected. *)
UnansweredLimit ==
  /\ \E k \in DOMAIN journal :
       journal[k].kind = "OutputLimited" /\ Streamed(journal, k)
  /\ \A k \in DOMAIN journal : journal[k].kind # "AssistantMessage"

(* What the log restores to is what the runtime is working with: message     *)
(* for message, capsule and context epoch included (restore_from_report      *)
(* against TurnLoop's messages).                                             *)
ResumeYieldsLive ==
  Ready /\ script = NoScript /\ ~InvertedRange =>
    LET w == Restore(log) IN
      /\ w.ok /\ w.messages = live
      /\ w.capsule = capsule /\ w.contextEpoch = context

(* The summary of a discarded compaction never reaches the model again, not  *)
(* even when its message was projected before the crash                      *)
(* (recover_incomplete_compactions and the abort marker's replay).           *)
DiscardedStaysHidden ==
  \A i \in DOMAIN live : live[i].ev \notin AbortedIds(journal)

(* Together: after any operation the window a process works with is the one  *)
(* the next would start from, without what was discarded, and it can always  *)
(* be flushed.                                                               *)
WindowHolds == ResumeYieldsLive /\ DiscardedStaysHidden /\ FlushNeverBlocked

(* No crash, at any write, makes a session unresumable - except through the  *)
(* four defects above (Store::resume).                                       *)
RefusedOnlyKnown ==
  proc = "refused" => \/ InvertedRange \/ ShadowedSummary \/ AmbiguousSummary
                      \/ UnansweredLimit

(* Recovery is exact: it projects nothing twice, and it gives up a session   *)
(* only where a known defect forbids it to go on (recover_projection).       *)
RecoveryIsExact == ProjectedOnce /\ RefusedOnlyKnown

(* A discarded attempt is evidence only: by itself it does not make a resume *)
(* fail (the comment on aborted events in recover_projection).               *)
DiscardedIsHarmless ==
  proc = "refused" => InvertedRange \/ AmbiguousSummary \/ UnansweredLimit

(* An output-limited attempt stays in the canonical trace and enters nothing *)
(* else: by itself it does not make a resume fail (the comment on            *)
(* output-limited attempts in recover_projection_record).                    *)
LimitedIsHarmless ==
  proc = "refused" => InvertedRange \/ ShadowedSummary \/ AmbiguousSummary

(* Recovery comes to a verdict unless the process dies again: no pass loops  *)
(* over an intent it neither projects nor closes (recover_projection).       *)
RecoveryEnds ==
  proc = "recovering" ~> proc \in {"open", "refused", "down"}

(* ------------------- what the store promises, refined ------------------- *)

\* The committed window: what the canonical trace alone says the model sees.
CommitStep(w, e, summary) ==
  LET cite == [ev |-> e.id, seq |-> e.seq] IN
  CASE e.kind \in SaidKinds -> [w EXCEPT !.messages = Append(@, cite)]
    [] e.kind = "ContextReduced" -> [w EXCEPT !.messages = Drop(@, e.removed)]
    [] e.kind = "CompactionCompleted" ->
         [w EXCEPT !.messages = <<summary>> \o Drop(@, e.removed)]
    [] e.kind = "CheckpointCreated" ->
         [w EXCEPT !.messages = Drop(@, e.removed), !.capsule = e.id]
    [] OTHER -> w

LastSummary(k) ==
  LET sums == {s \in 1..k : journal[s].kind = "ContextSummary"}
      s == CHOOSE s \in sums : \A o \in sums : o <= s
  IN [ev |-> journal[s].id, seq |-> journal[s].seq]

Committed ==
  LET fold[k \in 0..Len(journal)] ==
        IF k = 0 THEN [messages |-> <<>>, capsule |-> 0]
                 ELSE CommitStep(fold[k - 1], journal[k], LastSummary(k))
  IN fold[Len(journal)]

Durable_ ==
  INSTANCE DurableWindow WITH
    window <- Committed,
    view <- [messages |-> live, capsule |-> capsule],
    up <- proc = "open"

(* The log records an ordered compaction so that a resume can restore the    *)
(* reduced window (the comment on TurnLoop::compact): journal, log and WAL   *)
(* together behave as one committed window that a process sees or is to see. *)
DurableWindowSpec == Durable_!Spec

-----------------------------------------------------------------------------
(***************************************************************************)
(* What rupi-replay rebuilds of a session from its two files, without a    *)
(* store: the model-visible context at the end or at any earlier event.    *)
(* It folds the same records as restore_from_report, but with code of its  *)
(* own: restore refuses what it cannot explain, replay shows something for *)
(* whatever it is given.  The operators are functions of the files; the    *)
(* properties compare them with what the store's process worked with.      *)
(***************************************************************************)
(* A working context is a checkpoint capsule (0: none) followed by items:   *)
(* messages by their cite, or the reference to a summary that no message    *)
(* carries, whose sequence is 0.                                            *)

Empty == [capsule |-> 0, items |-> <<>>]

IsMessage(item) == item.seq > 0

Context(cap, items) == [capsule |-> cap, items |-> items]

MessagesOf(records) ==
  LET messages == SelectSeq(records, LAMBDA rec : rec.kind = "Message")
  IN [i \in DOMAIN messages |-> Cite(messages[i])]

RecordsOf(records, kind) == {i \in DOMAIN records : records[i].kind = kind}

LastOf(S) == CHOOSE k \in S : \A m \in S : m <= k

(* --------------------- by the records: new projections ------------------- *)

\* summary_present: an L1 or L2 compaction is marked behind its summary.
\* The last message is the summary; the retained count is the tail's.
FoldCompaction(w, rec) ==
  LET summaries == {i \in DOMAIN w.items : IsMessage(w.items[i])}
      at == LastOf(summaries)
      others == SubSeq(w.items, 1, at - 1) \o Drop(w.items, at)
      keep == IF rec.retained < Len(others) THEN rec.retained ELSE Len(others)
  IN IF summaries = {} THEN w
     ELSE Context(w.capsule,
                  <<w.items[at]>> \o Drop(others, Len(others) - keep))

\* (mutant) counts the protected capsule among the messages to remove
FoldReductionFromTop(w, rec) ==
  IF w.capsule = 0
    THEN Context(0, Drop(w.items, IF rec.removed < Len(w.items) THEN rec.removed
                                                                ELSE Len(w.items)))
    ELSE Context(0, Drop(w.items, rec.removed - 1))

FoldReduction(w, rec) ==
  Context(w.capsule,
          IF rec.removed < Len(w.items) THEN Drop(w.items, rec.removed) ELSE <<>>)

FoldStep(w, rec) ==
  CASE rec.kind = "Message"           -> [w EXCEPT !.items = Append(@, Cite(rec))]
    [] rec.kind = "CheckpointBarrier" -> Context(rec.ev, <<>>)
    [] rec.kind = "Compaction"        -> FoldCompaction(w, rec)
    [] rec.kind = "Reduction"         -> FoldReduction(w, rec)
    [] OTHER                          -> w

ProjectedWorkingContext(records) ==
  LET fold[i \in 0..Len(records)] ==
        IF i = 0 THEN Empty ELSE FoldStep(fold[i - 1], records[i])
  IN fold[Len(records)]

(* ------------------ by the trace: projections without marks -------------- *)

AfterBarrier(records) ==
  LET barriers == RecordsOf(records, "CheckpointBarrier")
      last == LastOf(barriers)
  IN IF barriers = {} THEN Context(0, MessagesOf(records))
     ELSE Context(records[last].ev, MessagesOf(Drop(records, last)))

ContextEpochs(entries) ==
  SelectSeq(entries, LAMBDA e : e.kind = "CompactionEpoch")

\* The messages an epoch covers go; a reference to its summary comes in their
\* place unless a message between the range and the epoch carries it.
ApplyContextEpoch(w, epoch) ==
  LET covered(item) ==
        IsMessage(item) /\ epoch.from <= item.seq /\ item.seq <= epoch.through
      left == SelectSeq(w.items, LAMBDA item : ~covered(item))
      hit == {i \in DOMAIN w.items : covered(w.items[i])}
      carried == \E i \in DOMAIN left :
                   IsMessage(left[i]) /\ epoch.through < left[i].seq
                                      /\ left[i].seq < epoch.seq
      reference == [ev |-> epoch.id, seq |-> 0]
  IN IF hit = {} \/ carried THEN Context(w.capsule, left)
     ELSE Context(w.capsule, SubSeq(left, 1, FirstOf(hit) - 1) \o <<reference>>
                               \o Drop(left, FirstOf(hit) - 1))

ApplyContextEpochs(w, epochs) ==
  LET fold[i \in 0..Len(epochs)] ==
        IF i = 0 THEN w ELSE ApplyContextEpoch(fold[i - 1], epochs[i])
  IN fold[Len(epochs)]

\* reconstruct_context.  Only without a single epoch event would the line of
\* the last compaction record count, and current writers leave it at 0.
ReconstructContext(records, entries) ==
  IF RecordsOf(records, "Compaction") \cup RecordsOf(records, "Reduction") # {}
    THEN ProjectedWorkingContext(records)
    ELSE ApplyContextEpochs(AfterBarrier(records), ContextEpochs(entries))

(* ----------------------------- an earlier time --------------------------- *)

\* session_records_until: a record belongs to the past if the event it was
\* projected from does; compactions are known by their context epoch only.
\* The epoch of an abort marker is 0.
SessionRecordsUntil(records, bounded) ==
  LET ids == {bounded[k].id : k \in DOMAIN bounded}
      epochs == {bounded[k].epoch : k \in
                   Completions(bounded) \cup CheckpointCompletions(bounded)}
  IN SelectSeq(records, LAMBDA rec :
       IF rec.kind \in {"Message", "Reduction", "CheckpointBarrier"}
         THEN rec.ev \in ids ELSE rec.epoch \in epochs)

\* plan_historical_branch at the event with index k: the context half.
BranchContext(entries, records, k) ==
  LET bounded == SubSeq(entries, 1, k)
  IN ReconstructContext(SessionRecordsUntil(records, bounded), bounded)
(* ------------------------------ properties ------------------------------- *)

\* What the model saw when the trace ended with its event k.
WindowAt(k) ==
  LET fold[i \in 0..k] ==
        IF i = 0 THEN [messages |-> <<>>, capsule |-> 0]
                 ELSE CommitStep(fold[i - 1], journal[i], LastSummary(i))
  IN Context(fold[k].capsule, fold[k].messages)

\* No compaction or checkpoint was under way.
Settled(entries) == OpenStarts(entries) = {} /\ OpenCheckpoints(entries) = {}

(* Two things of the past replay does not know how to show: the messages a   *)
(* checkpoint of a prefix keeps, and the withdrawal of a staged summary.     *)
TailKept(entries) ==
  \E c \in CheckpointCompletions(entries) : entries[c].retained > 1

StagedAndDiscarded(entries) ==
  \E s \in AbortedStarts(entries) : StagedSummary(entries, s) # 0

(* The context rebuilt for any settled event of the past is the window the   *)
(* model then saw, through reductions, compactions, checkpoints of everything *)
(* and crashes (plan_historical_branch, "rupi replay --context-at").         *)
HistoryIsRebuilt ==
  Ready /\ script = NoScript =>
    \A k \in DOMAIN journal :
      LET past == SubSeq(journal, 1, k)
      IN Settled(past) /\ ~TailKept(past) /\ ~StagedAndDiscarded(past) =>
           BranchContext(journal, log, k) = WindowAt(k)

=============================================================================
