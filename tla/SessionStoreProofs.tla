------------------------- MODULE SessionStoreProofs -------------------------
(***************************************************************************)
(* Theorems about one session on disk, for every quota, every number of    *)
(* boots and every set of summary texts.                                   *)
(***************************************************************************)
EXTENDS SessionStore, SequenceTheorems, TLAPS

(* ------------------------ the data the steps write ----------------------- *)

LEMMA StampTyped ==
  ASSUME NEW e \in Event, NEW n \in Nat
  PROVE  [e EXCEPT !.seq = n] \in Event
BY DEF Event

LEMMA NewEventTyped ==
  ASSUME NEW kind \in EventKinds, NEW id \in Nat, NEW turn \in Nat
  PROVE  NewEvent(kind, id, turn) \in Event
BY DEF NewEvent, Event

LEMMA ProjectionTyped ==
  ASSUME NEW e \in Event, e.kind \in MessageKinds \cup RecordKinds,
         NEW from \in Nat, NEW through \in Nat
  PROVE  ProjectionOf(e, <<from, through>>) \in Record
<1>0. /\ e.id \in Nat /\ e.seq \in Nat /\ e.epoch \in Nat
      /\ e.removed \in Nat /\ e.retained \in Nat /\ e.text \in Texts \cup {NoText}
  BY DEF Event
<1>1. CASE e.kind \in MessageKinds
  <2>1. ProjectionOf(e, <<from, through>>) = MessageRecord(e)
    BY <1>1 DEF ProjectionOf, MessageKinds, SaidKinds
  <2>2. MessageRecord(e) \in Record
    BY <1>0 DEF MessageRecord, BlankRecord, Record, LogKinds
  <2> QED BY <2>1, <2>2
<1>2. CASE e.kind = "ContextReduced"
  BY <1>0, <1>2 DEF ProjectionOf, BlankRecord, Record, LogKinds, MessageKinds, SaidKinds
<1>3. CASE e.kind = "CompactionCompleted"
  BY <1>0, <1>3 DEF ProjectionOf, BlankRecord, Record, LogKinds, MessageKinds, SaidKinds
<1>4. CASE e.kind = "CheckpointCompleted"
  BY <1>0, <1>4 DEF ProjectionOf, BlankRecord, Record, LogKinds, MessageKinds, SaidKinds
<1>5. CASE e.kind = "CheckpointCreated"
  BY <1>0, <1>5 DEF ProjectionOf, BlankRecord, Record, LogKinds, MessageKinds, SaidKinds
<1> QED BY <1>1, <1>2, <1>3, <1>4, <1>5 DEF RecordKinds

LEMMA NoRecordTyped == NoRecord \in Record
BY DEF NoRecord, BlankRecord, Record, LogKinds

LEMMA AbortMarkerTyped ==
  ASSUME NEW a \in Nat, NEW b \in Nat
  PROVE  AbortMarker(a, b) \in Record
BY DEF AbortMarker, BlankRecord, Record, LogKinds

LEMMA EmptyWindowTyped == Reject(EmptyWindow) \in Window
<1>1. EmptyWindow \in Window
  <2>1. <<>> \in Seq([ev : Nat, seq : Nat]) /\ {} \in SUBSET Nat
    OBVIOUS
  <2> QED BY <2>1 DEF EmptyWindow, Window
<1>2. ASSUME NEW w \in Window PROVE Reject(w) \in Window
  BY DEF Reject, Window
<1> QED BY <1>1, <1>2

LEMMA RestoreTyped == ASSUME NEW l PROVE Restore(l) \in Window
BY EmptyWindowTyped DEF Restore

LEMMA DropTyped ==
  ASSUME NEW S, NEW s \in Seq(S), NEW n \in Nat
  PROVE  Drop(s, n) \in Seq(S)
BY DEF Drop

(* ----------------------------- types, inductively ------------------------ *)

\* A transaction in flight owes a projection, or holds its intent.
TxShape ==
  /\ tx.step # "idle" =>
       tx.ev.kind \in MessageKinds \cup RecordKinds \cup HeldKinds
  /\ tx.step \in {"journaled", "attached", "logged", "committed"} =>
       tx.ev.kind \in MessageKinds \cup RecordKinds

\* The prefix a script replaces is still there when its counts are written.
ScriptShape ==
  /\ script.prefix <= Len(live)
  /\ proc # "open" => script.prefix = 0
  /\ tx.step # "idle" /\ tx.ev.kind = "ContextReduced" => script.prefix = 0

TypeInv == TypeOK /\ TxShape /\ ScriptShape

LEMMA JournalTyped ==
  ASSUME TypeOK, NEW e \in Event, AppendJournal(e)
  PROVE  /\ journal' \in Seq(Event) /\ buffer' \in Seq(Event)
         /\ lastSeq' \in Nat
<1>1. Stamped(e) \in Event
  <2>1. lastSeq + 1 \in Nat
    BY DEF TypeOK
  <2> QED BY <2>1, StampTyped, Zenon DEF Stamped
<1>2. Append(buffer, Stamped(e)) \in Seq(Event)
  BY <1>1 DEF TypeOK
<1>3. journal \o Append(buffer, Stamped(e)) \in Seq(Event)
  BY <1>2, ConcatProperties DEF TypeOK
<1>4. CASE Durable(e)
  <2>1. journal' \in Seq(Event) /\ buffer' = <<>>
    BY <1>3, <1>4 DEF AppendJournal
  <2>2. lastSeq' \in Nat
    BY DEF AppendJournal, TypeOK
  <2>3. buffer' \in Seq(Event)
    BY <2>1
  <2> QED BY <2>1, <2>2, <2>3
<1>5. CASE ~Durable(e)
  <2>1. journal' = journal /\ buffer' \in Seq(Event)
    BY <1>2, <1>5 DEF AppendJournal
  <2>2. lastSeq' \in Nat /\ journal \in Seq(Event)
    BY DEF AppendJournal, TypeOK
  <2> QED BY <2>1, <2>2
<1> QED BY <1>4, <1>5

LEMMA RequestTyped ==
  ASSUME TypeInv, NEW e \in Event, Request(e), script' \in Scripts,
         e.kind \in MessageKinds \cup RecordKinds \cup HeldKinds
  PROVE  TypeOK' /\ TxShape'
<1>1. wal' \subseteq Intents
  BY NoRecordTyped DEF Request, Prepare, TypeInv, TypeOK, Intents
<1>2. tx' \in Transactions /\ TxShape'
  BY DEF Request, Prepare, Transactions, TxShape
<1>3. nextId' \in Nat
  BY DEF Request, Prepare, TypeInv, TypeOK
<1> QED BY <1>1, <1>2, <1>3 DEF Request, TypeInv, TypeOK

LEMMA FreshTyped ==
  ASSUME TypeOK, NEW kind \in EventKinds
  PROVE  Fresh(kind) \in Event /\ Fresh(kind).kind = kind
BY NewEventTyped DEF Fresh, TypeOK, NewEvent

(* One lemma for each action that writes more than a field of its own. *)

LEMMA ReturnTyped ==
  ASSUME TypeOK, NEW e \in Event, Return(e)
  PROVE  live' \in Seq(Cites) /\ script' \in Scripts /\ capsule' \in Nat
           /\ context' \in Nat
<1> DEFINE cite == [ev |-> e.id, seq |-> e.seq]
<1>1. cite \in Cites /\ e.removed \in Nat /\ e.epoch \in Nat
  BY DEF Event, Cites
<1>2. /\ live \in Seq(Cites) /\ script \in Scripts /\ capsule \in Nat
      /\ context \in Nat
  BY DEF TypeOK
<1>3. script.cite \in Cites /\ script.cite.ev \in Nat
  BY <1>2 DEF Scripts, Cites
<1>4. Drop(live, e.removed) \in Seq(Cites)
  BY <1>1, <1>2, DropTyped
<1>5. NoScript \in Scripts
  BY DEF NoScript, Scripts, NoCite, Cites
<1>6. CASE e.kind \in SaidKinds
  <2>1. live' = Append(live, cite) /\ UNCHANGED <<script, capsule, context>>
    BY <1>6 DEF Return, SaidKinds
  <2> QED BY <1>1, <1>2, <2>1
<1>7. CASE e.kind = "ContextReduced"
  BY <1>2, <1>4, <1>7 DEF Return, SaidKinds
<1>8. CASE e.kind = "CompactionStarted"
  BY <1>2, <1>8 DEF Return, SaidKinds, Scripts
<1>9. CASE e.kind = "ContextSummary"
  BY <1>1, <1>2, <1>9 DEF Return, SaidKinds, Scripts
<1>10. CASE e.kind = "CompactionCompleted"
  <2>1. <<script.cite>> \o Drop(live, e.removed) \in Seq(Cites)
    BY <1>3, <1>4, ConcatProperties
  <2> QED BY <1>1, <1>2, <1>5, <1>10, <2>1 DEF Return, SaidKinds
<1>11. CASE e.kind = "CheckpointCreated"
  BY <1>1, <1>2, <1>11 DEF Return, SaidKinds, Scripts
<1>12. CASE e.kind = "CheckpointCompleted"
  BY <1>1, <1>2, <1>3, <1>4, <1>5, <1>12 DEF Return, SaidKinds
<1>13. CASE e.kind \notin SaidKinds \cup {"ContextReduced", "CompactionStarted",
            "ContextSummary", "CompactionCompleted", "CheckpointCreated",
            "CheckpointCompleted"}
  BY <1>2, <1>13 DEF Return, SaidKinds
<1> QED BY <1>6, <1>7, <1>8, <1>9, <1>10, <1>11, <1>12, <1>13

LEMMA FinishTyped ==
  ASSUME TypeOK, NEW e \in Event, Finish(e)
  PROVE  /\ tx' \in Transactions /\ tx'.step = "idle"
         /\ live' \in Seq(Cites) /\ script' \in Scripts /\ capsule' \in Nat
         /\ context' \in Nat
<1>1. Idle \in Transactions /\ Idle.step = "idle"
  <2>1. NoEvent \in Event
    BY NewEventTyped DEF NoEvent, EventKinds, PlainKinds
  <2> QED BY <2>1 DEF Idle, Transactions
<1>2. CASE proc = "open"
  BY <1>1, <1>2, ReturnTyped DEF Finish
<1>3. CASE proc # "open"
  BY <1>1, <1>3 DEF Finish, TypeOK
<1> QED BY <1>2, <1>3

\* The runtime's own requests.
LEMMA RuntimeTyped ==
  ASSUME TypeInv, Runtime
  PROVE  TypeOK' /\ TxShape'
<1> USE DEF EventKinds, MessageKinds, SaidKinds, RecordKinds, HeldKinds, PlainKinds
<1>0. TypeOK
  BY DEF TypeInv
<1>1. CASE EmitDelta
  <2>1. Fresh("AssistantDelta") \in Event
    BY <1>0, FreshTyped
  <2>2. /\ journal' \in Seq(Event) /\ buffer' \in Seq(Event)
        /\ lastSeq' \in Nat
    BY <1>0, <1>1, <2>1, JournalTyped DEF EmitDelta
  <2> QED BY <1>1, <2>2 DEF EmitDelta, TypeInv, TypeOK, TxShape
<1>2. CASE PrepareMessage
  <2>0. PICK kind \in SaidKinds : MayStart(kind) /\ Request(Fresh(kind))
    BY <1>2 DEF PrepareMessage
  <2>1. Fresh(kind) \in Event /\ Fresh(kind).kind = kind
    BY <1>0, FreshTyped
  <2>2. script' \in Scripts
    BY <1>0, <1>2 DEF PrepareMessage, TypeOK
  <2> QED BY <1>0, <2>0, <2>1, <2>2, RequestTyped
<1>3. CASE PrepareReduction
  <2>1. PICK d \in DOMAIN live :
          Request([Fresh("ContextReduced") EXCEPT !.removed = d,
                     !.retained = Len(live) - d + IF capsule = 0 THEN 0 ELSE 1])
    BY <1>3 DEF PrepareReduction
  <2> DEFINE r == Len(live) - d + IF capsule = 0 THEN 0 ELSE 1
             e == [Fresh("ContextReduced") EXCEPT !.removed = d, !.retained = r]
  <2>2. d \in Nat /\ r \in Nat
    BY <1>0 DEF TypeOK
  <2>3. Fresh("ContextReduced") \in Event
          /\ Fresh("ContextReduced").kind = "ContextReduced"
    BY <1>0, FreshTyped
  <2> HIDE DEF r
  <2>4. e \in Event /\ e.kind = "ContextReduced"
    BY <2>2, <2>3 DEF Event
  <2>5. Request(e)
    BY <2>1 DEF r
  <2> QED BY <1>0, <1>3, <2>4, <2>5, RequestTyped DEF PrepareReduction, TypeOK
<1>4. CASE PrepareLimited
  <2>1. Fresh("OutputLimited") \in Event
          /\ Fresh("OutputLimited").kind = "OutputLimited"
    BY <1>0, FreshTyped
  <2> QED BY <1>0, <1>4, <2>1, RequestTyped DEF PrepareLimited, TypeOK
<1>5. CASE StartCompaction
  <2>1. PICK p \in DOMAIN live, text \in Texts :
          script' = [NoScript EXCEPT !.step = "opening", !.prefix = p,
                       !.text = text, !.start = nextId,
                       !.from = live[1].seq, !.through = live[p].seq]
    BY <1>5 DEF StartCompaction
  <2>2. live[1] \in Cites /\ live[p] \in Cites /\ p \in Nat /\ nextId \in Nat
    BY <1>0 DEF TypeOK
  <2>3. live[1].seq \in Nat /\ live[p].seq \in Nat
    BY <2>2 DEF Cites
  <2>4. script' \in Scripts
    BY <2>1, <2>2, <2>3 DEF NoScript, NoCite, Scripts, Cites
  <2>5. Fresh("CompactionStarted") \in Event
          /\ Fresh("CompactionStarted").kind = "CompactionStarted"
    BY <1>0, FreshTyped
  <2> QED BY <1>5, <2>4, <2>5, RequestTyped DEF StartCompaction
<1>6. CASE PrepareSummary
  <2> DEFINE e == [Fresh("ContextSummary") EXCEPT !.text = script.text]
  <2>1. Fresh("ContextSummary") \in Event
          /\ Fresh("ContextSummary").kind = "ContextSummary"
    BY <1>0, FreshTyped
  <2>2. script.text \in Texts \cup {NoText}
    BY <1>0 DEF TypeOK, Scripts
  <2>3. e \in Event /\ e.kind = "ContextSummary"
    BY <2>1, <2>2 DEF Event
  <2> QED BY <1>0, <1>6, <2>3, RequestTyped DEF PrepareSummary, TypeOK
<1>7. CASE EmitEpoch
  <2> DEFINE e == [Fresh("CompactionEpoch") EXCEPT !.epoch = context + 1,
                     !.from = script.from, !.through = script.through,
                     !.text = script.text]
  <2>1. Fresh("CompactionEpoch") \in Event
    BY <1>0, FreshTyped
  <2>2. /\ script.text \in Texts \cup {NoText} /\ script.from \in Nat
        /\ script.through \in Nat /\ context + 1 \in Nat
    BY <1>0 DEF TypeOK, Scripts
  <2>3. e \in Event
    BY <2>1, <2>2 DEF Event
  <2>4. /\ journal' \in Seq(Event) /\ buffer' \in Seq(Event)
        /\ lastSeq' \in Nat
    BY <1>0, <1>7, <2>3, JournalTyped DEF EmitEpoch
  <2>5. script' \in Scripts
    BY <1>0, <1>7 DEF EmitEpoch, TypeOK, Scripts
  <2> QED BY <1>7, <2>4, <2>5 DEF EmitEpoch, TypeInv, TypeOK, TxShape
<1>8. CASE PrepareCompleted
  <2> DEFINE r == Len(live) - script.prefix
             e == [Fresh("CompactionCompleted") EXCEPT !.epoch = context + 1,
                     !.removed = script.prefix, !.retained = r]
  <2>1. Fresh("CompactionCompleted") \in Event
          /\ Fresh("CompactionCompleted").kind = "CompactionCompleted"
    BY <1>0, FreshTyped
  <2>2. script.prefix \in Nat /\ context + 1 \in Nat /\ Len(live) \in Nat
    BY <1>0 DEF TypeOK, Scripts
  <2>5. r \in Nat
    BY <2>2 DEF TypeInv, ScriptShape
  <2> HIDE DEF r
  <2>3. e \in Event /\ e.kind = "CompactionCompleted"
    BY <2>1, <2>2, <2>5 DEF Event
  <2>4. Request(e)
    BY <1>8 DEF PrepareCompleted, r
  <2> QED BY <1>0, <1>8, <2>3, <2>4, RequestTyped DEF PrepareCompleted, TypeOK
<1>9. CASE StartCheckpoint
  <2>1. PICK p \in DOMAIN live \cup {Len(live)} :
          /\ script' = [NoScript EXCEPT !.step = "opening", !.prefix = p]
          /\ Request([Fresh("CheckpointCreated") EXCEPT !.epoch = context + 1,
                        !.removed = p])
    BY <1>9 DEF StartCheckpoint
  <2> DEFINE e == [Fresh("CheckpointCreated") EXCEPT !.epoch = context + 1,
                     !.removed = p]
  <2>2. p \in Nat /\ context + 1 \in Nat
    BY <1>0 DEF TypeOK
  <2>3. script' \in Scripts
    BY <2>1, <2>2 DEF NoScript, NoCite, Scripts, Cites
  <2>4. Fresh("CheckpointCreated") \in Event
          /\ Fresh("CheckpointCreated").kind = "CheckpointCreated"
    BY <1>0, FreshTyped
  <2>5. e \in Event /\ e.kind = "CheckpointCreated"
    BY <2>2, <2>4 DEF Event
  <2> QED BY <2>1, <2>3, <2>5, RequestTyped
<1>10. CASE PrepareCheckpointCompleted
  <2> DEFINE r == Len(live) - script.prefix + 1
             e == [Fresh("CheckpointCompleted") EXCEPT !.epoch = context + 1,
                     !.removed = script.prefix, !.retained = r]
  <2>1. Fresh("CheckpointCompleted") \in Event
          /\ Fresh("CheckpointCompleted").kind = "CheckpointCompleted"
    BY <1>0, FreshTyped
  <2>2. script.prefix \in Nat /\ context + 1 \in Nat /\ Len(live) \in Nat
    BY <1>0 DEF TypeOK, Scripts
  <2>5. r \in Nat
    BY <2>2 DEF TypeInv, ScriptShape
  <2> HIDE DEF r
  <2>3. e \in Event /\ e.kind = "CheckpointCompleted"
    BY <2>1, <2>2, <2>5 DEF Event
  <2>4. Request(e)
    BY <1>10 DEF PrepareCheckpointCompleted, r
  <2> QED BY <1>0, <1>10, <2>3, <2>4, RequestTyped
       DEF PrepareCheckpointCompleted, TypeOK
<1>11. CASE ReleaseLimited
  BY <1>11 DEF ReleaseLimited, TypeInv, TypeOK, TxShape
<1>12. CASE FlushBuffer
  <2>1. journal' \in Seq(Event) /\ buffer' \in Seq(Event)
    BY <1>0, <1>12, ConcatProperties, EmptySeq DEF FlushBuffer, TypeOK
  <2> QED BY <1>12, <2>1 DEF FlushBuffer, TypeInv, TypeOK, TxShape
<1> QED
  BY <1>1, <1>2, <1>3, <1>4, <1>5, <1>6, <1>7, <1>8, <1>9, <1>10, <1>11,
     <1>12 DEF Runtime

LEMMA RuntimeScript ==
  ASSUME TypeInv, Runtime
  PROVE  ScriptShape'
<1> USE DEF Ready, MayStart, Request, Prepare
<1>0. /\ TypeOK /\ ScriptShape /\ live \in Seq(Cites) /\ Len(live) \in Nat
      /\ script.prefix \in Nat /\ script \in Scripts
  BY DEF TypeInv, TypeOK, Scripts
<1>1. CASE EmitDelta \/ ReleaseLimited \/ FlushBuffer
  BY <1>0, <1>1 DEF EmitDelta, ReleaseLimited, FlushBuffer, ScriptShape
<1>2. CASE PrepareMessage \/ PrepareReduction \/ PrepareLimited
  <2>1. script = NoScript /\ script' = script /\ live' = live /\ proc' = proc
    BY <1>2 DEF PrepareMessage, PrepareReduction, PrepareLimited
  <2>2. script.prefix = 0
    BY <2>1 DEF NoScript
  <2> QED BY <1>0, <2>1, <2>2 DEF ScriptShape
<1>3. CASE StartCompaction
  <2>1. PICK p \in DOMAIN live, text \in Texts :
          script' = [NoScript EXCEPT !.step = "opening", !.prefix = p,
                       !.text = text, !.start = nextId,
                       !.from = live[1].seq, !.through = live[p].seq]
    BY <1>3 DEF StartCompaction
  <2>2. script'.prefix = p /\ p \in Nat /\ p <= Len(live)
    BY <1>0, <2>1 DEF NoScript
  <2>3. tx'.ev.kind = "CompactionStarted" /\ proc = "open" /\ proc' = proc
          /\ live' = live
    BY <1>3 DEF StartCompaction, Fresh, NewEvent
  <2> QED BY <2>2, <2>3 DEF ScriptShape
<1>4. CASE PrepareSummary
  <2>1. tx'.ev.kind = "ContextSummary" /\ proc = "open" /\ proc' = proc
          /\ live' = live /\ script' = script
    BY <1>4 DEF PrepareSummary, Fresh, NewEvent
  <2> QED BY <1>0, <2>1 DEF ScriptShape
<1>5. CASE EmitEpoch
  <2>1. tx' = tx /\ tx.step = "idle" /\ proc = "open" /\ proc' = proc
          /\ live' = live
    BY <1>5 DEF EmitEpoch, Idle
  <2>2. script'.prefix = script.prefix
    BY <1>0, <1>5 DEF EmitEpoch, Scripts
  <2> QED BY <1>0, <2>1, <2>2 DEF ScriptShape
<1>6. CASE PrepareCompleted
  <2>1. tx'.ev.kind = "CompactionCompleted" /\ proc = "open" /\ proc' = proc
          /\ live' = live /\ script' = script
    BY <1>6 DEF PrepareCompleted, Fresh, NewEvent
  <2> QED BY <1>0, <2>1 DEF ScriptShape
<1>7. CASE StartCheckpoint
  <2>1. PICK p \in DOMAIN live \cup {Len(live)} :
          /\ script' = [NoScript EXCEPT !.step = "opening", !.prefix = p]
          /\ Request([Fresh("CheckpointCreated") EXCEPT !.epoch = context + 1,
                        !.removed = p])
    BY <1>7 DEF StartCheckpoint
  <2>2. script'.prefix = p /\ p \in Nat /\ p <= Len(live)
    BY <1>0, <2>1 DEF NoScript
  <2>3. tx'.ev.kind = "CheckpointCreated" /\ proc = "open" /\ proc' = proc
          /\ live' = live
    BY <1>7, <2>1 DEF StartCheckpoint, Fresh, NewEvent
  <2> QED BY <2>2, <2>3 DEF ScriptShape
<1>8. CASE PrepareCheckpointCompleted
  <2>1. tx'.ev.kind = "CheckpointCompleted" /\ proc = "open" /\ proc' = proc
          /\ live' = live /\ script' = script
    BY <1>8 DEF PrepareCheckpointCompleted, Fresh, NewEvent
  <2> QED BY <1>0, <2>1 DEF ScriptShape
<1> QED BY <1>1, <1>2, <1>3, <1>4, <1>5, <1>6, <1>7, <1>8 DEF Runtime

LEMMA ProjectionOfTx ==
  ASSUME TypeInv, tx.step \in {"journaled", "attached", "logged", "committed"}
  PROVE  Projection \in Record
<1>1. /\ tx.ev \in Event /\ script.from \in Nat /\ script.through \in Nat
  BY DEF TypeInv, TypeOK, Transactions, Scripts
<1>2. tx.ev.kind \in MessageKinds \cup RecordKinds
  BY DEF TypeInv, TxShape
<1> QED BY <1>1, <1>2, ProjectionTyped DEF Projection

LEMMA FinishScript ==
  ASSUME TypeInv, NEW e \in Event, e.kind = tx.ev.kind, tx.step # "idle",
         Finish(e), proc' = proc
  PROVE  ScriptShape'
<1>0. /\ TypeOK /\ live \in Seq(Cites) /\ Len(live) \in Nat
      /\ script \in Scripts /\ script.prefix \in Nat /\ tx'.step = "idle"
      /\ script.prefix <= Len(live)
  BY DEF TypeInv, TypeOK, Scripts, ScriptShape, Finish, Idle
<1>1. CASE proc # "open"
  BY <1>0, <1>1 DEF Finish, TypeInv, ScriptShape
<1>2. CASE proc = "open"
  <2>0. Return(e) /\ proc' = "open" /\ NoScript.prefix = 0
    BY <1>2 DEF Finish, NoScript
  <2>1. live' \in Seq(Cites) /\ Len(live') \in Nat
    BY <1>0, <2>0, ReturnTyped
  <2>2. CASE e.kind \in SaidKinds
    <3>1. script' = script /\ Len(live') = Len(live) + 1
      BY <1>0, <2>0, <2>2 DEF Return, SaidKinds
    <3> QED BY <1>0, <2>0, <3>1 DEF ScriptShape
  <2>3. CASE e.kind = "ContextReduced"
    <3>1. script' = script /\ script.prefix = 0
      BY <2>0, <2>3 DEF Return, SaidKinds, TypeInv, ScriptShape
    <3> QED BY <1>0, <2>0, <2>1, <3>1 DEF ScriptShape
  <2>4. CASE e.kind \in {"CompactionStarted", "ContextSummary", "CheckpointCreated"}
    <3>1. live' = live /\ script'.prefix = script.prefix
      BY <1>0, <2>0, <2>4 DEF Return, SaidKinds, Scripts
    <3> QED BY <1>0, <2>0, <3>1 DEF ScriptShape
  <2>5. CASE e.kind = "CompactionCompleted"
    <3>1. script' = NoScript
      BY <2>0, <2>5 DEF Return, SaidKinds
    <3> QED BY <1>0, <2>0, <2>1, <3>1 DEF ScriptShape
  <2>6. CASE e.kind = "CheckpointCompleted"
    <3>1. script' = NoScript
      BY <2>0, <2>6 DEF Return, SaidKinds
    <3> QED BY <1>0, <2>0, <2>1, <3>1 DEF ScriptShape
  <2>7. CASE e.kind \notin SaidKinds \cup {"ContextReduced", "CompactionStarted",
              "ContextSummary", "CompactionCompleted", "CheckpointCreated",
              "CheckpointCompleted"}
    <3>1. live' = live /\ script' = script
      BY <2>0, <2>7 DEF Return, SaidKinds
    <3> QED BY <1>0, <2>0, <3>1 DEF ScriptShape
  <2> QED BY <2>2, <2>3, <2>4, <2>5, <2>6, <2>7
<1> QED BY <1>1, <1>2

LEMMA TransactionScript ==
  ASSUME TypeInv, Transaction
  PROVE  ScriptShape'
<1>0. /\ tx \in Transactions /\ tx.ev \in Event /\ lastSeq + 1 \in Nat
      /\ ScriptShape
  BY DEF TypeInv, TypeOK, Transactions
<1>1. Stamped(tx.ev) \in Event
  BY <1>0, StampTyped, Zenon DEF Stamped
<1>2. Stamped(tx.ev).kind = tx.ev.kind
  BY <1>0 DEF Stamped, Event
<1>3. CASE JournalEvent
  <2>0. tx.step = "prepared" /\ proc' = proc
    BY <1>3 DEF JournalEvent, Writing
  <2>1. CASE tx.ev.kind \in HeldKinds
    BY <1>1, <1>2, <1>3, <2>0, <2>1, FinishScript DEF JournalEvent
  <2>2. CASE tx.ev.kind \notin HeldKinds
    <3>1. tx'.ev.kind = tx.ev.kind /\ script' = script /\ live' = live
      BY <1>2, <1>3, <2>2 DEF JournalEvent
    <3> QED BY <1>0, <2>0, <3>1 DEF ScriptShape
  <2> QED BY <2>1, <2>2
<1>4. CASE AttachRecord
  <2>1. /\ tx'.ev = tx.ev /\ script' = script /\ live' = live /\ proc' = proc
        /\ tx.step # "idle"
    BY <1>0, <1>4 DEF AttachRecord, Writing, Transactions
  <2> QED BY <1>0, <2>1 DEF ScriptShape
<1>5. CASE AppendLog
  <2>1. /\ tx'.ev = tx.ev /\ script' = script /\ live' = live /\ proc' = proc
        /\ tx.step # "idle"
    BY <1>0, <1>5 DEF AppendLog, Writing, Transactions
  <2> QED BY <1>0, <2>1 DEF ScriptShape
<1>6. CASE CommitTransaction
  <2>0. tx.step = "logged" /\ proc' = proc
    BY <1>6 DEF CommitTransaction, Writing
  <2>1. CASE tx.ev.kind = "CompactionCompleted"
    <3>1. tx'.ev = tx.ev /\ script' = script /\ live' = live
      BY <1>0, <1>6, <2>1 DEF CommitTransaction, Transactions
    <3> QED BY <1>0, <2>0, <3>1 DEF ScriptShape
  <2>2. CASE tx.ev.kind # "CompactionCompleted"
    BY <1>0, <1>6, <2>0, <2>2, FinishScript DEF CommitTransaction
  <2> QED BY <2>1, <2>2
<1>7. CASE ReleaseStart
  <2>1. tx.step = "committed" /\ proc' = proc /\ Finish(tx.ev)
    BY <1>7 DEF ReleaseStart, Writing
  <2> QED BY <1>0, <2>1, FinishScript
<1> QED BY <1>3, <1>4, <1>5, <1>6, <1>7 DEF Transaction


LEMMA TransactionTyped ==
  ASSUME TypeInv, Transaction
  PROVE  TypeOK' /\ TxShape'
<1>0. TypeOK /\ TxShape /\ tx \in Transactions /\ tx.ev \in Event
  BY DEF TypeInv, TypeOK, Transactions
<1>1. CASE JournalEvent
  <2>1. /\ journal' \in Seq(Event) /\ buffer' \in Seq(Event)
        /\ lastSeq' \in Nat
    BY <1>0, <1>1, JournalTyped DEF JournalEvent
  <2>2. Stamped(tx.ev) \in Event /\ Stamped(tx.ev).kind = tx.ev.kind
    <3>1. lastSeq + 1 \in Nat
      BY <1>0 DEF TypeOK
    <3>2. Stamped(tx.ev) \in Event
      BY <1>0, <3>1, StampTyped, Zenon DEF Stamped
    <3> QED BY <1>0, <3>2 DEF Stamped, Event
  <2>3. CASE tx.ev.kind \in HeldKinds
    <3>1. Finish(Stamped(tx.ev))
      BY <1>1, <2>3 DEF JournalEvent
    <3>2. /\ tx' \in Transactions /\ tx'.step = "idle"
          /\ live' \in Seq(Cites) /\ script' \in Scripts
          /\ capsule' \in Nat /\ context' \in Nat
      BY <1>0, <2>2, <3>1, FinishTyped
    <3> QED BY <1>0, <1>1, <2>1, <3>2 DEF JournalEvent, TypeOK, TxShape
  <2>4. CASE tx.ev.kind \notin HeldKinds
    <3>1. tx' = [step |-> "journaled", ev |-> Stamped(tx.ev)]
      BY <1>1, <2>4 DEF JournalEvent
    <3>2. tx.ev.kind \in MessageKinds \cup RecordKinds
      BY <1>0, <1>1, <2>4 DEF JournalEvent, Writing, TxShape
    <3>3. tx' \in Transactions /\ TxShape'
      BY <2>2, <3>1, <3>2 DEF Transactions, TxShape
    <3> QED BY <1>0, <1>1, <2>1, <2>4, <3>3 DEF JournalEvent, TypeOK
  <2> QED BY <2>3, <2>4
<1>2. CASE AttachRecord
  <2>1. Projection \in Record
    BY <1>2, ProjectionOfTx DEF AttachRecord, Writing
  <2>2. \A i \in Intents : [i EXCEPT !.rec = Projection] \in Intents
    BY <2>1 DEF Intents
  <2>3. wal' \subseteq Intents
    BY <1>0, <1>2, <2>2 DEF AttachRecord, IntentsOf, TypeOK
  <2>4. tx' \in Transactions /\ tx'.ev = tx.ev /\ tx'.step = "attached"
    BY <1>0, <1>2 DEF AttachRecord, Transactions
  <2> QED BY <1>0, <1>2, <2>3, <2>4 DEF AttachRecord, Writing, TypeOK, TxShape
<1>3. CASE AppendLog
  <2>1. Projection \in Record
    BY <1>3, ProjectionOfTx DEF AppendLog, Writing
  <2>2. log' \in Seq(Record)
    BY <1>0, <1>3, <2>1 DEF AppendLog, TypeOK
  <2>3. tx' \in Transactions /\ tx'.ev = tx.ev /\ tx'.step = "logged"
    BY <1>0, <1>3 DEF AppendLog, Transactions
  <2> QED BY <1>0, <1>3, <2>2, <2>3 DEF AppendLog, Writing, TypeOK, TxShape
<1>4. CASE CommitTransaction
  <2>1. CASE tx.ev.kind = "CompactionCompleted"
    <3>1. tx' \in Transactions /\ tx'.ev = tx.ev /\ tx'.step = "committed"
      BY <1>0, <1>4, <2>1 DEF CommitTransaction, Transactions
    <3> QED BY <1>0, <1>4, <2>1, <3>1
         DEF CommitTransaction, Writing, TypeOK, TxShape
  <2>2. CASE tx.ev.kind # "CompactionCompleted"
    <3>1. /\ tx' \in Transactions /\ tx'.step = "idle"
          /\ live' \in Seq(Cites) /\ script' \in Scripts
          /\ capsule' \in Nat /\ context' \in Nat
      BY <1>0, <1>4, <2>2, FinishTyped DEF CommitTransaction
    <3> QED BY <1>0, <1>4, <3>1 DEF CommitTransaction, TypeOK, TxShape
  <2> QED BY <2>1, <2>2
<1>5. CASE ReleaseStart
  <2>1. /\ tx' \in Transactions /\ tx'.step = "idle"
        /\ live' \in Seq(Cites) /\ script' \in Scripts
        /\ capsule' \in Nat /\ context' \in Nat
    BY <1>0, <1>5, FinishTyped DEF ReleaseStart
  <2> QED BY <1>0, <1>5, <2>1 DEF ReleaseStart, TypeOK, TxShape
<1> QED BY <1>1, <1>2, <1>3, <1>4, <1>5 DEF Transaction

LEMMA RecoveryLogTyped ==
  ASSUME TypeInv, NEW rec \in Record, RecoveryLog(rec)
  PROVE  TypeInv'
<1>1. log' \in Seq(Record)
  BY DEF RecoveryLog, TypeInv, TypeOK
<1> QED BY <1>1 DEF RecoveryLog, TypeInv, TypeOK, TxShape, ScriptShape

LEMMA RecoveryCommitTyped ==
  ASSUME TypeInv, NEW i, RecoveryCommit(i)
  PROVE  TypeInv'
BY DEF RecoveryCommit, TypeInv, TypeOK, TxShape, ScriptShape

LEMMA AdvanceTyped ==
  ASSUME TypeInv, NEW next \in {"compactions", "checkpoints", "pending", "verify"},
         Advance(next)
  PROVE  TypeInv'
BY DEF Advance, TypeInv, TypeOK, TxShape, ScriptShape

\* The event an intent was prepared for, where the trace has it.
LEMMA PositionOfIntent ==
  ASSUME TypeInv, NEW i, Journaled(i)
  PROVE  /\ Position(i) \in DOMAIN journal
         /\ journal[Position(i)] \in Event
         /\ journal[Position(i)].id = i.ev.id
<1>1. Position(i) \in EventOf(journal, i.ev.id)
  BY DEF Journaled, Position
<1> QED BY <1>1 DEF EventOf, TypeInv, TypeOK

LEMMA RecoveredTyped ==
  ASSUME TypeInv, NEW k \in DOMAIN journal,
         journal[k].kind \in MessageKinds \cup RecordKinds,
         Reconstructible(journal, log, k)
  PROVE  RecoveredRecord(journal, k) \in Record
<1>1. journal[k] \in Event
  BY DEF TypeInv, TypeOK
<1>2. CASE journal[k].kind = "CompactionCompleted"
  <2> DEFINE ep == CHOOSE ep \in EpochsFor(journal, k) : TRUE
  <2>1. ep \in EpochsFor(journal, k)
    BY <1>2 DEF Reconstructible
  <2>2. journal[ep] \in Event
    BY <2>1 DEF EpochsFor, TypeInv, TypeOK
  <2>3. journal[ep].from \in Nat /\ journal[ep].through \in Nat
    BY <2>2 DEF Event
  <2>4. RecoveredRecord(journal, k) =
          ProjectionOf(journal[k], <<journal[ep].from, journal[ep].through>>)
    BY <1>2 DEF RecoveredRecord
  <2> QED BY <1>1, <2>3, <2>4, ProjectionTyped
<1>3. CASE journal[k].kind # "CompactionCompleted"
  <2>1. RecoveredRecord(journal, k) = ProjectionOf(journal[k], <<0, 0>>)
    BY <1>3 DEF RecoveredRecord
  <2> QED BY <1>1, <2>1, ProjectionTyped
<1> QED BY <1>2, <1>3

LEMMA StagedSummaryTyped ==
  ASSUME TypeInv, NEW s \in DOMAIN journal
  PROVE  StagedSummary(journal, s) \in Nat
<1> DEFINE end == IF \E a \in DOMAIN journal : AbortsStart(journal[a], journal[s])
                    THEN CHOOSE a \in DOMAIN journal :
                           AbortsStart(journal[a], journal[s])
                    ELSE Len(journal) + 1
           staged == Between(journal, s, end, "ContextSummary")
<1>1. CASE staged = {}
  BY <1>1 DEF StagedSummary
<1>0. journal \in Seq(Event) /\ Len(journal) \in Nat /\ s \in Nat
  BY DEF TypeInv, TypeOK
<1>3. end \in Nat /\ end <= Len(journal) + 1
  <2>1. CASE \E a \in DOMAIN journal : AbortsStart(journal[a], journal[s])
    <3>1. end \in DOMAIN journal
      BY <2>1
    <3> QED BY <1>0, <3>1
  <2>2. CASE ~\E a \in DOMAIN journal : AbortsStart(journal[a], journal[s])
    BY <1>0, <2>2
  <2> QED BY <2>1, <2>2
<1>2. CASE staged # {}
  <2> DEFINE k == CHOOSE k \in staged : TRUE
  <2>1. k \in staged
    BY <1>2
  <2>2. k \in (s + 1)..(end - 1)
    BY <2>1 DEF Between
  <2> HIDE DEF end, k
  <2>3. k \in DOMAIN journal
    BY <1>0, <1>3, <2>2
  <2>4. journal[k].id \in Nat
    <3>1. journal[k] \in Event
      BY <1>0, <2>3
    <3> QED BY <3>1 DEF Event
  <2>5. StagedSummary(journal, s) = journal[k].id
    BY <1>2 DEF StagedSummary, end, k
  <2> QED BY <2>4, <2>5
<1> QED BY <1>1, <1>2

LEMMA ClosingEventTyped ==
  ASSUME TypeInv, NEW k \in DOMAIN journal, CheckpointClosable(k)
  PROVE  LET e == [NewEvent("CheckpointCompleted", nextId, journal[k].turn)
               EXCEPT !.parent = journal[k].id, !.epoch = journal[k].epoch,
                      !.removed = journal[k].removed,
                      !.retained = Len(BeforeBarrier(k).messages)
                                     - journal[k].removed + 1]
         IN e \in Event /\ e.kind = "CheckpointCompleted"
<1> DEFINE before == Len(BeforeBarrier(k).messages)
           r == before - journal[k].removed + 1
<1>1. journal[k] \in Event
  BY DEF TypeInv, TypeOK
<1>2. /\ journal[k].turn \in Nat /\ journal[k].id \in Nat
      /\ journal[k].epoch \in Nat /\ journal[k].removed \in Nat
  BY <1>1 DEF Event
<1>3. before \in Nat
  <2>1. BeforeBarrier(k) \in Window
    BY RestoreTyped DEF BeforeBarrier
  <2> QED BY <2>1 DEF Window
<1>4. journal[k].removed <= before
  BY DEF CheckpointClosable
<1> HIDE DEF before
<1>5. r \in Nat
  BY <1>2, <1>3, <1>4
<1> HIDE DEF r
<1>6. /\ NewEvent("CheckpointCompleted", nextId, journal[k].turn) \in Event
      /\ NewEvent("CheckpointCompleted", nextId, journal[k].turn).kind
           = "CheckpointCompleted"
  <2>1. nextId \in Nat /\ "CheckpointCompleted" \in EventKinds
    BY DEF TypeInv, TypeOK, EventKinds, RecordKinds
  <2> QED BY <1>2, <2>1, NewEventTyped DEF NewEvent
<1> DEFINE e == [NewEvent("CheckpointCompleted", nextId, journal[k].turn)
               EXCEPT !.parent = journal[k].id, !.epoch = journal[k].epoch,
                      !.removed = journal[k].removed, !.retained = r]
<1>7. e \in Event /\ e.kind = "CheckpointCompleted"
  BY <1>2, <1>5, <1>6 DEF Event
<1> QED BY <1>7 DEF r, before

LEMMA RecoveryTyped ==
  ASSUME TypeInv, Recovery
  PROVE  TypeInv'
<1>0. TypeOK /\ TxShape /\ ScriptShape
  BY DEF TypeInv
<1>1. CASE AppendBarrier
  <2>1. PICK i \in PendingBarriers : RecoveryLog(RecoveredRecord(journal, Position(i)))
    BY <1>1 DEF AppendBarrier
  <2>2. /\ Position(i) \in DOMAIN journal
        /\ journal[Position(i)].kind = "CheckpointCreated"
    BY <2>1, PositionOfIntent DEF PendingBarriers
  <2>3. Reconstructible(journal, log, Position(i))
    BY <2>2 DEF Reconstructible
  <2>4. RecoveredRecord(journal, Position(i)) \in Record
    BY <2>2, <2>3, RecoveredTyped DEF RecordKinds
  <2> QED BY <2>1, <2>4, RecoveryLogTyped
<1>2. CASE CommitBarrier
  BY <1>2, RecoveryCommitTyped DEF CommitBarrier
<1>3. CASE BarriersDone
  BY <1>3, AdvanceTyped DEF BarriersDone
<1>4. CASE DeclareAborted
  <2>1. PICK s \in OpenStarts(journal) :
          AppendJournal([NewEvent("CompactionAborted", nextId, journal[s].turn)
                           EXCEPT !.parent = journal[s].id])
    BY <1>4 DEF DeclareAborted
  <2> DEFINE n == NewEvent("CompactionAborted", nextId, journal[s].turn)
             e == [n EXCEPT !.parent = journal[s].id]
  <2>2. journal[s] \in Event
    BY <1>0 DEF OpenStarts, Starts, TypeOK
  <2>3. journal[s].turn \in Nat /\ journal[s].id \in Nat
    BY <2>2 DEF Event
  <2>4. n \in Event
    BY <1>0, <2>3, NewEventTyped DEF TypeOK, EventKinds, PlainKinds
  <2>5. e \in Event
    BY <2>3, <2>4 DEF Event
  <2>6. /\ journal' \in Seq(Event) /\ buffer' \in Seq(Event)
        /\ lastSeq' \in Nat
    BY <1>0, <2>1, <2>5, JournalTyped
  <2> QED BY <1>0, <1>4, <2>6
       DEF DeclareAborted, TypeInv, TypeOK, TxShape, ScriptShape
<1>5. CASE MarkAborted
  <2>1. PICK s \in Discarded :
          RecoveryLog(AbortMarker(journal[s].id, StagedSummary(journal, s)))
    BY <1>5 DEF MarkAborted
  <2>2. s \in DOMAIN journal
    BY DEF Discarded, OpenStarts, AbortedStarts, Starts
  <2>3. journal[s].id \in Nat
    <3>1. journal[s] \in Event
      BY <1>0, <2>2 DEF TypeOK
    <3> QED BY <3>1 DEF Event
  <2>4. AbortMarker(journal[s].id, StagedSummary(journal, s)) \in Record
    BY <2>2, <2>3, StagedSummaryTyped, AbortMarkerTyped
  <2> QED BY <2>1, <2>4, RecoveryLogTyped
<1>6. CASE CommitAborted
  BY <1>6, RecoveryCommitTyped DEF CommitAborted
<1>7. CASE CompactionsDone
  BY <1>7, AdvanceTyped DEF CompactionsDone
<1>8. CASE CloseCheckpoint
  <2>1. PICK k \in OpenCheckpoints(journal) :
          /\ CheckpointClosable(k)
          /\ Request([NewEvent("CheckpointCompleted", nextId, journal[k].turn)
               EXCEPT !.parent = journal[k].id, !.epoch = journal[k].epoch,
                      !.removed = journal[k].removed,
                      !.retained = Len(BeforeBarrier(k).messages)
                                     - journal[k].removed + 1])
    BY <1>8 DEF CloseCheckpoint
  <2> DEFINE e == [NewEvent("CheckpointCompleted", nextId, journal[k].turn)
               EXCEPT !.parent = journal[k].id, !.epoch = journal[k].epoch,
                      !.removed = journal[k].removed,
                      !.retained = Len(BeforeBarrier(k).messages)
                                     - journal[k].removed + 1]
  <2>2. k \in DOMAIN journal
    BY DEF OpenCheckpoints, Checkpoints
  <2>3. e \in Event /\ e.kind = "CheckpointCompleted"
    BY <2>1, <2>2, ClosingEventTyped
  <2> HIDE DEF e
  <2>4. Request(e)
    BY <2>1 DEF e
  <2>5. script' = script /\ script \in Scripts /\ e.kind \in RecordKinds
    BY <1>0, <1>8, <2>3 DEF CloseCheckpoint, TypeOK, RecordKinds
  <2>6. TypeOK' /\ TxShape'
    BY <2>3, <2>4, <2>5, RequestTyped
  <2>7. ScriptShape'
    BY <1>0, <2>3, <2>4, <2>5 DEF Request, Prepare, ScriptShape
  <2> QED BY <2>6, <2>7 DEF TypeInv
<1>9. CASE CheckpointsDone
  BY <1>9, AdvanceTyped DEF CheckpointsDone
<1>10. CASE ProjectPending
  <2>1. PICK i \in NextPending : Unprojected(i) /\ RecoveryLog(Owed(i))
    BY <1>10 DEF ProjectPending
  <2>2. i \in wal /\ Journaled(i) /\ Recoverable(i) /\ ~NothingToProject(i)
    BY <2>1 DEF NextPending, Unprojected, Stuck
  <2>3. i.rec \in Record
    BY <1>0, <2>2 DEF TypeOK, Intents
  <2>4. /\ Position(i) \in DOMAIN journal
        /\ journal[Position(i)].kind \in MessageKinds \cup RecordKinds
    BY <2>2, PositionOfIntent DEF NothingToProject
  <2>5. Owed(i) \in Record
    BY <2>2, <2>3, <2>4, RecoveredTyped DEF Owed, Recoverable
  <2> QED BY <2>1, <2>5, RecoveryLogTyped
<1>11. CASE CommitPending
  BY <1>11, RecoveryCommitTyped DEF CommitPending
<1>12. CASE PendingDone
  BY <1>12, AdvanceTyped DEF PendingDone
<1>13. CASE Resume
  <2>1. Restore(log) \in Window
    BY RestoreTyped
  <2>2. live' \in Seq(Cites) /\ capsule' \in Nat /\ context' \in Nat
    BY <1>13, <2>1 DEF Resume, Window, Cites
  <2>3. script.prefix = 0 /\ Len(live') \in Nat
    BY <1>0, <1>13, <2>2 DEF Resume, Recovering, ScriptShape
  <2>4. TypeOK'
    BY <1>0, <1>13, <2>2 DEF Resume, TypeOK
  <2>5. TxShape' /\ ScriptShape'
    BY <1>0, <1>13, <2>3 DEF Resume, TxShape, ScriptShape
  <2> QED BY <2>4, <2>5 DEF TypeInv
<1>14. CASE Refuse
  BY <1>0, <1>14 DEF Refuse, TypeInv, TypeOK, TxShape, ScriptShape
<1> QED
  BY <1>1, <1>2, <1>3, <1>4, <1>5, <1>6, <1>7, <1>8, <1>9, <1>10, <1>11,
     <1>12, <1>13, <1>14 DEF Recovery

\* The process dies, is refused or comes back.
LEMMA RestartTyped ==
  ASSUME TypeInv, Crash \/ GiveUp \/ Open
  PROVE  TypeInv'
<1>0. TypeOK /\ TxShape /\ ScriptShape
  BY DEF TypeInv
<1>1. ASSUME Forget
      PROVE  /\ buffer' \in Seq(Event) /\ lastSeq' \in Nat
             /\ tx' \in Transactions /\ TxShape'
             /\ script' \in Scripts /\ script'.prefix = 0 /\ live' \in Seq(Cites)
             /\ capsule' \in Nat /\ context' \in Nat
             /\ stage' = "none" /\ ScriptShape'
  <2>1. NoEvent \in Event
    BY NewEventTyped DEF NoEvent, EventKinds, PlainKinds
  <2>2. tx' \in Transactions /\ tx'.step = "idle"
    BY <1>1, <2>1 DEF Forget, Idle, Transactions
  <2>3. script' \in Scripts /\ script'.prefix = 0
    BY <1>1 DEF Forget, NoScript, NoCite, Scripts, Cites
  <2>4. live' = <<>> /\ live' \in Seq(Cites) /\ Len(live') = 0
    BY <1>1, EmptySeq DEF Forget
  <2>5. TxShape' /\ ScriptShape'
    BY <2>2, <2>3, <2>4 DEF TxShape, ScriptShape
  <2>6. buffer' \in Seq(Event)
    BY <1>1, EmptySeq DEF Forget
  <2>7. lastSeq' \in Nat /\ capsule' \in Nat /\ context' \in Nat /\ stage' = "none"
    BY <1>1 DEF Forget
  <2> QED BY <2>2, <2>3, <2>4, <2>5, <2>6, <2>7
<1>2. CASE Crash
  <2>1. PICK n \in 0..Len(buffer) : journal' = journal \o SubSeq(buffer, 1, n)
    BY <1>2 DEF Crash
  <2>2. SubSeq(buffer, 1, n) \in Seq(Event)
    BY <1>0, <2>1 DEF TypeOK
  <2>3. journal' \in Seq(Event)
    BY <1>0, <2>1, <2>2, ConcatProperties DEF TypeOK
  <2> QED BY <1>0, <1>1, <1>2, <2>3 DEF Crash, TypeInv, TypeOK
<1>3. CASE GiveUp
  BY <1>0, <1>1, <1>3 DEF GiveUp, TypeInv, TypeOK
<1>4. CASE Open
  <2>1. lastSeq' \in Nat
    <3>1. CASE journal = <<>>
      BY <1>4, <3>1 DEF Open
    <3>2. CASE journal # <<>>
      <4>1. journal[Len(journal)] \in Event
        BY <1>0, <3>2 DEF TypeOK
      <4> QED BY <1>4, <3>2, <4>1 DEF Open, Event
    <3> QED BY <3>1, <3>2
  <2>2. script' = script /\ live' = live /\ tx' = tx /\ script.prefix = 0
    BY <1>0, <1>4 DEF Open, ScriptShape
  <2>3. ScriptShape' /\ TxShape'
    BY <1>0, <2>2 DEF ScriptShape, TxShape
  <2> QED BY <1>0, <1>4, <2>1, <2>3 DEF Open, TypeInv, TypeOK
<1> QED BY <1>2, <1>3, <1>4

LEMMA TypeInit == Init => TypeInv
<1> SUFFICES ASSUME Init PROVE TypeInv
  OBVIOUS
<1>1. NoEvent \in Event
  BY NewEventTyped DEF NoEvent, EventKinds, PlainKinds
<1>2. tx \in Transactions /\ tx.step = "idle"
  BY <1>1 DEF Init, Idle, Transactions
<1>3. script \in Scripts /\ script.prefix = 0
  BY DEF Init, NoScript, NoCite, Scripts, Cites
<1>4. live \in Seq(Cites) /\ Len(live) = 0 /\ journal \in Seq(Event)
        /\ buffer \in Seq(Event) /\ log \in Seq(Record)
  BY EmptySeq DEF Init
<1>5. TypeOK
  BY <1>2, <1>3, <1>4 DEF Init, TypeOK
<1> QED BY <1>2, <1>3, <1>4, <1>5 DEF Init, TypeInv, TxShape, ScriptShape

LEMMA TypeStep == TypeInv /\ [Next]_vars => TypeInv'
<1> SUFFICES ASSUME TypeInv, [Next]_vars PROVE TypeInv'
  OBVIOUS
<1>1. CASE Runtime
  BY <1>1, RuntimeTyped, RuntimeScript DEF TypeInv
<1>2. CASE Transaction
  BY <1>2, TransactionTyped, TransactionScript DEF TypeInv
<1>3. CASE Recovery
  BY <1>3, RecoveryTyped
<1>4. CASE Crash \/ GiveUp \/ Open
  BY <1>4, RestartTyped
<1>5. CASE UNCHANGED vars
  BY <1>5 DEF vars, TypeInv, TypeOK, TxShape, ScriptShape
<1> QED BY <1>1, <1>2, <1>3, <1>4, <1>5 DEF Next

(* Every reachable state of a session is well typed: whatever the runtime    *)
(* asks for and wherever a process dies, the files hold decodable events,    *)
(* records and intents and no count underflows.                              *)
THEOREM TypeCorrect == Spec => []TypeOK
<1>1. TypeInv => TypeOK
  BY DEF TypeInv
<1> QED BY <1>1, TypeInit, TypeStep, PTL DEF Spec

-----------------------------------------------------------------------------
(***************************************************************************)
(* The session store never lets the semantic log run ahead of the          *)
(* canonical trace: CanonicalFirst, for every quota and number of boots.   *)
(***************************************************************************)
\* The trace has the line a record of the log or of the WAL was made from.
Traced(j, rec) ==
  rec.kind \in {"Message", "Reduction"} =>
    \E k \in DOMAIN j : j[k].id = rec.ev /\ j[k].seq = rec.seq

\* Once its canonical append returned, the event in flight is on disk.
TxTraced ==
  tx.step \in {"journaled", "attached", "logged", "committed"} =>
    \E k \in DOMAIN journal : journal[k] = tx.ev

WalTraced == \A i \in wal : Traced(journal, i.rec)

LogTraced == \A i \in DOMAIN log : Traced(journal, log[i])

TracedInv == TypeInv /\ TxTraced /\ WalTraced /\ LogTraced

\* Lines are only ever added to the trace.
Extends == \A k \in DOMAIN journal : k \in DOMAIN journal' /\ journal'[k] = journal[k]

LEMMA AppendExtends ==
  ASSUME TypeOK, NEW d \in Seq(Event), journal' = journal \o d
  PROVE  Extends
BY DEF Extends, TypeOK

LEMMA KeepsTraced ==
  ASSUME TypeOK, Extends, NEW rec, Traced(journal, rec)
  PROVE  Traced(journal', rec)
BY DEF Extends, Traced

LEMMA JournalExtends ==
  ASSUME TypeOK, NEW e \in Event, AppendJournal(e)
  PROVE  /\ Extends
         /\ Durable(e) => \E k \in DOMAIN journal' : journal'[k] = Stamped(e)
<1>1. Stamped(e) \in Event
  <2>1. lastSeq + 1 \in Nat
    BY DEF TypeOK
  <2> QED BY <2>1, StampTyped, Zenon DEF Stamped
<1>2. journal \in Seq(Event) /\ buffer \in Seq(Event)
  BY DEF TypeOK
<1> DEFINE d == Append(buffer, Stamped(e))
<1>3. d \in Seq(Event) /\ Len(d) = Len(buffer) + 1 /\ d[Len(d)] = Stamped(e)
  BY <1>1, <1>2
<1>4. CASE Durable(e)
  <2>1. journal' = journal \o d
    BY <1>4 DEF AppendJournal
  <2> HIDE DEF d
  <2>2. Extends
    BY <1>3, <2>1, AppendExtends
  <2>3. /\ Len(journal) + Len(d) \in DOMAIN journal'
        /\ journal'[Len(journal) + Len(d)] = d[Len(d)]
    BY <1>2, <1>3, <2>1
  <2> QED BY <1>3, <2>2, <2>3
<1>5. CASE ~Durable(e)
  BY <1>5 DEF AppendJournal, Extends
<1> QED BY <1>4, <1>5

\* What a step that only lets the trace grow keeps.
LEMMA QuietStep ==
  ASSUME TracedInv, Extends, TypeInv',
         wal' \subseteq wal \cup {[ev |-> tx'.ev, rec |-> NoRecord]}, log' = log,
         tx' = tx \/ tx'.step \in {"idle", "prepared"}
  PROVE  TracedInv'
<1>1. TypeOK
  BY DEF TracedInv, TypeInv
<1>2. LogTraced'
  BY <1>1, KeepsTraced DEF TracedInv, LogTraced
<1>3. WalTraced'
  <2> SUFFICES ASSUME NEW i \in wal' PROVE Traced(journal', i.rec)
    BY DEF WalTraced
  <2>1. CASE i \in wal
    BY <1>1, <2>1, KeepsTraced DEF TracedInv, WalTraced
  <2>2. CASE i = [ev |-> tx'.ev, rec |-> NoRecord]
    BY <2>2 DEF Traced, NoRecord, BlankRecord
  <2> QED BY <2>1, <2>2
<1>4. TxTraced'
  <2>1. CASE tx' = tx
    BY <2>1 DEF TracedInv, TxTraced, Extends
  <2>2. CASE tx'.step \in {"idle", "prepared"}
    BY <2>2 DEF TxTraced
  <2> QED BY <2>1, <2>2
<1> QED BY <1>2, <1>3, <1>4 DEF TracedInv

LEMMA OtherProjection ==
  ASSUME NEW e, NEW range, e.kind \in RecordKinds \ {"ContextReduced"}
  PROVE  ProjectionOf(e, range).kind \notin {"Message", "Reduction"}
<1>1. CASE e.kind = "CompactionCompleted"
  BY <1>1 DEF ProjectionOf, BlankRecord, MessageKinds, SaidKinds
<1>2. CASE e.kind = "CheckpointCreated"
  BY <1>2 DEF ProjectionOf, BlankRecord, MessageKinds, SaidKinds
<1>3. CASE e.kind = "CheckpointCompleted"
  BY <1>3 DEF ProjectionOf, BlankRecord, MessageKinds, SaidKinds
<1> QED BY <1>1, <1>2, <1>3 DEF RecordKinds

LEMMA MessageProjection ==
  ASSUME NEW e, NEW range, e.kind \in MessageKinds
  PROVE  ProjectionOf(e, range).ev = e.id /\ ProjectionOf(e, range).seq = e.seq
<1>1. e.kind # "ContextReduced" /\ e.kind # "CompactionCompleted"
        /\ e.kind # "CheckpointCompleted" /\ e.kind # "CheckpointCreated"
  BY DEF MessageKinds, SaidKinds
<1>2. ProjectionOf(e, range) = MessageRecord(e)
  BY <1>1 DEF ProjectionOf
<1> QED BY <1>2 DEF MessageRecord, BlankRecord

LEMMA ReductionProjection ==
  ASSUME NEW e, NEW range, e.kind = "ContextReduced"
  PROVE  ProjectionOf(e, range).ev = e.id /\ ProjectionOf(e, range).seq = e.seq
<1>1. e.kind \notin MessageKinds
  BY DEF MessageKinds, SaidKinds
<1>2. ProjectionOf(e, range)
        = [BlankRecord EXCEPT !.kind = "Reduction", !.ev = e.id, !.seq = e.seq,
             !.removed = e.removed, !.retained = e.retained]
  BY <1>1 DEF ProjectionOf
<1> QED BY <1>2 DEF BlankRecord

LEMMA ProjectionTraced ==
  ASSUME TracedInv, tx.step \in {"journaled", "attached", "logged", "committed"}
  PROVE  Traced(journal, Projection)
<1>1. PICK k \in DOMAIN journal : journal[k] = tx.ev
  BY DEF TracedInv, TxTraced
<1>2. tx.ev.kind \in MessageKinds \cup RecordKinds
  BY DEF TracedInv, TypeInv, TxShape
<1>3. CASE tx.ev.kind \in MessageKinds
  <2>1. Projection.ev = tx.ev.id /\ Projection.seq = tx.ev.seq
    BY <1>3, MessageProjection, Zenon DEF Projection
  <2> QED BY <1>1, <2>1 DEF Traced
<1>4. CASE tx.ev.kind = "ContextReduced"
  <2>1. Projection.ev = tx.ev.id /\ Projection.seq = tx.ev.seq
    BY <1>4, ReductionProjection, Zenon DEF Projection
  <2> QED BY <1>1, <2>1 DEF Traced
<1>5. CASE tx.ev.kind \in RecordKinds \ {"ContextReduced"}
  <2>1. Projection.kind \notin {"Message", "Reduction"}
    BY <1>5, OtherProjection, Zenon DEF Projection
  <2> QED BY <2>1 DEF Traced
<1> QED BY <1>2, <1>3, <1>4, <1>5

LEMMA RecoveredTraced ==
  ASSUME TypeInv, NEW k \in DOMAIN journal,
         journal[k].kind \in MessageKinds \cup RecordKinds
  PROVE  Traced(journal, RecoveredRecord(journal, k))
<1> DEFINE range == IF journal[k].kind = "CompactionCompleted"
                      THEN LET ep == CHOOSE ep \in EpochsFor(journal, k) : TRUE
                           IN <<journal[ep].from, journal[ep].through>>
                      ELSE <<0, 0>>
           rec == ProjectionOf(journal[k], range)
<1>0. RecoveredRecord(journal, k) = rec
  BY DEF RecoveredRecord
<1> HIDE DEF range
<1>1. CASE journal[k].kind \in MessageKinds
  <2>1. rec.ev = journal[k].id /\ rec.seq = journal[k].seq
    BY <1>1, MessageProjection, Zenon
  <2> QED BY <1>0, <2>1 DEF Traced
<1>2. CASE journal[k].kind = "ContextReduced"
  <2>1. rec.ev = journal[k].id /\ rec.seq = journal[k].seq
    BY <1>2, ReductionProjection, Zenon
  <2> QED BY <1>0, <2>1 DEF Traced
<1>3. CASE journal[k].kind \in RecordKinds \ {"ContextReduced"}
  <2>1. rec.kind \notin {"Message", "Reduction"}
    BY <1>3, OtherProjection, Zenon
  <2> QED BY <1>0, <2>1 DEF Traced
<1> QED BY <1>1, <1>2, <1>3

\* A step that appends one traced record and nothing else.
LEMMA LogStep ==
  ASSUME TracedInv, TypeInv', NEW rec \in Record, Traced(journal, rec), log' = Append(log, rec),
         journal' = journal, wal' = wal, tx'.ev = tx.ev, tx.step # "idle" \/ tx' = tx,
         tx.step # "prepared"
  PROVE  TracedInv'
<1>1. Extends /\ TypeOK /\ log \in Seq(Record) /\ tx \in Transactions
  BY DEF Extends, TracedInv, TypeInv, TypeOK
<1>2. LogTraced'
  <2> SUFFICES ASSUME NEW i \in DOMAIN log' PROVE Traced(journal', log'[i])
    BY DEF LogTraced
  <2>1. CASE i \in DOMAIN log
    <3>1. log'[i] = log[i]
      BY <1>1, <2>1
    <3> QED BY <1>1, <2>1, <3>1, KeepsTraced DEF TracedInv, LogTraced
  <2>2. CASE i = Len(log) + 1
    <3>1. log'[i] = rec
      BY <1>1, <2>2
    <3> QED BY <1>1, <3>1, KeepsTraced
  <2> QED BY <1>1, <2>1, <2>2
<1>3. WalTraced'
  BY <1>1, KeepsTraced DEF TracedInv, WalTraced
<1>4. TxTraced'
  <2>1. tx.step \in {"journaled", "attached", "logged", "committed"} \/ tx' = tx
    BY <1>1 DEF Transactions
  <2> QED BY <2>1 DEF TracedInv, TxTraced
<1> QED BY <1>2, <1>3, <1>4 DEF TracedInv

LEMMA TracedInit == Init => TracedInv
<1> SUFFICES ASSUME Init PROVE TracedInv
  OBVIOUS
<1>1. TypeInv
  BY TypeInit
<1>2. LogTraced /\ WalTraced /\ TxTraced
  BY DEF Init, LogTraced, WalTraced, TxTraced, Idle
<1> QED BY <1>1, <1>2 DEF TracedInv

LEMMA TransactionTraced ==
  ASSUME TracedInv, TypeInv', Transaction
  PROVE  TracedInv'
<1>0. TypeInv /\ TypeOK /\ tx.ev \in Event /\ tx \in Transactions
  BY DEF TracedInv, TypeInv, TypeOK, Transactions
<1>1. CASE JournalEvent
  <2>1. Extends /\ (Durable(tx.ev) => \E k \in DOMAIN journal' : journal'[k] = Stamped(tx.ev))
    BY <1>0, <1>1, JournalExtends DEF JournalEvent
  <2>2. Durable(tx.ev)
    BY <1>0, <1>1 DEF JournalEvent, Writing, TypeInv, TxShape, Durable,
                      MessageKinds, SaidKinds, RecordKinds, HeldKinds
  <2>3. LogTraced' /\ WalTraced'
    BY <1>0, <1>1, <2>1, KeepsTraced DEF JournalEvent, TracedInv, LogTraced, WalTraced
  <2>4. TxTraced'
    <3>1. CASE tx.ev.kind \in HeldKinds
      BY <1>1, <3>1 DEF JournalEvent, Finish, Idle, TxTraced
    <3>2. CASE tx.ev.kind \notin HeldKinds
      <4>1. tx'.ev = Stamped(tx.ev)
        BY <1>1, <3>2 DEF JournalEvent
      <4> QED BY <2>1, <2>2, <4>1 DEF TxTraced
    <3> QED BY <3>1, <3>2
  <2> QED BY <2>3, <2>4 DEF TracedInv
<1>2. CASE AttachRecord
  <2>1. Extends /\ tx.step = "journaled" /\ tx'.ev = tx.ev /\ log' = log
          /\ journal' = journal
    BY <1>0, <1>2 DEF AttachRecord, Writing, Extends, Transactions
  <2>2. Traced(journal, Projection)
    BY <2>1, ProjectionTraced
  <2>3. WalTraced'
    <3> SUFFICES ASSUME NEW i \in wal' PROVE Traced(journal', i.rec)
      BY DEF WalTraced
    <3>1. CASE i \in wal
      BY <1>0, <2>1, <3>1, KeepsTraced DEF TracedInv, WalTraced
    <3>2. CASE i \notin wal
      <4>1. PICK o \in IntentsOf(tx.ev.id) : i = [o EXCEPT !.rec = Projection]
        BY <1>2, <3>2 DEF AttachRecord
      <4>2. o \in [ev : Event, rec : Record]
        BY <1>0 DEF IntentsOf, TypeOK, Intents
      <4>3. i.rec = Projection
        BY <4>1, <4>2
      <4> QED BY <1>0, <2>1, <2>2, <4>3, KeepsTraced
    <3> QED BY <3>1, <3>2
  <2>4. LogTraced'
    BY <1>0, <2>1, KeepsTraced DEF TracedInv, LogTraced
  <2>5. TxTraced'
    BY <2>1 DEF TracedInv, TxTraced
  <2> QED BY <2>3, <2>4, <2>5 DEF TracedInv
<1>3. CASE AppendLog
  <2>1. /\ tx.step \in {"journaled", "attached"} /\ tx'.ev = tx.ev
        /\ log' = Append(log, Projection) /\ journal' = journal /\ wal' = wal
    BY <1>0, <1>3 DEF AppendLog, Writing, Transactions
  <2>2. Traced(journal, Projection) /\ Projection \in Record
    BY <1>0, <2>1, ProjectionTraced, ProjectionOfTx
  <2> QED BY <2>1, <2>2, LogStep
<1>4. CASE CommitTransaction
  <2>1. Extends /\ wal' \subseteq wal /\ log' = log
    BY <1>4 DEF CommitTransaction, Extends
  <2>2. LogTraced' /\ WalTraced'
    BY <1>0, <2>1, KeepsTraced DEF TracedInv, LogTraced, WalTraced
  <2>3. TxTraced'
    <3>1. CASE tx.ev.kind = "CompactionCompleted"
      <4>1. tx'.ev = tx.ev /\ tx.step = "logged" /\ journal' = journal
        BY <1>0, <1>4, <3>1 DEF CommitTransaction, Writing, Transactions
      <4> QED BY <4>1 DEF TracedInv, TxTraced
    <3>2. CASE tx.ev.kind # "CompactionCompleted"
      BY <1>4, <3>2 DEF CommitTransaction, Finish, Idle, TxTraced
    <3> QED BY <3>1, <3>2
  <2> QED BY <2>2, <2>3 DEF TracedInv
<1>5. CASE ReleaseStart
  <2>1. Extends /\ wal' \subseteq wal /\ log' = log /\ tx'.step = "idle"
    BY <1>5 DEF ReleaseStart, Extends, Finish, Idle
  <2> QED BY <2>1, QuietStep
<1> QED BY <1>1, <1>2, <1>3, <1>4, <1>5 DEF Transaction

LEMMA RuntimeTraced ==
  ASSUME TracedInv, TypeInv', Runtime
  PROVE  TracedInv'
<1>0. TypeInv /\ TypeOK
  BY DEF TracedInv, TypeInv
<1>1. ASSUME NEW e, Request(e) PROVE TracedInv'
  <2>1. /\ Extends /\ log' = log /\ tx'.ev = e /\ tx'.step = "prepared"
        /\ wal' = wal \cup {[ev |-> e, rec |-> NoRecord]}
    BY <1>1 DEF Request, Prepare, Extends
  <2> QED BY <2>1, QuietStep
<1>2. ASSUME NEW e \in Event, AppendJournal(e), UNCHANGED <<log, wal, tx>>
      PROVE  TracedInv'
  <2>1. Extends
    BY <1>0, <1>2, JournalExtends
  <2> QED BY <1>2, <2>1, QuietStep
<1>3. CASE EmitDelta
  <2>1. Fresh("AssistantDelta") \in Event
    BY <1>0, FreshTyped DEF EventKinds, PlainKinds
  <2> QED BY <1>2, <1>3, <2>1 DEF EmitDelta
<1>4. CASE EmitEpoch
  <2> DEFINE e == [Fresh("CompactionEpoch") EXCEPT !.epoch = context + 1,
                     !.from = script.from, !.through = script.through,
                     !.text = script.text]
  <2>1. Fresh("CompactionEpoch") \in Event
    BY <1>0, FreshTyped DEF EventKinds, PlainKinds
  <2>2. context + 1 \in Nat /\ script \in Scripts
    BY <1>0 DEF TypeOK
  <2>3. e \in Event
    BY <2>1, <2>2 DEF Event, Scripts
  <2> QED BY <1>2, <1>4, <2>3 DEF EmitEpoch
<1>5. CASE FlushBuffer
  <2>1. Extends
    BY <1>0, <1>5, AppendExtends DEF FlushBuffer, TypeOK
  <2> QED BY <1>5, <2>1, QuietStep DEF FlushBuffer
<1>6. CASE ReleaseLimited
  <2>1. Extends /\ wal' \subseteq wal /\ log' = log /\ tx' = tx
    BY <1>6 DEF ReleaseLimited, Extends
  <2> QED BY <2>1, QuietStep
<1>7. CASE PrepareMessage \/ PrepareReduction \/ PrepareLimited
  BY <1>1, <1>7 DEF PrepareMessage, PrepareReduction, PrepareLimited
<1>8. CASE StartCompaction \/ PrepareSummary \/ PrepareCompleted
  BY <1>1, <1>8 DEF StartCompaction, PrepareSummary, PrepareCompleted
<1>9. CASE StartCheckpoint \/ PrepareCheckpointCompleted
  BY <1>1, <1>9 DEF StartCheckpoint, PrepareCheckpointCompleted
<1> QED BY <1>3, <1>4, <1>5, <1>6, <1>7, <1>8, <1>9 DEF Runtime

LEMMA RecoveryTraced ==
  ASSUME TracedInv, TypeInv', Recovery
  PROVE  TracedInv'
<1>0. TypeInv /\ TypeOK
  BY DEF TracedInv, TypeInv
<1>1. ASSUME NEW rec \in Record, Traced(journal, rec), RecoveryLog(rec),
             tx = Idle
      PROVE  TracedInv'
  BY <1>1, LogStep DEF RecoveryLog, Idle
<1>2. ASSUME NEW i, RecoveryCommit(i) PROVE TracedInv'
  <2>1. Extends /\ wal' \subseteq wal /\ log' = log /\ tx' = tx
    BY <1>2 DEF RecoveryCommit, Extends
  <2> QED BY <2>1, QuietStep
<1>3. ASSUME NEW next, Advance(next) PROVE TracedInv'
  <2>1. Extends /\ wal' \subseteq wal /\ log' = log /\ tx' = tx
    BY <1>3 DEF Advance, Extends
  <2> QED BY <2>1, QuietStep
<1>4. CASE AppendBarrier
  <2>1. PICK i \in PendingBarriers :
          RecoveryLog(RecoveredRecord(journal, Position(i)))
    BY <1>4 DEF AppendBarrier
  <2>2. /\ Position(i) \in DOMAIN journal
        /\ journal[Position(i)].kind = "CheckpointCreated"
    BY <1>0, <2>1, PositionOfIntent DEF PendingBarriers
  <2>3. Reconstructible(journal, log, Position(i))
    BY <2>2 DEF Reconstructible
  <2>4. journal[Position(i)].kind \in MessageKinds \cup RecordKinds
    BY <2>2 DEF RecordKinds
  <2>5. RecoveredRecord(journal, Position(i)) \in Record
    BY <1>0, <2>2, <2>3, <2>4, RecoveredTyped
  <2>6. Traced(journal, RecoveredRecord(journal, Position(i)))
    BY <1>0, <2>2, <2>4, RecoveredTraced
  <2>7. tx = Idle
    BY <1>4 DEF AppendBarrier, Recovering
  <2> QED BY <1>1, <2>1, <2>5, <2>6, <2>7
<1>5. CASE DeclareAborted
  <2>1. PICK s \in OpenStarts(journal) :
          AppendJournal([NewEvent("CompactionAborted", nextId, journal[s].turn)
                           EXCEPT !.parent = journal[s].id])
    BY <1>5 DEF DeclareAborted
  <2> DEFINE n == NewEvent("CompactionAborted", nextId, journal[s].turn)
             e == [n EXCEPT !.parent = journal[s].id]
  <2>2. journal[s] \in Event
    BY <1>0 DEF OpenStarts, Starts, TypeOK
  <2>3. journal[s].turn \in Nat /\ journal[s].id \in Nat
    BY <2>2 DEF Event
  <2>4. n \in Event
    BY <1>0, <2>3, NewEventTyped DEF TypeOK, EventKinds, PlainKinds
  <2>5. e \in Event
    BY <2>3, <2>4 DEF Event
  <2>6. Extends
    BY <1>0, <2>1, <2>5, JournalExtends
  <2> QED BY <1>5, <2>6, QuietStep DEF DeclareAborted
<1>6. CASE MarkAborted
  <2>1. PICK s \in Discarded :
          RecoveryLog(AbortMarker(journal[s].id, StagedSummary(journal, s)))
    BY <1>6 DEF MarkAborted
  <2> DEFINE rec == AbortMarker(journal[s].id, StagedSummary(journal, s))
  <2>2. s \in DOMAIN journal
    BY DEF Discarded, OpenStarts, AbortedStarts, Starts
  <2>3. journal[s].id \in Nat
    <3>1. journal[s] \in Event
      BY <1>0, <2>2 DEF TypeOK
    <3> QED BY <3>1 DEF Event
  <2>4. rec \in Record
    BY <1>0, <2>2, <2>3, StagedSummaryTyped, AbortMarkerTyped
  <2>5. Traced(journal, rec)
    BY DEF AbortMarker, BlankRecord, Traced
  <2>6. tx = Idle
    BY <1>6 DEF MarkAborted, Recovering
  <2> HIDE DEF rec
  <2>7. RecoveryLog(rec)
    BY <2>1 DEF rec
  <2> QED BY <1>1, <2>4, <2>5, <2>6, <2>7
<1>7. CASE CloseCheckpoint
  <2>1. PICK e : Request(e)
    BY <1>7 DEF CloseCheckpoint
  <2>2. /\ Extends /\ log' = log /\ tx'.ev = e /\ tx'.step = "prepared"
        /\ wal' = wal \cup {[ev |-> e, rec |-> NoRecord]}
    BY <2>1 DEF Request, Prepare, Extends
  <2> QED BY <2>2, QuietStep
<1>8. CASE ProjectPending
  <2>1. PICK i \in NextPending : Unprojected(i) /\ RecoveryLog(Owed(i))
    BY <1>8 DEF ProjectPending
  <2>2. i \in wal /\ Journaled(i) /\ Recoverable(i) /\ ~NothingToProject(i)
    BY <2>1 DEF NextPending, Unprojected, Stuck
  <2>3. i.rec \in Record
    BY <1>0, <2>2 DEF TypeOK, Intents
  <2>4. /\ Position(i) \in DOMAIN journal
        /\ journal[Position(i)].kind \in MessageKinds \cup RecordKinds
    BY <1>0, <2>2, PositionOfIntent DEF NothingToProject
  <2>5. Owed(i) \in Record
    BY <1>0, <2>2, <2>3, <2>4, RecoveredTyped DEF Owed, Recoverable
  <2>6. Traced(journal, Owed(i))
    <3>1. Traced(journal, i.rec)
      BY <2>2 DEF TracedInv, WalTraced
    <3>2. Traced(journal, RecoveredRecord(journal, Position(i)))
      BY <1>0, <2>4, RecoveredTraced
    <3> QED BY <3>1, <3>2 DEF Owed
  <2>7. tx = Idle
    BY <1>8 DEF ProjectPending, Recovering
  <2> QED BY <1>1, <2>1, <2>5, <2>6, <2>7
<1>9. CASE CommitBarrier \/ CommitAborted \/ CommitPending
  BY <1>2, <1>9 DEF CommitBarrier, CommitAborted, CommitPending
<1>10. CASE BarriersDone \/ CompactionsDone \/ CheckpointsDone \/ PendingDone
  BY <1>3, <1>10 DEF BarriersDone, CompactionsDone, CheckpointsDone, PendingDone
<1>11. CASE Resume \/ Refuse
  <2>1. Extends /\ wal' \subseteq wal /\ log' = log /\ tx' = tx
    BY <1>11 DEF Resume, Refuse, Extends
  <2> QED BY <2>1, QuietStep
<1> QED BY <1>4, <1>5, <1>6, <1>7, <1>8, <1>9, <1>10, <1>11 DEF Recovery

LEMMA RestartTraced ==
  ASSUME TracedInv, TypeInv', Crash \/ GiveUp \/ Open
  PROVE  TracedInv'
<1>0. TypeOK
  BY DEF TracedInv, TypeInv
<1>1. Extends
  <2>1. CASE Crash
    <3>1. PICK n \in 0..Len(buffer) : journal' = journal \o SubSeq(buffer, 1, n)
      BY <2>1 DEF Crash
    <3>2. SubSeq(buffer, 1, n) \in Seq(Event)
      BY <1>0, <3>1 DEF TypeOK
    <3> QED BY <1>0, <3>1, <3>2, AppendExtends
  <2>2. CASE GiveUp \/ Open
    BY <2>2 DEF GiveUp, Open, Extends
  <2> QED BY <2>1, <2>2
<1>2. wal' \subseteq wal /\ log' = log /\ (tx' = tx \/ tx'.step = "idle")
  BY DEF Crash, GiveUp, Open, Forget, Idle
<1> QED BY <1>1, <1>2, QuietStep

LEMMA TracedStep == TracedInv /\ [Next]_vars => TracedInv'
<1> SUFFICES ASSUME TracedInv, [Next]_vars PROVE TracedInv'
  OBVIOUS
<1>1. TypeInv'
  BY TypeStep DEF TracedInv
<1>2. CASE Runtime
  BY <1>1, <1>2, RuntimeTraced
<1>3. CASE Transaction
  BY <1>1, <1>3, TransactionTraced
<1>4. CASE Recovery
  BY <1>1, <1>4, RecoveryTraced
<1>5. CASE Crash \/ GiveUp \/ Open
  BY <1>1, <1>5, RestartTraced
<1>6. CASE UNCHANGED vars
  <2>1. Extends /\ wal' \subseteq wal /\ log' = log /\ tx' = tx
    BY <1>6 DEF vars, Extends
  <2> QED BY <1>1, <2>1, QuietStep
<1> QED BY <1>2, <1>3, <1>4, <1>5, <1>6 DEF Next

(* No process, however it writes, dies, recovers or resumes, leaves a        *)
(* message or reduction in the semantic log that the canonical trace does    *)
(* not hold under the same event id and sequence (emit_transaction,          *)
(* emit_message, recover_projection).                                        *)
THEOREM CanonicalFirstHolds == Spec => []CanonicalFirst
<1>1. TracedInv => CanonicalFirst
  BY DEF TracedInv, LogTraced, Traced, CanonicalFirst, EventOf
<1> QED BY <1>1, TracedInit, TracedStep, PTL DEF Spec

-----------------------------------------------------------------------------
(***************************************************************************)
(* The trace stays contiguous: sequences count the lines, ids are new, and *)
(* a parent is an earlier line, for the file and the buffer together.      *)
(***************************************************************************)
Whole == journal \o buffer

\* The lines of s are numbered and have ids of their own below n.
Sound(s, n) ==
  \A i \in DOMAIN s :
    /\ s[i].seq = i /\ s[i].id \in 1..(n - 1)
    /\ \A k \in 1..(i - 1) : s[k].id # s[i].id
    /\ s[i].parent # 0 => \E k \in 1..(i - 1) : s[k].id = s[i].parent

\* An event that has not been written yet can be.
Writable(s, e, n) ==
  /\ e.id \in 1..(n - 1) /\ \A k \in DOMAIN s : s[k].id # e.id
  /\ e.parent # 0 => \E k \in DOMAIN s : s[k].id = e.parent

TraceInv ==
  /\ TypeInv /\ nextId >= 1 /\ Sound(Whole, nextId)
  /\ proc \in {"open", "recovering"} => lastSeq = Len(Whole)
  /\ proc = "down" => buffer = <<>>
  /\ tx.step = "prepared" => Writable(Whole, tx.ev, nextId)

LEMMA SoundIsIntegral ==
  ASSUME NEW s \in Seq(Event), NEW n \in Nat, Sound(s, n)
  PROVE  TraceIntegrity(s)
<1> SUFFICES ASSUME NEW i \in DOMAIN s
             PROVE  /\ s[i].seq > 0 /\ (i > 1 => s[i].seq = s[i - 1].seq + 1)
                    /\ \A k \in 1..(i - 1) : s[k].id # s[i].id
                    /\ s[i].parent # 0 => \E k \in 1..(i - 1) : s[k].id = s[i].parent
  BY DEF TraceIntegrity
<1>1. i \in Nat /\ i >= 1 /\ s[i].seq = i
  BY DEF Sound
<1>2. i > 1 => i - 1 \in DOMAIN s
  BY <1>1
<1>3. i > 1 => s[i - 1].seq = i - 1
  BY <1>2 DEF Sound
<1> QED BY <1>1, <1>3 DEF Sound

LEMMA SoundWider ==
  ASSUME NEW s, NEW n \in Nat, Sound(s, n)
  PROVE  Sound(s, n + 1)
<1>1. \A x \in 1..(n - 1) : x \in 1..(n + 1 - 1)
  OBVIOUS
<1> QED BY <1>1 DEF Sound

LEMMA SoundPrefix ==
  ASSUME NEW s \in Seq(Event), NEW n \in Nat, Sound(s, n), NEW m \in 0..Len(s)
  PROVE  Sound(SubSeq(s, 1, m), n)
<1> DEFINE p == SubSeq(s, 1, m)
<1>1. DOMAIN p = 1..m /\ \A i \in 1..m : p[i] = s[i]
  OBVIOUS
<1>2. 1..m \subseteq DOMAIN s
  OBVIOUS
<1> HIDE DEF p
<1>3. ASSUME NEW i \in 1..m
      PROVE  /\ p[i].seq = i /\ p[i].id \in 1..(n - 1)
             /\ \A k \in 1..(i - 1) : p[k].id # p[i].id
             /\ p[i].parent # 0 => \E k \in 1..(i - 1) : p[k].id = p[i].parent
  <2>1. \A k \in 1..(i - 1) : k \in 1..m
    OBVIOUS
  <2>2. p[i] = s[i] /\ \A k \in 1..(i - 1) : p[k] = s[k]
    BY <1>1, <2>1
  <2>3. /\ s[i].seq = i /\ s[i].id \in 1..(n - 1)
        /\ \A k \in 1..(i - 1) : s[k].id # s[i].id
        /\ s[i].parent # 0 => \E k \in 1..(i - 1) : s[k].id = s[i].parent
    BY <1>2 DEF Sound
  <2> QED BY <2>2, <2>3
<1>4. Sound(p, n)
  BY <1>1, <1>3 DEF Sound
<1> QED BY <1>4 DEF p

LEMMA SoundAppend ==
  ASSUME NEW s \in Seq(Event), NEW n \in Nat, NEW m \in Nat, n <= m, Sound(s, n),
         NEW e \in Event, e.seq = Len(s) + 1, Writable(s, e, m)
  PROVE  Sound(Append(s, e), m)
<1> DEFINE t == Append(s, e)
<1>1. /\ DOMAIN s = 1..Len(s) /\ DOMAIN t = 1..(Len(s) + 1) /\ t[Len(s) + 1] = e
      /\ \A i \in 1..Len(s) : t[i] = s[i]
  OBVIOUS
<1>2. Len(s) \in Nat
  OBVIOUS
<1> HIDE DEF t
<1>3. ASSUME NEW i \in 1..Len(s)
      PROVE  /\ t[i].seq = i /\ t[i].id \in 1..(m - 1)
             /\ \A k \in 1..(i - 1) : t[k].id # t[i].id
             /\ t[i].parent # 0 => \E k \in 1..(i - 1) : t[k].id = t[i].parent
  <2>1. \A k \in 1..(i - 1) : k \in 1..Len(s)
    BY <1>2
  <2>2. /\ s[i].seq = i /\ s[i].id \in 1..(n - 1)
        /\ \A k \in 1..(i - 1) : s[k].id # s[i].id
        /\ s[i].parent # 0 => \E k \in 1..(i - 1) : s[k].id = s[i].parent
    BY <1>1 DEF Sound
  <2>3. t[i] = s[i] /\ \A k \in 1..(i - 1) : t[k] = s[k]
    BY <1>1, <2>1
  <2>4. s[i].id \in 1..(m - 1)
    BY <2>2
  <2> QED BY <2>2, <2>3, <2>4
<1>4. /\ e.seq = Len(s) + 1 /\ e.id \in 1..(m - 1)
      /\ \A k \in 1..Len(s) : t[k].id # e.id
      /\ e.parent # 0 => \E k \in 1..Len(s) : t[k].id = e.parent
  BY <1>1 DEF Writable
<1>5. Sound(t, m)
  <2> SUFFICES ASSUME NEW i \in 1..(Len(s) + 1)
               PROVE  /\ t[i].seq = i /\ t[i].id \in 1..(m - 1)
                      /\ \A k \in 1..(i - 1) : t[k].id # t[i].id
                      /\ t[i].parent # 0 => \E k \in 1..(i - 1) : t[k].id = t[i].parent
    BY <1>1 DEF Sound
  <2>1. CASE i \in 1..Len(s)
    BY <1>3, <2>1
  <2>2. CASE i = Len(s) + 1
    <3>1. 1..(i - 1) = 1..Len(s)
      BY <1>2, <2>2
    <3> QED BY <1>1, <1>4, <2>2, <3>1
  <2> QED BY <1>2, <2>1, <2>2
<1> QED BY <1>5 DEF t

LEMMA WholeAppends ==
  ASSUME TypeOK, NEW e \in Event, AppendJournal(e)
  PROVE  /\ Whole \in Seq(Event) /\ Stamped(e) \in Event
         /\ Whole' = Append(Whole, Stamped(e)) /\ lastSeq' = lastSeq + 1
<1>1. Stamped(e) \in Event
  <2>1. lastSeq + 1 \in Nat
    BY DEF TypeOK
  <2> QED BY <2>1, StampTyped, Zenon DEF Stamped
<1>2. journal \in Seq(Event) /\ buffer \in Seq(Event) /\ Whole \in Seq(Event)
  BY ConcatProperties DEF TypeOK, Whole
<1> DEFINE x == Stamped(e)
<1> HIDE DEF x
<1>3. journal \o Append(buffer, x) = Append(journal \o buffer, x)
  BY <1>1, <1>2 DEF x
<1>4. journal \o Append(buffer, x) \o <<>> = journal \o Append(buffer, x)
  BY <1>1, <1>2 DEF x
<1>5. Whole' = Append(Whole, x)
  BY <1>3, <1>4 DEF AppendJournal, Whole, x
<1> QED BY <1>1, <1>2, <1>5 DEF AppendJournal, x

\* A step that writes one line, whose number and id are new.
LEMMA WholeGrows ==
  ASSUME TraceInv, TypeInv', NEW e \in Event, AppendJournal(e), proc' = proc,
         proc \in {"open", "recovering"}, nextId' \in Nat, nextId <= nextId',
         Writable(Whole, e, nextId'), tx'.step # "prepared"
  PROVE  TraceInv'
<1> DEFINE x == Stamped(e)
<1>1. /\ Whole \in Seq(Event) /\ x \in Event /\ Whole' = Append(Whole, x)
      /\ lastSeq' = lastSeq + 1
  BY WholeAppends DEF TraceInv, TypeInv
<1>2. x.seq = lastSeq + 1 /\ x.id = e.id /\ x.parent = e.parent
  BY DEF Stamped, Event
<1>3. lastSeq = Len(Whole)
  BY DEF TraceInv
<1>4. Writable(Whole, x, nextId')
  BY <1>2 DEF Writable
<1> HIDE DEF x
<1>5. Sound(Whole', nextId')
  BY <1>1, <1>2, <1>3, <1>4, SoundAppend DEF TraceInv, TypeInv, TypeOK
<1>6. lastSeq' = Len(Whole')
  BY <1>1, <1>3
<1>7. nextId' >= 1
  BY DEF TraceInv, TypeInv, TypeOK
<1> QED BY <1>5, <1>6, <1>7 DEF TraceInv

\* A step that writes no line.
LEMMA WholeStays ==
  ASSUME TraceInv, TypeInv', Whole' = Whole, lastSeq' = lastSeq, nextId' = nextId, proc # "down",
         proc' = proc \/ proc' = "refused" \/ (proc = "recovering" /\ proc' = "open"),
         tx'.step = "prepared" => tx' = tx
  PROVE  TraceInv'
BY DEF TraceInv

LEMMA RequestSound ==
  ASSUME TraceInv, TypeInv', NEW e, Request(e), proc # "down", e.id = nextId,
         e.parent # 0 => \E k \in DOMAIN journal : journal[k].id = e.parent
  PROVE  TraceInv'
<1>1. /\ Whole' = Whole /\ lastSeq' = lastSeq /\ nextId' = nextId + 1 /\ proc' = proc
      /\ tx' = [step |-> "prepared", ev |-> e] /\ nextId \in Nat /\ nextId >= 1
  BY DEF Request, Prepare, Whole, TraceInv, TypeInv, TypeOK
<1>2. journal \in Seq(Event) /\ buffer \in Seq(Event)
  BY DEF TraceInv, TypeInv, TypeOK
<1>3. \A k \in DOMAIN journal : k \in DOMAIN Whole /\ Whole[k] = journal[k]
  BY <1>2 DEF Whole
<1>4. \A k \in DOMAIN Whole : Whole[k].id \in 1..(nextId - 1)
  BY DEF TraceInv, Sound
<1>5. Writable(Whole, e, nextId + 1)
  <2>1. \A k \in DOMAIN Whole : Whole[k].id # nextId
    BY <1>1, <1>4
  <2>2. e.id \in 1..(nextId + 1 - 1)
    BY <1>1
  <2>3. e.parent # 0 => \E k \in DOMAIN Whole : Whole[k].id = e.parent
    BY <1>3
  <2> QED BY <2>1, <2>2, <2>3 DEF Writable
<1>6. Sound(Whole, nextId + 1)
  <2>1. Sound(Whole, nextId)
    BY DEF TraceInv
  <2> QED BY <1>1, <2>1, SoundWider
<1> QED BY <1>1, <1>5, <1>6 DEF TraceInv

\* An event with the next id and no parent can be written.
LEMMA FreshWritable ==
  ASSUME TraceInv, NEW e, e.id = nextId,
         e.parent # 0 => \E k \in DOMAIN journal : journal[k].id = e.parent
  PROVE  Writable(Whole, e, nextId + 1)
<1>1. nextId \in Nat /\ nextId >= 1
  BY DEF TraceInv, TypeInv, TypeOK
<1>2. journal \in Seq(Event) /\ buffer \in Seq(Event)
  BY DEF TraceInv, TypeInv, TypeOK
<1>3. \A k \in DOMAIN journal : k \in DOMAIN Whole /\ Whole[k] = journal[k]
  BY <1>2 DEF Whole
<1>4. \A k \in DOMAIN Whole : Whole[k].id \in 1..(nextId - 1)
  BY DEF TraceInv, Sound
<1>5. \A k \in DOMAIN Whole : Whole[k].id # nextId
  BY <1>1, <1>4
<1>6. e.id \in 1..(nextId + 1 - 1)
  BY <1>1
<1>7. e.parent # 0 => \E k \in DOMAIN Whole : Whole[k].id = e.parent
  BY <1>3
<1> QED BY <1>5, <1>6, <1>7 DEF Writable

LEMMA RuntimeSound ==
  ASSUME TraceInv, TypeInv', Runtime
  PROVE  TraceInv'
<1>0. TypeOK /\ nextId \in Nat
  BY DEF TraceInv, TypeInv, TypeOK
<1>1. ASSUME NEW e, Request(e), proc = "open", e.id = nextId, e.parent = 0 PROVE TraceInv'
  BY <1>1, RequestSound
<1>2. ASSUME NEW kind PROVE Fresh(kind).id = nextId /\ Fresh(kind).parent = 0
  BY DEF Fresh, NewEvent
<1>3. ASSUME NEW e \in Event, e.id = nextId, e.parent = 0, AppendJournal(e), Ready,
             UNCHANGED <<proc, tx>>, nextId' = nextId + 1
      PROVE  TraceInv'
  <2>1. Writable(Whole, e, nextId')
    BY <1>3, FreshWritable
  <2>2. tx'.step # "prepared" /\ proc = "open"
    BY <1>3 DEF Ready, Idle
  <2> QED BY <1>0, <1>3, <2>1, <2>2, WholeGrows
<1>4. CASE EmitDelta
  <2>1. Fresh("AssistantDelta") \in Event
    BY <1>0, FreshTyped DEF EventKinds, PlainKinds
  <2> QED BY <1>2, <1>3, <1>4, <2>1 DEF EmitDelta, MayStart
<1>5. CASE EmitEpoch
  <2> DEFINE e == [Fresh("CompactionEpoch") EXCEPT !.epoch = context + 1,
                     !.from = script.from, !.through = script.through,
                     !.text = script.text]
  <2>1. Fresh("CompactionEpoch") \in Event
    BY <1>0, FreshTyped DEF EventKinds, PlainKinds
  <2>2. context + 1 \in Nat /\ script \in Scripts
    BY <1>0 DEF TypeOK
  <2>3. e \in Event /\ e.id = nextId /\ e.parent = 0
    BY <1>2, <2>1, <2>2 DEF Event, Scripts
  <2> HIDE DEF e
  <2>4. AppendJournal(e)
    BY <1>5 DEF EmitEpoch, e
  <2> QED BY <1>3, <1>5, <2>3, <2>4 DEF EmitEpoch
<1>6. CASE FlushBuffer
  <2>1. Whole' = Whole
    <3>1. journal \o buffer \in Seq(Event)
      BY <1>0, ConcatProperties DEF TypeOK
    <3>2. (journal \o buffer) \o <<>> = journal \o buffer
      BY <3>1
    <3> QED BY <1>6, <3>2 DEF FlushBuffer, Whole
  <2>2. lastSeq' = lastSeq /\ nextId' = nextId /\ proc' = proc /\ tx' = tx /\ proc = "open"
    BY <1>6 DEF FlushBuffer, Ready
  <2> QED BY <2>1, <2>2, WholeStays
<1>7. CASE ReleaseLimited
  BY <1>7, WholeStays DEF ReleaseLimited, Ready, Whole
<1>8. CASE PrepareMessage
  BY <1>1, <1>2, <1>8 DEF PrepareMessage, MayStart, Ready
<1>9. CASE PrepareReduction
  <2>1. PICK d \in DOMAIN live :
          Request([Fresh("ContextReduced") EXCEPT !.removed = d,
                     !.retained = Len(live) - d + IF capsule = 0 THEN 0 ELSE 1])
    BY <1>9 DEF PrepareReduction
  <2> DEFINE r == Len(live) - d + IF capsule = 0 THEN 0 ELSE 1
             e == [Fresh("ContextReduced") EXCEPT !.removed = d, !.retained = r]
  <2>2. Request(e) /\ proc = "open"
    BY <1>9, <2>1 DEF PrepareReduction, MayStart, Ready
  <2> HIDE DEF r
  <2>3. e.id = nextId /\ e.parent = 0
    BY DEF Fresh, NewEvent
  <2> HIDE DEF e
  <2> QED BY <1>1, <2>2, <2>3
<1>10. CASE PrepareLimited
  BY <1>1, <1>2, <1>10 DEF PrepareLimited, MayStart, Ready
<1>11. CASE StartCompaction
  BY <1>1, <1>2, <1>11 DEF StartCompaction, MayStart, Ready
<1>12. CASE PrepareSummary
  <2> DEFINE e == [Fresh("ContextSummary") EXCEPT !.text = script.text]
  <2>1. e.id = nextId /\ e.parent = 0
    BY DEF Fresh, NewEvent
  <2>2. Request(e) /\ proc = "open"
    BY <1>12 DEF PrepareSummary, Ready
  <2> HIDE DEF e
  <2> QED BY <1>1, <2>1, <2>2
<1>13. CASE PrepareCompleted
  <2> DEFINE r == Len(live) - script.prefix
             e == [Fresh("CompactionCompleted") EXCEPT !.epoch = context + 1,
                     !.removed = script.prefix, !.retained = r]
  <2>1. Request(e) /\ proc = "open"
    BY <1>13 DEF PrepareCompleted, Ready
  <2> HIDE DEF r
  <2>2. e.id = nextId /\ e.parent = 0
    BY DEF Fresh, NewEvent
  <2> HIDE DEF e
  <2> QED BY <1>1, <2>1, <2>2
<1>14. CASE StartCheckpoint
  <2>1. PICK p \in DOMAIN live \cup {Len(live)} :
          Request([Fresh("CheckpointCreated") EXCEPT !.epoch = context + 1, !.removed = p])
    BY <1>14 DEF StartCheckpoint
  <2> DEFINE e == [Fresh("CheckpointCreated") EXCEPT !.epoch = context + 1, !.removed = p]
  <2>2. e.id = nextId /\ e.parent = 0
    BY DEF Fresh, NewEvent
  <2>3. Request(e) /\ proc = "open"
    BY <1>14, <2>1 DEF StartCheckpoint, MayStart, Ready
  <2> HIDE DEF e
  <2> QED BY <1>1, <2>2, <2>3
<1>15. CASE PrepareCheckpointCompleted
  <2> DEFINE r == Len(live) - script.prefix + 1
             e == [Fresh("CheckpointCompleted") EXCEPT !.epoch = context + 1,
                     !.removed = script.prefix, !.retained = r]
  <2>1. Request(e) /\ proc = "open"
    BY <1>15 DEF PrepareCheckpointCompleted, Ready
  <2> HIDE DEF r
  <2>2. e.id = nextId /\ e.parent = 0
    BY DEF Fresh, NewEvent
  <2> HIDE DEF e
  <2> QED BY <1>1, <2>1, <2>2
<1> QED BY <1>4, <1>5, <1>6, <1>7, <1>8, <1>9, <1>10, <1>11, <1>12, <1>13, <1>14, <1>15
     DEF Runtime

LEMMA TransactionSound ==
  ASSUME TraceInv, TypeInv', Transaction
  PROVE  TraceInv'
<1>0. TypeOK /\ tx \in Transactions /\ tx.ev \in Event
  BY DEF TraceInv, TypeInv, TypeOK, Transactions
<1>1. CASE JournalEvent
  <2>1. /\ AppendJournal(tx.ev) /\ tx.step = "prepared" /\ proc \in {"open", "recovering"}
        /\ nextId' = nextId /\ proc' = proc /\ nextId \in Nat
    BY <1>0, <1>1 DEF JournalEvent, Writing, TypeOK
  <2>2. tx'.step # "prepared"
    BY <1>1 DEF JournalEvent, Finish, Idle
  <2>3. Writable(Whole, tx.ev, nextId')
    BY <2>1 DEF TraceInv
  <2> QED BY <1>0, <2>1, <2>2, <2>3, WholeGrows
<1>2. CASE AttachRecord \/ AppendLog
  <2>1. tx'.step # "prepared"
    BY <1>0, <1>2 DEF AttachRecord, AppendLog, Transactions
  <2> QED BY <1>2, <2>1, WholeStays DEF AttachRecord, AppendLog, Writing, Whole
<1>3. CASE CommitTransaction \/ ReleaseStart
  <2>1. tx'.step # "prepared"
    BY <1>0, <1>3 DEF CommitTransaction, ReleaseStart, Finish, Idle, Transactions
  <2> QED BY <1>3, <2>1, WholeStays DEF CommitTransaction, ReleaseStart, Writing, Whole
<1> QED BY <1>1, <1>2, <1>3 DEF Transaction

LEMMA RecoverySound ==
  ASSUME TraceInv, TypeInv', Recovery
  PROVE  TraceInv'
<1>0. TypeOK /\ nextId \in Nat
  BY DEF TraceInv, TypeInv, TypeOK
<1>1. CASE DeclareAborted
  <2>1. PICK s \in OpenStarts(journal) :
          AppendJournal([NewEvent("CompactionAborted", nextId, journal[s].turn)
                           EXCEPT !.parent = journal[s].id])
    BY <1>1 DEF DeclareAborted
  <2> DEFINE n == NewEvent("CompactionAborted", nextId, journal[s].turn)
             e == [n EXCEPT !.parent = journal[s].id]
  <2>2. s \in DOMAIN journal /\ journal[s] \in Event
    BY <1>0 DEF OpenStarts, Starts, TypeOK
  <2>3. journal[s].turn \in Nat /\ journal[s].id \in Nat
    BY <2>2 DEF Event
  <2>4. n \in Event
    BY <1>0, <2>3, NewEventTyped DEF EventKinds, PlainKinds
  <2>5. e \in Event
    BY <2>3, <2>4 DEF Event
  <2>6. e.id = nextId /\ e.parent = journal[s].id
    BY DEF NewEvent
  <2>7. AppendJournal(e)
    BY <2>1
  <2> HIDE DEF e
  <2>8. Writable(Whole, e, nextId + 1)
    BY <2>2, <2>6, FreshWritable
  <2>9. tx'.step # "prepared" /\ proc = "recovering" /\ proc' = proc /\ nextId' = nextId + 1
    BY <1>1 DEF DeclareAborted, Recovering, Idle
  <2> QED BY <1>0, <2>5, <2>7, <2>8, <2>9, WholeGrows
<1>2. CASE CloseCheckpoint
  <2>1. PICK k \in OpenCheckpoints(journal) :
          Request([NewEvent("CheckpointCompleted", nextId, journal[k].turn)
               EXCEPT !.parent = journal[k].id, !.epoch = journal[k].epoch,
                      !.removed = journal[k].removed,
                      !.retained = Len(BeforeBarrier(k).messages)
                                     - journal[k].removed + 1])
    BY <1>2 DEF CloseCheckpoint
  <2> DEFINE r == Len(BeforeBarrier(k).messages) - journal[k].removed + 1
             e == [NewEvent("CheckpointCompleted", nextId, journal[k].turn)
               EXCEPT !.parent = journal[k].id, !.epoch = journal[k].epoch,
                      !.removed = journal[k].removed, !.retained = r]
  <2>2. k \in DOMAIN journal
    BY DEF OpenCheckpoints, Checkpoints
  <2>3. Request(e) /\ proc = "recovering"
    BY <1>2, <2>1 DEF CloseCheckpoint, Recovering
  <2> HIDE DEF r
  <2>4. e.id = nextId /\ e.parent = journal[k].id
    BY DEF NewEvent
  <2> HIDE DEF e
  <2> QED BY <2>2, <2>3, <2>4, RequestSound
<1>3. CASE ~DeclareAborted /\ ~CloseCheckpoint
  <2>1. Whole' = Whole /\ lastSeq' = lastSeq /\ nextId' = nextId /\ tx' = tx
    BY <1>3 DEF Recovery, AppendBarrier, CommitBarrier, BarriersDone, MarkAborted, CommitAborted,
       CompactionsDone, CheckpointsDone, ProjectPending, CommitPending, PendingDone, Resume,
       Refuse, RecoveryLog, RecoveryCommit, Advance, Whole
  <2>2. proc = "recovering" /\ proc' \in {"recovering", "open", "refused"}
    BY <1>3 DEF Recovery, AppendBarrier, CommitBarrier, BarriersDone, MarkAborted, CommitAborted,
       CompactionsDone, CheckpointsDone, ProjectPending, CommitPending, PendingDone, Resume,
       Refuse, RecoveryLog, RecoveryCommit, Advance, Recovering
  <2> QED BY <2>1, <2>2, WholeStays
<1> QED BY <1>1, <1>2, <1>3

LEMMA RestartSound ==
  ASSUME TraceInv, TypeInv', Crash \/ GiveUp \/ Open
  PROVE  TraceInv'
<1>0. /\ journal \in Seq(Event) /\ buffer \in Seq(Event) /\ Whole \in Seq(Event)
      /\ nextId \in Nat
  BY ConcatProperties DEF TraceInv, TypeInv, TypeOK, Whole
<1>1. ASSUME Forget, proc' = "down", nextId' = nextId,
             NEW n \in 0..Len(buffer), journal' = journal \o SubSeq(buffer, 1, n)
      PROVE  TraceInv'
  <2>1. SubSeq(buffer, 1, n) \in Seq(Event) /\ buffer' = <<>>
    BY <1>0, <1>1 DEF Forget
  <2>2. Len(journal) + n \in 0..Len(Whole)
    BY <1>0 DEF Whole
  <2>3. journal \o SubSeq(buffer, 1, n) = SubSeq(Whole, 1, Len(journal) + n)
    BY <1>0 DEF Whole
  <2>4. (journal \o SubSeq(buffer, 1, n)) \o <<>> = journal \o SubSeq(buffer, 1, n)
    BY <1>0, <2>1
  <2>5. Whole' = SubSeq(Whole, 1, Len(journal) + n)
    BY <1>1, <2>1, <2>3, <2>4 DEF Whole
  <2>6. Sound(Whole', nextId')
    BY <1>0, <1>1, <2>2, <2>5, SoundPrefix DEF TraceInv
  <2>7. tx'.step # "prepared"
    BY <1>1 DEF Forget, Idle
  <2> QED BY <1>1, <2>1, <2>6, <2>7 DEF TraceInv
<1>2. CASE Crash
  BY <1>1, <1>2 DEF Crash
<1>3. CASE GiveUp
  <2>1. 0 \in 0..Len(buffer) /\ journal = journal \o SubSeq(buffer, 1, 0)
    BY <1>0
  <2> QED BY <1>1, <1>3, <2>1 DEF GiveUp
<1>4. CASE Open
  <2>1. buffer = <<>> /\ Whole' = Whole /\ nextId' = nextId /\ tx' = tx /\ proc' = "recovering"
    BY <1>4 DEF Open, Whole, TraceInv
  <2>2. Whole = journal
    BY <1>0, <2>1 DEF Whole
  <2>3. lastSeq' = Len(journal)
    <3>1. CASE journal = <<>>
      BY <1>4, <3>1 DEF Open
    <3>2. CASE journal # <<>>
      <4>1. Len(journal) \in DOMAIN Whole
        BY <1>0, <2>2, <3>2
      <4>2. journal[Len(journal)].seq = Len(journal)
        BY <2>2, <4>1 DEF TraceInv, Sound
      <4> QED BY <1>4, <3>2, <4>2 DEF Open
    <3> QED BY <3>1, <3>2
  <2> QED BY <2>1, <2>2, <2>3 DEF TraceInv
<1> QED BY <1>2, <1>3, <1>4

LEMMA TraceInit == Init => TraceInv
<1> SUFFICES ASSUME Init PROVE TraceInv
  OBVIOUS
<1>1. Whole = <<>>
  BY DEF Init, Whole
<1>2. DOMAIN Whole = {} /\ Len(Whole) = 0
  BY <1>1
<1> QED BY <1>2, TypeInit DEF Init, TraceInv, Sound, Idle

LEMMA TraceStep == TraceInv /\ [Next]_vars => TraceInv'
<1> SUFFICES ASSUME TraceInv, [Next]_vars PROVE TraceInv'
  OBVIOUS
<1>1. TypeInv'
  BY TypeStep DEF TraceInv
<1>2. CASE UNCHANGED vars
  <2>1. UNCHANGED <<Whole, lastSeq, nextId, proc, tx, buffer>>
    BY <1>2 DEF vars, Whole
  <2> QED BY <1>1, <2>1 DEF TraceInv
<1> QED BY <1>1, <1>2, RuntimeSound, TransactionSound, RecoverySound, RestartSound DEF Next

(* However often a crash loses buffered lines and their numbers are used     *)
(* again, the lines of an open session are numbered without a gap, under ids *)
(* of their own, behind their parents (TraceJournal::open and append).       *)
THEOREM ContiguousTraceHolds == Spec => []ContiguousTrace
<1>1. TraceInv => ContiguousTrace
  <2>1. TraceInv => Whole \in Seq(Event) /\ nextId \in Nat
    BY ConcatProperties DEF TraceInv, TypeInv, TypeOK, Whole
  <2> QED BY <2>1, SoundIsIntegral DEF TraceInv, ContiguousTrace, Whole
<1> QED BY <1>1, TraceInit, TraceStep, PTL DEF Spec

-----------------------------------------------------------------------------
(***************************************************************************)
(* Nothing is lost: an event that owes a message or a reduction keeps its  *)
(* intent until the log has the record or the trace has discarded it.      *)
(***************************************************************************)
Owing == MessageKinds \cup {"ContextReduced"}

InLog(id) ==
  \E i \in DOMAIN log : log[i].ev = id /\ log[i].kind \in {"Message", "Reduction"}

\* Only deltas wait in the buffer, and recovery starts with none.
Deltas ==
  /\ \A k \in DOMAIN buffer : buffer[k].kind = "AssistantDelta"
  /\ proc = "recovering" => buffer = <<>>

\* An intent is for the line with its id, of the same kind.
IntentKinds ==
  \A i \in wal :
    /\ i.ev.id \in 0..(nextId - 1)
    /\ \A k \in DOMAIN Whole : Whole[k].id = i.ev.id => Whole[k].kind = i.ev.kind

TxIntent ==
  tx.step = "prepared" =>
    /\ IntentsOf(tx.ev.id) # {}
    /\ \A i \in IntentsOf(tx.ev.id) : i.ev.kind = tx.ev.kind

\* The start a script will release is a start.
StartLine ==
  /\ script.start \in 0..(nextId - 1)
  /\ \A k \in DOMAIN Whole :
       Whole[k].id = script.start => Whole[k].kind = "CompactionStarted"
  /\ tx.step = "prepared" /\ tx.ev.id = script.start =>
       tx.ev.kind = "CompactionStarted"

\* An attempt is discarded while it is open.
Aborts ==
  \A s \in Starts(Whole), a \in DOMAIN Whole :
    AbortsStart(Whole[a], Whole[s]) => ~ClosedBetween(Whole, s, a)

Attached ==
  \A i \in wal : i.rec # NoRecord =>
    /\ i.ev.kind \in RecordKinds
    /\ i.ev.kind = "ContextReduced" => i.rec.kind = "Reduction" /\ i.rec.ev = i.ev.id

Logged == tx.step = "logged" /\ tx.ev.kind \in Owing => InLog(tx.ev.id)

KindInv == TraceInv /\ Deltas /\ IntentKinds /\ TxIntent /\ StartLine

LostInv == TracedInv /\ KindInv /\ Aborts /\ Attached /\ Logged /\ NothingLost

(* The three ways a step can change the trace and the intents.               *)

\* A transaction is prepared.
Asks ==
  \E e : /\ Request(e) /\ e.id = nextId
         /\ \/ script'.start \in {0, script.start}
            \/ script'.start = nextId /\ e.kind = "CompactionStarted"

\* One line is written: the event in flight, or one that owes nothing.
Writes(e) ==
  /\ AppendJournal(e) /\ UNCHANGED <<wal, log, proc>> /\ proc # "down"
  /\ script'.start \in {0, script.start} /\ tx'.step \notin {"prepared", "logged"}
  /\ \/ tx.step = "prepared" /\ e = tx.ev /\ nextId' = nextId
     \/ e.id = nextId /\ e.kind \in PlainKinds /\ nextId' = nextId + 1
  /\ proc = "recovering" => Durable(e)
  /\ e.kind = "CompactionAborted" =>
       proc = "recovering" /\ \E s \in OpenStarts(journal) : e.parent = journal[s].id

\* No line is written; buffered ones may be flushed, or lost from the end on.
Rests ==
  /\ \A k \in DOMAIN Whole' : k \in DOMAIN Whole /\ Whole'[k] = Whole[k]
  /\ Extends /\ \A k \in DOMAIN journal' :
       (k \in DOMAIN journal /\ journal'[k] = journal[k]) \/ journal'[k].kind = "AssistantDelta"
  /\ Deltas'
  /\ nextId' = nextId /\ script'.start \in {0, script.start}
  /\ \A i \in wal' : \E o \in wal : i.ev = o.ev
  /\ tx'.step # "prepared" \/ (tx' = tx /\ wal' = wal)

LEMMA AsksKinds ==
  ASSUME KindInv, TraceInv', Asks
  PROVE  KindInv'
<1>1. PICK e : /\ Request(e) /\ e.id = nextId
               /\ \/ script'.start \in {0, script.start}
                  \/ script'.start = nextId /\ e.kind = "CompactionStarted"
  BY DEF Asks
<1>2. /\ Whole' = Whole /\ nextId' = nextId + 1 /\ proc' = proc /\ buffer' = buffer
      /\ tx' = [step |-> "prepared", ev |-> e]
      /\ wal' = wal \cup {[ev |-> e, rec |-> NoRecord]}
  BY <1>1 DEF Request, Prepare, Whole
<1>3. nextId \in Nat /\ nextId >= 1
  BY DEF KindInv, TraceInv, TypeInv, TypeOK
<1>4. \A k \in DOMAIN Whole : Whole[k].id \in 1..(nextId - 1)
  BY DEF KindInv, TraceInv, Sound
<1>5. \A k \in DOMAIN Whole : Whole[k].id # nextId
  BY <1>3, <1>4
<1>6. \A i \in wal : i.ev.id \in 0..(nextId + 1 - 1) /\ i.ev.id # nextId
  BY <1>3 DEF KindInv, IntentKinds
<1>7. IntentKinds'
  <2> SUFFICES ASSUME NEW i \in wal'
               PROVE  /\ i.ev.id \in 0..(nextId' - 1)
                      /\ \A k \in DOMAIN Whole' : Whole'[k].id = i.ev.id =>
                           Whole'[k].kind = i.ev.kind
    BY DEF IntentKinds
  <2>1. CASE i \in wal
    <3>1. i.ev.id \in 0..(nextId' - 1)
      BY <1>2, <1>3, <1>6, <2>1
    <3>2. \A k \in DOMAIN Whole : Whole[k].id = i.ev.id => Whole[k].kind = i.ev.kind
      BY <2>1 DEF KindInv, IntentKinds
    <3> QED BY <1>2, <3>1, <3>2
  <2>2. CASE i = [ev |-> e, rec |-> NoRecord]
    <3>1. i.ev.id = nextId
      BY <1>1, <2>2
    <3> QED BY <1>2, <1>3, <1>5, <3>1
  <2> QED BY <1>2, <2>1, <2>2
<1>8. TxIntent'
  <2>1. [ev |-> e, rec |-> NoRecord] \in IntentsOf(e.id)'
    BY <1>2 DEF IntentsOf
  <2>2. \A i \in IntentsOf(e.id)' : i.ev.kind = e.kind
    BY <1>1, <1>2, <1>6 DEF IntentsOf
  <2> QED BY <1>2, <2>1, <2>2 DEF TxIntent, IntentsOf
<1>9. StartLine'
  <2>1. CASE script'.start \in {0, script.start}
    <3>1. script.start \in 0..(nextId - 1)
      BY DEF KindInv, StartLine
    <3>2. script'.start \in 0..(nextId + 1 - 1) /\ script'.start # nextId
      BY <1>3, <2>1, <3>1
    <3>3. \A k \in DOMAIN Whole :
            Whole[k].id = script'.start => Whole[k].kind = "CompactionStarted"
      BY <1>4, <2>1 DEF KindInv, StartLine
    <3>4. tx'.ev.id # script'.start
      BY <1>1, <1>2, <3>2
    <3>5. script'.start \in 0..(nextId' - 1)
      BY <1>2, <1>3, <3>2
    <3> QED BY <1>2, <3>3, <3>4, <3>5 DEF StartLine
  <2>2. CASE script'.start = nextId /\ e.kind = "CompactionStarted"
    <3>1. script'.start \in 0..(nextId + 1 - 1)
      BY <1>3, <2>2
    <3> QED BY <1>2, <1>5, <2>2, <3>1 DEF StartLine
  <2> QED BY <1>1, <2>1, <2>2
<1> QED BY <1>2, <1>7, <1>8, <1>9 DEF KindInv, Deltas

LEMMA WritesKinds ==
  ASSUME KindInv, TraceInv', NEW e \in Event, Writes(e)
  PROVE  KindInv'
<1> DEFINE x == Stamped(e)
<1>1. Whole \in Seq(Event) /\ x \in Event /\ Whole' = Append(Whole, x)
  BY WholeAppends DEF Writes, KindInv, TraceInv, TypeInv
<1>2. x.id = e.id /\ x.kind = e.kind
  BY DEF Stamped, Event
<1>3. nextId \in Nat /\ nextId >= 1 /\ nextId' \in {nextId, nextId + 1} /\ buffer \in Seq(Event)
  BY DEF KindInv, TraceInv, TypeInv, TypeOK, Writes
<1> HIDE DEF x
<1>4. \A k \in DOMAIN Whole' : (k \in DOMAIN Whole /\ Whole'[k] = Whole[k]) \/ Whole'[k] = x
  BY <1>1
<1>5. Deltas'
  <2>1. CASE Durable(e)
    BY <2>1 DEF Writes, AppendJournal, Deltas
  <2>2. CASE ~Durable(e)
    <3>1. buffer' = Append(buffer, x) /\ x.kind = "AssistantDelta" /\ proc' # "recovering"
      BY <1>2, <2>2 DEF Writes, AppendJournal, Durable, x
    <3>2. \A k \in DOMAIN buffer' : (k \in DOMAIN buffer /\ buffer'[k] = buffer[k]) \/ buffer'[k] = x
      BY <1>1, <1>3, <3>1
    <3> QED BY <3>1, <3>2 DEF KindInv, Deltas
  <2> QED BY <2>1, <2>2
<1>6. IntentKinds'
  <2> SUFFICES ASSUME NEW i \in wal
               PROVE  /\ i.ev.id \in 0..(nextId' - 1)
                      /\ \A k \in DOMAIN Whole' : Whole'[k].id = i.ev.id =>
                           Whole'[k].kind = i.ev.kind
    BY DEF IntentKinds, Writes
  <2>1. i.ev.id \in 0..(nextId - 1)
    BY DEF KindInv, IntentKinds
  <2>2. i.ev.id \in 0..(nextId' - 1) /\ i.ev.id # nextId
    BY <1>3, <2>1
  <2>3. x.id = i.ev.id => x.kind = i.ev.kind
    <3>1. CASE tx.step = "prepared" /\ e = tx.ev
      BY <1>2, <3>1 DEF KindInv, TxIntent, IntentsOf
    <3>2. CASE e.id = nextId
      BY <1>2, <2>2, <3>2
    <3> QED BY <3>1, <3>2 DEF Writes
  <2> QED BY <1>4, <2>2, <2>3 DEF KindInv, IntentKinds
<1>7. TxIntent'
  BY DEF Writes, TxIntent
<1>8. StartLine'
  <2>1. script.start \in 0..(nextId - 1)
    BY DEF KindInv, StartLine
  <2>2. script'.start \in 0..(nextId' - 1) /\ script'.start \in {0, script.start}
    BY <1>3, <2>1 DEF Writes
  <2>3. \A k \in DOMAIN Whole' : Whole'[k].id # 0
    <3>1. \A k \in DOMAIN Whole' : Whole'[k].id \in 1..(nextId' - 1)
      BY DEF TraceInv, Sound
    <3> QED BY <3>1
  <2>4. x.id = script.start => x.kind = "CompactionStarted"
    <3>1. CASE tx.step = "prepared" /\ e = tx.ev
      BY <1>2, <3>1 DEF KindInv, StartLine
    <3>2. CASE e.id = nextId
      BY <1>2, <1>3, <2>1, <3>2
    <3> QED BY <3>1, <3>2 DEF Writes
  <2>5. \A k \in DOMAIN Whole' :
          Whole'[k].id = script'.start => Whole'[k].kind = "CompactionStarted"
    BY <1>4, <2>2, <2>3, <2>4 DEF KindInv, StartLine
  <2> QED BY <2>2, <2>5 DEF Writes, StartLine
<1> QED BY <1>5, <1>6, <1>7, <1>8 DEF KindInv

LEMMA RestsKinds ==
  ASSUME KindInv, TraceInv', Rests
  PROVE  KindInv'
<1>1. IntentKinds'
  BY DEF Rests, KindInv, IntentKinds
<1>2. TxIntent'
  BY DEF Rests, KindInv, TxIntent, IntentsOf
<1>3. StartLine'
  <2>1. nextId \in Nat /\ nextId >= 1 /\ script.start \in 0..(nextId - 1)
    BY DEF KindInv, TraceInv, TypeInv, TypeOK, StartLine
  <2>2. script'.start \in 0..(nextId' - 1)
    BY <2>1 DEF Rests
  <2>3. \A k \in DOMAIN Whole : Whole[k].id # 0
    <3>1. \A k \in DOMAIN Whole : Whole[k].id \in 1..(nextId - 1)
      BY DEF KindInv, TraceInv, Sound
    <3> QED BY <3>1
  <2>4. \A k \in DOMAIN Whole' :
          Whole'[k].id = script'.start => Whole'[k].kind = "CompactionStarted"
    BY <2>3 DEF Rests, KindInv, StartLine
  <2>5. tx'.step = "prepared" /\ tx'.ev.id = script'.start =>
          tx'.ev.kind = "CompactionStarted"
    <3>1. CASE tx'.step = "prepared"
      <4>1. tx' = tx /\ tx.step = "prepared"
        BY <3>1 DEF Rests
      <4>2. tx.ev.id \in 1..(nextId - 1)
        BY <4>1 DEF KindInv, TraceInv, Writable
      <4>3. tx.ev.id # 0
        BY <4>2
      <4> QED BY <4>1, <4>3 DEF Rests, KindInv, StartLine
    <3> QED BY <3>1
  <2> QED BY <2>2, <2>4, <2>5 DEF StartLine
<1> QED BY <1>1, <1>2, <1>3 DEF Rests, KindInv

LEMMA AbortedGrow ==
  ASSUME TypeOK, TypeOK', Extends
  PROVE  AbortedIds(journal) \subseteq AbortedIds(journal')
<1> SUFFICES ASSUME NEW k \in DOMAIN journal,
                    journal[k].kind \in {"ContextSummary", "CompactionEpoch"},
                    NEW s \in Starts(journal), NEW a \in DOMAIN journal, s < k, k < a,
                    AbortsStart(journal[a], journal[s]), ~ClosedBetween(journal, s, a)
             PROVE  journal[k].id \in AbortedIds(journal')
  BY DEF AbortedIds
<1>1. journal \in Seq(Event) /\ s \in DOMAIN journal
  BY DEF TypeOK, Starts
<1>2. /\ k \in DOMAIN journal' /\ journal'[k] = journal[k]
      /\ a \in DOMAIN journal' /\ journal'[a] = journal[a]
      /\ s \in DOMAIN journal' /\ journal'[s] = journal[s]
  BY <1>1 DEF Extends
<1>3. s \in Starts(journal')
  BY <1>2 DEF Starts
<1>4. \A c \in (s + 1)..(a - 1) : c \in DOMAIN journal /\ journal'[c] = journal[c]
  <2>1. \A c \in (s + 1)..(a - 1) : c \in DOMAIN journal
    BY <1>1
  <2> QED BY <2>1 DEF Extends
<1>5. ~ClosedBetween(journal', s, a)
  BY <1>2, <1>4 DEF ClosedBetween, Closes
<1> QED BY <1>2, <1>3, <1>5 DEF AbortedIds

\* What the trace, the log and the WAL must do to keep everything owed.
LEMMA NothingLostKept ==
  ASSUME TypeOK, TypeOK', NothingLost, Extends,
         \A i \in DOMAIN log : i \in DOMAIN log' /\ log'[i] = log[i],
         \A k \in DOMAIN journal :
           journal[k].kind \in Owing /\ IntentsOf(journal[k].id) # {} =>
             \/ \E i \in wal' : i.ev.id = journal[k].id
             \/ InLog(journal[k].id)
             \/ journal[k].id \in AbortedIds(journal),
         \A k \in DOMAIN journal' : journal'[k].kind \in Owing =>
           \/ k \in DOMAIN journal /\ journal'[k] = journal[k]
           \/ \E i \in wal' : i.ev.id = journal'[k].id
  PROVE  NothingLost'
<1> SUFFICES ASSUME NEW k \in DOMAIN journal', journal'[k].kind \in Owing
             PROVE  \/ \E i \in DOMAIN log' :
                         log'[i].ev = journal'[k].id /\ log'[i].kind \in {"Message", "Reduction"}
                    \/ \E i \in wal' : i.ev.id = journal'[k].id
                    \/ journal'[k].id \in AbortedIds(journal')
  BY DEF NothingLost, IntentsOf, Owing
<1> DEFINE id == journal'[k].id
<1>1. CASE k \in DOMAIN journal /\ journal'[k] = journal[k]
  <2>1. InLog(id) \/ IntentsOf(id) # {} \/ id \in AbortedIds(journal)
    BY <1>1 DEF NothingLost, Owing, InLog
  <2>2. InLog(id) \/ (\E i \in wal' : i.ev.id = id) \/ id \in AbortedIds(journal)
    BY <1>1, <2>1 DEF IntentsOf
  <2>3. InLog(id) => \E i \in DOMAIN log' :
                       log'[i].ev = id /\ log'[i].kind \in {"Message", "Reduction"}
    BY DEF InLog
  <2>4. AbortedIds(journal) \subseteq AbortedIds(journal')
    BY AbortedGrow
  <2> QED BY <2>2, <2>3, <2>4
<1>2. CASE \E i \in wal' : i.ev.id = journal'[k].id
  BY <1>2
<1> QED BY <1>1, <1>2

LEMMA AsksLost ==
  ASSUME LostInv, TracedInv', KindInv', Asks
  PROVE  LostInv'
<1>1. PICK e : Request(e)
  BY DEF Asks
<1>2. /\ journal' = journal /\ log' = log /\ Whole' = Whole /\ tx'.step = "prepared"
      /\ wal' = wal \cup {[ev |-> e, rec |-> NoRecord]}
  BY <1>1 DEF Request, Prepare, Whole
<1>3. Aborts' /\ Logged'
  BY <1>2 DEF LostInv, Aborts, Logged
<1>4. Attached'
  BY <1>2 DEF LostInv, Attached
<1>5. NothingLost'
  <2>1. TypeOK /\ TypeOK'
    BY DEF LostInv, TracedInv, TypeInv
  <2>2. \A id : IntentsOf(id) # {} => \E i \in wal' : i.ev.id = id
    BY <1>2 DEF IntentsOf
  <2>3. Extends
    BY <1>2 DEF Extends
  <2> QED BY <1>2, <2>1, <2>2, <2>3, NothingLostKept DEF LostInv
<1> QED BY <1>3, <1>4, <1>5 DEF LostInv

LEMMA WritesLost ==
  ASSUME LostInv, TracedInv', KindInv', NEW e \in Event, Writes(e)
  PROVE  LostInv'
<1> DEFINE x == Stamped(e)
<1>0. TypeOK /\ TypeOK' /\ KindInv /\ TraceInv /\ Extends
  BY JournalExtends DEF LostInv, KindInv, TracedInv, TypeInv, Writes
<1>1. Whole \in Seq(Event) /\ x \in Event /\ Whole' = Append(Whole, x)
  BY <1>0, WholeAppends DEF Writes
<1>2. x.id = e.id /\ x.kind = e.kind /\ x.parent = e.parent
  BY DEF Stamped, Event
<1>3. journal \in Seq(Event) /\ buffer \in Seq(Event)
  BY <1>0 DEF TypeOK
<1>4. \A k \in DOMAIN journal' :
        \/ k \in DOMAIN journal /\ journal'[k] = journal[k]
        \/ journal'[k].kind = "AssistantDelta" \/ journal'[k] = x
  <2>1. CASE Durable(e)
    <3> DEFINE d == Append(buffer, x)
    <3>0. d \in Seq(Event)
      BY <1>1, <1>3
    <3>1. journal' = journal \o d /\ d \in Seq(Event)
      BY <2>1, <3>0 DEF Writes, AppendJournal
    <3>2. \A k \in DOMAIN d : d[k].kind = "AssistantDelta" \/ d[k] = x
      <4>1. \A k \in DOMAIN d : (k \in DOMAIN buffer /\ d[k] = buffer[k]) \/ d[k] = x
        BY <1>1, <1>3
      <4> QED BY <1>0, <4>1 DEF KindInv, Deltas
    <3> HIDE DEF d
    <3>3. \A k \in DOMAIN journal' :
            \/ k \in DOMAIN journal /\ journal'[k] = journal[k]
            \/ \E m \in DOMAIN d : journal'[k] = d[m]
      <4> SUFFICES ASSUME NEW k \in DOMAIN journal', k \notin DOMAIN journal
                   PROVE  k - Len(journal) \in DOMAIN d /\ journal'[k] = d[k - Len(journal)]
        BY <1>3, <3>1
      <4> QED BY <1>3, <3>1
    <3> QED BY <3>2, <3>3
  <2>2. CASE ~Durable(e)
    BY <2>2 DEF Writes, AppendJournal
  <2> QED BY <2>1, <2>2
<1>5. Aborts'
  <2>1. DOMAIN Whole = 1..Len(Whole) /\ DOMAIN Whole' = 1..(Len(Whole) + 1)
        /\ Len(Whole) \in Nat /\ Whole'[Len(Whole) + 1] = x
        /\ \A k \in 1..Len(Whole) : Whole'[k] = Whole[k]
    BY <1>1
  <2> HIDE DEF x
  <2> SUFFICES ASSUME NEW s \in Starts(Whole'), NEW a \in DOMAIN Whole',
                      AbortsStart(Whole'[a], Whole'[s]), ClosedBetween(Whole', s, a)
               PROVE  FALSE
    BY DEF Aborts
  <2>2. s \in 1..(Len(Whole) + 1) /\ a \in 1..(Len(Whole) + 1)
        /\ Whole'[s].kind = "CompactionStarted" /\ Whole'[a].kind = "CompactionAborted"
        /\ Whole'[a].parent = Whole'[s].id
    BY <2>1 DEF Starts, AbortsStart
  <2>3. PICK c \in (s + 1)..(a - 1) : Closes(Whole', s, c)
    BY DEF ClosedBetween
  <2>4. s \in 1..Len(Whole) /\ c \in 1..Len(Whole) /\ s < c
    BY <2>1, <2>2, <2>3
  <2>5. Whole'[s] = Whole[s] /\ Whole'[c] = Whole[c]
    BY <2>1, <2>4
  <2>6. s \in Starts(Whole) /\ Closes(Whole, s, c)
    BY <2>1, <2>2, <2>3, <2>4, <2>5 DEF Starts, Closes
  <2>7. CASE a \in 1..Len(Whole)
    <3>1. Whole'[a] = Whole[a]
      BY <2>1, <2>7
    <3>2. AbortsStart(Whole[a], Whole[s]) /\ ClosedBetween(Whole, s, a)
      BY <2>2, <2>3, <2>5, <2>6, <3>1 DEF AbortsStart, ClosedBetween
    <3> QED BY <2>1, <2>6, <2>7, <3>2 DEF LostInv, Aborts
  <2>8. CASE a = Len(Whole) + 1
    <3>1. e.kind = "CompactionAborted" /\ e.parent = Whole[s].id
      BY <1>2, <2>1, <2>2, <2>5, <2>8
    <3>2. PICK o \in OpenStarts(journal) : e.parent = journal[o].id
      BY <3>1 DEF Writes
    <3>3. buffer = <<>>
      BY <1>0, <3>1 DEF Writes, KindInv, Deltas
    <3>4. Whole = journal
      BY <1>3, <3>3 DEF Whole
    <3>5. o \in 1..Len(Whole) /\ Whole[o].id = Whole[s].id
      BY <1>3, <3>1, <3>2, <3>4 DEF OpenStarts, Starts
    <3>6. o = s
      <4>1. \A i \in 1..Len(Whole) : \A k \in 1..(i - 1) : Whole[k].id # Whole[i].id
        BY <1>0, <2>1 DEF TraceInv, Sound
      <4>2. o < s \/ s < o \/ o = s
        BY <2>4, <3>5
      <4>3. o < s => o \in 1..(s - 1)
        BY <2>4, <3>5
      <4>4. s < o => s \in 1..(o - 1)
        BY <2>4, <3>5
      <4> QED BY <2>4, <3>5, <4>1, <4>2, <4>3, <4>4
    <3>7. ~ClosedBetween(Whole, s, Len(Whole) + 1)
      BY <3>2, <3>4, <3>6 DEF OpenStarts
    <3> QED BY <2>3, <2>6, <2>8, <3>7 DEF ClosedBetween
  <2> QED BY <2>2, <2>7, <2>8
<1>6. Attached' /\ Logged'
  BY DEF Writes, LostInv, Attached, Logged
<1>7. NothingLost'
  <2>1. \A id : IntentsOf(id) # {} => \E i \in wal' : i.ev.id = id
    BY DEF Writes, IntentsOf
  <2>2. x.kind \in Owing => \E i \in wal' : i.ev.id = x.id
    <3>1. CASE tx.step = "prepared" /\ e = tx.ev
      BY <1>0, <1>2, <3>1 DEF KindInv, TxIntent, IntentsOf, Writes
    <3>2. CASE e.kind \in PlainKinds
      BY <1>2, <3>2 DEF PlainKinds, Owing, MessageKinds, SaidKinds
    <3> QED BY <3>1, <3>2 DEF Writes
  <2> HIDE DEF x
  <2>3. \A k \in DOMAIN journal' : journal'[k].kind \in Owing =>
           \/ k \in DOMAIN journal /\ journal'[k] = journal[k]
           \/ \E i \in wal' : i.ev.id = journal'[k].id
    BY <1>4, <2>2 DEF Owing, MessageKinds, SaidKinds
  <2>4. \A i \in DOMAIN log : i \in DOMAIN log' /\ log'[i] = log[i]
    BY DEF Writes
  <2> QED BY <1>0, <2>1, <2>3, <2>4, NothingLostKept DEF LostInv
<1> QED BY <1>5, <1>6, <1>7 DEF LostInv

\* What is still owed to an intent's event is in the log, or discarded.
Accounted(e) ==
  \A k \in DOMAIN journal : journal[k].id = e.id /\ journal[k].kind \in Owing =>
    InLog(e.id) \/ e.id \in AbortedIds(journal)

LEMMA RestsLost ==
  ASSUME LostInv, TracedInv', KindInv', Rests, Attached', Logged',
         \A i \in DOMAIN log : i \in DOMAIN log' /\ log'[i] = log[i],
         \A i \in wal : (\E o \in wal' : o.ev = i.ev) \/ Accounted(i.ev)
  PROVE  LostInv'
<1>0. TypeOK /\ TypeOK' /\ Whole \in Seq(Event) /\ Whole' \in Seq(Event)
  BY ConcatProperties DEF LostInv, TracedInv, TypeInv, TypeOK, Whole
<1>1. Aborts'
  <2> SUFFICES ASSUME NEW s \in Starts(Whole'), NEW a \in DOMAIN Whole',
                      AbortsStart(Whole'[a], Whole'[s]), ClosedBetween(Whole', s, a)
               PROVE  FALSE
    BY DEF Aborts
  <2>1. PICK c \in (s + 1)..(a - 1) : Closes(Whole', s, c)
    BY DEF ClosedBetween
  <2>2. s \in DOMAIN Whole' /\ Whole'[s].kind = "CompactionStarted"
    BY DEF Starts
  <2>3. c \in DOMAIN Whole'
    BY <1>0, <2>2
  <2>4. /\ s \in DOMAIN Whole /\ a \in DOMAIN Whole
        /\ Whole'[s] = Whole[s] /\ Whole'[a] = Whole[a] /\ Whole'[c] = Whole[c]
    BY <2>2, <2>3 DEF Rests
  <2>5. s \in Starts(Whole)
    BY <2>2, <2>4 DEF Starts
  <2>6. ClosedBetween(Whole, s, a)
    BY <2>1, <2>4 DEF ClosedBetween, Closes
  <2>7. AbortsStart(Whole[a], Whole[s])
    BY <2>4
  <2> QED BY <2>4, <2>5, <2>6, <2>7 DEF LostInv, Aborts
<1>2. NothingLost'
  <2>1. \A k \in DOMAIN journal' : journal'[k].kind \in Owing =>
           \/ k \in DOMAIN journal /\ journal'[k] = journal[k]
           \/ \E i \in wal' : i.ev.id = journal'[k].id
    BY DEF Rests, Owing, MessageKinds, SaidKinds
  <2>2. \A k \in DOMAIN journal :
           journal[k].kind \in Owing /\ IntentsOf(journal[k].id) # {} =>
             \/ \E i \in wal' : i.ev.id = journal[k].id
             \/ InLog(journal[k].id)
             \/ journal[k].id \in AbortedIds(journal)
    BY DEF IntentsOf, Accounted
  <2>3. Extends
    BY DEF Rests
  <2> QED BY <1>0, <2>1, <2>2, <2>3, NothingLostKept DEF LostInv
<1> QED BY <1>1, <1>2 DEF LostInv

LEMMA QuietRests ==
  ASSUME KindInv, UNCHANGED <<journal, buffer, nextId>>, proc' = proc \/ proc' # "recovering",
         script'.start \in {0, script.start},
         \A i \in wal' : \E o \in wal : i.ev = o.ev,
         tx'.step # "prepared" \/ (tx' = tx /\ wal' = wal)
  PROVE  Rests
<1>1. Whole' = Whole
  BY DEF Whole
<1>2. Deltas'
  BY DEF KindInv, Deltas
<1> QED BY <1>1, <1>2 DEF Rests, Extends

\* A step that touches the trace and the log no more than the intents.
LEMMA QuietLost ==
  ASSUME LostInv, TypeInv', UNCHANGED <<journal, buffer, nextId, log>>,
         TracedInv', TraceInv', proc' = proc \/ proc' # "recovering",
         script'.start \in {0, script.start}, wal' \subseteq wal,
         (tx' = tx /\ wal' = wal) \/ tx'.step \notin {"prepared", "logged"},
         \A i \in wal \ wal' : Accounted(i.ev)
  PROVE  LostInv'
<1>1. KindInv
  BY DEF LostInv
<1>2. Rests
  BY <1>1, QuietRests
<1>3. KindInv'
  BY <1>1, <1>2, RestsKinds
<1>4. Attached' /\ Logged'
  BY DEF LostInv, Attached, Logged, InLog
<1>5. \A i \in wal : (\E o \in wal' : o.ev = i.ev) \/ Accounted(i.ev)
  OBVIOUS
<1> QED BY <1>2, <1>3, <1>4, <1>5, RestsLost

LEMMA UniqueLine ==
  ASSUME LostInv, NEW k \in DOMAIN journal, NEW m \in DOMAIN journal,
         journal[k].id = journal[m].id
  PROVE  k = m
<1>0. journal \in Seq(Event) /\ buffer \in Seq(Event)
  BY DEF LostInv, TracedInv, TypeInv, TypeOK
<1>1. \A i \in DOMAIN journal : i \in DOMAIN Whole /\ Whole[i] = journal[i]
  BY <1>0 DEF Whole
<1>2. \A i \in DOMAIN Whole : \A j \in 1..(i - 1) : Whole[j].id # Whole[i].id
  BY DEF LostInv, KindInv, TraceInv, Sound
<1>3. k \in Nat /\ m \in Nat /\ k >= 1 /\ m >= 1
  BY <1>0
<1>4. k < m => k \in 1..(m - 1)
  BY <1>3
<1>5. m < k => m \in 1..(k - 1)
  BY <1>3
<1> QED BY <1>1, <1>2, <1>3, <1>4, <1>5

LEMMA FinishStart ==
  ASSUME TypeOK, NEW e, Finish(e)
  PROVE  script'.start \in {0, script.start} /\ tx'.step = "idle"
<1>0. script \in Scripts /\ NoScript.start = 0 /\ tx'.step = "idle"
  BY DEF TypeOK, NoScript, Finish, Idle
<1>1. CASE proc # "open"
  BY <1>0, <1>1 DEF Finish
<1>2. CASE proc = "open"
  <2>0. Return(e)
    BY <1>2 DEF Finish
  <2>1. CASE e.kind \in SaidKinds \cup {"ContextReduced"}
    <3>1. script' = script
      BY <2>0, <2>1 DEF Return, SaidKinds
    <3> QED BY <1>0, <3>1
  <2>2. CASE e.kind \in {"CompactionStarted", "ContextSummary", "CheckpointCreated"}
    <3>1. script'.start = script.start
      BY <1>0, <2>0, <2>2 DEF Return, SaidKinds, Scripts
    <3> QED BY <1>0, <3>1
  <2>3. CASE e.kind \in {"CompactionCompleted", "CheckpointCompleted"}
    <3>1. script' = NoScript
      BY <2>0, <2>3 DEF Return, SaidKinds
    <3> QED BY <1>0, <3>1
  <2>4. CASE e.kind \notin SaidKinds \cup {"ContextReduced", "CompactionStarted",
              "ContextSummary", "CompactionCompleted", "CheckpointCreated",
              "CheckpointCompleted"}
    <3>1. script' = script
      BY <2>0, <2>4 DEF Return, SaidKinds
    <3> QED BY <1>0, <3>1
  <2> QED BY <2>1, <2>2, <2>3, <2>4
<1> QED BY <1>1, <1>2

LEMMA OwingProjection ==
  ASSUME NEW e, NEW range, e.kind \in Owing
  PROVE  /\ ProjectionOf(e, range).ev = e.id
         /\ ProjectionOf(e, range).kind \in {"Message", "Reduction"}
         /\ e.kind = "ContextReduced" => ProjectionOf(e, range).kind = "Reduction"
<1>1. CASE e.kind \in MessageKinds
  <2>1. e.kind # "ContextReduced" /\ e.kind # "CompactionCompleted"
          /\ e.kind # "CheckpointCompleted" /\ e.kind # "CheckpointCreated"
    BY <1>1 DEF MessageKinds, SaidKinds
  <2>2. ProjectionOf(e, range) = MessageRecord(e)
    BY <1>1, <2>1 DEF ProjectionOf
  <2> QED BY <2>1, <2>2 DEF MessageRecord, BlankRecord
<1>2. CASE e.kind = "ContextReduced"
  <2>1. e.kind \notin MessageKinds
    BY <1>2 DEF MessageKinds, SaidKinds
  <2>2. ProjectionOf(e, range)
          = [BlankRecord EXCEPT !.kind = "Reduction", !.ev = e.id, !.seq = e.seq,
               !.removed = e.removed, !.retained = e.retained]
    BY <1>2, <2>1 DEF ProjectionOf
  <2> QED BY <2>2 DEF BlankRecord
<1> QED BY <1>1, <1>2 DEF Owing

LEMMA TransactionLost ==
  ASSUME LostInv, TracedInv', TraceInv', Transaction
  PROVE  LostInv'
<1>0. /\ TypeOK /\ TypeInv /\ TypeInv' /\ tx.ev \in Event /\ tx \in Transactions /\ KindInv
      /\ TxTraced /\ TraceInv
  BY DEF LostInv, KindInv, TracedInv, TypeInv, TypeOK, Transactions
<1>1. CASE JournalEvent
  <2>1. /\ AppendJournal(tx.ev) /\ UNCHANGED <<wal, log, proc, nextId>>
        /\ tx.step = "prepared" /\ proc # "down"
    BY <1>1 DEF JournalEvent, Writing
  <2>2. Durable(tx.ev) /\ tx.ev.kind # "CompactionAborted"
    BY <1>0, <2>1 DEF TypeInv, TxShape, Durable, MessageKinds, SaidKinds, RecordKinds, HeldKinds
  <2>3. script'.start \in {0, script.start} /\ tx'.step \notin {"prepared", "logged"}
    <3>1. CASE tx.ev.kind \in HeldKinds
      BY <1>0, <1>1, <3>1, FinishStart DEF JournalEvent
    <3>2. CASE tx.ev.kind \notin HeldKinds
      BY <1>1, <3>2 DEF JournalEvent
    <3> QED BY <3>1, <3>2
  <2>4. Writes(tx.ev)
    BY <2>1, <2>2, <2>3 DEF Writes
  <2>5. KindInv'
    BY <1>0, <2>4, WritesKinds
  <2> QED BY <1>0, <2>4, <2>5, WritesLost
<1>2. CASE AttachRecord
  <2>1. /\ UNCHANGED <<journal, buffer, nextId, proc, script, log>>
        /\ tx.step = "journaled" /\ tx'.step = "attached" /\ tx.ev.kind \in RecordKinds
    BY <1>0, <1>2 DEF AttachRecord, Writing, Transactions
  <2>2. \A i \in wal' : i \in wal \/
          \E o \in IntentsOf(tx.ev.id) : i = [o EXCEPT !.rec = Projection]
    BY <1>2 DEF AttachRecord
  <2>3. \A o \in IntentsOf(tx.ev.id) : /\ [o EXCEPT !.rec = Projection] \in wal'
                                       /\ [o EXCEPT !.rec = Projection].ev = o.ev
                                       /\ [o EXCEPT !.rec = Projection].rec = Projection
                                       /\ o \in wal /\ o.ev.id = tx.ev.id
    <3>1. \A o \in IntentsOf(tx.ev.id) : o \in [ev : Event, rec : Record]
      BY <1>0 DEF IntentsOf, TypeOK, Intents
    <3> QED BY <1>2, <3>1 DEF AttachRecord, IntentsOf
  <2>4. \A i \in wal' : \E o \in wal : i.ev = o.ev
    BY <2>2, <2>3
  <2>5. Rests
    BY <1>0, <2>1, <2>4, QuietRests
  <2>6. KindInv'
    BY <1>0, <2>5, RestsKinds
  <2>7. \A i \in wal : \E o \in wal' : o.ev = i.ev
    <3> SUFFICES ASSUME NEW i \in wal PROVE \E o \in wal' : o.ev = i.ev
      OBVIOUS
    <3>1. CASE i \in IntentsOf(tx.ev.id)
      BY <2>3, <3>1
    <3>2. CASE i \notin IntentsOf(tx.ev.id)
      BY <1>2, <3>2 DEF AttachRecord
    <3> QED BY <3>1, <3>2
  <2>8. Attached'
    <3> SUFFICES ASSUME NEW i \in wal', i.rec # NoRecord
                 PROVE  /\ i.ev.kind \in RecordKinds
                        /\ i.ev.kind = "ContextReduced" =>
                             i.rec.kind = "Reduction" /\ i.rec.ev = i.ev.id
      BY DEF Attached
    <3>1. CASE i \in wal
      BY <3>1 DEF LostInv, Attached
    <3>2. CASE i \notin wal
      <4>1. PICK o \in IntentsOf(tx.ev.id) : i = [o EXCEPT !.rec = Projection]
        BY <2>2, <3>2
      <4>2. i.ev = o.ev /\ i.rec = Projection /\ o \in wal /\ o.ev.id = tx.ev.id
        BY <2>3, <4>1
      <4>3. PICK k \in DOMAIN journal : journal[k] = tx.ev
        BY <1>0, <2>1 DEF TxTraced
      <4>4. k \in DOMAIN Whole /\ Whole[k] = tx.ev
        BY <1>0, <4>3 DEF Whole, TypeOK
      <4>5. o.ev.kind = tx.ev.kind
        BY <1>0, <4>2, <4>4 DEF KindInv, IntentKinds
      <4>6. tx.ev.kind = "ContextReduced" =>
              Projection.kind = "Reduction" /\ Projection.ev = tx.ev.id
        BY OwingProjection, Zenon DEF Projection, Owing
      <4> QED BY <2>1, <4>2, <4>5, <4>6
    <3> QED BY <3>1, <3>2
  <2>9. Logged'
    BY <2>1 DEF Logged
  <2> QED BY <2>1, <2>5, <2>6, <2>7, <2>8, <2>9, RestsLost
<1>3. CASE AppendLog
  <2>1. /\ UNCHANGED <<journal, buffer, nextId, proc, script, wal>>
        /\ tx.step \in {"journaled", "attached"} /\ tx'.step = "logged" /\ tx'.ev = tx.ev
        /\ log' = Append(log, Projection)
    BY <1>0, <1>3 DEF AppendLog, Writing, Transactions
  <2>2. Rests
    BY <1>0, <2>1, QuietRests
  <2>3. KindInv'
    BY <1>0, <2>2, RestsKinds
  <2>4. log \in Seq(Record) /\ Projection \in Record
    BY <1>0, <2>1, ProjectionOfTx DEF TypeOK
  <2>5. /\ \A i \in DOMAIN log : i \in DOMAIN log' /\ log'[i] = log[i]
        /\ Len(log) + 1 \in DOMAIN log' /\ log'[Len(log) + 1] = Projection
    BY <2>1, <2>4
  <2>6. Logged'
    <3>1. tx.ev.kind \in Owing =>
            Projection.ev = tx.ev.id /\ Projection.kind \in {"Message", "Reduction"}
      BY OwingProjection, Zenon DEF Projection
    <3> QED BY <2>1, <2>5, <3>1 DEF Logged, InLog
  <2>7. Attached'
    BY <2>1 DEF LostInv, Attached
  <2> QED BY <2>1, <2>2, <2>3, <2>5, <2>6, <2>7, RestsLost
<1>4. CASE CommitTransaction
  <2>1. /\ UNCHANGED <<journal, buffer, nextId, proc, log>> /\ tx.step = "logged"
        /\ wal' = wal \ IntentsOf(tx.ev.id)
    BY <1>4 DEF CommitTransaction, Writing
  <2>2. script'.start \in {0, script.start} /\ tx'.step \notin {"prepared", "logged"}
    <3>1. CASE tx.ev.kind = "CompactionCompleted"
      BY <1>0, <1>4, <3>1 DEF CommitTransaction, Transactions
    <3>2. CASE tx.ev.kind # "CompactionCompleted"
      BY <1>0, <1>4, <3>2, FinishStart DEF CommitTransaction
    <3> QED BY <3>1, <3>2
  <2>3. PICK k \in DOMAIN journal : journal[k] = tx.ev
    BY <1>0, <2>1 DEF TxTraced
  <2>4. \A m \in DOMAIN journal : journal[m].id = tx.ev.id => journal[m] = tx.ev
    BY <2>3, UniqueLine
  <2>5. \A i \in wal \ wal' : Accounted(i.ev)
    BY <2>1, <2>4 DEF LostInv, Logged, IntentsOf, Accounted
  <2> QED BY <1>0, <2>1, <2>2, <2>5, QuietLost
<1>5. CASE ReleaseStart
  <2>1. /\ UNCHANGED <<journal, buffer, nextId, proc, log>> /\ Finish(tx.ev)
        /\ wal' = wal \ IntentsOf(script.start)
    BY <1>5 DEF ReleaseStart
  <2>2. script'.start \in {0, script.start} /\ tx'.step = "idle"
    BY <1>0, <2>1, FinishStart
  <2>3. \A m \in DOMAIN journal :
          journal[m].id = script.start => journal[m].kind = "CompactionStarted"
    <3>1. \A m \in DOMAIN journal : m \in DOMAIN Whole /\ Whole[m] = journal[m]
      BY <1>0 DEF Whole, TypeOK
    <3> QED BY <1>0, <3>1 DEF KindInv, StartLine
  <2>4. \A i \in wal \ wal' : Accounted(i.ev)
    BY <2>1, <2>3 DEF IntentsOf, Accounted, Owing, MessageKinds, SaidKinds
  <2> QED BY <1>0, <2>1, <2>2, <2>4, QuietLost
<1> QED BY <1>1, <1>2, <1>3, <1>4, <1>5 DEF Transaction

LEMMA RuntimeLost ==
  ASSUME LostInv, TracedInv', TraceInv', Runtime
  PROVE  LostInv'
<1>0. TypeOK /\ TypeInv /\ TypeInv' /\ nextId \in Nat /\ KindInv /\ TraceInv /\ script \in Scripts
  BY DEF LostInv, KindInv, TracedInv, TypeInv, TypeOK
<1>1. ASSUME Asks PROVE LostInv'
  <2>1. KindInv'
    BY <1>0, <1>1, AsksKinds
  <2> QED BY <1>1, <2>1, AsksLost
<1>2. ASSUME NEW e, Request(e), e.id = nextId, script'.start \in {0, script.start}
      PROVE  LostInv'
  BY <1>1, <1>2 DEF Asks
<1>3. ASSUME NEW kind PROVE Fresh(kind).id = nextId /\ Fresh(kind).kind = kind
  BY DEF Fresh, NewEvent
<1>4. ASSUME NEW e \in Event, e.id = nextId, e.kind \in PlainKinds, e.kind # "CompactionAborted",
             AppendJournal(e), Ready, UNCHANGED <<proc, tx, wal, log>>, nextId' = nextId + 1,
             script'.start = script.start
      PROVE  LostInv'
  <2>1. Writes(e)
    BY <1>4 DEF Writes, Ready, Idle
  <2>2. KindInv'
    BY <1>0, <1>4, <2>1, WritesKinds
  <2> QED BY <1>4, <2>1, <2>2, WritesLost
<1>5. CASE EmitDelta
  <2>1. Fresh("AssistantDelta") \in Event
    BY <1>0, FreshTyped DEF EventKinds, PlainKinds
  <2>2. "AssistantDelta" \in PlainKinds /\ "AssistantDelta" # "CompactionAborted"
    BY DEF PlainKinds
  <2> QED BY <1>3, <1>4, <1>5, <2>1, <2>2 DEF EmitDelta, MayStart
<1>6. CASE EmitEpoch
  <2> DEFINE e == [Fresh("CompactionEpoch") EXCEPT !.epoch = context + 1,
                     !.from = script.from, !.through = script.through,
                     !.text = script.text]
  <2>1. Fresh("CompactionEpoch") \in Event
    BY <1>0, FreshTyped DEF EventKinds, PlainKinds
  <2>2. context + 1 \in Nat
    BY <1>0 DEF TypeOK
  <2>3. e \in Event /\ e.id = nextId
    BY <1>0, <1>3, <2>1, <2>2 DEF Event, Scripts
  <2>4. e.kind = "CompactionEpoch"
    BY <1>3, <2>1 DEF Event
  <2> HIDE DEF e
  <2>5. AppendJournal(e)
    BY <1>6 DEF EmitEpoch, e
  <2>6. script'.start = script.start
    BY <1>0, <1>6 DEF EmitEpoch, Scripts
  <2> QED BY <1>4, <1>6, <2>3, <2>4, <2>5, <2>6 DEF EmitEpoch, PlainKinds
<1>7. CASE FlushBuffer
  <2>1. /\ journal' = journal \o buffer /\ buffer' = <<>> /\ nextId' = nextId
        /\ proc' = proc /\ tx' = tx /\ wal' = wal /\ log' = log /\ script' = script
    BY <1>7 DEF FlushBuffer
  <2>2. journal \in Seq(Event) /\ buffer \in Seq(Event)
    BY <1>0 DEF TypeOK
  <2>3. Whole' = Whole
    <3>1. journal \o buffer \in Seq(Event)
      BY <2>2, ConcatProperties
    <3>2. (journal \o buffer) \o <<>> = journal \o buffer
      BY <3>1
    <3> QED BY <2>1, <3>2 DEF Whole
  <2>4. \A k \in DOMAIN journal' :
          (k \in DOMAIN journal /\ journal'[k] = journal[k]) \/
            (k - Len(journal) \in DOMAIN buffer /\ journal'[k] = buffer[k - Len(journal)])
    BY <2>1, <2>2
  <2>5. Extends
    BY <2>1, <2>2 DEF Extends
  <2>6. Rests
    BY <1>0, <2>1, <2>3, <2>4, <2>5 DEF Rests, KindInv, Deltas
  <2>7. KindInv'
    BY <1>0, <2>6, RestsKinds
  <2>8. Attached' /\ Logged'
    BY <2>1 DEF LostInv, Attached, Logged, InLog
  <2> QED BY <2>1, <2>6, <2>7, <2>8, RestsLost
<1>8. CASE ReleaseLimited
  <2>1. PICK i \in wal : i.ev.kind = "OutputLimited" /\ wal' = wal \ {i}
    BY <1>8 DEF ReleaseLimited
  <2>2. \A m \in DOMAIN journal : m \in DOMAIN Whole /\ Whole[m] = journal[m]
    BY <1>0 DEF Whole, TypeOK
  <2>3. Accounted(i.ev)
    BY <1>0, <2>1, <2>2 DEF KindInv, IntentKinds, Accounted, Owing, MessageKinds, SaidKinds
  <2>4. /\ UNCHANGED <<journal, buffer, nextId, log, proc, script, tx>>
        /\ tx'.step \notin {"prepared", "logged"}
    BY <1>8 DEF ReleaseLimited, Ready, Idle
  <2> QED BY <1>0, <2>1, <2>3, <2>4, QuietLost
<1>9. CASE PrepareMessage
  BY <1>2, <1>3, <1>9 DEF PrepareMessage
<1>10. CASE PrepareReduction
  <2>1. PICK d \in DOMAIN live :
          Request([Fresh("ContextReduced") EXCEPT !.removed = d,
                     !.retained = Len(live) - d + IF capsule = 0 THEN 0 ELSE 1])
    BY <1>10 DEF PrepareReduction
  <2> DEFINE r == Len(live) - d + IF capsule = 0 THEN 0 ELSE 1
             e == [Fresh("ContextReduced") EXCEPT !.removed = d, !.retained = r]
  <2>2. Request(e)
    BY <2>1
  <2> HIDE DEF r
  <2>3. e.id = nextId
    BY DEF Fresh, NewEvent
  <2> HIDE DEF e
  <2> QED BY <1>2, <1>10, <2>2, <2>3 DEF PrepareReduction
<1>11. CASE PrepareLimited
  BY <1>2, <1>3, <1>11 DEF PrepareLimited
<1>12. CASE StartCompaction
  <2>1. script'.start = nextId
    BY <1>12 DEF StartCompaction, NoScript
  <2> QED BY <1>1, <1>3, <1>12, <2>1 DEF StartCompaction, Asks
<1>13. CASE PrepareSummary
  <2> DEFINE e == [Fresh("ContextSummary") EXCEPT !.text = script.text]
  <2>1. e.id = nextId
    BY DEF Fresh, NewEvent
  <2>2. Request(e)
    BY <1>13 DEF PrepareSummary
  <2> HIDE DEF e
  <2> QED BY <1>2, <1>13, <2>1, <2>2 DEF PrepareSummary
<1>14. CASE PrepareCompleted
  <2> DEFINE r == Len(live) - script.prefix
             e == [Fresh("CompactionCompleted") EXCEPT !.epoch = context + 1,
                     !.removed = script.prefix, !.retained = r]
  <2>1. Request(e)
    BY <1>14 DEF PrepareCompleted
  <2> HIDE DEF r
  <2>2. e.id = nextId
    BY DEF Fresh, NewEvent
  <2> HIDE DEF e
  <2> QED BY <1>2, <1>14, <2>1, <2>2 DEF PrepareCompleted
<1>15. CASE StartCheckpoint
  <2>1. PICK p \in DOMAIN live \cup {Len(live)} :
          /\ script' = [NoScript EXCEPT !.step = "opening", !.prefix = p]
          /\ Request([Fresh("CheckpointCreated") EXCEPT !.epoch = context + 1, !.removed = p])
    BY <1>15 DEF StartCheckpoint
  <2> DEFINE e == [Fresh("CheckpointCreated") EXCEPT !.epoch = context + 1, !.removed = p]
  <2>2. e.id = nextId
    BY DEF Fresh, NewEvent
  <2>3. Request(e)
    BY <2>1
  <2> HIDE DEF e
  <2>4. script'.start = 0
    BY <2>1 DEF NoScript
  <2> QED BY <1>2, <2>2, <2>3, <2>4
<1>16. CASE PrepareCheckpointCompleted
  <2> DEFINE r == Len(live) - script.prefix + 1
             e == [Fresh("CheckpointCompleted") EXCEPT !.epoch = context + 1,
                     !.removed = script.prefix, !.retained = r]
  <2>1. Request(e)
    BY <1>16 DEF PrepareCheckpointCompleted
  <2> HIDE DEF r
  <2>2. e.id = nextId
    BY DEF Fresh, NewEvent
  <2> HIDE DEF e
  <2> QED BY <1>2, <1>16, <2>1, <2>2 DEF PrepareCheckpointCompleted
<1> QED BY <1>5, <1>6, <1>7, <1>8, <1>9, <1>10, <1>11, <1>12, <1>13, <1>14, <1>15, <1>16
     DEF Runtime

\* What CommitAborted releases was discarded in the trace.
LEMMA StaleAccounted ==
  ASSUME LostInv, OpenStarts(journal) = {}, NEW s \in Discarded, NEW i \in StaleIntents(s)
  PROVE  Accounted(i.ev)
<1>0. TypeOK /\ journal \in Seq(Event) /\ KindInv /\ TraceInv
  BY DEF LostInv, KindInv, TracedInv, TypeInv, TypeOK
<1>1. /\ s \in DOMAIN journal /\ s \in Starts(journal) /\ journal[s].kind = "CompactionStarted"
      /\ \E a \in DOMAIN journal : AbortsStart(journal[a], journal[s])
  BY DEF Discarded, AbortedStarts, Starts
<1>2. \A m \in DOMAIN journal : m \in DOMAIN Whole /\ Whole[m] = journal[m]
  BY <1>0 DEF Whole, TypeOK
<1>3. \A m \in DOMAIN journal : journal[m].id # 0
  <2>1. \A m \in DOMAIN Whole : Whole[m].id \in 1..(nextId - 1)
    BY <1>0 DEF TraceInv, Sound
  <2>2. \A m \in DOMAIN Whole : Whole[m].id # 0
    BY <2>1
  <2> QED BY <1>2, <2>2
<1>4. CASE i.ev.id = journal[s].id
  <2>1. \A m \in DOMAIN journal : journal[m].id = i.ev.id => m = s
    BY <1>1, <1>4, UniqueLine
  <2> QED BY <1>1, <2>1 DEF Accounted, Owing, MessageKinds, SaidKinds
<1>5. CASE i.ev.id = StagedSummary(journal, s)
  <2> DEFINE end == IF \E x \in DOMAIN journal : AbortsStart(journal[x], journal[s])
                      THEN CHOOSE x \in DOMAIN journal :
                             AbortsStart(journal[x], journal[s])
                      ELSE Len(journal) + 1
             staged == Between(journal, s, end, "ContextSummary")
  <2>1. end \in DOMAIN journal /\ AbortsStart(journal[end], journal[s])
    BY <1>1
  <2>3. CASE staged = {}
    <3>1. StagedSummary(journal, s) = 0
      BY <2>3 DEF StagedSummary
    <3> QED BY <1>3, <1>5, <3>1 DEF Accounted
  <2>4. CASE staged # {}
    <3>0. StagedSummary(journal, s) = journal[CHOOSE k \in staged : TRUE].id
      BY <2>4 DEF StagedSummary
    <3>1. PICK k \in staged : i.ev.id = journal[k].id
      BY <1>5, <2>4, <3>0
    <3> DEFINE a == end
    <3> HIDE DEF end
    <3>2. /\ k \in (s + 1)..(a - 1) /\ journal[k].kind = "ContextSummary"
      BY DEF Between
    <3>3. s < k /\ k < a /\ k \in DOMAIN journal
      BY <1>0, <1>1, <2>1, <3>2
    <3>4. ~ClosedBetween(journal, s, a)
      <4>1. s \in Starts(Whole) /\ a \in DOMAIN Whole /\ AbortsStart(Whole[a], Whole[s])
        BY <1>1, <1>2, <2>1 DEF Starts
      <4>2. ~ClosedBetween(Whole, s, a)
        BY <4>1 DEF LostInv, Aborts
      <4>3. \A c \in (s + 1)..(a - 1) : c \in DOMAIN journal
        BY <1>0, <1>1, <2>1
      <4> QED BY <1>1, <1>2, <4>2, <4>3 DEF ClosedBetween, Closes
    <3>5. journal[k].id \in AbortedIds(journal)
      BY <1>1, <2>1, <3>2, <3>3, <3>4 DEF AbortedIds
    <3> QED BY <3>1, <3>5 DEF Accounted
  <2> QED BY <2>3, <2>4
<1> QED BY <1>4, <1>5 DEF StaleIntents

\* What CommitPending releases owes nothing, or the log has it.
LEMMA PendingAccounted ==
  ASSUME LostInv, NEW i \in wal, ~Stuck(i), ~Unprojected(i)
  PROVE  Accounted(i.ev)
<1>0. TypeOK /\ KindInv
  BY DEF LostInv, TracedInv, TypeInv
<1> SUFFICES ASSUME NEW m \in DOMAIN journal, journal[m].id = i.ev.id, journal[m].kind \in Owing
             PROVE  InLog(i.ev.id) \/ i.ev.id \in AbortedIds(journal)
  BY DEF Accounted
<1>1. Journaled(i) /\ Position(i) = m
  <2>1. m \in EventOf(journal, i.ev.id)
    BY DEF EventOf
  <2>2. \A k \in EventOf(journal, i.ev.id) : k = m
    BY UniqueLine DEF EventOf
  <2> QED BY <2>1, <2>2 DEF Journaled, Position
<1>2. CASE NothingToProject(i)
  BY <1>1, <1>2 DEF NothingToProject, Owing, RecordKinds
<1>3. CASE ~NothingToProject(i)
  <2>1. Projected(Owed(i), log)
    BY <1>3 DEF Unprojected
  <2>2. Owed(i).ev = i.ev.id /\ Owed(i).kind \in {"Message", "Reduction"}
    <3>1. CASE i.rec = NoRecord
      <4>1. \E range : Owed(i) = ProjectionOf(journal[m], range)
        BY <1>1, <3>1 DEF Owed, RecoveredRecord
      <4>2. PICK range : Owed(i) = ProjectionOf(journal[m], range)
        BY <4>1
      <4>3. /\ ProjectionOf(journal[m], range).ev = journal[m].id
            /\ ProjectionOf(journal[m], range).kind \in {"Message", "Reduction"}
        BY OwingProjection, Zenon
      <4> QED BY <4>2, <4>3
    <3>2. CASE i.rec # NoRecord
      <4>1. i.ev.kind = journal[m].kind
        <5>1. m \in DOMAIN Whole /\ Whole[m] = journal[m]
          BY <1>0 DEF Whole, TypeOK
        <5> QED BY <1>0, <5>1 DEF KindInv, IntentKinds
      <4>2. i.ev.kind \in RecordKinds
        BY <3>2 DEF LostInv, Attached
      <4>3. i.ev.kind = "ContextReduced"
        BY <4>1, <4>2 DEF Owing, MessageKinds, SaidKinds, RecordKinds
      <4> QED BY <3>2, <4>3 DEF LostInv, Attached, Owed
    <3> QED BY <3>1, <3>2
  <2>3. PICK x \in DOMAIN log : SameProjection(log[x], Owed(i))
    BY <2>1 DEF Projected
  <2>4. log[x].ev = i.ev.id /\ log[x].kind \in {"Message", "Reduction"}
    BY <2>2, <2>3 DEF SameProjection
  <2> QED BY <2>4 DEF InLog
<1> QED BY <1>2, <1>3

LEMMA BarrierAccounted ==
  ASSUME LostInv, NEW i \in PendingBarriers
  PROVE  Accounted(i.ev)
<1>1. Journaled(i) /\ journal[Position(i)].kind = "CheckpointCreated"
  BY DEF PendingBarriers
<1>2. Position(i) \in EventOf(journal, i.ev.id)
  BY <1>1 DEF Journaled, Position
<1>3. Position(i) \in DOMAIN journal /\ journal[Position(i)].id = i.ev.id
  BY <1>2 DEF EventOf
<1>4. \A m \in DOMAIN journal : journal[m].id = i.ev.id => m = Position(i)
  BY <1>3, UniqueLine
<1> QED BY <1>1, <1>4 DEF Accounted, Owing, MessageKinds, SaidKinds

LEMMA RecoveryLost ==
  ASSUME LostInv, TracedInv', TraceInv', Recovery
  PROVE  LostInv'
<1>0. /\ TypeOK /\ TypeInv /\ TypeInv' /\ nextId \in Nat /\ KindInv /\ TraceInv
      /\ script \in Scripts /\ log \in Seq(Record)
  BY DEF LostInv, KindInv, TracedInv, TypeInv, TypeOK
<1>1. CASE DeclareAborted
  <2>1. PICK s \in OpenStarts(journal) :
          AppendJournal([NewEvent("CompactionAborted", nextId, journal[s].turn)
                           EXCEPT !.parent = journal[s].id])
    BY <1>1 DEF DeclareAborted
  <2> DEFINE n == NewEvent("CompactionAborted", nextId, journal[s].turn)
             e == [n EXCEPT !.parent = journal[s].id]
  <2>2. s \in DOMAIN journal /\ journal[s] \in Event
    BY <1>0 DEF OpenStarts, Starts, TypeOK
  <2>3. journal[s].turn \in Nat /\ journal[s].id \in Nat
    BY <2>2 DEF Event
  <2>4. n \in Event
    BY <1>0, <2>3, NewEventTyped DEF EventKinds, PlainKinds
  <2>5. e \in Event
    BY <2>3, <2>4 DEF Event
  <2>6. e.id = nextId /\ e.kind = "CompactionAborted"
    BY DEF NewEvent
  <2>7. e.parent = journal[s].id
    BY <2>4 DEF Event
  <2>8. AppendJournal(e)
    BY <2>1
  <2> HIDE DEF e
  <2>9. /\ tx'.step \notin {"prepared", "logged"} /\ proc = "recovering" /\ nextId' = nextId + 1
        /\ UNCHANGED <<wal, log, proc, script>>
    BY <1>1 DEF DeclareAborted, Recovering, Idle
  <2>10. Writes(e)
    BY <2>6, <2>7, <2>8, <2>9 DEF Writes, Durable, PlainKinds
  <2>11. KindInv'
    BY <1>0, <2>5, <2>10, WritesKinds
  <2> QED BY <2>5, <2>10, <2>11, WritesLost
<1>2. CASE CloseCheckpoint
  <2>1. PICK k \in OpenCheckpoints(journal) :
          Request([NewEvent("CheckpointCompleted", nextId, journal[k].turn)
               EXCEPT !.parent = journal[k].id, !.epoch = journal[k].epoch,
                      !.removed = journal[k].removed,
                      !.retained = Len(BeforeBarrier(k).messages)
                                     - journal[k].removed + 1])
    BY <1>2 DEF CloseCheckpoint
  <2> DEFINE r == Len(BeforeBarrier(k).messages) - journal[k].removed + 1
             e == [NewEvent("CheckpointCompleted", nextId, journal[k].turn)
               EXCEPT !.parent = journal[k].id, !.epoch = journal[k].epoch,
                      !.removed = journal[k].removed, !.retained = r]
  <2>2. Request(e) /\ script' = script
    BY <1>2, <2>1 DEF CloseCheckpoint
  <2> HIDE DEF r
  <2>3. e.id = nextId
    BY DEF NewEvent
  <2> HIDE DEF e
  <2>4. Asks
    BY <2>2, <2>3 DEF Asks
  <2>5. KindInv'
    BY <1>0, <2>4, AsksKinds
  <2> QED BY <2>4, <2>5, AsksLost
<1>3. ASSUME NEW rec \in Record, RecoveryLog(rec), proc = "recovering", tx = Idle PROVE LostInv'
  <2>1. /\ UNCHANGED <<journal, buffer, nextId, proc, script, wal, tx>>
        /\ log' = Append(log, rec) /\ tx'.step \notin {"prepared", "logged"}
    BY <1>3 DEF RecoveryLog, Idle
  <2>2. Rests
    BY <1>0, <2>1, QuietRests
  <2>3. KindInv'
    BY <1>0, <2>2, RestsKinds
  <2>4. \A k \in DOMAIN log : k \in DOMAIN log' /\ log'[k] = log[k]
    BY <1>0, <2>1
  <2>5. Attached' /\ Logged'
    BY <2>1 DEF LostInv, Attached, Logged
  <2> QED BY <2>1, <2>2, <2>3, <2>4, <2>5, RestsLost
<1>4. ASSUME NEW i \in wal, RecoveryCommit(i), tx = Idle, Accounted(i.ev) PROVE LostInv'
  <2>1. /\ UNCHANGED <<journal, buffer, nextId, log, proc, script, tx>> /\ wal' = wal \ {i}
        /\ tx'.step \notin {"prepared", "logged"}
    BY <1>4 DEF RecoveryCommit, Idle
  <2> QED BY <1>0, <1>4, <2>1, QuietLost
<1>5. CASE AppendBarrier \/ MarkAborted \/ ProjectPending
  <2>1. PICK rec : RecoveryLog(rec)
    BY <1>5 DEF AppendBarrier, MarkAborted, ProjectPending
  <2>2. log' = Append(log, rec) /\ log' \in Seq(Record)
    BY <1>0, <2>1 DEF RecoveryLog, TypeInv, TypeOK
  <2>3. proc = "recovering" /\ tx = Idle
    BY <1>5 DEF AppendBarrier, MarkAborted, ProjectPending, Recovering
  <2>4. rec \in Record
    <3>1. Len(log) + 1 \in DOMAIN log' /\ log'[Len(log) + 1] = rec
      BY <1>0, <2>2
    <3> QED BY <2>2, <3>1
  <2> QED BY <1>3, <2>1, <2>3, <2>4
<1>6. CASE CommitBarrier
  <2>1. PICK i \in PendingBarriers : RecoveryCommit(i)
    BY <1>6 DEF CommitBarrier
  <2>2. i \in wal /\ tx = Idle
    BY <1>6 DEF PendingBarriers, CommitBarrier, Recovering
  <2> QED BY <1>4, <2>1, <2>2, BarrierAccounted
<1>7. CASE CommitAborted
  <2>0. PICK s \in Discarded : \E i \in StaleIntents(s) : RecoveryCommit(i)
    BY <1>7 DEF CommitAborted
  <2>1. PICK i \in StaleIntents(s) : RecoveryCommit(i)
    BY <2>0
  <2>2. OpenStarts(journal) = {} /\ i \in wal /\ tx = Idle
    BY <1>7 DEF CommitAborted, StaleIntents, Recovering
  <2> QED BY <1>4, <2>1, <2>2, StaleAccounted
<1>8. CASE CommitPending
  <2>1. PICK i \in NextPending : ~Stuck(i) /\ ~Unprojected(i) /\ RecoveryCommit(i)
    BY <1>8 DEF CommitPending
  <2>2. i \in wal /\ tx = Idle
    BY <1>8 DEF CommitPending, NextPending, Recovering
  <2> QED BY <1>4, <2>1, <2>2, PendingAccounted
<1>9. CASE \/ BarriersDone \/ CompactionsDone \/ CheckpointsDone \/ PendingDone
           \/ Resume \/ Refuse
  <2>1. /\ UNCHANGED <<journal, buffer, nextId, log, script, wal, tx>>
        /\ proc' = proc \/ proc' # "recovering" 
    BY <1>9 DEF BarriersDone, CompactionsDone, CheckpointsDone, PendingDone, Resume, Refuse,
       Advance
  <2> QED BY <1>0, <2>1, QuietLost
<1> QED BY <1>1, <1>2, <1>5, <1>6, <1>7, <1>8, <1>9 DEF Recovery

LEMMA RestartLost ==
  ASSUME LostInv, TracedInv', TraceInv', Crash \/ GiveUp \/ Open
  PROVE  LostInv'
<1>0. /\ journal \in Seq(Event) /\ buffer \in Seq(Event) /\ Whole \in Seq(Event)
      /\ nextId \in Nat /\ KindInv /\ TraceInv /\ TypeInv /\ TypeInv'
  BY ConcatProperties DEF LostInv, KindInv, TracedInv, TypeInv, TypeOK, Whole
<1>1. ASSUME Forget, proc' = "down", UNCHANGED <<nextId, log, wal>>,
             NEW n \in 0..Len(buffer), journal' = journal \o SubSeq(buffer, 1, n)
      PROVE  LostInv'
  <2> DEFINE p == SubSeq(buffer, 1, n)
  <2>1. p \in Seq(Event) /\ DOMAIN p = 1..n /\ \A k \in 1..n : k \in DOMAIN buffer /\ p[k] = buffer[k]
    BY <1>0
  <2>2. journal' = journal \o p
    BY <1>1
  <2> HIDE DEF p
  <2>3. \A k \in DOMAIN journal' :
          \/ k \in DOMAIN journal /\ journal'[k] = journal[k]
          \/ k - Len(journal) \in DOMAIN p /\ journal'[k] = p[k - Len(journal)]
    BY <1>0, <2>1, <2>2
  <2>4. Extends
    BY <1>0, <2>1, <2>2 DEF Extends
  <2>5. buffer' = <<>> /\ script'.start = 0 /\ tx'.step \notin {"prepared", "logged"}
    BY <1>1 DEF Forget, NoScript, Idle
  <2>6. Whole' = journal'
    BY <1>0, <2>1, <2>2, <2>5 DEF Whole
  <2>7. \A k \in DOMAIN Whole' : k \in DOMAIN Whole /\ Whole'[k] = Whole[k]
    <3> SUFFICES ASSUME NEW k \in DOMAIN journal'
                 PROVE  k \in DOMAIN Whole /\ journal'[k] = Whole[k]
      BY <2>6
    <3>1. CASE k \in DOMAIN journal
      BY <1>0, <2>4, <3>1 DEF Whole, Extends
    <3>2. CASE k \notin DOMAIN journal
      <4>1. k - Len(journal) \in 1..n /\ journal'[k] = p[k - Len(journal)]
        BY <2>1, <2>3, <3>2
      <4>2. k - Len(journal) \in DOMAIN buffer /\ journal'[k] = buffer[k - Len(journal)]
        BY <2>1, <4>1
      <4>3. k \in Nat
        BY <1>0, <2>1, <2>2
      <4> QED BY <1>0, <3>2, <4>2, <4>3 DEF Whole
    <3> QED BY <3>1, <3>2
  <2>8. \A k \in DOMAIN journal' :
          (k \in DOMAIN journal /\ journal'[k] = journal[k]) \/ journal'[k].kind = "AssistantDelta"
    BY <1>0, <2>1, <2>3 DEF KindInv, Deltas
  <2>9. Deltas'
    BY <2>5 DEF Deltas
  <2>10. Rests
    BY <1>1, <2>4, <2>5, <2>7, <2>8, <2>9 DEF Rests
  <2>11. KindInv'
    BY <1>0, <2>10, RestsKinds
  <2>12. Attached' /\ Logged'
    BY <1>1, <2>5 DEF LostInv, Attached, Logged
  <2> QED BY <1>1, <2>10, <2>11, <2>12, RestsLost
<1>2. CASE Crash
  BY <1>1, <1>2 DEF Crash
<1>3. CASE GiveUp
  <2>1. 0 \in 0..Len(buffer) /\ journal = journal \o SubSeq(buffer, 1, 0)
    BY <1>0
  <2> QED BY <1>1, <1>3, <2>1 DEF GiveUp
<1>4. CASE Open
  <2>1. /\ UNCHANGED <<journal, buffer, nextId, log, wal, script, tx>> /\ buffer = <<>>
    BY <1>0, <1>4 DEF Open, TraceInv
  <2>2. Whole' = Whole /\ Extends
    BY <2>1 DEF Whole, Extends
  <2>3. Deltas'
    BY <2>1 DEF Deltas
  <2>4. Rests
    BY <2>1, <2>2, <2>3 DEF Rests
  <2>5. KindInv'
    BY <1>0, <2>4, RestsKinds
  <2>6. Attached' /\ Logged'
    BY <2>1 DEF LostInv, Attached, Logged, InLog
  <2> QED BY <2>1, <2>4, <2>5, <2>6, RestsLost
<1> QED BY <1>2, <1>3, <1>4

LEMMA LostInit == Init => LostInv
<1> SUFFICES ASSUME Init PROVE LostInv
  OBVIOUS
<1>1. Whole = <<>> /\ DOMAIN Whole = {}
  BY DEF Init, Whole
<1>2. TracedInv /\ TraceInv
  BY TracedInit, TraceInit
<1>3. Deltas /\ IntentKinds /\ TxIntent /\ nextId \in Nat
  BY <1>2 DEF Init, Deltas, IntentKinds, TxIntent, Idle, TraceInv, TypeInv, TypeOK
<1>4. StartLine
  BY <1>1, <1>2, <1>3 DEF Init, StartLine, NoScript, Idle, TraceInv
<1>5. Aborts
  BY <1>1 DEF Aborts
<1>6. Attached /\ Logged /\ NothingLost
  BY DEF Init, Attached, Logged, NothingLost, Idle
<1> QED BY <1>2, <1>3, <1>4, <1>5, <1>6 DEF LostInv, KindInv

LEMMA LostStep == LostInv /\ [Next]_vars => LostInv'
<1> SUFFICES ASSUME LostInv, [Next]_vars PROVE LostInv'
  OBVIOUS
<1>1. TracedInv' /\ TraceInv'
  BY TracedStep, TraceStep DEF LostInv, KindInv
<1>2. CASE UNCHANGED vars
  <2>1. /\ UNCHANGED <<journal, buffer, nextId, log, proc, script, wal, tx>> /\ TypeInv'
    BY <1>1, <1>2 DEF vars, TracedInv
  <2> QED BY <1>1, <2>1, QuietLost
<1> QED BY <1>1, <1>2, RuntimeLost, TransactionLost, RecoveryLost, RestartLost DEF Next

(* Whatever write a crash or an error falls between, a message or reduction  *)
(* that the trace announces is in the log, still has the intent recovery     *)
(* needs, or belongs to an attempt the trace itself discards                 *)
(* (emit_transaction, recover_projection).                                   *)
THEOREM NothingLostHolds == Spec => []NothingLost
<1>1. LostInv => NothingLost
  BY DEF LostInv
<1> QED BY <1>1, LostInit, LostStep, PTL DEF Spec
=============================================================================
