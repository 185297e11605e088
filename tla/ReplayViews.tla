---------------------------- MODULE ReplayViews ----------------------------
(***************************************************************************)
(* rupi replay: what it shows of a recorded session (rupi-replay and the   *)
(* command, replay.rs).  A session is two files, the trace and the session *)
(* log, each the other's sibling; the command reads the file it is given   *)
(* and then the sibling, while a live session may write to both.  What it  *)
(* shows is a slice of the trace up to a target, the messages and the      *)
(* reasoning of that slice, and the first place where two continuations of *)
(* one event differ.                                                       *)
(***************************************************************************)
EXTENDS Naturals, FiniteSets, Sequences, SequencesExt

CONSTANTS
  Kinds,      \* the kinds of event: "message" and others
  MaxTrace,   \* bound on the events of the session
  MaxBranch   \* bound on the events of the other trace after the base

VARIABLES
  trace,    \* the trace file: [id, seq, kind]
  log,      \* the messages of the session log: [id, seq] of the introducing event
  owed,     \* the event whose message the session has still to write, or 0
  named,    \* the file the command was given: "trace", "session" or "none" yet
  readings, \* what it read: [trace, log], each a sequence or Unread
  branch    \* the other trace: [base, entries], base the event it goes on from

viewVars == <<trace, log, owed, named, readings, branch>>

Unread == << [id |-> 0, seq |-> 0, kind |-> "unread"] >>
NoBranch == [entries |-> <<>>, base |-> 0]

-----------------------------------------------------------------------------
(* The slice.                                                              *)

Ordered(entries) == SortSeq(entries, LAMBDA a, b : a.seq < b.seq)

\* Up to and with the target; <<>> when the target is not there.
Until(entries, target) ==
  LET ordered == Ordered(entries)
      hits == {k \in DOMAIN ordered : ordered[k].id = target}
  IN IF hits = {} THEN <<>> ELSE SubSeq(ordered, 1, CHOOSE k \in hits : TRUE)

\* The messages of the slice: by the event that introduced them, or by its number.
MessagesUntil(messages, entries, target, bySeq) ==
  LET slice == Until(entries, target)
      ids == {slice[k].id : k \in DOMAIN slice}
      limit == slice[Len(slice)].seq
  IN SelectSeq(messages, LAMBDA m : m.id \in ids \/ (bySeq /\ m.seq <= limit))

-----------------------------------------------------------------------------
(* The comparison.                                                         *)

ContinuationAfter(base, entries) ==
  LET ordered == Ordered(entries)
      hits == {k \in DOMAIN ordered : ordered[k].id = base}
  IN IF hits = {} THEN ordered
     ELSE SubSeq(ordered, (CHOOSE k \in hits : TRUE) + 1, Len(ordered))

Signature(entries) == [k \in DOMAIN entries |-> Ordered(entries)[k].kind]

ShapeAt(signature, k) == IF k \in DOMAIN signature THEN signature[k] ELSE "nothing"
DivergedAt(left, right) ==
  LET longest == IF Len(left) > Len(right) THEN Len(left) ELSE Len(right)
      apart == {k \in 1..longest : ShapeAt(left, k) # ShapeAt(right, k)}
  IN IF apart = {} THEN 0 ELSE CHOOSE k \in apart : \A l \in apart : k <= l

Comparison(base, left, right) ==
  DivergedAt(Signature(ContinuationAfter(base, left)), Signature(ContinuationAfter(base, right)))

-----------------------------------------------------------------------------
(* A session that is written while it is read, and a branch of it.         *)

Init ==
  /\ trace = <<>> /\ log = <<>> /\ owed = 0 /\ named = "none"
  /\ readings = [trace |-> Unread, log |-> Unread] /\ branch = NoBranch

Emit(kind) ==
  LET at == Len(trace) + 1
  IN /\ owed = 0 /\ Len(trace) < MaxTrace
     /\ trace' = Append(trace, [id |-> at, seq |-> at, kind |-> kind])
     /\ owed' = IF kind = "message" THEN at ELSE 0
     /\ UNCHANGED <<log, named, readings, branch>>

Project ==
  /\ owed # 0 /\ log' = Append(log, [id |-> owed, seq |-> owed]) /\ owed' = 0
  /\ UNCHANGED <<trace, named, readings, branch>>

Both == readings.trace # Unread /\ readings.log # Unread

\* The file that was named is read first, the sibling after it.
ReadNamed(file) ==
  /\ named = "none" /\ trace # <<>> /\ named' = file
  /\ readings' = IF file = "trace" THEN [readings EXCEPT !.trace = trace]
                 ELSE [readings EXCEPT !.log = log]
  /\ UNCHANGED <<trace, log, owed, branch>>

ReadSibling ==
  /\ named # "none" /\ ~Both
  /\ readings' = IF readings.trace = Unread THEN [readings EXCEPT !.trace = trace]
                 ELSE [readings EXCEPT !.log = log]
  /\ UNCHANGED <<trace, log, owed, named, branch>>

\* Another trace that goes on from an event of this one: the whole history, with
\* numbers that go on, or the continuation alone, with numbers of its own.
Branch(base, whole) ==
  /\ Both /\ branch = NoBranch /\ base \in DOMAIN readings.trace
  /\ branch' = [base |-> base,
                entries |-> IF whole THEN SubSeq(readings.trace, 1, base) ELSE <<>>]
  /\ UNCHANGED <<trace, log, owed, named, readings>>

Own(entry) == entry.id > MaxTrace
OwnEntries == SelectSeq(branch.entries, Own)

BranchEmits(kind) ==
  /\ branch # NoBranch /\ Len(OwnEntries) < MaxBranch
  /\ branch' = [branch EXCEPT !.entries =
                  Append(@, [id |-> MaxTrace + Len(OwnEntries) + 1, seq |-> Len(@) + 1,
                             kind |-> kind])]
  /\ UNCHANGED <<trace, log, owed, named, readings>>

Next ==
  \/ \E kind \in Kinds : Emit(kind) \/ BranchEmits(kind)
  \/ Project \/ ReadSibling
  \/ \E file \in {"trace", "session"} : ReadNamed(file)
  \/ \E base \in 1..MaxTrace, whole \in BOOLEAN : Branch(base, whole)

Spec == Init /\ [][Next]_viewVars

-----------------------------------------------------------------------------
\* What was read was once in the files.
TypeOK ==
  /\ named \in {"none", "trace", "session"}
  /\ readings.trace = Unread \/ IsPrefix(readings.trace, trace)
  /\ readings.log = Unread \/ IsPrefix(readings.log, log)

\* A view up to an event shows no message and no reasoning from after it, and no
\* message whose event it does not show, whichever of the two files was named and
\* whatever the session wrote between the two readings (session_records_until,
\* replay_trace_with_session).
NothingFromLater ==
  Both =>
    \A target \in {readings.trace[k].id : k \in DOMAIN readings.trace}, bySeq \in BOOLEAN :
      LET shown == MessagesUntil(readings.log, readings.trace, target, bySeq)
          slice == Until(readings.trace, target)
      IN \A m \in DOMAIN shown :
           shown[m].seq <= target /\ \E k \in DOMAIN slice : slice[k].id = shown[m].id

\* A view of a session named by its session log never lacks the event of a
\* message, also without a target: the log is read first and written last.
MessagesHaveEvents ==
  Both /\ named = "session" =>
    \A m \in DOMAIN readings.log :
      \E k \in DOMAIN readings.trace : readings.trace[k].id = readings.log[m].id

\* Two continuations of an event are called equal when, and only when, the same
\* kinds of event follow it, and otherwise the first difference is where they
\* part: whether the other trace is whole or only the continuation
\* (compare_continuations).
After(base) == SelectSeq(readings.trace, LAMBDA entry : entry.id > base)
ComparisonIsExact ==
  branch # NoBranch =>
    LET mine == After(branch.base)
        theirs == OwnEntries
        at == Comparison(branch.base, readings.trace, branch.entries)
        same(n) == \A k \in 1..n : k \in DOMAIN mine /\ k \in DOMAIN theirs
                                     /\ mine[k].kind = theirs[k].kind
    IN IF at = 0 THEN Len(mine) = Len(theirs) /\ same(Len(mine))
       ELSE /\ same(at - 1)
            /\ at \notin DOMAIN mine \/ at \notin DOMAIN theirs
                 \/ mine[at].kind # theirs[at].kind
            /\ at \in DOMAIN mine \/ at \in DOMAIN theirs
=============================================================================
