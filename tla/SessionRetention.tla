-------------------------- MODULE SessionRetention --------------------------
(***************************************************************************)
(* The sessions of one state directory and the rupi processes that share   *)
(* it: each starts a new session, after a retention pass, or resumes one.  *)
(* They meet in the files of a session and in its lease, a kernel lock     *)
(* that is only ever tried and that a dying process loses.                 *)
(*                                                                         *)
(* Sessions are numbered in the order of their ids. How far a pass goes is *)
(* up to the age and size bounds, which differ between processes: they cut *)
(* the list of candidates, oldest first, at any point. Leases of the       *)
(* pre-lock format are left out. What a process writes into the files of   *)
(* an open session is the subject of SessionStore.                         *)
(***************************************************************************)
EXTENDS Integers, FiniteSets

CONSTANTS
  Procs,        \* rupi processes, each running one command after another
  NoProc,       \* nobody
  Existing,     \* bound: sessions there are at first
  MaxSessions,  \* bound: sessions there ever are
  KeepNewest,   \* sessions a pass never looks at
  Undated       \* imported sessions, whose id tells no age

ASSUME BoundsAreSane ==
  /\ NoProc \notin Procs
  /\ Existing \in Nat /\ MaxSessions \in Nat /\ Existing <= MaxSessions
  /\ KeepNewest \in Nat

Sessions == 1..MaxSessions
Parts == {"log", "trace", "wal", "dir"}

VARIABLES
  files,     \* the parts of each session on disk
  lease,     \* per session: the process whose kernel lock it is
  pass,      \* the same for .retention.lease
  nextId,    \* the session id that is minted next
  proc       \* what each process is doing

vars == <<files, lease, pass, nextId, proc>>

Steps == {"idle", "listing", "planning", "probing", "applying", "removing",
          "making", "acquiring", "checking", "creating", "open"}

Idle == [step |-> "idle", fresh |-> FALSE, session |-> 0, todo |-> {},
         ids |-> {}, found |-> {}, busy |-> 0]

Init ==
  /\ files = [s \in Sessions |-> IF s <= Existing THEN Parts ELSE {}]
  /\ lease = [s \in Sessions |-> NoProc] /\ pass = NoProc
  /\ nextId = Existing + 1
  /\ proc = [p \in Procs |-> Idle]

At(p, step) == proc[p].step = step
Set(p, record) == proc' = [proc EXCEPT ![p] = record]
Free(s) == lease[s] = NoProc
Take(p, s) == lease' = [lease EXCEPT ![s] = p]
Release(s) == lease' = [lease EXCEPT ![s] = NoProc]

(* ------------------------- a new session: the pass ----------------------- *)

\* A command that starts a session starts with a pass, or fails with it.
StartNew(p) ==
  /\ At(p, "idle") /\ pass = NoProc
  /\ pass' = p /\ Set(p, [Idle EXCEPT !.step = "listing", !.fresh = TRUE])
  /\ UNCHANGED <<files, lease, nextId>>

Listed == {s \in Sessions : "log" \in files[s]}
Newer(s) == {t \in Listed : t > s}

\* The sessions a pass may remove.
BeyondNewest == {s \in Listed : Cardinality(Newer(s)) >= KeepNewest}

List(p) ==
  /\ At(p, "listing")
  /\ Set(p, [proc[p] EXCEPT !.step = "planning", !.ids = BeyondNewest])
  /\ UNCHANGED <<files, lease, pass, nextId>>

Newest(s, S) == s \in S /\ \A t \in S : s >= t
Oldest(s, S) == s \in S /\ \A t \in S : s <= t

\* is_active tries the lock: contended means that the session is left alone,
SkipLeased(p) ==
  /\ At(p, "planning")
  /\ \E s \in Sessions : /\ Newest(s, proc[p].ids) /\ ~Free(s)
                         /\ Set(p, [proc[p] EXCEPT !.ids = @ \ {s}])
  /\ UNCHANGED <<files, lease, pass, nextId>>

\* and success holds it until the unlock.
Probe(p) ==
  /\ At(p, "planning")
  /\ \E s \in Sessions :
       /\ Newest(s, proc[p].ids) /\ Free(s) /\ Take(p, s)
       /\ Set(p, [proc[p] EXCEPT !.step = "probing", !.session = s, !.ids = @ \ {s}])
  /\ UNCHANGED <<files, pass, nextId>>

\* A session of unknown age is never removed.
Candidate(s) == {s} \ Undated

\* (mutant) a session whose age cannot be read is asked for again
UnprobeAgain(p) ==
  /\ At(p, "probing") /\ Release(proc[p].session)
  /\ Set(p, [proc[p] EXCEPT !.step = "planning", !.session = 0,
                            !.found = @ \cup Candidate(proc[p].session),
                            !.ids = @ \cup ({proc[p].session} \cap Undated)])
  /\ UNCHANGED <<files, pass, nextId>>

Unprobe(p) ==
  /\ At(p, "probing") /\ Release(proc[p].session)
  /\ Set(p, [proc[p] EXCEPT !.step = "planning", !.session = 0,
                            !.found = @ \cup Candidate(proc[p].session)])
  /\ UNCHANGED <<files, pass, nextId>>

\* The bounds decide how many of the oldest candidates go.
Plan(p) ==
  /\ At(p, "planning") /\ proc[p].ids = {}
  /\ \E victims \in SUBSET proc[p].found :
       /\ \A s \in victims, t \in proc[p].found \ victims : s < t
       /\ Set(p, [proc[p] EXCEPT !.step = "applying", !.ids = victims, !.found = {}])
  /\ UNCHANGED <<files, lease, pass, nextId>>

\* Another process took the session since the plan was made.
SkipVictim(p) ==
  /\ At(p, "applying")
  /\ \E s \in Sessions : /\ Oldest(s, proc[p].ids) /\ ~Free(s)
                         /\ Set(p, [proc[p] EXCEPT !.ids = @ \ {s}])
  /\ UNCHANGED <<files, lease, pass, nextId>>

ClaimVictim(p) ==
  /\ At(p, "applying")
  /\ \E s \in Sessions :
       /\ Oldest(s, proc[p].ids) /\ Free(s) /\ Take(p, s)
       /\ Set(p, [proc[p] EXCEPT !.step = "removing", !.session = s,
                                 !.ids = @ \ {s}, !.todo = Parts])
  /\ UNCHANGED <<files, pass, nextId>>

\* remove_session: the log, the trace, the write-ahead log, the directory.
RemovePart(p) ==
  /\ At(p, "removing")
  /\ \E part \in proc[p].todo :
       /\ "log" \in proc[p].todo => part = "log"
       /\ part = "wal" => "trace" \notin proc[p].todo
       /\ part = "dir" => proc[p].todo = {"dir"}
       /\ files' = [files EXCEPT ![proc[p].session] = @ \ {part}]
       /\ Set(p, [proc[p] EXCEPT !.todo = @ \ {part}])
  /\ UNCHANGED <<lease, pass, nextId>>

ReleaseVictim(p) ==
  /\ At(p, "removing") /\ proc[p].todo = {} /\ Release(proc[p].session)
  /\ Set(p, [proc[p] EXCEPT !.step = "applying", !.session = 0])
  /\ UNCHANGED <<files, pass, nextId>>

\* The pass is over and the new session gets its id.
Mint(p) ==
  /\ At(p, "applying") /\ proc[p].ids = {} /\ nextId \in Sessions
  /\ nextId' = nextId + 1 /\ pass' = NoProc
  /\ Set(p, [proc[p] EXCEPT !.step = "making", !.session = nextId])
  /\ UNCHANGED <<files, lease>>

(* --------------------------- begin and resume ---------------------------- *)

\* resume finds the session by its log, before it has the lease.
ReadHeader(p) ==
  /\ At(p, "idle")
  /\ \E s \in Listed : Set(p, [Idle EXCEPT !.step = "making", !.session = s])
  /\ UNCHANGED <<files, lease, pass, nextId>>

EnsureDirs(p) ==
  /\ At(p, "making")
  /\ files' = [files EXCEPT ![proc[p].session] = @ \cup {"dir"}]
  /\ Set(p, [proc[p] EXCEPT !.step = "acquiring"])
  /\ UNCHANGED <<lease, pass, nextId>>

Acquire(p) ==
  /\ At(p, "acquiring") /\ Free(proc[p].session)
  /\ Take(p, proc[p].session) /\ Set(p, [proc[p] EXCEPT !.step = "checking"])
  /\ UNCHANGED <<files, pass, nextId>>

\* "session is active elsewhere"
Busy(p) ==
  /\ At(p, "acquiring") /\ ~Free(proc[p].session)
  /\ Set(p, [Idle EXCEPT !.busy = proc[p].session])
  /\ UNCHANGED <<files, lease, pass, nextId>>

\* (mutant) resume trusts the header it read before it had the lease
HeaderWasThere(p) == TRUE

\* Under the lease, begin must not find a log and resume must.
LogAsExpected(p) == ("log" \in files[proc[p].session]) <=> ~proc[p].fresh

Check(p) ==
  /\ At(p, "checking")
  /\ IF LogAsExpected(p)
       THEN /\ Set(p, [proc[p] EXCEPT !.step = "creating",
                         !.todo = IF proc[p].fresh THEN {"trace", "log", "wal"}
                                                   ELSE {"trace", "wal"}])
            /\ lease' = lease
       ELSE Set(p, Idle) /\ Release(proc[p].session)
  /\ UNCHANGED <<files, pass, nextId>>

\* The files are opened for appending, and created when they are not there.
Create(p) ==
  /\ At(p, "creating")
  /\ \E part \in proc[p].todo :
       /\ "trace" \in proc[p].todo => part = "trace"
       /\ part = "wal" => proc[p].todo = {"wal"}
       /\ files' = [files EXCEPT ![proc[p].session] = @ \cup {part}]
       /\ Set(p, [proc[p] EXCEPT !.todo = @ \ {part}])
  /\ UNCHANGED <<lease, pass, nextId>>

Opened(p) ==
  /\ At(p, "creating") /\ proc[p].todo = {}
  /\ Set(p, [proc[p] EXCEPT !.step = "open"])
  /\ UNCHANGED <<files, lease, pass, nextId>>

Close(p) ==
  /\ At(p, "open")
  /\ Release(proc[p].session) /\ Set(p, Idle)
  /\ UNCHANGED <<files, pass, nextId>>

\* A process dies, or an I/O error ends its command: the kernel locks go.
Crash(p) ==
  /\ ~At(p, "idle")
  /\ lease' = [s \in Sessions |-> IF lease[s] = p THEN NoProc ELSE lease[s]]
  /\ pass' = IF pass = p THEN NoProc ELSE pass
  /\ Set(p, Idle)
  /\ UNCHANGED <<files, nextId>>

(* ------------------------------------------------------------------------ *)

Work(p) == \/ List(p) \/ SkipLeased(p) \/ Probe(p) \/ Unprobe(p) \/ Plan(p)
           \/ SkipVictim(p) \/ ClaimVictim(p) \/ RemovePart(p)
           \/ ReleaseVictim(p)
           \/ Mint(p) \/ EnsureDirs(p) \/ Acquire(p) \/ Busy(p) \/ Check(p)
           \/ Create(p) \/ Opened(p)

Next == \E p \in Procs : \/ StartNew(p) \/ ReadHeader(p) \/ Work(p)
                         \/ Close(p) \/ Crash(p)

\* A process that runs a command goes on with it; an open session may stay so.
Fairness == \A p \in Procs : WF_vars(Work(p))

Spec == Init /\ [][Next]_vars /\ Fairness

(* ------------------------------ properties ------------------------------- *)

\* Every process works on sessions there are, with files there are.
TypeOK ==
  /\ files \in [Sessions -> SUBSET Parts]
  /\ lease \in [Sessions -> Procs \cup {NoProc}] /\ pass \in Procs \cup {NoProc}
  /\ nextId \in 1..(MaxSessions + 1)
  /\ proc \in [Procs -> [step : Steps, fresh : BOOLEAN, session : 0..MaxSessions,
                         todo : SUBSET Parts, ids : SUBSET Sessions,
                         found : SUBSET Sessions, busy : 0..MaxSessions]]

\* Between a successful acquire and the unlock.
Holds(p) == proc[p].step \in {"probing", "removing", "checking", "creating", "open"}

\* A session is worked on by the one process that has its lease, and a lease
\* by a process that works on its session (begin, resume, plan and apply).
LeaseMatchesWork ==
  \A p \in Procs, s \in Sessions : lease[s] = p <=> Holds(p) /\ proc[p].session = s

\* No pass takes a file from under an open session, however its plan, the
\* lease and the header that resume read before it raced.
OpenSessionIntact ==
  \A p \in Procs : At(p, "open") => files[proc[p].session] = Parts

\* Of every step: a pass removes a session only while KeepNewest newer ones are there, also
\* when processes mint ids in one order and create the sessions in another.
NewestKept ==
  \A s \in Sessions :
    ("log" \in files[s] /\ "log" \notin files'[s]) =>
      Cardinality(Newer(s)) >= KeepNewest

\* Nobody waits: a command ends or opens its session, whatever other processes
\* hold, as long as there are ids.
CommandsEnd ==
  \A p \in Procs : ~At(p, "idle") ~> (At(p, "idle") \/ At(p, "open") \/ nextId > MaxSessions)
=============================================================================
