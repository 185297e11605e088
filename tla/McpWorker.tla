----------------------------- MODULE McpWorker -----------------------------
(***************************************************************************)
(* The MCP worker control plane, rupi_mcp::worker::WorkerService.          *)
(*                                                                         *)
(* The service is cloneable: any number of clients may call it at once.    *)
(* All state is behind one mutex, but no call keeps it from its first read *)
(* to its last write, so a step below is one critical section.  Every run  *)
(* has a thread of its own, which calls the engine without the lock.       *)
(*                                                                         *)
(* A message list is abstracted to the set of runs whose exchange it still *)
(* carries, verbatim or in a summary; a trace to the runs it lists, with 0 *)
(* for what a compaction has added.  Of what a call returns only that it   *)
(* discloses a session is kept; a call that is refused changes nothing.    *)
(***************************************************************************)
EXTENDS Integers, Sequences, FiniteSets

CONSTANTS
  Clients,       \* threads that call the service; serve_stdio is one
  MaxRuns,       \* bound: runs begun
  MaxSessions,   \* bound: sessions started or branched
  MaxEpochs      \* bound: compactions of one session

ASSUME WorkerBounds == MaxRuns \in Nat /\ MaxSessions \in Nat /\ MaxEpochs \in Nat

Runs == 1..MaxRuns
Terminal == {"completed", "cancelled", "failed"}
Busy == {"running", "cancelling"}
WorkerStatus == {"idle"} \cup Busy \cup Terminal

VARIABLES
  sessions,   \* the map behind the mutex, in creation order
  jobs,       \* run threads: [run, session, prior, stage, result, cancelled]
  tokens,     \* runs whose WorkerCancelToken is set
  calls,      \* each client's call in flight
  nextRun,    \* uuidv7 of the next run
  known       \* sessions whose id an answer has disclosed

vars == <<sessions, jobs, tokens, calls, nextRun, known>>

WorkerSession ==
  [status : WorkerStatus, run : 0..MaxRuns, messages : SUBSET Runs,
   trace : Seq(0..MaxRuns), epoch : Nat, parent : Nat, from : Nat]

NewSession == [status |-> "idle", run |-> 0, messages |-> {}, trace |-> <<>>,
               epoch |-> 0, parent |-> 0, from |-> 0]

\* step: where the call is; seen: its copy of the session.
NoCall == [step |-> "returned", session |-> 0, seen |-> NewSession]

Init ==
  /\ sessions = <<>> /\ jobs = {} /\ tokens = {} /\ nextRun = 1 /\ known = {}
  /\ calls = [c \in Clients |-> NoCall]

Room == Len(sessions) < MaxSessions

(* ------------------------------- calls ---------------------------------- *)

At(c, step) == calls[c].step = step
Free(c) == At(c, "returned")

Become(c, call) == calls' = [calls EXCEPT ![c] = call]
Move(c, step) == Become(c, [calls[c] EXCEPT !.step = step])

Call(step, s) == [NoCall EXCEPT !.step = step, !.session = s]

\* The call returns an error whose state_may_have_changed is false.
Fail(c) == Become(c, NoCall)

\* WorkerService::start: the new session first, the run in a later section.
StartSession(c) ==
  /\ Free(c) /\ Room /\ nextRun \in Runs
  /\ sessions' = Append(sessions, NewSession)
  /\ Become(c, Call("begin", Len(sessions) + 1))
  /\ UNCHANGED <<jobs, tokens, nextRun, known>>

Continue(c) ==
  /\ Free(c) /\ nextRun \in Runs
  /\ \E s \in known : Become(c, Call("begin", s))
  /\ UNCHANGED <<sessions, jobs, tokens, nextRun, known>>

\* (mutant) a session whose run is being cancelled takes the next one
OccupiedByRunning(s) == sessions[s].status = "running"

Occupied(s) == sessions[s].status \in Busy

Claimed(s) ==
  [sessions EXCEPT ![s] = [@ EXCEPT !.status = "running", !.run = nextRun]]

\* begin_run: claim the session, snapshot its messages, spawn the thread.
BeginRun(c) ==
  LET s == calls[c].session IN
  /\ At(c, "begin") /\ nextRun \in Runs
  /\ IF Occupied(s)
       THEN Fail(c) /\ UNCHANGED <<sessions, jobs, nextRun>>
       ELSE /\ sessions' = Claimed(s)
            /\ jobs' = jobs \cup
                 {[run |-> nextRun, session |-> s, stage |-> "engine",
                   prior |-> sessions[s].messages, result |-> "ok",
                   cancelled |-> FALSE]}
            /\ nextRun' = nextRun + 1
            /\ Move(c, "handle")
  /\ UNCHANGED <<tokens, known>>

\* handle_for and wait_handle: the handle is returned at once, when a poll finds
\* a terminal status, or at the deadline of wait_ms, which may be any time.
Observe(c) ==
  /\ At(c, "handle")
  /\ known' = known \cup {calls[c].session}
  /\ Become(c, NoCall)
  /\ UNCHANGED <<sessions, jobs, tokens, nextRun>>

\* cancel: without a run id, or with that of the active run.  Any other, and a
\* session without a run, is refused or is terminal already.
Cancel(c) ==
  /\ Free(c)
  /\ \E s \in known :
       /\ sessions[s].run # 0
       /\ sessions' = [sessions EXCEPT ![s] = [@ EXCEPT !.status = "cancelling"]]
       /\ tokens' = tokens \cup {sessions[s].run}
  /\ UNCHANGED <<jobs, calls, nextRun, known>>

(* branch: copy the source, insert the copy, then begin its first run.       *)

ReadSource(c) ==
  /\ Free(c) /\ Room
  /\ \E s \in known :
       ~Occupied(s) /\ Become(c, [Call("insert", s) EXCEPT !.seen = sessions[s]])
  /\ UNCHANGED <<sessions, jobs, tokens, nextRun, known>>

\* (mutant) the branch point is read off the source as it is by now
BranchOfLatest(s, seen) == [seen EXCEPT !.status = "idle", !.run = 0, !.parent = s,
                                        !.from = Len(sessions[s].trace)]

\* The branch of source s from the copy seen.
BranchOf(s, seen) == [seen EXCEPT !.status = "idle", !.run = 0, !.parent = s,
                                  !.from = Len(seen.trace)]

\* With a prompt the run begins next; without one the handle is returned; an
\* empty prompt is only found invalid now.
InsertBranch(c) ==
  LET made == Len(sessions) + 1 IN
  /\ At(c, "insert") /\ Room
  /\ sessions' = Append(sessions, BranchOf(calls[c].session, calls[c].seen))
  /\ \/ nextRun \in Runs /\ Become(c, Call("begin", made))
     \/ Become(c, Call("handle", made))
     \/ Fail(c)
  /\ UNCHANGED <<jobs, tokens, nextRun, known>>

(* compact: read the session, run the engine, apply what it returned.        *)

ReadForCompact(c) ==
  /\ Free(c)
  /\ \E s \in known :
       /\ sessions[s].epoch < MaxEpochs /\ ~Occupied(s)
       /\ Become(c, [Call("engine", s) EXCEPT !.seen = sessions[s]])
  /\ UNCHANGED <<sessions, jobs, tokens, nextRun, known>>

NextEpoch(c) == sessions[calls[c].session].epoch + 1

\* apply_execution of what the engine returned: a summary that leaves messages and
\* trace alone, or the messages it was given, condensed, with a line for the trace.
\* The session is not checked again before.
ApplyCompaction(c) ==
  LET s == calls[c].session
      session == sessions[s] IN
  /\ At(c, "engine") /\ session.epoch < MaxEpochs
  /\ \E compacted \in {[messages |-> session.messages, lines |-> <<>>],
                       [messages |-> calls[c].seen.messages, lines |-> <<0>>]} :
       sessions' = [sessions EXCEPT ![s] =
         [session EXCEPT !.messages = compacted.messages,
                         !.trace = session.trace \o compacted.lines,
                         !.epoch = NextEpoch(c),
                         !.status = IF session.status = "idle" THEN "completed"
                                                               ELSE session.status]]
  /\ Become(c, NoCall)
  /\ UNCHANGED <<jobs, tokens, nextRun, known>>

CompactionFailed(c) ==
  /\ At(c, "engine")
  /\ Fail(c)
  /\ UNCHANGED <<sessions, jobs, tokens, nextRun, known>>

(* -------------------------------- runs ---------------------------------- *)

\* The engine returned, and the thread read the token: both before finish_run
\* takes the lock.  An execution without messages and trace is "empty".
EngineReturns(j) ==
  /\ j.stage = "engine"
  /\ \E result \in {"ok", "error", "empty"} :
       jobs' = (jobs \ {j}) \cup
                 {[j EXCEPT !.stage = "finish", !.result = result,
                            !.cancelled = j.run \in tokens]}
  /\ UNCHANGED <<sessions, tokens, calls, nextRun, known>>

EndStatus(j) == CASE j.cancelled -> "cancelled"
                  [] j.result = "error" -> "failed"
                  [] OTHER -> "completed"

\* apply_execution: a non-empty execution replaces the messages and extends
\* the trace.
Apply(session, j) ==
  IF j.result = "ok"
    THEN [session EXCEPT !.messages = j.prior \cup {j.run},
                         !.trace = Append(session.trace, j.run)]
    ELSE session

\* (mutant) a cancelled run leaves the session to its cancel
FinishedUnlessCancelled(session, j) ==
  IF j.cancelled THEN Apply(session, j)
                 ELSE [Apply(session, j) EXCEPT !.status = EndStatus(j), !.run = 0]

Finished(session, j) ==
  [Apply(session, j) EXCEPT !.status = EndStatus(j), !.run = 0]

FinishRun(j) ==
  /\ j.stage = "finish"
  /\ jobs' = jobs \ {j} /\ tokens' = tokens \ {j.run}
  /\ sessions' = IF sessions[j.session].run = j.run
                   THEN [sessions EXCEPT ![j.session] = Finished(@, j)] ELSE sessions
  /\ UNCHANGED <<calls, nextRun, known>>

(* ------------------------------------------------------------------------ *)

Serve(c) == \/ BeginRun(c) \/ Observe(c) \/ InsertBranch(c)
            \/ ApplyCompaction(c) \/ CompactionFailed(c)

Request(c) == \/ StartSession(c) \/ Continue(c) \/ Cancel(c)
              \/ ReadSource(c) \/ ReadForCompact(c)

RunThread == \E j \in jobs : EngineReturns(j) \/ FinishRun(j)

Next == \/ \E c \in Clients : Request(c) \/ Serve(c)
        \/ RunThread

\* An engine returns and its thread is scheduled; clients promise nothing.
Spec == Init /\ [][Next]_vars /\ WF_vars(RunThread)

(* ------------------------------ properties ------------------------------ *)

Job == [run : Runs, session : 1..MaxSessions, prior : SUBSET Runs,
        stage : {"engine", "finish"}, cancelled : BOOLEAN,
        result : {"ok", "error", "empty"}]

WorkerCall ==
  [step : {"returned", "begin", "handle", "insert", "engine"},
   session : 0..MaxSessions, seen : WorkerSession]

\* Sessions, run threads and calls have the shapes the code gives them, and every
\* call in flight and every thread names a session that exists.
TypeOK ==
  /\ sessions \in Seq(WorkerSession) /\ Len(sessions) <= MaxSessions
  /\ jobs \subseteq Job /\ \A j \in jobs : j.session \in DOMAIN sessions
  /\ tokens \subseteq Runs /\ nextRun \in 1..(MaxRuns + 1)
  /\ known \subseteq DOMAIN sessions
  /\ calls \in [Clients -> WorkerCall]
  /\ \A c \in Clients : ~Free(c) => calls[c].session \in DOMAIN sessions

\* A session has at most one run thread, it is the active run of the session,
\* and the session is busy exactly while it has one: no run is orphaned by a
\* later one, by a cancel or by a compaction (begin_run, finish_run, cancel).
OneRunPerSession ==
  /\ \A j, k \in jobs : j.session = k.session => j = k
  /\ \A j \in jobs : sessions[j.session].run = j.run
  /\ \A s \in DOMAIN sessions :
       /\ sessions[s].run # 0 <=> sessions[s].status \in Busy
       /\ sessions[s].run # 0 => \E j \in jobs : j.session = s

\* A branch shares with its source exactly the history up to the point it
\* records, and no run that either has begun since.
BranchSharesHistory ==
  \A s \in DOMAIN sessions :
    LET b == sessions[s] IN
    b.parent # 0 =>
      /\ b.from <= Len(b.trace) /\ b.from <= Len(sessions[b.parent].trace)
      /\ SubSeq(b.trace, 1, b.from) = SubSeq(sessions[b.parent].trace, 1, b.from)
      /\ \A k \in (b.from + 1)..Len(b.trace) :
           \A n \in DOMAIN sessions[b.parent].trace :
             b.trace[k] = sessions[b.parent].trace[n] => b.trace[k] = 0

\* Every run that began ends: its session is handed back to the clients.
RunsEnd ==
  \A r \in Runs :
    (nextRun > r) ~> \A s \in DOMAIN sessions : sessions[s].run # r
=============================================================================
