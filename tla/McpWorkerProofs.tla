-------------------------- MODULE McpWorkerProofs --------------------------
(***************************************************************************)
(* Theorems about McpWorker, for any number of clients, runs, sessions and *)
(* compactions.                                                            *)
(*                                                                         *)
(* OneRunPerSession is inductive only together with the typing of the      *)
(* state and the freshness of run ids: a thread could otherwise end the    *)
(* run of another one that was given the same id.  BranchSharesHistory     *)
(* rests on HistoryInv: no two threads work on one run and a trace lists   *)
(* only runs that have ended, so that what two sessions run after a branch *)
(* differs; and what a branch has read stays the beginning of its source.  *)
(***************************************************************************)
EXTENDS McpWorker, SequenceTheorems, TLAPS

Fresh == \A j \in jobs : j.run < nextRun

IInv == TypeOK /\ OneRunPerSession /\ Fresh

\* A trace with one line more.
Line(trace, r) == Append(trace, r)

\* What Append and a one-field update leave of the session map.
LEMMA AppendSession ==
  ASSUME NEW s \in Seq(WorkerSession), NEW x \in WorkerSession
  PROVE  /\ Append(s, x) \in Seq(WorkerSession)
         /\ Len(Append(s, x)) = Len(s) + 1
         /\ DOMAIN Append(s, x) = DOMAIN s \cup {Len(s) + 1}
         /\ Len(s) + 1 \notin DOMAIN s
         /\ Append(s, x)[Len(s) + 1] = x
         /\ \A k \in DOMAIN s : Append(s, x)[k] = s[k]
  OBVIOUS

LEMMA UpdateSession ==
  ASSUME NEW s \in Seq(WorkerSession), NEW k \in DOMAIN s, NEW x \in WorkerSession
  PROVE  LET t == [s EXCEPT ![k] = x] IN
         /\ t \in Seq(WorkerSession) /\ Len(t) = Len(s) /\ DOMAIN t = DOMAIN s
         /\ t[k] = x
         /\ \A n \in DOMAIN s : n # k => t[n] = s[n]
  OBVIOUS

LEMMA SessionTyped ==
  ASSUME NEW s \in Seq(WorkerSession), NEW k \in DOMAIN s
  PROVE  s[k] \in WorkerSession
  OBVIOUS

LEMMA NewSessionTyped == NewSession \in WorkerSession
  BY WorkerBounds DEF NewSession, WorkerSession, WorkerStatus

LEMMA NoCallTyped == NoCall \in WorkerCall
  BY NewSessionTyped, WorkerBounds
  DEF NoCall, WorkerCall

LEMMA CallTyped ==
  ASSUME NEW step \in {"begin", "handle", "insert", "engine"}, NEW s \in 0..MaxSessions
  PROVE  /\ Call(step, s) \in WorkerCall
         /\ Call(step, s).session = s /\ Call(step, s).step = step
  BY NoCallTyped DEF Call, WorkerCall, NoCall

LEMMA CopyTyped ==
  ASSUME NEW step \in {"insert", "engine"}, NEW s \in 0..MaxSessions,
         NEW x \in WorkerSession
  PROVE  LET call == [Call(step, s) EXCEPT !.seen = x] IN
         /\ call \in WorkerCall
         /\ call.session = s /\ call.step = step /\ call.seen = x
  BY CallTyped DEF WorkerCall

\* Answering or advancing one call disturbs no other.
LEMMA BecomeTyped ==
  ASSUME calls \in [Clients -> WorkerCall], NEW c \in Clients,
         NEW call \in WorkerCall, Become(c, call)
  PROVE  /\ calls' \in [Clients -> WorkerCall]
         /\ calls'[c] = call
         /\ \A d \in Clients \ {c} : calls'[d] = calls[d]
  BY DEF Become

LEMMA FailTyped ==
  ASSUME calls \in [Clients -> WorkerCall], NEW c \in Clients, Become(c, NoCall)
  PROVE  /\ calls' \in [Clients -> WorkerCall]
         /\ calls'[c].step = "returned"
         /\ \A d \in Clients \ {c} : calls'[d] = calls[d]
  BY NoCallTyped, BecomeTyped DEF NoCall

LEMMA InitEstablishes == Init => IInv
<1> SUFFICES ASSUME Init PROVE IInv
  OBVIOUS
<1>1. sessions \in Seq(WorkerSession) /\ Len(sessions) = 0 /\ DOMAIN sessions = {}
  BY DEF Init
<1>3. calls \in [Clients -> WorkerCall] /\ \A c \in Clients : Free(c)
  BY NoCallTyped DEF Init, Free, At, NoCall
<1>4. jobs = {} /\ tokens = {} /\ nextRun = 1 /\ known = {}
  BY DEF Init
<1>5. TypeOK
  BY <1>1, <1>3, <1>4, WorkerBounds DEF TypeOK
<1> QED
  BY <1>1, <1>4, <1>5 DEF IInv, OneRunPerSession, Fresh

(***************************************************************************)
(* One step of Next, action by action.  Those that only move a call leave  *)
(* everything the second part speaks of alone.                             *)
(***************************************************************************)

\* TypeOK of the next state, when only the calls of c have changed.
LEMMA CallStep ==
  ASSUME IInv, NEW c \in Clients,
         UNCHANGED <<sessions, jobs, tokens, nextRun>>,
         known' \subseteq DOMAIN sessions,
         calls' \in [Clients -> WorkerCall],
         calls'[c].step = "returned" \/ calls'[c].session \in DOMAIN sessions,
         \A d \in Clients \ {c} : calls'[d] = calls[d]
  PROVE  IInv'
<1>1. \A d \in Clients : ~Free(d)' => calls'[d].session \in DOMAIN sessions
  BY DEF IInv, TypeOK, Free, At
<1>2. TypeOK'
  BY <1>1 DEF IInv, TypeOK
<1> QED
  BY <1>2 DEF IInv, OneRunPerSession, Fresh

LEMMA ObserveStep ==
  ASSUME IInv, NEW c \in Clients, Observe(c) PROVE IInv'
<1>1. calls[c].session \in DOMAIN sessions
  BY DEF IInv, TypeOK, Observe, Free, At
<1>2. known' \subseteq DOMAIN sessions
  BY <1>1 DEF Observe, IInv, TypeOK
<1> QED
  BY <1>2, FailTyped, CallStep DEF Observe, IInv, TypeOK

\* IInv of the next state, when c was given one more session, at rest.
LEMMA AppendStep ==
  ASSUME IInv, NEW c \in Clients, NEW x \in WorkerSession,
         x.run = 0, x.status \notin Busy, Room,
         sessions' = Append(sessions, x),
         UNCHANGED <<jobs, tokens, nextRun, known>>,
         calls' \in [Clients -> WorkerCall],
         calls'[c].step = "returned" \/ calls'[c].session \in DOMAIN sessions',
         \A d \in Clients \ {c} : calls'[d] = calls[d]
  PROVE  IInv'
<1>1. /\ sessions' \in Seq(WorkerSession) /\ Len(sessions') = Len(sessions) + 1
      /\ DOMAIN sessions' = DOMAIN sessions \cup {Len(sessions) + 1}
      /\ sessions'[Len(sessions) + 1] = x
      /\ \A k \in DOMAIN sessions : sessions'[k] = sessions[k]
  BY AppendSession DEF IInv, TypeOK
<1>2. Len(sessions') <= MaxSessions
  BY <1>1, WorkerBounds DEF Room, IInv, TypeOK
<1>3. \A d \in Clients : ~Free(d)' => calls'[d].session \in DOMAIN sessions'
  BY <1>1 DEF IInv, TypeOK, Free, At
<1>4. TypeOK'
  BY <1>1, <1>2, <1>3 DEF IInv, TypeOK
<1>5. \A s \in DOMAIN sessions' :
        \/ s \in DOMAIN sessions /\ sessions'[s] = sessions[s]
        \/ sessions'[s].run = 0 /\ sessions'[s].status \notin Busy
  BY <1>1
<1>6. OneRunPerSession'
  BY <1>1, <1>5 DEF IInv, TypeOK, OneRunPerSession
<1> QED
  BY <1>4, <1>6 DEF IInv, Fresh

\* IInv of the next state, when session s changed but not its run.
LEMMA UpdateStep ==
  ASSUME IInv, NEW c \in Clients, NEW s \in DOMAIN sessions,
         NEW x \in WorkerSession,
         x.run = sessions[s].run, x.run # 0 <=> x.status \in Busy,
         sessions' = [sessions EXCEPT ![s] = x],
         tokens' \subseteq Runs,
         UNCHANGED <<jobs, nextRun, known>>,
         calls' \in [Clients -> WorkerCall],
         calls'[c].step = "returned",
         \A d \in Clients \ {c} : calls'[d] = calls[d]
  PROVE  IInv'
<1>1. /\ sessions' \in Seq(WorkerSession) /\ Len(sessions') = Len(sessions)
      /\ DOMAIN sessions' = DOMAIN sessions /\ sessions'[s] = x
      /\ \A n \in DOMAIN sessions : n # s => sessions'[n] = sessions[n]
  BY UpdateSession DEF IInv, TypeOK
<1>2. \A d \in Clients : ~Free(d)' => calls'[d].session \in DOMAIN sessions'
  BY <1>1 DEF IInv, TypeOK, Free, At
<1>3. TypeOK'
  BY <1>1, <1>2 DEF IInv, TypeOK
<1>4. \A n \in DOMAIN sessions : sessions'[n].run = sessions[n].run
  BY <1>1
<1>5. \A n \in DOMAIN sessions : sessions'[n].run # 0 <=> sessions'[n].status \in Busy
  BY <1>1 DEF IInv, OneRunPerSession
<1>6. OneRunPerSession'
  BY <1>1, <1>4, <1>5 DEF IInv, TypeOK, OneRunPerSession
<1> QED
  BY <1>3, <1>6 DEF IInv, Fresh

LEMMA RequestStep ==
  ASSUME IInv, NEW c \in Clients, Request(c) PROVE IInv'
<1>0. /\ \A s \in DOMAIN sessions : sessions[s] \in WorkerSession /\ s \in 0..MaxSessions
      /\ known \subseteq DOMAIN sessions
  BY SessionTyped, WorkerBounds DEF IInv, TypeOK
<1>1. CASE StartSession(c)
  <2>1. Len(sessions) + 1 \in 0..MaxSessions
    BY <1>1, WorkerBounds DEF StartSession, Room, IInv, TypeOK
  <2> DEFINE call == Call("begin", Len(sessions) + 1)
  <2>3. call \in WorkerCall /\ call.session = Len(sessions) + 1
    BY <2>1, CallTyped
  <2>4. Become(c, call) /\ sessions' = Append(sessions, NewSession)
    BY <1>1 DEF StartSession
  <2> HIDE DEF call
  <2>5. calls' \in [Clients -> WorkerCall] /\ calls'[c] = call
        /\ \A d \in Clients \ {c} : calls'[d] = calls[d]
    BY <2>3, <2>4, BecomeTyped DEF IInv, TypeOK
  <2>6. Len(sessions) + 1 \in DOMAIN sessions'
    BY <2>4, AppendSession, NewSessionTyped DEF IInv, TypeOK
  <2>7. NewSession.run = 0 /\ NewSession.status \notin Busy
    BY DEF NewSession, Busy
  <2> QED
    BY <1>1, <2>3, <2>4, <2>5, <2>6, <2>7, AppendStep, NewSessionTyped DEF StartSession
<1>2. CASE Continue(c)
  <2>1. PICK s \in known : Become(c, Call("begin", s))
    BY <1>2 DEF Continue
  <2>2. Call("begin", s) \in WorkerCall /\ Call("begin", s).session = s
    BY <1>0, CallTyped
  <2> QED
    BY <1>0, <1>2, <2>1, <2>2, BecomeTyped, CallStep DEF Continue, IInv, TypeOK
<1>3. ASSUME NEW step \in {"insert", "engine"}, NEW s \in known,
             Become(c, [Call(step, s) EXCEPT !.seen = sessions[s]]),
             UNCHANGED <<sessions, jobs, tokens, nextRun, known>>
      PROVE  IInv'
  <2> DEFINE call == [Call(step, s) EXCEPT !.seen = sessions[s]]
  <2>1. call \in WorkerCall /\ call.session = s
    BY <1>0, CopyTyped
  <2> HIDE DEF call
  <2>2. Become(c, call)
    BY <1>3 DEF call
  <2> QED
    BY <1>0, <1>3, <2>1, <2>2, BecomeTyped, CallStep DEF IInv, TypeOK
<1>4. CASE ReadSource(c) \/ ReadForCompact(c)
  BY <1>3, <1>4 DEF ReadSource, ReadForCompact
<1>5. CASE Cancel(c)
  <2>1. PICK s \in known :
          /\ sessions[s].run # 0
          /\ sessions' = [sessions EXCEPT ![s] = [@ EXCEPT !.status = "cancelling"]]
          /\ tokens' = tokens \cup {sessions[s].run}
    BY <1>5 DEF Cancel
  <2> DEFINE x == [sessions[s] EXCEPT !.status = "cancelling"]
  <2>2. sessions[s] \in WorkerSession /\ sessions[s].run \in 0..MaxRuns
    BY <1>0 DEF WorkerSession
  <2>3. "cancelling" \in WorkerStatus /\ "cancelling" \in Busy
    BY DEF WorkerStatus, Busy
  <2>4. x \in WorkerSession /\ x.run = sessions[s].run /\ x.status = "cancelling"
    BY <2>2, <2>3 DEF WorkerSession
  <2>5. tokens' \subseteq Runs
    BY <2>1, <2>2 DEF IInv, TypeOK, Runs
  <2>6. sessions' = [sessions EXCEPT ![s] = x]
    BY <2>1
  <2>7. UNCHANGED <<jobs, calls, nextRun, known>> /\ calls[c].step = "returned"
    BY <1>5 DEF Cancel, Free, At
  <2> HIDE DEF x
  <2>8. /\ calls' \in [Clients -> WorkerCall] /\ calls'[c].step = "returned"
        /\ \A d \in Clients \ {c} : calls'[d] = calls[d]
    BY <2>7 DEF IInv, TypeOK
  <2>9. s \in DOMAIN sessions /\ (x.run # 0 <=> x.status \in Busy)
    BY <1>0, <2>1, <2>3, <2>4
  <2> QED
    BY <2>4, <2>5, <2>6, <2>7, <2>8, <2>9, UpdateStep
<1> QED
  BY <1>1, <1>2, <1>4, <1>5 DEF Request

LEMMA BeginRunStep ==
  ASSUME IInv, NEW c \in Clients, BeginRun(c) PROVE IInv'
<1> DEFINE s == calls[c].session
<1>1. calls[c] \in WorkerCall /\ s \in DOMAIN sessions /\ nextRun \in Runs
  BY DEF IInv, TypeOK, BeginRun, Free, At
<1>1a. nextRun \in 0..MaxRuns /\ nextRun # 0 /\ nextRun + 1 \in 1..(MaxRuns + 1)
  BY <1>1, WorkerBounds DEF Runs
<1>2. CASE Occupied(s)
  BY <1>1, <1>2, FailTyped, CallStep DEF BeginRun, Fail, IInv, TypeOK
<1>3. CASE ~Occupied(s)
  <2> DEFINE x == [sessions[s] EXCEPT !.status = "running", !.run = nextRun]
             job == [run |-> nextRun, session |-> s, stage |-> "engine",
                     prior |-> sessions[s].messages, result |-> "ok",
                     cancelled |-> FALSE]
             call == [calls[c] EXCEPT !.step = "handle"]
  <2>1. /\ sessions' = [sessions EXCEPT ![s] = x] /\ jobs' = jobs \cup {job}
        /\ nextRun' = nextRun + 1 /\ Become(c, call)
        /\ UNCHANGED <<tokens, known>>
    BY <1>3 DEF BeginRun, Claimed, Move
  <2>2. sessions[s] \in WorkerSession /\ "running" \in WorkerStatus /\ "running" \in Busy
    BY <1>1, SessionTyped DEF IInv, TypeOK, WorkerStatus, Busy
  <2>3. x \in WorkerSession /\ x.run = nextRun /\ x.status = "running"
    BY <1>1a, <2>2 DEF WorkerSession
  <2>4. job \in Job
    <3>1. sessions[s].messages \in SUBSET Runs
      BY <2>2 DEF WorkerSession
    <3>2. s \in 1..MaxSessions
      BY <1>1, WorkerBounds DEF IInv, TypeOK
    <3> QED
      BY <1>1, <3>1, <3>2 DEF Job
  <2>5. call \in WorkerCall /\ call.session = s
    BY <1>1 DEF WorkerCall
  <2>6. job.run = nextRun /\ job.session = s
    OBVIOUS
  <2> HIDE DEF x, job, call
  <2>7. calls' \in [Clients -> WorkerCall] /\ calls'[c].session = s
        /\ \A d \in Clients \ {c} : calls'[d] = calls[d]
    BY <2>1, <2>5, BecomeTyped DEF IInv, TypeOK
  <2>8. /\ sessions' \in Seq(WorkerSession) /\ Len(sessions') = Len(sessions)
        /\ DOMAIN sessions' = DOMAIN sessions /\ sessions'[s] = x
        /\ \A n \in DOMAIN sessions : n # s => sessions'[n] = sessions[n]
    BY <1>1, <2>1, <2>3, UpdateSession DEF IInv, TypeOK
  <2>9. \A d \in Clients : ~Free(d)' => calls'[d].session \in DOMAIN sessions'
    BY <1>1, <2>7, <2>8 DEF IInv, TypeOK, Free, At
  <2>10. TypeOK'
    BY <1>1, <1>1a, <2>1, <2>4, <2>6, <2>7, <2>8, <2>9 DEF IInv, TypeOK
  <2>11. \A j \in jobs : j.session # s
    <3>1. sessions[s].run = 0
      BY <1>1, <1>3 DEF Occupied, IInv, OneRunPerSession
    <3> QED
      BY <3>1 DEF IInv, TypeOK, OneRunPerSession, Job, Runs
  <2>12. OneRunPerSession'
    <3>1. \A j, k \in jobs' : j.session = k.session => j = k
      BY <2>1, <2>6, <2>11 DEF IInv, OneRunPerSession
    <3>2. \A j \in jobs' : sessions'[j.session].run = j.run
      BY <2>1, <2>3, <2>6, <2>8, <2>11 DEF IInv, TypeOK, OneRunPerSession
    <3>3. \A n \in DOMAIN sessions' :
            /\ sessions'[n].run # 0 <=> sessions'[n].status \in Busy
            /\ sessions'[n].run # 0 => \E j \in jobs' : j.session = n
        BY <1>1, <1>1a, <2>1, <2>2, <2>3, <2>6, <2>8 DEF IInv, OneRunPerSession
    <3> QED
      BY <3>1, <3>2, <3>3 DEF OneRunPerSession
  <2>13. Fresh'
    BY <1>1, <2>1, <2>6 DEF IInv, TypeOK, Fresh, Job, Runs
  <2> QED
    BY <2>10, <2>12, <2>13 DEF IInv
<1> QED
  BY <1>2, <1>3

LEMMA InsertBranchStep ==
  ASSUME IInv, NEW c \in Clients, InsertBranch(c) PROVE IInv'
<1> DEFINE made == Len(sessions) + 1
           seen == calls[c].seen
           x == BranchOf(calls[c].session, seen)
<1>1. calls[c] \in WorkerCall /\ calls[c].session \in DOMAIN sessions
      /\ seen \in WorkerSession /\ made \in 0..MaxSessions
      /\ calls[c].session \in Nat
  BY WorkerBounds DEF IInv, TypeOK, InsertBranch, Free, At, WorkerCall, Room
<1>2. Len(seen.trace) \in Nat
  BY <1>1 DEF WorkerSession
<1>3. "idle" \in WorkerStatus /\ "idle" \notin Busy /\ 0 \in 0..MaxRuns
  BY WorkerBounds DEF WorkerStatus, Busy
<1>4. x \in WorkerSession /\ x.run = 0 /\ x.status = "idle"
  BY <1>1, <1>2, <1>3 DEF BranchOf, WorkerSession
<1>6. PICK next \in WorkerCall :
        (next.step = "returned" \/ next.session = made) /\ Become(c, next)
  <2>1. /\ Call("begin", made) \in WorkerCall /\ Call("begin", made).session = made
        /\ Call("handle", made) \in WorkerCall /\ Call("handle", made).session = made
    BY <1>1, CallTyped
  <2>2. NoCall \in WorkerCall /\ NoCall.step = "returned"
    BY NoCallTyped DEF NoCall
  <2> QED
    BY <2>1, <2>2 DEF InsertBranch, Fail
<1>7. sessions' = Append(sessions, x)
      /\ UNCHANGED <<jobs, tokens, nextRun, known>> /\ Room
  BY DEF InsertBranch
<1> HIDE DEF x
<1>8. made \in DOMAIN sessions'
  BY <1>4, <1>7, AppendSession DEF IInv, TypeOK
<1>9. calls' \in [Clients -> WorkerCall]
      /\ (calls'[c].step = "returned" \/ calls'[c].session = made)
      /\ \A d \in Clients \ {c} : calls'[d] = calls[d]
  BY <1>6, BecomeTyped DEF IInv, TypeOK
<1> QED
  BY <1>3, <1>4, <1>7, <1>8, <1>9, AppendStep

\* What a compaction makes of its session.
LEMMA Compacted ==
  ASSUME IInv, NEW c \in Clients, ApplyCompaction(c)
  PROVE  LET s == calls[c].session IN
         /\ s \in DOMAIN sessions /\ sessions[s] \in WorkerSession
         /\ \E x \in WorkerSession :
              /\ sessions' = [sessions EXCEPT ![s] = x]
              /\ x.run = sessions[s].run
              /\ x.status \in Busy <=> sessions[s].status \in Busy
              /\ x.parent = sessions[s].parent /\ x.from = sessions[s].from
              /\ x.trace = sessions[s].trace \/ x.trace = Line(sessions[s].trace, 0)
<1> DEFINE s == calls[c].session
           status == IF sessions[s].status = "idle" THEN "completed"
                                                    ELSE sessions[s].status
<1>1. calls[c] \in WorkerCall /\ s \in DOMAIN sessions
  BY DEF IInv, TypeOK, ApplyCompaction, Free, At
<1>2. sessions[s] \in WorkerSession
  BY <1>1, SessionTyped DEF IInv, TypeOK
<1>3. /\ NextEpoch(c) \in Nat /\ calls[c].seen.messages \in SUBSET Runs
      /\ sessions[s].messages \in SUBSET Runs /\ sessions[s].trace \in Seq(0..MaxRuns)
  BY <1>1, <1>2 DEF NextEpoch, WorkerCall, WorkerSession
<1>4. PICK compacted \in {[messages |-> sessions[s].messages, lines |-> <<>>],
                           [messages |-> calls[c].seen.messages, lines |-> <<0>>]} :
        sessions' = [sessions EXCEPT ![s] =
          [sessions[s] EXCEPT !.messages = compacted.messages,
                    !.trace = sessions[s].trace \o compacted.lines,
                    !.epoch = NextEpoch(c), !.status = status]]
  BY DEF ApplyCompaction
<1> DEFINE messages == compacted.messages
           trace == sessions[s].trace \o compacted.lines
           epoch == NextEpoch(c)
           x == [sessions[s] EXCEPT !.messages = messages, !.trace = trace,
                                    !.epoch = epoch, !.status = status]
<1>5. messages \in SUBSET Runs
  BY <1>3, <1>4
<1>6. trace = sessions[s].trace \/ trace = Line(sessions[s].trace, 0)
  <2>1. /\ sessions[s].trace \o <<>> = sessions[s].trace
        /\ sessions[s].trace \o <<0>> = Line(sessions[s].trace, 0)
    BY <1>3, ConcatEmptySeq, AppendIsConcat, WorkerBounds DEF Line
  <2>2. compacted.lines = <<>> \/ compacted.lines = <<0>>
    BY <1>4
  <2> QED
    BY <2>1, <2>2
<1>7. trace \in Seq(0..MaxRuns)
  <2>1. Append(sessions[s].trace, 0) \in Seq(0..MaxRuns)
    BY <1>3, WorkerBounds
  <2> QED
    BY <1>3, <1>6, <2>1 DEF Line
<1>8. status \in WorkerStatus /\ (status \in Busy <=> sessions[s].status \in Busy)
  BY <1>2 DEF WorkerSession, WorkerStatus, Busy, Terminal
<1>9. sessions' = [sessions EXCEPT ![s] = x]
  BY <1>4
<1> HIDE DEF status, trace, messages, epoch
<1>10. /\ x \in WorkerSession /\ x.run = sessions[s].run /\ x.status = status
       /\ x.parent = sessions[s].parent /\ x.from = sessions[s].from
       /\ x.trace = trace
  BY <1>2, <1>3, <1>5, <1>7, <1>8 DEF WorkerSession, epoch
<1> HIDE DEF x
<1> QED
  BY <1>1, <1>2, <1>6, <1>8, <1>9, <1>10

LEMMA ApplyCompactionStep ==
  ASSUME IInv, NEW c \in Clients, ApplyCompaction(c) PROVE IInv'
<1> DEFINE s == calls[c].session
<1>1. s \in DOMAIN sessions
  BY Compacted
<1>2. PICK x \in WorkerSession :
        /\ sessions' = [sessions EXCEPT ![s] = x] /\ x.run = sessions[s].run
        /\ x.status \in Busy <=> sessions[s].status \in Busy
  BY Compacted
<1>3. calls' \in [Clients -> WorkerCall] /\ calls'[c].step = "returned"
      /\ \A d \in Clients \ {c} : calls'[d] = calls[d]
  BY FailTyped DEF ApplyCompaction, IInv, TypeOK
<1>4. x.run # 0 <=> x.status \in Busy
  BY <1>1, <1>2 DEF IInv, OneRunPerSession
<1>5. UNCHANGED <<jobs, tokens, nextRun, known>> /\ tokens' \subseteq Runs
  BY DEF ApplyCompaction, IInv, TypeOK
<1> QED
  BY <1>1, <1>2, <1>3, <1>4, <1>5, UpdateStep

LEMMA EngineReturnsStep ==
  ASSUME IInv, NEW j \in jobs, EngineReturns(j) PROVE IInv'
<1>1. j \in Job /\ j.session \in DOMAIN sessions
  BY DEF IInv, TypeOK
<1>2. PICK result \in {"ok", "error", "empty"} :
        jobs' = (jobs \ {j}) \cup
                  {[j EXCEPT !.stage = "finish", !.result = result,
                             !.cancelled = j.run \in tokens]}
  BY DEF EngineReturns
<1> DEFINE flag == j.run \in tokens
           k == [j EXCEPT !.stage = "finish", !.result = result, !.cancelled = flag]
<1>3. flag \in BOOLEAN
  OBVIOUS
<1>4. jobs' = (jobs \ {j}) \cup {k}
  BY <1>2
<1> HIDE DEF flag
<1>5. k \in Job /\ k.run = j.run /\ k.session = j.session
  BY <1>1, <1>3 DEF Job
<1> HIDE DEF k
<1>6. UNCHANGED <<sessions, tokens, calls, nextRun, known>>
  BY DEF EngineReturns
<1>7. TypeOK'
  BY <1>1, <1>4, <1>5, <1>6 DEF IInv, TypeOK, Free, At
<1>8. OneRunPerSession'
  BY <1>4, <1>5, <1>6 DEF IInv, OneRunPerSession
<1>9. Fresh'
  BY <1>4, <1>5, <1>6 DEF IInv, Fresh
<1> QED
  BY <1>7, <1>8, <1>9 DEF IInv

LEMMA FinishedTyped ==
  ASSUME NEW session \in WorkerSession, NEW j \in Job
  PROVE  LET x == Finished(session, j) IN
         x \in WorkerSession /\ x.run = 0 /\ x.status \notin Busy
<1> DEFINE y == Apply(session, j)
           status == EndStatus(j)
           x == Finished(session, j)
<1>1. status \in WorkerStatus /\ status \notin Busy /\ 0 \in 0..MaxRuns
  BY WorkerBounds DEF EndStatus, Terminal, WorkerStatus, Busy
<1>2. y \in WorkerSession
  <2>1. /\ j.run \in 0..MaxRuns /\ j.prior \cup {j.run} \in SUBSET Runs
        /\ session.trace \in Seq(0..MaxRuns)
    BY DEF Job, Runs, WorkerSession
  <2>2. Append(session.trace, j.run) \in Seq(0..MaxRuns)
    BY <2>1
  <2> QED
    BY <2>1, <2>2 DEF Apply, WorkerSession
<1>3. x = [y EXCEPT !.status = status, !.run = 0]
  BY DEF Finished
<1> HIDE DEF x, y, status
<1>4. x \in WorkerSession /\ x.run = 0 /\ x.status = status
  BY <1>1, <1>2, <1>3 DEF WorkerSession
<1>5. x \in WorkerSession /\ x.run = 0 /\ x.status \notin Busy
  BY <1>1, <1>4
<1> QED
  BY <1>5 DEF x

LEMMA FinishRunStep ==
  ASSUME IInv, NEW j \in jobs, FinishRun(j) PROVE IInv'
<1> DEFINE s == j.session
           x == Finished(sessions[s], j)
<1>1. j \in Job /\ s \in DOMAIN sessions /\ sessions[s].run = j.run
      /\ sessions[s] \in WorkerSession
  BY SessionTyped DEF IInv, TypeOK, OneRunPerSession
<1>2. /\ sessions' = [sessions EXCEPT ![s] = x] /\ jobs' = jobs \ {j}
      /\ tokens' \subseteq tokens /\ UNCHANGED <<calls, nextRun, known>>
  BY <1>1 DEF FinishRun
<1>3. x \in WorkerSession /\ x.run = 0 /\ x.status \notin Busy
  BY <1>1, FinishedTyped
<1> HIDE DEF x
<1>4. /\ sessions' \in Seq(WorkerSession) /\ Len(sessions') = Len(sessions)
      /\ DOMAIN sessions' = DOMAIN sessions /\ sessions'[s] = x
      /\ \A n \in DOMAIN sessions : n # s => sessions'[n] = sessions[n]
  BY <1>1, <1>2, <1>3, UpdateSession DEF IInv, TypeOK
<1>5. TypeOK'
  BY <1>2, <1>4 DEF IInv, TypeOK, Free, At
<1>6. \A k \in jobs' : k \in jobs /\ k.session # s
  BY <1>2 DEF IInv, OneRunPerSession
<1>7. OneRunPerSession'
  <2>1. \A k, n \in jobs' : k.session = n.session => k = n
    BY <1>6 DEF IInv, OneRunPerSession
  <2>2. \A k \in jobs' : sessions'[k.session].run = k.run
    BY <1>4, <1>6 DEF IInv, TypeOK, OneRunPerSession
  <2>3. \A n \in DOMAIN sessions' :
          /\ sessions'[n].run # 0 <=> sessions'[n].status \in Busy
          /\ sessions'[n].run # 0 => \E k \in jobs' : k.session = n
    BY <1>2, <1>3, <1>4 DEF IInv, OneRunPerSession
  <2> QED
    BY <2>1, <2>2, <2>3 DEF OneRunPerSession
<1>8. Fresh'
  BY <1>2, <1>6 DEF IInv, Fresh
<1> QED
  BY <1>5, <1>7, <1>8 DEF IInv

\* Every step of the service keeps the invariant.
LEMMA StepPreserves == IInv /\ [Next]_vars => IInv'
<1> SUFFICES ASSUME IInv, [Next]_vars PROVE IInv'
  OBVIOUS
<1>1. ASSUME NEW c \in Clients, Request(c) PROVE IInv'
  BY <1>1, RequestStep
<1>2. ASSUME NEW c \in Clients, Serve(c) PROVE IInv'
  <2>1. CASE BeginRun(c)
    BY <2>1, BeginRunStep
  <2>2. CASE Observe(c)
    BY <2>2, ObserveStep
  <2>3. CASE InsertBranch(c)
    BY <2>3, InsertBranchStep
  <2>4. CASE ApplyCompaction(c)
    BY <2>4, ApplyCompactionStep
  <2>5. CASE CompactionFailed(c)
    BY <2>5, FailTyped, CallStep DEF CompactionFailed, Fail, IInv, TypeOK
  <2> QED
    BY <1>2, <2>1, <2>2, <2>3, <2>4, <2>5 DEF Serve
<1>3. ASSUME NEW j \in jobs, EngineReturns(j) \/ FinishRun(j) PROVE IInv'
  BY <1>3, EngineReturnsStep, FinishRunStep
<1>4. CASE UNCHANGED vars
  BY <1>4 DEF vars, IInv, TypeOK, OneRunPerSession, Fresh, Free, At
<1> QED
  BY <1>1, <1>2, <1>3, <1>4 DEF Next, RunThread

\* Every reachable state of the service is well typed: no call in flight, run
\* thread or disclosed id names a session that does not exist (start, branch,
\* begin_run), for any number of clients.
THEOREM WorkerTypeCorrect == Spec => []TypeOK
<1>1. IInv => TypeOK
  BY DEF IInv
<1> QED
  BY InitEstablishes, StepPreserves, <1>1, PTL DEF Spec

\* A session has at most one run thread and is busy exactly while it has one,
\* whatever the clients of a cloned service do concurrently (begin_run, cancel,
\* compact, finish_run).
THEOREM OneRunPerSessionHolds == Spec => []OneRunPerSession
<1>1. IInv => OneRunPerSession
  BY DEF IInv
<1> QED
  BY InitEstablishes, StepPreserves, <1>1, PTL DEF Spec

(***************************************************************************)
(* Branches share the history of their source.  A run is recorded once, by *)
(* the thread that ran it, and a trace only grows: the copy a branch was   *)
(* made from stays a beginning of the source's trace, and what either runs *)
(* later was in no trace when the branch was made.                         *)
(***************************************************************************)

Begins(t, u) == Len(t) <= Len(u) /\ \A k \in DOMAIN t : u[k] = t[k]

\* Branch b and its source p agree up to the recorded point, and nothing b
\* has run since is in the trace of p (0 stands for what a compaction added).
Shares(b, p) ==
  /\ b.from <= Len(b.trace) /\ b.from <= Len(p.trace)
  /\ \A k \in 1..b.from : b.trace[k] = p.trace[k]
  /\ \A k \in (b.from + 1)..Len(b.trace) :
       \A n \in DOMAIN p.trace : b.trace[k] = p.trace[n] => b.trace[k] = 0

ThreadsDiffer == \A j, k \in jobs : j.run = k.run => j = k

\* The traces list runs that have begun and ended.
RunsRecorded ==
  \A s \in DOMAIN sessions : \A n \in DOMAIN sessions[s].trace :
    /\ sessions[s].trace[n] < nextRun
    /\ \A j \in jobs : j.run # sessions[s].trace[n]

BranchesShare ==
  \A s \in DOMAIN sessions :
    /\ sessions[s].parent < s
    /\ sessions[s].parent # 0 => Shares(sessions[s], sessions[sessions[s].parent])

CopiesBegin ==
  \A c \in Clients :
    At(c, "insert") => Begins(calls[c].seen.trace, sessions[calls[c].session].trace)

HistoryInv == ThreadsDiffer /\ RunsRecorded /\ BranchesShare /\ CopiesBegin

LEMMA HistoryInit == Init => HistoryInv
  BY DEF Init, HistoryInv, ThreadsDiffer, RunsRecorded, BranchesShare, CopiesBegin,
         At, NoCall

LEMMA TracesTyped ==
  ASSUME IInv
  PROVE  /\ \A s \in DOMAIN sessions :
              /\ sessions[s] \in WorkerSession /\ sessions[s].trace \in Seq(0..MaxRuns)
              /\ sessions[s].parent \in Nat /\ sessions[s].from \in Nat
         /\ \A c \in Clients :
              /\ calls[c] \in WorkerCall /\ calls[c].seen \in WorkerSession
              /\ calls[c].seen.trace \in Seq(0..MaxRuns)
<1>1. \A s \in DOMAIN sessions : sessions[s] \in WorkerSession
  BY SessionTyped DEF IInv, TypeOK
<1>2. \A c \in Clients : calls[c] \in WorkerCall
  BY DEF IInv, TypeOK
<1>3. \A c \in Clients : calls[c].seen \in WorkerSession
  BY <1>2 DEF WorkerCall
<1> QED
  BY <1>1, <1>2, <1>3 DEF WorkerSession

\* Whether a branch shares with its source is read off traces and origin.
LEMMA SharesKept ==
  ASSUME NEW b, NEW p, NEW d, NEW q, Shares(b, p),
         d.trace = b.trace, d.from = b.from, q.trace = p.trace
  PROVE  Shares(d, q)
  BY DEF Shares

LEMMA BranchesQuiet ==
  ASSUME IInv, HistoryInv,
         DOMAIN sessions' = DOMAIN sessions,
         \A s \in DOMAIN sessions :
           /\ sessions'[s].trace = sessions[s].trace
           /\ sessions'[s].parent = sessions[s].parent
           /\ sessions'[s].from = sessions[s].from
  PROVE  BranchesShare'
<1> SUFFICES ASSUME NEW s \in DOMAIN sessions
             PROVE /\ sessions'[s].parent < s
                   /\ sessions'[s].parent # 0 =>
                        Shares(sessions'[s], sessions'[sessions'[s].parent])
  BY DEF BranchesShare
<1> DEFINE p == sessions[s].parent
<1>1. s \in 1..Len(sessions) /\ p \in Nat /\ p < s
  BY TracesTyped DEF IInv, TypeOK, HistoryInv, BranchesShare
<1>2. p # 0 => p \in DOMAIN sessions
  BY <1>1 DEF IInv, TypeOK
<1>3. p # 0 => Shares(sessions[s], sessions[p])
  BY DEF HistoryInv, BranchesShare
<1>4. p # 0 => Shares(sessions'[s], sessions'[p])
  BY <1>2, <1>3, SharesKept
<1> QED
  BY <1>1, <1>4

\* A step that leaves the traces and their origins alone and begins no run.
LEMMA HistoryQuiet ==
  ASSUME IInv, HistoryInv,
         DOMAIN sessions' = DOMAIN sessions,
         \A s \in DOMAIN sessions :
           /\ sessions'[s].trace = sessions[s].trace
           /\ sessions'[s].parent = sessions[s].parent
           /\ sessions'[s].from = sessions[s].from,
         jobs' \subseteq jobs, UNCHANGED nextRun,
         \A c \in Clients : At(c, "insert")' => calls'[c] = calls[c]
  PROVE  HistoryInv'
<1>1. ThreadsDiffer' /\ RunsRecorded'
  BY DEF HistoryInv, ThreadsDiffer, RunsRecorded
<1>2. BranchesShare'
  BY BranchesQuiet
<1>3. CopiesBegin'
  <2> SUFFICES ASSUME NEW c \in Clients, At(c, "insert")'
               PROVE Begins(calls'[c].seen.trace, sessions'[calls'[c].session].trace)
    BY DEF CopiesBegin
  <2>1. calls'[c] = calls[c] /\ At(c, "insert") /\ calls[c].session \in DOMAIN sessions
    BY DEF At, Free, IInv, TypeOK
  <2> QED
    BY <2>1 DEF HistoryInv, CopiesBegin
<1> QED
  BY <1>1, <1>2, <1>3 DEF HistoryInv

\* A new session at the end of the list.
LEMMA HistoryAppend ==
  ASSUME IInv, HistoryInv, NEW x \in WorkerSession,
         sessions' = Append(sessions, x),
         x.parent < Len(sessions) + 1,
         \A n \in DOMAIN x.trace :
           x.trace[n] < nextRun /\ \A j \in jobs : j.run # x.trace[n],
         x.parent # 0 => Shares(x, sessions[x.parent]),
         UNCHANGED <<jobs, nextRun>>,
         \A c \in Clients : At(c, "insert")' => calls'[c] = calls[c]
  PROVE  HistoryInv'
<1> DEFINE made == Len(sessions) + 1
<1>0. sessions \in Seq(WorkerSession) /\ DOMAIN sessions = 1..Len(sessions)
      /\ Len(sessions) \in Nat /\ x.parent \in Nat
  BY DEF IInv, TypeOK, WorkerSession
<1>1. /\ DOMAIN sessions' = DOMAIN sessions \cup {made} /\ made \notin DOMAIN sessions
      /\ sessions'[made] = x
      /\ \A k \in DOMAIN sessions : sessions'[k] = sessions[k]
  BY <1>0, AppendSession
<1> HIDE DEF made
<1>2. ThreadsDiffer'
  BY DEF HistoryInv, ThreadsDiffer
<1>3. RunsRecorded'
  BY <1>1 DEF HistoryInv, RunsRecorded
<1>4. BranchesShare'
  <2> SUFFICES ASSUME NEW s \in DOMAIN sessions'
               PROVE /\ sessions'[s].parent < s
                     /\ sessions'[s].parent # 0 =>
                          Shares(sessions'[s], sessions'[sessions'[s].parent])
    BY DEF BranchesShare
  <2>1. CASE s \in DOMAIN sessions
    <3>1. sessions[s].parent \in Nat /\ sessions[s].parent < s /\ s \in 1..Len(sessions)
      BY <1>0, <2>1, TracesTyped DEF HistoryInv, BranchesShare
    <3>2. sessions[s].parent # 0 => sessions[s].parent \in DOMAIN sessions
      BY <1>0, <3>1
    <3> QED
      BY <1>1, <2>1, <3>1, <3>2 DEF HistoryInv, BranchesShare
  <2>2. CASE s = made
    <3>1. x.parent # 0 => x.parent \in DOMAIN sessions
      BY <1>0
    <3>2. x.parent < made
      BY DEF made
    <3> QED
      BY <1>1, <2>2, <3>1, <3>2
  <2> QED
    BY <1>1, <2>1, <2>2
<1>5. CopiesBegin'
  <2> SUFFICES ASSUME NEW c \in Clients, At(c, "insert")'
               PROVE Begins(calls'[c].seen.trace, sessions'[calls'[c].session].trace)
    BY DEF CopiesBegin
  <2>1. calls'[c] = calls[c] /\ At(c, "insert") /\ calls[c].session \in DOMAIN sessions
    BY DEF At, Free, IInv, TypeOK
  <2> QED
    BY <1>1, <2>1 DEF HistoryInv, CopiesBegin
<1> QED
  BY <1>2, <1>3, <1>4, <1>5 DEF HistoryInv

\* A call that moves anywhere but to "insert" disturbs no copy.
LEMMA Moves ==
  ASSUME calls \in [Clients -> WorkerCall], NEW c \in Clients, NEW call,
         Become(c, call), call.step # "insert"
  PROVE  \A d \in Clients : At(d, "insert")' => calls'[d] = calls[d]
  BY DEF Become, At

LEMMA HistoryStart ==
  ASSUME IInv, HistoryInv, NEW c \in Clients, StartSession(c) PROVE HistoryInv'
<1>1. Len(sessions) + 1 \in 0..MaxSessions
  BY WorkerBounds DEF StartSession, Room, IInv, TypeOK
<1>2. Call("begin", Len(sessions) + 1).step # "insert"
  BY <1>1, CallTyped
<1>3. \A d \in Clients : At(d, "insert")' => calls'[d] = calls[d]
  BY <1>2, Moves DEF StartSession, IInv, TypeOK
<1>4. NewSession.parent = 0 /\ NewSession.trace = <<>>
  BY DEF NewSession
<1>5. 0 < Len(sessions) + 1
  BY DEF IInv, TypeOK
<1> QED
  BY <1>3, <1>4, <1>5, NewSessionTyped, HistoryAppend DEF StartSession

LEMMA HistoryInsert ==
  ASSUME IInv, HistoryInv, NEW c \in Clients, InsertBranch(c) PROVE HistoryInv'
<1> DEFINE s == calls[c].session
           seen == calls[c].seen
           x == BranchOf(s, seen)
           made == Len(sessions) + 1
<1>1. /\ calls[c] \in WorkerCall /\ seen \in WorkerSession /\ seen.trace \in Seq(0..MaxRuns)
      /\ s \in DOMAIN sessions /\ s \in 1..Len(sessions) /\ s \in Nat
      /\ Len(sessions) \in Nat /\ sessions[s].trace \in Seq(0..MaxRuns)
  BY TracesTyped DEF InsertBranch, At, Free, IInv, TypeOK
<1>2. Begins(seen.trace, sessions[s].trace)
  BY DEF HistoryInv, CopiesBegin, InsertBranch
<1>3. /\ x \in WorkerSession /\ x.trace = seen.trace /\ x.parent = s
      /\ x.from = Len(seen.trace)
  <2>1. Len(seen.trace) \in Nat /\ "idle" \in WorkerStatus /\ 0 \in 0..MaxRuns
    BY <1>1, WorkerBounds DEF WorkerStatus
  <2> QED
    BY <1>1, <2>1 DEF BranchOf, WorkerSession
<1>4. Shares(x, sessions[s])
  <2>1. Len(seen.trace) \in Nat /\ DOMAIN seen.trace = 1..Len(seen.trace)
    BY <1>1
  <2> HIDE DEF x, seen
  <2>2. \A k \in 1..x.from : x.trace[k] = sessions[s].trace[k]
    BY <1>2, <1>3, <2>1 DEF Begins
  <2>3. (x.from + 1)..Len(x.trace) = {}
    BY <1>3, <2>1
  <2>4. x.from <= Len(x.trace) /\ x.from <= Len(sessions[s].trace)
    BY <1>2, <1>3, <2>1 DEF Begins
  <2> QED
    BY <2>2, <2>3, <2>4 DEF Shares
<1>5. \A n \in DOMAIN x.trace : x.trace[n] < nextRun /\ \A j \in jobs : j.run # x.trace[n]
  <2> SUFFICES ASSUME NEW n \in DOMAIN seen.trace
               PROVE  seen.trace[n] < nextRun /\ \A j \in jobs : j.run # seen.trace[n]
    BY <1>3
  <2>1. n \in DOMAIN sessions[s].trace /\ sessions[s].trace[n] = seen.trace[n]
    BY <1>1, <1>2 DEF Begins
  <2> QED
    BY <1>1, <2>1 DEF HistoryInv, RunsRecorded
<1>6. PICK next : next.step # "insert" /\ Become(c, next)
  <2>1. made \in 0..MaxSessions
    BY <1>1, WorkerBounds DEF InsertBranch, Room
  <2>2. /\ Call("begin", made).step # "insert" /\ Call("handle", made).step # "insert"
        /\ NoCall.step # "insert"
    BY <2>1, CallTyped DEF NoCall
  <2> QED
    BY <2>2 DEF InsertBranch, Fail
<1>7. \A d \in Clients : At(d, "insert")' => calls'[d] = calls[d]
  BY <1>6, Moves DEF IInv, TypeOK
<1>8. sessions' = Append(sessions, x) /\ UNCHANGED <<jobs, nextRun>>
  BY DEF InsertBranch
<1> HIDE DEF x
<1> QED
  BY <1>1, <1>3, <1>4, <1>5, <1>7, <1>8, HistoryAppend

LEMMA HistoryReadSource ==
  ASSUME IInv, HistoryInv, NEW c \in Clients, ReadSource(c) PROVE HistoryInv'
<1>1. PICK s \in known : Become(c, [Call("insert", s) EXCEPT !.seen = sessions[s]])
  BY DEF ReadSource
<1> DEFINE next == [Call("insert", s) EXCEPT !.seen = sessions[s]]
<1>2. s \in DOMAIN sessions /\ s \in 0..MaxSessions
  BY WorkerBounds DEF IInv, TypeOK
<1>3. next.session = s /\ next.seen = sessions[s] /\ Become(c, next)
  BY <1>1, <1>2, TracesTyped, CopyTyped
<1>4. UNCHANGED <<sessions, jobs, nextRun>>
  BY DEF ReadSource
<1> HIDE DEF next
<1>5. calls'[c] = next /\ \A d \in Clients \ {c} : calls'[d] = calls[d]
  BY <1>3 DEF Become, IInv, TypeOK
<1>6. Begins(sessions[s].trace, sessions[s].trace)
  BY <1>2, TracesTyped DEF Begins
<1>7. CopiesBegin'
  BY <1>3, <1>4, <1>5, <1>6 DEF HistoryInv, CopiesBegin, At
<1> QED
  BY <1>4, <1>7 DEF HistoryInv, ThreadsDiffer, RunsRecorded, BranchesShare

LEMMA HistoryBegin ==
  ASSUME IInv, HistoryInv, NEW c \in Clients, BeginRun(c) PROVE HistoryInv'
<1> DEFINE s == calls[c].session
<1>1. s \in DOMAIN sessions /\ sessions[s] \in WorkerSession /\ nextRun \in Nat
      /\ calls[c] \in WorkerCall
  BY TracesTyped DEF BeginRun, At, Free, IInv, TypeOK
<1>2. CASE Occupied(s)
  <2>1. \A d \in Clients : At(d, "insert")' => calls'[d] = calls[d]
    BY <1>2, FailTyped DEF BeginRun, Fail, At, IInv, TypeOK
  <2> QED
    BY <1>2, <2>1, HistoryQuiet DEF BeginRun
<1>3. CASE ~Occupied(s)
  <2> DEFINE x == [sessions[s] EXCEPT !.status = "running", !.run = nextRun]
             job == [run |-> nextRun, session |-> s, stage |-> "engine",
                     prior |-> sessions[s].messages, result |-> "ok",
                     cancelled |-> FALSE]
             call == [calls[c] EXCEPT !.step = "handle"]
  <2>1. /\ sessions' = [sessions EXCEPT ![s] = x] /\ jobs' = jobs \cup {job}
        /\ nextRun' = nextRun + 1 /\ Become(c, call)
    BY <1>3 DEF BeginRun, Claimed, Move
  <2>2. x.trace = sessions[s].trace /\ x.parent = sessions[s].parent
        /\ x.from = sessions[s].from
    BY <1>1 DEF WorkerSession
  <2>3. call.step # "insert"
    BY <1>1 DEF WorkerCall
  <2>4. job.run = nextRun
    OBVIOUS
  <2> HIDE DEF x, job, call
  <2>5. \A d \in Clients : At(d, "insert")' => calls'[d] = calls[d]
    BY <2>1, <2>3, Moves DEF IInv, TypeOK
  <2>6. DOMAIN sessions' = DOMAIN sessions
        /\ \A n \in DOMAIN sessions :
             /\ sessions'[n].trace = sessions[n].trace
             /\ sessions'[n].parent = sessions[n].parent
             /\ sessions'[n].from = sessions[n].from
    BY <2>1, <2>2 DEF IInv, TypeOK
  <2>7. ThreadsDiffer'
    <3>1. \A j \in jobs : j.run # nextRun
      BY DEF IInv, Fresh, TypeOK, Job, Runs
    <3> QED
      BY <2>1, <2>4, <3>1 DEF HistoryInv, ThreadsDiffer
  <2>8. RunsRecorded'
    <3> SUFFICES ASSUME NEW n \in DOMAIN sessions, NEW i \in DOMAIN sessions[n].trace
                 PROVE  /\ sessions[n].trace[i] < nextRun + 1
                        /\ \A j \in jobs \cup {job} : j.run # sessions[n].trace[i]
      BY <2>1, <2>6 DEF RunsRecorded
    <3>1. sessions[n].trace[i] \in Nat
      <4>1. sessions[n].trace \in Seq(0..MaxRuns)
        BY TracesTyped
      <4>2. sessions[n].trace[i] \in 0..MaxRuns
        <5>1. i \in 1..Len(sessions[n].trace)
          BY <4>1
        <5> QED
          BY <4>1, <5>1, ElementOfSeq
      <4> QED
        BY <4>2, WorkerBounds
    <3>2. sessions[n].trace[i] < nextRun
      BY DEF HistoryInv, RunsRecorded
    <3>3. \A j \in jobs : j.run # sessions[n].trace[i]
      BY DEF HistoryInv, RunsRecorded
    <3> QED
      BY <1>1, <2>4, <3>1, <3>2, <3>3
  <2>9. BranchesShare'
    BY <2>6, BranchesQuiet
  <2>10. CopiesBegin'
    <3> SUFFICES ASSUME NEW d \in Clients, At(d, "insert")'
                 PROVE Begins(calls'[d].seen.trace, sessions'[calls'[d].session].trace)
      BY DEF CopiesBegin
    <3>1. calls'[d] = calls[d] /\ At(d, "insert") /\ calls[d].session \in DOMAIN sessions
      BY <2>5 DEF At, Free, IInv, TypeOK
    <3> QED
      BY <2>6, <3>1 DEF HistoryInv, CopiesBegin
  <2> QED
    BY <2>7, <2>8, <2>9, <2>10 DEF HistoryInv
<1> QED
  BY <1>2, <1>3

\* A trace that lists one line r more: a compaction's, or a run neither side had.
LEMMA SharesGrown ==
  ASSUME NEW b \in WorkerSession, NEW p \in WorkerSession, NEW d, NEW r \in 0..MaxRuns,
         Shares(b, p), d.from = b.from, d.trace = Append(b.trace, r),
         \A n \in DOMAIN p.trace : p.trace[n] = r => r = 0
  PROVE  Shares(d, p)
<1>1. b.trace \in Seq(0..MaxRuns) /\ p.trace \in Seq(0..MaxRuns) /\ b.from \in Nat
  BY DEF WorkerSession
<1>2. /\ Len(d.trace) = Len(b.trace) + 1 /\ d.trace[Len(b.trace) + 1] = r
      /\ \A k \in 1..Len(b.trace) : d.trace[k] = b.trace[k]
      /\ Len(b.trace) \in Nat
  BY <1>1
<1>3. b.from <= Len(b.trace) /\ b.from <= Len(p.trace)
  BY DEF Shares
<1>4. \A k \in 1..d.from : d.trace[k] = p.trace[k]
  BY <1>1, <1>2, <1>3 DEF Shares
<1>5. \A k \in (d.from + 1)..Len(d.trace) :
        \A n \in DOMAIN p.trace : d.trace[k] = p.trace[n] => d.trace[k] = 0
  <2> SUFFICES ASSUME NEW k \in (b.from + 1)..(Len(b.trace) + 1), NEW n \in DOMAIN p.trace
               PROVE  d.trace[k] = p.trace[n] => d.trace[k] = 0
    BY <1>2
  <2>1. CASE k = Len(b.trace) + 1
    BY <1>2, <2>1
  <2>2. CASE k \in (b.from + 1)..Len(b.trace)
    BY <1>1, <1>2, <2>2 DEF Shares
  <2> QED
    BY <1>1, <1>2, <2>1, <2>2
<1> QED
  BY <1>1, <1>2, <1>3, <1>4, <1>5 DEF Shares

LEMMA SourceGrown ==
  ASSUME NEW b \in WorkerSession, NEW p \in WorkerSession, NEW q, NEW r \in 0..MaxRuns,
         Shares(b, p), q.trace = Append(p.trace, r),
         \A n \in DOMAIN b.trace : b.trace[n] = r => r = 0
  PROVE  Shares(b, q)
<1>1. b.trace \in Seq(0..MaxRuns) /\ p.trace \in Seq(0..MaxRuns) /\ b.from \in Nat
  BY DEF WorkerSession
<1>2. /\ Len(q.trace) = Len(p.trace) + 1 /\ q.trace[Len(p.trace) + 1] = r
      /\ \A k \in 1..Len(p.trace) : q.trace[k] = p.trace[k]
      /\ Len(p.trace) \in Nat /\ DOMAIN p.trace = 1..Len(p.trace)
      /\ DOMAIN q.trace = 1..(Len(p.trace) + 1)
  BY <1>1
<1>3. b.from <= Len(b.trace) /\ b.from <= Len(p.trace)
  BY DEF Shares
<1>4. \A k \in 1..b.from : b.trace[k] = q.trace[k]
  BY <1>1, <1>2, <1>3 DEF Shares
<1>5. \A k \in (b.from + 1)..Len(b.trace) :
        \A n \in DOMAIN q.trace : b.trace[k] = q.trace[n] => b.trace[k] = 0
  <2> SUFFICES ASSUME NEW k \in (b.from + 1)..Len(b.trace), NEW n \in DOMAIN q.trace
               PROVE  b.trace[k] = q.trace[n] => b.trace[k] = 0
    OBVIOUS
  <2>1. CASE n = Len(p.trace) + 1
    BY <1>1, <1>2, <2>1
  <2>2. CASE n \in DOMAIN p.trace
    BY <1>1, <1>2, <2>2 DEF Shares
  <2> QED
    BY <1>2, <2>1, <2>2
<1> QED
  BY <1>1, <1>2, <1>3, <1>4, <1>5 DEF Shares

LEMMA HistoryGrown ==
  ASSUME IInv, HistoryInv, NEW s \in DOMAIN sessions, NEW x \in WorkerSession,
         NEW r \in 0..MaxRuns,
         sessions' = [sessions EXCEPT ![s] = x],
         x.parent = sessions[s].parent, x.from = sessions[s].from,
         x.trace = Line(sessions[s].trace, r),
         r < nextRun, \A k \in jobs' : k.run # r,
         \A n \in DOMAIN sessions : \A i \in DOMAIN sessions[n].trace :
           sessions[n].trace[i] = r => r = 0,
         jobs' \subseteq jobs, UNCHANGED nextRun,
         \A c \in Clients : At(c, "insert")' => calls'[c] = calls[c]
  PROVE  HistoryInv'
<1>1. sessions[s] \in WorkerSession /\ sessions[s].trace \in Seq(0..MaxRuns)
  BY TracesTyped
<1>2. /\ DOMAIN sessions' = DOMAIN sessions /\ sessions'[s] = x
      /\ \A n \in DOMAIN sessions : n # s => sessions'[n] = sessions[n]
  BY DEF IInv, TypeOK
<1>3. /\ Len(x.trace) = Len(sessions[s].trace) + 1
      /\ DOMAIN x.trace = DOMAIN sessions[s].trace \cup {Len(sessions[s].trace) + 1}
      /\ x.trace[Len(sessions[s].trace) + 1] = r
      /\ \A k \in DOMAIN sessions[s].trace : x.trace[k] = sessions[s].trace[k]
      /\ Len(sessions[s].trace) \in Nat
  BY <1>1 DEF Line
<1>4. ThreadsDiffer'
  BY DEF HistoryInv, ThreadsDiffer
<1>5. RunsRecorded'
  <2> SUFFICES ASSUME NEW n \in DOMAIN sessions, NEW i \in DOMAIN sessions'[n].trace
               PROVE  /\ sessions'[n].trace[i] < nextRun
                      /\ \A k \in jobs' : k.run # sessions'[n].trace[i]
    BY <1>2 DEF RunsRecorded
  <2>1. CASE n = s /\ i = Len(sessions[s].trace) + 1
    BY <1>2, <1>3, <2>1
  <2>2. CASE ~(n = s /\ i = Len(sessions[s].trace) + 1)
    <3>1. i \in DOMAIN sessions[n].trace /\ sessions'[n].trace[i] = sessions[n].trace[i]
      BY <1>2, <1>3, <2>2
    <3> QED
      BY <3>1 DEF HistoryInv, RunsRecorded
  <2> QED
    BY <2>1, <2>2
<1>6. BranchesShare'
  <2> SUFFICES ASSUME NEW n \in DOMAIN sessions
               PROVE /\ sessions'[n].parent < n
                     /\ sessions'[n].parent # 0 =>
                          Shares(sessions'[n], sessions'[sessions'[n].parent])
    BY <1>2 DEF BranchesShare
  <2> DEFINE p == sessions[n].parent
  <2>1. /\ p \in Nat /\ p < n /\ sessions'[n].parent = p
        /\ p # 0 => p \in DOMAIN sessions /\ p # n
    <3>1. n \in 1..Len(sessions) /\ p \in Nat /\ p < n /\ Len(sessions) \in Nat
          /\ DOMAIN sessions = 1..Len(sessions)
      BY TracesTyped DEF IInv, TypeOK, HistoryInv, BranchesShare
    <3>2. sessions'[n].parent = p
      BY <1>2
    <3> QED
      BY <3>1, <3>2
  <2>2. ASSUME p # 0 PROVE Shares(sessions'[n], sessions'[p])
    <3>1. /\ Shares(sessions[n], sessions[p]) /\ p \in DOMAIN sessions /\ p # n
          /\ sessions[n] \in WorkerSession /\ sessions[p] \in WorkerSession
      BY <2>1, <2>2, TracesTyped DEF HistoryInv, BranchesShare
    <3>2. CASE n = s
      <4>1. \A i \in DOMAIN sessions[p].trace : sessions[p].trace[i] = r => r = 0
        BY <3>1
      <4>2. Shares(x, sessions[p])
        BY <3>1, <3>2, <4>1, SharesGrown DEF Line
      <4> QED
        BY <1>2, <3>1, <3>2, <4>2
    <3>3. CASE p = s
      <4>1. \A i \in DOMAIN sessions[n].trace : sessions[n].trace[i] = r => r = 0
        OBVIOUS
      <4>2. Shares(sessions[n], x)
        BY <3>1, <3>3, <4>1, SourceGrown DEF Line
      <4> QED
        BY <1>2, <3>1, <3>3, <4>2
    <3>4. CASE n # s /\ p # s
      BY <1>2, <3>1, <3>4
    <3> QED
      BY <3>2, <3>3, <3>4
  <2> QED
    BY <2>1, <2>2
<1>7. CopiesBegin'
  <2> SUFFICES ASSUME NEW c \in Clients, At(c, "insert")'
               PROVE Begins(calls'[c].seen.trace, sessions'[calls'[c].session].trace)
    BY DEF CopiesBegin
  <2>1. /\ calls'[c] = calls[c] /\ calls[c].session \in DOMAIN sessions
        /\ Begins(calls[c].seen.trace, sessions[calls[c].session].trace)
    BY DEF At, Free, IInv, TypeOK, HistoryInv, CopiesBegin
  <2>2. CASE calls[c].session # s
    BY <1>2, <2>1, <2>2
  <2>3. CASE calls[c].session = s
    <3>1. calls[c].seen.trace \in Seq(0..MaxRuns)
      BY TracesTyped
    <3>2. /\ Len(calls[c].seen.trace) <= Len(sessions[s].trace)
          /\ \A k \in DOMAIN calls[c].seen.trace :
               sessions[s].trace[k] = calls[c].seen.trace[k]
      BY <2>1, <2>3 DEF Begins
    <3>3. \A k \in DOMAIN calls[c].seen.trace : k \in DOMAIN sessions[s].trace
      BY <1>1, <3>1, <3>2
    <3>4. Len(calls[c].seen.trace) <= Len(x.trace)
      BY <1>3, <3>1, <3>2
    <3>5. Begins(calls[c].seen.trace, x.trace)
      BY <1>3, <3>2, <3>3, <3>4 DEF Begins
    <3> QED
      BY <1>2, <2>1, <2>3, <3>5
  <2> QED
    BY <2>2, <2>3
<1> QED
  BY <1>4, <1>5, <1>6, <1>7 DEF HistoryInv

\* One session changes, its trace at most by a line.
LEMMA HistoryOne ==
  ASSUME IInv, HistoryInv, NEW s \in DOMAIN sessions, NEW x \in WorkerSession,
         sessions' = [sessions EXCEPT ![s] = x],
         x.parent = sessions[s].parent, x.from = sessions[s].from,
         x.trace = sessions[s].trace,
         jobs' \subseteq jobs, UNCHANGED nextRun,
         \A c \in Clients : At(c, "insert")' => calls'[c] = calls[c]
  PROVE  HistoryInv'
<1>1. DOMAIN sessions' = DOMAIN sessions
      /\ \A n \in DOMAIN sessions :
           /\ sessions'[n].trace = sessions[n].trace
           /\ sessions'[n].parent = sessions[n].parent
           /\ sessions'[n].from = sessions[n].from
  BY DEF IInv, TypeOK
<1> QED
  BY <1>1, HistoryQuiet

LEMMA HistoryApply ==
  ASSUME IInv, HistoryInv, NEW c \in Clients, ApplyCompaction(c) PROVE HistoryInv'
<1> DEFINE s == calls[c].session
<1>1. s \in DOMAIN sessions /\ 0 < nextRun
  BY DEF ApplyCompaction, At, Free, IInv, TypeOK
<1>2. PICK x \in WorkerSession :
        /\ sessions' = [sessions EXCEPT ![s] = x]
        /\ x.parent = sessions[s].parent /\ x.from = sessions[s].from
        /\ x.trace = sessions[s].trace \/ x.trace = Line(sessions[s].trace, 0)
  BY Compacted
<1>3. \A d \in Clients : At(d, "insert")' => calls'[d] = calls[d]
  BY FailTyped DEF ApplyCompaction, At, IInv, TypeOK
<1>4. UNCHANGED <<jobs, nextRun>> /\ 0 \in 0..MaxRuns /\ \A k \in jobs : k.run # 0
  BY WorkerBounds DEF ApplyCompaction, IInv, TypeOK, Job, Runs
<1>5. CASE x.trace = sessions[s].trace
  BY <1>1, <1>2, <1>3, <1>4, <1>5, HistoryOne
<1>6. CASE x.trace = Line(sessions[s].trace, 0)
  BY <1>1, <1>2, <1>3, <1>4, <1>6, HistoryGrown
<1> QED
  BY <1>2, <1>5, <1>6

LEMMA HistoryCancel ==
  ASSUME IInv, HistoryInv, NEW c \in Clients, Cancel(c) PROVE HistoryInv'
<1>1. PICK s \in known :
        sessions' = [sessions EXCEPT ![s] = [@ EXCEPT !.status = "cancelling"]]
  BY DEF Cancel
<1> DEFINE x == [sessions[s] EXCEPT !.status = "cancelling"]
<1>2. s \in DOMAIN sessions /\ sessions[s] \in WorkerSession
      /\ "cancelling" \in WorkerStatus
  BY TracesTyped DEF IInv, TypeOK, WorkerStatus, Busy
<1>3. /\ x \in WorkerSession /\ x.trace = sessions[s].trace
      /\ x.parent = sessions[s].parent /\ x.from = sessions[s].from
  BY <1>2 DEF WorkerSession
<1>4. sessions' = [sessions EXCEPT ![s] = x]
  BY <1>1
<1> HIDE DEF x
<1> QED
  BY <1>2, <1>3, <1>4, HistoryOne DEF Cancel, At

\* Continue and ReadForCompact read; Observe and CompactionFailed answer.
LEMMA HistoryRead ==
  ASSUME IInv, HistoryInv, NEW c \in Clients,
         Continue(c) \/ ReadForCompact(c) \/ Observe(c) \/ CompactionFailed(c)
  PROVE  HistoryInv'
<1>1. UNCHANGED <<sessions, jobs, nextRun>> /\ Len(sessions) \in Nat
  BY DEF IInv, TypeOK, Continue, ReadForCompact, Observe, CompactionFailed
<1>2. \A s \in known : s \in DOMAIN sessions /\ s \in 0..MaxSessions
                      /\ sessions[s] \in WorkerSession
  BY TracesTyped, WorkerBounds DEF IInv, TypeOK
<1>3. calls \in [Clients -> WorkerCall] /\ calls[c] \in WorkerCall
  BY DEF IInv, TypeOK
<1>4. \A d \in Clients : At(d, "insert")' => calls'[d] = calls[d]
  <2>1. CASE Continue(c)
    <3>1. PICK s \in known : Become(c, Call("begin", s))
      BY <2>1 DEF Continue
    <3>2. Call("begin", s).step # "insert"
      BY <1>2, CallTyped
    <3> QED
      BY <1>3, <3>1, <3>2, Moves
  <2>2. CASE ReadForCompact(c)
    <3>1. PICK s \in known : Become(c, [Call("engine", s) EXCEPT !.seen = sessions[s]])
      BY <2>2 DEF ReadForCompact
    <3>2. [Call("engine", s) EXCEPT !.seen = sessions[s]].step # "insert"
      BY <1>2, CopyTyped
    <3> QED
      BY <1>3, <3>1, <3>2, Moves
  <2>3. CASE Observe(c) \/ CompactionFailed(c)
    BY <1>3, <2>3, FailTyped DEF Observe, CompactionFailed, Fail, At
  <2> QED
    BY <2>1, <2>2, <2>3
<1> QED
  BY <1>1, <1>4, HistoryQuiet

LEMMA HistoryEngine ==
  ASSUME IInv, HistoryInv, NEW j \in jobs, EngineReturns(j) PROVE HistoryInv'
<1>1. PICK k : k.run = j.run /\ jobs' = (jobs \ {j}) \cup {k}
  <2>1. PICK result \in {"ok", "error", "empty"} :
          jobs' = (jobs \ {j}) \cup
                    {[j EXCEPT !.stage = "finish", !.result = result,
                               !.cancelled = j.run \in tokens]}
    BY DEF EngineReturns
  <2>2. j \in Job
    BY DEF IInv, TypeOK
  <2>3. [j EXCEPT !.stage = "finish", !.result = result,
                  !.cancelled = j.run \in tokens].run = j.run
    BY <2>2 DEF Job
  <2> QED
    BY <2>1, <2>3
<1>2. UNCHANGED <<sessions, calls, nextRun>>
  BY DEF EngineReturns
<1>3. ThreadsDiffer' /\ RunsRecorded'
  BY <1>1, <1>2 DEF HistoryInv, ThreadsDiffer, RunsRecorded
<1>4. BranchesShare' /\ CopiesBegin'
  BY <1>2 DEF HistoryInv, BranchesShare, CopiesBegin, At
<1> QED
  BY <1>3, <1>4 DEF HistoryInv

LEMMA HistoryFinish ==
  ASSUME IInv, HistoryInv, NEW j \in jobs, FinishRun(j) PROVE HistoryInv'
<1> DEFINE s == j.session
           x == Finished(sessions[s], j)
<1>1. /\ j \in Job /\ s \in DOMAIN sessions /\ sessions[s].run = j.run
      /\ sessions[s] \in WorkerSession
      /\ j.run \in 0..MaxRuns /\ j.run < nextRun
  BY TracesTyped DEF IInv, TypeOK, OneRunPerSession, Fresh, Job, Runs
<1>2. /\ sessions' = [sessions EXCEPT ![s] = x] /\ jobs' = jobs \ {j}
      /\ UNCHANGED <<calls, nextRun>>
  BY <1>1 DEF FinishRun
<1>3. x \in WorkerSession
  BY <1>1, FinishedTyped
<1>4. /\ x.parent = sessions[s].parent /\ x.from = sessions[s].from
      /\ x.trace = sessions[s].trace \/ x.trace = Line(sessions[s].trace, j.run)
  BY <1>1 DEF Finished, Apply, Line, WorkerSession
<1> HIDE DEF x
<1>5. \A k \in jobs' : k.run # j.run
  BY <1>2 DEF HistoryInv, ThreadsDiffer
<1>6. \A n \in DOMAIN sessions : \A i \in DOMAIN sessions[n].trace :
         sessions[n].trace[i] = j.run => j.run = 0
  BY DEF HistoryInv, RunsRecorded
<1>7. \A d \in Clients : At(d, "insert")' => calls'[d] = calls[d]
  BY <1>2
<1>8. CASE x.trace = sessions[s].trace
  BY <1>1, <1>2, <1>3, <1>4, <1>7, <1>8, HistoryOne
<1>9. CASE x.trace = Line(sessions[s].trace, j.run)
  <2> DEFINE r == j.run
  <2>1. r \in 0..MaxRuns /\ r < nextRun /\ x.trace = Line(sessions[s].trace, r)
    BY <1>1, <1>9
  <2>2. /\ \A k \in jobs' : k.run # r
        /\ \A n \in DOMAIN sessions : \A i \in DOMAIN sessions[n].trace :
             sessions[n].trace[i] = r => r = 0
    BY <1>5, <1>6
  <2>3. jobs' \subseteq jobs /\ UNCHANGED nextRun
    BY <1>2
  <2> HIDE DEF r, s
  <2> QED
    BY <1>1, <1>2, <1>3, <1>4, <1>7, <2>1, <2>2, <2>3, HistoryGrown
<1> QED
  BY <1>4, <1>8, <1>9

LEMMA HistoryStep == IInv /\ HistoryInv /\ [Next]_vars => HistoryInv'
<1> SUFFICES ASSUME IInv, HistoryInv, [Next]_vars PROVE HistoryInv'
  OBVIOUS
<1>1. ASSUME NEW c \in Clients, Request(c) PROVE HistoryInv'
  BY <1>1, HistoryStart, HistoryRead, HistoryCancel, HistoryReadSource DEF Request
<1>2. ASSUME NEW c \in Clients, Serve(c) PROVE HistoryInv'
  BY <1>2, HistoryBegin, HistoryRead, HistoryInsert, HistoryApply DEF Serve
<1>3. ASSUME NEW j \in jobs, EngineReturns(j) \/ FinishRun(j) PROVE HistoryInv'
  BY <1>3, HistoryEngine, HistoryFinish
<1>4. CASE UNCHANGED vars
  BY <1>4 DEF vars, HistoryInv, ThreadsDiffer, RunsRecorded, BranchesShare,
              CopiesBegin, At
<1> QED
  BY <1>1, <1>2, <1>3, <1>4 DEF Next, RunThread

LEMMA SharedHistory == IInv /\ HistoryInv => BranchSharesHistory
<1> SUFFICES ASSUME IInv, HistoryInv, NEW s \in DOMAIN sessions, sessions[s].parent # 0
             PROVE LET b == sessions[s] IN
      /\ b.from <= Len(b.trace) /\ b.from <= Len(sessions[b.parent].trace)
      /\ SubSeq(b.trace, 1, b.from) = SubSeq(sessions[b.parent].trace, 1, b.from)
      /\ \A k \in (b.from + 1)..Len(b.trace) :
           \A n \in DOMAIN sessions[b.parent].trace :
             b.trace[k] = sessions[b.parent].trace[n] => b.trace[k] = 0
  BY DEF BranchSharesHistory
<1> DEFINE b == sessions[s]
           p == sessions[b.parent]
<1>1. /\ s \in 1..Len(sessions) /\ b.parent \in Nat /\ b.parent < s
      /\ Len(sessions) \in Nat /\ DOMAIN sessions = 1..Len(sessions)
  BY TracesTyped DEF IInv, TypeOK, HistoryInv, BranchesShare
<1>2. b.parent \in DOMAIN sessions
  BY <1>1
<1>3. b.trace \in Seq(0..MaxRuns) /\ p.trace \in Seq(0..MaxRuns) /\ b.from \in Nat
  BY <1>2, TracesTyped
<1>4. Shares(b, p)
  BY DEF HistoryInv, BranchesShare
<1> HIDE DEF b, p
<1>5. /\ b.from <= Len(b.trace) /\ b.from <= Len(p.trace)
      /\ \A k \in 1..b.from : b.trace[k] = p.trace[k]
      /\ \A k \in (b.from + 1)..Len(b.trace) :
           \A n \in DOMAIN p.trace : b.trace[k] = p.trace[n] => b.trace[k] = 0
  BY <1>4 DEF Shares
<1>6. SubSeq(b.trace, 1, b.from) = [i \in 1..b.from |-> b.trace[i]]
  BY <1>3, <1>5
<1>7. SubSeq(p.trace, 1, b.from) = [i \in 1..b.from |-> p.trace[i]]
  BY <1>3, <1>5
<1>8. SubSeq(b.trace, 1, b.from) = SubSeq(p.trace, 1, b.from)
  BY <1>5, <1>6, <1>7
<1> QED
  BY <1>5, <1>8 DEF b, p

\* A branch shares with its source the history up to the point it records and
\* nothing of what either has run since, however many clients branch, run and
\* compact the two at once (branch, begin_run, finish_run, apply_execution).
THEOREM BranchSharesHistoryHolds == Spec => []BranchSharesHistory
  BY InitEstablishes, StepPreserves, HistoryInit, HistoryStep, SharedHistory, PTL
  DEF Spec
=============================================================================
