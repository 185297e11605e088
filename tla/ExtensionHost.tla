---------------------------- MODULE ExtensionHost ----------------------------
(***************************************************************************)
(* rupi_extension::ExtensionHost: callers that start one Node process       *)
(* between them, ask it one request at a time and lose it; stop and         *)
(* shutdown beside them.  A lock section of the host is a step; the start   *)
(* lock and the request lock of a process are held over several.            *)
(*                                                                         *)
(* A request goes into a pipe and an answer comes out of one, where a       *)
(* reader thread takes it to the caller over a bounded channel: it has sent *)
(* the first ChannelSize lines of "outbox" and is blocked with the next.    *)
(* Who lets go of a process last kills it and waits for that thread.        *)
(*                                                                         *)
(* The Node process is the environment: it runs the requests in the order   *)
(* of its input, or does not read them, answers, writes lines of its own,   *)
(* hangs or exits.                                                          *)
(***************************************************************************)
EXTENDS Integers, Sequences, FiniteSets

CONSTANTS
  Calls,         \* the requests made of the host
  Kinds,         \* what they may be, of {"tool", "lifecycle", "shutdown"}
  MaxProcesses,  \* bound: processes spawned
  MaxStops,      \* bound: calls of stop
  ChannelSize,   \* lines the reader's channel holds, 8 in the code
  MaxLines       \* bound: lines the processes write of their own accord

VARIABLES
  status,     \* HostStatus
  child,      \* the host's process, 0 for none
  startLock,  \* the call in start_with_context, or NoCall
  locked,     \* the host's lock is kept by a call that waits for a reader
  call,       \* the calls, see TypeOK
  over,       \* calls that are cancelled or past their deadline
  alive,      \* processes that run
  spawned,    \* processes made so far
  askLock,    \* request_lock, by process
  nextId,     \* next_id, by process
  inbox,      \* requests a process has not read, each [id, of, load]
  busy,       \* the process runs the first of them
  ready,      \* the process has its modules, so its tools
  outbox,     \* lines it wrote and nobody has received, each [id, ok]
  lines,      \* lines of its own so far
  stops,      \* stops so far
  ran         \* history: how often the extension ran a call

host == <<status, child, startLock, locked>>
node == <<inbox, busy, ready, outbox, lines>>
vars == <<host, call, over, alive, spawned, askLock, nextId, node, stops, ran>>

Processes == 1..MaxProcesses
NoCall == "no call"
Stray == 0  \* the id of a line of the process's own
Results == {"none", "ok", "threw", "lost", "protocol", "refused"}

TypeOK ==
  /\ status \in {"not started", "starting", "ready", "stopped", "failed"}
  /\ child \in 0..spawned /\ spawned \in 0..MaxProcesses
  /\ startLock \in Calls \cup {NoCall} /\ locked \in BOOLEAN /\ over \subseteq Calls
  /\ call \in [Calls -> [at : {"idle", "start", "begin", "spawn", "publish", "ask", "write",
                               "await", "loaded", "pick", "forget", "join", "stop", "done"},
                         kind : Kinds, loading : BOOLEAN, proc : 0..spawned, id : Nat,
                         result : Results]]
  /\ alive \subseteq 1..spawned /\ askLock \in [Processes -> Calls \cup {NoCall}]
  /\ nextId \in [Processes -> Nat \ {0}] /\ {busy, ready} \subseteq [Processes -> BOOLEAN]
  /\ \A p \in Processes :
       Len(inbox[p]) <= Cardinality(Calls) + 1 /\ Len(outbox[p]) <= MaxLines + Cardinality(Calls) + 1

Init ==
  /\ status = "not started" /\ child = 0 /\ startLock = NoCall
  /\ locked = FALSE
  /\ call = [c \in Calls |-> [at |-> "idle", kind |-> CHOOSE k \in Kinds : TRUE,
                              loading |-> FALSE, proc |-> 0, id |-> 0, result |-> "none"]]
  /\ over = {} /\ alive = {} /\ spawned = 0
  /\ askLock = [p \in Processes |-> NoCall] /\ nextId = [p \in Processes |-> 1]
  /\ inbox = [p \in Processes |-> <<>>] /\ outbox = inbox
  /\ busy = [p \in Processes |-> FALSE] /\ ready = busy /\ lines = 0
  /\ stops = 0 /\ ran = [c \in Calls |-> 0]

-----------------------------------------------------------------------------
(* Processes.                                                              *)

\* A call has its process in hand until it lets go of it, the host its child.
Last(p, holder, c) == holder # p /\ \A d \in Calls \ {c} : call[d].proc # p

\* The reader ends with what a killed process wrote, unless that is more than the
\* channel holds: nobody will receive it, so the reader waits for ever.
Blocked(p) == Len(outbox[p]) > ChannelSize

\* The call is through with its process and goes on at "at": Drop for Process kills
\* the one that neither "holder" nor a call has, and joins its reader; "others" are
\* dropped beside it.
LetGo(c, holder, at, result, others) ==
  LET p == call[c].proc
      last == Last(p, holder, c)
  IN /\ alive' = (IF last THEN alive \ {p} ELSE alive) \ others
     /\ call' = [call EXCEPT ![c].at = IF last /\ Blocked(p) THEN "join" ELSE at,
                             ![c].proc = IF last /\ Blocked(p) THEN p ELSE 0,
                             ![c].id = 0, ![c].loading = FALSE, ![c].result = result]

\* Where a call goes on in the end: a shutdown stops the host.
End(c) == IF call[c].kind = "shutdown" THEN "stop" ELSE "done"

\* A call that failed before its request.
Refused(c, result) ==
  [call EXCEPT ![c].at = End(c), ![c].result = result]

-----------------------------------------------------------------------------
(* start_with_context.                                                     *)

Begin(c, kind) ==
  /\ call[c].at = "idle" /\ ~locked
  /\ call' = [call EXCEPT ![c].kind = kind,
                          ![c].at = IF kind = "shutdown" /\ status # "ready" THEN "stop" ELSE "start"]
  /\ UNCHANGED <<host, over, alive, spawned, askLock, nextId, node, stops, ran>>

Start(c) ==
  /\ call[c].at = "start" /\ startLock = NoCall /\ ~locked
  /\ IF status = "ready"
     THEN /\ call' = [call EXCEPT ![c].at = "pick"] /\ UNCHANGED startLock
     ELSE /\ call' = [call EXCEPT ![c].at = "begin"] /\ startLock' = c
  /\ UNCHANGED <<status, child, locked, over, alive, spawned, askLock, nextId, node, stops, ran>>

\* A module that is not there; or Starting, and a call that is over stops the
\* host.
Validate(c) ==
  /\ call[c].at = "begin" /\ ~locked
  /\ \/ /\ status' = "failed" /\ startLock' = NoCall /\ call' = Refused(c, "refused")
        /\ UNCHANGED <<child, alive>>
     \/ /\ c \in over
        /\ status' = "stopped" /\ child' = 0 /\ startLock' = NoCall
        /\ alive' = alive \ {child} /\ call' = Refused(c, "lost")
     \/ /\ c \notin over
        /\ status' = "starting" /\ call' = [call EXCEPT ![c].at = "spawn"]
        /\ UNCHANGED <<child, startLock, alive>>
  /\ UNCHANGED <<locked, over, spawned, askLock, nextId, node, stops, ran>>

\* A path that is no URL leaves the status as it is.
Spawn(c) ==
  /\ call[c].at = "spawn" /\ ~locked
  /\ \/ /\ status' \in {status, "failed"} /\ startLock' = NoCall /\ call' = Refused(c, "refused")
        /\ UNCHANGED <<alive, spawned>>
     \/ /\ spawned < MaxProcesses
        /\ spawned' = spawned + 1 /\ alive' = alive \cup {spawned'}
        /\ call' = [call EXCEPT ![c].at = "publish", ![c].proc = spawned']
        /\ UNCHANGED <<status, startLock>>
  /\ UNCHANGED <<child, locked, over, askLock, nextId, node, stops, ran>>

Publish(c) ==
  /\ call[c].at = "publish" /\ ~locked
  /\ child' = call[c].proc
  /\ call' = [call EXCEPT ![c].at = "ask", ![c].loading = TRUE]
  /\ UNCHANGED <<status, startLock, locked, over, alive, spawned, askLock, nextId, node, stops, ran>>

\* The start lock is kept until the process is let go of.
Loaded(c) ==
  /\ call[c].at = "loaded" /\ ~locked
  /\ IF call[c].result = "ok"
     THEN status' = "ready" /\ UNCHANGED child /\ LetGo(c, child, "pick", "none", {})
     ELSE status' = "failed" /\ child' = 0 /\ LetGo(c, 0, End(c), call[c].result, {})
  /\ startLock' = IF call'[c].at = "join" THEN c ELSE NoCall
  /\ UNCHANGED <<locked, over, spawned, askLock, nextId, node, stops, ran>>

-----------------------------------------------------------------------------
(* request_with_context and Process::request.                              *)

Pick(c) ==
  /\ call[c].at = "pick" /\ ~locked
  /\ call' = IF child = 0 THEN Refused(c, "lost")
             ELSE [call EXCEPT ![c].at = "ask", ![c].proc = child]
  /\ UNCHANGED <<host, over, alive, spawned, askLock, nextId, node, stops, ran>>

\* The call leaves request, whose lock is free.  A load is recorded and a lost
\* process forgotten before it is let go of.
Answered(c, result) ==
  /\ IF call[c].loading \/ result = "lost"
     THEN /\ call' = [call EXCEPT ![c].at = IF call[c].loading THEN "loaded" ELSE "forget",
                                 ![c].id = 0, ![c].result = result]
          /\ alive' = IF result = "lost" THEN alive \ {call[c].proc} ELSE alive
     ELSE LetGo(c, child, End(c), result, {})
  /\ askLock' = [askLock EXCEPT ![call[c].proc] = NoCall]

\* A request: lost when the process has exited, killed with it when the call is
\* over, too large, or to be written.
Ask(c) ==
  LET p == call[c].proc IN
  /\ call[c].at = "ask" /\ askLock[p] = NoCall
  /\ \/ /\ p \notin alive \/ c \in over
        /\ Answered(c, "lost") /\ UNCHANGED nextId
     \/ /\ p \in alive /\ c \notin over /\ ~call[c].loading
        /\ nextId' = [nextId EXCEPT ![p] = @ + 1]
        /\ Answered(c, "protocol")
     \/ /\ p \in alive /\ c \notin over
        /\ askLock' = [askLock EXCEPT ![p] = c]
        /\ nextId' = [nextId EXCEPT ![p] = @ + 1]
        /\ call' = [call EXCEPT ![c].at = "write", ![c].id = nextId[p]]
        /\ UNCHANGED alive
  /\ UNCHANGED <<host, over, spawned, node, stops, ran>>

\* write_all ends when the pipe has room for the request, which it may have only
\* after the process has read; it watches neither the token nor the deadline.
Written(c) ==
  LET p == call[c].proc IN
  /\ call[c].at = "write" /\ p \in alive
  /\ call' = [call EXCEPT ![c].at = "await"]
  /\ inbox' = [inbox EXCEPT ![p] = Append(@, [id |-> call[c].id, of |-> c, load |-> call[c].loading])]
  /\ UNCHANGED <<host, over, alive, spawned, askLock, nextId, busy, ready, outbox, lines,
                 stops, ran>>

\* Nobody reads the pipe any more.
WriteFails(c) ==
  /\ call[c].at = "write" /\ call[c].proc \notin alive
  /\ Answered(c, "lost")
  /\ UNCHANGED <<host, over, spawned, nextId, node, stops, ran>>

\* What a line says to the call: its own answer, or a protocol error.
ResultOf(c, line) ==
  IF line.id # call[c].id THEN "protocol" ELSE IF line.ok THEN "ok" ELSE "threw"

Receive(c) ==
  LET p == call[c].proc IN
  /\ call[c].at = "await" /\ outbox[p] # <<>>
  /\ Answered(c, ResultOf(c, Head(outbox[p])))
  /\ outbox' = [outbox EXCEPT ![p] = Tail(@)]
  /\ UNCHANGED <<host, over, spawned, nextId, inbox, busy, ready, lines, stops, ran>>

\* The wait is over: the process is killed.  Or its output has ended.
GiveUp(c) ==
  LET p == call[c].proc IN
  /\ call[c].at = "await"
  /\ c \in over \/ (p \notin alive /\ outbox[p] = <<>>)
  /\ Answered(c, "lost")
  /\ UNCHANGED <<host, over, spawned, nextId, node, stops, ran>>

\* A lost process is forgotten, whichever the host holds by now; if nobody else has
\* that one, its reader is joined with the host locked.
Forget(c) ==
  LET p == call[c].proc
      last == child \notin {0, p} /\ Last(child, 0, c)
      waits == last /\ Blocked(child)
  IN
  /\ call[c].at = "forget" /\ ~locked
  /\ status' = "stopped" /\ child' = 0
  /\ IF waits
     THEN /\ alive' = alive \ {child} /\ locked' = TRUE
          /\ call' = [call EXCEPT ![c].at = "join"]
     ELSE /\ LetGo(c, 0, End(c), "lost", IF last THEN {child} ELSE {})
          /\ UNCHANGED locked
  /\ UNCHANGED <<startLock, over, spawned, askLock, nextId, node, stops, ran>>

-----------------------------------------------------------------------------
(* stop, the clock and the process.                                        *)

Stopped ==
  /\ ~locked
  /\ status' = "stopped" /\ child' = 0 /\ alive' = alive \ {child}

\* stop, by a thread that has no call: only that one waits for a blocked reader.
Stop ==
  /\ stops < MaxStops /\ stops' = stops + 1 /\ Stopped
  /\ UNCHANGED <<startLock, locked, call, over, spawned, askLock, nextId, node, ran>>

Shutdown(c) ==
  /\ call[c].at = "stop" /\ Stopped
  /\ call' = IF Last(child, 0, c) /\ child # 0 /\ Blocked(child)
             THEN [call EXCEPT ![c].at = "join", ![c].proc = child]
             ELSE [call EXCEPT ![c].at = "done"]
  /\ UNCHANGED <<startLock, locked, over, spawned, askLock, nextId, node, stops, ran>>

\* Only a tool call has a deadline and a token.
Expire(c) ==
  /\ call[c].kind = "tool" /\ call[c].at \notin {"idle", "done"}
  /\ c \notin over /\ over' = over \cup {c}
  /\ UNCHANGED <<host, call, alive, spawned, askLock, nextId, node, stops, ran>>

\* A process that has not loaded its modules knows no tool.
Run(p) ==
  /\ p \in alive /\ ~busy[p] /\ inbox[p] # <<>>
  /\ busy' = [busy EXCEPT ![p] = TRUE]
  /\ ran' = IF ready[p] THEN [ran EXCEPT ![Head(inbox[p]).of] = @ + 1] ELSE ran
  /\ UNCHANGED <<host, call, over, alive, spawned, askLock, nextId, inbox, ready, outbox,
                 lines, stops>>

\* A module that loads and a tool that runs may throw.
Answer(p, ok) ==
  LET request == Head(inbox[p]) IN
  /\ p \in alive /\ busy[p]
  /\ ok => request.load \/ ready[p]
  /\ busy' = [busy EXCEPT ![p] = FALSE] /\ ready' = [ready EXCEPT ![p] = @ \/ (ok /\ request.load)]
  /\ inbox' = [inbox EXCEPT ![p] = Tail(@)]
  /\ outbox' = [outbox EXCEPT ![p] = Append(@, [id |-> request.id, ok |-> ok])]
  /\ UNCHANGED <<host, call, over, alive, spawned, askLock, nextId, lines, stops, ran>>

\* A line of its own; the reader, when it comes to an overlong one, kills the process.
Chatter(p) ==
  /\ p \in alive /\ lines < MaxLines /\ lines' = lines + 1
  /\ outbox' = [outbox EXCEPT ![p] = Append(@, [id |-> Stray, ok |-> TRUE])]
  /\ alive' = alive \/ (~Blocked(p) /\ alive' = alive \ {p})
  /\ UNCHANGED <<host, call, over, spawned, askLock, nextId, inbox, busy, ready, stops, ran>>

Exit(p) ==
  /\ p \in alive /\ alive' = alive \ {p}
  /\ UNCHANGED <<host, call, over, spawned, askLock, nextId, node, stops, ran>>

Step(c) ==
  \/ Start(c) \/ Validate(c) \/ Spawn(c) \/ Publish(c) \/ Loaded(c) \/ Pick(c) \/ Ask(c)
  \/ WriteFails(c) \/ Receive(c) \/ GiveUp(c) \/ Forget(c) \/ Shutdown(c)

Next ==
  \/ \E c \in Calls : Step(c) \/ Written(c) \/ Expire(c) \/ \E kind \in Kinds : Begin(c, kind)
  \/ \E p \in Processes : Run(p) \/ (\E ok \in BOOLEAN : Answer(p, ok)) \/ Chatter(p) \/ Exit(p)
  \/ Stop

\* The threads of the callers run on.  That a request is written is up to the process,
\* which may not read.
Fairness == \A c \in Calls : WF_vars(Step(c))
Spec == Init /\ [][Next]_vars /\ Fairness

-----------------------------------------------------------------------------
(* Properties.                                                             *)

InProgress(c) == call[c].at \notin {"idle", "done"}

\* A call succeeds only when the extension ran it and this is the answer to that
\* very request, whatever else the process wrote and however many processes came
\* and went; and it is run once at most.
OwnAnswer == \A c \in Calls : (call[c].result = "ok" => ran[c] = 1 \/ call[c].loading) /\ ran[c] <= 1

\* A process lives only as long as the host or a call under way holds it: what
\* the host forgets and the callers leave is killed.
NoProcessOutlives ==
  \A p \in alive : child = p \/ \E c \in Calls : InProgress(c) /\ call[c].proc = p

\* A host that failed to load holds no process itself: it can be started anew.
FailedHoldsNone == status = "failed" => child = 0

\* The known defects: a process that does not read keeps a writer beyond every
\* deadline; and who lets go of a process last waits for a reader that waits for
\* room in a channel nobody receives from any more, with the start lock after a load
\* and with the host's lock after a loss.
WriteStuck(c) == call[c].at = "write"
Jammed == \E c \in Calls : call[c].at = "join"

\* However the calls interleave with stop, with one another and with the death
\* of processes: when every call under way is cancelled or past its deadline,
\* they all end, but for the two known defects.
CallsEnd ==
  (/\ <>[](\A c \in Calls : InProgress(c) => c \in over)
   /\ \A c \in Calls : []<>~WriteStuck(c)
   /\ []~Jammed
  ) => <>[](\A c \in Calls : ~InProgress(c))

=============================================================================
