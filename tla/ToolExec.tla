------------------------------ MODULE ToolExec ------------------------------
(***************************************************************************)
(* rupi_tools::exec::run_command, shared by the exec and process tools,    *)
(* with the checks that come before it: a child in a process group of its  *)
(* own, two threads that read its pipes into a bounded channel, the loop   *)
(* that drains the channel against two deadlines and a cancel token, the   *)
(* kill of the group, the join of the readers and the reaping of the       *)
(* child.                                                                  *)
(*                                                                         *)
(* The child and one descendant of it are the environment: they write, hand *)
(* pipes down, leave the group, close a pipe or exit whenever they like.   *)
(* Output is counted in chunks.                                            *)
(***************************************************************************)
EXTENDS Integers, FiniteSets

CONSTANTS
  Slots,     \* places of the channel, 16 in the code
  PipeSize,  \* chunks a pipe holds
  CaptureLimit,  \* exec_capture_limit, in chunks
  MaxOutput  \* bound: chunks the processes write

VARIABLES
  execAt,        \* where run_command is
  child,     \* "none", "running", or how it exited: "ok", "error", "killed"
  reaped,    \* the exit status: "no", "seen", or "lost" when it cannot be waited for
  heir,      \* the descendant: "none", "grouped", "escaped", "dead"
  held,      \* the pipes of which the process has a write end, by process
  pipe,      \* chunks in each pipe
  reader,    \* the reader threads: "read", "send" (with a chunk), "done"
  queue,     \* chunks in the channel
  open,      \* the receiver exists
  captured,  \* BoundedProgress::streamed
  stopped,   \* why the run was stopped: subset of Reasons (Drained)
  over,      \* what is over by now: subset of Reasons
  written,   \* history: chunks written so far
  killed,    \* history: terminate_child_tree was called
  cut,       \* history: a read of a pipe failed
  outcome    \* the ToolOutcome, or "refused" for a command that never ran

os == <<child, heir, held, written>>
threads == <<reader, pipe, queue>>
vars == <<execAt, os, reaped, threads, open, captured, stopped, over, killed, cut, outcome>>

Streams == {"stdout", "stderr"}
Processes == {"child", "heir"}
\* deadline: the tool's own timeout.  context: the runtime's deadline.
Reasons == {"deadline", "cancel", "context"}

Alive(p) == IF p = "child" THEN child = "running" ELSE heir \in {"grouped", "escaped"}
Writers(s) == {p \in Processes : s \in held[p]}

TypeOK ==
  /\ execAt \in {"start", "drain", "join", "wait", "finish", "done"}
  /\ child \in {"none", "running", "ok", "error", "killed"} /\ reaped \in {"no", "seen", "lost"}
  /\ heir \in {"none", "grouped", "escaped", "dead"}
  /\ held \in [Processes -> SUBSET Streams]
  /\ pipe \in [Streams -> 0..PipeSize] /\ queue \in 0..Slots
  /\ reader \in [Streams -> {"read", "send", "done"}]
  /\ captured \in 0..CaptureLimit /\ written \in 0..MaxOutput
  /\ stopped \subseteq over /\ over \subseteq Reasons
  /\ {open, killed, cut} \subseteq BOOLEAN
  /\ outcome \in {"none", "refused", "succeeded", "failed", "unknown"}

Init ==
  /\ execAt = "start" /\ child = "none" /\ reaped = "no" /\ heir = "none"
  /\ held = [p \in Processes |-> {}]
  /\ pipe = [s \in Streams |-> 0] /\ reader = [s \in Streams |-> "read"]
  /\ queue = 0 /\ open = TRUE /\ captured = 0
  /\ stopped = {} /\ over = {} /\ written = 0 /\ killed = FALSE
  /\ cut = FALSE /\ outcome = "none"

-----------------------------------------------------------------------------
(* The processes and the clock.                                            *)

Fork(kind, pipes) ==
  /\ child = "running" /\ heir = "none"
  /\ heir' = kind /\ held' = [held EXCEPT !["heir"] = pipes]
  /\ UNCHANGED <<execAt, child, written, reaped, threads, open, captured, stopped, over,
                 killed, cut, outcome>>

\* A write waits for room in the pipe.
Emit(p, s) ==
  /\ Alive(p) /\ s \in held[p] /\ pipe[s] < PipeSize /\ written < MaxOutput
  /\ pipe' = [pipe EXCEPT ![s] = @ + 1] /\ written' = written + 1
  /\ UNCHANGED <<execAt, child, heir, held, reaped, reader, queue, open, captured, stopped,
                 over, killed, cut, outcome>>

CloseEnd(p, s) ==
  /\ Alive(p) /\ s \in held[p]
  /\ held' = [held EXCEPT ![p] = @ \ {s}]
  /\ UNCHANGED <<execAt, child, heir, written, reaped, threads, open, captured, stopped, over,
                 killed, cut, outcome>>

Exit(p, status) ==
  /\ Alive(p)
  /\ IF p = "child" THEN child' = status /\ UNCHANGED heir
                    ELSE heir' = "dead" /\ UNCHANGED child
  /\ held' = [held EXCEPT ![p] = {}]
  /\ UNCHANGED <<execAt, written, reaped, threads, open, captured, stopped, over, killed, cut, outcome>>

\* A deadline passes, or the user cancels.
Expire(reason) ==
  /\ reason \notin over /\ execAt # "done"
  /\ over' = over \cup {reason}
  /\ UNCHANGED <<execAt, os, reaped, threads, open, captured, stopped, killed, cut, outcome>>

-----------------------------------------------------------------------------
(* A reader thread: read a chunk, send it, stop at the end of the pipe,    *)
(* at an error, or when nobody receives any more.                          *)

Read(s) ==
  /\ reader[s] = "read" /\ execAt # "start"
  /\ \/ /\ pipe[s] > 0
        /\ pipe' = [pipe EXCEPT ![s] = @ - 1]
        /\ reader' = [reader EXCEPT ![s] = "send"] /\ UNCHANGED cut
     \/ /\ pipe[s] = 0 /\ Writers(s) = {}
        /\ reader' = [reader EXCEPT ![s] = "done"] /\ UNCHANGED <<pipe, cut>>
     \/ reader' = [reader EXCEPT ![s] = "done"] /\ cut' = TRUE /\ UNCHANGED pipe
  /\ UNCHANGED <<execAt, os, reaped, queue, open, captured, stopped, over, killed, outcome>>

Send(s) ==
  /\ reader[s] = "send"
  /\ IF open THEN /\ queue < Slots /\ queue' = queue + 1
                  /\ reader' = [reader EXCEPT ![s] = "read"]
             ELSE reader' = [reader EXCEPT ![s] = "done"] /\ UNCHANGED queue
  /\ UNCHANGED <<execAt, os, reaped, pipe, open, captured, stopped, over, killed, cut, outcome>>

-----------------------------------------------------------------------------
(* execute_inner and drain.                                                *)

\* The arguments, the directory (search_path, is_dir) and the spawn each may
\* refuse before anything ran; the tool's deadline counts from here.
Spawn ==
  /\ execAt = "start"
  /\ \/ /\ child' = "running" /\ held' = [held EXCEPT !["child"] = Streams]
        /\ execAt' = "drain" /\ UNCHANGED outcome
     \/ execAt' = "done" /\ outcome' = "refused" /\ UNCHANGED <<child, held>>
  /\ UNCHANGED <<heir, written, reaped, threads, open, captured, stopped, over, killed, cut>>

\* terminate_child_tree: the whole group, and the child.
Kill ==
  /\ child' = IF child = "running" THEN "killed" ELSE child
  /\ heir' = IF heir = "grouped" THEN "dead" ELSE heir
  /\ held' = [p \in Processes |-> IF p = "heir" /\ heir = "escaped" THEN held[p] ELSE {}]
  /\ killed' = TRUE

\* The loop ends at the first of the three that it looks at and finds over;
\* the child is killed and the receiver dropped.
StopDraining ==
  /\ execAt = "drain"
  /\ \E reason \in over : stopped' = {reason}
  /\ Kill /\ open' = FALSE /\ queue' = 0 /\ execAt' = "join"
  /\ UNCHANGED <<written, reaped, reader, pipe, captured, over, cut, outcome>>

\* One chunk from the channel.  Beyond the limit it is thrown away, and the
\* child goes on.
Receive ==
  /\ execAt = "drain" /\ queue > 0
  /\ queue' = queue - 1
  /\ captured' = IF captured < CaptureLimit THEN captured + 1 ELSE captured
  /\ UNCHANGED <<execAt, os, reaped, reader, pipe, open, stopped, over, killed, cut, outcome>>

\* Disconnected: both readers have ended and the channel is empty.
Drained ==
  /\ execAt = "drain" /\ queue = 0 /\ \A s \in Streams : reader[s] = "done"
  /\ open' = FALSE /\ execAt' = "join"
  /\ UNCHANGED <<os, reaped, threads, captured, stopped, over, killed, cut, outcome>>

Join ==
  /\ execAt = "join" /\ \A s \in Streams : reader[s] = "done"
  /\ execAt' = "wait"
  /\ UNCHANGED <<os, reaped, threads, open, captured, stopped, over, killed, cut, outcome>>

\* wait_for_exit: try_wait, then the token and the deadlines; after a kill
\* the wait is a blocking one.
Reap ==
  /\ execAt = "wait" /\ child # "running"
  /\ reaped' = "seen" /\ execAt' = "finish"
  /\ UNCHANGED <<os, threads, open, captured, stopped, over, killed, cut, outcome>>

\* The child cannot be waited for.
LoseStatus ==
  /\ execAt = "wait"
  /\ reaped' = "lost" /\ execAt' = "finish"
  /\ UNCHANGED <<os, threads, open, captured, stopped, over, killed, cut, outcome>>

StopWaiting ==
  /\ execAt = "wait" /\ child = "running"
  /\ \E reason \in over : stopped' = stopped \cup {reason}
  /\ Kill
  /\ UNCHANGED <<execAt, written, reaped, threads, open, captured, over, cut, outcome>>

\* finish: a run that was stopped is unknown whatever its status says, and so is
\* one without a status.
Verdict ==
  CASE stopped # {} \/ reaped = "lost" -> "unknown"
    [] stopped = {} /\ reaped # "lost" /\ child = "ok" -> "succeeded"
    [] OTHER -> "failed"

Finish ==
  /\ execAt = "finish" /\ execAt' = "done" /\ outcome' = Verdict
  /\ UNCHANGED <<os, reaped, threads, open, captured, stopped, over, killed, cut>>

-----------------------------------------------------------------------------
Reader(s) == Read(s) \/ Send(s)
Tool ==
  \/ Spawn \/ StopDraining \/ Receive \/ Drained
  \/ Join \/ Reap \/ LoseStatus \/ StopWaiting \/ Finish

Next ==
  \/ \E s \in Streams : Reader(s)
  \/ Tool
  \/ \E kind \in {"grouped", "escaped"}, pipes \in SUBSET held["child"] : Fork(kind, pipes)
  \/ \E p \in Processes, s \in Streams : Emit(p, s) \/ CloseEnd(p, s)
  \/ \E p \in Processes, status \in {"ok", "error"} : Exit(p, status)
  \/ \E reason \in Reasons : Expire(reason)

\* The threads are scheduled and the timeout passes.  Nothing is assumed of
\* the processes.
Fairness ==
  /\ WF_vars(Tool) /\ WF_vars(StopDraining) /\ WF_vars(StopWaiting)
  /\ \A s \in Streams : WF_vars(Reader(s))
  /\ WF_vars(Expire("deadline"))
Spec == Init /\ [][Next]_vars /\ Fairness

-----------------------------------------------------------------------------
\* A command that was killed, at whatever moment, is reported neither as done
\* nor as failed; one that is reported as done, or as failed, ended by itself.
StatusIsHonest ==
  outcome # "none" =>
    /\ killed => outcome = "unknown"
    /\ outcome = "unknown" => killed \/ reaped = "lost"
    /\ outcome = "succeeded" <=> child = "ok" /\ reaped = "seen" /\ ~killed
    /\ outcome = "refused" <=> child = "none"

\* All that the command wrote is in the result, up to the limit, also what was
\* still in a pipe, with a reader or in the channel when it exited.
OutputComplete ==
  outcome \in {"succeeded", "failed"} /\ heir = "none" /\ ~cut =>
    captured = (IF written < CaptureLimit THEN written ELSE CaptureLimit)

\* When the tool returns, nothing of it is left: no reader thread, no zombie
\* and, after a kill, no descendant that stayed in the group.
NothingLeft ==
  outcome \notin {"none", "refused"} =>
    /\ reaped # "no" /\ \A s \in Streams : reader[s] = "done"
    /\ killed => heir # "grouped"

\* A command ends, within its timeout, whatever it does; only a descendant that
\* left the group and keeps a pipe can hold the join of its reader for longer.
CommandEnds == execAt = "start" ~> (execAt = "done" \/ (heir = "escaped" /\ held["heir"] # {}))
=============================================================================
