------------------------------ MODULE McpStdio ------------------------------
(***************************************************************************)
(* One MCP server process behind rupi_mcp::transport::StdioTransport: the  *)
(* callers that share it, the mcp-stdout-reader thread, the pending map,   *)
(* the stdin mutex and the child with its two pipes.                       *)
(*                                                                         *)
(* The lock of the pending map is only ever held for one critical section, *)
(* the stdin mutex for a whole write, which blocks while the pipe is full. *)
(* The child is external: it reads, answers, answers twice, writes a line  *)
(* that is too long, or dies, whenever it likes.                           *)
(***************************************************************************)
EXTENDS Integers, Sequences, FiniteSets

CONSTANTS
  Callers,     \* threads that share the transport
  MaxCalls,    \* bound: the request ids there are, 2^64 - 2 in the code
  PipeRoom     \* bound: requests or lines that fit a pipe

ASSUME StdioBounds == MaxCalls \in Nat

Ids == 1..MaxCalls
Overlong == 0            \* a line above MAX_STDIO_RESPONSE_LINE_BYTES

VARIABLES
  calls,     \* what each caller is doing: [step, id, over, answer]
  nextId,    \* StdioTransport::next_id
  pending,   \* ids in the pending map
  channel,   \* per id: what was sent on its channel, of capacity one
  alive,     \* the AtomicBool
  holder,    \* callers inside the stdin mutex
  stdin,     \* requests written and not read by the child
  stdout,    \* lines written by the child and not read by the reader
  child,     \* "up" or "dead"
  served,    \* requests the child has read
  reader     \* "reading", "draining" or "ended"

vars == <<calls, nextId, pending, channel, alive, holder, stdin, stdout,
          child, served, reader>>

Steps == {"free", "admitted", "oversized", "registered", "notifying", "writing",
          "waiting"}
Answers == {"none", "result", "exited", "interrupted", "broken", "refused"}

\* A notification has no id and no answer.
Notice == 0

Idle == [step |-> "free", id |-> 0, over |-> FALSE, answer |-> "none"]

Init ==
  /\ calls = [c \in Callers |-> Idle] /\ nextId = 1
  /\ pending = {} /\ channel = [i \in Ids |-> <<>>] /\ alive = TRUE
  /\ holder = {} /\ stdin = <<>> /\ stdout = <<>>
  /\ child = "up" /\ served = {} /\ reader = "reading"

(* ------------------------------- a call ---------------------------------- *)

At(c, step) == calls[c].step = step
Set(c, call) == calls' = [calls EXCEPT ![c] = call]
Answer(c, answer) == Set(c, [calls[c] EXCEPT !.step = "free", !.answer = answer])

\* terminate_child: the flag, then the whole process group.
Terminate == alive' = FALSE /\ child' = "dead"

\* The two checks at the top of call_with_context.
Admit(c) ==
  /\ At(c, "free")
  /\ \E over \in BOOLEAN :
       LET call == [Idle EXCEPT !.over = over] IN
       IF ~alive
         THEN Set(c, [call EXCEPT !.answer = "exited"]) /\ UNCHANGED <<alive, child>>
         ELSE IF over
           THEN Set(c, [call EXCEPT !.answer = "interrupted"]) /\ Terminate
           ELSE Set(c, [call EXCEPT !.step = "admitted"]) /\ UNCHANGED <<alive, child>>
  /\ UNCHANGED <<nextId, pending, channel, holder, stdin, stdout, served, reader>>

\* next_request_id
IdSpaceExhausted == nextId > MaxCalls

\* The request may turn out not to serialize, or larger than the line limit.
Register(c) ==
  /\ At(c, "admitted")
  /\ IF IdSpaceExhausted
       THEN Answer(c, "refused") /\ UNCHANGED <<nextId, pending>>
       ELSE /\ nextId' = nextId + 1 /\ pending' = pending \cup {nextId}
            /\ \E step \in {"registered", "oversized"} :
                 Set(c, [calls[c] EXCEPT !.step = step, !.id = nextId])
  /\ UNCHANGED <<channel, alive, holder, stdin, stdout, child, served, reader>>

Forget(c) == pending' = pending \ {calls[c].id}

Refuse(c) ==
  /\ At(c, "oversized")
  /\ Forget(c) /\ Answer(c, "refused")
  /\ UNCHANGED <<nextId, channel, alive, holder, stdin, stdout, child, served, reader>>

\* notify: the liveness check, and the size of the line.
Notify(c) ==
  /\ At(c, "free")
  /\ IF alive
       THEN \E call \in {[Idle EXCEPT !.answer = "refused"],
                         [Idle EXCEPT !.step = "notifying"]} : Set(c, call)
       ELSE Set(c, [Idle EXCEPT !.answer = "exited"])
  /\ UNCHANGED <<nextId, pending, channel, alive, holder, stdin, stdout, child,
                 served, reader>>

LockStdin(c) ==
  /\ At(c, "registered") \/ At(c, "notifying")
  /\ holder = {} /\ holder' = {c}
  /\ Set(c, [calls[c] EXCEPT !.step = "writing"])
  /\ UNCHANGED <<nextId, pending, channel, alive, stdin, stdout, child, served, reader>>

\* writeln! and flush: they return once the pipe has taken the line.
Write(c) ==
  /\ At(c, "writing") /\ child = "up" /\ Len(stdin) < PipeRoom
  /\ stdin' = Append(stdin, calls[c].id) /\ holder' = {}
  /\ IF calls[c].id = Notice THEN Answer(c, "result")
                             ELSE Set(c, [calls[c] EXCEPT !.step = "waiting"])
  /\ UNCHANGED <<nextId, pending, channel, alive, stdout, child, served, reader>>

\* A write to a dead child fails; a notification has no entry to forget.
WriteFails(c) ==
  /\ At(c, "writing") /\ child = "dead"
  /\ Forget(c) /\ Answer(c, "broken") /\ holder' = {} /\ alive' = FALSE
  /\ UNCHANGED <<nextId, channel, stdin, stdout, child, served, reader>>

\* The context is cancelled or expires while the call is under way ...
Cancelled(c) ==
  /\ ~calls[c].over
  /\ At(c, "admitted") \/ (~At(c, "free") /\ calls[c].id # Notice)
  /\ Set(c, [calls[c] EXCEPT !.over = TRUE])
  /\ UNCHANGED <<nextId, pending, channel, alive, holder, stdin, stdout, child,
                 served, reader>>

\* (mutant) no request timeout, only the caller's context
GiveUpWhenOver(c) ==
  /\ At(c, "waiting") /\ calls[c].over
  /\ Forget(c) /\ Answer(c, "interrupted") /\ Terminate
  /\ UNCHANGED <<nextId, channel, holder, stdin, stdout, served, reader>>

\* ... which the poll notices, as it does the end of the request timeout.
GiveUp(c) ==
  /\ At(c, "waiting")
  /\ Forget(c) /\ Answer(c, "interrupted") /\ Terminate
  /\ UNCHANGED <<nextId, channel, holder, stdin, stdout, served, reader>>

Receive(c) ==
  /\ At(c, "waiting") /\ channel[calls[c].id] # <<>>
  /\ Answer(c, Head(channel[calls[c].id]))
  /\ UNCHANGED <<nextId, pending, channel, alive, holder, stdin, stdout, child,
                 served, reader>>

\* close and drop have the transport to themselves.
Close ==
  /\ \A c \in Callers : At(c, "free")
  /\ Terminate
  /\ UNCHANGED <<calls, nextId, pending, channel, holder, stdin, stdout, served, reader>>

(* ----------------------------- the reader -------------------------------- *)

\* (mutant) the sender is looked up and left in the map
DeliveredKeepingSender(id) ==
  /\ channel' = [channel EXCEPT ![id] = Append(@, "result")]
  /\ pending' = pending

Delivered(id) ==
  /\ channel' = [channel EXCEPT ![id] = Append(@, "result")]
  /\ pending' = pending \ {id}

\* A response to a pending id is sent to its caller, any other is dropped.
ReadLine ==
  /\ reader = "reading" /\ stdout # <<>> /\ Head(stdout) # Overlong
  /\ stdout' = Tail(stdout)
  /\ IF Head(stdout) \in pending THEN Delivered(Head(stdout))
                                 ELSE UNCHANGED <<pending, channel>>
  /\ UNCHANGED <<calls, nextId, alive, holder, stdin, child, served, reader>>

\* An overlong line or the end of the pipe stops the reader.
StopReading ==
  /\ reader = "reading"
  /\ \/ stdout # <<>> /\ Head(stdout) = Overlong
     \/ stdout = <<>> /\ child = "dead"
  /\ alive' = FALSE /\ reader' = "draining"
  /\ UNCHANGED <<calls, nextId, pending, channel, holder, stdin, stdout, child, served>>

Drained == [i \in Ids |-> IF i \in pending THEN Append(channel[i], "exited")
                                            ELSE channel[i]]

Drain ==
  /\ reader = "draining"
  /\ channel' = Drained /\ pending' = {} /\ reader' = "ended"
  /\ UNCHANGED <<calls, nextId, alive, holder, stdin, stdout, child, served>>

(* ------------------------------ the child -------------------------------- *)

ChildReads ==
  /\ child = "up" /\ stdin # <<>>
  /\ stdin' = Tail(stdin) /\ served' = served \cup ({Head(stdin)} \ {Notice})
  /\ UNCHANGED <<calls, nextId, pending, channel, alive, holder, stdout, child, reader>>

ChildWrites ==
  /\ child = "up" /\ Len(stdout) < PipeRoom
  /\ \E line \in served \cup {Overlong} : stdout' = Append(stdout, line)
  /\ UNCHANGED <<calls, nextId, pending, channel, alive, holder, stdin, child,
                 served, reader>>

ChildDies ==
  /\ child = "up" /\ child' = "dead"
  /\ UNCHANGED <<calls, nextId, pending, channel, alive, holder, stdin, stdout,
                 served, reader>>

(* ------------------------------------------------------------------------ *)

Caller(c) == \/ Register(c) \/ Refuse(c) \/ LockStdin(c) \/ Write(c)
             \/ WriteFails(c) \/ GiveUp(c) \/ Receive(c)

Reader == ReadLine \/ StopReading \/ Drain

Child == ChildReads \/ ChildWrites \/ ChildDies

Next == \/ \E c \in Callers : Admit(c) \/ Notify(c) \/ Cancelled(c) \/ Caller(c)
        \/ Close \/ Reader \/ Child

\* Threads run and the request timeout fires; the child promises nothing.
Fairness == WF_vars(Reader) /\ \A c \in Callers : SF_vars(Caller(c))

Spec == Init /\ [][Next]_vars /\ Fairness

(* ------------------------------ properties ------------------------------- *)

\* Ids, answers and pipes have the shapes the code gives them.
TypeOK ==
  /\ calls \in [Callers -> [step : Steps, id : 0..MaxCalls, over : BOOLEAN,
                            answer : Answers]]
  /\ nextId \in 1..(MaxCalls + 1) /\ pending \subseteq Ids
  /\ channel \in [Ids -> Seq({"result", "exited"})]
  /\ alive \in BOOLEAN /\ holder \subseteq Callers
  /\ stdin \in Seq(Ids \cup {Notice}) /\ stdout \in Seq(Ids \cup {Overlong})
  /\ child \in {"up", "dead"} /\ served \subseteq Ids
  /\ reader \in {"reading", "draining", "ended"}

InFlight(c) == /\ calls[c].step \in {"oversized", "registered", "writing", "waiting"}
               /\ calls[c].id # Notice

\* Every pending entry belongs to exactly one call that is still under way: no
\* way out of a call leaves its entry behind (the removals of call_with_context).
PendingHasCaller ==
  /\ \A i \in pending : \E c \in Callers : InFlight(c) /\ calls[c].id = i
  /\ \A c, d \in Callers :
       (c # d /\ InFlight(c) /\ InFlight(d)) => calls[c].id # calls[d].id

\* A channel never holds two messages: the reader, which sends under the lock
\* of the pending map, is never blocked by a server that answers twice.
SendNeverBlocks == \A i \in Ids : Len(channel[i]) <= 1

\* A call that was written is pending or already answered: it never waits for
\* an answer that has nowhere to go.
AnswerHasAWay ==
  \A c \in Callers :
    At(c, "waiting") => calls[c].id \in pending \/ channel[calls[c].id] # <<>>

\* Together: whatever the server writes, and in whatever order calls time out, are
\* cancelled or find it dead, an answer has one call to go to, and goes there at once
\* (call_with_context and the mcp-stdout-reader).
AnswersAreMatched == TypeOK /\ PendingHasCaller /\ SendNeverBlocks /\ AnswerHasAWay

\* Every call ends.
CallsEnd == \A c \in Callers : ~At(c, "free") ~> At(c, "free")
=============================================================================
