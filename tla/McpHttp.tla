------------------------------ MODULE McpHttp ------------------------------
(***************************************************************************)
(* The tools of one MCP server behind rupi_mcp::transport::HttpTransport.  *)
(* Every call has a worker thread that posts the request through a relay   *)
(* of its own, so that the caller can leave at any moment; the flag that   *)
(* says whether the transport is alive is shared by all of them.           *)
(*                                                                         *)
(* The server is external: it does what a request asks for or refuses,     *)
(* answers it, answers something else, breaks off, or never answers.  The  *)
(* handshake is over: initialize and tools/list were calls like these, by  *)
(* one thread; set_protocol_version and the one notification belong to it, *)
(* and nothing closes a transport that clients share.  A new enable starts *)
(* over with a transport of its own.                                       *)
(***************************************************************************)
EXTENDS Integers, Sequences

CONSTANTS
  Callers,   \* threads that use the server's tools
  Sessions,  \* session ids the server may hand out
  MaxCalls   \* bound: the request ids there are

Ids == 1..MaxCalls

VARIABLES
  calls,     \* per caller: its call in flight, with its worker and its relay
  nextId,    \* next_id
  alive,     \* the shared AtomicBool
  session,   \* the shared session_id, which every request names
  mutating,  \* history: calls of tools that are not read-only
  posted,    \* history: requests a relay has forwarded to the server
  effect,    \* history, per id: what the server made of the request
  broken,    \* history: an exchange failed that nobody had cancelled
  outcomes   \* history: what the tool reported for each id

httpVars == <<calls, nextId, alive, session, mutating, posted, effect, broken, outcomes>>
server == <<mutating, posted, effect>>

\* step: "free", "waiting" (the receive loop) or "closing" (the joins); why it
\* closes; worker and relay: the two threads; stop: the relay's flag; result:
\* what the worker's last statement sends.
NoCall == [step |-> "free", id |-> 0, readOnly |-> FALSE, why |-> "none", worker |-> "none",
           relay |-> "none", stop |-> FALSE, result |-> "none"]

\* "done" and "refused" are CallToolResults, the second with isError set; "failed"
\* is every McpError, which the tool reports alike: of the transport, a timeout, of the
\* protocol, and a JSON-RPC error of the server.
Results == {"none", "done", "refused", "failed"}

TypeOK ==
  /\ calls \in [Callers -> [step : {"free", "waiting", "closing"}, id : {0} \cup Ids,
                            readOnly : BOOLEAN, why : {"none", "result", "stopped", "died"},
                            worker : {"none", "send", "wait", "body", "gone", "panicked"},
                            relay : {"none", "accept", "tunnel", "gone"}, stop : BOOLEAN,
                            result : Results]]
  /\ nextId \in 1..MaxCalls + 1 /\ {alive, broken} \subseteq BOOLEAN
  /\ session \in Sessions \cup {"none"}
  /\ posted \subseteq Ids /\ mutating \subseteq Ids /\ effect \in [Ids -> {"none", "done", "refused"}]
  /\ outcomes \in [Ids -> {"none", "succeeded", "failed", "unknown"}]

Init ==
  /\ calls = [c \in Callers |-> NoCall] /\ nextId = 1 /\ alive = TRUE /\ posted = {} /\ mutating = {}
  /\ session = "none"
  /\ effect = [i \in Ids |-> "none"] /\ broken = FALSE /\ outcomes = [i \in Ids |-> "none"]

-----------------------------------------------------------------------------
(* The caller: McpTool::execute_with_context over call_with_context.       *)

\* A call that cannot say what happened is failed when it is read-only.
Reported(readOnly, result) ==
  CASE result = "done" -> "succeeded"
    [] result = "refused" -> "failed"
    [] OTHER -> IF readOnly THEN "failed" ELSE "unknown"

\* next_request_id: the ids do not start again.
IdLeft == nextId <= MaxCalls

\* A call that is cancelled already, or finds the transport closed, changes
\* nothing.  Otherwise it takes an id and starts its relay and its worker.
Start(c, readOnly) ==
  /\ calls[c].step = "free" /\ alive /\ IdLeft
  /\ calls' = [calls EXCEPT ![c] =
       [NoCall EXCEPT !.step = "waiting", !.id = nextId, !.readOnly = readOnly,
                      !.worker = "send", !.relay = "accept"]]
  /\ nextId' = nextId + 1
  /\ mutating' = IF readOnly THEN mutating ELSE mutating \cup {nextId}
  /\ UNCHANGED <<alive, session, posted, effect, broken, outcomes>>

\* The relay's socket or thread cannot be had.
StartFails(readOnly) ==
  /\ alive /\ IdLeft
  /\ nextId' = nextId + 1
  /\ mutating' = IF readOnly THEN mutating ELSE mutating \cup {nextId}
  /\ outcomes' = [outcomes EXCEPT ![nextId] = Reported(readOnly, "failed")]
  /\ UNCHANGED <<calls, alive, session, posted, effect, broken>>

Close(c, why) ==
  calls' = [calls EXCEPT ![c].step = "closing", ![c].why = why, ![c].stop = TRUE]

\* The head of the loop: the token is set, or the deadline has passed.
Leave(c) ==
  /\ calls[c].step = "waiting"
  /\ Close(c, "stopped")
  /\ UNCHANGED <<nextId, alive, session, server, broken, outcomes>>

\* The worker has sent its result, or has gone without one.
Receive(c) ==
  /\ calls[c].step = "waiting"
  /\ \/ calls[c].worker = "gone" /\ Close(c, "result") /\ UNCHANGED <<alive, broken>>
     \/ calls[c].worker = "panicked" /\ Close(c, "died") /\ alive' = FALSE /\ broken' = TRUE
  /\ UNCHANGED <<nextId, session, server, outcomes>>

\* (mutant) the worker is left to itself
JoinedRelay(c) == calls[c].relay = "gone"

Joined(c) ==
  calls[c].relay = "gone" /\ calls[c].worker \in {"gone", "panicked"}

\* What an abandoned exchange leaves in the flag is not the server's fault.
AfterClose(c) == IF calls[c].why = "stopped" THEN TRUE ELSE alive

Answered(c) ==
  Reported(calls[c].readOnly,
           IF calls[c].why = "result" THEN calls[c].result ELSE "failed")

\* A thread that has ended leaves nothing.
Left(thread) == IF thread \in {"gone", "panicked"} THEN "none" ELSE thread

Return(c) ==
  /\ calls[c].step = "closing" /\ Joined(c)
  /\ alive' = AfterClose(c)
  /\ outcomes' = [outcomes EXCEPT ![calls[c].id] = Answered(c)]
  /\ calls' = [calls EXCEPT ![c] =
       [NoCall EXCEPT !.worker = Left(calls[c].worker), !.relay = Left(calls[c].relay)]]
  /\ UNCHANGED <<nextId, session, server, broken>>

Caller(c) ==
  \/ \E readOnly \in BOOLEAN : Start(c, readOnly) \/ StartFails(readOnly)
  \/ Leave(c) \/ Receive(c) \/ Return(c)

-----------------------------------------------------------------------------
(* The relay: CancellableHttpRelay's thread, which serves one connection.  *)

Forward(c) ==
  /\ calls[c].relay = "accept" /\ calls[c].worker = "wait" /\ ~calls[c].stop
  /\ calls' = [calls EXCEPT ![c].relay = "tunnel"]
  /\ posted' = posted \cup {calls[c].id}
  /\ UNCHANGED <<nextId, alive, session, mutating, effect, broken, outcomes>>

\* Its poll sees the flag, or both sides of the tunnel have closed.  A relay whose
\* sockets fail before that does no more than one that goes on waiting.
RelayEnds(c) ==
  /\ calls[c].relay \in {"accept", "tunnel"}
  /\ calls[c].stop \/ (calls[c].relay = "tunnel" /\ calls[c].worker \in {"gone", "panicked"})
  /\ calls' = [calls EXCEPT ![c].relay = "gone"]
  /\ UNCHANGED <<nextId, alive, session, server, broken, outcomes>>

-----------------------------------------------------------------------------
(* The worker: send and decode_http_response.                              *)

Finish(c, result) ==
  calls' = [calls EXCEPT ![c].worker = "gone", ![c].result = result]

Send(c) ==
  /\ calls[c].worker = "send"
  /\ IF alive THEN calls' = [calls EXCEPT ![c].worker = "wait"] ELSE Finish(c, "failed")
  /\ UNCHANGED <<nextId, alive, session, server, broken, outcomes>>

\* The request is too long for MAX_HTTP_REQUEST_BYTES.
TooLong(c) ==
  /\ calls[c].worker = "send" /\ Finish(c, "failed")
  /\ UNCHANGED <<nextId, alive, session, server, broken, outcomes>>

\* The connection closes before a response: the relay has stopped, could not
\* reach the server and keeps listening, or the server has broken off.
ConnectionLost(c) ==
  /\ calls[c].worker = "wait"
  /\ Finish(c, "failed") /\ alive' = FALSE
  /\ broken' = (broken \/ ~calls[c].stop)
  /\ UNCHANGED <<nextId, session, server, outcomes>>

\* The agent's own timeouts, none longer than the call's deadline.
TimesOut(c) ==
  /\ calls[c].worker \in {"wait", "body"} /\ Finish(c, "failed")
  /\ UNCHANGED <<nextId, alive, session, server, broken, outcomes>>

\* A response arrives: an HTTP status error, or a body to read, whose head may name
\* a session; it is kept even when the caller has left.
Respond(c) ==
  /\ calls[c].worker = "wait" /\ calls[c].id \in posted
  /\ \/ Finish(c, "failed") /\ UNCHANGED session
     \/ /\ calls' = [calls EXCEPT ![c].worker = "body"]
        /\ session' \in Sessions \cup {session}
  /\ UNCHANGED <<nextId, alive, server, broken, outcomes>>

\* decode_http_response: parse_sse_json takes the first event with the right
\* id, a plain body is one response whose id must be right.
Decode(events, body, id) ==
  LET relevant == IF events THEN SelectSeq(body, LAMBDA message : message.id = id) ELSE body
  IN  IF relevant = <<>> \/ relevant[1].id # id THEN "failed" ELSE relevant[1].says

\* The server tells the truth about the request it was sent, or answers it
\* with a JSON-RPC error; about anything else it may say anything.
Bodies(id) ==
  LET Own == [id : {id}, says : {"failed"} \cup (IF effect[id] = "none" THEN {} ELSE {effect[id]})]
      Other == [id : {0}, says : {"done"}]
  IN  {<<>>} \cup {<<a>> : a \in Own \cup Other} \cup {<<b, a>> : a \in Own, b \in Other}

\* The body ends, breaks off, or is longer than MAX_HTTP_RESPONSE_BYTES.
ReadBody(c) ==
  /\ calls[c].worker = "body"
  /\ \/ \E events \in BOOLEAN : \E body \in Bodies(calls[c].id) :
          /\ Len(body) = 1 \/ events
          /\ Finish(c, Decode(events, body, calls[c].id))
     \/ Finish(c, "failed")
  /\ UNCHANGED <<nextId, alive, session, server, broken, outcomes>>

Panic(c) ==
  /\ calls[c].worker \in {"send", "wait", "body"}
  /\ calls' = [calls EXCEPT ![c].worker = "panicked"]
  /\ UNCHANGED <<nextId, alive, session, server, broken, outcomes>>

Worker(c) ==
  \/ Send(c) \/ TooLong(c) \/ ConnectionLost(c) \/ TimesOut(c) \/ Respond(c) \/ ReadBody(c)
  \/ Panic(c)

-----------------------------------------------------------------------------

\* The server acts on what has reached it, whether or not anyone still waits.
Serve(i) ==
  /\ i \in posted /\ effect[i] = "none"
  /\ \E made \in {"done", "refused"} : effect' = [effect EXCEPT ![i] = made]
  /\ UNCHANGED <<calls, nextId, alive, session, mutating, posted, broken, outcomes>>

Next ==
  \/ \E c \in Callers : Caller(c) \/ Forward(c) \/ RelayEnds(c) \/ Worker(c)
  \/ \E i \in Ids : Serve(i)

\* The loop polls, the relay polls, and the agent's timeouts end every wait of
\* the worker.  The server owes nothing.
Fairness ==
  /\ \A c \in Callers : WF_httpVars(Receive(c)) /\ WF_httpVars(Return(c))
  /\ \A c \in Callers : WF_httpVars(RelayEnds(c))
  /\ \A c \in Callers : WF_httpVars(Send(c)) /\ WF_httpVars(TimesOut(c))

Spec == Init /\ [][Next]_httpVars /\ Fairness

-----------------------------------------------------------------------------

\* A change is never reported as made or as refused by the server unless that
\* is what the server did for this very request: whatever else went wrong, the
\* outcome is unknown, and nobody repeats it blindly (tool.rs's comment).
OutcomeIsTheServers ==
  \A i \in mutating :
    /\ outcomes[i] = "succeeded" => effect[i] = "done"
    /\ outcomes[i] = "failed" => effect[i] = "refused"

\* No thread or socket of a call survives its return: a cancelled exchange
\* cannot still be on its way to the server when the next one starts.
NothingDetached ==
  \A c \in Callers : calls[c].step = "free" =>
    calls[c].relay = "none" /\ calls[c].worker = "none"

\* Cancelling exchanges, however many and in whatever order, does not close the
\* transport for the calls that come after them.
CancelClosesNothing ==
  (\A c \in Callers : calls[c].step = "free") /\ ~alive => broken

\* Every call returns, whatever the server does.
CallsReturn == \A c \in Callers : (calls[c].step # "free") ~> (calls[c].step = "free")

=============================================================================
