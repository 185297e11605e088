-------------------------- MODULE ProviderAdapter --------------------------
(***************************************************************************)
(* rupi_provider's OpenAiCompat::stream: one model request at a time, made *)
(* by a worker thread through a relay of its own and handed to the caller  *)
(* over a bounded channel, so that the caller can give up at any moment     *)
(* without a second POST.  The adapter may be the backup that              *)
(* rupi_provider::Deferred builds at its first request.                    *)
(*                                                                         *)
(* The caller is the turn loop, one request after another; the endpoint    *)
(* answers, stalls, breaks off or rejects as it likes.  Events are numbered *)
(* in the order the decoder emits them.                                    *)
(***************************************************************************)
EXTENDS Integers, Sequences

CONSTANTS
  Places,     \* places of the channel, 64 in the code
  MaxEvents,  \* bound: events of one response
  MaxRequests \* bound: calls of stream

VARIABLES
  callAt,       \* where the caller is: "idle", "check", "recv", "closing"
  ending,       \* why it is closing: "done", "cancel", "total", "idle", "died"
  emitted,      \* the loop's flag of the same name
  active,       \* active_request
  quarantined,  \* quarantined
  built,        \* Deferred::built: "unbuilt", "ready", "failed"
  userCancel,   \* the caller's token
  stopRequest,  \* request_cancel, the worker's token
  relay,        \* the relay's thread: "none", "accept", "tunnel", "gone"
  relayStop,    \* its stop flag
  worker,       \* the worker: "none", "send", "wait", "stream", "offer",
                \* "finish", "report", "gone", "panicked"
  next,         \* what the worker does after the event it offers
  result,       \* its result
  channel,      \* the messages in the channel: event numbers and "Done"
  silent,       \* the idle budget has elapsed since the last event
  produced,     \* history: events the decoder has emitted
  delivered,    \* history: events the caller's sink has seen
  posted,       \* history: this request has been forwarded to the provider
  answered,     \* history: the provider has settled this request
  doubt,        \* history: an earlier request of the turn is unsettled
  requests,     \* requests so far
  returned      \* what the last call of stream returned

caller == <<callAt, ending, emitted, delivered, returned>>
flags == <<active, quarantined, built>>
thread == <<worker, next, result, produced, answered>>
wire == <<relay, relayStop, posted>>
providerVars == <<caller, flags, userCancel, stopRequest, wire, thread, channel, silent, doubt,
                  requests>>

Nothing == [kind |-> "none", safety |-> "safe", partial |-> FALSE]
Ok == [kind |-> "ok", safety |-> "safe", partial |-> FALSE]

\* ModelFailure::with_partial_output after ModelFailure::new.
Fails(kind, safety, emittedOutput) ==
  [kind |-> kind, safety |-> IF emittedOutput THEN "committed" ELSE safety,
   partial |-> emittedOutput]

\* http_failure: 429 and 5xx are safe to replay, 408 and other 4xx are not.
Rejections ==
  {Fails("ProviderUnavailable", "safe", FALSE), Fails("Timeout", "safe", FALSE),
   Fails("Timeout", "ambiguous", FALSE), Fails("Protocol", "ambiguous", FALSE)}

Outcomes == [kind : {"none", "ok", "Transport", "Timeout", "Cancelled", "Protocol",
                     "ProviderUnavailable"},
             safety : {"safe", "ambiguous", "committed"}, partial : BOOLEAN]

TypeOK ==
  /\ callAt \in {"idle", "check", "recv", "closing"}
  /\ ending \in {"none", "done", "cancel", "total", "idle", "died"}
  /\ built \in {"unbuilt", "ready", "failed"}
  /\ {emitted, active, quarantined, userCancel, stopRequest, relayStop, silent, posted, answered,
      doubt} \subseteq BOOLEAN
  /\ relay \in {"none", "accept", "tunnel", "gone"}
  /\ worker \in {"none", "send", "wait", "stream", "offer", "finish", "report", "gone",
                 "panicked"}
  /\ next \in {"stream", "finish"} /\ {result, returned} \subseteq Outcomes
  /\ channel \in Seq(1..MaxEvents \cup {0}) /\ Len(channel) <= Places
  /\ produced \in 0..MaxEvents /\ delivered \in Seq(1..MaxEvents)
  /\ requests \in 0..MaxRequests

Init ==
  /\ callAt = "idle" /\ ending = "none" /\ emitted = FALSE /\ active = FALSE
  /\ quarantined = FALSE /\ built = "unbuilt" /\ userCancel = FALSE /\ stopRequest = FALSE
  /\ relay = "none" /\ relayStop = FALSE /\ worker = "none" /\ next = "stream"
  /\ result = Nothing /\ channel = <<>> /\ silent = FALSE /\ produced = 0 /\ delivered = <<>>
  /\ posted = FALSE /\ answered = FALSE /\ doubt = FALSE /\ requests = 0 /\ returned = Nothing

Done == 0  \* WorkerMessage::Done, whose result is in "result"

-----------------------------------------------------------------------------
(* A call of stream.                                                       *)

\* run_turn: a new user turn re-arms the adapter it will use.
NewTurn ==
  /\ callAt = "idle" /\ requests < MaxRequests /\ requests > 0
  /\ quarantined' = (quarantined /\ built # "ready")
  /\ doubt' = FALSE /\ userCancel' = FALSE
  /\ UNCHANGED <<caller, active, built, stopRequest, wire, thread, channel, silent, requests>>

UserCancels ==
  /\ ~userCancel /\ userCancel' = TRUE
  /\ UNCHANGED <<caller, flags, stopRequest, wire, thread, channel, silent, doubt, requests>>

\* The refusals before anything is started: the deferred adapter cannot be
\* built, the turn is cancelled, the tools ask for a sampling the endpoint
\* lacks, the adapter is quarantined, or no relay or agent can be made.
Refuse(failure, adapter) ==
  /\ callAt = "idle" /\ requests < MaxRequests
  /\ adapter \in (IF built = "unbuilt" THEN {"ready", "failed"} ELSE {built})
  /\ \/ adapter = "failed" /\ failure = Fails("ProviderUnavailable", "safe", FALSE)
     \/ /\ adapter = "ready"
        /\ \/ userCancel /\ failure = Fails("Cancelled", "safe", FALSE)
           \/ ~userCancel /\ failure = Fails("Protocol", "safe", FALSE)
           \/ ~userCancel /\ quarantined
              /\ failure = Fails("ProviderUnavailable", "ambiguous", FALSE)
           \/ ~userCancel /\ ~quarantined /\ failure = Fails("Transport", "safe", FALSE)
  /\ built' = adapter /\ returned' = failure /\ requests' = requests + 1
  /\ delivered' = <<>> /\ produced' = 0 /\ posted' = FALSE /\ answered' = FALSE
  /\ UNCHANGED <<callAt, ending, emitted, active, quarantined, userCancel, stopRequest, relay,
                 relayStop, worker, next, result, channel, silent, doubt>>

\* stream_worker: take the adapter, start the relay and the worker.
Start ==
  /\ callAt = "idle" /\ requests < MaxRequests /\ built # "failed"
  /\ ~userCancel /\ ~quarantined /\ ~active
  /\ active' = TRUE /\ built' = "ready" /\ requests' = requests + 1
  /\ relay' = "accept" /\ relayStop' = FALSE /\ stopRequest' = FALSE
  /\ worker' = "send" /\ next' = "stream" /\ result' = Nothing /\ channel' = <<>>
  /\ callAt' = "check" /\ ending' = "none" /\ emitted' = FALSE /\ silent' = FALSE
  /\ produced' = 0 /\ delivered' = <<>> /\ posted' = FALSE /\ answered' = FALSE
  /\ returned' = Nothing
  /\ UNCHANGED <<quarantined, userCancel, doubt>>

\* Give up: the worker's token, the quarantine, the relay's stop flag.
Stop(why) ==
  /\ callAt' = "closing" /\ ending' = why
  /\ stopRequest' = TRUE /\ quarantined' = TRUE /\ relayStop' = TRUE
  /\ UNCHANGED <<emitted, delivered, returned, active, built, userCancel, relay, posted, thread,
                 channel, silent, doubt, requests>>

\* The head of the loop: the total budget may have elapsed by now.
Check ==
  /\ callAt = "check"
  /\ \/ userCancel /\ Stop("cancel")
     \/ ~userCancel /\ Stop("total")
     \/ /\ ~userCancel /\ callAt' = "recv"
        /\ UNCHANGED <<ending, emitted, delivered, returned, flags, userCancel, stopRequest, wire,
                       thread, channel, silent, doubt, requests>>

ReceiveEvent ==
  /\ callAt = "recv" /\ channel # <<>> /\ Head(channel) # Done
  /\ emitted' = TRUE /\ silent' = FALSE /\ callAt' = "check"
  /\ delivered' = Append(delivered, Head(channel)) /\ channel' = Tail(channel)
  /\ UNCHANGED <<ending, returned, flags, userCancel, stopRequest, wire, thread, doubt, requests>>

ReceiveDone ==
  /\ callAt = "recv" /\ channel # <<>> /\ Head(channel) = Done
  /\ channel' = Tail(channel) /\ callAt' = "closing" /\ ending' = "done" /\ relayStop' = TRUE
  /\ UNCHANGED <<emitted, delivered, returned, flags, userCancel, stopRequest, relay, posted,
                 thread, silent, doubt, requests>>

\* recv_timeout found nothing.
ReceiveNothing ==
  /\ callAt = "recv" /\ channel = <<>>
  /\ \/ worker = "panicked" /\ Stop("died")
     \/ worker # "panicked" /\ userCancel /\ Stop("cancel")
     \/ worker # "panicked" /\ ~userCancel /\ silent /\ Stop("idle")
     \/ /\ worker # "panicked" /\ ~userCancel /\ ~silent /\ callAt' = "check"
        /\ UNCHANGED <<ending, emitted, delivered, returned, flags, userCancel, stopRequest, wire,
                       thread, channel, silent, doubt, requests>>

ClockRunsOut ==
  /\ callAt \in {"check", "recv"} /\ ~silent /\ silent' = TRUE
  /\ UNCHANGED <<caller, flags, userCancel, stopRequest, wire, thread, channel, doubt, requests>>

\* (mutant) a broken connection is taken for an answer
TimedOutOnly(failure) ==
  failure.kind \in {"Timeout", "Cancelled"} /\ failure.safety # "safe"

\* Which results leave the request in doubt (stream_worker's Done branch).
Uncertain(failure) ==
  failure.kind \in {"Transport", "Timeout", "Cancelled"} /\ failure.safety # "safe"

\* What the call returns once the queued events were drained: the failure of
\* the branch that gave up, or the worker's result.
Verdict(why, seen) ==
  CASE why = "done" -> [result EXCEPT !.partial = result.kind # "ok" /\ (seen \/ @),
                                      !.safety = IF result.kind # "ok" /\ (seen \/ result.partial)
                                                 THEN "committed" ELSE @]
    [] why = "cancel" -> Fails("Cancelled", "ambiguous", seen)
    [] why = "died" -> Fails("Protocol", "ambiguous", seen)
    [] OTHER -> Fails("Timeout", "ambiguous", seen)

\* How many events the channel holds: a report is the last message of its worker.
Queued ==
  IF channel # <<>> /\ channel[Len(channel)] = Done THEN Len(channel) - 1 ELSE Len(channel)

\* Relay and worker are joined, the queue is drained, the adapter is free.
Return ==
  /\ callAt = "closing" /\ relay = "gone" /\ worker \in {"gone", "panicked"}
  /\ LET rest == SubSeq(channel, 1, Queued)
         seen == emitted \/ rest # <<>>
     IN /\ returned' = Verdict(ending, seen)
        /\ emitted' = seen /\ delivered' = delivered \o rest
  /\ channel' = <<>> /\ active' = FALSE /\ callAt' = "idle"
  /\ quarantined' = (quarantined \/ (ending = "done" /\ Uncertain(result)))
  /\ doubt' = (doubt \/ (posted /\ ~answered))
  /\ UNCHANGED <<ending, built, userCancel, stopRequest, wire, thread, silent, requests>>

-----------------------------------------------------------------------------
(* The relay.                                                              *)

\* serve: no upstream connection, so a 502 the endpoint never sent; the
\* relay waits for another exchange.
RelayRefuses ==
  /\ relay = "accept" /\ ~relayStop /\ worker = "send"
  /\ worker' = "finish" /\ result' = Fails("ProviderUnavailable", "safe", FALSE)
  /\ UNCHANGED <<caller, flags, userCancel, stopRequest, wire, next, produced, answered, channel,
                 silent, doubt, requests>>

\* The request is on its way to the provider.
RelayForwards ==
  /\ relay = "accept" /\ ~relayStop /\ worker = "send"
  /\ relay' = "tunnel" /\ posted' = TRUE /\ worker' = "wait"
  /\ UNCHANGED <<caller, flags, userCancel, stopRequest, relayStop, next, result, produced,
                 answered, channel, silent, doubt, requests>>

RelayStops ==
  /\ relay \in {"accept", "tunnel"}
  /\ relayStop \/ (relay = "tunnel" /\ worker \in {"finish", "report", "gone", "panicked"})
  /\ relay' = "gone"
  /\ UNCHANGED <<caller, flags, userCancel, stopRequest, relayStop, posted, thread, channel,
                 silent, doubt, requests>>

-----------------------------------------------------------------------------
(* The worker.                                                             *)

Finish(outcome) ==
  /\ worker' = "finish" /\ result' = outcome
  /\ answered' = (answered \/ outcome.kind \in {"ok", "Protocol"} \/ outcome \in Rejections)
  /\ UNCHANGED <<caller, flags, userCancel, stopRequest, wire, channel, silent, doubt, requests>>

Offer(after) ==
  /\ produced < MaxEvents /\ produced' = produced + 1
  /\ worker' = "offer" /\ next' = after
  /\ UNCHANGED <<caller, flags, userCancel, stopRequest, wire, channel, silent, doubt, requests>>

\* send: the relay is gone, or the local connection to it fails.
SendFails ==
  /\ worker = "send"
  /\ \/ relay = "gone" /\ stopRequest /\ Finish(Fails("Cancelled", "safe", FALSE))
     \/ ~stopRequest /\ Finish(Fails("Transport", "safe", FALSE))
  /\ UNCHANGED <<next, produced>>

\* The response's head: a status, a broken connection, or a body.
Respond ==
  /\ worker = "wait"
  /\ \/ relay = "tunnel" /\ \E rejection \in Rejections : Finish(rejection)
     \/ relay = "tunnel" /\ ~stopRequest
        /\ \E kind \in {"Transport", "Timeout"} : Finish(Fails(kind, "ambiguous", FALSE))
     \/ /\ relay = "tunnel" /\ worker' = "stream"
        /\ UNCHANGED <<caller, flags, userCancel, stopRequest, wire, result, answered, channel,
                       silent, doubt, requests>>
     \/ stopRequest /\ Finish(Fails("Cancelled", "safe", FALSE))
  /\ UNCHANGED <<next, produced>>

\* read_stream: the token first, then what arrives.
Stream ==
  /\ worker = "stream"
  /\ IF stopRequest
     THEN Finish(Fails("Cancelled", "safe", produced > 0)) /\ UNCHANGED <<next, produced>>
     ELSE \/ Offer("stream") /\ UNCHANGED <<result, answered>>
          \/ /\ \/ produced > 0 /\ Finish(Ok)      \* [DONE], or EOF after a finish reason
                \/ produced = 0 /\ Finish(Fails("Protocol", "ambiguous", FALSE))
                \/ produced = 0 /\ Finish(Fails("Transport", "ambiguous", FALSE))   \* EOF
                \/ \E kind \in {"Transport", "Timeout", "Protocol"} :
                     Finish(Fails(kind, "ambiguous", produced > 0))
             /\ UNCHANGED <<next, produced>>
          \* finish: the tool calls come last
          \/ Offer("finish") /\ result' = Ok /\ answered' = TRUE

\* read_one_shot: the body was read whole; its events, then its end.  A
\* failure there says no output was emitted.
OneShot ==
  /\ worker = "stream" /\ ~stopRequest /\ produced = 0
  /\ \E outcome \in {Ok, Fails("Protocol", "ambiguous", FALSE)} :
       Offer("finish") /\ result' = outcome /\ answered' = TRUE

Panic ==
  /\ worker = "stream" /\ ~stopRequest /\ worker' = "panicked"
  /\ UNCHANGED <<caller, flags, userCancel, stopRequest, wire, next, result, produced, answered,
                 channel, silent, doubt, requests>>

\* (mutant) the sink listens to the user's token
DropOnUserCancel == stopRequest \/ userCancel

\* When a full channel may be given up.
MayDrop == stopRequest

\* ChannelSink::emit: spins while the channel is full and nobody gave up.
Push ==
  /\ worker = "offer"
  /\ \/ Len(channel) < Places /\ channel' = Append(channel, produced)
     \/ Len(channel) = Places /\ MayDrop /\ UNCHANGED channel
  /\ worker' = next
  /\ UNCHANGED <<caller, flags, userCancel, stopRequest, wire, next, result, produced, answered,
                 silent, doubt, requests>>

\* The worker is through with the request; then it reports, as emit does.
Free ==
  /\ worker = "finish" /\ worker' = "report" /\ active' = FALSE
  /\ UNCHANGED <<caller, quarantined, built, userCancel, stopRequest, wire, next, result, produced,
                 answered, channel, silent, doubt, requests>>

MayLeave == stopRequest

Report ==
  /\ worker = "report"
  /\ \/ Len(channel) < Places /\ channel' = Append(channel, Done)
     \/ Len(channel) = Places /\ MayLeave /\ UNCHANGED channel
  /\ worker' = "gone"
  /\ UNCHANGED <<caller, flags, userCancel, stopRequest, wire, next, result, produced, answered,
                 silent, doubt, requests>>

-----------------------------------------------------------------------------
Caller == Check \/ ReceiveEvent \/ ReceiveDone \/ ReceiveNothing \/ Return

\* What the worker does without the endpoint.
WorkerOwn == SendFails \/ (worker = "stream" /\ stopRequest /\ Stream) \/ Push \/ Free \/ Report
             \/ (stopRequest /\ Respond)

Next ==
  \/ NewTurn \/ UserCancels \/ Start
  \/ \E failure \in Outcomes, adapter \in {"ready", "failed"} : Refuse(failure, adapter)
  \/ Caller \/ ClockRunsOut
  \/ RelayRefuses \/ RelayForwards \/ RelayStops
  \/ SendFails \/ Respond \/ Stream \/ OneShot \/ Panic \/ Push \/ Free \/ Report

\* Threads run and clocks tick; the endpoint promises nothing.
Fairness ==
  /\ WF_providerVars(Caller) /\ WF_providerVars(ClockRunsOut) /\ WF_providerVars(RelayStops)
  /\ WF_providerVars(WorkerOwn)

Spec == Init /\ [][Next]_providerVars /\ Fairness

-----------------------------------------------------------------------------
\* No request goes out through the adapter while an earlier one of the turn
\* may have reached the provider and was never settled: the comments of
\* stream_worker and reset_after_abandonment.
NoBlindRepost == callAt # "idle" /\ posted => ~doubt

\* A failure that claims to be safe to replay is one whose request was not
\* forwarded, or was explicitly rejected, and of which the user saw nothing.
SafeIsSafe ==
  (callAt = "idle" /\ returned.kind \notin {"none", "ok"} /\ returned.safety = "safe")
     => (posted => answered) /\ delivered = <<>>

\* The partial-output claim of a failure says what the sink has seen.
PartialIsHonest ==
  (callAt = "idle" /\ returned.kind \notin {"none", "ok"})
     => (returned.partial <=> delivered # <<>>)

\* The sink sees the response from its start and without a gap, also when
\* the call is given up while the channel is full; a success delivers it all.
InOrder ==
  /\ delivered = [i \in 1..Len(delivered) |-> i]
  /\ returned.kind = "ok" /\ callAt = "idle" => Len(delivered) = produced

\* A call that has returned leaves no relay, no worker and no claim behind.
NothingBehind ==
  callAt = "idle" => /\ relay \in {"none", "gone"} /\ worker \in {"none", "gone", "panicked"}
                     /\ ~active /\ channel = <<>>

\* Every call returns, whatever the endpoint and a full channel do.
CallReturns == callAt # "idle" ~> callAt = "idle"

=============================================================================
