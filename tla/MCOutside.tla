----------------------------- MODULE MCOutside ------------------------------
(***************************************************************************)
(* What a turn has outside its own thread, each part on its own; "part"    *)
(* says which of them moves: the parts of rupi_provider that a request     *)
(* goes through and its relay, one command of the exec tool, and the       *)
(* extension host.                                                         *)
(***************************************************************************)
EXTENDS Integers, HttpRelay

CONSTANTS Places, MaxEvents, MaxRequests, Parts, ToolLimit, PartLimit, EventLimit,
          LineLimit, FrameLimit, FrameCount, MaxBytes, Names, MaxItems,
          Slots, PipeSize, CaptureLimit, MaxOutput,
          Calls, Kinds, MaxProcesses, MaxStops, ChannelSize, MaxLines

VARIABLES part,
  callAt, ending, emitted, active, quarantined, built, userCancel, stopRequest, relay, relayStop,
  worker, next, result, channel, silent, produced, delivered, posted, answered, doubt, requests,
  returned,
  keys, thrifty, sent, tools, indices, ids, events, misled, text, finish, verdict,
  bytes, buffer, ended, line, inCall, data, pending, frameBytes, frames, finished, failed, out,
  stage, schema, strictness, supported, arguments,
  execAt, child, reaped, heir, held, pipe, reader, queue, open, captured, stopped, over, written,
  killed, cut, verdictOf,
  status, hosted, startLock, locked, call, late, alive, spawned, askLock, nextId, inbox, busy, ready,
  outbox, lines, stops, ran

Adapter == INSTANCE ProviderAdapter
Decoder == INSTANCE ProviderDecoder
Command == INSTANCE ToolExec WITH outcome <- verdictOf
Host == INSTANCE ExtensionHost WITH child <- hosted, over <- late

adapterVars ==
  <<callAt, ending, emitted, active, quarantined, built, userCancel, stopRequest, relay, relayStop,
    worker, next, result, channel, silent, produced, delivered, posted, answered, doubt, requests,
    returned>>
decoderVars == <<keys, thrifty, sent, tools, indices, ids, events, misled, text, finish, verdict>>
framingVars == <<bytes, buffer, ended, line, inCall, data, pending, frameBytes, frames, finished,
                 failed, out>>
schemasVars == <<stage, schema, strictness, supported, arguments>>
commandVars ==
  <<execAt, child, reaped, heir, held, pipe, reader, queue, open, captured, stopped, over, written,
    killed, cut, verdictOf>>
hostVars ==
  <<status, hosted, startLock, locked, call, late, alive, spawned, askLock, nextId, inbox, busy, ready,
    outbox, lines, stops, ran>>
providerVars == <<adapterVars, decoderVars, framingVars, schemasVars>>
outsideVars == <<part, providerVars, commandVars, hostVars, vars>>

\* A part that does not move has no state of its own.
OutsideInit ==
  /\ part \in {"adapter", "decoder", "framing", "schemas", "command", "host", "relay"}
  /\ Init /\ Adapter!Init /\ Decoder!FramingInit /\ Command!Init /\ Host!Init
  /\ IF part = "decoder" THEN Decoder!Init
     ELSE /\ keys = <<>> /\ thrifty = FALSE /\ sent = <<>> /\ tools = <<>> /\ indices = <<>>
          /\ ids = <<>> /\ events = 0 /\ misled = {} /\ text = FALSE /\ finish = FALSE
          /\ verdict = Decoder!NoVerdict
  /\ IF part = "schemas" THEN Decoder!SchemaInit
     ELSE /\ stage = "none" /\ schema = <<>> /\ strictness = "none" /\ supported = FALSE
          /\ arguments = Decoder!Null

OutsideNext ==
  /\ UNCHANGED part
  /\ \/ /\ UNCHANGED <<commandVars, hostVars, vars>>
        /\ \/ part = "adapter" /\ Adapter!Next /\ UNCHANGED <<decoderVars, framingVars, schemasVars>>
           \/ part = "decoder" /\ Decoder!Next /\ UNCHANGED <<adapterVars, framingVars, schemasVars>>
           \/ part = "framing" /\ Decoder!FramingNext /\ UNCHANGED <<adapterVars, decoderVars, schemasVars>>
           \/ part = "schemas" /\ Decoder!SchemaNext /\ UNCHANGED <<adapterVars, decoderVars, framingVars>>
     \/ /\ UNCHANGED providerVars
        /\ \/ part = "command" /\ Command!Next /\ UNCHANGED <<hostVars, vars>>
           \/ part = "host" /\ Host!Next /\ UNCHANGED <<commandVars, vars>>
           \/ part = "relay" /\ Next /\ UNCHANGED <<commandVars, hostVars>>

\* Only one part moves, so one condition states the fairness of a thread of each:
\* together they are the Fairness of Adapter, Command, Host and Relay.
Moving ==
  CASE part = "command" -> commandVars [] part = "host" -> hostVars
    [] part = "relay" -> vars [] OTHER -> adapterVars
Fair(adapter, command, hosts, served) ==
  /\ UNCHANGED part
  /\ \/ part = "adapter" /\ adapter
     \/ part = "command" /\ command
     \/ part = "host" /\ hosts
     \/ part = "relay" /\ served
OutsideFairness ==
  /\ WF_Moving(Fair(Adapter!Caller, Command!Tool, Host!Step("c1"), Polls("r1")))
  /\ WF_Moving(Fair(Adapter!ClockRunsOut, Command!StopDraining, Host!Step("c2"), FALSE))
  /\ WF_Moving(Fair(Adapter!RelayStops, Command!StopWaiting, FALSE, DeadlinePasses("r1")))
  /\ WF_Moving(Fair(Adapter!WorkerOwn, Command!Reader("stdout"), FALSE, FALSE))
  /\ WF_Moving(Fair(FALSE, Command!Reader("stderr"), FALSE, FALSE))
  /\ WF_Moving(Fair(FALSE, Command!Expire("deadline"), FALSE, FALSE))

OutsideSpec == OutsideInit /\ [][OutsideNext]_outsideVars /\ OutsideFairness

\* The properties of the modules, in groups: each is stated and explained in
\* its module; RefusalIsSafe is HttpRelay's own.

\* What comes back is what was sent and all of it, or is said not to be: events
\* and calls in order and whole, frames as the stream has them, arguments valid
\* and unlost under a strict schema, an exit status and an output that are the
\* command's, a hook's answer to its own question, a request as it was made.
AnswersAreWhole ==
  CASE part = "adapter" -> Adapter!TypeOK /\ Adapter!InOrder /\ Adapter!PartialIsHonest
    [] part = "decoder" -> /\ Decoder!TypeOK /\ Decoder!CallsAreWhole
                           /\ Decoder!CertainIsComplete /\ Decoder!ConsistentIsAccepted
    [] part = "framing" -> /\ Decoder!FramingTypeOK /\ Decoder!EventsAreFrames
                           /\ Decoder!EndIsComplete /\ Decoder!RefusedForCause
    [] part = "schemas" -> Decoder!DecodedIsValid /\ Decoder!NothingIsLost
    [] part = "command" -> Command!TypeOK /\ Command!StatusIsHonest /\ Command!OutputComplete
    [] part = "host" -> Host!TypeOK /\ Host!OwnAnswer
    [] part = "relay" -> TypeOK /\ RequestIsKept

\* What was begun outside happens once and is over: no request that the server may
\* have taken is given to it again or called safe to repeat, and whoever is gone
\* leaves no thread, process or descendant at work.
EffectsAreOver ==
  CASE part = "adapter" -> Adapter!NoBlindRepost /\ Adapter!SafeIsSafe /\ Adapter!NothingBehind
    [] part = "command" -> Command!NothingLeft
    [] part = "host" -> Host!NoProcessOutlives /\ Host!FailedHoldsNone
    [] OTHER -> TRUE

\* Every call, command, hook and relayed connection comes to an end.
EverythingEnds ==
  /\ part = "adapter" => Adapter!CallReturns
  /\ part = "command" => Command!CommandEnds
  /\ part = "host" => Host!CallsEnd
  /\ part = "relay" => AlwaysSettles
=============================================================================
