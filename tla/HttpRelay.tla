------------------------------- MODULE HttpRelay -------------------------------
(***************************************************************************)
(* The local proxy that makes one blocking HTTP request abortable, of the  *)
(* provider (rupi-provider/src/relay.rs) and of the MCP client, a copy of  *)
(* it (rupi-mcp/src/relay.rs).  Every request has a relay of its own; all  *)
(* those of a crate share one thread that looks names up, with a queue of  *)
(* one place before it.                                                    *)
(***************************************************************************)
EXTENDS Naturals, Sequences

CONSTANTS
  Relays,       \* the requests under way in the process
  Crate,        \* whose relays these are: "provider" or "mcp"
  MaxStrangers, \* bound: connections to a relay without its nonce
  Other         \* some earlier request, whose lookup may outlive it

VARIABLES
  relays,   \* what each relay is at
  lookups,  \* the lookups that wait
  looking   \* the relays whose name the thread looks up, none or one

vars == <<relays, lookups, looking>>

LookupRoom == 1

\* client: whose connection it serves; overdue: whether the connect deadline has passed;
\* came: whether the request it is for has connected; bytes: how much of that request
\* has gone out; forwarded: the request as it was; told: what its sender was told;
\* ways: the directions that are still copied.
New == [at |-> "accept", stop |-> FALSE, client |-> "none", overdue |-> FALSE, came |-> FALSE,
        strangers |-> 0, bytes |-> "none", forwarded |-> <<>>, told |-> "none", ways |-> 0]

Init == relays = [r \in Relays |-> New] /\ lookups = <<>> /\ looking = {}

At(r, places) == relays[r].at \in places
Become(r, s) == relays' = [relays EXCEPT ![r] = s]
Goes(r, at) == Become(r, [relays[r] EXCEPT !.at = at])

-----------------------------------------------------------------------------
(* The request that a relay forwards, as its pieces.                       *)

\* The last is what a request for another scheme sends itself, once CONNECT is answered.
Targets == {"http://host", "http://host/path", "/path"}
PathOf(target) == IF target = "http://host" THEN "/" ELSE "/path"
Request(target) == <<"method", " ", target, " ", "version", "CRLF", "headers", "body">>

\* origin_form puts the request line together again, and behind it what followed the
\* line; the copy in the MCP client forgets the end of the line.
OriginForm(crate, target) ==
  IF target = "/path" THEN Request(target)
  ELSE <<"method", " ", PathOf(target), " ", "version">>
       \o (IF crate = "provider" THEN <<"CRLF">> ELSE <<>>) \o <<"headers", "body">>

-----------------------------------------------------------------------------
(* The relay's thread.                                                     *)

\* Its sender's connection, or one of somebody else on this machine.
Accept(r) ==
  /\ At(r, {"accept"}) /\ ~relays[r].stop
  /\ \/ /\ ~relays[r].came
        /\ Become(r, [relays[r] EXCEPT !.at = "headers", !.client = "own", !.came = TRUE])
     \/ /\ relays[r].strangers < MaxStrangers
        /\ Become(r, [relays[r] EXCEPT !.at = "headers", !.client = "stranger",
                                       !.strangers = @ + 1])
  /\ UNCHANGED <<lookups, looking>>

\* (mutant) whoever could not be served is told that nothing was sent
DroppedAs502(s) ==
  [s EXCEPT !.at = "accept", !.client = "none",
            !.told = IF s.client = "own" THEN "502" ELSE @]

\* The connection is closed without an answer.
Dropped(s) ==
  [s EXCEPT !.at = "accept", !.client = "none",
            !.told = IF s.client = "own" THEN "closed" ELSE @]

\* No nonce, no complete headers within a second, or the relay is stopped.
Unwelcome(r) ==
  /\ At(r, {"headers"}) /\ Become(r, Dropped(relays[r]))
  /\ UNCHANGED <<lookups, looking>>

\* No connection was made: the provider's relay says so, unless it is stopped.
Refused(r) ==
  LET s == relays[r] IN
  [Dropped(s) EXCEPT !.told = IF s.stop \/ Crate = "mcp" THEN "closed" ELSE "502"]

\* resolve_target hands the name to the thread; an address needs none, and a lookups
\* that is full refuses.
LookUp(r) ==
  /\ At(r, {"headers"}) /\ relays[r].client = "own"
  /\ \/ Become(r, [relays[r] EXCEPT !.at = "connect"]) /\ UNCHANGED lookups
     \/ /\ Len(lookups) < LookupRoom
        /\ lookups' = Append(lookups, r) /\ Goes(r, "lookup")
     \/ /\ Len(lookups) = LookupRoom
        /\ Become(r, Refused(r)) /\ UNCHANGED lookups
  /\ UNCHANGED looking

DeadlinePasses(r) ==
  /\ At(r, {"lookup", "connect"}) /\ ~relays[r].overdue
  /\ Become(r, [relays[r] EXCEPT !.overdue = TRUE])
  /\ UNCHANGED <<lookups, looking>>

\* (mutant) the answer of the lookup is waited for
GivesUpOnceLooked(r) == At(r, {"connect"}) /\ (relays[r].stop \/ relays[r].overdue)

\* Every poll looks at the stop flag and the deadline.
GivesUp(r) == At(r, {"lookup", "connect"}) /\ (relays[r].stop \/ relays[r].overdue)

Abandon(r) ==
  /\ GivesUp(r) /\ Become(r, Refused(r))
  /\ UNCHANGED <<lookups, looking>>

\* Where a proxy is configured for the target, it is asked for a tunnel.
Connect(r) ==
  /\ At(r, {"connect"})
  /\ \/ Goes(r, "tunnel")
     \/ Goes(r, "forward")
     \/ Become(r, Refused(r))
  /\ UNCHANGED <<lookups, looking>>

\* The proxy opens the tunnel, refuses it, or closes; it has no deadline.
Tunnel(r) ==
  /\ At(r, {"tunnel"})
  /\ Goes(r, "forward") \/ Become(r, Refused(r))
  /\ UNCHANGED <<lookups, looking>>
TunnelStopped(r) ==
  /\ At(r, {"tunnel"}) /\ relays[r].stop /\ Become(r, Refused(r))
  /\ UNCHANGED <<lookups, looking>>

\* A write that does not go through at once is given up, whatever has gone out.
Forward(r) ==
  /\ At(r, {"forward"})
  /\ \E target \in Targets :
       \/ Become(r, [relays[r] EXCEPT !.at = "copy", !.bytes = "whole", !.told = "served",
                                      !.forwarded = OriginForm(Crate, target), !.ways = 2])
       \/ Become(r, [Dropped(relays[r]) EXCEPT !.bytes = "part"])
  /\ UNCHANGED <<lookups, looking>>

\* One direction ends, by its source or a failed write.
EndDirection(r) ==
  /\ At(r, {"copy"})
  /\ relays[r].ways > 0 /\ Become(r, [relays[r] EXCEPT !.ways = @ - 1])
  /\ UNCHANGED <<lookups, looking>>
CopyStopped(r) ==
  /\ At(r, {"copy"}) /\ relays[r].stop /\ relays[r].ways > 0
  /\ Become(r, [relays[r] EXCEPT !.ways = 0])
  /\ UNCHANGED <<lookups, looking>>

\* run: it serves one exchange, or until it is stopped.
Leave(r) ==
  /\ \/ At(r, {"copy"}) /\ relays[r].ways = 0
     \/ At(r, {"accept"}) /\ relays[r].stop
  /\ Goes(r, "gone")
  /\ UNCHANGED <<lookups, looking>>

\* The caller: its own deadline, a cancel, or the end of the request.
Stop(r) ==
  /\ ~relays[r].stop /\ Become(r, [relays[r] EXCEPT !.stop = TRUE])
  /\ UNCHANGED <<lookups, looking>>

-----------------------------------------------------------------------------
(* The thread that looks names up.                                         *)

TakeLookup ==
  /\ looking = {} /\ lookups # <<>>
  /\ looking' = {Head(lookups)} /\ lookups' = Tail(lookups)
  /\ UNCHANGED relays

\* The answer, or the failure, reaches a relay that still waits for it.
Looked ==
  \E r \in looking :
    /\ looking' = {} /\ UNCHANGED lookups
    /\ IF r \in Relays /\ At(r, {"lookup"}) THEN Goes(r, "connect") \/ Become(r, Refused(r))
       ELSE UNCHANGED relays

\* A name that nobody waits for any more.
OtherLookup ==
  /\ Len(lookups) < LookupRoom /\ lookups' = Append(lookups, Other)
  /\ UNCHANGED <<relays, looking>>

Next ==
  \/ \E r \in Relays :
       \/ Accept(r) \/ Unwelcome(r) \/ LookUp(r) \/ DeadlinePasses(r) \/ Abandon(r) \/ Connect(r)
       \/ Tunnel(r) \/ TunnelStopped(r) \/ Forward(r) \/ EndDirection(r) \/ CopyStopped(r)
       \/ Leave(r) \/ Stop(r)
  \/ TakeLookup \/ Looked \/ OtherLookup

\* What a relay's thread does by itself, by its polls and its timeouts: nothing is
\* promised of the lookup, of the proxy or of the other end.
Polls(r) ==
  \/ Unwelcome(r) \/ Abandon(r) \/ TunnelStopped(r) \/ Forward(r) \/ CopyStopped(r) \/ Leave(r)

Fairness == \A r \in Relays : WF_vars(Polls(r)) /\ WF_vars(DeadlinePasses(r))
Spec == Init /\ [][Next]_vars /\ Fairness

-----------------------------------------------------------------------------
(* Properties.                                                             *)

Stages == {"accept", "headers", "lookup", "connect", "tunnel", "forward", "copy", "gone"}

TypeOK ==
  /\ \A r \in Relays :
       /\ relays[r].at \in Stages /\ relays[r].bytes \in {"none", "part", "whole"}
       /\ relays[r].told \in {"none", "closed", "502", "served"}
       /\ relays[r].ways \in 0..2
  /\ Len(lookups) <= LookupRoom /\ looking \subseteq Relays \cup {Other}

\* A sender that is told that the connection failed before dispatch may send again: no
\* byte of its request has reached the other end, nor does one later (serve).
RefusalIsSafe == \A r \in Relays : relays[r].told = "502" => relays[r].bytes = "none"

\* A relay hangs on nothing, not on a lookup that holds up every other one of the
\* process, on a silent proxy, or on an end that neither reads nor writes: once it is
\* stopped it ends, for its caller joins its thread (stop), and as long as it is not,
\* the connect deadline ends its attempt to connect (resolve_target, connect_host).
AlwaysSettles ==
  \A r \in Relays : []<>(IF relays[r].stop THEN At(r, {"gone"}) ELSE ~At(r, {"lookup", "connect"}))

\* Whatever the form of its target, a request is forwarded with all that follows the
\* target: a request line that runs into the first header is no request (origin_form).
RequestIsKept ==
  \A r \in Relays : relays[r].forwarded # <<>> =>
    SubSeq(relays[r].forwarded, 4, Len(relays[r].forwarded)) = <<" ", "version", "CRLF", "headers", "body">>
=============================================================================
