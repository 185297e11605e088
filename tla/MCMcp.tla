------------------------------- MODULE MCMcp -------------------------------
(***************************************************************************)
(* A session's MCP servers: the calls of two callers that share a server   *)
(* process, the calls of one server's tools over HTTP, and the catalogs of *)
(* two servers, each checked on its own; "part" says which of them moves.  *)
(***************************************************************************)
EXTENDS McpStdio

CONSTANTS MaxExchanges, Sessions,
          ServerTools, ServerBytes, ActiveTools, ActiveBytes, ListPages, MaxOpens

VARIABLES part,
  exchanges, exchangeId, usable, session, mutating, posted, effect, broken, outcomes,
  clients, active, dead, registry, opens, listed, last

\* Two servers, one with a name that begins like the other's; tools whose names have
\* one part, and one of two by which the first names a tool of the second.
Servers == {<<"a">>, <<"a", "b">>}
ToolNames == {<<"t">>, <<"w">>, <<"b", "t">>}

Http == INSTANCE McpHttp WITH MaxCalls <- MaxExchanges, calls <- exchanges,
                              nextId <- exchangeId, alive <- usable
Catalog == INSTANCE McpCatalog

httpVars == <<exchanges, exchangeId, usable, session, mutating, posted, effect, broken, outcomes>>
catalogVars == <<clients, active, dead, registry, opens, listed, last>>
serverVars == <<part, calls, nextId, pending, channel, alive, holder, stdin, stdout, child,
                served, reader, httpVars, catalogVars>>

ServersInit == part \in {"stdio", "http", "catalog"} /\ Init /\ Http!Init /\ Catalog!Init

ServersNext ==
  /\ UNCHANGED part
  /\ \/ part = "stdio" /\ Next /\ UNCHANGED <<httpVars, catalogVars>>
     \/ part = "http" /\ Http!Next /\ UNCHANGED <<vars, catalogVars>>
     \/ part = "catalog" /\ Catalog!Next /\ UNCHANGED <<vars, httpVars>>

\* McpStdio's Fairness, against a child that goes on reading, and a condition that
\* McpHttp's Fairness implies: as long as one of the fair threads can go on, one of
\* them does, which is enough because there are only so many calls and none of their
\* steps is ever taken back.
Moving == IF part = "stdio" THEN vars ELSE httpVars
Fair(stdio, http) == UNCHANGED part /\ IF part = "stdio" THEN stdio ELSE part = "http" /\ http
Thread(c) == Http!Receive(c) \/ Http!Return(c) \/ Http!RelayEnds(c) \/ Http!Send(c) \/ Http!TimesOut(c)
ServersFairness ==
  /\ \A c \in Callers : SF_Moving(Fair(Caller(c), FALSE))
  /\ WF_Moving(Fair(Reader, \E c \in Callers : Thread(c)))
  /\ WF_Moving(Fair(ChildReads, FALSE))

ServersSpec == ServersInit /\ [][ServersNext]_serverVars /\ ServersFairness

\* The properties of the modules, in groups: each is stated and explained in
\* its module; AnswersAreMatched is McpStdio's own.

\* An outcome of a call over HTTP is what the server did for that very request,
\* and a call that is over, cancelled or not, has left nothing behind that could
\* still act, nor a transport that is closed to the others.
ExchangesHold ==
  part = "http" => /\ Http!TypeOK /\ Http!OutcomeIsTheServers
                   /\ Http!NothingDetached /\ Http!CancelClosesNothing

\* After every step the tools a model may call are whole catalogs of servers that
\* are enabled, within every limit, and a command for one server has left those of
\* the others alone.
Listed ==
  part = "catalog" => /\ Catalog!TypeOK /\ Catalog!AdmittedFits /\ Catalog!CatalogIsWhole
                      /\ Catalog!CallableNow /\ Catalog!DisabledIsGone
CatalogHolds == [][Listed' /\ Catalog!OthersStay]_serverVars

\* Every call of either kind returns: McpStdio's CallsEnd and McpHttp's CallsReturn.
Away(c) == IF part = "stdio" THEN ~At(c, "free")
           ELSE part = "http" /\ exchanges[c].step # "free"
CallsReturn == \A c \in Callers : Away(c) ~> ~Away(c)
=============================================================================
