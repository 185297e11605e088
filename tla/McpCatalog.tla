----------------------------- MODULE McpCatalog -----------------------------
(***************************************************************************)
(* What /mcp enable and /mcp disable do to the tools a session offers:     *)
(* rupi_mcp's McpManager with the client's handshake and tools/list, and   *)
(* the registry that SessionHandle fills and empties by tool name.         *)
(*                                                                         *)
(* A name is the sequence of the parts that "__" joins in the code, so     *)
(* mcp_namespaced_tool_name is concatenation and unregister_prefix compares *)
(* sequences.  The servers are external: they list what they like, page by *)
(* page, and their processes may die at any time.  One thread gives the    *)
(* commands.  Whether the configuration calls a tool read-only, and how    *)
(* long the first enable took, decides nothing here and is left out.       *)
(***************************************************************************)
EXTENDS Integers, Sequences, FiniteSets, SequencesExt

CONSTANTS
  Servers,        \* configured servers, each a sequence of name parts
  ToolNames,      \* what servers call their tools, likewise
  ServerTools,    \* MAX_MCP_TOOLS_PER_SERVER
  ServerBytes,    \* MAX_MCP_SERVER_METADATA_BYTES
  ActiveTools,    \* MAX_ACTIVE_MCP_TOOLS
  ActiveBytes,    \* MAX_ACTIVE_MCP_METADATA_BYTES
  ListPages,      \* MAX_TOOL_LIST_PAGES
  MaxOpens        \* bound: clients that are admitted

VARIABLES
  clients,      \* McpManager::clients: which client a server has, or 0
  active,       \* McpManager::active_tools, a sequence of definitions
  dead,         \* clients whose process has died
  registry,     \* ToolRegistry's MCP tools: [name, server, client]
  opens,        \* clients admitted so far
  listed,       \* history: what the pages of the admitted client held
  last          \* history: how the last command for a server ended

catalogVars == <<clients, active, dead, registry, opens, listed, last>>

\* A definition as the server lists it; its schema says that arguments are an
\* object, leaves the type out, or is one that is refused.
Definitions == [name : ToolNames, schema : {"object"}]
                 \cup [name : {CHOOSE n \in ToolNames : TRUE}, schema : {"untyped", "refused"}]

\* validate_mcp_tool_definition writes the type in and then takes the measure.
Normal(definition) ==
  IF definition.schema = "untyped" THEN [definition EXCEPT !.schema = "object"] ELSE definition

Cost(definition) == Len(definition.name) + IF definition.schema = "object" THEN 1 ELSE 0
Bytes(definitions) == FoldSeq(LAMBDA d, sum : sum + Cost(d), 0, definitions)

TypeOK ==
  /\ clients \in [Servers -> 0..MaxOpens] /\ dead \subseteq 1..MaxOpens /\ opens \in 0..MaxOpens
  /\ active \in [Servers -> Seq(Definitions)]
  /\ \A e \in registry : e.server \in Servers /\ e.client \in 1..opens
  /\ listed \in [Servers -> SUBSET Definitions]
  /\ last \in [Servers -> {"none", "enabled", "rejected", "disabled"}]

Init ==
  /\ clients = [s \in Servers |-> 0] /\ active = [s \in Servers |-> <<>>] /\ dead = {}
  /\ registry = {} /\ opens = 0 /\ listed = [s \in Servers |-> {}]
  /\ last = [s \in Servers |-> "none"]

-----------------------------------------------------------------------------
(* Discovery and admission.                                                *)

\* The pages a server would answer with: page 1 without a cursor, the page
\* "next" names with one; 0 is the empty or absent cursor.
Contents(n) == UNION {[1..k -> Definitions] : k \in 0..n}
Pagings ==
  {<<[tools |-> a, next |-> i], [tools |-> b, next |-> j], [tools |-> <<>>, next |-> 0]>> :
     a \in Contents(2), b \in Contents(1), i \in {0, 2}, j \in {0, 2, 3}}

Refused == [ok |-> FALSE, tools |-> <<>>]

\* McpClient::list_tools from its page number "count" on.
RECURSIVE ListTools(_, _, _, _, _)
ListTools(pages, at, seen, found, count) ==
  LET page == pages[at]
      all == found \o page.tools
  IN  IF Len(all) > ServerTools THEN Refused
      ELSE IF page.next = 0 THEN [ok |-> TRUE, tools |-> all]
      ELSE IF page.next \in seen \/ count = ListPages THEN Refused
      ELSE ListTools(pages, page.next, seen \cup {page.next}, all, count + 1)

Discover(pages) == ListTools(pages, 1, {}, <<>>, 1)

Names(definitions) == {definitions[i].name : i \in DOMAIN definitions}

\* What the other servers already take up, those whose process has died too.
Others(s) == Servers \ {s}
OtherTools(s) == FoldSet(LAMBDA t, sum : sum + Len(active[t]), 0, Others(s))
OtherBytes(s) == FoldSet(LAMBDA t, sum : sum + Bytes(active[t]), 0, Others(s))

Admits(s, found) ==
  /\ \A i \in DOMAIN found : found[i].schema = "object"
  /\ Cardinality(Names(found)) = Len(found)
  /\ Bytes(found) <= ServerBytes
  /\ OtherTools(s) + Len(found) <= ActiveTools
  /\ OtherBytes(s) + Bytes(found) <= ActiveBytes

\* The definitions on the pages that following the cursors leads to.
Reached(pages) ==
  LET Follow(S) == S \cup ({pages[k].next : k \in S} \ {0})
  IN  UNION {{Normal(d) : d \in Range(pages[k].tools)} : k \in Follow(Follow({1}))}

\* What a server can be found to offer, and what its pages held.
Offers ==
  {[tools |-> [i \in DOMAIN Discover(pages).tools |-> Normal(Discover(pages).tools[i])],
    listed |-> Reached(pages)] : pages \in {p \in Pagings : Discover(p).ok}}

-----------------------------------------------------------------------------
(* The commands.                                                           *)

Namespaced(s, name) == s \o name

Entries(s, definitions, client) ==
  {[name |-> Namespaced(s, n), server |-> s, client |-> client] : n \in Names(definitions)}

\* (mutant) a name that is taken keeps its tool
RegisteredFirst(entries) ==
  registry \cup {f \in entries : \A e \in registry : f.name # e.name}

\* register_shared: a name is in the registry once, the last one stays.
Registered(entries) ==
  {e \in registry : \A f \in entries : f.name # e.name} \cup entries

IsActive(s) == clients[s] # 0 /\ clients[s] \notin dead

\* mcp_enable for a server that is connected: its tools are registered again.
EnableAgain(s) ==
  /\ IsActive(s)
  /\ registry' = Registered(Entries(s, active[s], clients[s]))
  /\ last' = [last EXCEPT ![s] = "enabled"]
  /\ UNCHANGED <<clients, active, dead, opens, listed>>

\* The server is started, shakes hands, lists its tools and is admitted.
Enable(s) ==
  /\ ~IsActive(s) /\ opens < MaxOpens
  /\ \E offer \in Offers :
       /\ Admits(s, offer.tools)
       /\ active' = [active EXCEPT ![s] = offer.tools]
       /\ listed' = [listed EXCEPT ![s] = offer.listed]
       /\ registry' = Registered(Entries(s, offer.tools, opens + 1))
  /\ clients' = [clients EXCEPT ![s] = opens + 1] /\ opens' = opens + 1
  /\ last' = [last EXCEPT ![s] = "enabled"]
  /\ UNCHANGED dead

\* The server cannot be started or reached, speaks no version that
\* negotiate_protocol_version knows, or its list or its tools are refused.
Reject(s) ==
  /\ ~IsActive(s)
  /\ last' = [last EXCEPT ![s] = "rejected"]
  /\ UNCHANGED <<clients, active, dead, registry, opens, listed>>

\* unregister_prefix.
Unregistered(s) == {e \in registry : ~IsPrefix(s, e.name)}

Disable(s) ==
  /\ clients' = [clients EXCEPT ![s] = 0] /\ active' = [active EXCEPT ![s] = <<>>]
  /\ listed' = [listed EXCEPT ![s] = {}]
  /\ registry' = Unregistered(s)
  /\ last' = [last EXCEPT ![s] = "disabled"]
  /\ UNCHANGED <<dead, opens>>

\* is_alive of a transport over HTTP: a cancelled call takes its failure back.
ServerIsBack(client) ==
  /\ client \in dead /\ dead' = dead \ {client}
  /\ UNCHANGED <<clients, active, registry, opens, listed, last>>

ServerDies(client) ==
  /\ client \in 1..opens \ dead /\ dead' = dead \cup {client}
  /\ UNCHANGED <<clients, active, registry, opens, listed, last>>

Next ==
  \/ \E s \in Servers : EnableAgain(s) \/ Enable(s) \/ Reject(s) \/ Disable(s)
  \/ \E client \in 1..MaxOpens : ServerDies(client) \/ ServerIsBack(client)

Spec == Init /\ [][Next]_catalogVars

-----------------------------------------------------------------------------

\* However often servers are enabled, die and are enabled again with another
\* catalog, what is offered to a model request stays within the limits of one
\* server and of all of them.
AdmittedFits ==
  /\ \A s \in Servers : Len(active[s]) <= ServerTools /\ Bytes(active[s]) <= ServerBytes
  /\ FoldSet(LAMBDA s, sum : sum + Len(active[s]), 0, Servers) <= ActiveTools
  /\ FoldSet(LAMBDA s, sum : sum + Bytes(active[s]), 0, Servers) <= ActiveBytes

\* A server whose tools are admitted is admitted with all of them, each once:
\* no page is skipped, cut off or taken twice.
CatalogIsWhole ==
  \A s \in Servers : /\ Range(active[s]) = listed[s]
                     /\ Len(active[s]) = Cardinality(Names(active[s]))

\* The known defect: a name may begin with the names of two servers, and then a
\* command for the one takes it from the other.
Contested(s, name) == \E t \in Others(s) : IsPrefix(t, name) /\ last[t] # "none"

\* A connected server's tools are callable, and through the client that is
\* connected, not through one that an earlier enable left behind, but for what a
\* server with a name like its own may have taken.
CallableNow ==
  \A s \in Servers : IsActive(s) =>
    \A e \in Entries(s, active[s], clients[s]) : e \in registry \/ Contested(s, e.name)

\* Nothing of a disabled server can be called, not even what an earlier
\* catalog of it had and a later one had not.
DisabledIsGone ==
  \A e \in registry : clients[e.server] # 0

\* What the command for s takes from another server by that defect: a disable
\* whatever is under its prefix, an enable the names that it registers itself.
Takes(s, e) ==
  /\ IsPrefix(s, e.name)
  /\ last'[s] = "disabled" \/ \E f \in registry' : f.server = s /\ f.name = e.name

\* Of every step: a command for one server leaves the registered tools of the
\* others alone, but for that.
OthersStay ==
  \E s \in Servers : \A t \in Others(s) :
    LET before == {e \in registry : e.server = t}
        after == {e \in registry' : e.server = t}
    IN after \subseteq before /\ \A e \in before \ after : Takes(s, e)

=============================================================================
