---------------------------- MODULE MCMcpWorker -----------------------------
(***************************************************************************)
(* The worker as an MCP server: its calls, between two clients that call at *)
(* once, and the loop that serves its resources, each checked on its own;  *)
(* "part" says which of them moves.                                        *)
(***************************************************************************)
EXTENDS McpWorker

CONSTANTS PageLimit, MostItems, MostChanges, MostPages, MostOthers

VARIABLES part, engine, trace, messages, diff, changes, sent, pipe, answered, pager, serving

Server == INSTANCE WorkerServer

serverVars == <<engine, trace, messages, diff, changes, sent, pipe, answered, pager, serving>>
bothVars == <<part, sessions, jobs, tokens, calls, nextRun, known,
              engine, trace, messages, diff, changes, sent, pipe, answered, pager, serving>>

BothInit ==
  /\ part \in {"calls", "resources"}
  /\ Init /\ Server!Init
  /\ part = "calls" => engine = "counted" /\ pager.kind = "trace"

BothNext ==
  /\ UNCHANGED part
  /\ \/ part = "calls" /\ Next /\ UNCHANGED serverVars
     \/ part = "resources" /\ Server!Next /\ UNCHANGED vars

\* A run's thread is scheduled, see McpWorker's Spec.
MovingRun == part = "calls" /\ RunThread /\ UNCHANGED serverVars /\ UNCHANGED part

BothSpec == BothInit /\ [][BothNext]_bothVars /\ WF_bothVars(MovingRun)

\* Whoever follows a session over serve_stdio misses nothing: every request is
\* answered, and what an engine counts is read page by page as a whole, each item once
\* (the properties of WorkerServer, each stated and explained there, with what is missed
\* of items that are not counted).
ResourcesAreFollowed ==
  part = "resources" =>
    /\ Server!EveryRequestAnswered /\ Server!TraceIsFollowed
    /\ Server!MessagesAreFollowed /\ Server!DiffIsWhole
=============================================================================
