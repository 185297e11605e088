------------------------------ MODULE ToolCalls -----------------------------
(***************************************************************************)
(* The life of a tool call: requested, started, ended, each an event of    *)
(* the trace written in a transaction of its own (TurnLoop::execute_calls, *)
(* ToolRegistry::dispatch); a process that may die between any two of      *)
(* them; the recovery passes of Store::resume that close what can be       *)
(* proved not to have run; and the reconciliation of what had started      *)
(* against the file it was about (TurnLoop::reconcile_interrupted_tools).  *)
(*                                                                         *)
(* SessionStore justifies that an event and its projection are written     *)
(* together; here a transaction is one step.  One file stands for the      *)
(* world; its content is the set of the texts it contains.                 *)
(***************************************************************************)
EXTENDS Integers, Sequences, FiniteSets, SequencesExt

CONSTANTS
  Ids,           \* call ids as the provider hands them out
  Tools,         \* which of the built-in tools the model may call
  MaxResponses,  \* bound: model requests of the session
  MaxCalls,      \* bound: tool calls of the session
  MaxCrashes,    \* bound: ends of the process
  MaxMeddling    \* bound: changes to the file by somebody else

ASSUME ToolCallBounds ==
  /\ IsFiniteSet(Ids)
  /\ Tools \subseteq {"read", "write", "edit", "append"}
  /\ {MaxResponses, MaxCalls, MaxCrashes, MaxMeddling} \subseteq Nat

VARIABLES
  trace,      \* the canonical trace; an event is identified by its index
  at,         \* where the process is
  batch,      \* the calls at hand: [of, calls, next, run, shown]
  current,    \* the call at hand: [request, started], 0 where not recorded
  seen,       \* what edit has read before it writes
  cancelled,  \* the turn's CancelToken
  file,       \* the world
  effect,     \* what the code of a request did, by its index
  crashes, meddling

process == <<at, batch, current, seen, cancelled>>
world == <<file, effect>>
vars == <<trace, process, world, crashes, meddling>>

NoFile == {"no file"}
Contents == {NoFile} \cup SUBSET {"find", "replace", "tail"}
ReadOnly == {"read"}

Call == [id : Ids, tool : Tools]
Batches == {calls \in BoundedSeq(Call, MaxCalls) :
              /\ calls # <<>>
              /\ \A i, j \in DOMAIN calls :
                   calls[i].id = calls[j].id => i = j}

NoBatch == [of |-> 0, calls |-> <<>>, next |-> 1, run |-> FALSE, shown |-> FALSE]
NoCall == [request |-> 0, started |-> 0]

-----------------------------------------------------------------------------
(* Events.  "answer" is the completion of a request together with the      *)
(* assistant message it projects; "ended" the completion of a request that *)
(* failed.  shown: the event has a projection, a tool result.              *)

Terminal == {"completed", "failed", "unknown"}
Events(kinds) == {e \in DOMAIN trace : trace[e].kind \in kinds}
Log(kind, parent, call, shown) ==
  Append(trace, [kind |-> kind, parent |-> parent, calls |-> <<call>>, shown |-> shown])
CallOf(e) == trace[e].calls[1]

\* resolve_pending_tool: a start and an early end point at the request, a
\* later end at the start.
RequestOf(e) ==
  IF trace[trace[e].parent].kind = "started" THEN trace[trace[e].parent].parent
                                              ELSE trace[e].parent
StartsOf(r) == {e \in Events({"started"}) : trace[e].parent = r}
EndsOf(r) == {e \in Events(Terminal) : RequestOf(e) = r}
Pending == {r \in Events({"requested"}) : EndsOf(r) = {}}
Earliest(events) == CHOOSE e \in events : \A f \in events : e <= f

\* scan_tool_lifecycles accepts the trace.
LifecyclesValid ==
  \A r \in Events({"requested"}) :
    /\ Cardinality(StartsOf(r)) <= 1
    /\ Cardinality(EndsOf(r)) <= 1
    /\ \A e \in EndsOf(r) : /\ trace[e].kind = "completed" => StartsOf(r) # {}
                            /\ \A s \in StartsOf(r) : s < e

\* (mutant) takes call ids for unique in the whole session
UnrequestedAnywhere ==
  {u \in Events({"answer"}) \X (1..MaxCalls) :
     /\ u[2] \in DOMAIN trace[u[1]].calls
     /\ \A r \in Events({"requested"}) : CallOf(r).id # trace[u[1]].calls[u[2]].id}

\* recover_unrequested_assistant_calls: the calls of an assistant message
\* with no request that has the message for its parent.
Unrequested ==
  {u \in Events({"answer"}) \X (1..MaxCalls) :
     /\ u[2] \in DOMAIN trace[u[1]].calls
     /\ \A r \in Events({"requested"}) :
          ~(trace[r].parent = u[1] /\ CallOf(r).id = trace[u[1]].calls[u[2]].id)}
FirstUnrequested ==
  CHOOSE u \in Unrequested :
    \A v \in Unrequested : u[1] < v[1] \/ (u[1] = v[1] /\ u[2] <= v[2])

Unstarted == {r \in Pending : StartsOf(r) = {}}
Interrupted == {r \in Pending : StartsOf(r) # {}}

\* validate_projection_alignment: an end that was never projected passes only
\* if no earlier start carries the same call id.
Aligned ==
  /\ \A e \in Events({"completed"}) : trace[e].shown
  /\ \A e \in Events({"failed", "unknown"}) :
       (\E s \in Events({"started"}) : s < e /\ CallOf(s).id = CallOf(e).id)
         => trace[e].shown

\* What looking at the file afterwards tells about a call that had started.
WriteVerdict == IF file = {"replace"} THEN "completed" ELSE "inspect"
EditVerdict ==
  CASE {"find", "replace"} \cap file = {"replace"} -> "completed"
    [] {"find", "replace"} \cap file = {"find"} -> "failed"
    [] OTHER -> "inspect"
Verdict(tool) ==
  CASE tool = "read" -> "failed"
    [] tool = "append" -> "inspect"
    [] tool \in {"write", "edit"} /\ file = NoFile -> "failed"
    [] tool = "write" /\ file # NoFile -> WriteVerdict
    [] tool = "edit" /\ file # NoFile -> EditVerdict

-----------------------------------------------------------------------------
TypeOK ==
  /\ at \in {"down", "abandoned", "unrequested", "refusal", "unstarted", "restore",
             "reconcile", "idle", "streaming", "batch", "requested", "running",
             "closing", "blocked", "refused"}
  /\ trace \in Seq([kind : {"asked", "answer", "ended", "requested", "started"} \cup Terminal,
                    parent : Nat, calls : Seq(Call), shown : BOOLEAN])
  /\ batch.calls \in Seq(Call) /\ batch.next \in 1..(Len(batch.calls) + 1)
  /\ current \in [request : 0..Len(trace), started : 0..Len(trace)]
  /\ {file, seen} \subseteq Contents /\ cancelled \in BOOLEAN
  /\ DOMAIN effect \subseteq Events({"requested"})
  /\ \A r \in DOMAIN effect : effect[r] \in {"none", "moot", "changed"}
  /\ crashes \in 0..MaxCrashes /\ meddling \in 0..MaxMeddling

Init ==
  /\ trace = <<>> /\ at = "idle" /\ batch = NoBatch /\ current = NoCall
  /\ seen = NoFile /\ cancelled = FALSE
  /\ file \in {NoFile, {"find"}} /\ effect = <<>>
  /\ crashes = 0 /\ meddling = 0

-----------------------------------------------------------------------------
(* The model request.  Its calls are drawn when it ends.                   *)

CallsSoFar == FoldLeft(LAMBDA n, e : n + (IF e.kind \in {"answer", "ended"}
                                          THEN Len(e.calls) ELSE 0), 0, trace)

Ask ==
  /\ at = "idle" /\ Cardinality(Events({"asked"})) < MaxResponses
  /\ trace' = Append(trace, [kind |-> "asked", parent |-> 0, calls |-> <<>>, shown |-> FALSE])
  /\ at' = "streaming" /\ cancelled' = FALSE
  /\ UNCHANGED <<batch, current, seen, world, crashes, meddling>>

\* The batch is committed with the message; run_inner executes it, or closes
\* it where tools are not to be run (finalization).
Answer(calls, run) ==
  /\ at = "streaming" /\ CallsSoFar + Len(calls) <= MaxCalls
  /\ trace' = Append(trace, [kind |-> "answer", parent |-> 0, calls |-> calls, shown |-> TRUE])
  /\ batch' = [of |-> Len(trace'), calls |-> calls, next |-> 1, run |-> run, shown |-> TRUE]
  /\ at' = "batch"
  /\ UNCHANGED <<current, seen, cancelled, world, crashes, meddling>>

\* A request that failed is closed, and so are the calls it had asked for;
\* after an output limit their results stay out of the context.
Fail(calls, shown) ==
  /\ at = "streaming" /\ CallsSoFar + Len(calls) <= MaxCalls
  /\ trace' = Append(trace, [kind |-> "ended", parent |-> 0, calls |-> calls, shown |-> FALSE])
  /\ batch' = [of |-> Len(trace'), calls |-> calls, next |-> 1, run |-> FALSE, shown |-> shown]
  /\ at' = "batch"
  /\ UNCHANGED <<current, seen, cancelled, world, crashes, meddling>>

-----------------------------------------------------------------------------
(* execute_calls and record_unexecuted_calls.                              *)

BatchDone ==
  /\ at = "batch" /\ batch.next > Len(batch.calls)
  /\ at' = "idle" /\ batch' = NoBatch
  /\ UNCHANGED <<trace, current, seen, cancelled, world, crashes, meddling>>

\* The token is looked at before every call; once it is set the whole
\* remaining tail is closed without running.
Request ==
  /\ at = "batch" /\ batch.next <= Len(batch.calls)
  /\ trace' = Log("requested", batch.of, batch.calls[batch.next], FALSE)
  /\ current' = [request |-> Len(trace'), started |-> 0]
  /\ batch' = [batch EXCEPT !.run = @ /\ ~cancelled]
  /\ at' = IF batch'.run THEN "requested" ELSE "closing"
  /\ UNCHANGED <<seen, cancelled, world, crashes, meddling>>

\* (mutant) tries again what ended unknown
RecordRetrying(kind, parent, shown) ==
  /\ trace' = Log(kind, parent, CallOf(current.request), shown)
  /\ batch' = [batch EXCEPT !.next = IF kind = "unknown" THEN @ ELSE @ + 1]
  /\ current' = NoCall /\ at' = "batch"
  /\ UNCHANGED <<seen, cancelled, world, crashes, meddling>>

Record(kind, parent, shown) ==
  /\ trace' = Log(kind, parent, CallOf(current.request), shown)
  /\ batch' = [batch EXCEPT !.next = @ + 1]
  /\ current' = NoCall /\ at' = "batch"
  /\ UNCHANGED <<seen, cancelled, world, crashes, meddling>>

Close == at = "closing" /\ Record("failed", current.request, batch.shown)

\* dispatch refuses before it starts anything: an invalid registry, the
\* token, an unknown or forbidden tool, the schema, preflight, approval; or
\* the arguments could not be parsed to begin with.
Refuse == at = "requested" /\ Record("failed", current.request, TRUE)

Tool == CallOf(current.request).tool

\* The start is recorded before any tool code runs.
Started ==
  /\ at = "requested"
  /\ trace' = Log("started", current.request, CallOf(current.request), FALSE)
  /\ current' = [current EXCEPT !.started = Len(trace')]
  /\ at' = "running"

Begin ==
  /\ Started
  /\ seen' = file
  /\ effect' = [r \in DOMAIN effect \cup {current.request} |->
                  IF r # current.request THEN effect[r]
                  ELSE IF Verdict(Tool) = "completed" THEN "moot" ELSE "none"]
  /\ UNCHANGED <<batch, cancelled, file, crashes, meddling>>


\* The rename of write and edit, the write of append: the file changes at
\* once.  edit goes by what it has read.
Write == Tool = "write" /\ file' = {"replace"}
Edit == /\ Tool = "edit" /\ "find" \in seen
        /\ file' = (seen \ {"find"}) \cup {"replace"}
AppendTo == Tool = "append" /\ file' = (file \ NoFile) \cup {"tail"}

Touch ==
  /\ at = "running" /\ effect[current.request] # "changed"
  /\ Write \/ Edit \/ AppendTo
  /\ effect' = [effect EXCEPT ![current.request] =
                  IF Tool = "write" /\ file' = file THEN "moot" ELSE "changed"]
  /\ UNCHANGED <<trace, process, crashes, meddling>>

Done == \/ effect[current.request] = "changed"
        \/ effect[current.request] = "moot" /\ Tool = "write"

\* (mutant) an error after the change counts as a failure
OutcomesWithoutUnknown ==
  {"failed"} \cup (IF Done /\ ~cancelled THEN {"completed"} ELSE {})

\* What a tool may answer, with coerce_state and implied_state applied: after
\* the change success, unless the token or the deadline is noticed; before it
\* a failure, or unknown where it broke off half way.
Outcomes ==
  IF Tool \in ReadOnly THEN {"completed", "failed"}
  ELSE {"unknown"}
         \cup (IF effect[current.request] = "changed" THEN {} ELSE {"failed"})
         \cup (IF Done /\ ~cancelled THEN {"completed"} ELSE {})

Finish(kind) ==
  /\ at = "running" /\ kind \in Outcomes
  /\ Record(kind, current.started, TRUE)

Cancel ==
  /\ at \in {"batch", "requested", "running"} /\ batch.run /\ ~cancelled
  /\ cancelled' = TRUE
  /\ UNCHANGED <<trace, at, batch, current, seen, world, crashes, meddling>>

-----------------------------------------------------------------------------
(* The process dies, or leaves; whoever else has the workspace open.       *)

Crash ==
  /\ at # "down" /\ crashes < MaxCrashes
  /\ crashes' = crashes + 1 /\ at' = "down"
  /\ batch' = NoBatch /\ current' = NoCall /\ seen' = NoFile /\ cancelled' = FALSE
  /\ UNCHANGED <<trace, world, meddling>>

Meddle(content) ==
  /\ at \in {"running", "down"} \* nothing looks at the file elsewhere
  /\ meddling < MaxMeddling /\ content # file
  /\ meddling' = meddling + 1 /\ file' = content
  /\ UNCHANGED <<trace, process, effect, crashes>>

-----------------------------------------------------------------------------
(* Store::resume: one pass after the other, each a series of writes.       *)

Move(to) ==
  /\ at' = to
  /\ UNCHANGED <<trace, batch, current, seen, cancelled, world, crashes, meddling>>

Resume == at = "down" /\ Move("abandoned")

\* inspect_model_request_lifecycles: the starts with no completion.
OpenRequests ==
  LET asked == Events({"asked"})
      done == Events({"answer", "ended"})
  IN {a \in asked : Cardinality({d \in done : d > a})
                      < Cardinality({b \in asked : b >= a})}

Abandon ==
  /\ at = "abandoned"
  /\ \/ /\ OpenRequests # {}
        /\ trace' = Append(trace, [kind |-> "ended", parent |-> Earliest(OpenRequests),
                                   calls |-> <<>>, shown |-> FALSE])
        /\ UNCHANGED <<process, world, crashes, meddling>>
     \/ OpenRequests = {} /\ Move("unrequested")

RequestLate ==
  /\ at = "unrequested"
  /\ \/ /\ Unrequested # {}
        /\ LET u == FirstUnrequested
           IN trace' = Log("requested", u[1], trace[u[1]].calls[u[2]], FALSE)
        /\ current' = [request |-> Len(trace'), started |-> 0] /\ at' = "refusal"
        /\ UNCHANGED <<batch, seen, cancelled, world, crashes, meddling>>
     \/ Unrequested = {} /\ Move("unstarted")

FailLate ==
  /\ at = "refusal"
  /\ trace' = Log("failed", current.request, CallOf(current.request), TRUE)
  /\ current' = NoCall /\ at' = "unrequested"
  /\ UNCHANGED <<batch, seen, cancelled, world, crashes, meddling>>

FailUnstarted ==
  /\ at = "unstarted"
  /\ \/ /\ Unstarted # {}
        /\ LET r == Earliest(Unstarted)
           IN trace' = Log("failed", r, CallOf(r), TRUE)
        /\ UNCHANGED <<process, world, crashes, meddling>>
     \/ Unstarted = {} /\ Move("restore")

Restorable == LifecyclesValid /\ Unstarted = {} /\ OpenRequests = {} /\ Aligned

Restore == at = "restore" /\ Move(IF Restorable THEN "reconcile" ELSE "refused")

\* (mutant) waits for a file it can judge
ReconcilePatiently ==
  /\ at = "reconcile"
  /\ \/ Interrupted = {} /\ Move("idle")
     \/ /\ Interrupted # {}
        /\ LET r == Earliest(Interrupted)
               verdict == Verdict(CallOf(r).tool)
           IN /\ verdict # "inspect"
              /\ trace' = Log(verdict, Earliest(StartsOf(r)), CallOf(r), TRUE)
              /\ UNCHANGED <<process, world, crashes, meddling>>

\* Before a turn may begin every interrupted call gets its result, or the
\* session stays blocked: also when the registry no longer offers the tool, or
\* offers one of another risk.
Reconcile ==
  /\ at = "reconcile"
  /\ \/ Interrupted = {} /\ Move("idle")
     \/ /\ Interrupted # {}
        /\ LET r == Earliest(Interrupted)
               verdict == Verdict(CallOf(r).tool)
           IN \/ /\ verdict # "inspect"
                 /\ trace' = Log(verdict, Earliest(StartsOf(r)), CallOf(r), TRUE)
                 /\ UNCHANGED <<process, world, crashes, meddling>>
              \/ Move("blocked")

-----------------------------------------------------------------------------
Recovery == Abandon \/ RequestLate \/ FailLate \/ FailUnstarted \/ Restore \/ Reconcile

Turn ==
  \/ Ask \/ BatchDone \/ Request \/ Close \/ Refuse \/ Begin \/ Touch
  \/ \E calls \in Batches, run \in BOOLEAN : Answer(calls, run)
  \/ \E calls \in Batches \cup {<<>>}, shown \in BOOLEAN : Fail(calls, shown)
  \/ \E kind \in Terminal : Finish(kind)

Next ==
  \/ Turn \/ Recovery \/ Cancel \/ Crash \/ Resume
  \/ \E content \in {NoFile, {}, {"replace"}} : Meddle(content)

\* A recovery that has begun goes on, and the user starts the program again.
Spec == Init /\ [][Next]_vars /\ WF_vars(Recovery) /\ WF_vars(Resume)

-----------------------------------------------------------------------------
(* What a call that was closed without running, what one that was closed   *)
(* by looking at the file, and what a session that accepts turns promise.  *)

\* A result says "not executed" only of code that never ran: whatever part of
\* the life of a call a crash leaves, an end that follows the request alone
\* belongs to a call that never reached its tool (recover_unstarted_tool_requests:
\* "provably safe: no tool code could have run").
ClosedNeverRan ==
  \A e \in Events({"failed"}) :
    trace[trace[e].parent].kind = "requested" => trace[e].parent \notin DOMAIN effect

\* Before the next model request every call of every assistant message of the
\* history has exactly one result, over all crashes in the middle of a batch,
\* of a recovery pass or of a reconciliation.
CallsAnswered ==
  at \in {"idle", "streaming"} =>
    /\ Pending = {}
    /\ \A a \in Events({"answer"}) : \A i \in DOMAIN trace[a].calls :
         Cardinality({e \in Events(Terminal) :
                        /\ trace[e].shown /\ trace[RequestOf(e)].parent = a
                        /\ CallOf(e).id = trace[a].calls[i].id}) = 1

\* What the model is told about a change is what happened to the file, unless
\* somebody else had it: no success without the effect (or a file that already
\* was as asked), no failure with it.
ToldTheTruth ==
  meddling = 0 =>
    \A e \in Events({"completed", "failed"}) :
      LET r == RequestOf(e) IN
        r \in DOMAIN effect /\ CallOf(r).tool \notin ReadOnly =>
          effect[r] # (IF trace[e].kind = "failed" THEN "changed" ELSE "none")

\* Resume never refuses what runs and recoveries leave behind, except where a
\* provider gave an id a second time: validate_projection_alignment looks for
\* starts by call id in the whole trace.
RefusedOnlyForReuse ==
  at = "refused" =>
    /\ LifecyclesValid
    /\ \E s \in Events({"started"}), e \in Events({"failed"}) :
         s < e /\ CallOf(s).id = CallOf(e).id /\ RequestOf(e) # trace[s].parent

\* A session that went down comes back, or says why it cannot.
ComesBack == at = "down" ~> at \in {"idle", "blocked", "refused"}

\* execute_calls and recovery never run a call a second time.
RunsOnce ==
  [][\A r \in DOMAIN effect' \ DOMAIN effect :
       \A q \in DOMAIN effect :
         trace[q].parent = trace[r].parent => CallOf(q).id # CallOf(r).id]_vars

-----------------------------------------------------------------------------
(***************************************************************************)
(* What a replay says may be done again with the tool calls of a recorded  *)
(* trace (rupi-replay, tool_replay_states_from_entries), at any event of   *)
(* it, compared with what the calls did.                                   *)
(***************************************************************************)
ToolEvents == {"requested", "started"} \cup Terminal

\* States are kept by call id: the last event of an id is its state.
StateOf(entries, id) ==
  LET events == {e \in DOMAIN entries : /\ entries[e].kind \in ToolEvents
                                        /\ entries[e].calls[1].id = id}
  IN IF events = {} THEN 0 ELSE CHOOSE e \in events : \A f \in events : f <= e

Decision(event, readOnly) ==
  CASE event.kind \in {"completed", "failed"} -> "ReuseCommittedResult"
    [] event.kind \in {"requested", "started", "unknown"} /\ readOnly ->
         "SafeToReplayReadOnly"
    [] event.kind = "requested" /\ ~readOnly -> "RequestedOnly"
    [] event.kind \in {"started", "unknown"} /\ ~readOnly -> "ReconcileBeforeReplay"

\* update_tool_state: read_only is the request's, or the unknown event's own.
DecisionAt(entries, id) ==
  LET event == entries[StateOf(entries, id)]
  IN Decision(event, event.calls[1].tool \in ReadOnly)

\* plan_historical_branch: the calls a branch must reconcile first.
BlockedTools(entries) ==
  {id \in Ids : StateOf(entries, id) # 0
                  /\ DecisionAt(entries, id) = "ReconcileBeforeReplay"}

LastRequestOf(id) ==
  LET requests == {r \in Events({"requested"}) : CallOf(r).id = id}
  IN CHOOSE r \in requests : \A q \in requests : q <= r

(* A change that a call has made is never offered to be made again: the      *)
(* call is blocked until somebody looked, or a result the file bears out is  *)
(* reused.  Only the last call of an id is vouched for.                      *)
NothingReplayedBlind ==
  \A id \in Ids :
    StateOf(trace, id) # 0 =>
      LET r == LastRequestOf(id)
      IN r \in DOMAIN effect /\ effect[r] = "changed" =>
           \/ id \in BlockedTools(trace)
           \/ /\ DecisionAt(trace, id) = "ReuseCommittedResult"
              /\ \/ trace[StateOf(trace, id)].kind = "completed"
                 \/ trace[StateOf(trace, id)].kind = "failed" /\ meddling > 0

(* Together: whatever a result says, to the model, to a resume or to a       *)
(* replay, is true of the call it answers, in every state of every history.  *)
ResultsAreTrue ==
  TypeOK /\ ClosedNeverRan /\ ToldTheTruth /\ RefusedOnlyForReuse /\ NothingReplayedBlind
=============================================================================
