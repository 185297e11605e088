------------------------------ MODULE TurnLoop ------------------------------
(***************************************************************************)
(* rupi_runtime::turn::TurnLoop: one user turn after another, each a loop  *)
(* of model requests and tool batches under a request budget, with         *)
(* retries, one takeover by a backup model, two one-shot recoveries by     *)
(* compaction, the progress boundary and a finalization request.           *)
(*                                                                         *)
(* The provider, the tools and the person who may cancel are the           *)
(* environment.  The content of messages is abstracted; what is kept of    *)
(* the history is whether the last batch of calls is part of it and which  *)
(* results follow.  A trace that cannot be written ends the session (Die). *)
(***************************************************************************)
EXTENDS Integers, Sequences

CONSTANTS
  Configs,      \* the configurations to consider, one is chosen for the session
  MaxRequests,  \* TurnLoop::max_requests
  MaxAttempts,  \* FailoverPolicy::max_attempts
  MaxTurns,     \* bound: turns of the session
  MaxCalls      \* bound: tool calls of one response

\* backup: no backup model, one that can take over, one with a hard gap.
\* resumed: the model of the last epoch of the session that is resumed, which
\* with_resume_state only wants attached; the primary for a new session.
\* auto: mutating tools need no approval.  live: the surface cannot take
\* back what it showed.  limit: requests without progress, 0 for no boundary.
Config ==
  {c \in [backup : {"none", "able", "unable"}, resumed : {"primary", "backup"},
          auto : BOOLEAN, live : BOOLEAN, limit : Nat] :
     c.resumed = "backup" => c.backup # "none"}

ASSUME TurnBounds ==
  /\ Configs \subseteq Config
  /\ MaxRequests \in Nat \ {0} /\ MaxAttempts \in Nat \ {0}
  /\ MaxTurns \in Nat /\ MaxCalls \in Nat

VARIABLES
  config,      \* the configuration of the session
  active,      \* "primary" or "backup": the model of the last epoch
  turns,       \* turns begun
  at,          \* where the loop is
  mode,        \* "work", or "assess" for run_finalization
  finalizing,  \* the request under way is the reserved one without tools
  mayApprove,  \* a mutating call could be approved, sampled every round
  requests,    \* TurnLoop::requests
  attempts,    \* attempts_on_model
  recovered,   \* the one-shot recoveries this turn has used
  boundary,    \* progress boundary: [active, used, idle]
  failure,     \* the failure being handled
  batch,       \* the calls of the turn's last response, with their lifecycles
  committed,   \* that response is an assistant message of the history
  next,        \* execute_calls: the call to look at
  cancelled,   \* the turn's CancelToken
  status,      \* how the last turn ended
  spill,       \* what the last failed request let out
  late         \* requests started with the token already set

conf == <<config, turns, mode>>
budgeting == <<requests, attempts, late>>
exchange == <<batch, committed, next>>
vars == <<conf, active, at, finalizing, mayApprove, budgeting, recovered,
          boundary, failure, exchange, cancelled, status, spill>>

\* What a call asks for: to look, to make a change that counts as progress or
\* one that does not, or nothing that could be decoded.
Tools == {"inspect", "change", "aside", "garbled"}
Mutating == {"change", "aside"}
Kinds == {"transport", "protocol", "semantic", "overflow", "limit", "unsure",
          "flooded"}
Terminal == {"succeeded", "failed", "unknown"}

NewCall(tool) == [tool |-> tool, state |-> "requested", results |-> 0, runs |-> 0]
Batches == UNION {[1..n -> Tools] : n \in 0..MaxCalls}
Requested(tools) == [i \in 1..Len(tools) |-> NewCall(tools[i])]

\* record_unexecuted_calls: a terminal event each, and a result if asked for
Unexecuted(calls, from, results) ==
  [i \in DOMAIN calls |->
     IF i < from THEN calls[i]
     ELSE [calls[i] EXCEPT !.state = "failed", !.results = @ + results]]

NoFailure == [kind |-> "semantic", partial |-> FALSE, shown |-> FALSE,
              room |-> FALSE, safe |-> FALSE]
AtRest == [active |-> FALSE, used |-> FALSE, idle |-> 0]

Budget == IF mode = "assess" THEN 1 ELSE MaxRequests

\* One request is kept for the finalization, unless a truncated response
\* has been granted its retry.
NormalLimit == IF Budget > 1 /\ "truncation" \notin recovered
                 THEN Budget - 1 ELSE Budget

ToolsEnabled == mode = "work" /\ ~finalizing

Init ==
  /\ config \in Configs /\ active = config.resumed /\ turns = 0
  /\ at = "idle" /\ mode = "work" /\ finalizing = FALSE /\ mayApprove = FALSE
  /\ requests = 0 /\ attempts = 0 /\ recovered = {} /\ boundary = AtRest
  /\ failure = NoFailure /\ batch = <<>> /\ committed = FALSE /\ next = 1
  /\ cancelled = FALSE /\ status = "none" /\ spill = "none" /\ late = 0

(* ----------------------------- turn boundaries --------------------------- *)

StartTurn(m) ==
  /\ at = "idle" /\ turns < MaxTurns
  /\ turns' = turns + 1 /\ mode' = m /\ at' = "round" /\ status' = "running"
  /\ finalizing' = FALSE /\ requests' = 0 /\ attempts' = 0 /\ late' = 0
  /\ recovered' = {} /\ boundary' = AtRest /\ failure' = NoFailure
  /\ batch' = <<>> /\ committed' = FALSE /\ next' = 1
  /\ cancelled' = FALSE /\ spill' = "none"
  /\ UNCHANGED <<config, active, mayApprove>>

RunTurn == StartTurn("work")
RunFinalization == StartTurn("assess")

FailoverManual ==
  /\ at = "idle" /\ config.backup = "able" /\ active = "primary"
  /\ active' = "backup"
  /\ UNCHANGED <<conf, at, finalizing, mayApprove, budgeting, recovered, boundary,
                 failure, exchange, cancelled, status, spill>>

SwitchBackManual ==
  /\ at = "idle" /\ active = "backup"
  /\ active' = "primary"
  /\ UNCHANGED <<conf, at, finalizing, mayApprove, budgeting, recovered, boundary,
                 failure, exchange, cancelled, status, spill>>

\* finish and finish_failure: the terminal event, then the flush
Finish(outcome) == at' = "idle" /\ status' = outcome
GoTo(step) == at' = step /\ UNCHANGED status

(* -------------------------------- a round -------------------------------- *)

\* (mutant) the token is only looked at before the first request
StoppedAtFirst == cancelled /\ requests = 0

\* What is_cancelled answers at the top of a round.
Stopped == cancelled

\* The head of the request loop, and what follows it once the limit is reached.
Round ==
  /\ at = "round"
  /\ \/ /\ requests < NormalLimit /\ Stopped
        /\ Finish("cancelled") /\ UNCHANGED <<finalizing, mayApprove, attempts>>
     \/ /\ requests < NormalLimit /\ ~Stopped
        /\ mayApprove' \in {config.auto, TRUE} /\ attempts' = 0
        /\ GoTo("build") /\ UNCHANGED finalizing
     \/ /\ requests >= NormalLimit /\ ~boundary.active
        /\ Budget > 1 /\ requests < Budget
        /\ IF Stopped
             THEN Finish("cancelled") /\ UNCHANGED <<finalizing, attempts>>
             ELSE finalizing' = TRUE /\ attempts' = 0 /\ GoTo("build")
        /\ UNCHANGED mayApprove
     \/ /\ requests >= NormalLimit
        /\ boundary.active \/ Budget = 1 \/ requests >= Budget
        /\ Finish("exhausted") /\ UNCHANGED <<finalizing, mayApprove, attempts>>
  /\ UNCHANGED <<conf, active, requests, late, recovered, boundary, failure,
                 exchange, cancelled, spill>>

\* The narrowed tool set of an active boundary has become empty.
NoProgressTool == boundary.active /\ ToolsEnabled /\ ~mayApprove

\* build_request refuses: no progress tool, or no window left for an answer.
BuildRefused ==
  /\ at = "build"
  /\ Finish("failed")
  /\ UNCHANGED <<conf, active, finalizing, mayApprove, budgeting, recovered,
                 boundary, failure, exchange, cancelled, spill>>

\* (mutant) a corrective request of the boundary is not counted
SpentUnlessCorrecting == IF boundary.active THEN requests ELSE requests + 1

\* Every request is counted where it is begun, retries and takeovers too.
Spent == requests + 1

StartRequest ==
  /\ at = "build" /\ ~NoProgressTool
  /\ requests' = Spent /\ attempts' = attempts + 1
  /\ late' = IF cancelled THEN late + 1 ELSE late
  /\ GoTo("stream")
  /\ UNCHANGED <<conf, active, finalizing, mayApprove, recovered, boundary, failure,
                 exchange, cancelled, spill>>

(* ------------------------------- a response ------------------------------ *)

\* (mutant) a failure is partial only if the adapter says so
Admitted(admits, heard, tools) == admits

\* Collector::committed, or the adapter's own word.
Partial(admits, heard, tools) == admits \/ heard \/ tools # <<>>

\* An active boundary takes no answer without calls for a completion.
RejectedCompletion(tools) == boundary.active /\ tools = <<>>

\* The response is complete: record_response, then what its calls ask for.
Answered ==
  /\ at = "stream"
  /\ \E tools \in Batches :
       /\ committed' = TRUE /\ next' = 1
       /\ \/ /\ RejectedCompletion(tools)
             /\ batch' = <<>> /\ GoTo("round")
          \/ /\ tools = <<>> /\ ~RejectedCompletion(tools)
             /\ batch' = <<>>
             /\ Finish(IF finalizing THEN "exhausted" ELSE "completed")
          \/ /\ tools # <<>> /\ ~ToolsEnabled
             /\ batch' = Unexecuted(Requested(tools), 1, 1)
             /\ Finish("exhausted")
          \/ /\ tools # <<>> /\ ToolsEnabled
             /\ batch' = Requested(tools) /\ GoTo("calls")
  /\ spill' = "none"
  /\ UNCHANGED <<conf, active, finalizing, mayApprove, budgeting, recovered,
                 boundary, failure, cancelled>>

\* What a failed request leaves: the adapter's kind, whether it says that output
\* was emitted, text that was heard, room below the output ceiling, a request
\* known not to have been sent, and the calls decoded.  Calls are only decoded
\* at the end of a stream, or drained after a timeout; which tools they name
\* makes no difference, they are all closed alike.
Decoded == UNION {[1..n -> {"inspect"}] : n \in 0..MaxCalls}
Outcomes ==
  {o \in [kind : Kinds, admits : BOOLEAN, heard : BOOLEAN, room : BOOLEAN,
          safe : BOOLEAN, tools : Decoded] :
     /\ o.admits => o.kind \in {"transport", "protocol", "overflow"} /\ o.tools = <<>>
     /\ o.tools # <<>> => o.kind \in {"transport", "limit", "unsure", "flooded"}
     /\ o.kind = "unsure" => o.heard \/ o.tools # <<>>
     /\ o.room => o.kind = "limit"
     /\ o.safe => o.kind = "transport"}

\* The request failed.  Its calls are closed, with a result in the history
\* unless the response hit its output limit.  A response above the collector's
\* limits ("flooded") sets the token of the turn.
StreamFails ==
  /\ at = "stream"
  /\ \E o \in Outcomes :
       LET partial == Partial(o.admits, o.heard, o.tools)
           shown == o.heard /\ config.live IN
       /\ failure' = [kind |-> o.kind, partial |-> partial, shown |-> shown,
                      room |-> o.room, safe |-> o.safe]
       /\ batch' = Unexecuted(Requested(o.tools), 1, IF o.kind = "limit" THEN 0 ELSE 1)
       /\ spill' = IF shown THEN "surface"
                   ELSE IF o.admits \/ o.heard \/ o.tools # <<>> THEN "kept" ELSE "none"
       /\ cancelled' = (cancelled \/ o.kind = "flooded")
  /\ committed' = FALSE /\ next' = 1 /\ GoTo("recover")
  /\ UNCHANGED <<conf, active, finalizing, mayApprove, budgeting, recovered, boundary>>

(* -------------------------------- recovery ------------------------------- *)

OneShot == CASE failure.kind = "limit" -> "truncation"
             [] OTHER -> "overflow"

\* The two failures a compaction of the earlier turns may cure.
Truncated == failure.kind = "limit" /\ failure.room
Overflowed == failure.kind = "overflow"

\* Once per turn, never for the finalization, never after an answer that was
\* seen (truncation) or begun (overflow).
MayCompact ==
  /\ OneShot \notin recovered /\ ~finalizing /\ requests < Budget
  /\ Truncated => ~failure.shown
  /\ Overflowed => ~failure.partial

\* (mutant) off by one
OneTooMany == requests > Budget

\* The budget covers the inner loop of retries as well.
OutOfRequests == requests >= Budget

\* attempt, after the failed request is closed, and the arms of its caller.
Recover ==
  /\ at = "recover"
  /\ \/ /\ cancelled
        /\ Finish("cancelled") /\ UNCHANGED recovered
     \/ /\ ~cancelled /\ (Truncated \/ Overflowed)
        /\ Finish("failed") /\ UNCHANGED recovered
     \/ /\ ~cancelled /\ (Truncated \/ Overflowed)
        /\ MayCompact
        /\ recovered' = recovered \cup {OneShot} /\ GoTo("round")
     \/ /\ ~cancelled /\ ~Truncated /\ ~Overflowed
        /\ IF OutOfRequests THEN Finish("failed") ELSE GoTo("policy")
        /\ UNCHANGED recovered
  /\ failure' = IF at' = "policy" THEN failure ELSE NoFailure
  /\ UNCHANGED <<conf, active, finalizing, mayApprove, budgeting, boundary,
                 exchange, cancelled, spill>>

\* RequestReplaySafety and is_retryable; is_failover_candidate.
SafeToRetry == failure.kind = "transport" /\ failure.safe /\ ~failure.partial
FailoverCandidate == failure.kind \in {"transport", "protocol"}

Retries == ~failure.partial /\ SafeToRetry /\ attempts < MaxAttempts

TakesOver ==
  /\ ~failure.partial /\ ~Retries /\ FailoverCandidate
  /\ config.backup = "able" /\ active = "primary"

\* recover: FailoverPolicy::decide, and what the loop makes of the decision.
Policy ==
  /\ at = "policy"
  /\ \/ /\ cancelled \/ ~(Retries \/ TakesOver)
        /\ Finish("failed") /\ UNCHANGED <<active, attempts>>
     \/ /\ ~cancelled /\ Retries
        /\ GoTo("backoff") /\ UNCHANGED <<active, attempts>>
     \/ /\ ~cancelled /\ TakesOver
        /\ active' = "backup" /\ attempts' = 0 /\ GoTo("build")
  /\ failure' = NoFailure
  /\ UNCHANGED <<conf, finalizing, mayApprove, requests, late, recovered, boundary,
                 exchange, cancelled, spill>>

\* sleep_with_cancel
BackoffEnds ==
  /\ at = "backoff"
  /\ IF cancelled THEN Finish("cancelled") ELSE GoTo("build")
  /\ UNCHANGED <<conf, active, finalizing, mayApprove, budgeting, recovered,
                 boundary, failure, exchange, cancelled, spill>>

(* --------------------------------- tools --------------------------------- *)

Call == batch[next]
Settle(state) ==
  /\ batch' = [batch EXCEPT ![next].state = state, ![next].results = @ + 1]
  /\ next' = next + 1 /\ GoTo("calls")

\* (mutant) only the call at hand is closed when the turn is cancelled
CloseOne == [batch EXCEPT ![next].state = "failed", ![next].results = @ + 1]

\* The tail of the batch is closed for a turn that was cancelled.
CloseTail == Unexecuted(batch, next, 1)

AbandonTail ==
  /\ at = "calls" /\ next <= Len(batch) /\ cancelled
  /\ batch' = CloseTail /\ next' = Len(batch) + 1 /\ GoTo("calls")
  /\ UNCHANGED <<conf, active, finalizing, mayApprove, budgeting, recovered, boundary,
                 failure, committed, cancelled, spill>>

\* A garbled call never reaches the registry; the registry refuses what policy,
\* schema, preflight or approval do not let through, and a call it finds
\* cancelled.
RefuseCall ==
  /\ at = "calls" /\ next <= Len(batch) /\ ~cancelled
  /\ Settle("failed")
  /\ UNCHANGED <<conf, active, finalizing, mayApprove, budgeting, recovered, boundary,
                 failure, committed, cancelled, spill>>

Permitted == Call.tool = "inspect" \/ (Call.tool \in Mutating /\ mayApprove)

StartTool ==
  /\ at = "calls" /\ next <= Len(batch) /\ ~cancelled /\ Permitted
  /\ batch' = [batch EXCEPT ![next].state = "started", ![next].runs = @ + 1]
  /\ GoTo("running")
  /\ UNCHANGED <<conf, active, finalizing, mayApprove, budgeting, recovered, boundary,
                 failure, committed, next, cancelled, spill>>

\* coerce_state: a change is not believed once the token is set.
Believable(state) == (Call.tool \in Mutating /\ cancelled) => state # "succeeded"

ToolReturns ==
  /\ at = "running"
  /\ \E state \in Terminal : Believable(state) /\ Settle(state)
  /\ UNCHANGED <<conf, active, finalizing, mayApprove, budgeting, recovered, boundary,
                 failure, committed, cancelled, spill>>

Progressed == \E i \in DOMAIN batch :
                 batch[i].tool = "change" /\ batch[i].state = "succeeded"

\* (mutant) off by one
ObservedLate ==
  IF config.limit = 0 THEN boundary
  ELSE IF Progressed THEN [active |-> FALSE, used |-> TRUE, idle |-> 0]
  ELSE IF boundary.used THEN boundary
  ELSE [active |-> boundary.active \/ boundary.idle >= config.limit, used |-> FALSE,
        idle |-> boundary.idle + 1]

\* observe_progress
Observed ==
  IF config.limit = 0 THEN boundary
  ELSE IF Progressed THEN [active |-> FALSE, used |-> TRUE, idle |-> 0]
  ELSE IF boundary.used THEN boundary
  ELSE [active |-> boundary.active \/ boundary.idle + 1 >= config.limit, used |-> FALSE,
        idle |-> boundary.idle + 1]

\* When the boundary becomes active a tool that counts as progress must be left:
\* none is without approval, nor if the model has no tools or the names of the
\* configuration fit none.
BatchDone ==
  /\ at = "calls" /\ next > Len(batch)
  /\ boundary' = Observed
  /\ LET opens == boundary'.active /\ ~boundary.active
     IN  (opens /\ Finish("failed")) \/ ((opens => mayApprove) /\ GoTo("round"))
  /\ UNCHANGED <<conf, active, finalizing, mayApprove, budgeting, recovered, failure,
                 exchange, cancelled, spill>>

(* ------------------------------ environment ------------------------------ *)

InTurn == at \notin {"idle", "dead"}

Cancel ==
  /\ InTurn /\ ~cancelled /\ cancelled' = TRUE
  /\ UNCHANGED <<conf, active, at, finalizing, mayApprove, budgeting, recovered,
                 boundary, failure, exchange, status, spill>>

\* TurnError::Sink: the trace could not be written, or an unsafe rebudget.
Die ==
  /\ InTurn /\ at' = "dead" /\ status' = "lost"
  /\ UNCHANGED <<conf, active, finalizing, mayApprove, budgeting, recovered, boundary,
                 failure, exchange, cancelled, spill>>

Step == \/ Round \/ BuildRefused \/ StartRequest \/ Answered \/ StreamFails
        \/ Recover \/ Policy \/ BackoffEnds
        \/ AbandonTail \/ RefuseCall \/ StartTool \/ ToolReturns \/ BatchDone

Next == \/ RunTurn \/ RunFinalization \/ FailoverManual \/ SwitchBackManual
        \/ Step \/ Cancel \/ Die

Spec == Init /\ [][Next]_vars

\* Providers and tools return, and the loop goes on.
FairSpec == Spec /\ WF_vars(Step)

(* ------------------------------- properties ------------------------------ *)

CallRecord == [tool : Tools, state : {"requested", "started"} \cup Terminal,
               results : Nat, runs : Nat]
Failure == [kind : Kinds, partial : BOOLEAN, shown : BOOLEAN, room : BOOLEAN,
            safe : BOOLEAN]

\* Every variable has its type; a backup is active only if it is attached, and
\* able to do the work unless the session was resumed with it.
TypeOK ==
  /\ config \in Configs /\ active \in {"primary", "backup"} /\ turns \in 0..MaxTurns
  /\ at \in {"idle", "round", "build", "stream", "recover", "policy", "backoff",
             "calls", "running", "dead"}
  /\ mode \in {"work", "assess"} /\ finalizing \in BOOLEAN /\ mayApprove \in BOOLEAN
  /\ requests \in Nat /\ attempts \in Nat /\ late \in Nat
  /\ recovered \subseteq {"overflow", "truncation"}
  /\ boundary \in [active : BOOLEAN, used : BOOLEAN, idle : Nat]
  /\ failure \in Failure /\ batch \in Seq(CallRecord) /\ committed \in BOOLEAN
  /\ next \in 1..Len(batch) + 1 /\ cancelled \in BOOLEAN
  /\ status \in {"none", "running", "completed", "exhausted", "cancelled", "failed", "lost"}
  /\ spill \in {"none", "kept", "surface"}
  /\ active = "backup" => config.backup = "able" \/ config.resumed = "backup"

\* The retries, takeovers, recoveries, corrections and the finalization of a
\* turn share one budget, and a request is never begun beyond it.
RequestsBounded == requests <= Budget

\* Outside execute_calls every call of the last response has one terminal
\* state, ran at most once and only for a committed response, and a committed
\* response has exactly one result per call before the next request.
CallsSettled ==
  at \notin {"calls", "running", "dead"} =>
    \A i \in DOMAIN batch :
      /\ batch[i].state \in Terminal /\ batch[i].runs <= 1
      /\ committed => batch[i].results = 1
      /\ ~committed => batch[i].runs = 0 /\ batch[i].state = "failed"

\* A request is not begun again after one that let text or calls out, but for
\* the retry of a truncated response, and never after one a person has seen.
NothingReplayed ==
  at = "stream" => /\ spill # "surface"
                   /\ spill = "kept" => "truncation" \in recovered

\* A turn that went through the configured number of batches without progress
\* is completed only after a change has succeeded.
BoundaryHolds ==
  status = "completed" => config.limit = 0 \/ boundary.idle < config.limit

\* A turn that is cancelled begins at most the one request it was building.
CancelIsPrompt == late <= 1

\* Every turn ends, however the provider, the tools and the person behave.
TurnEnds == InTurn ~> ~InTurn

-----------------------------------------------------------------------------
(* The sessions the model checker takes for Configs: an interactive one with *)
(* a backup and the boundary, a headless one that approves everything and    *)
(* can take back its output, and one resumed with a backup that could not    *)
(* take over.                                                                *)
Attached(backup, resumed, auto, live, limit) ==
  [backup |-> backup, resumed |-> resumed, auto |-> auto, live |-> live, limit |-> limit]

Sessions == {Attached("able", "primary", FALSE, TRUE, 1),
             Attached("none", "primary", TRUE, FALSE, 2),
             Attached("unable", "backup", TRUE, FALSE, 0)}
=============================================================================
