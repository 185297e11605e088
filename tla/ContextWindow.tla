---------------------------- MODULE ContextWindow ---------------------------
(***************************************************************************)
(* The model-visible history of a TurnLoop under pressure: every way the   *)
(* runtime shortens it, and when.  Before a request the context policy     *)
(* asks for a checkpoint, a compaction or a reduction; the request budget  *)
(* may evict more; an overflow, a truncated answer and a takeover by a     *)
(* backup model with a smaller window shorten it again; between turns the  *)
(* user compacts or checkpoints by hand.                                   *)
(*                                                                         *)
(* A message keeps its kind, its size in tokens, the calls it makes or the *)
(* call it answers, and the numbers of the messages it stands for: its own *)
(* or, for a summary or a capsule, those of what it replaced.  What a      *)
(* summary says is the summarizer's; its size is any of SummarySizes.      *)
(* Indexes count messages as the code does: a prefix of n messages ends    *)
(* before the message n + 1.                                               *)
(***************************************************************************)
EXTENDS Integers, Sequences, FiniteSets

LOCAL INSTANCE SequencesExt

CONSTANTS
  Window,       \* context_window, of the primary and of the backup
  Ceiling,      \* max_output_tokens of each, 0 for none
  Ladder,       \* the thresholds asked for, of each: see Thresholds
  Overhead,     \* tokens of the system prompt and the tool schemas
  MinUseful,    \* MINIMUM_USEFUL_OUTPUT_TOKENS
  ManualTarget, \* the target of a compaction by hand
  Sizes,        \* sizes of messages
  SummarySizes, \* sizes of what the summarizer writes, and of capsules
  Strategies,   \* sets with "summarize" and "auto", one is the session's
  MaxMessages,  \* bound: messages appended
  MaxCalls,     \* bound: calls of one response
  MaxCrashes    \* bound: crashes in the middle of a batch

VARIABLES
  strategy,    \* compaction_strategy = Summarize, checkpoint_strategy = Auto
  active,      \* the model that answers
  messages,    \* TurnLoop::messages
  turnStart,   \* turn_history_start
  floor,       \* checkpoint_floor
  age,         \* 0 when this process has compacted, else 3: see Elapsed
  structural,  \* this turn has compacted structurally
  used,        \* the one-shot recoveries of this turn
  at,          \* where the loop is
  pending,     \* the calls of the batch without a result
  interrupted, \* calls a crash left without a result
  said,        \* messages appended so far
  turnBase,    \* ghost: said, when the turn began
  stray,       \* ghost: calls whose results a known cut leaves alone
  crashes

window == <<messages, turnStart, floor, age>>
vars == <<strategy, active, messages, turnStart, floor, age, structural, used,
          at, pending, interrupted, said, turnBase, stray, crashes>>

Models == {"primary", "backup"}
Least(S) == CHOOSE n \in S : \A m \in S : n <= m
Greatest(S) == CHOOSE n \in S : \A m \in S : m <= n
Monus(a, b) == IF a > b THEN a - b ELSE 0
Smaller(a, b) == IF a < b THEN a ELSE b

------------------------------------------------------------------------------
(* Messages *)

User(n, size) == [kind |-> "user", size |-> size, calls |-> {},
                  state |-> "none", covers |-> {n}]
Assistant(n, size, ids) == [User(n, size) EXCEPT !.kind = "assistant", !.calls = ids]
Result(n, size, id, state) ==
  [User(n, size) EXCEPT !.kind = "result", !.calls = {id}, !.state = state]

Covered(ms) == UNION {ms[i].covers : i \in DOMAIN ms}

Written(kind, ms, size) == [kind |-> kind, size |-> size, calls |-> {},
                            state |-> "none", covers |-> Covered(ms)]

\* The provider sees summaries and capsules as messages of the user.
FromUser(m) == m.kind \in {"user", "summary", "capsule"}

\* estimate_messages
Size(ms) ==
  LET total[i \in 0..Len(ms)] == IF i = 0 THEN 0 ELSE total[i - 1] + ms[i].size
  IN total[Len(ms)]

Prefix(ms, n) == SubSeq(ms, 1, n)
Rest(ms, n) == SubSeq(ms, n + 1, Len(ms))
Slice(ms, from, to) == SubSeq(ms, from + 1, to)
Splice(ms, from, to, new) == Prefix(ms, from) \o new \o Rest(ms, to)

Answers(ms) == {i \in DOMAIN ms : ms[i].kind = "result"}
Asks(ms) == {i \in DOMAIN ms : ms[i].kind = "assistant"}

\* Results without their call before them, calls without their result after.
Orphans(ms) == UNION {ms[i].calls : i \in {j \in Answers(ms) :
                 \A k \in Asks(ms) : k < j => ms[j].calls \cap ms[k].calls = {}}}
Unanswered(ms) == UNION {{id \in ms[i].calls : \A j \in Answers(ms) :
                           j > i => id \notin ms[j].calls} : i \in Asks(ms)}

------------------------------------------------------------------------------
(* The budget of a request *)

Reserve(m) == Window[m] \div 10
Prompt(ms) == Overhead + Size(ms)
Output(ms, m) == Smaller(Ceiling[m], Monus(Window[m], Prompt(ms) + Reserve(m)))
Tokens(ms, m) == Prompt(ms) + Output(ms, m)

Unusable(ms, m) ==
  \/ Prompt(ms) + (IF Ceiling[m] = 0 THEN 0 ELSE Reserve(m)) > Window[m]
  \/ Output(ms, m) < Ceiling[m] /\ Output(ms, m) < MinUseful

PromptTarget(m) == IF Ceiling[m] = 0 THEN Window[m]
                   ELSE Monus(Monus(Window[m], Reserve(m)), Smaller(Ceiling[m], MinUseful))
RecoveryTarget(m) == Window[m] - Window[m] \div 10

------------------------------------------------------------------------------
(* The policy *)

Clamped(n, low, high) == IF n < low THEN low ELSE Smaller(n, high)

\* normalized_for_window, for windows of at least three tokens
Thresholds(m) ==
  LET compact == Clamped(Ladder[m].compact, 1, Window[m] - 2)
      reduce == Smaller(Ladder[m].reduce, compact)
  IN [compact |-> compact, reduce |-> reduce,
      checkpoint |-> Clamped(Ladder[m].checkpoint, compact + 1, Window[m] - 1),
      recent |-> Smaller(Ladder[m].recent, compact - 1)]

Decision(ms, start, since, m) ==
  LET t == Thresholds(m) n == Tokens(ms, m) IN
  CASE n >= t.checkpoint -> IF since = 3 THEN "checkpoint" ELSE "warn"
    [] n >= t.compact /\ n < t.checkpoint -> IF since >= 2 THEN "compact" ELSE "warn"
    [] n < t.compact ->
         IF n >= t.reduce \/ Size(Rest(ms, start)) > t.recent THEN "reduce" ELSE "keep"

------------------------------------------------------------------------------
(* The ways to shorten.  A history is [ms, start, floor, age, folded]. *)

Here == [ms |-> messages, start |-> turnStart, floor |-> floor, age |-> age,
         folded |-> structural]

\* (mutant) the kept part may begin with anything
SafeEvictionAnywhere(ms, lo, b, hi) ==
  b <= hi /\ (b = lo \/ ms[b].kind # "assistant" \/ ms[b].calls = {})

\* safe_eviction_boundary
SafeEviction(ms, lo, b, hi) ==
  /\ b <= hi
  /\ \/ b = lo
     \/ /\ b = Len(ms) \/ FromUser(ms[b + 1])
        /\ ms[b].kind # "assistant" \/ ms[b].calls = {}

\* Drops of the evictable range that leave whole turns.
Droppable(h) == {n \in 0..(h.start - h.floor) :
                   SafeEviction(h.ms, h.floor, h.floor + n, h.start)}
Without(h, n) == Splice(h.ms, h.floor, h.floor + n, <<>>)

\* evict_oldest_with_estimate: the fewest messages whose going is enough, or all
EvictCount(h, enough) == Least(enough \cup {h.start - h.floor})

Evicted(h, n) ==
  IF n = 0 THEN h
  ELSE [h EXCEPT !.ms = Without(h, n), !.start = h.start - n, !.age = 0]

EvictOldest(h, target, m) ==
  LET desired == EvictCount(h, {n \in 0..(h.start - h.floor) : Tokens(Without(h, n), m) <= target})
  IN Evicted(h, Greatest({n \in Droppable(h) : n <= desired}))

EvictToPrompt(h, target) ==
  LET enough == {n \in 0..(h.start - h.floor) : Prompt(Without(h, n)) <= target}
      desired == EvictCount(h, enough)
      fitting == {n \in Droppable(h) \cap enough : n >= desired}
  IN Evicted(h, IF fitting # {} THEN Least(fitting)
                ELSE Greatest({n \in Droppable(h) : n <= desired}))

\* compact_range: everything between the capsule and to becomes one summary.
Fold(h, to, size) ==
  IF to <= h.floor THEN h
  ELSE [h EXCEPT !.ms = Splice(@, h.floor, to,
                          <<Written("summary", Slice(@, h.floor, to), size)>>),
                 !.age = 0, !.folded = TRUE]

\* The same inside a turn, whose remainder then begins after the summary.
FoldTurn(h, to, size) ==
  IF to <= h.floor THEN h ELSE [Fold(h, to, size) EXCEPT !.start = h.floor + 1]

\* safe_completed_cycle_boundary: b ends a batch and every call of the turn
\* up to b has a certain result.
CycleEnd(h, b) ==
  LET part == Slice(h.ms, h.start, b)
      results == Answers(part)
  IN /\ h.ms[b].kind = "result"
     /\ \A i \in results : part[i].state \in {"succeeded", "failed"}
     /\ \A i, j \in results : i # j => part[i].calls # part[j].calls
     /\ Orphans(part) = {} /\ Unanswered(part) = {}

CycleEnds(h) == {b \in (h.start + 1)..Len(h.ms) : CycleEnd(h, b)}

\* compact_completed_turn_cycles: the first boundary that is enough, or the last
FoldCycles(h, target, m, size) ==
  LET enough == {b \in CycleEnds(h) : Tokens(Fold(h, b, size).ms, m) <= target}
  IN IF h.start < h.floor \/ CycleEnds(h) = {} THEN h
     ELSE FoldTurn(h, IF enough # {} THEN Least(enough) ELSE Greatest(CycleEnds(h)), size)

\* checkpoint_turn_prefix
Capsule(h, size) ==
  IF h.start = 0 \/ (h.floor > 0 /\ h.start <= 1) THEN h
  ELSE [h EXCEPT !.ms = <<Written("capsule", Prefix(@, h.start), size)>> \o Rest(@, h.start),
                 !.start = 1, !.floor = 1, !.age = 0, !.folded = TRUE]

\* What build_request does about the policy's decision.
Relieved(h, since, m, size) ==
  LET t == Thresholds(m)
      Cycles(g) == LET c == FoldCycles(g, t.recent, m, size)
                   IN IF c # g THEN c ELSE EvictOldest(g, t.recent, m)
  IN CASE Decision(h.ms, h.start, since, m) = "checkpoint" ->
            IF "auto" \in strategy THEN Capsule(h, size) ELSE h
       [] Decision(h.ms, h.start, since, m) = "compact" ->
            IF "summarize" \in strategy /\ h.start > h.floor
            THEN FoldTurn(h, h.start, size) ELSE Cycles(h)
       [] Decision(h.ms, h.start, since, m) = "reduce" -> Cycles(h)
       [] OTHER -> h

\* The rest of build_request: the exact request must leave room for an answer.
Fitted(h, m) == IF Unusable(h.ms, m) THEN EvictToPrompt(h, PromptTarget(m)) ELSE h

------------------------------------------------------------------------------
(* A turn *)

\* The time since the last compaction, which passes at any pace: under 5 s,
\* 30 s, 120 s, or more.
Elapsed == age..3

Becomes(h) ==
  /\ messages' = h.ms /\ turnStart' = h.start /\ floor' = h.floor
  /\ age' = h.age /\ structural' = h.folded

Init ==
  /\ strategy \in Strategies /\ active = "primary"
  /\ messages = <<>> /\ turnStart = 0 /\ floor = 0 /\ age = 3
  /\ structural = FALSE /\ used = {} /\ at = "between"
  /\ pending = {} /\ interrupted = {} /\ said = 0 /\ turnBase = 0 /\ stray = {}
  /\ crashes = 0

Append1(m) == messages' = Append(messages, m) /\ said' = said + 1

Open ==
  /\ at = "between" /\ said < MaxMessages
  /\ at' = "opening" /\ turnStart' = Len(messages) /\ turnBase' = said
  /\ UNCHANGED <<strategy, active, messages, floor, age, structural, used, pending,
                 interrupted, said, stray, crashes>>

\* reconcile_interrupted_tools, which runs after the boundary of the turn was
\* taken: the results land in the new turn, their calls do not.
Reconcile ==
  /\ at = "opening" /\ said < MaxMessages
  /\ \E id \in interrupted, state \in {"succeeded", "failed"}, size \in Sizes :
       /\ \A other \in interrupted : id[2] <= other[2]
       /\ Append1(Result(said + 1, size, id, state))
       /\ interrupted' = interrupted \ {id}
       /\ stray' = stray \union {id}
  /\ UNCHANGED <<strategy, active, turnStart, floor, age, structural, used, at,
                 pending, turnBase, crashes>>

Say ==
  /\ at = "opening" /\ interrupted = {} /\ said < MaxMessages
  /\ \E size \in Sizes : Append1(User(said + 1, size))
  /\ at' = "ready"
  /\ UNCHANGED <<strategy, active, turnStart, floor, age, structural, used,
                 pending, interrupted, turnBase, stray, crashes>>

Build ==
  /\ at = "ready"
  /\ \E size \in SummarySizes, since \in Elapsed :
       LET h == Fitted(Relieved(Here, since, active, size), active)
       IN Becomes(h) /\ at' = IF Unusable(h.ms, active) THEN "refused" ELSE "asked"
  /\ UNCHANGED <<strategy, active, used, pending, interrupted, said, turnBase,
                 stray, crashes>>

\* What belongs to the turn is gone with it.
EndTurn == /\ at' = "between" /\ turnStart' = 0 /\ structural' = FALSE
           /\ used' = {} /\ turnBase' = 0

Refuse ==
  /\ at = "refused" /\ EndTurn
  /\ UNCHANGED <<strategy, active, messages, floor, age,
                 pending, interrupted, said, stray, crashes>>

Answer ==
  /\ at = "asked" /\ said < MaxMessages /\ EndTurn
  /\ Append1(Assistant(said + 1, 1, {}))
  /\ UNCHANGED <<strategy, active, floor, age, pending,
                 interrupted, stray, crashes>>

AskTools ==
  /\ at = "asked" /\ said < MaxMessages
  /\ \E n \in 1..MaxCalls :
       LET ids == {<<said + 1, i>> : i \in 1..n}
       IN Append1(Assistant(said + 1, 1, ids)) /\ pending' = ids
  /\ at' = "tools"
  /\ UNCHANGED <<strategy, active, turnStart, floor, age, structural, used,
                 interrupted, turnBase, stray, crashes>>

\* A call is executed, or closed without being executed.
ToolDone ==
  /\ at = "tools" /\ said < MaxMessages
  /\ \E id \in pending, state \in {"succeeded", "failed", "unknown"}, size \in Sizes :
       /\ \A other \in pending : id[2] <= other[2]
       /\ Append1(Result(said + 1, size, id, state))
       /\ pending' = pending \ {id}
       /\ at' = IF pending = {id} THEN "ready" ELSE "tools"
  /\ UNCHANGED <<strategy, active, turnStart, floor, age, structural, used,
                 interrupted, turnBase, stray, crashes>>

\* append_progress_instruction, append_finalization_instruction: behind a batch
Instruct ==
  /\ at = "ready" /\ said < MaxMessages
  /\ messages # <<>> /\ \E id \in messages[Len(messages)].calls : id[2] > 0
  /\ Append1(User(said + 1, 1))
  /\ UNCHANGED <<strategy, active, turnStart, floor, age, structural, used, at,
                 pending, interrupted, turnBase, stray, crashes>>

\* The turn is cancelled, or its budget ends, between two requests.
Stop ==
  /\ at = "ready" /\ EndTurn
  /\ UNCHANGED <<strategy, active, messages, floor, age,
                 pending, interrupted, said, stray, crashes>>

\* The process dies in a batch; a process that resumes the session finds the
\* history as it was and the calls without a result as interrupted.
Crash ==
  /\ at = "tools" /\ crashes < MaxCrashes
  /\ crashes' = crashes + 1 /\ interrupted' = pending /\ pending' = {} /\ EndTurn
  /\ age' = 3
  /\ UNCHANGED <<strategy, active, messages, floor, said,
                 stray>>

------------------------------------------------------------------------------
(* Requests that fail *)

\* The request is issued again, or the turn fails.
Retry ==
  /\ at = "asked"
  /\ \/ at' = "ready" /\ UNCHANGED <<turnStart, structural, used, turnBase>>
     \/ EndTurn
  /\ UNCHANGED <<strategy, active, messages, floor, age, pending, interrupted, said,
                 stray, crashes>>

\* record_unexecuted_calls for a response that did not complete: a result for
\* the call it decoded, though the response itself is not part of the history.
RefusedCalls ==
  /\ at = "asked" /\ said < MaxMessages
  /\ LET id == <<said + 1, 0>>
     IN Append1(Result(said + 1, 1, id, "failed")) /\ stray' = stray \union {id}
  /\ at' = "ready"
  /\ UNCHANGED <<strategy, active, turnStart, floor, age, structural, used,
                 pending, interrupted, turnBase, crashes>>

\* The steps by which a recovery summary is cut until the request fits.
Halvings(n) == LET half[i \in 0..n] == IF i = 0 THEN n ELSE half[i - 1] \div 2
               IN {half[i] : i \in 0..n}

\* recover_prior_context, once a turn for an overflow and once for an answer
\* cut at its limit.
RecoverPrior ==
  /\ at = "asked" /\ turnStart > floor
  /\ \E why \in {"overflow", "limit"} \ used, source \in SummarySizes :
       LET target == RecoveryTarget(active)
           fits == {s \in Halvings(source) :
                      Tokens(FoldTurn(Here, turnStart, s).ms, active) <= target}
       IN \/ /\ structural /\ Tokens(messages, active) <= target
             /\ used' = used \union {why} /\ at' = "ready" /\ UNCHANGED <<window, structural>>
          \/ /\ ~(structural /\ Tokens(messages, active) <= target) /\ fits # {}
             /\ Becomes(FoldTurn(Here, turnStart, Greatest(fits)))
             /\ used' = used \union {why} /\ at' = "ready"
  /\ UNCHANGED <<strategy, active, pending, interrupted, said, turnBase, stray,
                 crashes>>

\* rebudget: the backup's window is smaller, and the exact request must fit it.
TakeOver ==
  /\ at = "asked" /\ active = "primary"
  /\ LET target == RecoveryTarget("backup")
         h == EvictOldest(Here, target, "backup")
     IN IF Tokens(h.ms, "backup") <= target
        THEN /\ Becomes(h) /\ active' = "backup" /\ at' = "ready"
             /\ UNCHANGED <<used, turnBase>>
        ELSE /\ messages' = h.ms /\ age' = h.age /\ EndTurn
             /\ UNCHANGED <<active, floor>>
  /\ UNCHANGED <<strategy, pending, interrupted, said, stray, crashes>>

------------------------------------------------------------------------------
(* Between turns *)

Chosen(h) ==
  /\ messages' = h.ms /\ floor' = h.floor /\ age' = h.age
  /\ stray' = stray \union Orphans(h.ms)
  /\ UNCHANGED <<turnStart, structural, strategy, active, used, at, pending, interrupted, said, turnBase,
                 crashes>>

\* compact_with_summary_or: the suffix that stays is chosen by its size.
CompactByHand ==
  /\ at = "between" /\ Len(messages) - floor > 1
  /\ \E size \in SummarySizes :
       LET tail == Len(messages) - floor
           kept == Greatest({n \in 1..(tail - 1) : \A k \in 2..n :
                               Size(Rest(messages, Len(messages) - k)) <= ManualTarget})
       IN Chosen(Fold(Here, Len(messages) - kept, size))

\* compact_phase: only the last message stays.
CompactPhase ==
  /\ at = "between" /\ Len(messages) > 1
  /\ \E force \in BOOLEAN, since \in Elapsed : force \/ since >= 1
  /\ \E size \in SummarySizes :
       Chosen(Fold(Here, Len(messages) - 1, size))

\* checkpoint
Checkpoint ==
  /\ at = "between"
  /\ \E size \in SummarySizes :
       Chosen([Here EXCEPT !.ms = <<Written("capsule", messages, size)>>,
                           !.floor = 1, !.age = 0])

\* failover_manual, switch_back_manual
Switch ==
  /\ at = "between"
  /\ active' = CHOOSE m \in Models : m # active
  /\ UNCHANGED <<window, strategy, structural, used, at, pending, interrupted,
                 said, turnBase, stray, crashes>>

Next ==
  \/ Open \/ Reconcile \/ Say \/ Build \/ Refuse \/ Answer \/ AskTools \/ ToolDone
  \/ Instruct \/ Stop \/ Crash \/ Retry \/ RefusedCalls \/ RecoverPrior \/ TakeOver
  \/ CompactByHand \/ CompactPhase \/ Checkpoint \/ Switch


------------------------------------------------------------------------------
(* Properties *)

Kinds == {"user", "assistant", "result", "summary", "capsule"}

TypeOK ==
  /\ messages \in Seq([kind : Kinds, size : Nat, calls : SUBSET (Nat \X Nat),
                       state : {"none", "succeeded", "failed", "unknown"},
                       covers : SUBSET (Nat \ {0})])
  /\ active \in Models /\ floor \in {0, 1} /\ turnStart \in 0..Len(messages)
  /\ at \notin {"between"} => floor <= turnStart
  /\ age \in {0, 3} /\ structural \in BOOLEAN /\ used \subseteq {"overflow", "limit"}
  /\ said \in Nat /\ turnBase \in 0..said

\* No automatic reduction separates a call from its result: a result without
\* its call, in a request, was put there by a cut that does not look: a
\* compaction by hand, a result recovered behind the boundary of its turn, or
\* the result of a call whose response was never recorded.  No call is ever
\* without its result.
PairedHistory ==
  at = "asked" => Orphans(messages) \subseteq stray /\ Unanswered(messages) = {}

\* A checkpoint's capsule is a barrier: it stays at the front until another
\* capsule takes its place.
FloorKept ==
  IF floor = 1 THEN Len(messages) > 0 /\ messages[1].kind = "capsule"
  ELSE \A i \in DOMAIN messages : messages[i].kind # "capsule"

\* The history is in order and says nothing twice: each message stands for
\* something newer than all the messages before it.
Chronology ==
  \A i, j \in DOMAIN messages : i < j =>
    \A m \in messages[i].covers, n \in messages[j].covers : m < n

\* A request is refused as too large only when leaving out whole older turns
\* could not make it fit.
RefusedOnlyWhenStuck ==
  at = "refused" => \A n \in Droppable(Here) : Unusable(Without(Here, n), active)

\* Of every step: an uncertain result of the turn stays in front of the model for the rest
\* of the turn: nothing summarizes it away.
UnknownStays ==
  at # "between" /\ at' # "between" /\ at' # "opening" =>
    \A i \in Answers(messages) :
      messages[i].state = "unknown" /\ (\E n \in messages[i].covers : n > turnBase)
        => \E j \in DOMAIN messages' : messages'[j] = messages[i]

\* Of every step: what the turn has said is never dropped; as long as the turn goes on it
\* stays as it is, or a summary takes its place.
TurnStays ==
  at # "between" =>
    \A i \in DOMAIN messages :
      messages[i].kind \notin {"summary", "capsule"}
        /\ (\E n \in messages[i].covers : n > turnBase)
        => messages[i].covers \subseteq Covered(messages')

-----------------------------------------------------------------------------
(***************************************************************************)
(* What a summary and a checkpoint capsule say of the work they replace:   *)
(* coding_capsule reads the visible messages, an earlier capsule among     *)
(* them, and writes the objective, what is done, what must be observed and *)
(* what is unresolved.  A capsule is read back line by line when the next  *)
(* one is written; a summary is the same text under a heading.             *)
(*                                                                         *)
(* An item of a section is the call or the text it speaks of and what the  *)
(* second line of its wording looks like, for a tool's output is quoted as *)
(* it is: "none" where there is no second line, "plain" text, a "bullet",  *)
(* or the bare heading of a section.  Decisions and artifacts, which go    *)
(* the way of the completed work, are left out.                            *)
(***************************************************************************)
CONSTANTS
  MaxEvents,  \* bound: messages of the user and calls
  MaxFolds,   \* bound: summaries and capsules written
  Kept,       \* how many completed items a capsule keeps, 32 in the code
  Tails       \* second lines of outputs: a set with "none", see Item

VARIABLES
  history, \* the visible messages
  events,  \* messages of the user and calls so far, with what became of them
  folds,
  clear,   \* ghost: nothing has gone through a place that loses what it carries
  straight \* ghost: no line of an output has been read as one of the capsule

textVars == <<history, events, folds, clear, straight>>

Item(of, tail) == [of |-> of, tail |-> tail]
Ofs(items) == {items[i].of : i \in DOMAIN items}

Unique(items, item) == IF \E i \in DOMAIN items : items[i] = item THEN items
                       ELSE Append(items, item)

Blank == [objective |-> 0, completed |-> <<>>, rules |-> <<>>, open |-> <<>>,
          omitted |-> FALSE, pending |-> <<>>]

UniqueAll(items, more) == FoldLeft(Unique, items, more)

\* format_for_model: the lines of a capsule.  An item is written as it is, so
\* that its second line may be one more item, of no work that was done, a
\* heading, or a state; the state of the capsule admits what it omits.
Sections == {"completed", "constraints", "unresolved"}
Nothing == 0
Omission == 1
Line(is, of) == [is |-> is, of |-> of]
ItemLines(item) ==
  <<Line("item", item.of)>>
    \o CASE item.tail = "none" -> <<>>
         [] item.tail = "bullet" -> <<Line("item", Nothing)>>
         [] OTHER -> <<Line(item.tail, Nothing)>>
SectionLines(name, items) ==
  IF items = <<>> THEN <<>>
  ELSE <<Line(name, Nothing)>> \o FlattenSeq([i \in DOMAIN items |-> ItemLines(items[i])])
CapsuleLines(doc) ==
  SectionLines("completed", doc.completed) \o SectionLines("constraints", doc.rules)
    \o (IF doc.omitted THEN <<Line("current_state", Omission)>> ELSE <<>>)
    \o SectionLines("unresolved", doc.open)

\* The reader's loop over them: a heading begins a section, an item goes to
\* the section it is read under, a state takes the place of the last, and any
\* other line ends the section.
ReadLine(r, line) ==
  CASE line.is \in Sections -> [r EXCEPT !.section = line.is]
    [] line.is = "item" /\ r.section \in Sections ->
         [r EXCEPT ![r.section] = Unique(@, Item(line.of, "none"))]
    [] line.is = "item" -> r
    [] line.is = "current_state" -> [r EXCEPT !.omitted = line.of = Omission]
    [] OTHER -> [r EXCEPT !.section = "none"]

ReadBack(c, doc) ==
  FoldLeft(ReadLine, [section |-> "none", completed |-> c.completed,
                      constraints |-> c.rules, unresolved |-> c.open,
                      omitted |-> c.omitted],
           CapsuleLines(doc))

First(objective, text) == IF objective = 0 THEN text ELSE objective

\* (mutant) the unresolved section is not read back
ReadCapsuleDone(c, doc) ==
  LET back == ReadBack(c, doc)
  IN [c EXCEPT !.objective = First(@, doc.objective), !.completed = back.completed,
               !.rules = back.constraints, !.omitted = back.omitted]

\* An earlier capsule: its sections go on.
ReadCapsule(c, doc) ==
  LET back == ReadBack(c, doc)
  IN [c EXCEPT !.objective = First(@, doc.objective), !.completed = back.completed,
               !.rules = back.constraints, !.open = back.unresolved,
               !.omitted = back.omitted]

Heading == 1000

\* A summary is a message of the user like any other: its first line, and the
\* lines that sound like an instruction.
ReadSummary(c, doc) ==
  [c EXCEPT !.objective = First(@, Heading),
            !.rules = UniqueAll(@, [i \in DOMAIN doc.rules |-> Item(doc.rules[i].of, "none")])]

ReadUser(c, m) ==
  [c EXCEPT !.objective = First(@, m.of),
            !.rules = IF m.rule THEN Unique(@, Item(m.of, "none")) ELSE @]

\* A result is believed only next to its call.
ReadResult(c, m) ==
  IF m.of \notin Ofs(c.pending) THEN [c EXCEPT !.open = Unique(@, Item(m.of, "none"))]
  ELSE LET rest == [c EXCEPT !.pending = SelectSeq(@, LAMBDA p : p.of # m.of)]
       IN IF m.state = "succeeded"
          THEN [rest EXCEPT !.completed = Unique(@, Item(m.of, m.tail))]
          ELSE [rest EXCEPT !.open = Unique(@, Item(m.of, m.tail))]

Read(c, m) ==
  CASE m.kind = "user" -> ReadUser(c, m)
    [] m.kind = "call" -> [c EXCEPT !.pending = Append(@, Item(m.of, "none"))]
    [] m.kind = "result" -> ReadResult(c, m)
    [] m.kind = "capsule" -> ReadCapsule(c, m.doc)
    [] m.kind = "summary" -> ReadSummary(c, m.doc)

ReadAll(c, ms) == FoldLeft(Read, c, ms)

Recent(items) == IF Len(items) <= Kept THEN items
                 ELSE SubSeq(items, Len(items) - Kept + 1, Len(items))

\* coding_capsule
WrittenCapsule(ms) ==
  LET c == ReadAll(Blank, ms)
  IN [objective |-> c.objective, completed |-> Recent(c.completed), rules |-> c.rules,
      open |-> UniqueAll(c.open, c.pending),
      omitted |-> c.omitted \/ Len(c.completed) > Kept]

------------------------------------------------------------------------------

TextInit == history = <<>> /\ events = <<>> /\ folds = 0 /\ clear = TRUE
            /\ straight = TRUE

Message(kind, of, rule, state, tail) ==
  [kind |-> kind, of |-> of, rule |-> rule, state |-> state, tail |-> tail, doc |-> <<>>]

Happens(what) == events' = Append(events, what) /\ Len(events) < MaxEvents

Says ==
  /\ Happens("said")
  /\ \E rule \in BOOLEAN :
       history' = Append(history, Message("user", Len(events) + 1, rule, "none", "none"))
  /\ UNCHANGED <<folds, clear, straight>>

\* The objective comes first: a call belongs to a turn.
Calls ==
  /\ events # <<>> /\ Happens("open")
  /\ history' = Append(history, Message("call", Len(events) + 1, FALSE, "none", "none"))
  /\ UNCHANGED <<folds, clear, straight>>

\* What ended uncertain is written and read like what failed.
Returns ==
  /\ \E n \in DOMAIN events, state \in {"succeeded", "failed"}, tail \in Tails :
       /\ events[n] = "open"
       /\ events' = [events EXCEPT ![n] = state]
       /\ history' = Append(history, Message("result", n, FALSE, state, tail))
  /\ UNCHANGED <<folds, clear, straight>>

\* The known defect: an item whose second line is the reader's to misread, and
\* one whose second line loses the items behind it or what the state admits.
Strays(items) == \E i \in DOMAIN items : items[i].tail \notin {"none", "plain"}
Loses(items, own) ==
  \E i \in DOMAIN items :
    \/ items[i].tail = "current_state"
    \/ items[i].tail \notin {"none", "bullet", own} /\ i < Len(items)

\* A prefix is replaced.  A capsule speaks of all that is visible and takes
\* the place of an earlier one; a summary leaves an earlier one alone.
Folds ==
  /\ folds < MaxFolds /\ folds' = folds + 1
  /\ \E n \in DOMAIN history, kind \in {"capsule", "summary"} :
       LET front == IF kind = "summary" /\ history[1].kind = "capsule" THEN 1 ELSE 0
           ms == SubSeq(history, front + 1, IF kind = "capsule" THEN Len(history) ELSE n)
       IN /\ n > front
          /\ history' = SubSeq(history, 1, front)
                          \o <<[Message(kind, 0, FALSE, "none", "none") EXCEPT !.doc = WrittenCapsule(ms)]>>
                          \o SubSeq(history, n + 1, Len(history))
          /\ clear' = (clear /\ \A i \in DOMAIN ms :
                         /\ ms[i].kind # "summary"
                         /\ ms[i].kind = "capsule" =>
                              ~(Loses(ms[i].doc.completed, "completed")
                                  \/ Loses(ms[i].doc.open, "unresolved")))
          /\ straight' = (straight /\ \A i \in DOMAIN ms :
                            ms[i].kind = "capsule" =>
                              ~(Strays(ms[i].doc.completed) \/ Strays(ms[i].doc.open)))
  /\ UNCHANGED events

TextNext == Says \/ Calls \/ Returns \/ Folds


------------------------------------------------------------------------------
(* Properties *)

Docs == {history[i].doc : i \in {j \in DOMAIN history :
                                   history[j].kind \in {"capsule", "summary"}}}
Shown(n) == \E i \in DOMAIN history : history[i].of = n

\* A capsule never claims work that did not succeed, however it came about
\* and even when a result has lost its call; except behind a capsule in which
\* a line of a tool's output had the form of an item or a heading, which the
\* reader takes for one.
NoFalseCompletion ==
  straight => \A doc \in Docs : \A n \in Ofs(doc.completed) : events[n] = "succeeded"

\* What failed is in sight or on the list of what is unresolved, through any
\* number of capsules.
OpenStaysOpen ==
  clear => \A n \in DOMAIN events :
    events[n] \in {"open", "failed"} =>
      Shown(n) \/ \E doc \in Docs : n \in Ofs(doc.open)

\* What is done is in sight, listed, or admitted to be missing.
DoneIsAccounted ==
  clear => \A n \in DOMAIN events : events[n] = "succeeded" =>
    \/ Shown(n)
    \/ \E doc \in Docs : doc.omitted \/ n \in Ofs(doc.completed) \union Ofs(doc.open)

=============================================================================
