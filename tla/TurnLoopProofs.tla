--------------------------- MODULE TurnLoopProofs ---------------------------
(***************************************************************************)
(* Theorems about TurnLoop, for any configurations, budgets, turns and     *)
(* calls per response.                                                     *)
(***************************************************************************)
EXTENDS TurnLoop, SequenceTheorems, TLAPS

(* ----------------------------- batches of calls -------------------------- *)

LEMMA FunctionIsSeq ==
  ASSUME NEW S, NEW n \in Nat, NEW f \in [1..n -> S]
  PROVE  f \in Seq(S) /\ Len(f) = n /\ DOMAIN f = 1..n
<1>1. f \in Seq(S)
  BY SeqDef
<1>2. DOMAIN f = 1..n
  OBVIOUS
<1>3. Len(f) \in Nat /\ DOMAIN f = 1..Len(f)
  BY <1>1, LenProperties
<1>4. Len(f) = n
  BY <1>2, <1>3
<1> QED BY <1>1, <1>2, <1>4

\* What one call becomes when it is closed unexecuted.
LEMMA ClosedCall ==
  ASSUME NEW call \in CallRecord, NEW results \in Nat
  PROVE  LET closed == [call EXCEPT !.state = "failed", !.results = @ + results] IN
         /\ closed \in CallRecord /\ closed.state = "failed"
         /\ closed.results = call.results + results /\ closed.runs = call.runs
<1> DEFINE closed == [call EXCEPT !.state = "failed", !.results = @ + results]
<1>1. call.results \in Nat /\ call.tool \in Tools /\ call.runs \in Nat
  BY DEF CallRecord
<1>2. call.results + results \in Nat /\ "failed" \in Terminal
  BY <1>1 DEF Terminal
<1>3. closed \in CallRecord
  BY <1>1, <1>2 DEF CallRecord
<1>4. closed.state = "failed" /\ closed.results = call.results + results
  BY DEF CallRecord
<1>5. closed.runs = call.runs
  BY DEF CallRecord
<1> QED BY <1>3, <1>4, <1>5

LEMMA UnexecutedTyped ==
  ASSUME NEW calls \in Seq(CallRecord), NEW from \in Nat, NEW results \in Nat
  PROVE  /\ Unexecuted(calls, from, results) \in Seq(CallRecord)
         /\ Len(Unexecuted(calls, from, results)) = Len(calls)
         /\ DOMAIN Unexecuted(calls, from, results) = DOMAIN calls
         /\ \A i \in DOMAIN calls :
              LET u == Unexecuted(calls, from, results)[i] IN
              /\ i < from => u = calls[i]
              /\ i >= from => /\ u.state = "failed" /\ u.runs = calls[i].runs
                              /\ u.results = calls[i].results + results
<1> DEFINE closed(i) == [calls[i] EXCEPT !.state = "failed", !.results = @ + results]
           f == [i \in DOMAIN calls |-> IF i < from THEN calls[i] ELSE closed(i)]
<1>1. f = Unexecuted(calls, from, results)
  BY DEF Unexecuted
<1>2. DOMAIN calls = 1..Len(calls) /\ Len(calls) \in Nat
  OBVIOUS
<1>3. \A i \in DOMAIN calls :
        /\ calls[i] \in CallRecord
        /\ closed(i) \in CallRecord /\ closed(i).state = "failed"
        /\ closed(i).results = calls[i].results + results
        /\ closed(i).runs = calls[i].runs
  <2> TAKE i \in DOMAIN calls
  <2>1. calls[i] \in CallRecord
    OBVIOUS
  <2> QED BY <2>1, ClosedCall
<1> HIDE DEF closed
<1>4. f \in [1..Len(calls) -> CallRecord]
  BY <1>2, <1>3
<1>5. f \in Seq(CallRecord) /\ Len(f) = Len(calls) /\ DOMAIN f = 1..Len(calls)
  BY <1>2, <1>4, FunctionIsSeq
<1>6. \A i \in DOMAIN calls :
        /\ i < from => f[i] = calls[i]
        /\ i >= from => f[i] = closed(i)
  BY <1>2
<1> QED BY <1>1, <1>2, <1>3, <1>5, <1>6

LEMMA NewCallTyped ==
  ASSUME NEW tool \in Tools
  PROVE  /\ NewCall(tool) \in CallRecord
         /\ NewCall(tool).state = "requested"
         /\ NewCall(tool).results = 0 /\ NewCall(tool).runs = 0
  BY DEF NewCall, CallRecord

LEMMA RequestedTyped ==
  ASSUME NEW tools \in Seq(Tools)
  PROVE  /\ Requested(tools) \in Seq(CallRecord)
         /\ \A i \in DOMAIN Requested(tools) :
              /\ Requested(tools)[i].state = "requested"
              /\ Requested(tools)[i].results = 0 /\ Requested(tools)[i].runs = 0
<1>1. \A i \in 1..Len(tools) : tools[i] \in Tools
  OBVIOUS
<1>2. \A i \in 1..Len(tools) :
        /\ NewCall(tools[i]) \in CallRecord
        /\ NewCall(tools[i]).state = "requested"
        /\ NewCall(tools[i]).results = 0 /\ NewCall(tools[i]).runs = 0
  BY <1>1, NewCallTyped
<1>3. Len(tools) \in Nat
  OBVIOUS
<1>4. Requested(tools) \in [1..Len(tools) -> CallRecord]
  BY <1>2 DEF Requested
<1>5. Requested(tools) \in Seq(CallRecord) /\ DOMAIN Requested(tools) = 1..Len(tools)
  BY <1>3, <1>4, FunctionIsSeq
<1> QED BY <1>2, <1>5 DEF Requested

LEMMA BatchesTyped ==
  /\ \A tools \in Batches : tools \in Seq(Tools)
  /\ \A tools \in Decoded : tools \in Seq(Tools)
<1>1. ASSUME NEW n \in 0..MaxCalls, NEW f \in [1..n -> Tools] PROVE f \in Seq(Tools)
  BY TurnBounds, FunctionIsSeq
<1>2. ASSUME NEW n \in 0..MaxCalls, NEW f \in [1..n -> {"inspect"}]
      PROVE  f \in Seq(Tools)
  <2>1. f \in [1..n -> Tools]
    BY DEF Tools
  <2> QED BY <1>1, <2>1
<1> QED BY <1>1, <1>2 DEF Batches, Decoded

\* A response that is closed as it arrives.
LEMMA ClosedBatch ==
  ASSUME NEW tools \in Seq(Tools), NEW results \in Nat
  PROVE  LET b == Unexecuted(Requested(tools), 1, results) IN
         /\ b \in Seq(CallRecord)
         /\ \A i \in DOMAIN b : /\ b[i].state = "failed" /\ b[i].runs = 0
                                /\ b[i].results = results
<1>1. /\ Requested(tools) \in Seq(CallRecord)
      /\ \A i \in DOMAIN Requested(tools) :
           /\ Requested(tools)[i].results = 0 /\ Requested(tools)[i].runs = 0
  BY RequestedTyped
<1>2. \A i \in DOMAIN Requested(tools) : i >= 1
  BY <1>1
<1> QED BY <1>1, <1>2, UnexecutedTyped

LEMMA MovedCall ==
  ASSUME NEW call \in CallRecord, NEW state \in {"requested", "started"} \cup Terminal
  PROVE  LET settled == [call EXCEPT !.state = state, !.results = @ + 1]
             started == [call EXCEPT !.state = state, !.runs = @ + 1] IN
         /\ settled \in CallRecord /\ settled.state = state
         /\ settled.results = call.results + 1 /\ settled.runs = call.runs
         /\ started \in CallRecord /\ started.state = state
         /\ started.results = call.results /\ started.runs = call.runs + 1
<1> DEFINE settled == [call EXCEPT !.state = state, !.results = @ + 1]
           started == [call EXCEPT !.state = state, !.runs = @ + 1]
<1>1. call.results \in Nat /\ call.tool \in Tools /\ call.runs \in Nat
  BY DEF CallRecord
<1>2. call.results + 1 \in Nat /\ call.runs + 1 \in Nat
  BY <1>1
<1>3. settled \in CallRecord
  BY <1>1, <1>2 DEF CallRecord
<1>4. started \in CallRecord
  BY <1>1, <1>2 DEF CallRecord
<1>5. /\ settled.state = state /\ settled.results = call.results + 1
      /\ settled.runs = call.runs
  BY DEF CallRecord
<1>6. /\ started.state = state /\ started.results = call.results
      /\ started.runs = call.runs + 1
  BY DEF CallRecord
<1> QED BY <1>3, <1>4, <1>5, <1>6

\* One call of the batch at hand moves on; the others stay.
LEMMA SettledCall ==
  ASSUME batch \in Seq(CallRecord), next \in 1..Len(batch), NEW state \in Terminal,
         batch' = [batch EXCEPT ![next].state = state, ![next].results = @ + 1]
  PROVE  /\ batch' \in Seq(CallRecord) /\ Len(batch') = Len(batch)
         /\ DOMAIN batch' = DOMAIN batch
         /\ batch'[next].state = state /\ batch'[next].runs = batch[next].runs
         /\ batch'[next].results = batch[next].results + 1
         /\ \A i \in DOMAIN batch : i # next => batch'[i] = batch[i]
<1> DEFINE moved == [batch[next] EXCEPT !.state = state, !.results = @ + 1]
<1>1. batch[next] \in CallRecord
  OBVIOUS
<1>3. moved \in CallRecord
  BY <1>1, MovedCall
<1>4. /\ moved.state = state /\ moved.results = batch[next].results + 1
      /\ moved.runs = batch[next].runs
  BY <1>1, MovedCall
<1>5. batch' = [batch EXCEPT ![next] = moved]
  OBVIOUS
<1> HIDE DEF moved
<1>6. /\ batch' \in Seq(CallRecord) /\ Len(batch') = Len(batch)
      /\ \A j \in 1..Len(batch) : batch'[j] = IF j = next THEN moved ELSE batch[j]
  BY <1>3, <1>5, ExceptSeq
<1>7. DOMAIN batch' = DOMAIN batch /\ DOMAIN batch = 1..Len(batch)
  BY <1>6
<1> QED BY <1>4, <1>6, <1>7

LEMMA StartedCall ==
  ASSUME batch \in Seq(CallRecord), next \in 1..Len(batch),
         batch' = [batch EXCEPT ![next].state = "started", ![next].runs = @ + 1]
  PROVE  /\ batch' \in Seq(CallRecord) /\ Len(batch') = Len(batch)
         /\ DOMAIN batch' = DOMAIN batch
         /\ batch'[next].state = "started"
         /\ batch'[next].results = batch[next].results
         /\ batch'[next].runs = batch[next].runs + 1
         /\ \A i \in DOMAIN batch : i # next => batch'[i] = batch[i]
<1> DEFINE moved == [batch[next] EXCEPT !.state = "started", !.runs = @ + 1]
<1>1. batch[next] \in CallRecord
  OBVIOUS
<1>3. moved \in CallRecord
  BY <1>1, MovedCall
<1>4. /\ moved.state = "started" /\ moved.runs = batch[next].runs + 1
      /\ moved.results = batch[next].results
  BY <1>1, MovedCall
<1>5. batch' = [batch EXCEPT ![next] = moved]
  OBVIOUS
<1> HIDE DEF moved
<1>6. /\ batch' \in Seq(CallRecord) /\ Len(batch') = Len(batch)
      /\ \A j \in 1..Len(batch) : batch'[j] = IF j = next THEN moved ELSE batch[j]
  BY <1>3, <1>5, ExceptSeq
<1>7. DOMAIN batch' = DOMAIN batch /\ DOMAIN batch = 1..Len(batch)
  BY <1>6
<1> QED BY <1>4, <1>6, <1>7

(* ---------------------------------- types -------------------------------- *)

\* The typing is inductive once a running tool is known to be one of the batch.
TypeInv == TypeOK /\ (at = "running" => next <= Len(batch))

LEMMA NoFailureTyped == NoFailure \in Failure
  BY DEF NoFailure, Failure, Kinds

LEMMA ConfigTyped ==
  \A c \in Configs : /\ c.auto \in BOOLEAN /\ c.limit \in Nat /\ c.live \in BOOLEAN
                     /\ c.resumed \in {"primary", "backup"}
  BY TurnBounds DEF Config

LEMMA InitTyped == Init => TypeOK
<1> SUFFICES ASSUME Init PROVE TypeOK
  OBVIOUS
<1>1. batch \in Seq(CallRecord) /\ Len(batch) = 0
  BY EmptySeq DEF Init
<1>2. boundary \in [active : BOOLEAN, used : BOOLEAN, idle : Nat]
  BY DEF Init, AtRest
<1>3. failure \in Failure
  BY NoFailureTyped DEF Init
<1>4. turns \in 0..MaxTurns /\ requests \in Nat /\ attempts \in Nat /\ late \in Nat
  BY TurnBounds DEF Init
<1>5. next \in 1..Len(batch) + 1
  BY <1>1 DEF Init
<1>6. active \in {"primary", "backup"} /\ (active = "backup" => config.resumed = "backup")
  BY ConfigTyped DEF Init
<1> QED BY <1>1, <1>2, <1>3, <1>4, <1>5, <1>6 DEF Init, TypeOK

LEMMA StepTyped == TypeInv /\ [Next]_vars => TypeOK'
<1> SUFFICES ASSUME TypeInv, [Next]_vars PROVE TypeOK'
  OBVIOUS
<1> USE DEF TypeInv
<1> USE DEF Finish, GoTo, conf, budgeting, exchange
<1>1. ASSUME NEW m \in {"work", "assess"}, StartTurn(m) PROVE TypeOK'
  <2>1. batch' \in Seq(CallRecord) /\ Len(batch') = 0
    BY <1>1, EmptySeq DEF StartTurn
  <2>2. boundary' \in [active : BOOLEAN, used : BOOLEAN, idle : Nat]
    BY <1>1 DEF StartTurn, AtRest
  <2>3. failure' \in Failure
    BY <1>1, NoFailureTyped DEF StartTurn
  <2>4. turns' \in 0..MaxTurns /\ requests' \in Nat /\ attempts' \in Nat /\ late' \in Nat
    BY <1>1, TurnBounds DEF StartTurn, TypeOK
  <2>5. next' \in 1..Len(batch') + 1
    BY <1>1, <2>1 DEF StartTurn
  <2> QED BY <1>1, <2>1, <2>2, <2>3, <2>4, <2>5 DEF TypeOK, StartTurn
<1>2. CASE FailoverManual
  BY <1>2 DEF TypeOK, FailoverManual
<1>3. CASE SwitchBackManual
  BY <1>3 DEF TypeOK, SwitchBackManual
<1>4. CASE Round
  <2>1. mayApprove' \in BOOLEAN
    BY <1>4, ConfigTyped DEF TypeOK, Round
  <2>2. UNCHANGED finalizing \/ finalizing' = TRUE
    BY <1>4 DEF Round
  <2>3. finalizing' \in BOOLEAN
    BY <2>2 DEF TypeOK
  <2>4. attempts' \in {attempts, 0}
    BY <1>4 DEF Round
  <2>5. attempts' \in Nat
    BY <2>4 DEF TypeOK
  <2>6. at' \in {"idle", "build"} /\ status' \in {"cancelled", "exhausted", status}
    BY <1>4 DEF Round
  <2>7. UNCHANGED <<conf, active, requests, late, recovered, boundary, failure,
                    exchange, cancelled, spill>>
    BY <1>4 DEF Round
  <2> QED BY <2>1, <2>3, <2>5, <2>6, <2>7 DEF TypeOK
<1>5. CASE BuildRefused
  BY <1>5 DEF TypeOK, BuildRefused
<1>6. CASE StartRequest
  BY <1>6 DEF TypeOK, StartRequest, Spent
<1>7. CASE Answered
  <2>1. batch' \in Seq(CallRecord)
    <3>1. PICK tools \in Batches :
            batch' \in {<<>>, Requested(tools), Unexecuted(Requested(tools), 1, 1)}
      BY <1>7 DEF Answered
    <3>2. tools \in Seq(Tools)
      BY BatchesTyped
    <3>3. Requested(tools) \in Seq(CallRecord)
      BY <3>2, RequestedTyped
    <3>4. Unexecuted(Requested(tools), 1, 1) \in Seq(CallRecord)
      BY <3>2, ClosedBatch
    <3> QED BY <3>1, <3>3, <3>4, EmptySeq
  <2>2. next' \in 1..Len(batch') + 1
    BY <1>7, <2>1 DEF Answered
  <2> QED BY <1>7, <2>1, <2>2 DEF TypeOK, Answered
<1>8. CASE StreamFails
  <2>1. PICK o \in Outcomes :
          /\ failure' = [kind |-> o.kind, partial |-> Partial(o.admits, o.heard, o.tools),
                         shown |-> o.heard /\ config.live, room |-> o.room, safe |-> o.safe]
          /\ batch' = Unexecuted(Requested(o.tools), 1, IF o.kind = "limit" THEN 0 ELSE 1)
          /\ spill' \in {"none", "kept", "surface"}
          /\ cancelled' = (cancelled \/ o.kind = "flooded")
    BY <1>8 DEF StreamFails
  <2>2. /\ o.kind \in Kinds /\ o.admits \in BOOLEAN /\ o.heard \in BOOLEAN
        /\ o.room \in BOOLEAN /\ o.safe \in BOOLEAN /\ o.tools \in Decoded
    BY DEF Outcomes
  <2>3. batch' \in Seq(CallRecord)
    BY <2>1, <2>2, BatchesTyped, ClosedBatch
  <2>4. failure' \in Failure
    BY <2>1, <2>2, ConfigTyped DEF Failure, Partial, TypeOK
  <2>5. next' \in 1..Len(batch') + 1
    BY <1>8, <2>3 DEF StreamFails
  <2>6. cancelled' \in BOOLEAN
    BY <2>1 DEF TypeOK
  <2> QED BY <1>8, <2>1, <2>3, <2>4, <2>5, <2>6 DEF TypeOK, StreamFails
<1>9. CASE Recover
  BY <1>9, NoFailureTyped DEF TypeOK, Recover, OneShot
<1>10. CASE Policy
  BY <1>10, NoFailureTyped DEF TypeOK, Policy, TakesOver
<1>11. CASE BackoffEnds
  BY <1>11 DEF TypeOK, BackoffEnds
<1>12. CASE AbandonTail
  <2>1. batch \in Seq(CallRecord) /\ next \in Nat /\ batch' = Unexecuted(batch, next, 1)
    BY <1>12 DEF TypeOK, AbandonTail, CloseTail
  <2>2. batch' \in Seq(CallRecord) /\ Len(batch') = Len(batch)
    BY <2>1, UnexecutedTyped
  <2> QED BY <1>12, <2>2 DEF TypeOK, AbandonTail
<1>13. ASSUME next <= Len(batch), NEW state \in Terminal, Settle(state),
              UNCHANGED <<conf, active, finalizing, mayApprove, budgeting, recovered,
                          boundary, failure, committed, cancelled, spill>>
       PROVE  TypeOK'
  <2>1. batch \in Seq(CallRecord) /\ next \in 1..Len(batch)
    BY <1>13 DEF TypeOK
  <2>2. batch' = [batch EXCEPT ![next].state = state, ![next].results = @ + 1]
    BY <1>13 DEF Settle
  <2>3. batch' \in Seq(CallRecord) /\ Len(batch') = Len(batch)
    BY <2>1, <2>2, SettledCall
  <2> QED BY <1>13, <2>1, <2>3 DEF TypeOK, Settle
<1>14. CASE RefuseCall
  BY <1>13, <1>14 DEF RefuseCall, Terminal
<1>15. CASE StartTool
  <2>1. batch' \in Seq(CallRecord) /\ Len(batch') = Len(batch)
    BY <1>15, StartedCall DEF TypeOK, StartTool
  <2> QED BY <1>15, <2>1 DEF TypeOK, StartTool
<1>16. CASE ToolReturns
  BY <1>13, <1>16 DEF ToolReturns
<1>17. CASE BatchDone
  <2>1. boundary' \in [active : BOOLEAN, used : BOOLEAN, idle : Nat]
    <3>1. boundary.active \in BOOLEAN /\ boundary.idle \in Nat /\ config \in Configs
      BY DEF TypeOK
    <3>2. config.limit \in Nat
      BY <3>1, ConfigTyped
    <3>3. (boundary.active \/ boundary.idle + 1 >= config.limit) \in BOOLEAN
          /\ boundary.idle + 1 \in Nat
      BY <3>1, <3>2
    <3> HIDE DEF TypeInv
    <3> QED BY <1>17, <3>3 DEF BatchDone, Observed, TypeOK, TypeInv
  <2> QED BY <1>17, <2>1 DEF TypeOK, BatchDone
<1>18. CASE Cancel
  BY <1>18 DEF TypeOK, Cancel
<1>19. CASE Die
  BY <1>19 DEF TypeOK, Die
<1>20. CASE UNCHANGED vars
  BY <1>20 DEF TypeOK, vars
<1> QED
  BY <1>1, <1>2, <1>3, <1>4, <1>5, <1>6, <1>7, <1>8, <1>9, <1>10, <1>11, <1>12,
     <1>14, <1>15, <1>16, <1>17, <1>18, <1>19, <1>20
  DEF Next, Step, RunTurn, RunFinalization

LEMMA TypeInvInductive ==
  /\ Init => TypeInv
  /\ TypeInv /\ [Next]_vars => TypeInv'
<1>1. Init => TypeInv
  BY InitTyped DEF Init, TypeInv
<1>2. ASSUME TypeInv, [Next]_vars PROVE at' = "running" => next' <= Len(batch')
  <2>1. CASE StartTool
    BY <1>2, <2>1, StartedCall DEF StartTool, TypeInv, TypeOK
  <2>2. CASE Cancel \/ UNCHANGED vars
    BY <1>2, <2>2 DEF Cancel, exchange, vars, TypeInv
  <2>3. CASE ~StartTool /\ ~Cancel /\ ~UNCHANGED vars
    BY <1>2, <2>3
    DEF Next, Step, RunTurn, RunFinalization, StartTurn, FailoverManual, SwitchBackManual,
        Round, BuildRefused, StartRequest, Answered, StreamFails, Recover, Policy,
        BackoffEnds, AbandonTail, RefuseCall, ToolReturns, Settle, BatchDone, Die,
        Finish, GoTo
  <2> QED BY <2>1, <2>2, <2>3
<1> QED BY <1>1, <1>2, StepTyped DEF TypeInv

\* Every variable keeps its type, and the backup model answers only if it was
\* attached and found able to (TurnLoop::recover, failover_manual).
THEOREM TurnTypeCorrect == Spec => []TypeOK
<1>1. TypeInv => TypeOK
  BY DEF TypeInv
<1> QED BY <1>1, TypeInvInductive, PTL DEF Spec

(* --------------------------------- budgets -------------------------------- *)

\* A request is about to begin only where one is left, so the counter never
\* passes the budget of the turn.
BudgetInv ==
  /\ requests <= Budget
  /\ at \in {"build", "policy", "backoff"} => requests < Budget

LEMMA BudgetInductive ==
  /\ Init => BudgetInv
  /\ TypeInv /\ BudgetInv /\ [Next]_vars => BudgetInv'
<1>1. Init => BudgetInv
  BY TurnBounds DEF Init, BudgetInv, Budget
<1>2. ASSUME TypeInv, BudgetInv, [Next]_vars PROVE BudgetInv'
  <2>1. /\ requests \in Nat /\ Budget \in Nat /\ Budget >= 1
        /\ MaxRequests \in Nat /\ MaxRequests >= 1
    BY <1>2, TurnBounds DEF TypeInv, TypeOK, Budget
  <2>2. ASSUME NEW m \in {"work", "assess"}, StartTurn(m) PROVE BudgetInv'
    BY <2>1, <2>2 DEF StartTurn, BudgetInv, Budget
  <2>3. CASE Round
    <3>1. UNCHANGED <<requests, mode>>
      BY <2>3 DEF Round, conf
    <3>2. at' = "build" => requests < Budget
      <4>1. at' = "build" => requests < NormalLimit \/ requests < Budget
        BY <2>3 DEF Round, Finish, GoTo
      <4>2. NormalLimit <= Budget /\ NormalLimit \in Nat
        BY <2>1 DEF NormalLimit
      <4> QED BY <2>1, <4>1, <4>2
    <3>3. at' \in {"idle", "build"}
      BY <2>3 DEF Round, Finish, GoTo
    <3> QED BY <1>2, <3>1, <3>2, <3>3 DEF BudgetInv, Budget
  <2>4. CASE StartRequest
    <3>1. requests < Budget /\ requests' = requests + 1 /\ Budget' = Budget
      BY <1>2, <2>4 DEF StartRequest, Spent, BudgetInv, Budget, conf
    <3>2. at' = "stream"
      BY <2>4 DEF StartRequest, GoTo
    <3> QED BY <2>1, <3>1, <3>2 DEF BudgetInv
  <2>5. CASE Recover
    BY <1>2, <2>1, <2>5
    DEF Recover, OutOfRequests, Finish, GoTo, BudgetInv, Budget, conf, budgeting
  <2>6. CASE Policy \/ BackoffEnds
    BY <1>2, <2>6
    DEF Policy, BackoffEnds, Finish, GoTo, BudgetInv, Budget, conf, budgeting
  <2>7. CASE \/ FailoverManual \/ SwitchBackManual \/ BuildRefused \/ Answered
             \/ StreamFails \/ AbandonTail \/ RefuseCall \/ StartTool \/ ToolReturns
             \/ BatchDone \/ Cancel \/ Die \/ UNCHANGED vars
    BY <1>2, <2>7
    DEF FailoverManual, SwitchBackManual, BuildRefused, Answered, StreamFails,
        AbandonTail, RefuseCall, StartTool, ToolReturns, Settle, BatchDone, Cancel, Die,
        Finish, GoTo, BudgetInv, Budget, conf, budgeting, vars
  <2> QED BY <1>2, <2>2, <2>3, <2>4, <2>5, <2>6, <2>7
          DEF Next, Step, RunTurn, RunFinalization
<1> QED BY <1>1, <1>2

\* Retries, takeovers, recoveries, corrections and the finalization of a turn
\* never begin a request beyond its budget (TurnLoop::attempt, run_turn).
THEOREM RequestsBoundedHolds == Spec => []RequestsBounded
<1>1. BudgetInv => RequestsBounded
  BY DEF BudgetInv, RequestsBounded
<1> QED BY <1>1, TypeInvInductive, BudgetInductive, PTL DEF Spec

(* ------------------------------- cancellation ----------------------------- *)

\* A late request follows a token that is set, and nothing builds another one.
LateInv ==
  /\ late <= 1
  /\ ~cancelled => late = 0
  /\ at = "build" => late = 0

LEMMA LateInductive ==
  /\ Init => LateInv
  /\ TypeInv /\ LateInv /\ [Next]_vars => LateInv'
<1>1. Init => LateInv
  BY DEF Init, LateInv
<1>2. ASSUME TypeInv, LateInv, [Next]_vars PROVE LateInv'
  <2> USE DEF Finish, GoTo, budgeting
  <2>1. late \in Nat
    BY <1>2 DEF TypeInv, TypeOK
  <2>2. ASSUME NEW m \in {"work", "assess"}, StartTurn(m) PROVE LateInv'
    BY <2>2 DEF StartTurn, LateInv
  <2>3. CASE Round
    BY <1>2, <2>3 DEF Round, Stopped, LateInv
  <2>4. CASE StartRequest
    BY <1>2, <2>1, <2>4 DEF StartRequest, LateInv
  <2>5. CASE Recover \/ Policy \/ BackoffEnds
    BY <1>2, <2>5 DEF Recover, Policy, BackoffEnds, LateInv
  <2>6. CASE StreamFails
    <3>1. UNCHANGED late /\ at' = "recover" /\ (cancelled => cancelled')
      BY <2>6 DEF StreamFails
    <3> QED BY <1>2, <3>1 DEF LateInv
  <2>7. CASE \/ FailoverManual \/ SwitchBackManual \/ BuildRefused \/ Answered
             \/ AbandonTail \/ RefuseCall \/ StartTool \/ ToolReturns
             \/ BatchDone \/ Cancel \/ Die \/ UNCHANGED vars
    BY <1>2, <2>7
    DEF FailoverManual, SwitchBackManual, BuildRefused, Answered, AbandonTail,
        RefuseCall, StartTool, ToolReturns, Settle, BatchDone, Cancel, InTurn, Die,
        LateInv, vars
  <2> QED BY <1>2, <2>2, <2>3, <2>4, <2>5, <2>6, <2>7
          DEF Next, Step, RunTurn, RunFinalization
<1> QED BY <1>1, <1>2

\* After its token is set a turn begins at most the request it was building:
\* every way back to one looks at the token first.
THEOREM CancelIsPromptHolds == Spec => []CancelIsPrompt
<1>1. LateInv => CancelIsPrompt
  BY DEF LateInv, CancelIsPrompt
<1> QED BY <1>1, TypeInvInductive, LateInductive, PTL DEF Spec

(* --------------------------------- replay --------------------------------- *)

Clean == spill # "surface" /\ (spill = "kept" => "truncation" \in recovered)

\* Only a failure remembers what its request let out until the decision about
\* it; whatever leads to another request has found that nothing was, or has
\* spent the recovery of a truncated response.
SpillInv ==
  /\ at \in {"round", "build", "stream", "backoff", "calls", "running"} => Clean
  /\ at \in {"recover", "policy"} =>
       /\ spill # "none" => failure.partial
       /\ spill = "surface" => failure.shown

LEMMA SpillInductive ==
  /\ Init => SpillInv
  /\ TypeInv /\ SpillInv /\ [Next]_vars => SpillInv'
<1>1. Init => SpillInv
  BY DEF Init, SpillInv
<1>2. ASSUME TypeInv, SpillInv, [Next]_vars PROVE SpillInv'
  <2> USE DEF Finish, GoTo, SpillInv, Clean
  <2>1. spill \in {"none", "kept", "surface"} /\ failure \in Failure
    BY <1>2 DEF TypeInv, TypeOK
  <2>2. ASSUME NEW m \in {"work", "assess"}, StartTurn(m) PROVE SpillInv'
    BY <2>2 DEF StartTurn
  <2>3. CASE StreamFails
    <3>1. PICK o \in Outcomes :
            /\ failure' = [kind |-> o.kind, partial |-> Partial(o.admits, o.heard, o.tools),
                           shown |-> o.heard /\ config.live, room |-> o.room,
                           safe |-> o.safe]
            /\ spill' = IF o.heard /\ config.live THEN "surface"
                        ELSE IF o.admits \/ o.heard \/ o.tools # <<>> THEN "kept"
                        ELSE "none"
      BY <2>3 DEF StreamFails
    <3>2. spill' # "none" => failure'.partial
      BY <3>1 DEF Partial
    <3>3. spill' = "surface" => failure'.shown
      BY <3>1
    <3>4. at' = "recover"
      BY <2>3 DEF StreamFails
    <3> QED BY <3>2, <3>3, <3>4
  <2>4. CASE Recover
    <3>0. /\ spill # "none" => failure.partial
          /\ spill = "surface" => failure.shown
      <4>1. at \in {"recover", "policy"}
        BY <2>4 DEF Recover
      <4>2. SpillInv
        BY <1>2
      <4> HIDE DEF Clean
      <4> QED BY <4>1, <4>2, Zenon DEF SpillInv
    <3>1. UNCHANGED spill /\ at' \in {"idle", "round", "policy"}
      BY <2>4 DEF Recover
    <3>2. at' = "policy" => UNCHANGED failure
      BY <2>4 DEF Recover
    <3>3. ASSUME at' = "round" PROVE Clean'
      <4>1. (Truncated \/ Overflowed) /\ MayCompact /\ recovered' = recovered \cup {OneShot}
        BY <2>4, <3>3 DEF Recover
      <4>2. CASE Overflowed
        <5>1. ~failure.partial
          BY <4>1, <4>2 DEF MayCompact
        <5>2. spill = "none"
          BY <2>1, <3>0, <5>1
        <5> QED BY <3>1, <5>2
      <4>3. CASE Truncated
        <5>0. ~failure.shown
          BY <4>1, <4>3 DEF MayCompact
        <5>1. spill # "surface"
          BY <3>0, <5>0
        <5>2. "truncation" \in recovered'
          BY <4>1, <4>3 DEF Truncated, OneShot
        <5> QED BY <3>1, <5>1, <5>2
      <4> QED BY <4>1, <4>2, <4>3
    <3> QED BY <1>2, <2>4, <3>1, <3>2, <3>3 DEF Recover
  <2>5. CASE Policy
    <3>1. UNCHANGED <<spill, recovered>> /\ at' \in {"idle", "backoff", "build"}
      BY <2>5 DEF Policy
    <3>2. at' # "idle" => ~failure.partial
      BY <2>5 DEF Policy, Retries, TakesOver
    <3>3. spill # "none" => failure.partial
      <4>1. at \in {"recover", "policy"}
        BY <2>5 DEF Policy
      <4>2. SpillInv
        BY <1>2
      <4> HIDE DEF Clean
      <4> QED BY <4>1, <4>2, Zenon DEF SpillInv
    <3>4. at' # "idle" => spill' = "none"
      BY <2>1, <3>1, <3>2, <3>3
    <3> QED BY <3>1, <3>4
  <2>6. CASE Round \/ BuildRefused \/ StartRequest \/ Answered \/ BackoffEnds
    BY <1>2, <2>6 DEF Round, BuildRefused, StartRequest, Answered, BackoffEnds
  <2>7. CASE \/ FailoverManual \/ SwitchBackManual \/ AbandonTail \/ RefuseCall
             \/ StartTool \/ ToolReturns \/ BatchDone \/ Cancel \/ Die \/ UNCHANGED vars
    BY <1>2, <2>7
    DEF FailoverManual, SwitchBackManual, AbandonTail, RefuseCall, StartTool,
        ToolReturns, Settle, BatchDone, Cancel, Die, vars
  <2> QED BY <1>2, <2>2, <2>3, <2>4, <2>5, <2>6, <2>7
          DEF Next, Step, RunTurn, RunFinalization
<1> QED BY <1>1, <1>2

\* A request is not repeated after one that let output out, but for the one
\* retry of a truncated response nobody has seen (FailoverPolicy::decide and
\* the truncation arm of run_turn).
THEOREM NothingReplayedHolds == Spec => []NothingReplayed
<1>1. SpillInv => NothingReplayed
  BY DEF SpillInv, Clean, NothingReplayed
<1> QED BY <1>1, TypeInvInductive, SpillInductive, PTL DEF Spec

(* ---------------------------- progress boundary --------------------------- *)

\* The boundary is active as soon as the count reaches its limit, and only an
\* inactive boundary lets a turn complete.
BoundaryInv ==
  /\ config.limit = 0 \/ boundary.idle < config.limit \/ boundary.active
  /\ at \notin {"idle", "dead"} => status = "running"
  /\ BoundaryHolds

LEMMA BoundaryInductive ==
  /\ Init => BoundaryInv
  /\ TypeInv /\ BoundaryInv /\ [Next]_vars => BoundaryInv'
<1>1. ASSUME Init PROVE BoundaryInv
  <2>1. config.limit \in Nat
    BY <1>1, ConfigTyped DEF Init
  <2> QED BY <1>1, <2>1 DEF Init, BoundaryInv, BoundaryHolds, AtRest
<1>2. ASSUME TypeInv, BoundaryInv, [Next]_vars PROVE BoundaryInv'
  <2> USE DEF Finish, GoTo, BoundaryInv, BoundaryHolds, conf
  <2>1. config.limit \in Nat /\ boundary.idle \in Nat
    BY <1>2, ConfigTyped DEF TypeInv, TypeOK
  <2>2. ASSUME NEW m \in {"work", "assess"}, StartTurn(m) PROVE BoundaryInv'
    BY <2>1, <2>2 DEF StartTurn, AtRest
  <2>3. CASE BatchDone
    <3>1. UNCHANGED config /\ boundary' = Observed
      BY <2>3 DEF BatchDone
    <3>2. config.limit = 0 \/ boundary'.idle < config.limit \/ boundary'.active
      <4>1. CASE config.limit = 0 \/ (~Progressed /\ boundary.used)
        <5>1. UNCHANGED boundary
          BY <3>1, <4>1 DEF Observed
        <5> QED BY <1>2, <4>1, <5>1
      <4>2. CASE config.limit # 0 /\ Progressed
        <5>1. boundary' = [active |-> FALSE, used |-> TRUE, idle |-> 0]
          BY <3>1, <4>2 DEF Observed
        <5>2. boundary'.idle = 0
          BY <5>1
        <5> QED BY <2>1, <4>2, <5>2
      <4>3. CASE config.limit # 0 /\ ~Progressed /\ ~boundary.used
        <5>1. boundary' = [active |-> boundary.active \/ boundary.idle + 1 >= config.limit,
                           used |-> FALSE, idle |-> boundary.idle + 1]
          BY <3>1, <4>3 DEF Observed
        <5>2. boundary'.idle = boundary.idle + 1
          BY <5>1
        <5>3. boundary.idle + 1 >= config.limit => boundary'.active
          BY <5>1, Zenon
        <5>4. boundary.idle + 1 >= config.limit \/ boundary.idle + 1 < config.limit
          BY <2>1
        <5> QED BY <5>2, <5>3, <5>4, Zenon
      <4> QED BY <4>1, <4>2, <4>3
    <3>3. status' \in {"failed", status} /\ (at' # "idle" => status' = status)
      BY <2>3 DEF BatchDone
    <3>4. status = "running"
      BY <1>2, <2>3 DEF BatchDone
    <3> QED BY <3>1, <3>2, <3>3, <3>4
  <2>4. CASE Answered
    <3>1. UNCHANGED <<config, boundary>> /\ status = "running"
      BY <1>2, <2>4 DEF Answered
    <3>2. status' = "completed" => ~boundary.active
      BY <2>4, <3>1 DEF Answered, RejectedCompletion
    <3>3. at' \notin {"idle", "dead"} => status' = "running"
      BY <2>4, <3>1 DEF Answered
    <3> QED BY <1>2, <3>1, <3>2, <3>3
  <2>5. CASE \/ Round \/ BuildRefused \/ StartRequest \/ StreamFails \/ Recover
             \/ Policy \/ BackoffEnds
    <3>1. UNCHANGED <<config, boundary>> /\ status = "running"
      BY <1>2, <2>5
      DEF Round, BuildRefused, StartRequest, StreamFails, Recover, Policy, BackoffEnds
    <3>2. /\ status' \in {status, "failed", "cancelled", "exhausted"}
          /\ at' \notin {"idle", "dead"} => status' = status
      BY <2>5
      DEF Round, BuildRefused, StartRequest, StreamFails, Recover, Policy, BackoffEnds
    <3> QED BY <1>2, <3>1, <3>2
  <2>6. CASE \/ FailoverManual \/ SwitchBackManual \/ AbandonTail \/ RefuseCall
             \/ StartTool \/ ToolReturns \/ Cancel \/ Die \/ UNCHANGED vars
    BY <1>2, <2>6
    DEF FailoverManual, SwitchBackManual, AbandonTail, RefuseCall, StartTool,
        ToolReturns, Settle, Cancel, InTurn, Die, vars
  <2> QED BY <1>2, <2>2, <2>3, <2>4, <2>5, <2>6
          DEF Next, Step, RunTurn, RunFinalization
<1> QED BY <1>1, <1>2

\* A turn that used up its batches without progress is not completed before a
\* change has succeeded (observe_progress and the rejected completion).
THEOREM BoundaryHoldsAlways == Spec => []BoundaryHolds
<1>1. BoundaryInv => BoundaryHolds
  BY DEF BoundaryInv
<1> QED BY <1>1, TypeInvInductive, BoundaryInductive, PTL DEF Spec

(* -------------------------------- lifecycles ----------------------------- *)

Settled(call) == call.state \in Terminal /\ call.results = 1 /\ call.runs <= 1
Waiting(call) == call.results = 0 /\ call.runs = 0

\* execute_calls walks a committed batch: behind next every call is settled,
\* from next on none has a result or was run, save the one that is running.
CallsInv ==
  /\ at \in {"calls", "running"} =>
       /\ committed
       /\ \A i \in DOMAIN batch : i < next => Settled(batch[i])
       /\ \A i \in DOMAIN batch : i > next => Waiting(batch[i])
  /\ at = "calls" => \A i \in DOMAIN batch : i = next => Waiting(batch[i])
  /\ at = "running" => batch[next].results = 0 /\ batch[next].runs = 1
  /\ CallsSettled

LEMMA CallsInductive ==
  /\ Init => CallsInv
  /\ TypeInv /\ CallsInv /\ [Next]_vars => CallsInv'
<1>1. ASSUME Init PROVE CallsInv
  <2>1. DOMAIN batch = {}
    BY <1>1 DEF Init
  <2> QED BY <1>1, <2>1 DEF Init, CallsInv, CallsSettled
<1>2. ASSUME TypeInv, CallsInv, [Next]_vars PROVE CallsInv'
  <2> USE DEF Finish, GoTo, exchange
  <2>1. /\ batch \in Seq(CallRecord) /\ DOMAIN batch = 1..Len(batch) /\ Len(batch) \in Nat
        /\ next \in 1..Len(batch) + 1 /\ (at = "running" => next <= Len(batch))
        /\ next \in Nat
    BY <1>2 DEF TypeInv, TypeOK
  \* the batch is left alone, and the loop is not in execute_calls
  <2>2. ASSUME UNCHANGED <<batch, committed>>, at' \notin {"calls", "running"},
               at \notin {"calls", "running", "dead"} \/ at' = "dead"
        PROVE  CallsInv'
    BY <1>2, <2>2 DEF CallsInv, CallsSettled
  <2>3. ASSUME NEW m \in {"work", "assess"}, StartTurn(m) PROVE CallsInv'
    <3>1. DOMAIN batch' = {} /\ at' = "round"
      BY <2>3 DEF StartTurn
    <3> QED BY <3>1 DEF CallsInv, CallsSettled
  <2>4. CASE \/ FailoverManual \/ SwitchBackManual \/ Round \/ BuildRefused
             \/ StartRequest \/ Recover \/ Policy \/ BackoffEnds
    <3>1. UNCHANGED <<batch, committed>> /\ at' \notin {"calls", "running"}
      BY <2>4
      DEF FailoverManual, SwitchBackManual, Round, BuildRefused, StartRequest, Recover,
          Policy, BackoffEnds
    <3>2. at \notin {"calls", "running", "dead"}
      BY <2>4
      DEF FailoverManual, SwitchBackManual, Round, BuildRefused, StartRequest, Recover,
          Policy, BackoffEnds
    <3> QED BY <2>2, <3>1, <3>2
  <2>5. CASE Die
    BY <2>2, <2>5 DEF Die
  <2>6. CASE Cancel \/ UNCHANGED vars
    <3>1. UNCHANGED <<batch, committed, at, next>>
      BY <2>6 DEF Cancel, vars
    <3> QED BY <1>2, <3>1 DEF CallsInv, CallsSettled
  <2>7. CASE Answered
    <3>1. PICK tools \in Batches :
            /\ committed' = TRUE /\ next' = 1
            /\ \/ batch' = <<>> /\ at' \in {"round", "idle"}
               \/ batch' = Unexecuted(Requested(tools), 1, 1) /\ at' = "idle"
               \/ batch' = Requested(tools) /\ at' = "calls"
      BY <2>7 DEF Answered
    <3>2. tools \in Seq(Tools)
      BY BatchesTyped
    <3>3. CASE batch' = <<>> /\ at' \in {"round", "idle"}
      BY <3>1, <3>3 DEF CallsInv, CallsSettled
    <3>4. CASE batch' = Unexecuted(Requested(tools), 1, 1) /\ at' = "idle"
      <4>1. \A i \in DOMAIN batch' : /\ batch'[i].state = "failed"
                                     /\ batch'[i].runs = 0 /\ batch'[i].results = 1
        BY <3>2, <3>4, ClosedBatch
      <4>2. \A i \in DOMAIN batch' : Settled(batch'[i])
        BY <4>1 DEF Settled, Terminal
      <4>3. CallsSettled'
        BY <3>1, <4>2 DEF CallsSettled, Settled
      <4> QED BY <3>4, <4>3 DEF CallsInv
    <3>5. CASE batch' = Requested(tools) /\ at' = "calls"
      <4>1. \A i \in DOMAIN batch' : Waiting(batch'[i])
        BY <3>2, <3>5, RequestedTyped DEF Waiting
      <4>2. \A i \in DOMAIN batch' : i \in Nat /\ i >= 1
        <5>1. batch' \in Seq(CallRecord)
          BY <3>2, <3>5, RequestedTyped
        <5> QED BY <5>1
      <4>3. \A i \in DOMAIN batch' : ~(i < next')
        BY <3>1, <4>2
      <4>4. CallsSettled'
        BY <3>5 DEF CallsSettled
      <4> QED BY <3>1, <3>5, <4>1, <4>3, <4>4 DEF CallsInv
    <3> QED BY <3>1, <3>3, <3>4, <3>5
  <2>8. CASE StreamFails
    <3>1. PICK o \in Outcomes :
            batch' = Unexecuted(Requested(o.tools), 1, IF o.kind = "limit" THEN 0 ELSE 1)
      BY <2>8 DEF StreamFails
    <3>2. o.tools \in Seq(Tools)
      BY BatchesTyped DEF Outcomes
    <3>3. \A i \in DOMAIN batch' : batch'[i].state = "failed" /\ batch'[i].runs = 0
      BY <3>1, <3>2, ClosedBatch
    <3>4. at' = "recover" /\ committed' = FALSE
      BY <2>8 DEF StreamFails
    <3>5. CallsSettled'
      BY <3>3, <3>4 DEF CallsSettled, Terminal
    <3> QED BY <3>4, <3>5 DEF CallsInv
  <2>9. CASE AbandonTail
    <3>1. /\ at' = "calls" /\ at = "calls" /\ UNCHANGED committed
          /\ next' = Len(batch) + 1 /\ batch' = Unexecuted(batch, next, 1)
      BY <2>9 DEF AbandonTail, CloseTail
    <3>2. /\ DOMAIN batch' = DOMAIN batch
          /\ \A i \in DOMAIN batch :
               /\ i < next => batch'[i] = batch[i]
               /\ i >= next => /\ batch'[i].state = "failed"
                               /\ batch'[i].runs = batch[i].runs
                               /\ batch'[i].results = batch[i].results + 1
      BY <2>1, <3>1, UnexecutedTyped
    <3>3. \A i \in DOMAIN batch : Settled(batch'[i])
      <4> TAKE i \in DOMAIN batch
      <4>1. CASE i < next
        BY <1>2, <3>1, <3>2, <4>1 DEF CallsInv
      <4>2. CASE i >= next
        <5>1. Waiting(batch[i])
          BY <1>2, <2>1, <3>1, <4>2 DEF CallsInv
        <5> QED BY <3>2, <4>2, <5>1 DEF Waiting, Settled, Terminal
      <4> QED BY <2>1, <4>1, <4>2
    <3>4. \A i \in DOMAIN batch : ~(i > next') /\ ~(i = next')
      BY <2>1, <3>1
    <3>5. CallsSettled'
      BY <3>1 DEF CallsSettled
    <3>6. committed'
      BY <1>2, <3>1 DEF CallsInv
    <3> QED BY <3>1, <3>2, <3>3, <3>4, <3>5, <3>6 DEF CallsInv
  <2>10. ASSUME next \in 1..Len(batch), NEW state \in Terminal, Settle(state),
                at \in {"calls", "running"}, UNCHANGED committed
         PROVE  CallsInv'
    <3>1. /\ DOMAIN batch' = DOMAIN batch
          /\ batch'[next].state = state /\ batch'[next].runs = batch[next].runs
          /\ batch'[next].results = batch[next].results + 1
          /\ \A i \in DOMAIN batch : i # next => batch'[i] = batch[i]
      BY <2>1, <2>10, SettledCall DEF Settle
    <3>2. batch[next].results = 0 /\ batch[next].runs \in {0, 1}
      BY <1>2, <2>1, <2>10 DEF CallsInv, Waiting
    <3>3. Settled(batch'[next])
      BY <2>10, <3>1, <3>2 DEF Settled
    <3>4. next' = next + 1 /\ at' = "calls" /\ committed'
      BY <1>2, <2>10 DEF Settle, CallsInv
    <3>5. \A i \in DOMAIN batch' : i < next' => Settled(batch'[i])
      BY <1>2, <2>1, <2>10, <3>1, <3>3, <3>4 DEF CallsInv
    <3>6. \A i \in DOMAIN batch' : i >= next' => Waiting(batch'[i])
      BY <1>2, <2>1, <2>10, <3>1, <3>4 DEF CallsInv
    <3>7. CallsSettled'
      BY <3>4 DEF CallsSettled
    <3>8. \A i \in DOMAIN batch' : (i > next' \/ i = next') => i >= next'
      BY <2>1, <3>1, <3>4
    <3> QED BY <3>4, <3>5, <3>6, <3>7, <3>8 DEF CallsInv
  <2>11. CASE RefuseCall
    BY <2>1, <2>10, <2>11 DEF RefuseCall, Terminal
  <2>12. CASE ToolReturns
    BY <2>1, <2>10, <2>12 DEF ToolReturns
  <2>13. CASE StartTool
    <3>1. /\ at = "calls" /\ at' = "running" /\ UNCHANGED <<committed, next>>
          /\ next \in 1..Len(batch)
      BY <2>1, <2>13 DEF StartTool
    <3>2. /\ DOMAIN batch' = DOMAIN batch
          /\ batch'[next].results = batch[next].results
          /\ batch'[next].runs = batch[next].runs + 1
          /\ \A i \in DOMAIN batch : i # next => batch'[i] = batch[i]
      BY <2>1, <2>13, <3>1, StartedCall DEF StartTool
    <3>3. Waiting(batch[next])
      BY <1>2, <2>1, <3>1 DEF CallsInv
    <3>4. batch'[next].results = 0 /\ batch'[next].runs = 1
      BY <3>2, <3>3 DEF Waiting
    <3>5. \A i \in DOMAIN batch' : /\ i < next' => Settled(batch'[i])
                                   /\ i > next' => Waiting(batch'[i])
      BY <1>2, <2>1, <3>1, <3>2 DEF CallsInv
    <3>6. CallsSettled'
      BY <3>1 DEF CallsSettled
    <3>7. committed'
      BY <1>2, <3>1 DEF CallsInv
    <3> QED BY <3>1, <3>4, <3>5, <3>6, <3>7 DEF CallsInv
  <2>14. CASE BatchDone
    <3>1. /\ UNCHANGED <<batch, committed>> /\ at = "calls" /\ next > Len(batch)
          /\ at' \in {"idle", "round"}
      BY <2>14 DEF BatchDone
    <3>2. committed /\ \A i \in DOMAIN batch : Settled(batch[i])
      BY <1>2, <2>1, <3>1 DEF CallsInv
    <3>3. CallsSettled'
      BY <3>1, <3>2 DEF CallsSettled, Settled
    <3> QED BY <3>1, <3>3 DEF CallsInv
  <2> QED BY <1>2, <2>3, <2>4, <2>5, <2>6, <2>7, <2>8, <2>9, <2>11, <2>12, <2>13, <2>14
          DEF Next, Step, RunTurn, RunFinalization
<1> QED BY <1>1, <1>2

\* Every call of a response is closed once, with one result if the response is
\* part of the history, before another request is built or the turn ends
\* (execute_calls, record_unexecuted_calls, record_response).
THEOREM CallsSettledHolds == Spec => []CallsSettled
<1>1. CallsInv => CallsSettled
  BY DEF CallsInv
<1> QED BY <1>1, TypeInvInductive, CallsInductive, PTL DEF Spec

=============================================================================
