---------------------------- MODULE McpStdioProofs ----------------------------
(***************************************************************************)
(* Theorems about McpStdio, for any number of callers, requests and places *)
(* in a pipe, and a server that writes and dies as it likes.               *)
(*                                                                         *)
(* AnswersAreMatched is not inductive: that an answer finds an empty       *)
(* channel rests on ids being new when they enter the pending map and      *)
(* leaving it with the answer, and that a call ends alone on every call    *)
(* under way having an id of its own.                                      *)
(***************************************************************************)
EXTENDS McpStdio, TLAPS

StdioCall == [step : Steps, id : 0..MaxCalls, over : BOOLEAN, answer : Answers]

Way == {"oversized", "registered", "writing", "waiting"}

\* What a step says of the id: none before the request is registered, one after.
Shaped(call) ==
  /\ call.step \in {"admitted", "notifying"} => call.id = 0
  /\ call.step \in {"oversized", "registered", "waiting"} => call.id # 0

\* The calls, the map and the channels.
CallsInv ==
  /\ calls \in [Callers -> StdioCall] /\ nextId \in 1..(MaxCalls + 1)
  /\ pending \subseteq Ids /\ channel \in [Ids -> Seq({"result", "exited"})]
  /\ PendingHasCaller /\ SendNeverBlocks
  /\ \A c \in Callers : Shaped(calls[c]) /\ calls[c].id < nextId
  /\ \A c \in Callers : InFlight(c) => calls[c].id \in pending \/ channel[calls[c].id] # <<>>
  /\ \A i \in pending : i < nextId /\ channel[i] = <<>>
  /\ \A i \in Ids : i >= nextId => channel[i] = <<>>

\* The pipes, the child and the flags.
PipesInv ==
  /\ alive \in BOOLEAN /\ holder \subseteq Callers
  /\ stdin \in Seq(Ids \cup {Notice}) /\ stdout \in Seq(Ids \cup {Overlong})
  /\ child \in {"up", "dead"} /\ served \subseteq Ids
  /\ reader \in {"reading", "draining", "ended"}

IInv == CallsInv /\ PipesInv

LEMMA InvMatches == IInv => AnswersAreMatched
<1> SUFFICES ASSUME IInv PROVE AnswersAreMatched
  OBVIOUS
<1>1. TypeOK
  BY DEF IInv, CallsInv, PipesInv, TypeOK, StdioCall
<1>2. AnswerHasAWay
  BY DEF IInv, CallsInv, AnswerHasAWay, Shaped, InFlight, At, Notice
<1> QED BY <1>1, <1>2 DEF IInv, CallsInv, AnswersAreMatched

-----------------------------------------------------------------------------
(* The calls.                                                              *)

\* A call goes on: it stays under way, with its id, or has not begun to be.
LEMMA GoesOn ==
  ASSUME CallsInv, NEW c \in Callers, NEW call \in StdioCall, Shaped(call), Set(c, call),
         call.id = calls[c].id,
         call.step \in Way /\ call.id # 0 <=> InFlight(c),
         UNCHANGED <<nextId, pending, channel>>
  PROVE  CallsInv'
<1>1. \A d \in Callers : d # c => calls'[d] = calls[d]
  BY DEF CallsInv, Set
<1>2. calls'[c] = call /\ calls' \in [Callers -> StdioCall]
  BY DEF CallsInv, Set
<1>3. \A d \in Callers : (InFlight(d)' <=> InFlight(d)) /\ calls'[d].id = calls[d].id
  BY <1>1, <1>2 DEF InFlight, Way, Notice
<1>4. PendingHasCaller'
  BY <1>3 DEF CallsInv, PendingHasCaller
<1>5. \A d \in Callers : Shaped(calls'[d])
  BY <1>1, <1>2 DEF CallsInv
<1> QED BY <1>2, <1>3, <1>4, <1>5 DEF CallsInv, SendNeverBlocks

\* A call ends or begins anew, and takes what it left in the map with it.
LEMMA GoesOff ==
  ASSUME CallsInv, NEW c \in Callers, NEW call \in StdioCall, Shaped(call), Set(c, call),
         call.step \notin Way, call.id < nextId,
         pending' = pending \ (IF InFlight(c) THEN {calls[c].id} ELSE {}),
         UNCHANGED <<nextId, channel>>
  PROVE  CallsInv'
<1>1. \A d \in Callers : d # c => calls'[d] = calls[d]
  BY DEF CallsInv, Set
<1>2. calls'[c] = call /\ calls' \in [Callers -> StdioCall]
  BY DEF CallsInv, Set
<1>3. ~InFlight(c)'
  BY <1>2 DEF InFlight, Way
<1>4. \A d \in Callers : d # c => (InFlight(d)' <=> InFlight(d))
  BY <1>1 DEF InFlight
<1>5. \A d \in Callers : d # c /\ InFlight(d) =>
        (calls[d].id \in pending' <=> calls[d].id \in pending)
  BY DEF CallsInv, PendingHasCaller
<1>6. PendingHasCaller'
  BY <1>1, <1>3, <1>4 DEF CallsInv, PendingHasCaller
<1>7. \A d \in Callers : Shaped(calls'[d]) /\ calls'[d].id < nextId
  BY <1>1, <1>2 DEF CallsInv
<1>8. \A d \in Callers : InFlight(d)' => calls'[d].id \in pending' \/ channel[calls'[d].id] # <<>>
  BY <1>1, <1>3, <1>4, <1>5 DEF CallsInv
<1> QED BY <1>2, <1>6, <1>7, <1>8 DEF CallsInv, SendNeverBlocks

\* A request enters the map under a new id.
LEMMA Enters ==
  ASSUME CallsInv, NEW c \in Callers, NEW call \in StdioCall, Shaped(call), Set(c, call),
         ~InFlight(c), call.step \in Way, call.id = nextId, ~IdSpaceExhausted,
         nextId' = nextId + 1, pending' = pending \cup {nextId}, UNCHANGED channel
  PROVE  CallsInv'
<1>0. nextId \in Ids /\ nextId' \in 1..(MaxCalls + 1) /\ channel[nextId] = <<>>
  BY StdioBounds DEF CallsInv, IdSpaceExhausted, Ids
<1>1. \A d \in Callers : d # c => calls'[d] = calls[d]
  BY DEF CallsInv, Set
<1>2. calls'[c] = call /\ calls' \in [Callers -> StdioCall]
  BY DEF CallsInv, Set
<1>3. InFlight(c)' /\ calls'[c].id = nextId
  BY <1>0, <1>2 DEF InFlight, Way, Notice, Ids
<1>4. \A d \in Callers : d # c => (InFlight(d)' <=> InFlight(d)) /\ calls'[d].id < nextId
  BY <1>1 DEF InFlight, CallsInv
<1>5. PendingHasCaller'
  <2>1. \A i \in pending' : \E d \in Callers : InFlight(d)' /\ calls'[d].id = i
    BY <1>1, <1>3, <1>4 DEF CallsInv, PendingHasCaller
  <2>2. \A d, e \in Callers : d # e /\ InFlight(d)' /\ InFlight(e)' => calls'[d].id # calls'[e].id
    <3> SUFFICES ASSUME NEW d \in Callers, NEW e \in Callers, d # e, InFlight(d)', InFlight(e)'
                 PROVE  calls'[d].id # calls'[e].id
      OBVIOUS
    <3>1. CASE d # c /\ e # c
      BY <1>1, <1>4, <3>1 DEF CallsInv, PendingHasCaller
    <3>2. CASE d = c \/ e = c
      BY <1>0, <1>3, <1>4, <3>2 DEF CallsInv, Ids
    <3> QED BY <3>1, <3>2
  <2> QED BY <2>1, <2>2 DEF PendingHasCaller
<1>6. \A d \in Callers : Shaped(calls'[d]) /\ calls'[d].id < nextId'
  <2>1. \A d \in Callers : Shaped(calls'[d])
    BY <1>1, <1>2 DEF CallsInv
  <2>2. \A d \in Callers : calls[d].id \in Int /\ calls[d].id < nextId
    BY DEF CallsInv, StdioCall
  <2>3. \A d \in Callers : calls'[d].id < nextId + 1
    BY <1>0, <1>1, <1>3, <2>2 DEF Ids
  <2> QED BY <2>1, <2>3
<1>7. \A d \in Callers : InFlight(d)' => calls'[d].id \in pending' \/ channel'[calls'[d].id] # <<>>
  BY <1>1, <1>3, <1>4 DEF CallsInv
<1>8. \A i \in pending' : i < nextId' /\ channel'[i] = <<>>
  BY <1>0 DEF CallsInv, Ids
<1>9. \A i \in Ids : i >= nextId' => channel'[i] = <<>>
  BY <1>0 DEF CallsInv, Ids
<1> QED BY <1>0, <1>2, <1>5, <1>6, <1>7, <1>8, <1>9 DEF CallsInv, SendNeverBlocks

\* Pending ids S are answered with one line each and leave the map.
LEMMA Answered ==
  ASSUME CallsInv, NEW S \in SUBSET pending, NEW line \in {"result", "exited"},
         channel' = [i \in Ids |-> IF i \in S THEN Append(channel[i], line) ELSE channel[i]],
         pending' = pending \ S, UNCHANGED <<calls, nextId>>
  PROVE  CallsInv'
<1>1. S \subseteq Ids /\ \A i \in S : channel[i] = <<>>
  BY DEF CallsInv
<1>2. \A i \in S : channel'[i] = <<line>> /\ Len(channel'[i]) = 1 /\ channel'[i] # <<>>
  <2> SUFFICES ASSUME NEW i \in S
               PROVE  channel'[i] = <<line>> /\ Len(channel'[i]) = 1 /\ channel'[i] # <<>>
    OBVIOUS
  <2>1. channel'[i] = Append(<<>>, line)
    BY <1>1
  <2>2. Append(<<>>, line) = <<line>>
    OBVIOUS
  <2>3. Len(<<line>>) = 1 /\ <<line>> # <<>>
    OBVIOUS
  <2>4. channel'[i] = <<line>>
    BY <2>1, <2>2
  <2> QED BY <2>3, <2>4
<1>3. \A i \in Ids \ S : channel'[i] = channel[i]
  OBVIOUS
<1>4. channel' \in [Ids -> Seq({"result", "exited"})]
  <2> SUFFICES ASSUME NEW i \in Ids
               PROVE (IF i \in S THEN Append(channel[i], line) ELSE channel[i])
                        \in Seq({"result", "exited"})
    OBVIOUS
  <2>1. channel[i] \in Seq({"result", "exited"})
    BY DEF CallsInv
  <2> QED BY <2>1
<1>5. SendNeverBlocks'
  BY <1>2, <1>3 DEF CallsInv, SendNeverBlocks
<1>6. PendingHasCaller'
  BY DEF CallsInv, PendingHasCaller, InFlight
<1>7. \A c \in Callers : InFlight(c) => calls[c].id \in Ids
  BY DEF CallsInv, InFlight, StdioCall, Ids, Notice
<1>8. \A c \in Callers : InFlight(c)' => calls'[c].id \in pending' \/ channel'[calls'[c].id] # <<>>
  BY <1>2, <1>3, <1>7 DEF CallsInv, InFlight
<1>9. \A i \in pending' : i < nextId' /\ channel'[i] = <<>>
  BY <1>1, <1>3 DEF CallsInv
<1>10. \A i \in Ids : i >= nextId' => channel'[i] = <<>>
  BY <1>1, <1>3 DEF CallsInv, Ids
<1> QED BY <1>4, <1>5, <1>6, <1>8, <1>9, <1>10 DEF CallsInv

LEMMA CallTyped ==
  ASSUME NEW call \in StdioCall
  PROVE  /\ call.step \in Steps /\ call.id \in 0..MaxCalls
         /\ \A step \in Steps : /\ [call EXCEPT !.step = step] \in StdioCall
                                /\ [call EXCEPT !.step = step].step = step
                                /\ [call EXCEPT !.step = step].id = call.id
         /\ \A over \in BOOLEAN : /\ [call EXCEPT !.over = over] \in StdioCall
                                  /\ [call EXCEPT !.over = over].step = call.step
                                  /\ [call EXCEPT !.over = over].id = call.id
         /\ \A answer \in Answers :
              /\ [call EXCEPT !.step = "free", !.answer = answer] \in StdioCall
              /\ [call EXCEPT !.step = "free", !.answer = answer].step = "free"
              /\ [call EXCEPT !.step = "free", !.answer = answer].id = call.id
BY DEF StdioCall, Steps

LEMMA CallNumbered ==
  ASSUME NEW call \in StdioCall, NEW id \in 0..MaxCalls
  PROVE  /\ [call EXCEPT !.id = id] \in StdioCall
         /\ [call EXCEPT !.id = id].step = call.step
         /\ [call EXCEPT !.id = id].id = id
BY DEF StdioCall

LEMMA CallAnswered ==
  ASSUME NEW call \in StdioCall, NEW answer \in Answers
  PROVE  /\ [call EXCEPT !.answer = answer] \in StdioCall
         /\ [call EXCEPT !.answer = answer].step = call.step
         /\ [call EXCEPT !.answer = answer].id = call.id
BY DEF StdioCall

\* What Answer leaves: a call that is free.
LEMMA AnswerGoesOff ==
  ASSUME CallsInv, NEW c \in Callers, NEW answer \in Answers, Answer(c, answer),
         pending' = pending \ (IF InFlight(c) THEN {calls[c].id} ELSE {}),
         UNCHANGED <<nextId, channel>>
  PROVE  CallsInv'
<1> DEFINE call == [calls[c] EXCEPT !.step = "free", !.answer = answer]
<1>1. call \in StdioCall /\ call.step = "free" /\ call.id = calls[c].id
  BY CallTyped DEF CallsInv
<1>2. Shaped(call) /\ call.step \notin Way /\ call.id < nextId
  BY <1>1 DEF Shaped, Way, CallsInv
<1>3. Set(c, call)
  BY DEF Answer
<1> HIDE DEF call
<1> QED BY <1>1, <1>2, <1>3, GoesOff

LEMMA StepGoesOn ==
  ASSUME CallsInv, NEW c \in Callers, NEW step \in Steps,
         Set(c, [calls[c] EXCEPT !.step = step]),
         Shaped([calls[c] EXCEPT !.step = step]),
         step \in Way /\ calls[c].id # 0 <=> InFlight(c),
         UNCHANGED <<nextId, pending, channel>>
  PROVE  CallsInv'
<1> DEFINE call == [calls[c] EXCEPT !.step = step]
<1>1. call \in StdioCall /\ call.step = step /\ call.id = calls[c].id
  BY CallTyped DEF CallsInv
<1> HIDE DEF call
<1> QED BY <1>1, GoesOn DEF call

\* A call that has not been registered.
Fresh(call) == /\ call \in StdioCall /\ call.id = 0
               /\ call.step \in {"free", "admitted", "notifying"}

-----------------------------------------------------------------------------
(* The actions.                                                            *)

LEMMA InitHolds == Init => IInv
<1> SUFFICES ASSUME Init PROVE IInv
  OBVIOUS
<1>1. \A c \in Callers : calls[c] = Idle
  BY DEF Init
<1>2. Idle \in StdioCall /\ Shaped(Idle) /\ ~(Idle.step \in Way) /\ Idle.id = 0
  BY StdioBounds DEF Idle, StdioCall, Steps, Answers, Shaped, Way
<1>3. calls \in [Callers -> StdioCall] /\ nextId \in 1..(MaxCalls + 1)
  BY <1>2, StdioBounds DEF Init
<1>4. channel \in [Ids -> Seq({"result", "exited"})] /\ \A i \in Ids : channel[i] = <<>>
  <2>1. \A i \in Ids : channel[i] = <<>>
    BY DEF Init
  <2>2. <<>> \in Seq({"result", "exited"})
    OBVIOUS
  <2> QED BY <2>1, <2>2 DEF Init
<1>5. \A c \in Callers : ~InFlight(c)
  BY <1>1, <1>2 DEF InFlight, Way
<1>6. PendingHasCaller /\ SendNeverBlocks
  BY <1>4, <1>5 DEF Init, PendingHasCaller, SendNeverBlocks
<1>7. \A c \in Callers : Shaped(calls[c]) /\ calls[c].id < nextId
  <2>1. \A c \in Callers : calls[c].id = 0
    BY <1>1, <1>2
  <2> QED BY <1>1, <1>2, <2>1 DEF Init
<1>8. CallsInv
  BY <1>3, <1>4, <1>5, <1>6, <1>7 DEF Init, CallsInv
<1>9. PipesInv
  BY DEF Init, PipesInv
<1> QED BY <1>8, <1>9 DEF IInv

LEMMA PipesHold == IInv /\ [Next]_vars => PipesInv'
<1> SUFFICES ASSUME IInv, [Next]_vars PROVE PipesInv'
  OBVIOUS
<1> USE DEF IInv, PipesInv
<1>1. ASSUME NEW c \in Callers, Admit(c) PROVE PipesInv'
  BY <1>1 DEF Admit, Terminate
<1>2. ASSUME NEW c \in Callers, Notify(c) PROVE PipesInv'
  BY <1>2 DEF Notify
<1>3. ASSUME NEW c \in Callers, Cancelled(c) PROVE PipesInv'
  BY <1>3 DEF Cancelled
<1>4. ASSUME NEW c \in Callers, Register(c) PROVE PipesInv'
  BY <1>4 DEF Register
<1>5. ASSUME NEW c \in Callers, Refuse(c) PROVE PipesInv'
  BY <1>5 DEF Refuse
<1>6. ASSUME NEW c \in Callers, LockStdin(c) PROVE PipesInv'
  BY <1>6 DEF LockStdin
<1>7. ASSUME NEW c \in Callers, Write(c) PROVE PipesInv'
  <2>1. calls[c].id \in Ids \cup {Notice}
    BY StdioBounds DEF CallsInv, StdioCall, Ids, Notice
  <2>2. stdin' \in Seq(Ids \cup {Notice})
    BY <1>7, <2>1 DEF Write
  <2> QED BY <1>7, <2>2 DEF Write
<1>8. ASSUME NEW c \in Callers, WriteFails(c) PROVE PipesInv'
  BY <1>8 DEF WriteFails
<1>9. ASSUME NEW c \in Callers, GiveUp(c) PROVE PipesInv'
  BY <1>9 DEF GiveUp, Terminate
<1>10. ASSUME NEW c \in Callers, Receive(c) PROVE PipesInv'
  BY <1>10 DEF Receive
<1>11. CASE Close
  BY <1>11 DEF Close, Terminate
<1>12. CASE ReadLine
  BY <1>12 DEF ReadLine
<1>13. CASE StopReading
  BY <1>13 DEF StopReading
<1>14. CASE Drain
  BY <1>14 DEF Drain
<1>15. CASE ChildReads
  <2>1. Head(stdin) \in Ids \cup {Notice} /\ Tail(stdin) \in Seq(Ids \cup {Notice})
    BY <1>15 DEF ChildReads
  <2>2. served' \subseteq Ids
    BY <1>15, <2>1 DEF ChildReads
  <2> QED BY <1>15, <2>1, <2>2 DEF ChildReads
<1>16. CASE ChildWrites
  BY <1>16 DEF ChildWrites
<1>17. CASE ChildDies
  BY <1>17 DEF ChildDies
<1>18. CASE UNCHANGED vars
  BY <1>18 DEF vars
<1> QED BY <1>1, <1>2, <1>3, <1>4, <1>5, <1>6, <1>7, <1>8, <1>9, <1>10, <1>11, <1>12,
           <1>13, <1>14, <1>15, <1>16, <1>17, <1>18 DEF Next, Caller, Reader, Child

\* A call that has ended or not begun is not in the map, and leaves it as it is.
LEMMA BeginsAnew ==
  ASSUME CallsInv, NEW c \in Callers, NEW call, Fresh(call), Set(c, call),
         calls[c].step = "free", UNCHANGED <<nextId, pending, channel>>
  PROVE  CallsInv'
<1>1. call \in StdioCall /\ Shaped(call) /\ call.step \notin Way /\ call.id = 0
  BY DEF Fresh, Shaped, Way
<1>2. call.id < nextId
  BY <1>1 DEF CallsInv
<1>3. ~InFlight(c)
  BY DEF InFlight
<1>4. pending' = pending \ (IF InFlight(c) THEN {calls[c].id} ELSE {})
  BY <1>3
<1> QED BY <1>1, <1>2, <1>4, GoesOff

\* What the code takes from the map when a call under way ends.
LEMMA Forgets ==
  ASSUME CallsInv, NEW c \in Callers, NEW answer \in Answers, Answer(c, answer),
         Forget(c), InFlight(c) \/ calls[c].id = Notice, UNCHANGED <<nextId, channel>>
  PROVE  CallsInv'
<1>1. 0 \notin pending
  BY DEF CallsInv, Ids
<1>2. pending' = pending \ (IF InFlight(c) THEN {calls[c].id} ELSE {})
  BY <1>1 DEF Forget, InFlight, Notice
<1> QED BY <1>2, AnswerGoesOff

\* The calls a caller begins with, written out.
LEMMA Begun ==
  ASSUME NEW over \in BOOLEAN, NEW step \in {"free", "admitted", "notifying"},
         NEW answer \in Answers
  PROVE  /\ Fresh([[Idle EXCEPT !.over = over] EXCEPT !.answer = answer])
         /\ Fresh([[Idle EXCEPT !.over = over] EXCEPT !.step = step])
         /\ Fresh([Idle EXCEPT !.answer = answer])
         /\ Fresh([Idle EXCEPT !.step = step])
<1> DEFINE call == [Idle EXCEPT !.over = over]
<1>1. Fresh(Idle)
  BY StdioBounds DEF Idle, Fresh, StdioCall, Steps, Answers
<1>2. Fresh(call)
  BY <1>1, CallTyped DEF Fresh
<1> HIDE DEF call
<1>3. \A old : Fresh(old) => /\ Fresh([old EXCEPT !.answer = answer])
                             /\ Fresh([old EXCEPT !.step = step])
  <2> SUFFICES ASSUME NEW old, Fresh(old)
               PROVE  /\ Fresh([old EXCEPT !.answer = answer])
                      /\ Fresh([old EXCEPT !.step = step])
    OBVIOUS
  <2>1. old \in StdioCall /\ step \in Steps
    BY DEF Fresh, Steps
  <2>2. Fresh([old EXCEPT !.answer = answer])
    BY <2>1, CallAnswered DEF Fresh
  <2>3. Fresh([old EXCEPT !.step = step])
    BY <2>1, CallTyped DEF Fresh
  <2> QED BY <2>2, <2>3
<1> QED BY <1>1, <1>2, <1>3 DEF call

LEMMA CallsHold == IInv /\ [Next]_vars => CallsInv'
<1> SUFFICES ASSUME IInv, [Next]_vars PROVE CallsInv'
  OBVIOUS
<1> USE DEF IInv
<1>a. /\ \A c \in Callers : calls[c] \in StdioCall /\ Shaped(calls[c])
      /\ {"exited", "interrupted", "refused", "broken", "none", "result"} \subseteq Answers
  BY DEF CallsInv, Answers
<1>1. ASSUME NEW c \in Callers, Admit(c) PROVE CallsInv'
  <2> PICK over \in BOOLEAN, answer \in {"exited", "interrupted"} :
        \/ Set(c, [[Idle EXCEPT !.over = over] EXCEPT !.answer = answer])
        \/ Set(c, [[Idle EXCEPT !.over = over] EXCEPT !.step = "admitted"])
    BY <1>1 DEF Admit
  <2>1. calls[c].step = "free" /\ UNCHANGED <<nextId, pending, channel>>
    BY <1>1 DEF Admit, At
  <2> QED BY <1>a, <2>1, Begun, BeginsAnew
<1>2. ASSUME NEW c \in Callers, Notify(c) PROVE CallsInv'
  <2> PICK answer \in {"exited", "refused"} :
        \/ Set(c, [Idle EXCEPT !.answer = answer])
        \/ Set(c, [Idle EXCEPT !.step = "notifying"])
    BY <1>2 DEF Notify
  <2>1. calls[c].step = "free" /\ UNCHANGED <<nextId, pending, channel>>
    BY <1>2 DEF Notify, At
  <2> QED BY <1>a, <2>1, Begun, BeginsAnew
<1>3. ASSUME NEW c \in Callers, Cancelled(c) PROVE CallsInv'
  <2> DEFINE call == [calls[c] EXCEPT !.over = TRUE]
  <2>1. call \in StdioCall /\ call.step = calls[c].step /\ call.id = calls[c].id
    BY <1>a, CallTyped
  <2>2. Set(c, call) /\ UNCHANGED <<nextId, pending, channel>>
    BY <1>3 DEF Cancelled
  <2> HIDE DEF call
  <2>3. Shaped(call)
    BY <1>a, <2>1 DEF Shaped
  <2>4. call.step \in Way /\ call.id # 0 <=> InFlight(c)
    BY <2>1 DEF Way, InFlight, Notice
  <2> QED BY <2>1, <2>2, <2>3, <2>4, GoesOn
<1>4. ASSUME NEW c \in Callers, Register(c) PROVE CallsInv'
  <2>1. calls[c].step = "admitted" /\ UNCHANGED channel /\ ~InFlight(c)
    BY <1>4 DEF Register, At, InFlight
  <2>2. CASE IdSpaceExhausted
    <3>1. Answer(c, "refused") /\ UNCHANGED <<nextId, pending>>
      BY <1>4, <2>2 DEF Register
    <3> QED BY <1>a, <2>1, <3>1, AnswerGoesOff
  <2>3. CASE ~IdSpaceExhausted
    <3>0. \A step \in {"registered", "oversized"} :
            /\ [calls[c] EXCEPT !.step = step] \in StdioCall
            /\ [calls[c] EXCEPT !.step = step].step = step
      <4>1. calls[c] \in StdioCall /\ {"registered", "oversized"} \subseteq Steps
        BY <1>a DEF Steps
      <4> QED BY <4>1, CallTyped, Zenon
    <3> PICK step \in {"registered", "oversized"} :
               Set(c, [calls[c] EXCEPT !.step = step, !.id = nextId])
      BY <1>4, <2>3 DEF Register
    <3> DEFINE begun == [calls[c] EXCEPT !.step = step]
               call == [begun EXCEPT !.id = nextId]
    <3>1. nextId' = nextId + 1 /\ pending' = pending \cup {nextId}
      BY <1>4, <2>3 DEF Register
    <3>2. nextId \in 1..MaxCalls
      BY <2>3, StdioBounds DEF CallsInv, IdSpaceExhausted
    <3>3. begun \in StdioCall /\ begun.step = step
      BY <3>0, Zenon
    <3>4. Set(c, call)
      OBVIOUS
    <3> HIDE DEF begun
    <3>a. call \in StdioCall /\ call.step = step /\ call.id = nextId
      BY <3>2, <3>3, CallNumbered
    <3> HIDE DEF call
    <3>5. Shaped(call) /\ call.step \in Way
      BY <3>2, <3>a DEF Shaped, Way
    <3> QED BY <2>1, <2>3, <3>1, <3>a, <3>4, <3>5, Enters
  <2> QED BY <2>2, <2>3
<1>5. ASSUME NEW c \in Callers, Refuse(c) PROVE CallsInv'
  <2>1. InFlight(c)
    BY <1>a, <1>5 DEF Refuse, At, InFlight, Shaped, Notice
  <2> QED BY <1>a, <1>5, <2>1, Forgets DEF Refuse
<1>6. ASSUME NEW c \in Callers, LockStdin(c) PROVE CallsInv'
  <2>1. /\ calls[c].step \in {"registered", "notifying"}
        /\ Set(c, [calls[c] EXCEPT !.step = "writing"])
        /\ UNCHANGED <<nextId, pending, channel>>
    BY <1>6 DEF LockStdin, At
  <2>2. "writing" \in Way /\ calls[c].id # 0 <=> InFlight(c)
    BY <1>a, <2>1 DEF Way, InFlight, Shaped, Notice
  <2> DEFINE call == [calls[c] EXCEPT !.step = "writing"]
  <2>3. call.step = "writing" /\ call.id = calls[c].id
    BY <1>a, CallTyped DEF Steps
  <2>4. Shaped(call)
    BY <2>3 DEF Shaped
  <2> QED BY <2>1, <2>2, <2>4, StepGoesOn DEF Steps
<1>7. ASSUME NEW c \in Callers, Write(c) PROVE CallsInv'
  <2>1. calls[c].step = "writing" /\ UNCHANGED <<nextId, pending, channel>>
    BY <1>7 DEF Write, At
  <2>2. CASE calls[c].id = Notice
    <3>1. Answer(c, "result") /\ ~InFlight(c)
      BY <1>7, <2>2 DEF Write, InFlight
    <3> QED BY <1>a, <2>1, <3>1, AnswerGoesOff
  <2>3. CASE calls[c].id # Notice
    <3>1. Set(c, [calls[c] EXCEPT !.step = "waiting"])
      BY <1>7, <2>3 DEF Write
    <3>2. "waiting" \in Way /\ calls[c].id # 0 <=> InFlight(c)
      BY <2>1, <2>3 DEF Way, InFlight, Notice
    <3> DEFINE call == [calls[c] EXCEPT !.step = "waiting"]
    <3>3. call.step = "waiting" /\ call.id = calls[c].id
      BY <1>a, CallTyped DEF Steps
    <3>4. Shaped(call)
      BY <2>3, <3>3 DEF Shaped, Notice
    <3> QED BY <2>1, <3>1, <3>2, <3>4, StepGoesOn DEF Steps
  <2> QED BY <2>2, <2>3
<1>8. ASSUME NEW c \in Callers, WriteFails(c) PROVE CallsInv'
  <2>1. InFlight(c) \/ calls[c].id = Notice
    BY <1>8 DEF WriteFails, At, InFlight
  <2> QED BY <1>a, <1>8, <2>1, Forgets DEF WriteFails
<1>9. ASSUME NEW c \in Callers, GiveUp(c) PROVE CallsInv'
  <2>1. InFlight(c)
    BY <1>a, <1>9 DEF GiveUp, At, InFlight, Shaped, Notice
  <2> QED BY <1>a, <1>9, <2>1, Forgets DEF GiveUp
<1>10. ASSUME NEW c \in Callers, Receive(c) PROVE CallsInv'
  <2>1. At(c, "waiting") /\ channel[calls[c].id] # <<>> /\ UNCHANGED <<nextId, pending, channel>>
    BY <1>10 DEF Receive
  <2>2. InFlight(c) /\ calls[c].id \in Ids
    BY <1>a, <2>1 DEF At, InFlight, Shaped, Notice, StdioCall, Ids
  <2>3. Head(channel[calls[c].id]) \in {"result", "exited"}
    <3>1. channel[calls[c].id] \in Seq({"result", "exited"})
      BY <2>2 DEF CallsInv
    <3> QED BY <2>1, <3>1
  <2>4. calls[c].id \notin pending
    BY <2>1 DEF CallsInv
  <2>5. pending' = pending \ (IF InFlight(c) THEN {calls[c].id} ELSE {})
    BY <2>1, <2>4
  <2> DEFINE answer == Head(channel[calls[c].id])
  <2>6. answer \in Answers /\ Answer(c, answer)
    BY <1>10, <2>3 DEF Receive, Answers
  <2> HIDE DEF answer
  <2> QED BY <2>1, <2>5, <2>6, AnswerGoesOff
<1>11. CASE ReadLine
  <2>1. CASE Head(stdout) \in pending
    <3> DEFINE id == Head(stdout)
    <3>1. /\ channel' = [channel EXCEPT ![id] = Append(@, "result")]
          /\ pending' = pending \ {id} /\ UNCHANGED <<calls, nextId>>
      BY <1>11, <2>1 DEF ReadLine, Delivered
    <3>2. channel' = [i \in Ids |-> IF i \in {id} THEN Append(channel[i], "result")
                                                  ELSE channel[i]]
      BY <3>1 DEF CallsInv
    <3>3. {id} \in SUBSET pending
      BY <2>1
    <3> HIDE DEF id
    <3> QED BY <3>1, <3>2, <3>3, Answered
  <2>2. CASE Head(stdout) \notin pending
    BY <1>11, <2>2 DEF ReadLine, CallsInv, PendingHasCaller, SendNeverBlocks, InFlight
  <2> QED BY <2>1, <2>2
<1>12. CASE Drain
  <2>1. /\ channel' = [i \in Ids |-> IF i \in pending THEN Append(channel[i], "exited")
                                                      ELSE channel[i]]
        /\ pending' = pending \ pending /\ UNCHANGED <<calls, nextId>>
    BY <1>12 DEF Drain, Drained
  <2> QED BY <2>1, Answered
<1>13. CASE UNCHANGED <<calls, nextId, pending, channel>>
  BY <1>13 DEF CallsInv, PendingHasCaller, SendNeverBlocks, InFlight
<1>14. Close \/ StopReading \/ Child \/ UNCHANGED vars => UNCHANGED <<calls, nextId, pending, channel>>
  BY DEF Close, StopReading, Child, ChildReads, ChildWrites, ChildDies, vars
<1> QED BY <1>1, <1>2, <1>3, <1>4, <1>5, <1>6, <1>7, <1>8, <1>9, <1>10, <1>11, <1>12,
           <1>13, <1>14 DEF Next, Caller, Reader

\* Whatever the server writes, and in whatever order calls time out, are cancelled or
\* find it dead: every pending id is that of one call under way, a channel gets one
\* answer, and a call that waits is pending or answered (call_with_context, the
\* mcp-stdout-reader and next_request_id).
THEOREM AnswersAreMatchedHolds == Spec => []AnswersAreMatched
<1>1. IInv /\ [Next]_vars => IInv'
  BY PipesHold, CallsHold DEF IInv
<1> QED BY <1>1, InitHolds, InvMatches, PTL DEF Spec
=============================================================================
