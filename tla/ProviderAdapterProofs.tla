----------------------- MODULE ProviderAdapterProofs ------------------------
(***************************************************************************)
(* Theorems about ProviderAdapter, for any number of requests and events   *)
(* and any room in the channel, whatever the endpoint does and whenever    *)
(* the caller gives up.                                                    *)
(*                                                                         *)
(* None of the properties is inductive.  That a request in doubt leaves    *)
(* the adapter quarantined rests on what a worker's result says of a       *)
(* request nobody settled (Judged), and on the worker's token being set    *)
(* only by a caller that has quarantined the adapter before (Closing).     *)
(* That a failure tells what the sink has seen rests on the channel being  *)
(* the rest of the response (Line, Count), as long as nobody has given up. *)
(***************************************************************************)
EXTENDS ProviderAdapter, TLAPS

Stages ==
  /\ callAt \in {"idle", "check", "recv", "closing"}
  /\ ending \in {"none", "done", "cancel", "total", "idle", "died"}
  /\ worker \in {"none", "send", "wait", "stream", "offer", "finish", "report", "gone",
                 "panicked"}
  /\ relay \in {"none", "accept", "tunnel", "gone"}
  /\ next \in {"stream", "finish"}

Flags ==
  /\ emitted \in BOOLEAN /\ quarantined \in BOOLEAN /\ stopRequest \in BOOLEAN
  /\ posted \in BOOLEAN /\ answered \in BOOLEAN /\ doubt \in BOOLEAN

Data ==
  /\ result \in Outcomes /\ returned \in Outcomes
  /\ produced \in Nat /\ channel \in Seq(Nat) /\ delivered \in Seq(Nat)

Typed == Stages /\ Flags /\ Data

\* Between two calls nothing runs, and a doubt has the adapter quarantined.
Resting ==
  callAt = "idle" =>
    /\ relay \in {"none", "gone"} /\ worker \in {"none", "gone", "panicked"}
    /\ ~active /\ channel = <<>>
    /\ doubt => quarantined

\* A call begins without doubt; its worker is told to stop only when the call has
\* given up and the adapter is quarantined.
Closing ==
  /\ callAt # "idle" => ~doubt /\ (emitted <=> delivered # <<>>)
  /\ callAt \in {"check", "recv"} => ~stopRequest
  /\ callAt = "closing" /\ ending = "done" =>
       ~stopRequest /\ worker = "gone" /\ channel = <<>>
  /\ callAt = "closing" /\ ending # "done" => stopRequest /\ quarantined /\ ending # "none"

\* What a result says of its request, unless the worker was told to stop: one that
\* nobody has settled is uncertain, and only one with events has let output out.
Judged ==
  /\ worker = "send" => ~posted
  /\ worker \in {"send", "wait"} => produced = 0
  /\ worker = "offer" => produced > 0 /\ (next = "finish" => answered /\ ~result.partial)
  /\ worker \in {"finish", "report", "gone"} /\ ~stopRequest /\ callAt # "idle" =>
       /\ posted /\ ~answered => Uncertain(result)
       /\ result.partial => produced > 0

\* The channel goes on where the sink is, and ends with the report of a worker
\* that is gone.
Line ==
  /\ \A i \in 1..Len(delivered) : delivered[i] = i
  /\ \A j \in 1..Len(channel) :
       \/ channel[j] = Len(delivered) + j
       \/ j = Len(channel) /\ channel[j] = Done /\ worker = "gone"

\* Nothing of the response is missing as long as nobody has given up.
Count ==
  /\ worker = "offer" => produced = Len(delivered) + Queued + 1
  /\ worker # "offer" /\ ~stopRequest /\ callAt # "idle" => produced = Len(delivered) + Queued

\* What the last call told its caller.
Told ==
  /\ SafeIsSafe /\ PartialIsHonest
  /\ returned.kind = "ok" /\ callAt = "idle" => Len(delivered) = produced

IInv == Typed /\ Resting /\ Closing /\ Judged /\ Line /\ Count /\ Told

LEMMA InvSafe ==
  IInv => NoBlindRepost /\ SafeIsSafe /\ NothingBehind /\ PartialIsHonest /\ InOrder
<1> SUFFICES ASSUME IInv
             PROVE  NoBlindRepost /\ SafeIsSafe /\ NothingBehind /\ PartialIsHonest /\ InOrder
  OBVIOUS
<1>1. NoBlindRepost
  BY DEF IInv, Closing, NoBlindRepost
<1>2. NothingBehind
  BY DEF IInv, Resting, NothingBehind
<1>3. delivered = [i \in 1..Len(delivered) |-> i]
  BY DEF IInv, Typed, Data, Line
<1> QED BY <1>1, <1>2, <1>3 DEF IInv, Told, InOrder

LEMMA InvInit == Init => IInv
<1> SUFFICES ASSUME Init PROVE IInv
  OBVIOUS
<1>1. Nothing \in Outcomes /\ Nothing.kind = "none"
  BY DEF Nothing, Outcomes
<1>2. Stages /\ Flags
  BY DEF Init, Stages, Flags
<1>6. Data
  BY <1>1 DEF Init, Data
<1>3. Resting /\ Closing /\ Judged
  BY DEF Init, Resting, Closing, Judged
<1>4. Line /\ Count
  BY DEF Init, Line, Count
<1>5. Told
  BY <1>1 DEF Init, Told, SafeIsSafe, PartialIsHonest
<1> QED BY <1>2, <1>3, <1>4, <1>5, <1>6 DEF IInv, Typed

\* Outcomes are made in one way.
LEMMA Failing ==
  ASSUME NEW kind \in {"Transport", "Timeout", "Cancelled", "Protocol", "ProviderUnavailable"},
         NEW safety \in {"safe", "ambiguous"}, NEW seen \in BOOLEAN
  PROVE  /\ Fails(kind, safety, seen) \in Outcomes
         /\ Fails(kind, safety, seen).kind = kind
         /\ Fails(kind, safety, seen).partial = seen
         /\ Fails(kind, safety, seen).safety = IF seen THEN "committed" ELSE safety
BY DEF Fails, Outcomes

-----------------------------------------------------------------------------
(* The caller.                                                             *)

LEMMA NewTurnStep == IInv /\ NewTurn => IInv'
<1> SUFFICES ASSUME IInv, NewTurn PROVE IInv'
  OBVIOUS
<1> USE DEF NewTurn, IInv, caller, wire, thread
<1>1. Typed'
  <2>1. Stages' /\ Data'
    BY DEF Typed, Stages, Data
  <2>2. Flags'
    BY DEF Typed, Flags
  <2> QED BY <2>1, <2>2 DEF Typed
<1>2. Resting' /\ Closing' /\ Judged'
  BY DEF Resting, Closing, Judged
<1>3. Line' /\ Count'
  BY DEF Line, Count, Queued
<1>4. Told'
  BY DEF Told, SafeIsSafe, PartialIsHonest
<1> QED BY <1>1, <1>2, <1>3, <1>4

LEMMA RefuseStep ==
  ASSUME IInv, NEW failure, NEW adapter, Refuse(failure, adapter)
  PROVE  IInv'
<1>1. PICK kind \in {"Transport", "Cancelled", "Protocol", "ProviderUnavailable"},
           safety \in {"safe", "ambiguous"} : failure = Fails(kind, safety, FALSE)
  BY DEF Refuse
<1>2. failure \in Outcomes /\ failure.kind \notin {"none", "ok"} /\ failure.partial = FALSE
  BY <1>1 DEF Fails, Outcomes
<1> USE <1>2 DEF Refuse, IInv
<1>3. Typed'
  <2>1. Stages' /\ Data'
    BY DEF Typed, Stages, Data
  <2>2. Flags'
    BY DEF Typed, Flags
  <2> QED BY <2>1, <2>2 DEF Typed
<1>4. Resting' /\ Closing' /\ Judged'
  BY DEF Resting, Closing, Judged
<1>5. Line' /\ Count'
  BY DEF Line, Count, Queued, Resting, Typed
<1>6. Told'
  BY DEF Told, SafeIsSafe, PartialIsHonest
<1> QED BY <1>3, <1>4, <1>5, <1>6

LEMMA StartStep == IInv /\ Start => IInv'
<1> SUFFICES ASSUME IInv, Start PROVE IInv'
  OBVIOUS
<1>1. Nothing \in Outcomes /\ Nothing.kind = "none"
  BY DEF Nothing, Outcomes
<1> USE <1>1 DEF Start, IInv
<1>3. Typed'
  <2>1. Stages' /\ Data'
    BY DEF Typed, Stages, Data
  <2>2. Flags'
    BY DEF Typed, Flags
  <2> QED BY <2>1, <2>2 DEF Typed
<1>4. Resting' /\ Closing' /\ Judged'
  BY DEF Resting, Closing, Judged
<1>5. Line' /\ Count'
  BY DEF Line, Count, Queued
<1>6. Told'
  BY DEF Told, SafeIsSafe, PartialIsHonest
<1> QED BY <1>3, <1>4, <1>5, <1>6

\* What the user and the clock do, and the head of the loop when nothing is wrong.
LEMMA Elsewhere ==
  ASSUME IInv, UNCHANGED <<caller, active, quarantined, stopRequest, wire, thread, channel, doubt>>
  PROVE  IInv'
<1> USE DEF IInv, caller, wire, thread
<1>1. Stages' /\ Flags'
  BY DEF Typed, Stages, Flags
<1>2. Data'
  BY DEF Typed, Data
<1>3. Resting' /\ Closing' /\ Judged'
  BY DEF Resting, Closing, Judged
<1>4. Line' /\ Count'
  BY DEF Line, Count, Queued
<1>5. Told'
  BY DEF Told, SafeIsSafe, PartialIsHonest
<1> QED BY <1>1, <1>2, <1>3, <1>4, <1>5 DEF Typed

LEMMA GoesOn ==
  ASSUME IInv, callAt \in {"check", "recv"}, callAt' \in {"check", "recv"},
         UNCHANGED <<ending, emitted, delivered, returned, active, quarantined, stopRequest, wire,
                     thread, channel, doubt>>
  PROVE  IInv'
<1> USE DEF IInv, wire, thread
<1>1. Stages' /\ Flags'
  BY DEF Typed, Stages, Flags
<1>2. Data'
  BY DEF Typed, Data
<1>3. Resting' /\ Closing' /\ Judged'
  BY DEF Resting, Closing, Judged
<1>4. Line' /\ Count'
  BY DEF Line, Count, Queued
<1>5. Told'
  BY DEF Told, SafeIsSafe, PartialIsHonest
<1> QED BY <1>1, <1>2, <1>3, <1>4, <1>5 DEF Typed

LEMMA GivesUp ==
  ASSUME IInv, callAt \in {"check", "recv"}, NEW why \in {"cancel", "total", "idle", "died"}, Stop(why)
  PROVE  IInv'
<1> USE DEF IInv, Stop, thread
<1>1. Stages' /\ Flags'
  BY DEF Typed, Stages, Flags
<1>2. Data'
  BY DEF Typed, Data
<1>3. Resting' /\ Closing' /\ Judged'
  BY DEF Resting, Closing, Judged
<1>4. Line' /\ Count'
  BY DEF Line, Count, Queued
<1>5. Told'
  BY DEF Told, SafeIsSafe, PartialIsHonest
<1> QED BY <1>1, <1>2, <1>3, <1>4, <1>5 DEF Typed

LEMMA CheckStep == IInv /\ Check => IInv'
BY GivesUp, GoesOn DEF Check, flags

LEMMA ReceiveNothingStep == IInv /\ ReceiveNothing => IInv'
BY GivesUp, GoesOn DEF ReceiveNothing, flags

-----------------------------------------------------------------------------
(* The channel.                                                            *)

\* Queued, of any sequence of messages.
EventsIn(s) == IF s # <<>> /\ s[Len(s)] = 0 THEN Len(s) - 1 ELSE Len(s)

\* Line, of any such sequence behind n delivered events.
InLine(s, n, over) ==
  \A j \in 1..Len(s) : s[j] = n + j \/ (j = Len(s) /\ s[j] = 0 /\ over)

LEMMA QueuedIsEventsIn == Queued = EventsIn(channel) /\ Queued' = EventsIn(channel')
BY DEF Queued, EventsIn, Done

LEMMA NoLength ==
  ASSUME NEW s \in Seq(Nat)
  PROVE  Len(s) = 0 <=> s = <<>>
OBVIOUS

LEMMA EventTaken ==
  ASSUME NEW s \in Seq(Nat), NEW n \in Nat, NEW over \in BOOLEAN, InLine(s, n, over), s # <<>>,
         Head(s) # 0
  PROVE  /\ Head(s) = n + 1 /\ Tail(s) \in Seq(Nat) /\ InLine(Tail(s), n + 1, over)
         /\ EventsIn(Tail(s)) = EventsIn(s) - 1 /\ EventsIn(s) \in Nat
<1>1. Len(s) \in Nat \ {0} /\ Head(s) = s[1] /\ \A j \in 1..Len(s) : s[j] \in Nat
  OBVIOUS
<1>2. s[1] = n + 1
  BY <1>1 DEF InLine
<1>3. /\ Tail(s) \in Seq(Nat) /\ Len(Tail(s)) = Len(s) - 1
      /\ \A j \in 1..Len(Tail(s)) : Tail(s)[j] = s[j + 1]
  BY <1>1
<1>4. InLine(Tail(s), n + 1, over)
  <2> SUFFICES ASSUME NEW j \in 1..Len(Tail(s))
               PROVE  \/ Tail(s)[j] = n + 1 + j
                      \/ j = Len(Tail(s)) /\ Tail(s)[j] = 0 /\ over
    BY DEF InLine
  <2>1. j \in Nat /\ j + 1 \in 1..Len(s) /\ Tail(s)[j] = s[j + 1]
    BY <1>1, <1>3
  <2>2. CASE s[j + 1] = n + (j + 1)
    BY <2>1, <2>2
  <2>3. CASE j + 1 = Len(s) /\ s[j + 1] = 0 /\ over
    BY <2>1, <2>3, <1>1, <1>3
  <2> QED BY <2>1, <2>2, <2>3 DEF InLine
<1>5. EventsIn(Tail(s)) = EventsIn(s) - 1 /\ EventsIn(s) \in Nat
  <2>1. CASE Len(s) = 1
    <3>1. EventsIn(s) = 1
      BY <1>1, <2>1 DEF EventsIn
    <3>2. Len(Tail(s)) = 0
      BY <1>3, <2>1
    <3>3. Tail(s) = <<>>
      BY <1>3, <3>2, NoLength
    <3>4. EventsIn(Tail(s)) = 0
      BY <3>2, <3>3, Zenon DEF EventsIn
    <3> QED BY <3>1, <3>4
  <2>2. CASE Len(s) # 1
    <3>1. Len(s) - 1 \in 1..Len(Tail(s)) /\ Len(Tail(s)) = Len(s) - 1
      BY <1>1, <1>3, <2>2
    <3>2. Tail(s) # <<>>
      BY <3>1, <1>3, NoLength, 1..0 = {}
    <3>3. Tail(s)[Len(Tail(s))] = s[Len(s)]
      BY <3>1, <1>1, <1>3
    <3> QED BY <3>2, <3>3, <1>1, <1>3, <2>2 DEF EventsIn
  <2> QED BY <2>1, <2>2
<1> QED BY <1>1, <1>2, <1>3, <1>4, <1>5

\* A report can only be the last message.
LEMMA ReportTaken ==
  ASSUME NEW s \in Seq(Nat), NEW n \in Nat, NEW over \in BOOLEAN, InLine(s, n, over), s # <<>>,
         Head(s) = 0
  PROVE  over /\ Tail(s) = <<>> /\ EventsIn(s) = 0
<1>1. Len(s) \in Nat \ {0} /\ s[1] = 0
  OBVIOUS
<1>2. 1 \in 1..Len(s) /\ s[1] # n + 1
  BY <1>1
<1>3. Len(s) = 1 /\ over
  BY <1>2 DEF InLine
<1>4. Tail(s) \in Seq(Nat) /\ Len(Tail(s)) = 0
  BY <1>1, <1>3
<1>5. Tail(s) = <<>>
  BY <1>4, NoLength
<1> QED BY <1>1, <1>3, <1>5 DEF EventsIn

\* A worker at work adds to events only.
LEMMA MessageAdded ==
  ASSUME NEW s \in Seq(Nat), NEW n \in Nat, NEW over \in BOOLEAN, InLine(s, n, FALSE),
         NEW m \in {0, n + Len(s) + 1}, m = 0 => over
  PROVE  /\ EventsIn(s) = Len(s)
         /\ Append(s, m) \in Seq(Nat) /\ InLine(Append(s, m), n, over)
         /\ EventsIn(Append(s, m)) = IF m = 0 THEN Len(s) ELSE Len(s) + 1
<1>1. Len(s) \in Nat /\ \A j \in 1..Len(s) : s[j] = n + j
  BY DEF InLine
<1>2. EventsIn(s) = Len(s)
  <2>1. CASE s = <<>>
    BY <2>1 DEF EventsIn
  <2>2. CASE s # <<>>
    <3>1. Len(s) \in 1..Len(s)
      BY <2>2
    <3>2. s[Len(s)] # 0
      BY <1>1, <3>1
    <3> QED BY <3>2 DEF EventsIn
  <2> QED BY <2>1, <2>2
<1>3. /\ Append(s, m) \in Seq(Nat) /\ Len(Append(s, m)) = Len(s) + 1
      /\ \A j \in 1..Len(s) : Append(s, m)[j] = s[j]
      /\ Append(s, m)[Len(s) + 1] = m
  BY <1>1
<1>4. InLine(Append(s, m), n, over)
  <2> SUFFICES ASSUME NEW j \in 1..(Len(s) + 1)
               PROVE  \/ Append(s, m)[j] = n + j
                      \/ j = Len(s) + 1 /\ Append(s, m)[j] = 0 /\ over
    BY <1>3 DEF InLine
  <2>1. CASE j = Len(s) + 1
    BY <2>1, <1>1, <1>3
  <2>2. CASE j # Len(s) + 1
    <3>1. j \in 1..Len(s)
      BY <2>2, <1>1
    <3> QED BY <3>1, <1>1, <1>3
  <2> QED BY <2>1, <2>2
<1>5. EventsIn(Append(s, m)) = IF m = 0 THEN Len(s) ELSE Len(s) + 1
  <2>1. Append(s, m) # <<>> /\ Append(s, m)[Len(Append(s, m))] = m
    BY <1>1, <1>3
  <2> QED BY <2>1, <1>1, <1>3 DEF EventsIn
<1> QED BY <1>2, <1>3, <1>4, <1>5

-----------------------------------------------------------------------------
(* The caller receives.                                                    *)

LEMMA LineIs == Line <=> /\ \A i \in 1..Len(delivered) : delivered[i] = i
                         /\ InLine(channel, Len(delivered), worker = "gone")
BY DEF Line, InLine, Done

LEMMA ReceiveEventStep ==
  ASSUME IInv, ReceiveEvent
  PROVE  IInv'
<1> DEFINE n == Len(delivered)
           over == worker = "gone"
<1>1. /\ channel \in Seq(Nat) /\ delivered \in Seq(Nat) /\ n \in Nat /\ over \in BOOLEAN
      /\ channel # <<>> /\ Head(channel) # 0
      /\ channel' = Tail(channel) /\ delivered' = Append(delivered, Head(channel))
      /\ UNCHANGED <<worker, produced, stopRequest>> /\ callAt = "recv" /\ callAt' = "check"
  BY DEF IInv, Typed, Data, ReceiveEvent, Done, thread
<1>2. InLine(channel, n, over) /\ \A i \in 1..n : delivered[i] = i
  BY LineIs DEF IInv
<1>3. /\ Head(channel) = n + 1 /\ channel' \in Seq(Nat) /\ InLine(channel', n + 1, over)
      /\ EventsIn(channel') = EventsIn(channel) - 1 /\ EventsIn(channel) \in Nat
  BY <1>1, <1>2, EventTaken
<1>4. /\ delivered' \in Seq(Nat) /\ Len(delivered') = n + 1 /\ delivered' # <<>>
      /\ \A i \in 1..(n + 1) : delivered'[i] = i
  BY <1>1, <1>2, <1>3
<1>5. Stages' /\ Flags'
  BY DEF IInv, ReceiveEvent, flags, wire, thread, Typed, Stages, Flags
<1>6. Data'
  BY <1>3, <1>4 DEF IInv, ReceiveEvent, flags, wire, thread, Typed, Data
<1>7. Resting' /\ Closing' /\ Judged'
  BY <1>4 DEF IInv, ReceiveEvent, flags, wire, thread, Resting, Closing, Judged
<1>8. Line'
  BY <1>1, <1>3, <1>4 DEF Line, InLine, Done
<1>9. Count'
  <2>1. Queued \in Nat /\ Queued' = Queued - 1
    BY <1>3, QueuedIsEventsIn
  <2>2. Len(delivered') + Queued' = n + Queued
    BY <2>1, <1>1, <1>4
  <2>3. Count
    BY DEF IInv
  <2> QED BY <2>2, <2>3, <1>1 DEF Count
<1>10. Told'
  BY <1>1 DEF IInv, ReceiveEvent, Told, SafeIsSafe, PartialIsHonest
<1> QED BY <1>5, <1>6, <1>7, <1>8, <1>9, <1>10 DEF IInv, Typed

LEMMA ReceiveDoneStep ==
  ASSUME IInv, ReceiveDone
  PROVE  IInv'
<1>1. /\ channel \in Seq(Nat) /\ delivered \in Seq(Nat) /\ Len(delivered) \in Nat
      /\ channel # <<>> /\ Head(channel) = 0 /\ (worker = "gone") \in BOOLEAN
      /\ channel' = Tail(channel)
      /\ UNCHANGED <<worker, produced, stopRequest, delivered>>
      /\ callAt = "recv" /\ callAt' = "closing"
  BY DEF IInv, Typed, Data, ReceiveDone, Done, thread, flags
<1>2. worker = "gone" /\ channel' = <<>> /\ EventsIn(channel) = 0
  BY <1>1, LineIs, ReportTaken DEF IInv
<1>3. Stages' /\ Flags'
  BY DEF IInv, ReceiveDone, flags, thread, Typed, Stages, Flags
<1>4. Data'
  BY <1>2 DEF IInv, ReceiveDone, thread, Typed, Data
<1>5. Resting' /\ Closing' /\ Judged'
  BY <1>2 DEF IInv, ReceiveDone, flags, thread, Resting, Closing, Judged
<1>6. Line'
  BY <1>1, <1>2 DEF IInv, Line
<1>7. Count'
  <2>1. EventsIn(channel') = 0
    BY <1>2 DEF EventsIn
  <2> QED BY <1>1, <1>2, <2>1, QueuedIsEventsIn DEF IInv, Count
<1>8. Told'
  BY <1>1 DEF IInv, ReceiveDone, Told, SafeIsSafe, PartialIsHonest
<1> QED BY <1>3, <1>4, <1>5, <1>6, <1>7, <1>8 DEF IInv, Typed

-----------------------------------------------------------------------------
(* The caller returns.                                                     *)

\* What the sink has seen once the channel is drained.
LEMMA Drained ==
  ASSUME IInv, NEW rest, rest = SubSeq(channel, 1, Queued)
  PROVE  LET all == delivered \o rest IN
         /\ all \in Seq(Nat) /\ Len(all) = Len(delivered) + Queued /\ Queued \in Nat
         /\ \A i \in 1..Len(all) : all[i] = i
         /\ all # <<>> <=> delivered # <<>> \/ rest # <<>>
         /\ Queued = 0 => rest = <<>> /\ all = delivered
<1> DEFINE n == Len(delivered)
<1>1. channel \in Seq(Nat) /\ delivered \in Seq(Nat) /\ n \in Nat
  BY DEF IInv, Typed, Data
<1>2. /\ InLine(channel, n, worker = "gone") /\ \A i \in 1..n : delivered[i] = i
  BY LineIs DEF IInv
<1>3. Queued \in 0..Len(channel) /\ Queued \in Nat
  <2>1. channel # <<>> => Len(channel) \in Nat \ {0}
    BY <1>1
  <2>2. channel = <<>> => Len(channel) = 0
    OBVIOUS
  <2> QED BY <2>1, <2>2 DEF Queued
<1>4. /\ rest \in Seq(Nat) /\ Len(rest) = Queued
      /\ \A j \in 1..Queued : rest[j] = channel[j]
  BY <1>1, <1>3
<1>5. \A j \in 1..Queued : channel[j] = n + j
  <2> SUFFICES ASSUME NEW j \in 1..Queued PROVE channel[j] = n + j
    OBVIOUS
  <2>1. j \in 1..Len(channel)
    BY <1>1, <1>3
  <2>2. ~(j = Len(channel) /\ channel[j] = 0)
    BY <1>1, <1>3 DEF Queued, Done
  <2> QED BY <2>1, <2>2, <1>2 DEF InLine
<1> DEFINE all == delivered \o rest
<1>6. /\ all \in Seq(Nat) /\ Len(all) = n + Queued
      /\ \A i \in 1..n : all[i] = delivered[i]
      /\ \A j \in 1..Queued : all[n + j] = rest[j]
  BY <1>1, <1>3, <1>4
<1>7. \A i \in 1..Len(all) : all[i] = i
  <2> SUFFICES ASSUME NEW i \in 1..(n + Queued) PROVE all[i] = i
    BY <1>6
  <2>1. CASE i \in 1..n
    BY <2>1, <1>2, <1>6
  <2>2. CASE i \notin 1..n
    <3>1. i - n \in 1..Queued /\ n + (i - n) = i
      BY <2>2, <1>1, <1>3
    <3>2. all[n + (i - n)] = rest[i - n] /\ rest[i - n] = n + (i - n)
      BY <3>1, <1>4, <1>5, <1>6
    <3> QED BY <3>1, <3>2
  <2> QED BY <2>1, <2>2
<1>8. all # <<>> <=> delivered # <<>> \/ rest # <<>>
  <2>1. Len(all) = 0 <=> n = 0 /\ Queued = 0
    BY <1>1, <1>3, <1>6
  <2>2. /\ Len(all) = 0 <=> all = <<>>
        /\ n = 0 <=> delivered = <<>>
        /\ Queued = 0 <=> rest = <<>>
    BY <1>1, <1>4, <1>6, NoLength
  <2> QED BY <2>1, <2>2
<1>9. Queued = 0 => rest = <<>> /\ all = delivered
  BY <1>1, <1>4, NoLength
<1> QED BY <1>3, <1>6, <1>7, <1>8, <1>9

\* The verdict on a request that was given up.
LEMMA GivenUp ==
  ASSUME NEW why \in {"cancel", "total", "idle", "died"}, NEW seen \in BOOLEAN
  PROVE  LET v == Verdict(why, seen) IN
         /\ v \in Outcomes /\ v.kind \notin {"none", "ok"} /\ v.safety # "safe"
         /\ v.partial = seen
BY DEF Verdict, Fails, Outcomes

\* The verdict on a request whose worker has reported.
LEMMA ReportedVerdict ==
  ASSUME result \in Outcomes, NEW seen \in BOOLEAN
  PROVE  LET v == Verdict("done", seen) IN
         /\ v \in Outcomes /\ v.kind = result.kind
         /\ result.kind # "ok" => (v.partial <=> seen \/ result.partial)
         /\ result.kind # "ok" /\ v.safety = "safe" =>
              ~seen /\ ~result.partial /\ result.safety = "safe"
<1>1. Verdict("done", seen) =
        [result EXCEPT !.partial = result.kind # "ok" /\ (seen \/ @),
                       !.safety = IF result.kind # "ok" /\ (seen \/ result.partial)
                                  THEN "committed" ELSE @]
  BY DEF Verdict
<1>2. result.kind \in {"none", "ok", "Transport", "Timeout", "Cancelled", "Protocol",
                       "ProviderUnavailable"}
      /\ result.safety \in {"safe", "ambiguous", "committed"} /\ result.partial \in BOOLEAN
  BY DEF Outcomes
<1> QED BY <1>1, <1>2 DEF Outcomes

LEMMA ReturnStep ==
  ASSUME IInv, Return
  PROVE  IInv'
<1> DEFINE rest == SubSeq(channel, 1, Queued)
           seen == emitted \/ rest # <<>>
           all == delivered \o rest
<1>1. /\ returned' = Verdict(ending, seen) /\ emitted' = seen /\ delivered' = all
      /\ callAt = "closing" /\ callAt' = "idle" /\ channel' = <<>> /\ active' = FALSE
      /\ relay = "gone" /\ worker \in {"gone", "panicked"}
      /\ quarantined' = (quarantined \/ (ending = "done" /\ Uncertain(result)))
      /\ doubt' = (doubt \/ (posted /\ ~answered))
      /\ UNCHANGED <<ending, stopRequest, relay, posted, worker, next, result, produced,
                     answered>>
  BY DEF Return, wire, thread
<1>2. /\ all \in Seq(Nat) /\ Len(all) = Len(delivered) + Queued /\ Queued \in Nat
      /\ \A i \in 1..Len(all) : all[i] = i
      /\ all # <<>> <=> delivered # <<>> \/ rest # <<>>
      /\ Queued = 0 => rest = <<>> /\ all = delivered
  BY Drained
<1> HIDE DEF rest, seen, all
<1>3. Stages /\ Flags /\ Data /\ Closing /\ Judged
  BY DEF IInv, Typed
<1>4. seen \in BOOLEAN /\ ~doubt /\ (seen <=> all # <<>>)
  BY <1>1, <1>2, <1>3 DEF Flags, Closing, seen
<1>5. \/ ending = "done" /\ ~stopRequest /\ worker = "gone" /\ Queued = 0
      \/ ending \in {"cancel", "total", "idle", "died"} /\ quarantined
  <2>1. ending = "done" => channel = <<>> /\ ~stopRequest /\ worker = "gone"
    BY <1>1, <1>3 DEF Closing
  <2>2. channel = <<>> => Queued = 0
    BY DEF Queued
  <2> QED BY <2>1, <2>2, <1>1, <1>3 DEF Closing, Stages
<1>6. ending = "done" => /\ posted /\ ~answered => Uncertain(result)
                         /\ result.partial => produced > 0
                         /\ produced = Len(all) /\ result \in Outcomes
  <2>1. ending = "done" => worker = "gone" /\ ~stopRequest /\ Queued = 0
    BY <1>5
  <2>2. ending = "done" => produced = Len(delivered) + Queued
    BY <2>1, <1>1 DEF IInv, Count
  <2> QED BY <2>1, <2>2, <1>1, <1>2, <1>3 DEF Judged, Data
<1>7. returned' \in Outcomes
  BY <1>1, <1>4, <1>5, <1>6, GivenUp, ReportedVerdict
<1>8. Stages' /\ Data'
  <2>1. channel' \in Seq(Nat)
    BY <1>1
  <2> QED BY <2>1, <1>1, <1>2, <1>3, <1>7 DEF Stages, Data
<1>9. Flags'
  <2>1. emitted' \in BOOLEAN /\ quarantined' \in BOOLEAN /\ doubt' \in BOOLEAN
    BY <1>1, <1>4, Zenon
  <2> QED BY <2>1, <1>1, <1>3 DEF Flags
<1>10. doubt' => quarantined'
  BY <1>1, <1>4, <1>5, <1>6
<1>11. Resting' /\ Closing' /\ Judged'
  BY <1>1, <1>3, <1>10 DEF Resting, Closing, Judged
<1>12. Line'
  BY <1>1, <1>2 DEF Line
<1>13. Count'
  BY <1>1 DEF Count
<1>14. Told'
  <2>1. CASE ending = "done"
    <3>1. /\ returned'.kind = result.kind
          /\ result.kind # "ok" => (returned'.partial <=> seen \/ result.partial)
          /\ result.kind # "ok" /\ returned'.safety = "safe" =>
               ~seen /\ ~result.partial /\ result.safety = "safe"
      BY <2>1, <1>1, <1>4, <1>6, ReportedVerdict
    <3>2. produced > 0 => all # <<>>
      BY <2>1, <1>2, <1>6, NoLength
    <3>3. SafeIsSafe'
      BY <2>1, <3>1, <1>1, <1>4, <1>6 DEF SafeIsSafe, Uncertain
    <3>4. PartialIsHonest'
      BY <2>1, <3>1, <3>2, <1>1, <1>4, <1>6 DEF PartialIsHonest
    <3> QED BY <2>1, <3>3, <3>4, <1>1, <1>6 DEF Told
  <2>2. CASE ending # "done"
    <3>1. /\ returned'.kind \notin {"none", "ok"} /\ returned'.safety # "safe"
          /\ returned'.partial = seen
      BY <2>2, <1>1, <1>4, <1>5, GivenUp
    <3> QED BY <3>1, <1>1, <1>4 DEF Told, SafeIsSafe, PartialIsHonest
  <2> QED BY <2>1, <2>2
<1> QED BY <1>8, <1>9, <1>11, <1>12, <1>13, <1>14 DEF IInv, Typed

-----------------------------------------------------------------------------
(* The relay and the worker.                                               *)

\* The worker has come to a result.
LEMMA Finishes ==
  ASSUME IInv, worker \in {"send", "wait", "stream"}, NEW outcome \in Outcomes,
         worker' = "finish", result' = outcome,
         answered' \in BOOLEAN, answered => answered',
         ~stopRequest => /\ posted /\ ~answered' => Uncertain(outcome)
                         /\ outcome.partial => produced > 0,
         UNCHANGED <<caller, active, quarantined, stopRequest, wire, next, produced, channel,
                     doubt>>
  PROVE  IInv'
<1> USE DEF IInv, caller, wire
<1>1. callAt # "idle"
  BY DEF Resting
<1>2. Stages' /\ Flags' /\ Data'
  BY DEF Typed, Stages, Flags, Data
<1>3. Resting' /\ Closing' /\ Judged'
  BY <1>1 DEF Resting, Closing, Judged
<1>4. Line' /\ Count'
  BY <1>1 DEF Line, Count, Queued
<1>5. Told'
  BY <1>1 DEF Told, SafeIsSafe, PartialIsHonest
<1> QED BY <1>2, <1>3, <1>4, <1>5 DEF Typed

LEMMA RelayRefusesStep == IInv /\ RelayRefuses => IInv'
<1> SUFFICES ASSUME IInv, RelayRefuses PROVE IInv'
  OBVIOUS
<1>1. /\ Fails("ProviderUnavailable", "safe", FALSE) \in Outcomes
      /\ Fails("ProviderUnavailable", "safe", FALSE).partial = FALSE
  BY Failing
<1>2. ~posted /\ answered \in BOOLEAN
  BY DEF IInv, Judged, RelayRefuses, Typed, Flags
<1> QED BY <1>1, <1>2, Finishes DEF RelayRefuses, caller, wire, flags, thread

LEMMA RelayForwardsStep ==
  ASSUME IInv, RelayForwards
  PROVE  IInv'
<1> USE DEF IInv, RelayForwards, caller, flags
<1>1. callAt # "idle"
  BY DEF Resting
<1>2. Stages' /\ Flags' /\ Data'
  BY DEF Typed, Stages, Flags, Data
<1>3. Resting' /\ Closing' /\ Judged'
  BY <1>1 DEF Resting, Closing, Judged
<1>4. Line' /\ Count'
  BY <1>1 DEF Line, Count, Queued
<1>5. Told'
  BY <1>1 DEF Told, SafeIsSafe, PartialIsHonest
<1> QED BY <1>2, <1>3, <1>4, <1>5 DEF Typed

LEMMA RelayStopsStep ==
  ASSUME IInv, RelayStops
  PROVE  IInv'
<1> USE DEF IInv, RelayStops, caller, flags, thread
<1>1. Stages' /\ Flags' /\ Data'
  BY DEF Typed, Stages, Flags, Data
<1>2. Resting' /\ Closing' /\ Judged'
  BY DEF Resting, Closing, Judged
<1>3. Line' /\ Count'
  BY DEF Line, Count, Queued
<1>4. Told'
  BY DEF Told, SafeIsSafe, PartialIsHonest
<1> QED BY <1>1, <1>2, <1>3, <1>4 DEF Typed

LEMMA FinishStep ==
  ASSUME IInv, worker \in {"send", "wait", "stream"}, NEW outcome \in Outcomes,
         Finish(outcome), UNCHANGED <<next, produced>>,
         ~stopRequest =>
           /\ outcome.kind \in {"ok", "Protocol"} \/ outcome \in Rejections
              \/ Uncertain(outcome) \/ ~posted
           /\ outcome.partial => produced > 0
  PROVE  IInv'
<1>1. answered \in BOOLEAN
  BY DEF IInv, Typed, Flags
<1>2. answered' \in BOOLEAN /\ (answered => answered')
      /\ (outcome.kind \in {"ok", "Protocol"} \/ outcome \in Rejections => answered')
  BY <1>1, Zenon DEF Finish
<1> QED BY <1>1, <1>2, Finishes DEF Finish, flags

LEMMA SendFailsStep == IInv /\ SendFails => IInv'
<1> SUFFICES ASSUME IInv, SendFails PROVE IInv'
  OBVIOUS
<1>1. PICK kind \in {"Cancelled", "Transport"} : Finish(Fails(kind, "safe", FALSE))
  BY DEF SendFails
<1>2. /\ Fails(kind, "safe", FALSE) \in Outcomes
      /\ Fails(kind, "safe", FALSE).partial = FALSE
  BY Failing
<1>3. ~posted
  BY DEF IInv, Judged, SendFails
<1> QED BY <1>1, <1>2, <1>3, FinishStep DEF SendFails

\* A failure that leaves its request unsettled is uncertain.
LEMMA LostIsUncertain ==
  ASSUME NEW kind \in {"Transport", "Timeout"}, NEW seen \in BOOLEAN
  PROVE  Uncertain(Fails(kind, "ambiguous", seen))
BY DEF Uncertain, Fails

LEMMA RespondStep == IInv /\ Respond => IInv'
<1> SUFFICES ASSUME IInv, Respond PROVE IInv'
  OBVIOUS
<1>1. worker = "wait" /\ UNCHANGED <<next, produced>>
  BY DEF Respond
<1>2. ASSUME NEW rejection \in Rejections, Finish(rejection) PROVE IInv'
  <2>0. PICK kind \in {"ProviderUnavailable", "Timeout", "Protocol"},
             safety \in {"safe", "ambiguous"} : rejection = Fails(kind, safety, FALSE)
    BY DEF Rejections
  <2>1. /\ Fails(kind, safety, FALSE) \in Outcomes
        /\ Fails(kind, safety, FALSE).partial = FALSE
    <3>1. kind \in {"Transport", "Timeout", "Cancelled", "Protocol", "ProviderUnavailable"}
      OBVIOUS
    <3> QED BY <3>1, Failing, Zenon
  <2>2. rejection \in Outcomes /\ rejection.partial = FALSE
    BY <2>0, <2>1, Zenon
  <2>3. Finish(rejection)
    BY <1>2
  <2> HIDE DEF IInv
  <2> QED BY <2>2, <2>3, <1>1, FinishStep
<1>3. ASSUME NEW kind \in {"Transport", "Timeout"}, Finish(Fails(kind, "ambiguous", FALSE))
      PROVE  IInv'
  <2>1. /\ Fails(kind, "ambiguous", FALSE) \in Outcomes
        /\ Fails(kind, "ambiguous", FALSE).partial = FALSE
    BY Failing
  <2> QED BY <2>1, <1>1, <1>3, LostIsUncertain, FinishStep
<1>4. ASSUME stopRequest, Finish(Fails("Cancelled", "safe", FALSE)) PROVE IInv'
  <2>1. Fails("Cancelled", "safe", FALSE) \in Outcomes
    BY Failing
  <2> QED BY <2>1, <1>1, <1>4, FinishStep
<1>5. ASSUME worker' = "stream",
             UNCHANGED <<caller, flags, userCancel, stopRequest, wire, result, answered, channel,
                         silent, doubt, requests>>
      PROVE  IInv'
  <2> USE <1>1, <1>5 DEF IInv, caller, flags, wire
  <2>1. callAt # "idle"
    BY DEF Resting
  <2>2. Stages' /\ Flags' /\ Data'
    BY DEF Typed, Stages, Flags, Data
  <2>3. Resting' /\ Closing' /\ Judged'
    BY <2>1 DEF Resting, Closing, Judged
  <2>4. Line' /\ Count'
    BY <2>1 DEF Line, Count, Queued
  <2>5. Told'
    BY <2>1 DEF Told, SafeIsSafe, PartialIsHonest
  <2> QED BY <2>2, <2>3, <2>4, <2>5 DEF Typed
<1> QED BY <1>2, <1>3, <1>4, <1>5 DEF Respond

\* The decoder emits an event.
LEMMA OfferStep ==
  ASSUME IInv, worker = "stream", ~stopRequest, NEW after \in {"stream", "finish"}, Offer(after),
         result' \in Outcomes, answered' \in BOOLEAN,
         after = "finish" => answered' /\ ~result'.partial
  PROVE  IInv'
<1> USE DEF IInv, Offer, caller, flags, wire
<1>1. callAt # "idle"
  BY DEF Resting
<1>2. Stages' /\ Flags' /\ Data'
  BY DEF Typed, Stages, Flags, Data
<1>3. produced \in Nat
  BY DEF Typed, Data
<1>4. Resting' /\ Closing' /\ Judged'
  BY <1>1, <1>3 DEF Resting, Closing, Judged
<1>5. Line' /\ Count'
  BY <1>1, <1>3 DEF Line, Count, Queued
<1>6. Told'
  BY <1>1 DEF Told, SafeIsSafe, PartialIsHonest
<1> QED BY <1>2, <1>4, <1>5, <1>6 DEF Typed

LEMMA StreamStep == IInv /\ Stream => IInv'
<1> SUFFICES ASSUME IInv, Stream PROVE IInv'
  OBVIOUS
<1>1. /\ worker = "stream" /\ produced \in Nat /\ result \in Outcomes /\ answered \in BOOLEAN
      /\ Ok \in Outcomes /\ Ok.kind = "ok" /\ Ok.partial = FALSE
  BY DEF Stream, IInv, Typed, Data, Flags, Ok, Outcomes
<1>2. CASE stopRequest
  <2>1. Finish(Fails("Cancelled", "safe", produced > 0)) /\ UNCHANGED <<next, produced>>
    BY <1>2 DEF Stream
  <2>2. Fails("Cancelled", "safe", produced > 0) \in Outcomes
    BY DEF Fails, Outcomes
  <2> QED BY <1>1, <1>2, <2>1, <2>2, FinishStep
<1>3. CASE ~stopRequest /\ Offer("stream") /\ UNCHANGED <<result, answered>>
  BY <1>1, <1>3, OfferStep
<1>4. CASE ~stopRequest /\ Offer("finish") /\ result' = Ok /\ answered' = TRUE
  BY <1>1, <1>4, OfferStep
<1>5. CASE /\ ~stopRequest /\ UNCHANGED <<next, produced>>
           /\ \/ Finish(Ok)
              \/ \E kind \in {"Transport", "Timeout", "Protocol"}, seen \in BOOLEAN :
                   Finish(Fails(kind, "ambiguous", seen)) /\ (seen => produced > 0)
  <2>1. CASE Finish(Ok)
    BY <1>1, <1>5, <2>1, FinishStep
  <2>2. ASSUME NEW kind \in {"Transport", "Timeout", "Protocol"}, NEW seen \in BOOLEAN,
               Finish(Fails(kind, "ambiguous", seen)), seen => produced > 0
        PROVE  IInv'
    <3>1. /\ Fails(kind, "ambiguous", seen) \in Outcomes
          /\ Fails(kind, "ambiguous", seen).kind = kind
          /\ Fails(kind, "ambiguous", seen).partial = seen
      BY Failing
    <3>2. kind = "Protocol" \/ Uncertain(Fails(kind, "ambiguous", seen))
      BY LostIsUncertain
    <3> QED BY <1>1, <1>5, <2>2, <3>1, <3>2, FinishStep
  <2> QED BY <1>5, <2>1, <2>2
<1> QED
  <2>1. CASE stopRequest
    BY <2>1, <1>2
  <2>2. CASE ~stopRequest
    <3>1. (produced > 0) \in BOOLEAN /\ FALSE \in BOOLEAN
      OBVIOUS
    <3> QED BY <2>2, <3>1, <1>3, <1>4, <1>5 DEF Stream
  <2> QED BY <2>1, <2>2

LEMMA OneShotStep == IInv /\ OneShot => IInv'
<1> SUFFICES ASSUME IInv, OneShot PROVE IInv'
  OBVIOUS
<1>1. PICK outcome \in {Ok, Fails("Protocol", "ambiguous", FALSE)} :
        Offer("finish") /\ result' = outcome /\ answered' = TRUE
  BY DEF OneShot
<1>2. Ok \in Outcomes /\ Ok.partial = FALSE
  BY DEF Ok, Outcomes
<1>3. outcome \in Outcomes /\ outcome.partial = FALSE
  BY <1>1, <1>2, Failing
<1> QED BY <1>1, <1>3, OfferStep DEF OneShot

LEMMA PanicStep ==
  ASSUME IInv, Panic
  PROVE  IInv'
<1> USE DEF IInv, Panic, caller, flags, wire
<1>1. callAt # "idle"
  BY DEF Resting
<1>2. Stages' /\ Flags' /\ Data'
  BY DEF Typed, Stages, Flags, Data
<1>3. Resting' /\ Closing' /\ Judged'
  BY <1>1 DEF Resting, Closing, Judged
<1>4. Line' /\ Count'
  BY <1>1 DEF Line, Count, Queued
<1>5. Told'
  BY <1>1 DEF Told, SafeIsSafe, PartialIsHonest
<1> QED BY <1>2, <1>3, <1>4, <1>5 DEF Typed

LEMMA FreeStep ==
  ASSUME IInv, Free
  PROVE  IInv'
<1> USE DEF IInv, Free, caller, wire
<1>1. callAt # "idle"
  BY DEF Resting
<1>2. Stages' /\ Flags' /\ Data'
  BY DEF Typed, Stages, Flags, Data
<1>3. Resting' /\ Closing' /\ Judged'
  BY <1>1 DEF Resting, Closing, Judged
<1>4. Line' /\ Count'
  BY <1>1 DEF Line, Count, Queued
<1>5. Told'
  BY <1>1 DEF Told, SafeIsSafe, PartialIsHonest
<1> QED BY <1>2, <1>3, <1>4, <1>5 DEF Typed

LEMMA PushStep ==
  ASSUME IInv, Push
  PROVE  IInv'
<1> DEFINE n == Len(delivered)
<1>1. /\ worker = "offer" /\ worker' = next /\ callAt # "idle" /\ next \in {"stream", "finish"}
      /\ channel \in Seq(Nat) /\ n \in Nat
      /\ UNCHANGED <<caller, flags, stopRequest, wire, next, result, produced, answered, doubt>>
  BY DEF IInv, Typed, Stages, Data, Resting, Push
<1>2. InLine(channel, n, FALSE) /\ \A i \in 1..n : delivered[i] = i
  BY <1>1 DEF IInv, Line, InLine, Done
<1>3. EventsIn(channel) = Len(channel)
  BY <1>1, <1>2, MessageAdded
<1>4. produced = n + Len(channel) + 1
  BY <1>1, <1>3, QueuedIsEventsIn DEF IInv, Count
<1>5. /\ channel' \in Seq(Nat) /\ InLine(channel', n, FALSE)
      /\ \/ EventsIn(channel') = Len(channel) + 1
         \/ stopRequest
  <2>1. CASE channel' = Append(channel, produced)
    <3>1. Len(channel) \in Nat
      BY <1>1
    <3>2. produced \in {0, n + Len(channel) + 1} /\ produced # 0
      BY <3>1, <1>1, <1>4
    <3> QED BY <3>2, <2>1, <1>1, <1>2, MessageAdded
  <2>2. CASE stopRequest /\ channel' = channel
    BY <2>2, <1>1, <1>2
  <2> QED BY <2>1, <2>2 DEF Push, MayDrop
<1>6. Stages' /\ Flags'
  BY <1>1 DEF IInv, Typed, Stages, Flags, caller, flags, wire
<1>7. Data'
  BY <1>1, <1>5 DEF IInv, Typed, Data, caller
<1>8. Resting' /\ Closing' /\ Judged'
  BY <1>1 DEF IInv, Resting, Closing, Judged, caller, flags, wire
<1>9. Line'
  BY <1>1, <1>2, <1>5 DEF Line, InLine, caller
<1>10. Count'
  <2>1. Len(channel) \in Nat
    BY <1>1
  <2> QED BY <2>1, <1>1, <1>4, <1>5, QueuedIsEventsIn DEF Count, caller
<1>11. Told'
  BY <1>1 DEF IInv, Told, SafeIsSafe, PartialIsHonest, caller, wire
<1> QED BY <1>6, <1>7, <1>8, <1>9, <1>10, <1>11 DEF IInv, Typed

LEMMA ReportStep ==
  ASSUME IInv, Report
  PROVE  IInv'
<1> DEFINE n == Len(delivered)
<1>1. /\ worker = "report" /\ worker' = "gone" /\ callAt # "idle"
      /\ channel \in Seq(Nat) /\ n \in Nat
      /\ UNCHANGED <<caller, flags, stopRequest, wire, next, result, produced, answered, doubt>>
  BY DEF IInv, Typed, Data, Resting, Report
<1>2. InLine(channel, n, FALSE) /\ \A i \in 1..n : delivered[i] = i
  BY <1>1 DEF IInv, Line, InLine, Done
<1>3. EventsIn(channel) = Len(channel)
  BY <1>1, <1>2, MessageAdded
<1>4. /\ channel' \in Seq(Nat) /\ InLine(channel', n, TRUE)
      /\ EventsIn(channel') = Len(channel)
  <2>1. CASE channel' = Append(channel, Done)
    BY <2>1, <1>1, <1>2, MessageAdded DEF Done
  <2>2. CASE channel' = channel
    BY <2>2, <1>1, <1>2, <1>3 DEF InLine
  <2> QED BY <2>1, <2>2 DEF Report
<1>5. Stages' /\ Flags'
  BY <1>1 DEF IInv, Typed, Stages, Flags, caller, flags, wire
<1>6. Data'
  BY <1>1, <1>4 DEF IInv, Typed, Data, caller
<1>7. Resting' /\ Closing' /\ Judged'
  BY <1>1 DEF IInv, Resting, Closing, Judged, caller, flags, wire
<1>8. Line'
  BY <1>1, <1>2, <1>4 DEF Line, InLine, caller, Done
<1>9. Count'
  BY <1>1, <1>3, <1>4, QueuedIsEventsIn DEF IInv, Count, caller
<1>10. Told'
  BY <1>1 DEF IInv, Told, SafeIsSafe, PartialIsHonest, caller, wire
<1> QED BY <1>5, <1>6, <1>7, <1>8, <1>9, <1>10 DEF IInv, Typed

-----------------------------------------------------------------------------
LEMMA InvStep == IInv /\ [Next]_providerVars => IInv'
<1> SUFFICES ASSUME IInv, [Next]_providerVars PROVE IInv'
  OBVIOUS
<1>1. CASE UNCHANGED providerVars
  BY <1>1, Elsewhere DEF providerVars, flags
<1>2. CASE UserCancels
  BY <1>2, Elsewhere DEF UserCancels, flags
<1>3. CASE ClockRunsOut
  BY <1>3, Elsewhere DEF ClockRunsOut, flags
<1>4. CASE Caller
  BY <1>4, CheckStep, ReceiveEventStep, ReceiveDoneStep, ReceiveNothingStep, ReturnStep
    DEF Caller
<1> QED
  BY <1>1, <1>2, <1>3, <1>4, NewTurnStep, StartStep, RefuseStep, RelayRefusesStep,
     RelayForwardsStep, RelayStopsStep, SendFailsStep, RespondStep, StreamStep, OneShotStep,
     PanicStep, PushStep, FreeStep, ReportStep
  DEF Next

\* No request goes out through an adapter while an earlier one of the turn may have
\* reached the provider and was never settled; a failure called safe to repeat is of a
\* request that was not forwarded or was settled, and of which the sink saw nothing; and
\* a call that has returned leaves no relay, worker or claim behind: stream_worker with
\* its quarantine, whatever the endpoint does and whenever the caller gives up.
THEOREM RequestsAreOverHolds == Spec => [](NoBlindRepost /\ SafeIsSafe /\ NothingBehind)
<1>1. IInv => NoBlindRepost /\ SafeIsSafe /\ NothingBehind
  BY InvSafe
<1> QED BY InvInit, InvStep, <1>1, PTL DEF Spec

\* The sink sees the response from its start, in order and without a gap, a success
\* delivers the whole of it, and a failure says of itself whether anything was seen:
\* the channel of stream_worker, ChannelSink::emit and drain_worker_events.
THEOREM ResponsesAreWholeHolds == Spec => [](InOrder /\ PartialIsHonest)
<1>1. IInv => InOrder /\ PartialIsHonest
  BY InvSafe
<1> QED BY InvInit, InvStep, <1>1, PTL DEF Spec

=============================================================================
