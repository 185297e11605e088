--------------------------- MODULE HttpRelayProofs ---------------------------
(***************************************************************************)
(* Theorems about HttpRelay, for any number of requests under way, any     *)
(* number of strangers and both crates.                                    *)
(*                                                                         *)
(* RefusalIsSafe is not inductive: nothing in it keeps a relay that has    *)
(* answered 502 from serving the request again.  What does is that a relay *)
(* serves one connection of its sender (came), and works for nobody else   *)
(* behind the headers.                                                     *)
(***************************************************************************)
EXTENDS HttpRelay, TLAPS

\* What may have been forwarded.
Forms == {<<>>} \cup {OriginForm(Crate, target) : target \in Targets}

Relay == [at : Stages, stop : BOOLEAN, client : {"none", "own", "stranger"}, overdue : BOOLEAN,
          came : BOOLEAN, strangers : Nat, bytes : {"none", "part", "whole"},
          forwarded : Forms, told : {"none", "closed", "502", "served"}, ways : 0..2]

\* The stages behind the nonce, up to the first byte that goes out.
Before == {"lookup", "connect", "tunnel", "forward"}

\* A request that is still to be forwarded is the sender's own, is known to have come,
\* has let no byte out, and its sender has been told nothing.
Untold(s) ==
  /\ s.at \in Before => s.client = "own"
  /\ s.client = "own" /\ s.at \in Before \cup {"headers"} =>
       s.came /\ s.bytes = "none" /\ s.told = "none"
  /\ ~s.came => s.bytes = "none" /\ s.told = "none"
  /\ s.told = "502" => s.bytes = "none"

RelayInv ==
  /\ relays \in [Relays -> Relay]
  /\ \A r \in Relays : Untold(relays[r])

\* What a step of one relay owes.
LEMMA OneRelay ==
  ASSUME RelayInv, NEW r \in Relays, NEW s \in Relay, Untold(s), Become(r, s)
  PROVE  RelayInv'
BY DEF RelayInv, Become

LEMMA MovesOn ==
  ASSUME RelayInv, NEW r \in Relays, NEW at \in Stages \ {"headers"},
         at \in Before => At(r, Before \cup {"headers"}) /\ relays[r].client = "own",
         Goes(r, at)
  PROVE  RelayInv'
<1>1. relays[r] \in Relay /\ Untold(relays[r])
  BY DEF RelayInv
<1> DEFINE s == [relays[r] EXCEPT !.at = at]
<1>2. s \in Relay
  BY <1>1 DEF Relay
<1>3. Untold(s)
  BY <1>1 DEF Relay, Untold, Before, At
<1> QED BY <1>2, <1>3, OneRelay DEF Goes

\* A connection is dropped or refused: of the sender's own nothing has gone out.
LEMMA Ends ==
  ASSUME RelayInv, NEW r \in Relays, At(r, {"headers"} \cup Before)
  PROVE  /\ Become(r, Dropped(relays[r])) => RelayInv'
         /\ Become(r, Refused(r)) /\ relays[r].client = "own" => RelayInv'
<1>1. relays[r] \in Relay /\ Untold(relays[r])
  BY DEF RelayInv
<1>2. Dropped(relays[r]) \in Relay /\ Untold(Dropped(relays[r]))
  BY <1>1 DEF Dropped, Relay, Stages, Untold, Before, At
<1>3. ASSUME relays[r].client = "own" PROVE Refused(r) \in Relay /\ Untold(Refused(r))
  BY <1>1, <1>3 DEF Refused, Dropped, Relay, Stages, Untold, Before, At
<1> QED BY <1>2, <1>3, OneRelay

\* What a relay is once the whole request has gone out.
LEMMA ServedTyped ==
  ASSUME NEW o \in Relay, NEW f \in Forms
  PROVE  LET s == [o EXCEPT !.at = "copy", !.bytes = "whole", !.told = "served",
                            !.forwarded = f, !.ways = 2] IN
         s \in Relay /\ s.at = "copy" /\ s.client = o.client /\ s.came = o.came
           /\ s.told = "served"
<1> DEFINE s1 == [o EXCEPT !.at = "copy", !.bytes = "whole", !.told = "served"]
           s2 == [s1 EXCEPT !.forwarded = f]
           s3 == [s2 EXCEPT !.ways = 2]
<1>1. /\ s1 \in Relay /\ s1.at = "copy" /\ s1.client = o.client /\ s1.came = o.came
      /\ s1.told = "served"
  BY DEF Relay, Stages
<1> HIDE DEF s1
<1>2. /\ s2 \in Relay /\ s2.at = s1.at /\ s2.client = s1.client /\ s2.came = s1.came
      /\ s2.told = s1.told
  BY <1>1 DEF Relay
<1> HIDE DEF s2
<1>3. /\ s3 \in Relay /\ s3.at = s2.at /\ s3.client = s2.client /\ s3.came = s2.came
      /\ s3.told = s2.told
  BY <1>2 DEF Relay
<1> HIDE DEF s3
<1>4. s3 = [o EXCEPT !.at = "copy", !.bytes = "whole", !.told = "served",
                     !.forwarded = f, !.ways = 2]
  BY DEF s1, s2, s3
<1> QED BY <1>1, <1>2, <1>3, <1>4, Zenon

LEMMA RelayInit == Init => RelayInv
<1>1. New \in Relay /\ Untold(New)
  BY DEF New, Relay, Forms, Stages, Untold, Before
<1> QED BY <1>1 DEF Init, RelayInv

LEMMA RelayStep == RelayInv /\ [Next]_vars => RelayInv'
<1> SUFFICES ASSUME RelayInv, [Next]_vars PROVE RelayInv'
  OBVIOUS
<1>1. ASSUME NEW r \in Relays
      PROVE  /\ relays[r] \in Relay /\ Untold(relays[r])
             /\ At(r, Before) => relays[r].client = "own"
  BY DEF RelayInv, Untold, At
<1>2. ASSUME NEW r \in Relays, Accept(r) PROVE RelayInv'
  <2>1. CASE /\ ~relays[r].came
             /\ Become(r, [relays[r] EXCEPT !.at = "headers", !.client = "own", !.came = TRUE])
    <3> DEFINE s == [relays[r] EXCEPT !.at = "headers", !.client = "own", !.came = TRUE]
    <3>1. s \in Relay
      BY <1>1 DEF Relay, Stages
    <3>2. Untold(s)
      BY <1>1, <2>1 DEF Relay, Untold, Before
    <3> QED BY <2>1, <3>1, <3>2, OneRelay
  <2>2. CASE Become(r, [relays[r] EXCEPT !.at = "headers", !.client = "stranger",
                                         !.strangers = @ + 1])
    <3> DEFINE s == [relays[r] EXCEPT !.at = "headers", !.client = "stranger",
                                      !.strangers = @ + 1]
    <3>0. relays[r].strangers + 1 \in Nat
      BY <1>1 DEF Relay
    <3>1. s \in Relay
      BY <1>1, <3>0, Zenon DEF Relay, Stages
    <3>2. Untold(s)
      BY <1>1 DEF Relay, Untold, Before
    <3> QED BY <2>2, <3>1, <3>2, OneRelay
  <2> QED BY <1>2, <2>1, <2>2 DEF Accept
<1>3. ASSUME NEW r \in Relays, Unwelcome(r) PROVE RelayInv'
  BY <1>3, Ends DEF Unwelcome, At
<1>4. ASSUME NEW r \in Relays, LookUp(r) PROVE RelayInv'
  <2>1. At(r, {"headers"}) /\ relays[r].client = "own"
    BY <1>4 DEF LookUp
  <2>2. CASE Goes(r, "connect") \/ Goes(r, "lookup")
    BY <2>1, <2>2, MovesOn DEF Stages, Before, At
  <2>3. CASE Become(r, Refused(r))
    BY <2>1, <2>3, Ends DEF At
  <2> QED BY <1>4, <2>2, <2>3 DEF LookUp, Goes
<1>5. ASSUME NEW r \in Relays, DeadlinePasses(r) PROVE RelayInv'
  <2> DEFINE s == [relays[r] EXCEPT !.overdue = TRUE]
  <2>1. s \in Relay /\ Untold(s)
    BY <1>1 DEF Relay, Untold, Before
  <2> QED BY <1>5, <2>1, OneRelay DEF DeadlinePasses
<1>6. ASSUME NEW r \in Relays, Abandon(r) PROVE RelayInv'
  BY <1>1, <1>6, Ends DEF Abandon, GivesUp, At, Before
<1>7. ASSUME NEW r \in Relays, Connect(r) PROVE RelayInv'
  <2>1. At(r, Before) /\ relays[r].client = "own"
    BY <1>1, <1>7 DEF Connect, At, Before
  <2>2. CASE Goes(r, "tunnel") \/ Goes(r, "forward")
    BY <2>1, <2>2, MovesOn DEF Stages, Before, At
  <2>3. CASE Become(r, Refused(r))
    BY <2>1, <2>3, Ends DEF At
  <2> QED BY <1>7, <2>2, <2>3 DEF Connect
<1>8. ASSUME NEW r \in Relays, Tunnel(r) PROVE RelayInv'
  <2>1. At(r, Before) /\ relays[r].client = "own"
    BY <1>1, <1>8 DEF Tunnel, At, Before
  <2>2. CASE Goes(r, "forward")
    BY <2>1, <2>2, MovesOn DEF Stages, Before, At
  <2>3. CASE Become(r, Refused(r))
    BY <2>1, <2>3, Ends DEF At
  <2> QED BY <1>8, <2>2, <2>3 DEF Tunnel
<1>9. ASSUME NEW r \in Relays, TunnelStopped(r) PROVE RelayInv'
  BY <1>1, <1>9, Ends DEF TunnelStopped, At, Before
<1>10. ASSUME NEW r \in Relays, Forward(r) PROVE RelayInv'
  <2>1. At(r, {"forward"}) /\ relays[r].client = "own"
    BY <1>1, <1>10 DEF Forward, At, Before
  <2>2. PICK target \in Targets :
          \/ Become(r, [relays[r] EXCEPT !.at = "copy", !.bytes = "whole", !.told = "served",
                                         !.forwarded = OriginForm(Crate, target), !.ways = 2])
          \/ Become(r, [Dropped(relays[r]) EXCEPT !.bytes = "part"])
    BY <1>10 DEF Forward
  <2>3. OriginForm(Crate, target) \in Forms
    BY DEF Forms
  <2> DEFINE s == [relays[r] EXCEPT !.at = "copy", !.bytes = "whole", !.told = "served",
                                    !.forwarded = OriginForm(Crate, target), !.ways = 2]
             d == [Dropped(relays[r]) EXCEPT !.bytes = "part"]
  <2>4. s \in Relay /\ Untold(s)
    <3> DEFINE f == OriginForm(Crate, target)
    <3>1. f \in Forms
      BY <2>3
    <3> HIDE DEF f
    <3>2. [relays[r] EXCEPT !.at = "copy", !.bytes = "whole", !.told = "served",
                            !.forwarded = f, !.ways = 2] \in Relay
      BY <1>1, <3>1, ServedTyped
    <3>3. Untold([relays[r] EXCEPT !.at = "copy", !.bytes = "whole", !.told = "served",
                                   !.forwarded = f, !.ways = 2])
      <4> DEFINE o == [relays[r] EXCEPT !.at = "copy", !.bytes = "whole", !.told = "served",
                                        !.forwarded = f, !.ways = 2]
      <4>1. o.at = "copy" /\ o.came = relays[r].came /\ o.told = "served"
        BY <1>1, <3>1, ServedTyped
      <4>2. relays[r].came
        BY <1>1, <2>1 DEF Untold, Before, At
      <4> HIDE DEF o
      <4>3. Untold(o)
        BY <4>1, <4>2 DEF Untold, Before
      <4> QED BY <4>3 DEF o
    <3> QED BY <3>2, <3>3 DEF f
  <2>5. d \in Relay /\ Untold(d)
    BY <1>1, <2>1 DEF Dropped, Relay, Stages, Untold, Before, At
  <2> QED BY <2>2, <2>4, <2>5, OneRelay
<1>11. ASSUME NEW r \in Relays, EndDirection(r) \/ CopyStopped(r) PROVE RelayInv'
  <2>1. PICK n \in 0..2 : Become(r, [relays[r] EXCEPT !.ways = n])
    BY <1>1, <1>11 DEF EndDirection, CopyStopped, Relay
  <2> DEFINE s == [relays[r] EXCEPT !.ways = n]
  <2>2. s \in Relay /\ Untold(s)
    BY <1>1 DEF Relay, Untold, Before
  <2> QED BY <2>1, <2>2, OneRelay
<1>12. ASSUME NEW r \in Relays, Leave(r) PROVE RelayInv'
  BY <1>12, MovesOn DEF Leave, Stages, Before
<1>13. ASSUME NEW r \in Relays, Stop(r) PROVE RelayInv'
  <2> DEFINE s == [relays[r] EXCEPT !.stop = TRUE]
  <2>1. s \in Relay /\ Untold(s)
    BY <1>1 DEF Relay, Untold, Before
  <2> QED BY <1>13, <2>1, OneRelay DEF Stop
<1>14. CASE Looked
  <2>1. CASE UNCHANGED relays
    BY <2>1 DEF RelayInv
  <2>2. CASE \E r \in Relays : At(r, {"lookup"}) /\ (Goes(r, "connect") \/ Become(r, Refused(r)))
    <3>1. PICK r \in Relays : At(r, {"lookup"}) /\ (Goes(r, "connect") \/ Become(r, Refused(r)))
      BY <2>2
    <3>2. At(r, Before) /\ relays[r].client = "own"
      BY <1>1, <3>1 DEF At, Before
    <3>3. CASE Goes(r, "connect")
      BY <3>2, <3>3, MovesOn DEF Stages, Before, At
    <3>4. CASE Become(r, Refused(r))
      BY <3>2, <3>4, Ends DEF At
    <3> QED BY <3>1, <3>3, <3>4
  <2> QED BY <1>14, <2>1, <2>2 DEF Looked
<1>15. CASE TakeLookup \/ OtherLookup \/ UNCHANGED vars
  BY <1>15 DEF TakeLookup, OtherLookup, vars, RelayInv
<1> QED BY <1>2, <1>3, <1>4, <1>5, <1>6, <1>7, <1>8, <1>9, <1>10, <1>11, <1>12, <1>13, <1>14,
           <1>15 DEF Next

(* Whatever a relay meets - strangers, a lookup that never ends, a proxy     *)
(* that refuses, a stop at any point - a sender that is told 502 has let no  *)
(* byte of its request out, and never will (serve, in both relay.rs).        *)
THEOREM RefusalIsSafeHolds == Spec => []RefusalIsSafe
<1>1. RelayInv => RefusalIsSafe
  BY DEF RelayInv, Untold, RefusalIsSafe
<1> QED BY <1>1, RelayInit, RelayStep, PTL DEF Spec
=============================================================================
