--------------------------- MODULE ToolCallsProofs --------------------------
(***************************************************************************)
(* Theorems about ToolCalls, for every set of ids and tools, every number  *)
(* of responses, calls and crashes, and whatever somebody else does to the *)
(* file: every call is answered once before the next request, no call runs *)
(* twice, and what any result says is true.                                *)
(*                                                                         *)
(* The trace only grows, by one event at a time, so the inductive          *)
(* invariant says what an event may point at (Shape), which events exclude *)
(* each other (Unique), in which order the lives of an id follow each      *)
(* other (InOrder), what is open at all (OneBatch), what each place of the *)
(* code knows about that (PhaseInv), and what the file tells of a call     *)
(* that is open (EffectInv).                                               *)
(***************************************************************************)
EXTENDS ToolCalls, FiniteSetTheorems, SequenceTheorems, WellFoundedInduction, TLAPS

(* ------------------------ the inductive invariant ------------------------ *)

EventRecord ==
  [kind : {"asked", "answer", "ended", "requested", "started"} \cup Terminal,
   parent : Nat, calls : Seq(Call), shown : BOOLEAN]

BatchRecord == [of : Nat, calls : Seq(Call), next : Nat, run : BOOLEAN, shown : BOOLEAN]

Typed == TypeOK /\ batch \in BatchRecord /\ effect \in [DOMAIN effect -> {"none", "moot", "changed"}]

Distinct(calls) == \A i, j \in DOMAIN calls : calls[i].id = calls[j].id => i = j

\* What an event is and points at: always something earlier.
ShapeOf(e) ==
  /\ trace[e].parent < e
  /\ trace[e].kind \in {"answer", "ended"} =>
       Distinct(trace[e].calls) /\ Len(trace[e].calls) <= MaxCalls
  /\ trace[e].kind \in {"requested", "started"} \cup Terminal => Len(trace[e].calls) = 1
  /\ trace[e].kind = "requested" =>
       /\ trace[e].parent \in Events({"answer", "ended"})
       /\ \E j \in DOMAIN trace[trace[e].parent].calls :
            CallOf(e) = trace[trace[e].parent].calls[j]
  /\ trace[e].kind = "started" =>
       trace[e].parent \in Events({"requested"}) /\ CallOf(e) = CallOf(trace[e].parent)
  /\ trace[e].kind \in Terminal =>
       /\ trace[e].parent \in Events({"requested", "started"})
       /\ CallOf(e) = CallOf(trace[e].parent)

Shape == \A e \in DOMAIN trace : ShapeOf(e)

\* How an end belongs to its request: an early one says "failed", a later one
\* points at the start, and it is shown where the message of the call is.
EndFits(e) ==
  /\ trace[trace[e].parent].kind = "requested" => trace[e].kind = "failed"
  /\ trace[trace[e].parent].kind = "started" => trace[e].shown
  /\ trace[trace[RequestOf(e)].parent].kind = "answer" => trace[e].shown

Unique ==
  /\ \A r, q \in Events({"requested"}) :
       trace[r].parent = trace[q].parent /\ CallOf(r).id = CallOf(q).id => r = q
  /\ \A s, t \in Events({"started"}) : trace[s].parent = trace[t].parent => s = t
  /\ \A e, f \in Events(Terminal) : RequestOf(e) = RequestOf(f) => e = f
  /\ \A e \in Events(Terminal), s \in Events({"started"}) :
       trace[s].parent = RequestOf(e) => trace[e].parent = s
  /\ \A e \in Events(Terminal) : EndFits(e)

\* A call id is used again only after its last use has ended.
InOrder ==
  \A r, q \in Events({"requested"}) :
    r < q /\ CallOf(r).id = CallOf(q).id => \E e \in EndsOf(r) : e < q

\* What is open belongs to one response, and at most one call has started.
OneBatch ==
  /\ \A u, v \in Unrequested : u[1] = v[1]
  /\ \A r \in Pending : \A u \in Unrequested : trace[r].parent = u[1]
  /\ \A r, q \in Pending : trace[r].parent = trace[q].parent
  /\ \A r, q \in Interrupted : r = q

TraceInv == Shape /\ Unique /\ InOrder /\ OneBatch

\* The batch at hand.
Handling ==
  /\ batch.of \in Events({"answer", "ended"}) /\ batch.calls = trace[batch.of].calls
  /\ trace[batch.of].kind = "answer" => batch.shown
  /\ \A u \in Unrequested : u[1] = batch.of /\ u[2] >= batch.next
  /\ \A r \in Events({"requested"}) :
       trace[r].parent = batch.of =>
         \/ r = current.request /\ at # "batch"
         \/ \E i \in DOMAIN batch.calls : i < batch.next /\ CallOf(r) = batch.calls[i]

\* The call at hand.
Calling ==
  /\ Pending = {current.request} /\ batch.next \in DOMAIN batch.calls
  /\ trace[current.request].parent = batch.of
  /\ CallOf(current.request) = batch.calls[batch.next]
  /\ <<batch.of, batch.next>> \notin Unrequested
  /\ at \in {"requested", "closing"} => StartsOf(current.request) = {}
  /\ at = "running" => current.started \in StartsOf(current.request)

ReusedId ==
  \E s \in Events({"started"}), e \in Events({"failed"}) :
    s < e /\ CallOf(s).id = CallOf(e).id /\ RequestOf(e) # trace[s].parent

PhaseInv ==
  /\ at \in {"idle", "streaming"} => Pending = {} /\ Unrequested = {}
  /\ at \in {"batch", "requested", "closing", "running"} => Handling
  /\ at = "batch" => Pending = {}
  /\ at \in {"requested", "closing", "running"} => Calling
  /\ at \in {"unrequested", "refusal", "unstarted", "restore"} => OpenRequests = {}
  /\ at = "refusal" => current.request \in Unstarted
  /\ at \in {"unstarted", "restore", "reconcile"} => Unrequested = {}
  /\ at \in {"restore", "reconcile"} => Unstarted = {}
  /\ at = "refused" => ReusedId

\* What the file tells of a call that has started.
FileAgrees(r) ==
  /\ CallOf(r).tool = "write" => (effect[r] = "none" <=> file # {"replace"})
  /\ CallOf(r).tool = "edit" =>
       /\ effect[r] = "changed" => "replace" \in file /\ "find" \notin file
       /\ effect[r] = "none" => ~("replace" \in file /\ "find" \notin file)

Truth ==
  /\ DOMAIN effect = {r \in Events({"requested"}) : StartsOf(r) # {}}
  /\ \A r \in DOMAIN effect : effect[r] = "changed" => CallOf(r).tool \notin ReadOnly
  /\ ToldTheTruth
  /\ meddling = 0 => \A r \in Interrupted : FileAgrees(r)

EffectInv ==
  /\ Truth
  /\ meddling = 0 /\ at = "running" /\ effect[current.request] # "changed" => seen = file

IInv == Typed /\ TraceInv /\ PhaseInv /\ EffectInv

(* ----------------------- what an append leaves alone --------------------- *)

New == Len(trace) + 1

Grown(ev) ==
  /\ New \in Nat /\ New \notin DOMAIN trace /\ DOMAIN trace' = DOMAIN trace \cup {New}
  /\ \A e \in DOMAIN trace : e \in Nat /\ 0 < e /\ e < New /\ trace'[e] = trace[e]
  /\ trace'[New] = ev

\* An append adds one event behind all others.
LEMMA AppendGrows ==
  ASSUME trace \in Seq(EventRecord), NEW ev \in EventRecord, trace' = Append(trace, ev)
  PROVE  Grown(ev) /\ trace' \in Seq(EventRecord) /\ Len(trace') = New
BY AppendProperties, LenProperties DEF Grown, New

\* An old event keeps its request.
LEMMA OldEnds ==
  ASSUME Shape, NEW ev, Grown(ev)
  PROVE  \A e \in Events(Terminal) :
           /\ RequestOf(e) \in Events({"requested"}) /\ RequestOf(e)' = RequestOf(e)
           /\ trace[e].parent \in DOMAIN trace /\ trace'[trace[e].parent] = trace[trace[e].parent]
           /\ EndFits(e) => EndFits(e)'
<1> SUFFICES ASSUME NEW e \in Events(Terminal)
             PROVE  /\ RequestOf(e) \in Events({"requested"}) /\ RequestOf(e)' = RequestOf(e)
                    /\ trace[e].parent \in DOMAIN trace
                    /\ trace'[trace[e].parent] = trace[trace[e].parent]
                    /\ EndFits(e) => EndFits(e)'
    OBVIOUS
<1>1. e \in DOMAIN trace /\ ShapeOf(e) /\ trace[e].kind \in Terminal
      BY DEF Shape, Events
<1>2. trace[e].parent \in Events({"requested", "started"})
      BY <1>1 DEF ShapeOf
<1>3. RequestOf(e) \in Events({"requested"}) 
      BY <1>2 DEF Shape, ShapeOf, Events, RequestOf
<1>4. trace'[e] = trace[e] /\ trace[e].parent \in DOMAIN trace
        /\ trace'[trace[e].parent] = trace[trace[e].parent]
      BY <1>1, <1>2 DEF Grown, Events
<1>5. RequestOf(e)' = RequestOf(e)
      BY <1>4 DEF RequestOf
<1>6. RequestOf(e) \in DOMAIN trace /\ trace'[RequestOf(e)] = trace[RequestOf(e)]
        /\ trace[RequestOf(e)].kind = "requested" /\ ShapeOf(RequestOf(e))
      BY <1>3 DEF Events, Grown, Shape
<1>7. trace[RequestOf(e)].parent \in DOMAIN trace
      BY <1>6 DEF ShapeOf, Events
<1>8. trace'[trace[RequestOf(e)].parent] = trace[trace[RequestOf(e)].parent]
      BY <1>7 DEF Grown
<1>9. EndFits(e) => EndFits(e)'
      BY <1>4, <1>5, <1>6, <1>8 DEF EndFits
<1> QED BY <1>3, <1>4, <1>5, <1>9

\* What a new event must look like to keep Shape.
EndedBy(ev) == IF trace[ev.parent].kind = "started" THEN trace[ev.parent].parent ELSE ev.parent

Fits(ev) ==
  /\ ev.parent \in Nat /\ ev.parent < New
  /\ ev.kind \in {"answer", "ended"} => Distinct(ev.calls) /\ Len(ev.calls) <= MaxCalls
  /\ ev.kind \in {"requested", "started"} \cup Terminal => Len(ev.calls) = 1
  /\ ev.kind = "requested" =>
       /\ ev.parent \in Events({"answer", "ended"})
       /\ \E j \in DOMAIN trace[ev.parent].calls : ev.calls[1] = trace[ev.parent].calls[j]
  /\ ev.kind = "started" =>
       ev.parent \in Events({"requested"}) /\ ev.calls[1] = CallOf(ev.parent)
  /\ ev.kind \in Terminal =>
       ev.parent \in Events({"requested", "started"}) /\ ev.calls[1] = CallOf(ev.parent)

LEMMA EventsGrow ==
  ASSUME NEW ev, Grown(ev), NEW K
  PROVE  /\ Events(K)' = IF ev.kind \in K THEN Events(K) \cup {New} ELSE Events(K)
         /\ New \notin Events(K)
         /\ \A e \in Events(K) : e \in DOMAIN trace /\ CallOf(e)' = CallOf(e)
BY DEF Events, Grown, CallOf

LEMMA ShapeGrows ==
  ASSUME Shape, NEW ev, Grown(ev), Fits(ev)
  PROVE  Shape'
<1> SUFFICES ASSUME NEW e \in DOMAIN trace' PROVE ShapeOf(e)'
    BY DEF Shape
<1>0. DOMAIN trace' = DOMAIN trace \cup {New} /\ New \in Nat BY DEF Grown
<1>1. CASE e \in DOMAIN trace
  <2>1. ShapeOf(e) /\ trace'[e] = trace[e] BY <1>1 DEF Shape, Grown
  <2>2. trace[e].parent \in DOMAIN trace => trace'[trace[e].parent] = trace[trace[e].parent]
        BY DEF Grown
  <2>3. \A K : trace[e].parent \in Events(K) =>
                 trace[e].parent \in Events(K)' /\ trace[e].parent \in DOMAIN trace
        BY DEF Events, Grown
  <2> QED BY <2>1, <2>2, <2>3 DEF ShapeOf, CallOf
<1>2. CASE e = New
  <2>1. trace'[e] = ev BY <1>2 DEF Grown
  <2>2. ev.parent \in DOMAIN trace => trace'[ev.parent] = trace[ev.parent]
        BY DEF Grown
  <2>3. \A K : ev.parent \in Events(K) => ev.parent \in Events(K)' /\ ev.parent \in DOMAIN trace
        BY DEF Events, Grown
  <2> QED BY <1>2, <2>1, <2>2, <2>3 DEF ShapeOf, Fits, CallOf
<1> QED BY <1>0, <1>1, <1>2

LEMMA StartsGrow ==
  ASSUME NEW ev, Grown(ev), NEW r
  PROVE  StartsOf(r)' = IF ev.kind = "started" /\ ev.parent = r
                          THEN StartsOf(r) \cup {New} ELSE StartsOf(r)
BY DEF StartsOf, Events, Grown

LEMMA EndsGrow ==
  ASSUME Shape, NEW ev, Grown(ev), Fits(ev), NEW r
  PROVE  EndsOf(r)' = IF ev.kind \in Terminal /\ EndedBy(ev) = r
                        THEN EndsOf(r) \cup {New} ELSE EndsOf(r)
<1>1. \A e \in Events(Terminal) : RequestOf(e)' = RequestOf(e)
      BY OldEnds
<1>2. Events(Terminal)' = IF ev.kind \in Terminal THEN Events(Terminal) \cup {New}
                                                  ELSE Events(Terminal)
      BY EventsGrow
<1>3. \A e : e = New /\ ev.kind \in Terminal => RequestOf(e)' = EndedBy(ev)
      BY DEF RequestOf, EndedBy, Grown, Fits, Events
<1> QED BY <1>1, <1>2, <1>3 DEF EndsOf

LEMMA UnrequestedGrows ==
  ASSUME Shape, NEW ev, Grown(ev), Fits(ev)
  PROVE  /\ ev.kind \notin {"answer", "requested"} => Unrequested' = Unrequested
         /\ ev.kind = "requested" =>
              Unrequested' = {u \in Unrequested :
                                ~(ev.parent = u[1] /\ ev.calls[1].id = trace[u[1]].calls[u[2]].id)}
         /\ ev.kind = "answer" =>
              \A u \in Unrequested' : u \in Unrequested \/ (u[1] = New /\ u[2] \in 1..MaxCalls)
<1> DEFINE NewCall(r) == trace'[r].calls[1]
<1>1. /\ Events({"answer"})' = IF ev.kind = "answer" THEN Events({"answer"}) \cup {New}
                                                     ELSE Events({"answer"})
      /\ Events({"requested"})' = IF ev.kind = "requested" THEN Events({"requested"}) \cup {New}
                                                           ELSE Events({"requested"})
      BY EventsGrow
<1>2. /\ \A e \in Events({"answer"}) \cup Events({"requested"}) : trace'[e] = trace[e]
      /\ trace'[New] = ev
      BY DEF Grown, Events
<1>3. \A r \in Events({"requested"}) : CallOf(r)' = CallOf(r)
      BY EventsGrow
<1>4. Unrequested' =
        {u \in Events({"answer"})' \X (1..MaxCalls) :
           /\ u[2] \in DOMAIN trace'[u[1]].calls
           /\ \A r \in Events({"requested"})' :
                ~(trace'[r].parent = u[1] /\ trace'[r].calls[1].id = trace'[u[1]].calls[u[2]].id)}
      BY DEF Unrequested, CallOf
<1>5. Unrequested =
        {u \in Events({"answer"}) \X (1..MaxCalls) :
           /\ u[2] \in DOMAIN trace[u[1]].calls
           /\ \A r \in Events({"requested"}) :
                ~(trace[r].parent = u[1] /\ trace[r].calls[1].id = trace[u[1]].calls[u[2]].id)}
      BY DEF Unrequested, CallOf
<1>6. CASE ev.kind \notin {"answer", "requested"}
  <2>1. Events({"answer"})' = Events({"answer"}) /\ Events({"requested"})' = Events({"requested"})
        BY <1>1, <1>6
  <2> QED BY <2>1, <1>2, <1>4, <1>5, <1>6
<1>7. CASE ev.kind = "requested"
  <2>1. Events({"answer"})' = Events({"answer"})
          /\ Events({"requested"})' = Events({"requested"}) \cup {New}
        BY <1>1, <1>7
  <2> QED BY <2>1, <1>2, <1>4, <1>5, <1>7
<1>8. CASE ev.kind = "answer"
  <2>1. Events({"answer"})' = Events({"answer"}) \cup {New}
          /\ Events({"requested"})' = Events({"requested"})
        BY <1>1, <1>8
  <2> QED BY <2>1, <1>2, <1>4, <1>5, <1>8
<1> QED BY <1>6, <1>7, <1>8

\* What holds of the requests, starts and ends recorded so far is a matter of
\* those events alone.
LEMMA QuietEvent ==
  ASSUME TraceInv, NEW ev, Grown(ev), Fits(ev), ev.kind \in {"asked", "ended", "answer"},
         ev.kind = "answer" => Pending = {} /\ Unrequested = {}
  PROVE  /\ TraceInv' /\ Pending' = Pending
         /\ ev.kind # "answer" => Unrequested' = Unrequested
         /\ ev.kind = "answer" => \A u \in Unrequested' : u[1] = New /\ u[2] \in 1..MaxCalls
         /\ \A r : StartsOf(r)' = StartsOf(r) /\ EndsOf(r)' = EndsOf(r)
         /\ \A K \in SUBSET ({"requested", "started"} \cup Terminal) : Events(K)' = Events(K)
<1> USE DEF TraceInv
<1>1. \A K \in SUBSET ({"requested", "started"} \cup Terminal) : Events(K)' = Events(K)
      BY EventsGrow DEF Terminal
<1>2. /\ Events({"requested"})' = Events({"requested"}) /\ Events({"started"})' = Events({"started"})
      /\ Events(Terminal)' = Events(Terminal)
      BY <1>1 DEF Terminal
<1>3. \A e : e \in Events({"requested"}) \cup Events({"started"}) \cup Events(Terminal) =>
             trace'[e] = trace[e] /\ CallOf(e)' = CallOf(e)
      BY DEF Grown, Events, CallOf
<1>4. \A r : StartsOf(r)' = StartsOf(r)
      BY StartsGrow
<1>5. \A r : EndsOf(r)' = EndsOf(r)
      BY EndsGrow DEF Terminal
<1>6. Pending' = Pending /\ Interrupted' = Interrupted
      BY <1>2, <1>4, <1>5 DEF Pending, Interrupted
<1>7. Shape'
      BY ShapeGrows
<1>8. \A e \in Events(Terminal) : RequestOf(e)' = RequestOf(e) /\ EndFits(e)'
      BY OldEnds DEF Unique
<1>9. Unique'
      BY <1>2, <1>3, <1>8 DEF Unique
<1>10. InOrder'
      BY <1>2, <1>3, <1>5 DEF InOrder
<1>11. /\ ev.kind # "answer" => Unrequested' = Unrequested
       /\ ev.kind = "answer" => \A u \in Unrequested' : u[1] = New /\ u[2] \in 1..MaxCalls
      BY UnrequestedGrows
<1>12. \A r \in Pending : trace'[r] = trace[r]
      BY <1>3 DEF Pending
<1>13. OneBatch'
      BY <1>6, <1>11, <1>12 DEF OneBatch
<1> QED BY <1>1, <1>4, <1>5, <1>6, <1>7, <1>9, <1>10, <1>11, <1>13

\* A request: of a call of the one response that has calls to request.
LEMMA RequestedEvent ==
  ASSUME TraceInv, NEW ev, Grown(ev), Fits(ev), ev.kind = "requested",
         \A r \in Events({"requested"}) :
           ~(trace[r].parent = ev.parent /\ CallOf(r).id = ev.calls[1].id),
         \A r \in Pending : trace[r].parent = ev.parent,
         \A u \in Unrequested : u[1] = ev.parent
  PROVE  /\ TraceInv' /\ Pending' = Pending \cup {New}
         /\ Unrequested' = {u \in Unrequested : ev.calls[1].id # trace[u[1]].calls[u[2]].id}
         /\ \A r \in DOMAIN trace : StartsOf(r)' = StartsOf(r) /\ EndsOf(r)' = EndsOf(r)
         /\ \A r : r = New => StartsOf(r)' = {} /\ EndsOf(r)' = {}
         /\ Events({"requested"})' = Events({"requested"}) \cup {New}
         /\ Events({"started"})' = Events({"started"}) /\ Events(Terminal)' = Events(Terminal)
<1> USE DEF TraceInv
<1>1. /\ Events({"requested"})' = Events({"requested"}) \cup {New}
      /\ Events({"started"})' = Events({"started"}) /\ Events(Terminal)' = Events(Terminal)
      BY EventsGrow DEF Terminal
<1>2. \A e : e \in Events({"requested"}) \cup Events({"started"}) \cup Events(Terminal) =>
             trace'[e] = trace[e] /\ CallOf(e)' = CallOf(e) /\ e \in DOMAIN trace
      BY DEF Grown, Events, CallOf
<1>3. \A r : StartsOf(r)' = StartsOf(r)
      BY StartsGrow
<1>4. \A r : EndsOf(r)' = EndsOf(r)
      BY EndsGrow DEF Terminal
<1>5. New \notin DOMAIN trace /\ trace'[New] = ev
      BY DEF Grown
<1>6. \A r : r = New => StartsOf(r) = {} /\ EndsOf(r) = {}
  <2>1. \A e \in Events(Terminal) : RequestOf(e) \in DOMAIN trace
        BY OldEnds DEF Events
  <2>2. \A s \in Events({"started"}) : trace[s].parent \in DOMAIN trace
        BY DEF Shape, ShapeOf, Events
  <2> QED BY <1>5, <2>1, <2>2 DEF StartsOf, EndsOf
<1>7. Pending' = Pending \cup {New}
      BY <1>1, <1>4, <1>6 DEF Pending
<1>8. Interrupted' = Interrupted
      BY <1>3, <1>6, <1>7 DEF Interrupted
<1>9. Unrequested' = {u \in Unrequested : ev.calls[1].id # trace[u[1]].calls[u[2]].id}
      BY UnrequestedGrows
<1>10. Shape'
       BY ShapeGrows
<1>11. \A e \in Events(Terminal) : RequestOf(e)' = RequestOf(e) /\ EndFits(e)'
       BY OldEnds DEF Unique
<1>12. \A r : r = New => CallOf(r)' = ev.calls[1]
       BY <1>5 DEF CallOf
<1>13. Unique'
  <2>1. ASSUME NEW r \in Events({"requested"})', NEW q \in Events({"requested"})',
               trace'[r].parent = trace'[q].parent, CallOf(r)'.id = CallOf(q)'.id
        PROVE  r = q
        BY <1>1, <1>2, <1>5, <1>12, <2>1 DEF Unique
  <2> QED BY <1>1, <1>2, <1>11, <2>1 DEF Unique
<1>14. InOrder'
  <2> SUFFICES ASSUME NEW r \in Events({"requested"})', NEW q \in Events({"requested"})',
                      r < q, CallOf(r)'.id = CallOf(q)'.id
               PROVE  \E e \in EndsOf(r)' : e < q
      BY DEF InOrder
  <2>1. CASE q = New
    <3>1. r \in Events({"requested"})
          BY <2>1, <1>1, <1>5 DEF Grown, Events
    <3>2. EndsOf(r) # {}
      <4>1. SUFFICES ASSUME r \in Pending PROVE FALSE
            BY <3>1 DEF Pending
      <4> QED BY <2>1, <3>1, <4>1, <1>2, <1>12
    <3>3. \A e \in EndsOf(r) : e < New
          BY DEF EndsOf, Events, Grown
    <3> QED BY <2>1, <1>4, <3>2, <3>3
  <2>2. CASE q \in Events({"requested"}) /\ r \in Events({"requested"})
        BY <2>2, <1>2, <1>4 DEF InOrder
  <2>3. CASE q \in Events({"requested"}) /\ r = New
        BY <2>3 DEF Events, Grown
  <2> QED BY <1>1, <2>1, <2>2, <2>3
<1>15. OneBatch'
  <2>1. \A r \in Pending' : trace'[r].parent = ev.parent
        BY <1>7, <1>2, <1>5 DEF Pending
  <2>2. \A u \in Unrequested' : u[1] = ev.parent
        BY <1>9
  <2> QED BY <2>1, <2>2, <1>8 DEF OneBatch
<1> QED BY <1>1, <1>3, <1>4, <1>6, <1>7, <1>9, <1>10, <1>13, <1>14, <1>15

\* A start: of the only call that is open.
LEMMA StartedEvent ==
  ASSUME TraceInv, NEW ev, Grown(ev), Fits(ev), ev.kind = "started",
         Pending = {ev.parent}, StartsOf(ev.parent) = {}
  PROVE  /\ TraceInv' /\ Pending' = Pending /\ Unrequested' = Unrequested
         /\ \A r : StartsOf(r)' = IF r = ev.parent THEN {New} ELSE StartsOf(r)
         /\ \A r : EndsOf(r)' = EndsOf(r)
         /\ Events({"started"})' = Events({"started"}) \cup {New}
         /\ Events({"requested"})' = Events({"requested"})
         /\ Events(Terminal)' = Events(Terminal)
<1> USE DEF TraceInv
<1>1. /\ Events({"started"})' = Events({"started"}) \cup {New}
      /\ Events({"requested"})' = Events({"requested"}) /\ Events(Terminal)' = Events(Terminal)
      BY EventsGrow DEF Terminal
<1>2. \A e : e \in Events({"requested"}) \cup Events({"started"}) \cup Events(Terminal) =>
             trace'[e] = trace[e] /\ CallOf(e)' = CallOf(e) /\ e \in DOMAIN trace
      BY DEF Grown, Events, CallOf
<1>3. \A r : StartsOf(r)' = IF r = ev.parent THEN {New} ELSE StartsOf(r)
      BY StartsGrow
<1>4. \A r : EndsOf(r)' = EndsOf(r)
      BY EndsGrow DEF Terminal
<1>5. New \notin DOMAIN trace /\ trace'[New] = ev
      BY DEF Grown
<1>6. Pending' = Pending
      BY <1>1, <1>4 DEF Pending
<1>7. Interrupted' \subseteq {ev.parent}
      BY <1>6 DEF Interrupted
<1>8. Unrequested' = Unrequested
      BY UnrequestedGrows
<1>9. Shape'
      BY ShapeGrows
<1>10. \A e \in Events(Terminal) : RequestOf(e)' = RequestOf(e) /\ EndFits(e)'
       BY OldEnds DEF Unique
<1>11. \A e \in Events(Terminal) : RequestOf(e) # ev.parent
  <2>1. EndsOf(ev.parent) = {}
        BY DEF Pending
  <2> QED BY <2>1 DEF EndsOf
<1>12. \A s \in Events({"started"}) : trace[s].parent # ev.parent
       BY DEF StartsOf
<1>13. Unique'
       BY <1>1, <1>2, <1>5, <1>10, <1>11, <1>12 DEF Unique
<1>14. InOrder'
       BY <1>1, <1>2, <1>4 DEF InOrder
<1>15. OneBatch'
       BY <1>2, <1>6, <1>7, <1>8 DEF OneBatch, Pending
<1> QED BY <1>1, <1>3, <1>4, <1>6, <1>8, <1>9, <1>13, <1>14, <1>15

\* An end: of a call that is open, early or after its start.
LEMMA EndedEvent ==
  ASSUME TraceInv, NEW ev, Grown(ev), Fits(ev), ev.kind \in Terminal, NEW r \in Pending,
         \/ ev.parent = r /\ StartsOf(r) = {} /\ ev.kind = "failed"
         \/ ev.parent \in StartsOf(r) /\ ev.shown,
         trace[trace[r].parent].kind = "answer" => ev.shown
  PROVE  /\ TraceInv' /\ Pending' = Pending \ {r} /\ Unrequested' = Unrequested
         /\ \A q : StartsOf(q)' = StartsOf(q)
         /\ \A q : EndsOf(q)' = IF q = r THEN {New} ELSE EndsOf(q)
         /\ Events(Terminal)' = Events(Terminal) \cup {New}
         /\ Events({"requested"})' = Events({"requested"})
         /\ Events({"started"})' = Events({"started"})
         /\ \A e : e = New => RequestOf(e)' = r
<1> USE DEF TraceInv
<1>1. /\ Events(Terminal)' = Events(Terminal) \cup {New}
      /\ Events({"requested"})' = Events({"requested"}) /\ Events({"started"})' = Events({"started"})
      BY EventsGrow DEF Terminal
<1>2. \A e : e \in Events({"requested"}) \cup Events({"started"}) \cup Events(Terminal) =>
             trace'[e] = trace[e] /\ CallOf(e)' = CallOf(e) /\ e \in DOMAIN trace
      BY DEF Grown, Events, CallOf
<1>3. \A q : StartsOf(q)' = StartsOf(q)
      BY StartsGrow DEF Terminal
<1>4. r \in Events({"requested"}) /\ EndsOf(r) = {}
      BY DEF Pending
<1>5. EndedBy(ev) = r
      BY <1>4 DEF EndedBy, StartsOf, Events
<1>6. \A q : EndsOf(q)' = IF q = r THEN {New} ELSE EndsOf(q)
      BY <1>4, <1>5, EndsGrow
<1>7. New \notin DOMAIN trace /\ trace'[New] = ev
      BY DEF Grown
<1>8. Pending' = Pending \ {r}
      BY <1>1, <1>6 DEF Pending
<1>9. Interrupted' = Interrupted \ {r}
      BY <1>3, <1>8 DEF Interrupted
<1>10. Unrequested' = Unrequested
       BY UnrequestedGrows DEF Terminal
<1>11. Shape'
       BY ShapeGrows
<1>12. \A e \in Events(Terminal) : RequestOf(e)' = RequestOf(e) /\ EndFits(e)' /\ RequestOf(e) # r
       BY <1>4, OldEnds DEF Unique, EndsOf
<1>13. \A e : e = New => RequestOf(e)' = r
  <2>1. ev.parent \in DOMAIN trace /\ trace'[ev.parent] = trace[ev.parent]
        BY DEF Fits, Events, Grown
  <2> QED BY <1>5, <1>7, <2>1 DEF RequestOf, EndedBy
<1>14. \A e : e = New => EndFits(e)'
  <2>1. ev.parent \in DOMAIN trace /\ trace'[ev.parent] = trace[ev.parent]
        BY DEF Fits, Events, Grown
  <2>2. r \in DOMAIN trace /\ trace'[r] = trace[r]
        BY <1>2, <1>4
  <2>3. trace[r].parent \in DOMAIN trace /\ trace'[trace[r].parent] = trace[trace[r].parent]
        BY <1>4 DEF Shape, ShapeOf, Events, Grown
  <2>4. /\ trace[ev.parent].kind = "requested" => ev.kind = "failed"
        /\ trace[ev.parent].kind = "started" => ev.shown
        BY <1>4 DEF StartsOf, Events
  <2> QED BY <1>7, <1>13, <2>1, <2>2, <2>3, <2>4 DEF EndFits
<1>15. \A s \in Events({"started"}) : trace[s].parent = r => ev.parent = s
       BY DEF Unique, StartsOf
<1>16. Unique'
  <2>1. \A e, f \in Events(Terminal)' : RequestOf(e)' = RequestOf(f)' => e = f
        BY <1>1, <1>12, <1>13 DEF Unique
  <2>2. \A e \in Events(Terminal)', s \in Events({"started"})' :
          trace'[s].parent = RequestOf(e)' => trace'[e].parent = s
        BY <1>1, <1>2, <1>7, <1>12, <1>13, <1>15 DEF Unique
  <2>3. \A e \in Events(Terminal)' : EndFits(e)'
        BY <1>1, <1>12, <1>14
  <2> QED BY <1>1, <1>2, <2>1, <2>2, <2>3 DEF Unique
<1>17. InOrder'
       BY <1>1, <1>2, <1>4, <1>6 DEF InOrder
<1>18. OneBatch'
       BY <1>2, <1>8, <1>9, <1>10 DEF OneBatch, Pending
<1> QED BY <1>1, <1>3, <1>6, <1>8, <1>10, <1>11, <1>13, <1>16, <1>17, <1>18

(* ------------------------- the least and the last ------------------------ *)

\* Descending chains of numbers end.
LEMMA LeastExists ==
  ASSUME NEW S, S \subseteq Nat, S # {}
  PROVE  \E x \in S : \A y \in S : x <= y
<1> DEFINE R == {ss \in Nat \X Nat : ss[1] < ss[2]}
<1>1. IsWellFoundedOn(R, Nat)
      BY NatLessThanWellFounded DEF OpToRel
<1>2. \A y, x \in Nat : <<y, x>> \in R <=> y < x
      OBVIOUS
<1> HIDE DEF R
<1>3. PICK x \in S : \A y \in S : ~(<<y, x>> \in R)
      BY <1>1, WFMin
<1>4. \A y \in S : x \in Nat /\ y \in Nat /\ ~(y < x)
      BY <1>2, <1>3
<1>5. \A y \in S : x <= y
      BY <1>4
<1> QED BY <1>5

LEMMA GreatestExists ==
  ASSUME NEW n \in Nat, NEW S, S \subseteq 1..n, S # {}
  PROVE  \E x \in S : \A y \in S : y <= x
<1> DEFINE T == {m \in Nat : \E x \in S : m = n - x}
<1>1. T \subseteq Nat /\ T # {}
  <2>1. PICK x \in S : x \in 1..n
        OBVIOUS
  <2>2. n - x \in T
        BY <2>1
  <2> QED BY <2>2
<1>2. PICK t \in T : \A u \in T : t <= u
      BY <1>1, LeastExists
<1>3. PICK x \in S : t = n - x
      OBVIOUS
<1>4. ASSUME NEW y \in S PROVE y <= x
  <2>1. y \in 1..n /\ x \in 1..n
        OBVIOUS
  <2>2. n - y \in T
        BY <2>1
  <2>3. t <= n - y
        BY <1>2, <2>2
  <2> QED BY <1>3, <2>1, <2>3
<1> QED BY <1>4

LEMMA EarliestIs ==
  ASSUME NEW S, S \subseteq Nat, S # {}
  PROVE  Earliest(S) \in S /\ \A y \in S : Earliest(S) <= y
BY LeastExists DEF Earliest

\* The first call without a request exists.
LEMMA FirstUnrequestedIs ==
  ASSUME Unrequested # {}, Events({"answer"}) \subseteq Nat, MaxCalls \in Nat
  PROVE  FirstUnrequested \in Unrequested
<1> DEFINE A == {u[1] : u \in Unrequested}
<1>1. Unrequested \subseteq Nat \X Nat
      BY DEF Unrequested
<1>2. PICK a \in A : \A b \in A : a <= b
  <2>1. A \subseteq Nat /\ A # {} BY <1>1
  <2> QED BY <2>1, LeastExists
<1> DEFINE I == {u[2] : u \in {v \in Unrequested : v[1] = a}}
<1>3. PICK i \in I : \A j \in I : i <= j
  <2>1. I \subseteq Nat /\ I # {} BY <1>1
  <2> QED BY <2>1, LeastExists
<1>4. PICK u \in Unrequested : u[1] = a /\ u[2] = i
      OBVIOUS
<1>5. ASSUME NEW v \in Unrequested PROVE u[1] < v[1] \/ (u[1] = v[1] /\ u[2] <= v[2])
  <2>1. v[1] \in A /\ a <= v[1] /\ a \in Nat /\ v[1] \in Nat
        BY <1>1, <1>2
  <2>2. v[1] = a => i <= v[2]
        BY <1>3
  <2> QED BY <2>1, <2>2, <1>4
<1> QED BY <1>4, <1>5 DEF FirstUnrequested

(* ----------------------- what the world keeps promising ------------------ *)

\* Nothing is read off the trace but the trace.
LEMMA SameTrace ==
  ASSUME trace' = trace
  PROVE  /\ TraceInv' = TraceInv /\ Pending' = Pending /\ Unrequested' = Unrequested
         /\ Interrupted' = Interrupted /\ Unstarted' = Unstarted
         /\ OpenRequests' = OpenRequests /\ ReusedId' = ReusedId
         /\ \A r : StartsOf(r)' = StartsOf(r) /\ EndsOf(r)' = EndsOf(r)
         /\ \A e : CallOf(e)' = CallOf(e) /\ RequestOf(e)' = RequestOf(e)
         /\ \A K : Events(K)' = Events(K)
<1>1. \A K : Events(K)' = Events(K)
      BY DEF Events
<1>2. \A e : CallOf(e)' = CallOf(e) /\ RequestOf(e)' = RequestOf(e)
      BY DEF CallOf, RequestOf
<1>3. \A r : StartsOf(r)' = StartsOf(r) /\ EndsOf(r)' = EndsOf(r)
      BY <1>1, <1>2 DEF StartsOf, EndsOf
<1>4. Pending' = Pending /\ Unrequested' = Unrequested
      BY <1>1, <1>2, <1>3 DEF Pending, Unrequested
<1>5. Interrupted' = Interrupted /\ Unstarted' = Unstarted
      BY <1>3, <1>4 DEF Interrupted, Unstarted
<1>6. OpenRequests' = OpenRequests
      BY <1>1 DEF OpenRequests
<1>7. ReusedId' = ReusedId
      BY DEF ReusedId, RequestOf, CallOf, Events
<1>8. Shape' = Shape
      BY DEF Shape, ShapeOf, Events, CallOf
<1>9. Unique' = Unique
      BY DEF Unique, EndFits, RequestOf, Events, CallOf
<1>10. InOrder' = InOrder
      BY <1>1, <1>2, <1>3 DEF InOrder
<1>11. OneBatch' = OneBatch
      BY <1>4, <1>5 DEF OneBatch
<1> QED BY <1>1, <1>2, <1>3, <1>4, <1>5, <1>6, <1>7, <1>8, <1>9, <1>10, <1>11 DEF TraceInv

LEMMA OpenRequestsStay ==
  ASSUME NEW ev, Grown(ev), ev.kind \in {"requested", "started"} \cup Terminal
  PROVE  OpenRequests' = OpenRequests
<1>1. /\ Events({"asked"})' = Events({"asked"})
      /\ Events({"answer", "ended"})' = Events({"answer", "ended"})
      BY EventsGrow DEF Terminal
<1> QED BY <1>1 DEF OpenRequests

\* The world as it is and a trace in which the same has started, is open and
\* has ended.
LEMMA TruthKept ==
  ASSUME TraceInv, Truth, NEW ev, Grown(ev), Fits(ev), UNCHANGED <<world, meddling>>,
         ev.kind \notin {"started"} \cup Terminal,
         {r \in Events({"requested"})' : StartsOf(r)' # {}} =
           {r \in Events({"requested"}) : StartsOf(r) # {}},
         Interrupted' = Interrupted
  PROVE  Truth'
<1>1. file' = file /\ effect' = effect /\ meddling' = meddling
      BY DEF world
<1>2. DOMAIN effect \subseteq DOMAIN trace /\ Interrupted \subseteq DOMAIN trace
      BY DEF Truth, Interrupted, Pending, Events
<1>3. \A e \in DOMAIN trace : CallOf(e)' = CallOf(e) /\ trace'[e] = trace[e]
      BY DEF Grown, CallOf
<1>4. Events({"completed", "failed"})' = Events({"completed", "failed"})
      BY EventsGrow DEF Terminal
<1>5. \A e \in Events({"completed", "failed"}) :
        e \in DOMAIN trace /\ RequestOf(e)' = RequestOf(e) /\ RequestOf(e) \in DOMAIN trace
      BY OldEnds DEF Events, Terminal, TraceInv
<1>6. ToldTheTruth'
  <2> SUFFICES ASSUME meddling = 0, NEW e \in Events({"completed", "failed"}),
                      NEW r, r = RequestOf(e), r \in DOMAIN effect,
                      CallOf(r).tool \notin ReadOnly
               PROVE  effect[r] # (IF trace[e].kind = "failed" THEN "changed" ELSE "none")
      BY <1>1, <1>3, <1>4, <1>5 DEF ToldTheTruth
  <2> QED BY DEF Truth, ToldTheTruth
<1>7. \A r \in Interrupted : FileAgrees(r) => FileAgrees(r)'
      BY <1>1, <1>2, <1>3 DEF FileAgrees
<1> QED BY <1>1, <1>2, <1>3, <1>6, <1>7 DEF Truth

LEMMA TruthAtQuiet ==
  ASSUME TraceInv, Truth, NEW ev, Grown(ev), Fits(ev), UNCHANGED <<world, meddling>>,
         ev.kind \in {"asked", "ended", "answer"},
         ev.kind = "answer" => Pending = {} /\ Unrequested = {}
  PROVE  Truth'
<1>1. /\ Pending' = Pending /\ \A r : StartsOf(r)' = StartsOf(r)
      /\ \A K \in SUBSET ({"requested", "started"} \cup Terminal) : Events(K)' = Events(K)
      BY QuietEvent
<1>2. Events({"requested"})' = Events({"requested"})
      BY <1>1
<1>3. Interrupted' = Interrupted
      BY <1>1 DEF Interrupted
<1>4. ev.kind \notin {"started"} \cup Terminal
      BY DEF Terminal
<1> QED BY <1>1, <1>2, <1>3, <1>4, TruthKept

LEMMA TruthAtEnd ==
  ASSUME TraceInv, Truth, NEW ev, Grown(ev), Fits(ev), UNCHANGED <<world, meddling>>,
         ev.kind \in Terminal, NEW r \in Pending,
         \/ ev.parent = r /\ StartsOf(r) = {} /\ ev.kind = "failed"
         \/ ev.parent \in StartsOf(r) /\ ev.shown,
         trace[trace[r].parent].kind = "answer" => ev.shown,
         meddling = 0 /\ r \in DOMAIN effect /\ CallOf(r).tool \notin ReadOnly =>
           /\ ev.kind = "failed" => effect[r] # "changed"
           /\ ev.kind = "completed" => effect[r] # "none"
  PROVE  Truth'
<1>1. file' = file /\ effect' = effect /\ meddling' = meddling
      BY DEF world
<1>2. DOMAIN effect \subseteq DOMAIN trace /\ Interrupted \subseteq DOMAIN trace
      BY DEF Truth, Interrupted, Pending, Events
<1>3. /\ \A e \in DOMAIN trace : CallOf(e)' = CallOf(e) /\ trace'[e] = trace[e]
      /\ trace'[New] = ev
      BY DEF Grown, CallOf
<1>4. /\ Pending' = Pending \ {r} /\ \A q : StartsOf(q)' = StartsOf(q)
      /\ Events({"requested"})' = Events({"requested"})
      /\ \A e : e = New => RequestOf(e)' = r
      BY EndedEvent
<1>5. Interrupted' = Interrupted \ {r}
      BY <1>4 DEF Interrupted
<1>6. r \in DOMAIN trace
      BY DEF Pending, Events
<1>7. Events({"completed", "failed"})' =
        IF ev.kind \in {"completed", "failed"} THEN Events({"completed", "failed"}) \cup {New}
                                               ELSE Events({"completed", "failed"})
      BY EventsGrow
<1>8. \A e \in Events({"completed", "failed"}) :
        e \in DOMAIN trace /\ RequestOf(e)' = RequestOf(e) /\ RequestOf(e) \in DOMAIN trace
      BY OldEnds DEF Events, Terminal, TraceInv
<1>9. ToldTheTruth'
  <2> SUFFICES ASSUME meddling = 0, NEW e \in Events({"completed", "failed"})',
                      RequestOf(e)' \in DOMAIN effect,
                      CallOf(RequestOf(e))'.tool \notin ReadOnly
               PROVE  effect[RequestOf(e)'] # (IF trace'[e].kind = "failed" THEN "changed" ELSE "none")
      BY <1>1 DEF ToldTheTruth
  <2>1. CASE e \in Events({"completed", "failed"})
    <3> DEFINE q == RequestOf(e)
    <3>1. RequestOf(e)' = q /\ q \in DOMAIN trace /\ trace'[e] = trace[e]
          BY <2>1, <1>3, <1>8
    <3>2. CallOf(RequestOf(e))' = CallOf(q)
          BY <3>1, <1>3 DEF CallOf
    <3> QED BY <2>1, <3>1, <3>2 DEF Truth, ToldTheTruth
  <2>2. CASE e = New /\ ev.kind \in {"completed", "failed"}
    <3>1. RequestOf(e)' = r /\ trace'[e] = ev
          BY <2>2, <1>3, <1>4
    <3>2. CallOf(RequestOf(e))' = CallOf(r)
          BY <3>1, <1>3, <1>6 DEF CallOf
    <3> QED BY <2>2, <3>1, <3>2
  <2> QED BY <1>7, <2>1, <2>2
<1>10. \A q \in Interrupted : FileAgrees(q) => FileAgrees(q)'
       BY <1>1, <1>2, <1>3 DEF FileAgrees
<1> QED BY <1>1, <1>2, <1>3, <1>4, <1>5, <1>9, <1>10 DEF Truth

(* ------------------------ the steps of a running turn -------------------- *)

LEMMA AppendStep ==
  ASSUME Typed, NEW ev \in EventRecord, trace' = Append(trace, ev)
  PROVE  /\ Grown(ev) /\ trace' \in Seq(EventRecord) /\ Len(trace') = New
         /\ Events({"requested"}) \subseteq Events({"requested"})'
         /\ Len(trace) \in Nat /\ DOMAIN trace = 1..Len(trace)
<1>1. trace \in Seq(EventRecord)
      BY DEF Typed, TypeOK, EventRecord
<1>2. Grown(ev) /\ trace' \in Seq(EventRecord) /\ Len(trace') = New
      BY <1>1, AppendGrows
<1>3. Events({"requested"}) \subseteq Events({"requested"})'
      BY <1>2, EventsGrow
<1>4. Len(trace) \in Nat /\ DOMAIN trace = 1..Len(trace)
      BY <1>1, LenProperties
<1> QED BY <1>2, <1>3, <1>4

LEMMA AskStep ==
  ASSUME IInv, Ask
  PROVE  IInv'
<1> USE DEF IInv
<1>1. PICK ev : ev = [kind |-> "asked", parent |-> 0, calls |-> <<>>, shown |-> FALSE]
      OBVIOUS
<1>2. trace' = Append(trace, ev) /\ ev \in EventRecord /\ ev.kind = "asked"
      BY <1>1 DEF Ask, EventRecord
<1>3. /\ Grown(ev) /\ trace' \in Seq(EventRecord) /\ Len(trace') = New
      /\ Events({"requested"}) \subseteq Events({"requested"})'
      /\ Len(trace) \in Nat
      BY <1>2, AppendStep
<1>4. Fits(ev)
      BY <1>1, <1>3 DEF Fits, New, Terminal
<1>5. TraceInv' /\ Pending' = Pending /\ Unrequested' = Unrequested
      BY <1>2, <1>3, <1>4, QuietEvent
<1>6. UNCHANGED <<world, meddling>>
      BY DEF Ask
<1>7. Truth'
      BY <1>2, <1>3, <1>4, <1>6, TruthAtQuiet DEF EffectInv
<1>8. Typed'
  <2>1. batch' = batch /\ batch \in BatchRecord /\ batch.calls \in Seq(Call)
          /\ batch.next \in 1..(Len(batch.calls) + 1)
        BY DEF Ask, Typed, TypeOK
  <2>2. current' \in [request : 0..Len(trace'), started : 0..Len(trace')]
        BY <1>3 DEF Ask, Typed, TypeOK, New
  <2>3. /\ effect' \in [DOMAIN effect' -> {"none", "moot", "changed"}]
        /\ DOMAIN effect' \subseteq Events({"requested"})'
        /\ \A r \in DOMAIN effect' : effect'[r] \in {"none", "moot", "changed"}
        BY <1>3 DEF Ask, Typed, TypeOK, world
  <2>4. /\ {file', seen'} \subseteq Contents /\ cancelled' \in BOOLEAN
        /\ crashes' \in 0..MaxCrashes /\ meddling' \in 0..MaxMeddling
        BY DEF Ask, Typed, TypeOK, world
  <2> QED BY <1>3, <2>1, <2>2, <2>3, <2>4 DEF Typed, TypeOK, Ask, EventRecord
<1>9. PhaseInv'
      BY <1>5 DEF PhaseInv, Ask
<1>10. EffectInv'
      BY <1>7 DEF EffectInv, Ask
<1> QED BY <1>5, <1>8, <1>9, <1>10

\* The calls of a response are a batch.
LEMMA BatchesAre ==
  ASSUME NEW calls \in Batches
  PROVE  calls \in Seq(Call) /\ Distinct(calls) /\ Len(calls) \in Nat /\ Len(calls) <= MaxCalls
<1>1. calls \in BoundedSeq(Call, MaxCalls) /\ Distinct(calls)
      BY DEF Batches, Distinct
<1>2. PICK m \in 0..MaxCalls : calls \in [1..m -> Call]
      BY <1>1 DEF BoundedSeq, SeqOf
<1>3. MaxCalls \in Nat /\ m \in Nat
      BY <1>2, ToolCallBounds
<1> QED BY <1>1, <1>2, <1>3

LEMMA AnswerStep ==
  ASSUME IInv, NEW calls \in Batches, NEW run \in BOOLEAN, Answer(calls, run)
  PROVE  IInv'
<1> USE DEF IInv
<1>1. PICK ev : ev = [kind |-> "answer", parent |-> 0, calls |-> calls, shown |-> TRUE]
      OBVIOUS
<1>0. calls \in Seq(Call) /\ Distinct(calls) /\ Len(calls) \in Nat /\ Len(calls) <= MaxCalls
      BY BatchesAre
<1>2. trace' = Append(trace, ev) /\ ev \in EventRecord /\ ev.kind = "answer"
      BY <1>0, <1>1 DEF Answer, EventRecord
<1>3. /\ Grown(ev) /\ trace' \in Seq(EventRecord) /\ Len(trace') = New
      /\ Events({"requested"}) \subseteq Events({"requested"})'
      /\ Len(trace) \in Nat
      BY <1>2, AppendStep
<1>4. Fits(ev)
      BY <1>0, <1>1, <1>3 DEF Fits, New, Terminal
<1>5. Pending = {} /\ Unrequested = {}
      BY DEF PhaseInv, Answer
<1>6. /\ TraceInv' /\ Pending' = Pending /\ \A u \in Unrequested' : u[1] = New /\ u[2] \in 1..MaxCalls
      /\ \A K \in SUBSET ({"requested", "started"} \cup Terminal) : Events(K)' = Events(K)
      BY <1>2, <1>3, <1>4, <1>5, QuietEvent
<1>7. UNCHANGED <<world, meddling>>
      BY DEF Answer
<1>8. Truth'
      BY <1>2, <1>3, <1>4, <1>5, <1>7, TruthAtQuiet DEF EffectInv
<1>9. Typed'
  <2>1. batch' \in BatchRecord /\ batch'.next \in 1..(Len(batch'.calls) + 1) /\ batch'.calls \in Seq(Call)
        BY <1>0, <1>3 DEF Answer, New, BatchRecord
  <2> QED BY <1>3, <2>1 DEF Typed, TypeOK, Answer, New, EventRecord, world
<1>10. Handling'
  <2>1. batch'.of = New /\ batch'.calls = calls /\ batch'.next = 1 /\ batch'.shown = TRUE
        BY <1>3 DEF Answer
  <2>2. trace'[New] = ev /\ New \in Events({"answer", "ended"})'
        BY <1>2, <1>3, EventsGrow DEF Grown
  <2>3. \A r \in Events({"requested"})' : trace'[r].parent # New
    <3>1. Events({"requested"})' = Events({"requested"})
          BY <1>6
    <3>2. \A r \in Events({"requested"}) : trace'[r] = trace[r] /\ trace[r].parent \in DOMAIN trace
          BY <1>3 DEF Events, Grown, TraceInv, Shape, ShapeOf
    <3> QED BY <3>1, <3>2, <1>3 DEF Grown
  <2>4. trace'[batch'.of] = ev /\ batch'.of \in Events({"answer", "ended"})'
        BY <2>1, <2>2
  <2>5. \A u \in Unrequested' : u[1] = batch'.of /\ u[2] >= batch'.next
        BY <2>1, <1>6
  <2>6. \A r \in Events({"requested"})' : trace'[r].parent # batch'.of
        BY <2>1, <2>3
  <2> QED BY <2>1, <2>4, <2>5, <2>6, <1>1 DEF Handling
<1>11. PhaseInv'
       BY <1>5, <1>6, <1>10 DEF PhaseInv, Answer
<1>12. EffectInv'
       BY <1>8 DEF EffectInv, Answer
<1> QED BY <1>6, <1>9, <1>11, <1>12

LEMMA FailStep ==
  ASSUME IInv, NEW calls \in Batches \cup {<<>>}, NEW shown \in BOOLEAN, Fail(calls, shown)
  PROVE  IInv'
<1> USE DEF IInv
<1>1. PICK ev : ev = [kind |-> "ended", parent |-> 0, calls |-> calls, shown |-> FALSE]
      OBVIOUS
<1>0. calls \in Seq(Call) /\ Distinct(calls) /\ Len(calls) \in Nat /\ Len(calls) <= MaxCalls
  <2>1. CASE calls \in Batches
        BY <2>1, BatchesAre
  <2>2. CASE calls = <<>>
        BY <2>2, ToolCallBounds DEF Distinct
  <2> QED BY <2>1, <2>2
<1>2. trace' = Append(trace, ev) /\ ev \in EventRecord /\ ev.kind = "ended"
      BY <1>0, <1>1 DEF Fail, EventRecord
<1>3. /\ Grown(ev) /\ trace' \in Seq(EventRecord) /\ Len(trace') = New
      /\ Events({"requested"}) \subseteq Events({"requested"})'
      /\ Len(trace) \in Nat
      BY <1>2, AppendStep
<1>4. Fits(ev)
      BY <1>0, <1>1, <1>3 DEF Fits, New, Terminal
<1>5. Pending = {} /\ Unrequested = {}
      BY DEF PhaseInv, Fail
<1>6. /\ TraceInv' /\ Pending' = Pending /\ Unrequested' = Unrequested
      /\ \A K \in SUBSET ({"requested", "started"} \cup Terminal) : Events(K)' = Events(K)
      BY <1>2, <1>3, <1>4, <1>5, QuietEvent
<1>7. UNCHANGED <<world, meddling>>
      BY DEF Fail
<1>8. Truth'
      BY <1>2, <1>3, <1>4, <1>5, <1>7, TruthAtQuiet DEF EffectInv
<1>9. Typed'
  <2>1. batch' \in BatchRecord /\ batch'.next \in 1..(Len(batch'.calls) + 1) /\ batch'.calls \in Seq(Call)
        BY <1>0, <1>3 DEF Fail, New, BatchRecord
  <2> QED BY <1>3, <2>1 DEF Typed, TypeOK, Fail, New, EventRecord, world
<1>10. Handling'
  <2>1. batch'.of = New /\ batch'.calls = calls
        BY <1>3 DEF Fail
  <2>2. trace'[New] = ev /\ New \in Events({"answer", "ended"})'
        BY <1>2, <1>3, EventsGrow DEF Grown
  <2>3. \A r \in Events({"requested"})' : trace'[r].parent # New
    <3>1. Events({"requested"})' = Events({"requested"})
          BY <1>6
    <3>2. \A r \in Events({"requested"}) : trace'[r] = trace[r] /\ trace[r].parent \in DOMAIN trace
          BY <1>3 DEF Events, Grown, TraceInv, Shape, ShapeOf
    <3> QED BY <3>1, <3>2, <1>3 DEF Grown
  <2>4. trace'[batch'.of] = ev /\ batch'.of \in Events({"answer", "ended"})'
        BY <2>1, <2>2
  <2>6. \A r \in Events({"requested"})' : trace'[r].parent # batch'.of
        BY <2>1, <2>3
  <2> QED BY <2>1, <2>4, <2>6, <1>1, <1>5, <1>6 DEF Handling
<1>11. PhaseInv'
       BY <1>5, <1>6, <1>10 DEF PhaseInv, Fail
<1>12. EffectInv'
       BY <1>8 DEF EffectInv, Fail
<1> QED BY <1>6, <1>9, <1>11, <1>12

\* A step that neither writes the trace nor touches the world.
LEMMA StillStep ==
  ASSUME IInv, UNCHANGED <<trace, world, meddling>>, crashes' \in 0..MaxCrashes,
         at' \in {"down", "abandoned", "unrequested", "refusal", "unstarted", "restore",
                  "reconcile", "idle", "streaming", "batch", "requested", "running",
                  "closing", "blocked", "refused"},
         \/ UNCHANGED batch \/ batch' = NoBatch,
         \/ UNCHANGED current \/ current' = NoCall,
         \/ UNCHANGED seen \/ seen' = NoFile,
         cancelled' \in BOOLEAN, PhaseInv',
         at' = "running" => UNCHANGED <<at, current, seen>>
  PROVE  IInv'
<1> USE DEF IInv
<1>1. trace' = trace /\ file' = file /\ effect' = effect /\ meddling' = meddling
      BY DEF world
<1>2. /\ TraceInv' /\ Interrupted' = Interrupted /\ \A K : Events(K)' = Events(K)
      /\ \A r : StartsOf(r)' = StartsOf(r)
      /\ \A e : CallOf(e)' = CallOf(e) /\ RequestOf(e)' = RequestOf(e)
      BY <1>1, SameTrace
<1>3. ToldTheTruth' = ToldTheTruth
      BY <1>1 DEF ToldTheTruth, CallOf, RequestOf, Events
<1>4. \A r : FileAgrees(r)' = FileAgrees(r)
      BY <1>1 DEF FileAgrees, CallOf
<1>5. Truth'
      BY <1>1, <1>2, <1>3, <1>4 DEF Truth, EffectInv
<1>6. EffectInv'
      BY <1>1, <1>5 DEF EffectInv
<1>7. Typed'
  <2>1. batch' \in BatchRecord /\ batch'.calls \in Seq(Call)
          /\ batch'.next \in 1..(Len(batch'.calls) + 1)
    <3>1. CASE UNCHANGED batch
          BY <3>1 DEF Typed, TypeOK
    <3>2. CASE batch' = NoBatch
      <4>1. <<>> \in Seq(Call) /\ Len(<<>>) = 0
            OBVIOUS
      <4>2. NoBatch.calls = <<>> /\ NoBatch.next = 1 /\ NoBatch \in BatchRecord
            BY <4>1 DEF NoBatch, BatchRecord
      <4>3. 1 \in 1..(Len(<<>>) + 1)
            BY <4>1
      <4> QED BY <3>2, <4>1, <4>2, <4>3
    <3> QED BY <3>1, <3>2
  <2>2. current' \in [request : 0..Len(trace'), started : 0..Len(trace')]
    <3>1. Len(trace) \in Nat
          BY LenProperties DEF Typed, TypeOK
    <3> QED BY <1>1, <3>1 DEF Typed, TypeOK, NoCall
  <2>3. {file', seen'} \subseteq Contents
        BY <1>1 DEF Typed, TypeOK, Contents
  <2>4. /\ effect' \in [DOMAIN effect' -> {"none", "moot", "changed"}]
        /\ DOMAIN effect' \subseteq Events({"requested"})'
        /\ \A r \in DOMAIN effect' : effect'[r] \in {"none", "moot", "changed"}
        BY <1>1, <1>2 DEF Typed, TypeOK
  <2>5. trace' \in Seq(EventRecord) /\ meddling' \in 0..MaxMeddling
        BY <1>1 DEF Typed, TypeOK, EventRecord
  <2> QED BY <2>1, <2>2, <2>3, <2>4, <2>5 DEF Typed, TypeOK, EventRecord
<1> QED BY <1>2, <1>6, <1>7

LEMMA BatchDoneStep ==
  ASSUME IInv, BatchDone
  PROVE  IInv'
<1>1. PhaseInv'
  <2>1. Pending' = Pending /\ Unrequested' = Unrequested
        BY SameTrace DEF BatchDone
  <2>2. Pending = {} /\ Handling
        BY DEF IInv, PhaseInv, BatchDone
  <2>3. Unrequested = {}
    <3> SUFFICES ASSUME NEW u \in Unrequested PROVE FALSE
        OBVIOUS
    <3>1. u[1] = batch.of /\ u[2] >= batch.next /\ batch.next > Len(batch.calls)
          BY <2>2 DEF Handling, BatchDone
    <3>2. u[2] \in DOMAIN batch.calls
          BY <2>2, <3>1 DEF Handling, Unrequested
    <3>3. batch.calls \in Seq(Call) /\ batch.next \in Nat
          BY DEF IInv, Typed, BatchRecord, TypeOK
    <3>4. DOMAIN batch.calls = 1..Len(batch.calls) /\ Len(batch.calls) \in Nat
          BY <3>3, LenProperties
    <3> QED BY <3>1, <3>2, <3>3, <3>4
  <2> QED BY <2>1, <2>2, <2>3 DEF PhaseInv, BatchDone
<1>2. UNCHANGED <<trace, world, meddling>> /\ crashes' \in 0..MaxCrashes /\ cancelled' \in BOOLEAN
        /\ at' = "idle" /\ UNCHANGED current /\ UNCHANGED seen /\ batch' = NoBatch
      BY DEF BatchDone, IInv, Typed, TypeOK
<1> QED BY <1>1, <1>2, StillStep

LEMMA CancelStep ==
  ASSUME IInv, Cancel
  PROVE  IInv'
<1>0. UNCHANGED <<trace, at, batch, current>>
      BY DEF Cancel
<1>1. PhaseInv'
  <2>1. /\ Pending' = Pending /\ Unrequested' = Unrequested
        /\ \A r : StartsOf(r)' = StartsOf(r) /\ \A e : CallOf(e)' = CallOf(e)
        /\ \A K : Events(K)' = Events(K)
        BY <1>0, SameTrace
  <2>2. at \in {"batch", "requested", "running"} /\ PhaseInv
        BY DEF Cancel, IInv
  <2>3. Handling /\ (at = "batch" => Pending = {}) /\ (at \in {"requested", "running"} => Calling)
        BY <2>2 DEF PhaseInv
  <2>4. Handling'
        BY <1>0, <2>1, <2>3 DEF Handling
  <2>5. Calling => Calling'
        BY <1>0, <2>1 DEF Calling
  <2> QED BY <1>0, <2>1, <2>2, <2>3, <2>4, <2>5 DEF PhaseInv
<1>2. UNCHANGED <<trace, world, meddling>> /\ crashes' \in 0..MaxCrashes /\ cancelled' \in BOOLEAN
        /\ UNCHANGED <<at, batch, current, seen>>
        /\ at \in {"batch", "requested", "running"}
      BY DEF Cancel, IInv, Typed, TypeOK
<1> QED BY <1>1, <1>2, StillStep

LEMMA CrashStep ==
  ASSUME IInv, Crash
  PROVE  IInv'
<1>1. PhaseInv'
      BY DEF PhaseInv, Crash
<1>2. UNCHANGED <<trace, world, meddling>> /\ cancelled' \in BOOLEAN /\ at' = "down"
        /\ batch' = NoBatch /\ current' = NoCall /\ seen' = NoFile
      BY DEF Crash
<1>3. crashes' \in 0..MaxCrashes
      BY ToolCallBounds DEF Crash, IInv, Typed, TypeOK
<1> QED BY <1>1, <1>2, <1>3, StillStep

LEMMA MoveStep ==
  ASSUME IInv, NEW to, Move(to), PhaseInv',
         to \in {"abandoned", "unrequested", "unstarted", "restore", "reconcile", "idle",
                 "blocked", "refused"}
  PROVE  IInv'
<1>1. UNCHANGED <<trace, world, meddling>> /\ crashes' \in 0..MaxCrashes /\ cancelled' \in BOOLEAN
        /\ UNCHANGED <<batch, current, seen>> /\ at' = to
      BY DEF Move, IInv, Typed, TypeOK
<1> QED BY <1>1, StillStep

LEMMA ResumeStep ==
  ASSUME IInv, Resume
  PROVE  IInv'
<1>1. PhaseInv'
      BY DEF PhaseInv, Resume, Move
<1> QED BY <1>1, MoveStep DEF Resume

\* What somebody else does to the file is not held against any call.
LEMMA MeddleStep ==
  ASSUME IInv, NEW content \in {NoFile, {}, {"replace"}}, Meddle(content)
  PROVE  IInv'
<1> USE DEF IInv
<1>1. /\ trace' = trace /\ UNCHANGED <<at, batch, current, seen, cancelled, effect, crashes>>
      /\ file' = content /\ meddling' = meddling + 1
      BY DEF Meddle, process
<1>2. meddling' \in 0..MaxMeddling /\ meddling' # 0
      BY ToolCallBounds DEF Meddle, Typed, TypeOK
<1>3. /\ TraceInv' /\ Pending' = Pending /\ Unrequested' = Unrequested
      /\ Unstarted' = Unstarted /\ OpenRequests' = OpenRequests /\ ReusedId' = ReusedId
      /\ \A K : Events(K)' = Events(K)
      /\ \A r : StartsOf(r)' = StartsOf(r)
      /\ \A e : CallOf(e)' = CallOf(e)
      BY <1>1, SameTrace
<1>4. Typed'
  <2>1. file' \in Contents
        BY <1>1 DEF Contents
  <2> QED BY <1>1, <1>2, <1>3, <2>1 DEF Typed, TypeOK
<1>5. PhaseInv'
  <2>1. Handling => Handling'
        BY <1>1, <1>3 DEF Handling
  <2>2. Calling => Calling'
        BY <1>1, <1>3 DEF Calling
  <2> QED BY <1>1, <1>3, <2>1, <2>2 DEF PhaseInv
<1>6. EffectInv'
      BY <1>1, <1>2, <1>3 DEF EffectInv, Truth, ToldTheTruth
<1> QED BY <1>3, <1>4, <1>5, <1>6

(* --------------------------- the calls of a batch ------------------------ *)

LEMMA RequestStep ==
  ASSUME IInv, Request
  PROVE  IInv'
<1> USE DEF IInv
<1>0. /\ at = "batch" /\ Pending = {} /\ Handling /\ batch \in BatchRecord
      /\ batch.next \in DOMAIN batch.calls /\ batch.calls \in Seq(Call)
  <2>1. batch.calls \in Seq(Call) /\ batch.next \in 1..(Len(batch.calls) + 1)
        BY DEF Typed, TypeOK
  <2>2. DOMAIN batch.calls = 1..Len(batch.calls) /\ Len(batch.calls) \in Nat
        BY <2>1, LenProperties
  <2> QED BY <2>1, <2>2 DEF Request, PhaseInv, Typed
<1>1. PICK ev : ev = [kind |-> "requested", parent |-> batch.of,
                      calls |-> <<batch.calls[batch.next]>>, shown |-> FALSE]
      OBVIOUS
<1>2. /\ trace' = Append(trace, ev) /\ ev \in EventRecord /\ ev.kind = "requested"
      /\ ev.parent = batch.of /\ ev.calls[1] = batch.calls[batch.next]
      /\ ev.calls[1] \in Call
      BY <1>0, <1>1 DEF Request, Log, EventRecord, BatchRecord
<1>3. /\ Grown(ev) /\ trace' \in Seq(EventRecord) /\ Len(trace') = New
      /\ Events({"requested"}) \subseteq Events({"requested"})'
      /\ Len(trace) \in Nat
      BY <1>2, AppendStep
<1>4. Fits(ev)
  <2>1. batch.of \in Events({"answer", "ended"}) /\ batch.calls = trace[batch.of].calls
        BY <1>0 DEF Handling
  <2>2. batch.of \in Nat /\ batch.of < New
        BY <2>1, <1>3 DEF Events, Grown
  <2> QED BY <1>0, <1>1, <1>2, <2>1, <2>2 DEF Fits, Terminal
<1>5. Distinct(batch.calls)
      BY <1>0 DEF Handling, Events, TraceInv, Shape, ShapeOf
<1>6. \A r \in Events({"requested"}) :
        ~(trace[r].parent = ev.parent /\ CallOf(r).id = ev.calls[1].id)
  <2> SUFFICES ASSUME NEW r \in Events({"requested"}), trace[r].parent = batch.of,
                      CallOf(r).id = batch.calls[batch.next].id
               PROVE  FALSE
      BY <1>2
  <2>1. PICK i \in DOMAIN batch.calls : i < batch.next /\ CallOf(r) = batch.calls[i]
        BY <1>0 DEF Handling
  <2>2. i = batch.next
        BY <1>0, <1>5, <2>1 DEF Distinct
  <2>3. batch.next \in Nat
        BY <1>0 DEF BatchRecord
  <2> QED BY <2>1, <2>2, <2>3
<1>7. \A u \in Unrequested : u[1] = ev.parent
      BY <1>0, <1>2 DEF Handling
<1>8. /\ TraceInv' /\ Pending' = Pending \cup {New}
      /\ Unrequested' = {u \in Unrequested : ev.calls[1].id # trace[u[1]].calls[u[2]].id}
      /\ \A r \in DOMAIN trace : StartsOf(r)' = StartsOf(r) /\ EndsOf(r)' = EndsOf(r)
      /\ \A r : r = New => StartsOf(r)' = {} /\ EndsOf(r)' = {}
      /\ Events({"requested"})' = Events({"requested"}) \cup {New}
      BY <1>0, <1>2, <1>3, <1>4, <1>6, <1>7, RequestedEvent
<1>9. UNCHANGED <<world, meddling>>
      BY DEF Request
<1>10. Truth'
  <2>1. {r \in Events({"requested"})' : StartsOf(r)' # {}} =
           {r \in Events({"requested"}) : StartsOf(r) # {}}
        BY <1>8 DEF Events
  <2>2. Interrupted' = Interrupted
        BY <1>8 DEF Interrupted, Pending, Events
  <2>3. ev.kind \notin {"started"} \cup Terminal
        BY <1>2 DEF Terminal
  <2> QED BY <1>3, <1>4, <1>9, <2>1, <2>2, <2>3, TruthKept DEF EffectInv
<1>11. /\ batch'.of = batch.of /\ batch'.calls = batch.calls /\ batch'.next = batch.next
       /\ batch'.shown = batch.shown /\ batch' \in BatchRecord
       /\ current' = [request |-> New, started |-> 0] /\ at' \in {"requested", "closing"}
  <2>1. batch' = [batch EXCEPT !.run = @ /\ ~cancelled]
        BY DEF Request
  <2>2. (batch.run /\ ~cancelled) \in BOOLEAN
        OBVIOUS
  <2> QED BY <1>0, <1>3, <2>1, <2>2 DEF Request, BatchRecord
<1>12. Typed'
  <2>1. batch'.next \in 1..(Len(batch'.calls) + 1) /\ batch'.calls \in Seq(Call)
        BY <1>11 DEF Typed, TypeOK
  <2>2. current' \in [request : 0..Len(trace'), started : 0..Len(trace')]
        BY <1>3, <1>11 DEF New
  <2>3. /\ effect' \in [DOMAIN effect' -> {"none", "moot", "changed"}]
        /\ DOMAIN effect' \subseteq Events({"requested"})'
        /\ \A r \in DOMAIN effect' : effect'[r] \in {"none", "moot", "changed"}
        BY <1>3 DEF Request, Typed, TypeOK, world
  <2>4. /\ {file', seen'} \subseteq Contents /\ cancelled' \in BOOLEAN
        /\ crashes' \in 0..MaxCrashes /\ meddling' \in 0..MaxMeddling
        BY DEF Request, Typed, TypeOK, world
  <2> QED BY <1>3, <1>11, <2>1, <2>2, <2>3, <2>4 DEF Typed, TypeOK, EventRecord
<1>13. \A r : r = New => CallOf(r)' = ev.calls[1] /\ trace'[r] = ev
       BY <1>3 DEF CallOf, Grown
<1>14. \A r \in DOMAIN trace : CallOf(r)' = CallOf(r) /\ trace'[r] = trace[r]
       BY <1>3 DEF CallOf, Grown
<1>15. \A u \in Unrequested' : u \in Unrequested /\ u[2] # batch.next
  <2>1. \A u \in Unrequested : trace[u[1]].calls = batch.calls
        BY <1>0 DEF Handling
  <2> QED BY <1>2, <1>8, <2>1
<1>16. batch.of \in DOMAIN trace /\ batch.calls = trace[batch.of].calls
         /\ trace[batch.of].kind \in {"answer", "ended"}
       BY <1>0 DEF Handling, Events
<1>17. Handling'
  <2>1. batch'.of \in Events({"answer", "ended"})' /\ batch'.calls = trace'[batch'.of].calls
        BY <1>3, <1>11, <1>14, <1>16 DEF Events, Grown
  <2>2. trace'[batch'.of].kind = "answer" => batch'.shown
        BY <1>0, <1>11, <1>14, <1>16 DEF Handling
  <2>3. \A u \in Unrequested' : u[1] = batch'.of /\ u[2] >= batch'.next
        BY <1>0, <1>8, <1>11 DEF Handling
  <2>4. \A r \in Events({"requested"})' :
          trace'[r].parent = batch'.of =>
            \/ r = current'.request /\ at' # "batch"
            \/ \E i \in DOMAIN batch'.calls : i < batch'.next /\ CallOf(r)' = batch'.calls[i]
    <3> SUFFICES ASSUME NEW r \in Events({"requested"})', trace'[r].parent = batch.of, r # New
                 PROVE  \E i \in DOMAIN batch.calls : i < batch.next /\ CallOf(r)' = batch.calls[i]
        BY <1>11
    <3>1. r \in Events({"requested"}) /\ r \in DOMAIN trace
          BY <1>8 DEF Events
    <3> QED BY <3>1, <1>0, <1>14 DEF Handling
  <2> QED BY <2>1, <2>2, <2>3, <2>4 DEF Handling
<1>18. Calling'
  <2>1. Pending' = {current'.request}
        BY <1>0, <1>8, <1>11
  <2>2. trace'[current'.request].parent = batch'.of
        BY <1>2, <1>11, <1>13
  <2>3. trace'[current'.request].calls[1] = batch'.calls[batch'.next]
        BY <1>2, <1>11, <1>13
  <2>4. <<batch'.of, batch'.next>> \notin Unrequested'
        BY <1>11, <1>15
  <2>5. {e \in Events({"started"})' : trace'[e].parent = current'.request} = {}
    <3>1. PICK r : r = New
          OBVIOUS
    <3>2. StartsOf(r)' = {} /\ current'.request = r
          BY <3>1, <1>8, <1>11
    <3> QED BY <3>2 DEF StartsOf
  <2>6. batch'.next \in DOMAIN batch'.calls
        BY <1>0, <1>11
  <2> QED BY <1>11, <2>1, <2>2, <2>3, <2>4, <2>5, <2>6 DEF Calling, CallOf, StartsOf
<1>19. PhaseInv'
       BY <1>11, <1>17, <1>18 DEF PhaseInv
<1>20. EffectInv'
       BY <1>10, <1>11 DEF EffectInv
<1> QED BY <1>8, <1>12, <1>19, <1>20

\* The end of the call at hand, however it came about.
LEMMA RecordStep ==
  ASSUME IInv, at \in {"requested", "closing", "running"}, NEW kind \in Terminal, NEW parent,
         NEW shown \in BOOLEAN, Record(kind, parent, shown),
         \/ parent = current.request /\ at # "running" /\ kind = "failed"
         \/ parent = current.started /\ at = "running" /\ shown,
         trace[batch.of].kind = "answer" => shown,
         meddling = 0 /\ current.request \in DOMAIN effect
             /\ CallOf(current.request).tool \notin ReadOnly =>
           /\ kind = "failed" => effect[current.request] # "changed"
           /\ kind = "completed" => effect[current.request] # "none"
  PROVE  IInv'
<1> USE DEF IInv
<1>0. /\ Handling /\ Calling /\ batch \in BatchRecord
      BY DEF PhaseInv, Typed
<1>a. PICK r : r = current.request
      OBVIOUS
<1>b. /\ r \in Pending /\ Pending = {r} /\ r \in Events({"requested"}) /\ r \in DOMAIN trace
      /\ trace[r].parent = batch.of /\ CallOf(r) = batch.calls[batch.next]
      /\ (parent = r /\ StartsOf(r) = {} /\ kind = "failed") \/ (parent \in StartsOf(r) /\ shown)
      BY <1>0, <1>a DEF Calling, Pending, Events
<1>1. PICK ev : ev = [kind |-> kind, parent |-> parent, calls |-> <<CallOf(r)>>, shown |-> shown]
      OBVIOUS
<1>2. /\ trace' = Append(trace, ev) /\ ev.kind \in Terminal
      /\ ev.kind = kind /\ ev.parent = parent /\ ev.shown = shown
      /\ ev.calls = <<CallOf(r)>>
      BY <1>1, <1>a DEF Record, Log
<1>c. CallOf(r) \in Call
  <2>1. trace \in Seq(EventRecord)
        BY DEF Typed, TypeOK, EventRecord
  <2>2. trace[r] \in EventRecord
        BY <1>b, <2>1
  <2>3. ShapeOf(r) /\ trace[r].kind = "requested"
        BY <1>b DEF TraceInv, Shape, Events
  <2>4. trace[r].calls \in Seq(Call) /\ Len(trace[r].calls) = 1
        BY <2>2, <2>3 DEF ShapeOf, EventRecord
  <2> QED BY <2>4 DEF CallOf
<1>d. /\ parent \in Events({"requested", "started"}) /\ parent \in DOMAIN trace
      /\ CallOf(parent) = CallOf(r) /\ parent \in Nat
  <2>0. trace \in Seq(EventRecord)
        BY DEF Typed, TypeOK, EventRecord
  <2>1. DOMAIN trace \subseteq Nat
        BY <2>0, LenProperties
  <2>2. parent \in StartsOf(r) => CallOf(parent) = CallOf(r)
        BY DEF StartsOf, Events, TraceInv, Shape, ShapeOf
  <2> QED BY <1>b, <2>1, <2>2 DEF StartsOf, Events
<1>e. ev \in EventRecord
  <2>1. <<CallOf(r)>> \in Seq(Call)
        BY <1>c
  <2> QED BY <1>1, <1>d, <2>1 DEF EventRecord
<1>3. /\ Grown(ev) /\ trace' \in Seq(EventRecord) /\ Len(trace') = New
      /\ Events({"requested"}) \subseteq Events({"requested"})'
      /\ Len(trace) \in Nat
      BY <1>2, <1>e, AppendStep
<1>4. Fits(ev)
  <2>1. parent < New
        BY <1>3, <1>d DEF Grown
  <2> QED BY <1>2, <1>d, <2>1 DEF Fits, Terminal
<1>5. /\ \/ ev.parent = r /\ StartsOf(r) = {} /\ ev.kind = "failed"
         \/ ev.parent \in StartsOf(r) /\ ev.shown
      /\ trace[trace[r].parent].kind = "answer" => ev.shown
      BY <1>b, <1>2
<1>6. /\ TraceInv' /\ Pending' = Pending \ {r} /\ Unrequested' = Unrequested
      /\ \A q : StartsOf(q)' = StartsOf(q)
      /\ Events({"requested"})' = Events({"requested"})
      BY <1>b, <1>2, <1>3, <1>4, <1>5, EndedEvent
<1>7. UNCHANGED <<world, meddling>>
      BY DEF Record
<1>8. Truth'
  <2>1. meddling = 0 /\ r \in DOMAIN effect /\ CallOf(r).tool \notin ReadOnly =>
           /\ ev.kind = "failed" => effect[r] # "changed"
           /\ ev.kind = "completed" => effect[r] # "none"
        BY <1>a, <1>2
  <2> QED BY <1>b, <1>2, <1>3, <1>4, <1>5, <1>7, <2>1, TruthAtEnd DEF EffectInv
<1>9. /\ batch'.of = batch.of /\ batch'.calls = batch.calls /\ batch'.next = batch.next + 1
      /\ batch'.shown = batch.shown /\ batch' \in BatchRecord
      /\ current' = NoCall /\ at' = "batch"
      BY <1>0 DEF Record, BatchRecord
<1>10. batch.next \in DOMAIN batch.calls /\ batch.calls \in Seq(Call) /\ batch.next \in Nat
       BY <1>0 DEF Calling, BatchRecord
<1>11. Typed'
  <2>1. batch'.next \in 1..(Len(batch'.calls) + 1) /\ batch'.calls \in Seq(Call)
    <3>1. DOMAIN batch.calls = 1..Len(batch.calls) /\ Len(batch.calls) \in Nat
          BY <1>10, LenProperties
    <3> QED BY <1>9, <1>10, <3>1
  <2>2. current' \in [request : 0..Len(trace'), started : 0..Len(trace')]
        BY <1>3, <1>9 DEF New, NoCall
  <2>3. /\ effect' \in [DOMAIN effect' -> {"none", "moot", "changed"}]
        /\ DOMAIN effect' \subseteq Events({"requested"})'
        /\ \A q \in DOMAIN effect' : effect'[q] \in {"none", "moot", "changed"}
        BY <1>3, <1>7 DEF Typed, TypeOK, world
  <2>4. /\ {file', seen'} \subseteq Contents /\ cancelled' \in BOOLEAN
        /\ crashes' \in 0..MaxCrashes /\ meddling' \in 0..MaxMeddling
        BY DEF Record, Typed, TypeOK, world
  <2> QED BY <1>3, <1>9, <2>1, <2>2, <2>3, <2>4 DEF Typed, TypeOK, EventRecord
<1>12. \A q \in DOMAIN trace : CallOf(q)' = CallOf(q) /\ trace'[q] = trace[q]
       BY <1>3 DEF CallOf, Grown
<1>13. batch.of \in DOMAIN trace /\ batch.calls = trace[batch.of].calls
         /\ trace[batch.of].kind \in {"answer", "ended"}
       BY <1>0 DEF Handling, Events
<1>14. Handling'
  <2>1. batch'.of \in Events({"answer", "ended"})' /\ batch'.calls = trace'[batch'.of].calls
        BY <1>3, <1>9, <1>12, <1>13 DEF Events, Grown
  <2>2. trace'[batch'.of].kind = "answer" => batch'.shown
        BY <1>0, <1>9, <1>12, <1>13 DEF Handling
  <2>3. \A u \in Unrequested' : u[1] = batch'.of /\ u[2] >= batch'.next
    <3> SUFFICES ASSUME NEW u \in Unrequested PROVE u[1] = batch.of /\ u[2] >= batch.next + 1
        BY <1>6, <1>9
    <3>1. u[1] = batch.of /\ u[2] >= batch.next /\ u[2] \in Nat
          BY <1>0, ToolCallBounds DEF Handling, Unrequested
    <3>2. u = <<u[1], u[2]>>
          BY DEF Unrequested
    <3>3. u[2] # batch.next
          BY <1>0, <3>1, <3>2 DEF Calling
    <3> QED BY <1>10, <3>1, <3>3
  <2>4. \A q \in Events({"requested"})' :
          trace'[q].parent = batch'.of =>
            \E i \in DOMAIN batch'.calls : i < batch'.next /\ CallOf(q)' = batch'.calls[i]
    <3> SUFFICES ASSUME NEW q \in Events({"requested"}), trace[q].parent = batch.of
                 PROVE  \E i \in DOMAIN batch.calls : i < batch.next + 1 /\ CallOf(q) = batch.calls[i]
        BY <1>6, <1>9, <1>12 DEF Events
    <3>1. \/ q = r
          \/ \E i \in DOMAIN batch.calls : i < batch.next /\ CallOf(q) = batch.calls[i]
          BY <1>0, <1>a DEF Handling
    <3>2. \A i \in DOMAIN batch.calls : i \in Nat
          BY <1>10, LenProperties
    <3> QED BY <1>b, <1>10, <3>1, <3>2
  <2> QED BY <2>1, <2>2, <2>3, <2>4 DEF Handling
<1>15. Pending' = {}
       BY <1>b, <1>6
<1>16. PhaseInv'
       BY <1>9, <1>14, <1>15 DEF PhaseInv
<1>17. EffectInv'
       BY <1>8, <1>9 DEF EffectInv
<1> QED BY <1>6, <1>11, <1>16, <1>17

LEMMA CloseStep ==
  ASSUME IInv, Close
  PROVE  IInv'
<1>1. Handling /\ Calling
      BY DEF IInv, PhaseInv, Close
<1>2. StartsOf(current.request) = {} /\ batch.shown \in BOOLEAN
      BY <1>1 DEF Calling, Close, IInv, Typed, BatchRecord
<1>3. current.request \notin DOMAIN effect
      BY <1>2 DEF IInv, EffectInv, Truth
<1>4. trace[batch.of].kind = "answer" => batch.shown
      BY <1>1 DEF Handling
<1>5. at = "closing" /\ Record("failed", current.request, batch.shown) /\ "failed" \in Terminal
      BY DEF Close, Terminal
<1> QED BY <1>2, <1>3, <1>4, <1>5, RecordStep

LEMMA RefuseStep ==
  ASSUME IInv, Refuse
  PROVE  IInv'
<1>1. Handling /\ Calling
      BY DEF IInv, PhaseInv, Refuse
<1>2. StartsOf(current.request) = {}
      BY <1>1 DEF Calling, Refuse
<1>3. current.request \notin DOMAIN effect
      BY <1>2 DEF IInv, EffectInv, Truth
<1>4. at = "requested" /\ Record("failed", current.request, TRUE) /\ "failed" \in Terminal
      BY DEF Refuse, Terminal
<1> QED BY <1>3, <1>4, RecordStep

LEMMA FinishStep ==
  ASSUME IInv, NEW kind \in Terminal, Finish(kind)
  PROVE  IInv'
<1>1. at = "running" /\ kind \in Outcomes /\ Record(kind, current.started, TRUE)
      BY DEF Finish
<1>2. CallOf(current.request).tool \notin ReadOnly =>
        /\ kind = "failed" => effect[current.request] # "changed"
        /\ kind = "completed" => effect[current.request] # "none"
      BY <1>1 DEF Outcomes, Done, Tool
<1> QED BY <1>1, <1>2, RecordStep

\* No call that is over belongs to a request that is open.
LEMMA EndedIsNotPending ==
  ASSUME TraceInv, NEW r \in Pending
  PROVE  \A e \in Events({"completed", "failed"}) : RequestOf(e) # r
BY DEF Pending, EndsOf, Events, Terminal

LEMMA BeginStep ==
  ASSUME IInv, Begin
  PROVE  IInv'
<1> USE DEF IInv
<1>0. /\ Handling /\ Calling /\ batch \in BatchRecord /\ at = "requested" /\ at' = "running"
      BY DEF PhaseInv, Typed, Begin, Started
<1>a. PICK r : r = current.request
      OBVIOUS
<1>b. /\ Pending = {r} /\ r \in Events({"requested"}) /\ r \in DOMAIN trace /\ StartsOf(r) = {}
      BY <1>0, <1>a DEF Calling, Pending, Events
<1>1. PICK ev : ev = [kind |-> "started", parent |-> r, calls |-> <<CallOf(r)>>, shown |-> FALSE]
      OBVIOUS
<1>2. /\ trace' = Append(trace, ev) /\ ev.kind = "started"
      /\ ev.parent = r /\ ev.calls = <<CallOf(r)>>
      BY <1>1, <1>a DEF Begin, Started, Log
<1>c. CallOf(r) \in Call /\ r \in Nat
  <2>1. trace \in Seq(EventRecord)
        BY DEF Typed, TypeOK, EventRecord
  <2>2. trace[r] \in EventRecord /\ r \in Nat
        BY <1>b, <2>1, LenProperties
  <2>3. ShapeOf(r) /\ trace[r].kind = "requested"
        BY <1>b DEF TraceInv, Shape, Events
  <2>4. trace[r].calls \in Seq(Call) /\ Len(trace[r].calls) = 1
        BY <2>2, <2>3 DEF ShapeOf, EventRecord
  <2> QED BY <2>2, <2>4 DEF CallOf
<1>e. ev \in EventRecord
  <2>1. <<CallOf(r)>> \in Seq(Call)
        BY <1>c
  <2> QED BY <1>1, <1>c, <2>1 DEF EventRecord
<1>3. /\ Grown(ev) /\ trace' \in Seq(EventRecord) /\ Len(trace') = New
      /\ Events({"requested"}) \subseteq Events({"requested"})'
      /\ Len(trace) \in Nat
      BY <1>2, <1>e, AppendStep
<1>4. Fits(ev)
  <2>1. r < New
        BY <1>3, <1>b DEF Grown
  <2> QED BY <1>2, <1>b, <1>c, <2>1 DEF Fits, Terminal
<1>5. Pending = {ev.parent} /\ StartsOf(ev.parent) = {}
      BY <1>b, <1>2
<1>6. /\ TraceInv' /\ Pending' = Pending /\ Unrequested' = Unrequested
      /\ \A q : StartsOf(q)' = IF q = r THEN {New} ELSE StartsOf(q)
      /\ Events({"requested"})' = Events({"requested"})
      BY <1>2, <1>3, <1>4, <1>5, StartedEvent
<1>7. \A q \in DOMAIN trace : CallOf(q)' = CallOf(q) /\ trace'[q] = trace[q]
      BY <1>3 DEF CallOf, Grown
<1>8. /\ DOMAIN effect' = DOMAIN effect \cup {r}
      /\ \A q \in DOMAIN effect : q # r => effect'[q] = effect[q]
      /\ effect'[r] = IF Verdict(CallOf(r).tool) = "completed" THEN "moot" ELSE "none"
      /\ effect' \in [DOMAIN effect' -> {"none", "moot", "changed"}]
  <2>1. effect' = [q \in DOMAIN effect \cup {r} |->
                     IF q # r THEN effect[q]
                     ELSE IF Verdict(CallOf(r).tool) = "completed" THEN "moot" ELSE "none"]
        BY <1>a DEF Begin, Tool
  <2>2. \A q \in DOMAIN effect : effect[q] \in {"none", "moot", "changed"}
        BY DEF Typed, TypeOK
  <2> QED BY <2>1, <2>2
<1>9. UNCHANGED <<batch, cancelled, file, crashes, meddling>> /\ seen' = file
        /\ current' = [request |-> r, started |-> New]
  <2>1. current \in [request : 0..Len(trace), started : 0..Len(trace)]
        BY DEF Typed, TypeOK
  <2>2. current' = [current EXCEPT !.started = New]
        BY <1>3 DEF Begin, Started
  <2> QED BY <1>a, <2>1, <2>2 DEF Begin
<1>10. Typed'
  <2>2. current' \in [request : 0..Len(trace'), started : 0..Len(trace')]
        BY <1>3, <1>9, <1>c, <1>b DEF New, Grown
  <2>3. /\ DOMAIN effect' \subseteq Events({"requested"})'
        /\ \A q \in DOMAIN effect' : effect'[q] \in {"none", "moot", "changed"}
        BY <1>6, <1>8, <1>b DEF Typed, TypeOK
  <2>4. /\ {file', seen'} \subseteq Contents /\ cancelled' \in BOOLEAN
        /\ crashes' \in 0..MaxCrashes /\ meddling' \in 0..MaxMeddling
        /\ batch' \in BatchRecord /\ batch'.next \in 1..(Len(batch'.calls) + 1)
        /\ batch'.calls \in Seq(Call)
        BY <1>9 DEF Typed, TypeOK
  <2> QED BY <1>0, <1>3, <1>8, <2>2, <2>3, <2>4 DEF Typed, TypeOK, EventRecord
<1>11. Handling'
  <2>1. batch.of \in DOMAIN trace /\ batch.calls = trace[batch.of].calls
          /\ trace[batch.of].kind \in {"answer", "ended"}
        BY <1>0 DEF Handling, Events
  <2>2. batch.of \in Events({"answer", "ended"})'
        BY <1>3, <1>7, <2>1 DEF Events, Grown
  <2>3. \A q \in Events({"requested"})' :
          trace'[q].parent = batch'.of =>
            \/ q = current'.request /\ at' # "batch"
            \/ \E i \in DOMAIN batch'.calls : i < batch'.next /\ CallOf(q)' = batch'.calls[i]
    <3> SUFFICES ASSUME NEW q \in Events({"requested"}), trace[q].parent = batch.of, q # r
                 PROVE  \E i \in DOMAIN batch.calls : i < batch.next /\ CallOf(q) = batch.calls[i]
        BY <1>0, <1>6, <1>7, <1>9 DEF Events
    <3> QED BY <1>0, <1>a DEF Handling
  <2> QED BY <1>0, <1>6, <1>7, <1>9, <2>1, <2>2, <2>3 DEF Handling
<1>12. Calling'
  <2>1. trace'[current'.request].parent = batch'.of
          /\ trace'[current'.request].calls[1] = batch'.calls[batch'.next]
        BY <1>0, <1>a, <1>b, <1>7, <1>9 DEF Calling, CallOf
  <2>2. current'.started \in {e \in Events({"started"})' : trace'[e].parent = current'.request}
    <3>1. StartsOf(r)' = {New}
          BY <1>6
    <3> QED BY <3>1, <1>9 DEF StartsOf
  <2> QED BY <1>0, <1>6, <1>9, <1>b, <2>1, <2>2 DEF Calling, CallOf, StartsOf
<1>13. PhaseInv'
       BY <1>0, <1>11, <1>12 DEF PhaseInv
<1>14. FileAgrees(r)'
  <2>1. CallOf(r)' = CallOf(r) /\ file' = file
        BY <1>7, <1>9, <1>b
  <2>2. CASE CallOf(r).tool = "write"
    <3>1. effect'[r] = "none" <=> file # {"replace"}
      <4>1. NoFile # {"replace"}
            BY DEF NoFile
      <4>2. Verdict("write") = IF file = NoFile THEN "failed" ELSE WriteVerdict
        <5>1. CASE file = NoFile
              BY <5>1 DEF Verdict
        <5>2. CASE file # NoFile
              BY <5>2 DEF Verdict
        <5> QED BY <5>1, <5>2
      <4>3. Verdict("write") = "completed" <=> file = {"replace"}
            BY <4>1, <4>2 DEF WriteVerdict
      <4> QED BY <1>8, <2>2, <4>3
    <3> QED BY <2>1, <2>2, <3>1 DEF FileAgrees
  <2>3. CASE CallOf(r).tool = "edit"
    <3>1. effect'[r] # "changed"
          BY <1>8
    <3>2. effect'[r] = "none" => ~("replace" \in file /\ "find" \notin file)
      <4> SUFFICES ASSUME "replace" \in file, "find" \notin file
                   PROVE  effect'[r] = "moot"
          BY <1>8
      <4>0. file # NoFile
        <5>1. "replace" \notin NoFile
              BY DEF NoFile
        <5> QED BY <5>1
      <4>1. file # NoFile /\ {"find", "replace"} \cap file = {"replace"}
        <5>1. \A x : x \in {"find", "replace"} \cap file <=> x \in {"replace"}
              OBVIOUS
        <5> QED BY <4>0, <5>1
      <4>2. Verdict(CallOf(r).tool) = "completed"
            BY <2>3, <4>1 DEF Verdict, EditVerdict
      <4> QED BY <1>8, <4>2
    <3> QED BY <2>1, <2>3, <3>1, <3>2 DEF FileAgrees
  <2>4. CASE CallOf(r).tool \notin {"write", "edit"}
        BY <2>1, <2>4 DEF FileAgrees
  <2> QED BY <2>2, <2>3, <2>4
<1>15. ToldTheTruth'
  <2> SUFFICES ASSUME meddling = 0, NEW e \in Events({"completed", "failed"})',
                      RequestOf(e)' \in DOMAIN effect',
                      CallOf(RequestOf(e))'.tool \notin ReadOnly
               PROVE  effect'[RequestOf(e)'] # (IF trace'[e].kind = "failed" THEN "changed" ELSE "none")
      BY <1>9 DEF ToldTheTruth
  <2>1. e \in Events({"completed", "failed"}) /\ e \in DOMAIN trace /\ e \in Events(Terminal)
        BY <1>2, <1>3, EventsGrow DEF Terminal, Events
  <2> DEFINE q == RequestOf(e)
  <2>2. RequestOf(e)' = q /\ q \in DOMAIN trace /\ trace'[e] = trace[e] /\ q # r
        BY <2>1, <1>3, <1>7, <1>b, OldEnds, EndedIsNotPending DEF Events, TraceInv
  <2>3. CallOf(RequestOf(e))' = CallOf(q)
        BY <2>2, <1>7 DEF CallOf
  <2>4. q \in DOMAIN effect /\ effect'[q] = effect[q]
        BY <2>2, <1>8
  <2> QED BY <2>1, <2>2, <2>3, <2>4 DEF EffectInv, Truth, ToldTheTruth
<1>16. Truth'
  <2>1. DOMAIN effect' = {q \in Events({"requested"})' : StartsOf(q)' # {}}
    <3>1. DOMAIN effect = {q \in Events({"requested"}) : StartsOf(q) # {}}
          BY DEF EffectInv, Truth
    <3> QED BY <3>1, <1>6, <1>8, <1>b
  <2>2. \A q \in DOMAIN effect' : effect'[q] = "changed" => CallOf(q)'.tool \notin ReadOnly
    <3>1. \A q \in DOMAIN effect : effect[q] = "changed" => CallOf(q).tool \notin ReadOnly
          BY DEF EffectInv, Truth
    <3>2. DOMAIN effect \subseteq DOMAIN trace
          BY DEF EffectInv, Truth, Events
    <3>3. effect'[r] # "changed"
          BY <1>8
    <3> QED BY <3>1, <3>2, <3>3, <1>7, <1>8
  <2>3. \A q \in Interrupted' : q = r
        BY <1>6, <1>b DEF Interrupted
  <2> QED BY <2>1, <2>2, <2>3, <1>14, <1>15 DEF Truth
<1>17. EffectInv'
       BY <1>9, <1>16 DEF EffectInv
<1> QED BY <1>6, <1>10, <1>13, <1>17

LEMMA TouchStep ==
  ASSUME IInv, Touch
  PROVE  IInv'
<1> USE DEF IInv
<1>a. PICK r : r = current.request
      OBVIOUS
<1>0. /\ trace' = trace /\ at = "running" /\ meddling' = meddling
      /\ UNCHANGED <<at, batch, current, seen, cancelled, crashes>>
      /\ effect[r] # "changed"
      BY <1>a DEF Touch, process
<1>1. /\ TraceInv' /\ Pending' = Pending /\ Unrequested' = Unrequested
      /\ Interrupted' = Interrupted
      /\ \A K : Events(K)' = Events(K)
      /\ \A q : StartsOf(q)' = StartsOf(q)
      /\ \A e : CallOf(e)' = CallOf(e) /\ RequestOf(e)' = RequestOf(e)
      BY <1>0, SameTrace
<1>2. Calling /\ Handling
      BY <1>0 DEF PhaseInv
<1>3. Pending = {r} /\ r \in Events({"requested"}) /\ StartsOf(r) # {} /\ r \in Interrupted
      BY <1>0, <1>2, <1>a DEF Calling, Pending, Interrupted
<1>4. r \in DOMAIN effect
      BY <1>3 DEF EffectInv, Truth
<1>5. /\ DOMAIN effect' = DOMAIN effect
      /\ \A q \in DOMAIN effect : q # r => effect'[q] = effect[q]
      /\ effect'[r] = IF CallOf(r).tool = "write" /\ file' = file THEN "moot" ELSE "changed"
      /\ effect' \in [DOMAIN effect' -> {"none", "moot", "changed"}]
  <2>1. effect' = [effect EXCEPT ![r] = IF CallOf(r).tool = "write" /\ file' = file THEN "moot"
                                        ELSE "changed"]
        BY <1>a DEF Touch, Tool
  <2>2. effect \in [DOMAIN effect -> {"none", "moot", "changed"}]
        BY DEF Typed
  <2> QED BY <1>4, <2>1, <2>2
<1>6. /\ CallOf(r).tool \in {"write", "edit", "append"}
      /\ CallOf(r).tool = "write" => file' = {"replace"}
      /\ CallOf(r).tool = "edit" => file' = (seen \ {"find"}) \cup {"replace"}
  <2>1. Write \/ Edit \/ AppendTo
        BY DEF Touch
  <2> QED BY <2>1, <1>a DEF Write, Edit, AppendTo, Tool
<1>7. Typed'
  <2>1. file' \in Contents
    <3>1. file \in Contents /\ seen \in Contents
          BY DEF Typed, TypeOK
    <3>2. CASE Write
          BY <3>2 DEF Write, Contents
    <3>3. CASE Edit
      <4>1. seen \in SUBSET {"find", "replace", "tail"}
            BY <3>1, <3>3 DEF Contents, NoFile, Edit
      <4> QED BY <3>3, <4>1 DEF Edit, Contents
    <3>4. CASE AppendTo
      <4>1. file \ NoFile \in SUBSET {"find", "replace", "tail"}
            BY <3>1 DEF Contents, NoFile
      <4> QED BY <3>4, <4>1 DEF AppendTo, Contents
    <3> QED BY <3>2, <3>3, <3>4 DEF Touch
  <2>2. \A q \in DOMAIN effect' : effect'[q] \in {"none", "moot", "changed"}
        BY <1>5
  <2> QED BY <1>0, <1>1, <1>5, <2>1, <2>2 DEF Typed, TypeOK
<1>8. PhaseInv'
  <2>1. Handling'
        BY <1>0, <1>1, <1>2 DEF Handling
  <2>2. Calling'
        BY <1>0, <1>1, <1>2 DEF Calling
  <2> QED BY <1>0, <2>1, <2>2 DEF PhaseInv
<1>9. FileAgrees(r)'
      BY <1>1, <1>5, <1>6 DEF FileAgrees
<1>10. ToldTheTruth'
  <2> SUFFICES ASSUME meddling = 0, NEW e \in Events({"completed", "failed"}),
                      NEW q, q = RequestOf(e), q \in DOMAIN effect, CallOf(q).tool \notin ReadOnly
               PROVE  effect'[q] # (IF trace[e].kind = "failed" THEN "changed" ELSE "none")
      BY <1>0, <1>1, <1>5 DEF ToldTheTruth
  <2>1. q # r
        BY <1>3, EndedIsNotPending
  <2> QED BY <2>1, <1>5 DEF EffectInv, Truth, ToldTheTruth
<1>11. Truth'
  <2>1. \A q \in DOMAIN effect' : effect'[q] = "changed" => CallOf(q)'.tool \notin ReadOnly
        BY <1>1, <1>5, <1>6 DEF EffectInv, Truth, ReadOnly
  <2>2. \A q \in Interrupted' : q = r
        BY <1>1, <1>3 DEF Interrupted
  <2>3. DOMAIN effect' = {q \in Events({"requested"})' : StartsOf(q)' # {}}
        BY <1>1, <1>5 DEF EffectInv, Truth
  <2> QED BY <1>9, <1>10, <2>1, <2>2, <2>3 DEF Truth
<1>12. EffectInv'
  <2> SUFFICES ASSUME meddling = 0, effect'[r] # "changed" PROVE seen = file'
      BY <1>0, <1>11, <1>a DEF EffectInv
  <2>1. file' = file
        BY <1>5
  <2>2. seen = file
        BY <1>0, <1>a DEF EffectInv
  <2> QED BY <2>1, <2>2
<1> QED BY <1>1, <1>7, <1>8, <1>12

(* ------------------------- the passes of a recovery ---------------------- *)

\* A recovery writes an event and leaves the rest of the state alone.
LEMMA LateTyped ==
  ASSUME Typed, trace' \in Seq(EventRecord), Len(trace') = New, Len(trace) \in Nat,
         Events({"requested"}) \subseteq Events({"requested"})',
         UNCHANGED <<batch, seen, cancelled, world, crashes, meddling>>,
         current' = current \/ current' = NoCall \/ current' = [request |-> New, started |-> 0],
         at' \in {"abandoned", "unrequested", "refusal", "unstarted", "reconcile"}
  PROVE  Typed'
<1>1. current' \in [request : 0..Len(trace'), started : 0..Len(trace')]
  <2>1. CASE current' = current
        BY <2>1 DEF Typed, TypeOK, New
  <2>2. CASE current' = NoCall
        BY <2>2 DEF NoCall, New
  <2>3. CASE current' = [request |-> New, started |-> 0]
        BY <2>3 DEF New
  <2> QED BY <2>1, <2>2, <2>3
<1>2. /\ effect' \in [DOMAIN effect' -> {"none", "moot", "changed"}]
      /\ DOMAIN effect' \subseteq Events({"requested"})'
      /\ \A q \in DOMAIN effect' : effect'[q] \in {"none", "moot", "changed"}
      BY DEF Typed, TypeOK, world
<1>3. /\ {file', seen'} \subseteq Contents /\ cancelled' \in BOOLEAN
      /\ crashes' \in 0..MaxCrashes /\ meddling' \in 0..MaxMeddling
      /\ batch' \in BatchRecord /\ batch'.next \in 1..(Len(batch'.calls) + 1)
      /\ batch'.calls \in Seq(Call)
      BY DEF Typed, TypeOK, world
<1> QED BY <1>1, <1>2, <1>3 DEF Typed, TypeOK, EventRecord

LEMMA AbandonStep ==
  ASSUME IInv, Abandon
  PROVE  IInv'
<1> USE DEF IInv
<1>1. CASE OpenRequests = {} /\ Move("unrequested")
  <2>1. OpenRequests' = OpenRequests
        BY <1>1, SameTrace DEF Move
  <2>2. PhaseInv'
        BY <1>1, <2>1 DEF PhaseInv, Move
  <2> QED BY <1>1, <2>2, MoveStep
<1>2. CASE /\ OpenRequests # {}
           /\ trace' = Append(trace, [kind |-> "ended", parent |-> Earliest(OpenRequests),
                                      calls |-> <<>>, shown |-> FALSE])
           /\ UNCHANGED <<process, world, crashes, meddling>>
  <2>1. PICK ev : ev = [kind |-> "ended", parent |-> Earliest(OpenRequests), calls |-> <<>>,
                        shown |-> FALSE]
        OBVIOUS
  <2>2. trace \in Seq(EventRecord) /\ DOMAIN trace = 1..Len(trace) /\ Len(trace) \in Nat
        BY LenProperties DEF Typed, TypeOK, EventRecord
  <2>3. OpenRequests \subseteq DOMAIN trace
        BY DEF OpenRequests, Events
  <2>4. ev.parent \in DOMAIN trace /\ ev.parent \in Nat
    <3>1. OpenRequests \subseteq Nat
          BY <2>2, <2>3
    <3>2. Earliest(OpenRequests) \in OpenRequests
          BY <1>2, <3>1, EarliestIs
    <3> QED BY <2>1, <2>3, <3>1, <3>2
  <2>5. ev \in EventRecord /\ ev.kind = "ended" /\ trace' = Append(trace, ev) /\ ev.calls = <<>>
    <3>1. <<>> \in Seq(Call)
          OBVIOUS
    <3> QED BY <1>2, <2>1, <2>4, <3>1 DEF EventRecord
  <2>6. /\ Grown(ev) /\ trace' \in Seq(EventRecord) /\ Len(trace') = New
        /\ Events({"requested"}) \subseteq Events({"requested"})'
        BY <2>5, AppendStep
  <2>7. Fits(ev)
    <3>1. Distinct(<<>>) /\ Len(<<>>) <= MaxCalls
          BY ToolCallBounds DEF Distinct
    <3>2. ev.parent < New
          BY <2>4, <2>6 DEF Grown
    <3> QED BY <2>4, <2>5, <3>1, <3>2 DEF Fits, Terminal
  <2>8. TraceInv'
        BY <2>5, <2>6, <2>7, QuietEvent
  <2>9. Truth'
        BY <1>2, <2>5, <2>6, <2>7, TruthAtQuiet DEF EffectInv
  <2>10. at' = "abandoned"
         BY <1>2 DEF Abandon, process
  <2>11. Typed'
         BY <1>2, <2>2, <2>6, <2>10, LateTyped DEF process
  <2>12. PhaseInv' /\ EffectInv'
         BY <2>9, <2>10 DEF PhaseInv, EffectInv
  <2> QED BY <2>8, <2>11, <2>12
<1> QED BY <1>1, <1>2 DEF Abandon

LEMMA RequestLateStep ==
  ASSUME IInv, RequestLate
  PROVE  IInv'
<1> USE DEF IInv
<1>1. CASE Unrequested = {} /\ Move("unstarted")
  <2>1. OpenRequests' = OpenRequests /\ Unrequested' = Unrequested
        BY <1>1, SameTrace DEF Move
  <2>2. PhaseInv'
        BY <1>1, <2>1 DEF PhaseInv, Move, RequestLate
  <2> QED BY <1>1, <2>2, MoveStep
<1>2. CASE Unrequested # {}
  <2>a. trace \in Seq(EventRecord) /\ DOMAIN trace = 1..Len(trace) /\ Len(trace) \in Nat
        BY LenProperties DEF Typed, TypeOK, EventRecord
  <2>b. PICK u \in Unrequested : u = FirstUnrequested
    <3>1. Events({"answer"}) \subseteq Nat
          BY <2>a DEF Events
    <3> QED BY <1>2, <3>1, ToolCallBounds, FirstUnrequestedIs
  <2>c. /\ u[1] \in Events({"answer"}) /\ u[1] \in DOMAIN trace /\ u[1] \in Nat
        /\ u[2] \in DOMAIN trace[u[1]].calls
        /\ \A r \in Events({"requested"}) :
             ~(trace[r].parent = u[1] /\ CallOf(r).id = trace[u[1]].calls[u[2]].id)
        BY <2>a DEF Unrequested, Events
  <2>d. trace[u[1]].calls[u[2]] \in Call
    <3>1. trace[u[1]] \in EventRecord
          BY <2>a, <2>c
    <3>2. trace[u[1]].calls \in Seq(Call)
          BY <3>1 DEF EventRecord
    <3> QED BY <2>c, <3>2
  <2>1. PICK ev : ev = [kind |-> "requested", parent |-> u[1],
                        calls |-> <<trace[u[1]].calls[u[2]]>>, shown |-> FALSE]
        OBVIOUS
  <2>2. /\ trace' = Append(trace, ev) /\ at' = "refusal"
        /\ current' = [request |-> Len(trace'), started |-> 0]
        /\ UNCHANGED <<batch, seen, cancelled, world, crashes, meddling>>
        BY <1>2, <2>b, <2>1 DEF RequestLate, Log, Move
  <2>3. ev \in EventRecord /\ ev.kind = "requested" /\ ev.parent = u[1]
          /\ ev.calls[1] = trace[u[1]].calls[u[2]]
    <3>1. <<trace[u[1]].calls[u[2]]>> \in Seq(Call)
          BY <2>d
    <3> QED BY <2>1, <2>c, <3>1 DEF EventRecord
  <2>4. /\ Grown(ev) /\ trace' \in Seq(EventRecord) /\ Len(trace') = New
        /\ Events({"requested"}) \subseteq Events({"requested"})'
        BY <2>2, <2>3, AppendStep
  <2>5. Fits(ev)
    <3>1. ev.parent < New
          BY <2>c, <2>3, <2>4 DEF Grown
    <3>2. u[1] \in Events({"answer", "ended"})
          BY <2>c DEF Events
    <3> QED BY <2>1, <2>c, <2>3, <3>1, <3>2 DEF Fits, Terminal
  <2>6. /\ \A r \in Pending : trace[r].parent = ev.parent
        /\ \A v \in Unrequested : v[1] = ev.parent
        BY <2>3 DEF TraceInv, OneBatch
  <2>7. /\ TraceInv' /\ Pending' = Pending \cup {New}
        /\ \A r \in DOMAIN trace : StartsOf(r)' = StartsOf(r) /\ EndsOf(r)' = EndsOf(r)
        /\ \A r : r = New => StartsOf(r)' = {} /\ EndsOf(r)' = {}
        /\ Events({"requested"})' = Events({"requested"}) \cup {New}
        BY <2>c, <2>3, <2>4, <2>5, <2>6, RequestedEvent
  <2>8. Truth'
    <3>1. {r \in Events({"requested"})' : StartsOf(r)' # {}} =
             {r \in Events({"requested"}) : StartsOf(r) # {}}
          BY <2>7 DEF Events
    <3>2. Interrupted' = Interrupted
          BY <2>7 DEF Interrupted, Pending, Events
    <3>3. ev.kind \notin {"started"} \cup Terminal
          BY <2>3 DEF Terminal
    <3>4. UNCHANGED <<world, meddling>>
          BY <2>2
    <3> QED BY <2>4, <2>5, <3>1, <3>2, <3>3, <3>4, TruthKept DEF EffectInv
  <2>9. Typed'
        BY <2>2, <2>4, <2>a, LateTyped
  <2>10. current'.request \in Unstarted'
         BY <2>2, <2>4, <2>7 DEF Unstarted
  <2>11. OpenRequests' = {}
    <3>1. OpenRequests = {}
          BY <1>2 DEF PhaseInv, RequestLate
    <3>2. OpenRequests' = OpenRequests
          BY <2>3, <2>4, OpenRequestsStay
    <3> QED BY <3>1, <3>2
  <2>12. PhaseInv' /\ EffectInv'
         BY <2>2, <2>8, <2>10, <2>11 DEF PhaseInv, EffectInv
  <2> QED BY <2>7, <2>9, <2>12
<1> QED BY <1>1, <1>2 DEF RequestLate

\* An end that a recovery writes for an open call.
LEMMA LateEnd ==
  ASSUME IInv, NEW r \in Pending, NEW kind \in Terminal, NEW parent, NEW ev,
         ev = [kind |-> kind, parent |-> parent, calls |-> <<CallOf(r)>>, shown |-> TRUE],
         trace' = Append(trace, ev), UNCHANGED <<world, meddling>>,
         \/ parent = r /\ StartsOf(r) = {} /\ kind = "failed"
         \/ parent \in StartsOf(r),
         meddling = 0 /\ r \in DOMAIN effect /\ CallOf(r).tool \notin ReadOnly =>
           /\ kind = "failed" => effect[r] # "changed"
           /\ kind = "completed" => effect[r] # "none"
  PROVE  /\ TraceInv' /\ Truth' /\ Pending' = Pending \ {r} /\ Unrequested' = Unrequested
         /\ OpenRequests' = OpenRequests /\ \A q : StartsOf(q)' = StartsOf(q)
         /\ trace' \in Seq(EventRecord) /\ Len(trace') = New /\ Len(trace) \in Nat
         /\ Events({"requested"}) \subseteq Events({"requested"})'
<1> USE DEF IInv
<1>1. r \in Events({"requested"}) /\ r \in DOMAIN trace /\ trace[r].kind = "requested"
      BY DEF Pending, Events
<1>2. trace \in Seq(EventRecord) /\ DOMAIN trace \subseteq Nat
      BY LenProperties DEF Typed, TypeOK, EventRecord
<1>3. CallOf(r) \in Call
  <2>1. trace[r] \in EventRecord
        BY <1>1, <1>2
  <2>2. ShapeOf(r)
        BY <1>1 DEF TraceInv, Shape
  <2>3. trace[r].calls \in Seq(Call) /\ Len(trace[r].calls) = 1
        BY <1>1, <2>1, <2>2 DEF ShapeOf, EventRecord
  <2> QED BY <2>3 DEF CallOf
<1>4. /\ parent \in Events({"requested", "started"}) /\ parent \in DOMAIN trace
      /\ CallOf(parent) = CallOf(r) /\ parent \in Nat
  <2>1. parent \in StartsOf(r) => CallOf(parent) = CallOf(r)
        BY DEF StartsOf, Events, TraceInv, Shape, ShapeOf
  <2> QED BY <1>1, <1>2, <2>1 DEF StartsOf, Events
<1>5. ev \in EventRecord /\ ev.kind = kind /\ ev.parent = parent /\ ev.shown = TRUE
        /\ ev.calls = <<CallOf(r)>>
  <2>1. <<CallOf(r)>> \in Seq(Call)
        BY <1>3
  <2> QED BY <1>4, <2>1 DEF EventRecord
<1>6. /\ Grown(ev) /\ trace' \in Seq(EventRecord) /\ Len(trace') = New
      /\ Events({"requested"}) \subseteq Events({"requested"})' /\ Len(trace) \in Nat
      BY <1>5, AppendStep
<1>7. Fits(ev)
  <2>1. parent < New
        BY <1>4, <1>6 DEF Grown
  <2> QED BY <1>4, <1>5, <2>1 DEF Fits, Terminal
<1>8. /\ \/ ev.parent = r /\ StartsOf(r) = {} /\ ev.kind = "failed"
         \/ ev.parent \in StartsOf(r) /\ ev.shown
      /\ trace[trace[r].parent].kind = "answer" => ev.shown
      BY <1>5
<1>9. /\ TraceInv' /\ Pending' = Pending \ {r} /\ Unrequested' = Unrequested
      /\ \A q : StartsOf(q)' = StartsOf(q)
      BY <1>5, <1>6, <1>7, <1>8, EndedEvent
<1>10. Truth'
       BY <1>5, <1>6, <1>7, <1>8, TruthAtEnd DEF EffectInv
<1>11. OpenRequests' = OpenRequests
       BY <1>5, <1>6, OpenRequestsStay
<1> QED BY <1>6, <1>9, <1>10, <1>11

LEMMA FailLateStep ==
  ASSUME IInv, FailLate
  PROVE  IInv'
<1> USE DEF IInv
<1>1. PICK r : r = current.request
      OBVIOUS
<1>2. r \in Pending /\ StartsOf(r) = {} /\ OpenRequests = {} /\ r \notin DOMAIN effect
  <2>1. current.request \in Unstarted /\ OpenRequests = {}
        BY DEF PhaseInv, FailLate
  <2> QED BY <1>1, <2>1 DEF Unstarted, EffectInv, Truth
<1>3. PICK ev : ev = [kind |-> "failed", parent |-> r, calls |-> <<CallOf(r)>>, shown |-> TRUE]
      OBVIOUS
<1>4. /\ trace' = Append(trace, ev) /\ UNCHANGED <<world, meddling>> /\ "failed" \in Terminal
      /\ current' = NoCall /\ at' = "unrequested"
      /\ UNCHANGED <<batch, seen, cancelled, crashes>>
      BY <1>1, <1>3 DEF FailLate, Log, Terminal
<1>5. /\ TraceInv' /\ Truth' /\ OpenRequests' = OpenRequests
      /\ trace' \in Seq(EventRecord) /\ Len(trace') = New /\ Len(trace) \in Nat
      /\ Events({"requested"}) \subseteq Events({"requested"})'
      BY <1>2, <1>3, <1>4, LateEnd
<1>6. Typed'
      BY <1>4, <1>5, LateTyped
<1>7. PhaseInv' /\ EffectInv'
      BY <1>2, <1>4, <1>5 DEF PhaseInv, EffectInv
<1> QED BY <1>5, <1>6, <1>7

LEMMA FailUnstartedStep ==
  ASSUME IInv, FailUnstarted
  PROVE  IInv'
<1> USE DEF IInv
<1>0. OpenRequests = {} /\ Unrequested = {}
      BY DEF PhaseInv, FailUnstarted
<1>1. CASE Unstarted = {} /\ Move("restore")
  <2>1. OpenRequests' = OpenRequests /\ Unrequested' = Unrequested /\ Unstarted' = Unstarted
        BY <1>1, SameTrace DEF Move
  <2>2. PhaseInv'
        BY <1>0, <1>1, <2>1 DEF PhaseInv, Move
  <2> QED BY <1>1, <2>2, MoveStep
<1>2. CASE Unstarted # {}
  <2>1. PICK r : r = Earliest(Unstarted)
        OBVIOUS
  <2>2. r \in Pending /\ StartsOf(r) = {} /\ r \notin DOMAIN effect
    <3>1. DOMAIN trace \subseteq Nat
          BY LenProperties DEF Typed, TypeOK
    <3>2. Unstarted \subseteq Nat
          BY <3>1 DEF Unstarted, Pending, Events
    <3>3. r \in Unstarted
          BY <1>2, <2>1, <3>2, EarliestIs
    <3> QED BY <3>3 DEF Unstarted, EffectInv, Truth
  <2>3. PICK ev : ev = [kind |-> "failed", parent |-> r, calls |-> <<CallOf(r)>>, shown |-> TRUE]
        OBVIOUS
  <2>4. /\ trace' = Append(trace, ev) /\ "failed" \in Terminal
        /\ UNCHANGED <<process, world, crashes, meddling>>
        BY <1>2, <2>1, <2>3 DEF FailUnstarted, Log, Terminal
  <2>5. /\ TraceInv' /\ Truth' /\ OpenRequests' = OpenRequests /\ Unrequested' = Unrequested
        /\ trace' \in Seq(EventRecord) /\ Len(trace') = New /\ Len(trace) \in Nat
        /\ Events({"requested"}) \subseteq Events({"requested"})'
        BY <2>2, <2>3, <2>4, LateEnd
  <2>6. UNCHANGED <<at, batch, current, seen, cancelled>> /\ at' = "unstarted"
        BY <2>4 DEF process, FailUnstarted
  <2>7. Typed'
        BY <2>4, <2>5, <2>6, LateTyped
  <2>8. PhaseInv' /\ EffectInv'
        BY <1>0, <2>5, <2>6 DEF PhaseInv, EffectInv
  <2> QED BY <2>5, <2>7, <2>8
<1> QED BY <1>1, <1>2 DEF FailUnstarted

\* scan_tool_lifecycles finds nothing to object to in any trace there can be.
LEMMA LifecyclesAreValid ==
  ASSUME IInv
  PROVE  LifecyclesValid
<1> SUFFICES ASSUME NEW r \in Events({"requested"})
             PROVE  /\ Cardinality(StartsOf(r)) <= 1 /\ Cardinality(EndsOf(r)) <= 1
                    /\ \A e \in EndsOf(r) :
                         /\ trace[e].kind = "completed" => StartsOf(r) # {}
                         /\ \A s \in StartsOf(r) : s < e
    BY DEF LifecyclesValid
<1> USE DEF IInv, TraceInv
<1>1. \A S : (\A x, y \in S : x = y) => Cardinality(S) <= 1
  <2> SUFFICES ASSUME NEW S, \A x, y \in S : x = y PROVE Cardinality(S) <= 1
      OBVIOUS
  <2>1. CASE S = {}
        BY <2>1, FS_EmptySet
  <2>2. CASE S # {}
    <3>1. PICK x \in S : S = {x}
          BY <2>2
    <3>2. Cardinality(S) = 1
          BY <3>1, FS_Singleton
    <3> QED BY <3>2
  <2> QED BY <2>1, <2>2
<1>2. \A s, t \in StartsOf(r) : s = t
      BY DEF StartsOf, Unique
<1>3. \A e, f \in EndsOf(r) : e = f
      BY DEF EndsOf, Unique
<1>4. ASSUME NEW e \in EndsOf(r)
      PROVE  /\ trace[e].kind = "completed" => StartsOf(r) # {}
             /\ \A s \in StartsOf(r) : s < e
  <2>1. e \in Events(Terminal) /\ RequestOf(e) = r /\ ShapeOf(e) /\ trace[e].kind \in Terminal
        BY DEF EndsOf, Shape, Events
  <2>2. EndFits(e) /\ trace[e].parent \in Events({"requested", "started"})
          /\ trace[e].parent < e
        BY <2>1 DEF Unique, ShapeOf
  <2>3. trace[e].kind = "completed" => trace[e].parent \in StartsOf(r)
        BY <2>1, <2>2 DEF EndFits, RequestOf, StartsOf, Events
  <2>4. \A s \in StartsOf(r) : trace[e].parent = s
        BY <2>1 DEF Unique, StartsOf
  <2> QED BY <2>2, <2>3, <2>4
<1> QED BY <1>1, <1>2, <1>3, <1>4

\* What a resume refuses has an id that was handed out again.
LEMMA MisalignedIsReused ==
  ASSUME IInv, ~Aligned
  PROVE  ReusedId
<1> USE DEF IInv, TraceInv
<1>1. \A e \in Events(Terminal) : EndFits(e) /\ ShapeOf(e) /\ trace[e].kind \in Terminal
      BY DEF Unique, Shape, Events
<1>2. \A e \in Events(Terminal) : ~trace[e].shown =>
        trace[trace[e].parent].kind = "requested" /\ trace[e].kind = "failed"
      BY <1>1 DEF EndFits, ShapeOf, Events
<1>3. PICK e \in Events({"completed", "failed", "unknown"}) :
        /\ ~trace[e].shown
        /\ trace[e].kind = "completed" \/
             \E s \in Events({"started"}) : s < e /\ CallOf(s).id = CallOf(e).id
      BY DEF Aligned, Events
<1>4. e \in Events(Terminal) /\ e \in Events({"failed"})
        /\ trace[trace[e].parent].kind = "requested" /\ trace[e].kind = "failed"
      BY <1>2, <1>3 DEF Events, Terminal
<1>5. PICK s \in Events({"started"}) : s < e /\ CallOf(s).id = CallOf(e).id
      BY <1>3, <1>4
<1>6. RequestOf(e) # trace[s].parent
  <2> SUFFICES ASSUME trace[s].parent = RequestOf(e) PROVE FALSE
      OBVIOUS
  <2>1. trace[e].parent = s
        BY <1>4 DEF Unique
  <2> QED BY <1>4, <1>5, <2>1 DEF Events
<1> QED BY <1>4, <1>5, <1>6 DEF ReusedId

LEMMA RestoreStep ==
  ASSUME IInv, Restore
  PROVE  IInv'
<1> USE DEF IInv
<1>1. OpenRequests = {} /\ Unrequested = {} /\ Unstarted = {}
      BY DEF PhaseInv, Restore
<1>2. trace' = trace
      BY DEF Restore, Move
<1>3. Unrequested' = Unrequested /\ Unstarted' = Unstarted /\ ReusedId' = ReusedId
      BY <1>2, SameTrace
<1>4. CASE Restorable /\ Move("reconcile")
  <2>1. PhaseInv'
        BY <1>1, <1>3, <1>4 DEF PhaseInv, Move
  <2> QED BY <1>4, <2>1, MoveStep
<1>5. CASE ~Restorable /\ Move("refused")
  <2>1. ReusedId
        BY <1>1, <1>5, LifecyclesAreValid, MisalignedIsReused DEF Restorable
  <2>2. PhaseInv'
        BY <1>3, <1>5, <2>1 DEF PhaseInv, Move
  <2> QED BY <1>5, <2>2, MoveStep
<1> QED BY <1>4, <1>5 DEF Restore

\* What looking at the file says is true of the call, if nobody else had it.
LEMMA VerdictIsTrue ==
  ASSUME NEW r, FileAgrees(r), Verdict(CallOf(r).tool) # "inspect",
         CallOf(r).tool \in {"read", "write", "edit", "append"},
         CallOf(r).tool \notin ReadOnly, effect[r] \in {"none", "moot", "changed"}
  PROVE  /\ Verdict(CallOf(r).tool) = "failed" => effect[r] # "changed"
         /\ Verdict(CallOf(r).tool) = "completed" => effect[r] # "none"
<1>1. CASE CallOf(r).tool = "append"
  <2>1. Verdict("append") = "inspect"
        BY DEF Verdict
  <2> QED BY <1>1, <2>1
<1>2. CASE CallOf(r).tool = "write"
  <2>1. Verdict("write") = IF file = NoFile THEN "failed" ELSE WriteVerdict
    <3>1. CASE file = NoFile
          BY <3>1 DEF Verdict
    <3>2. CASE file # NoFile
          BY <3>2 DEF Verdict
    <3> QED BY <3>1, <3>2
  <2>2. NoFile # {"replace"}
        BY DEF NoFile
  <2>3. effect[r] = "none" <=> file # {"replace"}
        BY <1>2 DEF FileAgrees
  <2>4. Verdict("write") = "completed" => effect[r] # "none"
        BY <2>1, <2>2, <2>3 DEF WriteVerdict
  <2>5. Verdict("write") = "failed" => effect[r] # "changed"
        BY <2>1, <2>2, <2>3 DEF WriteVerdict
  <2> QED BY <1>2, <2>4, <2>5
<1>3. CASE CallOf(r).tool = "edit"
  <2>1. /\ effect[r] = "changed" => "replace" \in file /\ "find" \notin file
        /\ effect[r] = "none" => ~("replace" \in file /\ "find" \notin file)
        BY <1>3 DEF FileAgrees
  <2>2. "replace" \notin NoFile /\ "find" \notin NoFile
        BY DEF NoFile
  <2>3. CASE file = NoFile
    <3>1. Verdict("edit") = "failed"
          BY <2>3 DEF Verdict
    <3> QED BY <1>3, <2>1, <2>2, <2>3, <3>1
  <2>4. CASE file # NoFile
    <3>1. Verdict("edit") = EditVerdict
          BY <2>4 DEF Verdict
    <3>2. CASE {"find", "replace"} \cap file = {"replace"}
      <4>1. EditVerdict = "completed"
            BY <3>2 DEF EditVerdict
      <4>2. "replace" \in file /\ "find" \notin file
            BY <3>2
      <4> QED BY <1>3, <2>1, <3>1, <4>1, <4>2
    <3>3. CASE {"find", "replace"} \cap file = {"find"}
      <4>1. {"find"} # {"replace"}
            OBVIOUS
      <4>2. EditVerdict = "failed"
            BY <3>3, <4>1 DEF EditVerdict
      <4>3. "replace" \notin file
            BY <3>3
      <4> QED BY <1>3, <2>1, <3>1, <4>2, <4>3
    <3>4. CASE {"find", "replace"} \cap file \notin {{"replace"}, {"find"}}
      <4>1. EditVerdict = "inspect"
            BY <3>4 DEF EditVerdict
      <4> QED BY <1>3, <3>1, <4>1
    <3> QED BY <3>2, <3>3, <3>4
  <2> QED BY <2>3, <2>4
<1> QED BY <1>1, <1>2, <1>3 DEF ReadOnly

LEMMA VerdictIsAnEnd ==
  ASSUME NEW tool \in {"read", "write", "edit", "append"}, Verdict(tool) # "inspect"
  PROVE  Verdict(tool) \in Terminal
<1>1. WriteVerdict \in {"completed", "inspect"} /\ EditVerdict \in {"completed", "failed", "inspect"}
  <2>1. EditVerdict \in {"completed", "failed", "inspect"}
    <3>1. CASE {"find", "replace"} \cap file = {"replace"}
          BY <3>1 DEF EditVerdict
    <3>2. CASE {"find", "replace"} \cap file = {"find"}
      <4>1. {"find"} # {"replace"}
            OBVIOUS
      <4> QED BY <3>2, <4>1 DEF EditVerdict
    <3>3. CASE {"find", "replace"} \cap file \notin {{"replace"}, {"find"}}
          BY <3>3 DEF EditVerdict
    <3> QED BY <3>1, <3>2, <3>3
  <2> QED BY <2>1 DEF WriteVerdict
<1>2. /\ Verdict("read") = "failed" /\ Verdict("append") = "inspect"
      /\ file = NoFile => Verdict("write") = "failed" /\ Verdict("edit") = "failed"
      /\ file # NoFile => Verdict("write") = WriteVerdict /\ Verdict("edit") = EditVerdict
  <2>1. Verdict("read") = "failed"
        BY DEF Verdict
  <2>2. Verdict("append") = "inspect"
        BY DEF Verdict
  <2>3. file = NoFile => Verdict("write") = "failed"
        BY DEF Verdict
  <2>4. file = NoFile => Verdict("edit") = "failed"
        BY DEF Verdict
  <2>5. file # NoFile => Verdict("write") = WriteVerdict
        BY DEF Verdict
  <2>6. file # NoFile => Verdict("edit") = EditVerdict
        BY DEF Verdict
  <2> QED BY <2>1, <2>2, <2>3, <2>4, <2>5, <2>6
<1> QED BY <1>1, <1>2 DEF Terminal

LEMMA ReconcileStep ==
  ASSUME IInv, Reconcile
  PROVE  IInv'
<1> USE DEF IInv
<1>0. Unrequested = {} /\ Unstarted = {} /\ at = "reconcile"
      BY DEF PhaseInv, Reconcile
<1>1. CASE Interrupted = {} /\ Move("idle")
  <2>1. Pending' = Pending /\ Unrequested' = Unrequested
        BY <1>1, SameTrace DEF Move
  <2>2. Pending = {}
        BY <1>0, <1>1 DEF Interrupted, Unstarted
  <2>3. PhaseInv'
        BY <1>0, <1>1, <2>1, <2>2 DEF PhaseInv, Move
  <2> QED BY <1>1, <2>3, MoveStep
<1>2. CASE Move("blocked")
  <2>1. PhaseInv'
        BY <1>2 DEF PhaseInv, Move
  <2> QED BY <1>2, <2>1, MoveStep
<1>3. CASE /\ Interrupted # {}
           /\ Verdict(CallOf(Earliest(Interrupted)).tool) # "inspect"
           /\ trace' = Log(Verdict(CallOf(Earliest(Interrupted)).tool),
                           Earliest(StartsOf(Earliest(Interrupted))),
                           CallOf(Earliest(Interrupted)), TRUE)
           /\ UNCHANGED <<process, world, crashes, meddling>>
  <2>1. PICK r : r = Earliest(Interrupted)
        OBVIOUS
  <2>2. PICK kind : kind = Verdict(CallOf(r).tool)
        OBVIOUS
  <2>3. PICK parent : parent = Earliest(StartsOf(r))
        OBVIOUS
  <2>4. DOMAIN trace \subseteq Nat /\ trace \in Seq(EventRecord)
        BY LenProperties DEF Typed, TypeOK, EventRecord
  <2>5. r \in Interrupted /\ r \in Pending /\ parent \in StartsOf(r)
    <3>1. Interrupted \subseteq Nat
          BY <2>4 DEF Interrupted, Pending, Events
    <3>2. r \in Interrupted
          BY <1>3, <2>1, <3>1, EarliestIs
    <3>3. StartsOf(r) # {} /\ StartsOf(r) \subseteq Nat /\ r \in Pending
          BY <2>4, <3>2 DEF Interrupted, StartsOf, Events
    <3>4. parent \in StartsOf(r)
          BY <2>3, <3>3, EarliestIs
    <3> QED BY <3>2, <3>3, <3>4
  <2>6. r \in DOMAIN effect /\ effect[r] \in {"none", "moot", "changed"}
    <3>1. r \in DOMAIN effect
          BY <2>5 DEF EffectInv, Truth, Interrupted, Pending
    <3> QED BY <3>1 DEF Typed, TypeOK
  <2>7. CallOf(r).tool \in {"read", "write", "edit", "append"}
    <3>1. r \in DOMAIN trace /\ trace[r].kind = "requested"
          BY <2>5 DEF Pending, Events
    <3>2. trace[r] \in EventRecord /\ ShapeOf(r)
          BY <2>4, <3>1 DEF TraceInv, Shape
    <3>3. trace[r].calls \in Seq(Call) /\ Len(trace[r].calls) = 1
          BY <3>1, <3>2 DEF ShapeOf, EventRecord
    <3>4. CallOf(r) \in Call
          BY <3>3 DEF CallOf
    <3> QED BY <3>4, ToolCallBounds DEF Call
  <2>8. kind \in Terminal
        BY <1>3, <2>1, <2>2, <2>7, VerdictIsAnEnd
  <2>9. meddling = 0 /\ r \in DOMAIN effect /\ CallOf(r).tool \notin ReadOnly =>
           /\ kind = "failed" => effect[r] # "changed"
           /\ kind = "completed" => effect[r] # "none"
    <3> SUFFICES ASSUME meddling = 0, CallOf(r).tool \notin ReadOnly
                 PROVE  /\ kind = "failed" => effect[r] # "changed"
                        /\ kind = "completed" => effect[r] # "none"
        OBVIOUS
    <3>1. FileAgrees(r)
          BY <2>5 DEF EffectInv, Truth
    <3> QED BY <1>3, <2>1, <2>2, <2>6, <2>7, <3>1, VerdictIsTrue
  <2>10. PICK ev : ev = [kind |-> kind, parent |-> parent, calls |-> <<CallOf(r)>>, shown |-> TRUE]
         OBVIOUS
  <2>11. trace' = Append(trace, ev) /\ UNCHANGED <<world, meddling>>
         BY <1>3, <2>1, <2>2, <2>3, <2>10 DEF Log
  <2>12. /\ TraceInv' /\ Truth' /\ Unrequested' = Unrequested /\ Pending' = Pending \ {r}
         /\ \A q : StartsOf(q)' = StartsOf(q)
         /\ trace' \in Seq(EventRecord) /\ Len(trace') = New /\ Len(trace) \in Nat
         /\ Events({"requested"}) \subseteq Events({"requested"})'
         BY <2>5, <2>8, <2>9, <2>10, <2>11, LateEnd
  <2>13. UNCHANGED <<at, batch, current, seen, cancelled, crashes>> /\ at' = "reconcile"
         BY <1>0, <1>3 DEF process
  <2>14. Typed'
         BY <2>11, <2>12, <2>13, LateTyped
  <2>15. Unstarted' = {}
         BY <1>0, <2>12 DEF Unstarted
  <2>16. PhaseInv' /\ EffectInv'
         BY <1>0, <2>12, <2>13, <2>15 DEF PhaseInv, EffectInv
  <2> QED BY <2>12, <2>14, <2>16
<1> QED BY <1>1, <1>2, <1>3 DEF Reconcile

(* ------------------------------- the theorems ---------------------------- *)

LEMMA InitInv ==
  ASSUME Init
  PROVE  IInv
<1>1. trace = <<>> /\ DOMAIN trace = {} /\ Len(trace) = 0 /\ effect = <<>> /\ DOMAIN effect = {}
      BY DEF Init
<1>2. /\ \A K : Events(K) = {}
      /\ Pending = {} /\ Unrequested = {} /\ Interrupted = {}
  <2>1. \A K : Events(K) = {}
        BY <1>1 DEF Events
  <2> QED BY <2>1 DEF Pending, Unrequested, Interrupted
<1>3. Typed
  <2>1. batch \in BatchRecord /\ batch.calls \in Seq(Call) /\ batch.next \in 1..(Len(batch.calls) + 1)
    <3>1. <<>> \in Seq(Call) /\ Len(<<>>) = 0
          OBVIOUS
    <3>2. NoBatch.calls = <<>> /\ NoBatch.next = 1 /\ NoBatch \in BatchRecord
          BY <3>1 DEF NoBatch, BatchRecord
    <3>3. 1 \in 1..(Len(<<>>) + 1)
          BY <3>1
    <3> QED BY <3>1, <3>2, <3>3 DEF Init
  <2>2. trace \in Seq(EventRecord) /\ current \in [request : 0..Len(trace), started : 0..Len(trace)]
        BY <1>1 DEF Init, NoCall
  <2>3. {file, seen} \subseteq Contents
    <3>1. {"find"} \in Contents /\ NoFile \in Contents
          BY DEF Contents
    <3> QED BY <3>1 DEF Init
  <2>4. crashes \in 0..MaxCrashes /\ meddling \in 0..MaxMeddling
        BY ToolCallBounds DEF Init
  <2>5. effect \in [DOMAIN effect -> {"none", "moot", "changed"}]
        BY <1>1
  <2> QED BY <1>1, <2>1, <2>2, <2>3, <2>4, <2>5 DEF Typed, TypeOK, EventRecord, Init
<1>4. TraceInv
      BY <1>1, <1>2 DEF TraceInv, Shape, Unique, InOrder, OneBatch
<1>5. PhaseInv
      BY <1>2 DEF PhaseInv, Init
<1>6. EffectInv
      BY <1>1, <1>2 DEF EffectInv, Truth, ToldTheTruth, Init
<1> QED BY <1>3, <1>4, <1>5, <1>6 DEF IInv

LEMMA NextInv ==
  ASSUME IInv, [Next]_vars
  PROVE  IInv'
<1>1. CASE Next
  <2>1. CASE Recovery
        BY <2>1, AbandonStep, RequestLateStep, FailLateStep, FailUnstartedStep, RestoreStep,
           ReconcileStep DEF Recovery
  <2>2. CASE Turn
    <3>1. CASE Ask \/ BatchDone \/ Request \/ Close \/ Refuse \/ Begin \/ Touch
          BY <3>1, AskStep, BatchDoneStep, RequestStep, CloseStep, RefuseStep, BeginStep, TouchStep
    <3>2. CASE \E calls \in Batches, run \in BOOLEAN : Answer(calls, run)
          BY <3>2, AnswerStep
    <3>3. CASE \E calls \in Batches \cup {<<>>}, shown \in BOOLEAN : Fail(calls, shown)
          BY <3>3, FailStep
    <3>4. CASE \E kind \in Terminal : Finish(kind)
          BY <3>4, FinishStep
    <3> QED BY <2>2, <3>1, <3>2, <3>3, <3>4 DEF Turn
  <2>3. CASE Cancel \/ Crash \/ Resume
        BY <2>3, CancelStep, CrashStep, ResumeStep
  <2>4. CASE \E content \in {NoFile, {}, {"replace"}} : Meddle(content)
        BY <2>4, MeddleStep
  <2> QED BY <1>1, <2>1, <2>2, <2>3, <2>4 DEF Next
<1>2. CASE UNCHANGED vars
  <2>1. UNCHANGED <<trace, at, batch, current, seen, cancelled, file, effect, crashes, meddling>>
        BY <1>2 DEF vars, process, world
  <2>2. /\ Pending' = Pending /\ Unrequested' = Unrequested /\ Unstarted' = Unstarted
        /\ OpenRequests' = OpenRequests /\ ReusedId' = ReusedId
        /\ \A K : Events(K)' = Events(K)
        /\ \A r : StartsOf(r)' = StartsOf(r)
        /\ \A e : CallOf(e)' = CallOf(e)
        BY <2>1, SameTrace
  <2>3. Handling' = Handling /\ Calling' = Calling
    <3>1. Handling' = Handling
          BY <2>1, <2>2 DEF Handling
    <3>2. Calling' = Calling
          BY <2>1, <2>2 DEF Calling
    <3> QED BY <3>1, <3>2
  <2>4. PhaseInv'
        BY <2>1, <2>2, <2>3 DEF PhaseInv, IInv
  <2>5. /\ UNCHANGED <<trace, world, meddling>> /\ crashes' \in 0..MaxCrashes
        /\ at' \in {"down", "abandoned", "unrequested", "refusal", "unstarted", "restore",
                    "reconcile", "idle", "streaming", "batch", "requested", "running",
                    "closing", "blocked", "refused"}
        /\ cancelled' \in BOOLEAN /\ UNCHANGED <<at, batch, current, seen>>
        BY <2>1 DEF IInv, Typed, TypeOK, world
  <2> QED BY <2>4, <2>5, StillStep
<1> QED BY <1>1, <1>2

\* The inductive invariant.
THEOREM ToolCallsInvariant == Spec => []IInv
<1>1. Init => IInv
      BY InitInv
<1>2. IInv /\ [Next]_vars => IInv'
      BY NextInv
<1> QED BY <1>1, <1>2, PTL DEF Spec

\* A message of the history has one result for each of its calls.
LEMMA AnsweredFromInv ==
  ASSUME IInv
  PROVE  CallsAnswered
<1> USE DEF IInv, TraceInv
<1> SUFFICES ASSUME at \in {"idle", "streaming"}
             PROVE  /\ Pending = {}
                    /\ \A a \in Events({"answer"}) : \A i \in DOMAIN trace[a].calls :
                         Cardinality({e \in Events(Terminal) :
                           /\ trace[e].shown /\ trace[RequestOf(e)].parent = a
                           /\ CallOf(e).id = trace[a].calls[i].id}) = 1
    BY DEF CallsAnswered
<1>1. Pending = {} /\ Unrequested = {}
      BY DEF PhaseInv
<1>2. ASSUME NEW a \in Events({"answer"}), NEW i \in DOMAIN trace[a].calls
      PROVE  Cardinality({e \in Events(Terminal) :
                           /\ trace[e].shown /\ trace[RequestOf(e)].parent = a
                           /\ CallOf(e).id = trace[a].calls[i].id}) = 1
  <2> DEFINE Results == {e \in Events(Terminal) :
                           /\ trace[e].shown /\ trace[RequestOf(e)].parent = a
                           /\ CallOf(e).id = trace[a].calls[i].id}
  <2>1. i \in 1..MaxCalls
    <3>1. a \in DOMAIN trace /\ trace \in Seq(EventRecord) /\ trace[a].kind = "answer"
          BY DEF Events, Typed, TypeOK, EventRecord
    <3>2. trace[a] \in EventRecord /\ ShapeOf(a)
          BY <3>1 DEF Shape
    <3>3. trace[a].calls \in Seq(Call) /\ Len(trace[a].calls) <= MaxCalls
          BY <3>1, <3>2 DEF ShapeOf, EventRecord
    <3>4. DOMAIN trace[a].calls = 1..Len(trace[a].calls) /\ Len(trace[a].calls) \in Nat
          BY <3>3, LenProperties
    <3> QED BY <3>3, <3>4, ToolCallBounds
  <2>2. PICK r \in Events({"requested"}) :
          trace[r].parent = a /\ CallOf(r).id = trace[a].calls[i].id
    <3>1. <<a, i>> \notin Unrequested
          BY <1>1
    <3> QED BY <2>1, <3>1 DEF Unrequested
  <2>3. PICK e \in EndsOf(r) : TRUE
        BY <1>1, <2>2 DEF Pending
  <2>4. \A f \in Events(Terminal) :
          /\ RequestOf(f) \in Events({"requested"}) /\ CallOf(f) = CallOf(RequestOf(f))
          /\ EndFits(f)
    <3> SUFFICES ASSUME NEW f \in Events(Terminal)
                 PROVE  /\ RequestOf(f) \in Events({"requested"})
                        /\ CallOf(f) = CallOf(RequestOf(f)) /\ EndFits(f)
        OBVIOUS
    <3>1. ShapeOf(f) /\ trace[f].kind \in Terminal
          BY DEF Shape, Events
    <3>2. trace[f].parent \in Events({"requested", "started"}) /\ CallOf(f) = CallOf(trace[f].parent)
          BY <3>1 DEF ShapeOf
    <3>3. trace[f].parent \in Events({"started"}) =>
            /\ trace[trace[f].parent].parent \in Events({"requested"})
            /\ CallOf(trace[f].parent) = CallOf(trace[trace[f].parent].parent)
          BY DEF Shape, ShapeOf, Events
    <3> QED BY <3>2, <3>3 DEF RequestOf, Events, Unique
  <2>5. e \in Results
    <3>1. e \in Events(Terminal) /\ RequestOf(e) = r
          BY DEF EndsOf
    <3>2. trace[a].kind = "answer"
          BY DEF Events
    <3> QED BY <2>2, <2>4, <3>1, <3>2 DEF EndFits
  <2>6. \A f \in Results : f = e
        BY <2>2, <2>4 DEF Unique, EndsOf
  <2>7. Results = {e}
        BY <2>5, <2>6
  <2> HIDE DEF Results
  <2>8. Cardinality(Results) = 1
        BY <2>7, FS_Singleton
  <2> QED BY <2>8 DEF Results
<1> QED BY <1>1, <1>2

\* Before every model request each call of each assistant message has exactly
\* one result, whatever crashed where (execute_calls, Store::resume,
\* reconcile_interrupted_tools).
THEOREM CallsAnsweredHolds == Spec => []CallsAnswered
<1>1. IInv => CallsAnswered
      BY AnsweredFromInv
<1> QED BY <1>1, ToolCallsInvariant, PTL

\* No call that a response asked for is ever run a second time, by the turn or
\* by a recovery (execute_calls, recover_unstarted_tool_requests,
\* reconcile_interrupted_tools).
THEOREM RunsOnceHolds == Spec => RunsOnce
<1> DEFINE Again ==
      \A r \in DOMAIN effect' \ DOMAIN effect :
        \A q \in DOMAIN effect : trace[q].parent = trace[r].parent => CallOf(q).id # CallOf(r).id
<1>1. ASSUME IInv, [Next]_vars PROVE Again
  <2>1. CASE Begin
    <3>1. DOMAIN effect' = DOMAIN effect \cup {current.request}
          BY <2>1 DEF Begin
    <3>2. current.request \in Events({"requested"})
      <4>1. Calling
            BY <1>1, <2>1 DEF IInv, PhaseInv, Begin, Started
      <4> QED BY <4>1 DEF Calling, Pending
    <3>3. DOMAIN effect \subseteq Events({"requested"})
          BY <1>1 DEF IInv, EffectInv, Truth
    <3>4. \A r, q \in Events({"requested"}) :
            trace[r].parent = trace[q].parent /\ CallOf(r).id = CallOf(q).id => r = q
          BY <1>1 DEF IInv, TraceInv, Unique
    <3> QED BY <3>1, <3>2, <3>3, <3>4
  <2>2. CASE ~Begin
    <3>1. DOMAIN effect' = DOMAIN effect
      <4>1. CASE Touch
            BY <4>1 DEF Touch
      <4>2. CASE Recovery
            BY <4>2 DEF Recovery, Abandon, RequestLate, FailLate, FailUnstarted, Restore,
                        Reconcile, Move, world
      <4>3. CASE Ask \/ BatchDone \/ Request \/ Close \/ Refuse
            BY <4>3 DEF Ask, BatchDone, Request, Close, Refuse, Record, world
      <4>4. CASE \/ \E calls \in Batches, run \in BOOLEAN : Answer(calls, run)
                 \/ \E calls \in Batches \cup {<<>>}, shown \in BOOLEAN : Fail(calls, shown)
                 \/ \E kind \in Terminal : Finish(kind)
            BY <4>4 DEF Answer, Fail, Finish, Record, world
      <4>5. CASE Cancel \/ Crash \/ Resume \/ \E content \in {NoFile, {}, {"replace"}} : Meddle(content)
            BY <4>5 DEF Cancel, Crash, Resume, Move, Meddle, world
      <4>6. CASE UNCHANGED vars
            BY <4>6 DEF vars, world
      <4> QED BY <1>1, <2>2, <4>1, <4>2, <4>3, <4>4, <4>5, <4>6 DEF Next, Turn
    <3> QED BY <3>1
  <2> QED BY <2>1, <2>2
<1>2. IInv /\ [Next]_vars => [Again]_vars
      BY <1>1
<1> HIDE DEF Again
<1>3. Spec => [][Again]_vars
      BY <1>2, ToolCallsInvariant, PTL DEF Spec
<1> QED BY <1>3 DEF RunsOnce, Again

\* The last event of an id belongs to its last request.
LEMMA LastOfAnId ==
  ASSUME IInv, NEW id, NEW r \in Events({"requested"}), CallOf(r).id = id,
         \A q \in Events({"requested"}) : CallOf(q).id = id => q <= r,
         NEW e \in Events(ToolEvents), CallOf(e).id = id,
         \A f \in Events(ToolEvents) : CallOf(f).id = id => f <= e
  PROVE  /\ CallOf(e) = CallOf(r)
         /\ e = r \/ e \in StartsOf(r) \/ e \in EndsOf(r)
         /\ \A s \in StartsOf(r) \cup EndsOf(r) : s <= e
<1> USE DEF IInv, TraceInv
<1>0. DOMAIN trace \subseteq Nat
      BY LenProperties DEF Typed, TypeOK
<1>1. \A s \in Events({"started"}) :
        s \in StartsOf(trace[s].parent) /\ trace[s].parent \in Events({"requested"})
          /\ CallOf(s) = CallOf(trace[s].parent) /\ trace[s].parent < s
      BY DEF Shape, ShapeOf, Events, StartsOf
<1>2. ASSUME NEW f \in Events(Terminal)
      PROVE  /\ RequestOf(f) \in Events({"requested"}) /\ CallOf(f) = CallOf(RequestOf(f))
             /\ f \in EndsOf(RequestOf(f)) /\ RequestOf(f) < f
             /\ \A s \in StartsOf(RequestOf(f)) : s < f
  <2>1. ShapeOf(f) /\ trace[f].kind \in Terminal /\ f \in Nat
        BY <1>0 DEF Shape, Events
  <2>2. /\ trace[f].parent \in Events({"requested", "started"}) /\ CallOf(f) = CallOf(trace[f].parent)
        /\ trace[f].parent < f /\ trace[f].parent \in Nat
        BY <1>0, <2>1 DEF ShapeOf, Events
  <2>3. trace[f].parent \in Events({"started"}) =>
          /\ trace[trace[f].parent].parent \in Events({"requested"})
          /\ CallOf(trace[f].parent) = CallOf(trace[trace[f].parent].parent)
          /\ trace[trace[f].parent].parent < trace[f].parent
          /\ trace[trace[f].parent].parent \in Nat
        BY <1>0, <1>1 DEF Events
  <2>4. \A s \in StartsOf(RequestOf(f)) : trace[f].parent = s
        BY DEF Unique, StartsOf
  <2> QED BY <2>1, <2>2, <2>3, <2>4 DEF RequestOf, Events, EndsOf
<1>3. \A s \in StartsOf(r) : s \in Events(ToolEvents) /\ CallOf(s) = CallOf(r) /\ r < s /\ s \in Nat
      BY <1>0, <1>1 DEF StartsOf, Events, ToolEvents
<1>4. \A f \in EndsOf(r) : f \in Events(ToolEvents) /\ CallOf(f) = CallOf(r) /\ r < f /\ f \in Nat
      BY <1>0, <1>2 DEF EndsOf, Events, ToolEvents
<1>5. \A s \in StartsOf(r) \cup EndsOf(r) : s <= e
      BY <1>3, <1>4
<1>6. r <= e /\ r \in Nat /\ e \in Nat
      BY <1>0 DEF Events, ToolEvents
\* An earlier life of the id was over before its last request.
<1>7. ASSUME NEW q \in Events({"requested"}), CallOf(q).id = id, q # r
      PROVE  \E f \in EndsOf(q) : f < r
  <2>1. q < r
        BY <1>0, <1>7 DEF Events
  <2> QED BY <1>7, <2>1 DEF InOrder
<1>8. CASE e \in Events({"requested"})
      BY <1>5, <1>6, <1>8
<1>9. CASE e \in Events({"started"})
  <2> DEFINE q == trace[e].parent
  <2>1. q \in Events({"requested"}) /\ CallOf(q) = CallOf(e) /\ e \in StartsOf(q)
        BY <1>1, <1>9
  <2>2. CASE q = r
        BY <2>1, <2>2, <1>5
  <2>3. CASE q # r
    <3>1. PICK f \in EndsOf(q) : f < r
          BY <1>7, <2>1, <2>3
    <3>2. f \in Events(Terminal) /\ RequestOf(f) = q /\ f \in Nat
          BY <1>0 DEF EndsOf, Events
    <3>3. e < f
          BY <1>2, <2>1, <3>2
    <3> QED BY <1>6, <3>1, <3>2, <3>3
  <2> QED BY <2>2, <2>3
<1>10. CASE e \in Events(Terminal)
  <2>1. RequestOf(e) \in Events({"requested"}) /\ CallOf(RequestOf(e)) = CallOf(e)
          /\ e \in EndsOf(RequestOf(e))
        BY <1>2, <1>10
  <2>2. CASE RequestOf(e) = r
        BY <2>1, <2>2, <1>5
  <2>3. CASE RequestOf(e) # r
    <3>1. PICK f \in EndsOf(RequestOf(e)) : f < r
          BY <1>7, <2>1, <2>3
    <3>2. f = e
          BY <1>10 DEF EndsOf, Unique
    <3> QED BY <1>6, <3>1, <3>2
  <2> QED BY <2>2, <2>3
<1> QED BY <1>8, <1>9, <1>10 DEF Events, ToolEvents

\* A change is never offered to be made again.
LEMMA ReplayIsNotBlind ==
  ASSUME IInv
  PROVE  NothingReplayedBlind
<1> USE DEF IInv
<1> SUFFICES ASSUME NEW id \in Ids, StateOf(trace, id) # 0,
                    LastRequestOf(id) \in DOMAIN effect, effect[LastRequestOf(id)] = "changed"
             PROVE  \/ id \in BlockedTools(trace)
                    \/ /\ DecisionAt(trace, id) = "ReuseCommittedResult"
                       /\ \/ trace[StateOf(trace, id)].kind = "completed"
                          \/ trace[StateOf(trace, id)].kind = "failed" /\ meddling > 0
    BY DEF NothingReplayedBlind
<1>1. PICK e : e = StateOf(trace, id)
      OBVIOUS
<1>2. PICK r : r = LastRequestOf(id)
      OBVIOUS
<1>3. trace \in Seq(EventRecord) /\ DOMAIN trace = 1..Len(trace) /\ Len(trace) \in Nat
      BY LenProperties DEF Typed, TypeOK, EventRecord
<1>4. /\ e \in Events(ToolEvents) /\ CallOf(e).id = id
      /\ \A f \in Events(ToolEvents) : CallOf(f).id = id => f <= e
  <2> DEFINE S == {f \in DOMAIN trace : /\ trace[f].kind \in ToolEvents
                                        /\ trace[f].calls[1].id = id}
  <2>1. S # {}
        BY DEF StateOf
  <2>2. e = CHOOSE x \in S : \A f \in S : f <= x
        BY <1>1, <2>1 DEF StateOf
  <2>3. \E x \in S : \A f \in S : f <= x
        BY <1>3, <2>1, GreatestExists
  <2>4. e \in S /\ \A f \in S : f <= e
        BY <2>2, <2>3
  <2> QED BY <2>4 DEF Events, CallOf
<1>5. /\ r \in Events({"requested"}) /\ CallOf(r).id = id
      /\ \A q \in Events({"requested"}) : CallOf(q).id = id => q <= r
  <2> DEFINE R == {q \in Events({"requested"}) : CallOf(q).id = id}
  <2>1. R # {}
    <3>1. CASE e \in Events({"requested"})
          BY <1>4, <3>1
    <3>2. CASE e \in Events({"started"})
          BY <1>4, <3>2 DEF TraceInv, Shape, ShapeOf, Events
    <3>3. CASE e \in Events(Terminal)
      <4>1. trace[e].parent \in Events({"requested", "started"}) /\ CallOf(e) = CallOf(trace[e].parent)
            BY <3>3 DEF TraceInv, Shape, ShapeOf, Events
      <4>2. trace[e].parent \in Events({"started"}) =>
              /\ trace[trace[e].parent].parent \in Events({"requested"})
              /\ CallOf(trace[e].parent) = CallOf(trace[trace[e].parent].parent)
            BY DEF TraceInv, Shape, ShapeOf, Events
      <4> QED BY <1>4, <4>1, <4>2 DEF Events
    <3> QED BY <1>4, <3>1, <3>2, <3>3 DEF ToolEvents, Events
  <2>2. R \subseteq 1..Len(trace)
        BY <1>3 DEF Events
  <2>3. \E x \in R : \A q \in R : q <= x
        BY <1>3, <2>1, <2>2, GreatestExists
  <2>4. r = CHOOSE x \in R : \A q \in R : q <= x
        BY <1>2 DEF LastRequestOf
  <2>5. r \in R /\ \A q \in R : q <= r
        BY <2>3, <2>4
  <2> QED BY <2>5
<1>6. /\ CallOf(e) = CallOf(r)
      /\ e = r \/ e \in StartsOf(r) \/ e \in EndsOf(r)
      /\ \A s \in StartsOf(r) \cup EndsOf(r) : s <= e
      BY <1>4, <1>5, LastOfAnId
<1>7. r \in DOMAIN effect /\ effect[r] = "changed"
      BY <1>2
<1>8. StartsOf(r) # {} /\ CallOf(r).tool \notin ReadOnly
      BY <1>7 DEF EffectInv, Truth
<1>9. e # r
  <2>1. PICK s \in StartsOf(r) : s \in DOMAIN trace /\ r < s
        BY <1>8 DEF StartsOf, Events, TraceInv, Shape, ShapeOf
  <2>2. s <= e /\ s \in Nat /\ e \in Nat /\ r \in Nat
        BY <1>3, <1>4, <1>5, <1>6, <2>1 DEF Events
  <2> QED BY <2>1, <2>2
<1>10. DecisionAt(trace, id) = Decision(trace[e], CallOf(e).tool \in ReadOnly)
       BY <1>1 DEF DecisionAt, CallOf
<1>11. ~(CallOf(e).tool \in ReadOnly)
       BY <1>6, <1>8
<1>12. CASE trace[e].kind \in {"started", "unknown"}
  <2>1. Decision(trace[e], CallOf(e).tool \in ReadOnly) = "ReconcileBeforeReplay"
        BY <1>11, <1>12 DEF Decision
  <2> QED BY <1>1, <1>10, <2>1 DEF BlockedTools
<1>13. CASE trace[e].kind \in {"completed", "failed"}
  <2>1. Decision(trace[e], CallOf(e).tool \in ReadOnly) = "ReuseCommittedResult"
        BY <1>11, <1>13 DEF Decision
  <2>2. trace[e].kind = "failed" => meddling > 0
    <3> SUFFICES ASSUME trace[e].kind = "failed", meddling = 0 PROVE FALSE
        BY DEF Typed, TypeOK
    <3>1. e \in EndsOf(r)
          BY <1>6, <1>9 DEF StartsOf, Events
    <3>2. RequestOf(e) = r /\ e \in Events({"completed", "failed"})
          BY <3>1 DEF EndsOf, Events
    <3> QED BY <1>7, <1>8, <3>2 DEF EffectInv, Truth, ToldTheTruth
  <2> QED BY <1>1, <1>10, <1>13, <2>1, <2>2
<1>14. trace[e].kind \in {"started", "unknown", "completed", "failed"}
       BY <1>6, <1>9 DEF StartsOf, EndsOf, Events, Terminal
<1> QED BY <1>12, <1>13, <1>14

LEMMA ClosedFromInv ==
  ASSUME IInv
  PROVE  ClosedNeverRan
<1> SUFFICES ASSUME NEW e \in Events({"failed"}), trace[trace[e].parent].kind = "requested",
                    trace[e].parent \in DOMAIN effect
             PROVE  FALSE
    BY DEF ClosedNeverRan
<1>1. e \in Events(Terminal) /\ RequestOf(e) = trace[e].parent
      BY DEF Events, Terminal, RequestOf
<1>2. PICK s \in Events({"started"}) : trace[s].parent = trace[e].parent
      BY DEF IInv, EffectInv, Truth, StartsOf
<1>3. trace[e].parent = s
      BY <1>1, <1>2 DEF IInv, TraceInv, Unique
<1> QED BY <1>2, <1>3 DEF Events

\* Whatever a result says, to the model, to a resume or to a replay, is true of
\* the call it answers, in every state of every history.
THEOREM ResultsAreTrueHolds == Spec => []ResultsAreTrue
<1>1. ASSUME IInv PROVE ResultsAreTrue
  <2>1. TypeOK /\ ToldTheTruth
        BY <1>1 DEF IInv, Typed, EffectInv, Truth
  <2>2. RefusedOnlyForReuse
        BY <1>1, LifecyclesAreValid DEF IInv, PhaseInv, RefusedOnlyForReuse, ReusedId
  <2> QED BY <1>1, <2>1, <2>2, ClosedFromInv, ReplayIsNotBlind DEF ResultsAreTrue
<1> QED BY <1>1, ToolCallsInvariant, PTL
=============================================================================
