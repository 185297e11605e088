--------------------------- MODULE ProviderDecoder --------------------------
(***************************************************************************)
(* rupi_provider::decode::Decoder: the fragments of a streamed response    *)
(* put together again as tool calls, and the verdict on how it ended.      *)
(*                                                                         *)
(* The endpoint means to make two calls.  The fragments of a call come in  *)
(* their order, those of different calls in any; each carries the call's   *)
(* index, its id, both or neither, as far as the endpoint is consistent.   *)
(* A fragment's arguments are a part, named for its call and its place.    *)
(***************************************************************************)
EXTENDS Integers, Sequences, FiniteSets, SequencesExt

CONSTANTS
  Parts,      \* argument parts of each call, after the fragment that names it
  ToolLimit,  \* MAX_RESPONSE_TOOL_CALLS
  PartLimit,  \* MAX_TOOL_ARGUMENT_BYTES_PER_CALL, in parts
  EventLimit  \* MAX_RESPONSE_EVENTS

VARIABLES
  keys,     \* the endpoint's: the keys of each call
  thrifty,  \* the endpoint's: it leaves keys out once a call is named
  sent,     \* the endpoint's: fragments of each call sent so far
  tools,    \* Decoder::tools: the builders by slot
  indices,  \* tool_indices: the slot of an index, 0 for none
  ids,      \* tool_ids
  events,   \* response_events
  text,     \* emitted_output
  misled,   \* ghost: builders that took a fragment by a mistaken fallback
  finish,   \* finish_reason
  verdict   \* what chunk or finish returned, with the calls it emitted

decoderVars == <<keys, thrifty, sent, tools, indices, ids, events, misled, text, finish,
                 verdict>>

BothCalls == 1..2
Indexes == 0..1
Ids == {"a", "b"}
NoIndex == -1
ToolSlots == 1..Len(tools)

\* The keys an endpoint can give a call.  "long" is an id over the limit.
Keys == [index : Indexes \cup {NoIndex}, id : Ids \cup {"long", "none"}]
Keyed(k) == k.index # NoIndex \/ k.id # "none"

\* Two calls an endpoint keeps apart: some key both have differs, or no key
\* of theirs is the same.
Apart(k, l) ==
  \/ k.index # l.index /\ NoIndex \notin {k.index, l.index}
  \/ k.id # l.id /\ {"none", "long"} \cap {k.id, l.id} = {}
  \/ k.index # l.index /\ k.id # l.id

\* What a fragment of a call with keys k may carry: all of them, or fewer
\* once the call was named.
Carried(k, named) ==
  IF named /\ thrifty THEN {l \in Keys : l.index \in {k.index, NoIndex} /\ l.id \in {k.id, "none"}}
                      ELSE {k}

NoVerdict == [end |-> "none", calls |-> {}]

TypeOK ==
  /\ keys \in [BothCalls -> Keys] /\ thrifty \in BOOLEAN /\ sent \in [BothCalls -> 0..Parts + 1]
  /\ tools \in Seq([id : Ids \cup {"none"}, parts : Seq(BothCalls \X (1..Parts)), error : BOOLEAN])
  /\ Len(tools) <= ToolLimit
  /\ \A slot \in ToolSlots : Len(tools[slot].parts) <= PartLimit
  /\ indices \in [Indexes -> 0..Len(tools)] /\ ids \in [Ids -> 0..Len(tools)]
  /\ events \in 0..EventLimit /\ {text, finish} \subseteq BOOLEAN
  /\ verdict.end \in {"none", "certain", "unknown", "failed"}

Init ==
  /\ keys \in {k \in [BothCalls -> Keys] : Keyed(k[1]) /\ Keyed(k[2]) /\ Apart(k[1], k[2])}
  /\ thrifty \in BOOLEAN
  /\ sent = [c \in BothCalls |-> 0] /\ tools = <<>>
  /\ indices = [i \in Indexes |-> 0] /\ ids = [d \in Ids |-> 0]
  /\ events = 0 /\ misled = {} /\ text = FALSE /\ finish = FALSE /\ verdict = NoVerdict

-----------------------------------------------------------------------------
(* accumulate_tool, as a function of the decoder's tables d.               *)

Indexed(d) == {d.indices[i] : i \in Indexes}
SlotsOf(d) == 1..Len(d.tools)
Uncorrelated(d) == {s \in SlotsOf(d) : d.tools[s].id = "none" /\ s \notin Indexed(d)}
OpenKeyed(d) ==
  {s \in SlotsOf(d) : (d.tools[s].id # "none" \/ s \in Indexed(d)) /\ ~d.tools[s].error}

ShortId(f) == IF f.key.id = "long" THEN "none" ELSE f.key.id
Unkeyed(f) == f.key.index = NoIndex /\ ShortId(f) = "none"

\* unique_keyed_open_slot, asked for only by a lone fragment without keys.
Fallback(d, f, batch) ==
  IF Unkeyed(f) /\ ~batch /\ Cardinality(OpenKeyed(d)) = 1 THEN OpenKeyed(d) ELSE {}

\* The known defect: a builder in error is not looked for, so that a fragment of its
\* call that has no keys goes to the one builder that is left.
Mistaken(d, f, batch) ==
  IF \E s \in SlotsOf(d) : d.tools[s].error THEN Fallback(d, f, batch) ELSE {}

\* The slot of a fragment and the slots the placing puts in doubt.
Placed(slot, doubted) == [slot |-> slot, doubted |-> doubted]
Doubting(d, slots) ==
  Placed(Len(d.tools) + 1, IF slots = {} THEN {} ELSE slots \cup {Len(d.tools) + 1})
PlaceKeyed(d, f, byIndex, byId) ==
  CASE byIndex # 0 -> Placed(byIndex, IF byId \in {0, byIndex} THEN {} ELSE {byIndex, byId})
    [] byIndex = 0 /\ byId # 0 ->
         IF f.key.index # NoIndex /\ \E i \in Indexes : i # f.key.index /\ d.indices[i] = byId
         THEN Doubting(d, {byId}) ELSE Placed(byId, {})
    [] OTHER ->
         IF Len(d.tools) = 1 /\ Uncorrelated(d) = {1} THEN Placed(1, {1})
         ELSE Doubting(d, Uncorrelated(d))
PlaceUnkeyed(d, clean) ==
  IF clean # {} THEN Placed(CHOOSE s \in clean : TRUE, {}) ELSE Doubting(d, OpenKeyed(d))
Place(d, f, batch) ==
  IF Unkeyed(f) THEN PlaceUnkeyed(d, Fallback(d, f, batch))
  ELSE PlaceKeyed(d, f, IF f.key.index = NoIndex THEN 0 ELSE d.indices[f.key.index],
                  IF ShortId(f) = "none" THEN 0 ELSE d.ids[ShortId(f)])

NewBuilder == [id |-> "none", parts |-> <<>>, error |-> FALSE]

\* What the fragment itself gives away about its builder.
Conflicts(d, f, batch, slot) ==
  LET known == slot <= Len(d.tools)
  IN \/ f.key.id = "long"
     \/ ShortId(f) # "none" /\ known /\ d.tools[slot].id \notin {"none", ShortId(f)}
     \/ Unkeyed(f) /\ Fallback(d, f, batch) = {} /\ f.key.id # "long"

\* account_response_event and new_tool_slot fail the whole response.
OverLimit(d, slot) == slot > ToolLimit \/ d.events >= EventLimit

\* The builders after a fragment for one of them; "over" when its parts are too many.
Grown(d, slot) == IF slot > Len(d.tools) THEN Append(d.tools, NewBuilder) ELSE d.tools
Over(grown, f, slot) == f.part > 0 /\ Len(grown[slot].parts) >= PartLimit
Built(grown, f, slot, over, marked) ==
  [s \in 1..Len(grown) |->
     [id |-> IF s = slot /\ ShortId(f) # "none" THEN ShortId(f) ELSE grown[s].id,
      parts |-> IF s = slot /\ f.part > 0 /\ ~over
                THEN Append(grown[s].parts, <<f.call, f.part>>) ELSE grown[s].parts,
      error |-> grown[s].error \/ s \in marked \/ (s = slot /\ over)]]

\* The decoder after a fragment; "full" when it needs a slot too many.
Accumulated(d, f, slot, grown, marked, mistaken) ==
  [tools |-> Built(grown, f, slot, Over(grown, f, slot), marked),
   indices |-> [i \in Indexes |->
                 IF i = f.key.index /\ d.indices[i] = 0 THEN slot ELSE d.indices[i]],
   ids |-> [e \in Ids |-> IF e = ShortId(f) /\ d.ids[e] = 0 THEN slot ELSE d.ids[e]],
   events |-> d.events + 1, misled |-> d.misled \cup mistaken,
   full |-> OverLimit(d, slot)]
AccumulateAt(d, f, batch, place) ==
  Accumulated(d, f, place.slot, Grown(d, place.slot),
              place.doubted \cup (IF Conflicts(d, f, batch, place.slot) THEN {place.slot} ELSE {}),
              Mistaken(d, f, batch))
Accumulate(d, f, batch) == AccumulateAt(d, f, batch, Place(d, f, batch))

Tables == [tools |-> tools, indices |-> indices, ids |-> ids, events |-> events,
           misled |-> misled, full |-> FALSE]

-----------------------------------------------------------------------------
(* The endpoint sends, the decoder takes a chunk.                          *)

Running == verdict.end = "none"

\* The next fragment of a call.
Fragments(c) ==
  IF sent[c] > Parts THEN {}
  ELSE {[call |-> c, part |-> sent[c], key |-> k] : k \in Carried(keys[c], sent[c] > 0)}

\* Decoder::chunk with tool calls: the fragments in their order, each counted
\* and placed, until a limit ends the response.
Going(one, fs, batch) == IF Len(fs) = 2 /\ ~one.full THEN Accumulate(one, fs[2], batch) ELSE one
Taken(after) ==
  IF after.full
  THEN /\ verdict' = [end |-> "failed", calls |-> {}]
       /\ UNCHANGED <<tools, indices, ids, events, misled>>
  ELSE /\ tools' = after.tools /\ indices' = after.indices /\ ids' = after.ids
       /\ events' = after.events /\ misled' = after.misled /\ UNCHANGED verdict
TakeFragments(fs) ==
  LET batch == Cardinality({n \in DOMAIN fs : ~Keyed(fs[n].key)}) > 1 IN
  /\ Running /\ ~finish
  /\ sent' = [c \in BothCalls |-> sent[c] + Cardinality({n \in DOMAIN fs : fs[n].call = c})]
  /\ Taken(Going(Accumulate(Tables, fs[1], batch), fs, batch))
  /\ UNCHANGED <<keys, thrifty, text, finish>>

TakeOne == \E c \in BothCalls : \E f \in Fragments(c) : TakeFragments(<<f>>)
TakeTwo == \E c, e \in BothCalls : c # e /\ \E f \in Fragments(c), g \in Fragments(e) :
                                            TakeFragments(<<f, g>>)

\* Decoder::chunk with text or reasoning.
TakeText ==
  /\ Running /\ ~finish /\ ~text
  /\ IF events >= EventLimit
     THEN verdict' = [end |-> "failed", calls |-> {}] /\ UNCHANGED <<events, text>>
     ELSE events' = events + 1 /\ text' = TRUE /\ UNCHANGED verdict
  /\ UNCHANGED <<keys, thrifty, sent, tools, indices, ids, misled, finish>>

\* The chunk with the finish reason is the endpoint's last; the usage may follow.
Said == \A c \in BothCalls : sent[c] \in {0, Parts + 1}
TakeFinish ==
  /\ Running /\ ~finish /\ Said /\ finish' = TRUE
  /\ UNCHANGED <<keys, thrifty, sent, tools, indices, ids, events, misled, text, verdict>>

\* A builder's arguments parse when there are none, or unless they are the
\* beginning of an object only.
Whole(c) == [n \in 1..Parts |-> <<c, n>>]
Parses(parts) ==
  \A c \in BothCalls : parts # <<>> /\ (\A n \in DOMAIN parts : parts[n] = <<c, n>>)
                     => Len(parts) = Parts

Accepted == {s \in ToolSlots : ~tools[s].error /\ Parses(tools[s].parts)}

\* Two builders that would emit the same id make the response ambiguous.
Duplicate == \E s, t \in ToolSlots : s # t /\ tools[s].id # "none" /\ tools[s].id = tools[t].id

\* Decoder::finish, for each way the body can end.
Finish(end) ==
  LET some == text \/ tools # <<>>
      certainty ==
        CASE end = "body" -> "certain"
          [] end = "sentinel" -> IF finish \/ some THEN "certain" ELSE "failed"
          [] end = "eof" -> IF finish THEN "certain" ELSE IF some THEN "unknown" ELSE "failed"
  IN /\ Running
     \* [DONE] and a whole body come when the endpoint has said everything.
     /\ end # "eof" => Said
     /\ verdict' = IF Duplicate THEN [end |-> "failed", calls |-> {}]
                   ELSE [end |-> certainty, calls |-> Accepted]
     /\ UNCHANGED <<keys, thrifty, sent, tools, indices, ids, events, misled, text, finish>>

Next ==
  \/ TakeOne \/ TakeTwo \/ TakeText \/ TakeFinish
  \/ \E end \in {"body", "sentinel", "eof"} : Finish(end)


-----------------------------------------------------------------------------
\* A call that is handed on as valid is exactly one call the endpoint meant,
\* all of it and nothing of another, when the response is a certain one; but
\* for a builder that was given what belongs to one in error.
CallsAreWhole ==
  verdict.end = "certain" =>
    \A s \in verdict.calls \ misled : \E c \in BothCalls : tools[s].parts = Whole(c)

\* A response is certain only when the endpoint had said everything.
CertainIsComplete == verdict.end = "certain" => Said

\* An endpoint that repeats a call's keys, and gives no key to two calls,
\* has every call it makes accepted.
Unlike(k, l) ==
  /\ k.index # l.index \/ k.index = NoIndex
  /\ k.id # l.id \/ k.id = "none"
ConsistentIsAccepted ==
  (/\ verdict.end = "certain" /\ ~thrifty /\ Unlike(keys[1], keys[2])
   /\ \A c \in BothCalls : keys[c].id # "long")
     => \A c \in BothCalls : sent[c] > 0 => \E s \in verdict.calls : tools[s].parts = Whole(c)

-----------------------------------------------------------------------------
(***************************************************************************)
(* rupi_provider::sse::SseStream over rupi_core::BoundedLineReader: the    *)
(* events of a byte stream that arrives in pieces of any size, with socket *)
(* timeouts anywhere between them.                                         *)
(*                                                                         *)
(* A byte is "d" (of a data line), "c" (of a comment) or "n" (newline).    *)
(* An event is the sequence of the lengths of its data lines.              *)
(***************************************************************************)
CONSTANTS
  LineLimit,   \* MAX_EVENT_BYTES, for a line
  FrameLimit,  \* MAX_EVENT_BYTES, for a frame with its comments and newlines
  FrameCount,  \* MAX_RESPONSE_FRAMES
  MaxBytes     \* bound: bytes of the stream

VARIABLES
  bytes,      \* history: what has come out of the socket
  buffer,     \* BufReader's bytes that are not consumed
  ended,      \* the peer has closed the stream
  line,       \* BoundedLineReader::line
  inCall,     \* next_event is running
  data,       \* its local data: the lengths of the data lines so far
  pending,    \* pending_data and pending_received, between calls
  frameBytes, \* pending_frame_bytes
  frames,     \* response_frames
  finished,   \* finished
  failed,     \* next_event has returned InvalidData
  out         \* the events it has returned

Bytes == {"d", "c", "n"}

FramingTypeOK ==
  /\ bytes \in Seq(Bytes) /\ buffer \in Seq(Bytes) /\ line \in Seq(Bytes)
  /\ Len(line) <= LineLimit
  /\ {ended, inCall, finished, failed} \subseteq BOOLEAN
  /\ data \in Seq(Nat) /\ pending \in Seq(Nat) /\ out \in Seq(Seq(Nat))
  /\ frames \in 0..FrameCount
  /\ frameBytes \in Nat /\ (~finished => frameBytes <= FrameLimit)

FramingInit ==
  /\ bytes = <<>> /\ buffer = <<>> /\ ended = FALSE /\ line = <<>> /\ inCall = FALSE
  /\ data = <<>> /\ pending = <<>> /\ frameBytes = 0 /\ frames = 0
  /\ finished = FALSE /\ failed = FALSE /\ out = <<>>

-----------------------------------------------------------------------------
NextEvent ==
  /\ ~inCall /\ ~finished /\ ~failed
  /\ inCall' = TRUE /\ data' = pending /\ pending' = <<>>
  /\ UNCHANGED <<bytes, buffer, ended, line, frameBytes, frames, finished, failed, out>>

\* fill_buf: the next piece, the end, or a timeout.
Arrives(piece) ==
  /\ inCall /\ buffer = <<>> /\ ~ended /\ Len(bytes) + Len(piece) <= MaxBytes
  /\ buffer' = piece /\ bytes' = bytes \o piece
  /\ UNCHANGED <<ended, line, inCall, data, pending, frameBytes, frames, finished, failed, out>>

PeerCloses ==
  /\ ~ended /\ ended' = TRUE
  /\ UNCHANGED <<bytes, buffer, line, inCall, data, pending, frameBytes, frames, finished, failed,
                 out>>

\* What a timed-out call leaves for the next one.
Kept == data

TimesOut ==
  /\ inCall /\ buffer = <<>> /\ ~ended
  /\ inCall' = FALSE /\ pending' = Kept /\ data' = <<>>
  /\ UNCHANGED <<bytes, buffer, ended, line, frameBytes, frames, finished, failed, out>>

\* A protocol error closes the stream.
Reject == /\ failed' = TRUE /\ finished' = TRUE /\ inCall' = FALSE
          /\ UNCHANGED <<data, pending, frames, out>>

\* finish_frame, and the event if the frame had data.
EndFrame(closes) ==
  IF frames >= FrameCount THEN Reject /\ UNCHANGED frameBytes
  ELSE /\ frames' = frames + 1 /\ frameBytes' = 0 /\ pending' = <<>>
       /\ out' = IF data = <<>> THEN out ELSE Append(out, data)
       /\ inCall' = (data = <<>> /\ ~closes)
       /\ data' = <<>> /\ finished' = closes /\ UNCHANGED failed

\* A line, the newline included when there was one.
TakeLine(stream, width) ==
  LET counted == frameBytes + width
  IN IF counted > FrameLimit
     THEN Reject /\ frameBytes' = counted
     ELSE IF stream = <<>> THEN EndFrame(FALSE)
     ELSE /\ data' = IF Head(stream) = "d" THEN Append(data, Len(stream)) ELSE data
          /\ frameBytes' = counted
          /\ UNCHANGED <<inCall, pending, frames, finished, failed, out>>

Consume ==
  /\ inCall /\ buffer # <<>>
  /\ LET byte == Head(buffer)
     IN CASE byte = "n" ->
               /\ TakeLine(line, Len(line) + 1) /\ line' = <<>> /\ buffer' = Tail(buffer)
          [] byte # "n" /\ Len(line) < LineLimit ->
               /\ line' = Append(line, byte) /\ buffer' = Tail(buffer)
               /\ UNCHANGED <<inCall, data, pending, frameBytes, frames, finished, failed, out>>
          [] OTHER -> Reject /\ UNCHANGED <<line, buffer, frameBytes>>
  /\ UNCHANGED <<bytes, ended>>

\* The end of the stream: a last line without a newline, a last frame
\* without its blank line.
AtEnd ==
  /\ inCall /\ buffer = <<>> /\ ended
  /\ \/ line # <<>> /\ TakeLine(line, Len(line)) /\ line' = <<>>
     \/ line = <<>> /\ data # <<>> /\ EndFrame(TRUE) /\ UNCHANGED line
     \/ /\ line = <<>> /\ data = <<>> /\ finished' = TRUE /\ inCall' = FALSE
        /\ UNCHANGED <<line, data, pending, frameBytes, frames, failed, out>>
  /\ UNCHANGED <<bytes, buffer, ended>>

FramingNext ==
  \/ NextEvent \/ PeerCloses \/ TimesOut \/ Consume \/ AtEnd
  \/ \E piece \in {<<b>> : b \in Bytes} \cup (Bytes \X Bytes) : Arrives(piece)


-----------------------------------------------------------------------------
\* The framing of a stream that comes at once.
Begun == [line |-> <<>>, data |-> <<>>, out |-> <<>>]
Read(s, byte) ==
  CASE byte # "n" -> [s EXCEPT !.line = Append(@, byte)]
    [] byte = "n" /\ s.line = <<>> ->
         [s EXCEPT !.data = <<>>, !.out = IF s.data = <<>> THEN @ ELSE Append(@, s.data)]
    [] OTHER -> [s EXCEPT !.line = <<>>,
                          !.data = IF Head(s.line) = "d" THEN Append(@, Len(s.line)) ELSE @]
Framed(stream) == FoldLeft(Read, Begun, stream)
Consumed == SubSeq(bytes, 1, Len(bytes) - Len(buffer))

\* However the stream was cut into pieces and timeouts, the events are those
\* of the bytes in one piece; nothing of a frame is lost or joined to another.
EventsAreFrames ==
  ~finished /\ ~failed /\ (ended => buffer # <<>>) =>
    /\ out = Framed(Consumed).out
    /\ (IF inCall THEN data ELSE pending) = Framed(Consumed).data

\* At the end nothing is left behind: the last frame counts without a blank line.
EndIsComplete ==
  finished /\ ~failed => out = Framed(bytes \o <<"n", "n">>).out

\* Only a line, a frame or a stream beyond its limit is refused.
BlankLines(stream) == {k \in DOMAIN stream : stream[k] = "n" /\ (k = 1 \/ stream[k - 1] = "n")}
RefusedForCause ==
  failed => \/ \E m, n \in DOMAIN bytes :
                 \/ n - m + 1 > FrameLimit /\ m..n - 1 \cap BlankLines(bytes) = {}
                 \/ n - m + 1 > LineLimit /\ \A k \in m..n : bytes[k] # "n"
            \/ Cardinality(BlankLines(bytes)) >= FrameCount

-----------------------------------------------------------------------------
(***************************************************************************)
(* Strict tool sampling (rupi_provider::mapping and decode): an endpoint   *)
(* with strict schemas wants every property required, so an optional one   *)
(* is sent as nullable and a null that comes back is taken out again       *)
(* before the arguments are validated against the tool's own schema.       *)
(*                                                                         *)
(* A schema is a leaf, an object with properties among Names or an array.  *)
(* A value says what it is; an object maps the names it has to values.     *)
(***************************************************************************)
CONSTANTS Names, MaxItems  \* bound: items of an array

VARIABLES
  stage,      \* "offered", "refused", "asked", "decoded"
  schema,     \* ToolSpec::parameters
  strictness, \* its sampling constraint: "none", "prefer", "require"
  supported,  \* strict_tool_schema of the endpoint
  arguments   \* the arguments of a call, as they stand

\* pinned: a const, a $ref or an enum that lists null.  null: null is valid.
Leaf(type, pinned) == [kind |-> "leaf", type |-> type, pinned |-> pinned, null |-> FALSE]
Object(props, required, closed) ==
  [kind |-> "object", props |-> props, required |-> required, closed |-> closed, null |-> FALSE]
Array(items) == [kind |-> "array", items |-> items, null |-> FALSE]

\* A leaf whose type is "many" lists several types.
Leaves == {Leaf("string", FALSE), Leaf("string", TRUE), Leaf("null", FALSE), Leaf("many", FALSE)}
PropsOver(schemas) == UNION {[names -> schemas] : names \in SUBSET Names}
Flat == {Object(p, r, c) : p \in PropsOver(Leaves), r \in SUBSET Names, c \in BOOLEAN}
Nested ==
  {Object([n \in {m} |-> inner], r, TRUE) :
     m \in Names, inner \in Flat \cup {Array(s) : s \in Leaves}, r \in SUBSET Names}
Listed == {Object([n \in {m} |-> Array(s)], r, TRUE) : m \in Names, s \in Flat, r \in SUBSET Names}
Schemas == Leaves \cup Flat \cup {Array(s) : s \in Flat \cup Leaves} \cup Nested \cup Listed

Null == [is |-> "null"]
Text == [is |-> "string"]

-----------------------------------------------------------------------------
(* The schema that is sent.                                                *)

Unsupported == [kind |-> "unsupported", null |-> FALSE]

CanBeNull(s) ==
  /\ s.kind = "leaf" => ~s.pinned /\ s.type # "null"
  /\ s.kind # "unsupported" /\ ~s.null

\* make_nullable.
Nullable(s) == IF CanBeNull(s) THEN [s EXCEPT !.null = TRUE] ELSE Unsupported

\* normalize_strict_schema, of a property and of a whole schema.
Property(s, name, inner) == IF name \in s.required THEN inner ELSE Nullable(inner)

RECURSIVE Normalized(_)
Normalized(s) ==
  CASE s.kind = "leaf" -> IF s.type = "many" THEN Unsupported ELSE s
    [] s.kind = "array" ->
         IF Normalized(s.items) = Unsupported THEN Unsupported
         ELSE [s EXCEPT !.items = Normalized(s.items)]
    [] s.kind = "object" ->
         LET props == [n \in DOMAIN s.props |-> Property(s, n, Normalized(s.props[n]))]
         IN IF ~s.closed \/ ~(s.required \subseteq DOMAIN s.props)
               \/ \E n \in DOMAIN props : props[n] = Unsupported
            THEN Unsupported
            ELSE [s EXCEPT !.props = props, !.required = DOMAIN props]

\* Values of a schema.
Lists(items) == UNION {[1..n -> items] : n \in 0..MaxItems}
RECURSIVE ValuesOf(_)
ValuesOf(s) ==
  (IF s.null THEN {Null} ELSE {}) \cup
  CASE s.kind = "leaf" -> IF s.type = "null" THEN {Null}
                          ELSE IF s.type = "many" THEN {Text, Null} ELSE {Text}
    [] s.kind = "array" -> {[is |-> "array", items |-> l] : l \in Lists(ValuesOf(s.items))}
    [] s.kind = "object" ->
         {[is |-> "object", props |-> f] :
            f \in UNION {{g \in [names -> UNION {ValuesOf(s.props[n]) : n \in DOMAIN s.props}] :
                            \A n \in names : g[n] \in ValuesOf(s.props[n])} :
                         names \in {d \in SUBSET DOMAIN s.props :
                                      s.required \cap DOMAIN s.props \subseteq d}}}

-----------------------------------------------------------------------------
(* The arguments that come back.                                           *)

\* The optional properties whose null stands for their absence.
Omitted(v, s) == {n \in DOMAIN s.props \ s.required : n \in DOMAIN v.props /\ v.props[n] = Null}

\* restore_omitted_optional_arguments.
RECURSIVE Restored(_, _)
Restored(v, s) ==
  CASE s.kind = "object" /\ v.is = "object" ->
         [v EXCEPT !.props = [n \in DOMAIN v.props \ Omitted(v, s) |->
                                IF n \in DOMAIN s.props THEN Restored(v.props[n], s.props[n])
                                                        ELSE v.props[n]]]
    [] s.kind = "array" /\ v.is = "array" ->
         [v EXCEPT !.items = [n \in DOMAIN v.items |-> Restored(v.items[n], s.items)]]
    [] OTHER -> v

\* The call as the model meant it and as it is written under the strict schema.
RECURSIVE Written(_, _)
Written(v, s) ==
  CASE s.kind = "object" /\ v.is = "object" ->
         [v EXCEPT !.props = [n \in DOMAIN s.props |->
                                IF n \in DOMAIN v.props THEN Written(v.props[n], s.props[n])
                                                        ELSE Null]]
    [] s.kind = "array" /\ v.is = "array" ->
         [v EXCEPT !.items = [n \in DOMAIN v.items |-> Written(v.items[n], s.items)]]
    [] OTHER -> v

-----------------------------------------------------------------------------
Tools == {s \in Schemas : s.kind = "object"}

\* strict_tool_argument_schemas: which tools are sent with strict sampling.
Strict == supported /\ strictness # "none" /\ Normalized(schema) # Unsupported

SchemaInit ==
  /\ stage = "offered" /\ schema \in Tools /\ arguments = Null
  /\ strictness \in {"none", "prefer", "require"} /\ supported \in BOOLEAN

\* validate_tool_sampling: a required constraint that cannot be honoured.
Refuse ==
  /\ stage = "offered" /\ strictness = "require" /\ ~Strict
  /\ stage' = "refused" /\ UNCHANGED <<schema, strictness, supported, arguments>>

\* The endpoint answers with a call, by the strict schema or by the tool's own.
Ask ==
  /\ stage = "offered" /\ (strictness = "require" => Strict)
  /\ arguments' \in ValuesOf(IF Strict THEN Normalized(schema) ELSE schema)
  /\ stage' = "asked" /\ UNCHANGED <<schema, strictness, supported>>

\* Decoder::finish.
Decode ==
  /\ stage = "asked" /\ stage' = "decoded"
  /\ arguments' = IF Strict THEN Restored(arguments, schema) ELSE arguments
  /\ UNCHANGED <<schema, strictness, supported>>

SchemaNext == Refuse \/ Ask \/ Decode

-----------------------------------------------------------------------------
\* What an endpoint that keeps to the schema it was sent calls with is valid
\* for the tool's own schema once it is decoded.
DecodedIsValid == stage = "decoded" => arguments \in ValuesOf(schema)

\* Every call of the tool can be made through the strict schema, and comes
\* back as it was meant: no null that meant something is taken out.
NothingIsLost ==
  stage = "offered" /\ Strict =>
    \A v \in ValuesOf(schema) :
      /\ Written(v, schema) \in ValuesOf(Normalized(schema))
      /\ Restored(Written(v, schema), schema) = v
=============================================================================
