---------------------------- MODULE WireMarshal ----------------------------
(***************************************************************************)
(* The encoder of the generated messages (Size, Marshal and                *)
(* MarshalToSizedBuffer) and its composition with the decoder of Wire: one *)
(* or two messages of a type are marshalled one after the other, the bytes *)
(* arrive whole, cut short or with fields of a later version, and are      *)
(* unmarshalled.                                                           *)
(*                                                                         *)
(* MarshalToSizedBuffer fills the buffer from its end, so what it has      *)
(* written is a suffix of the buffer.                                      *)
(***************************************************************************)
EXTENDS Wire, FiniteSetsExt

LOCAL INSTANCE SequencesExt

CONSTANTS
  Marshals, Sizes,  \* by type of message: the fields in the order in which
                    \* MarshalToSizedBuffer and Size go through them
  Samples,          \* sequences of messages to send, with their type
  Unknown           \* encoded fields that no message has

VARIABLES
  pending,  \* messages not marshalled yet
  buf, i,   \* what is written of the buffer, and the index of its first byte
  size,     \* the size of the buffer
  calls,    \* the running MarshalToSizedBuffers, the inner one last: the
            \* fields left, i when it started, the tag of the field
  wire,     \* messages that are marshalled
  ends,     \* lengths of buf after each field of the outer message
  sent,     \* history: the type and the messages
  arrived   \* history: how the bytes arrived

encoder == <<pending, buf, i, size, calls, wire, ends, sent, arrived>>
vars == <<decoder, encoder>>

-----------------------------------------------------------------------------
(* Size.                                                                   *)

uint64(v) == v % 2^Width

\* math_bits.Len64.
Len64[x \in Nat] == Min({k \in 0..Width : x < 2^k})

sov[x \in Nat] == (Len64[IF x % 2 = 0 THEN x + 1 ELSE x] + 6) \div 7

\* The text of a number: one that was never set is written as zero.
Text(v) == IF v = <<>> THEN <<48>> ELSE v

Delimited[n \in Nat] == n + sov[n]

SumOver(op(_), s) == MapThenSumSet(LAMBDA k : op(s[k]), DOMAIN s)

RECURSIVE SizeOf(_, _)

\* What the field adds to Size, for a tag of c bytes.
FieldSize(f, c, v) ==
  CASE f.kind = "bool" -> IF v = 0 THEN 0 ELSE c + 1
    [] f.kind \in Varints \ {"bool"} -> IF v = 0 THEN 0 ELSE c + sov[uint64(v)]
    [] f.kind = "double" -> IF v = <<>> THEN 0 ELSE c + 8
    [] f.kind = "bytes" -> IF v = <<>> THEN 0 ELSE c + Delimited[Len(v)]
    [] f.kind = "strings" -> SumOver(LAMBDA e : c + Delimited[Len(e)], v)
    [] f.kind = "packed" ->
         IF v = <<>> THEN 0 ELSE c + Delimited[SumOver(LAMBDA e : sov[uint64(e)], v)]
    [] f.kind = "number" -> c + Delimited[Len(Text(v))]
    [] f.kind = "numberPtr" -> SumOver(LAMBDA e : c + Delimited[Len(Text(e))], v)
    [] f.kind = "message" -> c + Delimited[SizeOf(f.of, v)]
    [] OTHER -> SumOver(LAMBDA e : c + Delimited[SizeOf(f.of, e)], v)

SizeOf(t, m) == SumOver(LAMBDA e : FieldSize(e[1], e[2], Get(m, e[1])), Sizes[t])

-----------------------------------------------------------------------------
(* MarshalToSizedBuffer.                                                   *)

EncodedVarint[v \in Nat] ==
  LET last == Max({k \in 0..((Width - 1) \div 7) : k = 0 \/ v >= 2^(7 * k)}) IN
  [k \in 1..(last + 1) |->
     ((v \div 2^(7 * (k - 1))) % 128) + IF k <= last THEN 128 ELSE 0]

\* Mutant: zero values are written, although Size does not count them.
WrittenAlways(f, v) ==
  IF f.kind \in {"strings", "messages", "numberPtr", "messagePtr"} THEN Reverse(v) ELSE <<v>>

\* The values of a field that are written, the last first.
Written(f, v) ==
  CASE f.kind \in {"strings", "messages", "numberPtr", "messagePtr"} -> Reverse(v)
    [] f.kind \in {"number", "message"} -> <<v>>
    [] OTHER -> IF v = Default(f) THEN <<>> ELSE <<v>>

\* The fields of a message that are written, in order.
Entries(t, m) ==
  FlattenSeq([k \in DOMAIN Marshals[t] |->
    LET f == Marshals[t][k][1]
        vs == Written(f, Get(m, f))
    IN  [j \in DOMAIN vs |-> [f |-> f, v |-> vs[j], tag |-> Marshals[t][k][2]]]])

\* The bytes of a value that is no message, and the bytes reserved for them.
Payload(f, v) ==
  CASE f.kind \in Varints -> EncodedVarint[uint64(v)]
    [] f.kind = "double" -> v
    [] f.kind \in {"number", "numberPtr"} -> EncodedVarint[Len(Text(v))] \o Text(v)
    [] f.kind = "packed" ->
         LET bytes == FlattenSeq([k \in DOMAIN v |-> EncodedVarint[uint64(v[k])]])
         IN  EncodedVarint[Len(bytes)] \o bytes
    [] OTHER -> EncodedVarint[Len(v)] \o v

Reserved(f, v) ==
  CASE f.kind = "bool" -> 1
    [] f.kind \in Varints \ {"bool"} -> sov[uint64(v)]
    [] f.kind = "double" -> 8
    [] f.kind \in {"number", "numberPtr"} -> Delimited[Len(Text(v))]
    [] f.kind = "packed" ->
         Delimited[SumOver(LAMBDA e : Len(EncodedVarint[uint64(e)]), v)]
    [] OTHER -> Delimited[Len(v)]

Call(t, m, start, tag) == [todo |-> Entries(t, m), start |-> start, tag |-> tag]

\* Marshal: the buffer is made.
Marshal ==
  /\ pending # <<>> /\ calls = <<>>
  /\ size' = SizeOf(sent.type, Head(pending))
  /\ i' = SizeOf(sent.type, Head(pending))
  /\ buf' = <<>> /\ ends' = {0}
  /\ calls' = <<Call(sent.type, Head(pending), SizeOf(sent.type, Head(pending)), <<>>)>>
  /\ pending' = Tail(pending)
  /\ UNCHANGED <<decoder, wire, sent, arrived>>

Inside == calls[Len(calls)]

MarshalField ==
  /\ calls # <<>> /\ Inside.todo # <<>>
  /\ LET e == Head(Inside.todo)
         rest == [calls EXCEPT ![Len(calls)].todo = Tail(@)]
     IN
     \/ /\ IsMessage(e.f)
        /\ calls' = Append(rest, Call(e.f.of, e.v, i, e.tag))
        /\ UNCHANGED <<buf, i, ends>>
     \/ /\ ~IsMessage(e.f)
        /\ calls' = rest
        /\ buf' = e.tag \o Payload(e.f, e.v) \o buf
        /\ i' = i - Reserved(e.f, e.v) - Len(e.tag)
        /\ ends' = IF Len(calls) = 1 THEN ends \cup {Len(buf')} ELSE ends
  /\ UNCHANGED <<decoder, pending, size, wire, sent, arrived>>

\* An inner MarshalToSizedBuffer returns: length and tag are written.
InnerReturns ==
  /\ Len(calls) > 1 /\ Inside.todo = <<>>
  /\ LET n == Inside.start - i IN
       /\ buf' = Inside.tag \o EncodedVarint[n] \o buf
       /\ i' = i - sov[n] - Len(Inside.tag)
  /\ calls' = SubSeq(calls, 1, Len(calls) - 1)
  /\ ends' = IF Len(calls) = 2 THEN ends \cup {Len(buf')} ELSE ends
  /\ UNCHANGED <<decoder, pending, size, wire, sent, arrived>>

\* Marshal returns dAtA[:n], the first n bytes of the buffer.
MarshalReturns ==
  /\ Len(calls) = 1 /\ Inside.todo = <<>>
  /\ LET dat == [k \in 1..i |-> 0] \o buf IN wire' = wire \o SubSeq(dat, 1, size - i)
  /\ calls' = <<>>
  /\ UNCHANGED <<decoder, pending, buf, i, size, ends, sent, arrived>>

-----------------------------------------------------------------------------
(* The bytes arrive.                                                       *)

Arrive(how, bytes) ==
  /\ status = "idle" /\ pending = <<>> /\ calls = <<>>
  /\ arrived' = how
  /\ dAtA' = bytes /\ status' = "running"
  /\ stack' = <<[type |-> sent.type, l |-> Len(bytes), m |-> EmptyMessage, field |-> 0]>>
  /\ UNCHANGED <<iNdEx, pc, reading, place, pending, buf, i, size, calls, wire, ends, sent>>

ArriveWhole == Arrive("whole", wire)

ArriveCut ==
  /\ Len(sent.messages) = 1
  /\ \E k \in 0..(Len(wire) - 1) : Arrive("cut", SubSeq(wire, 1, k))

ArriveExtended ==
  /\ Len(sent.messages) = 1
  /\ \E u \in Unknown : Arrive("whole", wire \o u) \/ Arrive("whole", u \o wire)

Idle ==
  /\ dAtA = <<>> /\ iNdEx = 0 /\ stack = <<>> /\ pc = "tag" /\ shift = 0 /\ acc = 0
  /\ fieldNum = 0 /\ preIndex = 0 /\ postIndex = 0 /\ depth = 0
  /\ status = "idle"

NothingSent == [type |-> "none", messages |-> <<>>]

InitWire ==
  /\ \/ \E s \in Samples : Idle /\ sent = s /\ arrived = "none"
     \/ Init /\ sent = NothingSent /\ arrived = "bytes"
  /\ pending = sent.messages
  /\ buf = <<>> /\ i = 0 /\ size = 0 /\ calls = <<>> /\ wire = <<>> /\ ends = {}

Next ==
  \/ Marshal \/ MarshalField \/ InnerReturns \/ MarshalReturns
  \/ ArriveWhole \/ ArriveCut \/ ArriveExtended
  \/ Unmarshal /\ UNCHANGED encoder

WireSpec == InitWire /\ [][Next]_vars /\ WF_vars(Next)

-----------------------------------------------------------------------------
(* Properties.                                                             *)

\* Size, Marshal and the varints agree to the byte: MarshalToSizedBuffer never
\* writes before the start of the buffer that Size made for it, fills exactly
\* the bytes it counts, and leaves none over.
BufferFits ==
  /\ i >= 0
  /\ calls # <<>> => i + Len(buf) = size
  /\ calls = <<>> => i = 0

RECURSIVE Merged(_, _, _)

\* What the message x is after a has been merged into it.
MergedField(f, x, a) ==
  CASE f.kind \in {"strings", "packed"} -> x \o a
    [] f.kind = "number" -> Text(a)
    [] f.kind = "numberPtr" -> IF a = <<>> THEN x ELSE <<Text(a[1])>>
    [] f.kind = "message" -> Merged(f.of, x, a)
    [] f.kind = "messagePtr" ->
         IF a = <<>> THEN x ELSE <<Merged(f.of, IF x = <<>> THEN EmptyMessage ELSE x[1], a[1])>>
    [] f.kind = "messages" -> x \o [k \in DOMAIN a |-> Merged(f.of, EmptyMessage, a[k])]
    [] OTHER -> IF a = Default(f) THEN x ELSE a

Merged(t, x, a) ==
  LET value(f) == MergedField(f, Get(x, f), Get(a, f))
      fields == {f \in {Tables[t][n] : n \in DOMAIN Tables[t]} : value(f) # Default(f)}
  IN  [name \in {f.name : f \in fields} |-> value(CHOOSE f \in fields : f.name = name)]

\* Marshalled messages are always accepted and come back as they were: one
\* message unchanged, two one after the other as the second merged into the
\* first, and fields of a later version make no difference wherever they are.
\* It ties together the three methods of every generated message: tags, field
\* numbers, order, presence and lengths.
RoundTrip ==
  arrived = "whole" =>
    /\ status \in {"running", "ok"}
    /\ status = "ok" => stack[1].m = FoldLeft(LAMBDA x, a : Merged(sent.type, x, a),
                                              EmptyMessage, sent.messages)

\* A message that is cut short is refused, with ErrUnexpectedEOF, unless the cut
\* is between two fields of the outer message: then, and only then, nothing
\* shows that fields are missing.
CutIsSeen ==
  arrived = "cut" /\ status # "running" =>
    IF size - Len(dAtA) \in ends THEN status = "ok" ELSE status = "UnexpectedEOF"

\* Whatever the bytes, Marshal and Unmarshal end.
Terminates == <>(status \notin {"idle", "running"})
=============================================================================
