-------------------------------- MODULE Wire --------------------------------
(***************************************************************************)
(* The decoder of the generated messages (the Unmarshal methods of the     *)
(* *.pb.go files). The methods differ in their fields only: a message is a *)
(* table from field numbers to fields, translated from its own Unmarshal   *)
(* (BurnTypes, EvmTypes, ...), and the loop they share is this module. The *)
(* loop reads a byte at a time. The Unmarshal of a field that is a message *)
(* itself runs on a slice of the same bytes: a frame of the stack.         *)
(*                                                                         *)
(* Width is the width of int and uint64 (64 in the code), Half that of     *)
(* int32 and uint32. A message is a function from the names of those of    *)
(* its fields that are not zero. Indices are counted from the start of the *)
(* input, those of the code from the start of its slice: the overflow of   *)
(* an index inside a slice may be named ErrInvalidLength here where the    *)
(* code says ErrUnexpectedEOF.                                             *)
(***************************************************************************)
EXTENDS WireFields, Sequences

CONSTANTS
  Width, Half,
  Tables,      \* by type of message: its fields by their numbers
  Numeral(_),  \* text that the Unmarshal of a number type (external) accepts
  Inputs       \* what there is to decode: records of a type and bytes

ASSUME WireAssumption ==
  /\ Width \in Nat /\ Half \in Nat /\ 7 < Half /\ Half < Width
  /\ \A n \in 0..Width : 2^n \in Nat \ {0}
  /\ \A in \in Inputs : in.type \in DOMAIN Tables /\ in.bytes \in Seq(0..255)
                        /\ Len(in.bytes) < 2^(Width - 1)
  /\ \A t \in DOMAIN Tables : \A n \in DOMAIN Tables[t] :
       Tables[t][n].of \in DOMAIN Tables \cup {"none"}

-----------------------------------------------------------------------------
VARIABLES
  dAtA,      \* the bytes
  iNdEx,     \* bytes read
  stack,     \* the running Unmarshals, the inner one last: type, l (where its
             \* slice ends), m (the message so far), field (of the outer one)
  pc,        \* the varint that is read or what happens to it
  shift, acc,
  fieldNum,  \* the field that is read
  preIndex,  \* where its tag is
  postIndex, \* where a packed list ends
  depth,     \* of groups in skip
  status     \* "running", "ok" or the error

reading == <<shift, acc>>
place == <<fieldNum, preIndex, postIndex, depth>>
decoder == <<dAtA, iNdEx, stack, pc, reading, place, status>>

\* Unmarshal is called.
StartUnmarshal(type, bytes) ==
  /\ dAtA = bytes /\ iNdEx = 0
  /\ stack = <<[type |-> type, l |-> Len(bytes), m |-> EmptyMessage, field |-> 0]>>
  /\ pc = "tag" /\ shift = 0 /\ acc = 0
  /\ fieldNum = 0 /\ preIndex = 0 /\ postIndex = 0 /\ depth = 0
  /\ status = "running"

Init == \E in \in Inputs : StartUnmarshal(in.type, in.bytes)

Top == stack[Len(stack)]
l == Top.l
Fields == Tables[Top.type]
Known == Fields[fieldNum]

\* An error is returned through all the frames.
Fail(error) ==
  /\ status' = error
  /\ UNCHANGED <<dAtA, iNdEx, stack, pc, reading, place>>

Goto(p) == pc' = p /\ shift' = 0 /\ acc' = 0

\* The message of the inner frame becomes m.
Store(m) == stack' = [stack EXCEPT ![Len(stack)] =
              [type |-> Top.type, l |-> Top.l, m |-> m, field |-> Top.field]]

-----------------------------------------------------------------------------
(* for shift := uint(0); ; shift += 7: one byte of a varint.               *)

AfterVarint ==
  [tag |-> "switch", value |-> "store", length |-> "slice", packed |-> "element",
   skip |-> "skipSwitch", skipVarint |-> "skipped", skipLength |-> "skipBytes"]

\* Seven bits, without those that are shifted out.
Group(b) == ((b % 128) % 2^(Width - shift)) * 2^shift

\* The loop heads that end a message and a packed list.
AtEnd ==
  \/ pc = "tag" /\ shift = 0 /\ iNdEx >= l
  \/ pc = "packed" /\ shift = 0 /\ iNdEx >= postIndex

\* Mutant: the end of the bytes inside a varint is taken for the end of the
\* message.
ReadByteAsEnd ==
  /\ status = "running" /\ pc \in DOMAIN AfterVarint /\ ~AtEnd
  /\ \/ shift >= Width /\ Fail("IntOverflow")
     \/ shift < Width /\ iNdEx >= l /\ Fail("ok")
     \/ /\ shift < Width /\ iNdEx < l
        /\ LET b == dAtA[iNdEx + 1] IN
             /\ acc' = acc + Group(b)
             /\ IF b < 128 THEN pc' = AfterVarint[pc] /\ shift' = 0
                           ELSE pc' = pc /\ shift' = shift + 7
        /\ iNdEx' = iNdEx + 1
        /\ preIndex' = IF pc = "tag" /\ shift = 0 THEN iNdEx ELSE preIndex
        /\ UNCHANGED <<dAtA, stack, fieldNum, postIndex, depth, status>>

ReadByte ==
  /\ status = "running" /\ pc \in DOMAIN AfterVarint /\ ~AtEnd
  /\ \/ shift >= Width /\ Fail("IntOverflow")
     \/ shift < Width /\ iNdEx >= l /\ Fail("UnexpectedEOF")
     \/ /\ shift < Width /\ iNdEx < l
        /\ LET b == dAtA[iNdEx + 1] IN
             /\ acc' = acc + Group(b)
             /\ IF b < 128 THEN pc' = AfterVarint[pc] /\ shift' = 0
                           ELSE pc' = pc /\ shift' = shift + 7
        /\ iNdEx' = iNdEx + 1
        /\ preIndex' = IF pc = "tag" /\ shift = 0 THEN iNdEx ELSE preIndex
        /\ UNCHANGED <<dAtA, stack, fieldNum, postIndex, depth, status>>

-----------------------------------------------------------------------------
(* switch fieldNum.                                                        *)

\* A conversion to a signed type of the width w.
Signed(x, w) == LET y == x % 2^w IN IF y >= 2^(w - 1) THEN y - 2^w ELSE y

tagNumber == Signed(acc \div 8, Half)
wireType == acc % 8

WireTypes(f) ==
  CASE f.kind \in Varints -> {0}
    [] f.kind = "packed" -> {0, 2}
    [] f.kind = "double" -> {1}
    [] OTHER -> {2}

Switch ==
  /\ status = "running" /\ pc = "switch"
  /\ \/ wireType = 4 /\ Fail("EndGroup")
     \/ wireType # 4 /\ tagNumber <= 0 /\ Fail("IllegalTag")
     \/ \* default: the field is skipped from its tag on
        /\ wireType # 4 /\ tagNumber > 0 /\ tagNumber \notin DOMAIN Fields
        /\ iNdEx' = preIndex /\ depth' = 0 /\ Goto("skip")
        /\ UNCHANGED <<dAtA, stack, fieldNum, preIndex, postIndex, status>>
     \/ /\ wireType # 4 /\ tagNumber > 0 /\ tagNumber \in DOMAIN Fields
        /\ \/ wireType \notin WireTypes(Fields[tagNumber]) /\ Fail("WrongWireType")
           \/ /\ wireType \in WireTypes(Fields[tagNumber])
              /\ fieldNum' = tagNumber
              /\ CASE wireType = 0 -> Goto("value")
                   [] wireType = 1 -> Goto("double")
                   [] OTHER -> Goto("length")
              /\ UNCHANGED <<dAtA, iNdEx, stack, preIndex, postIndex, depth, status>>

\* What the varint x is as a value of the field's type.
Converted(f, x) ==
  CASE f.kind = "uint64" -> x
    [] f.kind = "uint32" -> x % 2^Half
    [] f.kind = "int32" -> Signed(x, Half)
    [] f.kind = "bool" -> IF x = 0 THEN 0 ELSE 1
    [] OTHER -> Signed(x, Width)

StoreValue ==
  /\ status = "running" /\ pc = "store"
  /\ LET v == Converted(Known, acc) IN
     Store(Set(Top.m, Known,
               IF Known.kind = "packed" THEN Append(Get(Top.m, Known), v) ELSE v))
  /\ Goto("tag")
  /\ UNCHANGED <<dAtA, iNdEx, place, status>>

Float(bytes) == IF \A k \in DOMAIN bytes : bytes[k] = 0 THEN <<>> ELSE bytes

StoreDouble ==
  /\ status = "running" /\ pc = "double"
  /\ \/ iNdEx + 8 > l /\ Fail("UnexpectedEOF")
     \/ /\ iNdEx + 8 <= l
        /\ Store(Set(Top.m, Known, Float(SubSeq(dAtA, iNdEx + 1, iNdEx + 8))))
        /\ iNdEx' = iNdEx + 8
        /\ Goto("tag")
        /\ UNCHANGED <<dAtA, place, status>>

-----------------------------------------------------------------------------
(* A field with a length.                                                  *)

length == Signed(acc, Width)
Overflows(index) == index >= 2^(Width - 1)

\* A field that is no message: what the slice leaves in it. The Unmarshal of a
\* number leaves it alone when there is no text.
Sliced(f, old, text) ==
  CASE f.kind = "bytes" -> text
    [] f.kind = "strings" -> Append(old, text)
    [] f.kind = "number" -> IF text = <<>> THEN old ELSE text
    [] f.kind = "numberPtr" -> <<text>>

\* Mutant: a message that comes in two parts is started again.
InnerAgain(f, old) == EmptyMessage

\* A field that is a message: what its Unmarshal starts from.
Inner(f, old) ==
  CASE f.kind = "message" -> old
    [] f.kind = "messagePtr" -> IF old = <<>> THEN EmptyMessage ELSE old[1]
    [] f.kind = "messages" -> EmptyMessage

IsMessage(f) == f.kind \in {"message", "messagePtr", "messages"}
IsNumber(f) == f.kind \in {"number", "numberPtr"}

\* The slice dAtA[iNdEx:postIndex] of a field, within the first end bytes.
SliceWithin(end) ==
  /\ status = "running" /\ pc = "slice"
  /\ LET post == iNdEx + length
         text == SubSeq(dAtA, iNdEx + 1, post)
         old == Get(Top.m, Known)
         fits == length >= 0 /\ ~Overflows(post) /\ post <= end
     IN
     \/ (length < 0 \/ Overflows(post)) /\ Fail("InvalidLength")
     \/ length >= 0 /\ ~Overflows(post) /\ post > end /\ Fail("UnexpectedEOF")
     \/ /\ fits /\ IsNumber(Known) /\ text # <<>> /\ ~Numeral(text)
        /\ Fail("NotANumber")
     \/ /\ fits /\ ~IsMessage(Known) /\ Known.kind # "packed"
        /\ IsNumber(Known) => text = <<>> \/ Numeral(text)
        /\ Store(Set(Top.m, Known, Sliced(Known, old, text)))
        /\ iNdEx' = post
        /\ Goto("tag")
        /\ UNCHANGED <<dAtA, place, status>>
     \/ /\ fits /\ Known.kind = "packed"
        /\ postIndex' = post
        /\ Goto("packed")
        /\ UNCHANGED <<dAtA, iNdEx, stack, fieldNum, preIndex, depth, status>>
     \/ \* the inner Unmarshal is called on dAtA[iNdEx:postIndex]
        /\ fits /\ IsMessage(Known)
        /\ stack' = Append(stack, [type |-> Known.of, l |-> post,
                                   m |-> Inner(Known, old), field |-> fieldNum])
        /\ Goto("tag")
        /\ UNCHANGED <<dAtA, iNdEx, place, status>>

\* Mutant: a slice may end after the message it is in.
SliceUnchecked == SliceWithin(Len(dAtA))

Slice == SliceWithin(l)

\* The varint of an element may end after postIndex: only l is checked.
PackedElement ==
  /\ status = "running" /\ pc = "element"
  /\ Store(Set(Top.m, Known, Append(Get(Top.m, Known), Signed(acc, Width))))
  /\ Goto("packed")
  /\ UNCHANGED <<dAtA, iNdEx, place, status>>

PackedEnd ==
  /\ status = "running" /\ pc = "packed" /\ AtEnd
  /\ Goto("tag")
  /\ UNCHANGED <<dAtA, iNdEx, stack, place, status>>

\* The loop ends. The inner message goes into the field it was called for.
Return ==
  /\ status = "running" /\ pc = "tag" /\ AtEnd
  /\ \/ Len(stack) = 1 /\ Fail(IF iNdEx > l THEN "UnexpectedEOF" ELSE "ok")
     \/ /\ Len(stack) > 1
        /\ LET outer == stack[Len(stack) - 1]
               f == Tables[outer.type][Top.field]
               v == CASE f.kind = "message" -> Top.m
                      [] f.kind = "messagePtr" -> <<Top.m>>
                      [] OTHER -> Append(Get(outer.m, f), Top.m)
           IN stack' = [SubSeq(stack, 1, Len(stack) - 1) EXCEPT ![Len(stack) - 1] =
                [type |-> outer.type, l |-> outer.l, m |-> Set(outer.m, f, v),
                 field |-> outer.field]]
        /\ status' = IF iNdEx > l THEN "UnexpectedEOF" ELSE status
        /\ UNCHANGED <<dAtA, iNdEx, pc, reading, place>>

-----------------------------------------------------------------------------
(* skip: a field that the message does not have, groups included.          *)

\* Mutant: the index is not moved behind the field.
SkipToTag(index, d) ==
  /\ iNdEx' = IF d = 0 THEN preIndex ELSE index
  /\ depth' = d
  /\ IF d = 0 THEN Goto("tag") ELSE Goto("skip")
  /\ UNCHANGED <<dAtA, stack, fieldNum, preIndex, postIndex, status>>

\* An iteration of its loop ends at index, in d groups.
SkipTo(index, d) ==
  \/ Overflows(index) /\ Fail("InvalidLength")
  \/ ~Overflows(index) /\ d = 0 /\ index > l /\ Fail("UnexpectedEOF")
  \/ /\ ~Overflows(index) /\ (d = 0 => index <= l)
     /\ iNdEx' = index /\ depth' = d
     /\ IF d = 0 THEN Goto("tag") ELSE Goto("skip")
     /\ UNCHANGED <<dAtA, stack, fieldNum, preIndex, postIndex, status>>

SkipSwitch ==
  /\ status = "running" /\ pc = "skipSwitch"
  /\ \/ /\ wireType \in {0, 2}
        /\ Goto(IF wireType = 0 THEN "skipVarint" ELSE "skipLength")
        /\ UNCHANGED <<dAtA, iNdEx, stack, place, status>>
     \/ wireType = 1 /\ SkipTo(iNdEx + 8, depth)
     \/ wireType = 5 /\ SkipTo(iNdEx + 4, depth)
     \/ wireType = 3 /\ SkipTo(iNdEx, depth + 1)
     \/ wireType = 4 /\ IF depth = 0 THEN Fail("UnexpectedEndOfGroup")
                                     ELSE SkipTo(iNdEx, depth - 1)
     \/ wireType \in {6, 7} /\ Fail("IllegalWireType")

SkipVarint == status = "running" /\ pc = "skipped" /\ SkipTo(iNdEx, depth)

SkipBytes ==
  /\ status = "running" /\ pc = "skipBytes"
  /\ \/ length < 0 /\ Fail("InvalidLength")
     \/ length >= 0 /\ SkipTo(iNdEx + length, depth)

Unmarshal ==
  \/ ReadByte \/ Switch \/ StoreValue \/ StoreDouble \/ Slice
  \/ PackedElement \/ PackedEnd \/ Return \/ SkipSwitch \/ SkipVarint \/ SkipBytes

Spec == Init /\ [][Unmarshal]_decoder

-----------------------------------------------------------------------------
(* Properties.                                                             *)

\* Whatever the bytes: no Unmarshal leaves its slice. The slices are nested in
\* each other and in the input, the index is in the innermost one whenever a
\* byte may be read, and success means that every byte was consumed.
StaysInSlice ==
  /\ \A k \in 1..Len(stack) :
       stack[k].l <= IF k = 1 THEN Len(dAtA) ELSE stack[k - 1].l
  /\ iNdEx >= 0
  /\ stack # <<>> /\ iNdEx > l => pc = "skip" /\ depth > 0
  /\ status = "ok" => Len(stack) = 1 /\ iNdEx = Len(dAtA)
=============================================================================
