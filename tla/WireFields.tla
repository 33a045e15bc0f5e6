----------------------------- MODULE WireFields -----------------------------
(***************************************************************************)
(* The fields of the generated messages, by what the generated methods do  *)
(* with them, and messages as functions from the names of those of their   *)
(* fields that are not zero.                                               *)
(***************************************************************************)
EXTENDS Integers

Field(kind, name, of) == [kind |-> kind, name |-> name, of |-> of]

Bytes(name) == Field("bytes", name, "none")      \* a string, too
Strings(name) == Field("strings", name, "none")
Uint64(name) == Field("uint64", name, "none")
Int64(name) == Field("int64", name, "none")
Uint32(name) == Field("uint32", name, "none")
Int32(name) == Field("int32", name, "none")      \* an enumeration, too
Bool(name) == Field("bool", name, "none")
Double(name) == Field("double", name, "none")    \* its eight bytes
Packed(name) == Field("packed", name, "none")    \* a list of int64
Number(name) == Field("number", name, "none")    \* Int and LegacyDec, as text
NumberPtr(name) == Field("numberPtr", name, "none")
Message(name, of) == Field("message", name, of)
MessagePtr(name, of) == Field("messagePtr", name, of)
Messages(name, of) == Field("messages", name, of)

Varints == {"uint64", "int64", "uint32", "int32", "bool"}

EmptyMessage == [name \in {} |-> 0]

\* What a field holds in a new message. A pointer is a sequence of at most one
\* element.
Default(f) ==
  CASE f.kind \in Varints -> 0
    [] f.kind = "message" -> EmptyMessage
    [] OTHER -> <<>>

Get(m, f) == IF f.name \in DOMAIN m THEN m[f.name] ELSE Default(f)

Set(m, f, v) ==
  LET others == DOMAIN m \ {f.name} IN
  IF v = Default(f) THEN [n \in others |-> m[n]]
  ELSE [n \in others \cup {f.name} |-> IF n = f.name THEN v ELSE m[n]]

NoFields == [number \in {} |-> Bytes("none")]
=============================================================================
