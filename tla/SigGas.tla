------------------------------- MODULE SigGas -------------------------------
(***************************************************************************)
(* ante/sigverify.go: the gas a signature costs, by the type of its public *)
(* key, and through the members of a multisig, which may be multisigs      *)
(* again. A signature is a record: the key's type, and for a multisig the  *)
(* bit array of the members that signed and their keys with the signatures *)
(* they gave.                                                              *)
(***************************************************************************)
EXTENDS Integers, Sequences, FiniteSetsExt

CONSTANTS
  Cost,        \* gas by type of a simple key
  Unsupported  \* types of keys that are refused

ASSUME SigGasAssumption == \A k \in DOMAIN Cost : Cost[k] \in Nat

Refused == -1

Key(type) == [type |-> type, bits |-> <<>>, members |-> <<>>, data |-> "single"]
Multisig(bits, members) ==
  [type |-> "multisig", bits |-> bits, members |-> members, data |-> "multi"]

RECURSIVE SigVerificationGasConsumer(_)
RECURSIVE ConsumeMultisignature(_, _)
RECURSIVE ConsumeMultisignatureFirst(_, _)

\* Mutant: the loop returns after the first member that signed.
ConsumeMultisignatureFirst(sig, i) ==
  CASE i > Len(sig.bits) -> 0
    [] ~sig.bits[i] -> ConsumeMultisignatureFirst(sig, i + 1)
    [] OTHER -> SigVerificationGasConsumer(sig.members[i])

\* ConsumeMultisignatureVerificationGas from bit i on: members that did not
\* sign are skipped, the first error is returned, and a bit array longer than
\* the list of keys panics, which the ante handler turns into an error.
ConsumeMultisignature(sig, i) ==
  IF i > Len(sig.bits) THEN 0
  ELSE IF ~sig.bits[i] THEN ConsumeMultisignature(sig, i + 1)
  ELSE IF i > Len(sig.members) THEN Refused
  ELSE LET gas == SigVerificationGasConsumer(sig.members[i])
           rest == ConsumeMultisignature(sig, i + 1)
       IN  IF gas = Refused \/ rest = Refused THEN Refused ELSE gas + rest

\* The gas of a signature, or Refused. An ed25519 key is charged and refused.
SigVerificationGasConsumer(sig) ==
  CASE sig.type = "multisig" ->
         IF sig.data = "multi" THEN ConsumeMultisignature(sig, 1) ELSE Refused
    [] sig.type \in DOMAIN Cost \ Unsupported -> Cost[sig.type]
    [] OTHER -> Refused

-----------------------------------------------------------------------------
(* What the gas is meant to be: the cost of the simple keys that signed.   *)

\* Paths to the simple signatures in a signature of at most two levels of
\* multisigs.
Signers(sig) == {i \in DOMAIN sig.bits : sig.bits[i]}
Leaves(sig) ==
  IF sig.type # "multisig" THEN {<<>>}
  ELSE UNION {IF sig.members[i].type # "multisig" THEN {<<i>>}
              ELSE {<<i, j>> : j \in Signers(sig.members[i])} : i \in Signers(sig)}
KeyAt(sig, p) ==
  CASE p = <<>> -> sig.type
    [] Len(p) = 1 -> sig.members[p[1]].type
    [] OTHER -> sig.members[p[1]].members[p[2]].type
=============================================================================
