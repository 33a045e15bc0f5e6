------------------------- MODULE Ethsecp256k1Types --------------------------
(***************************************************************************)
(* The generated messages of legacy/ethermint/crypto/ethsecp256k1:         *)
(* what Unmarshal, MarshalToSizedBuffer and Size do with each field, in    *)
(* the order of the code. The bytes of a tag and its size are those the    *)
(* code writes and counts.                                                 *)
(***************************************************************************)
EXTENDS TLC, WireFields

-----------------------------------------------------------------------------
\* keys.pb.go

PubKey_Unmarshal == 1 :> Bytes("Key")
PubKey_MarshalToSizedBuffer == <<<<Bytes("Key"), <<10>>>>>>
PubKey_Size == <<<<Bytes("Key"), 1>>>>

PrivKey_Unmarshal == 1 :> Bytes("Key")
PrivKey_MarshalToSizedBuffer == <<<<Bytes("Key"), <<10>>>>>>
PrivKey_Size == <<<<Bytes("Key"), 1>>>>

-----------------------------------------------------------------------------
Unmarshal ==
  "ethsecp256k1.PubKey" :> PubKey_Unmarshal @@
  "ethsecp256k1.PrivKey" :> PrivKey_Unmarshal

MarshalToSizedBuffer ==
  "ethsecp256k1.PubKey" :> PubKey_MarshalToSizedBuffer @@
  "ethsecp256k1.PrivKey" :> PrivKey_MarshalToSizedBuffer

Size ==
  "ethsecp256k1.PubKey" :> PubKey_Size @@
  "ethsecp256k1.PrivKey" :> PrivKey_Size
=============================================================================
