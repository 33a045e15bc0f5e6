--------------------------- MODULE EthermintTypes ---------------------------
(***************************************************************************)
(* The generated messages of legacy/ethermint/types:                       *)
(* what Unmarshal, MarshalToSizedBuffer and Size do with each field, in    *)
(* the order of the code. The bytes of a tag and its size are those the    *)
(* code writes and counts.                                                 *)
(***************************************************************************)
EXTENDS TLC, WireFields

-----------------------------------------------------------------------------
\* account.pb.go

EthAccount_Unmarshal == 1 :> MessagePtr("BaseAccount", "external") @@ 2 :> Bytes("CodeHash")
EthAccount_MarshalToSizedBuffer ==
  <<<<Bytes("CodeHash"), <<18>>>>, <<MessagePtr("BaseAccount", "external"), <<10>>>>>>
EthAccount_Size ==
  <<<<MessagePtr("BaseAccount", "external"), 1>>, <<Bytes("CodeHash"), 1>>>>

-----------------------------------------------------------------------------
\* dynamic_fee.pb.go

ExtensionOptionDynamicFeeTx_Unmarshal == 1 :> Number("MaxPriorityPrice")
ExtensionOptionDynamicFeeTx_MarshalToSizedBuffer ==
  <<<<Number("MaxPriorityPrice"), <<10>>>>>>
ExtensionOptionDynamicFeeTx_Size == <<<<Number("MaxPriorityPrice"), 1>>>>

-----------------------------------------------------------------------------
\* web3.pb.go

ExtensionOptionsWeb3Tx_Unmarshal ==
  1 :> Uint64("TypedDataChainID") @@ 2 :> Bytes("FeePayer") @@ 3 :> Bytes("FeePayerSig")
ExtensionOptionsWeb3Tx_MarshalToSizedBuffer ==
  <<<<Bytes("FeePayerSig"), <<26>>>>, <<Bytes("FeePayer"), <<18>>>>,
   <<Uint64("TypedDataChainID"), <<8>>>>>>
ExtensionOptionsWeb3Tx_Size ==
  <<<<Uint64("TypedDataChainID"), 1>>, <<Bytes("FeePayer"), 1>>, <<Bytes("FeePayerSig"), 1>>>>

-----------------------------------------------------------------------------
Unmarshal ==
  "ethermint.EthAccount" :> EthAccount_Unmarshal @@
  "ethermint.ExtensionOptionDynamicFeeTx" :> ExtensionOptionDynamicFeeTx_Unmarshal @@
  "ethermint.ExtensionOptionsWeb3Tx" :> ExtensionOptionsWeb3Tx_Unmarshal

MarshalToSizedBuffer ==
  "ethermint.EthAccount" :> EthAccount_MarshalToSizedBuffer @@
  "ethermint.ExtensionOptionDynamicFeeTx" :> ExtensionOptionDynamicFeeTx_MarshalToSizedBuffer @@
  "ethermint.ExtensionOptionsWeb3Tx" :> ExtensionOptionsWeb3Tx_MarshalToSizedBuffer

Size ==
  "ethermint.EthAccount" :> EthAccount_Size @@
  "ethermint.ExtensionOptionDynamicFeeTx" :> ExtensionOptionDynamicFeeTx_Size @@
  "ethermint.ExtensionOptionsWeb3Tx" :> ExtensionOptionsWeb3Tx_Size
=============================================================================
