--------------------------- MODULE FeemarketTypes ---------------------------
(***************************************************************************)
(* The generated messages of legacy/ethermint/x/feemarket/types:           *)
(* what Unmarshal, MarshalToSizedBuffer and Size do with each field, in    *)
(* the order of the code. The bytes of a tag and its size are those the    *)
(* code writes and counts.                                                 *)
(***************************************************************************)
EXTENDS TLC, WireFields

-----------------------------------------------------------------------------
\* feemarket.pb.go

Params_Unmarshal ==
  1 :> Bool("NoBaseFee") @@ 2 :> Uint32("BaseFeeChangeDenominator") @@
   3 :> Uint32("ElasticityMultiplier") @@ 5 :> Int64("EnableHeight") @@
   6 :> Number("BaseFee") @@ 7 :> Number("MinGasPrice") @@ 8 :> Number("MinGasMultiplier")
Params_MarshalToSizedBuffer ==
  <<<<Number("MinGasMultiplier"), <<66>>>>, <<Number("MinGasPrice"), <<58>>>>,
   <<Number("BaseFee"), <<50>>>>, <<Int64("EnableHeight"), <<40>>>>,
   <<Uint32("ElasticityMultiplier"), <<24>>>>, <<Uint32("BaseFeeChangeDenominator"), <<16>>>>,
   <<Bool("NoBaseFee"), <<8>>>>>>
Params_Size ==
  <<<<Bool("NoBaseFee"), 1>>, <<Uint32("BaseFeeChangeDenominator"), 1>>,
   <<Uint32("ElasticityMultiplier"), 1>>, <<Int64("EnableHeight"), 1>>,
   <<Number("BaseFee"), 1>>, <<Number("MinGasPrice"), 1>>, <<Number("MinGasMultiplier"), 1>>>>

-----------------------------------------------------------------------------
\* tx.pb.go

MsgUpdateParams_Unmarshal ==
  1 :> Bytes("Authority") @@ 2 :> Message("Params", "feemarket.Params")
MsgUpdateParams_MarshalToSizedBuffer ==
  <<<<Message("Params", "feemarket.Params"), <<18>>>>, <<Bytes("Authority"), <<10>>>>>>
MsgUpdateParams_Size ==
  <<<<Bytes("Authority"), 1>>, <<Message("Params", "feemarket.Params"), 1>>>>

MsgUpdateParamsResponse_Unmarshal == NoFields
MsgUpdateParamsResponse_MarshalToSizedBuffer == <<>>
MsgUpdateParamsResponse_Size == <<>>

-----------------------------------------------------------------------------
Unmarshal ==
  "feemarket.Params" :> Params_Unmarshal @@
  "feemarket.MsgUpdateParams" :> MsgUpdateParams_Unmarshal @@
  "feemarket.MsgUpdateParamsResponse" :> MsgUpdateParamsResponse_Unmarshal

MarshalToSizedBuffer ==
  "feemarket.Params" :> Params_MarshalToSizedBuffer @@
  "feemarket.MsgUpdateParams" :> MsgUpdateParams_MarshalToSizedBuffer @@
  "feemarket.MsgUpdateParamsResponse" :> MsgUpdateParamsResponse_MarshalToSizedBuffer

Size ==
  "feemarket.Params" :> Params_Size @@
  "feemarket.MsgUpdateParams" :> MsgUpdateParams_Size @@
  "feemarket.MsgUpdateParamsResponse" :> MsgUpdateParamsResponse_Size
=============================================================================
