---------------------------- MODULE RewardTypes -----------------------------
(***************************************************************************)
(* The generated messages of x/reward/types:                               *)
(* what Unmarshal, MarshalToSizedBuffer and Size do with each field, in    *)
(* the order of the code. The bytes of a tag and its size are those the    *)
(* code writes and counts.                                                 *)
(***************************************************************************)
EXTENDS TLC, WireFields

-----------------------------------------------------------------------------
\* genesis.pb.go

GenesisState_Unmarshal == 1 :> Message("Params", "reward.Params")
GenesisState_MarshalToSizedBuffer == <<<<Message("Params", "reward.Params"), <<10>>>>>>
GenesisState_Size == <<<<Message("Params", "reward.Params"), 1>>>>

-----------------------------------------------------------------------------
\* query.pb.go

QueryParamsRequest_Unmarshal == NoFields
QueryParamsRequest_MarshalToSizedBuffer == <<>>
QueryParamsRequest_Size == <<>>

QueryParamsResponse_Unmarshal == 1 :> Message("Params", "reward.Params")
QueryParamsResponse_MarshalToSizedBuffer ==
  <<<<Message("Params", "reward.Params"), <<10>>>>>>
QueryParamsResponse_Size == <<<<Message("Params", "reward.Params"), 1>>>>

QueryPoolRequest_Unmarshal == NoFields
QueryPoolRequest_MarshalToSizedBuffer == <<>>
QueryPoolRequest_Size == <<>>

QueryPoolResponse_Unmarshal == 1 :> Messages("Pool", "external")
QueryPoolResponse_MarshalToSizedBuffer == <<<<Messages("Pool", "external"), <<10>>>>>>
QueryPoolResponse_Size == <<<<Messages("Pool", "external"), 1>>>>

-----------------------------------------------------------------------------
\* reward.pb.go

Params_Unmarshal ==
  1 :> Number("FeePoolRate") @@ 2 :> Number("CommunityPoolRate") @@
   3 :> Number("ReserveRate") @@ 4 :> Bytes("ReserveAccount") @@
   5 :> Bytes("RewardDistributeAccount")
Params_MarshalToSizedBuffer ==
  <<<<Bytes("RewardDistributeAccount"), <<42>>>>, <<Bytes("ReserveAccount"), <<34>>>>,
   <<Number("ReserveRate"), <<26>>>>, <<Number("CommunityPoolRate"), <<18>>>>,
   <<Number("FeePoolRate"), <<10>>>>>>
Params_Size ==
  <<<<Number("FeePoolRate"), 1>>, <<Number("CommunityPoolRate"), 1>>,
   <<Number("ReserveRate"), 1>>, <<Bytes("ReserveAccount"), 1>>,
   <<Bytes("RewardDistributeAccount"), 1>>>>

-----------------------------------------------------------------------------
\* tx.pb.go

MsgFundRewardPool_Unmarshal ==
  1 :> Messages("Amount", "external") @@ 2 :> Bytes("Depositor")
MsgFundRewardPool_MarshalToSizedBuffer ==
  <<<<Bytes("Depositor"), <<18>>>>, <<Messages("Amount", "external"), <<10>>>>>>
MsgFundRewardPool_Size ==
  <<<<Messages("Amount", "external"), 1>>, <<Bytes("Depositor"), 1>>>>

MsgFundRewardPoolResponse_Unmarshal == NoFields
MsgFundRewardPoolResponse_MarshalToSizedBuffer == <<>>
MsgFundRewardPoolResponse_Size == <<>>

MsgUpdateParams_Unmarshal ==
  1 :> Bytes("Authority") @@ 2 :> Message("Params", "reward.Params")
MsgUpdateParams_MarshalToSizedBuffer ==
  <<<<Message("Params", "reward.Params"), <<18>>>>, <<Bytes("Authority"), <<10>>>>>>
MsgUpdateParams_Size ==
  <<<<Bytes("Authority"), 1>>, <<Message("Params", "reward.Params"), 1>>>>

MsgUpdateParamsResponse_Unmarshal == NoFields
MsgUpdateParamsResponse_MarshalToSizedBuffer == <<>>
MsgUpdateParamsResponse_Size == <<>>

-----------------------------------------------------------------------------
Unmarshal ==
  "reward.GenesisState" :> GenesisState_Unmarshal @@
  "reward.QueryParamsRequest" :> QueryParamsRequest_Unmarshal @@
  "reward.QueryParamsResponse" :> QueryParamsResponse_Unmarshal @@
  "reward.QueryPoolRequest" :> QueryPoolRequest_Unmarshal @@
  "reward.QueryPoolResponse" :> QueryPoolResponse_Unmarshal @@
  "reward.Params" :> Params_Unmarshal @@
  "reward.MsgFundRewardPool" :> MsgFundRewardPool_Unmarshal @@
  "reward.MsgFundRewardPoolResponse" :> MsgFundRewardPoolResponse_Unmarshal @@
  "reward.MsgUpdateParams" :> MsgUpdateParams_Unmarshal @@
  "reward.MsgUpdateParamsResponse" :> MsgUpdateParamsResponse_Unmarshal

MarshalToSizedBuffer ==
  "reward.GenesisState" :> GenesisState_MarshalToSizedBuffer @@
  "reward.QueryParamsRequest" :> QueryParamsRequest_MarshalToSizedBuffer @@
  "reward.QueryParamsResponse" :> QueryParamsResponse_MarshalToSizedBuffer @@
  "reward.QueryPoolRequest" :> QueryPoolRequest_MarshalToSizedBuffer @@
  "reward.QueryPoolResponse" :> QueryPoolResponse_MarshalToSizedBuffer @@
  "reward.Params" :> Params_MarshalToSizedBuffer @@
  "reward.MsgFundRewardPool" :> MsgFundRewardPool_MarshalToSizedBuffer @@
  "reward.MsgFundRewardPoolResponse" :> MsgFundRewardPoolResponse_MarshalToSizedBuffer @@
  "reward.MsgUpdateParams" :> MsgUpdateParams_MarshalToSizedBuffer @@
  "reward.MsgUpdateParamsResponse" :> MsgUpdateParamsResponse_MarshalToSizedBuffer

Size ==
  "reward.GenesisState" :> GenesisState_Size @@
  "reward.QueryParamsRequest" :> QueryParamsRequest_Size @@
  "reward.QueryParamsResponse" :> QueryParamsResponse_Size @@
  "reward.QueryPoolRequest" :> QueryPoolRequest_Size @@
  "reward.QueryPoolResponse" :> QueryPoolResponse_Size @@
  "reward.Params" :> Params_Size @@
  "reward.MsgFundRewardPool" :> MsgFundRewardPool_Size @@
  "reward.MsgFundRewardPoolResponse" :> MsgFundRewardPoolResponse_Size @@
  "reward.MsgUpdateParams" :> MsgUpdateParams_Size @@
  "reward.MsgUpdateParamsResponse" :> MsgUpdateParamsResponse_Size
=============================================================================
