----------------------------- MODULE Erc20Types -----------------------------
(***************************************************************************)
(* The generated messages of legacy/ethermint/x/erc20/types:               *)
(* what Unmarshal, MarshalToSizedBuffer and Size do with each field, in    *)
(* the order of the code. The bytes of a tag and its size are those the    *)
(* code writes and counts.                                                 *)
(***************************************************************************)
EXTENDS TLC, WireFields

-----------------------------------------------------------------------------
\* erc20.pb.go

TokenPair_Unmarshal ==
  1 :> Bytes("Erc20Address") @@ 2 :> Bytes("Denom") @@ 3 :> Bool("Enabled") @@
   4 :> Int32("ContractOwner")
TokenPair_MarshalToSizedBuffer ==
  <<<<Int32("ContractOwner"), <<32>>>>, <<Bool("Enabled"), <<24>>>>,
   <<Bytes("Denom"), <<18>>>>, <<Bytes("Erc20Address"), <<10>>>>>>
TokenPair_Size ==
  <<<<Bytes("Erc20Address"), 1>>, <<Bytes("Denom"), 1>>, <<Bool("Enabled"), 1>>,
   <<Int32("ContractOwner"), 1>>>>

RegisterCoinProposal_Unmarshal ==
  1 :> Bytes("Title") @@ 2 :> Bytes("Description") @@ 3 :> Messages("Metadata", "external")
RegisterCoinProposal_MarshalToSizedBuffer ==
  <<<<Messages("Metadata", "external"), <<26>>>>, <<Bytes("Description"), <<18>>>>,
   <<Bytes("Title"), <<10>>>>>>
RegisterCoinProposal_Size ==
  <<<<Bytes("Title"), 1>>, <<Bytes("Description"), 1>>,
   <<Messages("Metadata", "external"), 1>>>>

RegisterERC20Proposal_Unmarshal ==
  1 :> Bytes("Title") @@ 2 :> Bytes("Description") @@ 3 :> Strings("Erc20Addresses")
RegisterERC20Proposal_MarshalToSizedBuffer ==
  <<<<Strings("Erc20Addresses"), <<26>>>>, <<Bytes("Description"), <<18>>>>,
   <<Bytes("Title"), <<10>>>>>>
RegisterERC20Proposal_Size ==
  <<<<Bytes("Title"), 1>>, <<Bytes("Description"), 1>>, <<Strings("Erc20Addresses"), 1>>>>

ToggleTokenConversionProposal_Unmarshal ==
  1 :> Bytes("Title") @@ 2 :> Bytes("Description") @@ 3 :> Bytes("Token")
ToggleTokenConversionProposal_MarshalToSizedBuffer ==
  <<<<Bytes("Token"), <<26>>>>, <<Bytes("Description"), <<18>>>>, <<Bytes("Title"), <<10>>>>>>
ToggleTokenConversionProposal_Size ==
  <<<<Bytes("Title"), 1>>, <<Bytes("Description"), 1>>, <<Bytes("Token"), 1>>>>

ProposalMetadata_Unmarshal == 1 :> Messages("Metadata", "external")
ProposalMetadata_MarshalToSizedBuffer == <<<<Messages("Metadata", "external"), <<10>>>>>>
ProposalMetadata_Size == <<<<Messages("Metadata", "external"), 1>>>>

-----------------------------------------------------------------------------
\* genesis.pb.go

GenesisState_Unmarshal ==
  1 :> Message("Params", "erc20.Params") @@ 2 :> Messages("TokenPairs", "erc20.TokenPair")
GenesisState_MarshalToSizedBuffer ==
  <<<<Messages("TokenPairs", "erc20.TokenPair"), <<18>>>>,
   <<Message("Params", "erc20.Params"), <<10>>>>>>
GenesisState_Size ==
  <<<<Message("Params", "erc20.Params"), 1>>,
   <<Messages("TokenPairs", "erc20.TokenPair"), 1>>>>

Params_Unmarshal == 1 :> Bool("EnableErc20") @@ 2 :> Bool("EnableEVMHook")
Params_MarshalToSizedBuffer ==
  <<<<Bool("EnableEVMHook"), <<16>>>>, <<Bool("EnableErc20"), <<8>>>>>>
Params_Size == <<<<Bool("EnableErc20"), 1>>, <<Bool("EnableEVMHook"), 1>>>>

-----------------------------------------------------------------------------
\* tx.pb.go

MsgConvertCoin_Unmarshal ==
  1 :> Message("Coin", "external") @@ 2 :> Bytes("Receiver") @@ 3 :> Bytes("Sender")
MsgConvertCoin_MarshalToSizedBuffer ==
  <<<<Bytes("Sender"), <<26>>>>, <<Bytes("Receiver"), <<18>>>>,
   <<Message("Coin", "external"), <<10>>>>>>
MsgConvertCoin_Size ==
  <<<<Message("Coin", "external"), 1>>, <<Bytes("Receiver"), 1>>, <<Bytes("Sender"), 1>>>>

MsgConvertCoinResponse_Unmarshal == NoFields
MsgConvertCoinResponse_MarshalToSizedBuffer == <<>>
MsgConvertCoinResponse_Size == <<>>

MsgConvertERC20_Unmarshal ==
  1 :> Bytes("ContractAddress") @@ 2 :> Number("Amount") @@ 3 :> Bytes("Receiver") @@
   4 :> Bytes("Sender")
MsgConvertERC20_MarshalToSizedBuffer ==
  <<<<Bytes("Sender"), <<34>>>>, <<Bytes("Receiver"), <<26>>>>, <<Number("Amount"), <<18>>>>,
   <<Bytes("ContractAddress"), <<10>>>>>>
MsgConvertERC20_Size ==
  <<<<Bytes("ContractAddress"), 1>>, <<Number("Amount"), 1>>, <<Bytes("Receiver"), 1>>,
   <<Bytes("Sender"), 1>>>>

MsgConvertERC20Response_Unmarshal == NoFields
MsgConvertERC20Response_MarshalToSizedBuffer == <<>>
MsgConvertERC20Response_Size == <<>>

MsgUpdateParams_Unmarshal ==
  1 :> Bytes("Authority") @@ 2 :> Message("Params", "erc20.Params")
MsgUpdateParams_MarshalToSizedBuffer ==
  <<<<Message("Params", "erc20.Params"), <<18>>>>, <<Bytes("Authority"), <<10>>>>>>
MsgUpdateParams_Size ==
  <<<<Bytes("Authority"), 1>>, <<Message("Params", "erc20.Params"), 1>>>>

MsgUpdateParamsResponse_Unmarshal == NoFields
MsgUpdateParamsResponse_MarshalToSizedBuffer == <<>>
MsgUpdateParamsResponse_Size == <<>>

-----------------------------------------------------------------------------
Unmarshal ==
  "erc20.TokenPair" :> TokenPair_Unmarshal @@
  "erc20.RegisterCoinProposal" :> RegisterCoinProposal_Unmarshal @@
  "erc20.RegisterERC20Proposal" :> RegisterERC20Proposal_Unmarshal @@
  "erc20.ToggleTokenConversionProposal" :> ToggleTokenConversionProposal_Unmarshal @@
  "erc20.ProposalMetadata" :> ProposalMetadata_Unmarshal @@
  "erc20.GenesisState" :> GenesisState_Unmarshal @@
  "erc20.Params" :> Params_Unmarshal @@
  "erc20.MsgConvertCoin" :> MsgConvertCoin_Unmarshal @@
  "erc20.MsgConvertCoinResponse" :> MsgConvertCoinResponse_Unmarshal @@
  "erc20.MsgConvertERC20" :> MsgConvertERC20_Unmarshal @@
  "erc20.MsgConvertERC20Response" :> MsgConvertERC20Response_Unmarshal @@
  "erc20.MsgUpdateParams" :> MsgUpdateParams_Unmarshal @@
  "erc20.MsgUpdateParamsResponse" :> MsgUpdateParamsResponse_Unmarshal

MarshalToSizedBuffer ==
  "erc20.TokenPair" :> TokenPair_MarshalToSizedBuffer @@
  "erc20.RegisterCoinProposal" :> RegisterCoinProposal_MarshalToSizedBuffer @@
  "erc20.RegisterERC20Proposal" :> RegisterERC20Proposal_MarshalToSizedBuffer @@
  "erc20.ToggleTokenConversionProposal" :> ToggleTokenConversionProposal_MarshalToSizedBuffer @@
  "erc20.ProposalMetadata" :> ProposalMetadata_MarshalToSizedBuffer @@
  "erc20.GenesisState" :> GenesisState_MarshalToSizedBuffer @@
  "erc20.Params" :> Params_MarshalToSizedBuffer @@
  "erc20.MsgConvertCoin" :> MsgConvertCoin_MarshalToSizedBuffer @@
  "erc20.MsgConvertCoinResponse" :> MsgConvertCoinResponse_MarshalToSizedBuffer @@
  "erc20.MsgConvertERC20" :> MsgConvertERC20_MarshalToSizedBuffer @@
  "erc20.MsgConvertERC20Response" :> MsgConvertERC20Response_MarshalToSizedBuffer @@
  "erc20.MsgUpdateParams" :> MsgUpdateParams_MarshalToSizedBuffer @@
  "erc20.MsgUpdateParamsResponse" :> MsgUpdateParamsResponse_MarshalToSizedBuffer

Size ==
  "erc20.TokenPair" :> TokenPair_Size @@
  "erc20.RegisterCoinProposal" :> RegisterCoinProposal_Size @@
  "erc20.RegisterERC20Proposal" :> RegisterERC20Proposal_Size @@
  "erc20.ToggleTokenConversionProposal" :> ToggleTokenConversionProposal_Size @@
  "erc20.ProposalMetadata" :> ProposalMetadata_Size @@
  "erc20.GenesisState" :> GenesisState_Size @@
  "erc20.Params" :> Params_Size @@
  "erc20.MsgConvertCoin" :> MsgConvertCoin_Size @@
  "erc20.MsgConvertCoinResponse" :> MsgConvertCoinResponse_Size @@
  "erc20.MsgConvertERC20" :> MsgConvertERC20_Size @@
  "erc20.MsgConvertERC20Response" :> MsgConvertERC20Response_Size @@
  "erc20.MsgUpdateParams" :> MsgUpdateParams_Size @@
  "erc20.MsgUpdateParamsResponse" :> MsgUpdateParamsResponse_Size
=============================================================================
