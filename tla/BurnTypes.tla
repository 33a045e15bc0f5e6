----------------------------- MODULE BurnTypes ------------------------------
(***************************************************************************)
(* The generated messages of x/burn/types:                                 *)
(* what Unmarshal, MarshalToSizedBuffer and Size do with each field, in    *)
(* the order of the code. The bytes of a tag and its size are those the    *)
(* code writes and counts.                                                 *)
(***************************************************************************)
EXTENDS TLC, WireFields

-----------------------------------------------------------------------------
\* burn.pb.go

BurnProposal_Unmarshal ==
  1 :> Uint64("ProposalId") @@ 2 :> Bytes("Proposer") @@ 3 :> Messages("Amount", "external")
BurnProposal_MarshalToSizedBuffer ==
  <<<<Messages("Amount", "external"), <<26>>>>, <<Bytes("Proposer"), <<18>>>>,
   <<Uint64("ProposalId"), <<8>>>>>>
BurnProposal_Size ==
  <<<<Uint64("ProposalId"), 1>>, <<Bytes("Proposer"), 1>>,
   <<Messages("Amount", "external"), 1>>>>

-----------------------------------------------------------------------------
\* genesis.pb.go

GenesisState_Unmarshal == 1 :> Messages("OngoingBurnProposals", "burn.BurnProposal")
GenesisState_MarshalToSizedBuffer ==
  <<<<Messages("OngoingBurnProposals", "burn.BurnProposal"), <<10>>>>>>
GenesisState_Size == <<<<Messages("OngoingBurnProposals", "burn.BurnProposal"), 1>>>>

-----------------------------------------------------------------------------
\* query.pb.go

QueryOngoingProposalsRequest_Unmarshal == NoFields
QueryOngoingProposalsRequest_MarshalToSizedBuffer == <<>>
QueryOngoingProposalsRequest_Size == <<>>

QueryOngoingProposalsResponse_Unmarshal == 1 :> Messages("Proposals", "burn.BurnProposal")
QueryOngoingProposalsResponse_MarshalToSizedBuffer ==
  <<<<Messages("Proposals", "burn.BurnProposal"), <<10>>>>>>
QueryOngoingProposalsResponse_Size == <<<<Messages("Proposals", "burn.BurnProposal"), 1>>>>

QueryOngoingProposalRequest_Unmarshal == 1 :> Uint64("ProposalId")
QueryOngoingProposalRequest_MarshalToSizedBuffer == <<<<Uint64("ProposalId"), <<8>>>>>>
QueryOngoingProposalRequest_Size == <<<<Uint64("ProposalId"), 1>>>>

QueryOngoingProposalResponse_Unmarshal ==
  1 :> Bytes("Proposer") @@ 2 :> Messages("Amount", "external")
QueryOngoingProposalResponse_MarshalToSizedBuffer ==
  <<<<Messages("Amount", "external"), <<18>>>>, <<Bytes("Proposer"), <<10>>>>>>
QueryOngoingProposalResponse_Size ==
  <<<<Bytes("Proposer"), 1>>, <<Messages("Amount", "external"), 1>>>>

-----------------------------------------------------------------------------
\* tx.pb.go

MsgBurn_Unmarshal == 1 :> Bytes("Authority") @@ 2 :> Messages("Amount", "external")
MsgBurn_MarshalToSizedBuffer ==
  <<<<Messages("Amount", "external"), <<18>>>>, <<Bytes("Authority"), <<10>>>>>>
MsgBurn_Size == <<<<Bytes("Authority"), 1>>, <<Messages("Amount", "external"), 1>>>>

MsgBurnResponse_Unmarshal == NoFields
MsgBurnResponse_MarshalToSizedBuffer == <<>>
MsgBurnResponse_Size == <<>>

-----------------------------------------------------------------------------
Unmarshal ==
  "burn.BurnProposal" :> BurnProposal_Unmarshal @@
  "burn.GenesisState" :> GenesisState_Unmarshal @@
  "burn.QueryOngoingProposalsRequest" :> QueryOngoingProposalsRequest_Unmarshal @@
  "burn.QueryOngoingProposalsResponse" :> QueryOngoingProposalsResponse_Unmarshal @@
  "burn.QueryOngoingProposalRequest" :> QueryOngoingProposalRequest_Unmarshal @@
  "burn.QueryOngoingProposalResponse" :> QueryOngoingProposalResponse_Unmarshal @@
  "burn.MsgBurn" :> MsgBurn_Unmarshal @@
  "burn.MsgBurnResponse" :> MsgBurnResponse_Unmarshal

MarshalToSizedBuffer ==
  "burn.BurnProposal" :> BurnProposal_MarshalToSizedBuffer @@
  "burn.GenesisState" :> GenesisState_MarshalToSizedBuffer @@
  "burn.QueryOngoingProposalsRequest" :> QueryOngoingProposalsRequest_MarshalToSizedBuffer @@
  "burn.QueryOngoingProposalsResponse" :> QueryOngoingProposalsResponse_MarshalToSizedBuffer @@
  "burn.QueryOngoingProposalRequest" :> QueryOngoingProposalRequest_MarshalToSizedBuffer @@
  "burn.QueryOngoingProposalResponse" :> QueryOngoingProposalResponse_MarshalToSizedBuffer @@
  "burn.MsgBurn" :> MsgBurn_MarshalToSizedBuffer @@
  "burn.MsgBurnResponse" :> MsgBurnResponse_MarshalToSizedBuffer

Size ==
  "burn.BurnProposal" :> BurnProposal_Size @@
  "burn.GenesisState" :> GenesisState_Size @@
  "burn.QueryOngoingProposalsRequest" :> QueryOngoingProposalsRequest_Size @@
  "burn.QueryOngoingProposalsResponse" :> QueryOngoingProposalsResponse_Size @@
  "burn.QueryOngoingProposalRequest" :> QueryOngoingProposalRequest_Size @@
  "burn.QueryOngoingProposalResponse" :> QueryOngoingProposalResponse_Size @@
  "burn.MsgBurn" :> MsgBurn_Size @@
  "burn.MsgBurnResponse" :> MsgBurnResponse_Size
=============================================================================
