--------------------------- MODULE VolunteerTypes ---------------------------
(***************************************************************************)
(* The generated messages of x/volunteer/types:                            *)
(* what Unmarshal, MarshalToSizedBuffer and Size do with each field, in    *)
(* the order of the code. The bytes of a tag and its size are those the    *)
(* code writes and counts.                                                 *)
(***************************************************************************)
EXTENDS TLC, WireFields

-----------------------------------------------------------------------------
\* genesis.pb.go

GenesisState_Unmarshal ==
  1 :> Messages("VolunteerValidators", "volunteer.VolunteerValidator")
GenesisState_MarshalToSizedBuffer ==
  <<<<Messages("VolunteerValidators", "volunteer.VolunteerValidator"), <<10>>>>>>
GenesisState_Size ==
  <<<<Messages("VolunteerValidators", "volunteer.VolunteerValidator"), 1>>>>

-----------------------------------------------------------------------------
\* proposal.pb.go

RegisterVolunteerValidatorProposal_Unmarshal ==
  1 :> Bytes("Title") @@ 2 :> Bytes("Description") @@
   3 :> Message("ValidatorDescription", "external") @@ 4 :> Bytes("DelegatorAddress") @@
   5 :> Bytes("ValidatorAddress") @@ 6 :> MessagePtr("Pubkey", "external") @@
   7 :> Message("Amount", "external")
RegisterVolunteerValidatorProposal_MarshalToSizedBuffer ==
  <<<<Message("Amount", "external"), <<58>>>>, <<MessagePtr("Pubkey", "external"), <<50>>>>,
   <<Bytes("ValidatorAddress"), <<42>>>>, <<Bytes("DelegatorAddress"), <<34>>>>,
   <<Message("ValidatorDescription", "external"), <<26>>>>, <<Bytes("Description"), <<18>>>>,
   <<Bytes("Title"), <<10>>>>>>
RegisterVolunteerValidatorProposal_Size ==
  <<<<Bytes("Title"), 1>>, <<Bytes("Description"), 1>>,
   <<Message("ValidatorDescription", "external"), 1>>, <<Bytes("DelegatorAddress"), 1>>,
   <<Bytes("ValidatorAddress"), 1>>, <<MessagePtr("Pubkey", "external"), 1>>,
   <<Message("Amount", "external"), 1>>>>

RegisterVolunteerValidatorProposalWithDeposit_Unmarshal ==
  1 :> Bytes("Title") @@ 2 :> Bytes("Description") @@
   3 :> Message("ValidatorDescription", "external") @@ 4 :> Bytes("DelegatorAddress") @@
   5 :> Bytes("ValidatorAddress") @@ 6 :> MessagePtr("Pubkey", "external") @@
   7 :> Message("Amount", "external") @@ 8 :> Bytes("Deposit")
RegisterVolunteerValidatorProposalWithDeposit_MarshalToSizedBuffer ==
  <<<<Bytes("Deposit"), <<66>>>>, <<Message("Amount", "external"), <<58>>>>,
   <<MessagePtr("Pubkey", "external"), <<50>>>>, <<Bytes("ValidatorAddress"), <<42>>>>,
   <<Bytes("DelegatorAddress"), <<34>>>>,
   <<Message("ValidatorDescription", "external"), <<26>>>>, <<Bytes("Description"), <<18>>>>,
   <<Bytes("Title"), <<10>>>>>>
RegisterVolunteerValidatorProposalWithDeposit_Size ==
  <<<<Bytes("Title"), 1>>, <<Bytes("Description"), 1>>,
   <<Message("ValidatorDescription", "external"), 1>>, <<Bytes("DelegatorAddress"), 1>>,
   <<Bytes("ValidatorAddress"), 1>>, <<MessagePtr("Pubkey", "external"), 1>>,
   <<Message("Amount", "external"), 1>>, <<Bytes("Deposit"), 1>>>>

UnregisterVolunteerValidatorProposal_Unmarshal ==
  1 :> Bytes("Title") @@ 2 :> Bytes("Description") @@ 3 :> Bytes("ValidatorAddress")
UnregisterVolunteerValidatorProposal_MarshalToSizedBuffer ==
  <<<<Bytes("ValidatorAddress"), <<26>>>>, <<Bytes("Description"), <<18>>>>,
   <<Bytes("Title"), <<10>>>>>>
UnregisterVolunteerValidatorProposal_Size ==
  <<<<Bytes("Title"), 1>>, <<Bytes("Description"), 1>>, <<Bytes("ValidatorAddress"), 1>>>>

UnregisterVolunteerValidatorProposalWithDeposit_Unmarshal ==
  1 :> Bytes("Title") @@ 2 :> Bytes("Description") @@ 3 :> Bytes("ValidatorAddress") @@
   4 :> Bytes("Deposit")
UnregisterVolunteerValidatorProposalWithDeposit_MarshalToSizedBuffer ==
  <<<<Bytes("Deposit"), <<34>>>>, <<Bytes("ValidatorAddress"), <<26>>>>,
   <<Bytes("Description"), <<18>>>>, <<Bytes("Title"), <<10>>>>>>
UnregisterVolunteerValidatorProposalWithDeposit_Size ==
  <<<<Bytes("Title"), 1>>, <<Bytes("Description"), 1>>, <<Bytes("ValidatorAddress"), 1>>,
   <<Bytes("Deposit"), 1>>>>

-----------------------------------------------------------------------------
\* query.pb.go

QueryVolunteerValidatorsRequest_Unmarshal == NoFields
QueryVolunteerValidatorsRequest_MarshalToSizedBuffer == <<>>
QueryVolunteerValidatorsRequest_Size == <<>>

QueryVolunteerValidatorsResponse_Unmarshal == 1 :> Strings("VolunteerValidators")
QueryVolunteerValidatorsResponse_MarshalToSizedBuffer ==
  <<<<Strings("VolunteerValidators"), <<10>>>>>>
QueryVolunteerValidatorsResponse_Size == <<<<Strings("VolunteerValidators"), 1>>>>

-----------------------------------------------------------------------------
\* tx.pb.go

MsgRegisterVolunteerValidator_Unmarshal ==
  1 :> Bytes("Authority") @@ 2 :> Message("ValidatorDescription", "external") @@
   3 :> Bytes("DelegatorAddress") @@ 4 :> Bytes("ValidatorAddress") @@
   5 :> MessagePtr("Pubkey", "external") @@ 6 :> Message("Amount", "external")
MsgRegisterVolunteerValidator_MarshalToSizedBuffer ==
  <<<<Message("Amount", "external"), <<50>>>>, <<MessagePtr("Pubkey", "external"), <<42>>>>,
   <<Bytes("ValidatorAddress"), <<34>>>>, <<Bytes("DelegatorAddress"), <<26>>>>,
   <<Message("ValidatorDescription", "external"), <<18>>>>, <<Bytes("Authority"), <<10>>>>>>
MsgRegisterVolunteerValidator_Size ==
  <<<<Bytes("Authority"), 1>>, <<Message("ValidatorDescription", "external"), 1>>,
   <<Bytes("DelegatorAddress"), 1>>, <<Bytes("ValidatorAddress"), 1>>,
   <<MessagePtr("Pubkey", "external"), 1>>, <<Message("Amount", "external"), 1>>>>

MsgRegisterVolunteerValidatorResponse_Unmarshal == NoFields
MsgRegisterVolunteerValidatorResponse_MarshalToSizedBuffer == <<>>
MsgRegisterVolunteerValidatorResponse_Size == <<>>

MsgUnregisterVolunteerValidator_Unmarshal ==
  1 :> Bytes("Authority") @@ 2 :> Bytes("ValidatorAddress")
MsgUnregisterVolunteerValidator_MarshalToSizedBuffer ==
  <<<<Bytes("ValidatorAddress"), <<18>>>>, <<Bytes("Authority"), <<10>>>>>>
MsgUnregisterVolunteerValidator_Size ==
  <<<<Bytes("Authority"), 1>>, <<Bytes("ValidatorAddress"), 1>>>>

MsgUnregisterVolunteerValidatorResponse_Unmarshal == NoFields
MsgUnregisterVolunteerValidatorResponse_MarshalToSizedBuffer == <<>>
MsgUnregisterVolunteerValidatorResponse_Size == <<>>

-----------------------------------------------------------------------------
\* volunteervalidator.pb.go

VolunteerValidator_Unmarshal == 1 :> Bytes("Address") @@ 2 :> Int64("Power")
VolunteerValidator_MarshalToSizedBuffer ==
  <<<<Int64("Power"), <<16>>>>, <<Bytes("Address"), <<10>>>>>>
VolunteerValidator_Size == <<<<Bytes("Address"), 1>>, <<Int64("Power"), 1>>>>

-----------------------------------------------------------------------------
Unmarshal ==
  "volunteer.GenesisState" :> GenesisState_Unmarshal @@
  "volunteer.RegisterVolunteerValidatorProposal" :> RegisterVolunteerValidatorProposal_Unmarshal @@
  "volunteer.RegisterVolunteerValidatorProposalWithDeposit" :> RegisterVolunteerValidatorProposalWithDeposit_Unmarshal @@
  "volunteer.UnregisterVolunteerValidatorProposal" :> UnregisterVolunteerValidatorProposal_Unmarshal @@
  "volunteer.UnregisterVolunteerValidatorProposalWithDeposit" :> UnregisterVolunteerValidatorProposalWithDeposit_Unmarshal @@
  "volunteer.QueryVolunteerValidatorsRequest" :> QueryVolunteerValidatorsRequest_Unmarshal @@
  "volunteer.QueryVolunteerValidatorsResponse" :> QueryVolunteerValidatorsResponse_Unmarshal @@
  "volunteer.MsgRegisterVolunteerValidator" :> MsgRegisterVolunteerValidator_Unmarshal @@
  "volunteer.MsgRegisterVolunteerValidatorResponse" :> MsgRegisterVolunteerValidatorResponse_Unmarshal @@
  "volunteer.MsgUnregisterVolunteerValidator" :> MsgUnregisterVolunteerValidator_Unmarshal @@
  "volunteer.MsgUnregisterVolunteerValidatorResponse" :> MsgUnregisterVolunteerValidatorResponse_Unmarshal @@
  "volunteer.VolunteerValidator" :> VolunteerValidator_Unmarshal

MarshalToSizedBuffer ==
  "volunteer.GenesisState" :> GenesisState_MarshalToSizedBuffer @@
  "volunteer.RegisterVolunteerValidatorProposal" :> RegisterVolunteerValidatorProposal_MarshalToSizedBuffer @@
  "volunteer.RegisterVolunteerValidatorProposalWithDeposit" :> RegisterVolunteerValidatorProposalWithDeposit_MarshalToSizedBuffer @@
  "volunteer.UnregisterVolunteerValidatorProposal" :> UnregisterVolunteerValidatorProposal_MarshalToSizedBuffer @@
  "volunteer.UnregisterVolunteerValidatorProposalWithDeposit" :> UnregisterVolunteerValidatorProposalWithDeposit_MarshalToSizedBuffer @@
  "volunteer.QueryVolunteerValidatorsRequest" :> QueryVolunteerValidatorsRequest_MarshalToSizedBuffer @@
  "volunteer.QueryVolunteerValidatorsResponse" :> QueryVolunteerValidatorsResponse_MarshalToSizedBuffer @@
  "volunteer.MsgRegisterVolunteerValidator" :> MsgRegisterVolunteerValidator_MarshalToSizedBuffer @@
  "volunteer.MsgRegisterVolunteerValidatorResponse" :> MsgRegisterVolunteerValidatorResponse_MarshalToSizedBuffer @@
  "volunteer.MsgUnregisterVolunteerValidator" :> MsgUnregisterVolunteerValidator_MarshalToSizedBuffer @@
  "volunteer.MsgUnregisterVolunteerValidatorResponse" :> MsgUnregisterVolunteerValidatorResponse_MarshalToSizedBuffer @@
  "volunteer.VolunteerValidator" :> VolunteerValidator_MarshalToSizedBuffer

Size ==
  "volunteer.GenesisState" :> GenesisState_Size @@
  "volunteer.RegisterVolunteerValidatorProposal" :> RegisterVolunteerValidatorProposal_Size @@
  "volunteer.RegisterVolunteerValidatorProposalWithDeposit" :> RegisterVolunteerValidatorProposalWithDeposit_Size @@
  "volunteer.UnregisterVolunteerValidatorProposal" :> UnregisterVolunteerValidatorProposal_Size @@
  "volunteer.UnregisterVolunteerValidatorProposalWithDeposit" :> UnregisterVolunteerValidatorProposalWithDeposit_Size @@
  "volunteer.QueryVolunteerValidatorsRequest" :> QueryVolunteerValidatorsRequest_Size @@
  "volunteer.QueryVolunteerValidatorsResponse" :> QueryVolunteerValidatorsResponse_Size @@
  "volunteer.MsgRegisterVolunteerValidator" :> MsgRegisterVolunteerValidator_Size @@
  "volunteer.MsgRegisterVolunteerValidatorResponse" :> MsgRegisterVolunteerValidatorResponse_Size @@
  "volunteer.MsgUnregisterVolunteerValidator" :> MsgUnregisterVolunteerValidator_Size @@
  "volunteer.MsgUnregisterVolunteerValidatorResponse" :> MsgUnregisterVolunteerValidatorResponse_Size @@
  "volunteer.VolunteerValidator" :> VolunteerValidator_Size
=============================================================================
