------------------------------ MODULE EvmTypes ------------------------------
(***************************************************************************)
(* The generated messages of legacy/ethermint/x/evm/types:                 *)
(* what Unmarshal, MarshalToSizedBuffer and Size do with each field, in    *)
(* the order of the code. The bytes of a tag and its size are those the    *)
(* code writes and counts.                                                 *)
(***************************************************************************)
EXTENDS TLC, WireFields

-----------------------------------------------------------------------------
\* evm.pb.go

Params_Unmarshal ==
  1 :> Bytes("EvmDenom") @@ 2 :> Bool("EnableCreate") @@ 3 :> Bool("EnableCall") @@
   4 :> Packed("ExtraEIPs") @@ 5 :> Message("ChainConfig", "evm.ChainConfig") @@
   6 :> Bool("AllowUnprotectedTxs")
Params_MarshalToSizedBuffer ==
  <<<<Bool("AllowUnprotectedTxs"), <<48>>>>,
   <<Message("ChainConfig", "evm.ChainConfig"), <<42>>>>, <<Packed("ExtraEIPs"), <<34>>>>,
   <<Bool("EnableCall"), <<24>>>>, <<Bool("EnableCreate"), <<16>>>>,
   <<Bytes("EvmDenom"), <<10>>>>>>
Params_Size ==
  <<<<Bytes("EvmDenom"), 1>>, <<Bool("EnableCreate"), 1>>, <<Bool("EnableCall"), 1>>,
   <<Packed("ExtraEIPs"), 1>>, <<Message("ChainConfig", "evm.ChainConfig"), 1>>,
   <<Bool("AllowUnprotectedTxs"), 1>>>>

ChainConfig_Unmarshal ==
  1 :> NumberPtr("HomesteadBlock") @@ 2 :> NumberPtr("DAOForkBlock") @@
   3 :> Bool("DAOForkSupport") @@ 4 :> NumberPtr("EIP150Block") @@ 5 :> Bytes("EIP150Hash") @@
   6 :> NumberPtr("EIP155Block") @@ 7 :> NumberPtr("EIP158Block") @@
   8 :> NumberPtr("ByzantiumBlock") @@ 9 :> NumberPtr("ConstantinopleBlock") @@
   10 :> NumberPtr("PetersburgBlock") @@ 11 :> NumberPtr("IstanbulBlock") @@
   12 :> NumberPtr("MuirGlacierBlock") @@ 13 :> NumberPtr("BerlinBlock") @@
   17 :> NumberPtr("LondonBlock") @@ 18 :> NumberPtr("ArrowGlacierBlock") @@
   20 :> NumberPtr("GrayGlacierBlock") @@ 21 :> NumberPtr("MergeNetsplitBlock") @@
   22 :> NumberPtr("ShanghaiBlock") @@ 23 :> NumberPtr("CancunBlock")
ChainConfig_MarshalToSizedBuffer ==
  <<<<NumberPtr("CancunBlock"), <<186, 1>>>>, <<NumberPtr("ShanghaiBlock"), <<178, 1>>>>,
   <<NumberPtr("MergeNetsplitBlock"), <<170, 1>>>>,
   <<NumberPtr("GrayGlacierBlock"), <<162, 1>>>>,
   <<NumberPtr("ArrowGlacierBlock"), <<146, 1>>>>, <<NumberPtr("LondonBlock"), <<138, 1>>>>,
   <<NumberPtr("BerlinBlock"), <<106>>>>, <<NumberPtr("MuirGlacierBlock"), <<98>>>>,
   <<NumberPtr("IstanbulBlock"), <<90>>>>, <<NumberPtr("PetersburgBlock"), <<82>>>>,
   <<NumberPtr("ConstantinopleBlock"), <<74>>>>, <<NumberPtr("ByzantiumBlock"), <<66>>>>,
   <<NumberPtr("EIP158Block"), <<58>>>>, <<NumberPtr("EIP155Block"), <<50>>>>,
   <<Bytes("EIP150Hash"), <<42>>>>, <<NumberPtr("EIP150Block"), <<34>>>>,
   <<Bool("DAOForkSupport"), <<24>>>>, <<NumberPtr("DAOForkBlock"), <<18>>>>,
   <<NumberPtr("HomesteadBlock"), <<10>>>>>>
ChainConfig_Size ==
  <<<<NumberPtr("HomesteadBlock"), 1>>, <<NumberPtr("DAOForkBlock"), 1>>,
   <<Bool("DAOForkSupport"), 1>>, <<NumberPtr("EIP150Block"), 1>>, <<Bytes("EIP150Hash"), 1>>,
   <<NumberPtr("EIP155Block"), 1>>, <<NumberPtr("EIP158Block"), 1>>,
   <<NumberPtr("ByzantiumBlock"), 1>>, <<NumberPtr("ConstantinopleBlock"), 1>>,
   <<NumberPtr("PetersburgBlock"), 1>>, <<NumberPtr("IstanbulBlock"), 1>>,
   <<NumberPtr("MuirGlacierBlock"), 1>>, <<NumberPtr("BerlinBlock"), 1>>,
   <<NumberPtr("LondonBlock"), 2>>, <<NumberPtr("ArrowGlacierBlock"), 2>>,
   <<NumberPtr("GrayGlacierBlock"), 2>>, <<NumberPtr("MergeNetsplitBlock"), 2>>,
   <<NumberPtr("ShanghaiBlock"), 2>>, <<NumberPtr("CancunBlock"), 2>>>>

State_Unmarshal == 1 :> Bytes("Key") @@ 2 :> Bytes("Value")
State_MarshalToSizedBuffer == <<<<Bytes("Value"), <<18>>>>, <<Bytes("Key"), <<10>>>>>>
State_Size == <<<<Bytes("Key"), 1>>, <<Bytes("Value"), 1>>>>

TransactionLogs_Unmarshal == 1 :> Bytes("Hash") @@ 2 :> Messages("Logs", "evm.Log")
TransactionLogs_MarshalToSizedBuffer ==
  <<<<Messages("Logs", "evm.Log"), <<18>>>>, <<Bytes("Hash"), <<10>>>>>>
TransactionLogs_Size == <<<<Bytes("Hash"), 1>>, <<Messages("Logs", "evm.Log"), 1>>>>

Log_Unmarshal ==
  1 :> Bytes("Address") @@ 2 :> Strings("Topics") @@ 3 :> Bytes("Data") @@
   4 :> Uint64("BlockNumber") @@ 5 :> Bytes("TxHash") @@ 6 :> Uint64("TxIndex") @@
   7 :> Bytes("BlockHash") @@ 8 :> Uint64("Index") @@ 9 :> Bool("Removed")
Log_MarshalToSizedBuffer ==
  <<<<Bool("Removed"), <<72>>>>, <<Uint64("Index"), <<64>>>>, <<Bytes("BlockHash"), <<58>>>>,
   <<Uint64("TxIndex"), <<48>>>>, <<Bytes("TxHash"), <<42>>>>,
   <<Uint64("BlockNumber"), <<32>>>>, <<Bytes("Data"), <<26>>>>,
   <<Strings("Topics"), <<18>>>>, <<Bytes("Address"), <<10>>>>>>
Log_Size ==
  <<<<Bytes("Address"), 1>>, <<Strings("Topics"), 1>>, <<Bytes("Data"), 1>>,
   <<Uint64("BlockNumber"), 1>>, <<Bytes("TxHash"), 1>>, <<Uint64("TxIndex"), 1>>,
   <<Bytes("BlockHash"), 1>>, <<Uint64("Index"), 1>>, <<Bool("Removed"), 1>>>>

TxResult_Unmarshal ==
  1 :> Bytes("ContractAddress") @@ 2 :> Bytes("Bloom") @@
   3 :> Message("TxLogs", "evm.TransactionLogs") @@ 4 :> Bytes("Ret") @@
   5 :> Bool("Reverted") @@ 6 :> Uint64("GasUsed")
TxResult_MarshalToSizedBuffer ==
  <<<<Uint64("GasUsed"), <<48>>>>, <<Bool("Reverted"), <<40>>>>, <<Bytes("Ret"), <<34>>>>,
   <<Message("TxLogs", "evm.TransactionLogs"), <<26>>>>, <<Bytes("Bloom"), <<18>>>>,
   <<Bytes("ContractAddress"), <<10>>>>>>
TxResult_Size ==
  <<<<Bytes("ContractAddress"), 1>>, <<Bytes("Bloom"), 1>>,
   <<Message("TxLogs", "evm.TransactionLogs"), 1>>, <<Bytes("Ret"), 1>>,
   <<Bool("Reverted"), 1>>, <<Uint64("GasUsed"), 1>>>>

AccessTuple_Unmarshal == 1 :> Bytes("Address") @@ 2 :> Strings("StorageKeys")
AccessTuple_MarshalToSizedBuffer ==
  <<<<Strings("StorageKeys"), <<18>>>>, <<Bytes("Address"), <<10>>>>>>
AccessTuple_Size == <<<<Bytes("Address"), 1>>, <<Strings("StorageKeys"), 1>>>>

TraceConfig_Unmarshal ==
  1 :> Bytes("Tracer") @@ 2 :> Bytes("Timeout") @@ 3 :> Uint64("Reexec") @@
   5 :> Bool("DisableStack") @@ 6 :> Bool("DisableStorage") @@ 8 :> Bool("Debug") @@
   9 :> Int32("Limit") @@ 10 :> MessagePtr("Overrides", "evm.ChainConfig") @@
   11 :> Bool("EnableMemory") @@ 12 :> Bool("EnableReturnData") @@
   13 :> Bytes("TracerJsonConfig")
TraceConfig_MarshalToSizedBuffer ==
  <<<<Bytes("TracerJsonConfig"), <<106>>>>, <<Bool("EnableReturnData"), <<96>>>>,
   <<Bool("EnableMemory"), <<88>>>>, <<MessagePtr("Overrides", "evm.ChainConfig"), <<82>>>>,
   <<Int32("Limit"), <<72>>>>, <<Bool("Debug"), <<64>>>>, <<Bool("DisableStorage"), <<48>>>>,
   <<Bool("DisableStack"), <<40>>>>, <<Uint64("Reexec"), <<24>>>>,
   <<Bytes("Timeout"), <<18>>>>, <<Bytes("Tracer"), <<10>>>>>>
TraceConfig_Size ==
  <<<<Bytes("Tracer"), 1>>, <<Bytes("Timeout"), 1>>, <<Uint64("Reexec"), 1>>,
   <<Bool("DisableStack"), 1>>, <<Bool("DisableStorage"), 1>>, <<Bool("Debug"), 1>>,
   <<Int32("Limit"), 1>>, <<MessagePtr("Overrides", "evm.ChainConfig"), 1>>,
   <<Bool("EnableMemory"), 1>>, <<Bool("EnableReturnData"), 1>>,
   <<Bytes("TracerJsonConfig"), 1>>>>

-----------------------------------------------------------------------------
\* tx.pb.go

MsgEthereumTx_Unmarshal ==
  1 :> MessagePtr("Data", "external") @@ 2 :> Double("Size_") @@ 3 :> Bytes("Hash") @@
   4 :> Bytes("From")
MsgEthereumTx_MarshalToSizedBuffer ==
  <<<<Bytes("From"), <<34>>>>, <<Bytes("Hash"), <<26>>>>, <<Double("Size_"), <<17>>>>,
   <<MessagePtr("Data", "external"), <<10>>>>>>
MsgEthereumTx_Size ==
  <<<<MessagePtr("Data", "external"), 1>>, <<Double("Size_"), 1>>, <<Bytes("Hash"), 1>>,
   <<Bytes("From"), 1>>>>

LegacyTx_Unmarshal ==
  1 :> Uint64("Nonce") @@ 2 :> NumberPtr("GasPrice") @@ 3 :> Uint64("GasLimit") @@
   4 :> Bytes("To") @@ 5 :> NumberPtr("Amount") @@ 6 :> Bytes("Data") @@ 7 :> Bytes("V") @@
   8 :> Bytes("R") @@ 9 :> Bytes("S")
LegacyTx_MarshalToSizedBuffer ==
  <<<<Bytes("S"), <<74>>>>, <<Bytes("R"), <<66>>>>, <<Bytes("V"), <<58>>>>,
   <<Bytes("Data"), <<50>>>>, <<NumberPtr("Amount"), <<42>>>>, <<Bytes("To"), <<34>>>>,
   <<Uint64("GasLimit"), <<24>>>>, <<NumberPtr("GasPrice"), <<18>>>>,
   <<Uint64("Nonce"), <<8>>>>>>
LegacyTx_Size ==
  <<<<Uint64("Nonce"), 1>>, <<NumberPtr("GasPrice"), 1>>, <<Uint64("GasLimit"), 1>>,
   <<Bytes("To"), 1>>, <<NumberPtr("Amount"), 1>>, <<Bytes("Data"), 1>>, <<Bytes("V"), 1>>,
   <<Bytes("R"), 1>>, <<Bytes("S"), 1>>>>

AccessListTx_Unmarshal ==
  1 :> NumberPtr("ChainID") @@ 2 :> Uint64("Nonce") @@ 3 :> NumberPtr("GasPrice") @@
   4 :> Uint64("GasLimit") @@ 5 :> Bytes("To") @@ 6 :> NumberPtr("Amount") @@
   7 :> Bytes("Data") @@ 8 :> Messages("Accesses", "external") @@ 9 :> Bytes("V") @@
   10 :> Bytes("R") @@ 11 :> Bytes("S")
AccessListTx_MarshalToSizedBuffer ==
  <<<<Bytes("S"), <<90>>>>, <<Bytes("R"), <<82>>>>, <<Bytes("V"), <<74>>>>,
   <<Messages("Accesses", "external"), <<66>>>>, <<Bytes("Data"), <<58>>>>,
   <<NumberPtr("Amount"), <<50>>>>, <<Bytes("To"), <<42>>>>, <<Uint64("GasLimit"), <<32>>>>,
   <<NumberPtr("GasPrice"), <<26>>>>, <<Uint64("Nonce"), <<16>>>>,
   <<NumberPtr("ChainID"), <<10>>>>>>
AccessListTx_Size ==
  <<<<NumberPtr("ChainID"), 1>>, <<Uint64("Nonce"), 1>>, <<NumberPtr("GasPrice"), 1>>,
   <<Uint64("GasLimit"), 1>>, <<Bytes("To"), 1>>, <<NumberPtr("Amount"), 1>>,
   <<Bytes("Data"), 1>>, <<Messages("Accesses", "external"), 1>>, <<Bytes("V"), 1>>,
   <<Bytes("R"), 1>>, <<Bytes("S"), 1>>>>

DynamicFeeTx_Unmarshal ==
  1 :> NumberPtr("ChainID") @@ 2 :> Uint64("Nonce") @@ 3 :> NumberPtr("GasTipCap") @@
   4 :> NumberPtr("GasFeeCap") @@ 5 :> Uint64("GasLimit") @@ 6 :> Bytes("To") @@
   7 :> NumberPtr("Amount") @@ 8 :> Bytes("Data") @@ 9 :> Messages("Accesses", "external") @@
   10 :> Bytes("V") @@ 11 :> Bytes("R") @@ 12 :> Bytes("S")
DynamicFeeTx_MarshalToSizedBuffer ==
  <<<<Bytes("S"), <<98>>>>, <<Bytes("R"), <<90>>>>, <<Bytes("V"), <<82>>>>,
   <<Messages("Accesses", "external"), <<74>>>>, <<Bytes("Data"), <<66>>>>,
   <<NumberPtr("Amount"), <<58>>>>, <<Bytes("To"), <<50>>>>, <<Uint64("GasLimit"), <<40>>>>,
   <<NumberPtr("GasFeeCap"), <<34>>>>, <<NumberPtr("GasTipCap"), <<26>>>>,
   <<Uint64("Nonce"), <<16>>>>, <<NumberPtr("ChainID"), <<10>>>>>>
DynamicFeeTx_Size ==
  <<<<NumberPtr("ChainID"), 1>>, <<Uint64("Nonce"), 1>>, <<NumberPtr("GasTipCap"), 1>>,
   <<NumberPtr("GasFeeCap"), 1>>, <<Uint64("GasLimit"), 1>>, <<Bytes("To"), 1>>,
   <<NumberPtr("Amount"), 1>>, <<Bytes("Data"), 1>>, <<Messages("Accesses", "external"), 1>>,
   <<Bytes("V"), 1>>, <<Bytes("R"), 1>>, <<Bytes("S"), 1>>>>

ExtensionOptionsEthereumTx_Unmarshal == NoFields
ExtensionOptionsEthereumTx_MarshalToSizedBuffer == <<>>
ExtensionOptionsEthereumTx_Size == <<>>

MsgEthereumTxResponse_Unmarshal ==
  1 :> Bytes("Hash") @@ 2 :> Messages("Logs", "evm.Log") @@ 3 :> Bytes("Ret") @@
   4 :> Bytes("VmError") @@ 5 :> Uint64("GasUsed")
MsgEthereumTxResponse_MarshalToSizedBuffer ==
  <<<<Uint64("GasUsed"), <<40>>>>, <<Bytes("VmError"), <<34>>>>, <<Bytes("Ret"), <<26>>>>,
   <<Messages("Logs", "evm.Log"), <<18>>>>, <<Bytes("Hash"), <<10>>>>>>
MsgEthereumTxResponse_Size ==
  <<<<Bytes("Hash"), 1>>, <<Messages("Logs", "evm.Log"), 1>>, <<Bytes("Ret"), 1>>,
   <<Bytes("VmError"), 1>>, <<Uint64("GasUsed"), 1>>>>

MsgUpdateParams_Unmarshal == 1 :> Bytes("Authority") @@ 2 :> Message("Params", "evm.Params")
MsgUpdateParams_MarshalToSizedBuffer ==
  <<<<Message("Params", "evm.Params"), <<18>>>>, <<Bytes("Authority"), <<10>>>>>>
MsgUpdateParams_Size ==
  <<<<Bytes("Authority"), 1>>, <<Message("Params", "evm.Params"), 1>>>>

MsgUpdateParamsResponse_Unmarshal == NoFields
MsgUpdateParamsResponse_MarshalToSizedBuffer == <<>>
MsgUpdateParamsResponse_Size == <<>>

-----------------------------------------------------------------------------
Unmarshal ==
  "evm.Params" :> Params_Unmarshal @@
  "evm.ChainConfig" :> ChainConfig_Unmarshal @@
  "evm.State" :> State_Unmarshal @@
  "evm.TransactionLogs" :> TransactionLogs_Unmarshal @@
  "evm.Log" :> Log_Unmarshal @@
  "evm.TxResult" :> TxResult_Unmarshal @@
  "evm.AccessTuple" :> AccessTuple_Unmarshal @@
  "evm.TraceConfig" :> TraceConfig_Unmarshal @@
  "evm.MsgEthereumTx" :> MsgEthereumTx_Unmarshal @@
  "evm.LegacyTx" :> LegacyTx_Unmarshal @@
  "evm.AccessListTx" :> AccessListTx_Unmarshal @@
  "evm.DynamicFeeTx" :> DynamicFeeTx_Unmarshal @@
  "evm.ExtensionOptionsEthereumTx" :> ExtensionOptionsEthereumTx_Unmarshal @@
  "evm.MsgEthereumTxResponse" :> MsgEthereumTxResponse_Unmarshal @@
  "evm.MsgUpdateParams" :> MsgUpdateParams_Unmarshal @@
  "evm.MsgUpdateParamsResponse" :> MsgUpdateParamsResponse_Unmarshal

MarshalToSizedBuffer ==
  "evm.Params" :> Params_MarshalToSizedBuffer @@
  "evm.ChainConfig" :> ChainConfig_MarshalToSizedBuffer @@
  "evm.State" :> State_MarshalToSizedBuffer @@
  "evm.TransactionLogs" :> TransactionLogs_MarshalToSizedBuffer @@
  "evm.Log" :> Log_MarshalToSizedBuffer @@
  "evm.TxResult" :> TxResult_MarshalToSizedBuffer @@
  "evm.AccessTuple" :> AccessTuple_MarshalToSizedBuffer @@
  "evm.TraceConfig" :> TraceConfig_MarshalToSizedBuffer @@
  "evm.MsgEthereumTx" :> MsgEthereumTx_MarshalToSizedBuffer @@
  "evm.LegacyTx" :> LegacyTx_MarshalToSizedBuffer @@
  "evm.AccessListTx" :> AccessListTx_MarshalToSizedBuffer @@
  "evm.DynamicFeeTx" :> DynamicFeeTx_MarshalToSizedBuffer @@
  "evm.ExtensionOptionsEthereumTx" :> ExtensionOptionsEthereumTx_MarshalToSizedBuffer @@
  "evm.MsgEthereumTxResponse" :> MsgEthereumTxResponse_MarshalToSizedBuffer @@
  "evm.MsgUpdateParams" :> MsgUpdateParams_MarshalToSizedBuffer @@
  "evm.MsgUpdateParamsResponse" :> MsgUpdateParamsResponse_MarshalToSizedBuffer

Size ==
  "evm.Params" :> Params_Size @@
  "evm.ChainConfig" :> ChainConfig_Size @@
  "evm.State" :> State_Size @@
  "evm.TransactionLogs" :> TransactionLogs_Size @@
  "evm.Log" :> Log_Size @@
  "evm.TxResult" :> TxResult_Size @@
  "evm.AccessTuple" :> AccessTuple_Size @@
  "evm.TraceConfig" :> TraceConfig_Size @@
  "evm.MsgEthereumTx" :> MsgEthereumTx_Size @@
  "evm.LegacyTx" :> LegacyTx_Size @@
  "evm.AccessListTx" :> AccessListTx_Size @@
  "evm.DynamicFeeTx" :> DynamicFeeTx_Size @@
  "evm.ExtensionOptionsEthereumTx" :> ExtensionOptionsEthereumTx_Size @@
  "evm.MsgEthereumTxResponse" :> MsgEthereumTxResponse_Size @@
  "evm.MsgUpdateParams" :> MsgUpdateParams_Size @@
  "evm.MsgUpdateParamsResponse" :> MsgUpdateParamsResponse_Size
=============================================================================
