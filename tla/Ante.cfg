SPECIFICATION Spec
CONSTANTS
  Accounts = {"a", "b"}
  Txs <- MCTxs
  GasOf <- SigVerificationGasConsumer
  Cost <- MCCost
  Unsupported <- MCUnsupported
  BypassMinFeeMsgTypes = {"relay"}
  maxBypassMinFeeMsgGasUsage = 2
  Prices = {0, 2, 3}
  Unit = 2
  InitialBalance = 8
  MaxExecuted = 4
  MaxBlock = 2
INVARIANTS
  ExecutedInOrder
  
  
  PoolPaysMinimum
