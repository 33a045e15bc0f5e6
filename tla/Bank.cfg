SPECIFICATION Spec
CONSTANTS
  Accounts = {"alice", "module", "contract"}
  Denoms <- MCDenoms
  CoinLists <- MCCoinLists
  Deployed <- MCDeployed
  Malformed <- MCMalformed
  Blocked = {"module"}
  Contracts = {"contract"}
  SliceAddresses <- MCSliceAddresses
  SendEnabled <- MCSendEnabled
  Holdings <- MCHoldings
  MaxSends = 2
  MaxTxs = 2
INVARIANTS
  NoShadowCoins
  SendsExplainBalances
  
PROPERTIES
  MessagesObeyPolicy
  
CHECK_DEADLOCK FALSE
