SPECIFICATION Spec
CONSTANTS
  Unit = 4
  Denoms = {1, 2}
  BlocksPerYear = 2
  Rates = {0, 1, 2}
  Rewards = {5}
  Addresses = {"unset", "valid", "malformed"}
  InitialAccount = 1
  MaxTotal = 5
INVARIANTS
  SharesFit
  
PROPERTIES
  OwnFundsUntouched
  AllPaidOn
  HaltsOnlyOnZeroShare
CHECK_DEADLOCK FALSE
