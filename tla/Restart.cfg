SPECIFICATION SpecRestart
CONSTANTS
  Validators = {1, 2}
  Amounts = {1, 2}
  PowerReduction = 2
  MaxValidatorsSet = {1, 2}
  Paths = {"top", "nested"}
  StakeBound = 4
  UnbondingBound = 2
INVARIANTS
  IndexMatchesRecords
  LastPowersCurrent
  PoolsBackStake
  HaltsOnlyOnMissingRecord
CHECK_DEADLOCK FALSE
