SPECIFICATION SpecRestart
CONSTANTS
  Validators = {1, 2, 3}
  Amounts = {1}
  PowerReduction = 1
  MaxValidatorsSet = {1}
  Paths = {"top"}
  StakeBound = 2
  UnbondingBound = 1
INVARIANTS
  LastIsBonded
  VolunteersSeated
  SeatsGoByPower
  LastValidatorsFit
  
CHECK_DEADLOCK FALSE
