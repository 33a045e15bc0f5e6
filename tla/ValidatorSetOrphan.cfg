SPECIFICATION Spec
CONSTANTS
  Validators = {1, 2}
  Amounts = {1}
  PowerReduction = 1
  MaxValidatorsSet = {2}
  Paths = {"top"}
  StakeBound = 2
  UnbondingBound = 2
INVARIANT VolunteerRecordFound
CHECK_DEADLOCK FALSE
