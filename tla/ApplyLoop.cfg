SPECIFICATION LoopSpec
CONSTANTS
  Validators = {1, 2, 3, 4}
  Powers = {0, 1, 2}
  MaxValidators = {1, 2, 3, 4}
INVARIANTS BondsSelected NeverReadsPastEnd
PROPERTY Terminates
CHECK_DEADLOCK FALSE
