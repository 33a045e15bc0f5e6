SPECIFICATION BlockSpec
CONSTANTS
  EntriesSet = {1, 3}
  MaxHeight = 7
  Operators = {1, 2}
  Elsewhere = 0
  Unit = 2
  Allocations = {0, 3}
  MaxAllocated = 6
INVARIANTS EntriesAreWindow NodesAgree
PROPERTIES  CommissionsPaidOn
CHECK_DEADLOCK FALSE
