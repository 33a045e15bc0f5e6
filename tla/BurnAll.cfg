SPECIFICATION Spec
CONSTANTS
  Proposals = {1, 2, 3}
  Accounts = {alice, bob}
  MsgLists <- DoubleBurns
  MayExpedite = TRUE
  MayCancel = TRUE
  InitialBalance = 3
INVARIANTS
  RefundedAtMostOnce
  EscrowCovered
CHECK_DEADLOCK FALSE
