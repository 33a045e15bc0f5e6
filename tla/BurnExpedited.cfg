SPECIFICATION Spec
CONSTANTS
  Proposals = {1, 2}
  Accounts = {alice, bob}
  MsgLists <- SingleBurns
  MayExpedite = TRUE
  MayCancel = FALSE
  InitialBalance = 3
INVARIANT RefundOnlyAfterFailure
CHECK_DEADLOCK FALSE
