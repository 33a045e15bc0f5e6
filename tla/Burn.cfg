SPECIFICATION Spec
CONSTANTS
  Proposals = {1, 2, 3}
  Accounts = {alice, bob}
  MsgLists <- SingleBurns
  MayExpedite = FALSE
  MayCancel = FALSE
  InitialBalance = 3
INVARIANTS
  EscrowBacked
PROPERTIES
  EscrowSettles
  ImplementsEscrow
CHECK_DEADLOCK FALSE
