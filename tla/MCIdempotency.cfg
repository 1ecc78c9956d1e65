SPECIFICATION IdempotencySpec

CONSTANTS
  Attempts <- MCAttempts
  Keys <- MCKeys
  NoKey = "none"
  KeyOf <- MCKeyOf
  Behaviors = {"Skip", "Throw"}

INVARIANTS
  OneHandlerPerKey
  HandledOnce
  ClaimsHaveHandlers
  DuplicateOfSuccess

CHECK_DEADLOCK FALSE
