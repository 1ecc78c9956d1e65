SPECIFICATION Spec

CONSTANTS
  FeedLength = 2
  MaxItemCount = 2
  Configs <- MCDefault
  MaxRestarts = 0

INVARIANT DeliveredNotPassed

CHECK_DEADLOCK FALSE
