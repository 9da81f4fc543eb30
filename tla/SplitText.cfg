SPECIFICATION SplitSpec
CONSTANTS
  MaxLen = 3
  MaxBytes = 6
INVARIANT SplitsSafely
CHECK_DEADLOCK FALSE
