SPECIFICATION Spec
CONSTANTS
  Msgs = {1}
  Rows = {1, 2, 3}
  Workers = {w1}
  Ids = {i1}
  NoMsg = NoMsg
  NoRow = NoRow
  NoId = NoId
  Limit = 1
  MaxAttempts = 2
  Tries = 2
PROPERTIES
  NonRetryableNotRetried
CHECK_DEADLOCK FALSE
