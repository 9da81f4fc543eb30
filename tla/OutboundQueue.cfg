SPECIFICATION Spec
CONSTANTS
  Msgs = {1}
  Rows = {1, 2, 3}
  Workers = {w1, w2}
  Ids = {i1, i2}
  NoMsg = NoMsg
  NoRow = NoRow
  NoId = NoId
  Limit = 1
  MaxAttempts = 2
  Tries = 2
SYMMETRY WorkersAndIds
INVARIANTS
  LossHasCause
  RepeatsHaveCause
PROPERTIES
  ImplementsClaimQueue
CHECK_DEADLOCK FALSE
