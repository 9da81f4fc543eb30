SPECIFICATION Spec
CONSTANTS
  Msgs = {1}
  Rows = {1, 2}
  w1 = w1
  w2 = w2
  i1 = i1
  i2 = i2
  Workers <- MCWorkers
  Ids <- MCIds
  IdsOf <- MCIdsOf
  NoMsg = NoMsg
  NoRow = NoRow
  NoId = NoId
  Limit = 1
PROPERTIES
  FailedClaimReleased
CHECK_DEADLOCK FALSE
