SPECIFICATION BrokerSpec
CONSTANTS
  Clients = {k1, k2}
  Socks = {s1, s2}
  Convs = {c1}
  NoClient = NoClient
  NoSock = NoSock
  MaxCount = 2
  Reuse = FALSE
  Msgs = {1, 2}
  ConvOf <- OneConversation
  Earlier <- OneRequest
  NoMsg = NoMsg
  MaxPending = 1
  EvictSlack = 0
SYMMETRY Symmetry
PROPERTY FirstResponderOwns
CHECK_DEADLOCK FALSE
