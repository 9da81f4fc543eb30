SPECIFICATION Spec
CONSTANTS
  Clients = {k1, k2}
  Socks = {s1, s2}
  Convs = {c1}
  NoClient = NoClient
  NoSock = NoSock
  MaxCount = 2
  Reuse = FALSE
PROPERTY ReleaseOnlyOwn
