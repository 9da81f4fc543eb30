SPECIFICATION ProxySpec
CONSTANTS
  Clients = {a, b}
  Convs = {c}
  NoClient = NoClient
  Set = Set
  Route = Route
  Cli = Cli
  Requests = {Set, Route}
  Commands = {Cli}
  Does <- AllFromOne
  UsizeBits = 4
  Batches = {batch}
  EventsOf <- TwoEvents
  WebhookTasks = {a, b}
  MaxSends = 3
  Files = {a, b}
  TTL = 1
  LastSecond = 3
  NoTime = NoTime
  MaxLen = 3
  MaxBytes = 6
  Peers = {a, b}
  Empty = Empty
  Full = Full
  Shards = {Empty, Full}
  ShardOf <- InFull
  ShardOrder <- EmptyFirst
  Handlers = {h}
  Threads = 2
  Room = 1
  Openers = {a, b}
SYMMETRY Alike
INVARIANTS
  ApartHasCause
  SyncExact
  StatusExact
  DriftHasCause
  RestoredIsTracked
  RoutedTwiceHasCause
  AckedMeansRouted
  PromptLinkServes
  LeftoverHasCause
  PassRemovesDue
  SplitKeepsText
  StopHasCause
  OwnershipApart
  OpenMeansServed
CHECK_DEADLOCK FALSE
