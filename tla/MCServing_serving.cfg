CONSTANTS
  Ids = {n1, n2}
  Keys = {k1, k2}
  Workers = {w1, w2}
  None = None
  RouterKey = claims_key
  HandlerKey = claims_key
  Burst = 4
  Rate = 1
  Cost = 2
  IdleLimit = 4
  NoBucket = NoBucket
  Clients = {c1, c2}
  MaxNow = 6
  Conns = {s1, s2}
  NoConn = NoConn
  Hijackable = TRUE
  MaxAttempts = 3
  MaxFaults = 3
  Handlers = {h1, h2, h3}
  Nobody = Nobody
  MaxRows = 2
  Others = {"memory"}
  Width = 4
  MaxMoves = 3
  Fetches = {f1, f2}
  Nothing = Nothing
  MaxChanges = 2
  MaxErrors = 2
SPECIFICATION AllSpec
INVARIANTS
  TypeOK TrustIsLastDecision StatusWasAnswered
  NeverOverRate FeedTypeOK QuietOnceDestroyed GivesUpLate NoSelfWait
  SnapshotWhole UsageIsDifference
PROPERTIES
  PingsEnd ImplementsBucket ServerLetsGo Recovers StatementsRun CatchesUp
CHECK_DEADLOCK FALSE
