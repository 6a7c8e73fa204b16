CONSTANTS
  Secrets = {s1, s2, s3}
  Pairs = {c1, c2}
  Settings = {k1, k2}
  User <- Users
  None = None
  Empty = Empty
  MaxCrashes = 2
  Askers = {a1, a2}
  Values = {v1, v2, v3}
  Absent = Absent
  MaxStops = 1
  Requests = {r1, r2}
  Tokens = {1, 2, 3}
  HasClaims = TRUE
SPECIFICATION AllSpec
INVARIANTS
  TypeOK SecretKept ServesComplete
  OneIdentity KeyBehindIdentity NothingLost LogoutIsFinal NoBlindRetry
PROPERTY ComesBack
CHECK_DEADLOCK FALSE
