CONSTANTS
  UserIds = {admin}
  Admin = admin
  Passwords = {p1}
  AdminPassword = p1
  Tokens = {t1, t2}
  Fingerprints = {d1}
  DeviceIds = {i1}
  Workers = {w1}
  None = None
  MaxLoginFails = 2
  LockoutMinutes = 1
  AccessTokenTTL = 2
  RefreshTokenTTL = 1
  RouterKey = router_key
  HandlerKey = handler_key
  Requests = {"login", "unlock_user"}
  MaxTime = 3
  MaxWrong = 0
SPECIFICATION Spec
SYMMETRY Interchangeable
INVARIANT EveryChangeRecorded
