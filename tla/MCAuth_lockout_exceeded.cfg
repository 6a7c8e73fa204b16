CONSTANTS
  UserIds = {admin}
  Admin = admin
  Passwords = {p1, p2}
  AdminPassword = p1
  Tokens = {t1}
  Fingerprints = {d1}
  DeviceIds = {i1}
  Workers = {w1, w2}
  None = None
  MaxLoginFails = 2
  LockoutMinutes = 1
  AccessTokenTTL = 1
  RefreshTokenTTL = 1
  RouterKey = router_key
  HandlerKey = handler_key
  Requests = {"login"}
  MaxTime = 2
  MaxWrong = 3
SPECIFICATION Spec
SYMMETRY Interchangeable
INVARIANT LockoutAfterMax
