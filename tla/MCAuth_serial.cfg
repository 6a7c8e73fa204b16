CONSTANTS
  UserIds = {admin}
  Admin = admin
  Passwords = {p1, p2}
  AdminPassword = p1
  Tokens = {t1, t2}
  Fingerprints = {d1}
  DeviceIds = {i1}
  Workers = {w1}
  None = None
  MaxLoginFails = 2
  LockoutMinutes = 1
  AccessTokenTTL = 2
  RefreshTokenTTL = 0
  RouterKey = router_key
  HandlerKey = handler_key
  Requests = {"login", "unlock_user", "refresh", "logout", "update_user", "restart"}
  MaxTime = 2
  MaxWrong = 3
SPECIFICATION Spec
SYMMETRY Interchangeable
INVARIANTS LockoutAfterMax UnlockHolds
PROPERTIES LockLasts SentTokenIsStored MadeWithCurrentRole
