CONSTANTS
  UserIds = {admin}
  Admin = admin
  Passwords = {p1, p2}
  AdminPassword = p1
  Tokens = {t1, t2}
  Fingerprints = {d1}
  DeviceIds = {i1, i2}
  Workers = {w1, w2}
  None = None
  MaxLoginFails = 2
  LockoutMinutes = 1
  AccessTokenTTL = 2
  RefreshTokenTTL = 1
  RouterKey = router_key
  HandlerKey = handler_key
  Requests = {"login", "unlock_user", "revoke_session", "trust_device", "revoke_device", "delete_device", "restart"}
  MaxTime = 2
  MaxWrong = 3
SPECIFICATION Spec
SYMMETRY Interchangeable
INVARIANTS NoLockWithoutWrongPasswords TrustIsLastDecision
