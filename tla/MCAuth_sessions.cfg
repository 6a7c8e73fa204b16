CONSTANTS
  UserIds = {admin, u1}
  Admin = admin
  Passwords = {p1}
  AdminPassword = p1
  Tokens = {t1, t2, t3}
  Fingerprints = {d1}
  DeviceIds = {i1}
  Workers = {w1, w2}
  None = None
  MaxLoginFails = 2
  LockoutMinutes = 1
  AccessTokenTTL = 2
  RefreshTokenTTL = 0
  RouterKey = claims_key
  HandlerKey = claims_key
  Requests = {"login", "logout", "refresh", "create_user", "delete_user", "change_password"}
  MaxTime = 2
  MaxWrong = 0
SPECIFICATION Spec
SYMMETRY Interchangeable
INVARIANTS TypeOK ReferentialIntegrity TokensKeepOwner
PROPERTY SessionsAreChains
