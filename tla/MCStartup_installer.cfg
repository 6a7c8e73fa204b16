CONSTANTS
  Secrets = {s1, s2}
  Pairs = {c1, c2}
  Settings = {k1, k2}
  User <- Users
  None = None
  Empty = Empty
  MaxCrashes = 0
SPECIFICATION Spec
PROPERTY InstallerFinishes
