SPECIFICATION Spec
CONSTANTS
  o = o
  a = a
  b = b
  t = t
  x = x
  y = y
  p1 = p1
  p2 = p2
  p3 = p3
  Passwords = {p1, p2, p3}
  Users = {o, a, b}
  Owner = o
  Editor = a
  Scenarios <- MCScenarios
  Triggers = {t}
  Actions = {x, y}
  FirstVersions <- MCFirstVersions
SYMMETRY Symmetry
INVARIANTS TypeOK OneOwner StoredVersionsRun  CacheBelongsToUser
PROPERTIES AdminsManagedByOwner VersionsKept SessionEndsByExpiry PasswordKept
CHECK_DEADLOCK FALSE
