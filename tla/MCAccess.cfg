\* One key; a client and a socket that use it, an administrator who changes it.
CONSTANTS
  k1 = k1 q1 = q1 a1 = a1 s1 = s1 x1 = x1
  NoRow = NoRow NoSession = NoSession All = All
  Keys = {k1}
  Master = k1
  Sessions = {x1}
  Clients = {q1}
  Sockets = {s1}
  Admins = {a1}
  MaxUses = 3
SPECIFICATION Spec
INVARIANTS TypeOK NeverOvercounts RetiredForGood
PROPERTIES JoinsAreGranted
CHECK_DEADLOCK FALSE
