\* One request and one reconnect attempt at a time.
CONSTANTS
  e1 = e1 e2 = e2 e3 = e3 b1 = b1 b2 = b2 a1 = a1 a2 = a2 r1 = r1
  None = None
  Engines = {e1, e2, e3}
  Budgets = {b1, b2}
  ApiCalls = {a1}
  Attempts = {r1}
  MaxAttempts = 2
  MaxWrites = 2
  QuietCalls = TRUE
SPECIFICATION Spec
SYMMETRY Symmetry
INVARIANT NoStaleFailure
