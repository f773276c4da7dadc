\* Two requests and a reconnect attempt, any two of them at a time.
CONSTANTS
  e1 = e1 e2 = e2 e3 = e3 b1 = b1 b2 = b2 a1 = a1 a2 = a2 r1 = r1
  None = None
  Engines = {e1, e2}
  Budgets = {b1, b2}
  ApiCalls = {a1, a2}
  Attempts = {r1}
  MaxAttempts = 1
  MaxWrites = 1
  QuietCalls = FALSE
SPECIFICATION Spec
SYMMETRY Symmetry
CONSTRAINT Overlap
INVARIANT NoGhost
