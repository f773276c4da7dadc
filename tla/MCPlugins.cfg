\* Two plugins, three requests in any overlap, one event; requests are alike. All of them may be over.
CONSTANTS
  p1 = p1 p2 = p2 h1 = h1 h2 = h2 h3 = h3
  r1 = r1 r2 = r2 r3 = r3 e1 = e1
  NoPlugin = NoPlugin
  Plugins = {p1, p2}
  Handlers = {h1, h2, h3}
  HooksOf <- MCHooksOf
  Requests = {r1, r2, r3}
  Executions = {e1}
SPECIFICATION Spec
INVARIANTS TypeOK DisabledIsSilent NoneSkipped RegisteredOnce
SYMMETRY MCSymmetry
CHECK_DEADLOCK FALSE
