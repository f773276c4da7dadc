\* One message between two accounts of the gateway.
CONSTANTS
  s1 = s1 s2 = s2 x1 = x1 ann = ann bob = bob
  NoRow = NoRow
  MaxUpdates = 2
  Sessions = {s1, s2}
  Sender = s1
  Reactors = {x1}
  People = {ann, bob}
SPECIFICATION Spec
INVARIANTS TypeOK NeverAhead NoLimbo ReactionsKept
PROPERTY OnlyReactionsGoBack
