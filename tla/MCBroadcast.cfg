\* Two numbers, two runs at a time, two attempts a contact.
CONSTANTS
  n1 = n1 n2 = n2 r1 = r1 r2 = r2
  NoContact = NoContact
  Numbers = {n1, n2}
  Runs = {r1, r2}
  MaxAttempts = 2
SPECIFICATION Spec
INVARIANTS TypeOK SentOnce HonestMarks
PROPERTIES Ends
