\* Three messages: the second one is not followed by a save.
CONSTANTS
  c1 = c1 c2 = c2
  NoEntity = NoEntity
  Total = 3
  Cancels = {c1, c2}
SPECIFICATION FairSpec
INVARIANTS TypeOK Accounting AtMostOnce Driven CompletedMeansAll
PROPERTIES CancelStops StopsOnError Broadcasts Ends
