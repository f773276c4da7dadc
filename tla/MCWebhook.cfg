\* One event, two webhooks, no retry or two attempts, with and without a queue.
CONSTANTS
  e1 = e1 w1 = w1 w2 = w2
  NoHook = NoHook
  Events = {e1}
  Webhooks = {w1, w2}
  Edited = {w2}
  Edits <- MCEdits
  Retries = {0, 2}
SPECIFICATION FairSpec
INVARIANTS TypeOK AttemptsBounded OneOutcome NoSilentEnd
PROPERTIES EveryHookServed QueueSurvives
