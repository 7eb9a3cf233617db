\* Two overlapping pollers (a rolling update), three messages, batches of two.
CONSTANTS
  Message = {m1, m2, m3}
  Worker = {w1, w2}
  NoWorker = NoWorker
  BatchSize = 2
  MaxRetry = 1
  MaxRollback = 1
SPECIFICATION Spec
SYMMETRY Symmetry
INVARIANTS
  TypeOK
  SentWasDelivered
  RetryOverrunBounded
  RetriesAreFailures
PROPERTY PromiseSafety
CHECK_DEADLOCK FALSE
