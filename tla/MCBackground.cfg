\* Two releases, two delayed messages, every service's process, an outbox.
CONSTANTS
  Order = {o1, o2}
  MaxRetryCount = 1
  MaxUncommitted = 0
  MaxEnds = 1
  Delayed = {m1, m2}
  Delay = 1
  MaxTime = 3
  MaxRuns = 2
  MaxFails = 1
  Service = {"auth", "inventory", "order", "payment", "product"}
  MaxOutages = 2
  MaxSignals = 2
  Saved = {m1, m2}
  Worker = {w1, w2}
  NoWorker = NoWorker
  BatchSize = 2
  MaxRetry = 1
  MaxRollback = 1
SPECIFICATION FairSpec
INVARIANTS
  TypeOK
  AcceptedIsKept
  DeadLetterStaysEmpty
  LostBehindALater
PROPERTIES
  PassedOverWaits
  PauseEnds
  SignalDoesNotEndRunner
  ServingOutlivesRunner
  SignalStopsServing
  ComesUp
  PromiseLiveness
CHECK_DEADLOCK FALSE
