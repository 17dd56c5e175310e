\* Session s1 makes two calls, c1 with approval, c2 never starting (its spawn throws and
\* BullMQ retries the job); s2's worker serves the same queue.
CONSTANTS
  s1 = s1
  s2 = s2
  c1 = c1
  c2 = c2
  NoWorker = NoWorker
  Sessions = {s1, s2}
  Calls = {c1, c2}
  SessionOf <- TwoCallsOneSession
  Dangerous = {c1}
  Unspawnable = {c2}
  Lingering = {}
  Mortal = {s1}
  Concurrency = 1
  MaxAttempts = 2
  MaxStalled = 1
SPECIFICATION FairSpec
INVARIANTS
  TypeOK
  TrackingExact
  VetoHolds
  OneLiveExecution
  ExecutionsBounded
PROPERTIES
  KeepsPromise
  TrackedCallSettles
  ClosingWorkerExits
CHECK_DEADLOCK FALSE
