CONSTANTS
  Null = Null
  Requests = {r1, r2}
  Kinds = {"sliding", "fixed", "distributed"}
  WindowMs = 4
  SubWindowMs = 2
  MaxRequests = 1
  FailureThreshold = 2
  ResetTimeout = 2
  HalfOpenMaxAttempts = 1
  MaxRetries = 1
  ShutdownTimeout = 1
SPECIFICATION Spec
INVARIANTS Limited ClosesDrained
PROPERTIES ShutdownEnds Recovers
CHECK_DEADLOCK FALSE
