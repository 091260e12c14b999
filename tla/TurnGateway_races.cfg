CONSTANTS
  None = None
  Requests = {r1, r2, r3}
  Callers = {c1}
  Transcripts <- Forks
  ActiveTTLs = {1}
  ReceiptTTL = 2
  EventTTL = 4
  Events = FALSE
  Endings = {TRUE, FALSE}
  Deadline = 1
  Lease = 1
  MaxTurns = 3
  MaxNow = 1
SPECIFICATION Spec
SYMMETRY Symmetry
INVARIANTS HandlerAtMostOnce OneResponsePerTurn ReceiptsChain
CHECK_DEADLOCK FALSE
