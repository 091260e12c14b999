CONSTANTS
  None = None
  Requests = {r1, r2}
  Callers = {c1, c2}
  Transcripts <- TwoScreens
  ActiveTTLs = {1}
  ReceiptTTL = 3
  EventTTL = 4
  Events = TRUE
  Endings = {FALSE}
  Deadline = 2
  Lease = 2
  MaxTurns = 2
  MaxNow = 3
SPECIFICATION Spec
SYMMETRY Symmetry
INVARIANT AnswersAreDurable
PROPERTIES NoLateCommit ClosedFence
CHECK_DEADLOCK FALSE
