CONSTANTS
  None = None
  Requests = {r1, r2}
  Callers = {c1}
  Transcripts <- TwoScreens
  ActiveTTLs = {1}
  ReceiptTTL = 3
  EventTTL = 4
  Events = FALSE
  Endings = {TRUE, FALSE}
  Deadline = 2
  Lease = 1
  MaxTurns = 1
  MaxNow = 5
SPECIFICATION FairSpec
PROPERTIES ImplementsTurnLog Answered
CHECK_DEADLOCK FALSE
