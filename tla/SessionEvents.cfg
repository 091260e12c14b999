CONSTANTS
  None = None
  Workers = {w1, w2}
  Callers = {"c1", "c2"}
  Statuses = {"ok", "bad"}
  Details = {1, 2}
  Deliverable <- FiveEvents
  MaxEvents = 3
  MaxAttempts = 2
  MaxForgets = 1
  MaxCallbacks = 4
SPECIFICATION Spec
SYMMETRY Symmetry
INVARIANTS OutcomeFromEvents SameCaller AcknowledgedOnce
CHECK_DEADLOCK FALSE
