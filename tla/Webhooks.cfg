CONSTANTS
  Nobody = Nobody
  Procs = {"home", "other"}
  Calls = {"recv1", "recv2", "cancel", "timeout"}
  Receives = {"recv1", "recv2"}
  Cancels = {"cancel"}
  Timeout = "timeout"
  Home = "home"
  Admins = {"home"}
  ProcOf <- ProcOfDef
SPECIFICATION Spec
INVARIANTS SettledOnce RenewsItsOwn LeaseExclusion
CHECK_DEADLOCK FALSE
