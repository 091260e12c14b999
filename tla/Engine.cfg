CONSTANTS
  None = None
  Inputs = {i1, i2}
  Endings = {e1}
  Machines = {"v1", "v2", "u1", "u2"}
  Versions = {"1", "2"}
  Version <- VersionDef
  Retained <- RetainedDef
  StatesOf <- StatesDef
  Initial <- InitialDef
  AllStates = {"A", "B", "C"}
  MaxHistory = 1
  MaxLives = 2
SPECIFICATION LiveSpec
INVARIANTS StateOfItsFlow EndIsFinal AnswerIsStored MutualExclusion
PROPERTY Settles
CHECK_DEADLOCK FALSE
