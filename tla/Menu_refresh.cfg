CONSTANTS
  Menus = {"cities", "plans"}
  Plains = {"home", "done"}
  Initial = "home"
  Next0 <- Next0Def
  Routes <- RoutesDef
  Lists <- ListsDef
  MaxItems = 3
  PageSize <- PageSizeDef
  Refresh <- PlansOn2
  MoreKey = 99
  BackKey = 98
  Empty = Empty
  Keys = {0, 1, 2, 7, 98, 99, Empty}
  MaxHistory = 4
  None = None
  Failed = Failed
SPECIFICATION Spec
INVARIANT SelectionAsShown
