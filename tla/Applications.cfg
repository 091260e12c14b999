CONSTANTS
  Menus = {"cities", "plans"}
  Plains = {"home", "done"}
  Initial = "home"
  Next0 <- Next0Def
  Routes <- RoutesDef
  Lists <- ListsDef
  MaxItems = 3
  PageSize <- PageSizeDef
  Refresh <- RefreshDef
  MoreKey = 99
  BackKey = 98
  Empty = Empty
  Keys = {0, 1, 2, 7, 98, 99, Empty}
  MaxHistory = 4
  None = None
  Failed = Failed
  InputKeys = {"0", "1", "2", "text"}
  Flows <- AllFlows
  MaxBack = 3
  Skus = {"maize"}
  Seed <- SeedDef
  Shoppers = {"a", "b"}
  Keyed = {"a"}
  Phone <- PhoneDef
  Quantities = {1, 2}
  MaxTurns = 2
  MaxVersion = 2
  Plugins = {"base", "pay", "pay_now"}
  Requires <- RequiresDef
  Names <- NamesDef
  Installs = {"base", "pay"}
  MaxHooks = 2
  Ids = {1, 2}
  Requests = {"p", "q"}
  MaxSessions = 1
  MaxMachines = 3
  MaxSends = 1
  Histories <- HistoriesDef
  Scripts <- ScriptsDef
  Operations = {"pay", "stock"}
  MaxClock = 3
SPECIFICATION AppSpec
INVARIANTS MenusAsShown AsksForWhatItTakes AnalysisIsSound FormComplete StockConserved PluginsUsable BenchSound ReplayHonest
PROPERTY OrdersAsTold
CHECK_DEADLOCK FALSE
