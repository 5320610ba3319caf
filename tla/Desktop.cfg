SPECIFICATION Spec
CONSTANTS
  Width = 3
  Height = 1
  MineCount = 1
  MaxStreams = 2
  HookNames = {"a", "b"}
  HookScripts = {"text"}
  MaxHooks = 2
  Batches <- MCBatches
  MaxCalls = 4
  MaxFaults = 1
  PlannerCalls <- MCPlannerCalls
CHECK_DEADLOCK FALSE
INVARIANTS DispatchOwned ToldWhatHappened
PROPERTIES GameTrue CallsEnd
