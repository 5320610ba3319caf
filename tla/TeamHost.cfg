SPECIFICATION FairSpec
CONSTANTS
  c1 = c1
  Roster = {"player"}
  WiredTemplates = {"saolei"}
  PresetRole <- MCPresetRole
  Models = {"glm"}
  Requests <- MCRequests
  MaxUpdates = 2
  Calls = {c1}
  MEMBER_READ_ATTEMPTS = 2
  Deletable = {"pa"}
  MaxGenerations = 2
  MaxFaults = 1
CHECK_DEADLOCK FALSE
INVARIANTS RegistryTrue
PROPERTIES ClientsToldTrue RequestsEnd
