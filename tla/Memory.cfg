SPECIFICATION Spec
CONSTANTS
  a1 = a1
  p1 = p1
  p2 = p2
  Agents = {a1}
  Presets = {p1, p2}
  NoPreset = NoPreset
  MaxContent = 3
  Titles <- MCTitles
  Norm <- MCNorm
  Within <- MCWithin
  Scope <- MCScope
  Locators = {1, 2}
  Substrings <- MCSubstrings
  Calls <- MCCalls
  PageSize = 1
  SearchPage = 1
  SnapshotLimit = 1
  WebPage = 1
  MaxEvents = 3
  InitialClock = 2
  MaxWrites = 8
  Initial <- MCInitial
  Drafts = {1}
CHECK_DEADLOCK FALSE
INVARIANTS AnswersTrue LoneBatchExact ViewTrue
PROPERTIES EverythingAnswers
