SPECIFICATION FairSpec
CONSTANTS
  a = a
  b = b
  c = c
  UserMessages = {a, b, c}
  MaxFailures = 2
  EngineCodes = {"RATE_LIMIT", "HTTP_503"}
  HttpCodes = {"HTTP_503"}
CHECK_DEADLOCK FALSE
INVARIANTS TurnSettles
PROPERTIES InputRead ImplementsScene
