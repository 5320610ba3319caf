SPECIFICATION FairSpec
CONSTANTS
  a = a
  b = b
  c = c
  UserMessages = {a, b, c}
  MaxFailures = 2
  EngineCodes = {"RATE_LIMIT", "HTTP_503"}
  HttpCodes = {"HTTP_503"}
INVARIANT ReplaysUnconsumed
CHECK_DEADLOCK FALSE
