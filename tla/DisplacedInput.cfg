SPECIFICATION Spec
CONSTANTS
  a = a
  b = b
  UserMessages = {a, b}
  RoundStop = 2
  MaxUnits = 4
  MaxTerminals = 2
  MaxFailures = 1
  MaxThrows = 1
CHECK_DEADLOCK FALSE
INVARIANTS HeldInputWins
