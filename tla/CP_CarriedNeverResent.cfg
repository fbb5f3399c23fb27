CONSTANTS
  Messages = {said}
  Authors = {a1}
  MaxRuns = 3
SPECIFICATION ClosingSpec
CHECK_DEADLOCK FALSE
INVARIANTS
  CarriedNeverResent
