CONSTANTS
  Finders = {f1, f2}
  Askers = {}
  MaxSendBacks = 0
SPECIFICATION ClaimFairSpec
CHECK_DEADLOCK FALSE
PROPERTIES
  NotKeptForGood
