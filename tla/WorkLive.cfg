CONSTANTS
  Procs = {p1}
  \* WorkRun
  N = 1
  MaxRuns = 2
  MaxResumes = 1
  AttemptIds = {a1, a2}
  NoAttempt = none
  MayPause = TRUE
  Candid = TRUE
  \* WorkQueue
  Items = {i1, i2}
  CapLow = 1
  CapHigh = 1
  MaxAttempts = 2
  MaxCharter = 0
  MaxProbes = 1
  MaxCopies = 1
  Events = {"pause", "fail"}
  ScopeAnswers = {"outOfScope", "unavailable"}
  NoItem = none
SPECIFICATION WorkFairSpec
PROPERTIES
  RunsSettle
  ApprovedSetsStart
  EveryRowMoves
