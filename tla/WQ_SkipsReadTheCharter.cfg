CONSTANTS
  Items = {i1}
  Procs = {p1}
  CapLow = 1
  CapHigh = 1
  MaxAttempts = 1
  MaxCharter = 1
  MaxProbes = 2
  MaxCopies = 1
  Events = {"pause", "fail"}
  ScopeAnswers = {"outOfScope", "unavailable"}
  NoItem = none
SPECIFICATION Spec
INVARIANTS
  SkipsReadTheCharter
