CONSTANTS
  Items = {i1, i2}
  Procs = {p1, p2}
  CapLow = 1
  CapHigh = 2
  MaxAttempts = 1
  MaxCharter = 2
  MaxProbes = 2
  MaxCopies = 2
  Events = {"pause", "withdraw", "fail"}
  ScopeAnswers = {"outOfScope", "unavailable"}
  NoItem = none
SPECIFICATION Spec
CONSTRAINT Sides
SYMMETRY Perms
INVARIANTS
  TypeOK
  OneEvaluation
  ConnectionNotMissed
  CharterNotMissed
PROPERTIES
  VerdictsKeepCap
  CallsKeepCap
