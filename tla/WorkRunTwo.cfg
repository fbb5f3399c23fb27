CONSTANTS
  N = 2
  Procs = {p1}
  MaxRuns = 2
  MaxResumes = 1
  AttemptIds = {a1, a2}
  NoAttempt = none
  MayPause = TRUE
  Candid = TRUE
SPECIFICATION Spec
SYMMETRY Perms
INVARIANTS
  OnlyDecidedSent
  DenialIsTrue
  CompletedIsTrue
