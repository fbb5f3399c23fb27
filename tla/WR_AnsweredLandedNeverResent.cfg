CONSTANTS
  N = 1
  Procs = {p1, p2}
  MaxRuns = 2
  MaxResumes = 0
  AttemptIds = {a1, a2}
  NoAttempt = none
  MayPause = FALSE
  Candid = FALSE
SPECIFICATION Spec
SYMMETRY Perms
CHECK_DEADLOCK FALSE
INVARIANT AnsweredLandedNeverResent
