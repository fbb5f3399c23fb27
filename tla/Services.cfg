CONSTANTS
  Parts = {"token", "docs", "desk", "claims", "handover", "closing"}
  \* TokenLife
  Readers = {r1}
  Timer = timer
  MaxPairs = 2
  MaxRetries = 1
  MaxCalls = 1
  \* DocSync
  Pages = {page1, page2}
  Workers = {one, two}
  MaxEdits = 1
  MaxFaults = 2
  MaxRestarts = 1
  \* PlanDesk
  Drafters = {one, two}
  Senders = {s1}
  MaxResumes = 0
  MaxChanges = 1
  MaxSlips = 1
  \* ExternalClaims
  Finders = {one, two}
  Askers = {q1}
  MaxSendBacks = 2
  \* Handover
  Pieces = {one, two}
  Managers = {m1, m2}
  FirstOwner = m1
  MaxHandovers = 2
  EndAfter = 2
  MaxRetried = 1
  MaxLost = 0
  \* ClosingPhase
  Messages = {said}
  Authors = {one, two}
  MaxRuns = 3
SPECIFICATION ServicesSpec
SYMMETRY Perms
CHECK_DEADLOCK FALSE
INVARIANTS
  ServicesTypeOK
  PresentedAlone
  EndedAtTheVendor
  RefreshAhead
  PagesMoveForward
  OnlyTheLastDraft
  DecidedAsShown
  CodesStayKnown
  OneHolder
  RefusedByALiveClaim
  RunsOnItsOwnersWord
  AskedOfItsOwner
  SaidOnce
PROPERTIES
  PairMovesOn
  TwoWalksMissed
  KeepsTheBook
