CONSTANTS
  Parts = {"token", "docs", "desk", "handover", "closing"}
  \* TokenLife
  Readers = {}
  Timer = timer
  MaxPairs = 1
  MaxRetries = 0
  MaxCalls = 2
  \* DocSync
  Pages = {page1, page2}
  Workers = {w1}
  MaxEdits = 1
  MaxFaults = 2
  MaxRestarts = 1
  \* PlanDesk
  Drafters = {d1}
  Senders = {s1}
  MaxResumes = 1
  MaxChanges = 0
  MaxSlips = 1
  \* ExternalClaims
  Finders = {}
  Askers = {}
  MaxSendBacks = 0
  \* Handover
  Pieces = {i1, i2}
  Managers = {m1, m2}
  FirstOwner = m1
  MaxHandovers = 1
  EndAfter = 2
  MaxRetried = 0
  MaxLost = 1
  \* ClosingPhase
  Messages = {said}
  Authors = {a1}
  MaxRuns = 2
SPECIFICATION ServicesFairSpec
CHECK_DEADLOCK FALSE
PROPERTIES
  HeldValueGoes
  SourcesConverge
  AskedOrTold
  EveryDraftEnds
  HandoverEnds
  ClosingEnds
