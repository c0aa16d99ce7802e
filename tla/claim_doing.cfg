SPECIFICATION FairSpec
CONSTANTS
  a1 = a1
  NoAgent = NoAgent
  c1 = c1
  c2 = c2
  Agents = {a1}
  Callers = {c1}
  PatchTargets = {"doing"}
  MaxReviewRounds = 1
  MaxRedeliveries = 5
  MaxRequests = 3
  MaxFaults = 0
  MayLosePublish = FALSE
  ImplementerOutcomes = {"done", "stopped"}
  ReviewerOutcomes = {}
PROPERTY DoingGetsARun
CHECK_DEADLOCK FALSE
