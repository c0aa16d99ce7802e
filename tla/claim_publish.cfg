SPECIFICATION FairSpec
CONSTANTS
  a1 = a1
  NoAgent = NoAgent
  c1 = c1
  c2 = c2
  Agents = {a1}
  Callers = {c1}
  PatchTargets = {"doing"}
  MaxReviewRounds = 1
  MaxRedeliveries = 5
  MaxRequests = 1
  MaxFaults = 1
  MayLosePublish = TRUE
  ImplementerOutcomes = {"done"}
  ReviewerOutcomes = {}
PROPERTY LostPublishIsRecovered
CHECK_DEADLOCK FALSE
