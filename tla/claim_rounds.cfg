SPECIFICATION Spec
CONSTANTS
  a1 = a1
  NoAgent = NoAgent
  c1 = c1
  c2 = c2
  Agents = {a1}
  Callers = {c1}
  PatchTargets = {"doing"}
  MaxReviewRounds = 5
  MaxRedeliveries = 5
  MaxRequests = 1
  MaxFaults = 0
  MayLosePublish = FALSE
  ImplementerOutcomes = {"done"}
  ReviewerOutcomes = {"done"}
INVARIANT ReviewRoundsAreCapped
CHECK_DEADLOCK FALSE
