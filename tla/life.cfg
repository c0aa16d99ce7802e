SPECIFICATION LifeSpec
CONSTANTS
  a1 = a1
  NoAgent = NoAgent
  c1 = c1
  c2 = c2
  Agents = {a1}
  Callers = {c1}
  PatchTargets = {"doing"}
  MaxReviewRounds = 1
  MaxRedeliveries = 5
  MaxRequests = 1
  MaxFaults = 2
  MayLosePublish = FALSE
  ImplementerOutcomes = {"done", "aborted"}
  ReviewerOutcomes = {"done"}
  w1 = w1
  w2 = w2
  w3 = w3
  NoWorker = NoWorker
  Workers = {w1, w2, w3}
  Rounds = {0, 1}
  MaxCommands = 3
  FaultKinds = {"list", "get"}
  MaxRunFaults = 1
  RunVerdicts = {"done", "aborted"}
INVARIANTS RunsAlternate CommandIsBacked
PROPERTIES VerdictIsCurrent TaskSettles RunsAreReported TaskIsReleased
CHECK_DEADLOCK FALSE
