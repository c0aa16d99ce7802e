SPECIFICATION Spec
CONSTANTS
  a1 = a1
  NoAgent = NoAgent
  c1 = c1
  c2 = c2
  Agents = {a1}
  Callers = {c1, c2}
  PatchTargets = {"doing", "stopped", "backlog"}
  MaxReviewRounds = 1
  MaxRedeliveries = 1
  MaxRequests = 2
  MaxFaults = 1
  MayLosePublish = TRUE
  ImplementerOutcomes = {"done", "aborted"}
  ReviewerOutcomes = {}
SYMMETRY Sym
INVARIANTS TypeOK InHand ReviewCommandsReportCommits NoFactSkipped
CHECK_DEADLOCK FALSE
PROPERTY AdvanceOncePerRun
