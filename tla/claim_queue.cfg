SPECIFICATION FairSpec
CONSTANTS
  a1 = a1
  NoAgent = NoAgent
  w1 = w1
  w2 = w2
  w3 = w3
  NoWorker = NoWorker
  Agents = {a1}
  Workers = {w1, w2, w3}
  Rounds = {0, 1}
  MaxCommands = 2
  FaultKinds = {}
  MaxFaults = 0
  ImplementerOutcomes = {"done"}
  ReviewerOutcomes = {"done"}
PROPERTY QueuedCommandRuns
CHECK_DEADLOCK FALSE
