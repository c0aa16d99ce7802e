SPECIFICATION Spec
CONSTANTS
  a1 = a1
  NoAgent = NoAgent
  w1 = w1
  w2 = w2
  w3 = w3
  NoWorker = NoWorker
  Agents = {a1}
  Workers = {w1, w2, w3}
  Rounds = {0, 1}
  MaxCommands = 3
  FaultKinds = {"crash", "get", "create", "finish", "publish"}
  MaxFaults = 2
  ImplementerOutcomes = {"done", "aborted"}
  ReviewerOutcomes = {"done", "aborted"}
INVARIANTS TypeOK OneOwner CancelsTheRunning InHand ReportsMatchRows
PROPERTY KeepsContract
CHECK_DEADLOCK FALSE
