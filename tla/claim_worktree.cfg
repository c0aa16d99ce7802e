SPECIFICATION AgentLoopSpec
CONSTANTS
  Servers = {s1}
  MaxToolRuns = 2
  MaxToolFaults = 0
  Drivers = {"simulated"}
  MaxSteps = 2
  MaxToolCalls = 1
INVARIANT RunsHaveTheirWorktree
CHECK_DEADLOCK FALSE
