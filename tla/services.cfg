SPECIFICATION ServicesSpec
CONSTANTS
  Parts = {"members", "accounts", "provisioning", "logins", "gateway", "stream", "pages",
           "resources", "agents", "agent loop", "startup"}
  People = {u1, u2}
  NoRow = NoRow
  MemberCalls = {c1, c2}
  MaxMemberFaults = 1
  Applicants = {p1}
  Workspaces = {w1, w2}
  AccountCalls = {c1, c2}
  Founder = Founder
  NoOne = NoOne
  Nowhere = Nowhere
  MaxAccountFaults = 1
  WorkspaceIds = {w1, w2}
  Creators = {c1, c2}
  NoWorkspace = NoWorkspace
  MaxProvisionFaults = 1
  Emails = {e1}
  LoginCalls = {c1, c2}
  LoginLimit = 2
  LoginWindow = 1
  NoAccount = NoAccount
  MaxClock = 2
  MaxFailures = 3
  Tokens = {k1}
  Spaces = {w1}
  NoToken = NoToken
  NoSpace = NoSpace
  RequestPaths <- MCPaths
  GatewayCalls = {c1, c2}
  TTL = 1
  MaxWait = 1
  MaxStreamSteps = 3
  MaxStreamFaults = 2
  Upstreams = {"identity", "executor"}
  RowIds = {r1, r2}
  Tenants = {w1, w2}
  NoTenant = NoTenant
  Labels = {"default", "other"}
  MaxNotes = 1
  MaxResFaults = 1
  AgentIds = {a1}
  Providers = {"openai"}
  Servers = {s1}
  MaxToolRuns = 2
  MaxToolFaults = 1
  Drivers = {"simulated", "llm", "client"}
  MaxSteps = 2
  MaxToolCalls = 2
  Replicas = {p1, p2}
  Files = 3
  MaxStartFaults = 2
INVARIANTS
  ServicesTypeOK
  DemotionsKeepAnOwner
  DecisionsHold
  MarkedMeansSeeded
  CountsAreFailures
  StepsComeInOrder
  GuardrailsHold
  RunsGetTheirOwnServers
  ToolsTornDown
  EndingsAreHonest
  SchemaBeforeService
PROPERTIES
  AccessEndsSoon
  EveryWorkspaceProvisioned
  LiveStepsArrive
  PageAnswers
CHECK_DEADLOCK FALSE
