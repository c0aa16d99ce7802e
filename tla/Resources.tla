----------------------------- MODULE Resources -----------------------------
(***************************************************************************)
(* The Workspace service's tables apart from the task saga: skills, MCP    *)
(* servers and their connections, projects, knowledge, rules, tasks with   *)
(* their feedback.  The tables do not read one another, so a behaviour is  *)
(* about one of them.  A handler is one SQL statement unless it says       *)
(* otherwise, and a request that is refused or matches no row is no step.  *)
(***************************************************************************)
EXTENDS Naturals, FiniteSets

CONSTANTS
  RowIds, Tenants, NoTenant,
  Labels,             \* names; one of them is "default"
  MaxNotes, MaxResFaults

ASSUME ResourcesAssumption ==
  "default" \in Labels /\ MaxNotes \in Nat /\ MaxResFaults \in Nat

VARIABLES
  table,        \* the table this behaviour is about
  rows,
  rules,        \* rules: (workspace, name) -> "none", "on" or "off"
  connections,  \* mcp_connections: server -> status
  posts,        \* provisioning POSTs between the binding and the rules
  chosen,       \* history: the last choice a user made for a rule
  resFaults

resVars == <<table, rows, rules, connections, posts, chosen, resFaults>>

DefaultRules == {"no-auto-merge", "review-before-merge", "test-gate"}
Tables == {"skills", "mcp", "projects", "knowledge", "rules", "tasks"}

(* A row's id is never used again.  "tell" is what the request that wrote  *)
(* an MCP server has still to publish.                                     *)
Unused == [state |-> "unused", space |-> NoTenant, label |-> "", on |-> "unset",
           notes |-> 0, tell |-> "nothing"]

ResourcesTypeOK ==
  /\ table \in Tables
  /\ rows \in [RowIds -> [state : {"unused", "live", "gone"}, space : Tenants \cup {NoTenant},
                          label : Labels \cup {""}, on : {"unset", "on", "off"},
                          notes : 0 .. MaxNotes, tell : {"nothing", "created", "deleted"}]]
  /\ rules \in [Tenants -> [DefaultRules -> {"none", "on", "off"}]]
  /\ connections \in [RowIds -> {"none", "connected"}]
  /\ posts \subseteq Tenants
  /\ chosen \in [Tenants -> [DefaultRules -> {"none", "on", "off"}]]
  /\ resFaults \in 0 .. MaxResFaults

TablesInit ==
  /\ table \in Tables
  /\ rules = [w \in Tenants |-> [n \in DefaultRules |-> "none"]]
  /\ connections = [r \in RowIds |-> "none"]
  /\ posts = {}
  /\ chosen = [w \in Tenants |-> [n \in DefaultRules |-> "none"]]
  /\ resFaults = 0

ResourcesInit == TablesInit /\ rows = [r \in RowIds |-> Unused]

RowsOnly == UNCHANGED <<table, rules, connections, posts, chosen, resFaults>>

-----------------------------------------------------------------------------
(* What the statements have in common.  No scope is no row.                *)
Live(r) == rows[r].state = "live"
whereScopedAt(ws) == {r \in RowIds : Live(r) /\ rows[r].space \in ws}

Insert(w, n, tell) == \E r \in RowIds :
  /\ rows[r].state = "unused"
  /\ rows' = [rows EXCEPT ![r] = [Unused EXCEPT !.state = "live", !.space = w,
                                                !.label = n, !.tell = tell]]
Rename(r, n) == rows' = [rows EXCEPT ![r].label = n]
Switch(r, on) == rows' = [rows EXCEPT ![r].on = on]
Drop(r, tell) == rows' = [rows EXCEPT ![r] =
  [Unused EXCEPT !.state = "gone", !.space = rows[r].space, !.tell = tell]]

-----------------------------------------------------------------------------
(* Skills.                                                                 *)
SkillCreate(w, n) == Insert(w, n, "nothing")
SkillUpdate(r, ws) ==
  /\ r \in whereScopedAt(ws)
  /\ \/ \E n \in Labels : Rename(r, n)
     \/ \E on \in {"on", "off"} : Switch(r, on)
SkillDelete(r, ws) == r \in whereScopedAt(ws) /\ Drop(r, "nothing")
SkillSetEnabled(w, r, on) == r \in whereScopedAt({w}) /\ Switch(r, on)

createSkill == \E w \in Tenants, n \in Labels : SkillCreate(w, n)
updateSkill == \E r \in RowIds, ws \in SUBSET Tenants : SkillUpdate(r, ws)
deleteSkill == \E r \in RowIds, ws \in SUBSET Tenants : SkillDelete(r, ws)
setSkillEnabled == \E w \in Tenants, r \in RowIds, on \in {"on", "off"} : SkillSetEnabled(w, r, on)

Skills ==
  /\ table = "skills"
  /\ createSkill \/ updateSkill \/ deleteSkill \/ setSkillEnabled
  /\ RowsOnly

-----------------------------------------------------------------------------
(* MCP servers.  The definition commits, then the event runs the           *)
(* projection in the same goroutine.                                       *)
McpCreate(w, n) == Insert(w, n, "created")
McpUpdate(r, ws) == r \in whereScopedAt(ws) /\ (\E n \in Labels : Rename(r, n))
McpDelete(r, ws) == r \in whereScopedAt(ws) /\ Drop(r, "deleted")
McpListByIDs(ids) == {r \in ids : Live(r)}

createMcp == \E w \in Tenants, n \in Labels : McpCreate(w, n)
updateMcp == \E r \in RowIds, ws \in SUBSET Tenants : McpUpdate(r, ws)
deleteMcp == \E r \in RowIds, ws \in SUBSET Tenants :
  rows[r].tell = "nothing" /\ McpDelete(r, ws)

Upsert(r) == connections' = [connections EXCEPT ![r] = "connected"]

(* The event of a deletion names no workspace: the statement fails on the  *)
(* empty id, the bus logs it, the row stays.                               *)
ProjectMcpDeleted(r) == UNCHANGED connections

ProjectMcp(r) ==
  /\ table = "mcp"
  /\ rows[r].tell # "nothing"
  /\ IF rows[r].tell = "created" THEN Upsert(r) ELSE ProjectMcpDeleted(r)
  /\ rows' = [rows EXCEPT ![r].tell = "nothing"]
  /\ UNCHANGED <<table, rules, posts, chosen, resFaults>>

(* The service stops before the projection, or its statement fails.        *)
ProjectionLost(r) ==
  /\ table = "mcp"
  /\ rows[r].tell # "nothing"
  /\ resFaults < MaxResFaults
  /\ resFaults' = resFaults + 1
  /\ rows' = [rows EXCEPT ![r].tell = "nothing"]
  /\ UNCHANGED <<table, rules, connections, posts, chosen>>

Mcps ==
  \/ table = "mcp" /\ (createMcp \/ updateMcp \/ deleteMcp) /\ RowsOnly
  \/ \E r \in RowIds : ProjectMcp(r) \/ ProjectionLost(r)

-----------------------------------------------------------------------------
(* Projects: names are unique in a workspace.                              *)
GetByName(w, n) == {r \in whereScopedAt({w}) : rows[r].label = n}
ProjectCreate(w, n) == GetByName(w, n) = {} /\ Insert(w, n, "nothing")
Ensure(w, n) == IF GetByName(w, n) = {} THEN Insert(w, n, "nothing") ELSE UNCHANGED rows
ProjectUpdate(r, ws) ==
  /\ r \in whereScopedAt(ws)
  /\ \E n \in Labels : GetByName(rows[r].space, n) \subseteq {r} /\ Rename(r, n)
ProjectDelete(r, ws) == r \in whereScopedAt(ws) /\ Drop(r, "nothing")

createProject == \E w \in Tenants, n \in Labels : ProjectCreate(w, n)
updateProject == \E r \in RowIds, ws \in SUBSET Tenants : ProjectUpdate(r, ws)
deleteProject == \E r \in RowIds, ws \in SUBSET Tenants : ProjectDelete(r, ws)

Projects ==
  /\ table = "projects"
  /\ createProject \/ updateProject \/ deleteProject
  /\ RowsOnly

-----------------------------------------------------------------------------
(* Knowledge sources are only ever added.                                  *)
createKnowledge == \E w \in Tenants, n \in Labels : Insert(w, n, "nothing")
Knowledge == table = "knowledge" /\ createKnowledge /\ RowsOnly

-----------------------------------------------------------------------------
(* Rules, and the provisioning POST that seeds them; a sweep of Identity   *)
(* repeats it at any time.  The binding is best effort.                    *)
RuleOverwrite(has) == "on"
RuleCreate(has) == IF has = "none" THEN "on" ELSE has

BootstrapRules(w) ==
  rules' = [rules EXCEPT ![w] = [n \in DefaultRules |-> RuleCreate(rules[w][n])]]

EnabledRules(w) == {n \in DefaultRules : rules[w][n] = "on"}

setRuleEnabled(w, n, on) ==
  /\ table = "rules"
  /\ rules[w][n] # "none"
  /\ rules' = [rules EXCEPT ![w][n] = on]
  /\ chosen' = [chosen EXCEPT ![w][n] = on]
  /\ UNCHANGED <<table, rows, connections, posts, resFaults>>

BindDefault(w) ==
  /\ table \in {"projects", "rules"}
  /\ w \notin posts
  /\ \/ table = "projects" /\ Ensure(w, "default")
     \/ UNCHANGED rows
  /\ posts' = posts \cup {w}
  /\ UNCHANGED <<table, rules, connections, chosen, resFaults>>

(* All three rules in one transaction, or, when it fails, none.            *)
SeedRules(w) ==
  /\ w \in posts
  /\ posts' = posts \ {w}
  /\ \/ table = "rules" /\ BootstrapRules(w) /\ UNCHANGED resFaults
     \/ table # "rules" /\ UNCHANGED <<rules, resFaults>>
     \/ resFaults < MaxResFaults /\ resFaults' = resFaults + 1 /\ UNCHANGED rules
  /\ UNCHANGED <<table, rows, connections, chosen>>

Rules ==
  \E w \in Tenants :
    \/ BindDefault(w) \/ SeedRules(w)
    \/ \E n \in DefaultRules, on \in {"on", "off"} : setRuleEnabled(w, n, on)

-----------------------------------------------------------------------------
(* Tasks as rows: their feedback goes with them.                           *)
TaskCreate(w, n) == Insert(w, n, "nothing")
TaskDelete(r, ws) == r \in whereScopedAt(ws) /\ Drop(r, "nothing")
FeedbackAdd(r, ws) ==
  /\ r \in whereScopedAt(ws)
  /\ rows[r].notes < MaxNotes
  /\ rows' = [rows EXCEPT ![r].notes = @ + 1]

createTask == \E w \in Tenants, n \in Labels : TaskCreate(w, n)
deleteTask == \E r \in RowIds, ws \in SUBSET Tenants : TaskDelete(r, ws)
addFeedback == \E r \in RowIds, ws \in SUBSET Tenants : FeedbackAdd(r, ws)

Tasks ==
  /\ table = "tasks"
  /\ createTask \/ deleteTask \/ addFeedback
  /\ RowsOnly

ResourcesNext == Skills \/ Mcps \/ Projects \/ Knowledge \/ Rules \/ Tasks

ResourcesSpec == ResourcesInit /\ [][ResourcesNext]_resVars

-----------------------------------------------------------------------------
(* What a run is told to respect: after the first seeding every default    *)
(* rule but those a user switched off last, however often the sweep seeds  *)
(* again and whatever fails; before it none (rule/repo.go:58-64).          *)
GuardrailsHold ==
  \A w \in Tenants :
    EnabledRules(w) \in {{}, {n \in DefaultRules : chosen[w][n] # "off"}}

=============================================================================
