--------------------------- MODULE CatalogProofs ---------------------------
(***************************************************************************)
(* Proofs about the catalog and the agents, for any number of rows,        *)
(* workspaces, agents and failures.                                        *)
(***************************************************************************)
EXTENDS Agents, TLAPS

-----------------------------------------------------------------------------
(* Guardrails.                                                             *)

RuleStates == {"none", "on", "off"}

(* A workspace is seeded as a whole or not at all, and a seeded rule is on *)
(* unless its last choice was off.                                         *)
SeededWhole ==
  \A w \in Tenants :
    \/ \A n \in DefaultRules : rules[w][n] = "none" /\ chosen[w][n] = "none"
    \/ \A n \in DefaultRules : /\ rules[w][n] # "none"
                               /\ rules[w][n] = "on" <=> chosen[w][n] # "off"

RulesInv ==
  /\ rules \in [Tenants -> [DefaultRules -> RuleStates]]
  /\ chosen \in [Tenants -> [DefaultRules -> RuleStates]]
  /\ SeededWhole

(* Nothing but a seeding or a choice touches the rules.                    *)
LEMMA OthersLeaveTheRules ==
  ASSUME ResourcesNext,
         ~\E w \in Tenants : SeedRules(w) /\ BootstrapRules(w),
         ~\E w \in Tenants, n \in DefaultRules, on \in {"on", "off"} : setRuleEnabled(w, n, on)
  PROVE  UNCHANGED <<rules, chosen>>
<1>1. CASE Skills \/ Knowledge \/ Projects \/ Tasks
  BY <1>1 DEF Skills, Knowledge, Projects, Tasks, RowsOnly
<1>2. CASE Mcps
  BY <1>2 DEF Mcps, RowsOnly, ProjectMcp, ProjectionLost
<1>3. CASE Rules
  BY <1>3 DEF Rules, BindDefault, SeedRules
<1> QED BY <1>1, <1>2, <1>3 DEF ResourcesNext

(* However often a workspace is seeded again and whatever fails, the rules *)
(* a run is told to respect are none before the first seeding and          *)
(* afterwards all but those a user switched off last.                      *)
THEOREM Guardrails == ResourcesSpec => []GuardrailsHold
<1>1. ResourcesInit => RulesInv
  BY DEF ResourcesInit, TablesInit, RulesInv, SeededWhole, RuleStates
<1>2. RulesInv /\ [ResourcesNext]_resVars => RulesInv'
  <2> SUFFICES ASSUME RulesInv, [ResourcesNext]_resVars PROVE RulesInv'
    OBVIOUS
  <2>0. /\ rules \in [Tenants -> [DefaultRules -> RuleStates]]
        /\ chosen \in [Tenants -> [DefaultRules -> RuleStates]]
        /\ SeededWhole
    BY DEF RulesInv
  <2>1. ASSUME NEW w \in Tenants, SeedRules(w), BootstrapRules(w) PROVE RulesInv'
    <3>1. rules' = [rules EXCEPT ![w] = [n \in DefaultRules |->
                      IF rules[w][n] = "none" THEN "on" ELSE rules[w][n]]]
      BY <2>1 DEF BootstrapRules, RuleCreate
    <3>2. chosen' = chosen
      BY <2>1 DEF SeedRules
    <3>3. rules' \in [Tenants -> [DefaultRules -> RuleStates]]
      BY <2>0, <3>1 DEF RuleStates
    <3>4. SeededWhole'
      BY <2>0, <3>1, <3>2 DEF SeededWhole
    <3> QED BY <2>0, <3>2, <3>3, <3>4 DEF RulesInv
  <2>2. ASSUME NEW w \in Tenants, NEW n \in DefaultRules, NEW on \in {"on", "off"},
               setRuleEnabled(w, n, on)
        PROVE  RulesInv'
    <3>1. /\ rules' = [rules EXCEPT ![w][n] = on] /\ chosen' = [chosen EXCEPT ![w][n] = on]
          /\ rules[w][n] # "none"
      BY <2>2 DEF setRuleEnabled
    <3>2. /\ rules' \in [Tenants -> [DefaultRules -> RuleStates]]
          /\ chosen' \in [Tenants -> [DefaultRules -> RuleStates]]
      BY <2>0, <3>1 DEF RuleStates
    <3>3. SeededWhole'
      BY <2>0, <3>1 DEF SeededWhole
    <3> QED BY <3>2, <3>3 DEF RulesInv
  <2>3. CASE UNCHANGED <<rules, chosen>>
    BY <2>0, <2>3 DEF RulesInv, SeededWhole
  <2> QED BY <2>1, <2>2, <2>3, OthersLeaveTheRules DEF resVars
<1>3. RulesInv => GuardrailsHold
  BY DEF RulesInv, SeededWhole, GuardrailsHold, EnabledRules
<1> QED BY <1>1, <1>2, <1>3, PTL DEF ResourcesSpec

-----------------------------------------------------------------------------
(* The servers of a run.                                                   *)

Row == [state : {"unused", "live", "gone"}, space : Tenants \cup {NoTenant},
        label : Labels \cup {""}, on : {"unset", "on", "off"},
        notes : Nat, tell : {"nothing", "created", "deleted"}]

AgentsTypes ==
  /\ rows \in [RowIds -> Row]
  /\ homes \in [AgentIds -> Tenants \cup {NoTenant}]
  /\ attached \in [AgentIds -> SUBSET RowIds]
  /\ fetched \in [AgentIds -> [servers : SUBSET RowIds, keys : SUBSET Providers]]

(* What a projection says of a definition is where it was defined; what is *)
(* attached agrees with it, and what was fetched with the catalog.         *)
ProjectionsAgree ==
  /\ \A r \in RowIds : known[r] # NoTenant =>
       rows[r].state # "unused" /\ rows[r].space = known[r]
  /\ \A a \in AgentIds : \A r \in attached[a] :
       known[r] # NoTenant /\ known[r] = homes[a]
  /\ \A a \in AgentIds : \A r \in fetched[a].servers :
       homes[a] # NoTenant /\ rows[r].state # "unused" /\ rows[r].space = homes[a]

AgentsInv == AgentsTypes /\ ProjectionsAgree

(* A row that was ever used keeps its workspace.                           *)
RowsKeepTheirSpace ==
  \A r \in RowIds : rows[r].state # "unused" =>
    rows'[r].state # "unused" /\ rows'[r].space = rows[r].space

(* Each statement of the catalog writes a row.                             *)
LEMMA StatementsKeepSpaces ==
  ASSUME rows \in [RowIds -> Row], Skills \/ Mcps
  PROVE  rows' \in [RowIds -> Row] /\ RowsKeepTheirSpace
<1>1. ASSUME NEW w \in Tenants, NEW n \in Labels, NEW tell \in {"nothing", "created"},
             Insert(w, n, tell)
      PROVE  rows' \in [RowIds -> Row] /\ RowsKeepTheirSpace
  <2> DEFINE new == [Unused EXCEPT !.state = "live", !.space = w, !.label = n, !.tell = tell]
  <2>1. new \in Row /\ new.state = "live"
    BY DEF Unused, Row
  <2>2. PICK r \in RowIds : rows[r].state = "unused" /\ rows' = [rows EXCEPT ![r] = new]
    BY <1>1 DEF Insert
  <2> HIDE DEF new
  <2> QED BY <2>1, <2>2 DEF RowsKeepTheirSpace
<1>2. ASSUME NEW r \in RowIds, Live(r),
             \/ \E n \in Labels : Rename(r, n)
             \/ \E on \in {"on", "off"} : Switch(r, on)
      PROVE  rows' \in [RowIds -> Row] /\ RowsKeepTheirSpace
  <2>1. ASSUME NEW n \in Labels, Rename(r, n)
        PROVE  rows' \in [RowIds -> Row] /\ RowsKeepTheirSpace
    BY <2>1 DEF Rename, Row, RowsKeepTheirSpace
  <2>2. ASSUME NEW on \in {"on", "off"}, Switch(r, on)
        PROVE  rows' \in [RowIds -> Row] /\ RowsKeepTheirSpace
    BY <2>2 DEF Switch, Row, RowsKeepTheirSpace
  <2> QED BY <1>2, <2>1, <2>2
<1>3. ASSUME NEW r \in RowIds, NEW tell \in {"nothing", "deleted"}, Drop(r, tell)
      PROVE  rows' \in [RowIds -> Row] /\ RowsKeepTheirSpace
  BY <1>3 DEF Drop, Unused, Row, RowsKeepTheirSpace
<1>4. ASSUME NEW r \in RowIds, rows' = [rows EXCEPT ![r].tell = "nothing"]
      PROVE  rows' \in [RowIds -> Row] /\ RowsKeepTheirSpace
  BY <1>4 DEF Row, RowsKeepTheirSpace
<1>5. CASE createSkill \/ createMcp
  BY <1>1, <1>5 DEF createSkill, SkillCreate, createMcp, McpCreate
<1>6. CASE updateSkill \/ setSkillEnabled \/ updateMcp
  BY <1>2, <1>6 DEF updateSkill, SkillUpdate, setSkillEnabled, SkillSetEnabled,
                    updateMcp, McpUpdate, whereScopedAt
<1>7. CASE deleteSkill \/ deleteMcp
  BY <1>3, <1>7 DEF deleteSkill, SkillDelete, deleteMcp, McpDelete
<1>8. CASE \E r \in RowIds : ProjectMcp(r) \/ ProjectionLost(r)
  BY <1>4, <1>8 DEF ProjectMcp, ProjectionLost
<1> QED BY <1>5, <1>6, <1>7, <1>8 DEF Skills, Mcps

(* A run is given only servers of its agent's workspace, whatever becomes  *)
(* of the catalog between the attachment and the run.                      *)
THEOREM ServersAreTheirs == AgentsSpec => []RunsGetTheirOwnServers
<1>1. TablesInit /\ AgentsInit => AgentsInv
  <2> SUFFICES ASSUME AgentsInit PROVE AgentsInv
    OBVIOUS
  <2>1. rows \in [RowIds -> Row] /\ \A r \in RowIds : known[r] # NoTenant =>
          rows[r].state # "unused" /\ rows[r].space = known[r]
    BY DEF AgentsInit, Earlier, RowsOf, Unused, Row
  <2> QED BY <2>1 DEF AgentsInit, AgentsInv, AgentsTypes, ProjectionsAgree
<1>2. AgentsInv /\ [AgentsAndCatalogNext]_<<resVars, agentVars>> => AgentsInv'
  <2> SUFFICES ASSUME AgentsInv, [AgentsAndCatalogNext]_<<resVars, agentVars>>
               PROVE  AgentsInv'
    OBVIOUS
  <2> USE DEF AgentsInv, AgentsTypes, ProjectionsAgree
  <2>1. CASE (Skills \/ Mcps) /\ UNCHANGED agentVars
    <3>1. rows' \in [RowIds -> Row] /\ RowsKeepTheirSpace
      BY <2>1, StatementsKeepSpaces
    <3>2. UNCHANGED <<homes, known, attached, fetched>>
      BY <2>1 DEF agentVars
    <3> QED BY <3>1, <3>2 DEF RowsKeepTheirSpace
  <2>2. CASE createAgent /\ UNCHANGED rows
    BY <2>2 DEF createAgent, AgentCreate
  <2>3. CASE (ChangeAgent \/ ProviderKeys) /\ UNCHANGED rows
    BY <2>3 DEF ChangeAgent, updateAgent, deleteAgent, AgentUpdate, AgentDelete, ProviderKeys
  <2>4. CASE Attachments /\ UNCHANGED rows
    BY <2>4 DEF Attachments, attachMcp, attachSkill, detach, AttachMcp, AttachSkill, Link,
                Unlink, DefinitionWorkspace
  <2>5. ASSUME NEW a \in AgentIds, FetchForRun(a), UNCHANGED rows PROVE AgentsInv'
    <3>1. PICK servers \in AgentMcpServers(a), wanted \in {{}} \cup {{p} : p \in Providers} :
            fetched' = [fetched EXCEPT ![a] = [servers |-> servers,
                                               keys |-> internalPlaintext(wanted)]]
      BY <2>5 DEF FetchForRun
    <3>2. servers \subseteq attached[a] /\ internalPlaintext(wanted) \subseteq Providers
      BY <3>1 DEF AgentMcpServers, FetchMcpServers, McpListByIDs, internalPlaintext
    <3>3. UNCHANGED <<homes, known, attached, rows>> /\ homes[a] # NoTenant
      BY <2>5 DEF FetchForRun, GetUnscoped
    <3>4. AgentsTypes'
      BY <3>1, <3>2, <3>3
    <3>5. \A r \in servers : rows[r].state # "unused" /\ rows[r].space = homes[a]
      BY <3>2
    <3>6. ProjectionsAgree'
      BY <3>1, <3>3, <3>5
    <3> QED BY <3>4, <3>6
  <2>6. CASE UNCHANGED <<resVars, agentVars>>
    BY <2>6 DEF resVars, agentVars
  <2> QED BY <2>1, <2>2, <2>3, <2>4, <2>5, <2>6 DEF AgentsAndCatalogNext, AgentsNext, resVars
<1>3. AgentsInv => RunsGetTheirOwnServers
  BY DEF AgentsInv, AgentsTypes, ProjectionsAgree, RunsGetTheirOwnServers
<1> QED BY <1>1, <1>2, <1>3, PTL DEF AgentsSpec

-----------------------------------------------------------------------------
(* Tables, and agents with what is attached to them.                       *)
TableRow == [state : {"unused", "live", "gone"}, space : Tenants \cup {NoTenant},
             label : Labels \cup {""}, on : {"unset", "on", "off"},
             notes : 0 .. MaxNotes, tell : {"nothing", "created", "deleted"}]

TablesTypes == ResourcesTypeOK /\ AgentsTypeOK

(* What a statement does to a row.                                         *)
Changes ==
  \/ \E w \in Tenants, n \in Labels, tell \in {"nothing", "created"} : Insert(w, n, tell)
  \/ \E r \in RowIds :
       \/ \E n \in Labels : Rename(r, n)
       \/ \E on \in {"on", "off"} : Switch(r, on)
       \/ \E tell \in {"nothing", "deleted"} : Drop(r, tell)
       \/ rows' = [rows EXCEPT ![r].tell = "nothing"]
       \/ rows[r].notes < MaxNotes /\ rows' = [rows EXCEPT ![r].notes = @ + 1]
  \/ UNCHANGED rows

(* A row stays a row.                                                      *)
LEMMA ChangesTyped ==
  ASSUME rows \in [RowIds -> TableRow], Changes
  PROVE  rows' \in [RowIds -> TableRow]
<1>0. 0 \in 0 .. MaxNotes
  BY ResourcesAssumption
<1>1. ASSUME NEW r \in RowIds, NEW row \in TableRow, rows' = [rows EXCEPT ![r] = row]
      PROVE  rows' \in [RowIds -> TableRow]
  BY <1>1
<1>2. ASSUME NEW w \in Tenants, NEW n \in Labels, NEW tell \in {"nothing", "created"},
             Insert(w, n, tell)
      PROVE  rows' \in [RowIds -> TableRow]
  <2>1. [Unused EXCEPT !.state = "live", !.space = w, !.label = n, !.tell = tell] \in TableRow
    BY <1>0 DEF Unused, TableRow
  <2> QED BY <1>1, <1>2, <2>1 DEF Insert
<1>3. ASSUME NEW r \in RowIds, NEW tell \in {"nothing", "deleted"}, Drop(r, tell)
      PROVE  rows' \in [RowIds -> TableRow]
  <2>1. [Unused EXCEPT !.state = "gone", !.space = rows[r].space, !.tell = tell] \in TableRow
    <3>1. rows[r].space \in Tenants \cup {NoTenant}
      BY DEF TableRow
    <3> QED BY <1>0, <3>1 DEF Unused, TableRow
  <2> QED BY <1>1, <1>3, <2>1 DEF Drop
<1>4. ASSUME NEW r \in RowIds,
             \/ \E n \in Labels : Rename(r, n)
             \/ \E on \in {"on", "off"} : Switch(r, on)
             \/ rows' = [rows EXCEPT ![r].tell = "nothing"]
      PROVE  rows' \in [RowIds -> TableRow]
  <2>0. rows[r] \in TableRow
    OBVIOUS
  <2>1. /\ \A n \in Labels : [rows[r] EXCEPT !.label = n] \in TableRow
        /\ \A on \in {"on", "off"} : [rows[r] EXCEPT !.on = on] \in TableRow
        /\ [rows[r] EXCEPT !.tell = "nothing"] \in TableRow
    BY <2>0 DEF TableRow
  <2> QED BY <1>1, <1>4, <2>1 DEF Rename, Switch
<1>5. ASSUME NEW r \in RowIds, rows[r].notes < MaxNotes,
             rows' = [rows EXCEPT ![r].notes = @ + 1]
      PROVE  rows' \in [RowIds -> TableRow]
  <2>1. rows[r].notes + 1 \in 0 .. MaxNotes
    <3>1. rows[r].notes \in 0 .. MaxNotes
      BY DEF TableRow
    <3> QED BY <1>5, <3>1, ResourcesAssumption
  <2>2. [rows[r] EXCEPT !.notes = @ + 1] \in TableRow
    BY <2>1 DEF TableRow
  <2> QED BY <1>1, <1>5, <2>2
<1> QED BY <1>2, <1>3, <1>4, <1>5 DEF Changes

(* A statement of a table, of a projection or of a provisioning POST.      *)
LEMMA ResourcesTyped ==
  ASSUME ResourcesTypeOK, ResourcesNext
  PROVE  ResourcesTypeOK'
<1> DEFINE Settings == [Tenants -> [DefaultRules -> {"none", "on", "off"}]]
<1>0. /\ table \in Tables /\ rows \in [RowIds -> TableRow] /\ rules \in Settings /\ chosen \in Settings
      /\ connections \in [RowIds -> {"none", "connected"}] /\ posts \subseteq Tenants
      /\ resFaults \in 0 .. MaxResFaults /\ MaxResFaults \in Nat
  BY ResourcesAssumption DEF ResourcesTypeOK, TableRow
<1>1. ASSUME Changes, UNCHANGED table, rules' \in Settings, chosen' \in Settings,
             connections' \in [RowIds -> {"none", "connected"}], posts' \subseteq Tenants,
             resFaults' \in 0 .. MaxResFaults
      PROVE  ResourcesTypeOK'
  <2>1. rows' \in [RowIds -> TableRow]
    BY <1>0, <1>1, ChangesTyped
  <2> QED BY <1>0, <1>1, <2>1 DEF ResourcesTypeOK, TableRow
<1>2. ASSUME Changes, RowsOnly PROVE ResourcesTypeOK'
  BY <1>0, <1>1, <1>2 DEF RowsOnly
<1>3. CASE Skills
  <2>1. Changes
    BY <1>3 DEF Skills, createSkill, updateSkill, deleteSkill, setSkillEnabled, SkillCreate,
                SkillUpdate, SkillDelete, SkillSetEnabled, Changes
  <2> QED BY <1>2, <1>3, <2>1 DEF Skills
<1>4. CASE Mcps
  <2>1. CASE (createMcp \/ updateMcp \/ deleteMcp) /\ RowsOnly
    <3>1. Changes
      BY <2>1 DEF createMcp, updateMcp, deleteMcp, McpCreate, McpUpdate, McpDelete, Changes
    <3> QED BY <1>2, <2>1, <3>1
  <2>2. ASSUME NEW r \in RowIds, ProjectMcp(r) PROVE ResourcesTypeOK'
    <3>1. Changes
      BY <2>2 DEF ProjectMcp, Changes
    <3>2. connections' \in [RowIds -> {"none", "connected"}]
      BY <1>0, <2>2 DEF ProjectMcp, Upsert, ProjectMcpDeleted
    <3> QED BY <1>0, <1>1, <2>2, <3>1, <3>2 DEF ProjectMcp
  <2>3. ASSUME NEW r \in RowIds, ProjectionLost(r) PROVE ResourcesTypeOK'
    <3>1. Changes
      BY <2>3 DEF ProjectionLost, Changes
    <3>2. resFaults' \in 0 .. MaxResFaults
      BY <1>0, <2>3 DEF ProjectionLost
    <3> QED BY <1>0, <1>1, <2>3, <3>1, <3>2 DEF ProjectionLost
  <2> QED BY <1>4, <2>1, <2>2, <2>3 DEF Mcps
<1>5. CASE Projects
  <2>1. Changes
    BY <1>5 DEF Projects, createProject, updateProject, deleteProject, ProjectCreate,
                ProjectUpdate, ProjectDelete, Changes
  <2> QED BY <1>2, <1>5, <2>1 DEF Projects
<1>6. CASE Knowledge
  <2>1. Changes
    BY <1>6 DEF Knowledge, createKnowledge, Changes
  <2> QED BY <1>2, <1>6, <2>1 DEF Knowledge
<1>7. ASSUME NEW w \in Tenants, BindDefault(w) PROVE ResourcesTypeOK'
  <2>1. Changes
    BY <1>7, ResourcesAssumption DEF BindDefault, Ensure, Changes
  <2> QED BY <1>0, <1>1, <1>7, <2>1 DEF BindDefault
<1>8. ASSUME NEW w \in Tenants, SeedRules(w) PROVE ResourcesTypeOK'
  <2>1. Changes
    BY <1>8 DEF SeedRules, Changes
  <2>2. rules' \in Settings
    BY <1>0, <1>8 DEF SeedRules, BootstrapRules, RuleCreate
  <2>3. resFaults' \in 0 .. MaxResFaults
    BY <1>0, <1>8 DEF SeedRules
  <2> QED BY <1>0, <1>1, <1>8, <2>1, <2>2, <2>3 DEF SeedRules
<1>9. ASSUME NEW w \in Tenants, NEW n \in DefaultRules, NEW on \in {"on", "off"},
             setRuleEnabled(w, n, on)
      PROVE  ResourcesTypeOK'
  <2>1. Changes
    BY <1>9 DEF setRuleEnabled, Changes
  <2>2. rules' \in Settings /\ chosen' \in Settings
    BY <1>0, <1>9 DEF setRuleEnabled
  <2> QED BY <1>0, <1>1, <1>9, <2>1, <2>2 DEF setRuleEnabled
<1>10. CASE Tasks
  <2>1. Changes
    BY <1>10 DEF Tasks, createTask, deleteTask, addFeedback, TaskCreate, TaskDelete, FeedbackAdd,
                 Changes
  <2> QED BY <1>2, <1>10, <2>1 DEF Tasks
<1> QED BY <1>3, <1>4, <1>5, <1>6, <1>7, <1>8, <1>9, <1>10 DEF ResourcesNext, Rules

(* A step of the Agent service.                                            *)
LEMMA AgentsTyped ==
  ASSUME AgentsTypeOK, AgentsNext
  PROVE  AgentsTypeOK'
<1> DEFINE Fetched == [servers : SUBSET RowIds, keys : SUBSET Providers]
           KeyStates == [Providers -> {"none", "sealed", "unreadable"}]
<1>0. /\ homes \in [AgentIds -> Tenants \cup {NoTenant}]
      /\ known \in [RowIds -> Tenants \cup {NoTenant}]
      /\ attached \in [AgentIds -> SUBSET RowIds]
      /\ keys \in KeyStates /\ fetched \in [AgentIds -> Fetched]
  BY DEF AgentsTypeOK
<1>1. ASSUME homes' \in [AgentIds -> Tenants \cup {NoTenant}], UNCHANGED known,
             attached' \in [AgentIds -> SUBSET RowIds], keys' \in KeyStates,
             fetched' \in [AgentIds -> Fetched]
      PROVE  AgentsTypeOK'
  BY <1>0, <1>1 DEF AgentsTypeOK
<1>2. CASE createAgent \/ ChangeAgent
  <2>1. homes' \in [AgentIds -> Tenants \cup {NoTenant}]
    BY <1>0, <1>2 DEF createAgent, AgentCreate, ChangeAgent, updateAgent, deleteAgent,
                      AgentUpdate, AgentDelete
  <2> QED BY <1>0, <1>1, <1>2, <2>1 DEF createAgent, ChangeAgent
<1>3. CASE Attachments
  <2>1. attached' \in [AgentIds -> SUBSET RowIds]
    <3>1. ASSUME NEW a \in AgentIds, NEW r \in RowIds, Link(a, r) \/ Unlink(a, r)
          PROVE  attached' \in [AgentIds -> SUBSET RowIds]
      BY <1>0, <3>1 DEF Link, Unlink
    <3> QED BY <1>0, <1>3, <3>1
            DEF Attachments, attachMcp, attachSkill, detach, AttachMcp, AttachSkill
  <2> QED BY <1>0, <1>1, <1>3, <2>1 DEF Attachments
<1>4. CASE ProviderKeys
  <2>1. keys' \in KeyStates
    BY <1>0, <1>4 DEF ProviderKeys, setKey, updateKey, deleteKey, SetKey, KeyUpsert, Encrypt,
                      DeleteKey, NewMasterKey
  <2> QED BY <1>0, <1>1, <1>4, <2>1 DEF ProviderKeys
<1>5. ASSUME NEW a \in AgentIds, FetchForRun(a) PROVE AgentsTypeOK'
  <2>1. PICK servers \in AgentMcpServers(a), wanted \in {{}} \cup {{p} : p \in Providers} :
          fetched' = [fetched EXCEPT ![a] = [servers |-> servers,
                                             keys |-> internalPlaintext(wanted)]]
    BY <1>5 DEF FetchForRun
  <2>2. servers \subseteq RowIds
    BY <1>0 DEF AgentMcpServers, FetchMcpServers, McpListByIDs
  <2>3. internalPlaintext(wanted) \subseteq Providers
    BY DEF internalPlaintext
  <2>4. fetched' \in [AgentIds -> Fetched]
    BY <1>0, <2>1, <2>2, <2>3
  <2> QED BY <1>0, <1>1, <1>5, <2>4 DEF FetchForRun
<1> QED BY <1>2, <1>3, <1>4, <1>5 DEF AgentsNext

(* A step of the tables, or of the agents next to the catalog.             *)
LEMMA TablesTyped ==
  ASSUME TablesTypes,
         \/ ResourcesNext /\ UNCHANGED agentVars
         \/ AgentsAndCatalogNext
         \/ UNCHANGED <<resVars, agentVars>>
  PROVE  TablesTypes'
<1>1. ASSUME UNCHANGED resVars PROVE ResourcesTypeOK'
  BY <1>1 DEF resVars, TablesTypes, ResourcesTypeOK
<1>2. ASSUME UNCHANGED agentVars PROVE AgentsTypeOK'
  BY <1>2 DEF agentVars, TablesTypes, AgentsTypeOK
<1>3. ASSUME ResourcesNext PROVE ResourcesTypeOK'
  BY <1>3, ResourcesTyped DEF TablesTypes
<1>4. ASSUME AgentsNext PROVE AgentsTypeOK'
  BY <1>4, AgentsTyped DEF TablesTypes
<1>5. Skills \/ Mcps => ResourcesNext
  BY DEF ResourcesNext
<1>6. ResourcesTypeOK'
  BY <1>1, <1>3, <1>5 DEF AgentsAndCatalogNext
<1>7. AgentsTypeOK'
  BY <1>2, <1>4 DEF AgentsAndCatalogNext
<1> QED BY <1>6, <1>7 DEF TablesTypes

(* Nothing is left of an earlier deployment but what is projected.         *)
LEMMA TablesTypesInit == TablesInit /\ AgentsInit => TablesTypes
<1> SUFFICES ASSUME TablesInit, AgentsInit PROVE TablesTypes
  OBVIOUS
<1>1. 0 \in 0 .. MaxNotes /\ 0 \in 0 .. MaxResFaults
  BY ResourcesAssumption
<1>2. rows \in [RowIds -> TableRow]
  <2>1. known \in [RowIds -> Tenants \cup {NoTenant}]
    BY DEF AgentsInit, Earlier
  <2>2. Unused \in TableRow /\ \A w \in Tenants \cup {NoTenant} :
          [Unused EXCEPT !.state = "live", !.space = w] \in TableRow
    BY <1>1 DEF Unused, TableRow
  <2> QED BY <2>1, <2>2 DEF AgentsInit, RowsOf
<1>3. ResourcesTypeOK
  BY <1>1, <1>2 DEF TablesInit, ResourcesTypeOK, TableRow
<1>4. AgentsTypeOK
  BY DEF AgentsInit, AgentsTypeOK, Earlier
<1> QED BY <1>3, <1>4 DEF TablesTypes

=============================================================================
