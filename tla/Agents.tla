------------------------------- MODULE Agents -------------------------------
(***************************************************************************)
(* The Agent service next to the Workspace service's catalog: agents with  *)
(* the skills and MCP servers attached to them, the provider keys sealed   *)
(* under the master key, and what the Executor fetches of both before a    *)
(* run.  Nothing writes the projections of the catalog an attachment is    *)
(* checked against, so only what an earlier deployment projected can be    *)
(* attached; and no agent is ever changed or deleted, because both         *)
(* statements name an alias they do not declare and fail.                  *)
(***************************************************************************)
EXTENDS Resources

CONSTANTS AgentIds, Providers

VARIABLES
  homes,       \* agents: the workspace, NoTenant when there is no row
  known,       \* known_skills and known_mcps: the workspace of a definition
  attached,    \* agent_skills and agent_mcps
  keys,        \* provider_keys: sealed, or sealed under a lost master key
  fetched      \* what the Executor has of each agent: servers and key

agentVars == <<homes, known, attached, keys, fetched>>

AgentsTypeOK ==
  /\ homes \in [AgentIds -> Tenants \cup {NoTenant}]
  /\ known \in [RowIds -> Tenants \cup {NoTenant}]
  /\ attached \in [AgentIds -> SUBSET RowIds]
  /\ keys \in [Providers -> {"none", "sealed", "unreadable"}]
  /\ fetched \in [AgentIds -> [servers : SUBSET RowIds, keys : SUBSET Providers]]

(* Every definition of the earlier deployment is on record and projected.  *)
Earlier == {f \in [RowIds -> Tenants \cup {NoTenant}] : \E r \in RowIds : f[r] = NoTenant}
RowsOf(f) == [r \in RowIds |->
  IF f[r] = NoTenant THEN Unused ELSE [Unused EXCEPT !.state = "live", !.space = f[r]]]

AgentsInit ==
  /\ known \in Earlier
  /\ rows = RowsOf(known)
  /\ homes = [a \in AgentIds |-> NoTenant]
  /\ attached = [a \in AgentIds |-> {}]
  /\ keys = [p \in Providers |-> "none"]
  /\ fetched = [a \in AgentIds |-> [servers |-> {}, keys |-> {}]]

GetUnscoped(a) == homes[a] # NoTenant

AgentCreate(a, w) == homes[a] = NoTenant /\ homes' = [homes EXCEPT ![a] = w]

createAgent ==
  /\ \E a \in AgentIds, w \in Tenants : AgentCreate(a, w)
  /\ UNCHANGED <<known, attached, keys, fetched>>

(* UPDATE agents SET ... WHERE id = $1 AND a.workspace_id = ...: there is   *)
(* no a, the statement is refused, and so is the DELETE.                   *)
AgentUpdate(a) == UNCHANGED homes
AgentDelete(a) == UNCHANGED homes

updateAgent == \E a \in AgentIds : GetUnscoped(a) /\ AgentUpdate(a)
deleteAgent == \E a \in AgentIds : GetUnscoped(a) /\ AgentDelete(a)

ChangeAgent ==
  /\ updateAgent \/ deleteAgent
  /\ UNCHANGED <<known, attached, keys, fetched>>

-----------------------------------------------------------------------------
(* Attachments.  Three statements, but nothing they read ever changes.     *)
DefinitionWorkspace(r) == known[r]
Link(a, r) == attached' = [attached EXCEPT ![a] = @ \cup {r}]
Unlink(a, r) == attached' = [attached EXCEPT ![a] = @ \ {r}]

AttachUnchecked(a, r) == GetUnscoped(a) /\ DefinitionWorkspace(r) # NoTenant /\ Link(a, r)

AttachMcp(a, r) ==
  /\ GetUnscoped(a)
  /\ DefinitionWorkspace(r) # NoTenant
  /\ DefinitionWorkspace(r) = homes[a]
  /\ Link(a, r)

AttachSkill(a, r) == GetUnscoped(a) /\ known[r] # NoTenant /\ known[r] = homes[a] /\ Link(a, r)

attachMcp == table = "mcp" /\ \E a \in AgentIds, r \in RowIds : AttachMcp(a, r)
attachSkill == table = "skills" /\ \E a \in AgentIds, r \in RowIds : AttachSkill(a, r)
detach == \E a \in AgentIds : \E r \in attached[a] : Unlink(a, r)

Attachments ==
  /\ attachMcp \/ attachSkill \/ detach
  /\ UNCHANGED <<homes, known, keys, fetched>>

-----------------------------------------------------------------------------
(* Provider keys.                                                          *)
Ciphertext(p) == keys[p] # "none"
KeyUpsert(p, state) == keys' = [keys EXCEPT ![p] = state]

Encrypt == "sealed"
Decrypt(p) == keys[p] = "sealed"

SetKey(p) == KeyUpsert(p, Encrypt)
DeleteKey(p) == Ciphertext(p) /\ keys' = [keys EXCEPT ![p] = "none"]

(* The service starts again under another master key.                      *)
NewMasterKey ==
  keys' = [p \in Providers |-> IF keys[p] = "none" THEN "none" ELSE "unreadable"]

setKey == \E p \in Providers : SetKey(p)
updateKey == \E p \in Providers : SetKey(p)
deleteKey == \E p \in Providers : DeleteKey(p)

ProviderKeys ==
  /\ setKey \/ updateKey \/ deleteKey \/ NewMasterKey
  /\ UNCHANGED <<homes, known, attached, fetched>>

Plaintext(p) == Ciphertext(p) /\ Decrypt(p)
internalPlaintext(wanted) == {p \in wanted : Plaintext(p)}

-----------------------------------------------------------------------------
(* Before a run the Executor asks for the agent's servers, which the Agent *)
(* service looks up in the catalog, and for the key.  Whatever fails is    *)
(* an empty answer.                                                        *)
FetchMcpServers(a) == McpListByIDs(attached[a])

AgentMcpServers(a) == {FetchMcpServers(a), {}}

FetchForRun(a) ==
  /\ table = "mcp" /\ GetUnscoped(a)
  /\ \E servers \in AgentMcpServers(a), wanted \in {{}} \cup {{p} : p \in Providers} :
       fetched' = [fetched EXCEPT ![a] = [servers |-> servers,
                                          keys |-> internalPlaintext(wanted)]]
  /\ UNCHANGED <<homes, known, attached, keys>>

AgentsNext ==
  createAgent \/ ChangeAgent \/ Attachments \/ ProviderKeys \/ \E a \in AgentIds : FetchForRun(a)

(* With the catalog changing under it.                                     *)
AgentsAndCatalogNext ==
  \/ AgentsNext /\ UNCHANGED resVars
  \/ (Skills \/ Mcps) /\ UNCHANGED agentVars

AgentsSpec == TablesInit /\ AgentsInit /\ [][AgentsAndCatalogNext]_<<resVars, agentVars>>

-----------------------------------------------------------------------------
(* A run is given only servers of its agent's workspace: what was checked  *)
(* against the projection agrees with the catalog the servers are read     *)
(* from, rows having changed meanwhile or not (agent.go:73-88, 95-114).    *)
RunsGetTheirOwnServers ==
  \A a \in AgentIds : \A r \in fetched[a].servers : rows[r].space = homes[a]

=============================================================================
