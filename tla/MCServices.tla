----------------------------- MODULE MCServices -----------------------------
(***************************************************************************)
(* The components that share no state with one another, checked side by    *)
(* side: a behaviour is about one of them, "part", and the variables of    *)
(* the others stay where they start.  The state space is the sum of theirs *)
(* and not the product.                                                    *)
(***************************************************************************)
EXTENDS Members, Accounts, Provisioning, Logins, Gateway, StepStream,
  FanOut, Agents, AgentLoop, Startup

CONSTANT Parts
VARIABLE part

servicesVars == <<part, memberVars, accountVars, provisionVars, loginVars, gatewayVars,
                  streamVars, fanVars, resVars, agentVars, agentLoopVars, startVars>>

(* A path of every kind the routing table tells apart.                     *)
MCPaths == {<<"workspaces", "skills">>, <<"tasks", "stream">>, <<"auth", "login">>, <<"sysadmin", "kpis">>}

Nobody == [r \in RowIds |-> NoTenant]
FirstRow == [Nobody EXCEPT ![CHOOSE r \in RowIds : TRUE] = CHOOSE w \in Tenants : TRUE]

(* Where a component may start in several ways, the ones that are not      *)
(* looked at start in the first.  Rows and tenants are alike, so an        *)
(* earlier deployment leaves the first row to the first tenant or nothing; *)
(* and the sandboxes are tried with the driver that uses them.             *)
ServicesInit ==
  /\ part \in Parts
  /\ MembersInit /\ AccountsInit /\ ProvisioningInit /\ LoginsInit /\ GatewayInit
  /\ StreamInit /\ FanInit /\ TablesInit /\ AgentsInit /\ AgentLoopInit /\ StartupInit
  /\ memberRole[CHOOSE m \in People : TRUE] = "owner"
  /\ part # "gateway" => \A k \in Tokens : member[k] = {}
  /\ known \in {Nobody, FirstRow}
  /\ part # "agents" => known = Nobody
  /\ part \in {"resources", "agents"} \/ table = "rules"
  /\ part = "agents" => table \in {"mcp", "skills"}
  /\ driver # "client" => sandboxKind \in {"none", "docker"}
  /\ part # "agent loop" => sandboxKind = "none" /\ driver = CHOOSE d \in Drivers : TRUE

ServicesNext ==
  /\ UNCHANGED part
  /\ \/ /\ part = "members" /\ MembersNext
        /\ UNCHANGED <<accountVars, provisionVars, loginVars, gatewayVars, streamVars, fanVars,
                       resVars, agentVars, agentLoopVars, startVars>>
     \/ /\ part = "accounts" /\ AccountsNext
        /\ UNCHANGED <<memberVars, provisionVars, loginVars, gatewayVars, streamVars, fanVars,
                       resVars, agentVars, agentLoopVars, startVars>>
     \/ /\ part = "provisioning" /\ ProvisioningNext
        /\ UNCHANGED <<memberVars, accountVars, loginVars, gatewayVars, streamVars, fanVars,
                       resVars, agentVars, agentLoopVars, startVars>>
     \/ /\ part = "logins" /\ LoginsNext
        /\ UNCHANGED <<memberVars, accountVars, provisionVars, gatewayVars, streamVars, fanVars,
                       resVars, agentVars, agentLoopVars, startVars>>
     \/ /\ part = "gateway" /\ GatewayNext
        /\ UNCHANGED <<memberVars, accountVars, provisionVars, loginVars, streamVars, fanVars,
                       resVars, agentVars, agentLoopVars, startVars>>
     \/ /\ part = "stream" /\ StreamNext
        /\ UNCHANGED <<memberVars, accountVars, provisionVars, loginVars, gatewayVars, fanVars,
                       resVars, agentVars, agentLoopVars, startVars>>
     \/ /\ part = "pages" /\ FanNext
        /\ UNCHANGED <<memberVars, accountVars, provisionVars, loginVars, gatewayVars, streamVars,
                       resVars, agentVars, agentLoopVars, startVars>>
     \/ /\ part = "resources" /\ ResourcesNext
        /\ UNCHANGED <<memberVars, accountVars, provisionVars, loginVars, gatewayVars, streamVars,
                       fanVars, agentVars, agentLoopVars, startVars>>
     \/ /\ part = "agents" /\ AgentsAndCatalogNext
        /\ UNCHANGED <<memberVars, accountVars, provisionVars, loginVars, gatewayVars, streamVars,
                       fanVars, agentLoopVars, startVars>>
     \/ /\ part = "agent loop" /\ AgentLoopNext
        /\ UNCHANGED <<memberVars, accountVars, provisionVars, loginVars, gatewayVars, streamVars,
                       fanVars, resVars, agentVars, startVars>>
     \/ /\ part = "startup" /\ StartupNext
        /\ UNCHANGED <<memberVars, accountVars, provisionVars, loginVars, gatewayVars, streamVars,
                       fanVars, resVars, agentVars, agentLoopVars>>

(* In a component that is not looked at nothing fair can happen: what its  *)
(* fairness is about starts with a request, and none comes.                *)
ServicesFairness ==
  ProvisioningFairness /\ StreamFairness /\ FanFairness

ServicesSpec == ServicesInit /\ [][ServicesNext]_servicesVars /\ ServicesFairness

(* Every component keeps to its types.                                     *)
ServicesTypeOK ==
  /\ part \in Parts
  /\ MembersTypeOK /\ AccountsTypeOK /\ ProvisioningTypeOK /\ LoginsTypeOK /\ GatewayTypeOK
  /\ StreamTypeOK /\ FanTypeOK /\ ResourcesTypeOK /\ AgentsTypeOK /\ AgentLoopTypeOK /\ StartupTypeOK

=============================================================================
