---------------------------- MODULE Provisioning ----------------------------
(***************************************************************************)
(* A new workspace lives in two services.  Identity commits it, then tells *)
(* the Workspace service in a POST that binds the repository and seeds the *)
(* default rules, then marks the row provisioned; a sweeper repeats the    *)
(* POST for every row not marked yet.  Either service may stop, and a POST *)
(* may fail before or after it took effect.                                *)
(***************************************************************************)
EXTENDS Naturals, FiniteSets

CONSTANTS
  WorkspaceIds, Creators,   \* Creators: requests served at the same time
  NoWorkspace,
  MaxProvisionFaults

ASSUME ProvisioningAssumption == IsFiniteSet(WorkspaceIds) /\ MaxProvisionFaults \in Nat

VARIABLES
  wsRows,      \* orgs.workspaces: absent, created or provisioned
  orgs,        \* organisations of the user whose requests these are
  repoOf,      \* the workspaces created with a repository
  bound,       \* the Workspace service's default projects
  ruled,       \* the workspaces whose default rules were seeded
  creators, sweeper, provisionFaults

provisionVars == <<wsRows, orgs, repoOf, bound, ruled, creators, sweeper, provisionFaults>>

AtRest == [pc |-> "idle", ws |-> NoWorkspace]
Ticking == [pc |-> "tick", ws |-> NoWorkspace, rest |-> {}]

ProvisioningTypeOK ==
  /\ wsRows \in [WorkspaceIds -> {"absent", "created", "provisioned"}]
  /\ orgs \in 0 .. Cardinality(WorkspaceIds)
  /\ repoOf \subseteq WorkspaceIds
  /\ bound \subseteq repoOf
  /\ ruled \subseteq WorkspaceIds
  /\ creators \in [Creators -> [pc : {"idle", "org", "newOrg", "commit", "post", "mark"},
                                ws : WorkspaceIds \cup {NoWorkspace}]]
  /\ sweeper \in [pc : {"tick", "post", "mark"}, ws : WorkspaceIds \cup {NoWorkspace},
                  rest : SUBSET WorkspaceIds]
  /\ provisionFaults \in 0 .. MaxProvisionFaults

ProvisioningInit ==
  /\ wsRows = [w \in WorkspaceIds |-> "absent"]
  /\ orgs = 0
  /\ repoOf = {}
  /\ bound = {}
  /\ ruled = {}
  /\ creators = [c \in Creators |-> AtRest]
  /\ sweeper = Ticking
  /\ provisionFaults = 0

Fault == provisionFaults < MaxProvisionFaults /\ provisionFaults' = provisionFaults + 1
Goes == UNCHANGED provisionFaults

-----------------------------------------------------------------------------
(* The Workspace service's half.                                           *)

(* The binding is best effort: what it cannot do it logs.                  *)
BindWorkspace(w) ==
  \/ bound' = bound \cup ({w} \cap repoOf) /\ Goes
  \/ w \in repoOf \ bound /\ Fault /\ UNCHANGED bound

SkipBootstrap(w) == UNCHANGED ruled

(* All three rules or none.                                                *)
BootstrapWorkspace(w) == ruled' = ruled \cup {w}

provision(w) == BindWorkspace(w) /\ BootstrapWorkspace(w)

(* The POST, as its caller sees it: confirmed; or an error, because it was *)
(* not delivered, because the rules failed after the binding, or because   *)
(* the answer was lost after both.                                         *)
Confirmed(w) == provision(w)
Refused(w) ==
  /\ Fault
  /\ \/ UNCHANGED <<bound, ruled>>
     \/ bound' = bound \cup ({w} \cap repoOf) /\ UNCHANGED ruled
     \/ bound' = bound \cup ({w} \cap repoOf) /\ ruled' = ruled \cup {w}

-----------------------------------------------------------------------------
(* Identity's half.                                                        *)
MarkProvisioned(w) == wsRows' = [wsRows EXCEPT ![w] = "provisioned"]
ListMarked == {w \in WorkspaceIds : wsRows[w] = "provisioned"}
ListUnprovisioned == {w \in WorkspaceIds : wsRows[w] = "created"}

NoOrg == orgs = 0
CreateOrganizationIf(missing) == orgs' = IF missing THEN orgs + 1 ELSE orgs

InsertWorkspace(w, withRepo) ==
  /\ wsRows[w] = "absent"
  /\ wsRows' = [wsRows EXCEPT ![w] = "created"]
  /\ repoOf' = IF withRepo THEN repoOf \cup {w} ELSE repoOf

Creator(c, pc) == creators' = [creators EXCEPT ![c].pc = pc]

createWorkspace(c) ==
  /\ creators[c].pc = "idle"
  /\ creators' = [creators EXCEPT ![c].pc = "org"]
  /\ UNCHANGED <<wsRows, orgs, repoOf, bound, ruled, sweeper, provisionFaults>>

(* One transaction: the caller's organisation, made if there is none, the  *)
(* workspace, the owner's membership.                                      *)
CreateWorkspace(c) ==
  /\ \/ /\ creators[c].pc = "org"
        /\ Creator(c, IF NoOrg THEN "newOrg" ELSE "commit")
        /\ UNCHANGED <<wsRows, orgs, repoOf>>
     \/ /\ creators[c].pc \in {"newOrg", "commit"}
        /\ CreateOrganizationIf(creators[c].pc = "newOrg")
        /\ \E w \in WorkspaceIds, withRepo \in BOOLEAN :
             /\ InsertWorkspace(w, withRepo)
             /\ creators' = [creators EXCEPT ![c] = [pc |-> "post", ws |-> w]]
  /\ UNCHANGED <<bound, ruled, sweeper, provisionFaults>>

(* Best effort: an error ends the call, the workspace stays in the sweep.  *)
provisionWorkspace(c) ==
  LET w == creators[c].ws IN
  /\ \/ /\ creators[c].pc = "post"
        /\ \/ Confirmed(w) /\ Creator(c, "mark")
           \/ Refused(w) /\ creators' = [creators EXCEPT ![c] = AtRest]
        /\ UNCHANGED wsRows
     \/ /\ creators[c].pc = "mark"
        /\ \/ MarkProvisioned(w) /\ Goes
           \/ Fault /\ UNCHANGED wsRows
        /\ creators' = [creators EXCEPT ![c] = AtRest]
        /\ UNCHANGED <<bound, ruled>>
  /\ UNCHANGED <<orgs, repoOf, sweeper>>

(* One sweep: list, then one POST and one mark each; an error moves on to  *)
(* the next, a spent budget ends the sweep where it is.                    *)
NextOf(rest) == IF rest = {} THEN Ticking
               ELSE LET w == CHOOSE v \in rest : TRUE
                    IN [pc |-> "post", ws |-> w, rest |-> rest \ {w}]

sweep ==
  /\ \/ /\ sweeper.pc = "post"
        /\ \/ Confirmed(sweeper.ws) /\ sweeper' = [sweeper EXCEPT !.pc = "mark"]
           \/ Refused(sweeper.ws) /\ sweeper' = NextOf(sweeper.rest)
        /\ UNCHANGED wsRows
     \/ /\ sweeper.pc = "mark"
        /\ \/ MarkProvisioned(sweeper.ws) /\ Goes
           \/ Fault /\ UNCHANGED wsRows
        /\ sweeper' = NextOf(sweeper.rest)
        /\ UNCHANGED <<bound, ruled>>
     \/ /\ sweeper.pc = "post"
        /\ Fault
        /\ sweeper' = Ticking
        /\ UNCHANGED <<wsRows, bound, ruled>>
  /\ UNCHANGED <<orgs, repoOf, creators>>

(* The sweeper's loop: at once when the service starts, then every minute. *)
(* A list that fails is a sweep of nothing.                                *)
Run ==
  /\ sweeper.pc = "tick"
  /\ sweeper' = NextOf(ListUnprovisioned)
  /\ UNCHANGED <<wsRows, orgs, repoOf, bound, ruled, creators, provisionFaults>>

(* Identity stops and comes back: requests and sweep are forgotten.        *)
IdentityRestarts ==
  /\ Fault
  /\ creators' = [c \in Creators |-> AtRest]
  /\ sweeper' = Ticking
  /\ UNCHANGED <<wsRows, orgs, repoOf, bound, ruled>>

ProvisioningNext ==
  \/ Run \/ sweep \/ IdentityRestarts
  \/ \E c \in Creators : createWorkspace(c) \/ CreateWorkspace(c) \/ provisionWorkspace(c)

(* The sweeper's goroutine runs as long as the service does.  Nothing is   *)
(* asked of the requests.                                                  *)
ProvisioningFairness == WF_provisionVars(Run) /\ WF_provisionVars(sweep)

ProvisioningSpec ==
  ProvisioningInit /\ [][ProvisioningNext]_provisionVars /\ ProvisioningFairness

(* A workspace marked provisioned has its rules: no order of request,      *)
(* sweep, lost answer and restart marks one the Workspace service has not  *)
(* seeded (reconcile.go:27-28, nothing is marked on failure).              *)
MarkedMeansSeeded == \A w \in WorkspaceIds : wsRows[w] = "provisioned" => w \in ruled

(* Every committed workspace is provisioned in the end, whatever became of *)
(* the request that created it: reconcile.go:27-28, nothing is lost.       *)
EveryWorkspaceProvisioned ==
  \A w \in WorkspaceIds : wsRows[w] = "created" ~> wsRows[w] = "provisioned"

=============================================================================
