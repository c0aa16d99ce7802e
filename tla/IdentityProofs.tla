---------------------------- MODULE IdentityProofs ----------------------------
(***************************************************************************)
(* Proofs about Identity's modules, for any number of requests, workspaces, *)
(* applicants and failures.                                                *)
(***************************************************************************)
EXTENDS Members, Accounts, Provisioning, Logins, FiniteSetTheorems, TLAPS

-----------------------------------------------------------------------------
(* Provisioning.                                                           *)

CreatorType == [pc : {"idle", "org", "newOrg", "commit", "post", "mark"},
                ws : WorkspaceIds \cup {NoWorkspace}]
SweeperType == [pc : {"tick", "post", "mark"}, ws : WorkspaceIds \cup {NoWorkspace},
                rest : SUBSET WorkspaceIds]

(* Whoever is about to mark a workspace has had its POST confirmed.        *)
MarkersHaveSeeded ==
  /\ \A c \in Creators : creators[c].pc = "mark" => creators[c].ws \in ruled
  /\ sweeper.pc = "mark" => sweeper.ws \in ruled

ProvisioningInv ==
  /\ wsRows \in [WorkspaceIds -> {"absent", "created", "provisioned"}]
  /\ creators \in [Creators -> CreatorType]
  /\ sweeper \in SweeperType
  /\ MarkersHaveSeeded
  /\ MarkedMeansSeeded

(* The sweeper's next stop is a POST or a rest, never a mark.              *)
LEMMA NextOfType ==
  ASSUME NEW rest \in SUBSET WorkspaceIds
  PROVE  NextOf(rest) \in SweeperType /\ NextOf(rest).pc # "mark"
<1>1. CASE rest = {}
  BY <1>1 DEF NextOf, Ticking, SweeperType
<1>2. CASE rest # {}
  <2>1. (CHOOSE v \in rest : TRUE) \in rest
    BY <1>2
  <2> QED BY <1>2, <2>1 DEF NextOf, SweeperType
<1> QED BY <1>1, <1>2

(* At the start nothing is marked, and nobody is about to mark.            *)
LEMMA ProvisioningInitHolds == ProvisioningInit => ProvisioningInv
  BY DEF ProvisioningInit, ProvisioningInv, MarkersHaveSeeded, MarkedMeansSeeded,
         CreatorType, SweeperType, AtRest, Ticking

(* A mark is set on a workspace that was seeded, and nothing is unseeded.  *)
LEMMA ProvisioningPreserved ==
  ASSUME ProvisioningInv,
         ruled \subseteq ruled',
         \/ UNCHANGED wsRows
         \/ \E w \in ruled : MarkProvisioned(w)
         \/ \E w \in WorkspaceIds, withRepo \in BOOLEAN : InsertWorkspace(w, withRepo),
         creators' \in [Creators -> CreatorType],
         sweeper' \in SweeperType,
         \A c \in Creators : creators'[c].pc = "mark" => creators'[c].ws \in ruled',
         sweeper'.pc = "mark" => sweeper'.ws \in ruled'
  PROVE  ProvisioningInv'
<1>1. wsRows' \in [WorkspaceIds -> {"absent", "created", "provisioned"}]
  BY DEF ProvisioningInv, MarkProvisioned, InsertWorkspace
<1>2. \A w \in WorkspaceIds : wsRows'[w] = "provisioned" => w \in ruled
  BY DEF ProvisioningInv, MarkedMeansSeeded, MarkProvisioned, InsertWorkspace
<1> QED BY <1>1, <1>2 DEF ProvisioningInv, MarkersHaveSeeded, MarkedMeansSeeded

(* A request's step moves that request only.                               *)
LEMMA ProvisioningStepHolds ==
  ProvisioningInv /\ [ProvisioningNext]_provisionVars => ProvisioningInv'
<1> SUFFICES ASSUME ProvisioningInv, [ProvisioningNext]_provisionVars PROVE ProvisioningInv'
  OBVIOUS
<1>0. /\ creators \in [Creators -> CreatorType] /\ sweeper \in SweeperType
      /\ \A c \in Creators : creators[c].pc = "mark" => creators[c].ws \in ruled
      /\ sweeper.pc = "mark" => sweeper.ws \in ruled
  BY DEF ProvisioningInv, MarkersHaveSeeded
<1>1. ASSUME NEW w, Confirmed(w) \/ Refused(w) \/ UNCHANGED ruled
      PROVE  ruled \subseteq ruled' /\ (Confirmed(w) => w \in ruled')
  BY <1>1 DEF Confirmed, Refused, provision, BootstrapWorkspace
<1>2. CASE Run
  <2>1. NextOf(ListUnprovisioned) \in SweeperType /\ NextOf(ListUnprovisioned).pc # "mark"
    BY NextOfType DEF ListUnprovisioned
  <2> QED BY <1>0, <1>2, <2>1, ProvisioningPreserved DEF Run
<1>3. CASE sweep
  <2>1. NextOf(sweeper.rest) \in SweeperType /\ NextOf(sweeper.rest).pc # "mark"
    BY <1>0, NextOfType DEF SweeperType
  <2>2. ASSUME sweeper.pc = "post", Confirmed(sweeper.ws),
               sweeper' = [sweeper EXCEPT !.pc = "mark"], UNCHANGED <<wsRows, creators>>
        PROVE  ProvisioningInv'
    <3>1. ruled \subseteq ruled' /\ sweeper.ws \in ruled'
      BY <1>1, <2>2
    <3>2. sweeper' \in SweeperType /\ sweeper'.ws = sweeper.ws
      BY <1>0, <2>2 DEF SweeperType
    <3> QED BY <1>0, <2>2, <3>1, <3>2, ProvisioningPreserved
  <2>3. ASSUME Refused(sweeper.ws) \/ UNCHANGED ruled,
               sweeper' = NextOf(sweeper.rest) \/ sweeper' = Ticking, UNCHANGED creators,
               UNCHANGED wsRows \/ (sweeper.pc = "mark" /\ MarkProvisioned(sweeper.ws))
        PROVE  ProvisioningInv'
    <3>1. ruled \subseteq ruled'
      BY <1>1, <2>3
    <3>2. sweeper' \in SweeperType /\ sweeper'.pc # "mark"
      BY <2>1, <2>3 DEF Ticking, SweeperType
    <3> QED BY <1>0, <2>3, <3>1, <3>2, ProvisioningPreserved
  <2> QED BY <1>3, <2>2, <2>3 DEF sweep
<1>4. CASE IdentityRestarts
  <2>1. creators' \in [Creators -> CreatorType] /\ \A c \in Creators : creators'[c].pc # "mark"
    BY <1>4 DEF IdentityRestarts, AtRest, CreatorType
  <2>2. sweeper' \in SweeperType /\ sweeper'.pc # "mark"
    BY <1>4 DEF IdentityRestarts, Ticking, SweeperType
  <2> QED BY <1>4, <2>1, <2>2, ProvisioningPreserved DEF IdentityRestarts
<1>5. ASSUME NEW c \in Creators, NEW new \in CreatorType,
             creators' = [creators EXCEPT ![c] = new], UNCHANGED sweeper,
             ruled \subseteq ruled', new.pc = "mark" => new.ws \in ruled',
             \/ UNCHANGED wsRows
             \/ \E w \in ruled : MarkProvisioned(w)
             \/ \E w \in WorkspaceIds, withRepo \in BOOLEAN : InsertWorkspace(w, withRepo)
      PROVE  ProvisioningInv'
  <2>1. creators' \in [Creators -> CreatorType]
    BY <1>0, <1>5
  <2>2. \A d \in Creators : creators'[d].pc = "mark" => creators'[d].ws \in ruled'
    BY <1>0, <1>5
  <2> QED BY <1>0, <1>5, <2>1, <2>2, ProvisioningPreserved
<1>6. ASSUME NEW c \in Creators, createWorkspace(c) \/ CreateWorkspace(c)
      PROVE  ProvisioningInv'
  <2>0. creators[c] \in CreatorType
    BY <1>0
  <2>1. ASSUME NEW pc \in {"org", "newOrg", "commit"},
               creators' = [creators EXCEPT ![c].pc = pc], UNCHANGED <<wsRows, ruled, sweeper>>
        PROVE  ProvisioningInv'
    <3>1. [creators[c] EXCEPT !.pc = pc] \in CreatorType /\ [creators[c] EXCEPT !.pc = pc].pc = pc
      BY <2>0 DEF CreatorType
    <3>2. creators' = [creators EXCEPT ![c] = [creators[c] EXCEPT !.pc = pc]]
      BY <1>0, <2>1
    <3> QED BY <1>5, <2>1, <3>1, <3>2
  <2>2. ASSUME NEW w \in WorkspaceIds, NEW withRepo \in BOOLEAN, InsertWorkspace(w, withRepo),
               creators' = [creators EXCEPT ![c] = [pc |-> "post", ws |-> w]],
               UNCHANGED <<ruled, sweeper>>
        PROVE  ProvisioningInv'
    <3>1. [pc |-> "post", ws |-> w] \in CreatorType
      BY DEF CreatorType
    <3> QED BY <1>5, <2>2, <3>1
  <2>3. CASE createWorkspace(c)
    BY <2>1, <2>3 DEF createWorkspace
  <2>4. CASE CreateWorkspace(c)
    BY <2>1, <2>2, <2>4 DEF CreateWorkspace, Creator
  <2> QED BY <1>6, <2>3, <2>4
<1>7. ASSUME NEW c \in Creators, provisionWorkspace(c)
      PROVE  ProvisioningInv'
  <2>0. creators[c] \in CreatorType /\ AtRest \in CreatorType /\ AtRest.pc # "mark"
    BY <1>0 DEF AtRest, CreatorType
  <2>1. ASSUME Confirmed(creators[c].ws), Creator(c, "mark"), UNCHANGED <<wsRows, sweeper>>
        PROVE  ProvisioningInv'
    <3> DEFINE new == [creators[c] EXCEPT !.pc = "mark"]
    <3>1. ruled \subseteq ruled' /\ creators[c].ws \in ruled'
      BY <1>1, <2>1
    <3>2. new \in CreatorType /\ new.ws = creators[c].ws
      BY <2>0 DEF CreatorType
    <3>3. creators' = [creators EXCEPT ![c] = new]
      BY <1>0, <2>1 DEF Creator
    <3> HIDE DEF new
    <3> QED BY <1>5, <2>1, <3>1, <3>2, <3>3
  <2>2. ASSUME Refused(creators[c].ws) \/ UNCHANGED ruled,
               creators' = [creators EXCEPT ![c] = AtRest], UNCHANGED sweeper,
               UNCHANGED wsRows \/ (creators[c].pc = "mark" /\ MarkProvisioned(creators[c].ws))
        PROVE  ProvisioningInv'
    <3>1. ruled \subseteq ruled'
      BY <1>1, <2>2
    <3>2. UNCHANGED wsRows \/ \E w \in ruled : MarkProvisioned(w)
      BY <1>0, <2>2
    <3> QED BY <1>5, <2>0, <2>2, <3>1, <3>2
  <2> QED BY <1>7, <2>1, <2>2 DEF provisionWorkspace
<1>8. CASE UNCHANGED provisionVars
  BY <1>8 DEF provisionVars, ProvisioningInv, MarkersHaveSeeded, MarkedMeansSeeded
<1> QED BY <1>2, <1>3, <1>4, <1>6, <1>7, <1>8 DEF ProvisioningNext

(* No order of requests, sweeps, lost answers and restarts marks a         *)
(* workspace the Workspace service has not seeded.                         *)
THEOREM MarksAreTrue == ProvisioningSpec => []MarkedMeansSeeded
<1>1. ProvisioningInv => MarkedMeansSeeded
  BY DEF ProvisioningInv
<1> QED BY ProvisioningInitHolds, ProvisioningStepHolds, <1>1, PTL DEF ProvisioningSpec

-----------------------------------------------------------------------------
(* Decisions.                                                              *)

(* What the call of a request knows of its applicant, whatever the other   *)
(* calls do meanwhile.                                                     *)
CallKnows(call) ==
  /\ call.pc \in {"create", "signup.requested", "get", "refuse", "commit", "found",
                  "charter", "signup.approved", "signup.declined"} => call.who \in Applicants
  /\ call.pc \in {"get", "refuse", "commit"} => call.at \in Workspaces
  /\ call.pc = "commit" => asked[call.who] = call.at
  /\ call.pc = "charter" => asked[call.who] = Founder
  /\ call.pc \in {"signup.requested", "commit", "charter"} => users[call.who] # "absent"
  /\ call.pc = "signup.approved" => queue[call.who] = "approved"
  /\ call.pc = "signup.declined" => queue[call.who] = "declined"

(* The requests before their applicant exists, and the declined ones.      *)
RequestsAreAsked ==
  \A p \in Applicants :
    /\ users[p] = "absent" => queue[p] = "none"
    /\ queue[p] = "declined" => asked[p] \in Workspaces

RequestTypes ==
  /\ users \in [Applicants -> {"absent", "inactive", "active"}]
  /\ signups \in [Applicants -> Statuses]
  /\ asked \in [Applicants -> Workspaces \cup {Founder, Nowhere}]
  /\ queue \in [Applicants -> Statuses]
  /\ memberOf \in [Applicants -> SUBSET Workspaces]
  /\ founded \in [Applicants -> Nat]

RequestsInv == RequestTypes /\ RequestsAreAsked /\ DecisionsHold

CallsInv ==
  /\ accountCalls \in [AccountCalls -> AccountCall]
  /\ \A c \in AccountCalls : CallKnows(accountCalls[c])

(* A user is never forgotten, a user's request asks for what it asked for, *)
(* and a decision stands.                                                  *)
Settled ==
  \A p \in Applicants :
    /\ users[p] # "absent" => users'[p] # "absent" /\ asked'[p] = asked[p]
    /\ queue[p] \in {"approved", "declined"} => queue'[p] = queue[p]

(* What the other calls know survives a step of one call.                  *)
LEMMA CallsStepHolds ==
  ASSUME CallsInv, Settled, NEW c \in AccountCalls, NEW new \in AccountCall,
         accountCalls' = [accountCalls EXCEPT ![c] = new], CallKnows(new)'
  PROVE  CallsInv'
<1>1. accountCalls' \in [AccountCalls -> AccountCall]
  BY DEF CallsInv
<1>2. ASSUME NEW d \in AccountCalls PROVE CallKnows(accountCalls[d])'
  <2>1. CASE d = c
    <3>1. accountCalls'[d] = new
      BY <2>1 DEF CallsInv
    <3> QED BY <3>1 DEF CallKnows
  <2>2. CASE d # c
    <3>1. accountCalls'[d] = accountCalls[d] /\ CallKnows(accountCalls[d])
      BY <2>2 DEF CallsInv
    <3> QED BY <3>1 DEF CallKnows, Settled
  <2> QED BY <2>1, <2>2
<1> QED BY <1>1, <1>2 DEF CallsInv

(* Nobody has asked for anything at the start.                             *)
LEMMA AccountsInitHolds == AccountsInit => RequestsInv /\ CallsInv
<1> SUFFICES ASSUME AccountsInit PROVE RequestsInv /\ CallsInv
  OBVIOUS
<1>1. RequestTypes
  BY DEF AccountsInit, RequestTypes, Statuses
<1>2. RequestsAreAsked /\ DecisionsHold
  BY DEF AccountsInit, RequestsAreAsked, DecisionsHold, ApprovedMeansActiveMember,
         DeclinedMeansNothingGranted, AnswerFollowsDecision
<1>3. CallsInv
  BY DEF AccountsInit, CallsInv, CallKnows, NoCall, AccountCall
<1> QED BY <1>1, <1>2, <1>3 DEF RequestsInv

(* A call that reads, answers or fails changes nothing it shares.          *)
LEMMA NothingShared ==
  ASSUME RequestsInv, CallsInv,
         UNCHANGED <<users, signups, asked, queue, memberOf, founded>>
  PROVE  RequestsInv' /\ Settled
BY DEF RequestsInv, RequestTypes, RequestsAreAsked, DecisionsHold, ApprovedMeansActiveMember,
       DeclinedMeansNothingGranted, AnswerFollowsDecision, InternalWorkspaces, Settled

(* The statements that change a request or what it grants, each with what  *)
(* its call knows.                                                         *)
Statement(p, w) ==
  \/ /\ users[p] = "absent" /\ CreateSignup(p, w)
     /\ UNCHANGED <<queue, memberOf, founded>>
  \/ /\ users[p] # "absent" /\ UpsertRequest(p)
     /\ UNCHANGED <<users, signups, asked, memberOf, founded>>
  \/ /\ users[p] # "absent" /\ w \in Workspaces /\ asked[p] = w /\ queue[p] = "pending"
     /\ memberOf' = [memberOf EXCEPT ![p] = @ \cup {w}]
     /\ queue' = [queue EXCEPT ![p] = "approved"]
     /\ Activate(p)
     /\ UNCHANGED <<signups, asked, founded>>
  \/ /\ w \in Workspaces /\ asked[p] = w /\ queue[p] = "pending"
     /\ queue' = [queue EXCEPT ![p] = "declined"]
     /\ UNCHANGED <<users, signups, asked, memberOf, founded>>
  \/ /\ users[p] # "absent" /\ asked[p] = Founder
     /\ CreateOrganization(p)
     /\ queue' = [queue EXCEPT ![p] = "approved"]
     /\ Activate(p)
     /\ UNCHANGED <<signups, asked, memberOf>>
  \/ /\ queue[p] = "approved" /\ SetSignupStatus(p, "approved") /\ Activate(p)
     /\ UNCHANGED <<asked, queue, memberOf, founded>>
  \/ /\ queue[p] = "declined" /\ SetSignupStatus(p, "declined")
     /\ UNCHANGED <<users, asked, queue, memberOf, founded>>

(* Each keeps requests, grants and answers agreed.                         *)
LEMMA StatementsHold ==
  ASSUME RequestsInv, NEW p \in Applicants, NEW w \in Workspaces \cup {Founder, Nowhere},
         Statement(p, w)
  PROVE  RequestsInv' /\ Settled
<1>0. RequestTypes /\ RequestsAreAsked /\ ApprovedMeansActiveMember
      /\ DeclinedMeansNothingGranted /\ AnswerFollowsDecision
  BY DEF RequestsInv, DecisionsHold
<1> USE DEF Statement, CreateSignup, UpsertRequest, Activate, CreateOrganization, SetSignupStatus
<1>1. RequestTypes'
  <2>1. (users \in [Applicants -> {"absent", "inactive", "active"}])'
    BY <1>0 DEF RequestTypes
  <2>2. (signups \in [Applicants -> Statuses])'
    BY <1>0 DEF RequestTypes, Statuses
  <2>3. (asked \in [Applicants -> Workspaces \cup {Founder, Nowhere}])'
    BY <1>0 DEF RequestTypes
  <2>4. (queue \in [Applicants -> Statuses])'
    BY <1>0 DEF RequestTypes, Statuses
  <2>5. (memberOf \in [Applicants -> SUBSET Workspaces])'
    BY <1>0 DEF RequestTypes
  <2>6. (founded \in [Applicants -> Nat])'
    BY <1>0 DEF RequestTypes
  <2> QED BY <2>1, <2>2, <2>3, <2>4, <2>5, <2>6 DEF RequestTypes
<1>2. Settled
  BY <1>0, AccountsAssumption DEF RequestTypes, RequestsAreAsked, Settled
<1>3. RequestsAreAsked'
  BY <1>0 DEF RequestTypes, RequestsAreAsked
<1>4. ApprovedMeansActiveMember'
  BY <1>0, AccountsAssumption
     DEF RequestTypes, RequestsAreAsked, ApprovedMeansActiveMember, InternalWorkspaces
<1>5. DeclinedMeansNothingGranted'
  BY <1>0 DEF RequestTypes, RequestsAreAsked, DeclinedMeansNothingGranted,
              ApprovedMeansActiveMember
<1>6. AnswerFollowsDecision'
  BY <1>0, AccountsAssumption DEF RequestTypes, RequestsAreAsked, AnswerFollowsDecision
<1> QED BY <1>1, <1>2, <1>3, <1>4, <1>5, <1>6 DEF RequestsInv, DecisionsHold

(* What the signup form resolves is of the kind a request asks for.        *)
CodesInv == codes \subseteq Workspaces \cup {Founder, Nowhere}

(* A request is received, from an applicant where there is one.            *)
LEMMA ReceivingHolds ==
  ASSUME RequestsInv, CallsInv, CodesInv, NEW c \in AccountCalls, Receives(c)
  PROVE  RequestsInv' /\ CallsInv' /\ CodesInv'
<1>1. ASSUME NEW pc \in {"insert", "create", "get", "refuse", "found"},
             NEW p \in Applicants \cup {NoOne}, NEW w \in Workspaces \cup {Founder, Nowhere},
             Receive(c, pc, p, w),
             pc = "insert" \/ p \in Applicants, pc \in {"get", "refuse"} => w \in Workspaces,
             UNCHANGED <<users, signups, asked, queue, memberOf, founded, codes>>
      PROVE  RequestsInv' /\ CallsInv' /\ CodesInv'
  <2> DEFINE new == [pc |-> pc, who |-> p, at |-> w]
  <2>1. new \in AccountCall /\ CallKnows(new)'
    BY <1>1 DEF AccountCall, CallKnows
  <2>2. RequestsInv' /\ Settled
    BY <1>1, NothingShared
  <2>3. accountCalls' = [accountCalls EXCEPT ![c] = new]
    BY <1>1 DEF Receive
  <2>4. CodesInv'
    BY <1>1 DEF CodesInv
  <2> HIDE DEF new
  <2> QED BY <2>1, <2>2, <2>3, <2>4, CallsStepHolds
<1>2. CASE sendInvites(c)
  BY <1>1, <1>2 DEF sendInvites
<1>3. CASE signup(c)
  BY <1>1, <1>3 DEF signup, CodesInv
<1>4. CASE approveRequest(c)
  BY <1>1, <1>4 DEF approveRequest
<1>5. CASE declineRequest(c)
  BY <1>1, <1>5 DEF declineRequest
<1>6. CASE approveOrgRequest(c)
  BY <1>1, <1>6 DEF approveOrgRequest
<1> QED BY <1>2, <1>3, <1>4, <1>5, <1>6 DEF Receives

(* A call takes its next step or ends.                                     *)
LEMMA HandlingHolds ==
  ASSUME RequestsInv, CallsInv, CodesInv, NEW c \in AccountCalls, Handles(c) \/ AccountFails(c)
  PROVE  RequestsInv' /\ CallsInv'
<1>a. PICK call \in AccountCall : call = accountCalls[c]
  BY DEF CallsInv
<1>0. /\ call \in AccountCall /\ call = accountCalls[c] /\ CallKnows(call)
      /\ accountCalls \in [AccountCalls -> AccountCall]
  BY <1>a DEF CallsInv
<1>1. NoCall \in AccountCall /\ CallKnows(NoCall)'
  BY DEF NoCall, AccountCall, CallKnows
<1>2. ASSUME Finish(c), RequestsInv' /\ Settled
      PROVE  RequestsInv' /\ CallsInv'
  BY <1>1, <1>2, CallsStepHolds DEF Finish
<1>3. ASSUME NEW pc \in {"invite.created", "signup.requested", "commit", "signup.approved",
                         "signup.declined", "charter"},
             Step(c, pc), RequestsInv' /\ Settled,
             CallKnows([call EXCEPT !.pc = pc])'
      PROVE  RequestsInv' /\ CallsInv'
  <2> DEFINE new == [call EXCEPT !.pc = pc]
  <2>1. new \in AccountCall
    BY <1>0 DEF AccountCall
  <2>2. accountCalls' = [accountCalls EXCEPT ![c] = new]
    BY <1>0, <1>3 DEF Step
  <2>3. CallKnows(new)'
    BY <1>3
  <2> HIDE DEF new
  <2> QED BY <1>3, <2>1, <2>2, <2>3, CallsStepHolds
<1>4. CASE SendInvites(c)
  <2>1. RequestsInv' /\ Settled
    BY <1>0, <1>4, NothingShared DEF SendInvites
  <2>2. CallKnows([call EXCEPT !.pc = "invite.created"])'
    BY <1>0 DEF CallKnows, AccountCall
  <2> QED BY <1>0, <1>3, <1>4, <2>1, <2>2 DEF SendInvites, Publish
<1>5. CASE HandleInviteCreated(c) \/ AccountFails(c)
  <2>1. RequestsInv' /\ Settled
    BY <1>0, <1>5, NothingShared DEF HandleInviteCreated, AccountFails
  <2> QED BY <1>0, <1>2, <1>5, <2>1 DEF HandleInviteCreated, AccountFails
<1>6. CASE Signup(c)
  <2>1. call.who \in Applicants /\ call.at \in Workspaces \cup {Founder, Nowhere}
    BY <1>0, <1>6 DEF Signup, CallKnows, AccountCall
  <2>2. CASE users[call.who] = "absent"
    <3>1. CreateSignup(call.who, call.at) /\ Publish(c, "signup.requested")
          /\ UNCHANGED <<queue, memberOf, founded>>
      BY <1>0, <1>6, <2>2 DEF Signup
    <3>2. RequestsInv' /\ Settled
      <4>1. Statement(call.who, call.at)
        BY <1>0, <2>1, <2>2, <3>1 DEF Statement
      <4> QED BY <2>1, <4>1, StatementsHold
    <3>3. users'[call.who] # "absent"
      BY <2>1, <3>1 DEF RequestsInv, RequestTypes, CreateSignup
    <3>4. CallKnows([call EXCEPT !.pc = "signup.requested"])'
      BY <1>0, <2>1, <3>3 DEF CallKnows, AccountCall
    <3> QED BY <1>0, <1>3, <3>1, <3>2, <3>4 DEF Publish
  <2>3. CASE users[call.who] # "absent"
    <3>1. RequestsInv' /\ Settled
      BY <1>0, <1>6, <2>3, NothingShared DEF Signup
    <3> QED BY <1>0, <1>2, <1>6, <2>3, <3>1 DEF Signup
  <2> QED BY <2>2, <2>3
<1>7. CASE ProjectSignupRequest(c)
  <2>1. call.who \in Applicants /\ users[call.who] # "absent"
    BY <1>0, <1>7 DEF ProjectSignupRequest, CallKnows
  <2>2. RequestsInv' /\ Settled
    <3>1. Statement(call.who, Founder)
      BY <1>0, <1>7, <2>1 DEF ProjectSignupRequest, Statement
    <3> QED BY <2>1, <3>1, StatementsHold
  <2> QED BY <1>0, <1>2, <1>7, <2>2 DEF ProjectSignupRequest
<1>8. CASE ApproveJoinRequest(c)
  <2>1. CASE call.pc = "get"
    <3>1. call.who \in Applicants /\ call.at \in Workspaces
      BY <1>0, <2>1 DEF CallKnows
    <3>2. RequestsInv' /\ Settled
      BY <1>0, <1>8, <2>1, NothingShared DEF ApproveJoinRequest
    <3>3. CASE PendingIn(call.who, call.at)
      <4>1. users[call.who] # "absent" /\ asked[call.who] = call.at
        BY <1>0, <3>1, <3>3 DEF PendingIn, RequestsInv, RequestsAreAsked
      <4>2. users'[call.who] # "absent" /\ asked'[call.who] = call.at
        BY <1>0, <3>1, <3>2, <4>1 DEF Settled
      <4>3. CallKnows([call EXCEPT !.pc = "commit"])'
        BY <1>0, <3>1, <4>2 DEF CallKnows, AccountCall
      <4> QED BY <1>0, <1>3, <1>8, <2>1, <3>2, <3>3, <4>3 DEF ApproveJoinRequest
    <3> QED BY <1>0, <1>2, <1>8, <2>1, <3>2, <3>3 DEF ApproveJoinRequest
  <2>2. CASE call.pc = "commit"
    <3>1. /\ call.who \in Applicants /\ call.at \in Workspaces
          /\ asked[call.who] = call.at /\ users[call.who] # "absent"
      BY <1>0, <2>2 DEF CallKnows
    <3>2. CASE JoinStatusMoves(call.who)
      <4>1. RequestsInv' /\ Settled
        <5>1. Statement(call.who, call.at)
          BY <1>0, <1>8, <2>2, <3>1, <3>2 DEF ApproveJoinRequest, JoinStatusMoves, Statement
        <5> QED BY <3>1, <5>1, StatementsHold
      <4>2. queue'[call.who] = "approved"
        BY <1>0, <1>8, <2>2, <3>1, <3>2 DEF ApproveJoinRequest, RequestsInv, RequestTypes
      <4>3. CallKnows([call EXCEPT !.pc = "signup.approved"])'
        BY <1>0, <3>1, <4>2 DEF CallKnows, AccountCall
      <4> QED BY <1>0, <1>3, <1>8, <2>2, <3>2, <4>1, <4>3 DEF ApproveJoinRequest, Publish
    <3>3. CASE ~JoinStatusMoves(call.who)
      <4>1. RequestsInv' /\ Settled
        BY <1>0, <1>8, <2>2, <3>3, NothingShared DEF ApproveJoinRequest
      <4> QED BY <1>0, <1>2, <1>8, <2>2, <3>3, <4>1 DEF ApproveJoinRequest
    <3> QED BY <3>2, <3>3
  <2> QED BY <1>0, <1>8, <2>1, <2>2 DEF ApproveJoinRequest
<1>9. CASE ApproveOrgRequest(c)
  <2>1. CASE call.pc = "found"
    <3>1. call.who \in Applicants
      BY <1>0, <2>1 DEF CallKnows
    <3>2. RequestsInv' /\ Settled
      BY <1>0, <1>9, <2>1, NothingShared DEF ApproveOrgRequest
    <3>3. CASE PendingIn(call.who, Founder)
      <4>1. users[call.who] # "absent" /\ asked[call.who] = Founder
        BY <1>0, <3>1, <3>3 DEF PendingIn, RequestsInv, RequestsAreAsked
      <4>2. users'[call.who] # "absent" /\ asked'[call.who] = Founder
        BY <1>0, <3>1, <3>2, <4>1 DEF Settled
      <4>3. CallKnows([call EXCEPT !.pc = "charter"])'
        BY <1>0, <3>1, <4>2 DEF CallKnows, AccountCall
      <4> QED BY <1>0, <1>3, <1>9, <2>1, <3>2, <3>3, <4>3 DEF ApproveOrgRequest
    <3> QED BY <1>0, <1>2, <1>9, <2>1, <3>2, <3>3 DEF ApproveOrgRequest
  <2>2. CASE call.pc = "charter"
    <3>1. call.who \in Applicants /\ asked[call.who] = Founder /\ users[call.who] # "absent"
      BY <1>0, <2>2 DEF CallKnows
    <3>2. RequestsInv' /\ Settled
      <4>1. Statement(call.who, Founder)
        BY <1>0, <1>9, <2>2, <3>1 DEF ApproveOrgRequest, Statement
      <4> QED BY <3>1, <4>1, StatementsHold
    <3>3. queue'[call.who] = "approved"
      BY <1>0, <1>9, <2>2, <3>1 DEF ApproveOrgRequest, RequestsInv, RequestTypes
    <3>4. CallKnows([call EXCEPT !.pc = "signup.approved"])'
      BY <1>0, <3>1, <3>3 DEF CallKnows, AccountCall
    <3> QED BY <1>0, <1>3, <1>9, <2>2, <3>2, <3>4 DEF ApproveOrgRequest, Publish
  <2> QED BY <1>0, <1>9, <2>1, <2>2 DEF ApproveOrgRequest
<1>10. CASE DeclineJoinRequest(c)
  <2>1. call.who \in Applicants /\ call.at \in Workspaces
    BY <1>0, <1>10 DEF DeclineJoinRequest, CallKnows
  <2>2. CASE asked[call.who] = call.at /\ JoinStatusMoves(call.who)
    <3>1. RequestsInv' /\ Settled
      <4>1. Statement(call.who, call.at)
        BY <1>0, <1>10, <2>1, <2>2 DEF DeclineJoinRequest, JoinStatusMoves, Statement
      <4> QED BY <2>1, <4>1, StatementsHold
    <3>2. queue'[call.who] = "declined"
      BY <1>0, <1>10, <2>1, <2>2 DEF DeclineJoinRequest, RequestsInv, RequestTypes
    <3>3. CallKnows([call EXCEPT !.pc = "signup.declined"])'
      BY <1>0, <2>1, <3>2 DEF CallKnows, AccountCall
    <3> QED BY <1>0, <1>3, <1>10, <2>2, <3>1, <3>3 DEF DeclineJoinRequest, Publish
  <2>3. CASE ~(asked[call.who] = call.at /\ JoinStatusMoves(call.who))
    <3>1. RequestsInv' /\ Settled
      BY <1>0, <1>10, <2>3, NothingShared DEF DeclineJoinRequest
    <3> QED BY <1>0, <1>2, <1>10, <2>3, <3>1 DEF DeclineJoinRequest
  <2> QED BY <2>2, <2>3
<1>11. CASE HandleSignupApproved(c) \/ HandleSignupDeclined(c)
  <2>1. /\ call.who \in Applicants
        /\ call.pc = "signup.approved" => queue[call.who] = "approved"
        /\ call.pc = "signup.declined" => queue[call.who] = "declined"
    BY <1>0, <1>11 DEF HandleSignupApproved, HandleSignupDeclined, CallKnows
  <2>2. RequestsInv' /\ Settled
    <3>1. Statement(call.who, Founder)
      BY <1>0, <1>11, <2>1 DEF HandleSignupApproved, HandleSignupDeclined, Statement
    <3> QED BY <2>1, <3>1, StatementsHold
  <2> QED BY <1>0, <1>2, <1>11, <2>2 DEF HandleSignupApproved, HandleSignupDeclined
<1> QED BY <1>0, <1>4, <1>5, <1>6, <1>7, <1>8, <1>9, <1>10, <1>11 DEF Handles

(* Codes come from the calls that announce an invitation.                  *)
LEMMA CodesHold ==
  ASSUME CallsInv, CodesInv, NEW c \in AccountCalls, Handles(c) \/ AccountFails(c)
  PROVE  CodesInv'
<1>1. CASE HandleInviteCreated(c)
  <2>1. accountCalls[c] \in AccountCall
    BY DEF CallsInv
  <2> QED BY <1>1, <2>1 DEF HandleInviteCreated, CodesInv, AccountCall
<1>2. CASE ~HandleInviteCreated(c)
  <2>1. UNCHANGED codes
    BY <1>2 DEF Handles, AccountFails, SendInvites, Signup, ProjectSignupRequest,
       ApproveJoinRequest, ApproveOrgRequest, HandleSignupApproved, DeclineJoinRequest,
       HandleSignupDeclined
  <2> QED BY <2>1 DEF CodesInv
<1> QED BY <1>1, <1>2

(* However requests, decisions of several administrators, bus deliveries   *)
(* and failures interleave, what was decided, what it granted and what the *)
(* applicant is told agree.                                                *)
THEOREM DecisionsTheorem == AccountsSpec => []DecisionsHold
<1> DEFINE AccountsInv == RequestsInv /\ CallsInv /\ CodesInv
<1>1. AccountsInit => AccountsInv
  BY AccountsInitHolds DEF AccountsInit, CodesInv
<1>2. AccountsInv /\ [AccountsNext]_accountVars => AccountsInv'
  <2> SUFFICES ASSUME AccountsInv, [AccountsNext]_accountVars PROVE AccountsInv'
    OBVIOUS
  <2>1. CASE AccountsNext
    BY <2>1, ReceivingHolds, HandlingHolds, CodesHold DEF AccountsNext
  <2>2. CASE UNCHANGED accountVars
    <3>1. RequestsInv'
      BY <2>2, NothingShared DEF accountVars
    <3>2. CallsInv' /\ CodesInv'
      BY <2>2 DEF accountVars, CallsInv, CallKnows, CodesInv
    <3> QED BY <3>1, <3>2
  <2> QED BY <2>1, <2>2
<1>3. AccountsInv => DecisionsHold
  BY DEF RequestsInv
<1> QED BY <1>1, <1>2, <1>3, PTL DEF AccountsSpec

-----------------------------------------------------------------------------
(* The login throttle.                                                     *)

ThrottleEntry == [first : Nat, count : Nat, none : BOOLEAN]
LoginCallType == [pc : LoginPcs, email : Emails \cup {NoAccount}, held : ThrottleEntry]

(* Failures are finitely many and numbered in the order they happened.     *)
FailuresNumbered ==
  /\ clock \in Nat
  /\ IsFiniteSet(failures)
  /\ \A f \in failures : f.n \in Nat /\ f.n < Cardinality(failures)

(* An entry opened in the past and counts failures since.                  *)
Honest(k, e) ==
  /\ e \in ThrottleEntry
  /\ e.first <= clock
  /\ e.count <= Cardinality(FailuresSince(k, e.first))

CallHonest(call) ==
  /\ call \in LoginCallType
  /\ call.pc # "idle" => call.email \in Emails
  /\ call.pc = "store email" => Honest(call.email, call.held)
  /\ call.pc = "store ip" => Honest(IP, call.held)

LoginsInv ==
  /\ FailuresNumbered
  /\ throttle \in [Keys -> ThrottleEntry]
  /\ \A k \in Keys : Honest(k, throttle[k])
  /\ loginCalls \in [LoginCalls -> LoginCallType]
  /\ \A c \in LoginCalls : CallHonest(loginCalls[c])

(* The failures since a moment are finitely many.                          *)
LEMMA FailuresSinceFinite ==
  ASSUME IsFiniteSet(failures), NEW k, NEW t
  PROVE  IsFiniteSet(FailuresSince(k, t)) /\ Cardinality(FailuresSince(k, t)) \in Nat
<1>1. FailuresSince(k, t) \subseteq failures
  BY DEF FailuresSince
<1> QED BY <1>1, FS_Subset, FS_CardinalityType

(* What an entry counts has happened, and stays so.                        *)
LEMMA HonestStays ==
  ASSUME FailuresNumbered, FailuresNumbered', clock <= clock', failures \subseteq failures',
         NEW k, NEW e, Honest(k, e)
  PROVE  Honest(k, e)'
<1> DEFINE before == FailuresSince(k, e.first)
           after == FailuresSince(k, e.first)'
<1>1. before \subseteq after
  BY DEF FailuresSince
<1>2. IsFiniteSet(failures') /\ after \subseteq failures'
  BY DEF FailuresNumbered, FailuresSince
<1>3. IsFiniteSet(after)
  BY <1>2, FS_Subset
<1>4. Cardinality(before) <= Cardinality(after) /\ Cardinality(before) \in Nat
      /\ Cardinality(after) \in Nat
  BY <1>1, <1>3, FS_Subset, FS_CardinalityType
<1>5. e.first \in Nat /\ e.count \in Nat /\ e.first <= clock
      /\ e.count <= Cardinality(before) /\ clock \in Nat /\ clock' \in Nat
  BY DEF Honest, ThrottleEntry, FailuresNumbered
<1>6. e.count <= Cardinality(after) /\ e.first <= clock'
  BY <1>4, <1>5
<1> QED BY <1>6 DEF Honest

(* A recorded failure is one more than there were.                         *)
LEMMA FailureCounts ==
  ASSUME FailuresNumbered, NEW k, NEW t \in Nat, t <= clock, UNCHANGED clock,
         failures' = failures \cup {[key |-> k, at |-> clock, n |-> Cardinality(failures)]}
  PROVE  /\ FailuresNumbered'
         /\ Cardinality(FailuresSince(k, t))' = Cardinality(FailuresSince(k, t)) + 1
<1> DEFINE f == [key |-> k, at |-> clock, n |-> Cardinality(failures)]
<1>1. IsFiniteSet(failures) /\ Cardinality(failures) \in Nat /\ clock \in Nat
  BY FS_CardinalityType DEF FailuresNumbered
<1>2. f.n = Cardinality(failures) /\ f.key = k /\ f.at = clock
  OBVIOUS
<1>3. f \notin failures
  BY <1>1, <1>2 DEF FailuresNumbered
<1>4. FailuresSince(k, t)' = FailuresSince(k, t) \cup {f}
  <2>1. FailuresSince(k, t)' = {g \in failures \cup {f} : g.key = k /\ g.at >= t}
    BY DEF FailuresSince
  <2>2. f.at >= t
    BY <1>1, <1>2
  <2> HIDE DEF f
  <2> QED BY <1>2, <2>1, <2>2 DEF FailuresSince
<1>5. f \notin FailuresSince(k, t)
  BY <1>3 DEF FailuresSince
<1>6. IsFiniteSet(FailuresSince(k, t))
  BY <1>1, FailuresSinceFinite
<1> HIDE DEF f
<1>7. Cardinality(FailuresSince(k, t) \cup {f}) = Cardinality(FailuresSince(k, t)) + 1
  BY <1>5, <1>6, FS_AddElement
<1>8. failures' = failures \cup {f}
  BY DEF f
<1>9. IsFiniteSet(failures') /\ Cardinality(failures') = Cardinality(failures) + 1
  BY <1>1, <1>3, <1>8, FS_AddElement
<1>10. \A g \in failures' : g.n \in Nat /\ g.n < Cardinality(failures')
  <2>1. \A g \in failures : g.n \in Nat /\ g.n < Cardinality(failures)
    BY DEF FailuresNumbered
  <2>2. \A n \in Nat : n < Cardinality(failures) + 1 <=> n <= Cardinality(failures)
    BY <1>1
  <2> QED BY <1>1, <1>2, <1>8, <1>9, <2>1, <2>2
<1>11. FailuresNumbered'
  BY <1>1, <1>9, <1>10 DEF FailuresNumbered
<1> QED BY <1>4, <1>7, <1>11

(* No entry counts nothing.                                                *)
LEMMA NoEntryIsHonest ==
  ASSUME FailuresNumbered', NEW k
  PROVE  Honest(k, NoEntry)'
<1> DEFINE since == FailuresSince(k, 0)'
<1>1. since \subseteq failures' /\ IsFiniteSet(failures') /\ clock' \in Nat
  BY DEF FailuresSince, FailuresNumbered
<1>2. Cardinality(since) \in Nat
  BY <1>1, FS_Subset, FS_CardinalityType
<1>3. NoEntry \in ThrottleEntry /\ NoEntry.first = 0 /\ NoEntry.count = 0
  BY DEF NoEntry, ThrottleEntry
<1>4. 0 <= clock' /\ 0 <= Cardinality(since)
  BY <1>1, <1>2
<1> QED BY <1>3, <1>4 DEF Honest

(* No failure, no entry, no call.                                          *)
LEMMA LoginsInitHolds == LoginsInit => LoginsInv
<1> SUFFICES ASSUME LoginsInit PROVE LoginsInv
  OBVIOUS
<1>1. FailuresNumbered
  BY FS_EmptySet DEF LoginsInit, FailuresNumbered
<1>2. ASSUME NEW k PROVE Honest(k, NoEntry)
  <2>1. Cardinality(FailuresSince(k, 0)) \in Nat
    BY <1>1, FailuresSinceFinite DEF FailuresNumbered
  <2> QED BY <1>1, <2>1 DEF Honest, NoEntry, ThrottleEntry, FailuresNumbered
<1>3. CallHonest(NoLogin) /\ NoEntry \in ThrottleEntry
  BY DEF CallHonest, NoLogin, LoginCallType, LoginPcs, NoEntry, ThrottleEntry
<1>4. NoLogin \in LoginCallType
  BY <1>3 DEF CallHonest
<1> QED BY <1>1, <1>2, <1>3, <1>4 DEF LoginsInit, LoginsInv

(* A step of one login, on one key.                                        *)
LEMMA LoginStepHolds ==
  ASSUME LoginsInv, FailuresNumbered', clock <= clock', failures \subseteq failures',
         NEW c \in LoginCalls, NEW k \in Keys, NEW entry, NEW call,
         throttle' = throttle \/ (throttle' = [throttle EXCEPT ![k] = entry] /\ Honest(k, entry)'),
         \/ loginCalls' = loginCalls
         \/ loginCalls' = [loginCalls EXCEPT ![c] = call] /\ CallHonest(call)'
  PROVE  LoginsInv'
<1>1. ASSUME NEW j, NEW e, Honest(j, e) PROVE Honest(j, e)'
  BY <1>1, HonestStays DEF LoginsInv
<1>2. throttle' \in [Keys -> ThrottleEntry] /\ \A j \in Keys : Honest(j, throttle[j])'
  <2>1. throttle \in [Keys -> ThrottleEntry] /\ \A j \in Keys : Honest(j, throttle[j])
    BY DEF LoginsInv
  <2>2. throttle' \in [Keys -> ThrottleEntry]
    BY <2>1 DEF Honest
  <2>3. ASSUME NEW j \in Keys PROVE Honest(j, throttle[j])'
    <3>1. PICK e : e = throttle'[j]
      OBVIOUS
    <3>2. Honest(j, e) \/ Honest(j, e)'
      BY <2>1, <3>1
    <3>3. Honest(j, e)'
      BY <1>1, <3>2
    <3> QED BY <3>1, <3>3 DEF Honest
  <2> QED BY <2>2, <2>3
<1>3. ASSUME NEW d, CallHonest(d) PROVE CallHonest(d)'
  BY <1>1, <1>3 DEF CallHonest
<1>4. loginCalls' \in [LoginCalls -> LoginCallType] /\ \A d \in LoginCalls : CallHonest(loginCalls[d])'
  <2>1. loginCalls \in [LoginCalls -> LoginCallType]
        /\ \A d \in LoginCalls : CallHonest(loginCalls[d])
    BY DEF LoginsInv
  <2>2. loginCalls' \in [LoginCalls -> LoginCallType]
    BY <2>1 DEF CallHonest
  <2>3. ASSUME NEW d \in LoginCalls PROVE CallHonest(loginCalls[d])'
    <3>1. PICK e : e = loginCalls'[d]
      OBVIOUS
    <3>2. CallHonest(e) \/ CallHonest(e)'
      BY <2>1, <3>1
    <3>3. CallHonest(e)'
      BY <1>3, <3>2
    <3> QED BY <3>1, <3>3 DEF CallHonest, Honest
  <2> QED BY <2>2, <2>3
<1> QED BY <1>2, <1>4 DEF LoginsInv

(* Both halves of recordFailure, on one key.                               *)
LEMMA RecordingHolds ==
  ASSUME LoginsInv, NEW c \in LoginCalls, failLogin(c)
  PROVE  LoginsInv'
<1>a. PICK call \in LoginCallType : call = loginCalls[c]
  BY DEF LoginsInv
<1>0. /\ call = loginCalls[c] /\ call \in LoginCallType /\ CallHonest(call)
      /\ loginCalls \in [LoginCalls -> LoginCallType] /\ throttle \in [Keys -> ThrottleEntry]
      /\ \A k \in Keys : Honest(k, throttle[k])
      /\ FailuresNumbered /\ clock \in Nat
  BY <1>a DEF LoginsInv, FailuresNumbered
<1>1. UNCHANGED clock
  BY DEF failLogin
<1>b. clock <= clock /\ \A n \in Nat : 0 <= n
  <2>1. clock \in Nat
    BY <1>0
  <2> QED BY <2>1
<1>2. ASSUME NEW k \in Keys, NEW next \in {"store email", "store ip"}, Load(c, k, next),
             call.email \in Emails, next = "store email" => k = call.email,
             next = "store ip" => k = IP
      PROVE  LoginsInv'
  <2>1. PICK e : e = IF throttle[k].none THEN Entry(clock, 0) ELSE throttle[k]
    OBVIOUS
  <2>2. Honest(k, e) /\ e \in ThrottleEntry
    <3>1. Cardinality(FailuresSince(k, clock)) \in Nat
      BY <1>0, FailuresSinceFinite DEF FailuresNumbered
    <3>2. Entry(clock, 0) \in ThrottleEntry /\ Entry(clock, 0).first = clock
          /\ Entry(clock, 0).count = 0
      BY <1>0 DEF Entry, ThrottleEntry
    <3>3. clock <= clock /\ 0 <= Cardinality(FailuresSince(k, clock))
      BY <1>b, <3>1, Zenon
    <3>4. Honest(k, Entry(clock, 0))
      BY <3>2, <3>3 DEF Honest
    <3>5. Honest(k, e)
      BY <1>0, <2>1, <3>4
    <3> QED BY <3>5 DEF Honest
  <2>3. FailuresNumbered' /\ failures' = failures /\ clock <= clock'
    <3>1. failures' = failures /\ clock' = clock
      BY <1>1, <1>2 DEF Load
    <3>2. clock <= clock'
      BY <1>b, <3>1
    <3> QED BY <1>0, <3>1, <3>2 DEF FailuresNumbered
  <2>4. Honest(k, e)'
    BY <1>0, <2>2, <2>3, HonestStays
  <2> DEFINE new == [call EXCEPT !.pc = next, !.held = e]
  <2>5. /\ new \in LoginCallType /\ new.pc = next /\ new.held = e /\ new.email = call.email
    BY <1>0, <2>2 DEF LoginCallType, LoginPcs
  <2>6. loginCalls' = [loginCalls EXCEPT ![c] = new] /\ throttle' = [throttle EXCEPT ![k] = e]
    BY <1>0, <1>2, <2>1 DEF Load
  <2> HIDE DEF new
  <2>7. CallHonest(new)'
    BY <1>2, <2>4, <2>5 DEF CallHonest
  <2> QED BY <2>3, <2>4, <2>6, <2>7, LoginStepHolds
<1>3. ASSUME NEW k \in Keys, Store(c, k), Honest(k, call.held),
             NEW new, loginCalls' = [loginCalls EXCEPT ![c] = new],
             new \in LoginCallType, new.pc \in {"idle", "load ip"},
             new.pc # "idle" => new.email \in Emails
      PROVE  LoginsInv'
  <2>1. PICK e : e = Counted(call.held)
    OBVIOUS
  <2>2. /\ call.held \in ThrottleEntry /\ call.held.first \in Nat /\ call.held.count \in Nat
        /\ call.held.first <= clock
        /\ call.held.count <= Cardinality(FailuresSince(k, call.held.first))
    BY <1>3 DEF Honest, ThrottleEntry
  <2>3. failures' = failures \cup {[key |-> k, at |-> clock, n |-> Cardinality(failures)]}
    BY <1>3 DEF Store
  <2>4. ASSUME NEW t \in Nat, t <= clock
        PROVE  /\ Cardinality(FailuresSince(k, t)) \in Nat
               /\ Cardinality(FailuresSince(k, t))' = Cardinality(FailuresSince(k, t)) + 1
               /\ FailuresNumbered'
    BY <1>0, <1>1, <2>3, <2>4, FailureCounts, FailuresSinceFinite DEF FailuresNumbered
  <2>5. e = Entry(clock, 1) \/ e = Entry(call.held.first, call.held.count + 1)
    BY <2>1 DEF Counted
  <2>6. Honest(k, e)'
    <3>1. CASE e = Entry(clock, 1)
      <4>1. PICK t \in Nat : t = clock
        BY <1>0
      <4>2. t <= clock
        BY <4>1, <1>0
      <4>3. Cardinality(FailuresSince(k, t))' >= 1
        BY <2>4, <4>2
      <4>4. e.first = t /\ e.count = 1 /\ e \in ThrottleEntry
        BY <3>1, <4>1 DEF Entry, ThrottleEntry
      <4> QED BY <1>1, <4>1, <4>2, <4>3, <4>4 DEF Honest
    <3>2. CASE e = Entry(call.held.first, call.held.count + 1)
      <4>1. e.first = call.held.first /\ e.count = call.held.count + 1 /\ e \in ThrottleEntry
        BY <2>2, <3>2 DEF Entry, ThrottleEntry
      <4>2. e.count <= Cardinality(FailuresSince(k, e.first))'
        BY <2>2, <2>4, <4>1
      <4> QED BY <1>0, <1>1, <2>2, <4>1, <4>2 DEF Honest
    <3> QED BY <2>5, <3>1, <3>2
  <2>7. FailuresNumbered' /\ failures \subseteq failures' /\ clock <= clock'
    BY <1>0, <1>1, <2>2, <2>3, <2>4
  <2>8. CallHonest(new)'
    BY <1>3 DEF CallHonest
  <2>9. throttle' = [throttle EXCEPT ![k] = e]
    BY <1>0, <1>3, <2>1 DEF Store
  <2> QED BY <1>3, <2>6, <2>7, <2>8, <2>9, LoginStepHolds
<1>4. CASE recordFailure(c, call.email, "load email", "store email", "load ip")
  <2>1. call.pc \in {"load email", "store email"} /\ call.email \in Emails /\ call.email \in Keys
    BY <1>0, <1>4 DEF recordFailure, CallHonest, Keys
  <2>2. CASE call.pc = "load email"
    <3>1. Load(c, call.email, "store email")
      BY <1>0, <1>4, <2>2 DEF recordFailure
    <3> QED BY <1>2, <2>1, <3>1
  <2>3. CASE call.pc = "store email"
    <3> DEFINE new == [call EXCEPT !.pc = "load ip", !.held = NoEntry]
    <3>1. Store(c, call.email)
      BY <1>0, <1>4, <2>3 DEF recordFailure
    <3>2. new \in LoginCallType /\ new.pc = "load ip" /\ new.email = call.email
      BY <1>0 DEF LoginCallType, LoginPcs, NoEntry, ThrottleEntry
    <3>3. loginCalls' = [loginCalls EXCEPT ![c] = new]
      BY <1>0, <1>4, <2>3 DEF recordFailure
    <3>4. Honest(call.email, call.held)
      BY <1>0, <2>3 DEF CallHonest
    <3> HIDE DEF new
    <3> QED BY <1>3, <2>1, <3>1, <3>2, <3>3, <3>4
  <2> QED BY <2>1, <2>2, <2>3
<1>5. CASE recordFailure(c, IP, "load ip", "store ip", "idle")
  <2>1. call.pc \in {"load ip", "store ip"} /\ call.email \in Emails /\ IP \in Keys
    BY <1>0, <1>5 DEF recordFailure, CallHonest, Keys
  <2>2. CASE call.pc = "load ip"
    <3>1. Load(c, IP, "store ip")
      BY <1>0, <1>5, <2>2 DEF recordFailure
    <3> QED BY <1>2, <2>1, <3>1
  <2>3. CASE call.pc = "store ip"
    <3>1. Store(c, IP) /\ loginCalls' = [loginCalls EXCEPT ![c] = NoLogin]
      BY <1>0, <1>5, <2>3 DEF recordFailure, Answer
    <3>2. NoLogin \in LoginCallType /\ NoLogin.pc = "idle"
      BY DEF NoLogin, LoginCallType, LoginPcs, NoEntry, ThrottleEntry
    <3>3. Honest(IP, call.held)
      BY <1>0, <2>3 DEF CallHonest
    <3> QED BY <1>3, <2>1, <3>1, <3>2, <3>3
  <2> QED BY <2>1, <2>2, <2>3
<1> QED BY <1>0, <1>4, <1>5 DEF failLogin

(* Any other step of a login forgets what it holds or an entry.            *)
LEMMA LoginHolds ==
  ASSUME LoginsInv, NEW c \in LoginCalls, login(c) \/ Login(c) \/ LoginSucceeds(c)
  PROVE  LoginsInv'
<1>a. PICK call \in LoginCallType : call = loginCalls[c]
  BY DEF LoginsInv
<1>0. /\ call = loginCalls[c] /\ call \in LoginCallType /\ CallHonest(call)
      /\ loginCalls \in [LoginCalls -> LoginCallType] /\ throttle \in [Keys -> ThrottleEntry]
      /\ FailuresNumbered /\ clock \in Nat
  BY <1>a DEF LoginsInv, FailuresNumbered
<1>1. FailuresNumbered' /\ failures \subseteq failures' /\ clock <= clock'
  <2>1. failures' = failures /\ clock' = clock
    BY DEF login, Login, LoginSucceeds
  <2>2. clock <= clock'
    BY <1>0, <2>1
  <2> QED BY <1>0, <2>1, <2>2 DEF FailuresNumbered
<1>2. ASSUME NEW k PROVE Honest(k, NoEntry)'
  BY <1>1, NoEntryIsHonest
<1>3. ASSUME NEW pc \in {"admitted", "load email", "session", "clear email", "clear ip"},
             NEW d \in LoginCallType, d.email \in Emails,
             loginCalls' = [loginCalls EXCEPT ![c] = [d EXCEPT !.pc = pc]],
             throttle' = throttle
             \/ \E k \in Keys : throttle' = [throttle EXCEPT ![k] = NoEntry]
      PROVE  LoginsInv'
  <2> DEFINE new == [d EXCEPT !.pc = pc]
  <2>1. new \in LoginCallType /\ new.pc = pc /\ new.email \in Emails
    BY <1>3 DEF LoginCallType, LoginPcs
  <2>2. loginCalls' = [loginCalls EXCEPT ![c] = new]
    BY <1>3
  <2> HIDE DEF new
  <2>3. CallHonest(new)'
    BY <1>3, <2>1 DEF CallHonest
  <2>4. IP \in Keys
    BY DEF Keys
  <2> QED BY <1>1, <1>2, <1>3, <2>2, <2>3, <2>4, LoginStepHolds
<1>4. ASSUME Answer(c),
             throttle' = throttle \/ throttle' = [throttle EXCEPT ![IP] = NoEntry]
      PROVE  LoginsInv'
  <2>1. CallHonest(NoLogin)'
    BY DEF CallHonest, NoLogin, LoginCallType, LoginPcs, NoEntry, ThrottleEntry
  <2>2. IP \in Keys
    BY DEF Keys
  <2> QED BY <1>1, <1>2, <1>4, <2>1, <2>2, LoginStepHolds DEF Answer
<1>5. CASE login(c)
  <2>1. PICK e \in Emails :
          loginCalls' = [loginCalls EXCEPT ![c] = [NoLogin EXCEPT !.pc = "admitted", !.email = e]]
    BY <1>5 DEF login
  <2> DEFINE d == [NoLogin EXCEPT !.email = e]
  <2>2. d \in LoginCallType /\ d.email \in Emails
    BY DEF NoLogin, LoginCallType, LoginPcs, NoEntry, ThrottleEntry
  <2>3. [NoLogin EXCEPT !.pc = "admitted", !.email = e] = [d EXCEPT !.pc = "admitted"]
    BY DEF NoLogin
  <2>4. loginCalls' = [loginCalls EXCEPT ![c] = [d EXCEPT !.pc = "admitted"]] /\ throttle' = throttle
    BY <1>5, <2>1, <2>3 DEF login
  <2> HIDE DEF d
  <2> QED BY <1>3, <2>2, <2>4
<1>6. CASE Login(c) \/ LoginSucceeds(c)
  <2>1. call.email \in Emails /\ call.email \in Keys
    BY <1>0, <1>6 DEF CallHonest, Login, LoginSucceeds, Keys
  <2>2. ASSUME NEW pc \in {"load email", "session", "clear email", "clear ip"}, At(c, pc)
        PROVE  loginCalls' = [loginCalls EXCEPT ![c] = [call EXCEPT !.pc = pc]]
    BY <1>0, <2>2 DEF At
  <2>3. CASE Login(c)
    BY <1>3, <1>4, <1>0, <2>1, <2>2, <2>3 DEF Login
  <2>4. CASE LoginSucceeds(c)
    BY <1>3, <1>4, <1>0, <2>1, <2>2, <2>4 DEF LoginSucceeds
  <2> QED BY <1>6, <2>3, <2>4
<1> QED BY <1>5, <1>6

(* Time, an approval, a logout and a restart are no failure.               *)
LEMMA LoginsStepHolds == LoginsInv /\ [LoginsNext]_loginVars => LoginsInv'
<1> SUFFICES ASSUME LoginsInv, [LoginsNext]_loginVars PROVE LoginsInv'
  OBVIOUS
<1>0. /\ FailuresNumbered /\ throttle \in [Keys -> ThrottleEntry]
      /\ \A k \in Keys : Honest(k, throttle[k])
      /\ loginCalls \in [LoginCalls -> LoginCallType]
      /\ \A c \in LoginCalls : CallHonest(loginCalls[c])
      /\ clock \in Nat
  BY DEF LoginsInv, FailuresNumbered
<1>1. ASSUME UNCHANGED <<throttle, failures, loginCalls>>, clock' \in {clock, clock + 1}
      PROVE  LoginsInv'
  <2>1. FailuresNumbered' /\ clock <= clock' /\ failures' = failures
    BY <1>0, <1>1 DEF FailuresNumbered
  <2>2. ASSUME NEW k, NEW e, Honest(k, e) PROVE Honest(k, e)'
    BY <1>0, <2>1, <2>2, HonestStays
  <2>3. ASSUME NEW d, CallHonest(d) PROVE CallHonest(d)'
    BY <2>2, <2>3 DEF CallHonest
  <2>4. ASSUME NEW k \in Keys PROVE Honest(k, throttle[k])'
    <3>1. PICK e : e = throttle[k]
      OBVIOUS
    <3>2. Honest(k, e)'
      BY <1>0, <2>2, <3>1
    <3> QED BY <1>1, <3>1, <3>2 DEF Honest
  <2>5. ASSUME NEW c \in LoginCalls PROVE CallHonest(loginCalls[c])'
    <3>1. PICK d : d = loginCalls[c]
      OBVIOUS
    <3>2. CallHonest(d)'
      BY <1>0, <2>3, <3>1
    <3> QED BY <1>1, <3>1, <3>2 DEF CallHonest, Honest
  <2> QED BY <1>0, <1>1, <2>1, <2>4, <2>5 DEF LoginsInv
<1>2. CASE AuthRestarts
  <2>1. FailuresNumbered'
    BY <1>0, <1>2 DEF AuthRestarts, FailuresNumbered
  <2>2. ASSUME NEW k PROVE Honest(k, NoEntry)'
    BY <2>1, NoEntryIsHonest
  <2>3. NoEntry \in ThrottleEntry /\ NoLogin \in LoginCallType /\ CallHonest(NoLogin)'
    BY DEF CallHonest, NoLogin, LoginCallType, LoginPcs, NoEntry, ThrottleEntry
  <2>4. throttle' = [k \in Keys |-> NoEntry] /\ loginCalls' = [c \in LoginCalls |-> NoLogin]
    BY <1>2 DEF AuthRestarts
  <2>5. \A k \in Keys : Honest(k, throttle[k])'
    BY <2>2, <2>4 DEF Honest
  <2>6. \A c \in LoginCalls : CallHonest(loginCalls[c])'
    BY <2>3, <2>4 DEF CallHonest, Honest
  <2> QED BY <2>1, <2>3, <2>4, <2>5, <2>6 DEF LoginsInv
<1>3. CASE Tick \/ Approve \/ logout \/ UNCHANGED loginVars
  BY <1>1, <1>3 DEF Tick, Approve, logout, loginVars
<1> QED BY <1>2, <1>3, LoginHolds, RecordingHolds DEF LoginsNext

(* No counter of the throttle counts a failure that did not happen since   *)
(* its window opened, however many logins load, store and clear side by    *)
(* side: nobody is kept out by failures nobody made.                       *)
THEOREM ThrottleIsHonest == LoginsSpec => []CountsAreFailures
<1>1. LoginsInv => CountsAreFailures
  BY DEF LoginsInv, CallHonest, Honest, CountsAreFailures
<1> QED BY LoginsInitHolds, LoginsStepHolds, <1>1, PTL DEF LoginsSpec

-----------------------------------------------------------------------------
(* The last owner.                                                         *)

MemberTypes ==
  /\ memberRole \in [People -> Roles \cup {NotAMember}]
  /\ memberCalls \in [MemberCalls -> MemberCall]
  /\ memberFaults \in Nat
  /\ \A c \in MemberCalls : memberCalls[c].pc = "set" => memberCalls[c].role \in Roles

(* A request that has been alone all along still is.                       *)
AloneMeansAlone ==
  \A c \in MemberCalls : memberCalls[c].alone =>
    \A d \in MemberCalls \ {c} : memberCalls[d].pc = "idle"

(* What such a request is about to delete leaves an owner.                 *)
DeletionsLeaveAnOwner ==
  memberFaults = 0 /\ ~memberRaced =>
    \A c \in MemberCalls : memberCalls[c].pc = "delete" /\ memberCalls[c].alone =>
      \E o \in Owners : o # memberCalls[c].target

MembersInv == MemberTypes /\ AloneMeansAlone /\ DeletionsLeaveAnOwner /\ DemotionsKeepAnOwner

(* A workspace starts with an owner and no request.                        *)
LEMMA MembersInitHolds == MembersInit => MembersInv
<1> SUFFICES ASSUME MembersInit PROVE MembersInv
  OBVIOUS
<1>1. MemberTypes /\ AloneMeansAlone /\ DeletionsLeaveAnOwner
  BY DEF MembersInit, MemberTypes, AloneMeansAlone, DeletionsLeaveAnOwner, Waiting, MemberCall,
         Roles
<1>2. Owners # {}
  BY DEF MembersInit, Owners
<1> QED BY <1>1, <1>2 DEF MembersInv, DemotionsKeepAnOwner

(* Two owners are one besides any member, none is no owner.                *)
LEMMA CountingOwners ==
  /\ OwnerCount # 0 => Owners # {}
  /\ \A m : ~(OwnerCount <= 1) => \E o \in Owners : o # m
<1>1. Cardinality({}) = 0
  BY FS_EmptySet
<1>2. \A m : Cardinality({m}) = 1
  BY FS_Singleton
<1>3. ASSUME NEW m, ~\E o \in Owners : o # m PROVE OwnerCount <= 1
  <2>1. Owners = {} \/ Owners = {m}
    BY <1>3
  <2>2. OwnerCount = 0 \/ OwnerCount = 1
    BY <1>1, <1>2, <2>1 DEF OwnerCount
  <2> QED BY <2>2
<1> QED BY <1>1, <1>3 DEF OwnerCount

(* A request arrives; the others are no longer alone.                      *)
LEMMA OpeningHolds ==
  ASSUME MembersInv, NEW c \in MemberCalls, NEW first \in {"set", "list"},
         NEW m \in People \cup {NoRow}, NEW r \in Roles \cup {NotAMember},
         first = "set" => r \in Roles, Open(c, first, m, r)
  PROVE  MembersInv'
<1>1. MemberTypes'
  BY DEF MembersInv, MemberTypes, Open, MemberCall
<1>2. AloneMeansAlone'
  BY DEF MembersInv, MemberTypes, AloneMeansAlone, Open, MemberCall
<1>3. DeletionsLeaveAnOwner'
  BY DEF MembersInv, MemberTypes, DeletionsLeaveAnOwner, Open, MemberCall
<1>4. DemotionsKeepAnOwner'
  BY DEF MembersInv, MemberTypes, DemotionsKeepAnOwner, Open, MemberCall, Owners, ListedRole
<1> QED BY <1>1, <1>2, <1>3, <1>4 DEF MembersInv

(* A step of a request that moves on or ends.                              *)
LEMMA MemberStepHolds ==
  ASSUME MembersInv, NEW c \in MemberCalls, NEW new \in MemberCall,
         memberCalls' = [memberCalls EXCEPT ![c] = new],
         memberCalls[c].pc # "idle", new.alone => memberCalls[c].alone, new.pc # "set",
         memberRole' \in [People -> Roles \cup {NotAMember}], memberFaults' \in Nat
  PROVE  MemberTypes' /\ AloneMeansAlone'
<1>1. MemberTypes'
  BY DEF MembersInv, MemberTypes
<1>2. AloneMeansAlone'
  BY DEF MembersInv, MemberTypes, AloneMeansAlone
<1> QED BY <1>1, <1>2

(* A role is written: nobody is alone but the writer, and nobody loses her *)
(* row.                                                                    *)
LEMMA SettingHolds ==
  ASSUME MembersInv, NEW c \in MemberCalls, NEW new \in MemberCall,
         NEW m \in People \cup {NoRow}, NEW r \in Roles, SetRole(m, r),
         memberCalls' = [memberCalls EXCEPT ![c] = new],
         memberCalls[c].pc # "idle", new.alone => memberCalls[c].alone,
         new.pc \notin {"set", "delete"},
         UNCHANGED <<memberFaults, memberRaced>>,
         \/ r = "owner"
         \/ new.pc = "count" /\ new.target = m
         \/ ListedRole(m) = NotAMember /\ memberCalls[c].pc = "set",
         memberCalls[c].pc \in {"count", "restore"} => r = "owner" /\ m = memberCalls[c].target
  PROVE  MembersInv'
<1>0. MemberTypes /\ AloneMeansAlone /\ memberRole \in [People -> Roles \cup {NotAMember}]
      /\ memberCalls \in [MemberCalls -> MemberCall]
  BY DEF MembersInv, MemberTypes
<1>1. memberRole' \in [People -> Roles \cup {NotAMember}]
  BY <1>0 DEF SetRole
<1>2. MemberTypes' /\ AloneMeansAlone'
  BY <1>0, <1>1, MemberStepHolds DEF MembersInv, MemberTypes
<1>3. DeletionsLeaveAnOwner'
  <2>1. \A d \in MemberCalls : ~(memberCalls'[d].pc = "delete" /\ memberCalls'[d].alone)
    BY <1>0 DEF AloneMeansAlone
  <2> QED BY <2>1 DEF DeletionsLeaveAnOwner
<1>4. DemotionsKeepAnOwner'
  <2> SUFFICES ASSUME memberFaults' = 0, ~memberRaced', Owners' = {}
               PROVE  \E d \in MemberCalls : /\ memberCalls'[d].pc \in {"count", "restore"}
                                             /\ ListedRole(memberCalls[d].target)' # NotAMember
    BY DEF DemotionsKeepAnOwner
  <2>1. \A n \in People : memberRole'[n] # "owner" /\ (memberRole[n] # NotAMember => memberRole'[n] # NotAMember)
    BY <1>0 DEF Owners, SetRole, Roles, NotAMember
  <2>2. ListedRole(m) = NotAMember \/ (m \in People /\ memberRole'[m] = r /\ r # NotAMember)
    <3>1. m \in People /\ memberRole[m] # NotAMember => memberRole'[m] = r
      BY <1>0 DEF SetRole
    <3>2. r # NotAMember
      BY DEF Roles, NotAMember
    <3>3. CASE m \in People
      BY <3>1, <3>2, <3>3 DEF ListedRole
    <3>4. CASE m \notin People
      BY <3>4 DEF ListedRole
    <3> QED BY <3>3, <3>4
  <2>3. CASE ListedRole(m) # NotAMember
    <3>1. new.pc = "count" /\ new.target = m /\ memberCalls'[c] = new
      BY <1>0, <2>1, <2>2, <2>3
    <3>2. ListedRole(memberCalls[c].target)' # NotAMember
      BY <2>2, <2>3, <3>1 DEF ListedRole
    <3> QED BY <3>1, <3>2
  <2>4. CASE ListedRole(m) = NotAMember
    <3>1. Owners = {}
      BY <2>4, <1>0, <2>1 DEF Owners, ListedRole, SetRole, NotAMember
    <3>2. PICK d \in MemberCalls : /\ memberCalls[d].pc \in {"count", "restore"}
                                   /\ ListedRole(memberCalls[d].target) # NotAMember
      BY <3>1 DEF MembersInv, DemotionsKeepAnOwner
    <3>3. d # c
      BY <2>4, <3>2
    <3>4. memberCalls'[d] = memberCalls[d]
      BY <1>0, <3>3
    <3>5. ListedRole(memberCalls[d].target)' # NotAMember
      BY <2>1, <3>2, <3>4 DEF ListedRole
    <3> QED BY <3>2, <3>4, <3>5
  <2> QED BY <2>3, <2>4
<1> QED BY <1>2, <1>3, <1>4 DEF MembersInv

(* Nothing is written: the request still guards what it guarded.           *)
LEMMA ReadingHolds ==
  ASSUME MembersInv, NEW c \in MemberCalls, NEW new \in MemberCall,
         memberCalls' = [memberCalls EXCEPT ![c] = new],
         memberCalls[c].pc # "idle", new.alone => memberCalls[c].alone, new.pc # "set",
         UNCHANGED <<memberRole, memberRaced>>, memberFaults' \in Nat,
         memberFaults' = 0 => memberFaults = 0,
         memberFaults' = 0 /\ memberCalls[c].pc \in {"count", "restore"} =>
           Owners # {} \/ (new.pc \in {"count", "restore"} /\ new.target = memberCalls[c].target),
         memberFaults' = 0 /\ ~memberRaced /\ new.pc = "delete" /\ new.alone =>
           \E o \in Owners : o # new.target
  PROVE  MembersInv'
<1>0. MemberTypes /\ memberRole \in [People -> Roles \cup {NotAMember}]
      /\ memberCalls \in [MemberCalls -> MemberCall]
  BY DEF MembersInv, MemberTypes
<1>1. MemberTypes' /\ AloneMeansAlone'
  BY <1>0, MemberStepHolds
<1>2. Owners' = Owners /\ \A m : ListedRole(m)' = ListedRole(m)
  BY DEF Owners, ListedRole
<1>3. DeletionsLeaveAnOwner'
  BY <1>0, <1>2 DEF MembersInv, DeletionsLeaveAnOwner
<1>4. DemotionsKeepAnOwner'
  <2> SUFFICES ASSUME memberFaults' = 0, ~memberRaced', Owners' = {}
               PROVE  \E d \in MemberCalls : /\ memberCalls'[d].pc \in {"count", "restore"}
                                             /\ ListedRole(memberCalls[d].target)' # NotAMember
    BY DEF DemotionsKeepAnOwner
  <2>1. PICK d \in MemberCalls : /\ memberCalls[d].pc \in {"count", "restore"}
                                 /\ ListedRole(memberCalls[d].target) # NotAMember
    BY <1>2 DEF MembersInv, DemotionsKeepAnOwner
  <2>2. memberCalls'[d].pc \in {"count", "restore"} /\ memberCalls'[d].target = memberCalls[d].target
    BY <1>0, <1>2, <2>1
  <2>3. ListedRole(memberCalls[d].target)' # NotAMember
    BY <2>1, <2>2 DEF ListedRole
  <2> QED BY <2>2, <2>3
<1> QED BY <1>1, <1>3, <1>4 DEF MembersInv

(* The steps of a change of role.                                          *)
LEMMA UpdatingHolds ==
  ASSUME MembersInv, NEW c \in MemberCalls, UpdateRole(c)
  PROVE  MembersInv'
<1>a. PICK call \in MemberCall : call = memberCalls[c]
  BY DEF MembersInv, MemberTypes
<1>0. /\ call = memberCalls[c] /\ memberCalls \in [MemberCalls -> MemberCall]
      /\ memberFaults \in Nat
      /\ call.pc = "set" => call.role \in Roles
      /\ call.target \in People \cup {NoRow}
  BY <1>a DEF MembersInv, MemberTypes, MemberCall
<1>1. UNCHANGED <<memberFaults, memberRaced>> /\ memberFaults' \in Nat
  BY <1>0 DEF UpdateRole
<1>2. Waiting \in MemberCall /\ Waiting.pc = "idle" /\ ~Waiting.alone
  BY DEF Waiting, MemberCall
<1>3. ASSUME NEW pc \in {"count", "restore"}
      PROVE  /\ [call EXCEPT !.pc = pc] \in MemberCall
             /\ [call EXCEPT !.pc = pc].pc = pc
             /\ [call EXCEPT !.pc = pc].target = call.target
             /\ [call EXCEPT !.pc = pc].alone = call.alone
             /\ Goto(c, pc) => memberCalls' = [memberCalls EXCEPT ![c] = [call EXCEPT !.pc = pc]]
  BY <1>0 DEF Goto, MemberCall
<1>4. CASE call.pc = "set"
  <2>1. SetRole(call.target, call.role) /\ call.role \in Roles
    BY <1>0, <1>4 DEF UpdateRole
  <2>2. CASE ListedRole(call.target) = NotAMember \/ call.role = "owner"
    <3>1. memberCalls' = [memberCalls EXCEPT ![c] = Waiting]
      BY <1>0, <1>4, <2>2 DEF UpdateRole, Reply
    <3> QED BY <1>0, <1>1, <1>2, <1>4, <2>1, <2>2, <3>1, SettingHolds
  <2>3. CASE ~(ListedRole(call.target) = NotAMember \/ call.role = "owner")
    <3> DEFINE new == [call EXCEPT !.pc = "count"]
    <3>1. /\ memberCalls' = [memberCalls EXCEPT ![c] = new] /\ new \in MemberCall
          /\ new.pc = "count" /\ new.target = call.target /\ new.alone = call.alone
      BY <1>0, <1>3, <1>4, <2>3 DEF UpdateRole
    <3> HIDE DEF new
    <3> QED BY <1>0, <1>1, <1>4, <2>1, <3>1, SettingHolds
  <2> QED BY <2>2, <2>3
<1>5. CASE call.pc = "count"
  <2>1. UNCHANGED memberRole
    BY <1>0, <1>5 DEF UpdateRole
  <2>2. CASE OwnerCount = 0
    <3> DEFINE new == [call EXCEPT !.pc = "restore"]
    <3>1. /\ memberCalls' = [memberCalls EXCEPT ![c] = new] /\ new \in MemberCall
          /\ new.pc = "restore" /\ new.target = call.target /\ new.alone = call.alone
      BY <1>0, <1>3, <1>5, <2>2 DEF UpdateRole
    <3> HIDE DEF new
    <3> QED BY <1>0, <1>1, <1>5, <2>1, <3>1, ReadingHolds
  <2>3. CASE OwnerCount # 0
    <3>1. memberCalls' = [memberCalls EXCEPT ![c] = Waiting]
      BY <1>0, <1>5, <2>3 DEF UpdateRole, Reply
    <3>2. Owners # {}
      BY <2>3, CountingOwners
    <3> QED BY <3>2, <1>0, <1>1, <1>2, <1>5, <2>1, <3>1, ReadingHolds
  <2> QED BY <2>2, <2>3
<1>6. CASE call.pc = "restore"
  <2>1. SetRole(call.target, "owner") /\ memberCalls' = [memberCalls EXCEPT ![c] = Waiting]
    BY <1>0, <1>6 DEF UpdateRole, Reply
  <2>2. "owner" \in Roles
    BY DEF Roles
  <2> QED BY <1>0, <1>1, <1>2, <1>6, <2>1, <2>2, SettingHolds
<1> QED BY <1>0, <1>4, <1>5, <1>6 DEF UpdateRole

(* A row is deleted: by a request that was alone, or the race is recorded. *)
LEMMA DeletingHolds ==
  ASSUME MembersInv, NEW c \in MemberCalls, NEW m, memberCalls[c].target = m,
         memberCalls[c].pc = "delete", DeleteRow(m),
         memberCalls' = [memberCalls EXCEPT ![c] = Waiting],
         memberRaced' = (memberRaced \/ ~memberCalls[c].alone), UNCHANGED memberFaults
  PROVE  MembersInv'
<1>0. MemberTypes /\ memberRole \in [People -> Roles \cup {NotAMember}]
      /\ memberCalls \in [MemberCalls -> MemberCall]
  BY DEF MembersInv, MemberTypes
<1>1. Waiting \in MemberCall /\ Waiting.pc = "idle" /\ ~Waiting.alone
  BY DEF Waiting, MemberCall
<1>2. MemberTypes' /\ AloneMeansAlone'
  <2>1. memberRole' \in [People -> Roles \cup {NotAMember}] /\ memberFaults' \in Nat
    BY <1>0 DEF DeleteRow, MemberTypes
  <2> QED BY <1>1, <2>1, MemberStepHolds
<1>3. DeletionsLeaveAnOwner' /\ DemotionsKeepAnOwner'
  <2> SUFFICES ASSUME memberFaults' = 0, ~memberRaced'
               PROVE  DeletionsLeaveAnOwner' /\ Owners' # {}
    BY DEF DeletionsLeaveAnOwner, DemotionsKeepAnOwner
  <2>1. memberFaults = 0 /\ ~memberRaced /\ memberCalls[c].alone
    <3>1. memberFaults = 0
      OBVIOUS
    <3>2. ~memberRaced /\ memberCalls[c].alone
      BY Zenon
    <3> QED BY <3>1, <3>2
  <2>2. PICK o \in Owners : o # m
    BY <2>1 DEF MembersInv, DeletionsLeaveAnOwner
  <2>3. o \in Owners'
    BY <1>0, <2>2 DEF Owners, DeleteRow
  <2>4. \A d \in MemberCalls : memberCalls'[d].pc = "idle"
    BY <1>0, <1>1, <2>1 DEF MembersInv, AloneMeansAlone
  <2> QED BY <2>3, <2>4 DEF DeletionsLeaveAnOwner
<1> QED BY <1>2, <1>3 DEF MembersInv

(* The steps of a removal.                                                 *)
LEMMA RemovingHolds ==
  ASSUME MembersInv, NEW c \in MemberCalls, Remove(c)
  PROVE  MembersInv'
<1>a. PICK call \in MemberCall : call = memberCalls[c]
  BY DEF MembersInv, MemberTypes
<1>0. /\ call = memberCalls[c] /\ memberCalls \in [MemberCalls -> MemberCall]
      /\ memberFaults \in Nat
      /\ call.target \in People \cup {NoRow}
  BY <1>a DEF MembersInv, MemberTypes, MemberCall
<1>1. UNCHANGED memberFaults /\ memberFaults' \in Nat
  BY <1>0 DEF Remove
<1>2. Waiting \in MemberCall /\ Waiting.pc = "idle" /\ ~Waiting.alone
  BY DEF Waiting, MemberCall
<1>3. ASSUME NEW pc \in {"owners", "delete"}, Goto(c, pc), UNCHANGED <<memberRole, memberRaced>>,
             call.pc \in {"list", "owners"},
             memberFaults' = 0 /\ ~memberRaced /\ pc = "delete" /\ call.alone =>
               \E o \in Owners : o # call.target
      PROVE  MembersInv'
  <2> DEFINE new == [call EXCEPT !.pc = pc]
  <2>1. /\ memberCalls' = [memberCalls EXCEPT ![c] = new] /\ new \in MemberCall
        /\ new.pc = pc /\ new.target = call.target /\ new.alone = call.alone
    BY <1>0, <1>3 DEF Goto, MemberCall
  <2> HIDE DEF new
  <2> QED BY <1>0, <1>1, <1>3, <2>1, ReadingHolds
<1>4. ASSUME Reply(c), UNCHANGED <<memberRole, memberRaced>>, call.pc \in {"list", "owners"}
      PROVE  MembersInv'
  <2>1. memberCalls' = [memberCalls EXCEPT ![c] = Waiting]
    BY <1>4 DEF Reply
  <2> QED BY <1>0, <1>1, <1>2, <1>4, <2>1, ReadingHolds
<1>5. CASE call.pc = "list"
  <2>1. UNCHANGED <<memberRole, memberRaced>>
    BY <1>0, <1>5 DEF Remove
  <2>2. CASE ListedRole(call.target) = NotAMember
    BY <1>0, <1>4, <1>5, <2>1, <2>2 DEF Remove, NotAMember
  <2>3. CASE ListedRole(call.target) = "owner"
    <3>1. Goto(c, "owners")
      BY <1>0, <1>5, <2>3 DEF Remove, NotAMember
    <3> QED BY <1>3, <1>5, <2>1, <3>1
  <2>4. CASE ListedRole(call.target) \notin {NotAMember, "owner"}
    <3>1. Goto(c, "delete")
      BY <1>0, <1>5, <2>4 DEF Remove
    <3>2. ASSUME memberFaults' = 0, ~memberRaced, call.alone
          PROVE  \E o \in Owners : o # call.target
      <4>1. \A d \in MemberCalls : memberCalls[d].pc \notin {"count", "restore"}
        BY <1>0, <1>5, <3>2 DEF MembersInv, AloneMeansAlone
      <4>2. memberFaults = 0
        BY <1>1, <3>2
      <4>3. PICK o : o \in Owners
        BY <3>2, <4>1, <4>2 DEF MembersInv, DemotionsKeepAnOwner
      <4>4. o # call.target
        BY <2>4, <4>3 DEF Owners, ListedRole
      <4> QED BY <4>3, <4>4
    <3> QED BY <1>3, <1>5, <2>1, <3>1, <3>2
  <2> QED BY <2>2, <2>3, <2>4
<1>6. CASE call.pc = "owners"
  <2>1. UNCHANGED <<memberRole, memberRaced>>
    BY <1>0, <1>6 DEF Remove
  <2>2. CASE OwnerCount <= 1
    BY <1>0, <1>4, <1>6, <2>1, <2>2 DEF Remove
  <2>3. CASE ~(OwnerCount <= 1)
    <3>1. Goto(c, "delete")
      BY <1>0, <1>6, <2>3 DEF Remove
    <3>2. \E o \in Owners : o # call.target
      BY <2>3, CountingOwners
    <3> QED BY <1>3, <1>6, <2>1, <3>1, <3>2
  <2> QED BY <2>2, <2>3
<1>7. CASE call.pc = "delete"
  BY <1>0, <1>1, <1>7, DeletingHolds DEF Remove, Reply
<1> QED BY <1>0, <1>5, <1>6, <1>7 DEF Remove

(* Changing roles never loses the last owner, whatever requests run side   *)
(* by side, short of a removal that raced another request or a request     *)
(* that was cut short.                                                     *)
THEOREM LastOwner == MembersSpec => []DemotionsKeepAnOwner
<1>1. MembersInv /\ [MembersNext]_memberVars => MembersInv'
  <2> SUFFICES ASSUME MembersInv, [MembersNext]_memberVars PROVE MembersInv'
    OBVIOUS
  <2>0. MemberTypes /\ memberRole \in [People -> Roles \cup {NotAMember}]
        /\ memberCalls \in [MemberCalls -> MemberCall] /\ memberFaults \in Nat
    BY DEF MembersInv, MemberTypes
  <2>1. CASE Join
    <3>1. PICK m \in People, r \in {"admin", "member"} :
            memberRole[m] = NotAMember /\ memberRole' = [memberRole EXCEPT ![m] = r]
      BY <2>1 DEF Join, Add
    <3>2. UNCHANGED <<memberCalls, memberFaults, memberRaced>>
      BY <2>1 DEF Join
    <3>3. memberRole' \in [People -> Roles \cup {NotAMember}]
      BY <2>0, <3>1 DEF Roles
    <3>4. Owners \subseteq Owners'
      BY <2>0, <3>1 DEF Owners, NotAMember
    <3>5. \A d \in MemberCalls : ListedRole(memberCalls[d].target) # NotAMember =>
            ListedRole(memberCalls[d].target)' # NotAMember
      BY <2>0, <3>1, <3>2 DEF ListedRole, NotAMember
    <3>6. MemberTypes' /\ AloneMeansAlone'
      BY <2>0, <3>2, <3>3 DEF MembersInv, MemberTypes, AloneMeansAlone
    <3>7. DeletionsLeaveAnOwner'
      BY <3>2, <3>4 DEF MembersInv, DeletionsLeaveAnOwner
    <3>8. DemotionsKeepAnOwner'
      BY <3>2, <3>4, <3>5 DEF MembersInv, DemotionsKeepAnOwner
    <3> QED BY <3>6, <3>7, <3>8 DEF MembersInv
  <2>2. ASSUME NEW c \in MemberCalls, MemberFails(c) PROVE MembersInv'
    <3>1. memberFaults' \in Nat /\ memberFaults' # 0
      BY <2>0, <2>2 DEF MemberFails
    <3>2. memberCalls' = [memberCalls EXCEPT ![c] = Waiting] /\ memberCalls[c].pc # "idle"
          /\ UNCHANGED <<memberRole, memberRaced>>
      BY <2>2 DEF MemberFails, Reply
    <3>3. Waiting \in MemberCall /\ Waiting.pc = "idle" /\ ~Waiting.alone
      BY DEF Waiting, MemberCall
    <3> QED BY <3>1, <3>2, <3>3, ReadingHolds
  <2>3. ASSUME NEW c \in MemberCalls, updateMemberRole(c) \/ removeMember(c) PROVE MembersInv'
    <3>1. PICK m \in People \cup {NoRow}, r \in Roles \cup {NotAMember}, first \in {"set", "list"} :
            Open(c, first, m, r) /\ (first = "set" => r \in Roles)
      BY <2>3 DEF updateMemberRole, removeMember
    <3> QED BY <3>1, OpeningHolds
  <2>4. CASE UNCHANGED memberVars
    BY <2>4 DEF memberVars, MembersInv, MemberTypes, AloneMeansAlone, DeletionsLeaveAnOwner,
                DemotionsKeepAnOwner, Owners, ListedRole
  <2> QED BY <2>1, <2>2, <2>3, <2>4, UpdatingHolds, RemovingHolds DEF MembersNext
<1>2. MembersInv => DemotionsKeepAnOwner
  BY DEF MembersInv
<1> QED BY MembersInitHolds, <1>1, <1>2, PTL DEF MembersSpec

-----------------------------------------------------------------------------
(* The types of what Identity keeps.                                       *)

(* A workspace starts with nothing under way.                              *)
LEMMA MembersTypesInit == MembersInit => MembersTypeOK
<1> SUFFICES ASSUME MembersInit PROVE MembersTypeOK
  OBVIOUS
<1>1. Waiting \in MemberCall
  BY DEF MemberCall, Waiting
<1>2. 0 \in 0 .. MaxMemberFaults
  BY MembersAssumption
<1>3. memberRole \in [People -> Roles \cup {NotAMember}]
  BY DEF MembersInit, Roles
<1>4. memberCalls \in [MemberCalls -> MemberCall]
  BY <1>1 DEF MembersInit
<1> QED BY <1>2, <1>3, <1>4 DEF MembersInit, MembersTypeOK

(* Members.  A step of a change, of a removal or of a join.                *)
LEMMA MembersTyped ==
  ASSUME MembersTypeOK, [MembersNext]_memberVars
  PROVE  MembersTypeOK'
<1>0. /\ memberRole \in [People -> Roles \cup {NotAMember}]
      /\ memberCalls \in [MemberCalls -> MemberCall]
      /\ memberFaults \in 0 .. MaxMemberFaults
      /\ memberRaced \in BOOLEAN
      /\ MaxMemberFaults \in Nat
  BY MembersAssumption DEF MembersTypeOK
<1>1. ASSUME NEW c \in MemberCalls, NEW pc \in {"count", "restore", "owners", "delete"}, Goto(c, pc)
      PROVE  memberCalls' \in [MemberCalls -> MemberCall]
  BY <1>0, <1>1 DEF Goto, MemberCall
<1>2. ASSUME NEW c \in MemberCalls, Reply(c)
      PROVE  memberCalls' \in [MemberCalls -> MemberCall]
  BY <1>0, <1>2 DEF Reply, MemberCall, Waiting
<1>3. ASSUME NEW c \in MemberCalls, NEW first \in {"set", "list"}, NEW m \in People \cup {NoRow},
             NEW r \in Roles \cup {NotAMember}, Open(c, first, m, r)
      PROVE  MembersTypeOK'
  <2> DEFINE alone == \A e \in MemberCalls \ {c} : memberCalls[e].pc = "idle"
  <2>1. [pc |-> first, target |-> m, role |-> r, alone |-> alone] \in MemberCall
    BY DEF MemberCall
  <2>2. \A d \in MemberCalls : [memberCalls[d] EXCEPT !.alone = FALSE] \in MemberCall
    BY <1>0 DEF MemberCall
  <2> HIDE DEF alone
  <2>3. memberCalls' = [d \in MemberCalls |->
          IF d = c THEN [pc |-> first, target |-> m, role |-> r, alone |-> alone]
          ELSE [memberCalls[d] EXCEPT !.alone = FALSE]]
    BY <1>3 DEF Open, alone
  <2>4. memberCalls' \in [MemberCalls -> MemberCall]
    BY <2>1, <2>2, <2>3
  <2> QED BY <1>0, <1>3, <2>4 DEF Open, MembersTypeOK
<1>4. ASSUME NEW c \in MemberCalls, UpdateRole(c) PROVE MembersTypeOK'
  <2>1. memberCalls' \in [MemberCalls -> MemberCall]
    BY <1>1, <1>2, <1>4 DEF UpdateRole
  <2>2. memberRole' \in [People -> Roles \cup {NotAMember}]
    <3>1. memberCalls[c].role \in Roles \cup {NotAMember}
      BY <1>0 DEF MemberCall
    <3>2. ASSUME NEW m, NEW r \in Roles \cup {NotAMember}, SetRole(m, r)
          PROVE  memberRole' \in [People -> Roles \cup {NotAMember}]
      BY <1>0, <3>2 DEF SetRole
    <3> QED BY <1>0, <1>4, <3>1, <3>2 DEF UpdateRole, Roles
  <2> QED BY <1>0, <1>4, <2>1, <2>2 DEF UpdateRole, MembersTypeOK
<1>5. ASSUME NEW c \in MemberCalls, Remove(c) PROVE MembersTypeOK'
  <2>1. memberCalls' \in [MemberCalls -> MemberCall]
    BY <1>1, <1>2, <1>5 DEF Remove
  <2>2. memberRole' \in [People -> Roles \cup {NotAMember}]
    BY <1>0, <1>5 DEF Remove, DeleteRow
  <2>3. memberRaced' \in BOOLEAN
    BY <1>0, <1>5 DEF Remove
  <2>4. memberFaults' = memberFaults
    BY <1>5 DEF Remove
  <2> QED BY <1>0, <2>1, <2>2, <2>3, <2>4 DEF MembersTypeOK
<1>6. CASE Join
  BY <1>0, <1>6 DEF Join, Add, Roles, MembersTypeOK
<1>7. ASSUME NEW c \in MemberCalls, MemberFails(c) PROVE MembersTypeOK'
  <2>1. memberCalls' \in [MemberCalls -> MemberCall]
    BY <1>2, <1>7 DEF MemberFails
  <2>2. memberFaults' \in 0 .. MaxMemberFaults
    BY <1>0, <1>7 DEF MemberFails
  <2> QED BY <1>0, <1>7, <2>1, <2>2 DEF MemberFails, MembersTypeOK
<1>8. ASSUME NEW c \in MemberCalls, updateMemberRole(c) \/ removeMember(c) PROVE MembersTypeOK'
  BY <1>3, <1>8 DEF updateMemberRole, removeMember
<1>9. CASE UNCHANGED memberVars
  BY <1>0, <1>9 DEF memberVars, MembersTypeOK
<1> QED BY <1>4, <1>5, <1>6, <1>7, <1>8, <1>9 DEF MembersNext

(* Accounts.  A call that will write its workspace down has one.           *)
CallsPlaced ==
  \A c \in AccountCalls :
    accountCalls[c].pc \in {"insert", "invite.created", "get", "commit"} =>
      accountCalls[c].at \in Workspaces

AccountsTypes == AccountsTypeOK /\ CallsPlaced

(* What a call does next leaves the calls typed and placed.                *)
LEMMA CallsTyped ==
  ASSUME accountCalls \in [AccountCalls -> AccountCall], CallsPlaced, NEW c \in AccountCalls,
         \/ Finish(c)
         \/ \E pc \in {"invite.created", "signup.requested", "commit", "signup.approved",
                       "signup.declined", "charter"} :
              /\ Step(c, pc)
              /\ pc \in {"invite.created", "commit"} => accountCalls[c].at \in Workspaces
         \/ \E pc \in {"insert", "create", "get", "refuse", "found"},
               p \in Applicants \cup {NoOne}, w \in Workspaces \cup {Founder} :
              Receive(c, pc, p, w) /\ (pc \in {"insert", "get"} => w \in Workspaces)
  PROVE  accountCalls' \in [AccountCalls -> AccountCall] /\ CallsPlaced'
<1>1. CASE Finish(c)
  <2>1. NoCall \in AccountCall /\ NoCall.pc = "idle"
    BY DEF NoCall, AccountCall
  <2> QED BY <1>1, <2>1 DEF Finish, CallsPlaced
<1>2. ASSUME NEW pc \in {"invite.created", "signup.requested", "commit", "signup.approved",
                         "signup.declined", "charter"},
             Step(c, pc),
             pc \in {"invite.created", "commit"} => accountCalls[c].at \in Workspaces
      PROVE  accountCalls' \in [AccountCalls -> AccountCall] /\ CallsPlaced'
  <2> DEFINE new == [accountCalls[c] EXCEPT !.pc = pc]
  <2>1. new \in AccountCall /\ new.pc = pc /\ new.at = accountCalls[c].at
    BY DEF AccountCall
  <2>2. accountCalls' = [accountCalls EXCEPT ![c] = new]
    BY <1>2 DEF Step
  <2> HIDE DEF new
  <2> QED BY <1>2, <2>1, <2>2 DEF CallsPlaced
<1>3. ASSUME NEW pc \in {"insert", "create", "get", "refuse", "found"},
             NEW p \in Applicants \cup {NoOne}, NEW w \in Workspaces \cup {Founder},
             Receive(c, pc, p, w), pc \in {"insert", "get"} => w \in Workspaces
      PROVE  accountCalls' \in [AccountCalls -> AccountCall] /\ CallsPlaced'
  <2> DEFINE new == [pc |-> pc, who |-> p, at |-> w]
  <2>1. new \in AccountCall /\ new.pc = pc /\ new.at = w
    BY DEF AccountCall
  <2>2. accountCalls' = [accountCalls EXCEPT ![c] = new]
    BY <1>3 DEF Receive
  <2> HIDE DEF new
  <2> QED BY <1>3, <2>1, <2>2 DEF CallsPlaced
<1> QED BY <1>1, <1>2, <1>3

(* A step of any call leaves the tables typed.                             *)
LEMMA AccountsTyped ==
  ASSUME AccountsTypes, [AccountsNext]_accountVars
  PROVE  AccountsTypes'
<1>0. /\ users \in [Applicants -> {"absent", "inactive", "active"}]
      /\ signups \in [Applicants -> Statuses]
      /\ asked \in [Applicants -> Workspaces \cup {Founder, Nowhere}]
      /\ queue \in [Applicants -> Statuses]
      /\ memberOf \in [Applicants -> SUBSET Workspaces]
      /\ founded \in [Applicants -> 0 .. MaxFounded]
      /\ invites \subseteq Workspaces /\ codes \subseteq Workspaces
      /\ accountCalls \in [AccountCalls -> AccountCall] /\ CallsPlaced
      /\ accountFaults \in 0 .. MaxAccountFaults /\ MaxAccountFaults \in Nat
  BY AccountsAssumption DEF AccountsTypes, AccountsTypeOK
<1>1. ASSUME NEW c \in AccountCalls, Receives(c) PROVE AccountsTypes'
  <2>1. UNCHANGED <<users, signups, asked, queue, memberOf, founded, invites, codes, accountFaults>>
    BY <1>1 DEF Receives, sendInvites, signup, approveRequest, declineRequest, approveOrgRequest
  <2>2. accountCalls' \in [AccountCalls -> AccountCall] /\ CallsPlaced'
    BY <1>0, <1>1, CallsTyped
       DEF Receives, sendInvites, signup, approveRequest, declineRequest, approveOrgRequest
  <2> QED BY <1>0, <2>1, <2>2 DEF AccountsTypes, AccountsTypeOK
<1>2. ASSUME NEW c \in AccountCalls, Handles(c) PROVE AccountsTypes'
  <2>1. accountCalls[c] \in AccountCall
    BY <1>0
  <2>2. accountCalls[c].pc \in {"insert", "invite.created", "get", "commit"} =>
          accountCalls[c].at \in Workspaces
    BY <1>0 DEF CallsPlaced
  <2>3. accountCalls' \in [AccountCalls -> AccountCall] /\ CallsPlaced'
    <3>1. \/ Finish(c)
          \/ \E pc \in {"invite.created", "signup.requested", "commit", "signup.approved",
                        "signup.declined", "charter"} :
               /\ Step(c, pc)
               /\ pc \in {"invite.created", "commit"} => accountCalls[c].at \in Workspaces
      BY <1>2, <2>2 DEF Handles, Publish, SendInvites, HandleInviteCreated, Signup,
         ProjectSignupRequest, ApproveJoinRequest, ApproveOrgRequest, HandleSignupApproved,
         DeclineJoinRequest, HandleSignupDeclined
    <3> QED BY <1>0, <3>1, CallsTyped
  <2>4. users' \in [Applicants -> {"absent", "inactive", "active"}]
    BY <1>0, <1>2 DEF Handles, SendInvites, HandleInviteCreated, Signup, CreateSignup, Activate,
       ProjectSignupRequest, ApproveJoinRequest, ApproveOrgRequest, HandleSignupApproved,
       DeclineJoinRequest, HandleSignupDeclined
  <2>5. signups' \in [Applicants -> Statuses]
    BY <1>0, <1>2 DEF Handles, SendInvites, HandleInviteCreated, Signup, CreateSignup,
       ProjectSignupRequest, ApproveJoinRequest, ApproveOrgRequest, HandleSignupApproved,
       DeclineJoinRequest, HandleSignupDeclined, SetSignupStatus, Statuses
  <2>6. asked' \in [Applicants -> Workspaces \cup {Founder, Nowhere}]
    <3>1. accountCalls[c].at \in Workspaces \cup {Founder, Nowhere}
      BY <2>1 DEF AccountCall
    <3> QED BY <1>0, <1>2, <3>1 DEF Handles, SendInvites, HandleInviteCreated, Signup, CreateSignup,
       ProjectSignupRequest, ApproveJoinRequest, ApproveOrgRequest, HandleSignupApproved,
       DeclineJoinRequest, HandleSignupDeclined
  <2>7. queue' \in [Applicants -> Statuses]
    BY <1>0, <1>2 DEF Handles, SendInvites, HandleInviteCreated, Signup, UpsertRequest,
       ProjectSignupRequest, ApproveJoinRequest, ApproveOrgRequest, HandleSignupApproved,
       DeclineJoinRequest, HandleSignupDeclined, Statuses
  <2>8. memberOf' \in [Applicants -> SUBSET Workspaces]
    BY <1>0, <1>2, <2>2 DEF Handles, SendInvites, HandleInviteCreated, Signup,
       ProjectSignupRequest, ApproveJoinRequest, ApproveOrgRequest, HandleSignupApproved,
       DeclineJoinRequest, HandleSignupDeclined
  <2>9. founded' \in [Applicants -> 0 .. MaxFounded]
    BY <1>0, <1>2 DEF Handles, SendInvites, HandleInviteCreated, Signup, CreateOrganization,
       ProjectSignupRequest, ApproveJoinRequest, ApproveOrgRequest, HandleSignupApproved,
       DeclineJoinRequest, HandleSignupDeclined, MaxFounded
  <2>10. invites' \subseteq Workspaces /\ codes' \subseteq Workspaces
    BY <1>0, <1>2, <2>2 DEF Handles, SendInvites, CreateInvite, HandleInviteCreated, Signup,
       ProjectSignupRequest, ApproveJoinRequest, ApproveOrgRequest, HandleSignupApproved,
       DeclineJoinRequest, HandleSignupDeclined
  <2>11. accountFaults' = accountFaults
    BY <1>2 DEF Handles
  <2> QED BY <1>0, <2>3, <2>4, <2>5, <2>6, <2>7, <2>8, <2>9, <2>10, <2>11
          DEF AccountsTypes, AccountsTypeOK
<1>3. ASSUME NEW c \in AccountCalls, AccountFails(c) PROVE AccountsTypes'
  <2>1. accountCalls' \in [AccountCalls -> AccountCall] /\ CallsPlaced'
    BY <1>0, <1>3, CallsTyped DEF AccountFails
  <2>2. accountFaults' \in 0 .. MaxAccountFaults
    BY <1>0, <1>3 DEF AccountFails
  <2> QED BY <1>0, <1>3, <2>1, <2>2 DEF AccountFails, AccountsTypes, AccountsTypeOK
<1>4. CASE UNCHANGED accountVars
  BY <1>0, <1>4 DEF accountVars, AccountsTypes, AccountsTypeOK, CallsPlaced
<1> QED BY <1>1, <1>2, <1>3, <1>4 DEF AccountsNext

(* Nobody has asked for anything.                                          *)
LEMMA AccountsTypesInit == AccountsInit => AccountsTypes
BY AccountsAssumption
   DEF AccountsInit, AccountsTypes, AccountsTypeOK, CallsPlaced, AccountCall, NoCall, Statuses,
       MaxFounded

(* Provisioning.  A POST is for a workspace, and an organisation is only   *)
(* made together with a workspace.                                         *)
Committed == {w \in WorkspaceIds : wsRows[w] # "absent"}

PostsPlaced ==
  /\ \A c \in Creators : creators[c].pc = "post" => creators[c].ws \in WorkspaceIds
  /\ sweeper.pc = "post" => sweeper.ws \in WorkspaceIds

ProvisioningTypes ==
  ProvisioningInv /\ ProvisioningTypeOK /\ PostsPlaced /\ orgs <= Cardinality(Committed)

(* The sweeper goes on to a workspace of its list.                         *)
LEMMA NextPlaced ==
  ASSUME NEW rest \in SUBSET WorkspaceIds
  PROVE  NextOf(rest).pc = "post" => NextOf(rest).ws \in WorkspaceIds
<1>1. CASE rest = {}
  BY <1>1 DEF NextOf, Ticking
<1>2. CASE rest # {}
  <2>1. (CHOOSE v \in rest : TRUE) \in rest
    BY <1>2
  <2> QED BY <1>2, <2>1 DEF NextOf
<1> QED BY <1>1, <1>2

(* A row that is inserted is one more.                                     *)
LEMMA OneMoreCommitted ==
  ASSUME ProvisioningTypes, NEW w \in WorkspaceIds, NEW withRepo, InsertWorkspace(w, withRepo)
  PROVE  Cardinality(Committed)' = Cardinality(Committed) + 1
<1>1. wsRows \in [WorkspaceIds -> {"absent", "created", "provisioned"}] /\ IsFiniteSet(WorkspaceIds)
  BY ProvisioningAssumption DEF ProvisioningTypes, ProvisioningTypeOK
<1>2. Committed' = Committed \cup {w} /\ w \notin Committed
  BY <1>1 DEF InsertWorkspace, Committed
<1>3. IsFiniteSet(Committed)
  BY <1>1, FS_Subset DEF Committed
<1> HIDE DEF Committed
<1> QED BY <1>2, <1>3, FS_AddElement

(* There are no more workspaces than ids.                                  *)
LEMMA CommittedBounded ==
  /\ Cardinality(Committed) \in Nat /\ Cardinality(WorkspaceIds) \in Nat
  /\ Cardinality(Committed) <= Cardinality(WorkspaceIds)
<1>1. Committed \subseteq WorkspaceIds
  BY DEF Committed
<1> QED BY <1>1, ProvisioningAssumption, FS_Subset, FS_CardinalityType

(* A step of a request, of the sweeper or of a restart keeps the types.    *)
LEMMA ProvisioningTyped ==
  ASSUME ProvisioningTypes, [ProvisioningNext]_provisionVars
  PROVE  ProvisioningTypes'
<1>0. /\ wsRows \in [WorkspaceIds -> {"absent", "created", "provisioned"}]
      /\ orgs \in Nat /\ orgs <= Cardinality(Committed)
      /\ repoOf \subseteq WorkspaceIds /\ bound \subseteq repoOf /\ ruled \subseteq WorkspaceIds
      /\ creators \in [Creators -> CreatorType] /\ sweeper \in SweeperType
      /\ provisionFaults \in 0 .. MaxProvisionFaults /\ MaxProvisionFaults \in Nat
      /\ PostsPlaced
  BY CommittedBounded, ProvisioningAssumption
     DEF ProvisioningTypes, ProvisioningTypeOK, ProvisioningInv
<1> DEFINE BoundAndRuled == /\ bound' \subseteq repoOf' /\ ruled' \subseteq WorkspaceIds
                            /\ provisionFaults' \in 0 .. MaxProvisionFaults
<1>1. ProvisioningInv'
  BY ProvisioningStepHolds DEF ProvisioningTypes
<1>2. ASSUME /\ repoOf' \subseteq WorkspaceIds /\ bound' \subseteq repoOf'
             /\ ruled' \subseteq WorkspaceIds
             /\ provisionFaults' \in 0 .. MaxProvisionFaults,
             orgs' \in Nat /\ orgs' <= Cardinality(Committed'),
             PostsPlaced'
      PROVE  ProvisioningTypes'
  <2>1. Cardinality(Committed') <= Cardinality(WorkspaceIds) /\ Cardinality(Committed') \in Nat
        /\ Cardinality(WorkspaceIds) \in Nat
    <3>1. Committed' \subseteq WorkspaceIds
      BY DEF Committed
    <3> QED BY <3>1, ProvisioningAssumption, FS_Subset, FS_CardinalityType
  <2>2. orgs' \in 0 .. Cardinality(WorkspaceIds)
    BY <1>2, <2>1
  <2> QED BY <1>1, <1>2, <2>2
          DEF ProvisioningTypes, ProvisioningTypeOK, ProvisioningInv, CreatorType, SweeperType
<1>3. ASSUME NEW w \in WorkspaceIds, Confirmed(w) \/ Refused(w), UNCHANGED repoOf
      PROVE  /\ bound' \subseteq repoOf' /\ ruled' \subseteq WorkspaceIds
             /\ provisionFaults' \in 0 .. MaxProvisionFaults
  BY <1>0, <1>3 DEF Confirmed, Refused, provision, BindWorkspace, BootstrapWorkspace, Fault, Goes
<1>4. ASSUME UNCHANGED wsRows \/ \E w : MarkProvisioned(w), UNCHANGED orgs
      PROVE  orgs' \in Nat /\ orgs' <= Cardinality(Committed')
  <2>1. Committed \subseteq Committed' /\ Committed' \subseteq WorkspaceIds
    BY <1>0, <1>4 DEF Committed, MarkProvisioned
  <2>2. Cardinality(Committed) <= Cardinality(Committed') /\ Cardinality(Committed) \in Nat
        /\ Cardinality(Committed') \in Nat
    BY <2>1, ProvisioningAssumption, FS_Subset, FS_CardinalityType
  <2> QED BY <1>0, <1>4, <2>2
<1>5. ASSUME Fault \/ Goes PROVE provisionFaults' \in 0 .. MaxProvisionFaults
  BY <1>0, <1>5 DEF Fault, Goes
<1>6. CASE Run
  <2>1. PostsPlaced'
    <3>1. NextOf(ListUnprovisioned).pc = "post" => NextOf(ListUnprovisioned).ws \in WorkspaceIds
      BY NextPlaced DEF ListUnprovisioned
    <3> QED BY <1>0, <1>6, <3>1 DEF Run, PostsPlaced
  <2>2. Goes /\ UNCHANGED wsRows
    BY <1>6 DEF Run, Goes
  <2> QED BY <1>0, <1>2, <1>4, <1>5, <1>6, <2>1, <2>2 DEF Run
<1>7. CASE sweep
  <2>1. NextOf(sweeper.rest).pc = "post" => NextOf(sweeper.rest).ws \in WorkspaceIds
    BY <1>0, NextPlaced DEF SweeperType
  <2>2. PostsPlaced'
    BY <1>0, <1>7, <2>1 DEF sweep, PostsPlaced, Ticking, SweeperType
  <2>3. BoundAndRuled
    <3>1. UNCHANGED repoOf
      BY <1>7 DEF sweep
    <3>2. ASSUME sweeper.pc = "post", Confirmed(sweeper.ws) \/ Refused(sweeper.ws) PROVE  BoundAndRuled
      BY <1>0, <1>3, <3>1, <3>2 DEF PostsPlaced
    <3>3. CASE UNCHANGED <<bound, ruled>> /\ (Fault \/ Goes)
      BY <1>0, <1>5, <3>1, <3>3
    <3> QED BY <1>7, <3>2, <3>3 DEF sweep
  <2>4. (UNCHANGED wsRows \/ \E w : MarkProvisioned(w)) /\ UNCHANGED <<orgs, repoOf>>
    BY <1>7 DEF sweep
  <2> QED BY <1>0, <1>2, <1>4, <2>2, <2>3, <2>4
<1>8. CASE IdentityRestarts
  <2>1. PostsPlaced'
    BY <1>8 DEF IdentityRestarts, PostsPlaced, AtRest, Ticking
  <2> QED BY <1>0, <1>2, <1>4, <1>5, <1>8, <2>1 DEF IdentityRestarts
<1>9. ASSUME NEW c \in Creators, createWorkspace(c) PROVE ProvisioningTypes'
  <2>1. PostsPlaced'
    BY <1>0, <1>9 DEF createWorkspace, PostsPlaced, CreatorType
  <2>2. Goes
    BY <1>9 DEF createWorkspace, Goes
  <2> QED BY <1>0, <1>2, <1>4, <1>5, <1>9, <2>1, <2>2 DEF createWorkspace
<1>10. ASSUME NEW c \in Creators, CreateWorkspace(c) PROVE ProvisioningTypes'
  <2>1. CASE UNCHANGED <<wsRows, orgs, repoOf>> /\ Creator(c, IF NoOrg THEN "newOrg" ELSE "commit")
    <3>1. PostsPlaced'
      BY <1>0, <1>10, <2>1 DEF CreateWorkspace, Creator, PostsPlaced, CreatorType
    <3>2. Goes /\ UNCHANGED <<bound, ruled>>
      BY <1>10 DEF CreateWorkspace, Goes
    <3> QED BY <1>0, <1>2, <1>4, <1>5, <2>1, <3>1, <3>2
  <2>2. ASSUME CreateOrganizationIf(creators[c].pc = "newOrg"),
               NEW w \in WorkspaceIds, NEW withRepo \in BOOLEAN, InsertWorkspace(w, withRepo),
               creators' = [creators EXCEPT ![c] = [pc |-> "post", ws |-> w]]
        PROVE  ProvisioningTypes'
    <3>0. UNCHANGED <<bound, ruled, sweeper, provisionFaults>>
      BY <1>10 DEF CreateWorkspace
    <3>1. PostsPlaced'
      BY <1>0, <2>2, <3>0 DEF PostsPlaced
    <3>2. Cardinality(Committed)' = Cardinality(Committed) + 1 /\ Cardinality(Committed) \in Nat
      BY <2>2, OneMoreCommitted, CommittedBounded
    <3>3. orgs' \in Nat /\ orgs' <= Cardinality(Committed')
      BY <1>0, <2>2, <3>2 DEF CreateOrganizationIf
    <3>4. repoOf' \subseteq WorkspaceIds /\ repoOf \subseteq repoOf'
      BY <1>0, <2>2 DEF InsertWorkspace
    <3> QED BY <1>0, <1>2, <3>0, <3>1, <3>3, <3>4
  <2> QED BY <1>10, <2>1, <2>2 DEF CreateWorkspace
<1>11. ASSUME NEW c \in Creators, provisionWorkspace(c) PROVE ProvisioningTypes'
  <2>0. UNCHANGED <<orgs, repoOf, sweeper>>
    BY <1>11 DEF provisionWorkspace
  <2>1. PostsPlaced'
    BY <1>0, <1>11 DEF provisionWorkspace, Creator, PostsPlaced, AtRest, CreatorType
  <2>3. BoundAndRuled
    <3>2. ASSUME creators[c].pc = "post", Confirmed(creators[c].ws) \/ Refused(creators[c].ws)
          PROVE  BoundAndRuled
      BY <1>0, <1>3, <2>0, <3>2 DEF PostsPlaced
    <3>3. CASE UNCHANGED <<bound, ruled>> /\ (Fault \/ Goes)
      BY <1>0, <1>5, <2>0, <3>3
    <3> QED BY <1>11, <3>2, <3>3 DEF provisionWorkspace
  <2>4. UNCHANGED wsRows \/ \E w : MarkProvisioned(w)
    BY <1>11 DEF provisionWorkspace
  <2> QED BY <1>0, <1>2, <1>4, <2>0, <2>1, <2>3, <2>4
<1>12. CASE UNCHANGED provisionVars
  <2>1. PostsPlaced' /\ Goes
    BY <1>0, <1>12 DEF provisionVars, PostsPlaced, Goes
  <2> QED BY <1>0, <1>2, <1>4, <1>5, <1>12, <2>1 DEF provisionVars
<1> QED BY <1>6, <1>7, <1>8, <1>9, <1>10, <1>11, <1>12 DEF ProvisioningNext

(* There is no workspace.                                                  *)
LEMMA ProvisioningTypesInit == ProvisioningInit => ProvisioningTypes
<1> SUFFICES ASSUME ProvisioningInit PROVE ProvisioningTypes
  OBVIOUS
<1>1. orgs = 0 /\ 0 <= Cardinality(Committed) /\ 0 \in 0 .. Cardinality(WorkspaceIds)
      /\ 0 \in 0 .. MaxProvisionFaults
  BY CommittedBounded, ProvisioningAssumption DEF ProvisioningInit
<1>2. ProvisioningTypeOK /\ PostsPlaced
  BY <1>1 DEF ProvisioningInit, ProvisioningTypeOK, PostsPlaced, AtRest, Ticking
<1> QED BY <1>1, <1>2, ProvisioningInitHolds DEF ProvisioningTypes

(* The logins.  The bounds on clock and failures bound what is counted.    *)
LoginsTypes == LoginsInv /\ LoginsTypeOK /\ Cardinality(failures) <= MaxFailures

LoginType == [pc : LoginPcs, email : Emails \cup {NoAccount}, held : EntryType]

(* Nothing is counted and nobody logs in.                                  *)
LEMMA NoEntryTyped == NoEntry \in EntryType /\ NoLogin \in LoginType
BY LoginsAssumption DEF NoEntry, NoLogin, EntryType, LoginType, LoginPcs

(* No failure, no entry.                                                   *)
LEMMA LoginsTypesInit == LoginsInit => LoginsTypes
<1> SUFFICES ASSUME LoginsInit PROVE LoginsTypes
  OBVIOUS
<1>1. Cardinality(failures) <= MaxFailures
  BY LoginsAssumption, FS_EmptySet DEF LoginsInit
<1>2. LoginsTypeOK
  BY NoEntryTyped, LoginsAssumption DEF LoginsInit, LoginsTypeOK, LoginType
<1> QED BY <1>1, <1>2, LoginsInitHolds DEF LoginsTypes

(* Both halves of recordFailure: an entry counts no more than there are    *)
(* failures, and the one that is recorded is below the bound.              *)
LEMMA RecordingTyped ==
  ASSUME LoginsTypes, NEW c \in LoginCalls, failLogin(c), LoginsInv'
  PROVE  LoginsTypes'
<1>a. PICK req \in LoginType : req = loginCalls[c]
  BY DEF LoginsTypes, LoginsTypeOK, LoginType
<1>0. /\ req = loginCalls[c] /\ req \in LoginType /\ CallHonest(req)
      /\ loginCalls \in [LoginCalls -> LoginType] /\ throttle \in [Keys -> EntryType]
      /\ clock \in 0 .. MaxClock /\ MaxClock \in Nat /\ MaxFailures \in Nat
      /\ failures \subseteq [key : Keys, at : 0 .. MaxClock, n : 0 .. MaxFailures]
      /\ IsFiniteSet(failures) /\ Cardinality(failures) \in Nat
      /\ Cardinality(failures) < MaxFailures
      /\ UNCHANGED <<clock, approved, sessions>>
  BY <1>a, LoginsAssumption, FS_CardinalityType
     DEF LoginsTypes, LoginsTypeOK, LoginType, LoginsInv, FailuresNumbered, failLogin
<1>b. /\ clock \in 0 .. MaxClock /\ MaxClock \in Nat /\ MaxFailures \in Nat
      /\ Cardinality(failures) \in Nat /\ Cardinality(failures) < MaxFailures
  BY <1>0, Zenon
<1>c. 0 \in 0 .. MaxFailures + 1 /\ Cardinality(failures) <= MaxFailures
  BY <1>b
<1>1. ASSUME throttle' \in [Keys -> EntryType], loginCalls' \in [LoginCalls -> LoginType],
             failures' \subseteq [key : Keys, at : 0 .. MaxClock, n : 0 .. MaxFailures],
             Cardinality(failures') <= MaxFailures
      PROVE  LoginsTypes'
  BY <1>0, <1>1 DEF LoginsTypes, LoginsTypeOK, LoginType
<1>2. ASSUME NEW k \in Keys, NEW next \in {"store email", "store ip"}, Load(c, k, next)
      PROVE  LoginsTypes'
  <2>1. PICK e : e = IF throttle[k].none THEN Entry(clock, 0) ELSE throttle[k]
    OBVIOUS
  <2>2. e \in EntryType
    <3>1. Entry(clock, 0) \in EntryType
      <4>1. clock \in 0 .. MaxClock /\ 0 \in 0 .. MaxFailures + 1
        BY <1>b, <1>c, Zenon
      <4> QED BY <4>1 DEF Entry, EntryType
    <3>2. throttle[k] \in EntryType
      BY <1>0
    <3> QED BY <2>1, <3>1, <3>2
  <2>3. throttle' = [throttle EXCEPT ![k] = e] /\ UNCHANGED failures
        /\ loginCalls' = [loginCalls EXCEPT ![c] = [req EXCEPT !.pc = next, !.held = e]]
    BY <1>0, <1>2, <2>1 DEF Load
  <2>4. [req EXCEPT !.pc = next, !.held = e] \in LoginType
    BY <1>0, <2>2 DEF LoginType, LoginPcs
  <2>5. throttle' \in [Keys -> EntryType] /\ loginCalls' \in [LoginCalls -> LoginType]
    BY <1>0, <2>2, <2>3, <2>4
  <2>6. Cardinality(failures') <= MaxFailures
    BY <1>c, <2>3
  <2>7. failures' \subseteq [key : Keys, at : 0 .. MaxClock, n : 0 .. MaxFailures]
    BY <1>0, <2>3
  <2> QED BY <1>1, <2>5, <2>6, <2>7
<1>3. ASSUME NEW k \in Keys, Store(c, k), Honest(k, req.held), NEW new \in LoginType,
             loginCalls' = [loginCalls EXCEPT ![c] = new]
      PROVE  LoginsTypes'
  <2>1. Cardinality(FailuresSince(k, req.held.first)) <= Cardinality(failures)
        /\ Cardinality(FailuresSince(k, req.held.first)) \in Nat
    <3>1. FailuresSince(k, req.held.first) \subseteq failures
      BY DEF FailuresSince
    <3> QED BY <1>0, <3>1, FS_Subset, FS_CardinalityType
  <2>2. /\ req.held.first \in 0 .. MaxClock /\ req.held.count \in Nat
        /\ req.held.count + 1 <= MaxFailures
    BY <1>0, <1>3, <2>1 DEF Honest, ThrottleEntry
  <2>3. Counted(req.held) \in EntryType
    BY <1>0, <2>2 DEF Counted, Entry, EntryType
  <2>4. throttle' \in [Keys -> EntryType]
    BY <1>0, <1>3, <2>3 DEF Store
  <2>5. /\ failures' \subseteq [key : Keys, at : 0 .. MaxClock, n : 0 .. MaxFailures]
        /\ Cardinality(failures') <= MaxFailures
    <3> DEFINE f == [key |-> k, at |-> clock, n |-> Cardinality(failures)]
    <3>1. f \in [key : Keys, at : 0 .. MaxClock, n : 0 .. MaxFailures]
      BY <1>0
    <3>2. failures' = failures \cup {f}
      BY <1>3 DEF Store
    <3> HIDE DEF f
    <3>3. Cardinality(failures') = Cardinality(failures)
          \/ Cardinality(failures') = Cardinality(failures) + 1
      BY <1>0, <3>2, FS_AddElement
    <3> QED BY <1>0, <3>1, <3>2, <3>3
  <2>6. loginCalls' \in [LoginCalls -> LoginType]
    BY <1>0, <1>3
  <2> QED BY <1>1, <2>4, <2>5, <2>6
<1>4. CASE recordFailure(c, req.email, "load email", "store email", "load ip")
  <2>1. req.pc \in {"load email", "store email"} /\ req.email \in Keys
    BY <1>0, <1>4 DEF recordFailure, CallHonest, Keys
  <2>2. CASE req.pc = "load email"
    BY <1>0, <1>2, <1>4, <2>1, <2>2 DEF recordFailure
  <2>3. CASE req.pc = "store email"
    <3> DEFINE new == [req EXCEPT !.pc = "load ip", !.held = NoEntry]
    <3>1. Store(c, req.email) /\ Honest(req.email, req.held)
      BY <1>0, <1>4, <2>3 DEF recordFailure, CallHonest
    <3>2. new \in LoginType
      BY <1>0, NoEntryTyped DEF LoginType, LoginPcs
    <3>3. loginCalls' = [loginCalls EXCEPT ![c] = new]
      BY <1>0, <1>4, <2>3 DEF recordFailure
    <3> HIDE DEF new
    <3> QED BY <1>3, <2>1, <3>1, <3>2, <3>3
  <2> QED BY <2>1, <2>2, <2>3
<1>5. CASE recordFailure(c, IP, "load ip", "store ip", "idle")
  <2>1. req.pc \in {"load ip", "store ip"} /\ IP \in Keys
    BY <1>0, <1>5 DEF recordFailure, Keys
  <2>2. CASE req.pc = "load ip"
    BY <1>0, <1>2, <1>5, <2>1, <2>2 DEF recordFailure
  <2>3. CASE req.pc = "store ip"
    <3>1. Store(c, IP) /\ Honest(IP, req.held)
          /\ loginCalls' = [loginCalls EXCEPT ![c] = NoLogin]
      BY <1>0, <1>5, <2>3 DEF recordFailure, CallHonest, Answer
    <3> QED BY <1>3, <2>1, <3>1, NoEntryTyped
  <2> QED BY <2>1, <2>2, <2>3
<1> QED BY <1>0, <1>4, <1>5 DEF failLogin

(* A step of a login, of time, of an account or of the process.            *)
LEMMA LoginsTyped ==
  ASSUME LoginsTypes, [LoginsNext]_loginVars
  PROVE  LoginsTypes'
<1>0. /\ loginCalls \in [LoginCalls -> LoginType] /\ throttle \in [Keys -> EntryType]
      /\ clock \in 0 .. MaxClock /\ MaxClock \in Nat
      /\ failures \subseteq [key : Keys, at : 0 .. MaxClock, n : 0 .. MaxFailures]
      /\ Cardinality(failures) <= MaxFailures
      /\ approved \subseteq Emails /\ sessions \subseteq Emails
      /\ \A c \in LoginCalls : loginCalls[c].pc # "idle" => loginCalls[c].email \in Emails
  BY LoginsAssumption DEF LoginsTypes, LoginsTypeOK, LoginType, LoginsInv, CallHonest
<1>1. LoginsInv'
  BY LoginsStepHolds DEF LoginsTypes
<1>2. ASSUME UNCHANGED failures, clock' \in 0 .. MaxClock, approved' \subseteq Emails,
             sessions' \subseteq Emails, throttle' \in [Keys -> EntryType],
             loginCalls' \in [LoginCalls -> LoginType]
      PROVE  LoginsTypes'
  BY <1>0, <1>1, <1>2 DEF LoginsTypes, LoginsTypeOK, LoginType
<1>3. CASE Tick \/ Approve \/ logout \/ UNCHANGED loginVars
  BY <1>0, <1>2, <1>3 DEF Tick, Approve, logout, DeleteSession, loginVars
<1>4. CASE AuthRestarts
  BY <1>0, <1>2, <1>4, NoEntryTyped DEF AuthRestarts
<1>5. ASSUME NEW c \in LoginCalls, login(c) \/ Login(c) \/ LoginSucceeds(c)
      PROVE  LoginsTypes'
  <2>1. ASSUME NEW pc \in LoginPcs, At(c, pc) PROVE loginCalls' \in [LoginCalls -> LoginType]
    BY <1>0, <2>1 DEF At, LoginType
  <2>2. ASSUME Answer(c) PROVE loginCalls' \in [LoginCalls -> LoginType]
    BY <1>0, <2>2, NoEntryTyped DEF Answer
  <2>3. CASE login(c)
    <3>1. loginCalls' \in [LoginCalls -> LoginType]
      BY <1>0, <2>3, NoEntryTyped DEF login, NoLogin, LoginType, LoginPcs
    <3> QED BY <1>0, <1>2, <2>3, <3>1 DEF login
  <2>4. CASE Login(c)
    <3>1. loginCalls' \in [LoginCalls -> LoginType]
      BY <2>1, <2>2, <2>4 DEF Login, LoginPcs
    <3> QED BY <1>0, <1>2, <2>4, <3>1 DEF Login
  <2>5. CASE LoginSucceeds(c)
    <3>1. loginCalls' \in [LoginCalls -> LoginType]
      BY <2>1, <2>2, <2>5 DEF LoginSucceeds, LoginPcs
    <3>2. sessions' \subseteq Emails /\ throttle' \in [Keys -> EntryType]
      BY <1>0, <2>5, NoEntryTyped DEF LoginSucceeds, CreateSession
    <3> QED BY <1>0, <1>2, <2>5, <3>1, <3>2 DEF LoginSucceeds
  <2> QED BY <1>5, <2>3, <2>4, <2>5
<1> QED BY <1>1, <1>3, <1>4, <1>5, RecordingTyped DEF LoginsNext

=============================================================================
