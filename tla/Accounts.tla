------------------------------ MODULE Accounts ------------------------------
(***************************************************************************)
(* How a stranger becomes a user: invitations, the signup request, its     *)
(* copy in the organisations half, the decision and its way back.  The two *)
(* halves of Identity keep a status each and tell one another over an      *)
(* in-process bus that runs the handlers in the caller's goroutine and     *)
(* only logs their errors: what a stopped service or a failed handler      *)
(* loses is lost.  There is one request per e-mail address, so a person    *)
(* names the request, the user and the address.                            *)
(***************************************************************************)
EXTENDS Naturals

CONSTANTS
  Applicants, Workspaces, AccountCalls,
  Founder,              \* what a create-mode request asks for
  NoOne, Nowhere,
  MaxAccountFaults

ASSUME AccountsAssumption == Founder \notin Workspaces /\ MaxAccountFaults \in Nat

VARIABLES
  users,         \* auth.users: absent, inactive or active
  signups,       \* auth.signup_requests: the status the applicant polls
  asked,         \* the workspace a request asks for, or Founder
  queue,         \* join_requests and org_requests: the status admins see
  memberOf,      \* memberships of approved applicants
  founded,       \* organisations created for an applicant
  invites,       \* workspaces with an invitation on record
  codes,         \* invitation codes the signup form resolves
  accountCalls, accountFaults

accountVars == <<users, signups, asked, queue, memberOf, founded, invites,
                 codes, accountCalls, accountFaults>>

Statuses == {"none", "pending", "approved", "declined"}
NoCall == [pc |-> "idle", who |-> NoOne, at |-> Nowhere]
MaxFounded == 2

AccountCall ==
  [pc : {"idle", "insert", "invite.created", "create", "signup.requested", "get",
         "commit", "signup.approved", "refuse", "signup.declined", "found", "charter"},
   who : Applicants \cup {NoOne}, at : Workspaces \cup {Founder, Nowhere}]

AccountsTypeOK ==
  /\ users \in [Applicants -> {"absent", "inactive", "active"}]
  /\ signups \in [Applicants -> Statuses]
  /\ asked \in [Applicants -> Workspaces \cup {Founder, Nowhere}]
  /\ queue \in [Applicants -> Statuses]
  /\ memberOf \in [Applicants -> SUBSET Workspaces]
  /\ founded \in [Applicants -> 0 .. MaxFounded]
  /\ invites \subseteq Workspaces
  /\ codes \subseteq Workspaces
  /\ accountCalls \in [AccountCalls -> AccountCall]
  /\ accountFaults \in 0 .. MaxAccountFaults

AccountsInit ==
  /\ users = [p \in Applicants |-> "absent"]
  /\ signups = [p \in Applicants |-> "none"]
  /\ asked = [p \in Applicants |-> Nowhere]
  /\ queue = [p \in Applicants |-> "none"]
  /\ memberOf = [p \in Applicants |-> {}]
  /\ founded = [p \in Applicants |-> 0]
  /\ invites = {}
  /\ codes = {}
  /\ accountCalls = [c \in AccountCalls |-> NoCall]
  /\ accountFaults = 0

Receive(c, pc, p, w) ==
  /\ accountCalls[c].pc = "idle"
  /\ accountCalls' = [accountCalls EXCEPT ![c] = [pc |-> pc, who |-> p, at |-> w]]

Step(c, pc) == accountCalls' = [accountCalls EXCEPT ![c].pc = pc]

Finish(c) == accountCalls' = [accountCalls EXCEPT ![c] = NoCall]

(* The bus calls the topic's handler before Publish returns.               *)
Publish(c, topic) == Step(c, topic)

-----------------------------------------------------------------------------
(* What the repositories answer and write.                                 *)
PendingIn(p, w) == queue[p] = "pending" /\ asked[p] = w
ListPendingRequests(w) == {p \in Applicants : PendingIn(p, w)}
ListOrgRequests == ListPendingRequests(Founder)
InternalWorkspaces(p) == memberOf[p]

CreateSignup(p, w) ==
  /\ users' = [users EXCEPT ![p] = "inactive"]
  /\ signups' = [signups EXCEPT ![p] = "pending"]
  /\ asked' = [asked EXCEPT ![p] = w]

CreateInvite(w) == invites' = invites \cup {w}

(* A request already there stays as it is.                                 *)
UpsertRequest(p) == queue' = [queue EXCEPT ![p] = IF @ = "none" THEN "pending" ELSE @]

CreateOrganization(p) == founded' = [founded EXCEPT ![p] = @ + 1]

ActivateLater(p) == UNCHANGED users

Activate(p) ==
  users' = [users EXCEPT ![p] = IF @ = "absent" THEN @ ELSE "active"]

(* A join request is decided once: the UPDATE asks for a pending row.      *)
JoinStatusMoves(p) == queue[p] = "pending"

SetSignupStatus(p, s) == signups' = [signups EXCEPT ![p] = s]

-----------------------------------------------------------------------------
(* Invitations.  Several addresses in one request are as many calls: each  *)
(* has its own INSERT, and a failure leaves the earlier ones on record     *)
(* and unannounced.                                                        *)
sendInvites(c) ==
  /\ \E w \in Workspaces : Receive(c, "insert", NoOne, w)
  /\ UNCHANGED <<users, signups, asked, queue, memberOf, founded, invites, codes>>

SendInvites(c) ==
  /\ accountCalls[c].pc = "insert"
  /\ CreateInvite(accountCalls[c].at)
  /\ Publish(c, "invite.created")
  /\ UNCHANGED <<users, signups, asked, queue, memberOf, founded, codes>>

HandleInviteCreated(c) ==
  /\ accountCalls[c].pc = "invite.created"
  /\ codes' = codes \cup {accountCalls[c].at}
  /\ Finish(c)
  /\ UNCHANGED <<users, signups, asked, queue, memberOf, founded, invites>>

(* POST /auth/signup: a well-formed request, whose code resolves.          *)
signup(c) ==
  /\ \E p \in Applicants, w \in codes \cup {Founder} : Receive(c, "create", p, w)
  /\ UNCHANGED <<users, signups, asked, queue, memberOf, founded, invites, codes>>

(* User and request in one transaction, then the event; an address already *)
(* taken ends the call.                                                    *)
Signup(c) ==
  LET call == accountCalls[c] IN
  /\ call.pc = "create"
  /\ IF users[call.who] = "absent"
     THEN CreateSignup(call.who, call.at) /\ Publish(c, "signup.requested")
     ELSE Finish(c) /\ UNCHANGED <<users, signups, asked>>
  /\ UNCHANGED <<queue, memberOf, founded, invites, codes>>

ProjectSignupRequest(c) ==
  /\ accountCalls[c].pc = "signup.requested"
  /\ UpsertRequest(accountCalls[c].who)
  /\ Finish(c)
  /\ UNCHANGED <<users, signups, asked, memberOf, founded, invites, codes>>

(* An administrator decides.  The transaction reads the request in one     *)
(* statement and moves its status in a later one, where another decision   *)
(* may have come first; then membership and activation roll back with it.  *)
approveRequest(c) ==
  /\ \E p \in Applicants, w \in Workspaces : Receive(c, "get", p, w)
  /\ UNCHANGED <<users, signups, asked, queue, memberOf, founded, invites, codes>>

declineRequest(c) ==
  /\ \E p \in Applicants, w \in Workspaces : Receive(c, "refuse", p, w)
  /\ UNCHANGED <<users, signups, asked, queue, memberOf, founded, invites, codes>>

ApproveJoinRequest(c) ==
  LET call == accountCalls[c]
      p == call.who IN
  /\ \/ /\ call.pc = "get"
        /\ IF PendingIn(p, call.at) THEN Step(c, "commit") ELSE Finish(c)
        /\ UNCHANGED <<users, queue, memberOf>>
     \/ /\ call.pc = "commit"
        /\ IF JoinStatusMoves(p)
           THEN /\ memberOf' = [memberOf EXCEPT ![p] = @ \cup {call.at}]
                /\ queue' = [queue EXCEPT ![p] = "approved"]
                /\ Activate(p)
                /\ Publish(c, "signup.approved")
           ELSE Finish(c) /\ UNCHANGED <<users, queue, memberOf>>
  /\ UNCHANGED <<signups, asked, founded, invites, codes>>

DeclineJoinRequest(c) ==
  LET call == accountCalls[c]
      p == call.who IN
  /\ call.pc = "refuse"
  /\ IF asked[p] = call.at /\ JoinStatusMoves(p)
     THEN queue' = [queue EXCEPT ![p] = "declined"] /\ Publish(c, "signup.declined")
     ELSE Finish(c) /\ UNCHANGED queue
  /\ UNCHANGED <<users, signups, asked, memberOf, founded, invites, codes>>

(* A superadmin approves a new organisation.  Its request's status is      *)
(* written without asking for a pending row.                               *)
approveOrgRequest(c) ==
  /\ \E p \in Applicants : Receive(c, "found", p, Founder)
  /\ UNCHANGED <<users, signups, asked, queue, memberOf, founded, invites, codes>>

ApproveOrgRequest(c) ==
  LET call == accountCalls[c]
      p == call.who IN
  /\ \/ /\ call.pc = "found"
        /\ IF PendingIn(p, Founder) THEN Step(c, "charter") ELSE Finish(c)
        /\ UNCHANGED <<users, queue, founded>>
     \/ /\ call.pc = "charter"
        /\ founded[p] < MaxFounded
        /\ CreateOrganization(p)
        /\ queue' = [queue EXCEPT ![p] = "approved"]
        /\ Activate(p)
        /\ Publish(c, "signup.approved")
  /\ UNCHANGED <<signups, asked, memberOf, invites, codes>>

HandleSignupApproved(c) ==
  LET p == accountCalls[c].who IN
  /\ accountCalls[c].pc = "signup.approved"
  /\ SetSignupStatus(p, "approved")
  /\ Activate(p)
  /\ Finish(c)
  /\ UNCHANGED <<asked, queue, memberOf, founded, invites, codes>>

HandleSignupDeclined(c) ==
  /\ accountCalls[c].pc = "signup.declined"
  /\ SetSignupStatus(accountCalls[c].who, "declined")
  /\ Finish(c)
  /\ UNCHANGED <<users, asked, queue, memberOf, founded, invites, codes>>

(* The service stops, a statement fails or the client is gone: nothing of  *)
(* what the call had left to do happens.  A failing bus handler is the     *)
(* same, it is the last thing its call does.                               *)
AccountFails(c) ==
  /\ accountCalls[c].pc # "idle"
  /\ accountFaults < MaxAccountFaults
  /\ accountFaults' = accountFaults + 1
  /\ Finish(c)
  /\ UNCHANGED <<users, signups, asked, queue, memberOf, founded, invites, codes>>

Handles(c) ==
  /\ \/ SendInvites(c) \/ HandleInviteCreated(c)
     \/ Signup(c) \/ ProjectSignupRequest(c)
     \/ ApproveJoinRequest(c) \/ ApproveOrgRequest(c) \/ HandleSignupApproved(c)
     \/ DeclineJoinRequest(c) \/ HandleSignupDeclined(c)
  /\ UNCHANGED accountFaults

Receives(c) ==
  /\ \/ sendInvites(c) \/ signup(c)
     \/ approveRequest(c) \/ declineRequest(c) \/ approveOrgRequest(c)
  /\ UNCHANGED accountFaults

AccountsNext == \E c \in AccountCalls : Receives(c) \/ Handles(c) \/ AccountFails(c)

AccountsSpec == AccountsInit /\ [][AccountsNext]_accountVars

-----------------------------------------------------------------------------
(* An approved applicant can log in and belongs to what was asked for:     *)
(* request.go:28-32, the activation rides the approving transaction.       *)
ApprovedMeansActiveMember ==
  \A p \in Applicants : queue[p] = "approved" =>
    /\ users[p] = "active"
    /\ IF asked[p] = Founder THEN founded[p] > 0 ELSE asked[p] \in InternalWorkspaces(p)

(* Two administrators decide at once: a declined applicant has nothing of  *)
(* an approval, neither the account nor a membership, however the two      *)
(* transactions interleave (joinrequest/repo.go:78-80).                    *)
DeclinedMeansNothingGranted ==
  \A p \in Applicants :
    queue[p] # "approved" => users[p] # "active" /\ memberOf[p] = {} /\ founded[p] = 0

(* The status an applicant polls never runs ahead of the decision, and     *)
(* never disagrees with one once it has moved.                             *)
AnswerFollowsDecision ==
  \A p \in Applicants : signups[p] \in {"approved", "declined"} => queue[p] = signups[p]

(* However requests, decisions and failures interleave, what the admins    *)
(* decided, what it granted and what the applicant is told agree.          *)
DecisionsHold == ApprovedMeansActiveMember /\ DeclinedMeansNothingGranted /\ AnswerFollowsDecision

=============================================================================
