------------------------------ MODULE Members ------------------------------
(***************************************************************************)
(* The members of one workspace, as Identity's organisations half keeps    *)
(* them: PATCH and DELETE of a membership and the approved joins that add  *)
(* one.  Requests run side by side (one goroutine each) and every SQL      *)
(* statement commits alone, so the steps of two requests interleave.  A    *)
(* refused request changes nothing and is not a step; a reply is the end   *)
(* of the call.  The audit line of a success is appended best-effort to a  *)
(* table nothing here reads, and is left out.                              *)
(***************************************************************************)
EXTENDS Naturals, FiniteSets

CONSTANTS
  People,           \* users; a person has at most one row, named after her
  NoRow,            \* the id of no row of this workspace, a user's id say
  MemberCalls,      \* requests served at the same time
  MaxMemberFaults   \* failed statements, cancelled requests, crashes

ASSUME MembersAssumption == MaxMemberFaults \in Nat

VARIABLES
  memberRole,       \* memberships: the role on each row, NotAMember if none
  memberCalls,      \* where each request is
  memberFaults,
  memberRaced       \* history: a row was deleted by a request that was not
                    \* the only one in flight from its first step to its last

memberVars == <<memberRole, memberCalls, memberFaults, memberRaced>>

Roles == {"owner", "admin", "member"}
NotAMember == "none"

Waiting == [pc |-> "idle", target |-> NoRow, role |-> NotAMember, alone |-> FALSE]

MemberCall ==
  [pc : {"idle", "set", "count", "restore", "list", "owners", "delete"},
   target : People \cup {NoRow},
   role : Roles \cup {NotAMember}, alone : BOOLEAN]

MembersTypeOK ==
  /\ memberRole \in [People -> Roles \cup {NotAMember}]
  /\ memberCalls \in [MemberCalls -> MemberCall]
  /\ memberFaults \in 0 .. MaxMemberFaults
  /\ memberRaced \in BOOLEAN

Owners == {m \in People : memberRole[m] = "owner"}

MembersInit ==
  /\ \E m \in People :
       memberRole = [n \in People |-> IF n = m THEN "owner" ELSE NotAMember]
  /\ memberCalls = [c \in MemberCalls |-> Waiting]
  /\ memberFaults = 0
  /\ memberRaced = FALSE

(* The statements of the membership repository.                            *)
UserRoleIn(p) == memberRole[p]
ListedRole(m) == IF m \in People THEN memberRole[m] ELSE NotAMember
OwnersAndAdmins == Cardinality({m \in People : memberRole[m] \in {"owner", "admin"}})
OwnerCount == Cardinality(Owners)

SetRole(m, r) ==
  memberRole' = [n \in People |->
    IF n = m /\ memberRole[n] # NotAMember THEN r ELSE memberRole[n]]

DeleteRow(m) ==
  memberRole' = [n \in People |-> IF n = m THEN NotAMember ELSE memberRole[n]]

Add(m, r) == memberRole' = [memberRole EXCEPT ![m] = r]

RequireMember(p) == UserRoleIn(p) # NotAMember
RequireAdmin(p) == RequireMember(p) /\ UserRoleIn(p) \in {"owner", "admin"}

(* A request starts; from here on the ones in flight are not alone.        *)
Open(c, first, m, r) ==
  /\ memberCalls[c].pc = "idle"
  /\ memberCalls' = [d \in MemberCalls |->
       IF d = c
       THEN [pc |-> first, target |-> m, role |-> r,
             alone |-> \A e \in MemberCalls \ {c} : memberCalls[e].pc = "idle"]
       ELSE [memberCalls[d] EXCEPT !.alone = FALSE]]
  /\ UNCHANGED <<memberRole, memberFaults, memberRaced>>

Goto(c, pc) == memberCalls' = [memberCalls EXCEPT ![c].pc = pc]
Reply(c) == memberCalls' = [memberCalls EXCEPT ![c] = Waiting]

updateMemberRole(c) ==
  \E p \in People, m \in People \cup {NoRow}, r \in Roles :
    RequireAdmin(p) /\ Open(c, "set", m, r)

(* UpdateRole writes first, then counts the owners left, then, when it     *)
(* finds none, makes its target an owner and refuses the request.          *)
UpdateRole(c) ==
  LET call == memberCalls[c] IN
  /\ UNCHANGED <<memberFaults, memberRaced>>
  /\ \/ /\ call.pc = "set"
        /\ SetRole(call.target, call.role)
        /\ IF ListedRole(call.target) = NotAMember \/ call.role = "owner"
           THEN Reply(c) ELSE Goto(c, "count")
     \/ /\ call.pc = "count"
        /\ IF OwnerCount = 0 THEN Goto(c, "restore") ELSE Reply(c)
        /\ UNCHANGED memberRole
     \/ /\ call.pc = "restore"
        /\ SetRole(call.target, "owner")
        /\ Reply(c)

(* Nobody is kept from removing herself: the check compares the id of a    *)
(* row with the id of a user, which are never equal.                       *)
removeMember(c) ==
  \E p \in People, m \in People \cup {NoRow} :
    RequireAdmin(p) /\ Open(c, "list", m, NotAMember)

(* Remove reads the list, counts the owners when the target is one, and    *)
(* deletes on the strength of what it has read.                            *)
Remove(c) ==
  LET call == memberCalls[c]
      listed == ListedRole(call.target) IN
  /\ UNCHANGED memberFaults
  /\ \/ /\ call.pc = "list"
        /\ CASE listed = NotAMember -> Reply(c)
             [] listed = "owner"    -> Goto(c, "owners")
             [] OTHER               -> Goto(c, "delete")
        /\ UNCHANGED <<memberRole, memberRaced>>
     \/ /\ call.pc = "owners"
        /\ IF OwnerCount <= 1 THEN Reply(c) ELSE Goto(c, "delete")
        /\ UNCHANGED <<memberRole, memberRaced>>
     \/ /\ call.pc = "delete"
        /\ DeleteRow(call.target)
        /\ memberRaced' = (memberRaced \/ ~call.alone)
        /\ Reply(c)

(* An approved request to join adds a row (Accounts has the approval).     *)
Join ==
  /\ \E m \in People, r \in {"admin", "member"} :
       memberRole[m] = NotAMember /\ Add(m, r)
  /\ UNCHANGED <<memberCalls, memberFaults, memberRaced>>

(* A statement fails, the client goes away or the service stops: the       *)
(* request ends where it is.                                               *)
MemberFails(c) ==
  /\ memberCalls[c].pc # "idle"
  /\ memberFaults < MaxMemberFaults
  /\ memberFaults' = memberFaults + 1
  /\ Reply(c)
  /\ UNCHANGED <<memberRole, memberRaced>>

MembersNext ==
  \/ Join
  \/ \E c \in MemberCalls :
       \/ updateMemberRole(c)
       \/ UpdateRole(c)
       \/ removeMember(c)
       \/ Remove(c)
       \/ MemberFails(c)

MembersSpec == MembersInit /\ [][MembersNext]_memberVars

(* Changing roles never loses the last owner: whatever demotions run side  *)
(* by side, as long as no request was cut short and no removal raced with  *)
(* another request, there is an owner, or a request that has demoted a     *)
(* member still to be seen to has its check ahead of it.  About            *)
(* member.go's write-then-check UpdateRole.                                *)
DemotionsKeepAnOwner ==
  memberFaults = 0 /\ ~memberRaced =>
    \/ Owners # {}
    \/ \E c \in MemberCalls : /\ memberCalls[c].pc \in {"count", "restore"}
                              /\ ListedRole(memberCalls[c].target) # NotAMember

=============================================================================
