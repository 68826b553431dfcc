---------------------------- MODULE Membership ----------------------------
(***************************************************************************)
(* The members and the invitations of ONE organization of SiteOps          *)
(* (apps/api/src/organizations), as its database sees them.  An API        *)
(* request is a slot that works through the awaited calls of its handler;  *)
(* between two of them any other request may run, and a request may fail   *)
(* or die with its process (Abandon).                                      *)
(*                                                                         *)
(* An account is an address: the code compares the two by their lowercased *)
(* text and no handler changes an account's address.                       *)
(***************************************************************************)
EXTENDS Integers, FiniteSets

CONSTANTS
  Users,        \* accounts that may belong to the organization
  Founder,      \* the account that created it
  Requests,     \* API requests in flight at the same time
  Invitations,  \* documents of the invitations collection
  MaxMembers,   \* the member cap of the organization's plan
  MaxJoins,     \* BOUND: how often one account joins
  Rejoining     \* BOUND: the accounts that may join more than once

ASSUME MembershipAssumption ==
  /\ IsFiniteSet(Users)
  /\ Founder \in Users
  /\ Requests # {}
  /\ MaxMembers \in Nat \ {0}
  /\ MaxJoins \in Nat \ {0}
  /\ Rejoining \subseteq Users

VARIABLES
  member,      \* Users -> the member document, role "none" when there is none
  invitation,  \* Invitations -> the document, status "unused" when not inserted
  request      \* Requests -> what the handler has read and where it waits

vars == <<member, invitation, request>>

----------------------------------------------------------------------------
(* Roles and permissions: packages/shared/src/domain.                      *)

Roles == {"owner", "admin", "member"}

\* Mutant of AssignableRoles: an invitation may carry any role.
AnyRole == Roles

AssignableRoles == {"admin", "member"}
Rank == [owner |-> 3, admin |-> 2, member |-> 1]

CanActOn(actor, target) == Rank[actor] >= Rank[target]
CanAssignRole(actor, role) == Rank[actor] >= Rank[role]

\* Who holds member:invite, and who holds member:update_role and member:remove.
MayInvite == {"owner", "admin"}
MayEdit == {"owner"}

----------------------------------------------------------------------------
(* The state.  `joins` counts the member documents an account has had:     *)
(* with the account it stands for the document's _id.  Of a request,       *)
(* `current` is the target's role as an edit has read it, and `seen` are   *)
(* the owners it has counted, of whom the code keeps the number alone.     *)

Places == {"idle", "inviteCap", "inviteMember", "inviteSave", "acceptMember",
           "acceptAdd", "acceptMark", "editFind", "editCount", "editSave"}

Idle == [at |-> "idle", actor |-> Founder, actorRole |-> "none", target |-> Founder,
         join |-> 0, role |-> "none", doc |-> "none", current |-> "none", seen |-> {}]

Unused == [status |-> "unused", email |-> Founder, role |-> "member",
           expired |-> FALSE]

MemberDocs == [role : Roles \cup {"none"}, joins : 0..MaxJoins]
InvitationDocs == [status : {"unused", "pending", "accepted", "revoked"}, email : Users,
                   role : {"admin", "member"}, expired : BOOLEAN]
RequestRecords == [at : Places, actor : Users, actorRole : Roles \cup {"none"},
                   target : Users, join : 0..MaxJoins, role : Roles \cup {"none"},
                   doc : Invitations \cup {"none"}, current : Roles \cup {"none"},
                   seen : SUBSET Users]

Members == {u \in Users : member[u].role # "none"}
Owners == {u \in Users : member[u].role = "owner"}

\* organizationService.create: the organization and its owner in one transaction.
Init ==
  /\ member = [u \in Users |-> IF u = Founder THEN [role |-> "owner", joins |-> 1]
                                              ELSE [role |-> "none", joins |-> 0]]
  /\ invitation = [i \in Invitations |-> Unused]
  /\ request = [r \in Requests |-> Idle]

Goto(r, place) == request' = [request EXCEPT ![r].at = place]
Finish(r) == request' = [request EXCEPT ![r] = Idle]

----------------------------------------------------------------------------
(* MemberService.invite                                                    *)

\* OrganizationGuard reads the caller's role once; canAssignRole uses that copy.
BeginInvite(r) ==
  /\ request[r].at = "idle"
  /\ \E actor \in Members, email \in Users, role \in AssignableRoles :
       /\ member[actor].role \in MayInvite
       /\ CanAssignRole(member[actor].role, role)
       /\ request' = [request EXCEPT ![r] = [Idle EXCEPT
                        !.at = "inviteCap", !.target = email, !.role = role]]
  /\ UNCHANGED <<member, invitation>>

\* assertCanAddMember: the members are counted, the pending invitations are not.
CheckCap(r) ==
  /\ request[r].at = "inviteCap"
  /\ IF Cardinality(Members) < MaxMembers THEN Goto(r, "inviteMember") ELSE Finish(r)
  /\ UNCHANGED <<member, invitation>>

CheckNotMember(r) ==
  /\ request[r].at = "inviteMember"
  /\ IF request[r].target \in Members THEN Finish(r) ELSE Goto(r, "inviteSave")
  /\ UNCHANGED <<member, invitation>>

\* Mutant of PendingFor: the filter also asks that the document has not expired.
UnexpiredFor(email) ==
  {i \in Invitations : /\ invitation[i].status = "pending"
                       /\ invitation[i].email = email
                       /\ ~invitation[i].expired}

PendingFor(email) ==
  {i \in Invitations : invitation[i].status = "pending" /\ invitation[i].email = email}

\* The upsert: one findOneAndUpdate refreshes the pending document, or inserts one.
SaveInvitation(r) ==
  LET email == request[r].target
      unused == {i \in Invitations : invitation[i].status = "unused"}
  IN
  /\ request[r].at = "inviteSave"
  /\ \E i \in IF PendingFor(email) # {} THEN PendingFor(email) ELSE unused :
       invitation' = [invitation EXCEPT
                        ![i] = [@ EXCEPT !.status = "pending", !.email = email,
                                         !.role = request[r].role, !.expired = FALSE]]
  /\ Finish(r)
  /\ UNCHANGED member

\* MemberService.revokeInvitation: one filtered update.  That it can come a
\* call after the guard's read of the caller's role changes nothing below.
RevokeInvitation(i) ==
  /\ \E actor \in Members : member[actor].role \in MayInvite
  /\ invitation[i].status = "pending"
  /\ invitation' = [invitation EXCEPT ![i].status = "revoked"]
  /\ UNCHANGED <<member, request>>

\* expiresAt passes; the document stays pending.
Expire(i) ==
  /\ invitation[i].status = "pending" /\ ~invitation[i].expired
  /\ invitation' = [invitation EXCEPT ![i].expired = TRUE]
  /\ UNCHANGED <<member, request>>

----------------------------------------------------------------------------
(* MemberService.accept                                                    *)

\* findPendingByTokenHash and the checks on what it returned.
BeginAccept(r) ==
  /\ request[r].at = "idle"
  /\ \E i \in Invitations :
       /\ invitation[i].status = "pending"
       /\ ~invitation[i].expired
       /\ request' = [request EXCEPT ![r] = [Idle EXCEPT
                        !.at = "acceptMember", !.actor = invitation[i].email,
                        !.role = invitation[i].role, !.doc = i]]
  /\ UNCHANGED <<member, invitation>>

\* Mutant of AcceptIsMember: the invitation is marked before the member is added.
MarksFirst(r) ==
  /\ request[r].at = "acceptMember"
  /\ Goto(r, IF request[r].actor \in Members THEN "acceptAdd" ELSE "acceptMark")
  /\ UNCHANGED <<member, invitation>>

AcceptIsMember(r) ==
  /\ request[r].at = "acceptMember"
  /\ Goto(r, IF request[r].actor \in Members THEN "acceptMark" ELSE "acceptAdd")
  /\ UNCHANGED <<member, invitation>>

\* addMember; a second document for the account breaks the unique index and
\* the request ends there, before the invitation is marked.
AddMember(r) ==
  LET user == request[r].actor IN
  /\ request[r].at = "acceptAdd"
  /\ IF user \in Members
     THEN Finish(r) /\ UNCHANGED member
     ELSE /\ member[user].joins < MaxJoins
          /\ member[user].joins = 0 \/ user \in Rejoining
          /\ member' = [member EXCEPT
                          ![user] = [role |-> request[r].role, joins |-> @.joins + 1]]
          /\ Goto(r, "acceptMark")
  /\ UNCHANGED invitation

\* Mutant of AcceptMatches: the filter is the _id alone.
MatchesById(i) == TRUE

AcceptMatches(i) == invitation[i].status = "pending"

\* markInvitationAccepted: only a document that is still pending.
MarkAccepted(r) ==
  LET i == request[r].doc IN
  /\ request[r].at = "acceptMark"
  /\ invitation' = IF AcceptMatches(i)
                   THEN [invitation EXCEPT ![i].status = "accepted"]
                   ELSE invitation
  /\ Finish(r)
  /\ UNCHANGED member

----------------------------------------------------------------------------
(* MemberService.updateRole, and remove as an edit to the role "none"      *)

\* The guard has read the caller's role; the target is named by its document.
BeginEdit(r) ==
  /\ request[r].at = "idle"
  /\ \E actor \in Members, target \in Members, role \in Roles \cup {"none"} :
       /\ member[actor].role \in MayEdit
       /\ request' = [request EXCEPT ![r] = [Idle EXCEPT
                        !.at = "editFind", !.actor = actor,
                        !.actorRole = member[actor].role, !.target = target,
                        !.join = member[target].joins, !.role = role]]
  /\ UNCHANGED <<member, invitation>>

\* The document the edit names is still there.
Present(r) ==
  LET t == request[r].target IN t \in Members /\ member[t].joins = request[r].join

\* findMemberById and the rank checks.  Only an owner whose role goes is counted.
FindTarget(r) ==
  LET q == request[r]
      current == member[q.target].role
      refused == \/ ~Present(r)
                 \/ q.role # "none" /\ q.target = q.actor
                 \/ q.target # q.actor /\ ~CanActOn(q.actorRole, current)
                 \/ q.role # "none" /\ ~CanAssignRole(q.actorRole, q.role)
  IN
  /\ q.at = "editFind"
  /\ IF refused THEN Finish(r)
     ELSE request' = [request EXCEPT
            ![r].at = IF current = "owner" /\ q.role # "owner" THEN "editCount" ELSE "editSave",
            ![r].current = current]
  /\ UNCHANGED <<member, invitation>>

\* Mutant of IsLastOwner: the count is compared with zero.
NoOwnerLeft == Cardinality(Owners) <= 0

IsLastOwner == Cardinality(Owners) <= 1

\* assertNotLastOwner
CountOwners(r) ==
  /\ request[r].at = "editCount"
  /\ IF IsLastOwner THEN Finish(r)
     ELSE request' = [request EXCEPT ![r].at = "editSave", ![r].seen = Owners]
  /\ UNCHANGED <<member, invitation>>

\* updateRole or remove: one write by the document's _id.
SaveEdit(r) ==
  LET q == request[r] IN
  /\ q.at = "editSave"
  /\ member' = IF Present(r) THEN [member EXCEPT ![q.target].role = q.role] ELSE member
  /\ Finish(r)
  /\ UNCHANGED invitation

----------------------------------------------------------------------------
\* A call of the handler fails, or its process dies: what it wrote stays.
Abandon(r) ==
  /\ request[r].at # "idle"
  /\ Finish(r)
  /\ UNCHANGED <<member, invitation>>

Next ==
  \/ \E r \in Requests :
       \/ BeginInvite(r) \/ CheckCap(r) \/ CheckNotMember(r) \/ SaveInvitation(r)
       \/ BeginAccept(r) \/ AcceptIsMember(r) \/ AddMember(r) \/ MarkAccepted(r)
       \/ BeginEdit(r) \/ FindTarget(r) \/ CountOwners(r) \/ SaveEdit(r)
       \/ Abandon(r)
  \/ \E i \in Invitations : RevokeInvitation(i) \/ Expire(i)

Spec == Init /\ [][Next]_vars

----------------------------------------------------------------------------
(* Properties                                                              *)

\* Every variable holds a value of its type.
TypeOK ==
  /\ member \in [Users -> MemberDocs]
  /\ invitation \in [Invitations -> InvitationDocs]
  /\ request \in [Requests -> RequestRecords]

\* member.service.ts: "An organization must always keep at least one owner."
OwnerRemains == Owners # {}

\* What assertNotLastOwner does guarantee, whichever edits are in flight together: the last
\* owner goes only in the write of an edit that has been overtaken.  Either its target was
\* no owner when it was read, and has been raised since; or somebody else whom it counted
\* has stopped being an owner since.
LastOwnerGuarded ==
  [][Owners # {} /\ Owners' = {} =>
       \E r \in Requests :
         /\ request[r].at = "editSave" /\ request[r].target \in Owners
         /\ \/ request[r].current # "owner"
            \/ \E u \in request[r].seen \ {request[r].target} : u \notin Owners]_vars

\* The upsert and revoke leave an address with one pending invitation at most:
\* an expired one is refreshed and not doubled.
OnePending ==
  \A i, j \in Invitations :
    /\ invitation[i].status = "pending" /\ invitation[j].status = "pending"
    /\ invitation[i].email = invitation[j].email
    => i = j

\* An invitation counts as accepted only for an account that has been a member:
\* accept writes the member document before it marks the invitation.
AcceptedHasJoined ==
  \A i \in Invitations :
    invitation[i].status = "accepted" => member[invitation[i].email].joins > 0

\* An accepted invitation is never revoked and a revoked one never accepted,
\* though accept reads the document two calls before it marks it.  (That a
\* revoked one may still admit the account it races with is history.)
InvitationsAreFinal ==
  [][\A i \in Invitations : invitation[i].status \in {"accepted", "revoked"} =>
       invitation'[i].status = invitation[i].status]_vars

\* Nobody becomes an owner but a member whom another account's role edit raises:
\* no invitation, fresh, refreshed or stale, confers ownership.
OwnershipIsConferred ==
  [][\A u \in Users : (u \notin Owners /\ u \in Owners') =>
       /\ u \in Members
       /\ \E r \in Requests : /\ request[r].at = "editSave"
                               /\ request[r].target = u
                               /\ request[r].actor # u]_vars

\* organization.service.ts: "Enforces the plan's member cap."
MembersWithinPlan == Cardinality(Members) <= MaxMembers
=============================================================================
