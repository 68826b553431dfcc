-------------------------- MODULE MembershipProofs --------------------------
(***************************************************************************)
(* Theorems about module Membership for every value of its constants: the  *)
(* types; that an address has one pending invitation and a finished one    *)
(* stays so; who may count as admitted, who becomes an owner, and how the  *)
(* last owner can be lost.                                                 *)
(***************************************************************************)
EXTENDS Membership, FiniteSetTheorems, TLAPS

Inviting == {"inviteCap", "inviteMember", "inviteSave"}

(* A request that is inviting holds a role an invitation may carry, one    *)
(* that accepts holds a document, and an edit names a member document      *)
(* that exists or existed.                                                 *)
Consistent(q) ==
  /\ q.at \in Inviting => q.role \in AssignableRoles
  /\ q.at \in {"acceptMember", "acceptAdd", "acceptMark"} => q.doc \in Invitations
  /\ q.at \in {"editFind", "editCount", "editSave"} => q.join <= member[q.target].joins

Typed == TypeOK /\ \A r \in Requests : Consistent(request[r])

LEMMA IdleType == Idle \in RequestRecords
BY MembershipAssumption DEF MembershipAssumption, Idle, RequestRecords, Places, Roles

LEMMA BoundType == MaxJoins \in Nat /\ 1 \in 0..MaxJoins
BY MembershipAssumption DEF MembershipAssumption

(* A request that moves on inside its operation, or ends, stays typed.     *)
LEMMA GotoTyped ==
  ASSUME Typed, NEW r \in Requests, NEW place \in Places, Goto(r, place),
         Consistent([request[r] EXCEPT !.at = place]), UNCHANGED member
  PROVE  /\ request' \in [Requests -> RequestRecords]
         /\ \A s \in Requests : Consistent(request[s])'
<1>1. request[r] \in RequestRecords /\ request \in [Requests -> RequestRecords]
  BY DEF Typed, TypeOK
<1>2. request' = [request EXCEPT ![r] = [@ EXCEPT !.at = place]]
  BY <1>1 DEF Goto
<1>3. [request[r] EXCEPT !.at = place] \in RequestRecords
  BY <1>1 DEF RequestRecords
<1>4. \A s \in Requests : Consistent(request[s])'
  BY <1>1, <1>2, <1>3 DEF Consistent, Typed
<1> QED BY <1>1, <1>2, <1>3, <1>4

LEMMA FinishTyped ==
  ASSUME Typed, NEW r \in Requests, Finish(r),
         \A u \in Users : member'[u].joins \in Nat /\ member[u].joins <= member'[u].joins
  PROVE  /\ request' \in [Requests -> RequestRecords]
         /\ \A s \in Requests : Consistent(request[s])'
<1>1. request \in [Requests -> RequestRecords]
  BY DEF Typed, TypeOK
<1>2. request' \in [Requests -> RequestRecords]
  BY <1>1, IdleType DEF Finish
<1>3. ASSUME NEW s \in Requests PROVE Consistent(request[s])'
  <2>1. CASE s = r
    BY <2>1, <1>1 DEF Finish, Consistent, Idle, Inviting
  <2>2. CASE s # r
    <3>1. request'[s] = request[s] /\ request[s].target \in Users /\ request[s].join \in Nat
      BY <2>2, <1>1, BoundType DEF Finish, RequestRecords
    <3>2. member[request[s].target].joins \in Nat
      BY <3>1, BoundType DEF Typed, TypeOK, MemberDocs
    <3>3. Consistent(request[s])
      BY DEF Typed
    <3> QED BY <3>1, <3>2, <3>3 DEF Consistent
  <2> QED BY <2>1, <2>2
<1> QED BY <1>2, <1>3

(* A slot that takes a new request.                                        *)
LEMMA BeginTyped ==
  ASSUME Typed, NEW r \in Requests, NEW q \in RequestRecords,
         request' = [request EXCEPT ![r] = q], Consistent(q), UNCHANGED member
  PROVE  /\ request' \in [Requests -> RequestRecords]
         /\ \A s \in Requests : Consistent(request[s])'
BY DEF Typed, TypeOK, Consistent

(* An edit that goes on: it remembers the role it has read, or the owners  *)
(* it has counted, among whom is another than its target (TwoOwners).      *)
LEMMA TwoOwners ==
  ASSUME TypeOK, ~IsLastOwner, NEW t PROVE \E u \in Owners : u # t
<1>1. IsFiniteSet(Owners)
  BY MembershipAssumption, FS_Subset DEF MembershipAssumption, Owners
<1>2. SUFFICES ASSUME Owners \subseteq {t} PROVE FALSE
  OBVIOUS
<1>3. IsFiniteSet({t}) /\ Cardinality({t}) = 1
  BY FS_Singleton
<1>4. Cardinality(Owners) \in Nat /\ Cardinality(Owners) <= 1
  BY <1>1, <1>2, <1>3, FS_Subset, FS_CardinalityType
<1> QED BY <1>4 DEF IsLastOwner

EditMove(r, q) ==
  /\ q.actor = request[r].actor /\ q.target = request[r].target /\ q.role = request[r].role
  /\ \/ /\ request[r].at = "editFind" /\ q.at \in {"editCount", "editSave"}
        /\ q.role = "none" \/ q.target # q.actor
        /\ q.at = "editSave" => q.current # "owner" \/ q.role = "owner"
     \/ /\ request[r].at = "editCount" /\ q.at = "editSave"
        /\ \E u \in q.seen : u # q.target

LEMMA EditMoves ==
  ASSUME Typed, NEW r \in Requests, FindTarget(r) \/ CountOwners(r), ~Finish(r)
  PROVE  \E q \in RequestRecords :
           request' = [request EXCEPT ![r] = q] /\ Consistent(q) /\ EditMove(r, q)
<1>1. /\ request \in [Requests -> RequestRecords] /\ request[r] \in RequestRecords
      /\ member \in [Users -> MemberDocs] /\ Consistent(request[r])
  BY DEF Typed, TypeOK
<1>2. CASE FindTarget(r)
  <2> DEFINE t == request[r].target
             place == IF member[t].role = "owner" /\ request[r].role # "owner"
                      THEN "editCount" ELSE "editSave"
             q == [request[r] EXCEPT !.at = place, !.current = member[t].role]
  <2>1. request' = [request EXCEPT ![r] = q]
    BY <1>1, <1>2 DEF FindTarget
  <2>2. t \in Users /\ member[t].role \in Roles \cup {"none"}
    BY <1>1 DEF RequestRecords, MemberDocs
  <2>3. place \in {"editCount", "editSave"} /\ request[r].at = "editFind"
    BY <1>2 DEF FindTarget
  <2>4. /\ q \in RequestRecords
        /\ q.at = place /\ q.current = member[t].role /\ q.actor = request[r].actor
        /\ q.target = t /\ q.role = request[r].role /\ q.join = request[r].join
    BY <1>1, <2>2, <2>3 DEF RequestRecords, Places
  <2>5. request[r].role = "none" \/ t # request[r].actor
    BY <1>2 DEF FindTarget
  <2>6. place = "editSave" => member[t].role # "owner" \/ request[r].role = "owner"
    OBVIOUS
  <2> HIDE DEF q, place, t
  <2>7. Consistent(q)
    BY <1>1, <2>3, <2>4 DEF Consistent, Inviting, t
  <2>8. EditMove(r, q)
    BY <2>3, <2>4, <2>5, <2>6 DEF EditMove, t
  <2> QED BY <2>1, <2>4, <2>7, <2>8
<1>3. CASE CountOwners(r)
  <2> DEFINE q == [request[r] EXCEPT !.at = "editSave", !.seen = Owners]
  <2>1. request' = [request EXCEPT ![r] = q] /\ ~IsLastOwner /\ request[r].at = "editCount"
    BY <1>1, <1>3 DEF CountOwners
  <2>2. /\ q \in RequestRecords
        /\ q.at = "editSave" /\ q.seen = Owners /\ q.actor = request[r].actor
        /\ q.target = request[r].target /\ q.role = request[r].role /\ q.join = request[r].join
    BY <1>1 DEF RequestRecords, Places, Owners
  <2>3. \E u \in Owners : u # request[r].target
    BY <2>1, TwoOwners DEF Typed
  <2> HIDE DEF q
  <2>4. Consistent(q)
    BY <1>1, <2>1, <2>2 DEF Consistent, Inviting
  <2>5. EditMove(r, q)
    BY <2>1, <2>2, <2>3 DEF EditMove
  <2> QED BY <2>1, <2>2, <2>4, <2>5
<1> QED BY <1>2, <1>3

LEMMA TypedInit == Init => Typed
<1> SUFFICES ASSUME Init PROVE Typed
  OBVIOUS
<1>1. member \in [Users -> MemberDocs]
  BY BoundType DEF Init, MemberDocs, Roles
<1>2. invitation \in [Invitations -> InvitationDocs]
  BY MembershipAssumption DEF MembershipAssumption, Init, Unused, InvitationDocs, AssignableRoles
<1>3. request \in [Requests -> RequestRecords]
  BY IdleType DEF Init
<1>4. \A r \in Requests : Consistent(request[r])
  BY DEF Init, Idle, Consistent, Inviting
<1> QED BY <1>1, <1>2, <1>3, <1>4 DEF Typed, TypeOK

LEMMA TypedStep == Typed /\ [Next]_vars => Typed'
<1> SUFFICES ASSUME Typed, [Next]_vars PROVE Typed'
  OBVIOUS
<1> DEFINE Requested == /\ request' \in [Requests -> RequestRecords]
                        /\ \A s \in Requests : Consistent(request[s])'
<1>0. /\ TypeOK
      /\ member \in [Users -> MemberDocs]
      /\ invitation \in [Invitations -> InvitationDocs]
      /\ \A r \in Requests : request[r] \in RequestRecords /\ Consistent(request[r])
  BY DEF Typed, TypeOK
<1>1. ASSUME member' = member PROVE
        \A u \in Users : member'[u].joins \in Nat /\ member[u].joins <= member'[u].joins
  BY <1>0, <1>1, BoundType DEF MemberDocs
<1>2. ASSUME Requested, member' = member, invitation' = invitation PROVE Typed'
  BY <1>0, <1>2 DEF Typed, TypeOK
<1>3. ASSUME NEW r \in Requests, BeginInvite(r) PROVE Typed'
  <2>1. PICK email \in Users, role \in AssignableRoles :
          request' = [request EXCEPT ![r] = [Idle EXCEPT
                        !.at = "inviteCap", !.target = email, !.role = role]]
    BY <1>3 DEF BeginInvite
  <2> DEFINE q == [Idle EXCEPT !.at = "inviteCap", !.target = email, !.role = role]
  <2>2. q \in RequestRecords /\ Consistent(q)
    BY IdleType DEF RequestRecords, Places, AssignableRoles, Roles, Consistent, Inviting, Idle
  <2>3. request' = [request EXCEPT ![r] = q] /\ UNCHANGED <<member, invitation>>
    BY <2>1, <1>3 DEF BeginInvite
  <2> HIDE DEF q
  <2> QED BY <2>2, <2>3, BeginTyped, <1>2
<1>4. ASSUME NEW r \in Requests, CheckCap(r) PROVE Typed'
  <2>1. Consistent([request[r] EXCEPT !.at = "inviteMember"])
    BY <1>0, <1>4 DEF CheckCap, Consistent, Inviting, RequestRecords
  <2>2. CASE Goto(r, "inviteMember")
    BY <2>1, <2>2, <1>4, GotoTyped, <1>2 DEF CheckCap, Places
  <2>3. CASE Finish(r)
    BY <2>3, <1>4, FinishTyped, <1>1, <1>2 DEF CheckCap
  <2> QED BY <2>2, <2>3, <1>4 DEF CheckCap
<1>5. ASSUME NEW r \in Requests, CheckNotMember(r) PROVE Typed'
  <2>1. Consistent([request[r] EXCEPT !.at = "inviteSave"])
    BY <1>0, <1>5 DEF CheckNotMember, Consistent, Inviting, RequestRecords
  <2>2. CASE Goto(r, "inviteSave")
    BY <2>1, <2>2, <1>5, GotoTyped, <1>2 DEF CheckNotMember, Places
  <2>3. CASE Finish(r)
    BY <2>3, <1>5, FinishTyped, <1>1, <1>2 DEF CheckNotMember
  <2> QED BY <2>2, <2>3, <1>5 DEF CheckNotMember
<1>6. ASSUME NEW r \in Requests, SaveInvitation(r) PROVE Typed'
  <2>1. Requested
    BY <1>6, FinishTyped, <1>1 DEF SaveInvitation
  <2>2. request[r].target \in Users /\ request[r].role \in AssignableRoles
    BY <1>0, <1>6 DEF SaveInvitation, Consistent, Inviting, RequestRecords
  <2>3. PICK i \in Invitations :
          invitation' = [invitation EXCEPT
                           ![i] = [@ EXCEPT !.status = "pending", !.email = request[r].target,
                                            !.role = request[r].role, !.expired = FALSE]]
    BY <1>6 DEF SaveInvitation, PendingFor
  <2>4. invitation' \in [Invitations -> InvitationDocs]
    BY <1>0, <2>2, <2>3 DEF InvitationDocs, AssignableRoles
  <2> QED BY <1>0, <1>6, <2>1, <2>4 DEF Typed, TypeOK, SaveInvitation
<1>7. ASSUME NEW r \in Requests, BeginAccept(r) PROVE Typed'
  <2>1. PICK i \in Invitations :
          request' = [request EXCEPT ![r] = [Idle EXCEPT
                        !.at = "acceptMember", !.actor = invitation[i].email,
                        !.role = invitation[i].role, !.doc = i]]
    BY <1>7 DEF BeginAccept
  <2> DEFINE q == [Idle EXCEPT !.at = "acceptMember", !.actor = invitation[i].email,
                               !.role = invitation[i].role, !.doc = i]
  <2>2. invitation[i].email \in Users /\ invitation[i].role \in Roles
    BY <1>0 DEF InvitationDocs, AssignableRoles, Roles
  <2>3. q \in RequestRecords /\ Consistent(q)
    BY <2>2, IdleType DEF RequestRecords, Places, Consistent, Inviting, Idle
  <2>4. request' = [request EXCEPT ![r] = q] /\ UNCHANGED <<member, invitation>>
    BY <2>1, <1>7 DEF BeginAccept
  <2> HIDE DEF q
  <2> QED BY <2>3, <2>4, BeginTyped, <1>2
<1>8. ASSUME NEW r \in Requests, AcceptIsMember(r) PROVE Typed'
  <2> DEFINE place == IF request[r].actor \in Members THEN "acceptMark" ELSE "acceptAdd"
  <2>1. place \in Places /\ Consistent([request[r] EXCEPT !.at = place])
    BY <1>0, <1>8 DEF AcceptIsMember, Places, Consistent, Inviting, RequestRecords
  <2>2. Goto(r, place) /\ UNCHANGED <<member, invitation>>
    BY <1>8 DEF AcceptIsMember
  <2> HIDE DEF place
  <2> QED BY <2>1, <2>2, GotoTyped, <1>2
<1>9. ASSUME NEW r \in Requests, AddMember(r) PROVE Typed'
  <2>1. CASE Finish(r) /\ UNCHANGED <<member, invitation>>
    BY <2>1, FinishTyped, <1>1, <1>2
  <2>2. CASE /\ request[r].at = "acceptAdd"
             /\ member[request[r].actor].joins < MaxJoins
             /\ member' = [member EXCEPT ![request[r].actor] =
                             [role |-> request[r].role, joins |-> @.joins + 1]]
             /\ Goto(r, "acceptMark") /\ UNCHANGED invitation
    <3> DEFINE user == request[r].actor
    <3>1. user \in Users /\ request[r].role \in Roles \cup {"none"}
      BY <1>0 DEF RequestRecords
    <3>2. member[user].joins + 1 \in 0..MaxJoins
      BY <1>0, <2>2, <3>1, BoundType DEF MemberDocs
    <3>3. member' \in [Users -> MemberDocs]
      BY <1>0, <2>2, <3>1, <3>2 DEF MemberDocs
    <3>4. \A u \in Users : member'[u].joins \in Nat /\ member[u].joins <= member'[u].joins
      BY <1>0, <2>2, <3>1, <3>2, BoundType DEF MemberDocs
    <3>5. request' = [request EXCEPT ![r] = [@ EXCEPT !.at = "acceptMark"]]
      BY <2>2 DEF Goto
    <3>6. request' \in [Requests -> RequestRecords]
      BY <1>0, <3>5 DEF Typed, TypeOK, RequestRecords, Places
    <3>7. ASSUME NEW s \in Requests PROVE Consistent(request[s])'
      <4>1. CASE s = r
        BY <4>1, <1>0, <2>2, <3>5 DEF Consistent, Inviting, RequestRecords, TypeOK
      <4>2. CASE s # r
        <5>1. request'[s] = request[s] /\ request[s].target \in Users /\ request[s].join \in Nat
          BY <4>2, <1>0, <3>5, BoundType DEF RequestRecords, TypeOK
        <5>2. member[request[s].target].joins \in Nat
          BY <5>1, <1>0, BoundType DEF MemberDocs
        <5> QED BY <5>1, <5>2, <1>0, <3>4 DEF Consistent
      <4> QED BY <4>1, <4>2
    <3> QED BY <1>0, <2>2, <3>3, <3>6, <3>7 DEF Typed, TypeOK
  <2> QED BY <1>9, <2>1, <2>2 DEF AddMember
<1>10. ASSUME NEW r \in Requests, MarkAccepted(r) PROVE Typed'
  <2>1. Requested
    BY <1>10, FinishTyped, <1>1 DEF MarkAccepted
  <2>2. invitation' \in [Invitations -> InvitationDocs]
    BY <1>0, <1>10 DEF MarkAccepted, InvitationDocs, Consistent
  <2> QED BY <1>0, <1>10, <2>1, <2>2 DEF Typed, TypeOK, MarkAccepted
<1>11. ASSUME NEW r \in Requests, BeginEdit(r) PROVE Typed'
  <2>1. PICK actor \in Members, target \in Members, role \in Roles \cup {"none"} :
          request' = [request EXCEPT ![r] = [Idle EXCEPT
                        !.at = "editFind", !.actor = actor,
                        !.actorRole = member[actor].role, !.target = target,
                        !.join = member[target].joins, !.role = role]]
    BY <1>11 DEF BeginEdit
  <2> DEFINE q == [Idle EXCEPT !.at = "editFind", !.actor = actor,
                               !.actorRole = member[actor].role, !.target = target,
                               !.join = member[target].joins, !.role = role]
  <2>2. /\ actor \in Users /\ target \in Users
        /\ member[actor].role \in Roles \cup {"none"} /\ member[target].joins \in 0..MaxJoins
    BY <1>0 DEF Members, MemberDocs
  <2>3. q \in RequestRecords
    BY <2>2, IdleType DEF RequestRecords, Places
  <2>4. Consistent(q)
    BY <2>2, BoundType DEF Consistent, Inviting, Idle
  <2>5. request' = [request EXCEPT ![r] = q] /\ UNCHANGED <<member, invitation>>
    BY <2>1, <1>11 DEF BeginEdit
  <2> HIDE DEF q
  <2> QED BY <2>3, <2>4, <2>5, BeginTyped, <1>2
<1>12. ASSUME NEW r \in Requests, FindTarget(r) \/ CountOwners(r) PROVE Typed'
  <2>1. CASE Finish(r)
    BY <2>1, <1>12, FinishTyped, <1>1, <1>2 DEF FindTarget, CountOwners
  <2>2. CASE ~Finish(r)
    <3>1. PICK q \in RequestRecords : request' = [request EXCEPT ![r] = q] /\ Consistent(q)
      BY <2>2, <1>12, EditMoves
    <3> QED BY <3>1, <1>12, BeginTyped, <1>2 DEF FindTarget, CountOwners
  <2> QED BY <2>1, <2>2
<1>14. ASSUME NEW r \in Requests, SaveEdit(r) PROVE Typed'
  <2>1. request[r].role \in Roles \cup {"none"}
    BY <1>0 DEF RequestRecords
  <2>2. member' \in [Users -> MemberDocs]
    BY <1>0, <1>14, <2>1 DEF SaveEdit, MemberDocs
  <2>3. \A u \in Users : member'[u].joins \in Nat /\ member[u].joins <= member'[u].joins
    BY <1>0, <1>14, BoundType DEF SaveEdit, MemberDocs
  <2>4. Requested
    BY <1>14, <2>3, FinishTyped DEF SaveEdit
  <2> QED BY <1>0, <1>14, <2>2, <2>4 DEF Typed, TypeOK, SaveEdit
<1>15. ASSUME NEW r \in Requests, Abandon(r) PROVE Typed'
  BY <1>15, FinishTyped, <1>1, <1>2 DEF Abandon
<1>16. ASSUME NEW i \in Invitations, RevokeInvitation(i) \/ Expire(i) PROVE Typed'
  <2>1. invitation' \in [Invitations -> InvitationDocs]
    BY <1>0, <1>16 DEF RevokeInvitation, Expire, InvitationDocs
  <2>2. member' = member /\ request' = request
    BY <1>16 DEF RevokeInvitation, Expire
  <2> QED BY <1>0, <2>1, <2>2 DEF Typed, TypeOK, Consistent
<1>17. CASE UNCHANGED vars
  BY <1>0, <1>17 DEF vars, Typed, TypeOK, Consistent
<1> QED BY <1>3, <1>4, <1>5, <1>6, <1>7, <1>8, <1>9, <1>10, <1>11, <1>12, <1>14,
          <1>15, <1>16, <1>17 DEF Next

(* In every reachable state every variable of the membership handlers      *)
(* holds a value of its type.                                              *)
THEOREM MembershipTyped == Spec => []TypeOK
<1>1. Typed => TypeOK
  BY DEF Typed
<1> QED BY <1>1, TypedInit, TypedStep, PTL DEF Spec

-----------------------------------------------------------------------------
(* Invitations.  One pending document per address; what has been accepted  *)
(* or revoked stays so.                                                    *)

LEMMA InvitationWriters ==
  ASSUME [Next]_vars
  PROVE  \/ UNCHANGED invitation
         \/ \E r \in Requests : SaveInvitation(r) \/ MarkAccepted(r)
         \/ \E i \in Invitations : RevokeInvitation(i) \/ Expire(i)
BY DEF Next, vars, BeginInvite, CheckCap, CheckNotMember, BeginAccept, AcceptIsMember, AddMember,
       BeginEdit, FindTarget, CountOwners, SaveEdit, Abandon

(* The upsert writes one document: the pending one of its address, or an   *)
(* unused one when the address has none.                                   *)
LEMMA SaveEffect ==
  ASSUME Typed, NEW r \in Requests, SaveInvitation(r)
  PROVE  \E i \in Invitations :
           /\ \/ invitation[i].status = "pending" /\ invitation[i].email = request[r].target
              \/ invitation[i].status = "unused" /\ PendingFor(request[r].target) = {}
           /\ invitation'[i].status = "pending" /\ invitation'[i].email = request[r].target
           /\ \A j \in Invitations \ {i} : invitation'[j] = invitation[j]
<1>1. invitation \in [Invitations -> InvitationDocs] /\ request[r].target \in Users
  BY DEF Typed, TypeOK, RequestRecords
<1>2. PICK i \in IF PendingFor(request[r].target) # {} THEN PendingFor(request[r].target)
                 ELSE {j \in Invitations : invitation[j].status = "unused"} :
        invitation' = [invitation EXCEPT
                         ![i] = [@ EXCEPT !.status = "pending", !.email = request[r].target,
                                          !.role = request[r].role, !.expired = FALSE]]
  BY DEF SaveInvitation
<1>3. /\ i \in Invitations
      /\ \/ invitation[i].status = "pending" /\ invitation[i].email = request[r].target
         \/ invitation[i].status = "unused" /\ PendingFor(request[r].target) = {}
  BY <1>2 DEF PendingFor
<1>4. /\ invitation'[i].status = "pending" /\ invitation'[i].email = request[r].target
      /\ \A j \in Invitations \ {i} : invitation'[j] = invitation[j]
  BY <1>1, <1>2, <1>3 DEF InvitationDocs
<1> QED BY <1>3, <1>4

(* The other writers end a pending document, or mark it expired.           *)
LEMMA EndEffect ==
  ASSUME Typed, NEW k \in Invitations,
         \/ \E r \in Requests : MarkAccepted(r) /\ request[r].doc = k
         \/ RevokeInvitation(k) \/ Expire(k)
  PROVE  \A i \in Invitations :
           /\ invitation'[i].email = invitation[i].email
           /\ invitation'[i].status = invitation[i].status
              \/ (invitation[i].status = "pending" /\ invitation'[i].status \in {"accepted", "revoked"})
<1>1. invitation \in [Invitations -> InvitationDocs]
  BY DEF Typed, TypeOK
<1>2. CASE \E r \in Requests : MarkAccepted(r) /\ request[r].doc = k
  BY <1>1, <1>2 DEF MarkAccepted, AcceptMatches, InvitationDocs
<1>3. CASE RevokeInvitation(k) \/ Expire(k)
  BY <1>1, <1>3 DEF RevokeInvitation, Expire, InvitationDocs
<1> QED BY <1>2, <1>3

(* Both together: a document in use keeps its address, and its status      *)
(* moves from pending to accepted or revoked and no further.               *)
LEMMA InvitationSteps ==
  ASSUME Typed, [Next]_vars
  PROVE  \/ \E r \in Requests : SaveInvitation(r)
         \/ \A i \in Invitations :
              /\ invitation'[i].email = invitation[i].email
              /\ invitation'[i].status = invitation[i].status
                 \/ (invitation[i].status = "pending" /\ invitation'[i].status \in {"accepted", "revoked"})
<1>1. ASSUME NEW r \in Requests, MarkAccepted(r) PROVE request[r].doc \in Invitations
  BY <1>1 DEF Typed, Consistent, MarkAccepted
<1> QED BY <1>1, InvitationWriters, EndEffect

(* However invitations are sent again, expire, are revoked and accepted,   *)
(* an address never has two that are pending.                              *)
THEOREM OneIsPending == Spec => []OnePending
<1>1. Init => OnePending
  BY DEF Init, Unused, OnePending
<1>2. Typed /\ OnePending /\ [Next]_vars => OnePending'
  <2> SUFFICES ASSUME Typed, OnePending, [Next]_vars PROVE OnePending'
    OBVIOUS
  <2>1. ASSUME NEW r \in Requests, SaveInvitation(r) PROVE OnePending'
    <3>1. PICK i \in Invitations :
            /\ \/ invitation[i].status = "pending" /\ invitation[i].email = request[r].target
               \/ invitation[i].status = "unused" /\ PendingFor(request[r].target) = {}
            /\ invitation'[i].status = "pending" /\ invitation'[i].email = request[r].target
            /\ \A j \in Invitations \ {i} : invitation'[j] = invitation[j]
      BY <2>1, SaveEffect
    <3>2. \A j \in Invitations \ {i} :
            ~(invitation[j].status = "pending" /\ invitation[j].email = request[r].target)
      BY <3>1 DEF OnePending, PendingFor
    <3> QED BY <3>1, <3>2 DEF OnePending
  <2> QED BY <2>1, InvitationSteps DEF OnePending
<1> QED BY <1>1, <1>2, TypedInit, TypedStep, PTL DEF Spec

(* An accepted invitation is never revoked, nor a revoked one accepted, by *)
(* whatever requests have read it before.                                  *)
THEOREM FinalInvitations == Spec => InvitationsAreFinal
<1>1. Typed /\ [Next]_vars =>
        [\A i \in Invitations : invitation[i].status \in {"accepted", "revoked"} =>
           invitation'[i].status = invitation[i].status]_vars
  BY InvitationSteps, SaveEffect
<1> QED BY <1>1, TypedInit, TypedStep, PTL DEF Spec, InvitationsAreFinal

-----------------------------------------------------------------------------
(* Admission.  What a request that accepts has read stays true of the      *)
(* document it holds, and the role it brings is one an invitation may      *)
(* carry; past the rank checks, an edit that gives a role is about         *)
(* somebody else, and one that takes ownership away has counted another    *)
(* owner.                                                                  *)

Admitted(q) ==
  /\ q.at \in {"acceptMember", "acceptAdd", "acceptMark"} =>
       /\ q.role \in AssignableRoles
       /\ invitation[q.doc].status # "unused" /\ invitation[q.doc].email = q.actor
  /\ q.at = "acceptMark" => member[q.actor].joins > 0
  /\ q.at \in {"editCount", "editSave"} => q.role = "none" \/ q.target # q.actor
  /\ q.at = "editSave" /\ q.current = "owner" /\ q.role # "owner" =>
       \E u \in q.seen : u # q.target

MembersHaveJoined == \A u \in Users : member[u].role # "none" => member[u].joins > 0

AdmissionInv ==
  /\ AcceptedHasJoined /\ MembersHaveJoined
  /\ \A r \in Requests : Admitted(request[r])

(* What the requests that do not move rely on: nobody's joins are taken    *)
(* back, and a document in use keeps its address.                          *)
Onward ==
  /\ \A u \in Users : member[u].joins > 0 => member'[u].joins > 0
  /\ \A i \in Invitations : invitation[i].status # "unused" =>
       invitation'[i].status # "unused" /\ invitation'[i].email = invitation[i].email

LEMMA MemberWriters ==
  ASSUME [Next]_vars
  PROVE  UNCHANGED member \/ \E r \in Requests : AddMember(r) \/ SaveEdit(r)
BY DEF Next, vars, BeginInvite, CheckCap, CheckNotMember, SaveInvitation, BeginAccept,
       AcceptIsMember, MarkAccepted, BeginEdit, FindTarget, CountOwners, Abandon,
       RevokeInvitation, Expire

(* What the two writers of member documents do to an account.              *)
LEMMA AddEffect ==
  ASSUME Typed, NEW r \in Requests, AddMember(r)
  PROVE  \/ UNCHANGED member /\ Finish(r)
         \/ /\ Goto(r, "acceptMark")
            /\ member'[request[r].actor].role = request[r].role
            /\ member'[request[r].actor].joins > 0
            /\ \A u \in Users \ {request[r].actor} : member'[u] = member[u]
<1>1. member \in [Users -> MemberDocs] /\ request[r].actor \in Users
  BY DEF Typed, TypeOK, RequestRecords
<1>2. member[request[r].actor].joins \in Nat
  BY <1>1, BoundType DEF MemberDocs
<1> QED BY <1>1, <1>2 DEF AddMember

LEMMA EditEffect ==
  ASSUME Typed, NEW r \in Requests, SaveEdit(r)
  PROVE  \/ UNCHANGED member
         \/ /\ request[r].target \in Members
            /\ member'[request[r].target].role = request[r].role
            /\ member'[request[r].target].joins = member[request[r].target].joins
            /\ \A u \in Users \ {request[r].target} : member'[u] = member[u]
<1>1. member \in [Users -> MemberDocs] /\ request[r].target \in Users
  BY DEF Typed, TypeOK, RequestRecords
<1> QED BY <1>1 DEF SaveEdit, Present, MemberDocs

LEMMA StepOnward == ASSUME Typed, [Next]_vars PROVE Onward
<1>1. \A u \in Users : member[u].joins > 0 => member'[u].joins > 0
  BY MemberWriters, AddEffect, EditEffect
<1>2. \A i \in Invitations : invitation[i].status # "unused" =>
        invitation'[i].status # "unused" /\ invitation'[i].email = invitation[i].email
  BY InvitationSteps, SaveEffect
<1> QED BY <1>1, <1>2 DEF Onward

LEMMA StillAdmitted ==
  ASSUME Typed, Onward, NEW r \in Requests, Admitted(request[r]), request'[r] = request[r]
  PROVE  Admitted(request[r])'
<1>1. /\ request[r].actor \in Users
      /\ request[r].at \in {"acceptMember", "acceptAdd", "acceptMark"} => request[r].doc \in Invitations
  BY DEF Typed, TypeOK, RequestRecords, Consistent
<1> QED BY <1>1 DEF Onward, Admitted

(* A request that ends, or has only begun, has admitted nobody.            *)
LEMMA EndAdmitted ==
  ASSUME Typed, NEW r \in Requests, Finish(r) PROVE Admitted(request[r])'
<1>1. request'[r] = Idle
  BY DEF Typed, TypeOK, Finish
<1> QED BY <1>1 DEF Admitted, Idle

LEMMA GotoMoves ==
  ASSUME Typed, NEW r \in Requests, NEW place \in Places, Goto(r, place)
  PROVE  request'[r] = [request[r] EXCEPT !.at = place] /\ request'[r].at = place
BY DEF Typed, TypeOK, Goto, RequestRecords

LEMMA AdmissionInit == Init => AdmissionInv
<1> SUFFICES ASSUME Init PROVE AdmissionInv
  OBVIOUS
<1>1. AcceptedHasJoined /\ MembersHaveJoined
  BY DEF Init, Unused, AcceptedHasJoined, MembersHaveJoined
<1>2. \A r \in Requests : Admitted(request[r])
  BY DEF Init, Idle, Admitted
<1> QED BY <1>1, <1>2 DEF AdmissionInv

(* The steps of one request, one case per action.                          *)
LEMMA AdmittedStep ==
  ASSUME Typed, AdmissionInv, [Next]_vars, NEW r \in Requests
  PROVE  Admitted(request[r])'
<1>0. /\ Admitted(request[r]) /\ Consistent(request[r]) /\ request[r] \in RequestRecords
      /\ request \in [Requests -> RequestRecords]
      /\ invitation \in [Invitations -> InvitationDocs]
  BY DEF AdmissionInv, Typed, TypeOK
<1>1. CASE request'[r] = request[r]
  BY <1>0, <1>1, StepOnward, StillAdmitted
<1>2. CASE Finish(r)
  BY <1>2, EndAdmitted
<1>3. ASSUME BeginInvite(r) \/ CheckCap(r) \/ CheckNotMember(r) \/ SaveInvitation(r)
      PROVE  Admitted(request[r])'
  <2>1. CASE \E place \in {"inviteMember", "inviteSave"} : Goto(r, place)
    BY <2>1, GotoMoves DEF Places, Admitted
  <2>2. CASE BeginInvite(r)
    BY <2>2, <1>0 DEF BeginInvite, Idle, Admitted
  <2> QED BY <1>2, <1>3, <2>1, <2>2 DEF CheckCap, CheckNotMember, SaveInvitation
<1>4. ASSUME BeginAccept(r) PROVE Admitted(request[r])'
  <2>1. PICK i \in Invitations :
          /\ invitation[i].status = "pending"
          /\ request' = [request EXCEPT ![r] = [Idle EXCEPT
                           !.at = "acceptMember", !.actor = invitation[i].email,
                           !.role = invitation[i].role, !.doc = i]]
    BY <1>4 DEF BeginAccept
  <2>2. /\ request'[r].at = "acceptMember" /\ request'[r].actor = invitation[i].email
        /\ request'[r].role = invitation[i].role /\ request'[r].doc = i
    BY <1>0, <2>1 DEF Idle
  <2>3. invitation[i].role \in AssignableRoles /\ invitation' = invitation
    BY <1>0, <1>4 DEF InvitationDocs, AssignableRoles, BeginAccept
  <2> QED BY <2>1, <2>2, <2>3 DEF Admitted
<1>5. ASSUME AcceptIsMember(r) PROVE Admitted(request[r])'
  <2>1. UNCHANGED <<member, invitation>> /\ request[r].at = "acceptMember"
    BY <1>5 DEF AcceptIsMember
  <2>2. CASE request[r].actor \in Members /\ Goto(r, "acceptMark")
    <3>1. /\ request'[r].at = "acceptMark" /\ request'[r].role = request[r].role
          /\ request'[r].actor = request[r].actor /\ request'[r].doc = request[r].doc
      BY <1>0, <2>2, GotoMoves DEF Places, RequestRecords
    <3>2. member[request[r].actor].joins > 0
      BY <2>2 DEF Members, AdmissionInv, MembersHaveJoined
    <3> QED BY <1>0, <2>1, <3>1, <3>2 DEF Admitted
  <2>3. CASE Goto(r, "acceptAdd")
    <3>1. /\ request'[r].at = "acceptAdd" /\ request'[r].role = request[r].role
          /\ request'[r].actor = request[r].actor /\ request'[r].doc = request[r].doc
      BY <1>0, <2>3, GotoMoves DEF Places, RequestRecords
    <3> QED BY <1>0, <2>1, <3>1 DEF Admitted
  <2> QED BY <1>5, <2>2, <2>3 DEF AcceptIsMember
<1>6. ASSUME AddMember(r) PROVE Admitted(request[r])'
  <2>1. request[r].at = "acceptAdd" /\ invitation' = invitation
    BY <1>6 DEF AddMember
  <2>2. CASE Goto(r, "acceptMark") /\ member'[request[r].actor].joins > 0
    <3>1. /\ request'[r].at = "acceptMark" /\ request'[r].role = request[r].role
          /\ request'[r].actor = request[r].actor /\ request'[r].doc = request[r].doc
      BY <1>0, <2>2, GotoMoves DEF Places, RequestRecords
    <3> QED BY <1>0, <2>1, <2>2, <3>1 DEF Admitted
  <2> QED BY <1>2, <1>6, <2>2, AddEffect
<1>7. ASSUME BeginEdit(r) PROVE Admitted(request[r])'
  BY <1>0, <1>7 DEF BeginEdit, Idle, Admitted
<1>8. ASSUME FindTarget(r) \/ CountOwners(r), ~Finish(r) PROVE Admitted(request[r])'
  <2>1. PICK q \in RequestRecords : request' = [request EXCEPT ![r] = q] /\ EditMove(r, q)
    BY <1>8, EditMoves
  <2>2. request'[r] = q
    BY <1>0, <2>1
  <2>3. q.role = "none" \/ q.target # q.actor
    BY <1>0, <2>1 DEF EditMove, Admitted
  <2> QED BY <2>1, <2>2, <2>3 DEF EditMove, Admitted
<1>10. ASSUME MarkAccepted(r) \/ SaveEdit(r) \/ Abandon(r) PROVE Finish(r)
  BY <1>10 DEF MarkAccepted, SaveEdit, Abandon
<1>11. ASSUME NEW s \in Requests, s # r,
              \/ BeginInvite(s) \/ CheckCap(s) \/ CheckNotMember(s) \/ SaveInvitation(s)
              \/ BeginAccept(s) \/ AcceptIsMember(s) \/ AddMember(s) \/ MarkAccepted(s)
              \/ BeginEdit(s) \/ FindTarget(s) \/ CountOwners(s) \/ SaveEdit(s)
              \/ Abandon(s)
       PROVE  request'[r] = request[r]
  BY <1>0, <1>11 DEF BeginInvite, CheckCap, CheckNotMember, SaveInvitation, BeginAccept,
         AcceptIsMember, AddMember, MarkAccepted, BeginEdit, FindTarget, CountOwners, SaveEdit,
         Abandon, Goto, Finish
<1>12. ASSUME UNCHANGED vars \/ \E i \in Invitations : RevokeInvitation(i) \/ Expire(i)
       PROVE  request'[r] = request[r]
  BY <1>12 DEF vars, RevokeInvitation, Expire
<1> QED BY <1>1, <1>2, <1>3, <1>4, <1>5, <1>6, <1>7, <1>8, <1>10, <1>11, <1>12 DEF Next

LEMMA AdmissionStep == Typed /\ AdmissionInv /\ [Next]_vars => AdmissionInv'
<1> SUFFICES ASSUME Typed, AdmissionInv, [Next]_vars PROVE AdmissionInv'
  OBVIOUS
<1>0. /\ Onward /\ \A r \in Requests : Admitted(request[r])
      /\ AcceptedHasJoined /\ MembersHaveJoined
      /\ \A r \in Requests : request[r] \in RequestRecords /\ Consistent(request[r])
  BY StepOnward DEF AdmissionInv, Typed, TypeOK
<1>1. \A r \in Requests : Admitted(request[r])'
  BY AdmittedStep
<1>2. MembersHaveJoined'
  BY <1>0, MemberWriters, AddEffect, EditEffect DEF MembersHaveJoined, Onward, Members
<1>3. AcceptedHasJoined'
  <2>1. ASSUME NEW i \in Invitations, invitation'[i].status = "accepted",
               invitation[i].status # "accepted"
        PROVE  \E r \in Requests : MarkAccepted(r) /\ request[r].doc = i
    <3>1. invitation \in [Invitations -> InvitationDocs]
      BY DEF Typed, TypeOK
    <3>2. ASSUME NEW r \in Requests, SaveInvitation(r) PROVE FALSE
      BY <2>1, <3>2, SaveEffect
    <3>3. ASSUME NEW j \in Invitations, RevokeInvitation(j) \/ Expire(j) PROVE FALSE
      BY <2>1, <3>1, <3>3 DEF RevokeInvitation, Expire, InvitationDocs
    <3>4. ASSUME NEW r \in Requests, MarkAccepted(r), request[r].doc # i PROVE FALSE
      BY <2>1, <3>1, <3>4 DEF MarkAccepted
    <3> QED BY <2>1, <3>2, <3>3, <3>4, InvitationWriters
  <2>2. ASSUME NEW i \in Invitations, invitation'[i].status = "accepted"
        PROVE  member'[invitation'[i].email].joins > 0
    <3>1. invitation[i].email \in Users
      BY DEF Typed, TypeOK, InvitationDocs
    <3>2. CASE invitation[i].status = "accepted"
      BY <1>0, <2>2, <3>1, <3>2 DEF Onward, AcceptedHasJoined
    <3>3. CASE invitation[i].status # "accepted"
      <4>1. PICK r \in Requests : MarkAccepted(r) /\ request[r].doc = i
        BY <2>1, <2>2, <3>3
      <4>2. request[r].at = "acceptMark"
        BY <4>1 DEF MarkAccepted
      <4>3. /\ invitation[i].status # "unused" /\ invitation[i].email = request[r].actor
            /\ member[request[r].actor].joins > 0
        BY <1>0, <4>1, <4>2 DEF Admitted
      <4> QED BY <1>0, <3>1, <4>3 DEF Onward
    <3> QED BY <3>2, <3>3
  <2> QED BY <2>2 DEF AcceptedHasJoined
<1> QED BY <1>1, <1>2, <1>3 DEF AdmissionInv

(* An invitation counts as accepted only for an account that has been a    *)
(* member, whichever calls of accept fail and whatever runs between them.  *)
THEOREM AcceptedAfterJoining == Spec => []AcceptedHasJoined
<1>1. AdmissionInv => AcceptedHasJoined
  BY DEF AdmissionInv
<1> QED BY <1>1, TypedInit, TypedStep, AdmissionInit, AdmissionStep, PTL DEF Spec

(* Whoever becomes an owner was a member and is raised by a role edit that *)
(* another account asked for.                                              *)
THEOREM OwnershipConferred == Spec => OwnershipIsConferred
<1> DEFINE Conferred ==
      \A u \in Users : (u \notin Owners /\ u \in Owners') =>
        /\ u \in Members
        /\ \E r \in Requests : /\ request[r].at = "editSave"
                                /\ request[r].target = u
                                /\ request[r].actor # u
<1>1. Typed /\ AdmissionInv /\ [Next]_vars => [Conferred]_vars
  <2> SUFFICES ASSUME Typed, AdmissionInv, [Next]_vars,
                      NEW u \in Users, u \notin Owners, u \in Owners'
               PROVE  /\ u \in Members
                      /\ \E r \in Requests : /\ request[r].at = "editSave"
                                              /\ request[r].target = u
                                              /\ request[r].actor # u
    OBVIOUS
  <2>0. \A r \in Requests : Admitted(request[r])
    BY DEF AdmissionInv
  <2>1. member[u].role # "owner" /\ member'[u].role = "owner"
    BY DEF Owners
  <2>2. ASSUME NEW r \in Requests, AddMember(r) PROVE FALSE
    <3>1. request[r].role \in AssignableRoles
      BY <2>0, <2>2 DEF AddMember, Admitted
    <3> QED BY <2>1, <2>2, <3>1, AddEffect DEF AssignableRoles
  <2>3. PICK r \in Requests : SaveEdit(r)
    BY <2>1, <2>2, MemberWriters
  <2>4. /\ request[r].target \in Members /\ u = request[r].target
        /\ request[r].role = "owner"
    BY <2>1, <2>3, EditEffect
  <2>5. request[r].at = "editSave" /\ request[r].actor # u
    BY <2>0, <2>3, <2>4 DEF SaveEdit, Admitted
  <2> QED BY <2>4, <2>5
<1> QED BY <1>1, TypedInit, TypedStep, AdmissionInit, AdmissionStep, PTL
        DEF Spec, OwnershipIsConferred

(* However many edits are in flight together, the last owner goes only in  *)
(* the write of one that has been overtaken: its target has been raised    *)
(* since it was read, or another owner it counted is none any more.        *)
THEOREM LastOwnerIsGuarded == Spec => LastOwnerGuarded
<1> DEFINE Overtaken(r) ==
             /\ request[r].at = "editSave" /\ request[r].target \in Owners
             /\ \/ request[r].current # "owner"
                \/ \E u \in request[r].seen \ {request[r].target} : u \notin Owners
<1>1. Typed /\ AdmissionInv /\ [Next]_vars =>
        [Owners # {} /\ Owners' = {} => \E r \in Requests : Overtaken(r)]_vars
  <2> SUFFICES ASSUME Typed, AdmissionInv, [Next]_vars, Owners # {}, Owners' = {}
               PROVE  \E r \in Requests : Overtaken(r)
    OBVIOUS
  <2>1. PICK o \in Owners : TRUE
    OBVIOUS
  <2>2. o \in Users /\ member[o].role = "owner" /\ member'[o].role # "owner"
    BY <2>1 DEF Owners
  <2>3. ASSUME NEW r \in Requests, AddMember(r) PROVE FALSE
    <3>1. request[r].actor \notin Members \/ UNCHANGED member
      BY <2>3 DEF AddMember
    <3>2. o \in Members
      BY <2>2 DEF Members
    <3> QED BY <2>2, <2>3, <3>1, <3>2, AddEffect
  <2>4. PICK r \in Requests : SaveEdit(r)
    BY <2>2, <2>3, MemberWriters
  <2>5. /\ member'[request[r].target].role = request[r].role
        /\ \A u \in Users \ {request[r].target} : member'[u] = member[u]
    BY <2>2, <2>4, EditEffect
  <2>6. o = request[r].target /\ request[r].role # "owner"
    BY <2>2, <2>5
  <2>7. ASSUME NEW u \in Owners, u # request[r].target PROVE FALSE
    BY <2>5, <2>7 DEF Owners
  <2>8. request[r].at = "editSave" /\ Admitted(request[r])
    BY <2>4 DEF SaveEdit, AdmissionInv
  <2>9. CASE request[r].current # "owner"
    BY <2>1, <2>6, <2>8, <2>9
  <2>10. CASE request[r].current = "owner"
    <3>1. PICK u \in request[r].seen : u # request[r].target
      BY <2>6, <2>8, <2>10 DEF Admitted
    <3> QED BY <2>1, <2>6, <2>7, <2>8, <3>1
  <2> QED BY <2>9, <2>10
<1> QED BY <1>1, TypedInit, TypedStep, AdmissionInit, AdmissionStep, PTL
        DEF Spec, LastOwnerGuarded
=============================================================================
