-------------------------- MODULE InvitationsProofs --------------------------
(***************************************************************************)
(* What Invitations promises of members, invitations and the active        *)
(* organisation holds for any number of users, organisations, invitations  *)
(* and requests; and, at the end, what PlatformAdmin does of the admins.   *)
(***************************************************************************)
EXTENDS Invitations, PlatformAdmin, FiniteSetTheorems, TLAPS

(* A request knows what it needs for its next statement.  One that answers *)
(* an invitation has the invitation's organisation, user and role, which   *)
(* no statement changes.                                                   *)
Knows(r) ==
    LET q == requests[r] IN
    /\ q.pc \in {"add", "mark", "switch", "insert", "active"} =>
          q.org \in Orgs /\ q.user \in Users /\ orgs[q.org].status # "unused"
    /\ q.pc = "insert" => q.email \in Users /\ q.role \in Roles
    /\ q.pc = "decline" => q.invite \in Invites /\ invites[q.invite].status # "unused"
    /\ q.pc \in {"add", "mark"} =>
          /\ q.invite \in Invites /\ q.role \in Roles
          /\ invites[q.invite].status # "unused"
          /\ invites[q.invite].org = q.org
          /\ invites[q.invite].email = q.user
          /\ invites[q.invite].role = q.role

(* An invitation is there only as long as its organisation.                *)
OfOrg(i) ==
    /\ invites[i].status \notin {"unused", "gone"} => Present(invites[i].org)
    /\ invites[i].status = "gone" => orgs[invites[i].org].status = "gone"

(* So are the members, and as long as the user.                            *)
MemberThere(o, u) == Member(o, u) => Present(o) /\ u \in users

(* A request that goes on to mark its invitation, or to switch to its      *)
(* organisation, has a member if that can still be.                        *)
Added(r) ==
    LET q == requests[r] IN
    q.pc \in {"mark", "switch", "active"} /\ Present(q.org) /\ q.user \in users
        => Member(q.org, q.user)

(* An invitation that is answered otherwise under a request that may still *)
(* add its member is among the half accepted.                              *)
Overtaken(r) ==
    LET q == requests[r] IN
    q.pc \in {"add", "mark"} =>
        \/ invites[q.invite].status \in {"pending", "accepted", "gone"}
        \/ q.invite \in half

Rows == /\ \A i \in Invites : OfOrg(i)
        /\ \A o \in Orgs, u \in Users : MemberThere(o, u)
Handlers == \A r \in Requests : Knows(r) /\ Added(r) /\ Overtaken(r)

IInv ==
    /\ TypeOK /\ Rows /\ Handlers
    /\ MembersWereInvited /\ AcceptedIsMember /\ CreatorStaysOwner /\ ActiveOrgIsMine

(* It holds at first.                                                      *)
LEMMA InitIInv == Init => IInv
<1> SUFFICES ASSUME Init PROVE IInv
    OBVIOUS
<1>1. TypeOK
    BY DEF Init, TypeOK, OrgRow, NoRequest, Request
<1>2. Rows /\ Handlers
    BY DEF Init, Rows, Handlers, OfOrg, MemberThere, Member, Knows, Added, Overtaken,
           NoInvite, NoRequest
<1>3. MembersWereInvited /\ AcceptedIsMember /\ CreatorStaysOwner /\ ActiveOrgIsMine
    BY DEF Init, MembersWereInvited, AcceptedIsMember, CreatorStaysOwner, ActiveOrgIsMine,
           Member, Present, NoInvite
<1> QED
    BY <1>1, <1>2, <1>3 DEF IInv

(* An invitation that has been made names what it must.                    *)
LEMMA RowTyped ==
    ASSUME TypeOK, NEW i \in Invites, invites[i].status # "unused"
    PROVE  invites[i] \in InviteRow
BY DEF TypeOK, NoInvite

(* Its status changes, the rest stays.                                     *)
LEMMA StatusTyped ==
    ASSUME TypeOK, NEW i \in Invites, invites[i].status # "unused",
           NEW s \in {"pending", "accepted", "declined", "revoked", "gone"}
    PROVE  [invites EXCEPT ![i].status = s] \in [Invites -> InviteRow \cup {NoInvite}]
<1>1. [invites[i] EXCEPT !.status = s] \in InviteRow
    BY RowTyped DEF InviteRow
<1> QED
    BY <1>1 DEF TypeOK

(* A request that goes on keeps its type.                                  *)
LEMMA PcTyped ==
    ASSUME TypeOK, NEW r \in Requests, NEW pc \in {"mark", "switch"}
    PROVE  [requests EXCEPT ![r].pc = pc] \in [Requests -> Request]
<1>1. [requests[r] EXCEPT !.pc = pc] \in Request
    BY DEF TypeOK, Request
<1> QED
    BY <1>1 DEF TypeOK

(* An organisation that goes keeps its type.                               *)
LEMMA OrgGoneTyped ==
    ASSUME NEW row \in OrgRow
    PROVE  [row EXCEPT !.status = "gone"] \in OrgRow
BY DEF OrgRow

(* Every step keeps the types.                                             *)
LEMMA TypeStep == TypeOK /\ Handlers /\ [Next]_vars => TypeOK'
<1> SUFFICES ASSUME TypeOK, Handlers, [Next]_vars PROVE TypeOK'
  OBVIOUS
<1> USE NoneIsNoId, RolesAreOrgRoles DEF TypeOK, OrgRow, OrgRole, NoRequest, Request, Start, End
<1>1. ASSUME NEW u \in Users, NEW o \in Orgs, CreateOrg(u, o) PROVE TypeOK'
  BY <1>1 DEF CreateOrg
<1>2. ASSUME NEW r \in Requests, NEW u \in Users, NEW o \in Orgs,
             CheckMembership(r, u, o)
      PROVE  TypeOK'
  BY <1>2 DEF CheckMembership
<1>3. ASSUME NEW r \in Requests, SetActiveOrg(r) PROVE TypeOK'
  BY <1>3 DEF SetActiveOrg, SetActive, Handlers, Knows
<1>4. ASSUME NEW r \in Requests, NEW u \in Users, NEW v \in Users,
             NEW o \in Orgs, NEW role \in Roles,
             LookupInvitee(r, u, o, v, role)
      PROVE  TypeOK'
  BY <1>4 DEF LookupInvitee
<1>5. ASSUME NEW r \in Requests, InsertInvitation(r) PROVE TypeOK'
  <2> DEFINE q == requests[r]
             row == [status |-> "pending", org |-> q.org, email |-> q.email,
                     by |-> q.user, role |-> q.role]
  <2>1. row \in InviteRow
    BY <1>5 DEF InsertInvitation, InviteRow, Handlers, Knows
  <2>2. (invites \in [Invites -> InviteRow \cup {NoInvite}])'
    BY <1>5, <2>1 DEF InsertInvitation
  <2> QED
    BY <1>5, <2>2 DEF InsertInvitation
<1>6. ASSUME NEW u \in Users, NEW i \in Invites, RevokeInvitation(u, i) PROVE TypeOK'
  BY <1>6, StatusTyped DEF RevokeInvitation, Resolve, Pending
<1>7. ASSUME NEW r \in Requests, NEW u \in Users, NEW i \in Invites,
             GetForAccept(r, u, i)
      PROVE  TypeOK'
  <2>1. invites[i] \in InviteRow
    BY <1>7, RowTyped DEF GetForAccept, MayAnswer, Pending
  <2>2. invites[i].org \in Orgs /\ invites[i].role \in Roles
    BY <2>1 DEF InviteRow
  <2> QED
    BY <1>7, <2>2 DEF GetForAccept
<1>8. ASSUME NEW r \in Requests, AddMember(r) PROVE TypeOK'
  <2>1. requests[r].org \in Orgs /\ requests[r].user \in Users /\ requests[r].role \in OrgRole
    BY <1>8 DEF AddMember, Handlers, Knows
  <2>2. JoinedAs(requests[r].org, requests[r].user, requests[r].role) \in OrgRole \cup {None}
    BY <2>1 DEF JoinedAs
  <2>3. [members EXCEPT ![requests[r].org][requests[r].user] =
            JoinedAs(requests[r].org, requests[r].user, requests[r].role)]
          \in [Orgs -> [Users -> OrgRole \cup {None}]]
    BY <2>1, <2>2
  <2>4. [requests EXCEPT ![r].pc = "mark"] \in [Requests -> Request]
    BY PcTyped
  <2>5. CASE Present(requests[r].org) /\ requests[r].user \in users
    BY <1>8, <2>3, <2>4, <2>5 DEF AddMember
  <2>6. CASE ~(Present(requests[r].org) /\ requests[r].user \in users)
    <3>1. members' = members /\ requests' = [requests EXCEPT ![r] = NoRequest]
      BY <1>8, <2>6 DEF AddMember
    <3> QED
      BY <1>8, <3>1 DEF AddMember
  <2> QED
    BY <2>5, <2>6
<1>9. ASSUME NEW r \in Requests, MarkAccepted(r) PROVE TypeOK'
  <2>1. PICK i \in Invites : i = requests[r].invite
    BY <1>9 DEF MarkAccepted, Handlers, Knows
  <2>2. CASE Pending(i)
    <3>1. [invites EXCEPT ![i].status = "accepted"] \in [Invites -> InviteRow \cup {NoInvite}]
      BY <2>2, StatusTyped DEF Pending
    <3>2. [requests EXCEPT ![r].pc = "switch"] \in [Requests -> Request]
      BY PcTyped
    <3>3. /\ invites' = [invites EXCEPT ![i].status = "accepted"]
          /\ requests' = [requests EXCEPT ![r].pc = "switch"]
          /\ UNCHANGED <<users, orgs, members, active, half>>
      BY <1>9, <2>1, <2>2 DEF MarkAccepted
    <3> QED
      BY <3>1, <3>2, <3>3
  <2>3. CASE ~Pending(i)
    BY <1>9, <2>1, <2>3 DEF MarkAccepted
  <2> QED
    BY <2>2, <2>3
<1>10. ASSUME NEW r \in Requests, SwitchOrg(r) PROVE TypeOK'
  BY <1>10 DEF SwitchOrg, SetActive, Handlers, Knows
<1>11. ASSUME NEW r \in Requests, NEW u \in Users, NEW i \in Invites,
             GetForDecline(r, u, i)
      PROVE  TypeOK'
  BY <1>11 DEF GetForDecline
<1>12. ASSUME NEW r \in Requests, MarkDeclined(r) PROVE TypeOK'
  <2>1. PICK i \in Invites : i = requests[r].invite
    BY <1>12 DEF MarkDeclined, Handlers, Knows
  <2>2. CASE Pending(i)
    <3>1. [invites EXCEPT ![i].status = "declined"] \in [Invites -> InviteRow \cup {NoInvite}]
      BY <2>2, StatusTyped DEF Pending
    <3>2. Resolve(i, "declined")
      BY <1>12, <2>1, <2>2 DEF MarkDeclined
    <3>3. (invites \in [Invites -> InviteRow \cup {NoInvite}] /\ half \subseteq Invites)'
      BY <3>1, <3>2 DEF Resolve
    <3> QED
      BY <1>12, <3>3 DEF MarkDeclined
  <2>3. CASE ~Pending(i)
    BY <1>12, <2>1, <2>3 DEF MarkDeclined
  <2> QED
    BY <2>2, <2>3
<1>13. ASSUME NEW r \in Requests, RequestFails(r) PROVE TypeOK'
  <2>1. half' \subseteq Invites
    BY <1>13 DEF RequestFails, Handlers, Knows
  <2>2. NoRequest \in Request
    OBVIOUS
  <2>3. requests' \in [Requests -> Request]
    BY <1>13, <2>2 DEF RequestFails
  <2> QED
    BY <1>13, <2>1, <2>3 DEF RequestFails
<1>14. ASSUME NEW o \in Orgs, DeleteOrg(o) PROVE TypeOK'
  <2>1. (orgs \in [Orgs -> OrgRow] /\ members \in [Orgs -> [Users -> OrgRole \cup {None}]])'
    <3>1. orgs' \in [Orgs -> OrgRow]
      <4>1. [orgs[o] EXCEPT !.status = "gone"] \in OrgRow
        BY OrgGoneTyped
      <4>2. orgs' = [orgs EXCEPT ![o] = [orgs[o] EXCEPT !.status = "gone"]]
        BY <1>14 DEF DeleteOrg
      <4>3. orgs \in [Orgs -> OrgRow]
        OBVIOUS
      <4> HIDE DEF TypeOK, OrgRow
      <4> QED
        BY <4>1, <4>2, <4>3
    <3>2. members' \in [Orgs -> [Users -> OrgRole \cup {None}]]
      BY <1>14 DEF DeleteOrg
    <3> QED
      BY <3>1, <3>2
  <2>2. ASSUME NEW i \in Invites
        PROVE  invites'[i] \in InviteRow \cup {NoInvite}
    <3>1. CASE invites[i].org = o
      <4>1. invites[i] \in InviteRow
        BY <3>1 DEF NoInvite
      <4>2. [invites[i] EXCEPT !.status = "gone"] \in InviteRow
        BY <4>1 DEF InviteRow
      <4> QED
        BY <1>14, <3>1, <4>2 DEF DeleteOrg
    <3>2. CASE invites[i].org # o
      BY <1>14, <3>2 DEF DeleteOrg
    <3> QED
      BY <3>1, <3>2
  <2>3. (invites \in [Invites -> InviteRow \cup {NoInvite}])'
    BY <1>14, <2>2 DEF DeleteOrg
  <2> QED
    BY <1>14, <2>1, <2>3 DEF DeleteOrg
<1>15. ASSUME NEW u \in Users, DeleteUser(u) PROVE TypeOK'
  BY <1>15 DEF DeleteUser
<1>16. ASSUME UNCHANGED vars PROVE TypeOK'
  BY <1>16 DEF vars
<1> QED
  BY <1>1, <1>2, <1>3, <1>4, <1>5, <1>6, <1>7, <1>8, <1>9, <1>10, <1>11, <1>12,
     <1>13, <1>14, <1>15, <1>16
  DEF Next, OrgApi, InvitationApi, Accept, Decline, PlatformApi, Failure

(* Rows go with their organisation and their users.                        *)
LEMMA RowsStep == TypeOK /\ Rows /\ Handlers /\ [Next]_vars => Rows'
<1> SUFFICES ASSUME TypeOK, Rows, Handlers, [Next]_vars PROVE Rows'
  OBVIOUS
<1> USE NoneIsNoId, RolesAreOrgRoles DEF TypeOK, Rows, OfOrg, MemberThere, Member, Present
<1>1. ASSUME NEW u \in Users, NEW o \in Orgs, CreateOrg(u, o) PROVE Rows'
  BY <1>1 DEF CreateOrg, OrgRow, NoInvite, InviteRow
<1>2. ASSUME NEW r \in Requests, NEW u \in Users, NEW o \in Orgs,
             CheckMembership(r, u, o)
      PROVE  Rows'
  BY <1>2 DEF CheckMembership
<1>3. ASSUME NEW r \in Requests, SetActiveOrg(r) PROVE Rows'
  BY <1>3 DEF SetActiveOrg
<1>4. ASSUME NEW r \in Requests, NEW u \in Users, NEW v \in Users,
             NEW o \in Orgs, NEW role \in Roles,
             LookupInvitee(r, u, o, v, role)
      PROVE  Rows'
  BY <1>4 DEF LookupInvitee
<1>5. ASSUME NEW r \in Requests, InsertInvitation(r) PROVE Rows'
  BY <1>5 DEF InsertInvitation, Handlers, Knows, End, Pending
<1>6. ASSUME NEW u \in Users, NEW i \in Invites, RevokeInvitation(u, i) PROVE Rows'
  BY <1>6 DEF RevokeInvitation, Resolve, Pending
<1>7. ASSUME NEW r \in Requests, NEW u \in Users, NEW i \in Invites,
             GetForAccept(r, u, i)
      PROVE  Rows'
  BY <1>7 DEF GetForAccept
<1>8. ASSUME NEW r \in Requests, AddMember(r) PROVE Rows'
  BY <1>8 DEF AddMember, JoinedAs, Handlers, Knows
<1>9. ASSUME NEW r \in Requests, MarkAccepted(r) PROVE Rows'
  <2>1. PICK i \in Invites : i = requests[r].invite
    BY <1>9 DEF MarkAccepted, Handlers, Knows
  <2>2. CASE Pending(i)
    <3>1. invites' = [invites EXCEPT ![i].status = "accepted"]
      BY <1>9, <2>1, <2>2 DEF MarkAccepted
    <3> QED
      BY <1>9, <2>2, <3>1 DEF MarkAccepted, Pending
  <2>3. CASE ~Pending(i)
    BY <1>9, <2>1, <2>3 DEF MarkAccepted
  <2> QED
    BY <2>2, <2>3
<1>10. ASSUME NEW r \in Requests, SwitchOrg(r) PROVE Rows'
  BY <1>10 DEF SwitchOrg
<1>11. ASSUME NEW r \in Requests, NEW u \in Users, NEW i \in Invites,
             GetForDecline(r, u, i)
      PROVE  Rows'
  BY <1>11 DEF GetForDecline
<1>12. ASSUME NEW r \in Requests, MarkDeclined(r) PROVE Rows'
  <2>1. PICK i \in Invites : i = requests[r].invite
    BY <1>12 DEF MarkDeclined, Handlers, Knows
  <2>2. CASE Pending(i)
    <3>1. Resolve(i, "declined")
      BY <1>12, <2>1, <2>2 DEF MarkDeclined
    <3> QED
      BY <1>12, <2>2, <3>1 DEF MarkDeclined, Resolve, Pending
  <2>3. CASE ~Pending(i)
    BY <1>12, <2>1, <2>3 DEF MarkDeclined
  <2> QED
    BY <2>2, <2>3
<1>13. ASSUME NEW r \in Requests, RequestFails(r) PROVE Rows'
  BY <1>13 DEF RequestFails
<1>14. ASSUME NEW o \in Orgs, DeleteOrg(o) PROVE Rows'
  BY <1>14 DEF DeleteOrg, OrgRow, NoInvite, InviteRow
<1>15. ASSUME NEW u \in Users, DeleteUser(u) PROVE Rows'
  BY <1>15 DEF DeleteUser
<1>16. ASSUME UNCHANGED vars PROVE Rows'
  BY <1>16 DEF vars
<1> QED
  BY <1>1, <1>2, <1>3, <1>4, <1>5, <1>6, <1>7, <1>8, <1>9, <1>10, <1>11, <1>12,
     <1>13, <1>14, <1>15, <1>16
  DEF Next, OrgApi, InvitationApi, Accept, Decline, PlatformApi, Failure

(* What a request knows stays true while others take their steps.          *)
LEMMA HandlersStep == TypeOK /\ Rows /\ Handlers /\ [Next]_vars => Handlers'
<1> SUFFICES ASSUME TypeOK, Rows, Handlers, NEW a \in Requests, [Next]_vars
             PROVE  (Knows(a) /\ Added(a) /\ Overtaken(a))'
  BY DEF Handlers
<1>a. Knows(a) /\ Added(a) /\ Overtaken(a)
  BY DEF Handlers
<1> USE <1>a, NoneIsNoId, RolesAreOrgRoles 
       DEF TypeOK, Knows, Added, Overtaken, Member, Present, NoRequest, Request
<1>1. ASSUME NEW u \in Users, NEW o \in Orgs,
             CreateOrg(u, o)
      PROVE  (Knows(a) /\ Added(a) /\ Overtaken(a))'
  BY <1>1 DEF CreateOrg, OrgRow
<1>2. ASSUME NEW r \in Requests, NEW u \in Users, NEW o \in Orgs,
             CheckMembership(r, u, o)
      PROVE  (Knows(a) /\ Added(a) /\ Overtaken(a))'
  BY <1>2 DEF CheckMembership, Start, Rows, MemberThere
<1>3. ASSUME NEW r \in Requests, SetActiveOrg(r) PROVE (Knows(a) /\ Added(a) /\ Overtaken(a))'
  BY <1>3 DEF SetActiveOrg, End
<1>4. ASSUME NEW r \in Requests, NEW u \in Users, NEW v \in Users,
             NEW o \in Orgs, NEW role \in Roles,
             LookupInvitee(r, u, o, v, role)
      PROVE  (Knows(a) /\ Added(a) /\ Overtaken(a))'
  BY <1>4 DEF LookupInvitee, Start, Rows, MemberThere, Manages
<1>5. ASSUME NEW r \in Requests,
             InsertInvitation(r)
      PROVE  (Knows(a) /\ Added(a) /\ Overtaken(a))'
  BY <1>5 DEF InsertInvitation, End
<1>6. ASSUME NEW u \in Users, NEW i \in Invites,
             RevokeInvitation(u, i)
      PROVE  (Knows(a) /\ Added(a) /\ Overtaken(a))'
  BY <1>6 DEF RevokeInvitation, Resolve, Pending, Accepting
<1>7. ASSUME NEW r \in Requests, NEW u \in Users, NEW i \in Invites,
             GetForAccept(r, u, i)
      PROVE  (Knows(a) /\ Added(a) /\ Overtaken(a))'
  BY <1>7 DEF GetForAccept, MayAnswer, Pending, Start, InviteRow, NoInvite, Rows, OfOrg
<1>8. ASSUME NEW r \in Requests, AddMember(r) PROVE (Knows(a) /\ Added(a) /\ Overtaken(a))'
  <2>1. CASE Present(requests[r].org) /\ requests[r].user \in users
    <3> DEFINE o == requests[r].org
               u == requests[r].user
               m == JoinedAs(o, u, requests[r].role)
    <3>1. Knows(r) /\ Overtaken(r)
      BY DEF Handlers
    <3>2. o \in Orgs /\ u \in Users /\ m # None
      BY <1>8, <3>1 DEF AddMember, JoinedAs
    <3>3. members' = [members EXCEPT ![o][u] = m]
      BY <1>8, <2>1 DEF AddMember
    <3>4. requests' = [requests EXCEPT ![r].pc = "mark"]
      BY <1>8, <2>1 DEF AddMember
    <3> HIDE DEF m
    <3>5. (Knows(a) /\ Overtaken(a))'
      BY <1>8, <3>1, <3>4 DEF AddMember
    <3>6. Added(a)'
      BY <1>8, <3>2, <3>3, <3>4 DEF AddMember
    <3> QED
      BY <3>5, <3>6
  <2>2. CASE ~(Present(requests[r].org) /\ requests[r].user \in users)
    <3>1. members' = members /\ requests' = [requests EXCEPT ![r] = NoRequest]
      BY <1>8, <2>2 DEF AddMember, End
    <3> QED
      BY <1>8, <3>1 DEF AddMember
  <2> QED
    BY <2>1, <2>2
<1>9. ASSUME NEW r \in Requests, MarkAccepted(r) PROVE (Knows(a) /\ Added(a) /\ Overtaken(a))'
  <2>1. PICK i \in Invites : i = requests[r].invite
    BY <1>9 DEF MarkAccepted, Handlers
  <2>2. CASE Pending(i)
    <3>1. invites' = [invites EXCEPT ![i].status = "accepted"]
      BY <1>9, <2>1, <2>2 DEF MarkAccepted
    <3>2. requests' = [requests EXCEPT ![r].pc = "switch"]
      BY <1>9, <2>1, <2>2 DEF MarkAccepted
    <3>3. Added(r)
      BY DEF Handlers
    <3> QED
      BY <1>9, <2>2, <3>1, <3>2, <3>3 DEF MarkAccepted, Pending
  <2>3. CASE ~Pending(i)
    BY <1>9, <2>1, <2>3 DEF MarkAccepted, End
  <2> QED
    BY <2>2, <2>3
<1>10. ASSUME NEW r \in Requests, SwitchOrg(r) PROVE (Knows(a) /\ Added(a) /\ Overtaken(a))'
  BY <1>10 DEF SwitchOrg, End
<1>11. ASSUME NEW r \in Requests, NEW u \in Users, NEW i \in Invites,
             GetForDecline(r, u, i)
      PROVE  (Knows(a) /\ Added(a) /\ Overtaken(a))'
  BY <1>11 DEF GetForDecline, MayAnswer, Pending, Start
<1>12. ASSUME NEW r \in Requests, MarkDeclined(r) PROVE (Knows(a) /\ Added(a) /\ Overtaken(a))'
  <2>1. PICK i \in Invites : i = requests[r].invite
    BY <1>12 DEF MarkDeclined, Handlers
  <2>2. CASE Pending(i)
    <3>1. invites' = [invites EXCEPT ![i].status = "declined"]
      BY <1>12, <2>1, <2>2 DEF MarkDeclined, Resolve
    <3>2. requests' = [requests EXCEPT ![r] = NoRequest]
      BY <1>12 DEF MarkDeclined, End
    <3>3. half' = IF Accepting(i) THEN half \cup {i} ELSE half
      BY <1>12, <2>1, <2>2 DEF MarkDeclined, Resolve
    <3> QED
      BY <1>12, <2>2, <3>1, <3>2, <3>3 DEF MarkDeclined, Pending, Accepting
  <2>3. CASE ~Pending(i)
    BY <1>12, <2>1, <2>3 DEF MarkDeclined, End
  <2> QED
    BY <2>2, <2>3
<1>13. ASSUME NEW r \in Requests, RequestFails(r) PROVE (Knows(a) /\ Added(a) /\ Overtaken(a))'
  BY <1>13 DEF RequestFails, End
<1>14. ASSUME NEW o \in Orgs, DeleteOrg(o) PROVE (Knows(a) /\ Added(a) /\ Overtaken(a))'
  BY <1>14 DEF DeleteOrg, Rows, OfOrg
<1>15. ASSUME NEW u \in Users, DeleteUser(u) PROVE (Knows(a) /\ Added(a) /\ Overtaken(a))'
  BY <1>15 DEF DeleteUser
<1>16. ASSUME UNCHANGED vars PROVE (Knows(a) /\ Added(a) /\ Overtaken(a))'
  BY <1>16 DEF vars
<1> QED
  BY <1>1, <1>2, <1>3, <1>4, <1>5, <1>6, <1>7, <1>8, <1>9, <1>10, <1>11, <1>12,
     <1>13, <1>14, <1>15, <1>16
  DEF Next, OrgApi, InvitationApi, Accept, Decline, PlatformApi, Failure

(* What let a member in goes on to do so: an acceptance that is cut short  *)
(* or overtaken is remembered as such.                                     *)
LEMMA LetInKept ==
    ASSUME TypeOK, Rows, Handlers, [Next]_vars,
           NEW o \in Orgs, NEW u \in Users, NEW i \in Invites, LetInBy(o, u, i),
           Member(o, u), members'[o][u] = members[o][u]
    PROVE  LetInBy(o, u, i)'
<1>a. Present(o) /\ invites[i].status # "gone" /\ invites[i].status # "unused"
  BY NoneIsNoId DEF Rows, MemberThere, OfOrg, LetInBy, Member, Present, TypeOK, NoInvite, InviteRow
<1> USE <1>a DEF TypeOK, LetInBy, Member
<1>1. ASSUME NEW w \in Users, NEW p \in Orgs, CreateOrg(w, p) PROVE LetInBy(o, u, i)'
  BY <1>1 DEF CreateOrg
<1>2. ASSUME NEW r \in Requests, NEW w \in Users, NEW p \in Orgs,
             CheckMembership(r, w, p)
      PROVE  LetInBy(o, u, i)'
  BY <1>2 DEF CheckMembership, Start
<1>3. ASSUME NEW r \in Requests, SetActiveOrg(r) PROVE LetInBy(o, u, i)'
  BY <1>3 DEF SetActiveOrg, End
<1>4. ASSUME NEW r \in Requests, NEW w \in Users, NEW x \in Users,
             NEW p \in Orgs, NEW role \in Roles,
             LookupInvitee(r, w, p, x, role)
      PROVE  LetInBy(o, u, i)'
  BY <1>4 DEF LookupInvitee, Start
<1>5. ASSUME NEW r \in Requests, InsertInvitation(r) PROVE LetInBy(o, u, i)'
  BY <1>5 DEF InsertInvitation, End
<1>6. ASSUME NEW w \in Users, NEW j \in Invites, RevokeInvitation(w, j) PROVE LetInBy(o, u, i)'
  BY <1>6 DEF RevokeInvitation, Resolve, Pending
<1>7. ASSUME NEW r \in Requests, NEW w \in Users, NEW j \in Invites,
             GetForAccept(r, w, j)
      PROVE  LetInBy(o, u, i)'
  BY <1>7 DEF GetForAccept, Start
<1>8. ASSUME NEW r \in Requests, AddMember(r) PROVE LetInBy(o, u, i)'
  <2>1. invites' = invites /\ half' = half
    BY <1>8 DEF AddMember
  <2>2. \A b \in Requests : requests[b].pc = "mark" => requests'[b] = requests[b]
    BY <1>8 DEF AddMember, End
  <2> QED
    BY <2>1, <2>2
<1>9. ASSUME NEW r \in Requests, MarkAccepted(r) PROVE LetInBy(o, u, i)'
  <2>1. PICK j \in Invites : j = requests[r].invite
    BY <1>9 DEF MarkAccepted, Handlers, Knows
  <2>2. CASE Pending(j)
    <3>1. invites' = [invites EXCEPT ![j].status = "accepted"]
      BY <1>9, <2>1, <2>2 DEF MarkAccepted
    <3>2. \A b \in Requests : b # r => requests'[b] = requests[b]
      BY <1>9, <2>1, <2>2 DEF MarkAccepted
    <3>3. half' = half
      BY <1>9 DEF MarkAccepted
    <3>4. CASE i = j
      BY <3>1, <3>4
    <3>5. CASE i # j
      BY <2>1, <3>1, <3>2, <3>3, <3>5
    <3> QED
      BY <3>4, <3>5
  <2>3. CASE ~Pending(j)
    <3>1. invites' = invites /\ half' = half
      BY <1>9, <2>1, <2>3 DEF MarkAccepted
    <3>2. \A b \in Requests : b # r => requests'[b] = requests[b]
      BY <1>9, <2>1, <2>3 DEF MarkAccepted, End
    <3>3. i = j => invites[i].status = "accepted" \/ i \in half
      BY <1>9, <2>1, <2>3 DEF MarkAccepted, Handlers, Overtaken, Pending
    <3> QED
      BY <2>1, <3>1, <3>2, <3>3
  <2> QED
    BY <2>2, <2>3
<1>10. ASSUME NEW r \in Requests, SwitchOrg(r) PROVE LetInBy(o, u, i)'
  BY <1>10 DEF SwitchOrg, End
<1>11. ASSUME NEW r \in Requests, NEW w \in Users, NEW j \in Invites,
             GetForDecline(r, w, j)
      PROVE  LetInBy(o, u, i)'
  BY <1>11 DEF GetForDecline, Start
<1>12. ASSUME NEW r \in Requests, MarkDeclined(r) PROVE LetInBy(o, u, i)'
  <2>1. PICK j \in Invites : j = requests[r].invite
    BY <1>12 DEF MarkDeclined, Handlers, Knows
  <2>2. \A b \in Requests : requests[b].pc = "mark" => requests'[b] = requests[b]
    BY <1>12 DEF MarkDeclined, End
  <2>3. CASE Pending(j)
    <3>1. invites' = [invites EXCEPT ![j].status = "declined"] /\ half \subseteq half'
      BY <1>12, <2>1, <2>3 DEF MarkDeclined, Resolve
    <3> QED
      BY <2>2, <2>3, <3>1 DEF Pending
  <2>4. CASE ~Pending(j)
    BY <1>12, <2>1, <2>2, <2>4 DEF MarkDeclined
  <2> QED
    BY <2>3, <2>4
<1>13. ASSUME NEW r \in Requests, RequestFails(r) PROVE LetInBy(o, u, i)'
  BY <1>13 DEF RequestFails, End
<1>14. ASSUME NEW p \in Orgs, DeleteOrg(p) PROVE LetInBy(o, u, i)'
  <2>1. p # o
    BY <1>14 DEF DeleteOrg
  <2> QED
    BY <1>14, <2>1 DEF DeleteOrg
<1>15. ASSUME NEW w \in Users, DeleteUser(w) PROVE LetInBy(o, u, i)'
  BY <1>15 DEF DeleteUser
<1>16. ASSUME UNCHANGED vars PROVE LetInBy(o, u, i)'
  BY <1>16 DEF vars
<1> QED
  BY <1>1, <1>2, <1>3, <1>4, <1>5, <1>6, <1>7, <1>8, <1>9, <1>10, <1>11, <1>12,
     <1>13, <1>14, <1>15, <1>16
  DEF Next, OrgApi, InvitationApi, Accept, Decline, PlatformApi, Failure

(* A new member is the creator of a new organisation, or is being let in.  *)
LEMMA NewMember ==
    ASSUME TypeOK, Rows, Handlers, [Next]_vars,
           NEW o \in Orgs, NEW u \in Users, Member(o, u)', members'[o][u] # members[o][u]
    PROVE  \/ (orgs[o].creator = u /\ members[o][u] = "owner")'
           \/ \E i \in Invites : LetInBy(o, u, i)'
<1> USE DEF TypeOK, Member
<1>1. CASE \E w \in Users, p \in Orgs : CreateOrg(w, p)
  BY <1>1 DEF CreateOrg
<1>2. ASSUME NEW r \in Requests, AddMember(r) PROVE \E i \in Invites : LetInBy(o, u, i)'
  <2> DEFINE q == requests[r]
             m == JoinedAs(q.org, q.user, q.role)
  <2>1. Knows(r)
    BY DEF Handlers
  <2>2. Present(q.org) /\ q.user \in users
    BY <1>2 DEF AddMember
  <2>3. /\ members' = [members EXCEPT ![q.org][q.user] = m]
        /\ requests' = [requests EXCEPT ![r].pc = "mark"]
        /\ invites' = invites
    BY <1>2, <2>2 DEF AddMember
  <2>4. q.pc = "add" /\ q.org \in Orgs /\ q.user \in Users
    BY <1>2, <2>1 DEF AddMember, Knows
  <2> HIDE DEF m
  <2>5. o = q.org /\ u = q.user /\ members'[o][u] = m
    BY <2>3, <2>4
  <2>6. m = q.role
    BY <2>5 DEF JoinedAs, m
  <2>7. PICK i \in Invites : i = q.invite
    BY <1>2, <2>1 DEF AddMember, Knows
  <2>8. invites[i].org = o /\ invites[i].email = u /\ invites[i].role = q.role
    BY <1>2, <2>1, <2>5, <2>7 DEF AddMember, Knows
  <2>9. requests'[r].pc = "mark" /\ requests'[r].invite = i
    BY <2>3, <2>7 DEF Request
  <2>10. LetInBy(o, u, i)'
    BY <2>3, <2>5, <2>6, <2>8, <2>9 DEF LetInBy
  <2> QED
    BY <2>10
<1>3. CASE \E p \in Orgs : DeleteOrg(p)
  BY <1>3 DEF DeleteOrg
<1>4. CASE \E w \in Users : DeleteUser(w)
  BY <1>4 DEF DeleteUser
<1>5. members' # members
  OBVIOUS
<1> QED
  BY <1>1, <1>2, <1>3, <1>4, <1>5
  DEF Next, OrgApi, InvitationApi, Accept, Decline, PlatformApi, Failure, vars, CheckMembership,
      SetActiveOrg, LookupInvitee, InsertInvitation, RevokeInvitation, GetForAccept,
      MarkAccepted, SwitchOrg, GetForDecline, MarkDeclined, RequestFails

(* Only the organisation that is created gets a creator.                   *)
LEMMA CreatorKept ==
    ASSUME TypeOK, [Next]_vars, NEW o \in Orgs, orgs[o].status # "unused"
    PROVE  orgs'[o].creator = orgs[o].creator
<1>1. ASSUME NEW u \in Users, NEW p \in Orgs, CreateOrg(u, p)
      PROVE  orgs'[o].creator = orgs[o].creator
  BY <1>1 DEF CreateOrg, TypeOK
<1>2. ASSUME NEW p \in Orgs, DeleteOrg(p) PROVE orgs'[o].creator = orgs[o].creator
  BY <1>2 DEF DeleteOrg, TypeOK, OrgRow
<1>3. CASE UNCHANGED orgs
  BY <1>3
<1> QED
  BY <1>1, <1>2, <1>3
  DEF Next, OrgApi, InvitationApi, Accept, Decline, PlatformApi, Failure, vars, CheckMembership,
      SetActiveOrg, LookupInvitee, InsertInvitation, RevokeInvitation, GetForAccept, AddMember,
      MarkAccepted, SwitchOrg, GetForDecline, MarkDeclined, RequestFails, DeleteUser

(* Old members keep what let them in, new ones have it.                    *)
LEMMA InvitedStep ==
    TypeOK /\ Rows /\ Handlers /\ MembersWereInvited /\ [Next]_vars => MembersWereInvited'
<1> SUFFICES ASSUME TypeOK, Rows, Handlers, MembersWereInvited, [Next]_vars,
                    NEW o \in Orgs, NEW u \in Users, Member(o, u)'
             PROVE  \/ (orgs[o].creator = u /\ members[o][u] = "owner")'
                    \/ \E i \in Invites : LetInBy(o, u, i)'
  BY DEF MembersWereInvited
<1>1. CASE members'[o][u] = members[o][u]
  <2>1. Member(o, u)
    BY <1>1 DEF Member
  <2>2. orgs'[o].creator = orgs[o].creator
    BY <2>1, CreatorKept DEF Rows, MemberThere, Present
  <2>3. \A i \in Invites : LetInBy(o, u, i) => LetInBy(o, u, i)'
    BY <1>1, <2>1, LetInKept
  <2> QED
    BY <1>1, <2>1, <2>2, <2>3 DEF MembersWereInvited
<1>2. CASE members'[o][u] # members[o][u]
  BY <1>2, NewMember
<1> QED
  BY <1>1, <1>2

(* An acceptance takes no member away.                                     *)
LEMMA MembersGrow ==
    ASSUME TypeOK, Handlers, NEW r \in Requests, AddMember(r),
           NEW o \in Orgs, NEW u \in Users, Member(o, u)
    PROVE  Member(o, u)'
<1> DEFINE q == requests[r]
           m == JoinedAs(q.org, q.user, q.role)
<1>1. q.org \in Orgs /\ q.user \in Users /\ q.role \in Roles
  BY DEF AddMember, Handlers, Knows
<1>2. m # None
  BY <1>1, NoneIsNoId, RolesAreOrgRoles DEF JoinedAs, Member
<1> HIDE DEF m
<1>3. members' = members \/ members' = [members EXCEPT ![q.org][q.user] = m]
  BY DEF AddMember, m
<1> QED
  BY <1>1, <1>2, <1>3 DEF TypeOK, Member

(* A mark needs a member, and whatever takes the member takes the mark.    *)
LEMMA AcceptedStep ==
    TypeOK /\ Rows /\ Handlers /\ AcceptedIsMember /\ [Next]_vars => AcceptedIsMember'
<1> SUFFICES ASSUME TypeOK, Rows, Handlers, AcceptedIsMember, [Next]_vars, NEW a \in Invites,
                    (invites[a].status = "accepted" /\ invites[a].email \in users)'
             PROVE  Member(invites[a].org, invites[a].email)'
  BY DEF AcceptedIsMember
<1>a. invites[a].status = "accepted" /\ invites[a].email \in users
         => Present(invites[a].org) /\ Member(invites[a].org, invites[a].email)
  BY DEF AcceptedIsMember, Rows, OfOrg
<1>b. invites[a].status # "unused" => invites[a] \in InviteRow
  BY RowTyped
<1> USE <1>a, <1>b, NoneIsNoId DEF TypeOK, Member, InviteRow
<1>1. ASSUME NEW u \in Users, NEW o \in Orgs,
             CreateOrg(u, o)
      PROVE  Member(invites[a].org, invites[a].email)'
  BY <1>1 DEF CreateOrg, Present
<1>2. ASSUME NEW r \in Requests, NEW u \in Users, NEW o \in Orgs,
             CheckMembership(r, u, o)
      PROVE  Member(invites[a].org, invites[a].email)'
  BY <1>2 DEF CheckMembership
<1>3. ASSUME NEW r \in Requests,
             SetActiveOrg(r)
      PROVE  Member(invites[a].org, invites[a].email)'
  BY <1>3 DEF SetActiveOrg
<1>4. ASSUME NEW r \in Requests, NEW u \in Users, NEW v \in Users,
             NEW o \in Orgs, NEW role \in Roles,
             LookupInvitee(r, u, o, v, role)
      PROVE  Member(invites[a].org, invites[a].email)'
  BY <1>4 DEF LookupInvitee
<1>5. ASSUME NEW r \in Requests,
             InsertInvitation(r)
      PROVE  Member(invites[a].org, invites[a].email)'
  BY <1>5 DEF InsertInvitation
<1>6. ASSUME NEW u \in Users, NEW i \in Invites,
             RevokeInvitation(u, i)
      PROVE  Member(invites[a].org, invites[a].email)'
  BY <1>6 DEF RevokeInvitation, Resolve
<1>7. ASSUME NEW r \in Requests, NEW u \in Users, NEW i \in Invites,
             GetForAccept(r, u, i)
      PROVE  Member(invites[a].org, invites[a].email)'
  BY <1>7 DEF GetForAccept
<1>8. ASSUME NEW r \in Requests, AddMember(r) PROVE Member(invites[a].org, invites[a].email)'
  <2>1. invites' = invites /\ users' = users
    BY <1>8 DEF AddMember
  <2>2. \A o \in Orgs, u \in Users : Member(o, u) => Member(o, u)'
    BY <1>8, MembersGrow
  <2> QED
    BY <2>1, <2>2
<1>9. ASSUME NEW r \in Requests,
             MarkAccepted(r)
      PROVE  Member(invites[a].org, invites[a].email)'
  <2>1. PICK i \in Invites : i = requests[r].invite
    BY <1>9 DEF MarkAccepted, Handlers, Knows
  <2>2. CASE Pending(i)
    <3>1. invites' = [invites EXCEPT ![i].status = "accepted"]
      BY <1>9, <2>1, <2>2 DEF MarkAccepted
    <3>2. members' = members /\ users' = users
      BY <1>9 DEF MarkAccepted
    <3>3. invites[i].email \in users => Member(invites[i].org, invites[i].email)
      BY <1>9, <2>1, <2>2 DEF MarkAccepted, Handlers, Knows, Added, Rows, OfOrg, Pending
    <3> QED
      BY <3>1, <3>2, <3>3
  <2>3. CASE ~Pending(i)
    BY <1>9, <2>1, <2>3 DEF MarkAccepted
  <2> QED
    BY <2>2, <2>3
<1>10. ASSUME NEW r \in Requests, SwitchOrg(r) PROVE Member(invites[a].org, invites[a].email)'
  BY <1>10 DEF SwitchOrg
<1>11. ASSUME NEW r \in Requests, NEW u \in Users, NEW i \in Invites,
             GetForDecline(r, u, i)
      PROVE  Member(invites[a].org, invites[a].email)'
  BY <1>11 DEF GetForDecline
<1>12. ASSUME NEW r \in Requests,
             MarkDeclined(r)
      PROVE  Member(invites[a].org, invites[a].email)'
  <2>1. PICK i \in Invites : i = requests[r].invite
    BY <1>12 DEF MarkDeclined, Handlers, Knows
  <2>2. invites' = [invites EXCEPT ![i].status = "declined"] \/ invites' = invites
    BY <1>12, <2>1 DEF MarkDeclined, Resolve
  <2>3. members' = members /\ users' = users
    BY <1>12 DEF MarkDeclined
  <2>4. CASE invites' = invites
    BY <2>3, <2>4
  <2>5. CASE invites' = [invites EXCEPT ![i].status = "declined"]
    <3>1. a # i
      BY <2>5
    <3> QED
      BY <2>3, <2>5, <3>1
  <2> QED
    BY <2>2, <2>4, <2>5
<1>13. ASSUME NEW r \in Requests,
             RequestFails(r)
      PROVE  Member(invites[a].org, invites[a].email)'
  BY <1>13 DEF RequestFails
<1>14. ASSUME NEW o \in Orgs, DeleteOrg(o) PROVE Member(invites[a].org, invites[a].email)'
  BY <1>14 DEF DeleteOrg
<1>15. ASSUME NEW u \in Users, DeleteUser(u) PROVE Member(invites[a].org, invites[a].email)'
  BY <1>15 DEF DeleteUser
<1>16. ASSUME UNCHANGED vars PROVE Member(invites[a].org, invites[a].email)'
  BY <1>16 DEF vars
<1> QED
  BY <1>1, <1>2, <1>3, <1>4, <1>5, <1>6, <1>7, <1>8, <1>9, <1>10, <1>11, <1>12,
     <1>13, <1>14, <1>15, <1>16
  DEF Next, OrgApi, InvitationApi, Accept, Decline, PlatformApi, Failure

(* No acceptance or deletion takes the creator's ownership away.           *)
LEMMA CreatorStep ==
    TypeOK /\ Rows /\ Handlers /\ CreatorStaysOwner /\ [Next]_vars => CreatorStaysOwner'
<1> SUFFICES ASSUME TypeOK, Rows, Handlers, CreatorStaysOwner, [Next]_vars,
                    NEW a \in Orgs, Present(a)'
             PROVE  (orgs[a].creator \in users /\ members[a][orgs[a].creator] = "owner")'
  BY DEF CreatorStaysOwner
<1>a. Present(a) => orgs[a].creator \in users /\ members[a][orgs[a].creator] = "owner"
  BY DEF CreatorStaysOwner
<1> USE <1>a, NoneIsNoId DEF TypeOK, Present
<1>1. ASSUME NEW u \in Users, NEW o \in Orgs,
             CreateOrg(u, o)
      PROVE  (orgs[a].creator \in users /\ members[a][orgs[a].creator] = "owner")'
  BY <1>1 DEF CreateOrg
<1>2. ASSUME NEW r \in Requests, NEW u \in Users, NEW o \in Orgs,
             CheckMembership(r, u, o)
      PROVE  (orgs[a].creator \in users /\ members[a][orgs[a].creator] = "owner")'
  BY <1>2 DEF CheckMembership
<1>3. ASSUME NEW r \in Requests,
             SetActiveOrg(r)
      PROVE  (orgs[a].creator \in users /\ members[a][orgs[a].creator] = "owner")'
  BY <1>3 DEF SetActiveOrg
<1>4. ASSUME NEW r \in Requests, NEW u \in Users, NEW v \in Users,
             NEW o \in Orgs, NEW role \in Roles,
             LookupInvitee(r, u, o, v, role)
      PROVE  (orgs[a].creator \in users /\ members[a][orgs[a].creator] = "owner")'
  BY <1>4 DEF LookupInvitee
<1>5. ASSUME NEW r \in Requests,
             InsertInvitation(r)
      PROVE  (orgs[a].creator \in users /\ members[a][orgs[a].creator] = "owner")'
  BY <1>5 DEF InsertInvitation
<1>6. ASSUME NEW u \in Users, NEW i \in Invites,
             RevokeInvitation(u, i)
      PROVE  (orgs[a].creator \in users /\ members[a][orgs[a].creator] = "owner")'
  BY <1>6 DEF RevokeInvitation
<1>7. ASSUME NEW r \in Requests, NEW u \in Users, NEW i \in Invites,
             GetForAccept(r, u, i)
      PROVE  (orgs[a].creator \in users /\ members[a][orgs[a].creator] = "owner")'
  BY <1>7 DEF GetForAccept
<1>8. ASSUME NEW r \in Requests,
             AddMember(r)
      PROVE  (orgs[a].creator \in users /\ members[a][orgs[a].creator] = "owner")'
  <2>1. orgs' = orgs /\ users' = users
    BY <1>8 DEF AddMember
  <2>2. requests[r].org \in Orgs /\ requests[r].user \in Users
    BY <1>8 DEF AddMember, Handlers, Knows
  <2>3. members'[a][orgs[a].creator] = "owner"
    <3>0. orgs[a].creator \in users /\ members[a][orgs[a].creator] = "owner"
      BY <2>1
    <3>1. CASE members' = members
      BY <3>0, <3>1
    <3>2. CASE members' # members
      <4> DEFINE o == requests[r].org
                 u == requests[r].user
      <4>1. members' = [members EXCEPT ![o][u] = JoinedAs(o, u, requests[r].role)]
        BY <1>8, <3>2 DEF AddMember
      <4>2. o = a /\ u = orgs[a].creator => JoinedAs(o, u, requests[r].role) = "owner"
        BY <3>0, NoneIsNoId DEF JoinedAs, Member
      <4>3. /\ members \in [Orgs -> [Users -> OrgRole \cup {None}]]
            /\ o \in Orgs /\ u \in Users
        BY <2>2
      <4> HIDE DEF o, u
      <4>4. members'[a][orgs[a].creator] = IF o = a /\ u = orgs[a].creator
                                           THEN JoinedAs(o, u, requests[r].role)
                                           ELSE members[a][orgs[a].creator]
        <5>1. CASE o = a
          <6>1. members'[a] = [members[a] EXCEPT ![u] = JoinedAs(o, u, requests[r].role)]
            BY <4>1, <4>3, <5>1
          <6>2. DOMAIN members[a] = Users /\ orgs[a].creator \in Users
            BY <3>0, <4>3
          <6> QED
            BY <5>1, <6>1, <6>2
        <5>2. CASE o # a
          BY <4>1, <4>3, <5>2
        <5> QED
          BY <5>1, <5>2
      <4> QED
        BY <3>0, <4>2, <4>4
    <3> QED
      BY <3>1, <3>2
  <2> QED
    BY <2>1, <2>3
<1>9. ASSUME NEW r \in Requests,
             MarkAccepted(r)
      PROVE  (orgs[a].creator \in users /\ members[a][orgs[a].creator] = "owner")'
  BY <1>9 DEF MarkAccepted
<1>10. ASSUME NEW r \in Requests,
             SwitchOrg(r)
      PROVE  (orgs[a].creator \in users /\ members[a][orgs[a].creator] = "owner")'
  BY <1>10 DEF SwitchOrg
<1>11. ASSUME NEW r \in Requests, NEW u \in Users, NEW i \in Invites,
             GetForDecline(r, u, i)
      PROVE  (orgs[a].creator \in users /\ members[a][orgs[a].creator] = "owner")'
  BY <1>11 DEF GetForDecline
<1>12. ASSUME NEW r \in Requests,
             MarkDeclined(r)
      PROVE  (orgs[a].creator \in users /\ members[a][orgs[a].creator] = "owner")'
  BY <1>12 DEF MarkDeclined
<1>13. ASSUME NEW r \in Requests,
             RequestFails(r)
      PROVE  (orgs[a].creator \in users /\ members[a][orgs[a].creator] = "owner")'
  BY <1>13 DEF RequestFails
<1>14. ASSUME NEW o \in Orgs,
             DeleteOrg(o)
      PROVE  (orgs[a].creator \in users /\ members[a][orgs[a].creator] = "owner")'
  BY <1>14 DEF DeleteOrg, OrgRow
<1>15. ASSUME NEW u \in Users,
             DeleteUser(u)
      PROVE  (orgs[a].creator \in users /\ members[a][orgs[a].creator] = "owner")'
  BY <1>15 DEF DeleteUser, Referenced
<1>16. ASSUME UNCHANGED vars
       PROVE  (orgs[a].creator \in users /\ members[a][orgs[a].creator] = "owner")'
  BY <1>16 DEF vars
<1> QED
  BY <1>1, <1>2, <1>3, <1>4, <1>5, <1>6, <1>7, <1>8, <1>9, <1>10, <1>11, <1>12,
     <1>13, <1>14, <1>15, <1>16
  DEF Next, OrgApi, InvitationApi, Accept, Decline, PlatformApi, Failure

(* The update that sets the active organisation sees it there, and then    *)
(* the member is.                                                          *)
LEMMA ActiveStep ==
    TypeOK /\ Rows /\ Handlers /\ ActiveOrgIsMine /\ [Next]_vars => ActiveOrgIsMine'
<1> SUFFICES ASSUME TypeOK, Rows, Handlers, ActiveOrgIsMine, [Next]_vars,
                    NEW a \in Users, active'[a] # None
             PROVE  members'[active'[a]][a] # None
  BY DEF ActiveOrgIsMine, Member
<1>a. active[a] # None => members[active[a]][a] # None /\ Present(active[a])
  BY DEF TypeOK, ActiveOrgIsMine, Rows, MemberThere, Member
<1> USE <1>a, NoneIsNoId DEF TypeOK
<1>1. ASSUME NEW u \in Users, NEW o \in Orgs,
             CreateOrg(u, o)
      PROVE  members'[active'[a]][a] # None
  BY <1>1 DEF CreateOrg, Present
<1>2. ASSUME NEW r \in Requests, NEW u \in Users, NEW o \in Orgs,
             CheckMembership(r, u, o)
      PROVE  members'[active'[a]][a] # None
  BY <1>2 DEF CheckMembership
<1>3. ASSUME NEW r \in Requests, SetActiveOrg(r) PROVE members'[active'[a]][a] # None
  <2>1. Added(r) /\ Knows(r)
    BY DEF Handlers
  <2>2. members' = members
    BY <1>3 DEF SetActiveOrg
  <2>3. active' = active \/ (Member(requests[r].org, requests[r].user)
                              /\ active' = [active EXCEPT ![requests[r].user] = requests[r].org])
    BY <1>3, <2>1 DEF SetActiveOrg, SetActive, Added
  <2> QED
    BY <2>2, <2>3 DEF Member
<1>4. ASSUME NEW r \in Requests, NEW u \in Users, NEW v \in Users,
             NEW o \in Orgs, NEW role \in Roles,
             LookupInvitee(r, u, o, v, role)
      PROVE  members'[active'[a]][a] # None
  BY <1>4 DEF LookupInvitee
<1>5. ASSUME NEW r \in Requests, InsertInvitation(r) PROVE members'[active'[a]][a] # None
  BY <1>5 DEF InsertInvitation
<1>6. ASSUME NEW u \in Users, NEW i \in Invites,
             RevokeInvitation(u, i)
      PROVE  members'[active'[a]][a] # None
  BY <1>6 DEF RevokeInvitation
<1>7. ASSUME NEW r \in Requests, NEW u \in Users, NEW i \in Invites,
             GetForAccept(r, u, i)
      PROVE  members'[active'[a]][a] # None
  BY <1>7 DEF GetForAccept
<1>8. ASSUME NEW r \in Requests, AddMember(r) PROVE members'[active'[a]][a] # None
  <2>1. active' = active
    BY <1>8 DEF AddMember
  <2>2. \A o \in Orgs, u \in Users : Member(o, u) => Member(o, u)'
    BY <1>8, MembersGrow
  <2> QED
    BY <2>1, <2>2 DEF Member
<1>9. ASSUME NEW r \in Requests, MarkAccepted(r) PROVE members'[active'[a]][a] # None
  BY <1>9 DEF MarkAccepted
<1>10. ASSUME NEW r \in Requests, SwitchOrg(r) PROVE members'[active'[a]][a] # None
  <2>1. Added(r) /\ Knows(r)
    BY DEF Handlers
  <2>2. members' = members
    BY <1>10 DEF SwitchOrg
  <2>3. active' = active \/ (Member(requests[r].org, requests[r].user)
                              /\ active' = [active EXCEPT ![requests[r].user] = requests[r].org])
    BY <1>10, <2>1 DEF SwitchOrg, SetActive, Added
  <2> QED
    BY <2>2, <2>3 DEF Member
<1>11. ASSUME NEW r \in Requests, NEW u \in Users, NEW i \in Invites,
             GetForDecline(r, u, i)
      PROVE  members'[active'[a]][a] # None
  BY <1>11 DEF GetForDecline
<1>12. ASSUME NEW r \in Requests, MarkDeclined(r) PROVE members'[active'[a]][a] # None
  BY <1>12 DEF MarkDeclined
<1>13. ASSUME NEW r \in Requests, RequestFails(r) PROVE members'[active'[a]][a] # None
  BY <1>13 DEF RequestFails
<1>14. ASSUME NEW o \in Orgs, DeleteOrg(o) PROVE members'[active'[a]][a] # None
  BY <1>14 DEF DeleteOrg
<1>15. ASSUME NEW u \in Users, DeleteUser(u) PROVE members'[active'[a]][a] # None
  BY <1>15 DEF DeleteUser
<1>16. ASSUME UNCHANGED vars PROVE members'[active'[a]][a] # None
  BY <1>16 DEF vars
<1> QED
  BY <1>1, <1>2, <1>3, <1>4, <1>5, <1>6, <1>7, <1>8, <1>9, <1>10, <1>11, <1>12,
     <1>13, <1>14, <1>15, <1>16
  DEF Next, OrgApi, InvitationApi, Accept, Decline, PlatformApi, Failure

(* The inductive invariant.                                                *)
LEMMA InvariantStep == IInv /\ [Next]_vars => IInv'
BY TypeStep, RowsStep, HandlersStep, InvitedStep, AcceptedStep, CreatorStep, ActiveStep DEF IInv

(* It holds in every reachable state.                                      *)
LEMMA Invariance == Spec => []IInv
BY InitIInv, InvariantStep, PTL DEF Spec

(* The rows and the requests keep their types, for any number of users,    *)
(* organisations, invitations and requests.                                *)
THEOREM TypeCorrect == Spec => []TypeOK
BY Invariance, PTL DEF IInv

(* Nobody becomes a member of an organisation unasked: a member created it *)
(* or was let in by an invitation addressed to him, with its role, however *)
(* acceptances, revocations and deletions interleave.                      *)
THEOREM NoMemberUninvited == Spec => []MembersWereInvited
BY Invariance, PTL DEF IInv

(* An accepted invitation has made its member, whatever statement of an    *)
(* acceptance fails.                                                       *)
THEOREM AcceptanceIsNotLost == Spec => []AcceptedIsMember
BY Invariance, PTL DEF IInv

(* No organisation loses its last owner.                                   *)
THEOREM OrgHasOwner == Spec => []CreatorStaysOwner
BY Invariance, PTL DEF IInv

(* No session is left in an organisation that its user does not belong to. *)
THEOREM SessionInMyOrg == Spec => []ActiveOrgIsMine
BY Invariance, PTL DEF IInv

-----------------------------------------------------------------------------
(* What PlatformAdmin promises of the platform admins holds for any number *)
(* of users and of requests to the backoffice under way.                   *)

(* A request that has not written yet, and under which no admin has been   *)
(* removed, has an actor who is still an admin; one that deletes does not  *)
(* delete its actor, and one that demotes its actor leaves another admin.  *)
Fresh(r) ==
    LET q == calls[r] IN
    /\ q.pc \notin {"idle", "audit"} /\ ~q.stale => admins[q.actor] = "active"
    /\ q.pc = "delete" => q.target # q.actor
    /\ q.pc = "demote" /\ ~q.stale /\ q.target = q.actor =>
          \E u \in Users : u # q.actor /\ admins[u] = "active"

AdminInv == PlatformTypeOK /\ \A r \in Calls : Fresh(r)

(* It holds at first.                                                      *)
LEMMA AdminInit == PlatformInit => AdminInv
BY DEF PlatformInit, AdminInv, PlatformTypeOK, Fresh, Call, NoCall

(* Two active admins are one more than the one who asks.                   *)
LEMMA AnotherAdmin ==
    ASSUME NEW u \in Users, admins[u] = "active",
           CanDemoteSelf(Cardinality(Active))
    PROVE  \E w \in Users : w # u /\ admins[w] = "active"
<1> SUFFICES ASSUME \A w \in Users : w # u => admins[w] # "active" PROVE FALSE
  OBVIOUS
<1>1. Active = {u}
  BY DEF Active
<1>2. Cardinality({u}) = 1
  BY FS_Singleton
<1> QED
  BY <1>1, <1>2 DEF CanDemoteSelf

(* What the types say of the requests, and that a request stays so when it *)
(* goes on, or ends.                                                       *)
RequestsTyped ==
    /\ calls \in [Calls -> Call]
    /\ \A r \in Calls :
         /\ calls[r].pc = "idle" => calls[r] = NoCall
         /\ calls[r].pc # "idle" => calls[r].actor # None
         /\ calls[r].pc \in {"promote", "demote", "delete"} => calls[r].target # None

(* The end of a request.                                                   *)
LEMMA EndTyped ==
    ASSUME RequestsTyped, NEW r \in Calls, EndCall(r)
    PROVE  RequestsTyped'
BY DEF RequestsTyped, EndCall, NoCall, Call

(* The write that follows the checks.                                      *)
LEMMA GotoTyped ==
    ASSUME RequestsTyped, NEW r \in Calls, calls[r].pc = "admin", NEW v \in Users,
           NEW pc \in {"promote", "demote", "delete"}, Goto(r, pc, v)
    PROVE  RequestsTyped'
<1>1. calls' = [calls EXCEPT ![r] = [calls[r] EXCEPT !.pc = pc, !.target = v]]
  BY DEF Goto
<1>2. [calls[r] EXCEPT !.pc = pc, !.target = v] \in Call
  BY DEF RequestsTyped, Call
<1> QED
  BY <1>1, <1>2, NoneIsNoUser DEF RequestsTyped, Call

(* The entry that follows the write.                                       *)
LEMMA GotoAuditTyped ==
    ASSUME RequestsTyped, NEW r \in Calls, calls[r].pc # "idle",
           NEW removed \in BOOLEAN, GotoAudit(r, removed)
    PROVE  RequestsTyped'
<1>1. ASSUME NEW q \in Calls, q # r
      PROVE  /\ calls'[q] \in Call
             /\ calls'[q].pc = calls[q].pc
             /\ calls'[q].actor = calls[q].actor
             /\ calls'[q].target = calls[q].target
             /\ calls[q].pc = "idle" => calls'[q] = calls[q]
  <2> DEFINE b == calls[q].stale \/ (removed /\ calls[q].pc # "idle")
  <2>1. calls'[q] = [calls[q] EXCEPT !.stale = b]
    BY <1>1 DEF GotoAudit
  <2>2. b \in BOOLEAN /\ calls[q] \in Call
    BY DEF RequestsTyped, Call
  <2>3. calls[q].pc = "idle" => b = calls[q].stale
    BY <2>2 DEF Call
  <2> HIDE DEF b
  <2> QED
    BY <2>1, <2>2, <2>3 DEF Call
<1>2. calls'[r] = [calls[r] EXCEPT !.pc = "audit"]
  BY DEF GotoAudit
<1>3. calls'[r] \in Call /\ calls'[r].pc = "audit"
      /\ calls'[r].actor = calls[r].actor
  BY <1>2 DEF RequestsTyped, Call
<1>4. calls' \in [Calls -> Call]
  <2>1. calls' = [q \in Calls |-> calls'[q]]
    BY DEF GotoAudit
  <2> QED
    BY <1>1, <1>3, <2>1
<1> QED
  BY <1>1, <1>3, <1>4 DEF RequestsTyped

(* The types, and the rows that the foreign keys keep.                     *)
LEMMA AdminTypeStep == PlatformTypeOK /\ [PlatformNext]_platformVars => PlatformTypeOK'
<1> SUFFICES ASSUME PlatformTypeOK, [PlatformNext]_platformVars PROVE PlatformTypeOK'
  OBVIOUS
<1>a. /\ RequestsTyped
      /\ RequestsTyped' /\ UNCHANGED <<accounts, admins, audit>> /\ creators' \subseteq Users
            => PlatformTypeOK'
  BY DEF PlatformTypeOK, RequestsTyped, Exists
<1>b. accounts \in [Users -> {"absent", "present", "deleted"}]
  BY DEF PlatformTypeOK
<1> USE <1>a, NoneIsNoUser DEF Exists
<1>1. ASSUME NEW w \in Users, SignIn(w) PROVE PlatformTypeOK'
  BY <1>1 DEF SignIn, Bootstrapped, PlatformTypeOK, Call
<1>2. ASSUME NEW w \in Users, CreateSomething(w) PROVE PlatformTypeOK'
  BY <1>2 DEF CreateSomething, PlatformTypeOK
<1>3. ASSUME NEW r \in Calls, NEW w \in Users, RequirePlatformAdmin(r, w)
      PROVE  PlatformTypeOK'
  BY <1>3 DEF RequirePlatformAdmin, PlatformTypeOK, Call, NoCall
<1>4. ASSUME NEW r \in Calls, NEW v \in Users, LookupPromote(r, v) PROVE PlatformTypeOK'
  BY <1>4, GotoTyped, EndTyped DEF LookupPromote, PlatformTypeOK
<1>5. ASSUME NEW r \in Calls, Promote(r) PROVE PlatformTypeOK'
  <2>1. CASE MayPromote(calls[r].target)
    <3>1. RequestsTyped'
      BY <1>5, <2>1, GotoAuditTyped DEF Promote
    <3> QED
      BY <1>5, <2>1, <3>1 DEF Promote, MayPromote, PlatformTypeOK, RequestsTyped
  <2>2. CASE ~MayPromote(calls[r].target)
    BY <1>5, <2>2, EndTyped DEF Promote, PlatformTypeOK
  <2> QED
    BY <2>1, <2>2
<1>6. ASSUME NEW r \in Calls, NEW v \in Users, CheckDemote(r, v) PROVE PlatformTypeOK'
  BY <1>6, GotoTyped, EndTyped DEF CheckDemote, PlatformTypeOK
<1>7. ASSUME NEW r \in Calls, Demote(r) PROVE PlatformTypeOK'
  <2>1. RequestsTyped'
    BY <1>7, GotoAuditTyped DEF Demote
  <2> QED
    BY <1>7, <2>1 DEF Demote, PlatformTypeOK, RequestsTyped
<1>8. ASSUME NEW r \in Calls, NEW v \in Users, LookupDelete(r, v) PROVE PlatformTypeOK'
  BY <1>8, GotoTyped, EndTyped DEF LookupDelete, PlatformTypeOK
<1>9. ASSUME NEW r \in Calls, PlatformDeleteUser(r) PROVE PlatformTypeOK'
  <2>1. CASE Exists(calls[r].target) /\ ~Restricted(calls[r].target)
    <3>1. RequestsTyped'
      BY <1>9, <2>1, GotoAuditTyped DEF PlatformDeleteUser
    <3> QED
      BY <1>9, <2>1, <3>1
      DEF PlatformDeleteUser, Restricted, PlatformTypeOK, RequestsTyped
  <2>2. CASE ~(Exists(calls[r].target) /\ ~Restricted(calls[r].target))
    BY <1>9, <2>2, EndTyped DEF PlatformDeleteUser, PlatformTypeOK
  <2> QED
    BY <2>1, <2>2
<1>10. ASSUME NEW r \in Calls, SuspendOrDeleteOrg(r) PROVE PlatformTypeOK'
  BY <1>10, GotoAuditTyped DEF SuspendOrDeleteOrg, PlatformTypeOK
<1>11. ASSUME NEW r \in Calls, Audit(r) PROVE PlatformTypeOK'
  BY <1>11, EndTyped DEF Audit, PlatformTypeOK, RequestsTyped, Call
<1>12. ASSUME NEW r \in Calls, CallFails(r) PROVE PlatformTypeOK'
  BY <1>12, EndTyped DEF CallFails, PlatformTypeOK
<1>13. ASSUME UNCHANGED platformVars PROVE PlatformTypeOK'
  BY <1>13 DEF platformVars, PlatformTypeOK
<1> QED
  BY <1>1, <1>2, <1>3, <1>4, <1>5, <1>6, <1>7, <1>8, <1>9, <1>10, <1>11, <1>12, <1>13
  DEF PlatformNext, PromoteApi, DemoteApi, DeleteApi

(* What a request under way keeps while others take their steps.           *)
Same(q) ==
    /\ calls'[q].pc = calls[q].pc
    /\ calls'[q].actor = calls[q].actor
    /\ calls'[q].target = calls[q].target
    /\ calls[q].stale => calls'[q].stale

(* A step that goes on to the audit log and removes an admin marks others. *)
LEMMA Marked ==
    ASSUME RequestsTyped, NEW r \in Calls, NEW removed \in BOOLEAN, GotoAudit(r, removed),
           NEW q \in Calls
    PROVE  Fresh(q)' \/ (q # r /\ Same(q) /\ (removed /\ calls[q].pc # "idle"
                                                  => calls'[q].stale))
<1>1. CASE q = r
  <2>1. calls'[r] = [calls[r] EXCEPT !.pc = "audit"]
    BY DEF GotoAudit
  <2>2. calls'[r].pc = "audit"
    BY <2>1 DEF RequestsTyped, Call
  <2> QED
    BY <1>1, <2>2 DEF Fresh
<1>2. CASE q # r
  <2> DEFINE b == calls[q].stale \/ (removed /\ calls[q].pc # "idle")
  <2>1. calls'[q] = [calls[q] EXCEPT !.stale = b]
    BY <1>2 DEF GotoAudit
  <2>2. calls'[q].stale = b /\ calls'[q].pc = calls[q].pc
        /\ calls'[q].actor = calls[q].actor /\ calls'[q].target = calls[q].target
    BY <2>1 DEF RequestsTyped, Call
  <2> QED
    BY <1>2, <2>2 DEF Same
<1> QED
  BY <1>1, <1>2

(* Whatever removes an active admin marks the requests under way.          *)
LEMMA FreshStep ==
    ASSUME AdminInv, [PlatformNext]_platformVars, NEW a \in Calls
    PROVE  Fresh(a)'
<1>a. Fresh(a) /\ RequestsTyped
  BY DEF AdminInv, PlatformTypeOK, RequestsTyped
<1> USE <1>a, NoneIsNoUser DEF AdminInv, PlatformTypeOK, Fresh, Call, NoCall
<1>1. ASSUME NEW w \in Users, SignIn(w) PROVE Fresh(a)'
  BY <1>1 DEF SignIn, Bootstrapped
<1>2. ASSUME NEW w \in Users, CreateSomething(w) PROVE Fresh(a)'
  BY <1>2 DEF CreateSomething
<1>3. ASSUME NEW r \in Calls, NEW w \in Users, RequirePlatformAdmin(r, w)
      PROVE  Fresh(a)'
  BY <1>3 DEF RequirePlatformAdmin
<1>4. ASSUME NEW r \in Calls, NEW v \in Users, LookupPromote(r, v) PROVE Fresh(a)'
  BY <1>4 DEF LookupPromote, Goto, EndCall
<1>5. ASSUME NEW r \in Calls, Promote(r) PROVE Fresh(a)'
  BY <1>5 DEF Promote, GotoAudit, EndCall
<1>6. ASSUME NEW r \in Calls, NEW v \in Users, CheckDemote(r, v) PROVE Fresh(a)'
  <2> DEFINE two == CanDemoteSelf(Cardinality(Active))
             last == v = calls[r].actor /\ ~two
  <2>1. /\ calls[r].pc = "admin"
        /\ IF last THEN EndCall(r) ELSE Goto(r, "demote", v)
        /\ UNCHANGED admins
    BY <1>6 DEF CheckDemote
  <2>4. ~last => v # calls[r].actor \/ two
    BY DEF last
  <2> HIDE DEF last
  <2>2. CASE last
    BY <2>1, <2>2 DEF EndCall
  <2>3. CASE ~last
    <3>1. Goto(r, "demote", v) /\ calls[r].pc = "admin"
      BY <2>1, <2>3
    <3>2. CASE a # r
      BY <2>1, <3>1, <3>2 DEF Goto
    <3>3. CASE a = r
      <4>1. calls'[a].pc = "demote" /\ calls'[a].target = v
            /\ calls'[a].actor = calls[a].actor /\ calls'[a].stale = calls[a].stale
        BY <3>1, <3>3 DEF Goto
      <4>2. CASE v # calls[a].actor
        BY <2>1, <3>1, <3>3, <4>1, <4>2
      <4>3. CASE v = calls[a].actor
        <5>1. two
          BY <2>3, <2>4, <3>3, <4>3
        <5>2. ~calls[a].stale => admins[v] = "active"
          BY <3>1, <3>3, <4>3
        <5>3. ~calls[a].stale => \E u \in Users : u # v /\ admins[u] = "active"
          BY <5>1, <5>2, AnotherAdmin DEF two
        <5> QED
          BY <2>1, <4>1, <4>3, <5>2, <5>3
      <4> QED
        BY <4>2, <4>3
    <3> QED
      BY <3>2, <3>3
  <2> QED
    BY <2>2, <2>3
<1>7. ASSUME NEW r \in Calls, Demote(r) PROVE Fresh(a)'
  <2> DEFINE removed == admins[calls[r].target] = "active"
  <2>1. GotoAudit(r, removed) /\ (~removed => admins' = admins)
    BY <1>7 DEF Demote
  <2>2. Fresh(a)' \/ (a # r /\ Same(a) /\
                        (removed /\ calls[a].pc # "idle" => calls'[a].stale))
    BY <2>1, Marked DEF removed
  <2> HIDE DEF removed
  <2> QED
    BY <2>1, <2>2 DEF Same
<1>8. ASSUME NEW r \in Calls, NEW v \in Users, LookupDelete(r, v) PROVE Fresh(a)'
  BY <1>8 DEF LookupDelete, Goto, EndCall
<1>9. ASSUME NEW r \in Calls, PlatformDeleteUser(r) PROVE Fresh(a)'
  <2> DEFINE v == calls[r].target
             removed == admins[v] = "active"
  <2>1. CASE Exists(v) /\ ~Restricted(v)
    <3>1. GotoAudit(r, removed)
      BY <1>9, <2>1 DEF PlatformDeleteUser
    <3>2. ~removed => \A u \in Users : admins[u] = "active" => admins'[u] = "active"
      BY <1>9, <2>1 DEF PlatformDeleteUser
    <3>3. Fresh(a)' \/ (a # r /\ Same(a) /\
                          (removed /\ calls[a].pc # "idle" => calls'[a].stale))
      BY <3>1, Marked DEF removed
    <3> HIDE DEF removed
    <3> QED
      BY <3>2, <3>3 DEF Same
  <2>2. CASE ~(Exists(v) /\ ~Restricted(v))
    BY <1>9, <2>2 DEF PlatformDeleteUser, EndCall
  <2> QED
    BY <2>1, <2>2
<1>10. ASSUME NEW r \in Calls, SuspendOrDeleteOrg(r) PROVE Fresh(a)'
  BY <1>10 DEF SuspendOrDeleteOrg, GotoAudit
<1>11. ASSUME NEW r \in Calls, Audit(r) PROVE Fresh(a)'
  BY <1>11 DEF Audit, EndCall
<1>12. ASSUME NEW r \in Calls, CallFails(r) PROVE Fresh(a)'
  BY <1>12 DEF CallFails, EndCall
<1>13. ASSUME UNCHANGED platformVars PROVE Fresh(a)'
  BY <1>13 DEF platformVars
<1> QED
  BY <1>1, <1>2, <1>3, <1>4, <1>5, <1>6, <1>7, <1>8, <1>9, <1>10, <1>11, <1>12, <1>13
  DEF PlatformNext, PromoteApi, DemoteApi, DeleteApi

(* The inductive invariant.                                                *)
LEMMA AdminInvariance == PlatformSpec => []AdminInv
<1>1. AdminInv /\ [PlatformNext]_platformVars => AdminInv'
  BY AdminTypeStep, FreshStep DEF AdminInv
<1> QED
  BY AdminInit, <1>1, PTL DEF PlatformSpec

(* The types, and with them that no row of the admins or of the audit log  *)
(* is left without its user, for any number of users and requests.         *)
THEOREM AdminTypes == PlatformSpec => []PlatformTypeOK
BY AdminInvariance, PTL DEF AdminInv

(* An admin is the last to go only by a demotion or a deletion.            *)
LEMMA OnlyRemovals ==
    ASSUME PlatformTypeOK, [PlatformNext]_platformVars,
           Active # {}, Active' = {}
    PROVE  \E r \in Calls : Demote(r) \/ PlatformDeleteUser(r)
<1> PICK b \in Users : admins[b] = "active"
  BY DEF Active
<1>0. admins'[b] # "active"
  BY DEF Active
<1> DEFINE G == \E r \in Calls : Demote(r) \/ PlatformDeleteUser(r)
<1>1. ASSUME NEW w \in Users, SignIn(w) PROVE G
  BY <1>0, <1>1 DEF SignIn, PlatformTypeOK, Bootstrapped
<1>2. ASSUME NEW w \in Users, CreateSomething(w) PROVE G
  BY <1>0, <1>2 DEF CreateSomething, PlatformTypeOK, Bootstrapped
<1>3. ASSUME NEW r \in Calls, NEW w \in Users, RequirePlatformAdmin(r, w) PROVE G
  BY <1>0, <1>3 DEF RequirePlatformAdmin, PlatformTypeOK, Bootstrapped
<1>4. ASSUME NEW r \in Calls, NEW v \in Users, LookupPromote(r, v) PROVE G
  BY <1>0, <1>4 DEF LookupPromote, PlatformTypeOK, Bootstrapped
<1>5. ASSUME NEW r \in Calls, Promote(r) PROVE G
  BY <1>0, <1>5 DEF Promote, PlatformTypeOK, Bootstrapped
<1>6. ASSUME NEW r \in Calls, NEW v \in Users, CheckDemote(r, v) PROVE G
  BY <1>0, <1>6 DEF CheckDemote, PlatformTypeOK, Bootstrapped
<1>7. ASSUME NEW r \in Calls, Demote(r) PROVE G
  BY <1>7
<1>8. ASSUME NEW r \in Calls, NEW v \in Users, LookupDelete(r, v) PROVE G
  BY <1>0, <1>8 DEF LookupDelete, PlatformTypeOK, Bootstrapped
<1>9. ASSUME NEW r \in Calls, PlatformDeleteUser(r) PROVE G
  BY <1>9
<1>10. ASSUME NEW r \in Calls, SuspendOrDeleteOrg(r) PROVE G
  BY <1>0, <1>10 DEF SuspendOrDeleteOrg, PlatformTypeOK, Bootstrapped
<1>11. ASSUME NEW r \in Calls, Audit(r) PROVE G
  BY <1>0, <1>11 DEF Audit, PlatformTypeOK, Bootstrapped
<1>12. ASSUME NEW r \in Calls, CallFails(r) PROVE G
  BY <1>0, <1>12 DEF CallFails, PlatformTypeOK, Bootstrapped
<1>13. ASSUME UNCHANGED platformVars PROVE G
  BY <1>0, <1>13 DEF platformVars, PlatformTypeOK, Bootstrapped
<1> QED
  BY <1>1, <1>2, <1>3, <1>4, <1>5, <1>6, <1>7, <1>8, <1>9, <1>10, <1>11, <1>12, <1>13
  DEF PlatformNext, PromoteApi, DemoteApi, DeleteApi

(* A request that is not stale leaves its actor, or another admin.         *)
LEMMA LastAdminStep ==
    ASSUME AdminInv, [PlatformNext]_platformVars, Active # {}, Active' = {}
    PROVE  \E r \in Calls : calls[r].stale /\ calls[r].pc \in {"demote", "delete"}
<1>1. PICK r \in Calls : Demote(r) \/ PlatformDeleteUser(r)
  BY OnlyRemovals DEF AdminInv
<1> DEFINE q == calls[r]
<1>2. q.pc \in {"demote", "delete"}
  BY <1>1 DEF Demote, PlatformDeleteUser
<1>3. \A u \in Users : u # q.target => admins'[u] = admins[u]
  BY <1>1 DEF Demote, PlatformDeleteUser, AdminInv, PlatformTypeOK
<1>4. ASSUME ~q.stale PROVE FALSE
  <2>1. Fresh(r) /\ q.actor \in Users
    BY <1>2 DEF AdminInv, PlatformTypeOK, Call
  <2>2. PICK u \in Users : u # q.target /\ admins[u] = "active"
    BY <1>2, <1>4, <2>1 DEF Fresh
  <2> QED
    BY <1>3, <2>2 DEF Active
<1>5. q.stale
  BY <1>4
<1> QED
  BY <1>2, <1>5

(* The platform is left without an active admin only by a request that was *)
(* let in before another one removed an admin: the check of the last admin *)
(* in the handler is enough for requests that follow each other, with any  *)
(* number of admins.                                                       *)
THEOREM LastAdmin == PlatformSpec => LastAdminLostOnlyByOverlap
<1>1. AdminInv /\ [PlatformNext]_platformVars =>
        [Active # {} /\ Active' = {} =>
            \E r \in Calls : calls[r].stale /\ calls[r].pc \in {"demote", "delete"}]_platformVars
  BY LastAdminStep
<1> QED
  BY AdminInvariance, <1>1, PTL DEF PlatformSpec, LastAdminLostOnlyByOverlap

(* No step but a promotion of the user makes a revoked admin active again. *)
LEMMA DemotionStep ==
    ASSUME PlatformTypeOK, [PlatformNext]_platformVars, NEW u \in Users,
           admins[u] = "revoked", admins'[u] = "active"
    PROVE  \E r \in Calls : calls[r].pc = "promote" /\ calls[r].target = u
<1> DEFINE G == \E r \in Calls : calls[r].pc = "promote" /\ calls[r].target = u
<1>1. ASSUME NEW w \in Users, SignIn(w) PROVE G
  BY <1>1 DEF SignIn, PlatformTypeOK, Bootstrapped
<1>2. ASSUME NEW w \in Users, CreateSomething(w) PROVE G
  BY <1>2 DEF CreateSomething, PlatformTypeOK, Bootstrapped
<1>3. ASSUME NEW r \in Calls, NEW w \in Users, RequirePlatformAdmin(r, w) PROVE G
  BY <1>3 DEF RequirePlatformAdmin, PlatformTypeOK, Bootstrapped
<1>4. ASSUME NEW r \in Calls, NEW v \in Users, LookupPromote(r, v) PROVE G
  BY <1>4 DEF LookupPromote, PlatformTypeOK, Bootstrapped
<1>5. ASSUME NEW r \in Calls, Promote(r) PROVE G
  BY <1>5 DEF Promote, PlatformTypeOK, Bootstrapped
<1>6. ASSUME NEW r \in Calls, NEW v \in Users, CheckDemote(r, v) PROVE G
  BY <1>6 DEF CheckDemote, PlatformTypeOK, Bootstrapped
<1>7. ASSUME NEW r \in Calls, Demote(r) PROVE G
  BY <1>7 DEF Demote, PlatformTypeOK, Bootstrapped
<1>8. ASSUME NEW r \in Calls, NEW v \in Users, LookupDelete(r, v) PROVE G
  BY <1>8 DEF LookupDelete, PlatformTypeOK, Bootstrapped
<1>9. ASSUME NEW r \in Calls, PlatformDeleteUser(r) PROVE G
  BY <1>9 DEF PlatformDeleteUser, PlatformTypeOK, Bootstrapped
<1>10. ASSUME NEW r \in Calls, SuspendOrDeleteOrg(r) PROVE G
  BY <1>10 DEF SuspendOrDeleteOrg, PlatformTypeOK, Bootstrapped
<1>11. ASSUME NEW r \in Calls, Audit(r) PROVE G
  BY <1>11 DEF Audit, PlatformTypeOK, Bootstrapped
<1>12. ASSUME NEW r \in Calls, CallFails(r) PROVE G
  BY <1>12 DEF CallFails, PlatformTypeOK, Bootstrapped
<1>13. ASSUME UNCHANGED platformVars PROVE G
  BY <1>13 DEF platformVars, PlatformTypeOK, Bootstrapped
<1> QED
  BY <1>1, <1>2, <1>3, <1>4, <1>5, <1>6, <1>7, <1>8, <1>9, <1>10, <1>11, <1>12, <1>13
  DEF PlatformNext, PromoteApi, DemoteApi, DeleteApi

(* A demotion lasts until the user is promoted again: no sign-in of a user *)
(* on the seed list undoes it.                                             *)
THEOREM Demotion == PlatformSpec => DemotionLasts
<1>1. AdminInv /\ [PlatformNext]_platformVars =>
        [\A u \in Users : admins[u] = "revoked" /\ admins'[u] = "active" =>
            \E r \in Calls : calls[r].pc = "promote" /\ calls[r].target = u]_platformVars
  BY DemotionStep DEF AdminInv
<1> QED
  BY AdminInvariance, <1>1, PTL DEF PlatformSpec, DemotionLasts
=============================================================================
