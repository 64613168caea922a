---------------------------- MODULE Invitations ----------------------------
(***************************************************************************)
(* Organisations, their members and the invitations that make members: an  *)
(* owner or admin invites a user by email, and the invitation is accepted, *)
(* declined or revoked.  Acceptance adds the member and then marks the     *)
(* invitation, in two statements that no transaction holds together, and   *)
(* then switches the active organisation of the session.  Organisations    *)
(* and users may be deleted at any time, as far as the foreign keys let    *)
(* them.                                                                   *)
(*                                                                         *)
(* An email is taken for the user who has it.  A user has one session.     *)
(***************************************************************************)
EXTENDS Naturals, FiniteSets, Identities

CONSTANTS Orgs,         \* orgs, each created once
          Invites,      \* org_invitations, each created once
          Requests,     \* requests under way at the same time
          Roles         \* the roles that invitations offer

ASSUME RolesAreOrgRoles == Roles \subseteq {"owner", "admin", "member"}
ASSUME NoneIsNoId == None \notin Users \cup Orgs \cup Invites \cup {"owner", "admin", "member"}

VARIABLES users,        \* the users there are
          orgs,         \* orgs
          members,      \* org_members: the role of a user, or None
          invites,      \* org_invitations
          active,       \* sessions.active_org_id of a user's session
          requests,     \* handlers between two statements
          half          \* history: invitations whose acceptance was cut short or overtaken

vars == <<users, orgs, members, invites, active, requests, half>>

-----------------------------------------------------------------------------
OrgRole   == {"owner", "admin", "member"}
OrgRow    == [status : {"unused", "present", "gone"}, creator : Users \cup {None}]
NoInvite  == [status |-> "unused", org |-> None, email |-> None, by |-> None, role |-> None]
InviteRow == [status : {"pending", "accepted", "declined", "revoked", "gone"},
              org : Orgs, email : Users, by : Users, role : Roles]
Request   == [pc    : {"idle", "add", "mark", "switch", "decline", "insert", "active"},
              user  : Users \cup {None},
              org   : Orgs \cup {None},
              invite : Invites \cup {None},
              email : Users \cup {None},
              role  : Roles \cup {None}]

NoRequest == [pc |-> "idle", user |-> None, org |-> None, invite |-> None,
              email |-> None, role |-> None]

(* The types of the rows and of the requests under way; an invitation      *)
(* names its organisation, its user and who invited him for as long as it  *)
(* is there.                                                               *)
TypeOK ==
    /\ users \subseteq Users
    /\ orgs \in [Orgs -> OrgRow]
    /\ members \in [Orgs -> [Users -> OrgRole \cup {None}]]
    /\ invites \in [Invites -> InviteRow \cup {NoInvite}]
    /\ active \in [Users -> Orgs \cup {None}]
    /\ requests \in [Requests -> Request]
    /\ half \subseteq Invites

Init ==
    /\ users = Users
    /\ orgs = [o \in Orgs |-> [status |-> "unused", creator |-> None]]
    /\ members = [o \in Orgs |-> [u \in Users |-> None]]
    /\ invites = [i \in Invites |-> NoInvite]
    /\ active = [u \in Users |-> None]
    /\ requests = [r \in Requests |-> NoRequest]
    /\ half = {}

-----------------------------------------------------------------------------
Present(o)   == orgs[o].status = "present"
Pending(i)   == invites[i].status = "pending"
Member(o, u) == members[o][u] # None
Manages(o, u) == members[o][u] \in {"owner", "admin"}

Start(r, fields) == /\ requests[r].pc = "idle"
                    /\ requests' = [requests EXCEPT ![r] = fields]
End(r) == requests' = [requests EXCEPT ![r] = NoRequest]

(* Orgs.Create: the organisation and its owner in one transaction, and then *)
(* the active organisation.                                                 *)
CreateOrg(u, o) ==
    /\ u \in users
    /\ orgs[o].status = "unused"
    /\ orgs' = [orgs EXCEPT ![o] = [status |-> "present", creator |-> u]]
    /\ members' = [members EXCEPT ![o][u] = "owner"]
    /\ active' \in {active, [active EXCEPT ![u] = o]}
    /\ UNCHANGED <<users, invites, requests, half>>

(* The switch of the active organisation: the membership is checked, and    *)
(* the update fails on the foreign key if the organisation has gone.        *)
CheckMembership(r, u, o) ==
    /\ u \in users
    /\ Member(o, u)
    /\ Start(r, [NoRequest EXCEPT !.pc = "active", !.user = u, !.org = o])
    /\ UNCHANGED <<users, orgs, members, invites, active, half>>

(* Mutant of SetActive: an organisation that has gone is set all the same.  *)
MutantSetActive(u, o) == IF u \in users THEN [active EXCEPT ![u] = o] ELSE active

SetActive(u, o) ==
    IF u \in users /\ Present(o) THEN [active EXCEPT ![u] = o] ELSE active

SetActiveOrg(r) ==
    /\ requests[r].pc = "active"
    /\ active' = SetActive(requests[r].user, requests[r].org)
    /\ End(r)
    /\ UNCHANGED <<users, orgs, members, invites, half>>

-----------------------------------------------------------------------------
(* An owner or admin invites a user who is there and is no member yet.      *)
LookupInvitee(r, u, o, v, role) ==
    /\ u \in users
    /\ Manages(o, u)
    /\ v \in users
    /\ ~Member(o, v)
    /\ Start(r, [NoRequest EXCEPT !.pc = "insert", !.user = u, !.org = o, !.email = v,
                                  !.role = role])
    /\ UNCHANGED <<users, orgs, members, invites, active, half>>

(* The partial unique index lets one pending invitation be there for an     *)
(* email in an organisation, whether it has expired or not.                 *)
InsertInvitation(r) ==
    LET q == requests[r]
        pending == \E i \in Invites : Pending(i) /\ invites[i].org = q.org
                                                 /\ invites[i].email = q.email
    IN /\ q.pc = "insert"
       /\ \/ /\ Present(q.org) /\ q.user \in users /\ ~pending
             /\ \E i \in Invites :
                   /\ invites[i].status = "unused"
                   /\ invites' = [invites EXCEPT ![i] =
                         [status |-> "pending", org |-> q.org, email |-> q.email,
                          by |-> q.user, role |-> q.role]]
          \/ UNCHANGED invites
       /\ End(r)
       /\ UNCHANGED <<users, orgs, members, active, half>>

(* Requests that have read the invitation as pending and may add a member.  *)
Accepting(i) == \E r \in Requests : requests[r].pc \in {"add", "mark"} /\ requests[r].invite = i

Resolve(i, status) ==
    /\ invites' = [invites EXCEPT ![i].status = status]
    /\ half' = IF Accepting(i) THEN half \cup {i} ELSE half

RevokeInvitation(u, i) ==
    /\ u \in users
    /\ Pending(i)
    /\ Manages(invites[i].org, u)
    /\ Resolve(i, "revoked")
    /\ UNCHANGED <<users, orgs, members, active, requests>>

(* Mutant of MayAnswer: the status of the invitation is not looked at.      *)
MutantMayAnswer(u, i) ==
    /\ invites[i].status \notin {"unused", "gone"}
    /\ invites[i].email = u

(* An invitation may be answered by the user with its email while it is     *)
(* pending.  No statement of the handlers reads expires_at, so an invitation*)
(* that has expired is no different here from one that has not.             *)
MayAnswer(u, i) == Pending(i) /\ invites[i].email = u

GetForAccept(r, u, i) ==
    /\ u \in users
    /\ MayAnswer(u, i)
    /\ Start(r, [NoRequest EXCEPT !.pc = "add", !.user = u, !.org = invites[i].org,
                                  !.invite = i, !.role = invites[i].role])
    /\ UNCHANGED <<users, orgs, members, invites, active, half>>

(* on conflict do nothing                                                   *)
JoinedAs(o, u, role) == IF Member(o, u) THEN members[o][u] ELSE role

(* Mutant of AddMember: the invitation is marked first.                     *)
MutantMarkFirst(r) ==
    LET q == requests[r]
    IN /\ q.pc = "add"
       /\ IF Pending(q.invite)
          THEN /\ invites' = [invites EXCEPT ![q.invite].status = "accepted"]
               /\ requests' = [requests EXCEPT ![r].pc = "mark"]
          ELSE End(r) /\ UNCHANGED invites
       /\ UNCHANGED <<users, orgs, members, active, half>>

AddMember(r) ==
    LET q == requests[r]
    IN /\ q.pc = "add"
       /\ IF Present(q.org) /\ q.user \in users
          THEN /\ members' = [members EXCEPT ![q.org][q.user] = JoinedAs(q.org, q.user, q.role)]
               /\ requests' = [requests EXCEPT ![r].pc = "mark"]
          ELSE End(r) /\ UNCHANGED members
       /\ UNCHANGED <<users, orgs, invites, active, half>>

(* Without a pending invitation the answer is an error, and the member      *)
(* stays.                                                                   *)
MarkAccepted(r) ==
    LET q == requests[r]
    IN /\ q.pc = "mark"
       /\ IF Pending(q.invite)
          THEN /\ invites' = [invites EXCEPT ![q.invite].status = "accepted"]
               /\ requests' = [requests EXCEPT ![r].pc = "switch"]
          ELSE End(r) /\ UNCHANGED invites
       /\ UNCHANGED <<users, orgs, members, active, half>>

SwitchOrg(r) ==
    /\ requests[r].pc = "switch"
    /\ active' = SetActive(requests[r].user, requests[r].org)
    /\ End(r)
    /\ UNCHANGED <<users, orgs, members, invites, half>>

GetForDecline(r, u, i) ==
    /\ u \in users
    /\ MayAnswer(u, i)
    /\ Start(r, [NoRequest EXCEPT !.pc = "decline", !.user = u, !.invite = i])
    /\ UNCHANGED <<users, orgs, members, invites, active, half>>

MarkDeclined(r) ==
    LET i == requests[r].invite
    IN /\ requests[r].pc = "decline"
       /\ IF Pending(i) THEN Resolve(i, "declined") ELSE UNCHANGED <<invites, half>>
       /\ End(r)
       /\ UNCHANGED <<users, orgs, members, active>>

(* The replica stops, or a statement fails.                                 *)
RequestFails(r) ==
    /\ requests[r].pc # "idle"
    /\ half' = IF requests[r].pc = "mark" THEN half \cup {requests[r].invite} ELSE half
    /\ End(r)
    /\ UNCHANGED <<users, orgs, members, invites, active>>

-----------------------------------------------------------------------------
(* The deletion of an organisation takes its members and invitations with   *)
(* it and sets the active organisation of sessions to null.                 *)
DeleteOrg(o) ==
    /\ Present(o)
    /\ orgs' = [orgs EXCEPT ![o].status = "gone"]
    /\ members' = [members EXCEPT ![o] = [u \in Users |-> None]]
    /\ invites' = [i \in Invites |-> IF invites[i].org = o
                                     THEN [invites[i] EXCEPT !.status = "gone"]
                                     ELSE invites[i]]
    /\ active' = [u \in Users |-> IF active[u] = o THEN None ELSE active[u]]
    /\ UNCHANGED <<users, requests, half>>

(* Mutant of Referenced: created_by does not restrict.                      *)
MutantReferenced(u) ==
    \E i \in Invites : invites[i].status \notin {"unused", "gone"} /\ invites[i].by = u

(* created_by and invited_by restrict the deletion of a user.               *)
Referenced(u) ==
    \/ \E o \in Orgs : Present(o) /\ orgs[o].creator = u
    \/ \E i \in Invites : invites[i].status \notin {"unused", "gone"} /\ invites[i].by = u

(* Mutant of DeleteUser: invited_by is set to null.                         *)
MutantDeleteUser(u) ==
    /\ u \in users
    /\ \A o \in Orgs : ~(Present(o) /\ orgs[o].creator = u)
    /\ users' = users \ {u}
    /\ members' = [o \in Orgs |-> [members[o] EXCEPT ![u] = None]]
    /\ invites' = [i \in Invites |-> IF invites[i].by = u THEN [invites[i] EXCEPT !.by = None]
                                                         ELSE invites[i]]
    /\ active' = [active EXCEPT ![u] = None]
    /\ UNCHANGED <<orgs, requests, half>>

DeleteUser(u) ==
    /\ u \in users
    /\ ~Referenced(u)
    /\ users' = users \ {u}
    /\ members' = [o \in Orgs |-> [members[o] EXCEPT ![u] = None]]
    /\ active' = [active EXCEPT ![u] = None]
    /\ UNCHANGED <<orgs, invites, requests, half>>

-----------------------------------------------------------------------------
OrgApi ==
    \/ \E u \in Users, o \in Orgs : CreateOrg(u, o)
    \/ \E r \in Requests :
          \/ \E u \in Users, o \in Orgs : CheckMembership(r, u, o)
          \/ SetActiveOrg(r)

InvitationApi ==
    \/ \E u \in Users, i \in Invites : RevokeInvitation(u, i)
    \/ \E r \in Requests :
          \/ \E u, v \in Users, o \in Orgs, role \in Roles : LookupInvitee(r, u, o, v, role)
          \/ InsertInvitation(r)

Accept ==
    \E r \in Requests :
        \/ \E u \in Users, i \in Invites : GetForAccept(r, u, i)
        \/ AddMember(r) \/ MarkAccepted(r) \/ SwitchOrg(r)

Decline ==
    \E r \in Requests : MarkDeclined(r) \/ \E u \in Users, i \in Invites : GetForDecline(r, u, i)

PlatformApi == (\E o \in Orgs : DeleteOrg(o)) \/ (\E u \in Users : DeleteUser(u))

Failure == \E r \in Requests : RequestFails(r)

Next == OrgApi \/ InvitationApi \/ Accept \/ Decline \/ PlatformApi \/ Failure

Spec == Init /\ [][Next]_vars

-----------------------------------------------------------------------------
(* Whoever is a member of an organisation created it, or was let in by an   *)
(* invitation addressed to him, with the role that it offered: one that is  *)
(* marked as accepted, that is being accepted, or whose acceptance was cut  *)
(* short by a failure or overtaken by a revocation or a denial.  That it    *)
(* was still valid is not said: an invitation that has expired, as the      *)
(* email that announced it said it would, lets its user in all the same.    *)
LetInBy(o, u, i) ==
    /\ invites[i].org = o
    /\ invites[i].email = u
    /\ invites[i].role = members[o][u]
    /\ \/ invites[i].status = "accepted"
       \/ i \in half
       \/ \E r \in Requests : requests[r].pc = "mark" /\ requests[r].invite = i

MembersWereInvited ==
    \A o \in Orgs, u \in Users :
        Member(o, u) => \/ orgs[o].creator = u /\ members[o][u] = "owner"
                        \/ \E i \in Invites : LetInBy(o, u, i)

(* An invitation is marked as accepted only when its user is a member, so   *)
(* no failure between the two statements can lose the membership.           *)
AcceptedIsMember ==
    \A i \in Invites :
        invites[i].status = "accepted" /\ invites[i].email \in users =>
            Member(invites[i].org, invites[i].email)

(* An organisation has an owner for as long as it is there: its creator,    *)
(* whom neither a deletion nor an acceptance can take away.                 *)
CreatorStaysOwner ==
    \A o \in Orgs : Present(o) =>
        /\ orgs[o].creator \in users
        /\ members[o][orgs[o].creator] = "owner"

(* The active organisation of a session is one of which its user is a       *)
(* member, although it is checked or added before it is set, and the        *)
(* organisation may be deleted between the two.                             *)
ActiveOrgIsMine == \A u \in Users : active[u] # None => Member(active[u], u)

=============================================================================
