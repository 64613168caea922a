--------------------------- MODULE PlatformAdmin ---------------------------
(***************************************************************************)
(* The platform admins: the bootstrap at sign-in, and the requests of the  *)
(* backoffice that promote, demote, suspend and delete.  A request passes  *)
(* RequirePlatformAdmin, reads what its handler checks, writes, and then   *)
(* records itself in the audit log, each in a statement of its own, while  *)
(* other requests do the same.                                             *)
(*                                                                         *)
(* What restricts the deletion of a user is kept as two sets: the users    *)
(* that an organisation, an invitation or a connection names as its        *)
(* creator, and the actors of the audit log.                               *)
(***************************************************************************)
EXTENDS Naturals, FiniteSets, Identities

CONSTANTS Seeds,        \* users whose email is on the seed list
          Calls         \* requests to /api/platform under way at the same time

ASSUME SeedsAreUsers == Seeds \subseteq Users

VARIABLES accounts,     \* users
          admins,       \* platform_admins
          creators,     \* users named by created_by or invited_by
          audit,        \* actors in platform_audit_log
          calls         \* requests past RequirePlatformAdmin

platformVars == <<accounts, admins, creators, audit, calls>>

-----------------------------------------------------------------------------
(* stale: history, an active admin was removed by another request since     *)
(* this one was let in.                                                     *)
Call == [pc     : {"idle", "admin", "promote", "demote", "delete", "audit"},
         actor  : Users \cup {None},
         target : Users \cup {None},
         stale  : BOOLEAN]

NoCall == [pc |-> "idle", actor |-> None, target |-> None, stale |-> FALSE]

Exists(u) == accounts[u] = "present"

(* Types, and what the foreign keys keep: a row of the admins or of the     *)
(* audit log names a user who exists, although the user may be deleted      *)
(* between the check of a request and its insert.                           *)
PlatformTypeOK ==
    /\ accounts \in [Users -> {"absent", "present", "deleted"}]
    /\ admins \in [Users -> {"none", "active", "revoked"}]
    /\ creators \subseteq Users
    /\ audit \subseteq Users
    /\ calls \in [Calls -> Call]
    /\ \A r \in Calls :
         /\ calls[r].pc = "idle" => calls[r] = NoCall
         /\ calls[r].pc # "idle" => calls[r].actor # None
         /\ calls[r].pc \in {"promote", "demote", "delete"} => calls[r].target # None
    /\ \A u \in Users : admins[u] # "none" \/ u \in audit => Exists(u)

PlatformInit ==
    /\ accounts = [u \in Users |-> "absent"]
    /\ admins = [u \in Users |-> "none"]
    /\ creators = {}
    /\ audit = {}
    /\ calls = [r \in Calls |-> NoCall]

-----------------------------------------------------------------------------
Active    == {u \in Users : admins[u] = "active"}

(* Mutant of Bootstrapped: an upsert, as in Promote.                        *)
MutantBootstrapped(u) == "active"

(* on conflict do nothing: a row that is there stays as it is.              *)
Bootstrapped(u) == IF admins[u] = "none" THEN "active" ELSE admins[u]

(* UpsertByGoogle with MaybeBootstrap, whose failure is ignored.            *)
SignIn(u) ==
    /\ accounts[u] # "deleted"
    /\ accounts' = [accounts EXCEPT ![u] = "present"]
    /\ \/ u \in Seeds /\ admins' = [admins EXCEPT ![u] = Bootstrapped(u)]
       \/ UNCHANGED admins
    /\ UNCHANGED <<creators, audit, calls>>

(* A user creates an organisation, an invitation or a connection, ...       *)
CreateSomething(u) ==
    /\ Exists(u)
    /\ u \notin creators
    /\ creators' = creators \cup {u}
    /\ UNCHANGED <<accounts, admins, audit, calls>>

-----------------------------------------------------------------------------
RequirePlatformAdmin(r, u) ==
    /\ calls[r].pc = "idle"
    /\ Exists(u)
    /\ admins[u] = "active"
    /\ calls' = [calls EXCEPT ![r] = [NoCall EXCEPT !.pc = "admin", !.actor = u]]
    /\ UNCHANGED <<accounts, admins, creators, audit>>

Goto(r, pc, v) == calls' = [calls EXCEPT ![r].pc = pc, ![r].target = v]
EndCall(r)         == calls' = [calls EXCEPT ![r] = NoCall]

(* Goto for a step that removes an active admin while others are under way. *)
GotoAudit(r, removed) ==
    calls' = [q \in Calls |->
        IF q = r THEN [calls[r] EXCEPT !.pc = "audit"]
        ELSE [calls[q] EXCEPT !.stale = @ \/ (removed /\ calls[q].pc # "idle")]]

(* UserEmail: the target must exist.                                        *)
LookupPromote(r, v) ==
    /\ calls[r].pc = "admin"
    /\ IF Exists(v) THEN Goto(r, "promote", v) ELSE EndCall(r)
    /\ UNCHANGED <<accounts, admins, creators, audit>>

(* Mutant of MayPromote: the foreign key of user_id is not there.           *)
MutantMayPromote(v) == TRUE

(* The upsert fails on its foreign key if the target has been deleted.      *)
MayPromote(v) == Exists(v)

Promote(r) ==
    LET v == calls[r].target
    IN /\ calls[r].pc = "promote"
       /\ IF MayPromote(v)
          THEN /\ admins' = [admins EXCEPT ![v] = "active"]
               /\ GotoAudit(r, FALSE)
          ELSE EndCall(r) /\ UNCHANGED admins
       /\ UNCHANGED <<accounts, creators, audit>>

(* Mutant of CanDemoteSelf: off by one.                                     *)
MutantCanDemoteSelf(n) == n >= 1

CanDemoteSelf(n) == n >= 2

(* Only a demotion of oneself counts the active admins.                     *)
CheckDemote(r, v) ==
    /\ calls[r].pc = "admin"
    /\ IF v = calls[r].actor /\ ~CanDemoteSelf(Cardinality(Active))
       THEN EndCall(r)
       ELSE Goto(r, "demote", v)
    /\ UNCHANGED <<accounts, admins, creators, audit>>

Demote(r) ==
    LET v == calls[r].target
    IN /\ calls[r].pc = "demote"
       /\ admins' = IF admins[v] = "active" THEN [admins EXCEPT ![v] = "revoked"] ELSE admins
       /\ GotoAudit(r, admins[v] = "active")
       /\ UNCHANGED <<accounts, creators, audit>>

(* The deletion of a user: not oneself, with a phrase to confirm.           *)
LookupDelete(r, v) ==
    /\ calls[r].pc = "admin"
    /\ IF v # calls[r].actor /\ Exists(v) THEN Goto(r, "delete", v) ELSE EndCall(r)
    /\ UNCHANGED <<accounts, admins, creators, audit>>

Restricted(v) == v \in creators \cup audit

PlatformDeleteUser(r) ==
    LET v == calls[r].target
    IN /\ calls[r].pc = "delete"
       /\ IF Exists(v) /\ ~Restricted(v)
          THEN /\ accounts' = [accounts EXCEPT ![v] = "deleted"]
               /\ admins' = [admins EXCEPT ![v] = "none"]
               /\ GotoAudit(r, admins[v] = "active")
          ELSE EndCall(r) /\ UNCHANGED <<accounts, admins>>
       /\ UNCHANGED <<creators, audit>>

(* Suspension of a user or an organisation, whose mark no code reads, and   *)
(* deletion of an organisation, with which creators lose what they created. *)
SuspendOrDeleteOrg(r) ==
    /\ calls[r].pc = "admin"
    /\ creators' \in SUBSET creators
    /\ GotoAudit(r, FALSE)
    /\ UNCHANGED <<accounts, admins, audit>>

(* The entry names its actor by foreign key; an error is only logged.       *)
Audit(r) ==
    /\ calls[r].pc = "audit"
    /\ audit' = IF Exists(calls[r].actor) THEN audit \cup {calls[r].actor} ELSE audit
    /\ EndCall(r)
    /\ UNCHANGED <<accounts, admins, creators>>

CallFails(r) ==
    /\ calls[r].pc # "idle"
    /\ EndCall(r)
    /\ UNCHANGED <<accounts, admins, creators, audit>>

-----------------------------------------------------------------------------
PromoteApi == \E r \in Calls : Promote(r) \/ \E v \in Users : LookupPromote(r, v)
DemoteApi  == \E r \in Calls : Demote(r) \/ \E v \in Users : CheckDemote(r, v)
DeleteApi  == \E r \in Calls : PlatformDeleteUser(r) \/ \E v \in Users : LookupDelete(r, v)

PlatformNext ==
    \/ \E u \in Users : SignIn(u) \/ CreateSomething(u)
    \/ \E r \in Calls, u \in Users : RequirePlatformAdmin(r, u)
    \/ PromoteApi \/ DemoteApi \/ DeleteApi
    \/ \E r \in Calls : SuspendOrDeleteOrg(r) \/ Audit(r) \/ CallFails(r)

PlatformSpec == PlatformInit /\ [][PlatformNext]_platformVars

-----------------------------------------------------------------------------
(* The platform loses its last active admin only to a request that was let  *)
(* in, or that counted, before another one removed an admin.                *)
LastAdminLostOnlyByOverlap ==
    [][Active # {} /\ Active' = {} =>
          \E r \in Calls : calls[r].stale /\ calls[r].pc \in {"demote", "delete"}]_platformVars

(* A demotion lasts until somebody is promoted again: no sign-in of a user  *)
(* on the seed list undoes it.                                              *)
DemotionLasts ==
    [][\A u \in Users :
          admins[u] = "revoked" /\ admins'[u] = "active" =>
              \E r \in Calls : calls[r].pc = "promote" /\ calls[r].target = u]_platformVars

=============================================================================
