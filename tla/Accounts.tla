------------------------------ MODULE Accounts ------------------------------
(***************************************************************************)
(* Users, their sessions and the device codes with which a terminal gets   *)
(* one: sign-in, authentication of requests, approval and denial of a      *)
(* device code in a browser, the polls of the terminal, revocation,        *)
(* suspension and deletion.  One action per database statement; any number *)
(* of requests and polls run at the same time, and a replica may stop in   *)
(* the middle of any of them.                                              *)
(*                                                                         *)
(* A row that has been deleted keeps its last values here, with a status   *)
(* that says that it is gone, so that properties can speak of it.  Who is  *)
(* a platform admin is not state of this module (see PlatformAdmin):       *)
(* suspension and deletion of a user may come at any time.                 *)
(***************************************************************************)
EXTENDS Naturals, FiniteSets

CONSTANTS Users,        \* users.id
          Sessions,     \* sessions.id, each used once
          Codes,        \* device_authorizations, each initiated once
          Requests,     \* requests of browsers, under way at the same time
          Polls,        \* polls of terminals, under way at the same time
          None          \* SQL null, or no session

ASSUME NoneIsNoRow == None \notin Users \cup Sessions \cup Codes

VARIABLES users,        \* users
          sessions,     \* sessions
          devices,      \* device_authorizations
          requests,     \* requests past tryCookie or tryBearer
          polls,        \* polls that have seen an approved code
          refused,      \* codes of which a poll was told that they are denied or expired
          handouts,     \* history: how often the bearer of a code was sent (2: or more)
          lost          \* history: sessions whose last trace a failure has removed

vars == <<users, sessions, devices, requests, polls, refused, handouts, lost>>

-----------------------------------------------------------------------------
UserStatus == {"absent", "present", "deleted"}
SessionRow == [status : {"unused", "live", "expired", "gone"},
               kind   : {"cookie", "cli"},
               user   : Users \cup {None}]
DeviceRow  == [status  : {"unused", "pending", "approved", "denied", "consumed"},
               user    : Users \cup {None},
               session : Sessions \cup {None},
               expired : BOOLEAN]
Request    == [pc   : {"idle", "user", "approve", "created", "rollback", "deny"},
               own  : Sessions \cup {None},     \* the session it came with, while that matters
               user : Users \cup {None},
               code : Codes \cup {None},
               new  : Sessions \cup {None}]     \* the CLI session it has created
Poll       == [pc : {"idle", "consume"}, code : Codes \cup {None}, session : {None}]
              \cup [pc : {"consumed", "reply"}, code : Codes, session : Sessions]

NoSession == [status |-> "unused", kind |-> "cookie", user |-> None]
NoDevice  == [status |-> "unused", user |-> None, session |-> None, expired |-> FALSE]
NoRequest == [pc |-> "idle", own |-> None, user |-> None, code |-> None, new |-> None]
NoPoll    == [pc |-> "idle", code |-> None, session |-> None]

(* The types.  A poll that has consumed a code holds the session of it:    *)
(* there is none to hold if the session has been deleted.                  *)
TypeOK ==
    /\ users \in [Users -> UserStatus]
    /\ sessions \in [Sessions -> SessionRow]
    /\ devices \in [Codes -> DeviceRow]
    /\ requests \in [Requests -> Request]
    /\ polls \in [Polls -> Poll]
    /\ refused \subseteq Codes
    /\ handouts \in [Codes -> 0..2]
    /\ lost \subseteq Sessions

Init ==
    /\ users = [u \in Users |-> "absent"]
    /\ sessions = [s \in Sessions |-> NoSession]
    /\ devices = [c \in Codes |-> NoDevice]
    /\ requests = [r \in Requests |-> NoRequest]
    /\ polls = [p \in Polls |-> NoPoll]
    /\ refused = {}
    /\ handouts = [c \in Codes |-> 0]
    /\ lost = {}

-----------------------------------------------------------------------------
Exists(u)  == users[u] = "present"
Live(s)    == s # None /\ sessions[s].status = "live"
InTable(s) == sessions[s].status \in {"live", "expired"}

(* A deleted session is set to null in the device codes that name it, and a *)
(* deleted user likewise (on delete set null).  The row of a consumed code  *)
(* has been deleted: what the model keeps of it is history.                 *)
WithoutSessions(ss, row) ==
    IF row.status = "approved" /\ row.session \in ss THEN [row EXCEPT !.session = None] ELSE row

WithoutUser(u, row) ==
    IF row.status \in {"approved", "denied"} /\ row.user = u THEN [row EXCEPT !.user = None] ELSE row

Remaining(ss) == [s \in Sessions |-> IF s \in ss /\ InTable(s)
                                     THEN [sessions[s] EXCEPT !.status = "gone"]
                                     ELSE sessions[s]]

DeleteSessions(ss) ==
    /\ sessions' = Remaining(ss)
    /\ devices' = [c \in Codes |-> WithoutSessions(ss, devices[c])]

InsertSession(s, kind, u) ==
    /\ sessions[s].status = "unused"
    /\ sessions' = [sessions EXCEPT ![s] = [status |-> "live", kind |-> kind, user |-> u]]

(* UpsertByGoogle, from the callback of the provider or the development     *)
(* login, and the cookie session, which may fail.  A suspended user signs   *)
(* in like any other.                                                       *)
SignIn(u) ==
    /\ users[u] # "deleted"
    /\ users' = [users EXCEPT ![u] = "present"]
    /\ UNCHANGED sessions \/ \E s \in Sessions : InsertSession(s, "cookie", u)
    /\ UNCHANGED <<devices, requests, polls, refused, handouts, lost>>

ExpireSession(s) ==
    /\ Live(s)
    /\ sessions' = [sessions EXCEPT ![s].status = "expired"]
    /\ UNCHANGED <<users, devices, requests, polls, refused, handouts, lost>>

-----------------------------------------------------------------------------
(* The middleware finds the live session of a cookie or a bearer and its    *)
(* user; the request goes on with what it has read.                         *)
Authenticate(r, s) ==
    /\ requests[r].pc = "idle"
    /\ Live(s)
    /\ requests' = [requests EXCEPT ![r] =
                       [NoRequest EXCEPT !.pc = "user", !.own = s, !.user = sessions[s].user]]
    /\ UNCHANGED <<users, sessions, devices, polls, refused, handouts, lost>>

EndRequest(r) == requests' = [requests EXCEPT ![r] = NoRequest]

Logout(r) ==
    /\ requests[r].pc = "user"
    /\ DeleteSessions({requests[r].own})
    /\ EndRequest(r)
    /\ UNCHANGED <<users, polls, refused, handouts, lost>>

(* Another session of the same user, not the one the request came with.     *)
RevokeSession(r, s) ==
    /\ requests[r].pc = "user"
    /\ s # requests[r].own
    /\ InTable(s)
    /\ sessions[s].user = requests[r].user
    /\ DeleteSessions({s})
    /\ EndRequest(r)
    /\ UNCHANGED <<users, polls, refused, handouts, lost>>

-----------------------------------------------------------------------------
(* The device code: initiated by the terminal, which polls until it has an  *)
(* answer or its own time is over.                                          *)
DeviceInitiate(c) ==
    /\ devices[c].status = "unused"
    /\ devices' = [devices EXCEPT ![c].status = "pending"]
    /\ UNCHANGED <<users, sessions, requests, polls, refused, handouts, lost>>

ExpireCode(c) ==
    /\ devices[c].status # "unused"
    /\ ~devices[c].expired
    /\ devices' = [devices EXCEPT ![c].expired = TRUE]
    /\ UNCHANGED <<users, sessions, requests, polls, refused, handouts, lost>>

InCodes(c) == devices[c].status \notin {"unused", "consumed"}

(* GetByUserCode in the approval: anything but a pending code that has not  *)
(* expired ends the request.                                                *)
LookupApprove(r, c) ==
    /\ requests[r].pc = "user"
    /\ IF devices[c].status = "pending" /\ ~devices[c].expired
       THEN requests' = [requests EXCEPT ![r].pc = "approve", ![r].own = None, ![r].code = c]
       ELSE EndRequest(r)
    /\ UNCHANGED <<users, sessions, devices, polls, refused, handouts, lost>>

LookupDeny(r, c) ==
    /\ requests[r].pc = "user"
    /\ IF InCodes(c)
       THEN requests' = [requests EXCEPT ![r].pc = "deny", ![r].own = None, ![r].code = c]
       ELSE EndRequest(r)
    /\ UNCHANGED <<users, sessions, devices, polls, refused, handouts, lost>>

CreateCLI(r) ==
    /\ requests[r].pc = "approve"
    /\ \/ /\ Exists(requests[r].user)
          /\ \E s \in Sessions :
                /\ InsertSession(s, "cli", requests[r].user)
                /\ requests' = [requests EXCEPT ![r].pc = "created", ![r].new = s]
       \/ EndRequest(r) /\ UNCHANGED sessions
    /\ UNCHANGED <<users, devices, polls, refused, handouts, lost>>

(* Mutant of Approvable: the update does not look at the status.            *)
MutantApprovable(c) == InCodes(c) /\ ~devices[c].expired

(* The update is conditional on a pending code that has not expired, and    *)
(* fails on the foreign keys if the user or the new session has gone.  Its  *)
(* failure, whatever the reason, leads to the deletion of the session.      *)
Approvable(c) == devices[c].status = "pending" /\ ~devices[c].expired

ApproveWithBearer(r) ==
    LET c == requests[r].code
    IN /\ requests[r].pc = "created"
       /\ \/ /\ Approvable(c)
             /\ Exists(requests[r].user)
             /\ InTable(requests[r].new)
             /\ devices' = [devices EXCEPT ![c].status = "approved",
                                           ![c].user = requests[r].user,
                                           ![c].session = requests[r].new]
             /\ EndRequest(r)
          \/ /\ requests' = [requests EXCEPT ![r].pc = "rollback"]
             /\ UNCHANGED devices
       /\ UNCHANGED <<users, sessions, polls, refused, handouts, lost>>

(* Mutant of RollBackSession: the session stays.                            *)
MutantKeepOrphan(r) ==
    /\ requests[r].pc = "rollback"
    /\ EndRequest(r)
    /\ UNCHANGED <<users, sessions, devices, polls, refused, handouts, lost>>

RollBackSession(r) ==
    /\ requests[r].pc = "rollback"
    /\ DeleteSessions({requests[r].new})
    /\ EndRequest(r)
    /\ UNCHANGED <<users, polls, refused, handouts, lost>>

(* The replica stops, the client goes away and its context is cancelled, or *)
(* the deletion of the orphan fails, which the handler ignores.             *)
RequestFails(r) ==
    /\ requests[r].pc # "idle"
    /\ lost' = lost \cup ({requests[r].new} \ {None})
    /\ EndRequest(r)
    /\ UNCHANGED <<users, sessions, devices, polls, refused, handouts>>

(* Without its user the update fails on the foreign key.                    *)
Deny(r) ==
    LET c == requests[r].code
    IN /\ requests[r].pc = "deny"
       /\ devices' = IF devices[c].status = "pending" /\ Exists(requests[r].user)
                     THEN [devices EXCEPT ![c].status = "denied", ![c].user = requests[r].user]
                     ELSE devices
       /\ EndRequest(r)
       /\ UNCHANGED <<users, sessions, polls, refused, handouts, lost>>

-----------------------------------------------------------------------------
EndPoll(p) == polls' = [polls EXCEPT ![p] = NoPoll]

(* GetByDeviceCode: a pending code that has expired, a denied one and one   *)
(* that is no longer there are final answers; an approved one goes on,      *)
(* expired or not.                                                          *)
PollRefused(c) ==
    \/ devices[c].status \in {"denied", "consumed"}
    \/ devices[c].status = "pending" /\ devices[c].expired

GetByDeviceCode(p, c) ==
    /\ polls[p].pc = "idle"
    /\ devices[c].status # "unused"
    /\ IF PollRefused(c)
       THEN refused' = refused \cup {c} /\ UNCHANGED polls
       ELSE /\ polls' = IF devices[c].status = "approved"
                        THEN [polls EXCEPT ![p] = [NoPoll EXCEPT !.pc = "consume", !.code = c]]
                        ELSE polls
            /\ UNCHANGED refused
    /\ UNCHANGED <<users, sessions, devices, requests, handouts, lost>>

(* Mutant of ConsumeApproved: the row is read before it is locked.          *)
MutantConsumeUnlocked(p) ==
    LET c == polls[p].code
    IN /\ polls[p].pc = "consume"
       /\ IF devices[c].session # None
          THEN /\ devices' = [devices EXCEPT ![c].status = "consumed"]
               /\ polls' = [polls EXCEPT ![p].pc = "consumed", ![p].session = devices[c].session]
               /\ UNCHANGED refused
          ELSE EndPoll(p) /\ refused' = refused \cup {c} /\ UNCHANGED devices
       /\ UNCHANGED <<users, sessions, requests, handouts, lost>>

(* Mutant of ConsumeApproved: a session that is null is not looked for.     *)
MutantConsumeNil(p) ==
    LET c == polls[p].code
    IN /\ polls[p].pc = "consume"
       /\ IF devices[c].status = "approved"
          THEN /\ devices' = [devices EXCEPT ![c].status = "consumed"]
               /\ polls' = [polls EXCEPT ![p].pc = "consumed", ![p].session = devices[c].session]
               /\ UNCHANGED refused
          ELSE EndPoll(p) /\ refused' = refused \cup {c} /\ UNCHANGED devices
       /\ UNCHANGED <<users, sessions, requests, handouts, lost>>

(* One transaction that locks the row, checks that it is still approved     *)
(* with a session, and deletes it.                                          *)
ConsumeApproved(p) ==
    LET c == polls[p].code
    IN /\ polls[p].pc = "consume"
       /\ IF devices[c].status = "approved" /\ devices[c].session # None
          THEN /\ devices' = [devices EXCEPT ![c].status = "consumed"]
               /\ polls' = [polls EXCEPT ![p].pc = "consumed", ![p].session = devices[c].session]
               /\ UNCHANGED refused
          ELSE EndPoll(p) /\ refused' = refused \cup {c} /\ UNCHANGED devices
       /\ UNCHANGED <<users, sessions, requests, handouts, lost>>

(* Sessions.Get, for the expiry in the answer: without the session the      *)
(* answer is an error.                                                      *)
GetSession(p) ==
    /\ polls[p].pc = "consumed"
    /\ IF Live(polls[p].session)
       THEN polls' = [polls EXCEPT ![p].pc = "reply"]
       ELSE EndPoll(p)
    /\ UNCHANGED <<users, sessions, devices, requests, refused, handouts, lost>>

Reply(p) ==
    LET c == polls[p].code
    IN /\ polls[p].pc = "reply"
       /\ handouts' = [handouts EXCEPT ![c] = IF @ = 0 THEN 1 ELSE 2]
       /\ EndPoll(p)
       /\ UNCHANGED <<users, sessions, devices, requests, refused, lost>>

(* The replica stops or the answer is lost, and with it the only copy of    *)
(* the bearer if the code has been consumed.                                *)
PollFails(p) ==
    /\ polls[p].pc # "idle"
    /\ lost' = lost \cup ({polls[p].session} \ {None})
    /\ EndPoll(p)
    /\ UNCHANGED <<users, sessions, devices, requests, refused, handouts>>

-----------------------------------------------------------------------------
SessionsOf(u) == {s \in Sessions : sessions[s].user = u}

(* The user's sessions go in the transaction that sets suspended_at, which  *)
(* no code reads before it lets a user in.                                  *)
SuspendUser(u) ==
    /\ Exists(u)
    /\ DeleteSessions(SessionsOf(u))
    /\ UNCHANGED <<users, requests, polls, refused, handouts, lost>>

DeleteUser(u) ==
    /\ Exists(u)
    /\ users' = [users EXCEPT ![u] = "deleted"]
    /\ sessions' = Remaining(SessionsOf(u))
    /\ devices' = [c \in Codes |-> WithoutUser(u, WithoutSessions(SessionsOf(u), devices[c]))]
    /\ UNCHANGED <<requests, polls, refused, handouts, lost>>

-----------------------------------------------------------------------------
SessionApi ==
    \/ \E u \in Users : SignIn(u)
    \/ \E r \in Requests :
          \/ \E s \in Sessions : Authenticate(r, s) \/ RevokeSession(r, s)
          \/ Logout(r)

ApproveApi ==
    \E r \in Requests :
        \/ \E c \in Codes : LookupApprove(r, c)
        \/ CreateCLI(r)
        \/ ApproveWithBearer(r)
        \/ RollBackSession(r)

DenyApi == \E r \in Requests : Deny(r) \/ \E c \in Codes : LookupDeny(r, c)

Terminal ==
    \/ \E c \in Codes : DeviceInitiate(c) \/ \E p \in Polls : GetByDeviceCode(p, c)
    \/ \E p \in Polls : ConsumeApproved(p) \/ GetSession(p) \/ Reply(p)

PlatformApi == \E u \in Users : SuspendUser(u) \/ DeleteUser(u)

Time ==
    \/ \E s \in Sessions : ExpireSession(s)
    \/ \E c \in Codes : ExpireCode(c)

Failure ==
    \/ \E r \in Requests : RequestFails(r)
    \/ \E p \in Polls : PollFails(p)

Next ==
    \/ SessionApi \/ ApproveApi \/ DenyApi
    \/ Terminal \/ PlatformApi \/ Time \/ Failure

Spec == Init /\ [][Next]_vars

-----------------------------------------------------------------------------
(* The bearer of a code is sent once at most, and what is sent opens a      *)
(* session of the user who approved the code.                               *)
BearerSentOnce ==
    /\ \A c \in Codes : handouts[c] <= 1
    /\ \A p \in Polls : polls[p].session # None =>
          LET c == polls[p].code
          IN /\ devices[c].status = "consumed"
             /\ polls[p].session = devices[c].session
             /\ sessions[polls[p].session].user = devices[c].user
             /\ \A q \in Polls \ {p} : polls[q].session # polls[p].session
             /\ handouts[c] = 0

(* No CLI session is left over: a live one belongs to an approved code whose*)
(* terminal still polls, has been sent to it, is in the hands of the request*)
(* that created it or of the poll that consumed its code, or a failure is   *)
(* to blame.                                                                *)
SessionsAccountedFor ==
    \A s \in Sessions :
        Live(s) /\ sessions[s].kind = "cli" =>
            \/ s \in lost
            \/ \E r \in Requests : requests[r].new = s
            \/ \E c \in Codes :
                  /\ devices[c].session = s
                  /\ \/ devices[c].status = "approved" /\ c \notin refused
                     \/ devices[c].status = "consumed" /\
                           (handouts[c] = 1 \/ \E p \in Polls : polls[p].session = s)

(* What was decided of a code stays decided, by the one who decided it for  *)
(* as long as that user is there, and a code is approved only within its    *)
(* time, whatever the approvals, denials, polls and deletions that overlap. *)
DecisionsAreFinal ==
    [][\A c \in Codes :
          /\ devices[c].status \in {"approved", "denied", "consumed"} =>
                /\ \/ devices'[c].user = devices[c].user
                   \/ devices'[c].user = None /\ users'[devices[c].user] = "deleted"
                /\ devices'[c].status # devices[c].status =>
                      devices[c].status = "approved" /\ devices'[c].status = "consumed"
          /\ devices[c].status = "pending" /\ devices'[c].status = "approved" =>
                ~devices[c].expired]_vars

=============================================================================
