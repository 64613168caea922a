--------------------------- MODULE AccountsProofs ---------------------------
(***************************************************************************)
(* What Accounts promises of device codes and of the sessions they hand    *)
(* out holds for any number of users, sessions, codes, requests and polls. *)
(***************************************************************************)
EXTENDS Accounts, TLAPS

(* A request that approves or denies knows its code.  The session it has   *)
(* created is in no device code and in no other request, and is for the    *)
(* user of the request.                                                    *)
RequestKnows(r) ==
    LET q == requests[r] IN
    /\ q.pc \in {"approve", "created", "deny"} => q.code \in Codes
    /\ q.pc \in {"created", "rollback"} <=> q.new # None
    /\ q.new # None =>
          /\ sessions[q.new].status # "unused"
          /\ q.pc = "created" => sessions[q.new].user = q.user
          /\ \A c \in Codes : devices[c].session # q.new
          /\ \A a \in Requests \ {r} : requests[a].new # q.new

(* The session of a code is of the user who approved it and of no other    *)
(* code; its bearer has been sent only if the code is consumed; and who    *)
(* was refused an answer was so for good.                                  *)
CodeKnows(c) ==
    LET d == devices[c] IN
    /\ d.status \in {"unused", "pending", "denied"} => d.session = None
    /\ d.session # None =>
          /\ sessions[d.session].status # "unused"
          /\ sessions[d.session].user = d.user
          /\ \A e \in Codes \ {c} : devices[e].session # d.session
    /\ handouts[c] \in {0, 1}
    /\ handouts[c] = 1 => d.status = "consumed"
    /\ c \in refused => /\ d.status # "unused"
                        /\ d.status = "pending" => d.expired
                        /\ d.status = "approved" => d.session = None

(* A poll that goes on has seen its code approved; one that has consumed   *)
(* it holds the session, alone.                                            *)
PollKnows(p) ==
    LET q == polls[p] IN
    /\ q.pc = "consume" => devices[q.code].status \in {"approved", "consumed"} /\ q.code \in Codes
    /\ q.session # None =>
          /\ devices[q.code].status = "consumed"
          /\ q.session = devices[q.code].session
          /\ handouts[q.code] = 0
          /\ \A a \in Polls \ {p} : polls[a].session # q.session

Knows == /\ \A r \in Requests : RequestKnows(r)
         /\ \A c \in Codes : CodeKnows(c)
         /\ \A p \in Polls : PollKnows(p)

IInv == TypeOK /\ Knows /\ SessionsAccountedFor

(* It holds at first.                                                      *)
LEMMA InitIInv == Init => IInv
<1> SUFFICES ASSUME Init PROVE IInv
  OBVIOUS
<1> USE DEF Init, NoSession, NoDevice, NoRequest, NoPoll
<1>1. TypeOK
  BY DEF TypeOK, UserStatus, SessionRow, DeviceRow, Request, Poll
<1>2. Knows
  BY DEF Knows, RequestKnows, CodeKnows, PollKnows
<1>3. SessionsAccountedFor
  BY DEF SessionsAccountedFor, Live
<1> QED
  BY <1>1, <1>2, <1>3 DEF IInv

(* What the deletion of sessions leaves: the sessions with another status, *)
(* and the codes, where it is null now if the code was approved.  Only the *)
(* deletion of a user changes the user of a code with it.                  *)
Deleted(ss) ==
    /\ \A s \in Sessions : /\ sessions'[s].kind = sessions[s].kind
                           /\ sessions'[s].user = sessions[s].user
                           /\ sessions'[s].status = IF s \in ss /\ InTable(s) THEN "gone"
                                                    ELSE sessions[s].status
    /\ \A c \in Codes : /\ devices'[c].status = devices[c].status
                        /\ devices'[c].expired = devices[c].expired
                        /\ devices'[c].session = IF devices[c].status = "approved" /\ devices[c].session \in ss
                                                 THEN None ELSE devices[c].session

SameUsers == \A c \in Codes : devices'[c].user = devices[c].user

(* The sessions that remain, for the deletion of sessions and of a user.   *)
LEMMA RemainingTyped ==
    ASSUME TypeOK, NEW ss
    PROVE  /\ Remaining(ss) \in [Sessions -> SessionRow]
           /\ \A s \in Sessions :
                 /\ Remaining(ss)[s].kind = sessions[s].kind
                 /\ Remaining(ss)[s].user = sessions[s].user
                 /\ Remaining(ss)[s].status = IF s \in ss /\ InTable(s) THEN "gone"
                                              ELSE sessions[s].status
<1>1. ASSUME NEW s \in Sessions
      PROVE  /\ [sessions[s] EXCEPT !.status = "gone"].status = "gone"
             /\ [sessions[s] EXCEPT !.status = "gone"].kind = sessions[s].kind
             /\ [sessions[s] EXCEPT !.status = "gone"].user = sessions[s].user
             /\ [sessions[s] EXCEPT !.status = "gone"] \in SessionRow
  BY DEF TypeOK, SessionRow
<1>2. /\ Remaining(ss) \in [Sessions -> SessionRow]
      /\ \A s \in Sessions : Remaining(ss)[s] = IF s \in ss /\ InTable(s)
                                                 THEN [sessions[s] EXCEPT !.status = "gone"]
                                                 ELSE sessions[s]
  BY <1>1 DEF Remaining, TypeOK
<1> DEFINE gone(s) == [sessions[s] EXCEPT !.status = "gone"]
<1>3. \A s \in Sessions : /\ gone(s).status = "gone" /\ gone(s).kind = sessions[s].kind
                          /\ gone(s).user = sessions[s].user
  BY <1>1
<1>4. \A s \in Sessions : Remaining(ss)[s] = IF s \in ss /\ InTable(s) THEN gone(s) ELSE sessions[s]
  BY <1>2
<1> HIDE DEF gone
<1> QED
  BY <1>2, <1>3, <1>4

(* A code without its session is the same code but for that.               *)
LEMMA WithoutSessionsTyped ==
    ASSUME NEW ss, NEW d \in DeviceRow
    PROVE  LET e == WithoutSessions(ss, d)
           IN /\ e \in DeviceRow
              /\ e.status = d.status /\ e.user = d.user /\ e.expired = d.expired
              /\ e.session = IF d.status = "approved" /\ d.session \in ss THEN None ELSE d.session
BY DEF WithoutSessions, DeviceRow

(* A code without its user is the same code but for that.                  *)
LEMMA WithoutUserTyped ==
    ASSUME NEW u, NEW d \in DeviceRow
    PROVE  LET e == WithoutUser(u, d)
           IN /\ e \in DeviceRow
              /\ e.status = d.status /\ e.session = d.session /\ e.expired = d.expired
              /\ e.user = IF d.status \in {"approved", "denied"} /\ d.user = u THEN None ELSE d.user
BY DEF WithoutUser, DeviceRow

(* DeleteSessions leaves rows of the tables' types, as Deleted says.       *)
LEMMA Deletion ==
    ASSUME TypeOK, NEW ss, DeleteSessions(ss)
    PROVE  /\ Deleted(ss) /\ SameUsers
           /\ sessions' \in [Sessions -> SessionRow]
           /\ devices' \in [Codes -> DeviceRow]
<1>1. sessions' = Remaining(ss)
  BY DEF DeleteSessions
<1>2. /\ devices' \in [Codes -> DeviceRow]
      /\ \A c \in Codes : devices'[c] = WithoutSessions(ss, devices[c]) /\ devices[c] \in DeviceRow
  BY WithoutSessionsTyped DEF DeleteSessions, TypeOK
<1> QED
  BY <1>1, <1>2, RemainingTyped, WithoutSessionsTyped DEF Deleted, SameUsers

(* DeleteUser does the same with the user's sessions, and sets the user of *)
(* the codes that he approved or denied to null.                           *)
LEMMA UserDeletion ==
    ASSUME TypeOK, NEW w \in Users, DeleteUser(w)
    PROVE  /\ Deleted(SessionsOf(w))
           /\ sessions' \in [Sessions -> SessionRow]
           /\ devices' \in [Codes -> DeviceRow]
           /\ \A c \in Codes :
                 devices'[c].user = IF devices[c].status \in {"approved", "denied"} /\ devices[c].user = w
                                    THEN None ELSE devices[c].user
<1> DEFINE ss == SessionsOf(w)
           d(c) == WithoutSessions(ss, devices[c])
<1>1. sessions' = Remaining(ss)
  BY DEF DeleteUser
<1>2. ASSUME NEW c \in Codes PROVE devices[c] \in DeviceRow /\ d(c) \in DeviceRow
  BY WithoutSessionsTyped DEF TypeOK
<1>3. \A c \in Codes : WithoutUser(w, d(c)) \in DeviceRow
  BY <1>2, WithoutUserTyped
<1>4. /\ devices' \in [Codes -> DeviceRow]
      /\ \A c \in Codes : devices'[c] = WithoutUser(w, d(c))
  BY <1>3 DEF DeleteUser
<1>5. \A c \in Codes : /\ devices'[c].status = devices[c].status
                       /\ devices'[c].expired = devices[c].expired
                       /\ devices'[c].session = IF devices[c].status = "approved" /\ devices[c].session \in ss
                                                THEN None ELSE devices[c].session
                       /\ devices'[c].user = IF devices[c].status \in {"approved", "denied"} /\ devices[c].user = w
                                             THEN None ELSE devices[c].user
  <2> SUFFICES ASSUME NEW c \in Codes
               PROVE  /\ devices'[c].status = devices[c].status
                      /\ devices'[c].expired = devices[c].expired
                      /\ devices'[c].session = IF devices[c].status = "approved" /\ devices[c].session \in ss
                                               THEN None ELSE devices[c].session
                      /\ devices'[c].user = IF devices[c].status \in {"approved", "denied"} /\ devices[c].user = w
                                            THEN None ELSE devices[c].user
    OBVIOUS
  <2>1. /\ d(c).status = devices[c].status /\ d(c).user = devices[c].user
        /\ d(c).expired = devices[c].expired
        /\ d(c).session = IF devices[c].status = "approved" /\ devices[c].session \in ss
                          THEN None ELSE devices[c].session
    BY <1>2, WithoutSessionsTyped
  <2> HIDE DEF d
  <2> QED
    BY <1>2, <1>4, <2>1, WithoutUserTyped
<1> QED
  BY <1>1, <1>4, <1>5, RemainingTyped DEF Deleted

(* A row that is decided keeps its type.                                   *)
LEMMA DecidedTyped ==
    ASSUME NEW d \in DeviceRow, NEW u \in Users \cup {None}, NEW s \in Sessions \cup {None}
    PROVE  /\ [d EXCEPT !.status = "denied", !.user = u] \in DeviceRow
           /\ [d EXCEPT !.status = "approved", !.user = u, !.session = s] \in DeviceRow
BY DEF DeviceRow

(* The types.                                                              *)
LEMMA TypeStep == TypeOK /\ Knows /\ [Next]_vars => TypeOK'
<1> SUFFICES ASSUME TypeOK, Knows, [Next]_vars PROVE TypeOK'
  OBVIOUS
<1> USE DEF TypeOK
<1>1. ASSUME NEW w \in Users, SignIn(w) PROVE TypeOK'
  BY <1>1 DEF SignIn, InsertSession, UserStatus, SessionRow
<1>2. ASSUME NEW r \in Requests, NEW t \in Sessions, Authenticate(r, t) PROVE TypeOK'
  <2>1. [NoRequest EXCEPT !.pc = "user", !.own = t, !.user = sessions[t].user] \in Request
    BY DEF NoRequest, Request, SessionRow
  <2> QED
    BY <1>2, <2>1 DEF Authenticate
<1>3. ASSUME NEW r \in Requests, NEW t \in Sessions, RevokeSession(r, t) PROVE TypeOK'
  BY <1>3, Deletion DEF RevokeSession, EndRequest, NoRequest, Request, UserStatus
<1>4. ASSUME NEW r \in Requests, Logout(r) PROVE TypeOK'
  BY <1>4, Deletion DEF Logout, EndRequest, NoRequest, Request, UserStatus
<1>5. ASSUME NEW r \in Requests, NEW d \in Codes, LookupApprove(r, d) PROVE TypeOK'
  <2>1. [requests[r] EXCEPT !.pc = "approve", !.own = None, !.code = d] \in Request
    BY DEF Request
  <2>2. requests' \in [Requests -> Request]
    <3>1. NoRequest \in Request
      BY DEF NoRequest, Request
    <3>2. \/ requests' = [requests EXCEPT ![r] = NoRequest]
          \/ requests' = [requests EXCEPT ![r] =
                             [requests[r] EXCEPT !.pc = "approve", !.own = None, !.code = d]]
      BY <1>5 DEF LookupApprove, EndRequest
    <3> QED
      BY <2>1, <3>1, <3>2
  <2> QED
    BY <1>5, <2>2 DEF LookupApprove
<1>6. ASSUME NEW r \in Requests, CreateCLI(r) PROVE TypeOK'
  <2>1. CASE UNCHANGED sessions /\ EndRequest(r)
    BY <1>6, <2>1 DEF CreateCLI, EndRequest, NoRequest, Request
  <2>2. ASSUME NEW s \in Sessions, InsertSession(s, "cli", requests[r].user),
               requests' = [requests EXCEPT ![r].pc = "created", ![r].new = s]
        PROVE  TypeOK'
    <3>1. sessions' \in [Sessions -> SessionRow]
      BY <2>2 DEF InsertSession, SessionRow, Request
    <3>2. [requests[r] EXCEPT !.pc = "created", !.new = s] \in Request
      BY DEF Request
    <3>3. requests' \in [Requests -> Request]
      BY <2>2, <3>2
    <3> QED
      BY <1>6, <3>1, <3>3 DEF CreateCLI
  <2> QED
    BY <1>6, <2>1, <2>2 DEF CreateCLI
<1>7. ASSUME NEW r \in Requests, ApproveWithBearer(r) PROVE TypeOK'
  <2> PICK c \in Codes : c = requests[r].code
    BY <1>7 DEF ApproveWithBearer, Knows, RequestKnows
  <2> DEFINE row == [devices[c] EXCEPT !.status = "approved", !.user = requests[r].user,
                                       !.session = requests[r].new]
  <2>1. /\ requests[r] \in Request
        /\ requests[r].user \in Users \cup {None} /\ requests[r].new \in Sessions \cup {None}
    BY DEF Request
  <2>2. row \in DeviceRow
    BY <2>1, DecidedTyped
  <2>3. [requests[r] EXCEPT !.pc = "rollback"] \in Request
    BY <2>1 DEF Request
  <2>4. devices' = devices \/ devices' = [devices EXCEPT ![c] = row]
    BY <1>7 DEF ApproveWithBearer
  <2>5. requests' = [requests EXCEPT ![r] = NoRequest] \/
        requests' = [requests EXCEPT ![r] = [requests[r] EXCEPT !.pc = "rollback"]]
    BY <1>7 DEF ApproveWithBearer, EndRequest
  <2>6. NoRequest \in Request
    BY DEF NoRequest, Request
  <2>7. devices' \in [Codes -> DeviceRow]
    BY <2>2, <2>4
  <2>8. requests' \in [Requests -> Request]
    BY <2>3, <2>5, <2>6
  <2> QED
    BY <1>7, <2>7, <2>8 DEF ApproveWithBearer
<1>8. ASSUME NEW r \in Requests, RollBackSession(r) PROVE TypeOK'
  BY <1>8, Deletion DEF RollBackSession, EndRequest, NoRequest, Request, UserStatus
<1>9. ASSUME NEW r \in Requests, NEW d \in Codes, LookupDeny(r, d) PROVE TypeOK'
  <2>1. [requests[r] EXCEPT !.pc = "deny", !.own = None, !.code = d] \in Request
    BY DEF Request
  <2>2. requests' \in [Requests -> Request]
    <3>1. NoRequest \in Request
      BY DEF NoRequest, Request
    <3>2. \/ requests' = [requests EXCEPT ![r] = NoRequest]
          \/ requests' = [requests EXCEPT ![r] =
                             [requests[r] EXCEPT !.pc = "deny", !.own = None, !.code = d]]
      BY <1>9 DEF LookupDeny, EndRequest
    <3> QED
      BY <2>1, <3>1, <3>2
  <2> QED
    BY <1>9, <2>2 DEF LookupDeny
<1>10. ASSUME NEW r \in Requests, Deny(r) PROVE TypeOK'
  <2> PICK c \in Codes : c = requests[r].code
    BY <1>10 DEF Deny, Knows, RequestKnows
  <2> DEFINE row == [devices[c] EXCEPT !.status = "denied", !.user = requests[r].user]
  <2>1. requests[r].user \in Users \cup {None}
    BY DEF Request
  <2>2. row \in DeviceRow
    BY <2>1, DecidedTyped
  <2>3. devices' = devices \/ devices' = [devices EXCEPT ![c] = row]
    BY <1>10 DEF Deny
  <2>4. devices' \in [Codes -> DeviceRow]
    BY <2>2, <2>3
  <2> QED
    BY <1>10, <2>4 DEF Deny, EndRequest, NoRequest, Request
<1>11. ASSUME NEW d \in Codes, DeviceInitiate(d) PROVE TypeOK'
  <2>1. [devices[d] EXCEPT !.status = "pending"] \in DeviceRow
    BY DEF DeviceRow
  <2> QED
    BY <1>11, <2>1 DEF DeviceInitiate
<1>12. ASSUME NEW p \in Polls, NEW d \in Codes, GetByDeviceCode(p, d) PROVE TypeOK'
  <2>1. [NoPoll EXCEPT !.pc = "consume", !.code = d] \in Poll
    BY DEF NoPoll, Poll
  <2> QED
    BY <1>12, <2>1 DEF GetByDeviceCode
<1>13. ASSUME NEW p \in Polls, ConsumeApproved(p) PROVE TypeOK'
  <2> DEFINE c == polls[p].code
             s == devices[c].session
  <2>1. c \in Codes /\ polls[p] = [pc |-> "consume", code |-> c, session |-> None]
    BY <1>13 DEF ConsumeApproved, Knows, PollKnows, Poll
  <2>2. CASE devices[c].status = "approved" /\ s # None
    <3>1. [devices[c] EXCEPT !.status = "consumed"] \in DeviceRow /\ s \in Sessions
      BY <2>1, <2>2 DEF DeviceRow
    <3>2. polls' = [polls EXCEPT ![p] = [pc |-> "consumed", code |-> c, session |-> s]]
      BY <1>13, <2>1, <2>2 DEF ConsumeApproved
    <3>3. [pc |-> "consumed", code |-> c, session |-> s] \in Poll
      BY <2>1, <3>1 DEF Poll
    <3>4. polls' \in [Polls -> Poll]
      BY <3>2, <3>3
    <3>5. devices' \in [Codes -> DeviceRow]
      BY <1>13, <2>1, <2>2, <3>1 DEF ConsumeApproved
    <3> QED
      BY <1>13, <2>2, <3>4, <3>5 DEF ConsumeApproved
  <2>3. CASE ~(devices[c].status = "approved" /\ s # None)
    BY <1>13, <2>1, <2>3 DEF ConsumeApproved, EndPoll, NoPoll, Poll
  <2> QED
    BY <2>2, <2>3
<1>14. ASSUME NEW p \in Polls, GetSession(p) PROVE TypeOK'
  <2>1. [polls[p] EXCEPT !.pc = "reply"] \in Poll
    BY <1>14 DEF GetSession, Poll
  <2>2. NoPoll \in Poll
    BY DEF NoPoll, Poll
  <2> QED
    BY <1>14, <2>1, <2>2 DEF GetSession, EndPoll
<1>15. ASSUME NEW p \in Polls, Reply(p) PROVE TypeOK'
  BY <1>15 DEF Reply, EndPoll, NoPoll, Poll
<1>16. ASSUME NEW w \in Users, SuspendUser(w) PROVE TypeOK'
  BY <1>16, Deletion DEF SuspendUser, EndRequest, NoRequest, Request, UserStatus
<1>17. ASSUME NEW w \in Users, DeleteUser(w) PROVE TypeOK'
  BY <1>17, UserDeletion DEF DeleteUser, UserStatus
<1>18. ASSUME NEW t \in Sessions, ExpireSession(t) PROVE TypeOK'
  <2>1. [sessions[t] EXCEPT !.status = "expired"] \in SessionRow
    BY DEF SessionRow
  <2> QED
    BY <1>18, <2>1 DEF ExpireSession
<1>19. ASSUME NEW d \in Codes, ExpireCode(d) PROVE TypeOK'
  <2>1. [devices[d] EXCEPT !.expired = TRUE] \in DeviceRow
    BY DEF DeviceRow
  <2> QED
    BY <1>19, <2>1 DEF ExpireCode
<1>20. ASSUME NEW r \in Requests, RequestFails(r) PROVE TypeOK'
  <2>1. requests[r].new \in Sessions \cup {None}
    BY DEF Request
  <2> QED
    BY <1>20, <2>1 DEF RequestFails, EndRequest, NoRequest, Request
<1>21. ASSUME NEW p \in Polls, PollFails(p) PROVE TypeOK'
  <2>1. NoPoll \in Poll /\ polls[p].session \in Sessions \cup {None}
    BY DEF NoPoll, Poll
  <2> QED
    BY <1>21, <2>1 DEF PollFails, EndPoll
<1>22. ASSUME UNCHANGED vars PROVE TypeOK'
  BY <1>22 DEF vars
<1> QED
  BY <1>1, <1>2, <1>3, <1>4, <1>5, <1>6, <1>7, <1>8, <1>9, <1>10, <1>11, <1>12,
     <1>13, <1>14, <1>15, <1>16, <1>17, <1>18, <1>19, <1>20, <1>21, <1>22
  DEF Next, SessionApi, ApproveApi, DenyApi, Terminal, PlatformApi, Time, Failure

(* A session that has been created keeps its user and its kind, and does   *)
(* not come back to life.                                                  *)
LEMMA SessionKept ==
    ASSUME TypeOK, [Next]_vars, NEW s \in Sessions, sessions[s].status # "unused"
    PROVE  /\ sessions'[s].status # "unused"
           /\ sessions'[s].user = sessions[s].user
           /\ sessions'[s].kind = sessions[s].kind
           /\ sessions'[s].status = "live" => sessions[s].status = "live"
<1> DEFINE G == /\ sessions'[s].status # "unused"
                /\ sessions'[s].user = sessions[s].user
                /\ sessions'[s].kind = sessions[s].kind
                /\ sessions'[s].status = "live" => sessions[s].status = "live"
<1> USE DEF TypeOK
<1>1. ASSUME NEW w \in Users, SignIn(w) PROVE G
  BY <1>1 DEF SignIn, InsertSession
<1>2. ASSUME NEW r \in Requests, NEW t \in Sessions, Authenticate(r, t) PROVE G
  BY <1>2 DEF Authenticate, InsertSession
<1>3. ASSUME NEW r \in Requests, NEW t \in Sessions, RevokeSession(r, t) PROVE G
  BY <1>3, Deletion DEF RevokeSession, Deleted
<1>4. ASSUME NEW r \in Requests, Logout(r) PROVE G
  BY <1>4, Deletion DEF Logout, Deleted
<1>5. ASSUME NEW r \in Requests, NEW d \in Codes, LookupApprove(r, d) PROVE G
  BY <1>5 DEF LookupApprove, InsertSession
<1>6. ASSUME NEW r \in Requests, CreateCLI(r) PROVE G
  BY <1>6 DEF CreateCLI, InsertSession
<1>7. ASSUME NEW r \in Requests, ApproveWithBearer(r) PROVE G
  BY <1>7 DEF ApproveWithBearer, InsertSession
<1>8. ASSUME NEW r \in Requests, RollBackSession(r) PROVE G
  BY <1>8, Deletion DEF RollBackSession, Deleted
<1>9. ASSUME NEW r \in Requests, NEW d \in Codes, LookupDeny(r, d) PROVE G
  BY <1>9 DEF LookupDeny, InsertSession
<1>10. ASSUME NEW r \in Requests, Deny(r) PROVE G
  BY <1>10 DEF Deny, InsertSession
<1>11. ASSUME NEW d \in Codes, DeviceInitiate(d) PROVE G
  BY <1>11 DEF DeviceInitiate, InsertSession
<1>12. ASSUME NEW p \in Polls, NEW d \in Codes, GetByDeviceCode(p, d) PROVE G
  BY <1>12 DEF GetByDeviceCode, InsertSession
<1>13. ASSUME NEW p \in Polls, ConsumeApproved(p) PROVE G
  BY <1>13 DEF ConsumeApproved, InsertSession
<1>14. ASSUME NEW p \in Polls, GetSession(p) PROVE G
  BY <1>14 DEF GetSession, InsertSession
<1>15. ASSUME NEW p \in Polls, Reply(p) PROVE G
  BY <1>15 DEF Reply, InsertSession
<1>16. ASSUME NEW w \in Users, SuspendUser(w) PROVE G
  BY <1>16, Deletion DEF SuspendUser, Deleted
<1>17. ASSUME NEW w \in Users, DeleteUser(w) PROVE G
  BY <1>17, UserDeletion DEF DeleteUser, Deleted
<1>18. ASSUME NEW t \in Sessions, ExpireSession(t) PROVE G
  BY <1>18 DEF ExpireSession, SessionRow
<1>19. ASSUME NEW d \in Codes, ExpireCode(d) PROVE G
  BY <1>19 DEF ExpireCode, InsertSession
<1>20. ASSUME NEW r \in Requests, RequestFails(r) PROVE G
  BY <1>20 DEF RequestFails, InsertSession
<1>21. ASSUME NEW p \in Polls, PollFails(p) PROVE G
  BY <1>21 DEF PollFails, InsertSession
<1>22. ASSUME UNCHANGED vars PROVE G
  BY <1>22 DEF vars, InsertSession
<1> QED
  BY <1>1, <1>2, <1>3, <1>4, <1>5, <1>6, <1>7, <1>8, <1>9, <1>10, <1>11, <1>12,
     <1>13, <1>14, <1>15, <1>16, <1>17, <1>18, <1>19, <1>20, <1>21, <1>22
  DEF Next, SessionApi, ApproveApi, DenyApi, Terminal, PlatformApi, Time, Failure

(* What a request knows.                                                   *)
LEMMA RequestsStep ==
    ASSUME TypeOK, Knows, [Next]_vars, NEW a \in Requests
    PROVE  RequestKnows(a)'
<1>a. RequestKnows(a) /\ \A r \in Requests : requests[r].new \in Sessions \cup {None}
  BY DEF Knows, TypeOK, Request
<1>b. \A s \in Sessions : sessions[s].status # "unused" =>
         sessions'[s].status # "unused" /\ sessions'[s].user = sessions[s].user
  BY SessionKept
<1>c. requests \in [Requests -> Request]
  BY DEF TypeOK
<1>d. /\ \A c \in Codes : devices'[c].session \in {devices[c].session, None}
      /\ UNCHANGED requests
      => RequestKnows(a)'
  BY <1>a, <1>b DEF RequestKnows
<1>e. ASSUME NEW r \in Requests, requests' = [requests EXCEPT ![r] = NoRequest],
             \A c \in Codes : devices'[c].session \in {devices[c].session, None}
      PROVE  RequestKnows(a)'
  BY <1>a, <1>b, <1>c, <1>e DEF RequestKnows, NoRequest
<1>1. ASSUME NEW w \in Users, SignIn(w) PROVE RequestKnows(a)'
  BY <1>1, <1>d DEF SignIn
<1>2. ASSUME NEW r \in Requests, NEW t \in Sessions, Authenticate(r, t)
      PROVE  RequestKnows(a)'
  BY <1>2, <1>a, <1>b, <1>c DEF Authenticate, RequestKnows, NoRequest
<1>3. ASSUME NEW r \in Requests, NEW t \in Sessions, RevokeSession(r, t)
      PROVE  RequestKnows(a)'
  <2>1. \A c \in Codes : devices'[c].session \in {devices[c].session, None}
    BY <1>3, Deletion DEF RevokeSession, Deleted
  <2> QED
    BY <1>3, <1>e, <2>1 DEF RevokeSession, EndRequest
<1>4. ASSUME NEW r \in Requests, Logout(r) PROVE RequestKnows(a)'
  <2>1. \A c \in Codes : devices'[c].session \in {devices[c].session, None}
    BY <1>4, Deletion DEF Logout, Deleted
  <2> QED
    BY <1>4, <1>e, <2>1 DEF Logout, EndRequest
<1>5. ASSUME NEW r \in Requests, NEW d \in Codes, LookupApprove(r, d)
      PROVE  RequestKnows(a)'
  <2>1. CASE EndRequest(r)
    BY <1>5, <2>1, <1>e DEF LookupApprove, EndRequest
  <2>2. CASE requests' = [requests EXCEPT ![r].pc = "approve", ![r].own = None, ![r].code = d]
    BY <1>5, <2>2, <1>a, <1>b, <1>c DEF LookupApprove, RequestKnows
  <2> QED
    BY <1>5, <2>1, <2>2 DEF LookupApprove
<1>6. ASSUME NEW r \in Requests, CreateCLI(r) PROVE RequestKnows(a)'
  <2>1. CASE EndRequest(r)
    BY <1>6, <2>1, <1>e DEF CreateCLI, EndRequest
  <2>2. ASSUME NEW s \in Sessions, InsertSession(s, "cli", requests[r].user),
               requests' = [requests EXCEPT ![r].pc = "created", ![r].new = s]
        PROVE  RequestKnows(a)'
    <3>1. /\ requests'[r].pc = "created" /\ requests'[r].new = s
          /\ requests'[r].user = requests[r].user /\ requests'[r].code = requests[r].code
          /\ \A q \in Requests \ {r} : requests'[q] = requests[q]
      BY <2>2, <1>c DEF Request
    <3>2. sessions'[s].status # "unused" /\ sessions'[s].user = requests[r].user
      BY <2>2 DEF InsertSession, TypeOK
    <3>3. /\ s # None /\ devices' = devices /\ requests[r].pc = "approve" /\ requests[r].code \in Codes
          /\ \A c \in Codes : devices[c].session # s
          /\ \A q \in Requests : requests[q].new # s
      BY <1>6, <2>2, NoneIsNoRow DEF CreateCLI, InsertSession, Knows, CodeKnows, RequestKnows
    <3> QED
      BY <1>a, <1>b, <3>1, <3>2, <3>3 DEF RequestKnows
  <2> QED
    BY <1>6, <2>1, <2>2 DEF CreateCLI
<1>7. ASSUME NEW r \in Requests, ApproveWithBearer(r) PROVE RequestKnows(a)'
  <2>1. CASE requests' = [requests EXCEPT ![r].pc = "rollback"] /\ UNCHANGED devices
    BY <1>7, <2>1, <1>a, <1>b, <1>c DEF ApproveWithBearer, RequestKnows
  <2>2. CASE EndRequest(r) /\ devices' = [devices EXCEPT ![requests[r].code].status = "approved",
                                                         ![requests[r].code].user = requests[r].user,
                                                         ![requests[r].code].session = requests[r].new]
    <3>1. \A c \in Codes : devices'[c].session \in {devices[c].session, requests[r].new}
      BY <2>2 DEF TypeOK, DeviceRow
    <3>2. requests'[r].new = None /\ \A q \in Requests \ {r} : requests'[q] = requests[q]
      BY <2>2, <1>c DEF EndRequest, NoRequest
    <3>3. requests'[r].pc = "idle"
      BY <2>2, <1>c DEF EndRequest, NoRequest
    <3>4. a # r /\ requests[a].new # None => requests[a].new # requests[r].new
      BY <1>a DEF RequestKnows
    <3> QED
      BY <1>a, <1>b, <3>1, <3>2, <3>3, <3>4 DEF RequestKnows
  <2> QED
    BY <1>7, <2>1, <2>2 DEF ApproveWithBearer
<1>8. ASSUME NEW r \in Requests, RollBackSession(r) PROVE RequestKnows(a)'
  <2>1. \A c \in Codes : devices'[c].session \in {devices[c].session, None}
    BY <1>8, Deletion DEF RollBackSession, Deleted
  <2> QED
    BY <1>8, <1>e, <2>1 DEF RollBackSession, EndRequest
<1>9. ASSUME NEW r \in Requests, NEW d \in Codes, LookupDeny(r, d) PROVE RequestKnows(a)'
  <2>1. CASE EndRequest(r)
    BY <1>9, <2>1, <1>e DEF LookupDeny, EndRequest
  <2>2. CASE requests' = [requests EXCEPT ![r].pc = "deny", ![r].own = None, ![r].code = d]
    BY <1>9, <2>2, <1>a, <1>b, <1>c DEF LookupDeny, RequestKnows
  <2> QED
    BY <1>9, <2>1, <2>2 DEF LookupDeny
<1>10. ASSUME NEW r \in Requests, Deny(r) PROVE RequestKnows(a)'
  <2>1. \A c \in Codes : devices'[c].session = devices[c].session
    BY <1>10 DEF Deny, TypeOK, DeviceRow
  <2> QED
    BY <1>10, <1>e, <2>1 DEF Deny, EndRequest
<1>11. ASSUME NEW d \in Codes, DeviceInitiate(d) PROVE RequestKnows(a)'
  BY <1>11, <1>d DEF DeviceInitiate, TypeOK, DeviceRow
<1>12. ASSUME NEW p \in Polls, NEW d \in Codes, GetByDeviceCode(p, d)
      PROVE  RequestKnows(a)'
  BY <1>12, <1>d DEF GetByDeviceCode, vars
<1>13. ASSUME NEW p \in Polls, ConsumeApproved(p) PROVE RequestKnows(a)'
  <2>1. \A c \in Codes : devices'[c].session = devices[c].session
    BY <1>13 DEF ConsumeApproved, TypeOK, DeviceRow
  <2> QED
    BY <1>13, <1>d, <2>1 DEF ConsumeApproved
<1>14. ASSUME NEW p \in Polls, GetSession(p) PROVE RequestKnows(a)'
  BY <1>14, <1>d DEF GetSession, vars
<1>15. ASSUME NEW p \in Polls, Reply(p) PROVE RequestKnows(a)'
  BY <1>15, <1>d DEF Reply, vars
<1>16. ASSUME NEW w \in Users, SuspendUser(w) PROVE RequestKnows(a)'
  <2>1. \A c \in Codes : devices'[c].session \in {devices[c].session, None}
    BY <1>16, Deletion DEF SuspendUser, Deleted
  <2> QED
    BY <1>16, <1>d, <2>1 DEF SuspendUser
<1>17. ASSUME NEW w \in Users, DeleteUser(w) PROVE RequestKnows(a)'
  <2>1. \A c \in Codes : devices'[c].session \in {devices[c].session, None}
    BY <1>17, UserDeletion DEF DeleteUser, Deleted
  <2> QED
    BY <1>17, <1>d, <2>1 DEF DeleteUser
<1>18. ASSUME NEW t \in Sessions, ExpireSession(t) PROVE RequestKnows(a)'
  BY <1>18, <1>d DEF ExpireSession, vars
<1>19. ASSUME NEW d \in Codes, ExpireCode(d) PROVE RequestKnows(a)'
  BY <1>19, <1>d DEF ExpireCode, TypeOK, DeviceRow
<1>20. ASSUME NEW r \in Requests, RequestFails(r) PROVE RequestKnows(a)'
  BY <1>20, <1>e DEF RequestFails, EndRequest
<1>21. ASSUME NEW p \in Polls, PollFails(p) PROVE RequestKnows(a)'
  BY <1>21, <1>d DEF PollFails, vars
<1>22. ASSUME UNCHANGED vars PROVE RequestKnows(a)'
  BY <1>22, <1>d DEF vars
<1> QED
  BY <1>1, <1>2, <1>3, <1>4, <1>5, <1>6, <1>7, <1>8, <1>9, <1>10, <1>11, <1>12,
     <1>13, <1>14, <1>15, <1>16, <1>17, <1>18, <1>19, <1>20, <1>21, <1>22
  DEF Next, SessionApi, ApproveApi, DenyApi, Terminal, PlatformApi, Time, Failure

(* What a step may do to a code.                                           *)
Approves(r, c) ==
    LET d == devices[c] IN
    /\ requests[r].pc = "created" /\ requests[r].code = c
    /\ d.status = "pending" /\ ~d.expired
    /\ devices'[c].status = "approved" /\ devices'[c].user = requests[r].user
    /\ devices'[c].session = requests[r].new /\ ~devices'[c].expired
    /\ requests[r].new # None

Moves(c, from, to) ==
    /\ devices[c].status = from /\ devices'[c].status = to
    /\ devices'[c].session = devices[c].session
    /\ devices'[c].expired = devices[c].expired
    /\ from # "pending" => devices'[c].user = devices[c].user

Stays(c) ==
    /\ devices'[c].status = devices[c].status
    /\ \/ devices'[c].user = devices[c].user
       \/ /\ devices'[c].user = None /\ devices'[c].session = None
          /\ devices[c].status \in {"approved", "denied"} /\ users'[devices[c].user] = "deleted"
    /\ \/ devices'[c].session = devices[c].session
       \/ /\ devices'[c].session = None /\ devices[c].status = "approved"
          /\ sessions'[devices[c].session].status # "live"
    /\ devices[c].expired => devices'[c].expired

CodeMoves(c) ==
    \/ Stays(c)
    \/ Moves(c, "unused", "pending")
    \/ Moves(c, "pending", "denied")
    \/ \E r \in Requests : Approves(r, c)
    \/ Moves(c, "approved", "consumed") /\ devices[c].session # None
          /\ \E p \in Polls : polls[p].code = c /\ polls'[p].session = devices[c].session

(* Every step moves a code along one of these edges.                       *)
LEMMA CodeStep ==
    ASSUME TypeOK, Knows, [Next]_vars, NEW c \in Codes
    PROVE  CodeMoves(c)
<1>a. devices \in [Codes -> DeviceRow] /\ devices[c] \in DeviceRow
  BY DEF TypeOK
<1> USE DEF CodeMoves
<1>b. devices' = devices => Stays(c)
  BY DEF Stays
<1>1. ASSUME NEW w \in Users, SignIn(w) PROVE CodeMoves(c)
  BY <1>1, <1>b DEF SignIn, vars
<1>2. ASSUME NEW r \in Requests, NEW t \in Sessions, Authenticate(r, t) PROVE CodeMoves(c)
  BY <1>2, <1>b DEF Authenticate, vars
<1>3. ASSUME NEW r \in Requests, NEW t \in Sessions, RevokeSession(r, t)
      PROVE  CodeMoves(c)
  <2>1. PICK ss : DeleteSessions(ss)
    BY <1>3 DEF RevokeSession
  <2>2. Deleted(ss) /\ SameUsers
    BY <2>1, Deletion
  <2>3. devices[c].session # None => devices[c].session \in Sessions
    BY <1>a DEF DeviceRow
  <2> QED
    BY <2>2, <2>3 DEF Deleted, SameUsers, Stays, InTable
<1>4. ASSUME NEW r \in Requests, Logout(r) PROVE CodeMoves(c)
  <2>1. PICK ss : DeleteSessions(ss)
    BY <1>4 DEF Logout
  <2>2. Deleted(ss) /\ SameUsers
    BY <2>1, Deletion
  <2>3. devices[c].session # None => devices[c].session \in Sessions
    BY <1>a DEF DeviceRow
  <2> QED
    BY <2>2, <2>3 DEF Deleted, SameUsers, Stays, InTable
<1>5. ASSUME NEW r \in Requests, NEW d \in Codes, LookupApprove(r, d) PROVE CodeMoves(c)
  BY <1>5, <1>b DEF LookupApprove, vars
<1>6. ASSUME NEW r \in Requests, CreateCLI(r) PROVE CodeMoves(c)
  BY <1>6, <1>b DEF CreateCLI, vars
<1>7. ASSUME NEW r \in Requests, ApproveWithBearer(r) PROVE CodeMoves(c)
  <2>1. CASE UNCHANGED devices
    BY <1>b, <2>1
  <2>2. CASE /\ Approvable(requests[r].code)
             /\ InTable(requests[r].new)
             /\ devices' = [devices EXCEPT ![requests[r].code].status = "approved",
                                         ![requests[r].code].user = requests[r].user,
                                         ![requests[r].code].session = requests[r].new]
    <3>1. CASE requests[r].code = c
      <4>1. devices'[c] = [devices[c] EXCEPT !.status = "approved", !.user = requests[r].user,
                                             !.session = requests[r].new]
        BY <1>a, <2>2, <3>1
      <4>2. /\ devices'[c].status = "approved" /\ devices'[c].user = requests[r].user
            /\ devices'[c].session = requests[r].new /\ devices'[c].expired = devices[c].expired
        BY <1>a, <4>1 DEF DeviceRow
      <4>3. requests[r].new # None
        BY <1>7 DEF ApproveWithBearer, Knows, RequestKnows
      <4> QED
        BY <1>7, <2>2, <3>1, <4>2, <4>3 DEF ApproveWithBearer, Approvable, Approves
    <3>2. CASE requests[r].code # c
      BY <1>a, <2>2, <3>2 DEF Stays
    <3> QED
      BY <3>1, <3>2
  <2> QED
    BY <1>7, <2>1, <2>2 DEF ApproveWithBearer
<1>8. ASSUME NEW r \in Requests, RollBackSession(r) PROVE CodeMoves(c)
  <2>1. PICK ss : DeleteSessions(ss)
    BY <1>8 DEF RollBackSession
  <2>2. Deleted(ss) /\ SameUsers
    BY <2>1, Deletion
  <2>3. devices[c].session # None => devices[c].session \in Sessions
    BY <1>a DEF DeviceRow
  <2> QED
    BY <2>2, <2>3 DEF Deleted, SameUsers, Stays, InTable
<1>9. ASSUME NEW r \in Requests, NEW d \in Codes, LookupDeny(r, d) PROVE CodeMoves(c)
  BY <1>9, <1>b DEF LookupDeny, vars
<1>10. ASSUME NEW r \in Requests, Deny(r) PROVE CodeMoves(c)
  <2>1. CASE requests[r].code = c /\ devices[c].status = "pending" /\ Exists(requests[r].user)
    <3>1. devices'[c] = [devices[c] EXCEPT !.status = "denied", !.user = requests[r].user]
      BY <1>10, <1>a, <2>1 DEF Deny
    <3> QED
      BY <1>a, <2>1, <3>1 DEF Moves, DeviceRow
  <2>2. CASE ~(requests[r].code = c /\ devices[c].status = "pending" /\ Exists(requests[r].user))
    <3>1. devices'[c] = devices[c]
      BY <1>10, <1>a, <2>2 DEF Deny
    <3> QED
      BY <3>1 DEF Stays
  <2> QED
    BY <2>1, <2>2
<1>11. ASSUME NEW d \in Codes, DeviceInitiate(d) PROVE CodeMoves(c)
  BY <1>11, <1>a DEF DeviceInitiate, Stays, Moves, DeviceRow
<1>12. ASSUME NEW p \in Polls, NEW d \in Codes, GetByDeviceCode(p, d) PROVE CodeMoves(c)
  BY <1>12, <1>b DEF GetByDeviceCode, vars
<1>13. ASSUME NEW p \in Polls, ConsumeApproved(p) PROVE CodeMoves(c)
  <2> DEFINE d == polls[p].code
             s == devices[d].session
  <2>1. CASE devices[d].status = "approved" /\ s # None
    <3>1. /\ devices' = [devices EXCEPT ![d].status = "consumed"]
          /\ polls' = [polls EXCEPT ![p] = [polls[p] EXCEPT !.pc = "consumed", !.session = s]]
      BY <1>13, <2>1 DEF ConsumeApproved
    <3>2. polls'[p].session = s
      BY <3>1 DEF TypeOK, Poll
    <3>3. CASE c = d
      BY <1>a, <2>1, <3>1, <3>2, <3>3 DEF Moves, DeviceRow
    <3>4. CASE c # d
      BY <1>a, <3>1, <3>4 DEF Stays
    <3> QED
      BY <3>3, <3>4
  <2>2. CASE ~(devices[d].status = "approved" /\ s # None)
    BY <1>13, <1>b, <2>2 DEF ConsumeApproved
  <2> QED
    BY <2>1, <2>2
<1>14. ASSUME NEW p \in Polls, GetSession(p) PROVE CodeMoves(c)
  BY <1>14, <1>b DEF GetSession, vars
<1>15. ASSUME NEW p \in Polls, Reply(p) PROVE CodeMoves(c)
  BY <1>15, <1>b DEF Reply, vars
<1>16. ASSUME NEW w \in Users, SuspendUser(w) PROVE CodeMoves(c)
  <2>1. PICK ss : DeleteSessions(ss)
    BY <1>16 DEF SuspendUser
  <2>2. Deleted(ss) /\ SameUsers
    BY <2>1, Deletion
  <2>3. devices[c].session # None => devices[c].session \in Sessions
    BY <1>a DEF DeviceRow
  <2> QED
    BY <2>2, <2>3 DEF Deleted, SameUsers, Stays, InTable
<1>17. ASSUME NEW w \in Users, DeleteUser(w) PROVE CodeMoves(c)
  <2>1. Deleted(SessionsOf(w))
    BY <1>17, UserDeletion
  <2>2. devices[c].session # None => devices[c].session \in Sessions
    BY <1>a DEF DeviceRow
  <2>3. devices'[c].user = (IF devices[c].status \in {"approved", "denied"} /\ devices[c].user = w
                            THEN None ELSE devices[c].user)
    BY <1>17, UserDeletion
  <2>4. CASE devices[c].status \in {"approved", "denied"} /\ devices[c].user = w
    <3>1. users'[w] = "deleted"
      BY <1>17 DEF DeleteUser, TypeOK
    <3>2. devices[c].session # None =>
             devices[c].status = "approved" /\ devices[c].session \in SessionsOf(w)
      BY <2>2, <2>4 DEF Knows, CodeKnows, SessionsOf
    <3> QED
      BY <2>1, <2>2, <2>3, <2>4, <3>1, <3>2 DEF Deleted, Stays, InTable
  <2>5. CASE ~(devices[c].status \in {"approved", "denied"} /\ devices[c].user = w)
    BY <2>1, <2>2, <2>3, <2>5 DEF Deleted, Stays, InTable
  <2> QED
    BY <2>4, <2>5
<1>18. ASSUME NEW t \in Sessions, ExpireSession(t) PROVE CodeMoves(c)
  BY <1>18, <1>b DEF ExpireSession, vars
<1>19. ASSUME NEW d \in Codes, ExpireCode(d) PROVE CodeMoves(c)
  BY <1>19, <1>a DEF ExpireCode, Stays, DeviceRow
<1>20. ASSUME NEW r \in Requests, RequestFails(r) PROVE CodeMoves(c)
  BY <1>20, <1>b DEF RequestFails, vars
<1>21. ASSUME NEW p \in Polls, PollFails(p) PROVE CodeMoves(c)
  BY <1>21, <1>b DEF PollFails, vars
<1>22. ASSUME UNCHANGED vars PROVE CodeMoves(c)
  BY <1>22, <1>b DEF vars
<1> QED
  BY <1>1, <1>2, <1>3, <1>4, <1>5, <1>6, <1>7, <1>8, <1>9, <1>10, <1>11, <1>12,
     <1>13, <1>14, <1>15, <1>16, <1>17, <1>18, <1>19, <1>20, <1>21, <1>22
  DEF Next, SessionApi, ApproveApi, DenyApi, Terminal, PlatformApi, Time, Failure

(* Who is told that a code is refused is told so for good.                 *)
LEMMA RefusedStep ==
    ASSUME TypeOK, [Next]_vars, NEW c \in Codes, c \in refused'
    PROVE  \/ c \in refused
           \/ /\ devices' = devices
              /\ PollRefused(c) \/ devices[c].status # "approved" \/ devices[c].session = None
              /\ PollRefused(c) \/ \E p \in Polls : polls[p].pc = "consume" /\ polls[p].code = c
<1> DEFINE G == \/ c \in refused
                \/ /\ devices' = devices
                   /\ PollRefused(c) \/ devices[c].status # "approved" \/ devices[c].session = None
                   /\ PollRefused(c) \/ \E p \in Polls : polls[p].pc = "consume" /\ polls[p].code = c
<1>1. ASSUME NEW w \in Users, SignIn(w) PROVE G
  BY <1>1 DEF SignIn, vars
<1>2. ASSUME NEW r \in Requests, NEW t \in Sessions, Authenticate(r, t) PROVE G
  BY <1>2 DEF Authenticate, vars
<1>3. ASSUME NEW r \in Requests, NEW t \in Sessions, RevokeSession(r, t) PROVE G
  BY <1>3 DEF RevokeSession, vars
<1>4. ASSUME NEW r \in Requests, Logout(r) PROVE G
  BY <1>4 DEF Logout, vars
<1>5. ASSUME NEW r \in Requests, NEW d \in Codes, LookupApprove(r, d) PROVE G
  BY <1>5 DEF LookupApprove, vars
<1>6. ASSUME NEW r \in Requests, CreateCLI(r) PROVE G
  BY <1>6 DEF CreateCLI, vars
<1>7. ASSUME NEW r \in Requests, ApproveWithBearer(r) PROVE G
  BY <1>7 DEF ApproveWithBearer, vars
<1>8. ASSUME NEW r \in Requests, RollBackSession(r) PROVE G
  BY <1>8 DEF RollBackSession, vars
<1>9. ASSUME NEW r \in Requests, NEW d \in Codes, LookupDeny(r, d) PROVE G
  BY <1>9 DEF LookupDeny, vars
<1>10. ASSUME NEW r \in Requests, Deny(r) PROVE G
  BY <1>10 DEF Deny, vars
<1>11. ASSUME NEW d \in Codes, DeviceInitiate(d) PROVE G
  BY <1>11 DEF DeviceInitiate, vars
<1>12. ASSUME NEW p \in Polls, NEW d \in Codes, GetByDeviceCode(p, d) PROVE G
  BY <1>12 DEF GetByDeviceCode, vars
<1>13. ASSUME NEW p \in Polls, ConsumeApproved(p) PROVE G
  BY <1>13 DEF ConsumeApproved, vars
<1>14. ASSUME NEW p \in Polls, GetSession(p) PROVE G
  BY <1>14 DEF GetSession, vars
<1>15. ASSUME NEW p \in Polls, Reply(p) PROVE G
  BY <1>15 DEF Reply, vars
<1>16. ASSUME NEW w \in Users, SuspendUser(w) PROVE G
  BY <1>16 DEF SuspendUser, vars
<1>17. ASSUME NEW w \in Users, DeleteUser(w) PROVE G
  BY <1>17 DEF DeleteUser, vars
<1>18. ASSUME NEW t \in Sessions, ExpireSession(t) PROVE G
  BY <1>18 DEF ExpireSession, vars
<1>19. ASSUME NEW d \in Codes, ExpireCode(d) PROVE G
  BY <1>19 DEF ExpireCode, vars
<1>20. ASSUME NEW r \in Requests, RequestFails(r) PROVE G
  BY <1>20 DEF RequestFails, vars
<1>21. ASSUME NEW p \in Polls, PollFails(p) PROVE G
  BY <1>21 DEF PollFails, vars
<1>22. ASSUME UNCHANGED vars PROVE G
  BY <1>22 DEF vars
<1> QED
  BY <1>1, <1>2, <1>3, <1>4, <1>5, <1>6, <1>7, <1>8, <1>9, <1>10, <1>11, <1>12,
     <1>13, <1>14, <1>15, <1>16, <1>17, <1>18, <1>19, <1>20, <1>21, <1>22
  DEF Next, SessionApi, ApproveApi, DenyApi, Terminal, PlatformApi, Time, Failure

(* The answer with the bearer is the only step that counts as one.         *)
LEMMA HandoutStep ==
    ASSUME TypeOK, [Next]_vars, NEW c \in Codes, handouts'[c] # handouts[c]
    PROVE  \E p \in Polls : Reply(p) /\ polls[p].code = c /\ handouts'[c] = (IF handouts[c] = 0 THEN 1 ELSE 2)
<1> DEFINE G == \E p \in Polls : Reply(p) /\ polls[p].code = c /\ handouts'[c] = (IF handouts[c] = 0 THEN 1 ELSE 2)
<1>1. ASSUME NEW w \in Users, SignIn(w) PROVE G
  BY <1>1 DEF SignIn, vars
<1>2. ASSUME NEW r \in Requests, NEW t \in Sessions, Authenticate(r, t) PROVE G
  BY <1>2 DEF Authenticate, vars
<1>3. ASSUME NEW r \in Requests, NEW t \in Sessions, RevokeSession(r, t) PROVE G
  BY <1>3 DEF RevokeSession, vars
<1>4. ASSUME NEW r \in Requests, Logout(r) PROVE G
  BY <1>4 DEF Logout, vars
<1>5. ASSUME NEW r \in Requests, NEW d \in Codes, LookupApprove(r, d) PROVE G
  BY <1>5 DEF LookupApprove, vars
<1>6. ASSUME NEW r \in Requests, CreateCLI(r) PROVE G
  BY <1>6 DEF CreateCLI, vars
<1>7. ASSUME NEW r \in Requests, ApproveWithBearer(r) PROVE G
  BY <1>7 DEF ApproveWithBearer, vars
<1>8. ASSUME NEW r \in Requests, RollBackSession(r) PROVE G
  BY <1>8 DEF RollBackSession, vars
<1>9. ASSUME NEW r \in Requests, NEW d \in Codes, LookupDeny(r, d) PROVE G
  BY <1>9 DEF LookupDeny, vars
<1>10. ASSUME NEW r \in Requests, Deny(r) PROVE G
  BY <1>10 DEF Deny, vars
<1>11. ASSUME NEW d \in Codes, DeviceInitiate(d) PROVE G
  BY <1>11 DEF DeviceInitiate, vars
<1>12. ASSUME NEW p \in Polls, NEW d \in Codes, GetByDeviceCode(p, d) PROVE G
  BY <1>12 DEF GetByDeviceCode, vars
<1>13. ASSUME NEW p \in Polls, ConsumeApproved(p) PROVE G
  BY <1>13 DEF ConsumeApproved, vars
<1>14. ASSUME NEW p \in Polls, GetSession(p) PROVE G
  BY <1>14 DEF GetSession, vars
<1>15. ASSUME NEW p \in Polls, Reply(p) PROVE G
  BY <1>15 DEF Reply, TypeOK
<1>16. ASSUME NEW w \in Users, SuspendUser(w) PROVE G
  BY <1>16 DEF SuspendUser, vars
<1>17. ASSUME NEW w \in Users, DeleteUser(w) PROVE G
  BY <1>17 DEF DeleteUser, vars
<1>18. ASSUME NEW t \in Sessions, ExpireSession(t) PROVE G
  BY <1>18 DEF ExpireSession, vars
<1>19. ASSUME NEW d \in Codes, ExpireCode(d) PROVE G
  BY <1>19 DEF ExpireCode, vars
<1>20. ASSUME NEW r \in Requests, RequestFails(r) PROVE G
  BY <1>20 DEF RequestFails, vars
<1>21. ASSUME NEW p \in Polls, PollFails(p) PROVE G
  BY <1>21 DEF PollFails, vars
<1>22. ASSUME UNCHANGED vars PROVE G
  BY <1>22 DEF vars
<1> QED
  BY <1>1, <1>2, <1>3, <1>4, <1>5, <1>6, <1>7, <1>8, <1>9, <1>10, <1>11, <1>12,
     <1>13, <1>14, <1>15, <1>16, <1>17, <1>18, <1>19, <1>20, <1>21, <1>22
  DEF Next, SessionApi, ApproveApi, DenyApi, Terminal, PlatformApi, Time, Failure

(* A poll stays as it is, ends, or goes on with the code it had, or with   *)
(* one that it has just seen approved.                                     *)
Ends(p) ==
    LET q == polls[p] IN
    /\ polls'[p].pc = "idle" /\ polls'[p].session = None
    /\ \/ q.session = None
       \/ q.session \in lost'
       \/ sessions'[q.session].status # "live"
       \/ handouts'[q.code] # handouts[q.code]

Sees(p) ==
    /\ polls[p].session = None /\ devices' = devices
    /\ polls'[p].pc = "consume" /\ polls'[p].session = None
    /\ polls'[p].code \in Codes /\ devices[polls'[p].code].status = "approved"

Consumes(p) ==
    LET q == polls[p] IN
    /\ q.pc = "consume" /\ q.session = None
    /\ polls'[p].pc = "consumed" /\ polls'[p].code = q.code
    /\ polls'[p].session = devices[q.code].session
    /\ devices[q.code].status = "approved" /\ devices'[q.code].status = "consumed"
    /\ devices'[q.code].session = devices[q.code].session
    /\ \A a \in Polls \ {p} : polls'[a] = polls[a]

Keeps(p) ==
    /\ polls'[p].pc = IF polls[p].session = None THEN polls[p].pc ELSE polls'[p].pc
    /\ polls'[p].session # None => polls'[p].pc # "consume"
    /\ polls'[p].session = polls[p].session /\ polls'[p].code = polls[p].code

PollMoves(p) == Keeps(p) \/ Ends(p) \/ Sees(p) \/ Consumes(p)

(* Every step moves a poll along one of these edges.                       *)
LEMMA PollStep ==
    ASSUME TypeOK, Knows, [Next]_vars, NEW x \in Polls
    PROVE  PollMoves(x)
<1>a. /\ polls \in [Polls -> Poll] /\ polls[x] \in Poll
      /\ NoPoll.pc = "idle" /\ NoPoll.session = None
      /\ polls[x].session # None => polls[x].pc \in {"consumed", "reply"}
  BY DEF TypeOK, Poll, NoPoll
<1>b. polls'[x] = polls[x] => Keeps(x)
  BY <1>a DEF Keeps
<1> USE DEF PollMoves
<1>1. ASSUME NEW w \in Users, SignIn(w) PROVE PollMoves(x)
  BY <1>1, <1>b DEF SignIn, vars
<1>2. ASSUME NEW r \in Requests, NEW t \in Sessions, Authenticate(r, t) PROVE PollMoves(x)
  BY <1>2, <1>b DEF Authenticate, vars
<1>3. ASSUME NEW r \in Requests, NEW t \in Sessions, RevokeSession(r, t)
      PROVE  PollMoves(x)
  BY <1>3, <1>b DEF RevokeSession, vars
<1>4. ASSUME NEW r \in Requests, Logout(r) PROVE PollMoves(x)
  BY <1>4, <1>b DEF Logout, vars
<1>5. ASSUME NEW r \in Requests, NEW d \in Codes, LookupApprove(r, d) PROVE PollMoves(x)
  BY <1>5, <1>b DEF LookupApprove, vars
<1>6. ASSUME NEW r \in Requests, CreateCLI(r) PROVE PollMoves(x)
  BY <1>6, <1>b DEF CreateCLI, vars
<1>7. ASSUME NEW r \in Requests, ApproveWithBearer(r) PROVE PollMoves(x)
  BY <1>7, <1>b DEF ApproveWithBearer, vars
<1>8. ASSUME NEW r \in Requests, RollBackSession(r) PROVE PollMoves(x)
  BY <1>8, <1>b DEF RollBackSession, vars
<1>9. ASSUME NEW r \in Requests, NEW d \in Codes, LookupDeny(r, d) PROVE PollMoves(x)
  BY <1>9, <1>b DEF LookupDeny, vars
<1>10. ASSUME NEW r \in Requests, Deny(r) PROVE PollMoves(x)
  BY <1>10, <1>b DEF Deny, vars
<1>11. ASSUME NEW d \in Codes, DeviceInitiate(d) PROVE PollMoves(x)
  BY <1>11, <1>b DEF DeviceInitiate, vars
<1>12. ASSUME NEW p \in Polls, NEW d \in Codes, GetByDeviceCode(p, d) PROVE PollMoves(x)
  <2>1. CASE polls'[x] = polls[x]
    BY <1>b, <2>1
  <2>2. CASE polls'[x] # polls[x]
    <3>1. /\ x = p /\ polls[x].pc = "idle" /\ devices[d].status = "approved" /\ devices' = devices
          /\ polls'[x] = [NoPoll EXCEPT !.pc = "consume", !.code = d]
      BY <1>12, <1>a, <2>2 DEF GetByDeviceCode
    <3>2. polls'[x].pc = "consume" /\ polls'[x].session = None /\ polls'[x].code = d
      BY <3>1 DEF NoPoll
    <3>3. polls[x].session = None
      BY <1>a, <3>1
    <3> QED
      BY <3>1, <3>2, <3>3 DEF Sees
  <2> QED
    BY <2>1, <2>2
<1>13. ASSUME NEW p \in Polls, ConsumeApproved(p) PROVE PollMoves(x)
  <2>1. CASE x # p
    BY <1>13, <1>a, <1>b, <2>1 DEF ConsumeApproved, EndPoll
  <2>2. CASE x = p /\ devices[polls[p].code].status = "approved" /\ devices[polls[p].code].session # None
    <3> PICK c \in Codes : c = polls[p].code
      BY <1>13 DEF ConsumeApproved, Knows, PollKnows
    <3>1. polls[x].pc = "consume" /\ polls[x].session = None
      BY <1>13, <1>a, <2>2 DEF ConsumeApproved, Poll
    <3>2. /\ polls' = [polls EXCEPT ![x] = [polls[x] EXCEPT !.pc = "consumed", !.session = devices[c].session]]
          /\ devices' = [devices EXCEPT ![c] = [devices[c] EXCEPT !.status = "consumed"]]
      BY <1>13, <2>2 DEF ConsumeApproved
    <3>3. /\ polls'[x].pc = "consumed" /\ polls'[x].code = c /\ polls'[x].session = devices[c].session
          /\ \A a \in Polls \ {x} : polls'[a] = polls[a]
      BY <1>a, <2>2, <3>2 DEF Poll
    <3>4. devices'[c].status = "consumed" /\ devices'[c].session = devices[c].session
      BY <3>2 DEF TypeOK, DeviceRow
    <3> QED
      BY <2>2, <3>1, <3>3, <3>4 DEF Consumes
  <2>3. CASE x = p /\ ~(devices[polls[p].code].status = "approved" /\ devices[polls[p].code].session # None)
    <3>1. polls'[x] = NoPoll /\ polls[x].pc = "consume"
      BY <1>13, <1>a, <2>3 DEF ConsumeApproved, EndPoll
    <3> QED
      BY <1>a, <3>1 DEF Ends
  <2> QED
    BY <2>1, <2>2, <2>3
<1>14. ASSUME NEW p \in Polls, GetSession(p) PROVE PollMoves(x)
  <2>1. CASE x # p
    BY <1>14, <1>a, <1>b, <2>1 DEF GetSession, EndPoll
  <2>2. CASE x = p /\ Live(polls[p].session)
    <3>1. polls'[x] = [polls[x] EXCEPT !.pc = "reply"]
      BY <1>14, <1>a, <2>2 DEF GetSession
    <3>2. polls'[x].pc = "reply" /\ polls'[x].session = polls[x].session /\ polls'[x].code = polls[x].code
      BY <1>a, <3>1 DEF Poll
    <3> QED
      BY <2>2, <3>2 DEF Keeps, Live
  <2>3. CASE x = p /\ ~Live(polls[p].session)
    <3>1. polls'[x] = NoPoll /\ sessions' = sessions
      BY <1>14, <1>a, <2>3 DEF GetSession, EndPoll
    <3> QED
      BY <1>a, <2>3, <3>1 DEF Ends, Live
  <2> QED
    BY <2>1, <2>2, <2>3
<1>15. ASSUME NEW p \in Polls, Reply(p) PROVE PollMoves(x)
  <2>1. CASE x # p
    BY <1>15, <1>a, <1>b, <2>1 DEF Reply, EndPoll
  <2>2. CASE x = p
    <3>1. polls'[x] = NoPoll
      BY <1>15, <1>a, <2>2 DEF Reply, EndPoll
    <3>2. handouts'[polls[x].code] # handouts[polls[x].code]
      <4>1. polls[x].session # None /\ polls[x].code \in Codes
        BY <1>15, <1>a, <2>2, NoneIsNoRow DEF Reply, Poll
      <4>2. handouts[polls[x].code] = 0
        BY <4>1 DEF Knows, PollKnows
      <4>3. handouts' = [handouts EXCEPT ![polls[x].code] = 1]
        BY <1>15, <2>2, <4>2 DEF Reply
      <4> QED
        BY <4>1, <4>2, <4>3 DEF TypeOK
    <3> QED
      BY <1>a, <3>1, <3>2 DEF Ends
  <2> QED
    BY <2>1, <2>2
<1>16. ASSUME NEW w \in Users, SuspendUser(w) PROVE PollMoves(x)
  BY <1>16, <1>b DEF SuspendUser, vars
<1>17. ASSUME NEW w \in Users, DeleteUser(w) PROVE PollMoves(x)
  BY <1>17, <1>b DEF DeleteUser, vars
<1>18. ASSUME NEW t \in Sessions, ExpireSession(t) PROVE PollMoves(x)
  BY <1>18, <1>b DEF ExpireSession, vars
<1>19. ASSUME NEW d \in Codes, ExpireCode(d) PROVE PollMoves(x)
  BY <1>19, <1>b DEF ExpireCode, vars
<1>20. ASSUME NEW r \in Requests, RequestFails(r) PROVE PollMoves(x)
  BY <1>20, <1>b DEF RequestFails, vars
<1>21. ASSUME NEW p \in Polls, PollFails(p) PROVE PollMoves(x)
  <2>1. CASE x # p
    BY <1>21, <1>a, <1>b, <2>1 DEF PollFails, EndPoll
  <2>2. CASE x = p
    BY <1>21, <1>a, <2>2 DEF PollFails, EndPoll, Ends
  <2> QED
    BY <2>1, <2>2
<1>22. ASSUME UNCHANGED vars PROVE PollMoves(x)
  BY <1>22, <1>b DEF vars
<1> QED
  BY <1>1, <1>2, <1>3, <1>4, <1>5, <1>6, <1>7, <1>8, <1>9, <1>10, <1>11, <1>12,
     <1>13, <1>14, <1>15, <1>16, <1>17, <1>18, <1>19, <1>20, <1>21, <1>22
  DEF Next, SessionApi, ApproveApi, DenyApi, Terminal, PlatformApi, Time, Failure

(* What is known of a code stays true.                                     *)
LEMMA CodesStep ==
    ASSUME TypeOK, Knows, [Next]_vars, NEW e \in Codes
    PROVE  CodeKnows(e)'
<1>a. CodeKnows(e) /\ CodeMoves(e)
  BY CodeStep DEF Knows
<1>b. devices[e].session \in Sessions \cup {None}
  BY DEF TypeOK, DeviceRow
<1>c. ASSUME NEW r \in Requests
      PROVE  /\ requests[r].new \in Sessions \cup {None}
             /\ RequestKnows(r)
  BY DEF TypeOK, Request, Knows
<1>1. (devices[e].status \in {"unused", "pending", "denied"} => devices[e].session = None)'
  BY <1>a DEF CodeKnows, CodeMoves, Stays, Moves, Approves
<1>2. (devices[e].session # None => /\ sessions[devices[e].session].status # "unused"
                                    /\ sessions[devices[e].session].user = devices[e].user)'
  <2>1. CASE \E r \in Requests : Approves(r, e)
    BY <1>c, <2>1, SessionKept DEF Approves, RequestKnows
  <2>2. CASE ~\E r \in Requests : Approves(r, e)
    BY <1>a, <1>b, <2>2, SessionKept DEF CodeKnows, CodeMoves, Stays, Moves
  <2> QED
    BY <2>1, <2>2
<1>3. ASSUME devices'[e].session # None, NEW f \in Codes \ {e}
      PROVE  devices'[f].session # devices'[e].session
  <2>1. CodeMoves(f) /\ CodeKnows(f)
    BY CodeStep DEF Knows
  <2>2. ASSUME NEW g \in Codes, CodeMoves(g)
        PROVE  \/ devices'[g].session = devices[g].session
               \/ devices'[g].session = None
               \/ \E r \in Requests : /\ requests[r].code = g /\ requests[r].new = devices'[g].session
    BY <2>2 DEF CodeMoves, Stays, Moves, Approves
  <2> QED
    BY <1>3, <1>a, <1>c, <2>1, <2>2 DEF CodeKnows, RequestKnows
<1>4. (handouts[e] \in {0, 1} /\ (handouts[e] = 1 => devices[e].status = "consumed"))'
  <2>1. CASE handouts'[e] = handouts[e]
    BY <1>a, <2>1 DEF CodeKnows, CodeMoves, Stays, Moves, Approves
  <2>2. CASE handouts'[e] # handouts[e]
    <3>1. PICK p \in Polls : /\ Reply(p) /\ polls[p].code = e
                             /\ handouts'[e] = (IF handouts[e] = 0 THEN 1 ELSE 2)
      BY <2>2, HandoutStep
    <3>2. polls[p].session # None
      BY <3>1, NoneIsNoRow DEF Reply, TypeOK, Poll
    <3>3. handouts[e] = 0 /\ devices[e].status = "consumed" /\ devices' = devices
      BY <3>1, <3>2 DEF Reply, Knows, PollKnows
    <3> QED
      BY <3>1, <3>3
  <2> QED
    BY <2>1, <2>2
<1>5. ASSUME e \in refused'
      PROVE  (/\ devices[e].status # "unused"
              /\ devices[e].status = "pending" => devices[e].expired
              /\ devices[e].status = "approved" => devices[e].session = None)'
  <2>1. CASE e \in refused
    BY <1>a, <2>1 DEF CodeKnows, CodeMoves, Stays, Moves, Approves
  <2>2. CASE e \notin refused
    BY <1>5, <2>2, RefusedStep DEF PollRefused, Knows, PollKnows
  <2> QED
    BY <2>1, <2>2
<1> QED
  BY <1>1, <1>2, <1>3, <1>4, <1>5 DEF CodeKnows

(* What is known of a poll stays true.                                     *)
LEMMA PollsStep ==
    ASSUME TypeOK, Knows, [Next]_vars, NEW x \in Polls
    PROVE  PollKnows(x)'
<1>a. PollKnows(x) /\ PollMoves(x) /\ \A a \in Polls : PollKnows(a) /\ PollMoves(a)
  BY PollStep DEF Knows
<1>b. \A a \in Polls : polls[a].session # None => polls[a].code \in Codes
  BY DEF TypeOK, Poll
<1>c. \A c \in Codes : CodeMoves(c) /\ CodeKnows(c)
  BY CodeStep DEF Knows
<1>1. ASSUME polls'[x].pc = "consume"
      PROVE  devices'[polls'[x].code].status \in {"approved", "consumed"} /\ polls'[x].code \in Codes
  <2>1. CASE Sees(x)
    BY <2>1 DEF Sees
  <2>2. CASE Keeps(x)
    <3>1. polls[x].pc = "consume" /\ polls'[x].code = polls[x].code
      BY <1>1, <2>2 DEF Keeps
    <3> QED
      BY <1>a, <1>c, <3>1 DEF PollKnows, CodeMoves, Stays, Moves, Approves
  <2> QED
    BY <1>1, <1>a, <2>1, <2>2 DEF PollMoves, Ends, Consumes
<1>2. ASSUME polls'[x].session # None
      PROVE  /\ devices'[polls'[x].code].status = "consumed"
             /\ polls'[x].session = devices'[polls'[x].code].session
             /\ handouts'[polls'[x].code] = 0
             /\ \A a \in Polls \ {x} : polls'[a].session # polls'[x].session
  <2> DEFINE c == polls[x].code
  <2>1. CASE Consumes(x)
    <3>1. c \in Codes
      BY <1>a, <2>1 DEF Consumes, PollKnows
    <3>2. handouts'[c] = 0
      <4>1. handouts[c] = 0
        BY <1>c, <2>1, <3>1 DEF Consumes, CodeKnows
      <4>2. handouts'[c] = handouts[c]
        <5> SUFFICES ASSUME handouts'[c] # handouts[c] PROVE FALSE
          OBVIOUS
        <5>1. PICK p \in Polls : Reply(p)
          BY <3>1, HandoutStep
        <5> QED
          BY <2>1, <5>1 DEF Reply, Consumes
      <4> QED
        BY <4>1, <4>2
    <3>3. ASSUME NEW a \in Polls \ {x} PROVE polls'[a].session # polls'[x].session
      <4>1. polls'[a] = polls[a]
        BY <2>1 DEF Consumes
      <4>2. polls[a].session # None =>
               polls[a].code # c /\ polls[a].session = devices[polls[a].code].session
        BY <1>a, <2>1 DEF PollKnows, Consumes
      <4>3. polls[a].session # None => polls[a].code \in Codes
        BY <1>b
      <4> QED
        BY <1>2, <1>c, <2>1, <3>1, <4>1, <4>2, <4>3 DEF CodeKnows, Consumes
    <3> QED
      BY <2>1, <3>2, <3>3 DEF Consumes
  <2>2. CASE Keeps(x)
    <3>1. /\ polls'[x].session = polls[x].session /\ polls'[x].code = c /\ c \in Codes
          /\ polls[x].session # None /\ PollKnows(x)
      BY <1>2, <1>a, <1>b, <2>2 DEF Keeps
    <3>2. devices'[c].status = "consumed" /\ devices'[c].session = devices[c].session
      BY <1>c, <3>1 DEF PollKnows, CodeMoves, Stays, Moves, Approves
    <3>3. handouts'[c] = 0
      <4> SUFFICES ASSUME handouts'[c] # handouts[c] PROVE FALSE
        BY <3>1 DEF PollKnows
      <4>1. PICK p \in Polls : Reply(p) /\ polls[p].code = c
        BY <3>1, HandoutStep
      <4>2. polls[p].session # None /\ polls'[p] = NoPoll
        BY <4>1, NoneIsNoRow DEF Reply, EndPoll, TypeOK, Poll
      <4>3. p # x
        BY <3>1, <4>2 DEF NoPoll
      <4> QED
        BY <1>a, <3>1, <4>1, <4>2, <4>3 DEF PollKnows
    <3>4. ASSUME NEW a \in Polls \ {x} PROVE polls'[a].session # polls'[x].session
      <4>1. CASE Consumes(a)
        <5>1. polls[a].code \in Codes /\ polls[a].code # c
          BY <1>a, <3>1, <4>1 DEF Consumes, PollKnows
        <5> QED
          BY <1>c, <3>1, <4>1, <5>1 DEF Consumes, PollKnows, CodeKnows
      <4>2. CASE ~Consumes(a)
        <5>1. polls'[a].session = None \/ polls'[a].session = polls[a].session
          BY <1>a, <4>2 DEF PollMoves, Keeps, Ends, Sees
        <5> QED
          BY <3>1, <5>1 DEF PollKnows
      <4> QED
        BY <4>1, <4>2
    <3> QED
      BY <3>1, <3>2, <3>3, <3>4 DEF PollKnows
  <2> QED
    BY <1>2, <1>a, <2>1, <2>2 DEF PollMoves, Ends, Sees
<1> QED
  BY <1>1, <1>2 DEF PollKnows

(* A session that comes to life for a terminal is in the request that has  *)
(* created it.                                                             *)
LEMMA NewSession ==
    ASSUME TypeOK, [Next]_vars, NEW s \in Sessions, sessions[s].status = "unused",
           sessions'[s].status = "live", sessions'[s].kind = "cli"
    PROVE  \E r \in Requests : requests'[r].new = s
<1> DEFINE G == \E r \in Requests : requests'[r].new = s
<1> USE DEF TypeOK
<1>1. ASSUME NEW w \in Users, SignIn(w) PROVE G
  BY <1>1 DEF SignIn, InsertSession, SessionRow
<1>2. ASSUME NEW r \in Requests, NEW t \in Sessions, Authenticate(r, t) PROVE G
  BY <1>2 DEF Authenticate, vars
<1>3. ASSUME NEW r \in Requests, NEW t \in Sessions, RevokeSession(r, t) PROVE G
  BY <1>3, Deletion DEF RevokeSession, Deleted
<1>4. ASSUME NEW r \in Requests, Logout(r) PROVE G
  BY <1>4, Deletion DEF Logout, Deleted
<1>5. ASSUME NEW r \in Requests, NEW d \in Codes, LookupApprove(r, d) PROVE G
  BY <1>5 DEF LookupApprove, vars
<1>6. ASSUME NEW r \in Requests, CreateCLI(r) PROVE G
  <2>1. CASE UNCHANGED sessions
    BY <2>1
  <2>2. ASSUME NEW t \in Sessions, InsertSession(t, "cli", requests[r].user),
               requests' = [requests EXCEPT ![r].pc = "created", ![r].new = t]
        PROVE  G
    <3>1. s = t
      BY <2>2 DEF InsertSession
    <3>2. requests'[r].new = t
      BY <2>2 DEF Request
    <3> QED
      BY <3>1, <3>2
  <2> QED
    BY <1>6, <2>1, <2>2 DEF CreateCLI
<1>7. ASSUME NEW r \in Requests, ApproveWithBearer(r) PROVE G
  BY <1>7 DEF ApproveWithBearer, vars
<1>8. ASSUME NEW r \in Requests, RollBackSession(r) PROVE G
  BY <1>8, Deletion DEF RollBackSession, Deleted
<1>9. ASSUME NEW r \in Requests, NEW d \in Codes, LookupDeny(r, d) PROVE G
  BY <1>9 DEF LookupDeny, vars
<1>10. ASSUME NEW r \in Requests, Deny(r) PROVE G
  BY <1>10 DEF Deny, vars
<1>11. ASSUME NEW d \in Codes, DeviceInitiate(d) PROVE G
  BY <1>11 DEF DeviceInitiate, vars
<1>12. ASSUME NEW p \in Polls, NEW d \in Codes, GetByDeviceCode(p, d) PROVE G
  BY <1>12 DEF GetByDeviceCode, vars
<1>13. ASSUME NEW p \in Polls, ConsumeApproved(p) PROVE G
  BY <1>13 DEF ConsumeApproved, vars
<1>14. ASSUME NEW p \in Polls, GetSession(p) PROVE G
  BY <1>14 DEF GetSession, vars
<1>15. ASSUME NEW p \in Polls, Reply(p) PROVE G
  BY <1>15 DEF Reply, vars
<1>16. ASSUME NEW w \in Users, SuspendUser(w) PROVE G
  BY <1>16, Deletion DEF SuspendUser, Deleted
<1>17. ASSUME NEW w \in Users, DeleteUser(w) PROVE G
  BY <1>17, UserDeletion DEF DeleteUser, Deleted
<1>18. ASSUME NEW t \in Sessions, ExpireSession(t) PROVE G
  BY <1>18 DEF ExpireSession, vars
<1>19. ASSUME NEW d \in Codes, ExpireCode(d) PROVE G
  BY <1>19 DEF ExpireCode, vars
<1>20. ASSUME NEW r \in Requests, RequestFails(r) PROVE G
  BY <1>20 DEF RequestFails, vars
<1>21. ASSUME NEW p \in Polls, PollFails(p) PROVE G
  BY <1>21 DEF PollFails, vars
<1>22. ASSUME UNCHANGED vars PROVE G
  BY <1>22 DEF vars
<1> QED
  BY <1>1, <1>2, <1>3, <1>4, <1>5, <1>6, <1>7, <1>8, <1>9, <1>10, <1>11, <1>12,
     <1>13, <1>14, <1>15, <1>16, <1>17, <1>18, <1>19, <1>20, <1>21, <1>22
  DEF Next, SessionApi, ApproveApi, DenyApi, Terminal, PlatformApi, Time, Failure

(* The session that a request has created stays with it, goes to its code, *)
(* is deleted, or is lost by a failure.                                    *)
LEMMA NewKept ==
    ASSUME TypeOK, Knows, [Next]_vars, NEW a \in Requests, requests[a].new # None
    PROVE  \/ requests'[a].new = requests[a].new
           \/ requests[a].new \in lost'
           \/ sessions'[requests[a].new].status # "live"
           \/ Approves(a, requests[a].code)
<1> DEFINE s == requests[a].new
           G == \/ requests'[a].new = s \/ s \in lost'
                \/ sessions'[s].status # "live" \/ Approves(a, requests[a].code)
<1>a. requests[a].pc \in {"created", "rollback"} /\ s \in Sessions /\ requests \in [Requests -> Request]
  BY DEF Knows, RequestKnows, TypeOK, Request
<1>b. requests' = requests => G
  OBVIOUS
<1>1. ASSUME NEW w \in Users, SignIn(w) PROVE G
  BY <1>1, <1>b DEF SignIn, vars
<1>2. ASSUME NEW r \in Requests, NEW t \in Sessions, Authenticate(r, t) PROVE G
  BY <1>2, <1>a DEF Authenticate
<1>3. ASSUME NEW r \in Requests, NEW t \in Sessions, RevokeSession(r, t) PROVE G
  BY <1>3, <1>a DEF RevokeSession, EndRequest
<1>4. ASSUME NEW r \in Requests, Logout(r) PROVE G
  BY <1>4, <1>a DEF Logout, EndRequest
<1>5. ASSUME NEW r \in Requests, NEW d \in Codes, LookupApprove(r, d) PROVE G
  BY <1>5, <1>a DEF LookupApprove, EndRequest
<1>6. ASSUME NEW r \in Requests, CreateCLI(r) PROVE G
  <2>1. a # r /\ \A q \in Requests \ {r} : requests'[q] = requests[q]
    BY <1>6, <1>a DEF CreateCLI, EndRequest
  <2> QED
    BY <2>1
<1>7. ASSUME NEW r \in Requests, ApproveWithBearer(r) PROVE G
  <2>1. CASE a # r
    BY <1>7, <1>a, <2>1 DEF ApproveWithBearer, EndRequest
  <2>2. CASE a = r /\ requests' = [requests EXCEPT ![r].pc = "rollback"]
    BY <1>a, <2>2 DEF Request
  <2>3. CASE a = r /\ requests' # [requests EXCEPT ![r].pc = "rollback"]
    <3> PICK c \in Codes : c = requests[r].code
      BY <1>7 DEF ApproveWithBearer, Knows, RequestKnows
    <3>1. /\ requests[r].pc = "created" /\ Approvable(c)
          /\ devices' = [devices EXCEPT ![c] = [devices[c] EXCEPT !.status = "approved",
                             !.user = requests[r].user, !.session = requests[r].new]]
      BY <1>7, <2>3 DEF ApproveWithBearer
    <3>2. /\ devices'[c].status = "approved" /\ devices'[c].user = requests[r].user
          /\ devices'[c].session = requests[r].new /\ devices'[c].expired = devices[c].expired
      BY <3>1 DEF TypeOK, DeviceRow
    <3> QED
      BY <2>3, <3>1, <3>2 DEF Approves, Approvable
  <2> QED
    BY <2>1, <2>2, <2>3
<1>8. ASSUME NEW r \in Requests, RollBackSession(r) PROVE G
  <2>1. CASE a # r
    BY <1>8, <1>a, <2>1 DEF RollBackSession, EndRequest
  <2>2. CASE a = r
    <3>1. Deleted({s})
      BY <1>8, <2>2, Deletion DEF RollBackSession
    <3> QED
      BY <1>a, <3>1 DEF Deleted, InTable
  <2> QED
    BY <2>1, <2>2
<1>9. ASSUME NEW r \in Requests, NEW d \in Codes, LookupDeny(r, d) PROVE G
  BY <1>9, <1>a DEF LookupDeny, EndRequest
<1>10. ASSUME NEW r \in Requests, Deny(r) PROVE G
  BY <1>10, <1>a DEF Deny, EndRequest
<1>11. ASSUME NEW d \in Codes, DeviceInitiate(d) PROVE G
  BY <1>11, <1>b DEF DeviceInitiate, vars
<1>12. ASSUME NEW p \in Polls, NEW d \in Codes, GetByDeviceCode(p, d) PROVE G
  BY <1>12, <1>b DEF GetByDeviceCode, vars
<1>13. ASSUME NEW p \in Polls, ConsumeApproved(p) PROVE G
  BY <1>13, <1>b DEF ConsumeApproved, vars
<1>14. ASSUME NEW p \in Polls, GetSession(p) PROVE G
  BY <1>14, <1>b DEF GetSession, vars
<1>15. ASSUME NEW p \in Polls, Reply(p) PROVE G
  BY <1>15, <1>b DEF Reply, vars
<1>16. ASSUME NEW w \in Users, SuspendUser(w) PROVE G
  BY <1>16, <1>b DEF SuspendUser, vars
<1>17. ASSUME NEW w \in Users, DeleteUser(w) PROVE G
  BY <1>17, <1>b DEF DeleteUser, vars
<1>18. ASSUME NEW t \in Sessions, ExpireSession(t) PROVE G
  BY <1>18, <1>b DEF ExpireSession, vars
<1>19. ASSUME NEW d \in Codes, ExpireCode(d) PROVE G
  BY <1>19, <1>b DEF ExpireCode, vars
<1>20. ASSUME NEW r \in Requests, RequestFails(r) PROVE G
  BY <1>20, <1>a DEF RequestFails, EndRequest
<1>21. ASSUME NEW p \in Polls, PollFails(p) PROVE G
  BY <1>21, <1>b DEF PollFails, vars
<1>22. ASSUME UNCHANGED vars PROVE G
  BY <1>22, <1>b DEF vars
<1> QED
  BY <1>1, <1>2, <1>3, <1>4, <1>5, <1>6, <1>7, <1>8, <1>9, <1>10, <1>11, <1>12,
     <1>13, <1>14, <1>15, <1>16, <1>17, <1>18, <1>19, <1>20, <1>21, <1>22
  DEF Next, SessionApi, ApproveApi, DenyApi, Terminal, PlatformApi, Time, Failure

(* No session of a terminal is left over by a step.                        *)
LEMMA AccountedStep ==
    ASSUME IInv, [Next]_vars PROVE SessionsAccountedFor'
<1> SUFFICES ASSUME NEW s \in Sessions, (Live(s) /\ sessions[s].kind = "cli")'
             PROVE  (\/ s \in lost
                     \/ \E r \in Requests : requests[r].new = s
                     \/ \E c \in Codes :
                           /\ devices[c].session = s
                           /\ \/ devices[c].status = "approved" /\ c \notin refused
                              \/ devices[c].status = "consumed" /\
                                    (handouts[c] = 1 \/ \E p \in Polls : polls[p].session = s))'
  BY DEF SessionsAccountedFor
<1>a. s # None /\ sessions'[s].status = "live" /\ sessions'[s].kind = "cli"
  BY NoneIsNoRow DEF Live
<1>b. TypeOK /\ Knows
  BY DEF IInv
<1>1. CASE sessions[s].status = "unused"
  BY <1>1, <1>a, <1>b, NewSession
<1>2. CASE sessions[s].status # "unused"
  <2>1. Live(s) /\ sessions[s].kind = "cli"
    BY <1>2, <1>a, <1>b, SessionKept DEF Live
  <2>2. CASE s \in lost
    <3>1. lost \subseteq lost'
      BY DEF Next, SessionApi, ApproveApi, DenyApi, Terminal, PlatformApi, Time, Failure, vars,
             SignIn, Authenticate, RevokeSession, Logout, LookupApprove, CreateCLI,
             ApproveWithBearer, RollBackSession, LookupDeny, Deny, DeviceInitiate,
             GetByDeviceCode, ConsumeApproved, GetSession, Reply, SuspendUser, DeleteUser,
             ExpireSession, ExpireCode, RequestFails, PollFails
    <3> QED
      BY <2>2, <3>1
  <2>3. ASSUME NEW r \in Requests, requests[r].new = s,
               ~(requests'[r].new = s \/ s \in lost')
        PROVE  \E c \in Codes : (devices[c].session = s /\ devices[c].status = "approved" /\ c \notin refused)'
    <3>1. Approves(r, requests[r].code)
      BY <1>a, <1>b, <2>3, NewKept
    <3>2. PICK c \in Codes : c = requests[r].code
      BY <1>b, <3>1 DEF Approves, Knows, RequestKnows
    <3>3. c \notin refused'
      BY <1>b, <3>1, <3>2, RefusedStep DEF Approves, Knows, CodeKnows
    <3> QED
      BY <2>3, <3>1, <3>2, <3>3 DEF Approves
  <2>4. ASSUME NEW c \in Codes, devices[c].session = s, devices[c].status = "approved", c \notin refused
        PROVE  \/ (devices[c].session = s /\ devices[c].status = "approved" /\ c \notin refused)'
               \/ \E p \in Polls : (/\ devices[c].session = s /\ devices[c].status = "consumed"
                                    /\ polls[p].session = s)'
    <3>1. CodeMoves(c) /\ CodeKnows(c)
      BY <1>b, CodeStep DEF Knows
    <3>2. c \in refused' => devices' = devices /\ devices[c].session = None
      BY <1>b, <2>4, RefusedStep DEF PollRefused
    <3> QED
      BY <1>a, <2>4, <3>1, <3>2 DEF CodeMoves, Stays, Moves, Approves
  <2>5. ASSUME NEW c \in Codes, devices[c].session = s, devices[c].status = "consumed",
               handouts[c] = 1 \/ \E p \in Polls : polls[p].session = s
        PROVE  \/ s \in lost'
               \/ /\ devices'[c].session = s /\ devices'[c].status = "consumed"
                  /\ handouts'[c] = 1 \/ \E p \in Polls : polls'[p].session = s
    <3>1. CodeMoves(c) /\ CodeKnows(c)
      BY <1>b, CodeStep DEF Knows
    <3>2. devices'[c].session = s /\ devices'[c].status = "consumed"
      BY <2>5, <3>1 DEF CodeMoves, Stays, Moves, Approves
    <3>3. ASSUME handouts'[c] # handouts[c] PROVE handouts'[c] = 1
      <4>1. PICK p \in Polls : /\ Reply(p) /\ polls[p].code = c
                               /\ handouts'[c] = (IF handouts[c] = 0 THEN 1 ELSE 2)
        BY <1>b, <3>3, HandoutStep
      <4>2. polls[p].session # None
        BY <1>b, <4>1, NoneIsNoRow DEF Reply, TypeOK, Poll
      <4> QED
        BY <1>b, <4>1, <4>2 DEF Knows, PollKnows
    <3>4. ASSUME NEW p \in Polls, polls[p].session = s
          PROVE  s \in lost' \/ handouts'[c] = 1 \/ polls'[p].session = s
      <4>1. PollMoves(p) /\ PollKnows(p)
        BY <1>b, PollStep DEF Knows
      <4>2. polls[p].code = c
        BY <1>a, <1>b, <2>5, <3>1, <3>4, <4>1 DEF PollKnows, CodeKnows, TypeOK, Poll
      <4> QED
        BY <1>a, <3>3, <3>4, <4>1, <4>2 DEF PollMoves, Keeps, Ends, Sees, Consumes
    <3> QED
      BY <2>5, <3>2, <3>3, <3>4
  <2> QED
    BY <1>a, <1>b, <2>1, <2>2, <2>3, <2>4, <2>5 DEF IInv, SessionsAccountedFor
<1> QED
  BY <1>1, <1>2

(* The inductive invariant.                                                *)
LEMMA Invariance == Spec => []IInv
<1>1. IInv /\ [Next]_vars => IInv'
  BY TypeStep, RequestsStep, CodesStep, PollsStep, AccountedStep DEF IInv, Knows
<1> QED
  BY InitIInv, <1>1, PTL DEF Spec

(* The rows, the requests and the polls keep their types, for any number   *)
(* of them.                                                                *)
THEOREM TypeCorrect == Spec => []TypeOK
BY Invariance, PTL DEF IInv

(* However many polls race for an approved code, the bearer is sent once   *)
(* at most, and opens a session of the user who approved the code.         *)
THEOREM SentOnce == Spec => []BearerSentOnce
<1>1. IInv => BearerSentOnce
  <2> SUFFICES ASSUME IInv PROVE BearerSentOnce
    OBVIOUS
  <2>1. \A c \in Codes : handouts[c] <= 1
    BY DEF IInv, Knows, CodeKnows
  <2>2. ASSUME NEW p \in Polls, polls[p].session # None
        PROVE  LET c == polls[p].code
               IN /\ devices[c].status = "consumed"
                  /\ polls[p].session = devices[c].session
                  /\ sessions[polls[p].session].user = devices[c].user
                  /\ \A q \in Polls \ {p} : polls[q].session # polls[p].session
                  /\ handouts[c] = 0
    <3>1. PollKnows(p) /\ polls[p].code \in Codes
      BY <2>2 DEF IInv, Knows, TypeOK, Poll
    <3> QED
      BY <2>2, <3>1 DEF IInv, Knows, PollKnows, CodeKnows
  <2> QED
    BY <2>1, <2>2 DEF BearerSentOnce
<1> QED
  BY Invariance, <1>1, PTL

(* No session of a terminal is left over by an approval that failed or was *)
(* overtaken: each is with its code, with the one who handles it, in the   *)
(* hands of its terminal, or was lost by a failure.                        *)
THEOREM NoOrphanSession == Spec => []SessionsAccountedFor
BY Invariance, PTL DEF IInv

(* A decision about a code is final, and an approval within its time.      *)
LEMMA DecisionStep ==
    ASSUME TypeOK, Knows, [Next]_vars, NEW c \in Codes
    PROVE  /\ devices[c].status \in {"approved", "denied", "consumed"} =>
                /\ \/ devices'[c].user = devices[c].user
                   \/ devices'[c].user = None /\ users'[devices[c].user] = "deleted"
                /\ devices'[c].status # devices[c].status =>
                      devices[c].status = "approved" /\ devices'[c].status = "consumed"
           /\ devices[c].status = "pending" /\ devices'[c].status = "approved" =>
                ~devices[c].expired
BY CodeStep DEF CodeMoves, Stays, Moves, Approves

(* What was decided of a code stays decided, whatever approvals, denials   *)
(* and polls overlap.                                                      *)
THEOREM Decisions == Spec => DecisionsAreFinal
<1>1. IInv /\ [Next]_vars =>
        [\A c \in Codes :
          /\ devices[c].status \in {"approved", "denied", "consumed"} =>
                /\ \/ devices'[c].user = devices[c].user
                   \/ devices'[c].user = None /\ users'[devices[c].user] = "deleted"
                /\ devices'[c].status # devices[c].status =>
                      devices[c].status = "approved" /\ devices'[c].status = "consumed"
          /\ devices[c].status = "pending" /\ devices'[c].status = "approved" =>
                ~devices[c].expired]_vars
  BY DecisionStep DEF IInv
<1> QED
  BY Invariance, <1>1, PTL DEF Spec, DecisionsAreFinal

=============================================================================
