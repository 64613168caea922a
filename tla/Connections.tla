----------------------------- MODULE Connections -----------------------------
(***************************************************************************)
(* A direct connection to an MCP server: how it is authorized with OAuth,  *)
(* how its tokens are refreshed, and how it is discovered.                 *)
(*                                                                         *)
(* A discovery (of a tick, of the console, after a creation or a callback) *)
(* initializes a session with the server and lists what it offers.  With   *)
(* OAuth each of its requests loads the tokens from the database and, if   *)
(* they have expired, refreshes them: the whole secret is read, changed    *)
(* and written back, while other discoveries and callbacks do the same.    *)
(*                                                                         *)
(* A secret is what matters of the encrypted blob: whether there is an     *)
(* access token and whether it needs a refresh, and which refresh token    *)
(* there is (0: none).  The provider is external: good are the refresh     *)
(* tokens it accepts, and one that rotates them accepts each only once.    *)
(* The status "error" stands for unauthorized as well.                     *)
(***************************************************************************)
EXTENDS Naturals, FiniteSets

CONSTANTS Discoveries,  \* discoveries under way at the same time
          Callbacks,    \* callbacks under way at the same time
          MaxStarts,    \* bound on the authorizations started
          Lists,        \* what a discovery lists: 3 (tools, resources, prompts)
          MaxTokens,    \* bound on the refresh tokens issued
          MaxFaults     \* bound on failures

ASSUME BoundsAreNatural == Lists \in Nat /\ MaxStarts \in Nat /\ MaxTokens \in Nat /\ MaxFaults \in Nat

VARIABLES conn,         \* the row of mcp_connections
          server,       \* whether mcp_servers has a row of the connection
          states, starts,               \* rows of oauth_authcode_states, and how many were made
          discoveries, callbacks,
          rotates, good, issued,        \* the provider
          lost,         \* history: a valid refresh token went astray
          faults

authorizations == <<states, starts>>
provider == <<rotates, good, issued>>
vars == <<conn, server, authorizations, discoveries, callbacks, rotates, good, issued, lost, faults>>

-----------------------------------------------------------------------------
Secret   == [access : {"none", "fresh", "stale"}, refresh : 0..MaxTokens]
NoTokens == [access |-> "none", refresh |-> 0]

ConnRow == [life   : {"absent", "present", "deleted"},
            method : {"oauth", "static"},
            oauth  : {"", "pending_authorize", "authorized", "needs_reauth"},
            secret : Secret,
            status : {"pending", "healthy", "error"}]

(* call 0 is initialize; error is what it failed with.                      *)
Discovery == [pc     : {"idle", "load", "refresh", "mark", "save", "send", "upsert",
                        "update", "reauth", "record"},
              call   : 0..Lists,
              secret : Secret,
              error  : {"none", "reauth", "error"}]

Callback == [pc     : {"idle", "get", "exchange", "save", "authorize", "refuse"},
             secret : Secret]

NoDiscovery == [pc |-> "idle", call |-> 0, secret |-> NoTokens, error |-> "none"]
NoCallback  == [pc |-> "idle", secret |-> NoTokens]

Init ==
    /\ conn \in [life : {"absent"}, method : {"oauth", "static"}, oauth : {""},
                 secret : {NoTokens}, status : {"pending"}]
    /\ server = FALSE
    /\ states = 0 /\ starts = 0
    /\ discoveries = [d \in Discoveries |-> NoDiscovery]
    /\ callbacks = [c \in Callbacks |-> NoCallback]
    /\ rotates \in BOOLEAN
    /\ good = {} /\ issued = 0
    /\ lost = FALSE
    /\ faults = 0

Present == conn.life = "present"
OAuth   == conn.method = "oauth"

Fault == faults < MaxFaults /\ faults' = faults + 1

-----------------------------------------------------------------------------
(* The console.                                                             *)

(* Of any method; an OAuth client may have been registered on the fly.      *)
CreateConnection ==
    /\ conn.life = "absent"
    /\ conn' = [conn EXCEPT !.life = "present",
                            !.oauth = IF OAuth THEN "pending_authorize" ELSE ""]
    /\ UNCHANGED <<server, authorizations, discoveries, callbacks, provider, lost, faults>>

(* The rows that refer to the connection go with it.                        *)
DeleteConnection ==
    /\ Present
    /\ conn' = [conn EXCEPT !.life = "deleted"]
    /\ server' = FALSE
    /\ states' = 0 /\ UNCHANGED starts
    /\ UNCHANGED <<discoveries, callbacks, provider, lost, faults>>

StartAuthorize ==
    /\ Present /\ OAuth
    /\ starts < MaxStarts
    /\ starts' = starts + 1
    /\ states' = states + 1
    /\ UNCHANGED <<conn, server, discoveries, callbacks, provider, lost, faults>>

(* The access token comes within a minute of its expiry.                    *)
ExpireAccess ==
    /\ conn.secret.access = "fresh"
    /\ conn' = [conn EXCEPT !.secret.access = "stale"]
    /\ UNCHANGED <<server, authorizations, discoveries, callbacks, provider, lost, faults>>

-----------------------------------------------------------------------------
(* The callback of the provider, which browsers may send again.             *)

CallbackAt(c, pc) == callbacks' = [callbacks EXCEPT ![c].pc = pc]
EndCallback(c)    == callbacks' = [callbacks EXCEPT ![c] = NoCallback]

(* TakeOAuthState deletes the row and returns it.  After ten minutes it has *)
(* expired; nothing calls SweepExpiredOAuthStates.                          *)
TakeOAuthState(c) ==
    /\ callbacks[c].pc = "idle"
    /\ states > 0
    /\ states' = states - 1 /\ UNCHANGED starts
    /\ \E answer \in {"get", "refuse", "idle"} : CallbackAt(c, answer)
    /\ UNCHANGED <<conn, server, discoveries, provider, lost, faults>>

GetWithSecret(c) ==
    /\ callbacks[c].pc = "get"
    /\ IF Present
       THEN callbacks' = [callbacks EXCEPT ![c].pc = "exchange", ![c].secret = conn.secret]
       ELSE EndCallback(c)
    /\ UNCHANGED <<conn, server, authorizations, discoveries, provider, lost, faults>>

(* ApplyTokenResponse: an answer without an expiry leaves the old one, and  *)
(* one without a refresh token (t is the old one) leaves that.              *)
TokenResponses(s, t) ==
    {[access |-> a, refresh |-> t] : a \in {"fresh", IF s.access = "stale" THEN "stale" ELSE "fresh"}}

(* The code is good for a grant of its own, with or without a refresh token.*)
ExchangeCode(c) ==
    /\ callbacks[c].pc = "exchange"
    /\ \/ /\ issued < MaxTokens
          /\ issued' = issued + 1
          /\ good' = good \cup {issued'}
          /\ \E s \in TokenResponses(callbacks[c].secret, issued') :
                callbacks' = [callbacks EXCEPT ![c].pc = "save", ![c].secret = s]
       \/ /\ \E s \in TokenResponses(callbacks[c].secret, callbacks[c].secret.refresh) :
                callbacks' = [callbacks EXCEPT ![c].pc = "save", ![c].secret = s]
          /\ UNCHANGED <<good, issued>>
       \/ CallbackAt(c, "refuse") /\ UNCHANGED <<good, issued>>
    /\ UNCHANGED <<conn, server, authorizations, discoveries, rotates, lost, faults>>

SaveTokens(c) ==
    /\ callbacks[c].pc = "save"
    /\ IF Present
       THEN /\ conn' = [conn EXCEPT !.secret = callbacks[c].secret]
            /\ callbacks' = [callbacks EXCEPT ![c] = [NoCallback EXCEPT !.pc = "authorize"]]
            /\ lost' = (lost \/ callbacks[c].secret.refresh \notin good \cup {0})
       ELSE EndCallback(c) /\ UNCHANGED <<conn, lost>>
    /\ UNCHANGED <<server, authorizations, discoveries, provider, faults>>

Authorize(c) ==
    /\ callbacks[c].pc = "authorize"
    /\ conn' = IF Present THEN [conn EXCEPT !.oauth = "authorized"] ELSE conn
    /\ EndCallback(c)
    /\ UNCHANGED <<server, authorizations, discoveries, provider, lost, faults>>

(* The provider's error, or a failed exchange.                              *)
RefuseCallback(c) ==
    /\ callbacks[c].pc = "refuse"
    /\ conn' = IF Present THEN [conn EXCEPT !.oauth = "needs_reauth"] ELSE conn
    /\ EndCallback(c)
    /\ UNCHANGED <<server, authorizations, discoveries, provider, lost, faults>>

CallbackFails(c) ==
    /\ callbacks[c].pc # "idle"
    /\ Fault
    /\ EndCallback(c)
    /\ UNCHANGED <<conn, server, authorizations, discoveries, provider, lost>>

-----------------------------------------------------------------------------
(* A discovery.                                                             *)

At(d, pc) == discoveries[d].pc = pc
Goto(d, pc) == discoveries' = [discoveries EXCEPT ![d].pc = pc]
EndDiscovery(d) == discoveries' = [discoveries EXCEPT ![d] = NoDiscovery]

(* A request of the client: with OAuth through OAuth2RoundTripper.          *)
Request == IF OAuth THEN "load" ELSE "send"

AfterCall(d) ==
    IF discoveries[d].call = Lists THEN Goto(d, "update")
    ELSE discoveries' = [discoveries EXCEPT ![d] =
             [NoDiscovery EXCEPT !.pc = Request, !.call = discoveries[d].call + 1]]

(* Of initialize an error is recorded, of a list it is logged.              *)
CallFailed(d, error) ==
    IF discoveries[d].call = 0
    THEN discoveries' = [discoveries EXCEPT ![d] =
             [NoDiscovery EXCEPT !.pc = IF error = "reauth" THEN "reauth" ELSE "record"]]
    ELSE AfterCall(d)

MayDiscover == Present /\ (OAuth => conn.oauth = "authorized")

StartDiscover(d) ==
    /\ At(d, "idle")
    /\ MayDiscover
    /\ Goto(d, Request)
    /\ UNCHANGED <<conn, server, authorizations, callbacks, provider, lost, faults>>

NeedsRefresh(s) == IF s.access = "none" THEN s.refresh # 0 ELSE s.access = "stale"

(* The request carries the access token, whatever it is worth.              *)
GoSend(d) == discoveries' = [discoveries EXCEPT ![d].pc = "send", ![d].secret = NoTokens]

LoadAuthSecret(d) ==
    /\ At(d, "load")
    /\ IF Present
       THEN IF NeedsRefresh(conn.secret)
            THEN discoveries' = [discoveries EXCEPT ![d].pc = "refresh", ![d].secret = conn.secret]
            ELSE GoSend(d)
       ELSE CallFailed(d, "error")
    /\ UNCHANGED <<conn, server, authorizations, callbacks, provider, lost, faults>>

RefreshGranted(d) ==
    /\ At(d, "refresh")
    /\ LET old == discoveries[d].secret
           new == IF rotates THEN issued + 1 ELSE old.refresh
       IN /\ old.refresh \in good
          /\ rotates => issued < MaxTokens
          /\ \E s \in TokenResponses(old, new) :
                discoveries' = [discoveries EXCEPT ![d].pc = "save", ![d].secret = s]
          /\ IF rotates THEN issued' = new /\ good' = (good \ {old.refresh}) \cup {new}
             ELSE UNCHANGED <<issued, good>>
    /\ UNCHANGED <<conn, server, authorizations, callbacks, rotates, lost, faults>>

(* A callback or another discovery is going to write refresh token t, or to *)
(* mark the connection authorized.                                          *)
WillBeSaved(d, t) ==
    \/ \E c \in Callbacks : callbacks[c].secret.refresh = t \/ callbacks[c].pc = "authorize"
    \/ \E e \in Discoveries \ {d} : At(e, "save") /\ discoveries[e].secret.refresh = t

MarkFor(d, error) ==
    discoveries' = [discoveries EXCEPT ![d].pc = "mark", ![d].secret = NoTokens, ![d].error = error]

(* The token is not accepted, or the provider ends the grant now.           *)
RefreshRefused(d) ==
    LET t == discoveries[d].secret.refresh
    IN /\ At(d, "refresh") /\ t # 0
       /\ good' = good \ {t}
       /\ lost' = (lost \/ (t \in good /\ WillBeSaved(d, t)))
       /\ MarkFor(d, "reauth")
       /\ UNCHANGED <<conn, server, authorizations, callbacks, rotates, issued, faults>>

(* There is no refresh token, or no answer arrives, be it that the provider *)
(* has rotated the token.                                                   *)
RefreshFails(d) ==
    /\ At(d, "refresh")
    /\ MarkFor(d, "error")
    /\ \/ discoveries[d].secret.refresh = 0 /\ UNCHANGED <<good, lost, faults>>
       \/ /\ Fault
          /\ \/ UNCHANGED <<good, lost>>
             \/ rotates /\ good' = good \ {discoveries[d].secret.refresh} /\ lost' = TRUE
    /\ UNCHANGED <<conn, server, authorizations, callbacks, rotates, issued>>

(* On any error of the refresh, whatever the row holds by now.              *)
MarkOAuthStatus(d) ==
    /\ At(d, "mark")
    /\ conn' = IF Present THEN [conn EXCEPT !.oauth = "needs_reauth"] ELSE conn
    /\ CallFailed(d, discoveries[d].error)
    /\ UNCHANGED <<server, authorizations, callbacks, provider, lost, faults>>

(* Mutant of SaveAuthSecret: what was refreshed is used and not saved.      *)
KeepAuthSecret(d) ==
    /\ At(d, "save")
    /\ GoSend(d)
    /\ UNCHANGED <<conn, server, authorizations, callbacks, provider, lost, faults>>

SaveAuthSecret(d) ==
    /\ At(d, "save")
    /\ IF Present
       THEN conn' = [conn EXCEPT !.secret = discoveries[d].secret] /\ GoSend(d)
       ELSE UNCHANGED conn /\ CallFailed(d, "error")
    /\ UNCHANGED <<server, authorizations, callbacks, provider, lost, faults>>

SaveFails(d) ==
    /\ At(d, "save")
    /\ Fault
    /\ lost' = TRUE
    /\ CallFailed(d, "error")
    /\ UNCHANGED <<conn, server, authorizations, callbacks, provider>>

(* The MCP server answers, refuses the credentials (401, 403) or fails.     *)
Send(d) ==
    /\ At(d, "send")
    /\ \/ IF discoveries[d].call = 0 THEN Goto(d, "upsert") ELSE AfterCall(d)
       \/ CallFailed(d, "error")
    /\ UNCHANGED <<conn, server, authorizations, callbacks, provider, lost, faults>>

(* Mutant of UpsertMCPServer: without the foreign key.                      *)
UpsertMCPServerAnyway(d) ==
    /\ At(d, "upsert")
    /\ server' = TRUE
    /\ AfterCall(d)
    /\ UNCHANGED <<conn, authorizations, callbacks, provider, lost, faults>>

(* The insert fails on its foreign key once the connection is deleted.      *)
UpsertMCPServer(d) ==
    /\ At(d, "upsert")
    /\ IF Present
       THEN server' = TRUE /\ AfterCall(d)
       ELSE UNCHANGED server /\ CallFailed(d, "error")
    /\ UNCHANGED <<conn, authorizations, callbacks, provider, lost, faults>>

(* recordError, of a refusal by the provider: UpdateOAuthStatus ...         *)
RecordReauth(d) ==
    /\ At(d, "reauth")
    /\ conn' = IF Present THEN [conn EXCEPT !.oauth = "needs_reauth"] ELSE conn
    /\ Goto(d, "record")
    /\ UNCHANGED <<server, authorizations, callbacks, provider, lost, faults>>

(* Mutant of RecordError: the error is stored, the status left as it was.   *)
RecordErrorOnly(d) ==
    /\ At(d, "record")
    /\ EndDiscovery(d)
    /\ UNCHANGED <<conn, server, authorizations, callbacks, provider, lost, faults>>

(* ... and UpdateAfterDiscovery.                                           *)
RecordError(d) ==
    /\ At(d, "record")
    /\ conn' = IF Present
               THEN [conn EXCEPT !.status = "error"] ELSE conn
    /\ EndDiscovery(d)
    /\ UNCHANGED <<server, authorizations, callbacks, provider, lost, faults>>

UpdateAfterDiscovery(d) ==
    /\ At(d, "update")
    /\ conn' = IF Present THEN [conn EXCEPT !.status = "healthy"] ELSE conn
    /\ EndDiscovery(d)
    /\ UNCHANGED <<server, authorizations, callbacks, provider, lost, faults>>

(* The server or the token endpoint does not answer in the discovery's time *)
(* (30 seconds of a tick, 8 of a request to the console).  The client's own *)
(* timer (30 seconds) starts later, so the time is up for what is left too: *)
(* recordError, MarkOAuthStatus and UpdateAfterDiscovery write nothing.     *)
DiscoverHangs(d) ==
    /\ \/ At(d, "send") /\ UNCHANGED <<good, lost>>
       \/ /\ At(d, "refresh") /\ discoveries[d].secret.refresh # 0
          /\ \/ UNCHANGED <<good, lost>>
             \/ rotates /\ good' = good \ {discoveries[d].secret.refresh} /\ lost' = TRUE
    /\ EndDiscovery(d)
    /\ UNCHANGED <<conn, server, authorizations, callbacks, rotates, issued, faults>>

(* A statement fails, the request is cancelled or the process stops: all    *)
(* the statements that are left fail with it.                               *)
DiscoverFails(d) ==
    /\ ~At(d, "idle")
    /\ Fault
    /\ lost' = (lost \/ At(d, "save") \/ At(d, "mark"))
    /\ EndDiscovery(d)
    /\ UNCHANGED <<conn, server, authorizations, callbacks, provider>>

-----------------------------------------------------------------------------
Console == CreateConnection \/ DeleteConnection \/ StartAuthorize

CallbackStep(c) ==
    \/ TakeOAuthState(c)
    \/ GetWithSecret(c) \/ ExchangeCode(c) \/ SaveTokens(c) \/ Authorize(c) \/ RefuseCallback(c)

Refresh(d) == RefreshGranted(d) \/ RefreshRefused(d) \/ RefreshFails(d)

DiscoverStep(d) ==
    \/ LoadAuthSecret(d) \/ Refresh(d) \/ MarkOAuthStatus(d) \/ SaveAuthSecret(d)
    \/ Send(d) \/ UpsertMCPServer(d) \/ DiscoverHangs(d)
    \/ RecordReauth(d) \/ RecordError(d) \/ UpdateAfterDiscovery(d)

Next ==
    \/ Console \/ ExpireAccess
    \/ \E c \in Callbacks : CallbackStep(c) \/ CallbackFails(c)
    \/ \E d \in Discoveries : StartDiscover(d) \/ DiscoverStep(d) \/ SaveFails(d) \/ DiscoverFails(d)

Spec == Init /\ [][Next]_vars

(* A tick discovers the connection as long as it is due, and a discovery    *)
(* goes on or its time is up (DiscoverHangs).  Nothing says that a server   *)
(* ever answers.                                                            *)
FairSpec == Spec /\ \A d \in Discoveries : WF_vars(StartDiscover(d) \/ DiscoverStep(d))

-----------------------------------------------------------------------------
(* Types, and what the foreign keys keep: a deleted connection leaves no    *)
(* server and no authorization under way, although discoveries and          *)
(* callbacks of it may be running.                                          *)
TypeOK ==
    /\ conn \in ConnRow
    /\ server \in BOOLEAN
    /\ states \in 0..starts /\ starts \in 0..MaxStarts
    /\ discoveries \in [Discoveries -> Discovery]
    /\ callbacks \in [Callbacks -> Callback]
    /\ rotates \in BOOLEAN /\ lost \in BOOLEAN
    /\ good \subseteq 1..issued /\ issued \in 0..MaxTokens
    /\ faults \in 0..MaxFaults
    /\ ~Present => ~server /\ states = 0
    /\ Present /\ conn.status = "healthy" => server

(* Refresh tokens that rotate survive overlapping read-change-writes of the *)
(* secret: with nothing under way, an authorized connection holds one that  *)
(* the provider accepts.  Lost are those of a request cut off between the   *)
(* provider's answer and the row, those of a callback answered without one, *)
(* and those revoked while a callback or a refresh was at work on them.     *)
AuthorizedCanRefresh ==
    /\ Present /\ conn.oauth = "authorized" /\ conn.secret.refresh # 0
    /\ \A d \in Discoveries : At(d, "idle")
    /\ \A c \in Callbacks : callbacks[c].pc = "idle"
    => lost \/ conn.secret.refresh \in good

(* What may be discovered does not stay pending: once the failures are over *)
(* a result is recorded, or it needs a new authorization, unless discovery  *)
(* after discovery waits for an answer until its time is up.  Then nothing  *)
(* is ever recorded, the error included.                                    *)
PendingIsResolved ==
    <>[][\A d \in Discoveries : ~DiscoverHangs(d)]_vars =>
        (MayDiscover /\ conn.status = "pending" ~> ~MayDiscover \/ conn.status # "pending")

=============================================================================
