----------------------------- MODULE Enrollment -----------------------------
(***************************************************************************)
(* How a shim becomes a gateway of the control plane and stops being one:  *)
(* enrollment tokens, gateway credentials, the first heartbeat that makes  *)
(* a claim final, and revocation.                                          *)
(*                                                                         *)
(* A gateway has tokens (one at its creation, more when enrollment is      *)
(* reissued).  A shim process with a token in its environment and no       *)
(* credential on its disk registers: it claims the token and gets a        *)
(* credential, which it writes to its disk before the first heartbeat.  It *)
(* is run with --restart unless-stopped: whenever it exits it starts over  *)
(* with the same token and the same disk.                                  *)
(*                                                                         *)
(* The control plane serves requests concurrently.  A claim runs in slot k *)
(* of ClaimSlot as one READ COMMITTED transaction: two selects, then the   *)
(* writes, which take effect together at the commit, whatever has been     *)
(* committed since the selects.  A request with a credential runs in slot  *)
(* b of BearerSlot: gatewayBearer authenticates it, then makes two updates *)
(* whose errors it ignores.  A request outlives the process that sent it.  *)
(*                                                                         *)
(* Every claim after a process's first needs a fault before it (a crash, a *)
(* lost reply), so MaxFaults bounds the credentials too.                   *)
(***************************************************************************)
EXTENDS Integers, FiniteSets

CONSTANTS Process, Gateway, Token, Cred, ClaimSlot, BearerSlot, MaxFaults, None

ASSUME NoneAssumption ==
    None \notin Process \cup Gateway \cup Token \cup Cred
ASSUME CredAssumption == Cred \subseteq Int
ASSUME FaultAssumption == MaxFaults \in Nat

VARIABLES
    gateways,   \* gateways: status and whether last_seen_at is set
    tokens,     \* gateway_enrollment_tokens
    creds,      \* gateway_credentials; from and used are history
    shim,       \* the shim processes
    claims,     \* the claims being served
    requests,   \* the requests with a credential being served
    faults      \* faults so far

vars == <<gateways, tokens, creds, shim, claims, requests, faults>>

GatewayRow == [status: {"absent", "pending", "online", "revoked"}, seen: BOOLEAN]
TokenRow == [gateway: Gateway \cup {None}, expired: BOOLEAN, claimed: BOOLEAN,
             pending: BOOLEAN, cred: Cred \cup {None}]
\* from is the token whose claim made the credential; used says that a request
\* with it has got further than authentication.  The database has neither.
CredRow == [gateway: Gateway \cup {None}, revoked: BOOLEAN,
            from: Token \cup {None}, used: BOOLEAN]
\* cred is the credential in memory, disk the one in the state directory.
ShimState == [pc: {"absent", "start", "registering", "writing", "running",
                   "waiting"},
              token: Token \cup {None}, cred: Cred \cup {None},
              disk: Cred \cup {None}]
\* pending and cred are what the claim has read of the token row; late is
\* history: the token had led to a heartbeat when the claim read it.
Claim == [stage: {"free", "sent", "token", "gateway", "granted", "refused",
                  "failed"},
          client: Process \cup {None}, token: Token \cup {None},
          pending: BOOLEAN, cred: Cred \cup {None}, late: BOOLEAN]
Request == [stage: {"free", "sent", "touch", "commit", "answered"},
            client: Process \cup {None}, cred: Cred \cup {None}]

NoClaim == [stage |-> "free", client |-> None, token |-> None,
            pending |-> FALSE, cred |-> None, late |-> FALSE]
NoRequest == [stage |-> "free", client |-> None, cred |-> None]

(* The types; tokens, credentials and requests name rows there are.         *)
TypeOK ==
    /\ gateways \in [Gateway -> GatewayRow]
    /\ tokens \in [Token -> TokenRow]
    /\ creds \in [Cred -> CredRow]
    /\ shim \in [Process -> ShimState]
    /\ claims \in [ClaimSlot -> Claim]
    /\ requests \in [BearerSlot -> Request]
    /\ faults \in 0..MaxFaults

Init ==
    /\ gateways = [g \in Gateway |-> [status |-> "absent", seen |-> FALSE]]
    /\ tokens = [t \in Token |-> [gateway |-> None, expired |-> FALSE,
                                  claimed |-> FALSE, pending |-> FALSE,
                                  cred |-> None]]
    /\ creds = [c \in Cred |-> [gateway |-> None, revoked |-> FALSE,
                                from |-> None, used |-> FALSE]]
    /\ shim = [p \in Process |-> [pc |-> "absent", token |-> None,
                                  cred |-> None, disk |-> None]]
    /\ claims = [k \in ClaimSlot |-> NoClaim]
    /\ requests = [b \in BearerSlot |-> NoRequest]
    /\ faults = 0

Fault ==
    /\ faults < MaxFaults
    /\ faults' = faults + 1

Revoked(g) == gateways[g].status = "revoked"

-----------------------------------------------------------------------------
(* The console.                                                            *)

\* Mutant: a row from before migration 00006, with no pending column.
NewTokenWithoutPending(g) ==
    [gateway |-> g, expired |-> FALSE, claimed |-> FALSE, cred |-> None]

NewToken(g) == [gateway |-> g, expired |-> FALSE, claimed |-> FALSE,
                pending |-> FALSE, cred |-> None]

\* Two inserts.  If the second fails the gateway stays, without a token.
CreateGateway(g, t) ==
    /\ gateways[g].status = "absent"
    /\ tokens[t].gateway = None
    /\ gateways' = [gateways EXCEPT ![g].status = "pending"]
    /\ \/ /\ tokens' = [tokens EXCEPT ![t] = NewToken(g)]
          /\ UNCHANGED faults
       \/ /\ Fault
          /\ UNCHANGED tokens
    /\ UNCHANGED <<creds, shim, claims, requests>>

\* Any gateway that exists gets one more token; the others stay valid.
ReissueEnrollment(g, t) ==
    /\ gateways[g].status # "absent"
    /\ tokens[t].gateway = None
    /\ tokens' = [tokens EXCEPT ![t] = NewToken(g)]
    /\ UNCHANGED <<gateways, creds, shim, claims, requests, faults>>

\* One transaction.
Revoke(g) ==
    /\ gateways[g].status # "absent"
    /\ gateways' = [gateways EXCEPT ![g].status = "revoked"]
    /\ creds' = [c \in Cred |-> IF creds[c].gateway = g
                                THEN [creds[c] EXCEPT !.revoked = TRUE]
                                ELSE creds[c]]
    /\ UNCHANGED <<tokens, shim, claims, requests, faults>>

ExpireToken(t) ==
    /\ tokens[t].gateway # None
    /\ tokens' = [tokens EXCEPT ![t].expired = TRUE]
    /\ UNCHANGED <<gateways, creds, shim, claims, requests, faults>>

-----------------------------------------------------------------------------
(* The shim process.                                                       *)

\* Somebody runs the install command with token t.
Install(p, t) ==
    /\ shim[p].pc = "absent"
    /\ tokens[t].gateway # None
    /\ shim' = [shim EXCEPT ![p] = [@ EXCEPT !.pc = "start", !.token = t]]
    /\ UNCHANGED <<gateways, tokens, creds, claims, requests, faults>>

\* ensureCredential prefers the credential on the disk, whatever it is worth.
StartEnrolled(p) ==
    /\ shim[p].pc = "start"
    /\ shim[p].disk # None
    /\ shim' = [shim EXCEPT ![p] =
            [@ EXCEPT !.pc = "running", !.cred = shim[p].disk]]
    /\ UNCHANGED <<gateways, tokens, creds, claims, requests, faults>>

Register(p, k) ==
    /\ shim[p].pc = "start"
    /\ shim[p].disk = None
    /\ claims[k].stage = "free"
    /\ shim' = [shim EXCEPT ![p] = [@ EXCEPT !.pc = "registering"]]
    /\ claims' = [claims EXCEPT ![k] = [NoClaim EXCEPT !.stage = "sent",
                                                       !.client = p,
                                                       !.token = shim[p].token]]
    /\ UNCHANGED <<gateways, tokens, creds, requests, faults>>

WriteCredential(p) ==
    /\ shim[p].pc = "writing"
    /\ shim' = [shim EXCEPT ![p] =
            [@ EXCEPT !.pc = "running", !.disk = shim[p].cred]]
    /\ UNCHANGED <<gateways, tokens, creds, claims, requests, faults>>

\* A heartbeat or a post of observations.
SendRequest(p, b) ==
    /\ shim[p].pc = "running"
    /\ requests[b].stage = "free"
    /\ shim' = [shim EXCEPT ![p] = [@ EXCEPT !.pc = "waiting"]]
    /\ requests' = [requests EXCEPT ![b] = [stage |-> "sent", client |-> p,
                                            cred |-> shim[p].cred]]
    /\ UNCHANGED <<gateways, tokens, creds, claims, faults>>

\* The process exits and is restarted; what it asked for is still being served.
Crash(p) ==
    /\ shim[p].pc # "absent"
    /\ Fault
    /\ shim' = [shim EXCEPT ![p] = [@ EXCEPT !.pc = "start", !.cred = None]]
    /\ claims' = [k \in ClaimSlot |-> IF claims[k].client = p
                                      THEN [claims[k] EXCEPT !.client = None]
                                      ELSE claims[k]]
    /\ requests' = [b \in BearerSlot |-> IF requests[b].client = p
                                         THEN [requests[b] EXCEPT !.client = None]
                                         ELSE requests[b]]
    /\ UNCHANGED <<gateways, tokens, creds>>

-----------------------------------------------------------------------------
(* Claims: ClaimEnrollmentToken in slot k.                                 *)

tokenOf(k) == tokens[claims[k].token]

\* The token has led to a heartbeat that left a trace in the database.
LedToHeartbeat(t) == \E c \in Cred : creds[c].from = t /\ creds[c].used

\* Credentials are numbered in the order they are minted in: nothing depends
\* on which one it is.
NextCred(c) ==
    /\ creds[c].gateway = None
    /\ \A d \in Cred : creds[d].gateway = None => c <= d

\* The first select.
ReadToken(k) ==
    /\ claims[k].stage = "sent"
    /\ claims' = [claims EXCEPT ![k] =
         IF tokenOf(k).claimed \/ tokenOf(k).expired
         THEN [@ EXCEPT !.stage = "refused"]
         ELSE [@ EXCEPT !.stage = "token",
                        !.pending = tokenOf(k).pending,
                        !.cred = tokenOf(k).cred,
                        !.late = LedToHeartbeat(claims[k].token)]]
    /\ UNCHANGED <<gateways, tokens, creds, shim, requests, faults>>

\* Mutant: no check of last_seen_at.
ReadGatewayStatus(k) ==
    /\ claims[k].stage = "token"
    /\ claims' = [claims EXCEPT ![k].stage =
         IF Revoked(tokenOf(k).gateway) THEN "refused" ELSE "gateway"]
    /\ UNCHANGED <<gateways, tokens, creds, shim, requests, faults>>

\* Mutant: a token is pending for one claim only.
ReadGatewayOnce(k) ==
    /\ claims[k].stage = "token"
    /\ claims' = [claims EXCEPT ![k].stage =
         IF Revoked(tokenOf(k).gateway) \/ claims[k].pending
         THEN "refused" ELSE "gateway"]
    /\ UNCHANGED <<gateways, tokens, creds, shim, requests, faults>>

\* The second select.
ReadGateway(k) ==
    /\ claims[k].stage = "token"
    /\ claims' = [claims EXCEPT ![k].stage =
         IF \/ Revoked(tokenOf(k).gateway)
            \/ claims[k].pending /\ gateways[tokenOf(k).gateway].seen
         THEN "refused" ELSE "gateway"]
    /\ UNCHANGED <<gateways, tokens, creds, shim, requests, faults>>

\* Mutant: the abandoned credential stays valid.
CommitClaimKeepingOld(k) ==
    /\ claims[k].stage = "gateway"
    /\ \E c \in Cred :
         /\ NextCred(c)
         /\ creds' = [creds EXCEPT ![c].gateway = tokenOf(k).gateway,
                                   ![c].from = claims[k].token]
         /\ tokens' = [tokens EXCEPT ![claims[k].token].pending = TRUE,
                                     ![claims[k].token].cred = c]
         /\ claims' = [claims EXCEPT ![k] =
                 [@ EXCEPT !.stage = "granted", !.cred = c]]
    /\ UNCHANGED <<gateways, shim, requests, faults>>

\* The writes: the credential the claim has read of is revoked, a new one is
\* minted, the token becomes (or stays) pending.  claimed_at is left alone.
CommitClaim(k) ==
    LET abandoned == IF claims[k].pending THEN claims[k].cred ELSE None IN
    /\ claims[k].stage = "gateway"
    /\ \E c \in Cred :
         /\ NextCred(c)
         /\ creds' = [d \in Cred |->
              IF d = c THEN [creds[d] EXCEPT !.gateway = tokenOf(k).gateway,
                                             !.from = claims[k].token]
              ELSE IF d = abandoned THEN [creds[d] EXCEPT !.revoked = TRUE]
              ELSE creds[d]]
         /\ tokens' = [tokens EXCEPT ![claims[k].token].pending = TRUE,
                                     ![claims[k].token].cred = c]
         /\ claims' = [claims EXCEPT ![k] =
                 [@ EXCEPT !.stage = "granted", !.cred = c]]
    /\ UNCHANGED <<gateways, shim, requests, faults>>

\* A statement or the commit fails: the transaction rolls back, the answer is 500.
ClaimFails(k) ==
    /\ claims[k].stage \in {"sent", "token", "gateway"}
    /\ Fault
    /\ claims' = [claims EXCEPT ![k] = [@ EXCEPT !.stage = "failed"]]
    /\ UNCHANGED <<gateways, tokens, creds, shim, requests>>

\* The reply reaches the process, if it still waits.  Anything but a
\* credential ends it, and it is restarted.
EndClaim(k, pc, c) ==
    LET p == claims[k].client IN
    /\ claims' = [claims EXCEPT ![k] = NoClaim]
    /\ shim' = IF p = None THEN shim
               ELSE [shim EXCEPT ![p] = [@ EXCEPT !.pc = pc, !.cred = c]]
    /\ UNCHANGED <<gateways, tokens, creds, requests>>

ReplyClaim(k) ==
    /\ \/ claims[k].stage = "granted" /\ EndClaim(k, "writing", claims[k].cred)
       \/ claims[k].stage \in {"refused", "failed"} /\ EndClaim(k, "start", None)
    /\ UNCHANGED faults

LoseClaimReply(k) ==
    /\ claims[k].stage = "granted"
    /\ EndClaim(k, "start", None)
    /\ Fault

-----------------------------------------------------------------------------
(* Requests with a credential: gatewayBearer in slot b.                    *)

credOf(b) == creds[requests[b].cred]

\* One query; 401 ends the request.
AuthenticateCredential(b) ==
    /\ requests[b].stage = "sent"
    /\ requests' = [requests EXCEPT ![b].stage =
         IF credOf(b).revoked \/ Revoked(credOf(b).gateway)
         THEN "answered" ELSE "touch"]
    /\ UNCHANGED <<gateways, tokens, creds, shim, claims, faults>>

\* Mutant: the status the request was authenticated under is taken to hold.
TouchSeenAnyway(b) ==
    /\ requests[b].stage = "touch"
    /\ requests' = [requests EXCEPT ![b] = [@ EXCEPT !.stage = "commit"]]
    /\ gateways' = [gateways EXCEPT ![credOf(b).gateway] =
                      [status |-> "online", seen |-> TRUE]]
    /\ creds' = [creds EXCEPT ![requests[b].cred].used = TRUE]
    /\ UNCHANGED <<tokens, shim, claims, faults>>


TouchSeen(b) ==
    /\ requests[b].stage = "touch"
    /\ requests' = [requests EXCEPT ![b] = [@ EXCEPT !.stage = "commit"]]
    /\ \/ /\ ~Revoked(credOf(b).gateway)
          /\ gateways' = [gateways EXCEPT ![credOf(b).gateway] =
                            [status |-> "online", seen |-> TRUE]]
          /\ creds' = [creds EXCEPT ![requests[b].cred].used = TRUE]
          /\ UNCHANGED faults
       \/ /\ Revoked(credOf(b).gateway)
          /\ UNCHANGED <<gateways, creds, faults>>
       \/ /\ Fault
          /\ UNCHANGED <<gateways, creds>>
    /\ UNCHANGED <<tokens, shim, claims>>

\* Every pending token of the gateway becomes final.
CommitEnrollmentOnHeartbeat(b) ==
    /\ requests[b].stage = "commit"
    /\ requests' = [requests EXCEPT ![b] = [@ EXCEPT !.stage = "answered"]]
    /\ \/ /\ tokens' = [t \in Token |->
               IF /\ tokens[t].pending
                  /\ tokens[t].cred # None
                  /\ creds[tokens[t].cred].gateway = credOf(b).gateway
               THEN [tokens[t] EXCEPT !.claimed = TRUE, !.pending = FALSE]
               ELSE tokens[t]]
          /\ creds' = [creds EXCEPT ![requests[b].cred].used = TRUE]
          /\ UNCHANGED faults
       \/ /\ Fault
          /\ UNCHANGED <<tokens, creds>>
    /\ UNCHANGED <<gateways, shim, claims>>

\* Whatever the answer, the process logs it and waits for its next tick.
Answer(b) ==
    LET p == requests[b].client IN
    /\ requests[b].stage = "answered"
    /\ requests' = [requests EXCEPT ![b] = NoRequest]
    /\ shim' = IF p = None THEN shim ELSE [shim EXCEPT ![p] =
            [@ EXCEPT !.pc = "running"]]
    /\ UNCHANGED <<gateways, tokens, creds, claims, faults>>

-----------------------------------------------------------------------------
Console ==
    \/ \E g \in Gateway, t \in Token : CreateGateway(g, t) \/ ReissueEnrollment(g, t)
    \/ \E g \in Gateway : Revoke(g)
    \/ \E t \in Token : ExpireToken(t)
    \/ \E p \in Process, t \in Token : Install(p, t)

ShimStep(p) ==
    \/ StartEnrolled(p)
    \/ \E k \in ClaimSlot : Register(p, k)
    \/ WriteCredential(p)
    \/ \E b \in BearerSlot : SendRequest(p, b)

ClaimStep(k) == ReadToken(k) \/ ReadGateway(k) \/ CommitClaim(k) \/ ReplyClaim(k)

BearerStep(b) ==
    \/ AuthenticateCredential(b)
    \/ TouchSeen(b)
    \/ CommitEnrollmentOnHeartbeat(b)
    \/ Answer(b)

Failure ==
    \/ \E p \in Process : Crash(p)
    \/ \E k \in ClaimSlot : ClaimFails(k) \/ LoseClaimReply(k)

Next ==
    \/ Console
    \/ \E p \in Process : ShimStep(p)
    \/ \E k \in ClaimSlot : ClaimStep(k)
    \/ \E b \in BearerSlot : BearerStep(b)
    \/ Failure

Spec == Init /\ [][Next]_vars

(* A process that can go on does (the restart policy and its ticker see to *)
(* it), and so does a request being served.  Nobody must use the console.  *)
(* A process may need strong fairness to send: the server takes any number *)
(* of requests, it is the slots of the model that others keep busy.        *)
FairSpec ==
    /\ Spec
    /\ \A p \in Process : SF_vars(ShimStep(p))
    /\ \A k \in ClaimSlot : WF_vars(ClaimStep(k))
    /\ \A b \in BearerSlot : WF_vars(BearerStep(b))

-----------------------------------------------------------------------------
(* Correctness.                                                            *)

(* A revoked gateway stays revoked, although a request that authenticated  *)
(* before the revocation marks its gateway online after it.                *)
RevocationIsFinal ==
    [][\A g \in Gateway : Revoked(g) => Revoked(g)']_vars

(* No request is let in for a revoked gateway, although a claim that read  *)
(* the gateway before the revocation mints a credential after it that      *)
(* nobody revokes.                                                         *)
RevokedStaysOut ==
    [][\A b \in BearerSlot :
         requests[b].stage = "sent" /\ requests'[b].stage = "touch"
           => ~Revoked(credOf(b).gateway)]_vars

(* Revoking a gateway is final, in the table and for its requests.         *)
RevocationHolds == RevocationIsFinal /\ RevokedStaysOut

(* A claim that finds its token after a heartbeat with a credential of it  *)
(* gets nothing, even if the heartbeat has not made the token final yet or *)
(* its attempt to has failed: a credential in use is not replaced.         *)
NoClaimAfterHeartbeat ==
    \A k \in ClaimSlot : claims[k].stage \in {"gateway", "granted"} => ~claims[k].late

(* A token has one valid credential at most.  Holds if its claims do not   *)
(* overlap, whatever else does.                                            *)
LiveCreds(t) == {c \in Cred : creds[c].from = t /\ ~creds[c].revoked}
OneLiveCredential ==
    \A t \in Token : Cardinality(LiveCreds(t)) <= 1

GatewayRevoked(t) == \E g \in Gateway : tokens[t].gateway = g /\ Revoked(g)

Void(t) == tokens[t].expired \/ GatewayRevoked(t) \/ LedToHeartbeat(t)

\* The credential of token t has got lost on its way to a disk when another
\* token of the gateway has led to a heartbeat: ReadGateway refuses the retry.
Stranded(t) ==
    /\ \E g \in Gateway : tokens[t].gateway = g /\ gateways[g].seen
    /\ tokens[t].cred # None
    /\ \A p \in Process : tokens[t].cred \notin {shim[p].cred, shim[p].disk}
    /\ \A k \in ClaimSlot : claims[k].token # t

(* An install comes to have a credential on its disk, whatever crashes or  *)
(* gets lost before that, unless its token expires or has led to a         *)
(* heartbeat already (of another install), or its gateway is revoked, or   *)
(* the credential of a token issued anew for a gateway that has been seen  *)
(* gets lost before it is on a disk.                                       *)
InstallCompletes ==
    \A p \in Process, t \in Token :
        shim[p].pc = "start" /\ shim[p].token = t
          ~> shim[p].disk # None \/ Void(t) \/ Stranded(t)

=============================================================================
