-------------------------- MODULE EnrollmentProofs --------------------------
(***************************************************************************)
(* Proofs about Enrollment, for every set of processes, gateways, tokens,  *)
(* credentials and slots, and any number of faults.                        *)
(*                                                                         *)
(* That no claim follows a heartbeat (NoClaimAfterHeartbeat) rests on what *)
(* a heartbeat leaves behind (TraceOK): its gateway is seen, or its token  *)
(* is claimed.  Which of the two depends on the update that failed, so a   *)
(* claim must look at both, and it does: at claimed in the first select,   *)
(* at pending and last_seen_at in the two together.  That it is then       *)
(* pending is PendingOK: a token with a credential is claimed or pending.  *)
(*                                                                         *)
(* The last part is about a token's claims when they do not overlap        *)
(* (ClaimsApart): what a claim has read of its token then still holds when *)
(* it commits, so it revokes the one credential that is live (LiveInv).    *)
(***************************************************************************)
EXTENDS Enrollment, FiniteSetTheorems, TLAPS

\* A credential belongs to the gateway of the token it was claimed with.
OriginOK ==
    \A c \in Cred :
        /\ creds[c].gateway = None => creds[c].from = None
        /\ creds[c].from # None =>
             /\ creds[c].gateway \in Gateway
             /\ tokens[creds[c].from].gateway = creds[c].gateway

\* A token with a credential is claimed, or pending with one.
PendingOK ==
    \A c \in Cred : creds[c].from # None =>
        LET t == tokens[creds[c].from] IN
        \/ t.claimed
        \/ t.pending /\ t.cred \in Cred /\ creds[t.cred].gateway = t.gateway

\* What a heartbeat leaves behind.
TraceOK ==
    \A c \in Cred : creds[c].used =>
        /\ creds[c].from # None
        /\ tokens[creds[c].from].claimed \/ gateways[creds[c].gateway].seen

\* What the database owes to a process, a claim and a request.
GoodShim(r) ==
    /\ r.pc # "absent" =>
         r.token \in Token /\ tokens[r.token].gateway \in Gateway
    /\ r.pc \in {"writing", "running", "waiting"} =>
         r.cred \in Cred /\ creds[r.cred].from # None
    /\ r.disk # None => creds[r.disk].from # None

GoodClaim(r) ==
    /\ r.stage # "free" =>
         r.token \in Token /\ tokens[r.token].gateway \in Gateway
    /\ r.stage = "granted" => r.cred \in Cred /\ creds[r.cred].from # None
    /\ r.stage = "token" /\ r.late =>
         r.pending /\ gateways[tokens[r.token].gateway].seen
    /\ r.stage \in {"gateway", "granted"} => ~r.late

GoodRequest(r) ==
    r.stage # "free" => r.cred \in Cred /\ creds[r.cred].from # None

ShimOK    == \A p \in Process : GoodShim(shim[p])
ClaimOK   == \A k \in ClaimSlot : GoodClaim(claims[k])
RequestOK == \A b \in BearerSlot : GoodRequest(requests[b])

\* A process waits for one claim or one request at a time, in that state.
ClientOK ==
    /\ \A k \in ClaimSlot : claims[k].client # None =>
         /\ shim[claims[k].client].pc = "registering"
         /\ \A j \in ClaimSlot : claims[j].client = claims[k].client => j = k
    /\ \A b \in BearerSlot : requests[b].client # None =>
         /\ shim[requests[b].client].pc = "waiting"
         /\ \A a \in BearerSlot : requests[a].client = requests[b].client => a = b

IInv ==
    /\ TypeOK
    /\ OriginOK
    /\ PendingOK
    /\ TraceOK
    /\ ShimOK
    /\ ClaimOK
    /\ RequestOK
    /\ ClientOK

-----------------------------------------------------------------------------
(* The records the code starts from.                                       *)

(* A new token is one.                                                     *)
LEMMA NewTokenType ==
    ASSUME NEW g \in Gateway
    PROVE  /\ NewToken(g) \in TokenRow
           /\ NewToken(g).gateway = g
BY DEF NewToken, TokenRow

(* Free slots are slots.                                                   *)
LEMMA FreeTypes == NoClaim \in Claim /\ NoRequest \in Request
BY DEF NoClaim, NoRequest, Claim, Request

(* The invariant holds initially.                                          *)
LEMMA InvInit == Init => IInv
<1> SUFFICES ASSUME Init PROVE IInv
  OBVIOUS
<1>1. TypeOK
  BY FreeTypes, FaultAssumption
     DEF Init, TypeOK, GatewayRow, TokenRow, CredRow, ShimState
<1>2. OriginOK /\ PendingOK /\ TraceOK
  BY DEF Init, OriginOK, PendingOK, TraceOK
<1>3. ShimOK /\ ClaimOK /\ RequestOK
  BY DEF Init, ShimOK, GoodShim, ClaimOK, GoodClaim, RequestOK, GoodRequest,
         NoClaim, NoRequest
<1>4. ClientOK
  BY DEF Init, ClientOK, NoClaim, NoRequest
<1>5. QED
  BY <1>1, <1>2, <1>3, <1>4 DEF IInv

-----------------------------------------------------------------------------
(* Steps that change the database only.                                    *)

(* Rows are never taken back: a token keeps its gateway, a credential its  *)
(* origin, a gateway that was seen has been seen.                          *)
RowsStay ==
    /\ \A t \in Token : tokens[t].gateway \in Gateway =>
                           tokens'[t].gateway = tokens[t].gateway
    /\ \A c \in Cred : creds[c].from # None => creds'[c].from = creds[c].from
    /\ \A g \in Gateway : gateways[g].seen => gateways'[g].seen

(* A step leaves every process, claim and request good if it changes at    *)
(* most one of each, to a good one.                                        *)
LEMMA GoodStep ==
    ASSUME IInv, RowsStay,
           shim' \in [Process -> ShimState], claims' \in [ClaimSlot -> Claim],
           requests' \in [BearerSlot -> Request],
           \A p \in Process : shim'[p] = shim[p] \/ GoodShim(shim[p])',
           \A k \in ClaimSlot : claims'[k] = claims[k] \/ GoodClaim(claims[k])',
           \A b \in BearerSlot :
               requests'[b] = requests[b] \/ GoodRequest(requests[b])'
    PROVE  (ShimOK /\ ClaimOK /\ RequestOK)'
<1>1. ShimOK'
  BY DEF IInv, TypeOK, ShimOK, GoodShim, RowsStay, ShimState
<1>2. ClaimOK'
  BY DEF IInv, TypeOK, ClaimOK, GoodClaim, RowsStay
<1>3. RequestOK'
  BY DEF IInv, TypeOK, RequestOK, GoodRequest, RowsStay
<1>4. QED
  BY <1>1, <1>2, <1>3

(* A token row that was none becomes a new one.  Nothing refers to it yet. *)
LEMMA NewTokenInv ==
    ASSUME IInv, NEW g \in Gateway, NEW t \in Token, tokens[t].gateway = None,
           tokens' = [tokens EXCEPT ![t] = NewToken(g)],
           gateways' \in [Gateway -> GatewayRow],
           \A h \in Gateway : gateways'[h].seen = gateways[h].seen,
           faults' \in 0..MaxFaults,
           UNCHANGED <<creds, shim, claims, requests>>
    PROVE  IInv'
<1>1. TypeOK'
  BY NewTokenType DEF IInv, TypeOK
<1>2. \A u \in Token : tokens[u].gateway # None => tokens'[u] = tokens[u]
  BY DEF IInv, TypeOK
<1>3. None \notin Gateway
  BY NoneAssumption
<1>4. OriginOK'
  BY <1>2, <1>3 DEF IInv, TypeOK, OriginOK, CredRow
<1>5. PendingOK'
  BY <1>2, <1>3 DEF IInv, TypeOK, OriginOK, PendingOK, CredRow
<1>6. TraceOK'
  BY <1>2, <1>3 DEF IInv, TypeOK, OriginOK, TraceOK, CredRow
<1>7. RowsStay
  BY <1>2, <1>3 DEF RowsStay
<1>8. (ShimOK /\ ClaimOK /\ RequestOK)'
  BY <1>1, <1>7, GoodStep DEF TypeOK
<1>9. ClientOK'
  BY DEF IInv, ClientOK
<1>10. QED
  BY <1>1, <1>4, <1>5, <1>6, <1>8, <1>9 DEF IInv

(* A fault is counted within its bound.                                    *)
LEMMA FaultType ==
    ASSUME faults \in 0..MaxFaults, Fault
    PROVE  faults' \in 0..MaxFaults
BY FaultAssumption DEF Fault

(* The console keeps the invariant.                                        *)
LEMMA ConsoleInv ==
    ASSUME IInv, Console
    PROVE  IInv'
<1>1. ASSUME NEW g \in Gateway, NEW t \in Token, CreateGateway(g, t)
      PROVE  IInv'
  <2>1. /\ gateways' \in [Gateway -> GatewayRow]
        /\ \A h \in Gateway : gateways'[h].seen = gateways[h].seen
        /\ faults' \in 0..MaxFaults
    BY <1>1, FaultType DEF IInv, TypeOK, CreateGateway, GatewayRow
  <2>2. CASE tokens' = [tokens EXCEPT ![t] = NewToken(g)]
    BY <1>1, <2>1, <2>2, NewTokenInv DEF CreateGateway
  <2>3. CASE tokens' = tokens
    <3>1. UNCHANGED <<tokens, creds, shim, claims, requests>>
      BY <1>1, <2>3 DEF CreateGateway
    <3>2. TypeOK'
      BY <2>1, <3>1 DEF IInv, TypeOK
    <3>3. (OriginOK /\ PendingOK)'
      BY <3>1 DEF IInv, OriginOK, PendingOK
    <3>4. TraceOK'
      BY <2>1, <3>1 DEF IInv, TypeOK, OriginOK, TraceOK
    <3>5. RowsStay
      BY <2>1, <3>1 DEF RowsStay
    <3>6. ClientOK'
      BY <3>1 DEF IInv, ClientOK
    <3>7. QED
      BY <3>1, <3>2, <3>3, <3>4, <3>5, <3>6, GoodStep DEF IInv, TypeOK
  <2>4. QED
    BY <1>1, <2>2, <2>3 DEF CreateGateway
<1>2. ASSUME NEW g \in Gateway, NEW t \in Token, ReissueEnrollment(g, t)
      PROVE  IInv'
  BY <1>2, NewTokenInv DEF IInv, TypeOK, ReissueEnrollment
<1>3. ASSUME NEW g \in Gateway, Revoke(g)
      PROVE  IInv'
  <2>1. UNCHANGED <<tokens, shim, claims, requests, faults>>
    BY <1>3 DEF Revoke
  <2>2. \A h \in Gateway : gateways'[h].seen = gateways[h].seen
    BY <1>3 DEF IInv, TypeOK, Revoke, GatewayRow
  <2>3. \A c \in Cred : /\ creds'[c].gateway = creds[c].gateway
                        /\ creds'[c].from = creds[c].from
                        /\ creds'[c].used = creds[c].used
    BY <1>3 DEF IInv, TypeOK, Revoke, CredRow
  <2>4. TypeOK'
    BY <1>3 DEF IInv, TypeOK, Revoke, GatewayRow, CredRow
  <2>5. (OriginOK /\ PendingOK /\ TraceOK)'
    BY <2>1, <2>2, <2>3 DEF IInv, OriginOK, PendingOK, TraceOK
  <2>6. RowsStay
    BY <2>1, <2>2, <2>3 DEF RowsStay
  <2>7. ClientOK'
    BY <2>1 DEF IInv, ClientOK
  <2>8. QED
    BY <2>1, <2>4, <2>5, <2>6, <2>7, GoodStep DEF IInv, TypeOK
<1>4. ASSUME NEW t \in Token, ExpireToken(t)
      PROVE  IInv'
  <2>1. UNCHANGED <<gateways, creds, shim, claims, requests, faults>>
    BY <1>4 DEF ExpireToken
  <2>2. \A u \in Token : /\ tokens'[u].gateway = tokens[u].gateway
                         /\ tokens'[u].claimed = tokens[u].claimed
                         /\ tokens'[u].pending = tokens[u].pending
                         /\ tokens'[u].cred = tokens[u].cred
    BY <1>4 DEF IInv, TypeOK, ExpireToken, TokenRow
  <2>3. TypeOK'
    BY <1>4 DEF IInv, TypeOK, ExpireToken, TokenRow
  <2>4. (OriginOK /\ PendingOK /\ TraceOK)'
    BY <2>1, <2>2 DEF IInv, TypeOK, CredRow, OriginOK, PendingOK, TraceOK
  <2>5. RowsStay
    BY <2>1, <2>2 DEF RowsStay
  <2>6. ClientOK'
    BY <2>1 DEF IInv, ClientOK
  <2>7. QED
    BY <2>1, <2>3, <2>4, <2>5, <2>6, GoodStep DEF IInv, TypeOK
<1>5. ASSUME NEW p \in Process, NEW t \in Token, Install(p, t)
      PROVE  IInv'
  <2>1. UNCHANGED <<gateways, tokens, creds, claims, requests, faults>>
    BY <1>5 DEF Install
  <2>2. TypeOK'
    BY <1>5 DEF IInv, TypeOK, Install, ShimState
  <2>3. tokens[t].gateway \in Gateway
    BY <1>5 DEF IInv, TypeOK, Install, TokenRow
  <2>4. \A q \in Process : shim'[q] = shim[q] \/ GoodShim(shim[q])'
    BY <1>5, <2>1, <2>3 DEF IInv, TypeOK, ShimOK, Install, GoodShim, ShimState
  <2>5. RowsStay /\ (OriginOK /\ PendingOK /\ TraceOK)'
    BY <2>1 DEF RowsStay, IInv, OriginOK, PendingOK, TraceOK
  <2>6. ClientOK'
    BY <1>5 DEF IInv, TypeOK, ClientOK, Install, ShimState, Claim, Request
  <2>7. QED
    BY <2>1, <2>2, <2>4, <2>5, <2>6, GoodStep DEF IInv, TypeOK
<1>6. QED
  BY <1>1, <1>2, <1>3, <1>4, <1>5 DEF Console

-----------------------------------------------------------------------------
(* Steps that leave the database alone.                                    *)

(* It is enough that what they change stays good.                          *)
LEMMA QuietStep ==
    ASSUME IInv, UNCHANGED <<gateways, tokens, creds>>,
           shim' \in [Process -> ShimState], claims' \in [ClaimSlot -> Claim],
           requests' \in [BearerSlot -> Request], faults' \in 0..MaxFaults,
           \A p \in Process : shim'[p] = shim[p] \/ GoodShim(shim[p])',
           \A k \in ClaimSlot : claims'[k] = claims[k] \/ GoodClaim(claims[k])',
           \A b \in BearerSlot :
               requests'[b] = requests[b] \/ GoodRequest(requests[b])',
           ClientOK'
    PROVE  IInv'
<1>1. TypeOK'
  BY DEF IInv, TypeOK
<1>2. RowsStay /\ (OriginOK /\ PendingOK /\ TraceOK)'
  BY DEF RowsStay, IInv, OriginOK, PendingOK, TraceOK
<1>3. QED
  BY <1>1, <1>2, GoodStep DEF IInv

(* A shim process keeps the invariant.                                     *)
LEMMA ShimInv ==
    ASSUME IInv, NEW p \in Process, ShimStep(p)
    PROVE  IInv'
<1>1. CASE StartEnrolled(p)
  <2>1. shim' \in [Process -> ShimState]
    <3>1. shim[p] \in ShimState /\ shim \in [Process -> ShimState]
      BY DEF IInv, TypeOK
    <3>2. [shim[p] EXCEPT !.pc = "running", !.cred = shim[p].disk] \in ShimState
      BY <3>1 DEF ShimState
    <3>3. shim' = [shim EXCEPT ![p] = [shim[p] EXCEPT !.pc = "running", !.cred = shim[p].disk]]
      BY <1>1, <3>1 DEF StartEnrolled
    <3> QED
      BY <3>1, <3>2, <3>3
  <2>2. \A q \in Process : shim'[q] = shim[q] \/ GoodShim(shim[q])'
    BY <1>1 DEF IInv, TypeOK, ShimOK, StartEnrolled, GoodShim, ShimState
  <2>3. ClientOK'
    BY <1>1 DEF IInv, TypeOK, ClientOK, StartEnrolled, ShimState, Claim, Request, NoClaim
  <2>4. QED
    BY <1>1, <2>1, <2>2, <2>3, QuietStep DEF StartEnrolled, IInv, TypeOK
<1>2. ASSUME NEW k \in ClaimSlot, Register(p, k)
      PROVE  IInv'
  <2>1. shim[p].token \in Token /\ tokens[shim[p].token].gateway \in Gateway
    BY <1>2 DEF IInv, ShimOK, GoodShim, Register
  <2>2. shim' \in [Process -> ShimState] /\ claims' \in [ClaimSlot -> Claim]
    <3>1. [NoClaim EXCEPT !.stage = "sent", !.client = p, !.token = shim[p].token]
            \in Claim
      BY <2>1, FreeTypes DEF Claim
    <3>2. claims' \in [ClaimSlot -> Claim]
      BY <1>2, <3>1 DEF IInv, TypeOK, Register
    <3>3. shim' \in [Process -> ShimState]
      BY <1>2 DEF IInv, TypeOK, Register, ShimState
    <3>4. QED
      BY <3>2, <3>3
  <2>3. \A q \in Process : shim'[q] = shim[q] \/ GoodShim(shim[q])'
    BY <1>2 DEF IInv, TypeOK, ShimOK, Register, GoodShim, ShimState
  <2>4. \A j \in ClaimSlot : claims'[j] = claims[j] \/ GoodClaim(claims[j])'
    BY <1>2, <2>1 DEF IInv, TypeOK, Register, GoodClaim, NoClaim
  <2>5. ClientOK'
    BY <1>2 DEF IInv, TypeOK, ClientOK, Register, ShimState, Claim, Request, NoClaim
  <2>6. QED
    BY <1>2, <2>2, <2>3, <2>4, <2>5, QuietStep DEF Register, IInv, TypeOK
<1>3. CASE WriteCredential(p)
  <2>1. shim' \in [Process -> ShimState]
    <3>1. shim[p] \in ShimState /\ shim \in [Process -> ShimState]
      BY DEF IInv, TypeOK
    <3>2. [shim[p] EXCEPT !.pc = "running", !.disk = shim[p].cred] \in ShimState
      BY <3>1 DEF ShimState
    <3>3. shim' = [shim EXCEPT ![p] = [shim[p] EXCEPT !.pc = "running", !.disk = shim[p].cred]]
      BY <1>3, <3>1 DEF WriteCredential
    <3> QED
      BY <3>1, <3>2, <3>3
  <2>2. \A q \in Process : shim'[q] = shim[q] \/ GoodShim(shim[q])'
    BY <1>3 DEF IInv, TypeOK, ShimOK, WriteCredential, GoodShim, ShimState
  <2>3. ClientOK'
    BY <1>3 DEF IInv, TypeOK, ClientOK, WriteCredential, ShimState, Claim, Request, NoClaim
  <2>4. QED
    BY <1>3, <2>1, <2>2, <2>3, QuietStep DEF WriteCredential, IInv, TypeOK
<1>4. ASSUME NEW b \in BearerSlot, SendRequest(p, b)
      PROVE  IInv'
  <2>1. shim[p].cred \in Cred /\ creds[shim[p].cred].from # None
    BY <1>4 DEF IInv, ShimOK, GoodShim, SendRequest
  <2>2. shim' \in [Process -> ShimState] /\ requests' \in [BearerSlot -> Request]
    <3>1. [stage |-> "sent", client |-> p, cred |-> shim[p].cred] \in Request
      BY <2>1 DEF Request
    <3>2. requests' \in [BearerSlot -> Request]
      BY <1>4, <3>1 DEF IInv, TypeOK, SendRequest
    <3>3. shim' \in [Process -> ShimState]
      BY <1>4 DEF IInv, TypeOK, SendRequest, ShimState
    <3>4. QED
      BY <3>2, <3>3
  <2>3. \A q \in Process : shim'[q] = shim[q] \/ GoodShim(shim[q])'
    BY <1>4 DEF IInv, TypeOK, ShimOK, SendRequest, GoodShim, ShimState
  <2>4. \A a \in BearerSlot : requests'[a] = requests[a] \/ GoodRequest(requests[a])'
    BY <1>4, <2>1 DEF IInv, TypeOK, SendRequest, GoodRequest
  <2>5. ClientOK'
    BY <1>4 DEF IInv, TypeOK, ClientOK, SendRequest, ShimState, Claim, Request, NoClaim
  <2>6. QED
    BY <1>4, <2>2, <2>3, <2>4, <2>5, QuietStep DEF SendRequest, IInv, TypeOK
<1>5. QED
  BY <1>1, <1>2, <1>3, <1>4 DEF ShimStep

(* So does the end of a claim, whether its process gets a credential, an   *)
(* error or nothing, or is gone.                                           *)
LEMMA EndClaimInv ==
    ASSUME IInv, NEW k \in ClaimSlot, NEW pc, NEW c,
           EndClaim(k, pc, c), faults' \in 0..MaxFaults,
           \/ pc = "start" /\ c = None
           \/ pc = "writing" /\ c = claims[k].cred /\ claims[k].stage = "granted"
    PROVE  IInv'
<1>1. pc \in {"start", "writing"} /\ c \in Cred \cup {None}
  BY DEF IInv, TypeOK, Claim
<1>2. pc = "writing" => c \in Cred /\ creds[c].from # None
  BY DEF IInv, ClaimOK, GoodClaim
<1>3. claims' \in [ClaimSlot -> Claim]
  BY FreeTypes DEF IInv, TypeOK, EndClaim
<1>4. \A j \in ClaimSlot : claims'[j] = claims[j] \/ GoodClaim(claims[j])'
  BY DEF IInv, TypeOK, EndClaim, GoodClaim, NoClaim
<1>5. CASE claims[k].client = None
  <2>1. shim' = shim
    BY <1>5 DEF EndClaim
  <2>2. ClientOK'
    BY <2>1 DEF IInv, TypeOK, ClientOK, EndClaim, NoClaim
  <2>3. QED
    BY <1>3, <1>4, <2>1, <2>2, QuietStep DEF EndClaim, IInv, TypeOK
<1>6. CASE claims[k].client # None
  <2>1. PICK p \in Process :
          p = claims[k].client /\ shim' = [shim EXCEPT ![p].pc = pc, ![p].cred = c]
    BY <1>6 DEF EndClaim, IInv, TypeOK, Claim
  <2>2. shim[p] \in ShimState /\ shim[p].pc = "registering"
    BY <1>6, <2>1 DEF IInv, TypeOK, ClientOK
  <2>3. DEFINE r == [shim[p] EXCEPT !.pc = pc, !.cred = c]
  <2>4. shim' = [shim EXCEPT ![p] = r]
    BY <2>1 DEF IInv, TypeOK
  <2>5. r \in ShimState
    BY <2>2, <1>1 DEF ShimState
  <2>6. /\ r.pc = pc /\ r.cred = c
        /\ r.token = shim[p].token /\ r.disk = shim[p].disk
    BY <2>2 DEF ShimState
  <2> HIDE DEF r
  <2>7. shim' \in [Process -> ShimState]
    BY <2>4, <2>5 DEF IInv, TypeOK
  <2>8. \A q \in Process : shim'[q] = IF q = p THEN r ELSE shim[q]
    BY <2>4 DEF IInv, TypeOK
  <2>9. \A q \in Process : shim'[q] = shim[q] \/ GoodShim(shim[q])'
    BY <2>2, <2>6, <2>8, <1>1, <1>2
       DEF IInv, TypeOK, ShimOK, GoodShim, EndClaim
  <2>10. ClientOK'
    BY <2>1, <2>8, <1>6 DEF IInv, TypeOK, ClientOK, EndClaim, NoClaim, Claim, Request
  <2>11. QED
    BY <1>3, <1>4, <2>7, <2>9, <2>10, QuietStep DEF EndClaim, IInv, TypeOK
<1>7. QED
  BY <1>5, <1>6

(* So does a crash: what the process asked for is nobody's any more.       *)
LEMMA CrashInv ==
    ASSUME IInv, NEW p \in Process, Crash(p)
    PROVE  IInv'
<1>1. UNCHANGED <<gateways, tokens, creds>> /\ faults' \in 0..MaxFaults
  BY FaultType DEF Crash, IInv, TypeOK
<1>2. shim' \in [Process -> ShimState]
  <2>1. shim[p] \in ShimState /\ shim \in [Process -> ShimState]
    BY DEF IInv, TypeOK
  <2>2. [shim[p] EXCEPT !.pc = "start", !.cred = None] \in ShimState
    BY <2>1 DEF ShimState
  <2>3. shim' = [shim EXCEPT ![p] = [shim[p] EXCEPT !.pc = "start", !.cred = None]]
    BY DEF Crash
  <2> QED
    BY <2>1, <2>2, <2>3
<1>3. \A q \in Process : shim'[q] = shim[q] \/ GoodShim(shim[q])'
  BY <1>1 DEF IInv, TypeOK, ShimOK, Crash, GoodShim, ShimState
<1>4. claims' \in [ClaimSlot -> Claim]
  <2>1. \A k \in ClaimSlot : claims[k] \in Claim
    BY DEF IInv, TypeOK
  <2>2. \A k \in ClaimSlot : [claims[k] EXCEPT !.client = None] \in Claim
    BY <2>1 DEF Claim
  <2> QED
    BY <2>1, <2>2 DEF Crash
<1>5. \A k \in ClaimSlot : claims'[k] = claims[k] \/ GoodClaim(claims[k])'
  BY <1>1 DEF IInv, TypeOK, ClaimOK, Crash, GoodClaim, Claim
<1>6. requests' \in [BearerSlot -> Request]
  BY DEF IInv, TypeOK, Crash, Request
<1>7. \A b \in BearerSlot : requests'[b] = requests[b] \/ GoodRequest(requests[b])'
  BY <1>1 DEF IInv, TypeOK, RequestOK, Crash, GoodRequest, Request
<1>8. ClientOK'
  <2>1. \A q \in Process \ {p} : shim'[q] = shim[q]
    BY DEF IInv, TypeOK, Crash
  <2>2. \A k \in ClaimSlot :
          claims'[k].client = IF claims[k].client = p THEN None ELSE claims[k].client
    BY DEF IInv, TypeOK, Crash, Claim
  <2>3. \A b \in BearerSlot :
          requests'[b].client = IF requests[b].client = p THEN None
                                                          ELSE requests[b].client
    BY DEF IInv, TypeOK, Crash, Request
  <2>4. QED
    BY <2>1, <2>2, <2>3 DEF IInv, TypeOK, ClientOK, Claim, Request
<1>9. QED
  BY <1>1, <1>2, <1>3, <1>4, <1>5, <1>6, <1>7, <1>8, QuietStep

(* So does every other failure.                                            *)
LEMMA FailureInv ==
    ASSUME IInv, Failure
    PROVE  IInv'
<1>1. ASSUME NEW k \in ClaimSlot, ClaimFails(k)
      PROVE  IInv'
  <2>1. claims' \in [ClaimSlot -> Claim]
    BY <1>1 DEF IInv, TypeOK, ClaimFails, Claim
  <2>2. \A j \in ClaimSlot : claims'[j] = claims[j] \/ GoodClaim(claims[j])'
    BY <1>1 DEF IInv, TypeOK, ClaimOK, ClaimFails, GoodClaim, Claim
  <2>3. ClientOK'
    BY <1>1 DEF IInv, TypeOK, ClientOK, ClaimFails, Claim
  <2>4. QED
    BY <1>1, <2>1, <2>2, <2>3, QuietStep, FaultType DEF ClaimFails, IInv, TypeOK
<1>2. ASSUME NEW k \in ClaimSlot, LoseClaimReply(k)
      PROVE  IInv'
  BY <1>2, EndClaimInv, FaultType DEF LoseClaimReply, IInv, TypeOK
<1>3. QED
  BY <1>1, <1>2, CrashInv DEF Failure

-----------------------------------------------------------------------------
(* Claims.                                                                 *)

(* The first select: a late claim sees its token pending and its gateway   *)
(* seen.                                                                   *)
LEMMA ReadTokenInv ==
    ASSUME IInv, NEW k \in ClaimSlot, ReadToken(k)
    PROVE  IInv'
<1> DEFINE t == claims[k].token
           old == claims[k]
           new == IF tokens[t].claimed \/ tokens[t].expired
                  THEN [old EXCEPT !.stage = "refused"]
                  ELSE [old EXCEPT !.stage = "token",
                                   !.pending = tokens[t].pending,
                                   !.cred = tokens[t].cred,
                                   !.late = LedToHeartbeat(t)]
<1>1. /\ old \in Claim /\ t \in Token /\ tokens[t] \in TokenRow
      /\ tokens[t].gateway \in Gateway
  BY DEF IInv, TypeOK, ClaimOK, GoodClaim, ReadToken
<1>2. claims' = [claims EXCEPT ![k] = new]
  BY DEF ReadToken, tokenOf
<1>3. LedToHeartbeat(t) \in BOOLEAN
  BY DEF LedToHeartbeat
<1>4. new \in Claim
  BY <1>1, <1>3 DEF Claim, TokenRow
<1>5. LedToHeartbeat(t) /\ ~tokens[t].claimed =>
        tokens[t].pending /\ gateways[tokens[t].gateway].seen
  BY DEF LedToHeartbeat, IInv, OriginOK, PendingOK, TraceOK
<1>6. GoodClaim(new)
  BY <1>1, <1>5 DEF GoodClaim, Claim
<1>7. new.client = old.client
  BY <1>1 DEF Claim
<1> HIDE DEF new
<1>8. UNCHANGED <<gateways, tokens, creds, shim, requests, faults>>
  BY DEF ReadToken
<1>9. \A j \in ClaimSlot : claims'[j] = IF j = k THEN new ELSE claims[j]
  BY <1>2 DEF IInv, TypeOK
<1>10. claims' \in [ClaimSlot -> Claim]
  BY <1>2, <1>4 DEF IInv, TypeOK
<1>11. \A j \in ClaimSlot : claims'[j] = claims[j] \/ GoodClaim(claims[j])'
  BY <1>6, <1>8, <1>9 DEF GoodClaim
<1>12. ClientOK'
  BY <1>7, <1>8, <1>9 DEF IInv, ClientOK
<1>13. QED
  BY <1>8, <1>10, <1>11, <1>12, QuietStep DEF IInv, TypeOK

(* The second select refuses a late claim.                                 *)
LEMMA ReadGatewayInv ==
    ASSUME IInv, NEW k \in ClaimSlot, ReadGateway(k)
    PROVE  IInv'
<1>1. claims' \in [ClaimSlot -> Claim]
  BY DEF IInv, TypeOK, ReadGateway, Claim
<1>2. \A j \in ClaimSlot : claims'[j] = claims[j] \/ GoodClaim(claims[j])'
  <2>1. claims \in [ClaimSlot -> Claim] /\ claims[k] \in Claim
    BY DEF IInv, TypeOK
  <2>2. PICK stage \in {"refused", "gateway"} :
          /\ claims' = [claims EXCEPT ![k] = [claims[k] EXCEPT !.stage = stage]]
          /\ stage = "gateway" => ~(claims[k].pending /\ gateways[tokenOf(k).gateway].seen)
    BY DEF ReadGateway
  <2>3. UNCHANGED <<gateways, tokens, creds>> /\ claims[k].stage = "token" /\ GoodClaim(claims[k])
    BY DEF ReadGateway, IInv, ClaimOK
  <2>4. /\ claims'[k].stage = stage
        /\ claims'[k].token = claims[k].token /\ claims'[k].late = claims[k].late
        /\ \A j \in ClaimSlot \ {k} : claims'[j] = claims[j]
    BY <2>1, <2>2 DEF Claim
  <2>5. claims[k].token \in Token /\ tokens[claims[k].token].gateway \in Gateway
    BY <2>3 DEF GoodClaim
  <2>6. stage = "gateway" => ~claims[k].late
    BY <2>1, <2>2, <2>3 DEF GoodClaim, tokenOf, Claim
  <2>7. GoodClaim(claims[k])'
    BY <2>1, <2>2, <2>3, <2>4, <2>5, <2>6 DEF GoodClaim, Claim
  <2> QED
    BY <2>4, <2>7
<1>3. ClientOK'
  BY DEF IInv, TypeOK, ClientOK, ReadGateway, Claim
<1>4. QED
  BY <1>1, <1>2, <1>3, QuietStep DEF ReadGateway, IInv, TypeOK

(* The writes mint a credential of the claim's token.                      *)
LEMMA CommitClaimInv ==
    ASSUME IInv, NEW k \in ClaimSlot, CommitClaim(k)
    PROVE  IInv'
<1> DEFINE t == claims[k].token
           abandoned == IF claims[k].pending THEN claims[k].cred ELSE None
<1>1. PICK c \in Cred :
        /\ creds[c].gateway = None
        /\ creds' = [d \in Cred |->
             IF d = c THEN [creds[d] EXCEPT !.gateway = tokens[t].gateway,
                                            !.from = t]
             ELSE IF d = abandoned THEN [creds[d] EXCEPT !.revoked = TRUE]
             ELSE creds[d]]
        /\ tokens' = [tokens EXCEPT ![t].pending = TRUE, ![t].cred = c]
        /\ claims' = [claims EXCEPT ![k] = [@ EXCEPT !.stage = "granted", !.cred = c]]
  BY DEF CommitClaim, tokenOf, NextCred
<1>2. /\ t \in Token /\ tokens[t].gateway \in Gateway
      /\ claims[k] \in Claim /\ ~claims[k].late
  BY DEF IInv, TypeOK, ClaimOK, GoodClaim, CommitClaim
<1>3. creds[c].from = None /\ ~creds[c].used
  BY <1>1 DEF IInv, TypeOK, OriginOK, TraceOK, CredRow
<1> HIDE DEF abandoned
<1>4. UNCHANGED <<gateways, shim, requests, faults>>
  BY DEF CommitClaim
<1>5. /\ creds' \in [Cred -> CredRow]
      /\ creds'[c].gateway = tokens[t].gateway /\ creds'[c].from = t
      /\ \A d \in Cred : creds'[d].used = creds[d].used
      /\ \A d \in Cred \ {c} : /\ creds'[d].gateway = creds[d].gateway
                               /\ creds'[d].from = creds[d].from
  <2>1. ASSUME NEW d \in Cred \ {c}
        PROVE  /\ creds'[d] \in CredRow
               /\ creds'[d].gateway = creds[d].gateway
               /\ creds'[d].from = creds[d].from
               /\ creds'[d].used = creds[d].used
    <3>1. creds[d] \in CredRow
      BY DEF IInv, TypeOK
    <3>2. creds'[d] = creds[d] \/ creds'[d] = [creds[d] EXCEPT !.revoked = TRUE]
      BY <1>1
    <3>3. QED
      BY <3>1, <3>2 DEF CredRow
  <2>2. /\ creds'[c] \in CredRow
        /\ creds'[c].gateway = tokens[t].gateway /\ creds'[c].from = t
        /\ creds'[c].used = creds[c].used
    <3>1. creds[c] \in CredRow
      BY DEF IInv, TypeOK
    <3>2. creds'[c] = [creds[c] EXCEPT !.gateway = tokens[t].gateway, !.from = t]
      BY <1>1
    <3>3. QED
      BY <3>1, <3>2, <1>2 DEF CredRow
  <2>3. creds' = [d \in Cred |-> creds'[d]]
    BY <1>1
  <2>4. QED
    BY <2>1, <2>2, <2>3
<1>6. /\ tokens' \in [Token -> TokenRow]
      /\ tokens'[t].pending /\ tokens'[t].cred = c
      /\ \A u \in Token : /\ tokens'[u].gateway = tokens[u].gateway
                          /\ tokens'[u].claimed = tokens[u].claimed
      /\ \A u \in Token \ {t} : tokens'[u] = tokens[u]
  <2>1. tokens[t] \in TokenRow
    BY <1>2 DEF IInv, TypeOK
  <2>2. tokens' = [tokens EXCEPT ![t] = [tokens[t] EXCEPT !.pending = TRUE, !.cred = c]]
    BY <1>1 DEF IInv, TypeOK
  <2>3. [tokens[t] EXCEPT !.pending = TRUE, !.cred = c] \in TokenRow
    BY <2>1 DEF TokenRow
  <2>4. tokens' \in [Token -> TokenRow]
    BY <2>2, <2>3 DEF IInv, TypeOK
  <2>5. tokens'[t] = [tokens[t] EXCEPT !.pending = TRUE, !.cred = c]
    BY <2>2, <1>2 DEF IInv, TypeOK
  <2>6. \A u \in Token \ {t} : tokens'[u] = tokens[u]
    BY <2>2 DEF IInv, TypeOK
  <2>7. /\ tokens'[t].pending /\ tokens'[t].cred = c
        /\ tokens'[t].gateway = tokens[t].gateway
        /\ tokens'[t].claimed = tokens[t].claimed
    BY <2>1, <2>5 DEF TokenRow
  <2>8. QED
    BY <2>4, <2>6, <2>7
<1>7. /\ claims' \in [ClaimSlot -> Claim]
      /\ \A j \in ClaimSlot \ {k} : claims'[j] = claims[j]
      /\ claims'[k].stage = "granted" /\ claims'[k].cred = c
      /\ claims'[k].token = t /\ ~claims'[k].late
      /\ claims'[k].client = claims[k].client
  BY <1>1, <1>2 DEF IInv, TypeOK, Claim
<1>8. TypeOK'
  BY <1>4, <1>5, <1>6, <1>7 DEF IInv, TypeOK
<1>9. t # None /\ None \notin Gateway /\ None \notin Cred
  BY <1>2, NoneAssumption
<1>10. OriginOK'
  BY <1>2, <1>5, <1>6, <1>9 DEF IInv, TypeOK, OriginOK, CredRow
<1>11. PendingOK'
  <2> SUFFICES ASSUME NEW d \in Cred, creds'[d].from # None
               PROVE  LET u == tokens'[creds'[d].from] IN
                      \/ u.claimed
                      \/ u.pending /\ u.cred \in Cred
                                   /\ creds'[u.cred].gateway = u.gateway
    BY DEF PendingOK
  <2>1. CASE creds'[d].from = t
    <3>1. /\ tokens'[t].pending /\ tokens'[t].cred = c
          /\ creds'[c].gateway = tokens'[t].gateway
      BY <1>2, <1>5, <1>6
    <3>2. QED
      BY <2>1, <3>1
  <2>2. CASE creds'[d].from # t
    <3>1. d # c /\ creds[d].from = creds'[d].from
      BY <2>2, <1>5
    <3>2. creds[d].from \in Token \ {t}
      BY <2>2, <3>1 DEF IInv, TypeOK, CredRow
    <3>3. tokens'[creds'[d].from] = tokens[creds[d].from]
      BY <3>1, <3>2, <1>6
    <3>4. \A e \in Cred : creds[e].gateway # None => creds'[e].gateway = creds[e].gateway
      BY <1>1, <1>5
    <3>5. tokens[creds[d].from].gateway \in Gateway
      BY <3>1 DEF IInv, OriginOK
    <3>6. QED
      BY <3>1, <3>3, <3>4, <3>5, <1>9 DEF IInv, PendingOK
  <2>3. QED
    BY <2>1, <2>2
<1>12. TraceOK'
  BY <1>3, <1>4, <1>5, <1>6 DEF IInv, TypeOK, TraceOK, CredRow
<1>13. RowsStay
  BY <1>3, <1>4, <1>5, <1>6 DEF RowsStay
<1>14. GoodClaim(claims[k])'
  BY <1>2, <1>5, <1>6, <1>7, <1>9 DEF GoodClaim
<1>15. (ShimOK /\ ClaimOK /\ RequestOK)'
  BY <1>4, <1>7, <1>8, <1>13, <1>14, GoodStep DEF TypeOK
<1>16. ClientOK'
  BY <1>4, <1>7 DEF IInv, ClientOK
<1>17. QED
  BY <1>8, <1>10, <1>11, <1>12, <1>15, <1>16 DEF IInv

(* A claim keeps the invariant.                                            *)
LEMMA ClaimInv ==
    ASSUME IInv, NEW k \in ClaimSlot, ClaimStep(k)
    PROVE  IInv'
<1>1. CASE ReplyClaim(k)
  <2>1. faults' \in 0..MaxFaults
    BY <1>1 DEF ReplyClaim, IInv, TypeOK
  <2>2. QED
    BY <1>1, <2>1, EndClaimInv DEF ReplyClaim
<1>2. QED
  BY <1>1, ReadTokenInv, ReadGatewayInv, CommitClaimInv DEF ClaimStep

-----------------------------------------------------------------------------
(* Requests with a credential.                                             *)

(* A request that stays one of the same process with the same credential   *)
(* stays good.                                                             *)
LEMMA RequestStep ==
    ASSUME IInv, NEW b \in BearerSlot, NEW s,
           s \in {"sent", "touch", "commit", "answered"},
           requests[b].stage # "free",
           requests' = [requests EXCEPT ![b].stage = s],
           UNCHANGED <<shim, claims>>, RowsStay
    PROVE  /\ requests' \in [BearerSlot -> Request]
           /\ \A a \in BearerSlot :
                requests'[a] = requests[a] \/ GoodRequest(requests[a])'
           /\ ClientOK'
<1>1. requests' \in [BearerSlot -> Request]
  BY DEF IInv, TypeOK, Request
<1>2. \A a \in BearerSlot : /\ requests'[a].client = requests[a].client
                            /\ requests'[a].cred = requests[a].cred
                            /\ a # b => requests'[a] = requests[a]
  BY DEF IInv, TypeOK, Request
<1>3. GoodRequest(requests[b])'
  BY <1>2 DEF IInv, RequestOK, GoodRequest, RowsStay
<1>4. ClientOK'
  BY <1>2 DEF IInv, ClientOK
<1>5. QED
  BY <1>1, <1>2, <1>3, <1>4

(* The credential of a request and its gateway are there.                  *)
LEMMA RequestRows ==
    ASSUME IInv, NEW b \in BearerSlot, requests[b].stage # "free"
    PROVE  /\ requests[b].cred \in Cred
           /\ creds[requests[b].cred].from \in Token
           /\ creds[requests[b].cred].gateway \in Gateway
BY DEF IInv, TypeOK, RequestOK, GoodRequest, OriginOK, CredRow

(* A first update that takes effect leaves its trace in the gateway.       *)
LEMMA TouchSeenInv ==
    ASSUME IInv, NEW b \in BearerSlot, TouchSeen(b)
    PROVE  IInv'
<1> DEFINE c == requests[b].cred
           g == creds[c].gateway
<1>1. c \in Cred /\ creds[c].from \in Token /\ g \in Gateway
  BY RequestRows DEF TouchSeen
<1>2. UNCHANGED <<tokens, shim, claims>> /\ faults' \in 0..MaxFaults
  BY FaultType DEF TouchSeen, IInv, TypeOK
<1>3. requests' = [requests EXCEPT ![b].stage = "commit"]
  BY DEF TouchSeen
<1>4. /\ gateways' \in [Gateway -> GatewayRow]
      /\ creds' \in [Cred -> CredRow]
      /\ \A d \in Cred : /\ creds'[d].from = creds[d].from
                         /\ creds'[d].gateway = creds[d].gateway
      /\ \A d \in Cred : creds'[d].used =>
           creds[d].used \/ (d = c /\ gateways'[g].seen)
      /\ \A h \in Gateway : gateways[h].seen => gateways'[h].seen
  <2>1. CASE UNCHANGED <<gateways, creds>>
    BY <2>1 DEF IInv, TypeOK
  <2>2. CASE /\ gateways' = [gateways EXCEPT ![g] = [status |-> "online", seen |-> TRUE]]
             /\ creds' = [creds EXCEPT ![c].used = TRUE]
    <3>1. /\ gateways' \in [Gateway -> GatewayRow]
          /\ gateways'[g].seen
          /\ \A h \in Gateway : gateways[h].seen => gateways'[h].seen
      BY <1>1, <2>2 DEF IInv, TypeOK, GatewayRow
    <3>2. /\ creds' \in [Cred -> CredRow]
          /\ \A d \in Cred : /\ creds'[d].from = creds[d].from
                             /\ creds'[d].gateway = creds[d].gateway
                             /\ creds'[d].used => creds[d].used \/ d = c
      <4>1. c \in Cred
        BY <1>1
      <4>2. \A d \in Cred : creds'[d] = IF d = c THEN [creds[c] EXCEPT !.used = TRUE]
                                                ELSE creds[d]
        BY <2>2 DEF IInv, TypeOK
      <4>3. [creds[c] EXCEPT !.used = TRUE] \in CredRow
        <5>1. creds[c] \in CredRow
          BY <4>1 DEF IInv, TypeOK
        <5> QED
          BY <5>1 DEF CredRow
      <4>4. creds' \in [Cred -> CredRow]
        BY <2>2, <4>3 DEF IInv, TypeOK
      <4>5. \A d \in Cred : /\ creds'[d].from = creds[d].from
                            /\ creds'[d].gateway = creds[d].gateway
                            /\ creds'[d].used => creds[d].used \/ d = c
        BY <4>2 DEF IInv, TypeOK, CredRow
      <4>6. QED
        BY <4>4, <4>5
    <3>3. QED
      BY <3>1, <3>2
  <2>3. QED
    BY <2>1, <2>2 DEF TouchSeen, credOf
<1>5. RowsStay
  BY <1>2, <1>4 DEF RowsStay
<1>6. /\ requests' \in [BearerSlot -> Request]
      /\ \A a \in BearerSlot :
           requests'[a] = requests[a] \/ GoodRequest(requests[a])'
      /\ ClientOK'
  BY <1>2, <1>3, <1>5, RequestStep DEF TouchSeen
<1>7. TypeOK'
  BY <1>2, <1>4, <1>6 DEF IInv, TypeOK
<1>8. OriginOK'
  BY <1>2, <1>4 DEF IInv, OriginOK
<1>9. PendingOK'
  BY <1>2, <1>4 DEF IInv, PendingOK
<1>10. TraceOK'
  <2> SUFFICES ASSUME NEW d \in Cred, creds'[d].used
               PROVE  /\ creds'[d].from # None
                      /\ \/ tokens'[creds'[d].from].claimed
                         \/ gateways'[creds'[d].gateway].seen
    BY DEF TraceOK
  <2>1. CASE creds[d].used
    <3>1. creds[d].from # None /\ creds[d].gateway \in Gateway
      BY <2>1 DEF IInv, TraceOK, OriginOK
    <3>2. QED
      BY <2>1, <3>1, <1>2, <1>4 DEF IInv, TraceOK
  <2>2. CASE d = c /\ gateways'[g].seen
    BY <2>2, <1>1, <1>4, NoneAssumption
  <2>3. QED
    BY <2>1, <2>2, <1>4
<1>11. (ShimOK /\ ClaimOK /\ RequestOK)'
  BY <1>2, <1>5, <1>6, <1>7, GoodStep DEF TypeOK
<1>12. QED
  BY <1>6, <1>7, <1>8, <1>9, <1>10, <1>11 DEF IInv

(* A second update that takes effect makes the token of the credential     *)
(* claimed, if it was not: it was pending.                                 *)
LEMMA CommitEnrollmentInv ==
    ASSUME IInv, NEW b \in BearerSlot, CommitEnrollmentOnHeartbeat(b)
    PROVE  IInv'
<1> DEFINE c == requests[b].cred
           t == creds[c].from
<1>1. c \in Cred /\ t \in Token /\ creds[c].gateway \in Gateway
  BY RequestRows DEF CommitEnrollmentOnHeartbeat
<1>2. UNCHANGED <<gateways, shim, claims>> /\ faults' \in 0..MaxFaults
  BY FaultType DEF CommitEnrollmentOnHeartbeat, IInv, TypeOK
<1>3. requests' = [requests EXCEPT ![b].stage = "answered"]
  BY DEF CommitEnrollmentOnHeartbeat
<1>4. \/ tokens[t].claimed
      \/ /\ tokens[t].pending /\ tokens[t].cred \in Cred
         /\ creds[tokens[t].cred].gateway = creds[c].gateway
  BY <1>1, NoneAssumption DEF IInv, OriginOK, PendingOK
<1>5. /\ tokens' \in [Token -> TokenRow]
      /\ creds' \in [Cred -> CredRow]
      /\ \A d \in Cred : /\ creds'[d].from = creds[d].from
                         /\ creds'[d].gateway = creds[d].gateway
      /\ \A d \in Cred : creds'[d].used =>
           creds[d].used \/ (d = c /\ tokens'[t].claimed)
      /\ \A u \in Token : /\ tokens'[u].gateway = tokens[u].gateway
                          /\ tokens[u].claimed => tokens'[u].claimed
                          /\ tokens'[u].claimed \/ tokens'[u] = tokens[u]
  <2>1. CASE UNCHANGED <<tokens, creds>>
    BY <2>1 DEF IInv, TypeOK
  <2>2. CASE /\ tokens' = [u \in Token |->
                  IF /\ tokens[u].pending
                     /\ tokens[u].cred # None
                     /\ creds[tokens[u].cred].gateway = creds[c].gateway
                  THEN [tokens[u] EXCEPT !.claimed = TRUE, !.pending = FALSE]
                  ELSE tokens[u]]
             /\ creds' = [creds EXCEPT ![c].used = TRUE]
    <3>1. /\ creds' \in [Cred -> CredRow]
          /\ \A d \in Cred : /\ creds'[d].from = creds[d].from
                             /\ creds'[d].gateway = creds[d].gateway
                             /\ creds'[d].used => creds[d].used \/ d = c
      <4>1. c \in Cred
        BY <1>1
      <4>2. \A d \in Cred : creds'[d] = IF d = c THEN [creds[c] EXCEPT !.used = TRUE]
                                                ELSE creds[d]
        BY <2>2 DEF IInv, TypeOK
      <4>3. [creds[c] EXCEPT !.used = TRUE] \in CredRow
        <5>1. creds[c] \in CredRow
          BY <4>1 DEF IInv, TypeOK
        <5> QED
          BY <5>1 DEF CredRow
      <4>4. creds' \in [Cred -> CredRow]
        BY <2>2, <4>3 DEF IInv, TypeOK
      <4>5. \A d \in Cred : /\ creds'[d].from = creds[d].from
                            /\ creds'[d].gateway = creds[d].gateway
                            /\ creds'[d].used => creds[d].used \/ d = c
        BY <4>2 DEF IInv, TypeOK, CredRow
      <4>6. QED
        BY <4>4, <4>5
    <3>2. /\ tokens' \in [Token -> TokenRow]
          /\ \A u \in Token : /\ tokens'[u].gateway = tokens[u].gateway
                              /\ tokens[u].claimed => tokens'[u].claimed
                              /\ tokens'[u].claimed \/ tokens'[u] = tokens[u]
      <4>1. \A u \in Token :
              /\ [tokens[u] EXCEPT !.claimed = TRUE, !.pending = FALSE] \in TokenRow
              /\ tokens'[u] \in {[tokens[u] EXCEPT !.claimed = TRUE, !.pending = FALSE],
                                  tokens[u]}
        BY <2>2 DEF IInv, TypeOK, TokenRow
      <4>2. tokens' \in [Token -> TokenRow]
        BY <2>2, <4>1 DEF IInv, TypeOK
      <4>3. \A u \in Token : /\ tokens'[u].gateway = tokens[u].gateway
                             /\ tokens[u].claimed => tokens'[u].claimed
                             /\ tokens'[u].claimed \/ tokens'[u] = tokens[u]
        BY <4>1 DEF IInv, TypeOK, TokenRow
      <4>4. QED
        BY <4>2, <4>3
    <3>3. tokens'[t].claimed
      BY <1>1, <1>4, <2>2, NoneAssumption DEF IInv, TypeOK, TokenRow
    <3>4. QED
      BY <3>1, <3>2, <3>3
  <2>3. QED
    BY <2>1, <2>2 DEF CommitEnrollmentOnHeartbeat, credOf
<1>6. RowsStay
  BY <1>2, <1>5 DEF RowsStay
<1>7. /\ requests' \in [BearerSlot -> Request]
      /\ \A a \in BearerSlot :
           requests'[a] = requests[a] \/ GoodRequest(requests[a])'
      /\ ClientOK'
  BY <1>2, <1>3, <1>6, RequestStep DEF CommitEnrollmentOnHeartbeat
<1>8. TypeOK'
  BY <1>2, <1>5, <1>7 DEF IInv, TypeOK
<1>9. OriginOK'
  BY <1>5 DEF IInv, TypeOK, CredRow, OriginOK
<1>10. PendingOK'
  BY <1>5 DEF IInv, TypeOK, CredRow, PendingOK
<1>11. TraceOK'
  BY <1>1, <1>2, <1>5, NoneAssumption DEF IInv, TypeOK, CredRow, TraceOK
<1>12. (ShimOK /\ ClaimOK /\ RequestOK)'
  BY <1>2, <1>6, <1>7, <1>8, GoodStep DEF TypeOK
<1>13. QED
  BY <1>7, <1>8, <1>9, <1>10, <1>11, <1>12 DEF IInv

(* A request with a credential keeps the invariant.                        *)
LEMMA BearerInv ==
    ASSUME IInv, NEW b \in BearerSlot, BearerStep(b)
    PROVE  IInv'
<1>1. CASE AuthenticateCredential(b)
  <2>1. PICK s \in {"answered", "touch"} : requests' = [requests EXCEPT ![b].stage = s]
    BY <1>1 DEF AuthenticateCredential
  <2>2. UNCHANGED <<gateways, tokens, creds, shim, claims, faults>>
    BY <1>1 DEF AuthenticateCredential
  <2>3. requests[b].stage # "free"
    BY <1>1 DEF AuthenticateCredential
  <2>4. RowsStay
    BY <2>2 DEF RowsStay
  <2>5. /\ requests' \in [BearerSlot -> Request]
        /\ \A a \in BearerSlot :
             requests'[a] = requests[a] \/ GoodRequest(requests[a])'
        /\ ClientOK'
    BY <2>1, <2>2, <2>3, <2>4, RequestStep
  <2>6. QED
    BY <2>2, <2>5, QuietStep DEF IInv, TypeOK
<1>2. CASE Answer(b)
  <2>1. UNCHANGED <<gateways, tokens, creds, claims, faults>>
    BY <1>2 DEF Answer
  <2>2. requests' \in [BearerSlot -> Request]
    BY <1>2, FreeTypes DEF IInv, TypeOK, Answer
  <2>3. \A a \in BearerSlot : requests'[a] = requests[a] \/ GoodRequest(requests[a])'
    BY <1>2 DEF IInv, TypeOK, Answer, GoodRequest, NoRequest
  <2>4. CASE requests[b].client = None
    <3>1. shim' = shim
      BY <1>2, <2>4 DEF Answer
    <3>2. ClientOK'
      BY <1>2, <3>1 DEF IInv, TypeOK, ClientOK, Answer, NoRequest
    <3>3. QED
      BY <2>1, <2>2, <2>3, <3>1, <3>2, QuietStep DEF IInv, TypeOK
  <2>5. CASE requests[b].client # None
    <3>1. PICK p \in Process :
            p = requests[b].client /\ shim' = [shim EXCEPT ![p].pc = "running"]
      BY <1>2, <2>5 DEF Answer, IInv, TypeOK, Request
    <3>2. shim[p].pc = "waiting"
      BY <2>5, <3>1 DEF IInv, ClientOK
    <3>3. shim' \in [Process -> ShimState]
      BY <3>1 DEF IInv, TypeOK, ShimState
    <3>4. \A q \in Process : shim'[q] = shim[q] \/ GoodShim(shim[q])'
      BY <2>1, <3>1, <3>2 DEF IInv, TypeOK, ShimOK, GoodShim, ShimState
    <3>5. ClientOK'
      BY <1>2, <2>1, <2>5, <3>1, <3>2
         DEF IInv, TypeOK, ClientOK, Answer, NoRequest, Claim, Request, ShimState
    <3>6. QED
      BY <2>1, <2>2, <2>3, <3>3, <3>4, <3>5, QuietStep DEF IInv, TypeOK
  <2>6. QED
    BY <2>4, <2>5
<1>3. QED
  BY <1>1, <1>2, TouchSeenInv, CommitEnrollmentInv DEF BearerStep

-----------------------------------------------------------------------------
(* The theorems.                                                           *)

(* Every step keeps the invariant.                                         *)
LEMMA InvStep ==
    ASSUME IInv, [Next]_vars
    PROVE  IInv'
<1>1. CASE UNCHANGED vars
  <2>1. UNCHANGED <<gateways, tokens, creds, shim, claims, requests, faults>>
    BY <1>1 DEF vars
  <2>2. (ShimOK /\ ClaimOK /\ RequestOK)'
    BY <2>1 DEF IInv, ShimOK, GoodShim, ClaimOK, GoodClaim, RequestOK, GoodRequest
  <2>3. QED
    BY <2>1, <2>2 DEF IInv, TypeOK, OriginOK, PendingOK, TraceOK, ClientOK
<1>2. QED
  BY <1>1, ConsoleInv, ShimInv, ClaimInv, BearerInv, FailureInv DEF Next

(* The invariant always holds.                                             *)
THEOREM Invariance == Spec => []IInv
BY InvInit, InvStep, PTL DEF Spec

(* Every variable keeps its type: no fault, crash or overlap of claims     *)
(* leaves a row of the database or a process in a state that is none.      *)
THEOREM TypeCorrect == Spec => []TypeOK
<1>1. IInv => TypeOK
  BY DEF IInv
<1>2. QED
  BY <1>1, Invariance, PTL

(* A claim that finds its token after a heartbeat gets nothing, however    *)
(* many claims overlap and whichever update of the heartbeat failed.       *)
THEOREM FinalAfterHeartbeat == Spec => []NoClaimAfterHeartbeat
<1>1. IInv => NoClaimAfterHeartbeat
  BY DEF IInv, ClaimOK, GoodClaim, NoClaimAfterHeartbeat
<1>2. QED
  BY <1>1, Invariance, PTL

(* A revoked gateway stays revoked: whatever a request that authenticated  *)
(* before the revocation still does after it.                              *)
THEOREM RevocationFinal == Spec => RevocationIsFinal
<1>1. ASSUME IInv, [Next]_vars
      PROVE  [\A g \in Gateway : Revoked(g) => Revoked(g)']_vars
  <2> SUFFICES ASSUME NEW g \in Gateway, Revoked(g), Next
               PROVE  Revoked(g)'
    BY <1>1
  <2>1. CASE UNCHANGED gateways
    BY <2>1 DEF Revoked
  <2>2. ASSUME NEW h \in Gateway, NEW t \in Token, CreateGateway(h, t)
        PROVE  Revoked(g)'
    BY <1>1, <2>2 DEF IInv, TypeOK, GatewayRow, CreateGateway, Revoked
  <2>3. ASSUME NEW h \in Gateway, Revoke(h)
        PROVE  Revoked(g)'
    BY <1>1, <2>3 DEF IInv, TypeOK, GatewayRow, Revoke, Revoked
  <2>4. ASSUME NEW b \in BearerSlot, TouchSeen(b)
        PROVE  Revoked(g)'
    BY <1>1, <2>4 DEF IInv, TypeOK, GatewayRow, TouchSeen, Revoked
  <2>5. CASE Console
    BY <2>5, <2>1, <2>2, <2>3 DEF Console, ReissueEnrollment, ExpireToken, Install
  <2>6. ASSUME NEW p \in Process, ShimStep(p)
        PROVE  Revoked(g)'
    BY <2>6, <2>1
       DEF ShimStep, StartEnrolled, Register, WriteCredential, SendRequest
  <2>7. ASSUME NEW k \in ClaimSlot, ClaimStep(k)
        PROVE  Revoked(g)'
    BY <2>7, <2>1
       DEF ClaimStep, ReadToken, ReadGateway, CommitClaim, ReplyClaim, EndClaim
  <2>8. ASSUME NEW b \in BearerSlot, BearerStep(b)
        PROVE  Revoked(g)'
    BY <2>8, <2>1, <2>4
       DEF BearerStep, AuthenticateCredential, CommitEnrollmentOnHeartbeat, Answer
  <2>9. CASE Failure
    BY <2>9, <2>1 DEF Failure, Crash, ClaimFails, LoseClaimReply, EndClaim
  <2>10. QED
    BY <2>5, <2>6, <2>7, <2>8, <2>9 DEF Next
<1>2. QED
  BY <1>1, Invariance, PTL DEF Spec, RevocationIsFinal

(* No request is let in for a revoked gateway, not even with a credential  *)
(* minted after the revocation by a claim that began before it.            *)
THEOREM RevokedOut == Spec => RevokedStaysOut
<1>1. ASSUME IInv, [Next]_vars
      PROVE  [\A b \in BearerSlot :
                requests[b].stage = "sent" /\ requests'[b].stage = "touch"
                  => ~Revoked(credOf(b).gateway)]_vars
  <2> SUFFICES ASSUME NEW b \in BearerSlot, Next,
                      requests[b].stage = "sent", requests'[b].stage = "touch"
               PROVE  ~Revoked(credOf(b).gateway)
    BY <1>1
  <2>1. requests'[b].stage # requests[b].stage
    OBVIOUS
  <2>2. CASE UNCHANGED requests
    BY <2>1, <2>2
  <2>3. CASE Console
    BY <2>2, <2>3
       DEF Console, CreateGateway, ReissueEnrollment, Revoke, ExpireToken, Install
  <2>4. ASSUME NEW p \in Process, ShimStep(p)
        PROVE  FALSE
    BY <1>1, <2>1, <2>4
       DEF IInv, TypeOK, Request, ShimStep, StartEnrolled, Register,
           WriteCredential, SendRequest
  <2>5. ASSUME NEW k \in ClaimSlot, ClaimStep(k)
        PROVE  FALSE
    BY <2>1, <2>5
       DEF ClaimStep, ReadToken, ReadGateway, CommitClaim, ReplyClaim, EndClaim
  <2>6. ASSUME NEW a \in BearerSlot, BearerStep(a)
        PROVE  ~Revoked(credOf(b).gateway)
    <3>1. CASE AuthenticateCredential(a)
      <4>1. a = b
        BY <1>1, <2>1, <3>1 DEF IInv, TypeOK, AuthenticateCredential
      <4>2. QED
        BY <1>1, <3>1, <4>1 DEF IInv, TypeOK, Request, AuthenticateCredential
    <3>2. CASE TouchSeen(a)
      BY <1>1, <3>2 DEF IInv, TypeOK, Request, TouchSeen
    <3>3. CASE CommitEnrollmentOnHeartbeat(a)
      BY <1>1, <3>3 DEF IInv, TypeOK, Request, CommitEnrollmentOnHeartbeat
    <3>4. CASE Answer(a)
      BY <1>1, <3>4 DEF IInv, TypeOK, Request, NoRequest, Answer
    <3>5. QED
      BY <2>6, <3>1, <3>2, <3>3, <3>4 DEF BearerStep
  <2>7. CASE Failure
    <3>1. ASSUME NEW p \in Process, Crash(p)
          PROVE  FALSE
      BY <1>1, <2>1, <3>1 DEF IInv, TypeOK, Request, Crash
    <3>2. QED
      BY <2>2, <2>7, <3>1 DEF Failure, ClaimFails, LoseClaimReply, EndClaim
  <2>8. QED
    BY <2>3, <2>4, <2>5, <2>6, <2>7 DEF Next
<1>2. QED
  BY <1>1, Invariance, PTL DEF Spec, RevokedStaysOut

(* A revocation, which may come at any point of a request or of a claim,   *)
(* is final for the gateway's row and keeps its requests out.              *)
THEOREM Revocation == Spec => RevocationHolds
BY RevocationFinal, RevokedOut DEF RevocationHolds

-----------------------------------------------------------------------------
(* One live credential.  A second one takes two claims of one token that   *)
(* overlap; the theorem is about the behaviours without such a pair.       *)

Reading(k) == claims[k].stage \in {"token", "gateway"}

\* No two claims of one token are between their first select and their commit.
ClaimsApart ==
    \A j, k \in ClaimSlot :
        Reading(j) /\ Reading(k) /\ claims[j].token = claims[k].token => j = k

\* The live credential of a token is the one that its row names.
NewestLive ==
    \A c \in Cred : creds[c].from # None /\ ~creds[c].revoked =>
        tokens[creds[c].from].cred = c

\* What a claim has read still holds, and without a pending credential there
\* was none to read.
ReadIsCurrent(k) ==
    Reading(k) =>
        /\ claims[k].cred = tokens[claims[k].token].cred
        /\ \/ claims[k].pending
           \/ \A c \in Cred : creds[c].from # claims[k].token

LiveInv == NewestLive /\ \A k \in ClaimSlot : ReadIsCurrent(k)

(* Steps that mint no credential, name none and read none keep this.       *)
LEMMA LiveQuiet ==
    ASSUME IInv, LiveInv,
           \A t \in Token : tokens[t].gateway \in Gateway =>
               tokens'[t].cred = tokens[t].cred,
           \A c \in Cred : /\ creds'[c].from = creds[c].from
                           /\ creds[c].revoked => creds'[c].revoked,
           \A k \in ClaimSlot : claims'[k].stage \in {"token", "gateway"} =>
               /\ Reading(k)
               /\ claims'[k].token = claims[k].token
               /\ claims'[k].pending = claims[k].pending
               /\ claims'[k].cred = claims[k].cred
    PROVE  LiveInv'
<1>1. \A c \in Cred : creds[c].from # None =>
        creds[c].from \in Token /\ tokens[creds[c].from].gateway \in Gateway
  BY DEF IInv, TypeOK, CredRow, OriginOK
<1>2. NewestLive'
  BY <1>1 DEF LiveInv, NewestLive
<1>3. \A k \in ClaimSlot : Reading(k) =>
        claims[k].token \in Token /\ tokens[claims[k].token].gateway \in Gateway
  BY DEF IInv, ClaimOK, GoodClaim, Reading
<1>4. ASSUME NEW k \in ClaimSlot
      PROVE  ReadIsCurrent(k)'
  BY <1>3 DEF LiveInv, ReadIsCurrent, Reading
<1>5. QED
  BY <1>2, <1>4 DEF LiveInv

(* The first select reads what the row names; a token that is neither      *)
(* claimed nor pending has no credential.                                  *)
LEMMA LiveReadToken ==
    ASSUME IInv, LiveInv, NEW k \in ClaimSlot, ReadToken(k)
    PROVE  LiveInv'
<1> DEFINE t == claims[k].token
<1>1. UNCHANGED <<tokens, creds>> /\ t \in Token /\ claims[k] \in Claim
  BY DEF ReadToken, IInv, TypeOK, ClaimOK, GoodClaim
<1>2. NewestLive'
  BY <1>1 DEF LiveInv, NewestLive
<1>3. ASSUME NEW j \in ClaimSlot, j # k
      PROVE  ReadIsCurrent(j)'
  <2>1. claims'[j] = claims[j]
    BY <1>3 DEF ReadToken, IInv, TypeOK
  <2>2. QED
    BY <1>1, <2>1 DEF LiveInv, ReadIsCurrent, Reading
<1>4. CASE tokens[t].claimed \/ tokens[t].expired
  <2>1. claims'[k].stage = "refused"
    BY <1>1, <1>4 DEF ReadToken, tokenOf, IInv, TypeOK, Claim
  <2>2. QED
    BY <1>2, <1>3, <2>1 DEF LiveInv, ReadIsCurrent, Reading
<1>5. CASE ~(tokens[t].claimed \/ tokens[t].expired)
  <2>1. /\ claims'[k].token = t
        /\ claims'[k].pending = tokens[t].pending
        /\ claims'[k].cred = tokens[t].cred
    BY <1>1, <1>5 DEF ReadToken, tokenOf, IInv, TypeOK, Claim
  <2>2. tokens[t].pending \/ \A c \in Cred : creds[c].from # t
    <3>1. ASSUME NEW c \in Cred, creds[c].from = t
          PROVE  tokens[t].pending
      BY <1>1, <1>5, <3>1, NoneAssumption DEF IInv, PendingOK
    <3>2. QED
      BY <3>1
  <2>3. ReadIsCurrent(k)'
    BY <1>1, <2>1, <2>2 DEF ReadIsCurrent
  <2>4. QED
    BY <1>2, <1>3, <2>3 DEF LiveInv
<1>6. QED
  BY <1>4, <1>5

(* The commit revokes the credential that the row named, which is the only *)
(* one that can be live, and names the new one.                            *)
LEMMA LiveCommit ==
    ASSUME IInv, LiveInv, ClaimsApart, NEW k \in ClaimSlot, CommitClaim(k)
    PROVE  LiveInv'
<1> DEFINE t == claims[k].token
           abandoned == IF claims[k].pending THEN claims[k].cred ELSE None
<1>1. PICK c \in Cred :
        /\ creds[c].gateway = None
        /\ creds' = [d \in Cred |->
             IF d = c THEN [creds[d] EXCEPT !.gateway = tokens[t].gateway,
                                            !.from = t]
             ELSE IF d = abandoned THEN [creds[d] EXCEPT !.revoked = TRUE]
             ELSE creds[d]]
        /\ tokens' = [tokens EXCEPT ![t].pending = TRUE, ![t].cred = c]
        /\ claims' = [claims EXCEPT ![k] = [@ EXCEPT !.stage = "granted", !.cred = c]]
  BY DEF CommitClaim, tokenOf, NextCred
<1>2. /\ t \in Token /\ Reading(k)
      /\ claims \in [ClaimSlot -> Claim]
      /\ tokens \in [Token -> TokenRow] /\ creds \in [Cred -> CredRow]
  BY DEF CommitClaim, Reading, IInv, TypeOK, ClaimOK, GoodClaim
<1>3. /\ \A u \in Token : tokens'[u].cred = IF u = t THEN c ELSE tokens[u].cred
      /\ \A d \in Cred : creds'[d].from = IF d = c THEN t ELSE creds[d].from
      /\ \A d \in Cred : /\ creds[d].revoked /\ d # c => creds'[d].revoked
                         /\ d = abandoned /\ d # c => creds'[d].revoked
  BY <1>1, <1>2 DEF TokenRow, CredRow
<1>4. NewestLive'
  <2> SUFFICES ASSUME NEW d \in Cred, creds'[d].from # None, ~creds'[d].revoked
               PROVE  tokens'[creds'[d].from].cred = d
    BY DEF NewestLive
  <2>1. CASE d = c
    BY <1>2, <1>3, <2>1
  <2>2. CASE d # c
    <3>1. creds'[d].from = creds[d].from /\ ~creds[d].revoked /\ d # abandoned
      BY <1>3, <2>2
    <3>2. tokens[creds[d].from].cred = d /\ creds[d].from \in Token
      BY <1>2, <3>1 DEF LiveInv, NewestLive, CredRow
    <3>3. creds[d].from # t
      BY <1>2, <3>1, <3>2 DEF LiveInv, ReadIsCurrent
    <3>4. QED
      BY <1>3, <3>1, <3>2, <3>3
  <2>3. QED
    BY <2>1, <2>2
<1>5. ASSUME NEW j \in ClaimSlot
      PROVE  ReadIsCurrent(j)'
  <2>1. CASE j = k
    <3>1. claims'[k].stage = "granted"
      <4>1. claims[k] \in Claim
        BY <1>2
      <4>2. [claims[k] EXCEPT !.stage = "granted", !.cred = c].stage = "granted"
        BY <4>1 DEF Claim
      <4>3. claims'[k] = [claims[k] EXCEPT !.stage = "granted", !.cred = c]
        BY <1>1, <1>2
      <4> QED
        BY <4>2, <4>3
    <3>2. QED
      BY <2>1, <3>1 DEF ReadIsCurrent, Reading
  <2>2. CASE j # k
    <3>1. claims'[j] = claims[j]
      BY <1>1, <1>2, <2>2
    <3>2. ASSUME Reading(j)
          PROVE  claims[j].token # t /\ claims[j].token \in Token
      BY <1>2, <2>2, <3>2 DEF ClaimsApart, Reading, IInv, ClaimOK, GoodClaim
    <3>3. QED
      BY <1>3, <3>1, <3>2 DEF LiveInv, ReadIsCurrent, Reading
  <2>3. QED
    BY <2>1, <2>2
<1>6. QED
  BY <1>4, <1>5 DEF LiveInv

(* The console names no credential and gives its tokens none.              *)
LEMMA LiveConsole ==
    ASSUME IInv, LiveInv, Console
    PROVE  LiveInv'
<1>1. \A k \in ClaimSlot : claims'[k] = claims[k]
  BY DEF Console, CreateGateway, ReissueEnrollment, Revoke, ExpireToken, Install
<1>2. ASSUME NEW g \in Gateway, NEW t \in Token,
             CreateGateway(g, t) \/ ReissueEnrollment(g, t)
      PROVE  LiveInv'
  <2>1. creds' = creds /\ tokens[t].gateway = None
    BY <1>2 DEF CreateGateway, ReissueEnrollment
  <2>2. \A u \in Token : tokens'[u] = tokens[u] \/ u = t
    BY <1>2 DEF CreateGateway, ReissueEnrollment, IInv, TypeOK
  <2>3. \A u \in Token : tokens[u].gateway \in Gateway =>
          tokens'[u].cred = tokens[u].cred
    BY <2>1, <2>2, NoneAssumption
  <2>4. QED
    BY <1>1, <2>1, <2>3, LiveQuiet DEF Reading
<1>3. ASSUME NEW g \in Gateway, Revoke(g)
      PROVE  LiveInv'
  <2>1. /\ tokens' = tokens
        /\ \A c \in Cred : /\ creds'[c].from = creds[c].from
                           /\ creds[c].revoked => creds'[c].revoked
    BY <1>3 DEF Revoke, IInv, TypeOK, CredRow
  <2>2. QED
    BY <1>1, <2>1, LiveQuiet DEF Reading
<1>4. ASSUME NEW t \in Token, ExpireToken(t)
      PROVE  LiveInv'
  <2>1. creds' = creds /\ \A u \in Token : tokens'[u].cred = tokens[u].cred
    BY <1>4 DEF ExpireToken, IInv, TypeOK, TokenRow
  <2>2. QED
    BY <1>1, <2>1, LiveQuiet DEF Reading
<1>5. CASE UNCHANGED <<tokens, creds>>
  BY <1>1, <1>5, LiveQuiet DEF Reading
<1>6. QED
  BY <1>2, <1>3, <1>4, <1>5 DEF Console, Install

(* A claim of a process starts without having read anything.               *)
LEMMA LiveShim ==
    ASSUME IInv, LiveInv, NEW p \in Process, ShimStep(p)
    PROVE  LiveInv'
<1>1. UNCHANGED <<tokens, creds>>
  BY DEF ShimStep, StartEnrolled, Register, WriteCredential, SendRequest
<1>2. \A j \in ClaimSlot : claims'[j] = claims[j] \/ claims'[j].stage = "sent"
  BY DEF ShimStep, StartEnrolled, Register, WriteCredential, SendRequest,
         IInv, TypeOK, NoClaim
<1>3. QED
  BY <1>1, <1>2, LiveQuiet DEF Reading

(* The other steps of a claim end it or leave what it has read.            *)
LEMMA LiveClaim ==
    ASSUME IInv, LiveInv, ClaimsApart, NEW k \in ClaimSlot,
           ClaimStep(k) \/ ClaimFails(k) \/ LoseClaimReply(k)
    PROVE  LiveInv'
<1>1. CASE ReadGateway(k)
  <2>1. UNCHANGED <<tokens, creds>>
    BY <1>1 DEF ReadGateway
  <2>2. \A j \in ClaimSlot : claims'[j].stage \in {"token", "gateway"} =>
          /\ Reading(j)
          /\ claims'[j].token = claims[j].token
          /\ claims'[j].pending = claims[j].pending
          /\ claims'[j].cred = claims[j].cred
    BY <1>1 DEF ReadGateway, Reading, IInv, TypeOK, Claim
  <2>3. QED
    BY <2>1, <2>2, LiveQuiet
<1>2. CASE ReplyClaim(k) \/ ClaimFails(k) \/ LoseClaimReply(k)
  <2>1. UNCHANGED <<tokens, creds>>
    BY <1>2 DEF ReplyClaim, ClaimFails, LoseClaimReply, EndClaim
  <2>2. \A j \in ClaimSlot :
          claims'[j] = claims[j] \/ claims'[j].stage \in {"free", "failed"}
    BY <1>2 DEF ReplyClaim, ClaimFails, LoseClaimReply, EndClaim, NoClaim,
                IInv, TypeOK, Claim
  <2>3. QED
    BY <2>1, <2>2, LiveQuiet DEF Reading
<1>3. QED
  BY <1>1, <1>2, LiveReadToken, LiveCommit DEF ClaimStep

(* A request makes tokens final; it mints no credential.                   *)
LEMMA LiveBearer ==
    ASSUME IInv, LiveInv, NEW b \in BearerSlot, BearerStep(b)
    PROVE  LiveInv'
<1>1. claims' = claims
  BY DEF BearerStep, AuthenticateCredential, TouchSeen,
         CommitEnrollmentOnHeartbeat, Answer
<1>2. \A t \in Token : tokens'[t].cred = tokens[t].cred
  <2>1. CASE CommitEnrollmentOnHeartbeat(b)
    <3>1. ASSUME NEW t \in Token
          PROVE  /\ tokens[t] \in TokenRow
                 /\ \/ tokens'[t] = tokens[t]
                    \/ tokens'[t] = [tokens[t] EXCEPT !.claimed = TRUE, !.pending = FALSE]
      BY <2>1 DEF CommitEnrollmentOnHeartbeat, IInv, TypeOK
    <3>2. QED
      BY <3>1 DEF TokenRow
  <2>2. CASE tokens' = tokens
    BY <2>2
  <2>3. QED
    BY <2>1, <2>2 DEF BearerStep, AuthenticateCredential, TouchSeen, Answer
<1>3. \A c \in Cred : /\ creds'[c].from = creds[c].from
                      /\ creds'[c].revoked = creds[c].revoked
  <2>1. CASE creds' = [creds EXCEPT ![requests[b].cred].used = TRUE]
    BY <2>1 DEF IInv, TypeOK, CredRow
  <2>2. CASE creds' = creds
    BY <2>2
  <2>3. QED
    BY <2>1, <2>2 DEF BearerStep, AuthenticateCredential, TouchSeen,
                      CommitEnrollmentOnHeartbeat, Answer
<1>4. QED
  BY <1>1, <1>2, <1>3, LiveQuiet DEF Reading

(* A crash leaves a claim without its client.                              *)
LEMMA LiveCrash ==
    ASSUME IInv, LiveInv, NEW p \in Process, Crash(p)
    PROVE  LiveInv'
<1>1. UNCHANGED <<tokens, creds>>
  BY DEF Crash
<1>2. \A j \in ClaimSlot : /\ claims'[j].stage = claims[j].stage
                           /\ claims'[j].token = claims[j].token
                           /\ claims'[j].pending = claims[j].pending
                           /\ claims'[j].cred = claims[j].cred
  BY DEF Crash, IInv, TypeOK, Claim
<1>3. QED
  BY <1>1, <1>2, LiveQuiet DEF Reading

(* Every step keeps the invariant, as long as no two claims of one token   *)
(* overlap.                                                                *)
LEMMA LiveStep ==
    ASSUME IInv, LiveInv, ClaimsApart, [Next]_vars
    PROVE  LiveInv'
<1>1. CASE UNCHANGED vars
  BY <1>1 DEF vars, LiveInv, NewestLive, ReadIsCurrent, Reading
<1>2. QED
  BY <1>1, LiveConsole, LiveShim, LiveClaim, LiveBearer, LiveCrash
     DEF Next, Failure

(* A token whose claims do not overlap has one valid credential at most,   *)
(* whatever replies are lost and processes crash between its claims.       *)
THEOREM OneLive == Spec /\ []ClaimsApart => []OneLiveCredential
<1>1. Init => LiveInv
  BY DEF Init, LiveInv, NewestLive, ReadIsCurrent, Reading, NoClaim
<1>2. LiveInv => OneLiveCredential
  <2> SUFFICES ASSUME LiveInv, NEW t \in Token
               PROVE  Cardinality(LiveCreds(t)) <= 1
    BY DEF OneLiveCredential
  <2>1. Cardinality({}) = 0 /\ Cardinality({tokens[t].cred}) = 1
    BY FS_EmptySet, FS_Singleton
  <2>2. LiveCreds(t) \subseteq {tokens[t].cred}
    BY NoneAssumption DEF LiveCreds, LiveInv, NewestLive
  <2>3. LiveCreds(t) = {} \/ LiveCreds(t) = {tokens[t].cred}
    BY <2>2
  <2>4. QED
    BY <2>1, <2>3
<1>3. QED
  BY <1>1, <1>2, LiveStep, Invariance, PTL DEF Spec
=============================================================================
