------------------------- MODULE ConnectionsProofs -------------------------
(***************************************************************************)
(* What Connections promises of the tokens holds for any number of         *)
(* discoveries and callbacks at once, with a provider that rotates the     *)
(* refresh tokens and with one that does not.                              *)
(***************************************************************************)
EXTENDS Connections, TLAPS

-----------------------------------------------------------------------------
(* The inductive invariant.                                                 *)

(* A discovery that is past the upsert has left a server, which only the    *)
(* deletion of the connection removes.                                      *)
PastUpsert(t) == t.call # 0 \/ t.pc = "update"

(* Types; before its creation a connection has no tokens and no discovery.  *)
TypeInv ==
    /\ TypeOK
    /\ conn.life = "absent" =>
         /\ conn.secret = NoTokens /\ conn.status = "pending"
         /\ \A d \in Discoveries : discoveries[d] = NoDiscovery
    /\ \A d \in Discoveries : PastUpsert(discoveries[d]) /\ Present => server

(* Every refresh token that is held anywhere was issued.                    *)
AllIssued ==
    /\ conn.secret.refresh <= issued
    /\ \A d \in Discoveries : discoveries[d].secret.refresh <= issued
    /\ \A c \in Callbacks : callbacks[c].secret.refresh <= issued

(* A refreshed token that is still to be saved is good.                     *)
SavedIsGood(d) == At(d, "save") => lost \/ discoveries[d].secret.refresh \in good

(* If the provider rotates, no one else has it yet: until it is saved, no   *)
(* request can use it up.                                                   *)
OnlyCopy(d) ==
    rotates /\ At(d, "save") =>
      LET t == discoveries[d].secret.refresh
      IN /\ t # 0 /\ t # conn.secret.refresh
         /\ \A e \in Discoveries \ {d} : discoveries[e].secret.refresh # t
         /\ \A c \in Callbacks : callbacks[c].secret.refresh # t

(* If the connection holds one that is not good (any more), a discovery is  *)
(* about to save one that is, or to mark the connection unauthorized: the   *)
(* latter is of no use if a callback then marks it authorized.              *)
CanRefresh == lost \/ ~Present \/ conn.secret.refresh \in good \cup {0}
SaveIsDue  == \E d \in Discoveries : At(d, "save")
MarkIsDue  == \E d \in Discoveries : At(d, "mark")

TokenInv ==
    /\ AllIssued
    /\ \A d \in Discoveries : SavedIsGood(d) /\ OnlyCopy(d)
    /\ (\E c \in Callbacks : callbacks[c].pc = "authorize") => CanRefresh \/ SaveIsDue
    /\ conn.oauth = "authorized" => CanRefresh \/ SaveIsDue \/ MarkIsDue

IInv == TypeInv /\ TokenInv


-----------------------------------------------------------------------------
(* Discoveries and callbacks, step by step.                                 *)

(* Discovery d becomes t, and no other changes.                             *)
Becomes(d, t) ==
    /\ discoveries' \in [Discoveries -> Discovery]
    /\ discoveries'[d] = t /\ t \in Discovery
    /\ \A e \in Discoveries \ {d} : discoveries'[e] = discoveries[e]

(* Callback c becomes k, and no other changes.                              *)
Answers(c, k) ==
    /\ callbacks' \in [Callbacks -> Callback]
    /\ callbacks'[c] = k /\ k \in Callback
    /\ \A b \in Callbacks \ {c} : callbacks'[b] = callbacks[b]

(* The fields of a discovery.                                               *)
LEMMA OwnDiscovery ==
    ASSUME TypeInv, NEW d \in Discoveries
    PROVE  /\ discoveries \in [Discoveries -> Discovery]
           /\ discoveries[d] \in Discovery
           /\ discoveries[d].secret \in Secret /\ discoveries[d].call \in 0..Lists
BY DEF TypeInv, TypeOK, Discovery

(* The fields of a callback.                                                *)
LEMMA OwnCallback ==
    ASSUME TypeInv, NEW c \in Callbacks
    PROVE  /\ callbacks \in [Callbacks -> Callback]
           /\ callbacks[c] \in Callback /\ callbacks[c].secret \in Secret
BY DEF TypeInv, TypeOK, Callback

(* No tokens are a secret, and an idle discovery or callback has none.      *)
LEMMA NothingTyped ==
    /\ NoTokens \in Secret /\ NoTokens.refresh = 0
    /\ NoDiscovery \in Discovery /\ NoDiscovery.pc = "idle" /\ NoDiscovery.call = 0
    /\ NoDiscovery.secret = NoTokens
    /\ NoCallback \in Callback /\ NoCallback.pc = "idle" /\ NoCallback.secret = NoTokens
<1>1. NoTokens \in Secret /\ NoTokens.refresh = 0
  BY BoundsAreNatural DEF NoTokens, Secret
<1>2. NoCallback \in Callback /\ NoCallback.pc = "idle" /\ NoCallback.secret = NoTokens
  BY <1>1 DEF NoCallback, Callback
<1>3. NoDiscovery \in Discovery /\ NoDiscovery.pc = "idle" /\ NoDiscovery.call = 0
      /\ NoDiscovery.secret = NoTokens
  BY <1>1, BoundsAreNatural DEF NoDiscovery, Discovery
<1> QED
  BY <1>1, <1>2, <1>3

(* An update of one entry of discoveries is such a change.                  *)
LEMMA BecomesThat ==
    ASSUME TypeInv, NEW d \in Discoveries, NEW t \in Discovery,
           discoveries' = [discoveries EXCEPT ![d] = t]
    PROVE  Becomes(d, t)
BY OwnDiscovery DEF Becomes

(* An update of one entry of callbacks is such a change.                    *)
LEMMA AnswersThat ==
    ASSUME TypeInv, NEW c \in Callbacks, NEW k \in Callback,
           callbacks' = [callbacks EXCEPT ![c] = k]
    PROVE  Answers(c, k)
BY OwnCallback DEF Answers

(* A discovery that goes to another point and takes nothing with it.        *)
LEMMA GoneTo ==
    ASSUME TypeInv, NEW d \in Discoveries,
           NEW pc \in {"load", "send", "upsert", "update", "record"}, Goto(d, pc)
    PROVE  \E t : /\ Becomes(d, t)
                  /\ t.pc = pc /\ t.call = discoveries[d].call /\ t.secret = discoveries[d].secret
<1> DEFINE t == [discoveries[d] EXCEPT !.pc = pc]
<1>1. t \in Discovery /\ t.pc = pc /\ t.call = discoveries[d].call
      /\ t.secret = discoveries[d].secret
  BY OwnDiscovery DEF Discovery
<1>2. discoveries' = [discoveries EXCEPT ![d] = t]
  BY DEF Goto
<1> HIDE DEF t
<1>3. Becomes(d, t)
  BY <1>1, <1>2, BecomesThat
<1> QED
  BY <1>1, <1>3

(* A discovery that is over.                                                *)
LEMMA Ended ==
    ASSUME TypeInv, NEW d \in Discoveries, EndDiscovery(d)
    PROVE  Becomes(d, NoDiscovery)
BY NothingTyped, BecomesThat DEF EndDiscovery

(* A discovery that takes a secret with it.                                 *)
Takes(d, pc, s) == discoveries' = [discoveries EXCEPT ![d].pc = pc, ![d].secret = s]

(* What becomes of its fields.                                              *)
LEMMA SecretTaken ==
    ASSUME TypeInv, NEW d \in Discoveries, NEW s \in Secret, NEW pc \in {"refresh", "save", "send"},
           Takes(d, pc, s)
    PROVE  \E t : /\ Becomes(d, t)
                  /\ t.pc = pc /\ t.call = discoveries[d].call /\ t.secret = s
<1> DEFINE t == [discoveries[d] EXCEPT !.pc = pc, !.secret = s]
<1>1. t \in Discovery /\ t.pc = pc /\ t.call = discoveries[d].call /\ t.secret = s
  BY OwnDiscovery DEF Discovery
<1>2. discoveries' = [discoveries EXCEPT ![d] = t]
  BY DEF Takes
<1> HIDE DEF t
<1>3. Becomes(d, t)
  BY <1>1, <1>2, BecomesThat
<1> QED
  BY <1>1, <1>3

(* The request that is sent has no refresh token.                           *)
LEMMA Sent ==
    ASSUME TypeInv, NEW d \in Discoveries, GoSend(d)
    PROVE  \E t : /\ Becomes(d, t)
                  /\ t.pc = "send" /\ t.call = discoveries[d].call /\ t.secret.refresh = 0
<1>1. NoTokens \in Secret /\ NoTokens.refresh = 0
  BY NothingTyped
<1>2. Takes(d, "send", NoTokens)
  BY DEF GoSend, Takes
<1>3. \E t : Becomes(d, t) /\ t.pc = "send" /\ t.call = discoveries[d].call /\ t.secret = NoTokens
  BY <1>1, <1>2, SecretTaken
<1> QED
  BY <1>1, <1>3

(* A discovery whose refresh has failed.                                    *)
LEMMA Marked ==
    ASSUME TypeInv, NEW d \in Discoveries, NEW error \in {"reauth", "error"}, MarkFor(d, error)
    PROVE  \E t : /\ Becomes(d, t)
                  /\ t.pc = "mark" /\ t.call = discoveries[d].call /\ t.secret.refresh = 0
<1> DEFINE t == [discoveries[d] EXCEPT !.pc = "mark", !.secret = NoTokens, !.error = error]
<1>1. t \in Discovery /\ t.pc = "mark" /\ t.call = discoveries[d].call /\ t.secret.refresh = 0
  BY OwnDiscovery, NothingTyped DEF Discovery
<1>2. discoveries' = [discoveries EXCEPT ![d] = t]
  BY DEF MarkFor
<1> HIDE DEF t
<1>3. Becomes(d, t)
  BY <1>1, <1>2, BecomesThat
<1> QED
  BY <1>1, <1>3

(* A discovery that goes on after a call, whether it succeeded or not.      *)
LEMMA CallOver ==
    ASSUME TypeInv, NEW d \in Discoveries, AfterCall(d)
    PROVE  \E t : /\ Becomes(d, t)
                  /\ t.pc \in {"update", "load", "send"}
                  /\ t.secret.refresh \in {0, discoveries[d].secret.refresh}
<1> DEFINE call == discoveries[d].call + 1
           t == [NoDiscovery EXCEPT !.pc = Request, !.call = call]
<1>1. CASE discoveries[d].call = Lists
  <2>1. Goto(d, "update")
    BY <1>1 DEF AfterCall
  <2>2. \E u : Becomes(d, u) /\ u.pc = "update" /\ u.secret = discoveries[d].secret
    BY <2>1, GoneTo
  <2> QED
    BY <2>2
<1>2. CASE discoveries[d].call # Lists
  <2>1. call \in 0..Lists /\ Request \in {"load", "send"}
    BY <1>2, OwnDiscovery, BoundsAreNatural DEF Request
  <2>2. discoveries' = [discoveries EXCEPT ![d] = t]
    BY <1>2 DEF AfterCall
  <2> HIDE DEF call
  <2>3. t \in Discovery /\ t.pc = Request /\ t.secret = NoTokens
    BY <2>1, NothingTyped DEF Discovery
  <2> HIDE DEF t
  <2>4. Becomes(d, t)
    BY <2>2, <2>3, BecomesThat
  <2> QED
    BY <2>1, <2>3, <2>4, NothingTyped
<1> QED
  BY <1>1, <1>2

(* A discovery that goes on after a failure: what fails a list goes on as   *)
(* after a call, and what fails initialize ends the discovery.              *)
LEMMA Failed ==
    ASSUME TypeInv, NEW d \in Discoveries, NEW error \in {"none", "reauth", "error"},
           CallFailed(d, error)
    PROVE  \E t : /\ Becomes(d, t)
                  /\ t.pc \notin {"save", "mark"}
                  /\ t.secret.refresh \in {0, discoveries[d].secret.refresh}
                  /\ PastUpsert(t) => PastUpsert(discoveries[d])
<1> DEFINE pc == IF error = "reauth" THEN "reauth" ELSE "record"
           t == [NoDiscovery EXCEPT !.pc = pc]
<1>1. CASE discoveries[d].call = 0
  <2>1. pc \in {"reauth", "record"}
    OBVIOUS
  <2>2. discoveries' = [discoveries EXCEPT ![d] = t]
    BY <1>1 DEF CallFailed
  <2> HIDE DEF pc
  <2>3. t \in Discovery /\ t.pc = pc /\ t.call = 0 /\ t.secret = NoTokens
    BY <2>1, NothingTyped DEF Discovery
  <2> HIDE DEF t
  <2>4. Becomes(d, t)
    BY <2>2, <2>3, BecomesThat
  <2> QED
    BY <2>1, <2>3, <2>4, NothingTyped DEF PastUpsert
<1>2. CASE discoveries[d].call # 0
  <2>1. AfterCall(d)
    BY <1>2 DEF CallFailed
  <2> QED
    BY <1>2, <2>1, CallOver DEF PastUpsert
<1> QED
  BY <1>1, <1>2

-----------------------------------------------------------------------------
(* What the steps of a discovery have in common.                            *)

(* Steps of a discovery other than the grant of a refresh.                  *)
QuietStep(d) ==
    \/ StartDiscover(d) \/ LoadAuthSecret(d) \/ RefreshRefused(d) \/ RefreshFails(d)
    \/ MarkOAuthStatus(d) \/ SaveAuthSecret(d) \/ SaveFails(d)
    \/ Send(d) \/ UpsertMCPServer(d) \/ DiscoverHangs(d)
    \/ RecordReauth(d) \/ RecordError(d) \/ UpdateAfterDiscovery(d) \/ DiscoverFails(d)

(* The discovery becomes one that has nothing to save and no refresh token  *)
(* that was not there; it comes past the upsert only by the upsert.         *)
Moves(d, t) ==
    /\ Becomes(d, t)
    /\ t.pc # "save"
    /\ t.secret.refresh \in {0, discoveries[d].secret.refresh, conn.secret.refresh}
    /\ PastUpsert(t) => PastUpsert(discoveries[d]) \/ server'

(* Every such step does this, and a refresh that fails is marked.           *)
LEMMA QuietMoves ==
    ASSUME TypeInv, NEW d \in Discoveries, QuietStep(d)
    PROVE  \E t : Moves(d, t) /\ (RefreshRefused(d) \/ RefreshFails(d) => t.pc = "mark")
<1> DEFINE G == \E t : Moves(d, t) /\ (RefreshRefused(d) \/ RefreshFails(d) => t.pc = "mark")
<1>secret. conn.secret \in Secret /\ discoveries[d].secret \in Secret
  BY OwnDiscovery DEF TypeInv, TypeOK, ConnRow
<1>refresh. RefreshRefused(d) \/ RefreshFails(d) => discoveries[d].pc = "refresh"
  BY DEF RefreshRefused, RefreshFails, At
<1>1. CASE StartDiscover(d)
  <2>1. Goto(d, Request) /\ Request \in {"load", "send"} /\ discoveries[d].pc = "idle"
    BY <1>1 DEF StartDiscover, Request, At
  <2>2. \E t : /\ Becomes(d, t) /\ t.pc = Request /\ t.call = discoveries[d].call
               /\ t.secret = discoveries[d].secret
    BY <2>1, GoneTo
  <2> QED
    BY <2>1, <2>2, <1>refresh DEF Moves, PastUpsert
<1>2. CASE LoadAuthSecret(d)
  <2>pc. discoveries[d].pc = "load"
    BY <1>2 DEF LoadAuthSecret, At
  <2>1. CASE Present /\ NeedsRefresh(conn.secret)
    <3>1. Takes(d, "refresh", conn.secret)
      BY <1>2, <2>1 DEF LoadAuthSecret, Takes
    <3>2. \E t : /\ Becomes(d, t) /\ t.pc = "refresh" /\ t.call = discoveries[d].call
                 /\ t.secret = conn.secret
      BY <3>1, <1>secret, SecretTaken
    <3> QED
      BY <3>2, <2>pc, <1>refresh DEF Moves, PastUpsert
  <2>2. CASE Present /\ ~NeedsRefresh(conn.secret)
    <3>1. GoSend(d)
      BY <1>2, <2>2 DEF LoadAuthSecret
    <3> QED
      BY <3>1, <2>pc, <1>secret, <1>refresh, Sent DEF Moves, PastUpsert
  <2>3. CASE ~Present
    <3>1. CallFailed(d, "error")
      BY <1>2, <2>3 DEF LoadAuthSecret
    <3> QED
      BY <3>1, <2>pc, <1>refresh, Failed DEF Moves
  <2> QED
    BY <2>1, <2>2, <2>3
<1>3. CASE RefreshRefused(d) \/ RefreshFails(d)
  <2>1. \E error \in {"reauth", "error"} : MarkFor(d, error)
    BY <1>3 DEF RefreshRefused, RefreshFails
  <2>2. \E t : /\ Becomes(d, t) /\ t.pc = "mark" /\ t.call = discoveries[d].call
               /\ t.secret.refresh = 0
    BY <2>1, Marked
  <2> QED
    BY <2>2 DEF Moves, PastUpsert
<1>4. CASE MarkOAuthStatus(d)
  <2>1. /\ CallFailed(d, discoveries[d].error) /\ discoveries[d].pc = "mark"
        /\ discoveries[d].error \in {"none", "reauth", "error"}
    BY <1>4, OwnDiscovery DEF MarkOAuthStatus, At, Discovery
  <2> QED
    BY <2>1, <1>refresh, Failed DEF Moves
<1>5. CASE SaveAuthSecret(d)
  <2>pc. discoveries[d].pc = "save"
    BY <1>5 DEF SaveAuthSecret, At
  <2>1. CASE GoSend(d)
    BY <2>1, <2>pc, <1>secret, <1>refresh, Sent DEF Moves, PastUpsert
  <2>2. CASE CallFailed(d, "error")
    BY <2>2, <2>pc, <1>refresh, Failed DEF Moves
  <2> QED
    BY <1>5, <2>1, <2>2 DEF SaveAuthSecret
<1>6. CASE SaveFails(d)
  <2>1. CallFailed(d, "error") /\ discoveries[d].pc = "save"
    BY <1>6 DEF SaveFails, At
  <2> QED
    BY <2>1, <1>refresh, Failed DEF Moves
<1>7. CASE Send(d)
  <2>pc. discoveries[d].pc = "send"
    BY <1>7 DEF Send, At
  <2>1. CASE discoveries[d].call = 0 /\ Goto(d, "upsert")
    <3>1. \E t : /\ Becomes(d, t) /\ t.pc = "upsert" /\ t.call = discoveries[d].call
                 /\ t.secret = discoveries[d].secret
      BY <2>1, GoneTo
    <3> QED
      BY <3>1, <2>pc, <1>refresh DEF Moves, PastUpsert
  <2>2. CASE discoveries[d].call # 0 /\ AfterCall(d)
    BY <2>2, <2>pc, <1>refresh, CallOver DEF Moves, PastUpsert
  <2>3. CASE CallFailed(d, "error")
    BY <2>3, <2>pc, <1>refresh, Failed DEF Moves
  <2> QED
    BY <1>7, <2>1, <2>2, <2>3 DEF Send
<1>8. CASE UpsertMCPServer(d)
  <2>pc. discoveries[d].pc = "upsert"
    BY <1>8 DEF UpsertMCPServer, At
  <2>1. CASE server' = TRUE /\ AfterCall(d)
    BY <2>1, <2>pc, <1>refresh, CallOver DEF Moves
  <2>2. CASE CallFailed(d, "error")
    BY <2>2, <2>pc, <1>refresh, Failed DEF Moves
  <2> QED
    BY <1>8, <2>1, <2>2 DEF UpsertMCPServer
<1>9. CASE RecordReauth(d)
  <2>1. Goto(d, "record") /\ discoveries[d].pc = "reauth"
    BY <1>9 DEF RecordReauth, At
  <2>2. \E t : /\ Becomes(d, t) /\ t.pc = "record" /\ t.call = discoveries[d].call
               /\ t.secret = discoveries[d].secret
    BY <2>1, GoneTo
  <2> QED
    BY <2>1, <2>2, <1>refresh DEF Moves, PastUpsert
<1>10. CASE RecordError(d) \/ UpdateAfterDiscovery(d)
  <2>1. EndDiscovery(d) /\ discoveries[d].pc \in {"record", "update"}
    BY <1>10 DEF RecordError, UpdateAfterDiscovery, At
  <2> QED
    BY <2>1, <1>refresh, Ended, NothingTyped DEF Moves, PastUpsert
<1>11. CASE (DiscoverFails(d) \/ DiscoverHangs(d)) /\ ~(RefreshRefused(d) \/ RefreshFails(d))
  <2>1. EndDiscovery(d)
    BY <1>11 DEF DiscoverFails, DiscoverHangs
  <2> QED
    BY <2>1, <1>11, Ended, NothingTyped DEF Moves, PastUpsert
<1> QED
  BY <1>1, <1>2, <1>3, <1>4, <1>5, <1>6, <1>7, <1>8, <1>9, <1>10, <1>11 DEF QuietStep

(* A granted refresh: a new token if the provider rotates, else the old.    *)
LEMMA GrantedMoves ==
    ASSUME TypeInv, NEW d \in Discoveries, RefreshGranted(d)
    PROVE  LET old == discoveries[d].secret.refresh
               new == IF rotates THEN issued + 1 ELSE old
           IN /\ old \in good
              /\ \E t : Becomes(d, t) /\ t.pc = "save" /\ t.call = discoveries[d].call
                        /\ t.secret.refresh = new
              /\ new \in 1..MaxTokens
              /\ IF rotates THEN issued' = new /\ good' = (good \ {old}) \cup {new}
                 ELSE UNCHANGED <<issued, good>>
<1> DEFINE old == discoveries[d].secret
           new == IF rotates THEN issued + 1 ELSE old.refresh
<1>1. /\ old.refresh \in good
      /\ rotates => issued < MaxTokens
      /\ \E s \in TokenResponses(old, new) : Takes(d, "save", s)
      /\ IF rotates THEN issued' = new /\ good' = (good \ {old.refresh}) \cup {new}
         ELSE UNCHANGED <<issued, good>>
  BY DEF RefreshGranted, Takes
<1>2. new \in 1..MaxTokens
  <2>1. issued \in 0..MaxTokens /\ good \subseteq 1..issued
    BY DEF TypeInv, TypeOK
  <2>2. CASE rotates
    BY <1>1, <2>1, <2>2, BoundsAreNatural
  <2>3. CASE ~rotates
    <3>1. new \in 1..issued
      BY <1>1, <2>1, <2>3
    <3> QED
      BY <2>1, <3>1, BoundsAreNatural
  <2> QED
    BY <2>2, <2>3
<1>def. new = (IF rotates THEN issued + 1 ELSE old.refresh) /\ old = discoveries[d].secret
  OBVIOUS
<1> HIDE DEF old, new
<1>3. \A s \in TokenResponses(old, new) : s \in Secret /\ s.refresh = new
  BY <1>2, BoundsAreNatural DEF TokenResponses, Secret
<1>4. \E t : Becomes(d, t) /\ t.pc = "save" /\ t.call = discoveries[d].call /\ t.secret.refresh = new
  <2> PICK s \in TokenResponses(old, new) : Takes(d, "save", s)
    BY <1>1
  <2>1. \E t : Becomes(d, t) /\ t.pc = "save" /\ t.call = discoveries[d].call /\ t.secret = s
    BY <1>3, SecretTaken
  <2> QED
    BY <2>1, <1>3
<1> QED
  BY <1>1, <1>2, <1>4, <1>def

-----------------------------------------------------------------------------
(* The row of the connection.                                               *)

(* What no step of a discovery changes of the row: a save replaces the      *)
(* secret, and nothing makes the connection authorized.                     *)
RowKept(d) ==
    /\ conn' \in ConnRow /\ conn'.life = conn.life
    /\ conn'.oauth = "authorized" => conn.oauth = "authorized"
    /\ conn'.secret = IF SaveAuthSecret(d) /\ Present THEN discoveries[d].secret ELSE conn.secret
    /\ conn'.status = "healthy" => conn.status = "healthy" \/ PastUpsert(discoveries[d])

(* Every step of a discovery does this.                                     *)
LEMMA DiscoveryKeepsRow ==
    ASSUME TypeInv, NEW d \in Discoveries, QuietStep(d) \/ RefreshGranted(d)
    PROVE  RowKept(d)
<1>row. conn \in ConnRow
  BY DEF TypeInv, TypeOK
<1>1. CASE SaveAuthSecret(d) /\ Present
  <2>1. discoveries[d].secret \in Secret /\ conn' = [conn EXCEPT !.secret = discoveries[d].secret]
    BY <1>1, OwnDiscovery DEF SaveAuthSecret
  <2> QED
    BY <1>1, <2>1, <1>row DEF RowKept, ConnRow
<1>2. CASE ~(SaveAuthSecret(d) /\ Present)
  <2>1. \/ conn' = conn
        \/ conn' = [conn EXCEPT !.oauth = "needs_reauth"]
        \/ conn' = [conn EXCEPT !.status = "error"]
        \/ conn' = [conn EXCEPT !.status = "healthy"] /\ At(d, "update")
    <3>1. CASE StartDiscover(d) \/ LoadAuthSecret(d) \/ RefreshGranted(d) \/ RefreshRefused(d)
               \/ RefreshFails(d) \/ SaveFails(d) \/ Send(d) \/ UpsertMCPServer(d)
               \/ DiscoverHangs(d) \/ DiscoverFails(d)
      BY <3>1 DEF StartDiscover, LoadAuthSecret, RefreshGranted, RefreshRefused, RefreshFails,
                  SaveFails, Send, UpsertMCPServer, DiscoverHangs, DiscoverFails
    <3>2. CASE SaveAuthSecret(d)
      BY <1>2, <3>2 DEF SaveAuthSecret
    <3>3. CASE MarkOAuthStatus(d) \/ RecordReauth(d) \/ RecordError(d) \/ UpdateAfterDiscovery(d)
      BY <3>3 DEF MarkOAuthStatus, RecordReauth, RecordError, UpdateAfterDiscovery
    <3> QED
      BY <3>1, <3>2, <3>3 DEF QuietStep
  <2> QED
    BY <1>2, <2>1, <1>row DEF RowKept, ConnRow, At, PastUpsert
<1> QED
  BY <1>1, <1>2

(* The rest of the state, in the steps of a discovery.                      *)
LEMMA DiscoveryFrame ==
    ASSUME TypeInv, NEW d \in Discoveries, QuietStep(d) \/ RefreshGranted(d)
    PROVE  /\ UNCHANGED <<authorizations, callbacks, rotates>>
           /\ server => server'
           /\ server' # server => server' = TRUE /\ Present
           /\ lost => lost'
           /\ lost' \in BOOLEAN
           /\ faults' \in 0..MaxFaults
           /\ ~RefreshGranted(d) => issued' = issued /\ good' \subseteq good
           /\ ~RefreshGranted(d) /\ ~RefreshRefused(d) => good' = good \/ lost'
<1>fault. ASSUME Fault PROVE faults' \in 0..MaxFaults
  BY <1>fault, BoundsAreNatural DEF Fault, TypeInv, TypeOK
<1>types. lost \in BOOLEAN /\ server \in BOOLEAN /\ faults \in 0..MaxFaults
  BY DEF TypeInv, TypeOK
<1>1. CASE StartDiscover(d) \/ LoadAuthSecret(d) \/ Send(d)
  BY <1>1, <1>types DEF StartDiscover, LoadAuthSecret, Send, provider
<1>2. CASE RefreshGranted(d)
  BY <1>2, <1>types DEF RefreshGranted
<1>3. CASE RefreshRefused(d)
  BY <1>3, <1>types DEF RefreshRefused
<1>4. CASE RefreshFails(d)
  BY <1>4, <1>fault, <1>types DEF RefreshFails
<1>5. CASE SaveFails(d) \/ DiscoverFails(d)
  BY <1>5, <1>fault, <1>types DEF SaveFails, DiscoverFails, provider
<1>6. CASE MarkOAuthStatus(d) \/ SaveAuthSecret(d) \/ UpsertMCPServer(d)
  BY <1>6, <1>types DEF MarkOAuthStatus, SaveAuthSecret, UpsertMCPServer, provider
<1>7. CASE RecordReauth(d) \/ RecordError(d) \/ UpdateAfterDiscovery(d)
  BY <1>7, <1>types DEF RecordReauth, RecordError, UpdateAfterDiscovery, provider
<1>8. CASE DiscoverHangs(d)
  BY <1>8, <1>types DEF DiscoverHangs
<1> QED
  BY <1>1, <1>2, <1>3, <1>4, <1>5, <1>6, <1>7, <1>8 DEF QuietStep

-----------------------------------------------------------------------------
(* Types.                                                                   *)

(* Initially the connection is absent and nobody is at work on it.          *)
LEMMA TypeInit == Init => TypeInv
<1> SUFFICES ASSUME Init PROVE TypeInv
  OBVIOUS
<1>1. /\ conn \in ConnRow /\ conn.life = "absent" /\ conn.secret = NoTokens
      /\ conn.status = "pending"
  BY NothingTyped DEF Init, ConnRow
<1>2. \A d \in Discoveries : discoveries[d] = NoDiscovery
  BY DEF Init
<1>3. \A d \in Discoveries : ~PastUpsert(discoveries[d])
  BY <1>2, NothingTyped DEF PastUpsert
<1>4. /\ server \in BOOLEAN /\ lost \in BOOLEAN /\ rotates \in BOOLEAN
      /\ server = FALSE
  BY DEF Init
<1>5. /\ states = 0 /\ starts = 0 /\ good = {} /\ issued = 0 /\ faults = 0
      /\ discoveries \in [Discoveries -> Discovery] /\ callbacks \in [Callbacks -> Callback]
  BY NothingTyped DEF Init
<1>6. /\ states \in 0..starts /\ starts \in 0..MaxStarts /\ good \subseteq 1..issued
      /\ issued \in 0..MaxTokens /\ faults \in 0..MaxFaults
  BY <1>5, BoundsAreNatural
<1>7. TypeOK
  BY <1>1, <1>4, <1>5, <1>6 DEF TypeOK, Present
<1> QED
  BY <1>1, <1>2, <1>3, <1>7 DEF TypeInv

(* A discovery keeps the types: it may insert the server only while the     *)
(* connection is there, and makes it healthy only after that.               *)
LEMMA DiscoveryTypes ==
    ASSUME TypeInv, NEW d \in Discoveries, QuietStep(d) \/ RefreshGranted(d)
    PROVE  TypeInv'
<1>1. \E t : Becomes(d, t) /\ (PastUpsert(t) => PastUpsert(discoveries[d]) \/ server')
  BY QuietMoves, GrantedMoves DEF Moves, PastUpsert
<1>2. RowKept(d)
  BY DiscoveryKeepsRow
<1>3. /\ UNCHANGED <<states, starts, callbacks, rotates>>
      /\ server => server'
      /\ server' # server => server' = TRUE /\ Present
      /\ lost' \in BOOLEAN /\ faults' \in 0..MaxFaults
  BY DiscoveryFrame DEF authorizations
<1>4. good' \subseteq 1..issued' /\ issued' \in 0..MaxTokens
  <2>types. good \subseteq 1..issued /\ issued \in 0..MaxTokens
    BY DEF TypeInv, TypeOK
  <2>1. CASE RefreshGranted(d) /\ rotates
    <3>1. issued' = issued + 1 /\ issued' \in 1..MaxTokens
          /\ good' = (good \ {discoveries[d].secret.refresh}) \cup {issued'}
      BY <2>1, GrantedMoves
    <3>2. issued' \in 0..MaxTokens
      BY <3>1, BoundsAreNatural
    <3>3. \A x \in 1..issued : x \in 1..(issued + 1)
      BY <2>types, BoundsAreNatural
    <3>4. issued + 1 \in 1..(issued + 1)
      BY <2>types, BoundsAreNatural
    <3>5. good' \subseteq 1..(issued + 1)
      BY <3>1, <3>3, <3>4, <2>types
    <3> QED
      BY <3>1, <3>2, <3>5
  <2>2. CASE RefreshGranted(d) /\ ~rotates
    BY <2>2, <2>types, GrantedMoves
  <2>3. CASE ~RefreshGranted(d)
    BY <2>3, <2>types, DiscoveryFrame
  <2> QED
    BY <2>1, <2>2, <2>3
<1>5. conn.life # "absent"
  <2>1. ASSUME conn.life = "absent" PROVE FALSE
    <3>1. discoveries[d].pc = "idle"
      BY <2>1, NothingTyped DEF TypeInv
    <3> QED
      BY <2>1, <3>1 DEF QuietStep, RefreshGranted, At, StartDiscover, MayDiscover, Present,
           LoadAuthSecret, RefreshRefused, RefreshFails, MarkOAuthStatus, SaveAuthSecret, SaveFails,
           Send, UpsertMCPServer, RecordReauth, RecordError, UpdateAfterDiscovery, DiscoverHangs,
           DiscoverFails
  <2> QED
    BY <2>1
<1>6. conn'.life # "absent" /\ (Present' <=> Present)
  BY <1>2, <1>5 DEF RowKept, Present
<1>7. Present' /\ conn'.status = "healthy" => server'
  BY <1>2, <1>3, <1>6 DEF RowKept, TypeInv, TypeOK
<1>8. \A e \in Discoveries : PastUpsert(discoveries'[e]) /\ Present' => server'
  BY <1>1, <1>3, <1>6 DEF TypeInv, Becomes
<1>9. server' \in BOOLEAN /\ (~Present' => ~server')
  BY <1>3, <1>6 DEF TypeInv, TypeOK
<1> QED
  BY <1>1, <1>2, <1>3, <1>4, <1>6, <1>7, <1>8, <1>9 DEF TypeInv, TypeOK, RowKept, Becomes, PastUpsert, Present

(* A callback that starts, or goes on without a new token.                  *)
QuietAnswer(c) ==
    \/ TakeOAuthState(c) \/ GetWithSecret(c) \/ RefuseCallback(c) \/ Authorize(c) \/ CallbackFails(c)
    \/ SaveTokens(c)
    \/ ExchangeCode(c) /\ issued' = issued

(* A callback that takes a secret with it.                                  *)
Brings(c, pc, s) == callbacks' = [callbacks EXCEPT ![c].pc = pc, ![c].secret = s]

(* It has no refresh token that was not there.                              *)
LEMMA QuietAnswers ==
    ASSUME TypeInv, NEW c \in Callbacks, QuietAnswer(c)
    PROVE  \E k : /\ Answers(c, k)
                  /\ k.pc = "authorize" <=> SaveTokens(c) /\ Present
                  /\ k.secret.refresh \in {0, callbacks[c].secret.refresh, conn.secret.refresh}
<1> DEFINE G == \E k : /\ Answers(c, k)
                       /\ k.pc = "authorize" <=> SaveTokens(c) /\ Present
                       /\ k.secret.refresh \in {0, callbacks[c].secret.refresh, conn.secret.refresh}
<1>own. /\ callbacks[c] \in Callback /\ callbacks[c].secret \in Secret /\ conn.secret \in Secret
        /\ SaveTokens(c) => callbacks[c].pc = "save"
  BY OwnCallback DEF TypeInv, TypeOK, ConnRow, SaveTokens
<1>end. ASSUME EndCallback(c), callbacks[c].pc # "save" \/ ~Present PROVE G
  <2>1. Answers(c, NoCallback)
    BY <1>end, NothingTyped, AnswersThat DEF EndCallback
  <2> QED
    BY <2>1, <1>end, <1>own, NothingTyped
<1>at. ASSUME NEW pc \in {"get", "refuse", "idle"}, CallbackAt(c, pc), callbacks[c].pc # "save" PROVE G
  <2> DEFINE k == [callbacks[c] EXCEPT !.pc = pc]
  <2>1. k \in Callback /\ k.pc = pc /\ k.secret = callbacks[c].secret
    BY <1>own DEF Callback
  <2>2. callbacks' = [callbacks EXCEPT ![c] = k]
    BY <1>at DEF CallbackAt
  <2> HIDE DEF k
  <2>3. Answers(c, k)
    BY <2>1, <2>2, AnswersThat
  <2> QED
    BY <2>1, <2>3, <1>at, <1>own
<1>with. ASSUME NEW pc \in {"exchange", "save"}, NEW s \in Secret,
                s.refresh \in {callbacks[c].secret.refresh, conn.secret.refresh},
                Brings(c, pc, s),
                callbacks[c].pc # "save"
         PROVE  G
  <2> DEFINE k == [callbacks[c] EXCEPT !.pc = pc, !.secret = s]
  <2>1. k \in Callback /\ k.pc = pc /\ k.secret = s
    BY <1>own DEF Callback
  <2>2. callbacks' = [callbacks EXCEPT ![c] = k]
    BY <1>with DEF Brings
  <2> HIDE DEF k
  <2>3. Answers(c, k)
    BY <2>1, <2>2, AnswersThat
  <2> QED
    BY <2>1, <2>3, <1>with, <1>own
<1>1. CASE TakeOAuthState(c)
  <2>1. \E answer \in {"get", "refuse", "idle"} : CallbackAt(c, answer)
    BY <1>1 DEF TakeOAuthState
  <2> QED
    BY <2>1, <1>1, <1>at DEF TakeOAuthState
<1>2. CASE GetWithSecret(c)
  <2>pc. callbacks[c].pc = "get"
    BY <1>2 DEF GetWithSecret
  <2>1. CASE Present
    <3>1. Brings(c, "exchange", conn.secret)
      BY <1>2, <2>1 DEF GetWithSecret, Brings
    <3> QED
      BY <3>1, <2>pc, <1>own, <1>with
  <2>2. CASE ~Present
    BY <1>2, <2>2, <1>end DEF GetWithSecret
  <2> QED
    BY <2>1, <2>2
<1>3. CASE RefuseCallback(c) \/ Authorize(c)
  <2>1. EndCallback(c) /\ callbacks[c].pc \in {"refuse", "authorize"}
    BY <1>3 DEF RefuseCallback, Authorize
  <2> QED
    BY <2>1, <1>end
<1>4. CASE SaveTokens(c) /\ ~Present
  BY <1>4, <1>end DEF SaveTokens
<1>5. CASE SaveTokens(c) /\ Present
  <2> DEFINE k == [NoCallback EXCEPT !.pc = "authorize"]
  <2>1. k \in Callback /\ k.pc = "authorize" /\ k.secret = NoTokens
    BY NothingTyped DEF Callback
  <2>2. callbacks' = [callbacks EXCEPT ![c] = k]
    BY <1>5 DEF SaveTokens
  <2> HIDE DEF k
  <2>3. Answers(c, k)
    BY <2>1, <2>2, AnswersThat
  <2> QED
    BY <2>1, <2>3, <1>5, NothingTyped
<1>6. CASE ExchangeCode(c) /\ issued' = issued
  <2>pc. callbacks[c].pc = "exchange"
    BY <1>6 DEF ExchangeCode
  <2>1. CASE CallbackAt(c, "refuse")
    BY <2>1, <2>pc, <1>at
  <2>2. CASE \E s \in TokenResponses(callbacks[c].secret, callbacks[c].secret.refresh) :
                Brings(c, "save", s)
    <3>1. PICK s \in TokenResponses(callbacks[c].secret, callbacks[c].secret.refresh) :
                Brings(c, "save", s)
      BY <2>2
    <3>2. s \in Secret /\ s.refresh = callbacks[c].secret.refresh
      BY <1>own DEF TokenResponses, Secret
    <3> QED
      BY <3>1, <3>2, <2>pc, <1>own, <1>with
  <2>3. issued \in Nat
    BY BoundsAreNatural DEF TypeInv, TypeOK
  <2> QED
    BY <1>6, <2>1, <2>2, <2>3 DEF ExchangeCode, Brings
<1>7. CASE CallbackFails(c) /\ ~SaveTokens(c)
  <2>1. Answers(c, NoCallback)
    BY <1>7, NothingTyped, AnswersThat DEF EndCallback, CallbackFails
  <2> QED
    BY <2>1, <1>7, NothingTyped
<1> QED
  BY <1>1, <1>2, <1>3, <1>4, <1>5, <1>6, <1>7 DEF QuietAnswer

(* An exchange that brings a refresh token.                                 *)
LEMMA NewAnswers ==
    ASSUME TypeInv, NEW c \in Callbacks, ExchangeCode(c), issued' # issued
    PROVE  /\ issued' = issued + 1 /\ issued' \in 1..MaxTokens /\ good' = good \cup {issued'}
           /\ \E k : Answers(c, k) /\ k.pc = "save" /\ k.secret.refresh = issued'
<1>1. /\ issued < MaxTokens /\ issued' = issued + 1 /\ good' = good \cup {issued'}
      /\ \E s \in TokenResponses(callbacks[c].secret, issued') :
            Brings(c, "save", s)
  BY DEF ExchangeCode, Brings
<1>2. issued' \in 1..MaxTokens
  BY <1>1, BoundsAreNatural DEF TypeInv, TypeOK
<1>3. PICK s \in TokenResponses(callbacks[c].secret, issued') :
            Brings(c, "save", s)
  BY <1>1
<1>4. s \in Secret /\ s.refresh = issued'
  BY <1>2, BoundsAreNatural DEF TokenResponses, Secret
<1> DEFINE k == [callbacks[c] EXCEPT !.pc = "save", !.secret = s]
<1>5. k \in Callback /\ k.pc = "save" /\ k.secret = s
  BY <1>4, OwnCallback DEF Callback
<1>6. callbacks' = [callbacks EXCEPT ![c] = k]
  BY <1>3 DEF Brings
<1> HIDE DEF k
<1>7. Answers(c, k)
  BY <1>5, <1>6, AnswersThat
<1> QED
  BY <1>1, <1>2, <1>4, <1>5, <1>7

(* The row and the rest of the state, in the steps of a callback.           *)
LEMMA CallbackFrame ==
    ASSUME TypeInv, NEW c \in Callbacks, CallbackStep(c) \/ CallbackFails(c)
    PROVE  /\ UNCHANGED <<server, starts, discoveries, rotates>>
           /\ states' = states \/ (states > 0 /\ states' = states - 1)
           /\ conn' \in ConnRow /\ conn'.life = conn.life /\ conn'.status = conn.status
           /\ conn'.secret = IF SaveTokens(c) /\ Present THEN callbacks[c].secret ELSE conn.secret
           /\ conn'.oauth = "authorized" =>
                conn.oauth = "authorized" \/ (Authorize(c) /\ callbacks[c].pc = "authorize")
           /\ ~Present => conn' = conn
           /\ lost' \in BOOLEAN /\ (lost => lost') /\ faults' \in 0..MaxFaults
           /\ ~ExchangeCode(c) => issued' = issued /\ good' = good
<1>types. /\ conn \in ConnRow /\ lost \in BOOLEAN /\ faults \in 0..MaxFaults
          /\ callbacks[c].secret \in Secret
  BY OwnCallback DEF TypeInv, TypeOK
<1>1. CASE TakeOAuthState(c)
  BY <1>1, <1>types DEF TakeOAuthState, SaveTokens, provider
<1>2. CASE GetWithSecret(c)
  BY <1>2, <1>types DEF GetWithSecret, SaveTokens, provider, authorizations
<1>3. CASE ExchangeCode(c)
  BY <1>3, <1>types DEF ExchangeCode, SaveTokens, authorizations
<1>4. CASE SaveTokens(c)
  <2>1. \/ Present /\ conn' = [conn EXCEPT !.secret = callbacks[c].secret]
        \/ ~Present /\ conn' = conn
    BY <1>4 DEF SaveTokens
  <2>2. lost' \in BOOLEAN /\ (lost => lost')
    BY <1>4, <1>types DEF SaveTokens
  <2> QED
    BY <1>4, <2>1, <2>2, <1>types DEF SaveTokens, ConnRow, provider, authorizations
<1>5. CASE Authorize(c) \/ RefuseCallback(c)
  <2>1. \/ conn' = conn
        \/ Present /\ conn' = [conn EXCEPT !.oauth = "needs_reauth"]
        \/ Present /\ conn' = [conn EXCEPT !.oauth = "authorized"] /\ Authorize(c)
    BY <1>5 DEF Authorize, RefuseCallback
  <2> QED
    BY <1>5, <2>1, <1>types DEF Authorize, RefuseCallback, SaveTokens, ConnRow, provider, authorizations
<1>6. CASE CallbackFails(c) /\ ~SaveTokens(c)
  BY <1>6, <1>types, BoundsAreNatural DEF CallbackFails, Fault, provider, authorizations
<1> QED
  BY <1>1, <1>2, <1>3, <1>4, <1>5, <1>6 DEF CallbackStep

(* So does a callback.                                                      *)
LEMMA CallbackTypes ==
    ASSUME TypeInv, NEW c \in Callbacks, CallbackStep(c) \/ CallbackFails(c)
    PROVE  TypeInv'
<1>1. callbacks' \in [Callbacks -> Callback]
  BY QuietAnswers, NewAnswers DEF QuietAnswer, CallbackStep, Answers
<1>2. good' \subseteq 1..issued' /\ issued' \in 0..MaxTokens
  <2>types. good \subseteq 1..issued /\ issued \in 0..MaxTokens
    BY DEF TypeInv, TypeOK
  <2>1. CASE ExchangeCode(c) /\ issued' # issued
    <3>1. issued' = issued + 1 /\ issued' \in 1..MaxTokens /\ good' = good \cup {issued'}
      BY <2>1, NewAnswers
    <3>2. \A x \in 1..issued : x \in 1..(issued + 1)
      BY <2>types, BoundsAreNatural
    <3>3. issued + 1 \in 1..(issued + 1) /\ issued' \in 0..MaxTokens
      BY <3>1, <2>types, BoundsAreNatural
    <3>4. good' \subseteq 1..(issued + 1)
      BY <3>1, <3>2, <3>3, <2>types
    <3> QED
      BY <3>1, <3>3, <3>4
  <2>2. CASE ExchangeCode(c) /\ issued' = issued
    <3>1. good' = good
      BY <2>2, <2>types, BoundsAreNatural DEF ExchangeCode
    <3> QED
      BY <2>2, <3>1, <2>types
  <2>3. CASE ~ExchangeCode(c)
    BY <2>3, <2>types, CallbackFrame
  <2> QED
    BY <2>1, <2>2, <2>3
<1>3. states' \in 0..starts' /\ starts' \in 0..MaxStarts /\ (~Present => states' = 0)
  <2>1. starts' = starts /\ (states' = states \/ (states > 0 /\ states' = states - 1))
    BY CallbackFrame
  <2>2. states \in 0..starts /\ starts \in 0..MaxStarts /\ (~Present => states = 0)
    BY DEF TypeInv, TypeOK
  <2> QED
    BY <2>1, <2>2, BoundsAreNatural
<1>4. /\ UNCHANGED <<server, discoveries, rotates>>
      /\ conn' \in ConnRow /\ conn'.life = conn.life /\ conn'.status = conn.status
      /\ ~Present => conn' = conn
      /\ lost' \in BOOLEAN /\ faults' \in 0..MaxFaults
  BY CallbackFrame
<1>5. TypeOK'
  BY <1>1, <1>2, <1>3, <1>4 DEF TypeInv, TypeOK, Present
<1>6. conn'.life = "absent" => conn' = conn
  BY <1>4 DEF Present
<1> QED
  BY <1>4, <1>5, <1>6 DEF TypeInv, PastUpsert, Present

(* The steps of the console, and the expiry of the access token: they keep  *)
(* the refresh token, and authorize nothing.                                *)
ConsoleStep == Console \/ ExpireAccess

(* What such a step keeps of the rest, and what the deletion of the         *)
(* connection takes with it.                                                *)
LEMMA ConsoleFrame ==
    ASSUME TypeInv, ConsoleStep
    PROVE  /\ UNCHANGED <<discoveries, callbacks, rotates, good, issued, lost, faults>>
           /\ conn' \in ConnRow /\ conn'.secret.refresh = conn.secret.refresh
           /\ conn'.oauth = "authorized" => conn.oauth = "authorized"
           /\ conn'.status = conn.status
           /\ conn'.life = "present" =>
                /\ server' = server /\ conn.life # "deleted"
                /\ conn.life = "absent" =>
                     conn'.oauth # "authorized" /\ UNCHANGED <<server, authorizations>>
           /\ conn'.life = "absent" => conn' = conn /\ UNCHANGED <<server, authorizations>>
           /\ states' \in 0..starts' /\ starts' \in 0..MaxStarts
           /\ conn'.life # "present" =>
                ~server' /\ states' = 0
<1>types. /\ conn \in ConnRow /\ conn.secret \in Secret
          /\ states \in 0..starts /\ starts \in 0..MaxStarts
          /\ (~Present => ~server /\ states = 0)
  BY DEF TypeInv, TypeOK, ConnRow
<1>1. CASE CreateConnection
  <2> DEFINE oauth == IF OAuth THEN "pending_authorize" ELSE ""
  <2>1. conn' = [conn EXCEPT !.life = "present", !.oauth = oauth]
    BY <1>1 DEF CreateConnection
  <2>2. oauth \in {"pending_authorize", ""}
    OBVIOUS
  <2> HIDE DEF oauth
  <2>3. /\ conn' \in ConnRow /\ conn'.life = "present" /\ conn'.oauth = oauth
        /\ conn'.secret = conn.secret /\ conn'.status = conn.status
    BY <2>1, <2>2, <1>types DEF ConnRow
  <2> QED
    BY <1>1, <2>2, <2>3, <1>types DEF CreateConnection, authorizations, provider
<1>2. CASE DeleteConnection
  <2>1. /\ conn' \in ConnRow /\ conn'.life = "deleted" /\ conn'.oauth = conn.oauth
        /\ conn'.secret = conn.secret /\ conn'.status = conn.status
    BY <1>2, <1>types DEF DeleteConnection, ConnRow
  <2>2. states' \in 0..starts' /\ starts' \in 0..MaxStarts /\ states' = 0 /\ ~server'
    BY <1>2, <1>types, BoundsAreNatural DEF DeleteConnection
  <2> QED
    BY <1>2, <2>1, <2>2 DEF DeleteConnection, provider
<1>3. CASE StartAuthorize
  <2>1. states' \in 0..starts' /\ starts' \in 0..MaxStarts
    BY <1>3, <1>types, BoundsAreNatural DEF StartAuthorize
  <2> QED
    BY <1>3, <2>1, <1>types DEF StartAuthorize, provider, Present
<1>4. CASE ExpireAccess
  <2> DEFINE s == [conn.secret EXCEPT !.access = "stale"]
  <2>1. s \in Secret /\ s.refresh = conn.secret.refresh
    BY <1>types DEF Secret
  <2>2. conn' = [conn EXCEPT !.secret = s]
    BY <1>4 DEF ExpireAccess
  <2>3. conn.secret.access = "fresh" /\ NoTokens.access # "fresh"
    BY <1>4 DEF ExpireAccess, NoTokens
  <2>4. conn.life # "absent"
    BY <2>3 DEF TypeInv
  <2> HIDE DEF s
  <2>5. /\ conn' \in ConnRow /\ conn'.life = conn.life /\ conn'.oauth = conn.oauth
        /\ conn'.secret = s /\ conn'.status = conn.status
    BY <2>1, <2>2, <1>types DEF ConnRow
  <2> QED
    BY <1>4, <2>1, <2>4, <2>5, <1>types DEF ExpireAccess, provider, authorizations, Present, ConnRow
<1> QED
  BY <1>1, <1>2, <1>3, <1>4 DEF ConsoleStep, Console

(* So do they.                                                              *)
LEMMA ConsoleTypes ==
    ASSUME TypeInv, ConsoleStep
    PROVE  TypeInv'
<1>1. TypeOK'
  <2>1. (~Present => ~server /\ states = 0)'
    BY ConsoleFrame DEF Present
  <2>2. server' \in BOOLEAN
    <3>1. CASE Console
      BY <3>1 DEF Console, CreateConnection, DeleteConnection, StartAuthorize, TypeInv, TypeOK
    <3>2. CASE ExpireAccess
      BY <3>2 DEF ExpireAccess, TypeInv, TypeOK
    <3> QED
      BY <3>1, <3>2 DEF ConsoleStep
  <2>3. (Present /\ conn.status = "healthy" => server)'
    BY ConsoleFrame DEF Present, TypeInv, TypeOK, ConnRow
  <2> QED
    BY <2>1, <2>2, <2>3, ConsoleFrame DEF TypeInv, TypeOK
<1>2. ASSUME NEW d \in Discoveries, PastUpsert(discoveries'[d]), Present' PROVE server'
  <2>1. /\ discoveries' = discoveries /\ server' = server
        /\ conn.life \in {"absent", "present"}
    BY <1>2, ConsoleFrame DEF Present, TypeInv, TypeOK, ConnRow
  <2>2. CASE conn.life = "absent"
    BY <1>2, <2>1, <2>2, NothingTyped DEF TypeInv, PastUpsert
  <2>3. CASE conn.life = "present"
    BY <1>2, <2>1, <2>3 DEF TypeInv, Present
  <2> QED
    BY <2>1, <2>2, <2>3
<1>3. conn'.life = "absent" => conn' = conn /\ discoveries' = discoveries
  BY ConsoleFrame
<1> QED
  BY <1>1, <1>2, <1>3 DEF TypeInv, PastUpsert

(* A step is one of the console, of a callback or of a discovery.           *)
LEMMA Steps ==
    Next => \/ ConsoleStep
            \/ \E c \in Callbacks : CallbackStep(c) \/ CallbackFails(c)
            \/ \E d \in Discoveries : QuietStep(d) \/ RefreshGranted(d)
BY DEF Next, ConsoleStep, DiscoverStep, Refresh, QuietStep

(* Every step keeps the types.                                              *)
LEMMA TypeStep == TypeInv /\ [Next]_vars => TypeInv'
<1> SUFFICES ASSUME TypeInv, [Next]_vars PROVE TypeInv'
  OBVIOUS
<1>1. CASE UNCHANGED vars
  BY <1>1 DEF vars, authorizations, TypeInv, TypeOK, PastUpsert, Present
<1> QED
  BY <1>1, Steps, ConsoleTypes, CallbackTypes, DiscoveryTypes

(* Every reachable state has its types.                                     *)
LEMMA TypeInvariance == Spec => []TypeInv
BY TypeInit, TypeStep, PTL DEF Spec

(* Whoever runs when a connection is deleted, it leaves no server and no    *)
(* authorization under way, and a healthy one has its server.               *)
THEOREM TypeCorrect == Spec => []TypeOK
<1>1. TypeInv => TypeOK
  BY DEF TypeInv
<1> QED
  BY <1>1, TypeInvariance, PTL

-----------------------------------------------------------------------------
(* The tokens.                                                              *)

(* Initially there are no tokens.                                           *)
LEMMA TokenInit == Init => TokenInv
<1> SUFFICES ASSUME Init PROVE TokenInv
  OBVIOUS
<1>0. issued = 0
  BY DEF Init
<1>1. conn.secret = NoTokens /\ conn.oauth = ""
  BY DEF Init
<1>2. \A d \in Discoveries : discoveries[d].pc = "idle" /\ discoveries[d].secret.refresh = 0
  BY NothingTyped DEF Init
<1>3. \A c \in Callbacks : callbacks[c].pc = "idle" /\ callbacks[c].secret.refresh = 0
  BY NothingTyped DEF Init
<1>4. conn.secret.refresh = 0 /\ conn.oauth # "authorized"
  BY <1>1, NothingTyped
<1>5. AllIssued
  <2>1. 0 <= issued
    BY <1>0
  <2> QED
    BY <2>1, <1>2, <1>3, <1>4 DEF AllIssued
<1>6. \A d \in Discoveries : SavedIsGood(d) /\ OnlyCopy(d)
  BY <1>2 DEF SavedIsGood, OnlyCopy, At
<1> QED
  BY <1>3, <1>4, <1>5, <1>6 DEF TokenInv

(* A discovery leaves its save and its mark only by doing them, or with the *)
(* token lost.                                                              *)
LEMMA DoneOrLost ==
    ASSUME NEW d \in Discoveries, QuietStep(d)
    PROVE  /\ At(d, "save") => SaveAuthSecret(d) \/ lost'
           /\ At(d, "mark") /\ Present => conn'.oauth = "needs_reauth" \/ lost' \/ conn \notin ConnRow
           /\ SaveAuthSecret(d) => At(d, "save")
           /\ RefreshRefused(d) \/ RefreshFails(d) => At(d, "refresh")
<1>1. SaveAuthSecret(d) => At(d, "save")
  BY DEF SaveAuthSecret
<1>2. RefreshRefused(d) \/ RefreshFails(d) => At(d, "refresh")
  BY DEF RefreshRefused, RefreshFails
<1>3. CASE DiscoverFails(d) \/ DiscoverHangs(d) \/ SaveFails(d)
  BY <1>1, <1>2, <1>3 DEF DiscoverFails, DiscoverHangs, SaveFails, At
<1>4. CASE MarkOAuthStatus(d)
  BY <1>1, <1>2, <1>4 DEF MarkOAuthStatus, At, ConnRow
<1>5. CASE SaveAuthSecret(d)
  BY <1>1, <1>2, <1>5 DEF At
<1>6. CASE StartDiscover(d) \/ LoadAuthSecret(d) \/ RefreshRefused(d) \/ RefreshFails(d) \/ Send(d)
           \/ UpsertMCPServer(d) \/ RecordReauth(d) \/ RecordError(d) \/ UpdateAfterDiscovery(d)
  BY <1>1, <1>2, <1>6 DEF StartDiscover, LoadAuthSecret, RefreshRefused, RefreshFails, Send,
     UpsertMCPServer, RecordReauth, RecordError, UpdateAfterDiscovery, At
<1> QED
  BY <1>3, <1>4, <1>5, <1>6 DEF QuietStep

(* A discovery that loads, saves, marks or fails keeps what is known of the *)
(* tokens.                                                                  *)
LEMMA QuietTokens ==
    ASSUME TypeInv, TokenInv, NEW d \in Discoveries, QuietStep(d), ~RefreshGranted(d)
    PROVE  TokenInv'
<1>1. PICK t : Moves(d, t) /\ (RefreshRefused(d) \/ RefreshFails(d) => t.pc = "mark")
  BY QuietMoves
<1>row. RowKept(d)
  BY DiscoveryKeepsRow
<1>frame. /\ UNCHANGED <<callbacks, rotates, issued>>
          /\ lost => lost'
          /\ good' \subseteq good
          /\ ~RefreshRefused(d) => good' = good \/ lost'
  BY DiscoveryFrame
<1>done. /\ At(d, "save") => SaveAuthSecret(d) \/ lost'
         /\ At(d, "mark") /\ Present => conn'.oauth = "needs_reauth" \/ lost'
         /\ SaveAuthSecret(d) => At(d, "save")
         /\ RefreshRefused(d) \/ RefreshFails(d) => At(d, "refresh")
  BY DoneOrLost DEF TypeInv, TypeOK
<1>refused. RefreshRefused(d) =>
              LET old == discoveries[d].secret.refresh
              IN good' = good \ {old} /\ (old \in good /\ WillBeSaved(d, old) => lost')
  BY DEF RefreshRefused
<1>present. Present' <=> Present
  BY <1>row DEF RowKept, Present
<1>refresh. conn'.secret.refresh = IF SaveAuthSecret(d) /\ Present THEN discoveries[d].secret.refresh
                                                                  ELSE conn.secret.refresh
  BY <1>row DEF RowKept
<1>new. /\ discoveries'[d] = t /\ t.pc # "save"
        /\ t.secret.refresh \in {0, discoveries[d].secret.refresh, conn.secret.refresh}
        /\ \A e \in Discoveries \ {d} : discoveries'[e] = discoveries[e]
  BY <1>1 DEF Moves, Becomes
<1>2. AllIssued'
  <2>1. issued \in Nat
    BY BoundsAreNatural DEF TypeInv, TypeOK
  <2>2. conn'.secret.refresh <= issued /\ t.secret.refresh <= issued
    BY <2>1, <1>refresh, <1>new DEF TokenInv, AllIssued
  <2> QED
    BY <2>2, <1>new, <1>frame DEF TokenInv, AllIssued
<1>3. ASSUME NEW e \in Discoveries PROVE SavedIsGood(e)' /\ OnlyCopy(e)'
  <2>1. CASE e = d
    BY <2>1, <1>new DEF SavedIsGood, OnlyCopy, At
  <2>2. CASE e # d
    <3>1. SavedIsGood(e) /\ OnlyCopy(e) /\ discoveries'[e] = discoveries[e]
      BY <2>2, <1>new DEF TokenInv
    <3>2. ASSUME At(e, "save"), ~lost' PROVE discoveries[e].secret.refresh \in good'
      <4>1. discoveries[e].secret.refresh \in good
        BY <3>1, <3>2, <1>frame DEF SavedIsGood
      <4>2. CASE RefreshRefused(d)
        BY <4>1, <4>2, <2>2, <3>2, <1>refused DEF WillBeSaved
      <4> QED
        BY <4>1, <4>2, <3>2, <1>frame
    <3>3. SavedIsGood(e)'
      BY <3>1, <3>2 DEF SavedIsGood, At
    <3>4. ASSUME rotates, At(e, "save")
          PROVE  LET u == discoveries[e].secret.refresh
                 IN /\ u # 0 /\ u # conn'.secret.refresh
                    /\ \A x \in Discoveries \ {e} : discoveries'[x].secret.refresh # u
                    /\ \A c \in Callbacks : callbacks[c].secret.refresh # u
      BY <2>2, <3>1, <3>4, <1>new, <1>refresh DEF OnlyCopy
    <3>5. OnlyCopy(e)'
      BY <3>1, <3>4, <1>frame DEF OnlyCopy, At
    <3> QED
      BY <3>3, <3>5
  <2> QED
    BY <2>1, <2>2
<1>can. ASSUME CanRefresh, ~CanRefresh' PROVE RefreshRefused(d) /\ \A c \in Callbacks : callbacks[c].pc # "authorize"
  <2>1. ~lost' /\ Present /\ conn'.secret.refresh \notin good' \cup {0}
    BY <1>can, <1>present DEF CanRefresh
  <2>2. ~(SaveAuthSecret(d) /\ Present)
    <3>1. ASSUME SaveAuthSecret(d) PROVE FALSE
      <4>1. SavedIsGood(d) /\ At(d, "save") /\ ~RefreshRefused(d)
        BY <3>1, <1>done DEF TokenInv, At
      <4>2. good' = good /\ discoveries[d].secret.refresh \in good
        BY <4>1, <2>1, <1>frame DEF SavedIsGood
      <4> QED
        BY <3>1, <4>2, <2>1, <1>refresh
    <3> QED
      BY <3>1
  <2>3. conn.secret.refresh \in good /\ conn.secret.refresh \notin good'
    BY <1>can, <2>1, <2>2, <1>refresh, <1>frame DEF CanRefresh
  <2>4. RefreshRefused(d)
    BY <2>1, <2>3, <1>frame
  <2>5. ~WillBeSaved(d, discoveries[d].secret.refresh)
    BY <2>1, <2>3, <2>4, <1>refused
  <2> QED
    BY <2>4, <2>5 DEF WillBeSaved
<1>due. ASSUME SaveIsDue, ~SaveIsDue' PROVE CanRefresh'
  <2>1. PICK e \in Discoveries : At(e, "save")
    BY <1>due DEF SaveIsDue
  <2>2. e = d
    BY <2>1, <1>due, <1>new DEF SaveIsDue, At
  <2>3. SaveAuthSecret(d) \/ lost'
    BY <2>1, <2>2, <1>done
  <2>4. CASE SaveAuthSecret(d) /\ ~lost' /\ Present
    <3>1. SavedIsGood(d) /\ ~RefreshRefused(d)
      BY <2>4, <1>done DEF TokenInv, At
    <3>2. good' = good /\ discoveries[d].secret.refresh \in good
      BY <2>1, <2>2, <2>4, <3>1, <1>frame DEF SavedIsGood
    <3> QED
      BY <2>4, <3>2, <1>refresh DEF CanRefresh
  <2> QED
    BY <2>3, <2>4, <1>present DEF CanRefresh
<1>4. (\E c \in Callbacks : callbacks'[c].pc = "authorize") => CanRefresh' \/ SaveIsDue'
  BY <1>can, <1>due, <1>frame DEF TokenInv
<1>5. conn'.oauth = "authorized" => CanRefresh' \/ SaveIsDue' \/ MarkIsDue'
  <2> SUFFICES ASSUME conn'.oauth = "authorized", ~CanRefresh', ~SaveIsDue' PROVE MarkIsDue'
    OBVIOUS
  <2>1. conn.oauth = "authorized" /\ ~SaveIsDue
    BY <1>row, <1>due DEF RowKept
  <2>2. CASE CanRefresh
    <3>1. discoveries'[d].pc = "mark"
      BY <2>2, <1>can, <1>1, <1>new
    <3> QED
      BY <3>1 DEF MarkIsDue, At
  <2>3. CASE ~CanRefresh
    <3>1. PICK e \in Discoveries : At(e, "mark")
      BY <2>1, <2>3 DEF TokenInv, MarkIsDue
    <3>2. e # d
      BY <2>1, <3>1, <1>done, <1>present DEF CanRefresh
    <3> QED
      BY <3>1, <3>2, <1>new DEF MarkIsDue, At
  <2> QED
    BY <2>2, <2>3
<1> QED
  BY <1>2, <1>3, <1>4, <1>5 DEF TokenInv

(* A refreshed token is new if the provider rotates, and then it replaces   *)
(* one that no other discovery is about to save.                            *)
LEMMA GrantedTokens ==
    ASSUME TypeInv, TokenInv, NEW d \in Discoveries, RefreshGranted(d)
    PROVE  TokenInv'
<1> DEFINE old == discoveries[d].secret.refresh
           new == IF rotates THEN issued + 1 ELSE old
<1>1. PICK t : Becomes(d, t) /\ t.pc = "save" /\ t.secret.refresh = new
  BY GrantedMoves
<1>2. /\ old \in good /\ new \in 1..MaxTokens
      /\ IF rotates THEN issued' = new /\ good' = (good \ {old}) \cup {new}
         ELSE UNCHANGED <<issued, good>>
  BY GrantedMoves
<1>def. new = (IF rotates THEN issued + 1 ELSE old) /\ old = discoveries[d].secret.refresh
  OBVIOUS
<1> HIDE DEF old, new
<1>row. conn'.secret.refresh = conn.secret.refresh
  <2>1. ~SaveAuthSecret(d)
    BY DEF RefreshGranted, SaveAuthSecret, At
  <2> QED
    BY <2>1, DiscoveryKeepsRow DEF RowKept
<1>frame. UNCHANGED <<callbacks, rotates>> /\ (lost => lost')
  BY DiscoveryFrame
<1>types. issued \in 0..MaxTokens /\ issued \in Nat
  BY BoundsAreNatural DEF TypeInv, TypeOK
<1>new. /\ discoveries'[d] = t
        /\ \A e \in Discoveries \ {d} : discoveries'[e] = discoveries[e]
  BY <1>1 DEF Becomes
<1>held. /\ conn.secret.refresh \in 0..issued
         /\ \A e \in Discoveries : discoveries[e].secret.refresh \in 0..issued
         /\ \A c \in Callbacks : callbacks[c].secret.refresh \in 0..issued
  <2>1. conn.secret \in Secret
    BY DEF TypeInv, TypeOK, ConnRow
  <2>2. \A s \in Secret : s.refresh \in Nat /\ s.refresh >= 0
    BY BoundsAreNatural DEF Secret
  <2>3. \A s \in Secret : s.refresh <= issued => s.refresh \in 0..issued
    BY <2>2, <1>types
  <2> QED
    BY <2>1, <2>3, OwnDiscovery, OwnCallback DEF TokenInv, AllIssued
<1>fresh. rotates => new \notin 0..issued /\ new # 0 /\ issued' = issued + 1
  BY <1>2, <1>def, <1>types
<1>3. AllIssued'
  <2>1. issued' \in Nat /\ issued <= issued' /\ new <= issued'
    <3>1. CASE rotates
      BY <3>1, <1>2, <1>def, <1>types
    <3>2. CASE ~rotates
      BY <3>2, <1>2, <1>def, <1>types, <1>held
    <3> QED
      BY <3>1, <3>2
  <2>2. \A n \in 0..issued : n <= issued'
    BY <2>1, <1>types
  <2>3. conn'.secret.refresh <= issued'
    BY <2>2, <1>row, <1>held
  <2>4. \A e \in Discoveries : discoveries'[e].secret.refresh <= issued'
    BY <2>1, <2>2, <1>1, <1>new, <1>held
  <2>5. \A c \in Callbacks : callbacks'[c].secret.refresh <= issued'
    BY <2>2, <1>frame, <1>held
  <2> QED
    BY <2>3, <2>4, <2>5 DEF AllIssued
<1>4. ASSUME NEW e \in Discoveries PROVE SavedIsGood(e)' /\ OnlyCopy(e)'
  <2>1. CASE e = d
    <3>1. discoveries'[e].secret.refresh = new /\ new \in good'
      BY <2>1, <1>1, <1>2, <1>new, <1>def
    <3>2. ASSUME rotates
          PROVE  /\ new # 0 /\ new # conn'.secret.refresh
                 /\ \A x \in Discoveries \ {e} : discoveries'[x].secret.refresh # new
                 /\ \A c \in Callbacks : callbacks'[c].secret.refresh # new
      BY <2>1, <3>2, <1>fresh, <1>held, <1>row, <1>frame, <1>new
    <3> QED
      BY <3>1, <3>2, <1>frame DEF SavedIsGood, OnlyCopy
  <2>2. CASE e # d
    <3>1. SavedIsGood(e) /\ OnlyCopy(e) /\ discoveries'[e] = discoveries[e]
      BY <2>2, <1>new DEF TokenInv
    <3>2. SavedIsGood(e)'
      <4>1. ASSUME At(e, "save"), ~lost' PROVE discoveries[e].secret.refresh \in good'
        BY <2>2, <3>1, <4>1, <1>2, <1>def, <1>frame DEF SavedIsGood, OnlyCopy
      <4> QED
        BY <4>1, <3>1 DEF SavedIsGood, At
    <3>3. ASSUME rotates, At(e, "save")
          PROVE  LET u == discoveries[e].secret.refresh
                 IN /\ u # 0 /\ u # conn'.secret.refresh
                    /\ \A x \in Discoveries \ {e} : discoveries'[x].secret.refresh # u
                    /\ \A c \in Callbacks : callbacks[c].secret.refresh # u
      BY <2>2, <3>1, <3>3, <1>1, <1>new, <1>row, <1>fresh, <1>held DEF OnlyCopy
    <3>4. OnlyCopy(e)'
      BY <3>1, <3>3, <1>frame DEF OnlyCopy, At
    <3> QED
      BY <3>2, <3>4
  <2> QED
    BY <2>1, <2>2
<1>5. SaveIsDue'
  BY <1>1, <1>new DEF SaveIsDue, At
<1> QED
  BY <1>3, <1>4, <1>5 DEF TokenInv

(* A callback brings a token that is new and good, and what it puts in its  *)
(* place is still good unless it was lost.                                  *)
LEMMA CallbackTokens ==
    ASSUME TypeInv, TokenInv, NEW c \in Callbacks, CallbackStep(c) \/ CallbackFails(c)
    PROVE  TokenInv'
<1>frame. /\ UNCHANGED <<discoveries, rotates>>
          /\ conn'.life = conn.life
          /\ conn'.secret = IF SaveTokens(c) /\ Present THEN callbacks[c].secret ELSE conn.secret
          /\ conn'.oauth = "authorized" => conn.oauth = "authorized" \/ callbacks[c].pc = "authorize"
          /\ lost => lost'
          /\ ~ExchangeCode(c) => issued' = issued /\ good' = good
  BY CallbackFrame
<1>types. issued \in Nat /\ \A s \in Secret : s.refresh \in Nat
  BY BoundsAreNatural DEF TypeInv, TypeOK, Secret
<1>due. SaveIsDue' = SaveIsDue /\ MarkIsDue' = MarkIsDue
  BY <1>frame DEF SaveIsDue, MarkIsDue, At
<1>1. CASE ExchangeCode(c) /\ issued' # issued
  <2>1. issued' = issued + 1 /\ good' = good \cup {issued'}
    BY <1>1, NewAnswers
  <2>2. PICK k : Answers(c, k) /\ k.pc = "save" /\ k.secret.refresh = issued'
    BY <1>1, NewAnswers
  <2>3. conn'.secret = conn.secret
    BY <1>1, <1>frame DEF ExchangeCode, SaveTokens
  <2>new. callbacks'[c] = k /\ \A b \in Callbacks \ {c} : callbacks'[b] = callbacks[b]
    BY <2>2 DEF Answers
  <2>4. AllIssued'
    <3>1. /\ conn.secret.refresh \in Nat
          /\ \A d \in Discoveries : discoveries[d].secret.refresh \in Nat
          /\ \A b \in Callbacks : callbacks[b].secret.refresh \in Nat
      BY <1>types, OwnDiscovery, OwnCallback DEF TypeInv, TypeOK, ConnRow
    <3>2. \A n \in Nat : n <= issued => n <= issued'
      BY <2>1, <1>types
    <3>3. issued' <= issued'
      BY <2>1, <1>types
    <3> QED
      BY <3>1, <3>2, <3>3, <2>2, <2>3, <2>new, <1>frame DEF TokenInv, AllIssued
  <2>5. ASSUME NEW d \in Discoveries PROVE SavedIsGood(d)' /\ OnlyCopy(d)'
    <3>1. SavedIsGood(d) /\ OnlyCopy(d) /\ discoveries[d].secret.refresh <= issued
          /\ discoveries[d].secret.refresh \in Nat
      BY <1>types, OwnDiscovery DEF TokenInv, AllIssued
    <3>2. discoveries[d].secret.refresh # issued'
      BY <3>1, <2>1, <1>types
    <3>3. SavedIsGood(d)'
      BY <3>1, <2>1, <1>frame DEF SavedIsGood, At
    <3>4. OnlyCopy(d)'
      BY <3>1, <3>2, <2>2, <2>3, <2>new, <1>frame DEF OnlyCopy, At
    <3> QED
      BY <3>3, <3>4
  <2>6. CanRefresh => CanRefresh'
    BY <2>1, <2>3, <1>frame, <1>1 DEF CanRefresh, Present, ExchangeCode
  <2>7. (\E b \in Callbacks : callbacks'[b].pc = "authorize")
          => \E b \in Callbacks : callbacks[b].pc = "authorize"
    BY <2>2, <2>new
  <2>8. conn'.oauth = "authorized" => conn.oauth = "authorized"
    BY <1>1, <1>frame DEF ExchangeCode
  <2> QED
    BY <2>4, <2>5, <2>6, <2>7, <2>8, <1>due DEF TokenInv
<1>2. CASE ~(ExchangeCode(c) /\ issued' # issued)
  <2>1. QuietAnswer(c)
    BY <1>2 DEF QuietAnswer, CallbackStep
  <2>2. PICK k : /\ Answers(c, k)
                 /\ k.pc = "authorize" <=> SaveTokens(c) /\ Present
                 /\ k.secret.refresh \in {0, callbacks[c].secret.refresh, conn.secret.refresh}
    BY <2>1, QuietAnswers
  <2>new. callbacks'[c] = k /\ \A b \in Callbacks \ {c} : callbacks'[b] = callbacks[b]
    BY <2>2 DEF Answers
  <2>3. issued' = issued /\ good' = good
    BY <1>2, <1>frame, <1>types DEF ExchangeCode
  <2>4. AllIssued'
    <3>1. 0 <= issued
      BY <1>types
    <3> QED
      BY <3>1, <2>2, <2>3, <2>new, <1>frame DEF TokenInv, AllIssued
  <2>5. ASSUME NEW d \in Discoveries PROVE SavedIsGood(d)' /\ OnlyCopy(d)'
    <3>1. SavedIsGood(d) /\ OnlyCopy(d)
      BY DEF TokenInv
    <3>2. SavedIsGood(d)'
      BY <3>1, <2>3, <1>frame DEF SavedIsGood, At
    <3>3. OnlyCopy(d)'
      BY <3>1, <2>2, <2>new, <1>frame DEF OnlyCopy, At
    <3> QED
      BY <3>2, <3>3
  <2>6. CASE SaveTokens(c) /\ Present
    <3>1. lost' = (lost \/ callbacks[c].secret.refresh \notin good \cup {0})
      BY <2>6 DEF SaveTokens
    <3>2. CanRefresh'
      BY <2>3, <2>6, <3>1, <1>frame DEF CanRefresh
    <3> QED
      BY <3>2, <2>4, <2>5 DEF TokenInv
  <2>7. CASE ~(SaveTokens(c) /\ Present)
    <3>1. CanRefresh => CanRefresh'
      BY <2>3, <2>7, <1>frame DEF CanRefresh, Present
    <3>2. (\E b \in Callbacks : callbacks'[b].pc = "authorize")
            => \E b \in Callbacks : callbacks[b].pc = "authorize"
      BY <2>2, <2>7, <2>new
    <3>3. conn'.oauth = "authorized" => CanRefresh \/ SaveIsDue \/ MarkIsDue
      BY <1>frame DEF TokenInv
    <3> QED
      BY <3>1, <3>2, <3>3, <2>4, <2>5, <1>due DEF TokenInv
  <2> QED
    BY <2>6, <2>7
<1> QED
  BY <1>1, <1>2

(* The console and the expiry leave the refresh tokens alone.               *)
LEMMA ConsoleTokens ==
    ASSUME TypeInv, TokenInv, ConsoleStep
    PROVE  TokenInv'
<1>1. /\ UNCHANGED <<discoveries, callbacks, rotates, good, issued, lost>>
      /\ conn'.secret.refresh = conn.secret.refresh
      /\ conn'.oauth = "authorized" => conn.oauth = "authorized"
      /\ conn'.life = "present" => conn.life # "deleted"
  BY ConsoleFrame
<1>2. SaveIsDue' = SaveIsDue /\ MarkIsDue' = MarkIsDue
  BY <1>1 DEF SaveIsDue, MarkIsDue, At
<1>3. CanRefresh => CanRefresh'
  <2>1. conn.life \in {"absent", "present", "deleted"}
    BY DEF TypeInv, TypeOK, ConnRow
  <2>2. conn.life = "absent" => conn.secret.refresh = 0
    BY NothingTyped DEF TypeInv
  <2> QED
    BY <2>1, <2>2, <1>1 DEF CanRefresh, Present
<1>4. \A d \in Discoveries : SavedIsGood(d)' /\ OnlyCopy(d)'
  BY <1>1 DEF TokenInv, SavedIsGood, OnlyCopy, At
<1> QED
  BY <1>1, <1>2, <1>3, <1>4 DEF TokenInv, AllIssued

(* Every step keeps what is known of the tokens.                            *)
LEMMA TokenStep == TypeInv /\ TokenInv /\ [Next]_vars => TokenInv'
<1> SUFFICES ASSUME TypeInv, TokenInv, [Next]_vars PROVE TokenInv'
  OBVIOUS
<1>1. CASE UNCHANGED vars
  BY <1>1 DEF vars, TokenInv, AllIssued, SavedIsGood, OnlyCopy, CanRefresh, SaveIsDue, MarkIsDue,
              At, Present
<1> QED
  BY <1>1, Steps, ConsoleTokens, CallbackTokens, GrantedTokens, QuietTokens

(* However many discoveries and callbacks read, change and write back the   *)
(* tokens at the same time, and whether the provider rotates them or not:   *)
(* an authorized connection is left with a refresh token the provider       *)
(* accepts, unless one was lost.                                            *)
THEOREM RefreshTokenSurvives == Spec => []AuthorizedCanRefresh
<1>1. TokenInv => AuthorizedCanRefresh
  BY DEF TokenInv, AuthorizedCanRefresh, CanRefresh, SaveIsDue, MarkIsDue, At
<1> QED
  BY <1>1, TokenInit, TokenStep, TypeInvariance, PTL DEF Spec
=============================================================================
