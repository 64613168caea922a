-------------------------- MODULE SnapshotDelivery --------------------------
(***************************************************************************)
(* What delivering the policy bundle promises, without versions, handlers  *)
(* or caches.  A publisher holds one current content.  Every reader runs   *)
(* rounds: a round that succeeds leaves the reader with the whole content  *)
(* that was current at one instant INSIDE that round, never a mixture,     *)
(* never a part, never something that was already replaced when the round  *)
(* began.  A round that fails leaves the reader with what it held.  A      *)
(* reader that restarts holds nothing.                                     *)
(*                                                                         *)
(* PolicyBundle implements this with a version counter and several         *)
(* separate database reads.                                                *)
(***************************************************************************)
CONSTANTS Reader, Content, Nothing

VARIABLES
    current,    \* what the publisher publishes now
    held,       \* held[r]: what reader r uses
    round,      \* round[r]: "closed", "open" or "answered"
    answer      \* answer[r]: what the round in progress will install

vars == <<current, held, round, answer>>

Init ==
    /\ current = Nothing
    /\ held = [r \in Reader |-> Nothing]
    /\ round = [r \in Reader |-> "closed"]
    /\ answer = [r \in Reader |-> Nothing]

Publish ==
    /\ current' \in Content
    /\ UNCHANGED <<held, round, answer>>

Open(r) ==
    /\ round[r] = "closed"
    /\ round' = [round EXCEPT ![r] = "open"]
    /\ UNCHANGED <<current, held, answer>>

\* The instant the round takes effect: the reader will get what is current now.
Answer(r) ==
    /\ round[r] = "open"
    /\ round' = [round EXCEPT ![r] = "answered"]
    /\ answer' = [answer EXCEPT ![r] = current]
    /\ UNCHANGED <<current, held>>

Close(r) ==
    /\ round[r] = "answered"
    /\ round' = [round EXCEPT ![r] = "closed"]
    /\ held' = [held EXCEPT ![r] = answer[r]]
    /\ answer' = [answer EXCEPT ![r] = Nothing]
    /\ UNCHANGED current

Fail(r) ==
    /\ round[r] # "closed"
    /\ round' = [round EXCEPT ![r] = "closed"]
    /\ answer' = [answer EXCEPT ![r] = Nothing]
    /\ UNCHANGED <<current, held>>

Restart(r) ==
    /\ round' = [round EXCEPT ![r] = "closed"]
    /\ held' = [held EXCEPT ![r] = Nothing]
    /\ answer' = [answer EXCEPT ![r] = Nothing]
    /\ UNCHANGED current

Next ==
    \/ Publish
    \/ \E r \in Reader :
         Open(r) \/ Answer(r) \/ Close(r) \/ Fail(r) \/ Restart(r)

Spec == Init /\ [][Next]_vars
=============================================================================
