--------------------------- MODULE ChatAgentProofs ---------------------------
(***************************************************************************)
(* A day's tokens go over the budget by no more than the requests that     *)
(* were let in together can spend, and the model is not sent a call of a   *)
(* tool without its response, for any number of requests, any limit of the *)
(* loop and any budget.                                                    *)
(***************************************************************************)
EXTENDS ChatAgent, FiniteSetTheorems, SequenceTheorems, TLAPS

(* A request in the loop has a call of the model left; before the loop it  *)
(* has made none.                                                          *)
TokensLeft(p) ==
    /\ posts[p].pc = "loop" => posts[p].tokens < MaxIterations
    /\ posts[p].pc \in {"idle", "budget", "list"} => posts[p].tokens = 0

(* The requests that are yet to be charged to a day, ...                   *)
AdmittedOn(d) == {p \in Posts : Admitted(p) /\ posts[p].day = d}

(* ... of which each may spend what the loop allows.                       *)
Reserved ==
    Budget > 0 => \A d \in Days :
        usage[d] + MaxIterations * Cardinality(AdmittedOn(d)) < Budget + crowd * MaxIterations

IInv == TypeOK /\ (\A p \in Posts : TokensLeft(p)) /\ Reserved

USE BoundsAreNatural DEF Days

(* The requests to be charged can be counted.                              *)
LEMMA Counted ==
    ASSUME NEW d PROVE IsFiniteSet(AdmittedOn(d)) /\ Cardinality(AdmittedOn(d)) \in Nat
<1>1. AdmittedOn(d) \subseteq Posts
  BY DEF AdmittedOn
<1> QED
  BY <1>1, PostsFinite, FS_Subset, FS_CardinalityType

(* It holds at first.                                                      *)
LEMMA InitIInv == Init => IInv
<1> SUFFICES ASSUME Init PROVE IInv
  OBVIOUS
<1>1. ASSUME NEW s \in Sessions PROVE Request("idle", s) \in Post
  BY DEF Request, Post
<1>2. TypeOK
  BY <1>1 DEF Init, TypeOK, Session
<1>3. \A p \in Posts : posts[p].pc = "idle" /\ posts[p].tokens = 0
  BY DEF Init, Request
<1>4. \A d \in Days : AdmittedOn(d) = {}
  BY <1>3 DEF AdmittedOn, Admitted
<1>5. Cardinality({}) = 0
  BY FS_EmptySet
<1>6. MaxIterations * 0 = 0 /\ 0 * MaxIterations = 0
  OBVIOUS
<1>7. Reserved
  <2> SUFFICES ASSUME Budget > 0, NEW d \in Days
               PROVE  usage[d] + MaxIterations * Cardinality(AdmittedOn(d))
                        < Budget + crowd * MaxIterations
    BY DEF Reserved
  <2>1. usage[d] = 0 /\ crowd = 0 /\ Cardinality(AdmittedOn(d)) = 0
    BY <1>4, <1>5 DEF Init
  <2> QED
    BY <1>6, <2>1
<1> QED
  BY <1>2, <1>3, <1>7 DEF IInv, TokensLeft

(* A larger crowd may spend more.                                          *)
LEMMA Times ==
    ASSUME NEW a \in Nat, NEW b \in Nat, a <= b
    PROVE  MaxIterations * a <= b * MaxIterations
<1>1. PICK k \in Nat : b = a + k
  <2> WITNESS b - a \in Nat
  <2> QED
    OBVIOUS
<1>2. b * MaxIterations = MaxIterations * a + MaxIterations * k
  BY <1>1
<1>3. MaxIterations * a \in Nat /\ MaxIterations * k \in Nat
  OBVIOUS
<1> QED
  BY <1>2, <1>3

(* A request stays typed in the loop, and when it ends.                    *)
LEMMA LoopTyped ==
    ASSUME NEW q \in Post, NEW messages \in Seq(Turns), NEW delta \in Seq(Turns),
           NEW tokens \in 0..MaxIterations
    PROVE  /\ [q EXCEPT !.messages = messages, !.delta = delta, !.tokens = tokens] \in Post
           /\ [q EXCEPT !.pc = "append", !.messages = messages, !.delta = delta,
                        !.tokens = tokens] \in Post
BY DEF Post

(* What becomes of a request that takes a step: it is typed, keeps within  *)
(* the loop, and stays among those to be charged, or not.                  *)
Steps(p) ==
    /\ posts' \in [Posts -> Post]
    /\ \A q \in Posts \ {p} : posts'[q] = posts[q]
    /\ TokensLeft(p)'

Same(p) == /\ Admitted(p)' <=> Admitted(p)
           /\ posts'[p].day = posts[p].day

(* A step that admits nobody and charges nothing keeps what is reserved.   *)
LEMMA ReservedKept ==
    ASSUME Reserved, TypeOK, NEW p \in Posts, Steps(p), Same(p), UNCHANGED <<usage, crowd>>
    PROVE  Reserved'
<1>1. \A d : AdmittedOn(d)' = AdmittedOn(d)
  BY DEF AdmittedOn, Steps, Same, Admitted
<1> QED
  BY <1>1 DEF Reserved

(* A request that ends is charged what it has used, or not at all.         *)
LEMMA ReservedEnds ==
    ASSUME Reserved, TypeOK, NEW p \in Posts, Steps(p), ~Admitted(p)', crowd' = crowd,
           \/ usage' = usage
           \/ Admitted(p) /\ usage' = [usage EXCEPT ![posts[p].day] = @ + posts[p].tokens]
    PROVE  Reserved'
<1> SUFFICES ASSUME Budget > 0, NEW d \in Days
             PROVE  usage'[d] + MaxIterations * Cardinality(AdmittedOn(d)')
                      < Budget + crowd * MaxIterations
  BY DEF Reserved
<1> DEFINE A == AdmittedOn(d)
<1>1. AdmittedOn(d)' = A \ {p}
  BY DEF AdmittedOn, Steps, Admitted
<1>2. IsFiniteSet(A) /\ Cardinality(A) \in Nat
  BY Counted
<1>3. usage[d] \in Nat /\ crowd \in Nat /\ posts[p].tokens \in 0..MaxIterations
  BY DEF TypeOK, Post
<1>4. usage[d] + MaxIterations * Cardinality(A) < Budget + crowd * MaxIterations
  BY DEF Reserved
<1>5. CASE p \in A
  <2>1. Cardinality(A \ {p}) = Cardinality(A) - 1 /\ Cardinality(A) > 0
    BY <1>2, <1>5, FS_RemoveElement, FS_EmptySet
  <2>a. usage \in [Days -> Nat] /\ posts[p].day = d
    BY <1>5 DEF AdmittedOn, TypeOK
  <2>b. usage'[d] = usage[d] \/ usage'[d] = usage[d] + posts[p].tokens
    BY <2>a
  <2>2. usage'[d] <= usage[d] + MaxIterations
    BY <1>3, <2>b, BoundsAreNatural
  <2>3. usage'[d] \in Nat
    BY <1>3, <2>b
  <2>4. MaxIterations * (Cardinality(A) - 1) = MaxIterations * Cardinality(A) - MaxIterations
    BY <1>2
  <2> HIDE DEF A
  <2> QED
    BY <1>1, <1>2, <1>3, <1>4, <2>1, <2>2, <2>3, <2>4
<1>6. CASE p \notin A
  <2>1. A \ {p} = A
    BY <1>6
  <2>2. usage'[d] = usage[d]
    BY <1>6 DEF AdmittedOn, TypeOK
  <2> QED
    BY <1>1, <1>4, <2>1, <2>2
<1> QED
  BY <1>5, <1>6

(* A request that is let in finds the day below the budget, and is one of  *)
(* the crowd.                                                              *)
LEMMA ReservedEnters ==
    ASSUME Reserved, TypeOK, NEW p \in Posts, Steps(p), ~Admitted(p), Admitted(p)',
           posts'[p].day = today, usage' = usage, Budget > 0 => usage[today] < Budget,
           crowd' \in Nat, crowd' >= crowd,
           crowd' >= Cardinality({q \in Posts : Admitted(q)}) + 1
    PROVE  Reserved'
<1> SUFFICES ASSUME Budget > 0, NEW d \in Days
             PROVE  usage[d] + MaxIterations * Cardinality(AdmittedOn(d)')
                      < Budget + crowd' * MaxIterations
  BY DEF Reserved
<1> DEFINE A == AdmittedOn(d)
           B == {q \in Posts : Admitted(q)}
<1>1. IsFiniteSet(A) /\ Cardinality(A) \in Nat
  BY Counted
<1>2. usage[d] \in Nat /\ crowd \in Nat
  BY DEF TypeOK
<1>3. MaxIterations * crowd <= crowd' * MaxIterations
  BY <1>2, Times
<1>4. CASE d = today
  <2>1. AdmittedOn(d)' = A \cup {p} /\ p \notin B /\ A \subseteq B
    BY <1>4 DEF AdmittedOn, Steps, Admitted
  <2>2. IsFiniteSet(B)
    BY PostsFinite, FS_Subset
  <2>3. Cardinality(A) <= Cardinality(B) /\ Cardinality(B) \in Nat
    BY <2>1, <2>2, FS_Subset, FS_CardinalityType
  <2>4. Cardinality(A \cup {p}) = Cardinality(A) + 1
    BY <1>1, <2>1, FS_AddElement
  <2>5. Cardinality(A) + 1 <= crowd'
    BY <1>1, <2>3
  <2> HIDE DEF A, B
  <2>6. MaxIterations * (Cardinality(A) + 1) <= crowd' * MaxIterations
    BY <1>1, <2>5, Times
  <2> QED
    BY <1>1, <1>2, <1>4, <2>1, <2>4, <2>6
<1>5. CASE d # today
  <2>1. AdmittedOn(d)' = A
    BY <1>5 DEF AdmittedOn, Steps, Admitted
  <2>2. usage[d] + MaxIterations * Cardinality(A) < Budget + crowd * MaxIterations
    BY DEF Reserved
  <2> HIDE DEF A
  <2> QED
    BY <1>1, <1>2, <1>3, <2>1, <2>2
<1> QED
  BY <1>4, <1>5

(* A request that ends keeps nothing.                                      *)
LEMMA Ended ==
    ASSUME TypeOK, NEW p \in Posts, End(p)
    PROVE  Steps(p) /\ ~Admitted(p)'
<1>1. posts[p].session \in Sessions /\ Request("done", posts[p].session) \in Post
  BY DEF TypeOK, Post, Request
<1>2. posts'[p] = Request("done", posts[p].session)
  BY DEF End, TypeOK
<1> QED
  BY <1>1, <1>2 DEF End, TypeOK, Steps, TokensLeft, Admitted, Request

(* A step of one request keeps the invariant if the request does, and the  *)
(* session and the thread stay typed.                                      *)
LEMMA StepKeeps ==
    ASSUME IInv, NEW p \in Posts, Steps(p), Reserved',
           sessions' \in [Sessions -> Session], threads' \in [Sessions -> Seq(Turns)],
           usage' \in [Days -> Nat], today' \in Days, crowd' \in Nat,
           torn' \subseteq Sessions, overlapped' \subseteq Sessions
    PROVE  IInv'
<1>1. \A q \in Posts : TokensLeft(q)'
  BY DEF IInv, Steps, TokensLeft
<1> QED
  BY <1>1 DEF IInv, TypeOK, Steps

(* A request that stays where it is counted.                               *)
LEMMA GoOn ==
    ASSUME TypeOK, NEW p \in Posts, NEW q \in Post, posts' = [posts EXCEPT ![p] = q],
           q.pc = "loop" => q.tokens < MaxIterations,
           q.pc \in {"idle", "budget", "list"} => q.tokens = 0
    PROVE  Steps(p) /\ posts'[p] = q
BY DEF TypeOK, Steps, TokensLeft

(* Every step keeps the inductive invariant.                               *)
LEMMA NextKeeps == IInv /\ [Next]_vars => IInv'
<1> SUFFICES ASSUME IInv, [Next]_vars PROVE IInv'
  OBVIOUS
<1>a. TypeOK /\ Reserved /\ \A p \in Posts : TokensLeft(p)
  BY DEF IInv
<1>b. \A p \in Posts : posts[p] \in Post /\ posts[p].session \in Sessions
  BY <1>a DEF TypeOK, Post
<1>c. ASSUME NEW p \in Posts, overlapped' \subseteq overlapped \cup {posts[p].session}
      PROVE  overlapped' \subseteq Sessions
  BY <1>a, <1>b, <1>c DEF TypeOK
<1>0. ASSUME UNCHANGED <<usage, posts, crowd>>, sessions' \in [Sessions -> Session],
             threads' \in [Sessions -> Seq(Turns)], today' \in Days,
             UNCHANGED <<torn, overlapped>>
      PROVE  IInv'
  <2>1. \A d : AdmittedOn(d)' = AdmittedOn(d)
    BY <1>0 DEF AdmittedOn, Admitted
  <2>2. Reserved'
    BY <1>0, <1>a, <2>1 DEF Reserved
  <2>3. \A p \in Posts : TokensLeft(p)'
    BY <1>0, <1>a DEF TokensLeft
  <2> QED
    BY <1>0, <1>a, <2>2, <2>3 DEF IInv, TypeOK
<1>1. ASSUME NEW s \in Sessions, CreateSession(s) \/ DeleteSession(s) PROVE IInv'
  <2>1. \A status \in {"live", "gone"} : [sessions[s] EXCEPT !.status = status] \in Session
    BY <1>a DEF TypeOK, Session
  <2>2. sessions' \in [Sessions -> Session]
    BY <1>1, <1>a, <2>1 DEF CreateSession, DeleteSession, TypeOK
  <2>3. threads' \in [Sessions -> Seq(Turns)]
    <3>1. <<>> \in Seq(Turns)
      OBVIOUS
    <3>2. threads' = threads \/ threads' = [threads EXCEPT ![s] = <<>>]
      BY <1>1 DEF CreateSession, DeleteSession
    <3> QED
      BY <1>a, <3>1, <3>2 DEF TypeOK
  <2> QED
    BY <1>0, <1>1, <1>a, <2>2, <2>3 DEF CreateSession, DeleteSession, TypeOK
<1>2. ASSUME NEW p \in Posts, GetSession(p) PROVE IInv'
  <2> DEFINE q == [posts[p] EXCEPT !.pc = "budget", !.titled = sessions[posts[p].session].titled]
  <2>1. q \in Post /\ q.pc = "budget" /\ q.tokens = 0 /\ q.day = posts[p].day
    <3>1. sessions[posts[p].session].titled \in BOOLEAN
      BY <1>a, <1>b DEF TypeOK, Session
    <3>2. posts[p].tokens = 0
      BY <1>2, <1>a DEF GetSession, TokensLeft
    <3> QED
      BY <1>b, <3>1, <3>2 DEF Post
  <2>2. posts' = [posts EXCEPT ![p] = q]
    BY <1>2 DEF GetSession
  <2> HIDE DEF q
  <2>3. Steps(p) /\ posts'[p] = q
    BY <1>a, <2>1, <2>2, GoOn
  <2>4. Reserved'
    BY <1>2, <1>a, <2>1, <2>3, ReservedKept DEF Same, Admitted, GetSession
  <2> QED
    BY <1>2, <1>a, <2>3, <2>4, StepKeeps DEF GetSession, TypeOK
<1>3. ASSUME NEW p \in Posts, CheckBudget(p) PROVE IInv'
  <2> DEFINE n == Cardinality({q \in Posts : Admitted(q)}) + 1
  <2>1. n \in Nat
    BY PostsFinite, FS_Subset, FS_CardinalityType
  <2>2. crowd' = (IF ~OverBudget(today) /\ n > crowd THEN n ELSE crowd)
    BY <1>3 DEF CheckBudget
  <2> HIDE DEF n
  <2>3. crowd' \in Nat /\ crowd' >= crowd
    BY <1>a, <2>1, <2>2 DEF TypeOK
  <2>4. CASE OverBudget(today)
    <3>1. End(p) /\ usage' = usage /\ crowd' = crowd
      BY <1>3, <2>2, <2>4 DEF CheckBudget
    <3>2. Steps(p) /\ Reserved'
      BY <1>a, <3>1, Ended, ReservedEnds
    <3> QED
      BY <1>3, <1>a, <2>3, <3>2, StepKeeps DEF CheckBudget, TypeOK
  <2>5. CASE ~OverBudget(today)
    <3> DEFINE q == [posts[p] EXCEPT !.pc = "list", !.day = today]
    <3>1. q \in Post /\ q.pc = "list" /\ q.tokens = 0 /\ q.day = today
      <4>1. posts[p].tokens = 0 /\ today \in Days
        BY <1>3, <1>a DEF CheckBudget, TokensLeft, TypeOK
      <4> QED
        BY <1>b, <4>1 DEF Post
    <3>2. posts' = [posts EXCEPT ![p] = q]
      BY <1>3, <2>5 DEF CheckBudget
    <3> HIDE DEF q
    <3>3. Steps(p) /\ posts'[p] = q
      BY <1>a, <3>1, <3>2, GoOn
    <3>4. ~Admitted(p) /\ Admitted(p)' /\ posts'[p].day = today /\ usage' = usage
      BY <1>3, <3>1, <3>3 DEF CheckBudget, Admitted
    <3>5. Budget > 0 => usage[today] < Budget
      BY <1>a, <2>5 DEF OverBudget, TypeOK
    <3>6. crowd' >= n
      BY <1>a, <2>1, <2>2, <2>5 DEF TypeOK
    <3>7. Reserved'
      BY <1>a, <2>3, <3>3, <3>4, <3>5, <3>6, ReservedEnters DEF n
    <3> QED
      BY <1>3, <1>a, <2>3, <3>3, <3>7, StepKeeps DEF CheckBudget, TypeOK
  <2> QED
    BY <2>4, <2>5
<1>4. ASSUME NEW p \in Posts, ReadHistory(p) PROVE IInv'
  <2> DEFINE m == Append(ListMessages(posts[p].session), "text")
             q == [posts[p] EXCEPT !.pc = "loop", !.messages = m, !.delta = <<"text">>]
  <2>1. m \in Seq(Turns) /\ <<"text">> \in Seq(Turns)
    BY <1>a, <1>b DEF ListMessages, TypeOK, Turns
  <2> HIDE DEF m
  <2>2. q \in Post /\ q.pc = "loop" /\ q.tokens = 0 /\ q.day = posts[p].day
    <3>1. posts[p].tokens = 0
      BY <1>4, <1>a DEF ReadHistory, TokensLeft
    <3> QED
      BY <1>b, <2>1, <3>1 DEF Post
  <2>3. posts' = [posts EXCEPT ![p] = q]
    BY <1>4 DEF ReadHistory, m
  <2> HIDE DEF q
  <2>a. q.tokens < MaxIterations
    BY <2>2
  <2>4. Steps(p) /\ posts'[p] = q
    BY <1>a, <2>2, <2>a, <2>3, GoOn
  <2>5. Reserved'
    BY <1>4, <1>a, <2>2, <2>4, ReservedKept DEF Same, Admitted, ReadHistory
  <2>6. overlapped' \subseteq Sessions
    BY <1>4, <1>c DEF ReadHistory, Overlap
  <2> QED
    BY <1>4, <1>a, <2>4, <2>5, <2>6, StepKeeps DEF ReadHistory, TypeOK
<1>5. ASSUME NEW p \in Posts, RunLoop(p) PROVE IInv'
  <2>1. posts[p].pc = "loop" /\ posts[p].tokens \in 0..MaxIterations /\ posts[p].tokens < MaxIterations
    BY <1>5, <1>a, <1>b DEF RunLoop, TokensLeft, Post
  <2>2. /\ <<"call", "response">> \in Seq(Turns)
        /\ <<"answer">> \in Seq(Turns)
        /\ <<>> \in Seq(Turns)
    <3>1. {"call", "response", "answer"} \subseteq Turns
      BY DEF Turns
    <3> QED
      BY <3>1
  <2>3. PICK q \in Post : /\ posts' = [posts EXCEPT ![p] = q]
                          /\ q.pc \in {"loop", "append"} /\ q.day = posts[p].day
                          /\ q.pc = "loop" => q.tokens < MaxIterations
    <3>1. ASSUME NEW d \in Seq(Turns), EndLoop(p, d)
          PROVE  \E q \in Post : /\ posts' = [posts EXCEPT ![p] = q]
                                 /\ q.pc \in {"loop", "append"} /\ q.day = posts[p].day
                                 /\ q.pc = "loop" => q.tokens < MaxIterations
      <4> DEFINE z == [posts[p] EXCEPT !.pc = "append", !.messages = <<>>,
                                       !.delta = posts[p].delta \o d, !.tokens = posts[p].tokens + 1]
      <4>1. posts[p].delta \o d \in Seq(Turns) /\ <<>> \in Seq(Turns)
        BY <1>b DEF Post
      <4>2. posts[p].tokens + 1 \in 0..MaxIterations
        BY <2>1
      <4>5. z \in Post
        <5> DEFINE m == <<>>
                   e == posts[p].delta \o d
                   k == posts[p].tokens + 1
        <5>1. /\ posts[p] \in Post /\ m \in Seq(Turns) /\ e \in Seq(Turns) /\ k \in 0..MaxIterations
              /\ z = [posts[p] EXCEPT !.pc = "append", !.messages = m, !.delta = e, !.tokens = k]
          BY <1>b, <4>1, <4>2
        <5> HIDE DEF m, e, k, z
        <5> QED
          BY <5>1, LoopTyped
      <4>6. z.pc = "append" /\ z.day = posts[p].day
        BY <1>b DEF Post
      <4>3. posts' = [posts EXCEPT ![p] = z]
        BY <3>1 DEF EndLoop
      <4> HIDE DEF z
      <4> QED
        BY <4>3, <4>5, <4>6
    <3>2. ASSUME ~LastTurn(p),
                 posts' = [posts EXCEPT ![p].messages = @ \o <<"call", "response">>,
                                        ![p].delta = @ \o Called, ![p].tokens = @ + 1]
          PROVE  \E q \in Post : /\ posts' = [posts EXCEPT ![p] = q]
                                 /\ q.pc \in {"loop", "append"} /\ q.day = posts[p].day
                                 /\ q.pc = "loop" => q.tokens < MaxIterations
      <4> DEFINE z == [posts[p] EXCEPT !.messages = posts[p].messages \o <<"call", "response">>,
                                       !.delta = posts[p].delta \o Called, !.tokens = posts[p].tokens + 1]
      <4>1. /\ posts[p].delta \o Called \in Seq(Turns)
            /\ posts[p].messages \o <<"call", "response">> \in Seq(Turns)
        BY <1>b, <2>2 DEF Post, Called
      <4>2. posts[p].tokens + 1 < MaxIterations
        BY <2>1, <3>2 DEF LastTurn
      <4>3. /\ z.pc = "loop" /\ z.day = posts[p].day
            /\ z.tokens = posts[p].tokens + 1
        BY <1>b, <2>1 DEF Post
      <4>5. z \in Post
        <5> DEFINE m == posts[p].messages \o <<"call", "response">>
                   e == posts[p].delta \o Called
                   k == posts[p].tokens + 1
        <5>1. /\ posts[p] \in Post /\ m \in Seq(Turns) /\ e \in Seq(Turns) /\ k \in 0..MaxIterations
              /\ z = [posts[p] EXCEPT !.messages = m, !.delta = e, !.tokens = k]
          BY <1>b, <2>1, <4>1, <4>2
        <5> HIDE DEF m, e, k, z
        <5> QED
          BY <5>1, LoopTyped
      <4>4. posts' = [posts EXCEPT ![p] = z]
        BY <3>2
      <4> HIDE DEF z
      <4> QED
        BY <4>2, <4>3, <4>4, <4>5
    <3> QED
      BY <1>5, <2>2, <3>1, <3>2 DEF RunLoop, Calls, Answers, Called
  <2>4. Steps(p) /\ posts'[p] = q
    BY <1>a, <2>3, GoOn
  <2>5. Reserved'
    BY <1>5, <1>a, <2>1, <2>3, <2>4, ReservedKept DEF Same, Admitted, RunLoop
  <2> QED
    BY <1>5, <1>a, <2>4, <2>5, StepKeeps DEF RunLoop, TypeOK
<1>6. ASSUME NEW p \in Posts, AppendMessage(p) PROVE IInv'
  <2> DEFINE turn == Head(posts[p].delta)
             q == [posts[p] EXCEPT !.delta = Tail(posts[p].delta)]
             s == posts[p].session
             row == [sessions[s] EXCEPT !.total = IF turn = "answer" THEN sessions[s].total + posts[p].tokens
                                                  ELSE sessions[s].total]
  <2>1. posts[p].delta \in Seq(Turns) \ {<<>>} /\ posts[p].tokens \in Nat /\ posts[p].pc = "append"
    BY <1>6, <1>b DEF AppendMessage, Post
  <2>2. turn \in Turns /\ Tail(posts[p].delta) \in Seq(Turns)
    BY <2>1
  <2>3. q \in Post /\ q.pc = "append" /\ q.day = posts[p].day
    BY <1>b, <2>1, <2>2 DEF Post
  <2>4. posts' = [posts EXCEPT ![p] = q]
    BY <1>6 DEF AppendMessage
  <2>5. threads' \in [Sessions -> Seq(Turns)]
    BY <1>6, <1>a, <1>b, <2>2 DEF AppendMessage, TypeOK
  <2>6. row \in Session
    <3>1. sessions[s] \in Session /\ sessions[s].total \in Nat
      BY <1>a, <1>b DEF TypeOK, Session
    <3>2. (IF turn = "answer" THEN sessions[s].total + posts[p].tokens ELSE sessions[s].total) \in Nat
      BY <2>1, <3>1
    <3> QED
      BY <3>1, <3>2 DEF Session
  <2>7. sessions' = [sessions EXCEPT ![s] = row]
    BY <1>6 DEF AppendMessage
  <2> HIDE DEF q, row
  <2>8. sessions' \in [Sessions -> Session]
    BY <1>a, <2>6, <2>7 DEF TypeOK
  <2>9. Steps(p) /\ posts'[p] = q
    BY <1>a, <2>3, <2>4, GoOn
  <2>10. Reserved'
    BY <1>6, <1>a, <2>1, <2>3, <2>9, ReservedKept DEF Same, Admitted, AppendMessage
  <2>11. overlapped' \subseteq Sessions
    BY <1>6, <1>c DEF AppendMessage, Overlap
  <2> QED
    BY <1>6, <1>a, <2>5, <2>8, <2>9, <2>10, <2>11, StepKeeps DEF AppendMessage, TypeOK
<1>7. ASSUME NEW p \in Posts, AppendFails(p) PROVE IInv'
  <2> DEFINE q == [posts[p] EXCEPT !.delta = Tail(posts[p].delta)]
  <2>1. posts[p].delta \in Seq(Turns) \ {<<>>} /\ posts[p].pc = "append"
    BY <1>7, <1>b DEF AppendFails, Post
  <2>2. Tail(posts[p].delta) \in Seq(Turns)
    BY <2>1
  <2>3. q \in Post /\ q.pc = "append" /\ q.day = posts[p].day
    BY <1>b, <2>1, <2>2 DEF Post
  <2>4. posts' = [posts EXCEPT ![p] = q]
    BY <1>7 DEF AppendFails
  <2> HIDE DEF q
  <2>5. Steps(p) /\ posts'[p] = q
    BY <1>a, <2>3, <2>4, GoOn
  <2>6. Reserved'
    BY <1>7, <1>a, <2>1, <2>3, <2>5, ReservedKept DEF Same, Admitted, AppendFails
  <2> QED
    BY <1>7, <1>a, <1>b, <2>5, <2>6, StepKeeps DEF AppendFails, TypeOK
<1>8. ASSUME NEW p \in Posts, EndAppend(p) \/ SetTitle(p) PROVE IInv'
  <2> DEFINE q(pc) == [posts[p] EXCEPT !.pc = pc]
  <2>1. PICK pc \in {"title", "usage"} : posts' = [posts EXCEPT ![p] = q(pc)]
    BY <1>8 DEF EndAppend, SetTitle, Goto
  <2>2. q(pc) \in Post /\ q(pc).pc = pc /\ q(pc).day = posts[p].day
    BY <1>b DEF Post
  <2>3. posts[p].pc \in {"append", "title"}
    BY <1>8 DEF EndAppend, SetTitle
  <2> HIDE DEF q
  <2>4. Steps(p) /\ posts'[p] = q(pc)
    BY <1>a, <2>1, <2>2, GoOn
  <2>5. UNCHANGED <<threads, usage, today, torn, overlapped, crowd>>
    BY <1>8 DEF EndAppend, SetTitle
  <2>6. Reserved'
    BY <1>a, <2>2, <2>3, <2>4, <2>5, ReservedKept DEF Same, Admitted
  <2>7. sessions' \in [Sessions -> Session]
    <3> DEFINE s == posts[p].session
               row == [sessions[s] EXCEPT !.titled = sessions[s].titled \/ Live(s)]
    <3>1. Live(s) \in BOOLEAN
      BY DEF Live
    <3>2. row \in Session
      <4>1. sessions[s] \in Session
        BY <1>a, <1>b DEF TypeOK
      <4>2. (sessions[s].titled \/ Live(s)) \in BOOLEAN
        BY Zenon
      <4> QED
        BY <4>1, <4>2 DEF Session
    <3>3. sessions' = sessions \/ sessions' = [sessions EXCEPT ![s] = row]
      BY <1>8 DEF EndAppend, SetTitle
    <3> HIDE DEF row
    <3> QED
      BY <1>a, <3>2, <3>3 DEF TypeOK
  <2> QED
    BY <1>a, <2>4, <2>5, <2>6, <2>7, StepKeeps DEF TypeOK
<1>9. ASSUME NEW p \in Posts, RecordUsage(p) PROVE IInv'
  <2>1. Steps(p) /\ ~Admitted(p)' /\ Admitted(p)
    BY <1>9, <1>a, Ended DEF RecordUsage, Admitted
  <2>2. posts[p].tokens \in Nat /\ posts[p].day \in Days
    BY <1>b DEF Post
  <2>3. Reserved'
    BY <1>9, <1>a, <2>1, ReservedEnds DEF RecordUsage
  <2>4. usage' \in [Days -> Nat]
    <3>1. usage[posts[p].day] + posts[p].tokens \in Nat
      BY <1>a, <2>2 DEF TypeOK
    <3>2. \/ usage' = usage
          \/ usage' = [usage EXCEPT ![posts[p].day] = usage[posts[p].day] + posts[p].tokens]
      BY <1>9 DEF RecordUsage
    <3> QED
      BY <1>a, <3>1, <3>2 DEF TypeOK
  <2> QED
    BY <1>9, <1>a, <2>1, <2>3, <2>4, StepKeeps DEF RecordUsage, TypeOK
<1>10. ASSUME NEW p \in Posts, PostFails(p) PROVE IInv'
  <2>1. Steps(p) /\ ~Admitted(p)'
    BY <1>10, <1>a, Ended DEF PostFails
  <2>2. Reserved'
    BY <1>10, <1>a, <2>1, ReservedEnds DEF PostFails
  <2> QED
    BY <1>10, <1>a, <1>b, <2>1, <2>2, StepKeeps DEF PostFails, TypeOK
<1>11. ASSUME Midnight PROVE IInv'
  <2>1. today' \in Days
    BY <1>11, <1>a DEF Midnight, TypeOK
  <2> QED
    BY <1>0, <1>11, <1>a, <2>1 DEF Midnight, TypeOK
<1>12. ASSUME UNCHANGED vars PROVE IInv'
  BY <1>0, <1>12, <1>a DEF vars, TypeOK
<1> QED
  BY <1>1, <1>2, <1>3, <1>4, <1>5, <1>6, <1>7, <1>8, <1>9, <1>10, <1>11, <1>12
  DEF Next, HandlePostChatMessage

(* The inductive invariant.                                                *)
LEMMA Invariance == Spec => []IInv
BY InitIInv, NextKeeps, PTL DEF Spec

(* The types, and with them that no request calls the model more often     *)
(* than the loop allows.                                                   *)
THEOREM TypeCorrect == Spec => []TypeOK
BY Invariance, PTL DEF IInv

(* However many requests pass the check of the budget together, and        *)
(* whatever the day they end on, a day goes over its budget by no more     *)
(* than those requests can spend.                                          *)
THEOREM BudgetIsKept == Spec => []BudgetKept
<1>1. IInv => BudgetKept
  <2> SUFFICES ASSUME IInv, Budget > 0, NEW d \in Days
               PROVE  usage[d] < Budget + crowd * MaxIterations
    BY DEF BudgetKept
  <2> DEFINE k == Cardinality(AdmittedOn(d))
  <2>1. k \in Nat /\ usage[d] \in Nat /\ crowd \in Nat
    BY Counted DEF IInv, TypeOK
  <2>2. usage[d] + MaxIterations * k < Budget + crowd * MaxIterations
    BY DEF IInv, Reserved
  <2> HIDE DEF k
  <2>3. MaxIterations * k \in Nat /\ crowd * MaxIterations \in Nat
    BY <2>1
  <2> QED
    BY <2>1, <2>2, <2>3
<1> QED
  BY Invariance, <1>1, PTL

-----------------------------------------------------------------------------
(* Calls and responses.  The turns that a request has still to store are   *)
(* part of what its thread will be; while only one request at a time is    *)
(* half way through a thread, the two together are well formed.            *)

Bad(s) == s \in torn \cup overlapped

(* Only the first of the turns of a post is the user's text.               *)
OneText(d) == \A i \in DOMAIN d : i > 1 => d[i] # "text"

PostOK(p) ==
    LET d == posts[p].delta IN
    /\ posts[p].pc = "loop" =>
         /\ d # <<>> /\ d[1] = "text" /\ OneText(d) /\ Answered(d)
         /\ ~Bad(posts[p].session) => Answered(posts[p].messages)
    /\ posts[p].pc = "append" =>
         /\ OneText(d)
         /\ d # <<>> /\ d[1] = "text" => Answered(d)
    /\ posts[p].pc \notin {"idle", "done"} =>
         sessions[posts[p].session].status # "unused"

(* p is half way through the thread of s.                                  *)
HalfWay(p, s) == HalfWritten(p) /\ posts[p].session = s

ThreadOK(s) ==
    /\ ~Live(s) => threads[s] = <<>>
    /\ ~Bad(s) /\ Live(s) =>
         /\ (\A p \in Posts : ~HalfWay(p, s)) => Answered(threads[s])
         /\ \A p \in Posts : HalfWay(p, s) =>
              /\ Answered(threads[s] \o posts[p].delta)
              /\ \A q \in Posts : HalfWay(q, s) => q = p

CallsInv == (\A p \in Posts : PostOK(p)) /\ (\A s \in Sessions : ThreadOK(s))

(* Two well-formed sequences of turns make one.                            *)
LEMMA ConcatAnswered ==
    ASSUME NEW a \in Seq(Turns), NEW b \in Seq(Turns), Answered(a), Answered(b)
    PROVE  a \o b \in Seq(Turns) /\ Answered(a \o b)
<1>1. /\ a \o b \in Seq(Turns)
      /\ Len(a) \in Nat /\ Len(b) \in Nat
      /\ Len(a \o b) = Len(a) + Len(b)
      /\ DOMAIN a = 1..Len(a) /\ DOMAIN b = 1..Len(b)
      /\ DOMAIN (a \o b) = 1..(Len(a) + Len(b))
      /\ \A i \in 1..(Len(a) + Len(b)) :
           (a \o b)[i] = IF i <= Len(a) THEN a[i] ELSE b[i - Len(a)]
  OBVIOUS
<1> DEFINE m == a \o b
<1> HIDE DEF m
<1>2. ASSUME NEW i \in 1..(Len(a) + Len(b)), m[i] = "call"
      PROVE  i < Len(a) + Len(b) /\ m[i + 1] = "response"
  <2>1. CASE i <= Len(a)
    <3>1. a[i] = "call" /\ i \in 1..Len(a)
      BY <1>1, <1>2, <2>1 DEF m
    <3>2. i < Len(a) /\ a[i + 1] = "response"
      BY <1>1, <3>1 DEF Answered
    <3>3. i + 1 \in 1..(Len(a) + Len(b)) /\ i + 1 <= Len(a)
      BY <1>1, <3>2
    <3>4. m[i + 1] = a[i + 1]
      BY <1>1, <3>3 DEF m
    <3> QED
      BY <1>1, <3>2, <3>3, <3>4
  <2>2. CASE ~(i <= Len(a))
    <3>1. b[i - Len(a)] = "call" /\ i - Len(a) \in 1..Len(b)
      BY <1>1, <1>2, <2>2 DEF m
    <3>2. i - Len(a) < Len(b) /\ b[(i - Len(a)) + 1] = "response"
      BY <1>1, <3>1 DEF Answered
    <3>3. /\ i + 1 \in 1..(Len(a) + Len(b)) /\ ~(i + 1 <= Len(a))
          /\ (i + 1) - Len(a) = (i - Len(a)) + 1
      BY <1>1, <2>2, <3>2
    <3>4. m[i + 1] = b[(i + 1) - Len(a)]
      BY <1>1, <3>3 DEF m
    <3> QED
      BY <1>1, <3>2, <3>3, <3>4
  <2> QED
    BY <2>1, <2>2
<1>3. ASSUME NEW i \in 1..(Len(a) + Len(b)), m[i] = "response"
      PROVE  i > 1 /\ m[i - 1] = "call"
  <2>1. CASE i <= Len(a)
    <3>1. a[i] = "response" /\ i \in 1..Len(a)
      BY <1>1, <1>3, <2>1 DEF m
    <3>2. i > 1 /\ a[i - 1] = "call"
      BY <1>1, <3>1 DEF Answered
    <3>3. i - 1 \in 1..(Len(a) + Len(b)) /\ i - 1 <= Len(a)
      BY <1>1, <3>1, <3>2
    <3>4. m[i - 1] = a[i - 1]
      BY <1>1, <3>3 DEF m
    <3> QED
      BY <3>2, <3>4
  <2>2. CASE ~(i <= Len(a))
    <3>1. b[i - Len(a)] = "response" /\ i - Len(a) \in 1..Len(b)
      BY <1>1, <1>3, <2>2 DEF m
    <3>2. i - Len(a) > 1 /\ b[(i - Len(a)) - 1] = "call"
      BY <1>1, <3>1 DEF Answered
    <3>3. /\ i - 1 \in 1..(Len(a) + Len(b)) /\ ~(i - 1 <= Len(a))
          /\ (i - 1) - Len(a) = (i - Len(a)) - 1
      BY <1>1, <2>2, <3>2
    <3>4. m[i - 1] = b[(i - 1) - Len(a)]
      BY <1>1, <3>3 DEF m
    <3> QED
      BY <1>1, <2>2, <3>2, <3>3, <3>4
  <2> QED
    BY <2>1, <2>2
<1> QED
  BY <1>1, <1>2, <1>3 DEF Answered, m

(* What a turn of the loop adds is well formed.                            *)
LEMMA TurnsAnswered ==
    /\ <<>> \in Seq(Turns) /\ Answered(<<>>)
    /\ <<"text">> \in Seq(Turns) /\ Answered(<<"text">>)
    /\ <<"answer">> \in Seq(Turns) /\ Answered(<<"answer">>)
    /\ <<"call", "response">> \in Seq(Turns) /\ Answered(<<"call", "response">>)
BY DEF Answered, Turns

(* A text may follow what is well formed.                                  *)
LEMMA TextAnswered ==
    ASSUME NEW a \in Seq(Turns), Answered(a)
    PROVE  Answered(Append(a, "text"))
<1>1. Append(a, "text") = a \o <<"text">>
  OBVIOUS
<1> QED
  BY <1>1, ConcatAnswered, TurnsAnswered

(* Storing a turn moves it from what is left to the thread.                *)
LEMMA MoveTurn ==
    ASSUME NEW a \in Seq(Turns), NEW d \in Seq(Turns), d # <<>>
    PROVE  /\ Append(a, Head(d)) \in Seq(Turns) /\ Tail(d) \in Seq(Turns)
           /\ Head(d) = d[1]
           /\ Append(a, Head(d)) \o Tail(d) = a \o d
           /\ Tail(d) = <<>> => Append(a, Head(d)) = a \o d
<1>1. /\ Append(a, Head(d)) \in Seq(Turns) /\ Tail(d) \in Seq(Turns)
      /\ Head(d) = d[1] /\ Head(d) \in Turns
      /\ Len(d) \in Nat /\ Len(a) \in Nat /\ Len(d) >= 1
      /\ Len(Append(a, Head(d))) = Len(a) + 1
      /\ Len(Tail(d)) = Len(d) - 1
  OBVIOUS
<1>2. a \o d \in Seq(Turns) /\ Len(a \o d) = Len(a) + Len(d)
  OBVIOUS
<1> DEFINE x == Append(a, Head(d)) \o Tail(d)
<1>3. x \in Seq(Turns) /\ Len(x) = Len(a) + Len(d)
  BY <1>1
<1>4. ASSUME NEW i \in 1..(Len(a) + Len(d))
      PROVE  x[i] = (a \o d)[i]
  <2>1. (a \o d)[i] = IF i <= Len(a) THEN a[i] ELSE d[i - Len(a)]
    OBVIOUS
  <2>2. x[i] = IF i <= Len(a) + 1 THEN Append(a, Head(d))[i]
               ELSE Tail(d)[i - (Len(a) + 1)]
    BY <1>1
  <2>3. CASE i <= Len(a)
    BY <1>1, <2>1, <2>2, <2>3
  <2>4. CASE i = Len(a) + 1
    BY <1>1, <2>1, <2>2, <2>4
  <2>5. CASE i > Len(a) + 1
    <3>1. Tail(d)[i - (Len(a) + 1)] = d[(i - (Len(a) + 1)) + 1]
      BY <1>1, <2>5
    <3>2. (i - (Len(a) + 1)) + 1 = i - Len(a)
      BY <1>1
    <3> QED
      BY <1>1, <2>1, <2>2, <2>5, <3>1, <3>2
  <2> QED
    BY <1>1, <2>3, <2>4, <2>5
<1>5. x = a \o d
  BY <1>1, <1>2, <1>3, <1>4, SeqEqual
<1>6. Tail(d) = <<>> => x = Append(a, Head(d))
  <2> DEFINE y == Append(a, Head(d))
  <2>1. y \in Seq(Turns)
    BY <1>1
  <2> HIDE DEF y
  <2>2. y \o <<>> = y
    BY <2>1
  <2> QED
    BY <2>2 DEF y
<1> QED
  BY <1>1, <1>5, <1>6

(* After the first turn, none is the text.                                 *)
LEMMA TailNoText ==
    ASSUME NEW d \in Seq(Turns), d # <<>>, OneText(d)
    PROVE  OneText(Tail(d)) /\ (Tail(d) # <<>> => Tail(d)[1] # "text" /\ Head(Tail(d)) # "text")
<1>1. /\ Tail(d) \in Seq(Turns) /\ Len(d) \in Nat /\ Len(d) >= 1
      /\ Len(Tail(d)) = Len(d) - 1
      /\ \A i \in 1..(Len(d) - 1) : Tail(d)[i] = d[i + 1]
  OBVIOUS
<1>2. \A i \in 1..(Len(d) - 1) : Tail(d)[i] # "text"
  BY <1>1 DEF OneText
<1>3. Tail(d) # <<>> => 1 \in 1..(Len(d) - 1) /\ Head(Tail(d)) = Tail(d)[1]
  BY <1>1
<1> QED
  BY <1>1, <1>2, <1>3 DEF OneText

(* The turns of the loop follow the text of a post.                        *)
LEMMA LoopDelta ==
    ASSUME NEW d \in Seq(Turns), d # <<>>, d[1] = "text", OneText(d), Answered(d),
           NEW e \in {<<"call", "response">>, <<"answer">>, <<>>}
    PROVE  /\ d \o e \in Seq(Turns) /\ d \o e # <<>>
           /\ (d \o e)[1] = "text" /\ OneText(d \o e) /\ Answered(d \o e)
           /\ Head(d \o e) = "text"
<1>1. /\ e \in Seq(Turns) /\ Answered(e)
      /\ \A i \in 1..Len(e) : e[i] # "text"
  <2>1. CASE e = <<"call", "response">>
    BY <2>1, TurnsAnswered
  <2>2. CASE e = <<"answer">>
    BY <2>2, TurnsAnswered
  <2>3. CASE e = <<>>
    BY <2>3, TurnsAnswered
  <2> QED
    BY <2>1, <2>2, <2>3
<1>2. /\ Len(d) \in Nat /\ Len(d) >= 1 /\ Len(e) \in Nat
      /\ d \o e \in Seq(Turns)
      /\ Len(d \o e) = Len(d) + Len(e)
      /\ \A i \in 1..(Len(d) + Len(e)) :
           (d \o e)[i] = IF i <= Len(d) THEN d[i] ELSE e[i - Len(d)]
  BY <1>1
<1>3. d \o e # <<>> /\ (d \o e)[1] = "text" /\ Head(d \o e) = (d \o e)[1]
  BY <1>2
<1>4. OneText(d \o e)
  BY <1>1, <1>2 DEF OneText
<1> QED
  BY <1>1, <1>2, <1>3, <1>4, ConcatAnswered

-----------------------------------------------------------------------------
(* A step of one request leaves the others, and the other threads, as they *)
(* are.                                                                    *)
LEMMA OnePost ==
    ASSUME TypeOK, CallsInv, NEW p \in Posts, NEW r,
           posts' = [posts EXCEPT ![p] = r], r.session = posts[p].session,
           \A s \in Sessions : sessions'[s].status = sessions[s].status,
           \A s \in Sessions : s # r.session => threads'[s] = threads[s],
           torn \subseteq torn', overlapped \subseteq overlapped',
           PostOK(p)', ThreadOK(r.session)'
    PROVE  CallsInv'
<1>1. posts'[p] = r /\ \A q \in Posts \ {p} : posts'[q] = posts[q]
  BY DEF TypeOK
<1>2. \A s \in Sessions : Bad(s) => Bad(s)'
  BY DEF Bad
<1>3. \A q \in Posts : posts[q].session \in Sessions
  BY DEF TypeOK, Post
<1>4. ASSUME NEW q \in Posts
      PROVE  PostOK(q)'
  <2>1. CASE q = p
    BY <2>1
  <2>2. CASE q # p
    BY <1>1, <1>2, <1>3, <2>2 DEF CallsInv, PostOK
  <2> QED
    BY <2>1, <2>2
<1>5. ASSUME NEW s \in Sessions
      PROVE  ThreadOK(s)'
  <2>1. CASE s = r.session
    BY <2>1
  <2>2. CASE s # r.session
    <3>1. \A q \in Posts : HalfWay(q, s)' <=> HalfWay(q, s)
      BY <1>1, <2>2 DEF HalfWay, HalfWritten
    <3>2. \A q \in Posts : HalfWay(q, s) => posts'[q] = posts[q]
      BY <1>1, <2>2 DEF HalfWay
    <3>3. Live(s)' <=> Live(s)
      BY DEF Live
    <3> QED
      BY <1>2, <2>2, <3>1, <3>2, <3>3 DEF CallsInv, ThreadOK
  <2> QED
    BY <2>1, <2>2
<1> QED
  BY <1>4, <1>5 DEF CallsInv

(* So does one that neither is nor comes to be half way through its thread.*)
LEMMA QuietPost ==
    ASSUME TypeOK, CallsInv, NEW p \in Posts, NEW r,
           posts' = [posts EXCEPT ![p] = r], r.session = posts[p].session,
           \A s \in Sessions : sessions'[s].status = sessions[s].status,
           threads' = threads, torn \subseteq torn', overlapped \subseteq overlapped',
           ~HalfWritten(p), ~HalfWritten(p)', PostOK(p)'
    PROVE  CallsInv'
<1> DEFINE s == r.session
<1>1. s \in Sessions
  BY DEF TypeOK, Post
<1>2. \A q \in Posts \ {p} : posts'[q] = posts[q]
  BY DEF TypeOK
<1>3. \A q \in Posts : /\ HalfWay(q, s)' <=> HalfWay(q, s)
                       /\ HalfWay(q, s) => posts'[q] = posts[q]
  BY <1>2 DEF HalfWay, HalfWritten
<1>4. (Live(s)' <=> Live(s)) /\ (Bad(s) => Bad(s)')
  BY <1>1 DEF Live, Bad
<1>5. ThreadOK(s)'
  BY <1>1, <1>3, <1>4 DEF CallsInv, ThreadOK
<1> QED
  BY <1>5, OnePost

(* A history that is read while nobody is half way through is well formed. *)
LEMMA ReadCalls ==
    ASSUME TypeOK, CallsInv, NEW p \in Posts, ReadHistory(p)
    PROVE  CallsInv'
<1>0. PICK s : s = posts[p].session
  OBVIOUS
<1> DEFINE m == Append(threads[s], "text")
           r == [posts[p] EXCEPT !.pc = "loop", !.messages = m, !.delta = <<"text">>]
<1>1. /\ posts[p] \in Post /\ s \in Sessions /\ posts[p].pc = "list"
      /\ posts' = [posts EXCEPT ![p] = r] /\ r.session = s
      /\ UNCHANGED <<sessions, threads, torn>> /\ overlapped \subseteq overlapped'
  BY <1>0 DEF ReadHistory, ListMessages, Overlap, TypeOK, Post
<1>2. posts'[p] = r /\ r.pc = "loop" /\ r.messages = m /\ r.delta = <<"text">>
  BY <1>1 DEF TypeOK, Post
<1>3. ~HalfWritten(p) /\ ~HalfWritten(p)'
  BY <1>1, <1>2 DEF HalfWritten
<1>4. ASSUME ~Bad(s)'
      PROVE  Answered(m)
  <2>1. s \notin overlapped' /\ s \notin torn /\ s \notin overlapped
    BY <1>1, <1>4 DEF Bad
  <2>2. \A q \in Posts \ {p} : ~HalfWay(q, s)
    BY <1>0, <2>1 DEF ReadHistory, Overlap, HalfWay
  <2>3. ~Bad(s) /\ \A q \in Posts : ~HalfWay(q, s)
    BY <1>3, <2>1, <2>2 DEF Bad, HalfWay
  <2>4. Answered(threads[s])
    BY <1>1, <2>3, TurnsAnswered DEF CallsInv, ThreadOK
  <2> QED
    BY <1>1, <2>4, TextAnswered DEF TypeOK
<1>5. <<"text">>[1] = "text" /\ OneText(<<"text">>) /\ <<"text">> # <<>>
  BY DEF OneText
<1>6. sessions[s].status # "unused"
  BY <1>0, <1>1 DEF CallsInv, PostOK
<1>7. PostOK(p)'
  BY <1>1, <1>2, <1>4, <1>5, <1>6, TurnsAnswered DEF PostOK
<1> QED
  BY <1>0, <1>1, <1>3, <1>7, QuietPost

(* The loop adds calls with their responses, or an answer.                 *)
LEMMA LoopCalls ==
    ASSUME TypeOK, CallsInv, NEW p \in Posts, RunLoop(p)
    PROVE  CallsInv'
<1> DEFINE s == posts[p].session
           d == posts[p].delta
           m == posts[p].messages
<1>1. /\ posts[p] \in Post /\ s \in Sessions /\ posts[p].pc = "loop"
      /\ d \in Seq(Turns) /\ m \in Seq(Turns)
      /\ UNCHANGED <<sessions, threads, torn, overlapped>>
  BY DEF RunLoop, TypeOK, Post
<1>2. /\ d # <<>> /\ d[1] = "text" /\ OneText(d) /\ Answered(d)
      /\ ~Bad(s) => Answered(m)
      /\ sessions[s].status # "unused"
  BY <1>1 DEF CallsInv, PostOK
<1>3. ~HalfWritten(p)
  BY <1>1 DEF HalfWritten
<1>4. ASSUME NEW e \in {<<"call", "response">>, <<"answer">>, <<>>}, EndLoop(p, e)
      PROVE  CallsInv'
  <2> DEFINE r == [posts[p] EXCEPT !.pc = "append", !.messages = <<>>,
                                   !.delta = d \o e, !.tokens = @ + 1]
  <2>1. posts' = [posts EXCEPT ![p] = r] /\ r.session = s
    BY <1>1, <1>4 DEF EndLoop, TypeOK, Post
  <2>2. posts'[p] = r /\ r.pc = "append" /\ r.delta = d \o e
    BY <1>1, <2>1 DEF TypeOK, Post
  <2>3. OneText(d \o e) /\ Answered(d \o e) /\ Head(d \o e) = "text"
    BY <1>1, <1>2, LoopDelta
  <2>4. ~HalfWritten(p)'
    BY <2>2, <2>3 DEF HalfWritten
  <2>5. PostOK(p)'
    BY <1>1, <1>2, <2>1, <2>2, <2>3 DEF PostOK
  <2> QED
    BY <1>1, <1>3, <2>1, <2>4, <2>5, QuietPost
<1>5. CASE /\ ~LastTurn(p)
           /\ posts' = [posts EXCEPT ![p].messages = @ \o <<"call", "response">>,
                                     ![p].delta = @ \o Called,
                                     ![p].tokens = @ + 1]
  <2> DEFINE r == [posts[p] EXCEPT !.messages = m \o <<"call", "response">>,
                                   !.delta = d \o <<"call", "response">>,
                                   !.tokens = @ + 1]
  <2>1. posts' = [posts EXCEPT ![p] = r] /\ r.session = s
    BY <1>1, <1>5 DEF Called, TypeOK, Post
  <2>2. /\ posts'[p] = r /\ r.pc = "loop"
        /\ r.messages = m \o <<"call", "response">>
        /\ r.delta = d \o <<"call", "response">>
    BY <1>1, <2>1 DEF TypeOK, Post
  <2>3. ~Bad(s) => Answered(m \o <<"call", "response">>)
    BY <1>1, <1>2, ConcatAnswered, TurnsAnswered
  <2>4. /\ d \o <<"call", "response">> # <<>>
        /\ (d \o <<"call", "response">>)[1] = "text"
        /\ OneText(d \o <<"call", "response">>)
        /\ Answered(d \o <<"call", "response">>)
    BY <1>1, <1>2, LoopDelta
  <2>5. ~HalfWritten(p)'
    BY <2>2 DEF HalfWritten
  <2>6. PostOK(p)'
    BY <1>1, <1>2, <2>1, <2>2, <2>3, <2>4 DEF PostOK, Bad
  <2> QED
    BY <1>1, <1>3, <2>1, <2>5, <2>6, QuietPost
<1> QED
  BY <1>4, <1>5 DEF RunLoop, Calls, Answers, Called

(* A turn that is stored moves from the post to the thread; if another     *)
(* request was half way through, the thread is overlapped.                 *)
LEMMA AppendCalls ==
    ASSUME TypeOK, CallsInv, NEW p \in Posts, AppendMessage(p)
    PROVE  CallsInv'
<1>0. PICK s : s = posts[p].session
  OBVIOUS
<1>d. PICK d : d = posts[p].delta
  OBVIOUS
<1> DEFINE t == threads[s]
           r == [posts[p] EXCEPT !.delta = Tail(d)]
<1>1. /\ posts[p] \in Post /\ s \in Sessions /\ posts[p].pc = "append"
      /\ d \in Seq(Turns) /\ d # <<>> /\ t \in Seq(Turns) /\ Live(s)
      /\ posts' = [posts EXCEPT ![p] = r] /\ r.session = s
      /\ threads' = [threads EXCEPT ![s] = Append(t, Head(d))]
      /\ torn' = torn /\ overlapped \subseteq overlapped'
  BY <1>0, <1>d DEF AppendMessage, Overlap, TypeOK, Post
<1>2. /\ posts'[p] = r /\ r.pc = "append" /\ r.delta = Tail(d)
      /\ \A q \in Posts \ {p} : posts'[q] = posts[q]
      /\ threads'[s] = Append(t, Head(d))
      /\ \A u \in Sessions : u # s => threads'[u] = threads[u]
  BY <1>1 DEF TypeOK, Post
<1>3. \A u \in Sessions : sessions'[u].status = sessions[u].status
  BY <1>0, <1>1 DEF AppendMessage, TypeOK, Session
<1>4. OneText(d) /\ (d[1] = "text" => Answered(d)) /\ sessions[s].status # "unused"
  BY <1>0, <1>d, <1>1 DEF CallsInv, PostOK
<1>5. OneText(Tail(d)) /\ (Tail(d) # <<>> => Tail(d)[1] # "text" /\ Head(Tail(d)) # "text")
  BY <1>1, <1>4, TailNoText
<1>6. PostOK(p)'
  <2>1. /\ posts'[p].pc = "append" /\ posts'[p].delta = Tail(d) /\ posts'[p].session = s
        /\ sessions'[s].status # "unused"
    BY <1>1, <1>2, <1>3, <1>4
  <2>2. OneText(posts'[p].delta) /\ ~(posts'[p].delta # <<>> /\ posts'[p].delta[1] = "text")
    BY <1>5, <2>1
  <2> QED
    BY <2>1, <2>2 DEF PostOK
<1>7. HalfWritten(p)' <=> Tail(d) # <<>>
  BY <1>2, <1>5 DEF HalfWritten
<1>8. Live(s)'
  BY <1>1, <1>3 DEF Live
<1>9. ASSUME ~Bad(s)'
      PROVE  /\ \A q \in Posts \ {p} : ~HalfWay(q, s)
             /\ Answered(t \o d)
  <2>1. ~Bad(s) /\ \A q \in Posts \ {p} : ~HalfWay(q, s)
    BY <1>0, <1>1, <1>9 DEF AppendMessage, Overlap, Bad, HalfWay
  <2>2. CASE d[1] = "text"
    <3>1. ~HalfWay(p, s)
      BY <1>1, <2>2, MoveTurn, <1>0, <1>d DEF HalfWay, HalfWritten
    <3>2. Answered(t)
      BY <1>1, <2>1, <3>1 DEF CallsInv, ThreadOK
    <3> QED
      BY <1>1, <1>4, <2>1, <2>2, <3>2, ConcatAnswered
  <2>3. CASE d[1] # "text"
    <3>1. HalfWay(p, s)
      BY <1>1, <2>3, MoveTurn, <1>0, <1>d DEF HalfWay, HalfWritten
    <3> QED
      BY <1>d, <1>1, <2>1, <3>1 DEF CallsInv, ThreadOK
  <2> QED
    BY <2>2, <2>3
<1>10. ThreadOK(s)'
  <2>1. \A q \in Posts \ {p} : HalfWay(q, s)' <=> HalfWay(q, s)
    BY <1>2 DEF HalfWay, HalfWritten
  <2>2. HalfWay(p, s)' <=> Tail(d) # <<>>
    BY <1>1, <1>2, <1>7 DEF HalfWay
  <2>3. /\ Append(t, Head(d)) \o Tail(d) = t \o d
        /\ Tail(d) = <<>> => Append(t, Head(d)) = t \o d
    BY <1>1, MoveTurn
  <2>4. ASSUME ~Bad(s)', \A q \in Posts : ~HalfWay(q, s)'
        PROVE  Answered(threads[s])'
    <3>1. Tail(d) = <<>>
      BY <2>2, <2>4
    <3>2. threads'[s] = t \o d
      BY <1>2, <2>3, <3>1
    <3>3. Answered(t \o d)
      BY <1>9, <2>4
    <3> HIDE DEF t
    <3> QED
      BY <3>2, <3>3 DEF Answered
  <2>5. ASSUME ~Bad(s)', NEW q \in Posts, HalfWay(q, s)'
        PROVE  /\ Answered(threads[s] \o posts[q].delta)'
               /\ \A u \in Posts : HalfWay(u, s)' => u = q
    <3>1. q = p /\ \A u \in Posts : HalfWay(u, s)' => u = q
      BY <1>9, <2>1, <2>5
    <3>2. threads'[s] \o posts'[q].delta = t \o d
      BY <1>2, <2>3, <3>1
    <3> QED
      BY <1>9, <2>5, <3>1, <3>2 DEF Answered
  <2> QED
    BY <1>8, <2>4, <2>5 DEF ThreadOK
<1> QED
  BY <1>0, <1>1, <1>2, <1>3, <1>6, <1>10, OnePost

(* A turn that is lost tears its thread.                                   *)
LEMMA TornCalls ==
    ASSUME TypeOK, CallsInv, NEW p \in Posts, NEW r,
           posts' = [posts EXCEPT ![p] = r], r.session = posts[p].session,
           UNCHANGED <<sessions, threads, overlapped>>,
           torn' = torn \cup {r.session}, PostOK(p)'
    PROVE  CallsInv'
<1>1. r.session \in Sessions
  BY DEF TypeOK, Post
<1>2. ThreadOK(r.session)'
  BY <1>1 DEF CallsInv, ThreadOK, Bad, Live
<1> QED
  BY <1>1, <1>2, OnePost

(* The steps before and after the loop, ...                                *)
LEMMA AroundCalls ==
    ASSUME TypeOK, CallsInv, NEW p \in Posts,
           \/ GetSession(p) \/ CheckBudget(p) \/ EndAppend(p) \/ SetTitle(p)
           \/ RecordUsage(p) \/ (PostFails(p) /\ posts[p].pc # "append")
    PROVE  CallsInv'
<1>1. /\ posts[p] \in Post /\ posts[p].session \in Sessions
      /\ threads' = threads /\ torn \subseteq torn' /\ overlapped' = overlapped
  BY DEF GetSession, CheckBudget, EndAppend, SetTitle, RecordUsage, PostFails,
         TypeOK, Post
<1>2. \A s \in Sessions : sessions'[s].status = sessions[s].status
  <2>1. CASE SetTitle(p)
    <3>1. PICK b : \/ sessions' = sessions
                   \/ sessions' = [sessions EXCEPT ![posts[p].session] =
                                     [sessions[posts[p].session] EXCEPT !.titled = b]]
      BY <2>1, Zenon DEF SetTitle
    <3>2. \A s \in Sessions : [sessions[s] EXCEPT !.titled = b].status = sessions[s].status
      BY DEF TypeOK, Session
    <3> QED
      BY <1>1, <3>1, <3>2 DEF TypeOK
  <2>2. CASE sessions' = sessions
    BY <2>2
  <2> QED
    BY <2>1, <2>2 DEF GetSession, CheckBudget, EndAppend, RecordUsage, PostFails
<1>3. ~HalfWritten(p)
  BY DEF GetSession, CheckBudget, EndAppend, SetTitle, RecordUsage, PostFails,
         HalfWritten
<1>4. sessions[posts[p].session].status # "unused"
  BY DEF GetSession, CheckBudget, EndAppend, SetTitle, RecordUsage, PostFails,
         CallsInv, PostOK, Live
<1>5. PICK r \in {[posts[p] EXCEPT !.pc = "budget",
                            !.titled = sessions[posts[p].session].titled],
                  Request("done", posts[p].session),
                  [posts[p] EXCEPT !.pc = "list", !.day = today],
                  [posts[p] EXCEPT !.pc = "usage"], [posts[p] EXCEPT !.pc = "title"]} :
        posts' = [posts EXCEPT ![p] = r]
  BY <1>1 DEF GetSession, CheckBudget, EndAppend, SetTitle, RecordUsage, PostFails,
              End, Goto, TypeOK
<1>6. r.session = posts[p].session /\ r.pc \in {"budget", "done", "list", "usage", "title"}
  <2>1. CASE r = Request("done", posts[p].session)
    BY <2>1 DEF Request
  <2>2. CASE r = [posts[p] EXCEPT !.pc = "budget",
                                  !.titled = sessions[posts[p].session].titled]
    BY <1>1, <2>2 DEF Post
  <2>3. CASE r = [posts[p] EXCEPT !.pc = "list", !.day = today]
    BY <1>1, <2>3 DEF Post
  <2>4. CASE r = [posts[p] EXCEPT !.pc = "usage"] \/ r = [posts[p] EXCEPT !.pc = "title"]
    BY <1>1, <2>4 DEF Post
  <2> QED
    BY <1>5, <2>1, <2>2, <2>3, <2>4
<1>7. posts'[p] = r
  BY <1>5 DEF TypeOK
<1>8. ~HalfWritten(p)' /\ PostOK(p)'
  BY <1>1, <1>2, <1>4, <1>6, <1>7 DEF HalfWritten, PostOK
<1> QED
  BY <1>1, <1>2, <1>3, <1>5, <1>6, <1>8, QuietPost

(* ... the failures that lose a turn, ...                                  *)
LEMMA LossCalls ==
    ASSUME TypeOK, CallsInv, NEW p \in Posts,
           AppendFails(p) \/ (PostFails(p) /\ posts[p].pc = "append")
    PROVE  CallsInv'
<1>1. posts[p] \in Post /\ sessions[posts[p].session].status # "unused"
  BY DEF AppendFails, TypeOK, CallsInv, PostOK
<1>2. CASE AppendFails(p)
  <2> DEFINE d == posts[p].delta
             r == [posts[p] EXCEPT !.delta = Tail(d)]
  <2>1. /\ posts' = [posts EXCEPT ![p] = r] /\ r.session = posts[p].session
        /\ posts'[p] = r /\ r.pc = "append" /\ r.delta = Tail(d)
        /\ d \in Seq(Turns) /\ d # <<>>
    BY <1>1, <1>2 DEF AppendFails, TypeOK, Post
  <2>2. OneText(d)
    BY <1>2 DEF AppendFails, CallsInv, PostOK
  <2>3. OneText(Tail(d)) /\ (Tail(d) # <<>> => Tail(d)[1] # "text")
    BY <2>1, <2>2, TailNoText
  <2>4. PostOK(p)'
    BY <1>1, <1>2, <2>1, <2>3 DEF PostOK, AppendFails
  <2> QED
    BY <1>2, <2>1, <2>4, TornCalls DEF AppendFails
<1>3. CASE PostFails(p) /\ posts[p].pc = "append"
  <2> DEFINE r == Request("done", posts[p].session)
  <2>1. /\ posts' = [posts EXCEPT ![p] = r] /\ r.session = posts[p].session
        /\ posts'[p] = r /\ r.pc = "done"
    BY <1>3 DEF PostFails, End, Request, TypeOK
  <2>2. PostOK(p)'
    BY <2>1 DEF PostOK
  <2> QED
    BY <1>3, <2>1, <2>2, TornCalls DEF PostFails
<1> QED
  BY <1>2, <1>3

(* ... and the sessions that come and go.                                  *)
LEMMA SessionCalls ==
    ASSUME TypeOK, CallsInv, NEW s \in Sessions, CreateSession(s) \/ DeleteSession(s)
    PROVE  CallsInv'
<1>1. /\ UNCHANGED <<posts, torn, overlapped>>
      /\ \A u \in Sessions \ {s} : sessions'[u] = sessions[u] /\ threads'[u] = threads[u]
      /\ sessions'[s].status \in {"live", "gone"}
      /\ \A u \in Sessions : threads[u] \in Seq(Turns)
  BY DEF CreateSession, DeleteSession, TypeOK, Session
<1>2. ASSUME NEW p \in Posts
      PROVE  PostOK(p)'
  <2>1. PostOK(p) /\ posts[p].session \in Sessions
    BY DEF CallsInv, TypeOK, Post
  <2>2. sessions[posts[p].session].status # "unused" =>
          sessions'[posts[p].session].status # "unused"
    BY <1>1, <2>1
  <2> QED
    BY <1>1, <2>1, <2>2 DEF PostOK, Bad
<1>3. ASSUME NEW u \in Sessions
      PROVE  ThreadOK(u)'
  <2>1. CASE u # s
    BY <1>1, <2>1 DEF CallsInv, ThreadOK, Bad, Live, HalfWay, HalfWritten
  <2>2. CASE u = s /\ CreateSession(s)
    <3>1. threads' = threads /\ threads[s] = <<>>
      BY <2>2 DEF CreateSession, CallsInv, ThreadOK, Live
    <3>2. \A p \in Posts : ~HalfWay(p, s)'
      BY <1>1, <2>2 DEF CreateSession, CallsInv, PostOK, HalfWay, HalfWritten
    <3> QED
      BY <1>1, <2>2, <3>1, <3>2, TurnsAnswered DEF ThreadOK
  <2>3. CASE u = s /\ DeleteSession(s)
    <3>1. sessions'[s].status = "gone" /\ threads'[s] = <<>>
      BY <2>3 DEF DeleteSession, TypeOK, Session
    <3> QED
      BY <2>3, <3>1 DEF ThreadOK, Live
  <2> QED
    BY <2>1, <2>2, <2>3
<1> QED
  BY <1>2, <1>3 DEF CallsInv

(* At first there are no turns.                                            *)
LEMMA InitCalls == Init => CallsInv
<1> SUFFICES ASSUME Init PROVE CallsInv
  OBVIOUS
<1>1. \A p \in Posts : posts[p].pc = "idle"
  BY DEF Init, Request
<1>2. \A s \in Sessions : threads[s] = <<>> /\ ~Live(s)
  BY DEF Init, Live
<1> QED
  BY <1>1, <1>2 DEF CallsInv, PostOK, ThreadOK

(* Every step keeps the invariant.                                         *)
LEMMA NextCalls == TypeOK /\ CallsInv /\ [Next]_vars => CallsInv'
<1> SUFFICES ASSUME TypeOK, CallsInv, [Next]_vars PROVE CallsInv'
  OBVIOUS
<1>1. CASE UNCHANGED <<sessions, threads, posts, torn, overlapped>>
  <2>1. ASSUME NEW p \in Posts
        PROVE  PostOK(p)'
    BY <1>1 DEF CallsInv, PostOK, Bad
  <2>2. ASSUME NEW s \in Sessions
        PROVE  ThreadOK(s)'
    <3>1. \A p \in Posts : HalfWay(p, s)' <=> HalfWay(p, s)
      BY <1>1 DEF HalfWay, HalfWritten
    <3>2. (Bad(s)' <=> Bad(s)) /\ (Live(s)' <=> Live(s))
      BY <1>1 DEF Bad, Live
    <3> QED
      BY <1>1, <3>1, <3>2 DEF CallsInv, ThreadOK
  <2> QED
    BY <2>1, <2>2 DEF CallsInv
<1>2. CASE UNCHANGED vars
  BY <1>1, <1>2 DEF vars
<1>3. CASE Midnight
  BY <1>1, <1>3 DEF Midnight
<1> QED
  BY <1>2, <1>3, ReadCalls, LoopCalls, AppendCalls, AroundCalls, LossCalls, SessionCalls
  DEF Next, HandlePostChatMessage

(* The model is never sent a call without its response unless a turn of    *)
(* the thread was lost or two requests used the thread at the same time,   *)
(* for any number of requests, sessions and turns.                         *)
THEOREM CallsAreAnswered == Spec => []CallsAnswered
<1>1. CallsInv => CallsAnswered
  BY DEF CallsInv, PostOK, Bad, CallsAnswered
<1> QED
  BY <1>1, InitCalls, NextCalls, TypeCorrect, PTL DEF Spec

=============================================================================
