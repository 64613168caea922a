----------------------------- MODULE ChatAgent ------------------------------
(***************************************************************************)
(* The chat of an organisation: threads of turns, and the requests that    *)
(* post a message to one.  A request looks up its session, checks the      *)
(* day's tokens, reads the thread, calls the model until it answers,       *)
(* running the tools it asks for, and only then writes the turns, each in  *)
(* its own transaction, and charges the tokens.  Nothing keeps two         *)
(* requests for one session apart (two tabs, a retry of a slow request).   *)
(*                                                                         *)
(* A turn is its kind: the user's text, a call of tools, their response,   *)
(* the model's answer.  A call of the model costs one token.  The tools    *)
(* only read.  A post is one request; it never runs twice.                 *)
(***************************************************************************)
EXTENDS Naturals, FiniteSets, Sequences

CONSTANTS Sessions, Posts,
          MaxIterations,  \* ChatMaxIterations
          Budget,         \* ChatDailyTokenBudget; 0: no limit
          LastDay         \* bound on the days

ASSUME BoundsAreNatural ==
    MaxIterations \in Nat \ {0} /\ Budget \in Nat /\ LastDay \in Nat
ASSUME PostsFinite == IsFiniteSet(Posts)

VARIABLES sessions,    \* chat_sessions: unused, live or gone; total_tokens, title
          threads,     \* chat_messages of each session, in order
          usage,       \* chat_daily_usage of each day
          today,
          posts,       \* the requests
          torn,        \* history: sessions that lost a turn
          overlapped,  \* history: sessions used in the middle of another's writes
          crowd        \* history: most requests past the check at one time

vars == <<sessions, threads, usage, today, posts, torn, overlapped, crowd>>

-----------------------------------------------------------------------------
Days  == 0..LastDay
Turns == {"text", "call", "response", "answer"}

Session == [status : {"unused", "live", "gone"}, total : Nat, titled : BOOLEAN]
Post == [pc : {"idle", "budget", "list", "loop", "append", "title", "usage", "done"},
         session : Sessions, titled : BOOLEAN, day : Days,
         messages : Seq(Turns), delta : Seq(Turns), tokens : 0..MaxIterations]

Request(pc, s) ==
    [pc |-> pc, session |-> s, titled |-> FALSE, day |-> 0,
     messages |-> <<>>, delta |-> <<>>, tokens |-> 0]

Init ==
    /\ sessions = [s \in Sessions |-> [status |-> "unused", total |-> 0, titled |-> FALSE]]
    /\ threads = [s \in Sessions |-> <<>>]
    /\ usage = [d \in Days |-> 0]
    /\ today = 0
    /\ posts \in [Posts -> {Request("idle", s) : s \in Sessions}]
    /\ torn = {} /\ overlapped = {} /\ crowd = 0

Live(s) == sessions[s].status = "live"

\* Let in by the check of the budget and not yet charged.
Admitted(p) == posts[p].pc \in {"list", "loop", "append", "title", "usage"}

\* A request that has written some of its turns and not all.
HalfWritten(p) ==
    /\ posts[p].pc = "append"
    /\ posts[p].delta # <<>>
    /\ Head(posts[p].delta) # "text"

\* p reads or writes the thread while another request is half way through it.
Overlap(p) ==
    overlapped' = overlapped \cup
        {s \in {posts[p].session} : \E q \in Posts \ {p} :
                                       posts[q].session = s /\ HalfWritten(q)}

\* The loop ends: the turns since the text are left to be written.
EndLoop(p, delta) ==
    posts' = [posts EXCEPT ![p].pc = "append", ![p].messages = <<>>,
                           ![p].delta = @ \o delta, ![p].tokens = @ + 1]

Goto(p, pc) == posts' = [posts EXCEPT ![p].pc = pc]
End(p) == posts' = [posts EXCEPT ![p] = Request("done", posts[p].session)]

-----------------------------------------------------------------------------
CreateSession(s) ==
    /\ sessions[s].status = "unused"
    /\ sessions' = [sessions EXCEPT ![s].status = "live"]
    /\ UNCHANGED <<threads, usage, today, posts, torn, overlapped, crowd>>

\* The messages go with their session.
DeleteSession(s) ==
    /\ Live(s)
    /\ sessions' = [sessions EXCEPT ![s].status = "gone"]
    /\ threads' = [threads EXCEPT ![s] = <<>>]
    /\ UNCHANGED <<usage, today, posts, torn, overlapped, crowd>>

\* 404 without one; the title is taken from what is read here.
GetSession(p) ==
    /\ posts[p].pc = "idle"
    /\ Live(posts[p].session)
    /\ posts' = [posts EXCEPT ![p].pc = "budget",
                              ![p].titled = sessions[posts[p].session].titled]
    /\ UNCHANGED <<sessions, threads, usage, today, torn, overlapped, crowd>>

(* Mutant of OverBudget: the limit itself is let in.                       *)
OverBudgetStrictly(d) == Budget > 0 /\ usage[d] > Budget

OverBudget(d) == Budget > 0 /\ usage[d] >= Budget

\* The day of the check is the day the tokens are charged to; 429 if over.
CheckBudget(p) ==
    /\ posts[p].pc = "budget"
    /\ IF OverBudget(today) THEN End(p)
       ELSE posts' = [posts EXCEPT ![p].pc = "list", ![p].day = today]
    /\ LET n == Cardinality({q \in Posts : Admitted(q)}) + 1 IN
       crowd' = IF ~OverBudget(today) /\ n > crowd THEN n ELSE crowd
    /\ UNCHANGED <<sessions, threads, usage, today, torn, overlapped>>

\* In the order they were stored; none if the session has been deleted.
ListMessages(s) == threads[s]

\* The thread as the model wants it, and the user's text.
ReadHistory(p) ==
    /\ posts[p].pc = "list"
    /\ posts' = [posts EXCEPT ![p].pc = "loop",
                              ![p].messages = Append(ListMessages(posts[p].session), "text"),
                              ![p].delta = <<"text">>]
    /\ Overlap(p)
    /\ UNCHANGED <<sessions, threads, usage, today, torn, crowd>>

(* Mutant of LastTurn: one turn of the loop too many.                      *)
OneTurnMore(p) == posts[p].tokens = MaxIterations

LastTurn(p) == posts[p].tokens + 1 = MaxIterations

(* Mutant of Called: the responses are sent to the model and not kept.     *)
CalledOnly == <<"call">>

\* What a turn with calls adds to the messages to keep: the responses follow.
Called == <<"call", "response">>

\* The model asks for tools: they run, and the loop goes on unless this was
\* its last turn; then the thread ends with the responses.
Calls(p) ==
    IF LastTurn(p) THEN EndLoop(p, Called)
    ELSE posts' = [posts EXCEPT ![p].messages = @ \o <<"call", "response">>,
                                ![p].delta = @ \o Called,
                                ![p].tokens = @ + 1]

\* The model answers, or has no candidate: an error, but what there is is kept.
Answers(p) == EndLoop(p, <<"answer">>) \/ EndLoop(p, <<>>)

\* One turn of RunLoop that gets a response of the model.
RunLoop(p) ==
    /\ posts[p].pc = "loop"
    /\ Calls(p) \/ Answers(p)
    /\ UNCHANGED <<sessions, threads, usage, today, torn, overlapped, crowd>>

\* One turn is stored; the tokens go to the session if it is a final answer.
AppendMessage(p) ==
    /\ posts[p].pc = "append" /\ posts[p].delta # <<>>
    /\ Live(posts[p].session)
    /\ LET turn == Head(posts[p].delta) IN
       /\ threads' = [threads EXCEPT ![posts[p].session] = Append(@, turn)]
       /\ sessions' = [sessions EXCEPT ![posts[p].session].total =
                         IF turn = "answer" THEN @ + posts[p].tokens ELSE @]
       /\ posts' = [posts EXCEPT ![p].delta = Tail(@)]
    /\ Overlap(p)
    /\ UNCHANGED <<usage, today, torn, crowd>>

\* The insert fails, as it must without the session: logged, and the next is tried.
AppendFails(p) ==
    /\ posts[p].pc = "append" /\ posts[p].delta # <<>>
    /\ posts' = [posts EXCEPT ![p].delta = Tail(@)]
    /\ torn' = torn \cup {posts[p].session}
    /\ UNCHANGED <<sessions, threads, usage, today, overlapped, crowd>>

EndAppend(p) ==
    /\ posts[p].pc = "append" /\ posts[p].delta = <<>>
    /\ Goto(p, IF posts[p].titled THEN "usage" ELSE "title")
    /\ UNCHANGED <<sessions, threads, usage, today, torn, overlapped, crowd>>

\* The update does nothing to a title that is there; a failure is logged.
SetTitle(p) ==
    /\ posts[p].pc = "title"
    /\ Goto(p, "usage")
    /\ sessions' \in {sessions, [sessions EXCEPT ![posts[p].session].titled =
                                   @ \/ Live(posts[p].session)]}
    /\ UNCHANGED <<threads, usage, today, torn, overlapped, crowd>>

\* An upsert that adds; a failure is logged.
RecordUsage(p) ==
    /\ posts[p].pc = "usage"
    /\ End(p)
    /\ usage' \in {usage, [usage EXCEPT ![posts[p].day] = @ + posts[p].tokens]}
    /\ UNCHANGED <<sessions, threads, today, torn, overlapped, crowd>>

\* A query or a call of the model fails (500, 502), or the replica stops:
\* what is not written or charged by then never is.
PostFails(p) ==
    /\ posts[p].pc \notin {"idle", "done"}
    /\ End(p)
    /\ torn' = IF posts[p].pc = "append" THEN torn \cup {posts[p].session} ELSE torn
    /\ UNCHANGED <<sessions, threads, usage, today, overlapped, crowd>>

Midnight ==
    /\ today < LastDay
    /\ today' = today + 1
    /\ UNCHANGED <<sessions, threads, usage, posts, torn, overlapped, crowd>>

HandlePostChatMessage(p) ==
    \/ GetSession(p) \/ CheckBudget(p) \/ ReadHistory(p) \/ RunLoop(p)
    \/ AppendMessage(p) \/ AppendFails(p) \/ EndAppend(p)
    \/ SetTitle(p) \/ RecordUsage(p) \/ PostFails(p)

Next ==
    \/ \E s \in Sessions : CreateSession(s) \/ DeleteSession(s)
    \/ \E p \in Posts : HandlePostChatMessage(p)
    \/ Midnight

Spec == Init /\ [][Next]_vars

-----------------------------------------------------------------------------
(* The types.  No request calls the model more than MaxIterations times.   *)
TypeOK ==
    /\ sessions \in [Sessions -> Session]
    /\ threads \in [Sessions -> Seq(Turns)]
    /\ usage \in [Days -> Nat]
    /\ today \in Days
    /\ posts \in [Posts -> Post]
    /\ torn \subseteq Sessions /\ overlapped \subseteq Sessions
    /\ crowd \in Nat

Answered(messages) ==
    \A i \in DOMAIN messages :
        /\ messages[i] = "call" =>
             i < Len(messages) /\ messages[i + 1] = "response"
        /\ messages[i] = "response" => i > 1 /\ messages[i - 1] = "call"

(* The model refuses a history in which a call is not followed by its      *)
(* response.  It never gets one, whatever earlier requests ran into (the   *)
(* end of the loop, no candidate, an error of the model), unless a turn of *)
(* the thread was lost or two requests used the thread at the same time.   *)
CallsAnswered ==
    \A p \in Posts :
        posts[p].pc = "loop" /\ posts[p].session \notin torn \cup overlapped
          => Answered(posts[p].messages)

(* The check of the budget comes before the tokens are known: a day may go *)
(* over by what the requests that were let in together can spend, and by   *)
(* no more, whatever happens at midnight.                                  *)
BudgetKept ==
    Budget > 0 => \A d \in Days : usage[d] < Budget + crowd * MaxIterations
=============================================================================
