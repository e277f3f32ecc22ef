------------------------------ MODULE TurnWait ------------------------------
(***************************************************************************)
(* How a request that was handed to a worker waits for the answer: the     *)
(* synchronous endpoint (_wait_for_session_completion) and the streaming   *)
(* one (stream_session_completion) watch the row of one turn, woken by the *)
(* worker's Redis notification or by their own timers.  This is the "wait" *)
(* step of module ChatTurn in detail.                                      *)
(*                                                                         *)
(* Time is counted in ticks.  Database reads and the steps between two     *)
(* awaits take no time; a sleep and a pubsub read last until their timer   *)
(* is due or something arrives.  Both requests start waiting at time 0.    *)
(***************************************************************************)
EXTENDS Naturals

CONSTANTS
    Deadline,     \* chat_turn_inline_wait_seconds
    Poll,         \* chat_turn_poll_interval_seconds
    MaxTime,      \* bound: the clock stops here
    MaxRetries,   \* Celery retries of the task
    RedisFaults   \* may Redis refuse, lose or break?

ASSUME TimesAssumption == /\ Deadline \in Nat /\ Poll \in Nat \ {0}
                          /\ MaxTime \in Nat /\ MaxTime > Deadline + Poll
ASSUME WaitRetriesAssumption == MaxRetries \in Nat
ASSUME RedisFaultsAssumption == RedisFaults \in BOOLEAN

Waiters == {"sync", "stream"}

Never == MaxTime + 1   \* later than any time on the clock

VARIABLES
    now,         \* time.monotonic()
    turnState,   \* teacher_turns.state, as get_chat_turn returns it
    retries,     \* attempts started after a failed one
    notice,      \* the worker's notification: none, due, sent, lost
    redisUp,     \* redis_cache.available in the API process
    pc, wake,    \* of each waiter: control and running timer
    subscribed, confirm, inbox,  \* of each waiter: its pubsub
    answer,      \* of each waiter: what it told its client
    settledAt,   \* history: since when the turn is completed or failed
    raisedAt,    \* when the stream's pubsub read last raised
    noticeAt,    \* history: when a subscribed waiter was notified
    missed       \* history: the turn was completed when the waiter subscribed

turnVars   == <<turnState, retries, notice, settledAt>>
pubsubVars == <<subscribed, confirm, inbox, noticeAt, missed>>
waitVars   == <<pc, wake, answer>>
vars       == <<now, redisUp, raisedAt, turnVars, pubsubVars, waitVars>>

Init ==
    /\ now = 0
    /\ turnState = "queued" /\ retries = 0 /\ notice = "none" /\ settledAt = Never
    /\ redisUp \in BOOLEAN /\ raisedAt = Never
    /\ pc = [x \in Waiters |-> IF x = "sync" THEN "check" ELSE "subscribe"]
    /\ wake = [x \in Waiters |-> 0]
    /\ answer = [x \in Waiters |-> "none"]
    /\ subscribed = [x \in Waiters |-> FALSE]
    /\ confirm = [x \in Waiters |-> FALSE]
    /\ inbox = [x \in Waiters |-> FALSE]
    /\ noticeAt = [x \in Waiters |-> Never]
    /\ missed = [x \in Waiters |-> FALSE]

-----------------------------------------------------------------------------
(* The turn, as module ChatTurn moves it.                                  *)

Claim ==
    /\ turnState = "queued" \/ (turnState = "failed" /\ retries < MaxRetries)
    /\ turnState' = "running"
    /\ retries' = IF turnState = "failed" THEN retries + 1 ELSE retries
    /\ settledAt' = Never
    /\ UNCHANGED <<now, redisUp, raisedAt, notice, pubsubVars, waitVars>>

Complete ==
    /\ turnState = "running"
    /\ turnState' = "completed" /\ notice' = "due" /\ settledAt' = now
    /\ UNCHANGED <<now, redisUp, raisedAt, retries, pubsubVars, waitVars>>

\* A failed attempt notifies nobody.
Fail ==
    /\ turnState = "running"
    /\ turnState' = "failed" /\ settledAt' = now
    /\ UNCHANGED <<now, redisUp, raisedAt, retries, notice, pubsubVars, waitVars>>

\* _notify_turn_complete: PUBLISH reaches those subscribed at that moment.
Notify ==
    /\ notice = "due"
    /\ notice' = "sent"
    /\ inbox' = [x \in Waiters |-> inbox[x] \/ subscribed[x]]
    /\ noticeAt' = [x \in Waiters |-> IF subscribed[x] THEN now ELSE noticeAt[x]]
    /\ UNCHANGED <<now, redisUp, raisedAt, turnState, retries, settledAt>>
    /\ UNCHANGED <<subscribed, confirm, missed, waitVars>>

\* RedisCache.publish and _notify_turn_complete swallow every error.
NotifyLost ==
    /\ RedisFaults
    /\ notice = "due"
    /\ notice' = "lost"
    /\ UNCHANGED <<now, redisUp, raisedAt, turnState, retries, settledAt, pubsubVars, waitVars>>

-----------------------------------------------------------------------------
(* What both kinds of waiter do.                                           *)

Goes(x, p) == pc' = [pc EXCEPT ![x] = p]

Answers(x, a) == /\ answer' = [answer EXCEPT ![x] = a]
                 /\ Goes(x, "done")
                 /\ UNCHANGED wake

\* get_chat_turn, and the two early exits that follow every call of it.
ReadTurn(x, otherwise) ==
    \/ turnState = "completed" /\ Answers(x, "result")
    \/ turnState = "failed" /\ Answers(x, "failed")
    \/ turnState \notin {"completed", "failed"} /\ otherwise

\* RedisCache.subscribe: a pubsub, whose first message is a confirmation, or
\* None.
Subscribe(x, with, without) ==
    /\ pc[x] = "subscribe"
    /\ missed' = [missed EXCEPT ![x] = turnState = "completed"]
    /\ \/ /\ redisUp
          /\ subscribed' = [subscribed EXCEPT ![x] = TRUE]
          /\ confirm' = [confirm EXCEPT ![x] = TRUE]
          /\ Goes(x, with)
       \/ /\ ~redisUp \/ RedisFaults
          /\ Goes(x, without)
          /\ UNCHANGED <<subscribed, confirm>>
    /\ UNCHANGED <<now, redisUp, raisedAt, turnVars, inbox, noticeAt, wake, answer>>

\* get_message(ignore_subscribe_messages=True, timeout): it returns None for
\* the confirmation and at the timeout, or a message.
GetMessage(x, onMessage, onNone) ==
    /\ pc[x] = "listen"
    /\ \/ /\ confirm[x]
          /\ confirm' = [confirm EXCEPT ![x] = FALSE]
          /\ Goes(x, onNone)
          /\ UNCHANGED inbox
       \/ /\ ~confirm[x] /\ inbox[x]
          /\ inbox' = [inbox EXCEPT ![x] = FALSE]
          /\ Goes(x, onMessage)
          /\ UNCHANGED confirm
       \/ /\ ~confirm[x] /\ ~inbox[x] /\ now >= wake[x]
          /\ Goes(x, onNone)
          /\ UNCHANGED <<confirm, inbox>>
    /\ UNCHANGED <<now, redisUp, raisedAt, turnVars, subscribed, noticeAt, missed, wake, answer>>

Sleep(x) ==
    /\ pc[x] = "sleep"
    /\ now >= wake[x]
    /\ Goes(x, "poll")
    /\ UNCHANGED <<now, redisUp, raisedAt, turnVars, pubsubVars, wake, answer>>

-----------------------------------------------------------------------------
(* _wait_for_session_completion.                                           *)

SyncGoes(p) == Goes("sync", p) /\ UNCHANGED <<wake, answer>>

SyncAwaits(p, until) == /\ Goes("sync", p)
                        /\ wake' = [wake EXCEPT !["sync"] = until]
                        /\ UNCHANGED answer

\* The initial database check.
SyncCheck ==
    /\ pc["sync"] = "check"
    /\ ReadTurn("sync", SyncGoes("subscribe"))
    /\ UNCHANGED <<now, redisUp, raisedAt, turnVars, pubsubVars>>

SyncSubscribe == Subscribe("sync", "head", "fallback")

\* while time.monotonic() <= deadline: remaining = max(0.1, ...)
SyncHead ==
    /\ pc["sync"] = "head"
    /\ \/ /\ now <= Deadline
          /\ SyncAwaits("listen", IF now < Deadline THEN Deadline ELSE now + 1)
       \/ now > Deadline /\ SyncGoes("fallback")
    /\ UNCHANGED <<now, redisUp, raisedAt, turnVars, pubsubVars>>

\* (mutant: the type of a message is not recognised.)
SyncListenDeaf == GetMessage("sync", "head", "head")

SyncListen == GetMessage("sync", "read", "head")

SyncRead ==
    /\ pc["sync"] = "read"
    /\ ReadTurn("sync", SyncGoes("head"))
    /\ UNCHANGED <<now, redisUp, raisedAt, turnVars, pubsubVars>>

\* Only asyncio.TimeoutError is caught around get_message.
SyncListenRaises ==
    /\ RedisFaults
    /\ pc["sync"] = "listen"
    /\ Answers("sync", "error")
    /\ UNCHANGED <<now, redisUp, raisedAt, turnVars, pubsubVars>>

\* (mutant: the fallback loop never looks at its deadline.)
SyncFallbackEndless ==
    /\ pc["sync"] = "fallback"
    /\ now + Poll <= MaxTime
    /\ SyncAwaits("sleep", now + Poll)
    /\ UNCHANGED <<now, redisUp, raisedAt, turnVars, pubsubVars>>

\* (mutant: the fallback loop asks for the time after its sleep.)
SyncFallbackHasty ==
    /\ pc["sync"] = "fallback"
    /\ \/ now + Poll <= Deadline /\ SyncAwaits("sleep", now + Poll)
       \/ now + Poll > Deadline /\ Answers("sync", "timeout")
    /\ UNCHANGED <<now, redisUp, raisedAt, turnVars, pubsubVars>>

\* The DB polling loop; its condition holds for time that is left only.
SyncFallback ==
    /\ pc["sync"] = "fallback"
    /\ \/ now <= Deadline /\ SyncAwaits("sleep", now + Poll)
       \/ now > Deadline /\ Answers("sync", "timeout")
    /\ UNCHANGED <<now, redisUp, raisedAt, turnVars, pubsubVars>>

SyncPoll ==
    /\ pc["sync"] = "poll"
    /\ ReadTurn("sync", SyncGoes("fallback"))
    /\ UNCHANGED <<now, redisUp, raisedAt, turnVars, pubsubVars>>

-----------------------------------------------------------------------------
(* teacher_session_stream and stream_session_completion.                   *)

\* The subscription comes after dispatch_or_inline has returned.
StreamSubscribe == Subscribe("stream", "poll", "poll")

\* (mutant: one read, then the whole wait on the notification.)
StreamWaitsOnce ==
    /\ Goes("stream", IF subscribed["stream"] THEN "listen" ELSE "sleep")
    /\ wake' = [wake EXCEPT !["stream"] = Deadline + 1]
    /\ UNCHANGED answer

StreamAwaits == /\ Goes("stream", IF subscribed["stream"] THEN "listen" ELSE "sleep")
                /\ wake' = [wake EXCEPT !["stream"] = now + Poll]
                /\ UNCHANGED answer

StreamPoll ==
    /\ pc["stream"] = "poll"
    /\ \/ now <= Deadline /\ ReadTurn("stream", StreamAwaits)
       \/ now > Deadline /\ Answers("stream", "timeout")
    /\ UNCHANGED <<now, redisUp, raisedAt, turnVars, pubsubVars>>

StreamListen == GetMessage("stream", "poll", "poll")

\* except (asyncio.TimeoutError, Exception): pass.  The row is read again at
\* once, without a sleep; one such failure per tick is enough to be modelled.
StreamListenRaises ==
    /\ RedisFaults
    /\ pc["stream"] = "listen"
    /\ raisedAt # now
    /\ raisedAt' = now
    /\ Goes("stream", "poll")
    /\ UNCHANGED <<now, redisUp, turnVars, pubsubVars, wake, answer>>

-----------------------------------------------------------------------------
\* Nothing is left to do at this time but to wait.
Resting(x) == \/ pc[x] = "done"
              \/ pc[x] \in {"listen", "sleep"} /\ now < wake[x] /\ ~confirm[x] /\ ~inbox[x]

Tick ==
    /\ now < MaxTime
    /\ \A x \in Waiters : Resting(x)
    /\ now' = now + 1
    /\ UNCHANGED <<redisUp, raisedAt, turnVars, pubsubVars, waitVars>>

TurnStep == Claim \/ Complete \/ Fail \/ Notify \/ NotifyLost

SyncStep == \/ SyncCheck \/ SyncSubscribe \/ SyncHead \/ SyncListen \/ SyncRead
            \/ SyncListenRaises \/ SyncFallback \/ Sleep("sync") \/ SyncPoll

StreamStep == \/ StreamSubscribe \/ StreamPoll \/ StreamListen \/ Sleep("stream")

Next == TurnStep \/ SyncStep \/ StreamStep \/ StreamListenRaises \/ Tick

Spec == Init /\ [][Next]_vars

\* The event loop runs the waiters and the clock goes on; the turn need not
\* move at all.
FairSpec == Spec /\ WF_vars(SyncStep) /\ WF_vars(StreamStep) /\ WF_vars(Tick)

-----------------------------------------------------------------------------
(* Properties.                                                             *)

\* The clock, the row, and each waiter's control, timer and pubsub stay within
\* what the code can make of them; the retries stay within Celery's limit.
TypeOK ==
    /\ now \in 0 .. MaxTime
    /\ turnState \in {"queued", "running", "completed", "failed"}
    /\ retries \in 0 .. MaxRetries
    /\ notice \in {"none", "due", "sent", "lost"}
    /\ redisUp \in BOOLEAN
    /\ pc \in [Waiters -> {"check", "subscribe", "head", "listen", "read",
                           "fallback", "sleep", "poll", "done"}]
    /\ wake \in [Waiters -> 0 .. MaxTime]
    /\ answer \in [Waiters -> {"none", "result", "failed", "timeout", "error"}]
    /\ subscribed \in [Waiters -> BOOLEAN]
    /\ confirm \in [Waiters -> BOOLEAN]
    /\ inbox \in [Waiters -> BOOLEAN]
    /\ settledAt \in 0 .. Never /\ raisedAt \in 0 .. Never
    /\ noticeAt \in [Waiters -> 0 .. Never]
    /\ missed \in [Waiters -> BOOLEAN]

\* The stream gives up only on a turn that was not settled one poll interval
\* before its deadline, with or without Redis and whatever notifications are
\* lost: polling bounds what a missed notification can cost.
StreamMissesOnlyLastPoll ==
    answer["stream"] = "timeout" => settledAt + Poll > Deadline

\* Without Redis the synchronous wait gives up only on a turn that was not
\* settled by its deadline: its fallback loop has a last look after it.
SyncPollsToTheEnd ==
    answer["sync"] = "timeout" /\ ~subscribed["sync"] => settledAt > Deadline

\* A notification that reaches the subscribed synchronous wait in time is
\* never turned into "still in progress".
SyncHearsNotice ==
    answer["sync"] = "timeout" => noticeAt["sync"] > Deadline

\* Both requests end, whatever the worker and Redis do.
EveryWaiterAnswers == \A x \in Waiters : <>(answer[x] # "none")

\* runtime.py: "Initial DB check - covers race where worker finishes before we
\* subscribe": a turn completed before the subscription is answered.
InitialCheckCoversRace ==
    missed["sync"] => answer["sync"] # "timeout"
\* The inductive invariant behind the three safety properties.  A settled turn
\* has its time, a completed one stays so; a notification follows completion.
TurnIsTimed ==
    /\ turnState \in {"queued", "running"} => settledAt = Never
    /\ notice # "none" => turnState = "completed"

\* A timer is never behind the clock; the stream's is at most one poll interval
\* ahead, and was set when the turn was not settled.
StreamWatches ==
    /\ pc["stream"] \in {"subscribe", "poll", "listen", "sleep", "done"}
    /\ pc["stream"] = "subscribe" => now = 0
    /\ pc["stream"] \in {"listen", "sleep"} =>
          now <= wake["stream"] /\ wake["stream"] <= now + Poll /\ wake["stream"] <= settledAt + Poll
    /\ pc["stream"] = "poll" /\ now > Deadline => settledAt + Poll > Deadline
    /\ answer["stream"] # "none" => pc["stream"] = "done"
    /\ answer["stream"] = "timeout" => now > Deadline /\ settledAt + Poll > Deadline

\* Whoever has no subscription polls, whoever has one listens up to the deadline.
SyncWatches ==
    /\ pc["sync"] \in {"check", "subscribe"} => now = 0 /\ ~subscribed["sync"]
    /\ pc["sync"] \in {"head", "listen", "read"} => subscribed["sync"]
    /\ pc["sync"] \in {"fallback", "sleep", "poll"} /\ subscribed["sync"] => now > Deadline
    /\ pc["sync"] = "fallback" /\ now > Deadline /\ ~subscribed["sync"] => settledAt > Deadline
    /\ answer["sync"] # "none" => pc["sync"] = "done"
    /\ answer["sync"] = "timeout" =>
          now > Deadline /\ (~subscribed["sync"] => settledAt > Deadline)

\* A notification in time waits in the inbox, is being followed up, or has
\* been answered.
NoticeIsKept ==
    noticeAt["sync"] <= Deadline =>
        /\ turnState = "completed" /\ subscribed["sync"]
        /\ \/ pc["sync"] = "done" /\ answer["sync"] # "timeout"
           \/ pc["sync"] \in {"head", "listen"} /\ inbox["sync"] /\ now <= Deadline
           \/ pc["sync"] = "read"

IndInv == TypeOK /\ TurnIsTimed /\ StreamWatches /\ SyncWatches /\ NoticeIsKept
=============================================================================
