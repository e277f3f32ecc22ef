--------------------------- MODULE TurnWaitProofs ---------------------------
(***************************************************************************)
(* Proofs about TurnWait: for every deadline, every poll interval and every *)
(* number of retries, with Redis sound, faulty or absent, neither way of   *)
(* waiting gives up on an answer it could have had in time.                *)
(***************************************************************************)
EXTENDS TurnWait, TLAPS

\* Subscribing gives a waiter a pubsub or none, and moves it on.
LEMMA SubscribeTypes ==
    ASSUME TypeOK, NEW x \in Waiters, NEW p \in {"head", "poll"}, NEW q \in {"fallback", "poll"},
           Subscribe(x, p, q)
    PROVE  TypeOK'
  <1>1. missed' \in [Waiters -> BOOLEAN]
    BY DEF TypeOK, Subscribe
  <1>2. subscribed' \in [Waiters -> BOOLEAN] /\ confirm' \in [Waiters -> BOOLEAN]
    BY DEF TypeOK, Subscribe
  <1>3. pc' \in [Waiters -> {"check", "subscribe", "head", "listen", "read",
                             "fallback", "sleep", "poll", "done"}]
    BY DEF TypeOK, Subscribe, Goes
  <1>4. QED
    BY <1>1, <1>2, <1>3 DEF TypeOK, Subscribe, turnVars

\* No step of the turn, of a waiter or of the clock leaves the types.
LEMMA TypeStep == TypeOK /\ [Next]_vars => TypeOK'
  <1> SUFFICES ASSUME TypeOK, [Next]_vars PROVE TypeOK'
    OBVIOUS
  <1> USE TimesAssumption, WaitRetriesAssumption DEF TypeOK, Waiters, Never, vars, turnVars, pubsubVars, waitVars, Goes, Answers
  <1>1. CASE Claim
    BY <1>1 DEF Claim
  <1>2. CASE Complete
    BY <1>2 DEF Complete
  <1>3. CASE Fail
    BY <1>3 DEF Fail
  <1>4. CASE Notify
    BY <1>4 DEF Notify
  <1>5. CASE NotifyLost
    BY <1>5 DEF NotifyLost
  <1>6. CASE SyncCheck
    BY <1>6 DEF SyncCheck, ReadTurn, SyncGoes
  <1>7. CASE SyncSubscribe
    BY <1>7, SubscribeTypes DEF SyncSubscribe
  <1>8. CASE SyncHead
    BY <1>8 DEF SyncHead, SyncAwaits, SyncGoes
  <1>9. CASE SyncListen
    BY <1>9, ZenonT(30) DEF SyncListen, GetMessage
  <1>10. CASE SyncRead
    BY <1>10 DEF SyncRead, ReadTurn, SyncGoes
  <1>11. CASE SyncListenRaises
    BY <1>11 DEF SyncListenRaises
  <1>12. CASE SyncFallback
    BY <1>12 DEF SyncFallback, SyncAwaits
  <1>13. CASE SyncPoll
    BY <1>13 DEF SyncPoll, ReadTurn, SyncGoes
  <1>14. CASE StreamSubscribe
    BY <1>14, SubscribeTypes DEF StreamSubscribe
  <1>15. CASE StreamPoll
    BY <1>15 DEF StreamPoll, ReadTurn, StreamAwaits
  <1>16. CASE StreamListen
    BY <1>16, ZenonT(30) DEF StreamListen, GetMessage
  <1>17. CASE StreamListenRaises
    BY <1>17 DEF StreamListenRaises
  <1>18. CASE Tick
    BY <1>18 DEF Tick
  <1>19. ASSUME NEW x \in Waiters, Sleep(x) PROVE TypeOK'
    BY <1>19 DEF Sleep
  <1>20. CASE UNCHANGED vars
    BY <1>20
  <1>21. QED
    BY <1>1, <1>2, <1>3, <1>4, <1>5, <1>6, <1>7, <1>8, <1>9, <1>10, <1>11, <1>12, <1>13,
       <1>14, <1>15, <1>16, <1>17, <1>18, <1>19, <1>20
    DEF Next, TurnStep, SyncStep, StreamStep

\* What holds initially: nobody waits yet.
LEMMA InitIndInv == Init => IndInv
  BY TimesAssumption, WaitRetriesAssumption
  DEF Init, IndInv, TypeOK, TurnIsTimed, StreamWatches, SyncWatches, NoticeIsKept, Waiters, Never

\* Each step keeps what the waiters rely on: the turn's steps the time it is
\* settled at, the waiters' steps their timers and the notification.
LEMMA NextIndInv == IndInv /\ [Next]_vars => IndInv'
  <1> SUFFICES ASSUME IndInv, [Next]_vars PROVE IndInv'
    OBVIOUS
  <1>0. TypeOK'
    BY TypeStep DEF IndInv
  <1> USE TimesAssumption DEF IndInv, TypeOK, TurnIsTimed, StreamWatches, SyncWatches, NoticeIsKept, Waiters, Never,
          vars, turnVars, pubsubVars, waitVars, Goes, Answers
  <1>1. CASE Claim
    BY <1>0, <1>1 DEF Claim
  <1>2. CASE Complete
    BY <1>0, <1>2 DEF Complete
  <1>3. CASE Fail
    BY <1>0, <1>3 DEF Fail
  <1>4. CASE Notify
    BY <1>0, <1>4 DEF Notify
  <1>5. CASE NotifyLost
    BY <1>0, <1>5 DEF NotifyLost
  <1>6. CASE SyncCheck
    BY <1>0, <1>6 DEF SyncCheck, ReadTurn, SyncGoes
  <1>7. CASE SyncSubscribe
    BY <1>0, <1>7 DEF SyncSubscribe, Subscribe
  <1>8. CASE SyncHead
    BY <1>0, <1>8 DEF SyncHead, SyncAwaits, SyncGoes
  <1>9. CASE SyncListen
    BY <1>0, <1>9 DEF SyncListen, GetMessage
  <1>10. CASE SyncRead
    BY <1>0, <1>10 DEF SyncRead, ReadTurn, SyncGoes
  <1>11. CASE SyncListenRaises
    BY <1>0, <1>11 DEF SyncListenRaises
  <1>12. CASE SyncFallback
    BY <1>0, <1>12 DEF SyncFallback, SyncAwaits
  <1>13. CASE SyncPoll
    BY <1>0, <1>13 DEF SyncPoll, ReadTurn, SyncGoes
  <1>14. CASE StreamSubscribe
    BY <1>0, <1>14 DEF StreamSubscribe, Subscribe
  <1>15. CASE StreamPoll
    BY <1>0, <1>15 DEF StreamPoll, ReadTurn, StreamAwaits
  <1>16. CASE StreamListen
    BY <1>0, <1>16 DEF StreamListen, GetMessage
  <1>17. CASE StreamListenRaises
    BY <1>0, <1>17 DEF StreamListenRaises
  <1>18. CASE Tick
    BY <1>0, <1>18 DEF Tick, Resting
  <1>19. ASSUME NEW x \in Waiters, Sleep(x) PROVE IndInv'
    BY <1>0, <1>19 DEF Sleep
  <1>20. CASE UNCHANGED vars
    BY <1>20
  <1>21. QED
    BY <1>1, <1>2, <1>3, <1>4, <1>5, <1>6, <1>7, <1>8, <1>9, <1>10, <1>11, <1>12, <1>13, <1>14, <1>15, <1>16, <1>17, <1>18, <1>19, <1>20
    DEF Next, TurnStep, SyncStep, StreamStep
\* The strengthening holds in every reachable state, for every deadline, poll
\* interval and number of retries, with and without faults of Redis.
THEOREM Invariance == Spec => []IndInv
  BY InitIndInv, NextIndInv, PTL DEF Spec

\* Clock, row, timers, pubsubs and answers are values the code can make of them.
THEOREM TypeCorrect == Spec => []TypeOK
  BY Invariance, PTL DEF IndInv

\* The stream gives up only on a turn that was not settled one poll interval
\* before its deadline: polling bounds what a lost notification can cost.
THEOREM StreamAlwaysPolls == Spec => []StreamMissesOnlyLastPoll
  <1>1. IndInv => StreamMissesOnlyLastPoll
    BY DEF IndInv, StreamWatches, StreamMissesOnlyLastPoll
  <1>2. QED
    BY <1>1, Invariance, PTL

\* Without Redis the synchronous wait looks at the row after its deadline.
THEOREM SyncAlwaysLooksLast == Spec => []SyncPollsToTheEnd
  <1>1. IndInv => SyncPollsToTheEnd
    BY DEF IndInv, SyncWatches, SyncPollsToTheEnd
  <1>2. QED
    BY <1>1, Invariance, PTL

\* A notification that reached the synchronous wait in time is answered.
THEOREM NoticeAlwaysHeard == Spec => []SyncHearsNotice
  <1>1. IndInv => SyncHearsNotice
    <2>1. IndInv => noticeAt["sync"] \in Nat /\ Deadline \in Nat
      BY TimesAssumption DEF IndInv, TypeOK, Waiters, Never
    <2>2. QED
      BY <2>1 DEF IndInv, SyncWatches, NoticeIsKept, SyncHearsNotice
  <1>2. QED
    BY <1>1, Invariance, PTL

-----------------------------------------------------------------------------
(* The turn the waiters watch.                                             *)

\* The row, as the abstract lifecycle sees it: one turn that is not degraded.
Lifecycle == INSTANCE TurnLifecycle WITH
                Keys     <- {"turn"},
                state    <- [k \in {"turn"} |-> turnState],
                result   <- [k \in {"turn"} |-> IF turnState = "completed" THEN 1 ELSE 0],
                degraded <- [k \in {"turn"} |-> FALSE]

\* Waiters move no turn.
LEMMA OnlyTurnStepsMove ==
    ASSUME [Next]_vars, ~TurnStep
    PROVE  turnState' = turnState
  <1>1. SyncStep => turnState' = turnState
    BY DEF SyncStep, SyncCheck, SyncSubscribe, SyncHead, SyncListen, SyncRead, SyncListenRaises,
       SyncFallback, Sleep, SyncPoll, Subscribe, GetMessage, turnVars
  <1>2. StreamStep => turnState' = turnState
    BY DEF StreamStep, StreamSubscribe, StreamPoll, StreamListen, Sleep, Subscribe, GetMessage, turnVars
  <1> QED
    BY <1>1, <1>2 DEF Next, StreamListenRaises, Tick, vars, turnVars

\* What the waiters are analysed against is a turn as ChatTurn moves it: every
\* step the row takes while they wait is one of the lifecycle ChatTurn
\* implements (from a queued turn on), or leaves the row alone.
THEOREM WaitedTurnLives == Spec => [][Lifecycle!Next]_(Lifecycle!lifecycleVars)
  <1>1. TypeOK /\ [Next]_vars => [Lifecycle!Next]_(Lifecycle!lifecycleVars)
    <2> SUFFICES ASSUME TypeOK, [Next]_vars
                 PROVE  [Lifecycle!Next]_(Lifecycle!lifecycleVars)
      OBVIOUS
    <2>1. turnState' = turnState => UNCHANGED Lifecycle!lifecycleVars
      BY DEF Lifecycle!lifecycleVars
    <2>2. CASE Claim
      <3>1. Lifecycle!Start("turn")
        BY <2>2 DEF Claim, Lifecycle!Start
      <3> QED
        BY <3>1 DEF Lifecycle!Next
    <2>3. CASE Complete
      <3>1. turnState = "running" /\ turnState' = "completed"
        BY <2>3 DEF Complete
      <3>2. [k \in {"turn"} |-> turnState'] = [[k \in {"turn"} |-> turnState] EXCEPT !["turn"] = "completed"]
        BY <3>1
      <3>3. [k \in {"turn"} |-> IF turnState' = "completed" THEN 1 ELSE 0]
              = [[k \in {"turn"} |-> IF turnState = "completed" THEN 1 ELSE 0] EXCEPT !["turn"] = 1]
        BY <3>1
      <3>4. Lifecycle!Succeed("turn")
        BY <3>1, <3>2, <3>3 DEF Lifecycle!Succeed
      <3> QED
        BY <3>4 DEF Lifecycle!Next
    <2>4. CASE Fail
      <3>1. Lifecycle!Fail("turn")
        BY <2>4 DEF Fail, Lifecycle!Fail
      <3> QED
        BY <3>1 DEF Lifecycle!Next
    <2>5. CASE Notify \/ NotifyLost
      BY <2>1, <2>5 DEF Notify, NotifyLost
    <2> QED
      BY <2>1, <2>2, <2>3, <2>4, <2>5, OnlyTurnStepsMove DEF TurnStep
  <1> QED
    BY <1>1, TypeCorrect, PTL DEF Spec

\* A result once told is the state of the row from then on, whoever waited and
\* however it was woken; only the answer "failed" may be overtaken by a retry.
ResultsStayTrue == \A x \in Waiters : answer[x] = "result" => turnState = "completed"

LEMMA AnswerTold ==
    ASSUME TypeOK, NEW x \in Waiters, NEW y \in Waiters, NEW a, Answers(y, a)
    PROVE  answer'[x] = answer[x] \/ answer'[x] = a
  BY DEF TypeOK, Answers

LEMMA AnswersAreRead ==
    ASSUME TypeOK, [Next]_vars, NEW x \in Waiters, answer'[x] = "result", answer[x] # "result"
    PROVE  turnState = "completed" /\ ~TurnStep
  <1>1. ~TurnStep
    BY DEF TurnStep, Claim, Complete, Fail, Notify, NotifyLost, waitVars
  <1>2. "sync" \in Waiters /\ "stream" \in Waiters
    BY DEF Waiters
  <1>3. \A y \in Waiters : ~Answers(y, "failed") /\ ~Answers(y, "timeout") /\ ~Answers(y, "error")
    BY AnswerTold
  <1>4. CASE SyncStep
    <2>1. CASE SyncCheck \/ SyncRead \/ SyncPoll
      BY <1>1, <1>2, <1>3, <2>1 DEF SyncCheck, SyncRead, SyncPoll, ReadTurn, SyncGoes
    <2>2. CASE SyncSubscribe
      BY <2>2 DEF SyncSubscribe, Subscribe
    <2>3. CASE SyncListen \/ Sleep("sync")
      BY <2>3 DEF SyncListen, GetMessage, Sleep
    <2>4. CASE SyncHead \/ SyncFallback \/ SyncListenRaises
      BY <1>2, <1>3, <2>4 DEF SyncHead, SyncFallback, SyncListenRaises, SyncGoes, SyncAwaits
    <2> QED
      BY <1>4, <2>1, <2>2, <2>3, <2>4 DEF SyncStep
  <1>5. CASE StreamStep
    <2>1. CASE StreamPoll
      BY <1>1, <1>2, <1>3, <2>1 DEF StreamPoll, ReadTurn, StreamAwaits
    <2>2. CASE StreamSubscribe
      BY <2>2 DEF StreamSubscribe, Subscribe
    <2>3. CASE StreamListen \/ Sleep("stream")
      BY <2>3 DEF StreamListen, GetMessage, Sleep
    <2> QED
      BY <1>5, <2>1, <2>2, <2>3 DEF StreamStep
  <1>6. CASE StreamListenRaises \/ Tick \/ UNCHANGED vars
    BY <1>6 DEF StreamListenRaises, Tick, vars, waitVars
  <1> QED
    BY <1>1, <1>4, <1>5, <1>6 DEF Next

THEOREM ResultsAlwaysTrue == Spec => []ResultsStayTrue
  <1>1. Init => ResultsStayTrue
    BY DEF Init, ResultsStayTrue, Waiters
  <1>2. TypeOK /\ ResultsStayTrue /\ [Next]_vars => ResultsStayTrue'
    <2> SUFFICES ASSUME TypeOK, ResultsStayTrue, [Next]_vars, NEW x \in Waiters, answer'[x] = "result"
                 PROVE  turnState' = "completed"
      BY DEF ResultsStayTrue, Waiters
    <2>1. CASE answer[x] = "result"
      <3>1. turnState = "completed"
        BY <2>1 DEF ResultsStayTrue
      <3> QED
        BY <3>1, OnlyTurnStepsMove DEF TurnStep, Claim, Complete, Fail, Notify, NotifyLost
    <2>2. CASE answer[x] # "result"
      BY <2>2, AnswersAreRead, OnlyTurnStepsMove
    <2> QED
      BY <2>1, <2>2
  <1> QED
    BY <1>1, <1>2, TypeCorrect, PTL DEF Spec
=============================================================================
