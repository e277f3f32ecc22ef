---------------------------- MODULE ReadingProofs -----------------------------
(***************************************************************************)
(* Proofs about what the learner reads: the browser tab (FrontendSession), *)
(* the lesson of a section (LessonCache), the grounded answer              *)
(* (GroundedAnswer), the embedding its search rests on (Embedding), the    *)
(* understanding of a section (SectionUnderstanding) and the chunks of a   *)
(* document (ContentChunks), which share nothing; for any learners, turns, *)
(* questions, sections, documents and texts, and any bounds.               *)
(***************************************************************************)
EXTENDS ContentProofs, ContentChunks, Embedding, FrontendSession, GroundedAnswer, LessonCache,
        SectionUnderstanding, FiniteSetTheorems, TLAPS

-----------------------------------------------------------------------------
(* Requests and turns.                                                     *)

\* The fields of a request and what becomes of it for another learner.
LEMMA KeyFields ==
    ASSUME NEW closure \in Keys
    PROVE  /\ closure.learner \in Learners
           /\ closure = Key(closure.learner, closure)
           /\ \A learner \in Learners : Key(learner, closure) \in Keys
           /\ \A learner : Key(learner, closure).learner = learner
  BY DEF Keys, Key

\* A request sent again for a learner is the one it was for that learner.
LEMMA KeyOfKey ==
    ASSUME NEW closure \in Keys, NEW learner
    PROVE  Key(Key(learner, closure).learner, closure) = Key(learner, closure)
  BY DEF Keys, Key

\* What a turn shows of itself.
LEMMA ShownFields ==
    ASSUME NEW turn \in ServerTurn, NEW login \in Nat
    PROVE  /\ Shown(turn, login) \in Answer
           /\ Shown(turn, login).key = turn.key
           /\ Shown(turn, login).login = login
           /\ turn.key \in Keys
  BY DEF Shown, Answer, ServerTurn

\* A request adds its turn or runs it again; the other turns keep their keys.
LEMMA SubmittedTurns ==
    ASSUME TabTypeOK, NEW key \in Keys
    PROVE  /\ Submitted(key) \in Seq(ServerTurn)
           /\ \A i \in DOMAIN Submitted(key) :
                 \/ Submitted(key)[i].key = key
                 \/ i \in DOMAIN serverTurns /\ Submitted(key)[i].key = serverTurns[i].key
  <1> DEFINE new == [key |-> key, state |-> "running", stage |-> NoSection]
  <1>1. PICK T : T = ServerTurn
    OBVIOUS
  <1>2. serverTurns \in Seq(T)
    BY <1>1 DEF TabTypeOK
  <1>3. CASE Positions(key) = {}
    <2>1. new \in T /\ new.key = key
      BY <1>1 DEF ServerTurn
    <2>2. Submitted(key) = Append(serverTurns, new)
      BY <1>3 DEF Submitted
    <2>3. QED
      BY <1>1, <1>2, <2>1, <2>2
  <1>4. CASE Positions(key) # {}
    <2> DEFINE S == [i \in DOMAIN serverTurns |->
                       IF serverTurns[i].key = key /\ serverTurns[i].state = "failed"
                       THEN [serverTurns[i] EXCEPT !.state = "running"] ELSE serverTurns[i]]
    <2>1. Submitted(key) = S
      BY <1>4 DEF Submitted
    <2>2. \A t \in T : [t EXCEPT !.state = "running"] \in T /\ [t EXCEPT !.state = "running"].key = t.key
      BY <1>1 DEF ServerTurn
    <2>3. \A i \in DOMAIN serverTurns : S[i] \in T /\ S[i].key = serverTurns[i].key
      BY <1>2, <2>2
    <2>4. S \in Seq(T)
      BY <1>2, <2>3
    <2>5. QED
      BY <1>1, <2>1, <2>3, <2>4
  <1>5. QED
    BY <1>3, <1>4

\* A history shows turns of the learner it is read for, as of that login.
LEMMA RestoredIsOfLearner ==
    ASSUME TabTypeOK, NEW learner, NEW login \in Nat
    PROVE  /\ Restored(learner, login) \in Seq(Answer)
           /\ \A i \in DOMAIN Restored(learner, login) :
                 /\ Restored(learner, login)[i].key.learner = learner
                 /\ Restored(learner, login)[i].login = login
  <1> DEFINE D == DoneTurns(learner)
             R == Restored(learner, login)
  <1>1. PICK T : T = ServerTurn
    OBVIOUS
  <1>2. serverTurns \in Seq(T)
    BY <1>1 DEF TabTypeOK
  <1>3. Len(serverTurns) \in Nat /\ D \subseteq 1 .. Len(serverTurns)
    BY <1>2 DEF DoneTurns
  <1>4. Cardinality(D) \in Nat
    <2>1. IsFiniteSet(1 .. Len(serverTurns))
      BY <1>3, FS_Interval
    <2>2. QED
      BY <1>3, <2>1, FS_Subset, FS_CardinalityType
  <1>5. \A n \in 1 .. Cardinality(D) : Nth(D, n) \in D
    BY <1>3, NthIsOne
  <1>6. \A i \in D : serverTurns[i] \in T /\ serverTurns[i].key.learner = learner
    BY <1>2 DEF DoneTurns
  <1>7. PICK A : A = Answer
    OBVIOUS
  <1>8. R = [n \in 1 .. Cardinality(D) |-> Shown(serverTurns[Nth(D, n)], login)]
    BY DEF Restored
  <1>9. \A n \in 1 .. Cardinality(D) :
           R[n] \in A /\ R[n].key.learner = learner /\ R[n].login = login
    <2>1. TAKE n \in 1 .. Cardinality(D)
    <2>2. PICK t : t = serverTurns[Nth(D, n)]
      OBVIOUS
    <2>3. t \in ServerTurn /\ t.key.learner = learner
      BY <1>1, <1>5, <1>6, <2>2
    <2>4. R[n] = Shown(t, login)
      BY <1>8, <2>2
    <2>5. QED
      BY <1>7, <2>3, <2>4, ShownFields
  <1>10. R \in Seq(A)
    BY <1>4, <1>8, <1>9
  <1>11. QED
    BY <1>7, <1>8, <1>9, <1>10

\* What is known of a request under way and of a load of the history.
LEMMA ActionFields ==
    /\ \A a \in Action : /\ a.closure \in Keys /\ a.key \in Keys
                         /\ a.version \in Nat /\ a.login \in Nat
    /\ \A closure, key \in Keys : \A version, login \in Nat :
          [closure |-> closure, key |-> key, version |-> version, login |-> login] \in Action
  BY DEF Action

LEMMA LoadFields ==
    /\ \A l \in Load : /\ l.learner \in Learners /\ l.login \in Nat
                       /\ l.read \in BOOLEAN /\ l.history \in Seq(Answer)
                       /\ l.pending \in BOOLEAN
    /\ \A learner \in Learners : \A login \in Nat : \A read, more \in BOOLEAN :
          \A history \in Seq(Answer) :
             [learner |-> learner, login |-> login, read |-> read,
              history |-> history, pending |-> more] \in Load
  BY DEF Load

\* The elements of a list to which one is added.
LEMMA AddedElement ==
    ASSUME NEW E, NEW s \in Seq(E), NEW e \in E
    PROVE  ToSet(Append(s, e)) = ToSet(s) \cup {e}
  <1>1. /\ DOMAIN Append(s, e) = 1 .. Len(s) + 1
        /\ Append(s, e)[Len(s) + 1] = e
        /\ \A i \in DOMAIN s : Append(s, e)[i] = s[i]
    OBVIOUS
  <1>2. /\ Len(s) \in Nat /\ DOMAIN s = 1 .. Len(s)
        /\ 1 .. Len(s) + 1 = (1 .. Len(s)) \cup {Len(s) + 1}
    OBVIOUS
  <1>3. QED
    BY <1>1, <1>2 DEF ToSet

\* The answers of a transcript to which one is added, and of one alone.
LEMMA AddedAnswer ==
    ASSUME NEW E, NEW s \in Seq(E), NEW e \in E
    PROVE  /\ Append(s, e) \in Seq(E) /\ Append(s, e) # <<>>
           /\ Last(Append(s, e)) = e
           /\ ToSet(Append(s, e)) = ToSet(s) \cup {e}
           /\ <<e>> \in Seq(E) /\ <<e>> # <<>> /\ Len(<<e>>) = 1
           /\ Last(<<e>>) = e /\ ToSet(<<e>>) = {e}
  <1>1. ToSet(Append(s, e)) = ToSet(s) \cup {e}
    BY AddedElement
  <1>2. ToSet(<<e>>) = {e}
    BY DEF ToSet
  <1>3. QED
    BY <1>1, <1>2 DEF Last

\* The last answer is one of the transcript.
LEMMA LastAnswer ==
    ASSUME NEW E, NEW s \in Seq(E), s # <<>>
    PROVE  Last(s) \in E /\ Last(s) \in ToSet(s)
  BY DEF Last, ToSet

\* RetryKeepsItsKey, by the positions of the turns.
LEMMA KeysAreAsked ==
    RetryKeepsItsKey <=>
      \A i \in DOMAIN serverTurns :
          \E c \in asked : serverTurns[i].key = Key(serverTurns[i].key.learner, c)
  BY DEF RetryKeepsItsKey, ToSet

-----------------------------------------------------------------------------
(* Every action keeps the invariant.                                       *)

\* Nobody is logged in, and nothing is shown or under way.
LEMMA InitTabInv ==
    ASSUME TabAssumption, InitTab
    PROVE  TabInv
  <1>1. TabTypeOK
    <2>1. MaxLogins \in Nat /\ MaxClicks \in Nat /\ MaxReadiness \in Nat
      BY DEF TabAssumption
    <2>2. /\ auth \in [learner : Learners \cup {NoLearner}, login : 0 .. MaxLogins]
          /\ readySwitches \in 0 .. MaxReadiness /\ clicks \in 0 .. MaxClicks
      BY <2>1 DEF InitTab
    <2>3. /\ guard \in [learner : Learners \cup {NoLearner}, version : Nat]
          /\ transcript \in Seq(Answer) /\ applied \in Seq(Answer) /\ Len(applied) <= 1
          /\ serverTurns \in Seq(ServerTurn)
      BY DEF InitTab
    <2>4. QED
      BY <2>2, <2>3 DEF InitTab, TabTypeOK
  <1>2. GuardFollows /\ ActionsKnow /\ RetryIsAsked /\ LoadsFollow
    BY DEF InitTab, GuardFollows, ActionsKnow, RetryIsAsked, LoadsFollow
  <1>3. SessionShowsItsLearner
    BY KeysAreAsked
    DEF InitTab, SessionShowsItsLearner, ShownIsOfThisLogin, ProgressIsLastShown
  <1>4. QED
    BY <1>1, <1>2, <1>3 DEF TabInv

\* A login or a logout makes the effects pending, and what is under way is of
\* an earlier login.
LEMMA LearnerChangesKeepsInv ==
    ASSUME TabAssumption, TabInv, NEW learner \in Learners \cup {NoLearner},
           LearnerChanges(learner)
    PROVE  TabInv'
  <1> USE DEF TabInv, LearnerChanges
  <1>1. auth.login \in 0 .. MaxLogins /\ auth.login + 1 \in 0 .. MaxLogins
    BY DEF TabAssumption, TabTypeOK
  <1>2. auth' = [learner |-> learner, login |-> auth.login + 1] /\ "learner" \in changed'
    OBVIOUS
  <1>3. TabTypeOK'
    BY <1>1 DEF hookVars, TabTypeOK
  <1>4. GuardFollows'
    BY <1>2 DEF GuardFollows
  <1>5. ActionsKnow'
    <2>1. \A a \in actions : a.login \in Nat
      BY ActionFields DEF TabTypeOK
    <2>2. \A a \in actions : a.login <= auth'.login /\ a.login # auth'.login
      BY <1>1, <1>2, <2>1 DEF ActionsKnow
    <2>3. QED
      BY <1>2, <2>2 DEF ActionsKnow
  <1>6. RetryIsAsked' /\ LoadsFollow'
    BY <1>2 DEF hookVars, RetryIsAsked, LoadsFollow
  <1>7. SessionShowsItsLearner'
    BY <1>2
    DEF SessionShowsItsLearner, ShownIsOfThisLogin, ProgressIsLastShown, RetryKeepsItsKey
  <1>8. QED
    BY <1>3, <1>4, <1>5, <1>6, <1>7

\* The readiness is not looked at.
LEMMA ReadinessChangesKeepsInv ==
    ASSUME TabAssumption, TabInv, ReadinessChanges
    PROVE  TabInv'
  <1> USE DEF TabInv, ReadinessChanges
  <1>1. "learner" \in changed' <=> "learner" \in changed
    OBVIOUS
  <1>2. TabTypeOK'
    BY DEF TabAssumption, hookVars, TabTypeOK
  <1>3. GuardFollows' /\ ActionsKnow' /\ RetryIsAsked' /\ LoadsFollow'
    BY <1>1 DEF hookVars, GuardFollows, ActionsKnow, RetryIsAsked, LoadsFollow
  <1>4. SessionShowsItsLearner'
    BY <1>1
    DEF hookVars, SessionShowsItsLearner, ShownIsOfThisLogin, ProgressIsLastShown,
        RetryKeepsItsKey
  <1>5. QED
    BY <1>2, <1>3, <1>4

\* The effects of a login reset the guards and the screen, and load the history
\* of the learner who is now there.
LEMMA EffectsKeepsInv ==
    ASSUME TabAssumption, TabInv, Effects
    PROVE  TabInv'
  <1> USE DEF TabInv, Effects
  <1>1. guard.version \in Nat /\ auth.login \in Nat /\ NoLearner \notin Learners
    BY DEF TabAssumption, TabTypeOK
  <1>2. loads' \subseteq Load
    <2>1. CanInteract => auth.learner \in Learners
      BY DEF CanInteract, TabTypeOK
    <2>2. <<>> \in Seq(Answer)
      OBVIOUS
    <2>3. QED
      BY <1>1, <2>1, <2>2, LoadFields, ZenonT(30)
  <1>3. TabTypeOK'
    <2>1. guard' \in [learner : Learners \cup {NoLearner}, version : Nat]
      <3>1. guard.version + 1 \in Nat /\ auth.learner \in Learners \cup {NoLearner}
        BY <1>1 DEF TabTypeOK
      <3>2. guard' = guard \/ guard' = [learner |-> auth.learner, version |-> guard.version + 1]
        OBVIOUS
      <3>3. QED
        BY <3>1, <3>2 DEF TabTypeOK
    <2>2. transcript' \in Seq(Answer) /\ applied' \in Seq(Answer) /\ Len(applied') <= 1
      <3>1. <<>> \in Seq(Answer) /\ Len(<<>>) = 0
        OBVIOUS
      <3>2. \/ transcript' = <<>> /\ applied' = <<>>
            \/ transcript' = transcript /\ applied' = applied
        OBVIOUS
      <3>3. CASE transcript' = <<>> /\ applied' = <<>>
        BY <3>1, <3>3
      <3>4. CASE transcript' = transcript /\ applied' = applied
        BY <3>4 DEF TabTypeOK
      <3>5. QED
        BY <3>2, <3>3, <3>4
    <2>3. {loading, pending, canRetry, historyLoaded}' \subseteq BOOLEAN
      BY DEF TabTypeOK
    <2>4. canRetry' => retryAction' # NoClosure
      BY DEF TabTypeOK
    <2>5. QED
      BY <1>2, <2>1, <2>2, <2>3, <2>4 DEF TabTypeOK
  <1>4. GuardFollows'
    BY DEF GuardFollows
  <1>5. ActionsKnow'
    <2>1. \A a \in actions : a.version \in Nat
      BY ActionFields DEF TabTypeOK
    <2>2. CASE "learner" \in changed
      <3>1. guard'.version = guard.version + 1
        BY <2>2
      <3>2. \A a \in actions : a.version <= guard'.version /\ a.version # guard'.version
        BY <1>1, <2>1, <3>1 DEF ActionsKnow
      <3>3. QED
        BY <3>2 DEF ActionsKnow
    <2>3. CASE "learner" \notin changed
      BY <2>3 DEF ActionsKnow
    <2>4. QED
      BY <2>2, <2>3
  <1>6. RetryIsAsked' /\ LoadsFollow'
    BY DEF RetryIsAsked, LoadsFollow
  <1>7. ShownIsOfThisLogin' /\ ProgressIsLastShown'
    <2>1. CASE "learner" \in changed
      <3>1. transcript' = <<>> /\ applied' = <<>>
        BY <2>1
      <3>2. ToSet(<<>>) = {}
        BY DEF ToSet
      <3>3. QED
        BY <3>1, <3>2 DEF ShownIsOfThisLogin, ProgressIsLastShown
    <2>2. CASE "learner" \notin changed
      BY <2>2 DEF SessionShowsItsLearner, ShownIsOfThisLogin, ProgressIsLastShown
    <2>3. QED
      BY <2>1, <2>2
  <1>8. RetryKeepsItsKey'
    BY DEF SessionShowsItsLearner, RetryKeepsItsKey
  <1>9. QED
    BY <1>3, <1>4, <1>5, <1>6, <1>7, <1>8 DEF SessionShowsItsLearner

\* What a click sends was asked for, now or before the retry, for the learner
\* who clicks.
LEMMA RunKeepsInv ==
    ASSUME TabAssumption, TabInv, NEW closure, closure \in asked',
           asked \subseteq asked', asked' \subseteq Keys,
           auth.learner \in Learners, ~loading, Run(closure)
    PROVE  TabInv'
  <1> DEFINE version == IF closure.event = "open_session" THEN guard.version + 1
                        ELSE guard.version
             key == Key(auth.learner, closure)
             a == [closure |-> closure, key |-> key, version |-> version, login |-> auth.login]
  <1> USE DEF TabInv
  <1>1. closure \in Keys /\ key \in Keys /\ key.learner = auth.learner
        /\ key = Key(key.learner, closure)
    BY KeyFields, KeyOfKey
  <1>2. /\ guard' = [guard EXCEPT !.version = version]
        /\ actions' = actions \cup {a}
        /\ serverTurns' \in {serverTurns, Submitted(key)}
    BY DEF Run
  <1>3. /\ guard.version \in Nat /\ auth.login \in Nat /\ version \in Nat
        /\ guard.version <= version /\ (version # guard.version => guard.version < version)
        /\ guard'.version = version /\ guard'.learner = guard.learner
        /\ guard' \in [learner : Learners \cup {NoLearner}, version : Nat]
    <2>1. /\ guard \in [learner : Learners \cup {NoLearner}, version : Nat]
          /\ auth.login \in Nat
      BY DEF TabAssumption, TabTypeOK
    <2>2. /\ guard.version \in Nat /\ version \in Nat
          /\ guard.version <= version /\ (version # guard.version => guard.version < version)
      BY <2>1
    <2>3. QED
      BY <1>2, <2>1, <2>2
  <1>4. /\ a \in Action /\ a.closure = closure /\ a.key = key
        /\ a.version = version /\ a.login = auth.login
    BY <1>1, <1>3, ActionFields
  <1>5. actions = {}
    BY DEF TabTypeOK
  <1>6. actions' = {a}
    BY <1>2, <1>5
  <1>7. serverTurns' \in Seq(ServerTurn)
    BY <1>1, <1>2, SubmittedTurns DEF TabTypeOK
  <1>8. TabTypeOK'
    <2>1. clicks' \in 0 .. MaxClicks
      BY DEF TabAssumption, TabTypeOK, Run
    <2>2. {loading, pending, canRetry, historyLoaded}' \subseteq BOOLEAN
      BY DEF TabTypeOK, Run
    <2>3. /\ actions' \subseteq Action /\ (loading' <=> actions' # {})
          /\ \A b, c \in actions' : b = c
      BY <1>4, <1>6 DEF Run
    <2>4. retryAction' \in Keys \cup {NoClosure} /\ (canRetry' => retryAction' # NoClosure)
      BY DEF Run
    <2>5. QED
      BY <1>3, <1>7, <2>1, <2>2, <2>3, <2>4 DEF TabTypeOK, Run
  <1>9. GuardFollows'
    BY <1>3 DEF GuardFollows, Run
  <1>10. ActionsKnow'
    <2>1. auth' = auth /\ version <= version /\ auth.login <= auth.login
      BY <1>3 DEF Run
    <2>2. QED
      BY <1>1, <1>3, <1>4, <1>6, <2>1 DEF ActionsKnow
  <1>11. RetryIsAsked' /\ LoadsFollow'
    BY DEF Run, RetryIsAsked, LoadsFollow
  <1>12. ShownIsOfThisLogin' /\ ProgressIsLastShown'
    BY DEF Run, SessionShowsItsLearner, ShownIsOfThisLogin, ProgressIsLastShown
  <1>13. RetryKeepsItsKey'
    <2>1. \A i \in DOMAIN serverTurns :
             \E c \in asked' : serverTurns[i].key = Key(serverTurns[i].key.learner, c)
      BY KeysAreAsked DEF SessionShowsItsLearner
    <2>2. \A i \in DOMAIN serverTurns' :
             \/ serverTurns'[i].key = key
             \/ i \in DOMAIN serverTurns /\ serverTurns'[i].key = serverTurns[i].key
      BY <1>1, <1>2, SubmittedTurns
    <2>3. \A i \in DOMAIN serverTurns' :
             \E c \in asked' : serverTurns'[i].key = Key(serverTurns'[i].key.learner, c)
      BY <1>1, <2>1, <2>2
    <2>4. QED
      BY <2>3 DEF RetryKeepsItsKey, ToSet
  <1>14. QED
    BY <1>8, <1>9, <1>10, <1>11, <1>12, <1>13 DEF SessionShowsItsLearner

\* The three clicks.
LEMMA ClicksKeepInv ==
    ASSUME TabAssumption, TabInv,
           StartSession \/ RetryLast \/ \E message \in Messages : Send(message)
    PROVE  TabInv'
  <1>1. NoLearner \notin Learners /\ asked \subseteq Keys
        /\ auth.learner \in Learners \cup {NoLearner}
    BY DEF TabAssumption, TabInv, TabTypeOK
  <1>2. CASE StartSession
    <2> DEFINE closure == Closure("open_session", NoMessage, NoSection)
    <2>1. auth.learner \in Learners /\ ~loading /\ Run(closure) /\ asked' = asked \cup {closure}
      BY <1>1, <1>2 DEF StartSession, CanInteract
    <2>2. closure \in Keys
      BY <2>1 DEF Closure, Keys
    <2>3. QED
      BY <1>1, <2>1, <2>2, RunKeepsInv
  <1>3. CASE RetryLast
    <2>1. auth.learner \in Learners /\ ~loading /\ Run(retryAction) /\ asked' = asked
      BY <1>1, <1>3 DEF RetryLast
    <2>2. retryAction \in asked
      BY <1>3 DEF RetryLast, TabInv, RetryIsAsked
    <2>3. QED
      BY <1>1, <2>1, <2>2, RunKeepsInv
  <1>4. CASE \E message \in Messages : Send(message)
    <2>1. PICK message \in Messages : Send(message)
      BY <1>4
    <2> DEFINE closure == Closure("learner_reply", message, CurrentSection)
    <2>2. auth.learner \in Learners /\ ~loading /\ Run(closure) /\ asked' = asked \cup {closure}
      BY <1>1, <2>1 DEF Send, CanInteract
    <2>3. CurrentSection \in StageSections \cup {NoSection}
      <3>1. CASE applied = <<>>
        BY <3>1 DEF CurrentSection
      <3>2. CASE applied # <<>>
        <4>1. applied[1] \in Answer
          BY <3>2 DEF TabInv, TabTypeOK
        <4>2. QED
          BY <3>2, <4>1 DEF CurrentSection, Answer
      <3>3. QED
        BY <3>1, <3>2
    <2>4. closure \in Keys
      BY <2>2, <2>3 DEF Closure, Keys
    <2>5. QED
      BY <1>1, <2>2, <2>4, RunKeepsInv
  <1>5. QED
    BY <1>2, <1>3, <1>4

\* The end of a turn leaves its key.
LEMMA TurnEndsKeepsInv ==
    ASSUME TabAssumption, TabInv, NEW i \in DOMAIN serverTurns,
           NEW state \in {"failed", "completed"}, NEW stage \in StageSections \cup {NoSection},
           TurnEnds(i, state, stage)
    PROVE  TabInv'
  <1> USE DEF TabInv, TurnEnds
  <1>1. PICK T : T = ServerTurn
    OBVIOUS
  <1>2. serverTurns \in Seq(T)
    BY <1>1 DEF TabTypeOK
  <1>3. PICK t : t = [[serverTurns[i] EXCEPT !.state = state] EXCEPT !.stage = stage]
    OBVIOUS
  <1>4. serverTurns' = [serverTurns EXCEPT ![i] = t]
    BY <1>2, <1>3
  <1>5. t \in T /\ t.key = serverTurns[i].key
    <2>1. PICK u : u = serverTurns[i]
      OBVIOUS
    <2>2. u \in ServerTurn
      BY <1>1, <1>2, <2>1
    <2>3. t = [[u EXCEPT !.state = state] EXCEPT !.stage = stage]
      BY <1>3, <2>1
    <2>4. t \in ServerTurn /\ t.key = u.key
      BY <2>2, <2>3 DEF ServerTurn
    <2>5. QED
      BY <1>1, <2>1, <2>4
  <1>6. /\ serverTurns' \in Seq(T) /\ DOMAIN serverTurns' = DOMAIN serverTurns
        /\ \A j \in DOMAIN serverTurns : serverTurns'[j].key = serverTurns[j].key
    <2>1. serverTurns' \in Seq(T) /\ DOMAIN serverTurns' = DOMAIN serverTurns
      <3> HIDE DEF TurnEnds
      <3>1. t \in T
        BY <1>5
      <3>2. QED
        BY <1>2, <1>4, <3>1
    <2>2. \A j \in DOMAIN serverTurns : serverTurns'[j] = IF j = i THEN t ELSE serverTurns[j]
      BY <1>2, <1>4
    <2>3. QED
      BY <1>5, <2>1, <2>2
  <1>7. TabTypeOK'
    BY <1>1, <1>6 DEF hookVars, TabTypeOK
  <1>8. GuardFollows' /\ ActionsKnow' /\ RetryIsAsked' /\ LoadsFollow'
    BY DEF hookVars, GuardFollows, ActionsKnow, RetryIsAsked, LoadsFollow
  <1>9. ShownIsOfThisLogin' /\ ProgressIsLastShown'
    BY DEF hookVars, SessionShowsItsLearner, ShownIsOfThisLogin, ProgressIsLastShown
  <1>10. RetryKeepsItsKey'
    <2>1. \A j \in DOMAIN serverTurns' :
             \E c \in asked' : serverTurns'[j].key = Key(serverTurns'[j].key.learner, c)
      BY <1>6, KeysAreAsked DEF SessionShowsItsLearner
    <2>2. QED
      <3> HIDE DEF TurnEnds
      <3>1. QED
        BY <2>1 DEF RetryKeepsItsKey, ToSet
  <1>11. QED
    BY <1>7, <1>8, <1>9, <1>10 DEF SessionShowsItsLearner

\* With one request at a time, the tab stops loading when it is answered.
LEMMA AnsweredKeepsInv ==
    ASSUME TabInv, NEW a \in actions, actions' = actions \ {a}, loading' = FALSE
    PROVE  /\ actions' \subseteq Action
           /\ (loading' <=> actions' # {})
           /\ \A b, c \in actions' : b = c
  BY DEF TabInv, TabTypeOK

\* An answer is shown only while the guards are those of its request: then it
\* is of the present login.
LEMMA ResultArrivesKeepsInv ==
    ASSUME TabAssumption, TabInv, NEW a \in actions, ResultArrives(a)
    PROVE  TabInv'
  <1> USE DEF TabInv
  <1>1. PICK i \in Positions(a.key) :
           /\ serverTurns[i].state = "completed"
           /\ IF IsActiveRequest(a.closure.learner, a.version)
              THEN LET answer == Shown(serverTurns[i], a.login) IN
                   /\ pending' = FALSE
                   /\ applied' = <<answer>>
                   /\ transcript' = IF a.closure.event = "open_session" THEN <<answer>>
                                    ELSE Append(transcript, answer)
              ELSE UNCHANGED <<pending, applied, transcript>>
    BY DEF ResultArrives
  <1>2. PICK answer : answer = Shown(serverTurns[i], a.login)
    OBVIOUS
  <1>3. i \in DOMAIN serverTurns /\ serverTurns[i].key = a.key
    BY DEF Positions
  <1>4. answer \in Answer /\ answer.key = a.key /\ answer.login = a.login
    <2>1. PICK T : T = ServerTurn
      OBVIOUS
    <2>2. serverTurns[i] \in T
      BY <1>3, <2>1 DEF TabTypeOK
    <2>3. a.login \in Nat
      BY ActionFields DEF TabTypeOK
    <2>4. QED
      BY <1>2, <1>3, <2>1, <2>2, <2>3, ShownFields
  <1>5. \/ /\ IsActiveRequest(a.closure.learner, a.version)
           /\ pending' = FALSE /\ applied' = <<answer>>
           /\ \/ transcript' = <<answer>>
              \/ transcript' = Append(transcript, answer)
        \/ UNCHANGED <<pending, applied, transcript>>
    BY <1>1, <1>2
  <1>6. /\ transcript \in Seq(Answer) /\ Append(transcript, answer) \in Seq(Answer)
        /\ Append(transcript, answer) # <<>> /\ Last(Append(transcript, answer)) = answer
        /\ ToSet(Append(transcript, answer)) = ToSet(transcript) \cup {answer}
        /\ <<answer>> \in Seq(Answer) /\ <<answer>> # <<>> /\ Len(<<answer>>) = 1
        /\ Last(<<answer>>) = answer /\ ToSet(<<answer>>) = {answer}
    <2>1. transcript \in Seq(Answer)
      BY DEF TabTypeOK
    <2>2. QED
      BY <1>4, <2>1, AddedAnswer
  <1>7. TabTypeOK'
    <2>1. transcript' \in Seq(Answer) /\ applied' \in Seq(Answer) /\ Len(applied') <= 1
      <3>1. CASE transcript' = transcript /\ applied' = applied
        BY <3>1 DEF TabTypeOK
      <3>2. CASE /\ applied' = <<answer>>
                 /\ transcript' = <<answer>> \/ transcript' = Append(transcript, answer)
        <4>1. PICK one : one = <<answer>>
          OBVIOUS
        <4>2. one \in Seq(Answer) /\ Len(one) <= 1
          BY <1>6, <4>1
        <4>3. applied' = one /\ (transcript' = one \/ transcript' = Append(transcript, answer))
          BY <3>2, <4>1
        <4>4. QED
          BY <1>6, <4>2, <4>3
      <3>3. QED
        BY <1>5, <3>1, <3>2
    <2>2. {loading, pending, canRetry, historyLoaded}' \subseteq BOOLEAN
      BY <1>5 DEF TabTypeOK, ResultArrives
    <2>3. /\ actions' \subseteq Action /\ (loading' <=> actions' # {})
          /\ \A b, c \in actions' : b = c
      BY AnsweredKeepsInv DEF ResultArrives
    <2>4. QED
      BY <2>1, <2>2, <2>3 DEF TabTypeOK, ResultArrives
  <1>8. GuardFollows' /\ RetryIsAsked' /\ LoadsFollow'
    BY DEF ResultArrives, GuardFollows, RetryIsAsked, LoadsFollow
  <1>9. ActionsKnow'
    <2>1. actions' \subseteq actions
      BY DEF ResultArrives
    <2>2. QED
      BY <2>1 DEF ResultArrives, ActionsKnow
  <1>10. ShownIsOfThisLogin' /\ ProgressIsLastShown'
    <2>1. SUFFICES ASSUME "learner" \notin changed
                   PROVE  ShownIsOfThisLogin' /\ ProgressIsLastShown'
      BY DEF ResultArrives, ShownIsOfThisLogin, ProgressIsLastShown
    <2>2. /\ \A shown \in ToSet(transcript) \cup ToSet(applied) :
                shown.key.learner = auth.learner /\ shown.login = auth.login
          /\ auth' = auth
      BY <2>1 DEF ResultArrives, SessionShowsItsLearner, ShownIsOfThisLogin
    <2>3. CASE UNCHANGED <<pending, applied, transcript>>
      BY <2>3
      DEF ResultArrives, SessionShowsItsLearner, ShownIsOfThisLogin, ProgressIsLastShown
    <2>4. CASE /\ IsActiveRequest(a.closure.learner, a.version)
               /\ applied' = <<answer>>
               /\ \/ transcript' = <<answer>>
                  \/ transcript' = Append(transcript, answer)
      <3>1. a.login = auth.login /\ a.key.learner = auth.learner
        BY <2>1, <2>4 DEF IsActiveRequest, ActionsKnow
      <3>2. transcript' # <<>> /\ Last(transcript') = answer /\ applied' = <<answer>>
        BY <1>6, <2>4
      <3>3. ToSet(transcript') \cup ToSet(applied') \subseteq ToSet(transcript) \cup {answer}
        BY <1>6, <2>4
      <3>4. \A shown \in ToSet(transcript') \cup ToSet(applied') :
               shown.key.learner = auth'.learner /\ shown.login = auth'.login
        BY <1>4, <2>2, <3>1, <3>3
      <3>5. QED
        BY <3>2, <3>4 DEF ShownIsOfThisLogin, ProgressIsLastShown
    <2>5. QED
      BY <1>5, <2>3, <2>4
  <1>11. RetryKeepsItsKey'
    BY DEF ResultArrives, SessionShowsItsLearner, RetryKeepsItsKey
  <1>12. QED
    BY <1>7, <1>8, <1>9, <1>10, <1>11 DEF SessionShowsItsLearner

\* An error keeps a request for another try, one that was asked for.
LEMMA ErrorArrivesKeepsInv ==
    ASSUME TabAssumption, TabInv, NEW a \in actions, NEW timeout \in BOOLEAN,
           ErrorArrives(a, timeout)
    PROVE  TabInv'
  <1> USE DEF TabInv
  <1>1. a.closure \in asked /\ asked \subseteq Keys /\ NoClosure \notin Keys
    BY DEF TabAssumption, TabTypeOK, ActionsKnow
  <1>2. /\ retryAction' = IF timeout THEN a.closure ELSE NoClosure
        /\ canRetry' = timeout /\ loading' = FALSE /\ pending' = FALSE
    BY DEF ErrorArrives
  <1>3. TabTypeOK'
    <2>1. retryAction' \in Keys \cup {NoClosure} /\ (canRetry' => retryAction' # NoClosure)
      BY <1>1, <1>2
    <2>2. {loading, pending, canRetry, historyLoaded}' \subseteq BOOLEAN
      BY <1>2 DEF TabTypeOK, ErrorArrives
    <2>3. /\ actions' \subseteq Action /\ (loading' <=> actions' # {})
          /\ \A b, c \in actions' : b = c
      BY AnsweredKeepsInv DEF ErrorArrives
    <2>4. QED
      BY <2>1, <2>2, <2>3 DEF TabTypeOK, ErrorArrives
  <1>4. GuardFollows' /\ RetryIsAsked' /\ LoadsFollow'
    BY <1>1, <1>2 DEF ErrorArrives, GuardFollows, RetryIsAsked, LoadsFollow
  <1>5. ActionsKnow'
    <2>1. actions' \subseteq actions
      BY DEF ErrorArrives
    <2>2. QED
      BY <2>1 DEF ErrorArrives, ActionsKnow
  <1>6. SessionShowsItsLearner'
    BY DEF ErrorArrives, SessionShowsItsLearner, ShownIsOfThisLogin, ProgressIsLastShown,
           RetryKeepsItsKey
  <1>7. QED
    BY <1>3, <1>4, <1>5, <1>6

\* The history is read for the learner the load is for.
LEMMA HistoryIsReadKeepsInv ==
    ASSUME TabAssumption, TabInv, NEW l \in loads, HistoryIsRead(l)
    PROVE  TabInv'
  <1> DEFINE running == \E t \in ToSet(serverTurns) :
                            t.key.learner = l.learner /\ t.state = "running"
  <1> USE DEF TabInv
  <1>1. PICK m : m = [l EXCEPT !.read = TRUE, !.history = Restored(l.learner, l.login),
                               !.pending = running]
    OBVIOUS
  <1>2. loads' = (loads \ {l}) \cup {m}
    BY <1>1 DEF HistoryIsRead
  <1>3. l \in Load /\ l.learner \in Learners /\ l.login \in Nat
    BY LoadFields DEF TabTypeOK
  <1>4. /\ Restored(l.learner, l.login) \in Seq(Answer)
        /\ \A i \in DOMAIN Restored(l.learner, l.login) :
              /\ Restored(l.learner, l.login)[i].key.learner = l.learner
              /\ Restored(l.learner, l.login)[i].login = l.login
    BY <1>3, RestoredIsOfLearner
  <1>5. running \in BOOLEAN
    OBVIOUS
  <1>6. /\ m \in Load /\ m.learner = l.learner /\ m.login = l.login
        /\ m.history = Restored(l.learner, l.login)
    <2> HIDE DEF running
    <2>1. QED
      BY <1>1, <1>3, <1>4, <1>5 DEF Load
  <1>7. TabTypeOK'
    <2>1. loads' \subseteq Load
      BY <1>2, <1>6 DEF TabTypeOK
    <2>2. QED
      BY <2>1 DEF TabTypeOK, HistoryIsRead, hookVars
  <1>8. GuardFollows' /\ ActionsKnow' /\ RetryIsAsked'
    BY DEF HistoryIsRead, hookVars, GuardFollows, ActionsKnow, RetryIsAsked
  <1>9. LoadsFollow'
    <2>1. \A k \in loads' \ {m} : k \in loads
      BY <1>2
    <2>2. \A i \in DOMAIN m.history :
             m.history[i].key.learner = m.learner /\ m.history[i].login = m.login
      BY <1>4, <1>6
    <2>3. "learner" \notin changed' => m.learner = auth'.learner /\ m.login = auth'.login
      BY <1>6 DEF HistoryIsRead, LoadsFollow
    <2>4. QED
      BY <2>1, <2>2, <2>3, ZenonT(30) DEF HistoryIsRead, LoadsFollow
  <1>10. SessionShowsItsLearner'
    BY DEF HistoryIsRead, hookVars, SessionShowsItsLearner, ShownIsOfThisLogin,
           ProgressIsLastShown, RetryKeepsItsKey
  <1>11. QED
    BY <1>7, <1>8, <1>9, <1>10

\* A history that arrives is of the present login, or the effects that cancel
\* its load are about to run.
LEMMA HistoryArrivesKeepsInv ==
    ASSUME TabAssumption, TabInv, NEW l \in loads, HistoryArrives(l)
    PROVE  TabInv'
  <1> USE DEF TabInv
  <1>1. PICK history : history = l.history
    OBVIOUS
  <1>2. history \in Seq(Answer) /\ l.pending \in BOOLEAN
    BY <1>1, LoadFields DEF TabTypeOK
  <1>3. PICK last : last = Last(history)
    OBVIOUS
  <1>4. \/ /\ history # <<>>
           /\ transcript' = history /\ applied' = <<last>>
           /\ historyLoaded' = TRUE /\ pending' = (pending \/ l.pending)
        \/ UNCHANGED <<transcript, applied, historyLoaded, pending>>
    BY <1>1, <1>3 DEF HistoryArrives
  <1>5. history # <<>> =>
           /\ last \in Answer /\ last \in ToSet(history)
           /\ <<last>> \in Seq(Answer) /\ Len(<<last>>) = 1 /\ ToSet(<<last>>) = {last}
    BY <1>2, <1>3, LastAnswer, AddedAnswer
  <1>6. TabTypeOK'
    <2>1. transcript' \in Seq(Answer) /\ applied' \in Seq(Answer) /\ Len(applied') <= 1
      <3>1. CASE transcript' = transcript /\ applied' = applied
        BY <3>1 DEF TabTypeOK
      <3>2. CASE history # <<>> /\ transcript' = history /\ applied' = <<last>>
        <4>1. PICK one : one = <<last>>
          OBVIOUS
        <4>2. one \in Seq(Answer) /\ Len(one) <= 1
          BY <1>5, <3>2, <4>1
        <4>3. applied' = one /\ transcript' = history
          BY <3>2, <4>1
        <4>4. QED
          BY <1>2, <4>2, <4>3
      <3>3. QED
        BY <1>4, <3>1, <3>2
    <2>2. {loading, pending, canRetry, historyLoaded}' \subseteq BOOLEAN
      BY <1>2, <1>4 DEF TabTypeOK, HistoryArrives
    <2>3. QED
      BY <2>1, <2>2 DEF TabTypeOK, HistoryArrives
  <1>7. GuardFollows' /\ ActionsKnow' /\ RetryIsAsked' /\ LoadsFollow'
    BY DEF HistoryArrives, GuardFollows, ActionsKnow, RetryIsAsked, LoadsFollow
  <1>8. ShownIsOfThisLogin' /\ ProgressIsLastShown'
    <2>1. CASE UNCHANGED <<transcript, applied, historyLoaded, pending>>
      BY <2>1
      DEF HistoryArrives, SessionShowsItsLearner, ShownIsOfThisLogin, ProgressIsLastShown
    <2>2. CASE history # <<>> /\ transcript' = history /\ applied' = <<last>>
      <3>1. ToSet(transcript') \cup ToSet(applied') \subseteq ToSet(history)
        BY <1>5, <2>2
      <3>2. "learner" \notin changed =>
               \A answer \in ToSet(history) :
                   answer.key.learner = auth.learner /\ answer.login = auth.login
        BY <1>1 DEF LoadsFollow, ToSet
      <3>3. auth' = auth /\ changed' = changed
        BY DEF HistoryArrives
      <3>4. ShownIsOfThisLogin'
        BY <3>1, <3>2, <3>3 DEF ShownIsOfThisLogin
      <3>5. QED
        BY <1>3, <2>2, <3>4 DEF ProgressIsLastShown
    <2>3. QED
      BY <1>4, <2>1, <2>2
  <1>9. RetryKeepsItsKey'
    BY DEF HistoryArrives, SessionShowsItsLearner, RetryKeepsItsKey
  <1>10. QED
    BY <1>6, <1>7, <1>8, <1>9 DEF SessionShowsItsLearner

\* A load that fails leaves the screen.
LEMMA HistoryFailsKeepsInv ==
    ASSUME TabAssumption, TabInv, NEW l \in loads, HistoryFails(l)
    PROVE  TabInv'
  <1> USE DEF TabInv, HistoryFails
  <1>1. TabTypeOK'
    BY DEF hookVars, TabTypeOK
  <1>2. GuardFollows' /\ ActionsKnow' /\ RetryIsAsked' /\ LoadsFollow'
    BY DEF hookVars, GuardFollows, ActionsKnow, RetryIsAsked, LoadsFollow
  <1>3. SessionShowsItsLearner'
    BY DEF hookVars, SessionShowsItsLearner, ShownIsOfThisLogin, ProgressIsLastShown,
           RetryKeepsItsKey
  <1>4. QED
    BY <1>1, <1>2, <1>3

-----------------------------------------------------------------------------
(* The theorems.                                                           *)

\* Every step of the tab and of the server keeps the invariant.
LEMMA NextTabKeepsInv ==
    ASSUME TabAssumption, TabInv, [NextTab]_tabVars
    PROVE  TabInv'
  <1>1. CASE UNCHANGED tabVars
    <2>1. TabTypeOK'
      BY <1>1 DEF tabVars, TabInv, TabTypeOK
    <2>2. GuardFollows' /\ ActionsKnow' /\ RetryIsAsked' /\ LoadsFollow'
      BY <1>1 DEF tabVars, TabInv, GuardFollows, ActionsKnow, RetryIsAsked, LoadsFollow
    <2>3. SessionShowsItsLearner'
      BY <1>1
      DEF tabVars, TabInv, SessionShowsItsLearner, ShownIsOfThisLogin, ProgressIsLastShown,
          RetryKeepsItsKey
    <2>4. QED
      BY <2>1, <2>2, <2>3 DEF TabInv
  <1>2. CASE \E learner \in Learners \cup {NoLearner} : LearnerChanges(learner)
    BY <1>2, LearnerChangesKeepsInv
  <1>3. CASE ReadinessChanges
    BY <1>3, ReadinessChangesKeepsInv
  <1>4. CASE Effects
    BY <1>4, EffectsKeepsInv
  <1>5. CASE StartSession \/ RetryLast \/ \E message \in Messages : Send(message)
    BY <1>5, ClicksKeepInv
  <1>6. CASE \E i \in DOMAIN serverTurns :
                \/ TurnEnds(i, "failed", NoSection)
                \/ \E stage \in StageSections : TurnEnds(i, "completed", stage)
    BY <1>6, TurnEndsKeepsInv
  <1>7. CASE \E a \in actions :
                ResultArrives(a) \/ \E timeout \in BOOLEAN : ErrorArrives(a, timeout)
    BY <1>7, ResultArrivesKeepsInv, ErrorArrivesKeepsInv
  <1>8. CASE \E l \in loads : HistoryIsRead(l) \/ HistoryArrives(l) \/ HistoryFails(l)
    BY <1>8, HistoryIsReadKeepsInv, HistoryArrivesKeepsInv, HistoryFailsKeepsInv
  <1>9. QED
    BY <1>1, <1>2, <1>3, <1>4, <1>5, <1>6, <1>7, <1>8 DEF NextTab

\* TabInv is inductive: guards, requests under way, the kept request and loads
\* belong together as the hook's references and versions intend
\* (useTutorSession.ts, requestGuards.ts).
THEOREM TabInvariance ==
    ASSUME TabAssumption
    PROVE  SpecTab => []TabInv
  <1>1. InitTab => TabInv
    BY InitTabInv
  <1>2. TabInv /\ [NextTab]_tabVars => TabInv'
    BY NextTabKeepsInv
  <1>3. QED
    BY <1>1, <1>2, PTL DEF SpecTab

\* What the tab and the server hold has its type, and one request at a time
\* keeps the tab loading (runAction).
THEOREM TabTypes ==
    ASSUME TabAssumption
    PROVE  SpecTab => []TabTypeOK
  <1>1. TabInv => TabTypeOK
    BY DEF TabInv
  <1>2. QED
    BY <1>1, TabInvariance, PTL

\* Late answers and histories never show a learner what is not of his login;
\* the next message is sent from the section shown last; and trying again makes
\* no turn nobody asked for, with any number of logins, clicks and outages
\* (isActiveRequest, invalidateRequests, retryActionRef).
THEOREM TabShowsItsLearner ==
    ASSUME TabAssumption
    PROVE  SpecTab => []SessionShowsItsLearner
  <1>1. TabInv => SessionShowsItsLearner
    BY DEF TabInv
  <1>2. QED
    BY <1>1, TabInvariance, PTL

-----------------------------------------------------------------------------
(* The lesson of a section.                                                *)

\* The first version is indexed, nothing is cached and no turn has begun.
LEMMA InitLessonInv ==
    ASSUME SourcesAssumption, InitLesson
    PROVE  LessonInv
  <1>1. 1 \in Versions
    BY DEF SourcesAssumption, Versions
  <1>2. [pc |-> "idle", signal |-> NoLesson, brief |-> NoLesson,
         version |-> 0, lesson |-> NoLesson] \in LessonState
    BY DEF LessonState
  <1>3. LessonTypeOK
    BY <1>1, <1>2 DEF InitLesson, LessonTypeOK
  <1>4. CacheHolds /\ TurnsHold
    BY DEF InitLesson, CacheHolds, TurnsHold
  <1>5. QED
    BY <1>3, <1>4 DEF LessonInv

\* A turn that moves on by itself leaves the invariant, when it holds for what
\* the turn knows then.
LEMMA MoveKeepsInv ==
    ASSUME LessonInv, NEW t \in LessonTurns, NEW pc, NEW r \in LessonState,
           Move(t, pc, r), UNCHANGED indexed,
           cache' \in [Signals -> Lesson \cup {NoLesson}],
           \A s \in Signals : cache'[s] # NoLesson => IsOf(cache'[s], s, cache'[s].source),
           r.pc \in {"look_up", "generate", "store", "served"} =>
              r.signal \in Signals /\ r.brief \in Briefs /\ r.version \in Versions,
           r.pc \in {"store", "served"} => IsOf(r.lesson, r.signal, r.version)
    PROVE  LessonInv'
  <1>1. lessons' = [lessons EXCEPT ![t] = r] /\ lessons \in [LessonTurns -> LessonState]
    BY DEF Move, LessonInv, LessonTypeOK
  <1>2. LessonTypeOK'
    BY <1>1 DEF LessonInv, LessonTypeOK
  <1>3. CacheHolds'
    BY DEF CacheHolds
  <1>4. TurnsHold'
    <2>1. \A u \in LessonTurns : lessons'[u] = IF u = t THEN r ELSE lessons[u]
      BY <1>1
    <2>2. QED
      BY <2>1 DEF LessonInv, TurnsHold
  <1>5. QED
    BY <1>2, <1>3, <1>4 DEF LessonInv

\* A step of the indexer or of a turn.
LEMMA NextLessonKeepsInv ==
    ASSUME SourcesAssumption, LessonInv, [NextLesson]_lessonVars
    PROVE  LessonInv'
  <1>1. CASE UNCHANGED lessonVars
    BY <1>1 DEF lessonVars, LessonInv, LessonTypeOK, CacheHolds, TurnsHold
  <1>2. CASE ReplaceSection
    BY <1>2 DEF ReplaceSection, LessonInv, LessonTypeOK, CacheHolds, TurnsHold
  <1>3. SUFFICES ASSUME NEW t \in LessonTurns,
                        \/ \E signal \in Signals, brief \in Briefs : ResolveSource(t, signal, brief)
                        \/ GoWithout(t) \/ CacheHit(t) \/ CacheMiss(t) \/ Upsert(t)
                        \/ \E markdown \in Markdowns(lessons[t].version) : Generate(t, markdown)
                 PROVE  LessonInv'
    BY <1>1, <1>2 DEF NextLesson
  <1>4. /\ lessons[t] \in LessonState /\ indexed \in Versions
        /\ cache \in [Signals -> Lesson \cup {NoLesson}]
        /\ \A s \in Signals : cache[s] # NoLesson => IsOf(cache[s], s, cache[s].source)
        /\ NoLesson \notin Lesson
    BY DEF SourcesAssumption, LessonInv, LessonTypeOK, CacheHolds
  <1>5. PICK u : u = lessons[t]
    OBVIOUS
  <1>6. /\ u \in LessonState
        /\ u.pc \in {"look_up", "generate", "store", "served"} =>
              u.signal \in Signals /\ u.brief \in Briefs /\ u.version \in Versions
        /\ u.pc \in {"store", "served"} => IsOf(u.lesson, u.signal, u.version)
    BY <1>4, <1>5 DEF LessonInv, TurnsHold
  <1>7. CASE \E signal \in Signals, brief \in Briefs : ResolveSource(t, signal, brief)
    <2>1. PICK signal \in Signals, brief \in Briefs : ResolveSource(t, signal, brief)
      BY <1>7
    <2> DEFINE r == [pc |-> "look_up", signal |-> signal, brief |-> brief,
                     version |-> indexed, lesson |-> NoLesson]
    <2>2. r \in LessonState
      BY <1>4 DEF LessonState
    <2>3. Move(t, "idle", r) /\ UNCHANGED <<indexed, cache>>
      BY <2>1 DEF ResolveSource
    <2>4. r.signal \in Signals /\ r.brief \in Briefs /\ r.version \in Versions /\ r.pc = "look_up"
      BY <1>4
    <2>5. QED
      BY <1>4, <2>2, <2>3, <2>4, MoveKeepsInv
  <1>8. CASE GoWithout(t)
    <2> DEFINE r == [u EXCEPT !.pc = "without"]
    <2>1. PICK pc : Move(t, pc, r)
      BY <1>5, <1>8 DEF GoWithout
    <2>2. r \in LessonState /\ r.pc = "without"
      BY <1>6 DEF LessonState
    <2>3. UNCHANGED <<indexed, cache>>
      BY <1>8 DEF GoWithout
    <2>4. QED
      BY <1>4, <2>1, <2>2, <2>3, MoveKeepsInv
  <1>9. CASE CacheHit(t)
    <2>1. PICK lesson : lesson = cache[u.signal]
      OBVIOUS
    <2> DEFINE r == [u EXCEPT !.pc = "served", !.lesson = lesson]
    <2>2. /\ Move(t, "look_up", r) /\ UNCHANGED <<indexed, cache>>
          /\ lesson # NoLesson /\ lesson.source = u.version /\ u.pc = "look_up"
      BY <1>5, <1>9, <2>1 DEF CacheHit, Found, IsValid, Move
    <2>3. u.signal \in Signals /\ u.brief \in Briefs /\ u.version \in Versions
      BY <1>6, <2>2
    <2>4. lesson \in Lesson /\ IsOf(lesson, u.signal, u.version)
      BY <1>4, <2>1, <2>2, <2>3
    <2>5. /\ r \in LessonState /\ r.pc = "served" /\ r.lesson = lesson
          /\ r.signal = u.signal /\ r.brief = u.brief /\ r.version = u.version
      BY <1>6, <2>4 DEF LessonState
    <2>6. QED
      BY <1>4, <2>2, <2>3, <2>4, <2>5, MoveKeepsInv
  <1>10. CASE CacheMiss(t)
    <2> DEFINE r == [u EXCEPT !.pc = "generate"]
    <2>1. Move(t, "look_up", r) /\ UNCHANGED <<indexed, cache>> /\ u.pc = "look_up"
      BY <1>5, <1>10 DEF CacheMiss, Move
    <2>2. /\ r \in LessonState /\ r.pc = "generate"
          /\ r.signal = u.signal /\ r.brief = u.brief /\ r.version = u.version
      BY <1>6 DEF LessonState
    <2>3. QED
      BY <1>4, <1>6, <2>1, <2>2, MoveKeepsInv
  <1>11. CASE \E markdown \in Markdowns(lessons[t].version) : Generate(t, markdown)
    <2>1. PICK markdown \in Markdowns(u.version) : Generate(t, markdown)
      BY <1>5, <1>11
    <2>2. PICK content : content = WithBlocks(u.version, markdown)
      OBVIOUS
    <2> DEFINE lesson == [source |-> u.version, signal |-> u.signal, brief |-> u.brief,
                          content |-> content]
               r == [u EXCEPT !.pc = "store", !.lesson = lesson]
    <2>3. Move(t, "generate", r) /\ UNCHANGED <<indexed, cache>> /\ u.pc = "generate"
      BY <1>5, <2>1, <2>2 DEF Generate, Move
    <2>4. u.signal \in Signals /\ u.brief \in Briefs /\ u.version \in Versions
      BY <1>6, <2>3
    <2>5. content \subseteq {Prose} \cup Placeholders(u.version)
      BY <2>2 DEF WithBlocks
    <2>6. {Prose} \cup Placeholders(u.version) \subseteq Nat
      <3>1. PICK B : B = Seq(Immutable \cup Rewritable)
        OBVIOUS
      <3>2. SectionSources[u.version] \in B
        BY <2>4, <3>1 DEF SourcesAssumption, Versions
      <3>3. \A i \in DOMAIN SectionSources[u.version] : i \in Nat
        BY <3>1, <3>2
      <3>4. QED
        BY <3>3 DEF Placeholders, Prose
    <2>7. lesson \in Lesson /\ IsOf(lesson, u.signal, u.version)
      BY <2>4, <2>5, <2>6 DEF Lesson, IsOf
    <2>8. /\ r \in LessonState /\ r.pc = "store" /\ r.lesson = lesson
          /\ r.signal = u.signal /\ r.brief = u.brief /\ r.version = u.version
      <3> HIDE DEF lesson
      <3>1. QED
        BY <1>6, <2>7 DEF LessonState
    <2>9. QED
      <3> HIDE DEF lesson
      <3>1. QED
        BY <1>4, <2>3, <2>4, <2>7, <2>8, MoveKeepsInv
  <1>12. CASE Upsert(t)
    <2> DEFINE r == [u EXCEPT !.pc = "served"]
    <2>1. /\ Move(t, "store", r) /\ u.pc = "store" /\ UNCHANGED indexed
          /\ cache' = [cache EXCEPT ![u.signal] = u.lesson]
      BY <1>5, <1>12 DEF Upsert, Move
    <2>2. u.signal \in Signals /\ IsOf(u.lesson, u.signal, u.version)
      BY <1>6, <2>1
    <2>3. u.lesson \in Lesson /\ u.lesson.source = u.version
      BY <2>2 DEF IsOf
    <2>4. /\ r \in LessonState /\ r.pc = "served" /\ r.lesson = u.lesson
          /\ r.signal = u.signal /\ r.brief = u.brief /\ r.version = u.version
      BY <1>6 DEF LessonState
    <2>5. \A s \in Signals : cache'[s] = IF s = u.signal THEN u.lesson ELSE cache[s]
      BY <1>4, <2>1
    <2>6. cache' \in [Signals -> Lesson \cup {NoLesson}]
      BY <1>4, <2>1, <2>3
    <2>7. \A s \in Signals : cache'[s] # NoLesson => IsOf(cache'[s], s, cache'[s].source)
      BY <1>4, <2>2, <2>3, <2>5
    <2>8. QED
      BY <1>6, <2>1, <2>2, <2>4, <2>6, <2>7, MoveKeepsInv
  <1>13. QED
    BY <1>3, <1>7, <1>8, <1>9, <1>10, <1>11, <1>12

\* LessonInv is inductive: the row of a signal is a lesson of that signal, and a
\* turn stores or serves what belongs to the source it read
\* (get_or_generate_lesson_with_meta, upsert_lesson_cache).
THEOREM LessonInvariance ==
    ASSUME SourcesAssumption
    PROVE  SpecLesson => []LessonInv
  <1>1. InitLesson => LessonInv
    BY InitLessonInv
  <1>2. LessonInv /\ [NextLesson]_lessonVars => LessonInv'
    BY NextLessonKeepsInv
  <1>3. QED
    BY <1>1, <1>2, PTL DEF SpecLesson

\* A lesson that is served is of the source and the signal of its turn and shows
\* blocks of that source only, however many learners share the cache and
\* however often the section is replaced (_is_valid_cache).
THEOREM LessonsAreOfTheirSource ==
    ASSUME SourcesAssumption
    PROVE  SpecLesson => []ServedLessonIsOfItsSource
  <1>1. LessonInv => ServedLessonIsOfItsSource
    BY DEF LessonInv, TurnsHold, ServedLessonIsOfItsSource
  <1>2. QED
    BY <1>1, LessonInvariance, PTL

-----------------------------------------------------------------------------
(* The grounded answer.                                                    *)

\* What a question holds.
LEMMA AskFields ==
    \A r \in AskState : /\ r.attempts \in 0 .. MaxAttempts /\ r.session \in Nat
                        /\ r.chunks \in Seq(ScoredPoint) /\ r.top \in Nat /\ r.weak \in BOOLEAN
  BY DEF AskState

\* The diverse selection is of the search, without repetition, and begins with
\* the best result.
LEMMA SelectionIsOfSearch ==
    ASSUME RetrievalSettings, NEW found \in Searches, NEW chunks \in SelectWithMmr(found)
    PROVE  /\ chunks \in Seq(ScoredPoint) /\ Distinct(chunks)
           /\ TopScore(chunks) = TopScore(found)
           /\ TopScore(found) \in Nat
  <1>1. PICK P : P = ScoredPoint
    OBVIOUS
  <1>2. /\ found \in Seq(P) /\ Distinct(found) /\ FinalK \in Nat \ {0}
        /\ \A j, k \in DOMAIN found : j <= k => found[k].score <= found[j].score
    BY <1>1 DEF RetrievalSettings, IsSearch
  <1>3. \A i \in DOMAIN found : found[i] \in P /\ found[i].score \in Nat
    <2>1. \A i \in DOMAIN found : found[i] \in P
      BY <1>2
    <2>2. \A p \in P : p.score \in Nat
      BY <1>1 DEF ScoredPoint
    <2>3. QED
      BY <2>1, <2>2
  <1>4. TopScore(found) \in Nat
    <2>1. found # <<>> => 1 \in DOMAIN found
      BY <1>2
    <2>2. QED
      BY <1>3, <2>1 DEF TopScore
  <1>5. CASE Len(found) <= FinalK
    <2>1. chunks = found
      BY <1>5 DEF SelectWithMmr
    <2>2. QED
      BY <1>1, <1>2, <1>4, <2>1
  <1>6. CASE ~(Len(found) <= FinalK)
    <2>1. PICK picks \in MmrPicks(found) : chunks = [k \in 1 .. FinalK |-> found[picks[k]]]
      BY <1>6 DEF SelectWithMmr
    <2>2. /\ picks \in [1 .. FinalK -> DOMAIN found]
          /\ \A k \in 1 .. FinalK : IsBest(found, {picks[j] : j \in 1 .. k - 1}, picks[k])
      BY <2>1 DEF MmrPicks
    <2>3. DOMAIN chunks = 1 .. FinalK /\ \A k \in 1 .. FinalK : chunks[k] = found[picks[k]]
      BY <2>1
    <2>4. chunks \in Seq(P)
      <3>1. \A k \in 1 .. FinalK : found[picks[k]] \in P
        BY <1>3, <2>2
      <3>2. QED
        BY <1>2, <2>1, <3>1
    <2>5. \A j, k \in 1 .. FinalK : j < k => picks[j] # picks[k]
      <3>1. TAKE j, k \in 1 .. FinalK
      <3>2. HAVE j < k
      <3>3. j \in 1 .. k - 1
        BY <1>2, <3>2
      <3>4. picks[k] \notin {picks[i] : i \in 1 .. k - 1}
        BY <2>2 DEF IsBest
      <3>5. QED
        BY <3>3, <3>4
    <2>6. Distinct(chunks)
      <3>1. SUFFICES ASSUME NEW j \in 1 .. FinalK, NEW k \in 1 .. FinalK,
                            chunks[j].id = chunks[k].id
                     PROVE  j = k
        BY <2>3 DEF Distinct
      <3>2. picks[j] = picks[k]
        BY <1>2, <2>2, <2>3, <3>1 DEF Distinct
      <3>3. ~(j < k) /\ ~(k < j)
        BY <2>5, <3>2
      <3>4. QED
        BY <1>2, <3>3
    <2>7. 1 \in 1 .. FinalK /\ 1 \in DOMAIN found /\ picks[1] \in DOMAIN found
      <3>1. 1 \in 1 .. FinalK
        BY <1>2
      <3>2. Len(found) \in Nat /\ DOMAIN found = 1 .. Len(found)
        BY <1>2
      <3>3. QED
        BY <1>2, <1>6, <2>2, <3>1, <3>2
    <2>8. found[picks[1]].score = found[1].score
      <3>1. {picks[j] : j \in 1 .. 1 - 1} = {}
        OBVIOUS
      <3>2. IsBest(found, {}, picks[1])
        BY <2>2, <2>7, <3>1
      <3>3. \A i \in DOMAIN found : MmrScore(found, {}, i) = found[i].score
        BY <1>3 DEF MmrScore
      <3>4. \/ found[picks[1]].score > found[1].score
            \/ found[picks[1]].score = found[1].score
        BY <2>7, <3>2, <3>3 DEF IsBest
      <3>5. 1 <= picks[1]
        BY <1>2, <2>7
      <3>6. found[picks[1]].score <= found[1].score
        BY <1>2, <2>7, <3>5
      <3>7. QED
        BY <1>3, <2>7, <3>4, <3>6
    <2>9. found # <<>> /\ chunks # <<>>
      <3>1. 1 \in DOMAIN found /\ 1 \in DOMAIN chunks
        BY <2>3, <2>7
      <3>2. 1 \notin DOMAIN <<>>
        OBVIOUS
      <3>3. QED
        BY <3>1, <3>2
    <2>10. TopScore(chunks) = TopScore(found)
      BY <2>3, <2>7, <2>8, <2>9 DEF TopScore
    <2>11. QED
      BY <1>1, <1>4, <2>4, <2>6, <2>10
  <1>7. QED
    BY <1>5, <1>6

\* Whatever labels the model gives, what is cited is one of the sources.
LEMMA CitationsAreSources ==
    ASSUME NEW chunks \in Seq(ScoredPoint), chunks # <<>>, NEW labels
    PROVE  /\ Citations(chunks, labels) \subseteq Ids(chunks)
           /\ Citations(chunks, labels) # {}
           /\ Ids(chunks) \subseteq ChunkIds
  <1> DEFINE map == SourceMap(chunks)
             valid == labels \cap (1 .. Cardinality(map))
  <1>1. PICK P : P = ScoredPoint
    OBVIOUS
  <1>2. chunks \in Seq(P)
    BY <1>1
  <1>3. Len(chunks) \in Nat /\ DOMAIN chunks = 1 .. Len(chunks) /\ 1 \in DOMAIN chunks
    BY <1>2
  <1>4. Ids(chunks) \subseteq ChunkIds
    <2>1. \A k \in DOMAIN chunks : chunks[k] \in P
      BY <1>2
    <2>2. \A p \in P : p.id \in ChunkIds
      BY <1>1 DEF ScoredPoint
    <2>3. QED
      BY <2>1, <2>2 DEF Ids
  <1>5. CASE valid = {}
    <2>1. Citations(chunks, labels) = {chunks[1].id}
      BY <1>5 DEF Citations
    <2>2. QED
      BY <1>3, <1>4, <2>1 DEF Ids
  <1>6. CASE valid # {}
    <2>1. Citations(chunks, labels) = {chunks[Nth(map, l)].id : l \in valid}
      BY <1>6 DEF Citations
    <2>2. map \subseteq 1 .. Len(chunks)
      BY <1>3 DEF SourceMap
    <2>3. \A l \in valid : Nth(map, l) \in map
      BY <1>3, <2>2, NthIsOne
    <2>4. \A l \in valid : Nth(map, l) \in DOMAIN chunks
      BY <1>3, <2>2, <2>3
    <2>5. QED
      BY <1>4, <1>6, <2>1, <2>4 DEF Ids
  <1>7. QED
    BY <1>5, <1>6

\* No question has been asked.
LEMMA InitAnswerInv ==
    ASSUME RetrievalSettings, InitAnswer
    PROVE  AnswerInv
  <1>1. [pc |-> "idle", attempts |-> 0, session |-> 0,
         chunks |-> <<>>, top |-> 0, weak |-> FALSE] \in AskState
    BY DEF RetrievalSettings, AskState
  <1>2. AnswerTypeOK
    BY <1>1 DEF InitAnswer, AnswerTypeOK
  <1>3. EvidenceHolds /\ GroundedInSources
    BY DEF InitAnswer, EvidenceHolds, GroundedInSources
  <1>4. QED
    BY <1>2, <1>3 DEF AnswerInv

\* A question that moves on leaves the invariant, when its session is of the
\* table and its evidence belongs together.
LEMMA GoKeepsInv ==
    ASSUME AnswerInv, NEW q \in Questions, NEW r \in AskState,
           ask' = [ask EXCEPT ![q] = r], UNCHANGED interactions,
           chatSessions' \in Nat, chatSessions <= chatSessions',
           r.pc \in {"retrieve", "rewrite", "generate", "answered"} =>
              r.session \in 1 .. chatSessions',
           r.pc \in {"rewrite", "generate", "answered"} =>
              /\ Distinct(r.chunks) /\ r.top = TopScore(r.chunks)
              /\ r.weak = WeakEvidence(q, r.chunks, r.top)
    PROVE  AnswerInv'
  <1>1. /\ ask \in [Questions -> AskState] /\ chatSessions \in Nat
        /\ 1 .. chatSessions \subseteq 1 .. chatSessions'
    BY DEF AnswerInv, AnswerTypeOK
  <1>2. AnswerTypeOK'
    BY <1>1 DEF AnswerInv, AnswerTypeOK
  <1>3. EvidenceHolds'
    <2>1. \A p \in Questions : ask'[p] = IF p = q THEN r ELSE ask[p]
      BY <1>1
    <2>2. QED
      BY <1>1, <2>1 DEF AnswerInv, EvidenceHolds
  <1>4. GroundedInSources'
    BY DEF AnswerInv, GroundedInSources
  <1>5. QED
    BY <1>2, <1>3, <1>4 DEF AnswerInv

\* A row is recorded with the evidence of its question.
LEMMA RecordKeepsInv ==
    ASSUME RetrievalSettings, AnswerInv, NEW q \in Questions, NEW citations,
           NEW answered \in BOOLEAN, Record(q, citations, answered),
           citations \subseteq Ids(ask[q].chunks) \cap ChunkIds,
           answered => ~ask[q].weak /\ citations # {}
    PROVE  AnswerInv'
  <1> DEFINE row == [question |-> q, session |-> ask[q].session, sources |-> ask[q].chunks,
                     citations |-> citations, answered |-> answered]
  <1>1. PICK u : u = ask[q]
    OBVIOUS
  <1>2. u \in AskState /\ ask \in [Questions -> AskState] /\ chatSessions \in Nat
    BY <1>1 DEF AnswerInv, AnswerTypeOK
  <1>3. PICK r : r = [u EXCEPT !.pc = "answered"]
    OBVIOUS
  <1>4. /\ u.pc = "generate" /\ ask' = [ask EXCEPT ![q] = r]
        /\ interactions' = Append(interactions, row) /\ chatSessions' = chatSessions
    BY <1>1, <1>3 DEF Record, Go
  <1>5. /\ u.session \in 1 .. chatSessions /\ Distinct(u.chunks) /\ u.top = TopScore(u.chunks)
        /\ u.weak = WeakEvidence(q, u.chunks, u.top)
    BY <1>1, <1>4 DEF AnswerInv, EvidenceHolds
  <1>6. /\ r \in AskState /\ r.pc = "answered" /\ r.session = u.session
        /\ r.chunks = u.chunks /\ r.top = u.top /\ r.weak = u.weak
    BY <1>2, <1>3 DEF AskState
  <1>7. /\ row \in Row /\ row.session = u.session /\ row.sources = u.chunks /\ row.question = q
        /\ row.citations = citations /\ row.answered = answered
    BY <1>1, <1>2, AskFields DEF Row
  <1>8. IsGrounded(row)
    <2> HIDE DEF row
    <2>1. answered => ~WeakEvidence(q, u.chunks, TopScore(u.chunks))
      BY <1>1, <1>5
    <2>2. citations \subseteq Ids(u.chunks) /\ (answered => citations # {})
      BY <1>1
    <2>3. QED
      BY <1>5, <1>7, <2>1, <2>2 DEF IsGrounded
  <1>9. /\ interactions' \in Seq(Row)
        /\ \A i \in DOMAIN interactions' :
              \/ i \in DOMAIN interactions /\ interactions'[i] = interactions[i]
              \/ interactions'[i] = row
    <2> HIDE DEF row
    <2>1. interactions \in Seq(Row) /\ row \in Row
      BY <1>7 DEF AnswerInv, AnswerTypeOK
    <2>2. QED
      BY <1>4, <2>1
  <1> HIDE DEF row
  <1>10. AnswerTypeOK'
    <2>1. \A i \in DOMAIN interactions' : interactions'[i].session \in 1 .. chatSessions'
      BY <1>4, <1>5, <1>7, <1>9 DEF AnswerInv, AnswerTypeOK
    <2>2. ask' \in [Questions -> AskState]
      BY <1>2, <1>4, <1>6
    <2>3. QED
      BY <1>2, <1>4, <1>9, <2>1, <2>2 DEF AnswerTypeOK
  <1>11. EvidenceHolds'
    <2>1. \A p \in Questions : ask'[p] = IF p = q THEN r ELSE ask[p]
      BY <1>2, <1>4
    <2>2. QED
      BY <1>4, <1>5, <1>6, <2>1 DEF AnswerInv, EvidenceHolds
  <1>12. GroundedInSources'
    BY <1>8, <1>9 DEF AnswerInv, GroundedInSources
  <1>13. QED
    BY <1>10, <1>11, <1>12 DEF AnswerInv

\* A step of a question.
LEMMA NextAnswerKeepsInv ==
    ASSUME RetrievalSettings, AnswerInv, [NextAnswer]_answerVars
    PROVE  AnswerInv'
  <1>1. CASE UNCHANGED answerVars
    BY <1>1 DEF answerVars, AnswerInv, AnswerTypeOK, EvidenceHolds, GroundedInSources
  <1>2. SUFFICES ASSUME NEW q \in Questions,
                        \/ StartQuestion(q) \/ FindSession(q) \/ InsertSession(q)
                        \/ Retrieve(q) \/ NoRewrite(q) \/ RetrieveRewritten(q)
                        \/ AnswerInsufficient(q) \/ AnswerGrounded(q)
                        \/ ask[q].pc \in {"retrieve", "generate"} /\ Fail(q)
                 PROVE  AnswerInv'
    BY <1>1 DEF NextAnswer
  <1>3. PICK u : u = ask[q]
    OBVIOUS
  <1>4. /\ u \in AskState /\ u.attempts \in Nat /\ chatSessions \in Nat
        /\ chatSessions <= chatSessions /\ MaxAttempts \in Nat
    BY <1>3, AskFields DEF AnswerInv, AnswerTypeOK, RetrievalSettings
  <1>5. /\ u.pc \in {"retrieve", "rewrite", "generate", "answered"} =>
              u.session \in 1 .. chatSessions
        /\ u.pc \in {"rewrite", "generate", "answered"} =>
              /\ Distinct(u.chunks) /\ u.top = TopScore(u.chunks)
              /\ u.weak = WeakEvidence(q, u.chunks, u.top)
    BY <1>3 DEF AnswerInv, EvidenceHolds
  <1>6. CASE StartQuestion(q)
    <2>1. PICK r : r = [[u EXCEPT !.pc = "session"] EXCEPT !.attempts = u.attempts + 1]
      OBVIOUS
    <2>2. u.attempts + 1 \in 0 .. MaxAttempts
      BY <1>3, <1>4, <1>6 DEF StartQuestion
    <2>3. r \in AskState /\ r.pc = "session"
      BY <1>4, <2>1, <2>2 DEF AskState
    <2>4. ask' = [ask EXCEPT ![q] = r] /\ UNCHANGED <<chatSessions, interactions>>
      BY <1>3, <1>6, <2>1 DEF StartQuestion, AnswerInv, AnswerTypeOK
    <2>5. QED
      BY <1>4, <2>3, <2>4, GoKeepsInv
  <1>7. CASE FindSession(q)
    <2>1. CASE chatSessions = 0
      <3>1. PICK r : r = [u EXCEPT !.pc = "insert"]
        OBVIOUS
      <3>2. r \in AskState /\ r.pc = "insert"
        BY <1>4, <3>1 DEF AskState
      <3>3. ask' = [ask EXCEPT ![q] = r] /\ UNCHANGED <<chatSessions, interactions>>
        BY <1>3, <1>7, <2>1, <3>1 DEF FindSession, To, Go
      <3>4. QED
        BY <1>4, <3>2, <3>3, GoKeepsInv
    <2>2. CASE chatSessions # 0
      <3>1. PICK r : r = [u EXCEPT !.pc = "retrieve", !.session = chatSessions]
        OBVIOUS
      <3>2. r \in AskState /\ r.pc = "retrieve" /\ r.session = chatSessions
        BY <1>4, <3>1 DEF AskState
      <3>3. ask' = [ask EXCEPT ![q] = r] /\ UNCHANGED <<chatSessions, interactions>>
        BY <1>3, <1>7, <2>2, <3>1 DEF FindSession, Go
      <3>4. r.session \in 1 .. chatSessions'
        BY <1>4, <2>2, <3>2, <3>3
      <3>5. QED
        BY <1>4, <3>2, <3>3, <3>4, GoKeepsInv
    <2>3. QED
      BY <2>1, <2>2
  <1>8. CASE InsertSession(q)
    <2>1. PICK r : r = [u EXCEPT !.pc = "retrieve", !.session = chatSessions + 1]
      OBVIOUS
    <2>2. r \in AskState /\ r.pc = "retrieve" /\ r.session = chatSessions + 1
      <3>1. chatSessions + 1 \in Nat
        BY <1>4
      <3>2. QED
        BY <1>4, <2>1, <3>1 DEF AskState
    <2>3. /\ ask' = [ask EXCEPT ![q] = r] /\ UNCHANGED interactions
          /\ chatSessions' = chatSessions + 1
      BY <1>3, <1>8, <2>1 DEF InsertSession, Go
    <2>4. chatSessions' \in Nat /\ chatSessions <= chatSessions' /\ r.session \in 1 .. chatSessions'
      BY <1>4, <2>2, <2>3
    <2>5. QED
      BY <2>2, <2>3, <2>4, GoKeepsInv
  <1>9. CASE Retrieve(q)
    <2>0. PICK found \in Searches : \E chunks \in SelectWithMmr(found) :
             LET weak == WeakEvidence(q, chunks, TopScore(found))
             IN  Go(q, "retrieve", [ask[q] EXCEPT !.pc = IF weak THEN "rewrite" ELSE "generate",
                                                  !.chunks = chunks, !.top = TopScore(found),
                                                  !.weak = weak])
      BY <1>9 DEF Retrieve
    <2>1. PICK chunks \in SelectWithMmr(found) :
             LET weak == WeakEvidence(q, chunks, TopScore(found))
             IN  Go(q, "retrieve", [ask[q] EXCEPT !.pc = IF weak THEN "rewrite" ELSE "generate",
                                                  !.chunks = chunks, !.top = TopScore(found),
                                                  !.weak = weak])
      BY <2>0
    <2>2. PICK weak : weak = WeakEvidence(q, chunks, TopScore(found))
      OBVIOUS
    <2>3. PICK pc \in {"rewrite", "generate"} : pc = IF weak THEN "rewrite" ELSE "generate"
      OBVIOUS
    <2>4. PICK r : r = [u EXCEPT !.pc = pc, !.chunks = chunks, !.top = TopScore(found),
                                 !.weak = weak]
      OBVIOUS
    <2>5. /\ u.pc = "retrieve" /\ ask' = [ask EXCEPT ![q] = r]
          /\ UNCHANGED <<chatSessions, interactions>>
      BY <1>3, <1>9, <2>1, <2>2, <2>3, <2>4 DEF Retrieve, Go
    <2>6. /\ r \in AskState /\ r.session = u.session
          /\ Distinct(r.chunks) /\ r.top = TopScore(r.chunks)
          /\ r.weak = WeakEvidence(q, r.chunks, r.top)
      <3>1. /\ chunks \in Seq(ScoredPoint) /\ Distinct(chunks)
            /\ TopScore(chunks) = TopScore(found) /\ TopScore(found) \in Nat
        BY SelectionIsOfSearch
      <3>2. weak \in BOOLEAN
        BY <2>2 DEF WeakEvidence
      <3>3. /\ r \in AskState /\ r.pc = pc /\ r.session = u.session
            /\ r.chunks = chunks /\ r.top = TopScore(found) /\ r.weak = weak
        BY <1>4, <2>4, <3>1, <3>2 DEF AskState
      <3>4. QED
        BY <2>2, <3>1, <3>3
    <2>7. QED
      BY <1>4, <1>5, <2>5, <2>6, GoKeepsInv
  <1>10. ASSUME To(q, "rewrite", "generate"), UNCHANGED <<chatSessions, interactions>>
         PROVE  AnswerInv'
    <2>1. PICK r : r = [u EXCEPT !.pc = "generate"]
      OBVIOUS
    <2>2. u.pc = "rewrite" /\ ask' = [ask EXCEPT ![q] = r]
      BY <1>3, <1>10, <2>1 DEF To, Go
    <2>3. /\ r \in AskState /\ r.session = u.session
          /\ r.chunks = u.chunks /\ r.top = u.top /\ r.weak = u.weak
      BY <1>4, <2>1 DEF AskState
    <2>4. QED
      BY <1>4, <1>5, <1>10, <2>2, <2>3, GoKeepsInv
  <1>11. CASE NoRewrite(q)
    BY <1>10, <1>11 DEF NoRewrite
  <1>12. CASE RetrieveRewritten(q)
    <2>0. PICK found \in Searches : \E chunks \in SelectWithMmr(found) :
             LET weak == WeakEvidence(q, chunks, TopScore(found))
             IN  IF ShouldAcceptRewrite(weak, TopScore(found), ask[q].top)
                 THEN Go(q, "rewrite", [ask[q] EXCEPT !.pc = "generate", !.chunks = chunks,
                                                      !.top = TopScore(found), !.weak = weak])
                 ELSE To(q, "rewrite", "generate")
      BY <1>12 DEF RetrieveRewritten
    <2>1. PICK chunks \in SelectWithMmr(found) :
             LET weak == WeakEvidence(q, chunks, TopScore(found))
             IN  IF ShouldAcceptRewrite(weak, TopScore(found), ask[q].top)
                 THEN Go(q, "rewrite", [ask[q] EXCEPT !.pc = "generate", !.chunks = chunks,
                                                      !.top = TopScore(found), !.weak = weak])
                 ELSE To(q, "rewrite", "generate")
      BY <2>0
    <2>2. PICK weak : weak = WeakEvidence(q, chunks, TopScore(found))
      OBVIOUS
    <2>3. PICK r : r = [u EXCEPT !.pc = "generate", !.chunks = chunks, !.top = TopScore(found),
                                 !.weak = weak]
      OBVIOUS
    <2>4. UNCHANGED <<chatSessions, interactions>>
      BY <1>12 DEF RetrieveRewritten
    <2>5. To(q, "rewrite", "generate") \/ Go(q, "rewrite", r)
      BY <1>3, <2>1, <2>2, <2>3
    <2>6. CASE Go(q, "rewrite", r)
      <3>1. u.pc = "rewrite" /\ ask' = [ask EXCEPT ![q] = r]
        BY <1>3, <2>6 DEF Go
      <3>2. /\ r \in AskState /\ r.session = u.session
            /\ Distinct(r.chunks) /\ r.top = TopScore(r.chunks)
            /\ r.weak = WeakEvidence(q, r.chunks, r.top)
        <4>1. /\ chunks \in Seq(ScoredPoint) /\ Distinct(chunks)
              /\ TopScore(chunks) = TopScore(found) /\ TopScore(found) \in Nat
          BY SelectionIsOfSearch
        <4>2. weak \in BOOLEAN
          BY <2>2 DEF WeakEvidence
        <4>3. /\ r \in AskState /\ r.pc = "generate" /\ r.session = u.session
              /\ r.chunks = chunks /\ r.top = TopScore(found) /\ r.weak = weak
          BY <1>4, <2>3, <4>1, <4>2 DEF AskState
        <4>4. QED
          BY <2>2, <4>1, <4>3
      <3>3. QED
        BY <1>4, <1>5, <2>4, <3>1, <3>2, GoKeepsInv
    <2>7. QED
      BY <1>10, <2>4, <2>5, <2>6
  <1>13. CASE AnswerInsufficient(q)
    <2>1. Record(q, {}, FALSE)
      BY <1>13 DEF AnswerInsufficient
    <2>2. QED
      BY <2>1, RecordKeepsInv
  <1>14. CASE AnswerGrounded(q)
    <2>1. PICK labels \in SUBSET Labels : Record(q, Citations(ask[q].chunks, labels), TRUE)
      BY <1>14 DEF AnswerGrounded
    <2>2. ~ask[q].weak /\ ask[q].chunks # <<>>
      BY <1>14 DEF AnswerGrounded
    <2>3. ask[q].chunks \in Seq(ScoredPoint)
      BY <1>3, <1>4, AskFields
    <2>4. /\ Citations(ask[q].chunks, labels) \subseteq Ids(ask[q].chunks) \cap ChunkIds
          /\ Citations(ask[q].chunks, labels) # {}
      BY <2>2, <2>3, CitationsAreSources
    <2>5. QED
      BY <2>1, <2>2, <2>4, RecordKeepsInv
  <1>15. CASE ask[q].pc \in {"retrieve", "generate"} /\ Fail(q)
    <2>1. PICK r : r = [u EXCEPT !.pc = "failed"]
      OBVIOUS
    <2>2. r \in AskState /\ r.pc = "failed"
      BY <1>4, <2>1 DEF AskState
    <2>3. ask' = [ask EXCEPT ![q] = r] /\ UNCHANGED <<chatSessions, interactions>>
      BY <1>3, <1>15, <2>1 DEF Fail, To, Go
    <2>4. QED
      BY <1>4, <2>2, <2>3, GoKeepsInv
  <1>16. QED
    BY <1>2, <1>6, <1>7, <1>8, <1>9, <1>11, <1>12, <1>13, <1>14, <1>15

\* AnswerInv is inductive: past a search, chunks, best score and judgement are
\* those of one search (evaluate_retrieval).
THEOREM AnswerInvariance ==
    ASSUME RetrievalSettings
    PROVE  SpecAnswer => []AnswerInv
  <1>1. InitAnswer => AnswerInv
    BY InitAnswerInv
  <1>2. AnswerInv /\ [NextAnswer]_answerVars => AnswerInv'
    BY NextAnswerKeepsInv
  <1>3. QED
    BY <1>1, <1>2, PTL DEF SpecAnswer

\* Every recorded answer cites sources among those recorded with it, which pass
\* the tests of evidence, after a rewritten question too, with any thresholds
\* and any number of questions and tries (answer_from_retrieval).
THEOREM AnswersAreGrounded ==
    ASSUME RetrievalSettings
    PROVE  SpecAnswer => []GroundedInSources
  <1>1. AnswerInv => GroundedInSources
    BY DEF AnswerInv
  <1>2. QED
    BY <1>1, AnswerInvariance, PTL

-----------------------------------------------------------------------------
(* The embedding client.                                                   *)

\* What a span and a text are made of.
LEMMA SpanFields ==
    /\ \A s \in Span : s.text \in Nat /\ s.from \in Nat /\ s.to \in Nat
    /\ \A text, from, to \in Nat : [text |-> text, from |-> from, to |-> to] \in Span
    /\ \A t \in Text : t.id \in TextIds /\ t.words \in Nat
  BY DEF Span, Text

\* A text put into the memory cache evicts the oldest when there is no room.
LEMMA PutKeepsCache ==
    ASSUME EmbeddingLimits, EmbeddingTypeOK, NEW id \in TextIds
    PROVE  LET put == PutQueryCache(id)
           IN  put \in Seq(TextIds) /\ Len(put) <= CacheSize /\ IsInjective(put)
  <1>1. /\ cached \in Seq(TextIds) /\ Len(cached) <= CacheSize /\ CacheSize \in Nat \ {0}
        /\ \A j, k \in DOMAIN cached : cached[j] = cached[k] => j = k
    BY DEF EmbeddingLimits, EmbeddingTypeOK, IsInjective
  <1>2. CASE id \in ToSet(cached)
    BY <1>2 DEF PutQueryCache, EmbeddingTypeOK
  <1>3. CASE id \notin ToSet(cached)
    <2>1. PICK all : all = Append(cached, id)
      OBVIOUS
    <2>2. /\ all \in Seq(TextIds) /\ Len(all) = Len(cached) + 1 /\ Len(cached) \in Nat
          /\ \A k \in DOMAIN cached : k \in DOMAIN all /\ all[k] = cached[k]
          /\ \A k \in DOMAIN all : k \in DOMAIN cached \/ (k = Len(all) /\ all[k] = id)
      BY <1>1, <2>1
    <2>3. \A j, k \in DOMAIN all : all[j] = all[k] => j = k
      BY <1>1, <1>3, <2>2 DEF ToSet
    <2>4. PutQueryCache(id) = IF Len(all) > CacheSize THEN Tail(all) ELSE all
      BY <1>3, <2>1 DEF PutQueryCache
    <2>5. CASE Len(all) > CacheSize
      <3>1. all # <<>>
        BY <2>2
      <3>2. /\ Tail(all) \in Seq(TextIds) /\ Len(Tail(all)) = Len(all) - 1
            /\ \A k \in DOMAIN Tail(all) : k + 1 \in DOMAIN all /\ Tail(all)[k] = all[k + 1]
            /\ DOMAIN Tail(all) \subseteq Nat
        BY <2>2, <3>1
      <3>3. IsInjective(Tail(all))
        BY <2>3, <3>2 DEF IsInjective
      <3>4. QED
        BY <1>1, <2>2, <2>4, <2>5, <3>2, <3>3
    <2>6. CASE ~(Len(all) > CacheSize)
      BY <1>1, <2>2, <2>3, <2>4, <2>6 DEF IsInjective
    <2>7. QED
      BY <2>5, <2>6
  <1>4. QED
    BY <1>2, <1>3

\* The texts themselves are spans that cover them.
LEMMA WholeTextsCover ==
    ASSUME texts \in Seq(Text), texts # <<>>
    PROVE  /\ AllWhole \in Seq(Span) /\ AllWhole # <<>>
           /\ Begins(AllWhole[1]) /\ EndsAll(AllWhole[Len(AllWhole)]) /\ Chain(AllWhole)
           /\ \A k \in DOMAIN AllWhole :
                 /\ AllWhole[k].text \in DOMAIN texts
                 /\ AllWhole[k].to <= texts[AllWhole[k].text].words
  <1>1. PICK T : T = Text
    OBVIOUS
  <1>2. texts \in Seq(T)
    BY <1>1
  <1>3. Len(texts) \in Nat \ {0} /\ DOMAIN texts = 1 .. Len(texts)
    BY <1>2
  <1>4. \A i \in 1 .. Len(texts) : texts[i].words \in Nat
    <2>1. \A i \in 1 .. Len(texts) : texts[i] \in T
      BY <1>2
    <2>2. QED
      BY <1>1, <2>1, SpanFields
  <1>5. \A i \in 1 .. Len(texts) :
           /\ Whole(i) \in Span
           /\ Whole(i).text = i /\ Whole(i).from = 1 /\ Whole(i).to = texts[i].words
    BY <1>4, SpanFields DEF Whole
  <1>6. AllWhole = [i \in 1 .. Len(texts) |-> Whole(i)]
    BY DEF AllWhole
  <1>7. /\ AllWhole \in Seq(Span) /\ DOMAIN AllWhole = 1 .. Len(texts)
        /\ Len(AllWhole) = Len(texts)
        /\ \A i \in 1 .. Len(texts) : AllWhole[i] = Whole(i)
    BY <1>3, <1>5, <1>6
  <1>8. AllWhole # <<>>
    BY <1>3, <1>7
  <1>9. Begins(AllWhole[1]) /\ EndsAll(AllWhole[Len(AllWhole)])
    BY <1>3, <1>5, <1>7 DEF Begins, EndsAll
  <1>10. Chain(AllWhole)
    BY <1>3, <1>5, <1>7 DEF Chain, Follows
  <1>11. QED
    BY <1>3, <1>4, <1>5, <1>7, <1>8, <1>9, <1>10

\* Nothing has been asked.
LEMMA InitEmbeddingInv ==
    ASSUME EmbeddingLimits, InitEmbedding
    PROVE  EmbeddingInv
  <1>1. \A E : <<>> \in Seq(E)
    OBVIOUS
  <1>2. Len(<<>>) = 0 /\ IsInjective(<<>>)
    BY DEF IsInjective
  <1>3. EmbeddingTypeOK
    <2>1. texts \in Seq(Text) /\ asQuery \in BOOLEAN /\ phase = "idle"
      BY <1>1 DEF InitEmbedding
    <2>2. todo \in Seq(Span) /\ spans \in Seq(Span) /\ vectors \in Seq(Span)
      BY <1>1 DEF InitEmbedding
    <2>3. tries \in 0 .. BatchRetries /\ rounds \in 0 .. TextRetries /\ served \in 0 .. MaxRequests
      BY DEF EmbeddingLimits, InitEmbedding
    <2>4. cached \in Seq(TextIds) /\ Len(cached) <= CacheSize /\ IsInjective(cached)
      <3>1. Len(cached) = 0 /\ CacheSize \in Nat \ {0}
        BY <1>2 DEF EmbeddingLimits, InitEmbedding
      <3>2. QED
        BY <1>1, <1>2, <3>1 DEF InitEmbedding
    <2>5. redis \subseteq TextIds
      BY DEF InitEmbedding
    <2>6. QED
      BY <2>1, <2>2, <2>3, <2>4, <2>5 DEF EmbeddingTypeOK
  <1>4. TilesSoFar /\ NothingTruncated
    BY DEF InitEmbedding, TilesSoFar, NothingTruncated
  <1>5. QED
    BY <1>3, <1>4 DEF EmbeddingInv

\* A call that returns what covers its texts leaves the invariant.
LEMMA ReturnKeepsInv ==
    ASSUME EmbeddingLimits, EmbeddingInv, phase # "idle", NEW result, Return(result),
           result \in Seq(Span), result # <<>>, Begins(result[1]),
           EndsAll(result[Len(result)]), Chain(result),
           todo' \in Seq(Span), spans' \in Seq(Span),
           tries' \in 0 .. BatchRetries, rounds' \in 0 .. TextRetries
    PROVE  EmbeddingInv'
  <1>1. EmbeddingTypeOK /\ texts # <<>>
    BY DEF EmbeddingInv, EmbeddingTypeOK
  <1>2. texts[1].id \in TextIds
    <2>1. PICK T : T = Text
      OBVIOUS
    <2>2. texts[1] \in T
      BY <1>1, <2>1 DEF EmbeddingTypeOK
    <2>3. QED
      BY <2>1, <2>2, SpanFields
  <1>3. cached' \in Seq(TextIds) /\ Len(cached') <= CacheSize /\ IsInjective(cached')
    BY <1>1, <1>2, PutKeepsCache DEF Return, EmbeddingTypeOK
  <1>4. redis' \subseteq TextIds
    BY <1>1, <1>2 DEF Return, EmbeddingTypeOK
  <1>5. EmbeddingTypeOK'
    BY <1>1, <1>3, <1>4 DEF Return, EmbeddingTypeOK
  <1>6. TilesSoFar'
    BY DEF Return, TilesSoFar
  <1>7. NothingTruncated'
    BY DEF Return, NothingTruncated, Begins, EndsAll, Chain, Follows
  <1>8. QED
    BY <1>5, <1>6, <1>7 DEF EmbeddingInv

\* A call that fails returns nothing.
LEMMA GiveUpKeepsInv ==
    ASSUME EmbeddingInv, phase # "idle", GiveUp
    PROVE  EmbeddingInv'
  BY DEF EmbeddingInv, EmbeddingTypeOK, TilesSoFar, NothingTruncated, GiveUp

\* One by one, the texts are still to be embedded.
LEMMA OneByOneKeepsInv ==
    ASSUME EmbeddingLimits, EmbeddingInv, phase = "batch", OneByOne
    PROVE  EmbeddingInv'
  <1>1. texts \in Seq(Text) /\ texts # <<>>
    BY DEF EmbeddingInv, EmbeddingTypeOK
  <1>2. /\ AllWhole \in Seq(Span) /\ AllWhole # <<>>
        /\ Begins(AllWhole[1]) /\ EndsAll(AllWhole[Len(AllWhole)]) /\ Chain(AllWhole)
        /\ \A k \in DOMAIN AllWhole :
              /\ AllWhole[k].text \in DOMAIN texts
              /\ AllWhole[k].to <= texts[AllWhole[k].text].words
    BY <1>1, WholeTextsCover
  <1>3. PICK w : w = AllWhole
    OBVIOUS
  <1>4. EmbeddingTypeOK'
    BY <1>2 DEF EmbeddingLimits, EmbeddingInv, EmbeddingTypeOK, OneByOne
  <1>5. TilesSoFar'
    <2>1. todo' = w /\ spans' = <<>> /\ texts' = texts
      BY <1>3 DEF OneByOne
    <2>2. Chain(<<>>)'
      BY DEF Chain
    <2>3. QED
      BY <1>2, <1>3, <2>1, <2>2 DEF TilesSoFar, Begins, EndsAll, Chain, Follows
  <1>6. NothingTruncated'
    BY DEF OneByOne, NothingTruncated
  <1>7. QED
    BY <1>4, <1>5, <1>6 DEF EmbeddingInv

\* A call that begins is either answered from a cache or asked of the provider.
LEMMA BeginKeepsInv ==
    ASSUME EmbeddingLimits, EmbeddingInv,
           NEW sought \in Seq(Text), sought # <<>>, NEW query \in BOOLEAN,
           Begin(sought, query), spans' = <<>>,
           cached' \in Seq(TextIds), Len(cached') <= CacheSize, IsInjective(cached'),
           redis' \subseteq TextIds,
           \/ phase' = "batch" /\ vectors' = <<>>
           \/ /\ phase' = "done" /\ Len(sought) = 1
              /\ vectors' = <<[text |-> 1, from |-> 1, to |-> sought[1].words]>>
    PROVE  EmbeddingInv'
  <1>1. \A E : <<>> \in Seq(E)
    OBVIOUS
  <1>2. PICK T : T = Text
    OBVIOUS
  <1>3. sought[1] \in T
    BY <1>2
  <1>4. sought[1].words \in Nat
    BY <1>2, <1>3, SpanFields
  <1>5. PICK whole : whole = [text |-> 1, from |-> 1, to |-> sought[1].words]
    OBVIOUS
  <1>6. whole \in Span /\ whole.text = 1 /\ whole.from = 1 /\ whole.to = sought[1].words
    BY <1>4, <1>5, SpanFields
  <1>7. PICK one : one = <<whole>>
    OBVIOUS
  <1>8. /\ one \in Seq(Span) /\ one # <<>> /\ Len(one) = 1 /\ one[1] = whole
        /\ DOMAIN one = {1}
    BY <1>6, <1>7
  <1>9. vectors' = <<>> \/ vectors' = one
    BY <1>5, <1>7
  <1>10. /\ texts' = sought /\ asQuery' = query /\ served < MaxRequests /\ served' = served + 1
         /\ todo' = <<>> /\ tries' = 0 /\ rounds' = 0
    BY DEF Begin
  <1>11. EmbeddingTypeOK'
    <2>1. served \in 0 .. MaxRequests /\ MaxRequests \in Nat
      BY DEF EmbeddingLimits, EmbeddingInv, EmbeddingTypeOK
    <2>2. served' \in 0 .. MaxRequests
      BY <1>10, <2>1
    <2>3. tries' \in 0 .. BatchRetries /\ rounds' \in 0 .. TextRetries
      BY <1>10 DEF EmbeddingLimits
    <2>4. todo' \in Seq(Span) /\ spans' \in Seq(Span) /\ vectors' \in Seq(Span)
      BY <1>1, <1>8, <1>9, <1>10
    <2>5. texts' \in Seq(Text) /\ texts' # <<>> /\ asQuery' \in BOOLEAN
      BY <1>10
    <2>6. phase' \in {"batch", "done"}
      OBVIOUS
    <2>7. QED
      BY <2>2, <2>3, <2>4, <2>5, <2>6 DEF EmbeddingTypeOK
  <1>12. TilesSoFar'
    BY DEF TilesSoFar
  <1>13. NothingTruncated'
    <2>1. CASE phase' = "batch"
      BY <2>1 DEF NothingTruncated
    <2>2. CASE phase' = "done"
      <3>1. vectors' = one /\ Len(sought) = 1
        BY <1>5, <1>7, <2>2
      <3>2. Begins(vectors[1])'
        BY <1>6, <1>8, <3>1 DEF Begins
      <3>3. EndsAll(vectors[Len(vectors)])'
        BY <1>6, <1>8, <1>10, <3>1 DEF EndsAll
      <3>4. Chain(vectors)'
        BY <1>8, <3>1 DEF Chain
      <3>5. QED
        BY <1>8, <3>1, <3>2, <3>3, <3>4 DEF NothingTruncated
    <2>3. QED
      BY <2>1, <2>2
  <1>14. QED
    BY <1>11, <1>12, <1>13 DEF EmbeddingInv

\* A batch of the indexer begins.
LEMMA EmbedTextsKeepsInv ==
    ASSUME EmbeddingLimits, EmbeddingInv, EmbedTexts
    PROVE  EmbeddingInv'
  <1>1. PICK batch \in Batches :
           /\ Begin(batch, FALSE)
           /\ \/ phase' = "batch" /\ vectors' = <<>>
              \/ /\ phase' = "done" /\ Len(batch) = 1
                 /\ vectors' = <<[text |-> 1, from |-> 1, to |-> batch[1].words]>>
           /\ spans' = <<>> /\ cached' = cached /\ redis' = redis
    BY DEF EmbedTexts
  <1>2. batch \in Seq(Text) /\ batch # <<>>
    BY DEF EmbeddingLimits
  <1>3. /\ cached' \in Seq(TextIds) /\ Len(cached') <= CacheSize /\ IsInjective(cached')
        /\ redis' \subseteq TextIds
    BY <1>1 DEF EmbeddingInv, EmbeddingTypeOK
  <1>4. QED
    BY <1>1, <1>2, <1>3, BeginKeepsInv

\* A query begins; found in Redis it goes into the memory cache.
LEMMA EmbedQueryKeepsInv ==
    ASSUME EmbeddingLimits, EmbeddingInv, EmbedQuery
    PROVE  EmbeddingInv'
  <1>1. PICK query \in Queries :
           /\ Begin(<<query>>, TRUE)
           /\ \/ phase' = "batch" /\ vectors' = <<>>
              \/ /\ phase' = "done"
                 /\ vectors' = <<[text |-> 1, from |-> 1, to |-> query.words]>>
           /\ spans' = <<>> /\ redis' = redis
           /\ cached' = cached \/ cached' = PutQueryCache(query.id)
    BY DEF EmbedQuery
  <1>2. PICK T : T = Text
    OBVIOUS
  <1>3. query \in T
    BY <1>2 DEF EmbeddingLimits
  <1>4. query.id \in TextIds
    BY <1>2, <1>3, SpanFields
  <1>5. PICK sought : sought = <<query>>
    OBVIOUS
  <1>6. sought \in Seq(T) /\ sought # <<>> /\ Len(sought) = 1 /\ sought[1] = query
    BY <1>3, <1>5
  <1>7. EmbeddingTypeOK
    BY DEF EmbeddingInv
  <1>8. /\ cached' \in Seq(TextIds) /\ Len(cached') <= CacheSize /\ IsInjective(cached')
        /\ redis' \subseteq TextIds
    BY <1>1, <1>4, <1>7, PutKeepsCache DEF EmbeddingTypeOK
  <1>9. QED
    BY <1>1, <1>2, <1>5, <1>6, <1>8, BeginKeepsInv

\* The provider's answers for a batch.
LEMMA BatchKeepsInv ==
    ASSUME EmbeddingLimits, EmbeddingInv, BatchAnswered \/ BatchShort \/ BatchTooLong
    PROVE  EmbeddingInv'
  <1>1. phase = "batch"
    BY DEF BatchAnswered, BatchShort, BatchTooLong
  <1>2. EmbeddingTypeOK /\ texts \in Seq(Text) /\ texts # <<>>
    BY <1>1 DEF EmbeddingInv, EmbeddingTypeOK
  <1>3. CASE BatchAnswered
    <2>1. /\ AllWhole \in Seq(Span) /\ AllWhole # <<>>
          /\ Begins(AllWhole[1]) /\ EndsAll(AllWhole[Len(AllWhole)]) /\ Chain(AllWhole)
      BY <1>2, WholeTextsCover
    <2>2. /\ todo' \in Seq(Span) /\ spans' \in Seq(Span)
          /\ tries' \in 0 .. BatchRetries /\ rounds' \in 0 .. TextRetries
      BY <1>2, <1>3 DEF BatchAnswered, EmbeddingTypeOK
    <2>3. Return(AllWhole)
      BY <1>3 DEF BatchAnswered
    <2>4. QED
      BY <1>1, <2>1, <2>2, <2>3, ReturnKeepsInv
  <1>4. CASE BatchShort /\ tries < BatchRetries
    <2>1. tries' = tries + 1 /\ UNCHANGED <<texts, asQuery, phase, todo, spans, rounds, cached,
                                            redis, served, vectors>>
      BY <1>4 DEF BatchShort
    <2>2. tries' \in 0 .. BatchRetries
      BY <1>2, <1>4, <2>1 DEF EmbeddingLimits, EmbeddingTypeOK
    <2>3. EmbeddingTypeOK'
      BY <1>2, <2>1, <2>2 DEF EmbeddingTypeOK
    <2>4. TilesSoFar' /\ NothingTruncated'
      BY <1>1, <2>1 DEF TilesSoFar, NothingTruncated
    <2>5. QED
      BY <2>3, <2>4 DEF EmbeddingInv
  <1>5. CASE BatchShort /\ ~(tries < BatchRetries)
    BY <1>1, <1>5, OneByOneKeepsInv DEF BatchShort
  <1>6. CASE BatchTooLong
    BY <1>1, <1>6, OneByOneKeepsInv DEF BatchTooLong
  <1>7. QED
    BY <1>3, <1>4, <1>5, <1>6

\* A span that has been embedded joins those before it; the last one ends the
\* call.
LEMMA TextAnsweredKeepsInv ==
    ASSUME EmbeddingLimits, EmbeddingInv, TextAnswered
    PROVE  EmbeddingInv'
  <1>1. phase = "single" /\ EmbeddingTypeOK /\ TilesSoFar /\ todo # <<>>
    BY DEF TextAnswered, EmbeddingInv, EmbeddingTypeOK
  <1>2. PICK S : S = Span
    OBVIOUS
  <1>3. todo \in Seq(S) /\ spans \in Seq(S)
    BY <1>1, <1>2 DEF EmbeddingTypeOK
  <1>4. PICK rest, out : /\ rest = Tail(todo) /\ out = Append(spans, Head(todo))
                         /\ todo' = rest /\ spans' = out
    BY DEF TextAnswered
  <1>5. /\ Len(todo) \in Nat /\ Len(todo) >= 1 /\ todo[1] \in S /\ todo[1] = Head(todo)
        /\ DOMAIN todo = 1 .. Len(todo)
        /\ Len(spans) \in Nat /\ DOMAIN spans = 1 .. Len(spans)
        /\ spans = <<>> <=> Len(spans) = 0
    BY <1>1, <1>3
  <1>6. /\ out \in Seq(S) /\ out # <<>> /\ Len(out) = Len(spans) + 1
        /\ DOMAIN out = 1 .. Len(spans) + 1
        /\ out[Len(out)] = todo[1]
        /\ \A k \in 1 .. Len(spans) : out[k] = spans[k]
    BY <1>3, <1>4, <1>5
  <1>7. /\ rest \in Seq(S) /\ Len(rest) = Len(todo) - 1 /\ DOMAIN rest = 1 .. Len(todo) - 1
        /\ \A k \in 1 .. Len(todo) - 1 : rest[k] = todo[k + 1]
    BY <1>1, <1>3, <1>4, <1>5
  <1>8. /\ Chain(spans) /\ Chain(todo) /\ EndsAll(todo[Len(todo)])
        /\ IF spans = <<>> THEN Begins(todo[1])
           ELSE Begins(spans[1]) /\ Follows(spans[Len(spans)], todo[1])
        /\ \A k \in DOMAIN todo :
              todo[k].text \in DOMAIN texts /\ todo[k].to <= texts[todo[k].text].words
    BY <1>1 DEF TilesSoFar
  <1>9. Begins(out[1])
    <2>1. CASE Len(spans) = 0
      BY <1>5, <1>6, <1>8, <2>1
    <2>2. CASE Len(spans) # 0
      BY <1>5, <1>6, <1>8, <2>2
    <2>3. QED
      BY <2>1, <2>2
  <1>10. Chain(out)
    <2>1. SUFFICES ASSUME NEW k \in 1 .. Len(spans)
                   PROVE  Follows(out[k], out[k + 1])
      BY <1>5, <1>6 DEF Chain
    <2>2. CASE k = Len(spans)
      BY <1>5, <1>6, <1>8, <2>2
    <2>3. CASE k # Len(spans)
      <3>1. k \in 1 .. Len(spans) /\ k + 1 \in 1 .. Len(spans)
        <4>1. Len(spans) \in Nat
          BY <1>5
        <4>2. QED
          BY <2>1, <2>3, <4>1
      <3>2. Follows(spans[k], spans[k + 1])
        BY <1>5, <1>8, <3>1 DEF Chain
      <3>3. QED
        BY <1>6, <3>1, <3>2
    <2>4. QED
      BY <2>2, <2>3
  <1>11. tries' = 0 /\ rounds' = 0 /\ tries' \in 0 .. BatchRetries /\ rounds' \in 0 .. TextRetries
    BY DEF TextAnswered, EmbeddingLimits
  <1>12. CASE Len(todo) = 1
    <2>1. Return(out)
      BY <1>4, <1>12 DEF TextAnswered
    <2>2. EndsAll(out[Len(out)])
      BY <1>6, <1>8, <1>12
    <2>3. phase # "idle" /\ out \in Seq(Span) /\ todo' \in Seq(Span) /\ spans' \in Seq(Span)
      BY <1>1, <1>2, <1>4, <1>6, <1>7
    <2>4. QED
      BY <1>6, <1>9, <1>10, <1>11, <2>1, <2>2, <2>3, ReturnKeepsInv
  <1>13. CASE Len(todo) # 1
    <2>1. UNCHANGED <<texts, asQuery, phase, cached, redis, served, vectors>>
      BY <1>13 DEF TextAnswered
    <2>2. rest # <<>>
      BY <1>5, <1>7, <1>13
    <2>3. EmbeddingTypeOK'
      BY <1>1, <1>2, <1>4, <1>6, <1>7, <1>11, <2>1, <2>2 DEF EmbeddingTypeOK
    <2>4. \A k \in DOMAIN rest :
             rest[k].text \in DOMAIN texts /\ rest[k].to <= texts[rest[k].text].words
      <3>1. \A k \in 1 .. Len(todo) - 1 : k + 1 \in DOMAIN todo
        BY <1>5
      <3>2. QED
        BY <1>7, <1>8, <3>1
    <2>5. Chain(rest)
      <3>1. SUFFICES ASSUME NEW k \in 1 .. Len(todo) - 1, k + 1 \in 1 .. Len(todo) - 1
                     PROVE  Follows(rest[k], rest[k + 1])
        BY <1>7 DEF Chain
      <3>2. k + 1 \in DOMAIN todo /\ (k + 1) + 1 \in DOMAIN todo
        BY <1>5, <3>1
      <3>3. Follows(todo[k + 1], todo[(k + 1) + 1])
        BY <1>8, <3>2 DEF Chain
      <3>4. QED
        BY <1>7, <3>1, <3>3
    <2>6. EndsAll(rest[Len(rest)])
      <3>1. Len(rest) \in 1 .. Len(todo) - 1 /\ Len(rest) + 1 = Len(todo)
        BY <1>5, <1>7, <1>13
      <3>2. rest[Len(rest)] = todo[Len(todo)]
        BY <1>7, <3>1
      <3>3. QED
        BY <1>8, <3>2
    <2>7. Follows(out[Len(out)], rest[1])
      <3>1. 1 \in DOMAIN todo /\ 1 + 1 \in DOMAIN todo /\ rest[1] = todo[1 + 1]
        BY <1>5, <1>7, <1>13
      <3>2. Follows(todo[1], todo[1 + 1])
        BY <1>8, <3>1 DEF Chain
      <3>3. QED
        BY <1>6, <3>1, <3>2
    <2>8. TilesSoFar'
      BY <1>4, <1>6, <1>9, <1>10, <2>1, <2>4, <2>5, <2>6, <2>7
         DEF TilesSoFar, Begins, EndsAll, Chain, Follows
    <2>9. NothingTruncated'
      BY <1>1, <2>1 DEF NothingTruncated
    <2>10. QED
      BY <2>3, <2>8, <2>9 DEF EmbeddingInv
  <1>14. QED
    BY <1>12, <1>13

\* No vector for a text: asked again, or the call fails.
LEMMA TextShortKeepsInv ==
    ASSUME EmbeddingLimits, EmbeddingInv, TextShort
    PROVE  EmbeddingInv'
  <1>1. phase = "single" /\ EmbeddingTypeOK
    BY DEF TextShort, EmbeddingInv
  <1>2. \/ /\ tries < BatchRetries /\ tries' = tries + 1 /\ rounds' = rounds
           /\ UNCHANGED <<texts, asQuery, phase, todo, spans, cached, redis, served, vectors>>
        \/ /\ rounds < TextRetries /\ tries' = 0 /\ rounds' = rounds + 1
           /\ UNCHANGED <<texts, asQuery, phase, todo, spans, cached, redis, served, vectors>>
        \/ GiveUp
    BY DEF TextShort
  <1>3. CASE GiveUp
    BY <1>1, <1>3, GiveUpKeepsInv
  <1>4. CASE ~GiveUp
    <2>1. /\ UNCHANGED <<texts, asQuery, phase, todo, spans, cached, redis, served, vectors>>
          /\ \/ tries < BatchRetries /\ tries' = tries + 1 /\ rounds' = rounds
             \/ rounds < TextRetries /\ tries' = 0 /\ rounds' = rounds + 1
      BY <1>2, <1>4
    <2>2. tries' \in 0 .. BatchRetries /\ rounds' \in 0 .. TextRetries
      BY <1>1, <2>1 DEF EmbeddingLimits, EmbeddingTypeOK
    <2>3. EmbeddingTypeOK'
      BY <1>1, <2>1, <2>2 DEF EmbeddingTypeOK
    <2>4. TilesSoFar' /\ NothingTruncated'
      BY <2>1 DEF EmbeddingInv, TilesSoFar, NothingTruncated, Begins, EndsAll, Chain, Follows
    <2>5. QED
      BY <2>3, <2>4 DEF EmbeddingInv
  <1>5. QED
    BY <1>3, <1>4

\* The halves of a span go on from each other, and begin and end as it does.
LEMMA TextSplitKeepsInv ==
    ASSUME EmbeddingLimits, EmbeddingInv, TextSplit
    PROVE  EmbeddingInv'
  <1>1. phase = "single" /\ EmbeddingTypeOK /\ TilesSoFar /\ todo # <<>>
    BY DEF TextSplit, EmbeddingInv, EmbeddingTypeOK
  <1>2. CASE Words(Head(todo)) < 2
    BY <1>1, <1>2, GiveUpKeepsInv DEF TextSplit
  <1>3. CASE ~(Words(Head(todo)) < 2)
    <2>1. PICK S : S = Span
      OBVIOUS
    <2>2. todo \in Seq(S)
      BY <1>1, <2>1 DEF EmbeddingTypeOK
    <2>3. PICK h : h = Head(todo)
      OBVIOUS
    <2>4. /\ Len(todo) \in Nat /\ Len(todo) >= 1 /\ h \in S /\ todo[1] = h
          /\ DOMAIN todo = 1 .. Len(todo)
      BY <1>1, <2>2, <2>3
    <2>5. h \in Span /\ h.text \in Nat /\ h.from \in Nat /\ h.to \in Nat
      BY <2>1, <2>4, SpanFields
    <2>6. PICK mid : mid = h.from + Words(h) \div 2
      OBVIOUS
    <2>7. mid \in Nat /\ h.from < mid /\ mid - 1 \in Nat /\ mid <= h.to
      <3>1. PICK w : w = h.to - h.from + 1
        OBVIOUS
      <3>2. w \in Int /\ w >= 2
        BY <1>3, <2>3, <2>5, <3>1 DEF Words
      <3>3. w \div 2 \in Nat /\ 1 <= w \div 2 /\ w \div 2 <= w - 1
        BY <3>2
      <3>4. mid = h.from + w \div 2
        BY <2>6, <3>1 DEF Words
      <3>5. QED
        BY <2>5, <3>1, <3>2, <3>3, <3>4
    <2>8. PICK a, b : a = [h EXCEPT !.to = mid - 1] /\ b = [h EXCEPT !.from = mid]
      OBVIOUS
    <2>9. /\ a \in Span /\ a.text = h.text /\ a.from = h.from /\ a.to = mid - 1
          /\ b \in Span /\ b.text = h.text /\ b.from = mid /\ b.to = h.to
      BY <2>5, <2>7, <2>8 DEF Span
    <2>10. PICK rest, list : rest = Tail(todo) /\ list = <<a, b>> \o rest
      OBVIOUS
    <2>11. /\ todo' = list /\ tries' = 0 /\ rounds' = 0
           /\ UNCHANGED <<texts, asQuery, phase, spans, cached, redis, served, vectors>>
      BY <1>3, <2>3, <2>6, <2>8, <2>10 DEF TextSplit
    <2>12. /\ rest \in Seq(S) /\ Len(rest) = Len(todo) - 1 /\ DOMAIN rest = 1 .. Len(todo) - 1
           /\ \A k \in 1 .. Len(todo) - 1 : rest[k] = todo[k + 1]
      BY <1>1, <2>2, <2>4, <2>10
    <2>13. PICK pair : pair = <<a, b>>
      OBVIOUS
    <2>14. pair \in Seq(S) /\ Len(pair) = 2 /\ pair[1] = a /\ pair[2] = b
      BY <2>1, <2>9, <2>13
    <2>15. /\ list \in Seq(S) /\ Len(list) = Len(todo) + 1 /\ DOMAIN list = 1 .. Len(todo) + 1
           /\ list[1] = a /\ list[2] = b /\ list # <<>>
      BY <2>4, <2>10, <2>12, <2>13, <2>14
    <2>16. \A k \in 3 .. Len(todo) + 1 : list[k] = todo[k - 1]
      <3>1. SUFFICES ASSUME NEW k \in 3 .. Len(todo) + 1 PROVE list[k] = todo[k - 1]
        OBVIOUS
      <3>2. k - 2 \in 1 .. Len(todo) - 1 /\ (k - 2) + 1 = k - 1
        BY <2>4, <3>1
      <3>3. list[k] = rest[k - 2]
        BY <2>4, <2>10, <2>12, <2>13, <2>14, <3>1
      <3>4. rest[k - 2] = todo[(k - 2) + 1]
        BY <2>12, <3>2
      <3>5. QED
        BY <3>2, <3>3, <3>4
    <2>17. /\ Chain(spans) /\ Chain(todo) /\ EndsAll(todo[Len(todo)])
           /\ IF spans = <<>> THEN Begins(h) ELSE Begins(spans[1]) /\ Follows(spans[Len(spans)], h)
           /\ \A k \in DOMAIN todo :
                 todo[k].text \in DOMAIN texts /\ todo[k].to <= texts[todo[k].text].words
      BY <1>1, <2>4 DEF TilesSoFar
    <2>18. h.text \in DOMAIN texts /\ h.to <= texts[h.text].words /\ texts[h.text].words \in Nat
      <3>1. PICK T : T = Text
        OBVIOUS
      <3>2. h.text \in DOMAIN texts /\ h.to <= texts[h.text].words
        BY <2>4, <2>17
      <3>3. texts \in Seq(T)
        BY <1>1, <3>1 DEF EmbeddingTypeOK
      <3>4. texts[h.text] \in T
        BY <3>2, <3>3
      <3>5. QED
        BY <3>1, <3>2, <3>4, SpanFields
    <2>19. EmbeddingTypeOK'
      <3>1. tries' \in 0 .. BatchRetries /\ rounds' \in 0 .. TextRetries
        BY <2>11 DEF EmbeddingLimits
      <3>2. QED
        BY <1>1, <2>1, <2>11, <2>15, <3>1 DEF EmbeddingTypeOK
    <2>20. \A k \in DOMAIN list :
              list[k].text \in DOMAIN texts /\ list[k].to <= texts[list[k].text].words
      <3>1. SUFFICES ASSUME NEW k \in 1 .. Len(todo) + 1
                     PROVE  list[k].text \in DOMAIN texts /\ list[k].to <= texts[list[k].text].words
        BY <2>15
      <3>2. CASE k = 1
        BY <2>5, <2>7, <2>9, <2>15, <2>18, <3>2
      <3>3. CASE k = 2
        BY <2>9, <2>15, <2>18, <3>3
      <3>4. CASE k # 1 /\ k # 2
        <4>1. k \in 3 .. Len(todo) + 1 /\ k - 1 \in DOMAIN todo
          BY <2>4, <3>1, <3>4
        <4>2. QED
          BY <2>16, <2>17, <4>1
      <3>5. QED
        BY <3>2, <3>3, <3>4
    <2>21. Chain(list)
      <3>1. SUFFICES ASSUME NEW k \in 1 .. Len(todo)
                     PROVE  Follows(list[k], list[k + 1])
        BY <2>4, <2>15 DEF Chain
      <3>2. CASE k = 1
        BY <2>5, <2>7, <2>9, <2>15, <2>18, <3>2 DEF Follows
      <3>3. CASE k = 2
        <4>1. 1 \in DOMAIN todo /\ 1 + 1 \in DOMAIN todo /\ list[3] = todo[1 + 1]
          BY <2>4, <2>16, <3>1, <3>3
        <4>2. Follows(h, todo[1 + 1])
          BY <2>4, <2>17, <4>1 DEF Chain
        <4>3. QED
          BY <2>9, <2>15, <3>3, <4>1, <4>2 DEF Follows
      <3>4. CASE k # 1 /\ k # 2
        <4>1. /\ k - 1 \in DOMAIN todo /\ (k - 1) + 1 \in DOMAIN todo /\ (k - 1) + 1 = (k + 1) - 1
              /\ k \in 3 .. Len(todo) + 1 /\ k + 1 \in 3 .. Len(todo) + 1
          BY <2>4, <3>1, <3>4
        <4>2. Follows(todo[k - 1], todo[(k - 1) + 1])
          BY <2>17, <4>1 DEF Chain
        <4>3. list[k] = todo[k - 1] /\ list[k + 1] = todo[(k - 1) + 1]
          BY <2>16, <4>1
        <4>4. QED
          BY <4>2, <4>3
      <3>5. QED
        BY <3>2, <3>3, <3>4
    <2>22. EndsAll(list[Len(list)])
      <3>1. CASE Len(todo) = 1
        BY <2>4, <2>9, <2>15, <2>17, <3>1 DEF EndsAll
      <3>2. CASE Len(todo) # 1
        <4>1. Len(list) \in 3 .. Len(todo) + 1 /\ Len(list) - 1 = Len(todo)
          BY <2>4, <2>15, <3>2
        <4>2. QED
          BY <2>16, <2>17, <4>1
      <3>3. QED
        BY <3>1, <3>2
    <2>23. IF spans = <<>> THEN Begins(a) ELSE Begins(spans[1]) /\ Follows(spans[Len(spans)], a)
      BY <2>9, <2>17 DEF Begins, Follows
    <2>24. TilesSoFar'
      BY <2>11, <2>15, <2>17, <2>20, <2>21, <2>22, <2>23
         DEF TilesSoFar, Begins, EndsAll, Chain, Follows
    <2>25. NothingTruncated'
      BY <1>1, <2>11 DEF NothingTruncated
    <2>26. QED
      BY <2>19, <2>24, <2>25 DEF EmbeddingInv
  <1>4. QED
    BY <1>2, <1>3

\* Every step of the client keeps the invariant.
LEMMA NextEmbeddingKeepsInv ==
    ASSUME EmbeddingLimits, EmbeddingInv, [NextEmbedding]_embedVars
    PROVE  EmbeddingInv'
  <1>1. CASE UNCHANGED embedVars
    BY <1>1 DEF EmbeddingInv, EmbeddingTypeOK, TilesSoFar, NothingTruncated, embedVars,
                Begins, EndsAll, Chain, Follows, IsInjective
  <1>2. CASE EmbedTexts
    BY <1>2, EmbedTextsKeepsInv
  <1>3. CASE EmbedQuery
    BY <1>3, EmbedQueryKeepsInv
  <1>4. CASE BatchAnswered \/ BatchShort \/ BatchTooLong
    BY <1>4, BatchKeepsInv
  <1>5. CASE TextAnswered
    BY <1>5, TextAnsweredKeepsInv
  <1>6. CASE TextShort
    BY <1>6, TextShortKeepsInv
  <1>7. CASE TextSplit
    BY <1>7, TextSplitKeepsInv
  <1>8. CASE Refused
    BY <1>8, GiveUpKeepsInv DEF Refused
  <1>9. QED
    BY <1>1, <1>2, <1>3, <1>4, <1>5, <1>6, <1>7, <1>8 DEF NextEmbedding

\* The invariant of the client holds for every set of texts, context length,
\* number of retries and size of the memory cache.
THEOREM EmbeddingInvariance ==
    ASSUME EmbeddingLimits
    PROVE  SpecEmbedding => []EmbeddingInv
  <1>1. InitEmbedding => EmbeddingInv
    BY InitEmbeddingInv
  <1>2. EmbeddingInv /\ [NextEmbedding]_embedVars => EmbeddingInv'
    BY NextEmbeddingKeepsInv
  <1>3. QED
    BY <1>1, <1>2, PTL DEF SpecEmbedding

\* A call that returns has embedded every word of every text, once and in
\* order, whatever short answers, retries and halvings it went through
\* (_embed_batch, _embed_text_no_truncation): the vectors line up with the texts.
THEOREM TextsEmbeddedWhole ==
    ASSUME EmbeddingLimits
    PROVE  SpecEmbedding => []NothingTruncated
  <1>1. EmbeddingInv => NothingTruncated
    BY DEF EmbeddingInv
  <1>2. QED
    BY <1>1, EmbeddingInvariance, PTL

-----------------------------------------------------------------------------
(* The understanding of a section: normalising.                            *)

\* Where something is listed, it is listed for the first time.
LEMMA FirstPlace ==
    ASSUME NEW E, NEW list \in Seq(E), NEW i \in DOMAIN list
    PROVE  \E k \in DOMAIN list : list[k] = list[i] /\ \A j \in 1 .. k - 1 : list[j] # list[k]
  <1> DEFINE Places == {k \in DOMAIN list : list[k] = list[i]}
  <1>1. Places \subseteq Nat /\ Places # {}
    OBVIOUS
  <1>2. PICK k \in Places : \A j \in Places : k <= j
    BY <1>1, LeastNumber
  <1>3. k \in DOMAIN list /\ list[k] = list[i]
    BY <1>2
  <1>4. ASSUME NEW j \in 1 .. k - 1
        PROVE  list[j] # list[k]
    <2>1. j \in DOMAIN list /\ ~(k <= j)
      BY <1>3
    <2>2. j \notin Places
      BY <1>2, <2>1
    <2>3. QED
      BY <1>3, <2>1, <2>2
  <1>5. QED
    BY <1>3, <1>4

\* References without repetition: the same ones, and none of them twice.
LEMMA DedupedFields ==
    ASSUME NEW E, NEW refs \in Seq(E)
    PROVE  /\ Deduped(refs) \in Seq(E)
           /\ IsInjective(Deduped(refs))
           /\ ToSet(Deduped(refs)) = ToSet(refs)
  <1> DEFINE places == {i \in DOMAIN refs : \A j \in 1 .. i - 1 : refs[j] # refs[i]}
  <1>1. PICK len \in Nat : len = Len(refs) /\ DOMAIN refs = 1 .. len
    OBVIOUS
  <1>2. Deduped(refs) = Kept(refs, places) /\ places \subseteq DOMAIN refs
    BY DEF Deduped
  <1>3. \A i, j \in places : refs[i] = refs[j] => i = j
    <2>1. \A i, j \in places : refs[i] = refs[j] => ~(i < j)
      <3>1. SUFFICES ASSUME NEW i \in places, NEW j \in places, refs[i] = refs[j], i < j
                     PROVE  FALSE
        OBVIOUS
      <3>2. i \in 1 .. len /\ j \in 1 .. len
        BY <1>1
      <3>3. i \in 1 .. j - 1
        BY <3>1, <3>2
      <3>4. QED
        BY <3>1, <3>3
    <2>2. \A i, j \in places : i \in 1 .. len /\ j \in 1 .. len
      BY <1>1
    <2>3. \A i, j \in places : i < j \/ j < i \/ i = j
      BY <2>2
    <2>4. QED
      BY <2>1, <2>3
  <1>4. \A x \in ToSet(refs) : \E i \in places : refs[i] = x
    <2>1. SUFFICES ASSUME NEW i \in DOMAIN refs
                   PROVE  \E k \in places : refs[k] = refs[i]
      BY DEF ToSet
    <2>2. PICK k \in DOMAIN refs : refs[k] = refs[i] /\ \A j \in 1 .. k - 1 : refs[j] # refs[k]
      BY FirstPlace
    <2>3. QED
      BY <2>2
  <1> HIDE DEF places
  <1> DEFINE kept == Kept(refs, places)
  <1>5. Deduped(refs) = kept
    BY <1>2
  <1>6. /\ kept \in Seq(E)
        /\ ToSet(kept) = {refs[i] : i \in places}
        /\ \A n, m \in DOMAIN kept :
              \E i, j \in places : kept[n] = refs[i] /\ kept[m] = refs[j] /\ (i = j => n = m)
    BY <1>2, KeptFields
  <1> HIDE DEF kept
  <1>7. IsInjective(kept)
    <2>1. SUFFICES ASSUME NEW n \in DOMAIN kept, NEW m \in DOMAIN kept, kept[n] = kept[m]
                   PROVE  n = m
      BY DEF IsInjective
    <2>2. PICK i \in places, j \in places : kept[n] = refs[i] /\ kept[m] = refs[j] /\ (i = j => n = m)
      BY <1>6
    <2>3. QED
      BY <1>3, <2>1, <2>2
  <1>8. ToSet(kept) = ToSet(refs)
    BY <1>2, <1>4, <1>6 DEF ToSet
  <1>9. QED
    BY <1>5, <1>6, <1>7, <1>8

\* References without repetition stay as they are.
LEMMA DedupedStays ==
    ASSUME NEW E, NEW refs \in Seq(E), IsInjective(refs)
    PROVE  Deduped(refs) = refs
  <1>1. PICK len \in Nat : len = Len(refs) /\ DOMAIN refs = 1 .. len
    OBVIOUS
  <1>2. \A i \in 1 .. len : \A j \in 1 .. i - 1 : refs[j] # refs[i]
    <2>1. SUFFICES ASSUME NEW i \in 1 .. len, NEW j \in 1 .. i - 1
                   PROVE  refs[j] # refs[i]
      OBVIOUS
    <2>2. j \in 1 .. len /\ j # i
      OBVIOUS
    <2>3. QED
      BY <1>1, <2>2 DEF IsInjective
  <1>3. {i \in DOMAIN refs : \A j \in 1 .. i - 1 : refs[j] # refs[i]} = DOMAIN refs
    BY <1>1, <1>2
  <1>4. QED
    BY <1>3, KeptWhole, Zenon DEF Deduped

\* A context is checked once: what is verifiable has its basis.
LEMMA CheckedFields ==
    ASSUME NEW c \in AnswerCheckContext
    PROVE  /\ Checked(c) \in AnswerCheckContext
           /\ Checked(c).item = c.item /\ Checked(c).type = c.type
           /\ Checked(c).basis = c.basis
           /\ Checked(Checked(c)) = Checked(c)
           /\ Checked(c).verify =>
                 c.basis # {} /\ (c.type = "checkpoint" => "rubric" \in c.basis)
           /\ ~c.verify => Checked(c) = c
  BY DEF AnswerCheckContext, Checked

\* Contexts in normal form: checked ones, of some items, no two of the same.
Neat(contexts, items) ==
    /\ contexts \in Seq(AnswerCheckContext)
    /\ \A i \in DOMAIN contexts : contexts[i].item \in items /\ Checked(contexts[i]) = contexts[i]
    /\ \A i, j \in DOMAIN contexts : contexts[i].item = contexts[j].item => i = j

LEMMA CheckedContextsNeat ==
    ASSUME NEW a, a.contexts \in Seq(AnswerCheckContext)
    PROVE  Neat(CheckedContexts(a), Tasks(a))
  <1> DEFINE places == {i \in DOMAIN a.contexts :
                           /\ a.contexts[i].item \in Tasks(a)
                           /\ \A j \in 1 .. i - 1 : a.contexts[j].item # a.contexts[i].item}
             checked == [i \in DOMAIN a.contexts |-> Checked(a.contexts[i])]
  <1>1. PICK E : E = AnswerCheckContext
    OBVIOUS
  <1>2. PICK contexts \in Seq(E) : contexts = a.contexts
    BY <1>1
  <1>3. PICK len \in Nat : len = Len(contexts) /\ DOMAIN contexts = 1 .. len
    OBVIOUS
  <1>4. CheckedContexts(a) = Kept(checked, places)
    BY DEF CheckedContexts
  <1>5. \A i \in DOMAIN contexts :
           /\ checked[i] = Checked(contexts[i]) /\ checked[i] \in E
           /\ checked[i].item = contexts[i].item
           /\ Checked(checked[i]) = checked[i]
    <2>1. \A i \in DOMAIN contexts : contexts[i] \in E /\ checked[i] = Checked(contexts[i])
      BY <1>2
    <2>2. QED
      BY <1>1, <2>1, CheckedFields
  <1>6. checked \in Seq(E) /\ DOMAIN checked = 1 .. len
    <2>1. checked = [i \in 1 .. len |-> Checked(contexts[i])]
      BY <1>2, <1>3
    <2>2. \A i \in 1 .. len : Checked(contexts[i]) \in E
      BY <1>3, <1>5
    <2>3. [i \in 1 .. len |-> Checked(contexts[i])] \in [1 .. len -> E]
      BY <2>2
    <2>4. QED
      BY <2>1, <2>3
  <1>7. places \subseteq DOMAIN checked
    BY <1>2, <1>3, <1>6
  <1>8. \A i \in places : checked[i].item \in Tasks(a) /\ Checked(checked[i]) = checked[i]
    BY <1>2, <1>5
  <1>9. \A i, j \in places : checked[i].item = checked[j].item => i = j
    <2>1. \A i, j \in places : checked[i].item = checked[j].item => ~(i < j)
      <3>1. SUFFICES ASSUME NEW i \in places, NEW j \in places,
                            checked[i].item = checked[j].item, i < j
                     PROVE  FALSE
        OBVIOUS
      <3>2. i \in 1 .. len /\ j \in 1 .. len
        BY <1>6, <1>7
      <3>3. i \in 1 .. j - 1
        BY <3>1, <3>2
      <3>4. contexts[i].item = contexts[j].item
        BY <1>3, <1>5, <3>1, <3>2
      <3>5. QED
        BY <1>2, <3>1, <3>3, <3>4
    <2>2. \A i, j \in places : i \in 1 .. len /\ j \in 1 .. len
      BY <1>6, <1>7
    <2>3. \A i, j \in places : i < j \/ j < i \/ i = j
      BY <2>2
    <2>4. QED
      BY <2>1, <2>3
  <1> HIDE DEF places, checked
  <1> DEFINE kept == Kept(checked, places)
  <1>10. CheckedContexts(a) = kept
    BY <1>4
  <1>11. /\ kept \in Seq(E)
         /\ \A n, m \in DOMAIN kept :
               \E i, j \in places : kept[n] = checked[i] /\ kept[m] = checked[j] /\ (i = j => n = m)
    BY <1>6, <1>7, KeptFields
  <1> HIDE DEF kept
  <1>12. ASSUME NEW n \in DOMAIN kept
         PROVE  kept[n].item \in Tasks(a) /\ Checked(kept[n]) = kept[n]
    <2>1. PICK i \in places : kept[n] = checked[i]
      BY <1>11
    <2>2. QED
      BY <1>8, <2>1
  <1>13. ASSUME NEW n \in DOMAIN kept, NEW m \in DOMAIN kept, kept[n].item = kept[m].item
         PROVE  n = m
    <2>1. PICK i \in places, j \in places :
             kept[n] = checked[i] /\ kept[m] = checked[j] /\ (i = j => n = m)
      BY <1>11
    <2>2. checked[i].item = checked[j].item
      BY <1>13, <2>1
    <2>3. QED
      BY <1>9, <2>1, <2>2
  <1>14. QED
    BY <1>1, <1>10, <1>11, <1>12, <1>13 DEF Neat

\* Contexts in normal form stay as they are.
LEMMA NeatStays ==
    ASSUME NEW a, Neat(a.contexts, Tasks(a))
    PROVE  CheckedContexts(a) = a.contexts
  <1>1. PICK contexts \in Seq(AnswerCheckContext) : contexts = a.contexts
    BY DEF Neat
  <1>2. PICK len \in Nat : len = Len(contexts) /\ DOMAIN contexts = 1 .. len
    OBVIOUS
  <1>3. \A i \in DOMAIN contexts : Checked(contexts[i]) = contexts[i] /\ contexts[i].item \in Tasks(a)
    BY <1>1 DEF Neat
  <1>4. \A i, j \in DOMAIN contexts : contexts[i].item = contexts[j].item => i = j
    BY <1>1 DEF Neat
  <1>5. [i \in DOMAIN contexts |-> Checked(contexts[i])] = contexts
    <2>1. [i \in DOMAIN contexts |-> Checked(contexts[i])] = [i \in DOMAIN contexts |-> contexts[i]]
      BY <1>3
    <2>2. QED
      BY <2>1
  <1>6. \A i \in 1 .. len : \A j \in 1 .. i - 1 : contexts[j].item # contexts[i].item
    <2>1. SUFFICES ASSUME NEW i \in 1 .. len, NEW j \in 1 .. i - 1
                   PROVE  contexts[j].item # contexts[i].item
      OBVIOUS
    <2>2. j \in 1 .. len /\ j # i
      OBVIOUS
    <2>3. QED
      BY <1>2, <1>4, <2>2
  <1>7. {i \in DOMAIN contexts :
            /\ contexts[i].item \in Tasks(a)
            /\ \A j \in 1 .. i - 1 : contexts[j].item # contexts[i].item} = DOMAIN contexts
    BY <1>2, <1>3, <1>6
  <1>8. Kept(contexts, DOMAIN contexts) = contexts
    BY KeptWhole
  <1>9. CheckedContexts(a) =
           Kept([i \in DOMAIN contexts |-> Checked(contexts[i])],
                {i \in DOMAIN contexts :
                    /\ contexts[i].item \in Tasks(a)
                    /\ \A j \in 1 .. i - 1 : contexts[j].item # contexts[i].item})
    BY <1>1 DEF CheckedContexts
  <1>10. QED
    BY <1>1, <1>5, <1>7, <1>8, <1>9

\* Placeholders: every reference gets a context, and the contexts stay neat.
LEMMA WithPlaceholdersNeat ==
    ASSUME NEW contexts, NEW items, Neat(contexts, items), items \subseteq Items,
           NEW refs \in Seq(Items), IsInjective(refs), ToSet(refs) \subseteq items,
           NEW type \in {"exercise", "checkpoint"}
    PROVE  /\ Neat(WithPlaceholders(contexts, refs, type), items)
           /\ ItemsOf(WithPlaceholders(contexts, refs, type)) = ItemsOf(contexts) \cup ToSet(refs)
  <1> DEFINE places == {i \in DOMAIN refs : refs[i] \notin ItemsOf(contexts)}
             missing == Kept(refs, places)
             unverifiable(r) == [item |-> r, type |-> type, verify |-> FALSE, basis |-> {}]
             more == [n \in DOMAIN missing |-> unverifiable(missing[n])]
             all == contexts \o more
  <1>1. WithPlaceholders(contexts, refs, type) = all
    BY DEF WithPlaceholders
  <1>2. PICK E : E = AnswerCheckContext
    OBVIOUS
  <1>3. \A r \in Items : unverifiable(r) \in E /\ unverifiable(r).item = r /\ ~unverifiable(r).verify
    BY <1>2 DEF AnswerCheckContext, Bases
  <1>4. contexts \in Seq(E) /\ \A i \in DOMAIN contexts : contexts[i] \in E
    BY <1>2 DEF Neat
  <1>5. /\ places \subseteq DOMAIN refs
        /\ \A i, j \in places : refs[i] = refs[j] => i = j
        /\ \A i \in places : refs[i] \notin ItemsOf(contexts) /\ refs[i] \in items
        /\ ToSet(refs) \subseteq ItemsOf(contexts) \cup {refs[i] : i \in places}
    BY DEF IsInjective, ToSet
  <1> HIDE DEF places
  <1>6. /\ missing \in Seq(Items)
        /\ ToSet(missing) = {refs[i] : i \in places}
        /\ \A n, m \in DOMAIN missing :
              \E i, j \in places : missing[n] = refs[i] /\ missing[m] = refs[j] /\ (i = j => n = m)
    BY <1>5, KeptFields
  <1> HIDE DEF missing
  <1>7. PICK len \in Nat : len = Len(contexts) /\ DOMAIN contexts = 1 .. len
    BY <1>4
  <1>8. PICK extra \in Nat : extra = Len(missing) /\ DOMAIN missing = 1 .. extra
    BY <1>6
  <1>9. \A n \in 1 .. extra :
           missing[n] \in Items /\ missing[n] \in items /\ missing[n] \notin ItemsOf(contexts)
    <2>1. SUFFICES ASSUME NEW n \in 1 .. extra
                   PROVE  missing[n] \in Items /\ missing[n] \in items
                          /\ missing[n] \notin ItemsOf(contexts)
      OBVIOUS
    <2>2. PICK i \in places : missing[n] = refs[i]
      BY <1>6, <1>8
    <2>3. QED
      BY <1>5, <2>2
  <1>10. \A n, m \in 1 .. extra : missing[n] = missing[m] => n = m
    <2>1. SUFFICES ASSUME NEW n \in 1 .. extra, NEW m \in 1 .. extra, missing[n] = missing[m]
                   PROVE  n = m
      OBVIOUS
    <2>2. PICK i \in places, j \in places :
             missing[n] = refs[i] /\ missing[m] = refs[j] /\ (i = j => n = m)
      BY <1>6, <1>8
    <2>3. QED
      BY <1>5, <2>1, <2>2
  <1>11. more = [n \in 1 .. extra |-> unverifiable(missing[n])]
    BY <1>8
  <1>12. \A n \in 1 .. extra : /\ more[n] \in E
                               /\ more[n] = unverifiable(missing[n])
                               /\ more[n].item = missing[n]
                               /\ Checked(more[n]) = more[n]
    <2>1. SUFFICES ASSUME NEW n \in 1 .. extra
                   PROVE  /\ more[n] \in E
                          /\ more[n] = unverifiable(missing[n])
                          /\ more[n].item = missing[n]
                          /\ Checked(more[n]) = more[n]
      OBVIOUS
    <2>2. more[n] = unverifiable(missing[n])
      BY <1>11
    <2>3. more[n] \in E /\ more[n].item = missing[n] /\ ~more[n].verify
      BY <1>3, <1>9, <2>2
    <2>4. QED
      BY <1>2, <2>2, <2>3, CheckedFields
  <1> HIDE DEF more, unverifiable
  <1>13. more \in Seq(E) /\ Len(more) = extra /\ DOMAIN more = 1 .. extra
    <2>1. more \in [1 .. extra -> E]
      BY <1>11, <1>12
    <2>2. QED
      BY <1>8, <2>1
  <1>14. /\ all \in Seq(E) /\ DOMAIN all = 1 .. len + extra
         /\ \A i \in 1 .. len : all[i] = contexts[i]
         /\ \A n \in 1 .. extra : all[len + n] = more[n]
    <2>1. all \in Seq(E) /\ Len(all) = len + extra
      <3>1. Len(all) = len + extra
        <4>1. contexts \in Seq(E) /\ more \in Seq(E)
          BY <1>4, <1>13
        <4>2. Len(all) = Len(contexts) + Len(more)
          BY <4>1
        <4>3. QED
          BY <1>7, <1>13, <4>2
      <3>2. all \in Seq(E)
        BY <1>4, <1>13
      <3>3. QED
        BY <3>1, <3>2
    <2>2. \A i \in 1 .. len + extra :
             all[i] = IF i <= len THEN contexts[i] ELSE more[i - len]
      BY <1>4, <1>7, <1>8, <1>13
    <2> HIDE DEF all
    <2>3. \A i \in 1 .. len : i \in 1 .. len + extra /\ i <= len
      BY <1>7, <1>8
    <2>4. \A n \in 1 .. extra : /\ len + n \in 1 .. len + extra
                                /\ ~(len + n <= len) /\ (len + n) - len = n
      BY <1>7, <1>8
    <2>5. \A i \in 1 .. len : all[i] = contexts[i]
      BY <2>2, <2>3
    <2>6. \A n \in 1 .. extra : all[len + n] = more[n]
      BY <2>2, <2>4
    <2>7. DOMAIN all = 1 .. len + extra
      BY <2>1
    <2>8. QED
      BY <2>1, <2>5, <2>6, <2>7
  <1>15. \A i \in 1 .. len + extra :
            \/ i \in 1 .. len
            \/ \E n \in 1 .. extra : i = len + n
    <2>1. \A i \in 1 .. len + extra : i \in 1 .. len \/ (i - len \in 1 .. extra /\ i = len + (i - len))
      BY <1>7, <1>8
    <2>2. QED
      BY <2>1
  <1> HIDE DEF all
  <1>16. \A i \in 1 .. len : /\ contexts[i].item \in items /\ contexts[i].item \in ItemsOf(contexts)
                             /\ Checked(contexts[i]) = contexts[i]
    BY <1>7 DEF Neat, ItemsOf
  <1>17. ASSUME NEW i \in 1 .. len + extra
         PROVE  all[i].item \in items /\ Checked(all[i]) = all[i]
    <2>1. CASE i \in 1 .. len
      BY <1>14, <1>16, <2>1
    <2>2. CASE \E n \in 1 .. extra : i = len + n
      <3>1. PICK n \in 1 .. extra : i = len + n
        BY <2>2
      <3>2. all[i] = more[n]
        BY <1>14, <3>1
      <3>3. QED
        BY <1>9, <1>12, <3>2
    <2>3. QED
      BY <1>15, <2>1, <2>2
  <1>18. ASSUME NEW i \in 1 .. len + extra, NEW j \in 1 .. len + extra, all[i].item = all[j].item
         PROVE  i = j
    <2>1. CASE i \in 1 .. len /\ j \in 1 .. len
      BY <1>7, <1>14, <1>18, <2>1 DEF Neat
    <2>2. CASE i \in 1 .. len /\ \E n \in 1 .. extra : j = len + n
      <3>1. PICK n \in 1 .. extra : j = len + n
        BY <2>2
      <3>2. all[j].item = missing[n] /\ missing[n] \notin ItemsOf(contexts)
        BY <1>9, <1>12, <1>14, <3>1
      <3>3. all[i].item \in ItemsOf(contexts)
        BY <1>14, <1>16, <2>2
      <3>4. QED
        BY <1>18, <3>2, <3>3
    <2>3. CASE j \in 1 .. len /\ \E n \in 1 .. extra : i = len + n
      <3>1. PICK n \in 1 .. extra : i = len + n
        BY <2>3
      <3>2. all[i].item = missing[n] /\ missing[n] \notin ItemsOf(contexts)
        BY <1>9, <1>12, <1>14, <3>1
      <3>3. all[j].item \in ItemsOf(contexts)
        BY <1>14, <1>16, <2>3
      <3>4. QED
        BY <1>18, <3>2, <3>3
    <2>4. CASE (\E n \in 1 .. extra : i = len + n) /\ (\E m \in 1 .. extra : j = len + m)
      <3>1. PICK n \in 1 .. extra : i = len + n
        BY <2>4
      <3>2. PICK m \in 1 .. extra : j = len + m
        BY <2>4
      <3>3. missing[n] = missing[m]
        BY <1>12, <1>14, <1>18, <3>1, <3>2
      <3>4. n = m
        BY <1>10, <3>3
      <3>5. QED
        BY <3>1, <3>2, <3>4
    <2>5. QED
      BY <1>15, <2>1, <2>2, <2>3, <2>4
  <1>19. Neat(all, items)
    BY <1>2, <1>14, <1>17, <1>18 DEF Neat
  <1>20. ItemsOf(all) = ItemsOf(contexts) \cup ToSet(refs)
    <2>1. ItemsOf(all) = {all[i].item : i \in 1 .. len + extra}
      BY <1>14 DEF ItemsOf
    <2>2. ItemsOf(contexts) = {contexts[i].item : i \in 1 .. len}
      BY <1>7 DEF ItemsOf
    <2>3. \A r \in ToSet(missing) : \E n \in 1 .. extra : missing[n] = r
      BY <1>8 DEF ToSet
    <2>4. ToSet(missing) \subseteq ToSet(refs)
      <3>1. places \subseteq DOMAIN refs
        BY DEF places
      <3>2. QED
        BY <1>6, <3>1 DEF ToSet
    <2>5. \A n \in 1 .. extra : missing[n] \in ToSet(refs)
      BY <1>8, <2>4 DEF ToSet
    <2>6. \A i \in 1 .. len + extra : all[i].item \in ItemsOf(contexts) \cup ToSet(refs)
      <3>1. SUFFICES ASSUME NEW i \in 1 .. len + extra
                     PROVE  all[i].item \in ItemsOf(contexts) \cup ToSet(refs)
        OBVIOUS
      <3>2. CASE i \in 1 .. len
        BY <1>14, <1>16, <3>2
      <3>3. CASE \E n \in 1 .. extra : i = len + n
        <4>1. PICK n \in 1 .. extra : i = len + n
          BY <3>3
        <4>2. all[i].item = missing[n]
          BY <1>12, <1>14, <4>1
        <4>3. QED
          BY <2>5, <4>2
      <3>4. QED
        BY <1>15, <3>2, <3>3
    <2>7. \A i \in 1 .. len : i \in 1 .. len + extra /\ all[i].item = contexts[i].item
      BY <1>14
    <2>8. \A n \in 1 .. extra : len + n \in 1 .. len + extra /\ all[len + n].item = missing[n]
      <3>1. \A n \in 1 .. extra : len + n \in 1 .. len + extra
        BY <1>7, <1>8
      <3>2. QED
        BY <1>12, <1>14, <3>1
    <2>9. ItemsOf(contexts) \subseteq ItemsOf(all)
      BY <2>1, <2>2, <2>7
    <2>10. ToSet(missing) \subseteq ItemsOf(all)
      BY <2>1, <2>3, <2>8
    <2>11. ToSet(refs) \subseteq ItemsOf(contexts) \cup ToSet(missing)
      BY <1>6, <1>5
    <2>12. ItemsOf(all) \subseteq ItemsOf(contexts) \cup ToSet(refs)
      BY <2>1, <2>6
    <2>13. QED
      BY <2>9, <2>10, <2>11, <2>12
  <1>21. QED
    BY <1>1, <1>19, <1>20

\* Where every reference has a context there are no placeholders.
LEMMA WithPlaceholdersStays ==
    ASSUME NEW contexts \in Seq(AnswerCheckContext), NEW refs, NEW type,
           ToSet(refs) \subseteq ItemsOf(contexts)
    PROVE  WithPlaceholders(contexts, refs, type) = contexts
  <1> DEFINE unverifiable(r) == [item |-> r, type |-> type, verify |-> FALSE, basis |-> {}]
             missing == Kept(refs, {i \in DOMAIN refs : refs[i] \notin ItemsOf(contexts)})
             more == [n \in DOMAIN missing |-> unverifiable(missing[n])]
  <1>1. {i \in DOMAIN refs : refs[i] \notin ItemsOf(contexts)} = {}
    BY DEF ToSet
  <1>2. missing = <<>>
    BY <1>1, KeptNone, Zenon
  <1>3. WithPlaceholders(contexts, refs, type) = contexts \o more
    BY DEF WithPlaceholders
  <1> HIDE DEF missing, unverifiable
  <1>4. more = <<>>
    BY <1>2
  <1> HIDE DEF more
  <1>5. contexts \o <<>> = contexts
    OBVIOUS
  <1>6. QED
    BY <1>3, <1>4, <1>5

\* Of a list without repetition, or of neat contexts, a part is such a list again.
LEMMA KeptInjective ==
    ASSUME NEW E, NEW list \in Seq(E), IsInjective(list), NEW places, places \subseteq DOMAIN list
    PROVE  IsInjective(Kept(list, places))
  <1> DEFINE kept == Kept(list, places)
  <1>1. \A n, m \in DOMAIN kept :
           \E i, j \in places : kept[n] = list[i] /\ kept[m] = list[j] /\ (i = j => n = m)
    BY KeptFields
  <1> HIDE DEF kept
  <1>2. SUFFICES ASSUME NEW n \in DOMAIN kept, NEW m \in DOMAIN kept, kept[n] = kept[m]
                 PROVE  n = m
    BY DEF IsInjective, kept
  <1>3. PICK i \in places, j \in places : kept[n] = list[i] /\ kept[m] = list[j] /\ (i = j => n = m)
    BY <1>1
  <1>4. QED
    BY <1>2, <1>3 DEF IsInjective

LEMMA KeptNeat ==
    ASSUME NEW contexts, NEW items, Neat(contexts, items), NEW places, NEW some,
           places \subseteq DOMAIN contexts, \A i \in places : contexts[i].item \in some
    PROVE  /\ Neat(Kept(contexts, places), some)
           /\ ToSet(Kept(contexts, places)) = {contexts[i] : i \in places}
  <1> DEFINE kept == Kept(contexts, places)
  <1>1. contexts \in Seq(AnswerCheckContext)
    BY DEF Neat
  <1>2. /\ kept \in Seq(AnswerCheckContext)
        /\ ToSet(kept) = {contexts[i] : i \in places}
        /\ \A n, m \in DOMAIN kept :
              \E i, j \in places : kept[n] = contexts[i] /\ kept[m] = contexts[j] /\ (i = j => n = m)
    BY <1>1, KeptFields
  <1> HIDE DEF kept
  <1>3. ASSUME NEW n \in DOMAIN kept
        PROVE  kept[n].item \in some /\ Checked(kept[n]) = kept[n]
    <2>1. PICK i \in places : kept[n] = contexts[i]
      BY <1>2
    <2>2. QED
      BY <2>1 DEF Neat
  <1>4. ASSUME NEW n \in DOMAIN kept, NEW m \in DOMAIN kept, kept[n].item = kept[m].item
        PROVE  n = m
    <2>1. PICK i \in places, j \in places :
             kept[n] = contexts[i] /\ kept[m] = contexts[j] /\ (i = j => n = m)
      BY <1>2
    <2>2. contexts[i].item = contexts[j].item
      BY <1>4, <2>1
    <2>3. QED
      BY <2>1, <2>2 DEF Neat
  <1>5. QED
    BY <1>2, <1>3, <1>4 DEF Neat, kept

\* An artifact whose tasks and contexts are replaced.
LEMMA ArtifactFields ==
    ASSUME NEW a \in Artifact
    PROVE  /\ a.role \in Roles /\ a.exercises \in Seq(Items) /\ a.checkpoints \in Seq(Items)
           /\ a.contexts \in Seq(AnswerCheckContext) /\ a.actions \subseteq Actions
           /\ Tasks(a) \subseteq Items
  <1>1. /\ a.role \in Roles /\ a.exercises \in Seq(Items) /\ a.checkpoints \in Seq(Items)
        /\ a.contexts \in Seq(AnswerCheckContext) /\ a.actions \subseteq Actions
    BY DEF Artifact
  <1>2. ToSet(a.exercises) \subseteq Items
    BY <1>1 DEF ToSet
  <1>3. ToSet(a.checkpoints) \subseteq Items
    BY <1>1 DEF ToSet
  <1>4. QED
    BY <1>1, <1>2, <1>3 DEF Tasks

Reworked(a, e, c, x) == [a EXCEPT !.exercises = e, !.checkpoints = c, !.contexts = x]

LEMMA ReworkedFields ==
    ASSUME NEW a \in Artifact, NEW e \in Seq(Items), NEW c \in Seq(Items),
           NEW x \in Seq(AnswerCheckContext)
    PROVE  /\ Reworked(a, e, c, x) \in Artifact
           /\ Reworked(a, e, c, x).role = a.role
           /\ Reworked(a, e, c, x).exercises = e
           /\ Reworked(a, e, c, x).checkpoints = c
           /\ Reworked(a, e, c, x).contexts = x
           /\ e = a.exercises /\ c = a.checkpoints /\ x = a.contexts => Reworked(a, e, c, x) = a
  BY DEF Artifact, Reworked

LEMMA NormalizeByRole ==
    ASSUME NEW a
    PROVE  /\ a.role \in Lightweight => Normalize(a) = NormalizeLightweight(a)
           /\ a.role = "review" => Normalize(a) = NormalizeReview(a)
           /\ a.role \in TaskBearing => Normalize(a) = NormalizeTasks(a)
           /\ a.role \notin Lightweight \cup {"review"} \cup TaskBearing =>
                 Normalize(a) = NormalizeOther(a)
  BY DEF Normalize, Lightweight, TaskBearing

\* Artifacts as normalising leaves them.
NormalForm(a) ==
    IF a.role \in Lightweight
    THEN /\ a.dwell = FALSE /\ a.asks = (a.role = "formula_reference")
         /\ a.exercises = <<>> /\ a.checkpoints = <<>> /\ a.contexts = <<>>
         /\ a.actions # {} /\ "assign_exercise" \notin a.actions
         /\ a.role # "formula_reference" => "ask_question" \notin a.actions
    ELSE /\ IsInjective(a.exercises) /\ IsInjective(a.checkpoints)
         /\ Neat(a.contexts, Tasks(a))
         /\ a.role = "review" => \A r \in ToSet(a.checkpoints) :
               \E c \in ToSet(a.contexts) : c.item = r /\ c.type = "checkpoint" /\ c.verify
         /\ a.role \in TaskBearing => Tasks(a) \subseteq ItemsOf(a.contexts)

LEMMA NormalizeLightweightIsNormal ==
    ASSUME NEW a \in Artifact, a.role \in Lightweight
    PROVE  /\ NormalizeLightweight(a) \in Artifact
           /\ NormalForm(NormalizeLightweight(a))
           /\ NormalForm(a) => NormalizeLightweight(a) = a
  <1> DEFINE asks == a.role = "formula_reference"
             left == a.actions \ ({"assign_exercise"} \cup (IF asks THEN {} ELSE {"ask_question"}))
             advice == IF left = {} THEN {"teach"} ELSE left
             b == NormalizeLightweight(a)
  <1>1. b = [a EXCEPT !.dwell = FALSE, !.asks = asks, !.exercises = <<>>, !.checkpoints = <<>>,
                      !.contexts = <<>>, !.actions = advice]
    BY DEF NormalizeLightweight
  <1>2. /\ advice \subseteq Actions /\ advice # {} /\ "assign_exercise" \notin advice
        /\ ~asks => "ask_question" \notin advice
    BY ArtifactFields DEF Actions
  <1>3. NormalForm(a) => advice = a.actions /\ asks = a.asks
    BY DEF NormalForm
  <1>4. asks \in BOOLEAN
    OBVIOUS
  <1> HIDE DEF advice, asks, b
  <1>5. /\ b \in Artifact /\ b.role = a.role /\ b.dwell = FALSE /\ b.asks = asks
        /\ b.exercises = <<>> /\ b.checkpoints = <<>> /\ b.contexts = <<>> /\ b.actions = advice
    <2>1. <<>> \in Seq(Items) /\ <<>> \in Seq(AnswerCheckContext)
      OBVIOUS
    <2>2. QED
      BY <1>1, <1>2, <1>4, <2>1 DEF Artifact
  <1>6. NormalForm(b)
    BY <1>2, <1>5 DEF NormalForm, asks
  <1>7. ASSUME NormalForm(a)
        PROVE  b = a
    <2>1. /\ a.dwell = FALSE /\ a.asks = asks /\ a.actions = advice
          /\ a.exercises = <<>> /\ a.checkpoints = <<>> /\ a.contexts = <<>>
      BY <1>3, <1>7 DEF NormalForm
    <2>2. QED
      BY <1>1, <2>1 DEF Artifact
  <1>8. QED
    BY <1>5, <1>6, <1>7 DEF b

LEMMA NormalizeReviewIsNormal ==
    ASSUME NEW a \in Artifact, a.role = "review"
    PROVE  /\ NormalizeReview(a) \in Artifact
           /\ NormalForm(NormalizeReview(a))
           /\ NormalForm(a) => NormalizeReview(a) = a
  <1> DEFINE contexts == CheckedContexts(a)
             exercises == Deduped(a.exercises)
             refs == Deduped(a.checkpoints)
             verified == {k \in DOMAIN contexts :
                             contexts[k].type = "checkpoint" /\ contexts[k].verify}
             verifiable == {contexts[i].item : i \in verified}
             places == {i \in DOMAIN refs : refs[i] \in verifiable}
             checkpoints == Kept(refs, places)
             allowed == ToSet(exercises) \cup ToSet(checkpoints)
             used == {i \in DOMAIN contexts : contexts[i].item \in allowed}
             b == [a EXCEPT !.exercises = exercises, !.checkpoints = checkpoints,
                            !.contexts = Kept(contexts, used)]
  <1>1. NormalizeReview(a) = b
    BY DEF NormalizeReview
  <1>2. /\ a.exercises \in Seq(Items) /\ a.checkpoints \in Seq(Items)
        /\ a.contexts \in Seq(AnswerCheckContext)
    BY ArtifactFields
  <1>3. /\ exercises \in Seq(Items) /\ IsInjective(exercises)
        /\ refs \in Seq(Items) /\ IsInjective(refs)
    BY <1>2, DedupedFields
  <1>4. Neat(contexts, Tasks(a))
    BY <1>2, CheckedContextsNeat
  <1> HIDE DEF contexts, exercises, refs
  <1>5. /\ checkpoints \in Seq(Items)
        /\ ToSet(checkpoints) = {refs[i] : i \in places}
        /\ IsInjective(checkpoints)
    <2>1. places \subseteq DOMAIN refs
      OBVIOUS
    <2> HIDE DEF places
    <2>2. QED
      BY <1>3, <2>1, KeptFields, KeptInjective
  <1>6. /\ Neat(Kept(contexts, used), allowed)
        /\ ToSet(Kept(contexts, used)) = {contexts[i] : i \in used}
    <2>1. used \subseteq DOMAIN contexts /\ \A i \in used : contexts[i].item \in allowed
      OBVIOUS
    <2> HIDE DEF used, allowed
    <2>2. QED
      BY <1>4, <2>1, KeptNeat
  <1> HIDE DEF checkpoints
  <1>7. Kept(contexts, used) \in Seq(AnswerCheckContext)
    BY <1>6, Zenon DEF Neat
  <1>8. PICK x \in Seq(AnswerCheckContext) : x = Kept(contexts, used)
    BY <1>7
  <1>9. /\ b \in Artifact /\ b.role = a.role
        /\ b.exercises = exercises /\ b.checkpoints = checkpoints /\ b.contexts = x
    <2>1. b = Reworked(a, exercises, checkpoints, x)
      BY <1>8 DEF Reworked
    <2> HIDE DEF b
    <2>2. /\ exercises \in Seq(Items) /\ checkpoints \in Seq(Items)
          /\ x \in Seq(AnswerCheckContext)
      BY <1>3, <1>5, <1>8
    <2>3. QED
      BY <2>1, <2>2, ReworkedFields
  <1> HIDE DEF b
  <1>10. Tasks(b) = allowed
    BY <1>9 DEF Tasks
  <1>11. ASSUME NEW r \in ToSet(checkpoints)
         PROVE  \E c \in ToSet(x) : c.item = r /\ c.type = "checkpoint" /\ c.verify
    <2>1. PICK k \in verified : contexts[k].item = r
      BY <1>5
    <2>2. k \in used
      BY <1>11, <2>1
    <2>3. contexts[k] \in ToSet(x)
      BY <1>6, <1>8, <2>2
    <2>4. contexts[k].type = "checkpoint" /\ contexts[k].verify
      BY <2>1
    <2>5. QED
      BY <2>1, <2>3, <2>4
  <1>12. Neat(x, Tasks(b))
    BY <1>6, <1>8, <1>10, Zenon
  <1>13. "review" \notin Lightweight /\ "review" \notin TaskBearing
    BY DEF Lightweight, TaskBearing
  <1>14. NormalForm(b)
    BY <1>3, <1>5, <1>9, <1>11, <1>12, <1>13 DEF NormalForm
  <1>15. ASSUME NormalForm(a)
         PROVE  b = a
    <2>1. /\ IsInjective(a.exercises) /\ IsInjective(a.checkpoints)
          /\ Neat(a.contexts, Tasks(a))
          /\ \A r \in ToSet(a.checkpoints) :
                \E c \in ToSet(a.contexts) : c.item = r /\ c.type = "checkpoint" /\ c.verify
      BY <1>13, <1>15 DEF NormalForm
    <2>2. exercises = a.exercises /\ refs = a.checkpoints /\ contexts = a.contexts
      BY <1>2, <2>1, DedupedStays, NeatStays DEF exercises, refs, contexts
    <2>3. \A i \in DOMAIN refs : refs[i] \in verifiable
      <3>1. SUFFICES ASSUME NEW i \in DOMAIN refs
                     PROVE  refs[i] \in verifiable
        OBVIOUS
      <3>2. refs[i] \in ToSet(a.checkpoints)
        BY <2>2, <3>1 DEF ToSet
      <3>3. PICK c \in ToSet(a.contexts) : c.item = refs[i] /\ c.type = "checkpoint" /\ c.verify
        BY <2>1, <3>2
      <3>4. PICK k \in DOMAIN contexts : contexts[k] = c
        BY <2>2, <3>3 DEF ToSet
      <3>5. QED
        BY <3>3, <3>4
    <2>4. places = DOMAIN refs
      BY <2>3
    <2>5. checkpoints = a.checkpoints
      BY <1>2, <2>2, <2>4, KeptWhole DEF checkpoints
    <2>6. allowed = Tasks(a)
      BY <2>2, <2>5 DEF Tasks
    <2>7. used = DOMAIN contexts
      BY <2>1, <2>2, <2>6 DEF Neat
    <2>8. x = a.contexts
      BY <1>2, <1>8, <2>2, <2>7, KeptWhole
    <2>9. b = Reworked(a, exercises, checkpoints, x)
      BY <1>8 DEF b, Reworked
    <2>10. /\ exercises \in Seq(Items) /\ checkpoints \in Seq(Items)
           /\ x \in Seq(AnswerCheckContext)
      BY <1>3, <1>5, <1>8
    <2>11. QED
      BY <2>2, <2>5, <2>8, <2>9, <2>10, ReworkedFields
  <1>16. QED
    BY <1>1, <1>9, <1>14, <1>15

LEMMA NormalizeTasksIsNormal ==
    ASSUME NEW a \in Artifact, a.role \in TaskBearing
    PROVE  /\ NormalizeTasks(a) \in Artifact
           /\ NormalForm(NormalizeTasks(a))
           /\ NormalForm(a) => NormalizeTasks(a) = a
  <1> DEFINE contexts == CheckedContexts(a)
             exercises == Deduped(a.exercises)
             checkpoints == Deduped(a.checkpoints)
             some == WithPlaceholders(contexts, exercises, "exercise")
             all == WithPlaceholders(some, checkpoints, "checkpoint")
             b == NormalizeTasks(a)
  <1>1. b = Reworked(a, exercises, checkpoints, all)
    BY DEF NormalizeTasks, Reworked
  <1>2. /\ a.exercises \in Seq(Items) /\ a.checkpoints \in Seq(Items)
        /\ a.contexts \in Seq(AnswerCheckContext) /\ Tasks(a) \subseteq Items
    BY ArtifactFields
  <1>3. /\ exercises \in Seq(Items) /\ IsInjective(exercises)
        /\ checkpoints \in Seq(Items) /\ IsInjective(checkpoints)
        /\ ToSet(exercises) = ToSet(a.exercises) /\ ToSet(checkpoints) = ToSet(a.checkpoints)
    BY <1>2, DedupedFields
  <1>4. ToSet(exercises) \subseteq Tasks(a) /\ ToSet(checkpoints) \subseteq Tasks(a)
    BY <1>3 DEF Tasks
  <1>5. Neat(contexts, Tasks(a))
    BY <1>2, CheckedContextsNeat
  <1> HIDE DEF contexts, exercises, checkpoints
  <1>6. Neat(some, Tasks(a)) /\ ItemsOf(some) = ItemsOf(contexts) \cup ToSet(exercises)
    BY <1>2, <1>3, <1>4, <1>5, WithPlaceholdersNeat
  <1> HIDE DEF some
  <1>7. Neat(all, Tasks(a)) /\ ItemsOf(all) = ItemsOf(some) \cup ToSet(checkpoints)
    BY <1>2, <1>3, <1>4, <1>6, WithPlaceholdersNeat
  <1> HIDE DEF all, b
  <1>8. all \in Seq(AnswerCheckContext)
    BY <1>7 DEF Neat
  <1>9. /\ b \in Artifact /\ b.role = a.role
        /\ b.exercises = exercises /\ b.checkpoints = checkpoints /\ b.contexts = all
    BY <1>1, <1>3, <1>8, ReworkedFields
  <1>10. Tasks(b) = Tasks(a)
    BY <1>3, <1>9 DEF Tasks
  <1>11. Tasks(b) \subseteq ItemsOf(b.contexts)
    BY <1>3, <1>6, <1>7, <1>9, <1>10 DEF Tasks
  <1>12. a.role \notin Lightweight /\ a.role # "review"
    BY DEF Lightweight, TaskBearing
  <1>13. Neat(b.contexts, Tasks(b))
    BY <1>7, <1>9, <1>10
  <1>14. NormalForm(b)
    BY <1>3, <1>9, <1>11, <1>12, <1>13 DEF NormalForm
  <1>15. ASSUME NormalForm(a)
         PROVE  b = a
    <2>1. /\ IsInjective(a.exercises) /\ IsInjective(a.checkpoints)
          /\ Neat(a.contexts, Tasks(a)) /\ Tasks(a) \subseteq ItemsOf(a.contexts)
      BY <1>12, <1>15 DEF NormalForm
    <2>2. exercises = a.exercises /\ checkpoints = a.checkpoints /\ contexts = a.contexts
      BY <1>2, <2>1, DedupedStays, NeatStays DEF exercises, checkpoints, contexts
    <2>3. contexts \in Seq(AnswerCheckContext)
      BY <1>2, <2>2
    <2>4. ToSet(exercises) \subseteq ItemsOf(contexts) /\ ToSet(checkpoints) \subseteq ItemsOf(contexts)
      BY <2>1, <2>2 DEF Tasks
    <2>5. some = contexts
      BY <2>3, <2>4, WithPlaceholdersStays DEF some
    <2>6. all = contexts
      BY <2>3, <2>4, <2>5, WithPlaceholdersStays DEF all
    <2>7. QED
      BY <1>1, <1>3, <1>8, <2>2, <2>6, ReworkedFields
  <1>16. QED
    BY <1>9, <1>14, <1>15 DEF b

LEMMA NormalizeOtherIsNormal ==
    ASSUME NEW a \in Artifact, a.role \notin Lightweight \cup {"review"} \cup TaskBearing
    PROVE  /\ NormalizeOther(a) \in Artifact
           /\ NormalForm(NormalizeOther(a))
           /\ NormalForm(a) => NormalizeOther(a) = a
  <1> DEFINE contexts == CheckedContexts(a)
             exercises == Deduped(a.exercises)
             checkpoints == Deduped(a.checkpoints)
             b == NormalizeOther(a)
  <1>1. b = Reworked(a, exercises, checkpoints, contexts)
    BY DEF NormalizeOther, Reworked, Artifact
  <1>2. /\ a.exercises \in Seq(Items) /\ a.checkpoints \in Seq(Items)
        /\ a.contexts \in Seq(AnswerCheckContext)
    BY ArtifactFields
  <1>3. /\ exercises \in Seq(Items) /\ IsInjective(exercises)
        /\ checkpoints \in Seq(Items) /\ IsInjective(checkpoints)
        /\ ToSet(exercises) = ToSet(a.exercises) /\ ToSet(checkpoints) = ToSet(a.checkpoints)
    BY <1>2, DedupedFields
  <1>4. Neat(contexts, Tasks(a)) /\ contexts \in Seq(AnswerCheckContext)
    <2>1. Neat(contexts, Tasks(a))
      BY <1>2, CheckedContextsNeat
    <2>2. QED
      BY <2>1 DEF Neat
  <1> HIDE DEF contexts, exercises, checkpoints, b
  <1>5. /\ b \in Artifact /\ b.role = a.role
        /\ b.exercises = exercises /\ b.checkpoints = checkpoints /\ b.contexts = contexts
    BY <1>1, <1>3, <1>4, ReworkedFields
  <1>6. Tasks(b) = Tasks(a)
    BY <1>3, <1>5 DEF Tasks
  <1>7. Neat(b.contexts, Tasks(b))
    BY <1>4, <1>5, <1>6
  <1>8. NormalForm(b)
    BY <1>3, <1>5, <1>7 DEF NormalForm
  <1>9. ASSUME NormalForm(a)
        PROVE  b = a
    <2>1. IsInjective(a.exercises) /\ IsInjective(a.checkpoints) /\ Neat(a.contexts, Tasks(a))
      BY <1>9 DEF NormalForm
    <2>2. exercises = a.exercises /\ checkpoints = a.checkpoints /\ contexts = a.contexts
      BY <1>2, <2>1, DedupedStays, NeatStays DEF exercises, checkpoints, contexts
    <2>3. QED
      BY <1>1, <1>3, <1>4, <2>2, ReworkedFields
  <1>10. QED
    BY <1>5, <1>8, <1>9 DEF b

\* Normalising gives a normal form, and normalising that changes nothing.
LEMMA NormalizeIsNormal ==
    ASSUME NEW a \in Artifact
    PROVE  Normalize(a) \in Artifact /\ NormalForm(Normalize(a))
  BY NormalizeByRole, NormalizeLightweightIsNormal, NormalizeReviewIsNormal,
     NormalizeTasksIsNormal, NormalizeOtherIsNormal

LEMMA NormalFormStays ==
    ASSUME NEW a \in Artifact, NormalForm(a)
    PROVE  Normalize(a) = a
  BY NormalizeByRole, NormalizeLightweightIsNormal, NormalizeReviewIsNormal,
     NormalizeTasksIsNormal, NormalizeOtherIsNormal

\* A normal form has none of the flaws.
LEMMA NormalFormIsSound ==
    ASSUME NEW a \in Artifact, NormalForm(a)
    PROVE  IsSound(a)
  <1> DEFINE contexts == ToSet(a.contexts)
  <1>1. a.contexts \in Seq(AnswerCheckContext)
    BY ArtifactFields
  <1>2. \A i \in DOMAIN a.contexts :
           a.contexts[i].verify =>
              /\ a.contexts[i].basis # {}
              /\ a.contexts[i].type = "checkpoint" => "rubric" \in a.contexts[i].basis
    <2>1. CASE a.role \in Lightweight
      <3>1. a.contexts = <<>>
        BY <2>1 DEF NormalForm
      <3>2. DOMAIN a.contexts = {}
        BY <3>1
      <3>3. QED
        BY <3>2
    <2>2. CASE a.role \notin Lightweight
      <3>1. Neat(a.contexts, Tasks(a))
        BY <2>2 DEF NormalForm
      <3>2. SUFFICES ASSUME NEW i \in DOMAIN a.contexts, NEW c, c = a.contexts[i], c.verify
                     PROVE  c.basis # {} /\ (c.type = "checkpoint" => "rubric" \in c.basis)
        OBVIOUS
      <3>3. c \in AnswerCheckContext /\ Checked(c) = c
        BY <1>1, <3>1, <3>2 DEF Neat
      <3>4. QED
        BY <3>2, <3>3, CheckedFields
    <2>3. QED
      BY <2>1, <2>2
  <1>3. \A c \in contexts : c.verify =>
           c.basis # {} /\ (c.type = "checkpoint" => "rubric" \in c.basis)
    BY <1>2 DEF ToSet
  <1>4. a.role \in Lightweight => ~a.dwell /\ Tasks(a) = {} /\ contexts = {}
    <2>1. ToSet(<<>>) = {}
      BY DEF ToSet
    <2>2. QED
      BY <2>1 DEF NormalForm, Tasks
  <1>5. a.role \in TaskBearing => Tasks(a) \subseteq ItemsOf(a.contexts)
    <2>1. a.role \in TaskBearing => a.role \notin Lightweight
      BY DEF Lightweight, TaskBearing
    <2>2. QED
      BY <2>1 DEF NormalForm
  <1>6. IssueFlags(a) \subseteq {"review_section_missing_verifiable_checkpoint",
                                 "exercise_bank_missing_literal_exercises"}
    BY <1>3, <1>4, <1>5 DEF IssueFlags
  <1>7. ASSUME NEW task \in SelectTask(a), NEW c \in task.context, c.verify
        PROVE  c.basis # {}
    <2>1. PICK r : task.context = ContextFor(a, r)
      BY DEF SelectTask
    <2>2. c \in contexts
      BY <2>1 DEF ContextFor, ToSet
    <2>3. QED
      BY <1>3, <1>7, <2>2
  <1>8. QED
    BY <1>6, <1>7 DEF IsSound

\* What normalising makes of any artifact is in normal form and sound.
LEMMA NormalizedArtifact ==
    ASSUME NEW a \in Artifact
    PROVE  Normalize(a) \in Artifact /\ IsNormal(Normalize(a))
  BY NormalizeIsNormal, NormalFormStays, NormalFormIsSound DEF IsNormal

\* So is the fallback.
LEMMA FallbackIsNormal ==
    Fallback \in Artifact /\ NormalForm(Fallback) /\ Normalize(Fallback) = Fallback /\ IsSound(Fallback)
  <1>1. <<>> \in Seq(Items) /\ <<>> \in Seq(AnswerCheckContext)
    OBVIOUS
  <1>2. Fallback \in Artifact
    BY <1>1 DEF Fallback, Artifact, Roles, Actions
  <1>3. /\ Fallback.role = "core_concept" /\ Fallback.exercises = <<>>
        /\ Fallback.checkpoints = <<>> /\ Fallback.contexts = <<>>
    BY DEF Fallback
  <1>4. IsInjective(<<>>) /\ Neat(<<>>, Tasks(Fallback))
    BY <1>1 DEF IsInjective, Neat
  <1>5. NormalForm(Fallback)
    BY <1>3, <1>4 DEF NormalForm, Lightweight, TaskBearing
  <1>6. QED
    BY <1>2, <1>5, NormalFormStays, NormalFormIsSound

-----------------------------------------------------------------------------
(* The understanding of a section: the service.                            *)

\* A turn that moves on, that has read the section, that has its understanding.
Moved(r, pc) == [r EXCEPT !.pc = pc]
WithVersion(r, version) == [r EXCEPT !.pc = "look_up", !.version = version]
WithArtifact(r, pc, a, from) == [r EXCEPT !.pc = pc, !.artifact = a, !.from = from]

LEMMA MovedFields ==
    ASSUME NEW r \in Reading,
           NEW pc \in {"idle", "look_up", "ask", "record", "understood", "failed"}
    PROVE  /\ r.version \in 0 .. MaxVersion
           /\ Moved(r, pc) \in Reading
           /\ Moved(r, pc).pc = pc /\ Moved(r, pc).version = r.version
           /\ Moved(r, pc).artifact = r.artifact /\ Moved(r, pc).from = r.from
  BY DEF Reading, Moved

LEMMA WithVersionFields ==
    ASSUME NEW r \in Reading, NEW version \in 0 .. MaxVersion
    PROVE  /\ WithVersion(r, version) \in Reading
           /\ WithVersion(r, version).pc = "look_up"
           /\ WithVersion(r, version).version = version
           /\ WithVersion(r, version).artifact = r.artifact
           /\ WithVersion(r, version).from = r.from
  BY DEF Reading, WithVersion

LEMMA WithArtifactFields ==
    ASSUME NEW r \in Reading, NEW pc \in {"record", "understood"}, NEW a \in Artifact,
           NEW from \in {"fallback", "cache", "llm"}
    PROVE  /\ WithArtifact(r, pc, a, from) \in Reading
           /\ WithArtifact(r, pc, a, from).pc = pc
           /\ WithArtifact(r, pc, a, from).version = r.version
           /\ WithArtifact(r, pc, a, from).artifact = a
           /\ WithArtifact(r, pc, a, from).from = from
  BY DEF Reading, WithArtifact

\* The invariant as far as one turn and the rows are concerned.
ReadingHolds(r, rows) ==
    /\ r \in Reading
    /\ r.pc \in {"record", "understood"} => r.artifact \in Artifact /\ IsSound(r.artifact)
    /\ r.pc = "record" => IsNormal(r.artifact)
    /\ r.pc \in {"look_up", "ask", "record"} => r.version # 0
    /\ r.pc = "idle" => r.from = "none"
    /\ r.from = "cache" => [version |-> r.version, artifact |-> r.artifact] \in ToSet(rows)

RowsHold(rows) ==
    rows \in Seq(StoredArtifact) /\ \A i \in DOMAIN rows : IsNormal(rows[i].artifact)

Parts ==
    /\ sourceVersion \in 0 .. MaxVersion
    /\ RowsHold(artifacts)
    /\ readings \in [Turns -> Reading]
    /\ \A t \in Turns : ReadingHolds(readings[t], artifacts)

LEMMA UnderstandingInvParts == UnderstandingInv <=> Parts
  BY DEF Parts, UnderstandingInv, UnderstandingTypeOK, NormalStored, VersionRead, UnderstandingHolds,
         UnderstandingIsStable, UnderstandingIsSound, HasArtifact, At, ReadingHolds, RowsHold

\* A turn changes, the rows stay.
LEMMA ReadingChanges ==
    ASSUME UnderstandingInv, NEW t \in Turns, NEW r, ReadingHolds(r, artifacts),
           readings' = [readings EXCEPT ![t] = r],
           UNCHANGED <<sourceVersion, artifacts>>
    PROVE  UnderstandingInv'
  <1>1. readings' \in [Turns -> Reading]
    BY UnderstandingInvParts DEF Parts, ReadingHolds
  <1>2. \A u \in Turns : ReadingHolds(readings'[u], artifacts)
    BY UnderstandingInvParts DEF Parts
  <1>3. /\ sourceVersion' \in 0 .. MaxVersion
        /\ RowsHold(artifacts')
        /\ readings' \in [Turns -> Reading]
        /\ \A u \in Turns : ReadingHolds(readings'[u], artifacts')
    BY <1>1, <1>2, UnderstandingInvParts DEF Parts
  <1>4. Parts'
    BY <1>3 DEF Parts
  <1>5. QED
    BY <1>4, UnderstandingInvParts, PTL

LEMMA InitUnderstandingInv ==
    ASSUME UnderstandingAssumption, InitUnderstanding
    PROVE  UnderstandingInv
  <1> DEFINE none == [pc |-> "idle", version |-> 0, artifact |-> NoArtifact, from |-> "none"]
  <1>1. MaxVersion \in Nat
    BY DEF UnderstandingAssumption
  <1>2. none \in Reading
    BY <1>1 DEF Reading
  <1>3. readings = [t \in Turns |-> none]
    BY DEF InitUnderstanding
  <1>4. none.pc = "idle" /\ none.from = "none"
    OBVIOUS
  <1> HIDE DEF none
  <1>5. \A t \in Turns : readings[t] = none
    BY <1>3
  <1>6. ReadingHolds(none, artifacts)
    BY <1>2, <1>4 DEF ReadingHolds
  <1>7. RowsHold(artifacts)
    BY DEF RowsHold, InitUnderstanding
  <1>8. sourceVersion \in 0 .. MaxVersion
    BY DEF InitUnderstanding
  <1>9. readings \in [Turns -> Reading]
    BY <1>2, <1>3
  <1>10. \A t \in Turns : ReadingHolds(readings[t], artifacts)
    BY <1>5, <1>6
  <1>11. QED
    BY <1>7, <1>8, <1>9, <1>10, UnderstandingInvParts DEF Parts

LEMMA StoreKeepsInv ==
    ASSUME UnderstandingAssumption, UnderstandingInv, NEW t \in Turns, Store(t)
    PROVE  UnderstandingInv'
  <1> DEFINE r == readings[t]
             row == [version |-> r.version, artifact |-> r.artifact]
             s == Moved(r, "understood")
  <1>1. /\ r.pc = "record" /\ artifacts' = Append(artifacts, row)
        /\ readings' = [readings EXCEPT ![t] = s] /\ sourceVersion' = sourceVersion
    BY UnderstandingInvParts DEF Parts, Store, At, MoveOn, Moved
  <1>2. /\ sourceVersion \in 0 .. MaxVersion /\ RowsHold(artifacts)
        /\ readings \in [Turns -> Reading]
        /\ \A u \in Turns : ReadingHolds(readings[u], artifacts)
    BY UnderstandingInvParts DEF Parts
  <1>3. ReadingHolds(r, artifacts)
    BY <1>2
  <1>4. /\ r \in Reading /\ r.artifact \in Artifact /\ IsSound(r.artifact) /\ IsNormal(r.artifact)
        /\ r.version # 0 /\ r.version \in 0 .. MaxVersion
    BY <1>1, <1>3, MovedFields DEF ReadingHolds
  <1>5. r.version \in 1 .. MaxVersion
    <2>1. MaxVersion \in Nat
      BY DEF UnderstandingAssumption
    <2>2. QED
      BY <1>4, <2>1
  <1>6. row \in StoredArtifact /\ row.artifact = r.artifact
    BY <1>4, <1>5 DEF StoredArtifact
  <1>7. /\ s \in Reading /\ s.pc = "understood" /\ s.version = r.version
        /\ s.artifact = r.artifact /\ s.from = r.from
    BY <1>4, MovedFields
  <1>8. PICK E : E = StoredArtifact
    OBVIOUS
  <1> HIDE DEF s, row
  <1>9. /\ artifacts' \in Seq(E) /\ ToSet(artifacts') = ToSet(artifacts) \cup {row}
        /\ \A i \in DOMAIN artifacts' :
              artifacts'[i] = row \/ (i \in DOMAIN artifacts /\ artifacts'[i] = artifacts[i])
    <2>1. artifacts \in Seq(E) /\ row \in E
      BY <1>2, <1>6, <1>8 DEF RowsHold
    <2>2. artifacts' = Append(artifacts, row)
      BY <1>1
    <2>3. ToSet(Append(artifacts, row)) = ToSet(artifacts) \cup {row}
      <3>1. PICK rows \in Seq(E), e \in E : rows = artifacts /\ e = row
        BY <2>1
      <3>2. ToSet(Append(rows, e)) = ToSet(rows) \cup {e}
        BY <3>1, AddedElement
      <3>3. QED
        BY <3>1, <3>2
    <2>4. artifacts' \in Seq(E)
      BY <2>1, <2>2
    <2>5. \A i \in DOMAIN artifacts' :
             artifacts'[i] = row \/ (i \in DOMAIN artifacts /\ artifacts'[i] = artifacts[i])
      BY <2>1, <2>2
    <2>6. QED
      BY <2>2, <2>3, <2>4, <2>5
  <1>10. RowsHold(artifacts')
    <2>1. \A i \in DOMAIN artifacts : IsNormal(artifacts[i].artifact)
      BY <1>2 DEF RowsHold
    <2>2. \A i \in DOMAIN artifacts' : IsNormal(artifacts'[i].artifact)
      BY <1>4, <1>6, <1>9, <2>1
    <2>3. QED
      BY <1>8, <1>9, <2>2 DEF RowsHold
  <1>11. ReadingHolds(s, artifacts')
    BY <1>3, <1>4, <1>7, <1>9 DEF ReadingHolds
  <1>12. \A u \in Turns : ReadingHolds(readings[u], artifacts')
    BY <1>2, <1>9 DEF ReadingHolds
  <1>13. readings' \in [Turns -> Reading]
    BY <1>1, <1>2, <1>7
  <1>14. \A u \in Turns : ReadingHolds(readings'[u], artifacts')
    BY <1>1, <1>2, <1>11, <1>12
  <1>15. Parts'
    BY <1>1, <1>2, <1>10, <1>13, <1>14 DEF Parts
  <1>16. QED
    BY <1>15, UnderstandingInvParts, PTL

LEMMA NextUnderstandingKeepsInv ==
    ASSUME UnderstandingAssumption, UnderstandingInv, [NextUnderstanding]_understandingVars
    PROVE  UnderstandingInv'
  <1>0. /\ MaxVersion \in Nat /\ Answers \subseteq Artifact
        /\ sourceVersion \in 0 .. MaxVersion /\ RowsHold(artifacts)
        /\ readings \in [Turns -> Reading]
        /\ \A t \in Turns : ReadingHolds(readings[t], artifacts)
    BY UnderstandingInvParts DEF Parts, UnderstandingAssumption
  <1>1. CASE UNCHANGED understandingVars
    <2>1. Parts'
      BY <1>0, <1>1 DEF understandingVars, Parts
    <2>2. QED
      BY <2>1, UnderstandingInvParts, PTL
  <1>2. CASE Reindex
    <2>1. sourceVersion' \in 0 .. MaxVersion
      BY <1>0, <1>2 DEF Reindex
    <2>2. Parts'
      BY <1>0, <1>2, <2>1 DEF Reindex, Parts
    <2>3. QED
      BY <2>2, UnderstandingInvParts, PTL
  <1>3. ASSUME NEW t \in Turns, NEW pc \in {"ask", "failed"}, MoveOn(t, pc),
               pc = "ask" => At(t, "look_up"), UNCHANGED <<sourceVersion, artifacts>>
        PROVE  UnderstandingInv'
    <2> DEFINE r == readings[t]
               s == Moved(r, pc)
    <2>1. ReadingHolds(r, artifacts) /\ r \in Reading
      BY <1>0
    <2>2. /\ s \in Reading /\ s.pc = pc /\ s.version = r.version
          /\ s.artifact = r.artifact /\ s.from = r.from
      BY <2>1, MovedFields
    <2>3. readings' = [readings EXCEPT ![t] = s]
      BY <1>0, <1>3 DEF MoveOn, Moved
    <2>4. pc = "ask" => r.version # 0
      BY <1>3, <2>1 DEF ReadingHolds, At
    <2> HIDE DEF s
    <2>5. ReadingHolds(s, artifacts)
      BY <2>1, <2>2, <2>4 DEF ReadingHolds
    <2>6. QED
      BY <1>3, <2>3, <2>5, ReadingChanges
  <1>4. ASSUME NEW t \in Turns, NEW pc \in {"record", "understood"}, NEW a \in Artifact,
               NEW from \in {"fallback", "cache", "llm"}, IsSound(a),
               pc = "record" => IsNormal(a) /\ At(t, "ask"),
               from = "cache" => [version |-> readings[t].version, artifact |-> a] \in ToSet(artifacts),
               readings' = [readings EXCEPT ![t] = WithArtifact(readings[t], pc, a, from)],
               UNCHANGED <<sourceVersion, artifacts>>
        PROVE  UnderstandingInv'
    <2> DEFINE r == readings[t]
               s == WithArtifact(r, pc, a, from)
    <2>1. ReadingHolds(r, artifacts) /\ r \in Reading
      BY <1>0
    <2>2. /\ s \in Reading /\ s.pc = pc /\ s.version = r.version
          /\ s.artifact = a /\ s.from = from
      <3>1. /\ r \in Reading /\ pc \in {"record", "understood"} /\ a \in Artifact
            /\ from \in {"fallback", "cache", "llm"}
        BY <1>4, <2>1
      <3> HIDE DEF r
      <3>2. QED
        BY <3>1 DEF Reading, WithArtifact
    <2>3. readings' = [readings EXCEPT ![t] = s]
      BY <1>4
    <2>4. pc = "record" => r.version # 0
      BY <1>4, <2>1 DEF ReadingHolds, At
    <2>5. from = "cache" => [version |-> r.version, artifact |-> a] \in ToSet(artifacts)
      BY <1>4
    <2> HIDE DEF s, r
    <2>6. ReadingHolds(s, artifacts)
      BY <1>4, <2>2, <2>4, <2>5 DEF ReadingHolds
    <2>7. QED
      BY <1>4, <2>3, <2>6, ReadingChanges
  <1>5. CASE \E t \in Turns : ContentNotReady(t) \/ FindNone(t) \/ StoreFails(t)
    BY <1>3, <1>5 DEF ContentNotReady, FindNone, StoreFails
  <1>6. CASE \E t \in Turns : ReadUnusable(t) \/ UnderstandFails(t)
    <2>1. PICK t \in Turns : ReadUnusable(t) \/ UnderstandFails(t)
      BY <1>6
    <2>2. /\ readings' = [readings EXCEPT
                             ![t] = WithArtifact(readings[t], "understood", Fallback, "fallback")]
          /\ UNCHANGED <<sourceVersion, artifacts>>
      BY <1>0, <2>1, FallbackIsNormal
      DEF ReadUnusable, UnderstandFails, Understood, WithArtifact
    <2>3. Fallback \in Artifact /\ IsSound(Fallback)
      BY FallbackIsNormal
    <2>4. QED
      BY <1>4, <2>2, <2>3
  <1>8. ASSUME NEW t \in Turns, ReadSection(t)
        PROVE  UnderstandingInv'
    <2> DEFINE r == readings[t]
               s == WithVersion(r, sourceVersion)
    <2>1. ReadingHolds(r, artifacts) /\ r \in Reading /\ r.pc = "idle"
      BY <1>0, <1>8 DEF ReadSection, At
    <2>2. /\ s \in Reading /\ s.pc = "look_up" /\ s.version = sourceVersion
          /\ s.artifact = r.artifact /\ s.from = r.from
      BY <1>0, <2>1, WithVersionFields
    <2>3. readings' = [readings EXCEPT ![t] = s]
      BY <1>0, <1>8 DEF ReadSection, WithVersion
    <2>4. r.from = "none" /\ sourceVersion # 0
      BY <1>0, <1>8, <2>1 DEF ReadingHolds, ReadSection
    <2> HIDE DEF s, r
    <2>5. ReadingHolds(s, artifacts)
      BY <2>2, <2>4 DEF ReadingHolds
    <2>6. QED
      BY <1>8, <2>3, <2>5, ReadingChanges DEF ReadSection
  <1>9. ASSUME NEW t \in Turns, NEW a \in Answers, Understand(t, a)
        PROVE  UnderstandingInv'
    <2>1. Normalize(a) \in Artifact /\ IsNormal(Normalize(a)) /\ IsSound(Normalize(a))
      BY <1>0, NormalizedArtifact DEF IsNormal
    <2>2. /\ readings' = [readings EXCEPT
                             ![t] = WithArtifact(readings[t], "record", Normalize(a), "llm")]
          /\ At(t, "ask") /\ UNCHANGED <<sourceVersion, artifacts>>
      BY <1>0, <1>9 DEF Understand, WithArtifact
    <2>3. QED
      BY <1>4, <2>1, <2>2
  <1>10. ASSUME NEW t \in Turns, Reuse(t)
         PROVE  UnderstandingInv'
    <2>1. PICK i \in SameKey(t) : Understood(t, Normalize(artifacts[i].artifact), "cache")
      BY <1>10 DEF Reuse
    <2>2. i \in DOMAIN artifacts /\ artifacts[i].version = readings[t].version
      BY <2>1 DEF SameKey
    <2>3. PICK row : row = artifacts[i]
      OBVIOUS
    <2>4. row \in StoredArtifact /\ IsNormal(row.artifact) /\ row \in ToSet(artifacts)
      BY <1>0, <2>2, <2>3 DEF RowsHold, ToSet
    <2>5. /\ row.artifact \in Artifact
          /\ row = [version |-> row.version, artifact |-> row.artifact]
      BY <2>4 DEF StoredArtifact
    <2>6. Normalize(row.artifact) = row.artifact /\ IsSound(row.artifact)
      BY <2>4 DEF IsNormal
    <2>7. [version |-> readings[t].version, artifact |-> row.artifact] \in ToSet(artifacts)
      BY <2>2, <2>3, <2>4, <2>5
    <2>8. readings' = [readings EXCEPT
                          ![t] = WithArtifact(readings[t], "understood", row.artifact, "cache")]
      BY <1>0, <2>1, <2>3, <2>6 DEF Understood, WithArtifact
    <2>9. UNCHANGED <<sourceVersion, artifacts>>
      BY <1>10 DEF Reuse
    <2>10. QED
      BY <1>4, <2>5, <2>6, <2>7, <2>8, <2>9
  <1>11. CASE \E t \in Turns : Store(t)
    BY <1>11, StoreKeepsInv
  <1>12. QED
    BY <1>1, <1>2, <1>5, <1>6, <1>8, <1>9, <1>10, <1>11 DEF NextUnderstanding

\* The inductive invariant: what is stored, or about to be, is in normal form
\* and sound, and what is taken from the cache is one of the rows.
THEOREM UnderstandingInvariance ==
    ASSUME UnderstandingAssumption
    PROVE  SpecUnderstanding => []UnderstandingInv
  <1>1. InitUnderstanding => UnderstandingInv
    BY InitUnderstandingInv
  <1>2. UnderstandingInv /\ [NextUnderstanding]_understandingVars => UnderstandingInv'
    BY NextUnderstandingKeepsInv
  <1>3. QED
    BY <1>1, <1>2, PTL DEF SpecUnderstanding

\* Whatever the language model says of a section, in whatever order turns and
\* reindexings overlap: what a turn works with has none of the flaws
\* normalisation is there for, and what it finds in the cache is exactly what
\* was stored for the source it read (section_understanding_service.py,
\* section_coverage.py).
THEOREM UnderstandingIsStableAndSound ==
    ASSUME UnderstandingAssumption
    PROVE  SpecUnderstanding => []UnderstandingHolds
  <1>1. UnderstandingInv => UnderstandingHolds
    BY DEF UnderstandingInv
  <1>2. QED
    BY <1>1, UnderstandingInvariance, PTL

-----------------------------------------------------------------------------
(* The chunks of a document.                                               *)

\* The units of a sequence of amounts can be counted.
LEMMA TotalIsNatural ==
    ASSUME NEW amounts \in Seq(Nat)
    PROVE  /\ IsFiniteSet(UNION {{n} \X (1 .. amounts[n]) : n \in DOMAIN amounts})
           /\ Total(amounts) \in Nat
  <1> DEFINE Units(n) == {n} \X (1 .. amounts[n])
             All == {Units(n) : n \in DOMAIN amounts}
  <1>1. PICK len \in Nat : DOMAIN amounts = 1 .. len
    OBVIOUS
  <1>2. \A n \in DOMAIN amounts : amounts[n] \in Nat
    OBVIOUS
  <1>3. \A n \in DOMAIN amounts : IsFiniteSet(Units(n))
    <2>1. SUFFICES ASSUME NEW n \in DOMAIN amounts
                   PROVE  IsFiniteSet(Units(n))
      OBVIOUS
    <2>2. IsFiniteSet(1 .. amounts[n])
      BY <1>2, FS_Interval
    <2>3. IsFiniteSet({n})
      BY FS_Singleton
    <2>4. QED
      BY <2>2, <2>3, FS_Product
  <1>4. IsFiniteSet(All)
    <2>1. IsFiniteSet(1 .. len)
      BY <1>1, FS_Interval
    <2>2. [n \in 1 .. len |-> Units(n)] \in Surjection(1 .. len, All)
      BY <1>1 DEF Surjection
    <2>3. QED
      BY <2>1, <2>2, FS_Surjection
  <1>5. \A T \in All : IsFiniteSet(T)
    BY <1>3
  <1>6. IsFiniteSet(UNION All)
    <2> HIDE DEF All
    <2>1. QED
      BY <1>4, <1>5, FS_UNION
  <1>7. QED
    BY <1>6, FS_CardinalityType DEF Total

LEMMA TotalOfNone ==
    Total(<<>>) = 0
  <1>1. UNION {{n} \X (1 .. <<>>[n]) : n \in DOMAIN <<>>} = {}
    OBVIOUS
  <1>2. QED
    BY <1>1, FS_EmptySet, Zenon DEF Total

\* One amount more.
LEMMA TotalOfMore ==
    ASSUME NEW amounts \in Seq(Nat), NEW more \in Nat
    PROVE  Total(Append(amounts, more)) = Total(amounts) + more
  <1> DEFINE Before == UNION {{n} \X (1 .. amounts[n]) : n \in DOMAIN amounts}
             longer == Append(amounts, more)
             After == UNION {{n} \X (1 .. longer[n]) : n \in DOMAIN longer}
  <1>1. PICK len \in Nat : len = Len(amounts) /\ DOMAIN amounts = 1 .. len
    OBVIOUS
  <1> DEFINE Extra == {len + 1} \X (1 .. more)
  <1>2. /\ DOMAIN longer = 1 .. len + 1
        /\ longer[len + 1] = more
        /\ \A n \in 1 .. len : longer[n] = amounts[n]
    BY <1>1
  <1> HIDE DEF longer
  <1>3. After = Before \cup Extra
    <2>1. \A n : n \in 1 .. len + 1 <=> n \in 1 .. len \/ n = len + 1
      BY <1>1
    <2>2. ASSUME NEW e \in After
          PROVE  e \in Before \cup Extra
      <3>1. PICK n \in 1 .. len + 1 : e \in {n} \X (1 .. longer[n])
        BY <1>2, <2>2
      <3>2. QED
        BY <1>1, <1>2, <2>1, <3>1
    <2>3. ASSUME NEW e \in Before
          PROVE  e \in After
      <3>1. PICK n \in 1 .. len : e \in {n} \X (1 .. amounts[n])
        BY <1>1, <2>3
      <3>2. e \in {n} \X (1 .. longer[n]) /\ n \in DOMAIN longer
        BY <1>2, <2>1, <3>1
      <3>3. QED
        BY <3>2
    <2>4. ASSUME NEW e \in Extra
          PROVE  e \in After
      <3>1. e \in {len + 1} \X (1 .. longer[len + 1]) /\ len + 1 \in DOMAIN longer
        BY <1>1, <1>2, <2>1, <2>4
      <3>2. QED
        BY <3>1
    <2>5. QED
      BY <2>2, <2>3, <2>4
  <1>4. Before \cap Extra = {}
    <2>1. \A n \in 1 .. len : n # len + 1
      BY <1>1
    <2>2. \A e \in Before : \E n \in 1 .. len : e[1] = n
      BY <1>1
    <2>3. \A e \in Extra : e[1] = len + 1
      OBVIOUS
    <2>4. QED
      BY <2>1, <2>2, <2>3
  <1>5. IsFiniteSet(Before) /\ Cardinality(Before) \in Nat
    BY TotalIsNatural DEF Total
  <1>6. IsFiniteSet(Extra) /\ Cardinality(Extra) = more
    <2>1. IsFiniteSet(1 .. more) /\ Cardinality(1 .. more) = more
      BY FS_Interval
    <2>2. IsFiniteSet({len + 1}) /\ Cardinality({len + 1}) = 1
      BY FS_Singleton
    <2>3. /\ IsFiniteSet(Extra)
          /\ Cardinality(Extra) = Cardinality({len + 1}) * Cardinality(1 .. more)
      BY <2>1, <2>2, FS_Product
    <2>4. QED
      BY <2>1, <2>2, <2>3
  <1> HIDE DEF Before, After, Extra
  <1>7. Cardinality(Before \cap Extra) = 0
    BY <1>4, FS_EmptySet, Zenon
  <1>8. Cardinality(After) = Cardinality(Before) + more
    <2>1. Cardinality(Before \cup Extra) =
              Cardinality(Before) + Cardinality(Extra) - Cardinality(Before \cap Extra)
      BY <1>5, <1>6, FS_Union
    <2>2. QED
      BY <1>3, <1>5, <1>6, <1>7, <2>1
  <1>9. QED
    BY <1>8 DEF Total, Before, After, longer

\* What the parser makes of a document.
LEMMA ParsedIsBlock ==
    ASSUME ChunkSettings, NEW e \in Elements
    PROVE  ParsedBlock(e) \in Block
  <1>1. /\ e.ctype \in ChunkTypes /\ e.tokens \in Nat /\ e.signal \in Nat
        /\ e.caption \in BOOLEAN /\ e.math \in {"none", "inline", "block"}
    BY DEF ChunkSettings
  <1>2. "concept" \in ChunkTypes
    BY DEF ChunkTypes
  <1>3. ContainerType(e) \in BlockTypes /\ FallbackType(e) \in BlockTypes
    BY DEF ContainerType, FallbackType, BlockTypes, StructuralTypes
  <1>4. BlockType(e) \in BlockTypes
    <2>1. {"heading", "code_block", "image", "html_block"} \subseteq BlockTypes
      BY DEF BlockTypes, StructuralTypes
    <2>2. QED
      BY <1>3, <2>1 DEF BlockType
  <1>5. QED
    BY <1>1, <1>2, <1>4 DEF ParsedBlock, Block

LEMMA ParsedBlocks ==
    ASSUME ChunkSettings, NEW n \in Nat, NEW document \in [1 .. n -> Elements]
    PROVE  ParseMarkdownBlocks(document) \in Seq(Block)
  <1> DEFINE list == [i \in 1 .. Len(document) |-> ParsedBlock(document[i])]
             merged == [i \in DOMAIN list |->
                           IF i + 1 \in DOMAIN list /\ JoinsImage(list, i + 1)
                           THEN Captioned(list[i], list[i + 1]) ELSE list[i]]
             places == {i \in DOMAIN list : ~JoinsImage(list, i)}
  <1>1. Len(document) = n /\ \A i \in 1 .. n : document[i] \in Elements
    OBVIOUS
  <1>2. \A i \in 1 .. n : list[i] \in Block
    BY <1>1, ParsedIsBlock
  <1>3. DOMAIN list = 1 .. n
    BY <1>1
  <1> HIDE DEF list
  <1>4. \A e, f \in Block : Captioned(e, f) \in Block
    <2>1. SUFFICES ASSUME NEW e \in Block, NEW f \in Block
                   PROVE  Captioned(e, f) \in Block
      OBVIOUS
    <2>2. Captioned(e, f) = [type |-> e.type, ctype |-> e.ctype, tokens |-> e.tokens + f.tokens,
                             signal |-> e.signal + f.signal, math |-> IF e.math = "none" THEN f.math ELSE e.math,
                             caption |-> e.caption]
      <3>1. PICK math : math = IF e.math = "none" THEN f.math ELSE e.math
        OBVIOUS
      <3>2. Captioned(e, f) = [e EXCEPT !.tokens = e.tokens + f.tokens,
                                        !.signal = e.signal + f.signal, !.math = math]
        BY <3>1 DEF Captioned, Block
      <3>3. QED
        BY <3>1, <3>2 DEF Block
    <2>3. /\ e.type \in BlockTypes /\ e.ctype \in ChunkTypes /\ e.caption \in BOOLEAN
          /\ e.tokens + f.tokens \in Nat /\ e.signal + f.signal \in Nat
      BY <2>1 DEF Block
    <2>4. {e.math, f.math} \subseteq {"none", "inline", "block"}
      BY DEF Block
    <2>5. QED
      BY <2>2, <2>3, <2>4 DEF Block
  <1>5. \A i \in 1 .. n : merged[i] \in Block
    BY <1>2, <1>3, <1>4
  <1>6. merged \in Seq(Block) /\ DOMAIN merged = 1 .. n
    BY <1>3, <1>5
  <1>7. places \subseteq DOMAIN merged
    BY <1>3
  <1> HIDE DEF merged, places
  <1>8. Kept(merged, places) \in Seq(Block)
    BY <1>6, <1>7, KeptFields
  <1>9. QED
    BY <1>8 DEF ParseMarkdownBlocks, MergeImageCaptions, list, merged, places

\* The tokens of a group, of nothing and of one block more.
LEMMA TokensOfGroup ==
    ASSUME ChunksTypeOK, NEW group \in Seq(DOMAIN parsedBlocks)
    PROVE  /\ Tokens(group) \in Nat
           /\ \A p \in DOMAIN parsedBlocks :
                 /\ parsedBlocks[p].tokens \in Nat
                 /\ Tokens(Append(group, p)) = Tokens(group) + parsedBlocks[p].tokens
  <1> DEFINE amounts == [n \in DOMAIN group |-> parsedBlocks[group[n]].tokens]
  <1>1. \A p \in DOMAIN parsedBlocks : parsedBlocks[p].tokens \in Nat
    <2>1. PICK B : B = Block
      OBVIOUS
    <2>2. \A p \in DOMAIN parsedBlocks : parsedBlocks[p] \in B
      BY <2>1 DEF ChunksTypeOK
    <2>3. QED
      BY <2>1, <2>2 DEF Block
  <1>2. amounts \in Seq(Nat) /\ DOMAIN amounts = DOMAIN group
    BY <1>1
  <1>3. SUFFICES ASSUME NEW p \in DOMAIN parsedBlocks
                 PROVE  Tokens(Append(group, p)) = Tokens(group) + parsedBlocks[p].tokens
    BY <1>1, <1>2, TotalIsNatural DEF Tokens
  <1> DEFINE longer == [n \in DOMAIN Append(group, p) |-> parsedBlocks[Append(group, p)[n]].tokens]
  <1>4. longer = Append(amounts, parsedBlocks[p].tokens)
    <2>1. /\ DOMAIN Append(group, p) = 1 .. Len(group) + 1
          /\ Append(group, p)[Len(group) + 1] = p
          /\ \A n \in 1 .. Len(group) : Append(group, p)[n] = group[n]
      OBVIOUS
    <2>2. Len(amounts) = Len(group)
      BY <1>2
    <2>3. /\ Append(amounts, parsedBlocks[p].tokens) \in Seq(Nat)
          /\ DOMAIN Append(amounts, parsedBlocks[p].tokens) = 1 .. Len(group) + 1
          /\ Append(amounts, parsedBlocks[p].tokens)[Len(group) + 1] = parsedBlocks[p].tokens
          /\ \A n \in 1 .. Len(group) :
                Append(amounts, parsedBlocks[p].tokens)[n] = parsedBlocks[group[n]].tokens
      BY <1>1, <1>2, <2>2
    <2>4. \A n \in 1 .. Len(group) + 1 : longer[n] = Append(amounts, parsedBlocks[p].tokens)[n]
      BY <2>1, <2>3
    <2>5. longer = [n \in 1 .. Len(group) + 1 |-> longer[n]]
      BY <2>1
    <2>6. Append(amounts, parsedBlocks[p].tokens) =
              [n \in 1 .. Len(group) + 1 |-> Append(amounts, parsedBlocks[p].tokens)[n]]
      BY <2>3
    <2>7. QED
      BY <2>4, <2>5, <2>6
  <1>5. QED
    BY <1>1, <1>2, <1>4, TotalOfMore DEF Tokens

LEMMA TokensOfNothing ==
    Tokens(<<>>) = 0
  <1>1. [n \in DOMAIN <<>> |-> parsedBlocks[<<>>[n]].tokens] = <<>>
    OBVIOUS
  <1>2. QED
    BY <1>1, TotalOfNone DEF Tokens

\* What a flush carries over: blocks of the group in their order, within the
\* overlap.
LEMMA OverlapFits ==
    ASSUME ChunkSettings, ChunksTypeOK, NEW group \in Seq(DOMAIN parsedBlocks)
    PROVE  /\ OverlapSeed(group) \in Seq(DOMAIN parsedBlocks)
           /\ Tokens(OverlapSeed(group)) <= OverlapTokens
           /\ \E k \in 1 .. Len(group) + 1 :
                 /\ Len(OverlapSeed(group)) <= Len(group) + 1 - k
                 /\ \A n \in 1 .. Len(OverlapSeed(group)) : OverlapSeed(group)[n] = group[n + k - 1]
  <1>1. CASE OverlapTokens = 0
    <2>1. OverlapSeed(group) = <<>>
      BY <1>1 DEF OverlapSeed
    <2>2. Len(group) + 1 \in 1 .. Len(group) + 1
      OBVIOUS
    <2>3. QED
      BY <1>1, <2>1, <2>2, TokensOfNothing
  <1>2. CASE OverlapTokens # 0
    <2> DEFINE Fitting == {k \in 1 .. Len(group) + 1 : FitsOverlap(group, k)}
               IsFirst(k) == FitsOverlap(group, k) /\ \A j \in 1 .. k - 1 : ~FitsOverlap(group, j)
    <2>1. Len(group) + 1 \in Fitting
      <3>1. Rest(group, Len(group) + 1) = <<>>
        BY DEF Rest
      <3>2. Tokens(Rest(group, Len(group) + 1)) <= OverlapTokens
        BY <3>1, TokensOfNothing DEF ChunkSettings
      <3>3. \A i \in Len(group) + 1 .. Len(group) : FALSE
        OBVIOUS
      <3>4. QED
        BY <3>2, <3>3 DEF FitsOverlap
    <2>2. PICK first \in Fitting : \A y \in Fitting : first <= y
      <3>1. Fitting \subseteq Nat /\ Fitting # {}
        BY <2>1
      <3>2. QED
        BY <3>1, LeastNumber
    <2>3. first \in 1 .. Len(group) + 1 /\ IsFirst(first)
      <3>1. \A j \in 1 .. first - 1 : j \in 1 .. Len(group) + 1 /\ ~(first <= j)
        OBVIOUS
      <3>2. QED
        BY <2>2, <3>1
    <2>4. PICK k : k = CHOOSE j \in 1 .. Len(group) + 1 : IsFirst(j)
      OBVIOUS
    <2>5. k \in 1 .. Len(group) + 1 /\ IsFirst(k)
      BY <2>3, <2>4
    <2>6. PICK seed : seed = OverlapSeed(group)
      OBVIOUS
    <2>7. seed = Rest(group, k)
      BY <1>2, <2>4, <2>6 DEF OverlapSeed
    <2>8. Tokens(seed) <= OverlapTokens
      BY <2>5, <2>7 DEF FitsOverlap
    <2>9. /\ seed \in Seq(DOMAIN parsedBlocks)
          /\ Len(seed) = Len(group) + 1 - k
          /\ \A n \in 1 .. Len(seed) : seed[n] = group[n + k - 1]
      BY <2>5, <2>7 DEF Rest
    <2>10. Len(seed) <= Len(group) + 1 - k
      BY <2>5, <2>9
    <2>11. QED
      BY <2>5, <2>6, <2>8, <2>9, <2>10
  <1>3. QED
    BY <1>1, <1>2

\* The type of a chunk is one of those its blocks have.
LEMMA DominantTypeIsType ==
    ASSUME ChunksTypeOK, NEW group \in Seq(DOMAIN parsedBlocks), group # <<>>
    PROVE  DominantType(group) \in ChunkTypes
  <1> DEFINE present == {i \in DOMAIN TypePriority :
                            \E n \in DOMAIN group : parsedBlocks[group[n]].ctype = TypePriority[i]}
  <1>1. \A i \in DOMAIN TypePriority : TypePriority[i] \in ChunkTypes
    BY DEF TypePriority, ChunkTypes, AtomicTypes
  <1>2. \A type \in ChunkTypes : \E i \in DOMAIN TypePriority : type = TypePriority[i]
    <2>1. 7 \in DOMAIN TypePriority /\ TypePriority[7] = "concept"
      BY DEF TypePriority
    <2>2. \A i \in 1 .. 6 : i \in DOMAIN TypePriority
      BY DEF TypePriority
    <2>3. QED
      BY <2>1, <2>2 DEF ChunkTypes, AtomicTypes
  <1>3. 1 \in DOMAIN group /\ group[1] \in DOMAIN parsedBlocks
    OBVIOUS
  <1>4. parsedBlocks[group[1]].ctype \in ChunkTypes
    <2>1. PICK B : B = Block
      OBVIOUS
    <2>2. parsedBlocks[group[1]] \in B
      BY <1>3, <2>1 DEF ChunksTypeOK
    <2>3. QED
      BY <2>1, <2>2 DEF Block
  <1>5. present # {}
    BY <1>2, <1>3, <1>4
  <1>6. present \subseteq Nat
    BY DEF TypePriority
  <1>7. PICK i \in present : \A j \in present : i <= j
    BY <1>5, <1>6, LeastNumber
  <1>8. (CHOOSE k \in present : \A j \in present : k <= j) \in present
    BY <1>7
  <1>9. QED
    BY <1>1, <1>8 DEF DominantType

\* What a flush makes of a group: each block is in the chunk or set aside.
LEMMA FlushOffers ==
    ASSUME ChunksTypeOK, NEW group \in Seq(DOMAIN parsedBlocks)
    PROVE  /\ Chunk(group) \in Seq(ChunkOf(parsedBlocks))
           /\ \A chunk \in ToSet(Chunk(group)) : chunk.blocks = group
           /\ Unsaid(group) \subseteq DOMAIN parsedBlocks
           /\ \A p \in ToSet(group) \ Unsaid(group) :
                 \E chunk \in ToSet(Chunk(group)) : p \in ToSet(chunk.blocks)
  <1>1. ToSet(group) \subseteq DOMAIN parsedBlocks
    BY DEF ToSet
  <1>2. Unsaid(group) \subseteq DOMAIN parsedBlocks
    BY <1>1 DEF Unsaid
  <1>3. CASE group # <<>> /\ EnoughSignal(group)
    <2>1. PICK chunk : chunk = [blocks |-> group, title |-> currentHeading, type |-> DominantType(group)]
      OBVIOUS
    <2>2. Chunk(group) = <<chunk>> /\ ToSet(<<chunk>>) = {chunk}
      BY <1>3, <2>1 DEF Chunk, ToSet
    <2>3. chunk.blocks = group
      BY <2>1
    <2>4. chunk \in ChunkOf(parsedBlocks)
      BY <1>3, <2>1, DominantTypeIsType DEF ChunkOf, ChunksTypeOK
    <2>5. QED
      BY <1>2, <2>2, <2>3, <2>4
  <1>4. CASE ~(group # <<>> /\ EnoughSignal(group))
    <2>1. Chunk(group) = <<>> /\ ToSet(<<>>) = {}
      BY <1>4 DEF Chunk, ToSet
    <2>2. ToSet(group) \subseteq Unsaid(group)
      <3>1. CASE group = <<>>
        BY <2>1, <3>1
      <3>2. CASE ~EnoughSignal(group)
        BY <3>2 DEF Unsaid
      <3>3. QED
        BY <1>4, <3>1, <3>2
    <2>3. QED
      BY <1>2, <2>1, <2>2
  <1>5. QED
    BY <1>3, <1>4

LEMMA ToSetOfBoth ==
    ASSUME NEW E, NEW s \in Seq(E), NEW t \in Seq(E)
    PROVE  s \o t \in Seq(E) /\ ToSet(s \o t) = ToSet(s) \cup ToSet(t)
  <1>1. PICK m \in Nat, n \in Nat : m = Len(s) /\ n = Len(t)
    OBVIOUS
  <1>2. /\ DOMAIN s = 1 .. m /\ DOMAIN t = 1 .. n /\ DOMAIN (s \o t) = 1 .. m + n
        /\ \A i \in 1 .. m : (s \o t)[i] = s[i]
        /\ \A i \in m + 1 .. m + n : (s \o t)[i] = t[i - m]
        /\ s \o t \in Seq(E)
    BY <1>1
  <1>3. ASSUME NEW e \in ToSet(s \o t)
        PROVE  e \in ToSet(s) \cup ToSet(t)
    <2>1. PICK i \in 1 .. m + n : e = (s \o t)[i]
      BY <1>2, <1>3 DEF ToSet
    <2>2. CASE i <= m
      BY <1>2, <2>1, <2>2 DEF ToSet
    <2>3. CASE i > m
      <3>1. i - m \in 1 .. n /\ e = t[i - m]
        BY <1>1, <1>2, <2>1, <2>3
      <3>2. QED
        BY <1>2, <3>1 DEF ToSet
    <2>4. QED
      BY <2>2, <2>3
  <1>4. ASSUME NEW e \in ToSet(s)
        PROVE  e \in ToSet(s \o t)
    <2>1. PICK i \in 1 .. m : e = s[i]
      BY <1>2, <1>4 DEF ToSet
    <2>2. i \in 1 .. m + n /\ e = (s \o t)[i]
      BY <1>1, <1>2, <2>1
    <2>3. QED
      BY <1>2, <2>2 DEF ToSet
  <1>5. ASSUME NEW e \in ToSet(t)
        PROVE  e \in ToSet(s \o t)
    <2>1. PICK i \in 1 .. n : e = t[i]
      BY <1>2, <1>5 DEF ToSet
    <2>2. m + i \in 1 .. m + n /\ e = (s \o t)[m + i]
      BY <1>1, <1>2, <2>1
    <2>3. QED
      BY <1>2, <2>2 DEF ToSet
  <1>6. QED
    BY <1>2, <1>3, <1>4, <1>5

\* A group in reading order, of blocks before a position.
InOrderBefore(group, p) ==
    /\ \A j, k \in DOMAIN group : j < k => group[j] < group[k]
    /\ \A j \in DOMAIN group : group[j] < p

\* The next block in reading order.
LEMMA AppendedInOrder ==
    ASSUME NEW group \in Seq(Nat), NEW p \in Nat, InOrderBefore(group, p)
    PROVE  InOrderBefore(Append(group, p), p + 1)
  <1>1. PICK len \in Nat : len = Len(group)
    OBVIOUS
  <1>2. /\ DOMAIN group = 1 .. len /\ DOMAIN Append(group, p) = 1 .. len + 1
        /\ Append(group, p)[len + 1] = p
        /\ \A n \in 1 .. len : Append(group, p)[n] = group[n] /\ group[n] \in Nat
    BY <1>1
  <1>3. \A n \in 1 .. len : group[n] < p
    BY <1>2 DEF InOrderBefore
  <1>4. \A j, k \in 1 .. len + 1 : j < k => Append(group, p)[j] < Append(group, p)[k]
    <2>1. SUFFICES ASSUME NEW j \in 1 .. len + 1, NEW k \in 1 .. len + 1, j < k
                   PROVE  Append(group, p)[j] < Append(group, p)[k]
      OBVIOUS
    <2>2. j \in 1 .. len
      BY <1>1, <2>1
    <2>3. CASE k = len + 1
      BY <1>2, <1>3, <2>2, <2>3
    <2>4. CASE k # len + 1
      <3>1. k \in 1 .. len
        BY <1>1, <2>4
      <3>2. group[j] < group[k]
        BY <1>2, <2>1, <2>2, <3>1 DEF InOrderBefore
      <3>3. QED
        BY <1>2, <2>2, <3>1, <3>2
    <2>5. QED
      BY <2>3, <2>4
  <1>5. \A j \in 1 .. len + 1 : Append(group, p)[j] < p + 1
    <2>1. SUFFICES ASSUME NEW j \in 1 .. len + 1
                   PROVE  Append(group, p)[j] < p + 1
      OBVIOUS
    <2>2. CASE j = len + 1
      BY <1>2, <2>2
    <2>3. CASE j # len + 1
      <3>1. j \in 1 .. len
        BY <1>1, <2>3
      <3>2. QED
        BY <1>2, <1>3, <3>1
    <2>4. QED
      BY <2>2, <2>3
  <1>6. QED
    BY <1>2, <1>4, <1>5 DEF InOrderBefore

\* WithinBudget of a given document.
FitsBudget(document, group) ==
    LET tokens == Total([n \in DOMAIN group |-> document[group[n]].tokens])
    IN  /\ \/ Len(group) = 1
           \/ tokens <= TargetTokens
           \/ tokens < TargetTokens + OverlapTokens
        /\ \A j, k \in DOMAIN group : j < k => group[j] < group[k]

\* The group being gathered is within the budget already, and of blocks read.
ChunksInv ==
    /\ ChunksTypeOK
    /\ FitsBudget(parsedBlocks, currentBlocks)
    /\ InOrderBefore(currentBlocks, upcoming)
    /\ \A chunk \in ToSet(builtChunks) : FitsBudget(parsedBlocks, chunk.blocks)
    /\ EveryBlockOffered

LEMMA FitsBudgetIsWithin ==
    ASSUME NEW group
    PROVE  FitsBudget(parsedBlocks, group) <=> WithinBudget(group)
  BY DEF FitsBudget, WithinBudget, Tokens

\* A step that adds chunks within the budget, sets blocks aside and reads at
\* most one block keeps the invariant if no block it takes from the group is
\* left out.
LEMMA OfferingKeepsInv ==
    ASSUME ChunksInv, UNCHANGED parsedBlocks,
           NEW more \in Seq(ChunkOf(parsedBlocks)), NEW aside \in SUBSET DOMAIN parsedBlocks,
           builtChunks' = builtChunks \o more, droppedBlocks' = droppedBlocks \cup aside,
           \A chunk \in ToSet(more) : FitsBudget(parsedBlocks, chunk.blocks),
           \/ upcoming' = upcoming
           \/ upcoming' = upcoming + 1 /\ upcoming \in DOMAIN parsedBlocks,
           currentHeading' \in 0 .. Len(parsedBlocks),
           currentBlocks' \in Seq(DOMAIN parsedBlocks),
           FitsBudget(parsedBlocks, currentBlocks'), InOrderBefore(currentBlocks', upcoming'),
           \A p \in ToSet(currentBlocks) \cup (upcoming .. upcoming' - 1) :
              \/ parsedBlocks[p].type = "heading"
              \/ p \in ToSet(currentBlocks') \cup aside
              \/ \E chunk \in ToSet(more) : p \in ToSet(chunk.blocks)
    PROVE  ChunksInv'
  <1>1. PICK document : document = parsedBlocks
    OBVIOUS
  <1>2. /\ document \in Seq(Block) /\ parsedBlocks' = document /\ builtChunks \in Seq(ChunkOf(document))
        /\ upcoming \in Nat /\ upcoming \in 1 .. Len(document) + 1
        /\ droppedBlocks \subseteq DOMAIN document
    BY <1>1 DEF ChunksInv, ChunksTypeOK
  <1>3. PICK C : C = ChunkOf(document)
    OBVIOUS
  <1>4. builtChunks' \in Seq(C) /\ ToSet(builtChunks') = ToSet(builtChunks) \cup ToSet(more)
    BY <1>1, <1>2, <1>3, ToSetOfBoth
  <1>5. upcoming' \in 1 .. Len(document) + 1
    <2>1. PICK len \in Nat : len = Len(document) /\ DOMAIN document = 1 .. len
      BY <1>2
    <2>2. PICK u \in 1 .. len + 1 : u = upcoming
      BY <1>2, <2>1
    <2>3. CASE upcoming' = upcoming
      BY <2>1, <2>2, <2>3
    <2>4. CASE upcoming' = upcoming + 1 /\ upcoming \in DOMAIN parsedBlocks
      <3>1. u \in 1 .. len
        BY <1>1, <2>1, <2>2, <2>4
      <3>2. QED
        BY <2>1, <2>2, <2>4, <3>1
    <2>5. QED
      BY <2>3, <2>4
  <1>6. ChunksTypeOK'
    <2>1. droppedBlocks' \subseteq DOMAIN document
      BY <1>1, <1>2
    <2>2. QED
      BY <1>1, <1>2, <1>3, <1>4, <1>5, <2>1 DEF ChunksTypeOK
  <1>7. \A chunk \in ToSet(builtChunks') : FitsBudget(document, chunk.blocks)
    BY <1>1, <1>4 DEF ChunksInv
  <1>8. EveryBlockOffered'
    <2>1. SUFFICES ASSUME NEW p \in 1 .. upcoming' - 1, document[p].type # "heading",
                          p \notin ToSet(currentBlocks') \cup droppedBlocks'
                   PROVE  \E chunk \in ToSet(builtChunks') : p \in ToSet(chunk.blocks)
      BY <1>2 DEF EveryBlockOffered
    <2>2. CASE p \in ToSet(currentBlocks) \cup (upcoming .. upcoming' - 1)
      BY <1>1, <1>4, <2>1, <2>2
    <2>3. CASE p \notin ToSet(currentBlocks) \cup (upcoming .. upcoming' - 1)
      <3>1. p \in 1 .. upcoming - 1
        <4>1. PICK u \in Nat : u = upcoming
          BY <1>2
        <4>2. PICK v \in Nat : v = upcoming'
          BY <1>5
        <4>3. p \in 1 .. v - 1 /\ p \notin u .. v - 1
          BY <2>3, <4>1, <4>2
        <4>4. QED
          BY <4>1, <4>3
      <3>2. \E chunk \in ToSet(builtChunks) : p \in ToSet(chunk.blocks)
        BY <1>1, <2>1, <2>3, <3>1 DEF ChunksInv, EveryBlockOffered
      <3>3. QED
        BY <1>4, <3>2
    <2>4. QED
      BY <2>2, <2>3
  <1>9. QED
    BY <1>1, <1>2, <1>6, <1>7, <1>8 DEF ChunksInv

\* What a flush carries over is within the budget, and leaves room for a block
\* that does not stand alone.
LEMMA SeedFits ==
    ASSUME ChunkSettings, ChunksInv
    PROVE  /\ OverlapSeed(currentBlocks) \in Seq(DOMAIN parsedBlocks)
           /\ FitsBudget(parsedBlocks, OverlapSeed(currentBlocks))
           /\ InOrderBefore(OverlapSeed(currentBlocks), upcoming)
           /\ \A p \in DOMAIN parsedBlocks :
                 p = upcoming /\ parsedBlocks[p].tokens < TargetTokens =>
                    /\ FitsBudget(parsedBlocks, Append(OverlapSeed(currentBlocks), p))
                    /\ InOrderBefore(Append(OverlapSeed(currentBlocks), p), upcoming + 1)
  <1>0. PICK seed : seed = OverlapSeed(currentBlocks)
    OBVIOUS
  <1>1. PICK group \in Seq(DOMAIN parsedBlocks) :
           group = currentBlocks /\ seed = OverlapSeed(currentBlocks)
    BY <1>0 DEF ChunksInv, ChunksTypeOK
  <1>2. /\ seed \in Seq(DOMAIN parsedBlocks) /\ Tokens(seed) <= OverlapTokens
        /\ \E k \in 1 .. Len(group) + 1 :
              /\ Len(seed) <= Len(group) + 1 - k
              /\ \A n \in 1 .. Len(seed) : seed[n] = group[n + k - 1]
    BY <1>1, OverlapFits DEF ChunksInv
  <1>3. upcoming \in Nat /\ TargetTokens \in Nat \ {0} /\ OverlapTokens \in Nat
    BY DEF ChunksInv, ChunksTypeOK, ChunkSettings
  <1>4. InOrderBefore(seed, upcoming)
    <2>1. PICK k \in 1 .. Len(group) + 1 :
              /\ Len(seed) <= Len(group) + 1 - k
              /\ \A n \in 1 .. Len(seed) : seed[n] = group[n + k - 1]
      BY <1>2
    <2>2. InOrderBefore(group, upcoming)
      BY <1>1 DEF ChunksInv
    <2>3. \A n \in DOMAIN seed : n \in Nat /\ n + k - 1 \in DOMAIN group
      <3>1. PICK m, len \in Nat : m = Len(seed) /\ len = Len(group)
        BY <1>1, <1>2
      <3>2. DOMAIN seed = 1 .. m /\ DOMAIN group = 1 .. len /\ m <= len + 1 - k /\ k \in 1 .. len + 1
        BY <1>1, <1>2, <2>1, <3>1
      <3>3. QED
        BY <3>2
    <2>4. \A n, m \in DOMAIN seed : n < m => n + k - 1 < m + k - 1
      BY <1>2, <2>1
    <2>5. DOMAIN seed = 1 .. Len(seed)
      BY <1>2
    <2>6. QED
      BY <2>1, <2>2, <2>3, <2>4, <2>5 DEF InOrderBefore
  <1>5. FitsBudget(parsedBlocks, seed)
    <2>1. Tokens(seed) \in Nat
      BY <1>2, TokensOfGroup DEF ChunksInv
    <2>2. Tokens(seed) < TargetTokens + OverlapTokens
      BY <1>2, <1>3, <2>1
    <2>3. WithinBudget(seed)
      BY <1>4, <2>2 DEF WithinBudget, InOrderBefore
    <2>4. QED
      BY <2>3, FitsBudgetIsWithin
  <1>6. ASSUME NEW p \in DOMAIN parsedBlocks, p = upcoming, parsedBlocks[p].tokens < TargetTokens
        PROVE  /\ FitsBudget(parsedBlocks, Append(seed, p))
               /\ InOrderBefore(Append(seed, p), upcoming + 1)
    <2>1. InOrderBefore(Append(seed, p), upcoming + 1)
      <3>1. seed \in Seq(Nat)
        <4>1. \A n \in 1 .. Len(seed) : seed[n] \in Nat
          <5>1. DOMAIN parsedBlocks \subseteq Nat
            BY DEF ChunksInv, ChunksTypeOK
          <5>2. QED
            BY <1>2, <5>1
        <4>2. QED
          BY <1>2, <4>1
      <3>2. QED
        BY <1>3, <1>4, <1>6, <3>1, AppendedInOrder
    <2>2. Tokens(seed) \in Nat /\ parsedBlocks[p].tokens \in Nat /\
          Tokens(Append(seed, p)) = Tokens(seed) + parsedBlocks[p].tokens
      BY <1>2, TokensOfGroup DEF ChunksInv
    <2>3. Tokens(Append(seed, p)) < TargetTokens + OverlapTokens
      <3>1. PICK a, b \in Nat : a = Tokens(seed) /\ b = parsedBlocks[p].tokens
        BY <2>2
      <3>2. Tokens(Append(seed, p)) = a + b /\ a <= OverlapTokens /\ b < TargetTokens
        BY <1>2, <1>6, <2>2, <3>1
      <3>3. QED
        BY <1>3, <3>2
    <2>4. WithinBudget(Append(seed, p))
      BY <2>1, <2>3 DEF WithinBudget, InOrderBefore
    <2>5. QED
      BY <2>1, <2>4, FitsBudgetIsWithin
  <1>7. QED
    BY <1>1, <1>2, <1>4, <1>5, <1>6

\* A flush of the gathered group, whatever goes on gathering.
LEMMA FlushKeepsInv ==
    ASSUME ChunksInv, UNCHANGED parsedBlocks, Close(currentBlocks),
           \/ upcoming' = upcoming
           \/ upcoming' = upcoming + 1 /\ upcoming \in DOMAIN parsedBlocks,
           currentHeading' \in 0 .. Len(parsedBlocks),
           currentBlocks' \in Seq(DOMAIN parsedBlocks),
           FitsBudget(parsedBlocks, currentBlocks'), InOrderBefore(currentBlocks', upcoming'),
           \A p \in upcoming .. upcoming' - 1 :
              parsedBlocks[p].type = "heading" \/ p \in ToSet(currentBlocks')
    PROVE  ChunksInv'
  <1>1. PICK group \in Seq(DOMAIN parsedBlocks) : group = currentBlocks
    BY DEF ChunksInv, ChunksTypeOK
  <1>2. PICK more, aside : more = Chunk(group) /\ aside = Unsaid(group)
    OBVIOUS
  <1>3. /\ more \in Seq(ChunkOf(parsedBlocks)) /\ aside \in SUBSET DOMAIN parsedBlocks
        /\ \A chunk \in ToSet(more) : chunk.blocks = group
        /\ \A p \in ToSet(group) \ aside : \E chunk \in ToSet(more) : p \in ToSet(chunk.blocks)
    BY <1>1, <1>2, FlushOffers DEF ChunksInv
  <1>4. builtChunks' = builtChunks \o more /\ droppedBlocks' = droppedBlocks \cup aside
    BY <1>1, <1>2 DEF Close
  <1>5. \A chunk \in ToSet(more) : FitsBudget(parsedBlocks, chunk.blocks)
    BY <1>1, <1>3 DEF ChunksInv
  <1>6. \A p \in ToSet(currentBlocks) \cup (upcoming .. upcoming' - 1) :
           \/ parsedBlocks[p].type = "heading"
           \/ p \in ToSet(currentBlocks') \cup aside
           \/ \E chunk \in ToSet(more) : p \in ToSet(chunk.blocks)
    BY <1>1, <1>3
  <1>7. QED
    BY <1>3, <1>4, <1>5, <1>6, OfferingKeepsInv

\* A group of nothing or of one block.
LEMMA SmallGroups ==
    ASSUME ChunkSettings, ChunksTypeOK
    PROVE  /\ FitsBudget(parsedBlocks, <<>>)
           /\ \A p : InOrderBefore(<<>>, p)
           /\ \A p \in DOMAIN parsedBlocks : FitsBudget(parsedBlocks, <<p>>)
  <1>1. WithinBudget(<<>>)
    BY TokensOfNothing DEF WithinBudget, ChunkSettings
  <1>2. ASSUME NEW p \in DOMAIN parsedBlocks
        PROVE  WithinBudget(<<p>>)
    <2>1. Len(<<p>>) = 1 /\ \A j, k \in DOMAIN <<p>> : ~(j < k)
      OBVIOUS
    <2>2. QED
      BY <2>1 DEF WithinBudget
  <1>3. QED
    BY <1>1, <1>2, FitsBudgetIsWithin DEF InOrderBefore

LEMMA ReadHeadingKeepsInv ==
    ASSUME ChunkSettings, ChunksInv, ReadHeading
    PROVE  ChunksInv'
  <1>1. /\ parsedBlocks' = parsedBlocks /\ upcoming' = upcoming + 1
        /\ upcoming \in Nat /\ upcoming \in DOMAIN parsedBlocks
        /\ parsedBlocks[upcoming].type = "heading"
        /\ currentBlocks \in Seq(DOMAIN parsedBlocks)
    <2>1. parsedBlocks \in Seq(Block) /\ upcoming \in 1 .. Len(parsedBlocks) + 1
      BY DEF ChunksInv, ChunksTypeOK
    <2>2. upcoming <= Len(parsedBlocks) /\ parsedBlocks[upcoming].type = "heading"
      BY DEF ReadHeading, AtHeading
    <2>3. QED
      BY <2>1, <2>2 DEF ReadHeading, ChunksInv, ChunksTypeOK
  <1>2. \A p \in upcoming .. upcoming' - 1 : parsedBlocks[p].type = "heading"
    BY <1>1
  <1>3. currentHeading' \in 0 .. Len(parsedBlocks)
    <2>1. currentHeading' \in {upcoming, currentHeading}
      BY DEF ReadHeading
    <2>2. {upcoming, currentHeading} \subseteq 0 .. Len(parsedBlocks)
      BY <1>1 DEF ChunksInv, ChunksTypeOK
    <2>3. QED
      BY <2>1, <2>2
  <1>4. \A group \in Seq(DOMAIN parsedBlocks) :
           InOrderBefore(group, upcoming) => InOrderBefore(group, upcoming + 1)
    <2>1. SUFFICES ASSUME NEW group \in Seq(DOMAIN parsedBlocks), InOrderBefore(group, upcoming)
                   PROVE  InOrderBefore(group, upcoming + 1)
      OBVIOUS
    <2>2. \A j \in DOMAIN group : group[j] \in Nat
      <3>1. DOMAIN parsedBlocks \subseteq Nat
        BY DEF ChunksInv, ChunksTypeOK
      <3>2. QED
        BY <2>1, <3>1
    <2>3. QED
      BY <1>1, <2>1, <2>2 DEF InOrderBefore
  <1>5. CASE currentBlocks = <<>>
    <2>1. PICK more, aside : more = <<>> /\ aside = {}
      OBVIOUS
    <2>2. /\ more \in Seq(ChunkOf(parsedBlocks)) /\ aside \in SUBSET DOMAIN parsedBlocks
          /\ ToSet(more) = {}
      BY <2>1 DEF ToSet
    <2>3. /\ currentBlocks' = currentBlocks
          /\ builtChunks' = builtChunks \o more /\ droppedBlocks' = droppedBlocks \cup aside
      BY <1>5, <2>1 DEF ReadHeading, ChunksInv, ChunksTypeOK
    <2>4. FitsBudget(parsedBlocks, currentBlocks') /\ InOrderBefore(currentBlocks', upcoming')
      BY <1>1, <1>4, <2>3 DEF ChunksInv
    <2>5. \A p \in ToSet(currentBlocks) \cup (upcoming .. upcoming' - 1) :
             parsedBlocks[p].type = "heading" \/ p \in ToSet(currentBlocks') \cup aside
      BY <1>2, <2>3
    <2>6. QED
      BY <1>1, <1>3, <2>2, <2>3, <2>4, <2>5, OfferingKeepsInv
  <1>6. CASE currentBlocks # <<>>
    <2>1. Close(currentBlocks) /\ currentBlocks' = OverlapSeed(currentBlocks)
      BY <1>6 DEF ReadHeading
    <2>2. /\ currentBlocks' \in Seq(DOMAIN parsedBlocks)
          /\ FitsBudget(parsedBlocks, currentBlocks') /\ InOrderBefore(currentBlocks', upcoming')
      BY <1>1, <1>4, <2>1, SeedFits
    <2>3. QED
      BY <1>1, <1>2, <1>3, <2>1, <2>2, FlushKeepsInv
  <1>7. QED
    BY <1>5, <1>6

LEMMA ReadAloneKeepsInv ==
    ASSUME ChunkSettings, ChunksInv, ReadAlone
    PROVE  ChunksInv'
  <1>1. /\ parsedBlocks' = parsedBlocks /\ upcoming' = upcoming + 1
        /\ upcoming \in Nat /\ upcoming \in DOMAIN parsedBlocks
        /\ currentHeading' \in 0 .. Len(parsedBlocks)
    <2>1. parsedBlocks \in Seq(Block) /\ upcoming \in 1 .. Len(parsedBlocks) + 1
      BY DEF ChunksInv, ChunksTypeOK
    <2>2. upcoming <= Len(parsedBlocks)
      BY DEF ReadAlone, AtText
    <2>3. QED
      BY <2>1, <2>2 DEF ReadAlone, ChunksInv, ChunksTypeOK
  <1>0. PICK group, single : group = currentBlocks /\ single = <<upcoming>>
    OBVIOUS
  <1>2. /\ group \in Seq(DOMAIN parsedBlocks) /\ single \in Seq(DOMAIN parsedBlocks)
        /\ group = currentBlocks /\ single = <<upcoming>>
    BY <1>0, <1>1 DEF ChunksInv, ChunksTypeOK
  <1>3. PICK C : C = ChunkOf(parsedBlocks)
    OBVIOUS
  <1>4. PICK first, second, more, aside :
           /\ first = Chunk(group) /\ second = Chunk(single) /\ more = first \o second
           /\ aside = Unsaid(group) \cup Unsaid(single)
    OBVIOUS
  <1>5. /\ first \in Seq(C) /\ second \in Seq(C) /\ aside \in SUBSET DOMAIN parsedBlocks
        /\ \A chunk \in ToSet(first) : chunk.blocks = group
        /\ \A chunk \in ToSet(second) : chunk.blocks = single
        /\ \A p \in ToSet(group) \ aside : \E chunk \in ToSet(first) : p \in ToSet(chunk.blocks)
        /\ \A p \in ToSet(single) \ aside : \E chunk \in ToSet(second) : p \in ToSet(chunk.blocks)
    BY <1>2, <1>3, <1>4, FlushOffers DEF ChunksInv
  <1>6. more \in Seq(C) /\ ToSet(more) = ToSet(first) \cup ToSet(second)
    BY <1>4, <1>5, ToSetOfBoth
  <1>7. builtChunks' = builtChunks \o more /\ droppedBlocks' = droppedBlocks \cup aside
    <2>1. /\ builtChunks' = builtChunks \o (first \o second)
          /\ droppedBlocks' = droppedBlocks \cup Unsaid(group) \cup Unsaid(single)
      BY <1>2, <1>4 DEF ReadAlone, CloseBoth
    <2>2. QED
      BY <1>4, <2>1
  <1>8. \A chunk \in ToSet(more) : FitsBudget(parsedBlocks, chunk.blocks)
    <2>1. FitsBudget(parsedBlocks, group) /\ FitsBudget(parsedBlocks, single)
      BY <1>1, <1>2, SmallGroups DEF ChunksInv
    <2>2. QED
      BY <1>5, <1>6, <2>1
  <1>9. \A p \in ToSet(currentBlocks) \cup (upcoming .. upcoming' - 1) :
           p \in aside \/ \E chunk \in ToSet(more) : p \in ToSet(chunk.blocks)
    <2>1. \A p \in upcoming .. upcoming' - 1 : p \in ToSet(single)
      BY <1>1, <1>2 DEF ToSet
    <2>2. QED
      BY <1>2, <1>5, <1>6, <2>1
  <1>10. /\ currentBlocks' = <<>> /\ currentBlocks' \in Seq(DOMAIN parsedBlocks)
         /\ FitsBudget(parsedBlocks, currentBlocks') /\ InOrderBefore(currentBlocks', upcoming')
    BY SmallGroups DEF ReadAlone, ChunksInv
  <1>11. QED
    BY <1>1, <1>3, <1>5, <1>6, <1>7, <1>8, <1>9, <1>10, OfferingKeepsInv

LEMMA ReadProseKeepsInv ==
    ASSUME ChunkSettings, ChunksInv, ReadProse
    PROVE  ChunksInv'
  <1>1. /\ parsedBlocks' = parsedBlocks /\ upcoming' = upcoming + 1
        /\ upcoming \in Nat /\ upcoming \in DOMAIN parsedBlocks
        /\ currentHeading' \in 0 .. Len(parsedBlocks)
        /\ currentBlocks \in Seq(DOMAIN parsedBlocks)
    <2>1. parsedBlocks \in Seq(Block) /\ upcoming \in 1 .. Len(parsedBlocks) + 1
      BY DEF ChunksInv, ChunksTypeOK
    <2>2. upcoming <= Len(parsedBlocks)
      BY DEF ReadProse, AtText
    <2>3. QED
      BY <2>1, <2>2 DEF ReadProse, ChunksInv, ChunksTypeOK
  <1>2. /\ TargetTokens \in Nat /\ parsedBlocks[upcoming].tokens \in Nat
        /\ parsedBlocks[upcoming].tokens < TargetTokens
    <2>1. parsedBlocks[upcoming].tokens \in Nat /\ TargetTokens \in Nat
      BY <1>1, TokensOfGroup DEF ChunksInv, ChunkSettings
    <2>2. ~(parsedBlocks[upcoming].tokens >= TargetTokens)
      BY DEF ReadProse, StandsAlone
    <2>3. QED
      BY <2>1, <2>2
  <1>3. \A group \in Seq(DOMAIN parsedBlocks) :
           /\ Append(group, upcoming) \in Seq(DOMAIN parsedBlocks)
           /\ \A p \in upcoming .. upcoming' - 1 : p \in ToSet(Append(group, upcoming))
           /\ ToSet(group) \subseteq ToSet(Append(group, upcoming))
    <2>1. SUFFICES ASSUME NEW group \in Seq(DOMAIN parsedBlocks)
                   PROVE  /\ Append(group, upcoming) \in Seq(DOMAIN parsedBlocks)
                          /\ upcoming \in ToSet(Append(group, upcoming))
                          /\ ToSet(group) \subseteq ToSet(Append(group, upcoming))
      BY <1>1
    <2>2. PICK len \in Nat : len = Len(group)
      BY <2>1
    <2>3. /\ DOMAIN group = 1 .. len /\ DOMAIN Append(group, upcoming) = 1 .. len + 1
          /\ Append(group, upcoming)[len + 1] = upcoming
          /\ \A n \in 1 .. len : Append(group, upcoming)[n] = group[n]
          /\ Append(group, upcoming) \in Seq(DOMAIN parsedBlocks)
      BY <1>1, <2>1, <2>2
    <2>4. len + 1 \in 1 .. len + 1 /\ \A n \in 1 .. len : n \in 1 .. len + 1
      BY <2>2
    <2>5. QED
      BY <2>3, <2>4 DEF ToSet
  <1>4. CASE currentBlocks # <<>> /\ ShouldFlush(upcoming)
    <2>1. Close(currentBlocks) /\ currentBlocks' = Append(OverlapSeed(currentBlocks), upcoming)
      BY <1>4 DEF ReadProse
    <2>2. /\ OverlapSeed(currentBlocks) \in Seq(DOMAIN parsedBlocks)
          /\ FitsBudget(parsedBlocks, currentBlocks') /\ InOrderBefore(currentBlocks', upcoming')
      BY <1>1, <1>2, <2>1, SeedFits
    <2>3. /\ currentBlocks' \in Seq(DOMAIN parsedBlocks)
          /\ \A p \in upcoming .. upcoming' - 1 : p \in ToSet(currentBlocks')
      BY <1>3, <2>1, <2>2
    <2>4. QED
      BY <1>1, <2>1, <2>2, <2>3, FlushKeepsInv
  <1>5. CASE ~(currentBlocks # <<>> /\ ShouldFlush(upcoming))
    <2>1. PICK more, aside : more = <<>> /\ aside = {}
      OBVIOUS
    <2>2. /\ more \in Seq(ChunkOf(parsedBlocks)) /\ aside \in SUBSET DOMAIN parsedBlocks
          /\ ToSet(more) = {}
      BY <2>1 DEF ToSet
    <2>3. /\ currentBlocks' = Append(currentBlocks, upcoming)
          /\ builtChunks' = builtChunks \o more /\ droppedBlocks' = droppedBlocks \cup aside
      BY <1>5, <2>1 DEF ReadProse, ChunksInv, ChunksTypeOK
    <2>4. InOrderBefore(currentBlocks', upcoming')
      <3>1. currentBlocks \in Seq(Nat)
        <4>1. \A n \in 1 .. Len(currentBlocks) : currentBlocks[n] \in Nat
          <5>1. DOMAIN parsedBlocks \subseteq Nat
            BY DEF ChunksInv, ChunksTypeOK
          <5>2. QED
            BY <1>1, <5>1
        <4>2. QED
          BY <1>1, <4>1
      <3>2. QED
        BY <1>1, <2>3, <3>1, AppendedInOrder DEF ChunksInv
    <2>5. FitsBudget(parsedBlocks, currentBlocks')
      <3>1. CASE currentBlocks = <<>>
        <4>1. currentBlocks' = <<upcoming>>
          BY <2>3, <3>1
        <4>2. QED
          BY <1>1, <4>1, SmallGroups DEF ChunksInv
      <3>2. CASE ~ShouldFlush(upcoming)
        <4>1. /\ Tokens(currentBlocks) \in Nat
              /\ Tokens(Append(currentBlocks, upcoming)) =
                     Tokens(currentBlocks) + parsedBlocks[upcoming].tokens
          BY <1>1, TokensOfGroup DEF ChunksInv
        <4>2. Tokens(Append(currentBlocks, upcoming)) <= TargetTokens
          BY <1>2, <3>2, <4>1 DEF ShouldFlush
        <4>3. InOrderBefore(Append(currentBlocks, upcoming), upcoming')
          BY <2>3, <2>4
        <4>4. WithinBudget(Append(currentBlocks, upcoming))
          BY <4>2, <4>3 DEF WithinBudget, InOrderBefore
        <4>5. QED
          BY <2>3, <4>4, FitsBudgetIsWithin
      <3>3. QED
        BY <1>5, <3>1, <3>2
    <2>6. /\ currentBlocks' \in Seq(DOMAIN parsedBlocks)
          /\ \A p \in ToSet(currentBlocks) \cup (upcoming .. upcoming' - 1) : p \in ToSet(currentBlocks')
      BY <1>1, <1>3, <2>3
    <2>7. QED
      BY <1>1, <2>2, <2>3, <2>4, <2>5, <2>6, OfferingKeepsInv
  <1>6. QED
    BY <1>4, <1>5

LEMMA NextChunksKeepsInv ==
    ASSUME ChunkSettings, ChunksInv, [NextChunks]_chunkVars
    PROVE  ChunksInv'
  <1>1. CASE UNCHANGED chunkVars
    BY <1>1 DEF chunkVars, ChunksInv, ChunksTypeOK, InOrderBefore, FitsBudget, EveryBlockOffered
  <1>2. CASE ReadHeading
    BY <1>2, ReadHeadingKeepsInv
  <1>3. CASE ReadAlone
    BY <1>3, ReadAloneKeepsInv
  <1>4. CASE ReadProse
    BY <1>4, ReadProseKeepsInv
  <1>5. CASE FlushRest
    <2>1. /\ Close(currentBlocks) /\ currentBlocks' = <<>>
          /\ parsedBlocks' = parsedBlocks /\ upcoming' = upcoming
          /\ currentHeading' \in 0 .. Len(parsedBlocks)
      BY <1>5 DEF FlushRest, ChunksInv, ChunksTypeOK
    <2>2. /\ currentBlocks' \in Seq(DOMAIN parsedBlocks)
          /\ FitsBudget(parsedBlocks, currentBlocks') /\ InOrderBefore(currentBlocks', upcoming')
      BY <2>1, SmallGroups DEF ChunksInv
    <2>3. \A p \in upcoming .. upcoming' - 1 : FALSE
      BY <2>1 DEF ChunksInv, ChunksTypeOK
    <2>4. QED
      BY <2>1, <2>2, <2>3, FlushKeepsInv
  <1>6. QED
    BY <1>1, <1>2, <1>3, <1>4, <1>5 DEF NextChunks

LEMMA InitChunksInv ==
    ASSUME ChunkSettings, InitChunks
    PROVE  ChunksInv
  <1>1. PICK n \in 0 .. MaxElements : \E document \in [1 .. n -> Elements] : InitDocument(document)
    BY DEF InitChunks
  <1>2. n \in Nat
    BY <1>1 DEF ChunkSettings
  <1>3. /\ parsedBlocks \in Seq(Block)
        /\ upcoming = 1 /\ currentBlocks = <<>> /\ currentHeading = 0
        /\ builtChunks = <<>> /\ droppedBlocks = {}
    BY <1>1, <1>2, ParsedBlocks DEF InitDocument
  <1>4. ChunksTypeOK
    BY <1>3 DEF ChunksTypeOK
  <1>5. FitsBudget(parsedBlocks, currentBlocks) /\ InOrderBefore(currentBlocks, upcoming)
    BY <1>3, <1>4, SmallGroups
  <1>6. ToSet(builtChunks) = {} /\ \A p \in 1 .. upcoming - 1 : FALSE
    BY <1>3 DEF ToSet
  <1>7. QED
    BY <1>4, <1>5, <1>6 DEF ChunksInv, EveryBlockOffered

\* The inductive invariant: the group being gathered is in reading order, of
\* blocks already read, and within the budget before it is ever flushed.
THEOREM ChunksInvariance ==
    ASSUME ChunkSettings
    PROVE  SpecChunks => []ChunksInv
  <1>1. InitChunks => ChunksInv
    BY InitChunksInv
  <1>2. ChunksInv /\ [NextChunks]_chunkVars => ChunksInv'
    BY NextChunksKeepsInv
  <1>3. QED
    BY <1>1, <1>2, PTL DEF SpecChunks

\* For any document, target and overlap: every block read is a heading, waits,
\* is in a chunk or was set aside in a group that says too little; a chunk of
\* several blocks is within the target, or shorter than target and overlap
\* together, and in reading order (split_markdown_into_chunks).
THEOREM ChunksHoldTheirDocument ==
    ASSUME ChunkSettings
    PROVE  SpecChunks => []ChunksHoldDocument
  <1>1. ChunksInv => ChunksHoldDocument
    BY FitsBudgetIsWithin DEF ChunksInv, ChunksHoldDocument
  <1>2. QED
    BY <1>1, ChunksInvariance, PTL
===============================================================================
