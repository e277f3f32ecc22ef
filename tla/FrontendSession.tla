--------------------------- MODULE FrontendSession ---------------------------
(***************************************************************************)
(* A browser tab of the learner application: the session hook with its     *)
(* request guards, transcript and progress (useTutorSession.ts,            *)
(* requestGuards.ts, useTranscript.ts, useSessionProgress.ts), the client  *)
(* (client.ts), and the turns its requests are answered from, found under  *)
(* the key _derive_session_request_key makes of a request that carries no  *)
(* x-request-id.                                                           *)
(*                                                                         *)
(* An action is a click, a callback or the effects of a rendering, none of *)
(* which can be interrupted.  Of the transcript the answers are modelled,  *)
(* by the turn they belong to; the learner's own messages, error bubbles   *)
(* and texts are left out.                                                 *)
(***************************************************************************)
EXTENDS Numbering, Sequences, SequencesExt

CONSTANTS
    Learners, NoLearner,
    StageSections, NoSection,
    Messages, NoMessage,
    NoClosure,
    MaxLogins,    \* bound: changes of the learner
    MaxClicks,    \* bound: clicks on start, send or retry
    MaxReadiness  \* bound: changes of the readiness

\* A request as the server tells it from others.
Keys ==
    [event : {"open_session", "learner_reply"}, message : Messages \cup {NoMessage},
     section : StageSections \cup {NoSection}, learner : Learners]

TabAssumption ==
    /\ NoLearner \notin Learners /\ NoSection \notin StageSections
    /\ NoMessage \notin Messages /\ NoClosure \notin Keys
    /\ {MaxLogins, MaxClicks, MaxReadiness} \subseteq Nat

VARIABLES
    auth,         \* learner on the screen, and how many there were before
    ready,        \* readiness.canInteract
    readySwitches, \* changes of it
    changed,      \* dependencies of the effects that changed since they ran
    guard,        \* learnerIdRef and requestVersionRef
    loading, pending,        \* state of the hook
    retryAction, canRetry,   \* retryActionRef, error.canRetry
    historyLoaded,
    transcript,   \* answers on the screen
    applied,      \* the answer progress and stage were taken from, at most one
    actions,      \* runAction calls that wait for their answer
    loads,        \* load of the history under way, if any
    serverTurns,  \* the server's turns, in the order of their creation
    clicks,       \* clicks so far
    asked         \* history: keys of what was started or sent

tabVars == <<auth, ready, readySwitches, changed, guard, loading, pending, retryAction,
             canRetry, historyLoaded, transcript, applied, actions, loads, serverTurns,
             clicks, asked>>

----------------------------------------------------------------------------
(* Requests and turns                                                      *)

\* What an action closes over: the learner and the stage of its rendering.
Closure(event, message, section) ==
    [event |-> event, message |-> message, section |-> section, learner |-> auth.learner]

\* _derive_session_request_key: the learner is that of the cookie.
Key(learner, closure) == [closure EXCEPT !.learner = learner]

Positions(key) == {i \in DOMAIN serverTurns : serverTurns[i].key = key}

\* create_chat_turn_bundle: one turn per key; one that failed runs again.
Submitted(key) ==
    IF Positions(key) = {} THEN Append(serverTurns, [key |-> key, state |-> "running", stage |-> NoSection])
    ELSE [i \in DOMAIN serverTurns |->
            IF serverTurns[i].key = key /\ serverTurns[i].state = "failed"
            THEN [serverTurns[i] EXCEPT !.state = "running"] ELSE serverTurns[i]]

\* An answer as the tab shows it.
Shown(turn, login) == [key |-> turn.key, stage |-> turn.stage, login |-> login]

\* list_completed_turns, shown by hydrateFromHistory: the learner's completed
\* turns in their order.
DoneTurns(learner) ==
    {i \in DOMAIN serverTurns :
        serverTurns[i].key.learner = learner /\ serverTurns[i].state = "completed"}

Restored(learner, login) ==
    [n \in 1 .. Cardinality(DoneTurns(learner)) |->
        Shown(serverTurns[Nth(DoneTurns(learner), n)], login)]

CurrentSection == IF applied = <<>> THEN NoSection ELSE applied[1].stage

CanInteract == auth.learner # NoLearner /\ ready

----------------------------------------------------------------------------
InitTab ==
    /\ auth = [learner |-> NoLearner, login |-> 0]
    /\ ready = FALSE
    /\ readySwitches = 0
    /\ changed = {"learner", "ready"}
    /\ guard = [learner |-> NoLearner, version |-> 0]
    /\ loading = FALSE /\ pending = FALSE
    /\ retryAction = NoClosure /\ canRetry = FALSE
    /\ historyLoaded = FALSE
    /\ transcript = <<>> /\ applied = <<>>
    /\ actions = {} /\ loads = {}
    /\ serverTurns = <<>>
    /\ clicks = 0
    /\ asked = {}

hookVars == <<loading, pending, retryAction, canRetry, historyLoaded, transcript, applied>>

\* A login or a logout in this tab, or a session that ended.
LearnerChanges(learner) ==
    /\ auth.login < MaxLogins
    /\ (auth.learner = NoLearner) # (learner = NoLearner)
    /\ auth' = [learner |-> learner, login |-> auth.login + 1]
    /\ changed' = changed \cup {"learner", "ready"}
    /\ UNCHANGED <<ready, readySwitches, guard, hookVars, actions, loads, serverTurns, clicks, asked>>

ReadinessChanges ==
    /\ readySwitches < MaxReadiness
    /\ ready' = ~ready
    /\ readySwitches' = readySwitches + 1
    /\ changed' = changed \cup {"ready"}
    /\ UNCHANGED <<auth, guard, hookVars, actions, loads, serverTurns, clicks, asked>>

\* The effects of a rendering: the guards, the reset, the history.  The last
\* one sees the historyLoaded of the rendering, not the reset one; its clean-up
\* cancels the load under way, whose answer then changes nothing.
Effects ==
    /\ changed # {}
    /\ changed' = {}
    /\ IF "learner" \in changed
       THEN /\ guard' = [learner |-> auth.learner, version |-> guard.version + 1]
            /\ transcript' = <<>> /\ applied' = <<>>
            /\ pending' = FALSE /\ canRetry' = FALSE /\ historyLoaded' = FALSE
       ELSE UNCHANGED <<guard, transcript, applied, pending, canRetry, historyLoaded>>
    /\ loads' = IF CanInteract /\ ~historyLoaded
                THEN {[learner |-> auth.learner, login |-> auth.login, read |-> FALSE,
                       history |-> <<>>, pending |-> FALSE]}
                ELSE {}
    /\ UNCHANGED <<auth, ready, readySwitches, loading, retryAction, actions, serverTurns, clicks, asked>>

----------------------------------------------------------------------------
(* Actions of the learner                                                  *)

\* runAction: the request reaches the server or is lost.
Run(closure) ==
    /\ clicks < MaxClicks
    /\ clicks' = clicks + 1
    /\ loading' = TRUE /\ pending' = TRUE
    /\ canRetry' = FALSE /\ retryAction' = NoClosure
    /\ LET version == IF closure.event = "open_session" THEN guard.version + 1 ELSE guard.version
           key == Key(auth.learner, closure)
       IN /\ guard' = [guard EXCEPT !.version = version]
          /\ actions' = actions \cup {[closure |-> closure, key |-> key, version |-> version,
                                       login |-> auth.login]}
          /\ serverTurns' \in {serverTurns, Submitted(key)}
    /\ UNCHANGED <<auth, ready, readySwitches, changed, historyLoaded, transcript, applied, loads>>

StartSession ==
    /\ CanInteract /\ ~loading
    /\ LET closure == Closure("open_session", NoMessage, NoSection)
       IN Run(closure) /\ asked' = asked \cup {closure}

Send(message) ==
    /\ CanInteract /\ ~loading
    /\ LET closure == Closure("learner_reply", message, CurrentSection)
       IN Run(closure) /\ asked' = asked \cup {closure}

RetryLast ==
    /\ auth.learner # NoLearner   \* the button is on the workspace
    /\ canRetry /\ retryAction # NoClosure /\ ~loading
    /\ Run(retryAction)
    /\ UNCHANGED asked

----------------------------------------------------------------------------
(* Answers                                                                 *)

\* The worker ends a turn, with the stage the learner is then at.
TurnEnds(i, state, stage) ==
    /\ serverTurns[i].state = "running"
    /\ serverTurns' = [serverTurns EXCEPT ![i].state = state, ![i].stage = stage]
    /\ UNCHANGED <<auth, ready, readySwitches, changed, guard, hookVars, actions, loads, clicks, asked>>

\* (mutant: only the learner is compared.)
IsOfLearner(learner, version) == guard.learner = learner

IsActiveRequest(learner, version) == guard.learner = learner /\ guard.version = version

\* The result event of the stream: applied, or dropped without a trace.
ResultArrives(a) ==
    /\ loading' = FALSE
    /\ \E i \in Positions(a.key) :
        /\ serverTurns[i].state = "completed"
        /\ IF IsActiveRequest(a.closure.learner, a.version)
           THEN LET answer == Shown(serverTurns[i], a.login) IN
                /\ pending' = FALSE
                /\ applied' = <<answer>>
                /\ transcript' = IF a.closure.event = "open_session" THEN <<answer>>
                                 ELSE Append(transcript, answer)
           ELSE UNCHANGED <<pending, applied, transcript>>
    /\ actions' = actions \ {a}
    /\ UNCHANGED <<auth, ready, readySwitches, changed, guard, retryAction, canRetry, historyLoaded,
                   loads, serverTurns, clicks, asked>>

\* The catch of runAction, which compares nothing; only a time-out keeps the
\* action for another try.
ErrorArrives(a, timeout) ==
    /\ loading' = FALSE /\ pending' = FALSE
    /\ canRetry' = timeout
    /\ retryAction' = IF timeout THEN a.closure ELSE NoClosure
    /\ actions' = actions \ {a}
    /\ UNCHANGED <<auth, ready, readySwitches, changed, guard, historyLoaded, transcript, applied,
                   loads, serverTurns, clicks, asked>>

\* The server reads completed and pending turns.
HistoryIsRead(l) ==
    /\ ~l.read
    /\ loads' = (loads \ {l}) \cup
         {[l EXCEPT !.read = TRUE, !.history = Restored(l.learner, l.login),
                    !.pending = \E t \in ToSet(serverTurns) :
                                    t.key.learner = l.learner /\ t.state = "running"]}
    /\ UNCHANGED <<auth, ready, readySwitches, changed, guard, hookVars, actions, serverTurns, clicks, asked>>

\* hydrateFromHistory replaces what the screen shows by then.
HistoryArrives(l) ==
    /\ l.read
    /\ loads' = loads \ {l}
    /\ IF l.history # <<>>
       THEN /\ transcript' = l.history
            /\ applied' = <<Last(l.history)>>
            /\ historyLoaded' = TRUE
            /\ pending' = (pending \/ l.pending)
       ELSE UNCHANGED <<transcript, applied, historyLoaded, pending>>
    /\ UNCHANGED <<auth, ready, readySwitches, changed, guard, loading, retryAction, canRetry, actions,
                   serverTurns, clicks, asked>>

HistoryFails(l) ==
    /\ loads' = loads \ {l}
    /\ UNCHANGED <<auth, ready, readySwitches, changed, guard, hookVars, actions, serverTurns, clicks, asked>>

NextTab ==
    \/ \E learner \in Learners \cup {NoLearner} : LearnerChanges(learner)
    \/ ReadinessChanges \/ Effects
    \/ StartSession \/ RetryLast
    \/ \E message \in Messages : Send(message)
    \/ \E i \in DOMAIN serverTurns :
        \/ TurnEnds(i, "failed", NoSection)
        \/ \E stage \in StageSections : TurnEnds(i, "completed", stage)
    \/ \E a \in actions : ResultArrives(a) \/ \E timeout \in BOOLEAN : ErrorArrives(a, timeout)
    \/ \E l \in loads : HistoryIsRead(l) \/ HistoryArrives(l) \/ HistoryFails(l)

SpecTab == InitTab /\ [][NextTab]_tabVars

----------------------------------------------------------------------------
(* Properties                                                              *)

\* Types of what the tab and the server hold.
Answer == [key : Keys, stage : StageSections \cup {NoSection}, login : Nat]

ServerTurn == [key : Keys, state : {"running", "completed", "failed"},
         stage : StageSections \cup {NoSection}]

Action == [closure : Keys, key : Keys, version : Nat, login : Nat]

Load == [learner : Learners, login : Nat, read : BOOLEAN, history : Seq(Answer), pending : BOOLEAN]

\* One request at a time, and it keeps the tab loading.
TabTypeOK ==
    /\ auth \in [learner : Learners \cup {NoLearner}, login : 0 .. MaxLogins]
    /\ ready \in BOOLEAN /\ readySwitches \in 0 .. MaxReadiness
    /\ changed \subseteq {"learner", "ready"}
    /\ guard \in [learner : Learners \cup {NoLearner}, version : Nat]
    /\ {loading, pending, canRetry, historyLoaded} \subseteq BOOLEAN
    /\ retryAction \in Keys \cup {NoClosure}
    /\ transcript \in Seq(Answer)
    /\ applied \in Seq(Answer) /\ Len(applied) <= 1
    /\ actions \subseteq Action /\ loads \subseteq Load
    /\ serverTurns \in Seq(ServerTurn)
    /\ clicks \in 0 .. MaxClicks
    /\ asked \subseteq Keys
    /\ loading <=> actions # {}
    /\ \A a, b \in actions : a = b
    /\ canRetry => retryAction # NoClosure

\* Once the effects of a login have run, the screen shows answers to the
\* learner who is logged in, received or restored since that login: an answer
\* that arrives late, be it to the same learner's request before a logout, or a
\* late history, is dropped (isActiveRequest, invalidateRequests, the clean-up of the effect).
ShownIsOfThisLogin == "learner" \notin changed =>
    \A answer \in ToSet(transcript) \cup ToSet(applied) :
        /\ answer.key.learner = auth.learner
        /\ answer.login = auth.login

\* The section the next message will be sent for is that of the answer at the
\* end of the transcript, whatever was restored, superseded or dropped before
\* (applyResult, appendTeacherTurn, hydrateFromHistory).
ProgressIsLastShown == "learner" \notin changed =>
    applied = IF transcript = <<>> THEN <<>> ELSE <<Last(transcript)>>

\* Trying again after a time-out makes no turn of its own: every turn is one a
\* learner asked for, in the section he was at, or what the learner before him
\* in this tab asked for (retryActionRef keeps message and section, and is not
\* reset on a change of the learner).
RetryKeepsItsKey ==
    \A t \in ToSet(serverTurns) :
        \E closure \in asked : t.key = Key(t.key.learner, closure)

\* All three: the browser shows the learner of this login what is his, sends
\* his next message from the section it shows, and tries again under the same
\* key (useTutorSession.ts, requestGuards.ts).
SessionShowsItsLearner == ShownIsOfThisLogin /\ ProgressIsLastShown /\ RetryKeepsItsKey

----------------------------------------------------------------------------
(* The inductive invariant behind them.                                    *)

\* The guards are those of the learner on the screen, as soon as the effects
\* have run.
GuardFollows == "learner" \notin changed => guard.learner = auth.learner

\* A request under way was asked for, and is of the present login unless the
\* guards have moved on, or are about to.
ActionsKnow ==
    \A a \in actions :
        /\ a.closure \in asked /\ a.key = Key(a.key.learner, a.closure)
        /\ a.version <= guard.version /\ a.login <= auth.login
        /\ a.login = auth.login => a.key.learner = auth.learner
        /\ "learner" \notin changed /\ a.version = guard.version => a.login = auth.login

RetryIsAsked == retryAction # NoClosure => retryAction \in asked

\* A history is of the learner and the login it was loaded for, and the load
\* does not outlive them.
LoadsFollow ==
    \A l \in loads :
        /\ "learner" \notin changed => l.learner = auth.learner /\ l.login = auth.login
        /\ \A i \in DOMAIN l.history :
              l.history[i].key.learner = l.learner /\ l.history[i].login = l.login

TabInv ==
    /\ TabTypeOK /\ GuardFollows /\ ActionsKnow /\ RetryIsAsked /\ LoadsFollow
    /\ SessionShowsItsLearner
=============================================================================
