---------------------------- MODULE AuthSessions ----------------------------
(***************************************************************************)
(* Accounts, login sessions, password resets and the attempt limiter       *)
(* (app/auth/service.py, repository.py, rate_limit.py and the handlers of  *)
(* app/api/auth_routes.py).                                                *)
(*                                                                         *)
(* Every request is a coroutine that can be suspended at each database     *)
(* call, so it is a sequence of actions here: the check of the limiter, a  *)
(* read in a transaction of its own, the transaction that writes, and the  *)
(* clearing of the limiter after the commit.  The writing transactions     *)
(* are one action each: confirm_password_reset and login both update the   *)
(* learner's row before they commit, and the row lock orders them.         *)
(*                                                                         *)
(* Secrets and signatures are abstracted to the identity of the request    *)
(* that created them; all requests come from one client address.           *)
(***************************************************************************)
EXTENDS Integers, FiniteSets, Sequences, FiniteSetsExt

CONSTANTS
    Requests,       \* requests, each served once
    Emails,         \* normalized addresses
    Passwords,      \* passwords that pass validate_password
    AttemptLimit,   \* auth_*_attempt_limit
    Window,         \* auth_*_attempt_window_seconds, in ticks
    SessionTtl,     \* auth_session_ttl_hours, in ticks
    TokenTtl,       \* auth_reset_token_ttl_minutes, in ticks
    MaxTime,        \* bound on the clock
    MaxSwitches,    \* bound on the times Redis is lost or comes back
    None            \* no account, no token

AuthAssumption ==
    /\ {AttemptLimit, Window, SessionTtl, TokenTtl} \subseteq Nat \ {0}
    /\ {MaxTime, MaxSwitches} \subseteq Nat
    /\ None \notin Requests \cup Emails
    /\ None \notin [password : Passwords, resets : Nat]

VARIABLES
    now,        \* the clock
    account,    \* learners: address -> [password, resets] or None
    session,    \* learner_auth_sessions, by the request that opened them
    token,      \* learner_auth_tokens, by the request that issued them
    mailed,     \* tokens whose link has been sent
    attempts,   \* attempts of each key in Redis and in process memory
    redisUp,    \* whether Redis answers
    switches,   \* how often that has changed
    req,        \* the requests
    peak        \* history: most requests between check and end, by key

authVars == <<now, account, session, token, mailed, attempts, redisUp,
              switches, req, peak>>

Kinds == {"signup", "login", "reset", "confirm"}
LimitKeys == {<<"signup">>} \union {<<k, e>> : k \in {"login", "reset"}, e \in Emails}

KeyOf(q) == IF q.kind = "signup" THEN <<"signup">> ELSE <<q.kind, q.email>>

----------------------------------------------------------------------------
(* The limiter: Redis, or the memory of the process when Redis fails.      *)

LimitStore == IF redisUp THEN "redis" ELSE "memory"

\* What the window has left behind is dropped from the front.
Outdated(times) == {i \in 1 .. Len(times) : \A j \in 1 .. i : times[j] <= now - Window}
Recent(times) == SubSeq(times, Cardinality(Outdated(times)) + 1, Len(times))

Trim(key) == [attempts EXCEPT ![LimitStore][key] = Recent(@)]

\* (mutant: the attempt that reaches the limit is let through as well.)
CheckPassesAtLimit(key) == Len(Recent(attempts[LimitStore][key])) <= AttemptLimit

CheckPasses(key) == Len(Recent(attempts[LimitStore][key])) < AttemptLimit

Hit(key) ==
    attempts' = [attempts EXCEPT ![LimitStore][key] = Append(Recent(@), now)]

\* The memory is always cleared, Redis when it answers.
Clear(key) ==
    attempts' = [store \in DOMAIN attempts |->
                    IF store = "memory" \/ redisUp
                    THEN [attempts[store] EXCEPT ![key] = <<>>]
                    ELSE attempts[store]]

\* Requests of a key that have passed the check and not ended.
Running(requests, key) ==
    {r \in Requests : /\ requests[r].pc \notin {"idle", "done"}
                      /\ requests[r].kind # "confirm"
                      /\ KeyOf(requests[r]) = key}

----------------------------------------------------------------------------
(* Tables.                                                                 *)

NoSession == [email |-> None, expires |-> 0, revoked |-> FALSE, resets |-> 0]
NoToken == [email |-> None, expires |-> 0, used |-> FALSE]

\* _cleanup_auth_state, at the start of every writing transaction.
CleanSessions == [r \in Requests |-> IF session[r].expires <= now THEN NoSession
                                                                  ELSE session[r]]
CleanTokens == [r \in Requests |-> IF token[r].expires <= now THEN NoToken
                                                               ELSE token[r]]

\* get_active_session: the cookie of request r still authenticates.
Live(r) ==
    /\ session[r].email # None
    /\ ~session[r].revoked
    /\ session[r].expires > now

Exists(email) == account[email] # None

OpenSession(r, resets) ==
    [CleanSessions EXCEPT ![r] = [email |-> req[r].email, revoked |-> FALSE,
                                  expires |-> now + SessionTtl,
                                  resets |-> resets]]

\* (mutant: only sessions opened just now are revoked.)
RevokeFirst(sessions, email) ==
    [s \in Requests |->
        IF sessions[s].email = email /\ sessions[s].expires = now + SessionTtl
        THEN [sessions[s] EXCEPT !.revoked = TRUE]
        ELSE sessions[s]]

RevokeAll(sessions, email) ==
    [s \in Requests |-> IF sessions[s].email = email
                        THEN [sessions[s] EXCEPT !.revoked = TRUE]
                        ELSE sessions[s]]

----------------------------------------------------------------------------
InitAuth ==
    /\ now = 0
    /\ account \in [Emails -> [password : Passwords, resets : {0}] \union {None}]
    /\ session = [r \in Requests |-> NoSession]
    /\ token = [r \in Requests |-> NoToken]
    /\ mailed = {}
    /\ attempts = [store \in {"redis", "memory"} |-> [k \in LimitKeys |-> <<>>]]
    /\ redisUp = TRUE
    /\ switches = 0
    /\ req = [r \in Requests |-> [kind |-> "none", email |-> None, password |-> None,
                                  token |-> None, pc |-> "idle", ok |-> FALSE]]
    /\ peak = [k \in LimitKeys |-> 0]

Ends(r, ok) == req' = [req EXCEPT ![r].pc = "done", ![r].ok = ok]
Continues(r, pc) == req' = [req EXCEPT ![r].pc = pc]

\* signup, login and issue_password_reset first check the limiter; a
\* request over the limit ends with 429.
Arrive(r, kind, email, password) ==
    LET q == [kind |-> kind, email |-> email, password |-> password,
              token |-> None, pc |-> "read", ok |-> FALSE]
        key == KeyOf(q)
        arrived == [req EXCEPT ![r] = q] IN
    /\ req[r].pc = "idle"
    /\ kind # "confirm"
    /\ attempts' = Trim(key)
    /\ IF CheckPasses(key)
       THEN /\ req' = arrived
            /\ peak' = [peak EXCEPT ![key] =
                           Max({@, Cardinality(Running(arrived, key))})]
       ELSE /\ req' = [req EXCEPT ![r] = [q EXCEPT !.pc = "done"]]
            /\ UNCHANGED peak
    /\ UNCHANGED <<now, account, session, token, mailed, redisUp, switches>>

\* The transaction of signup reads the address ...
SignupRead(r) ==
    /\ req[r].kind = "signup"
    /\ req[r].pc = "read"
    /\ IF Exists(req[r].email)
       THEN Hit(<<"signup">>) /\ Ends(r, FALSE)
       ELSE Continues(r, "write") /\ UNCHANGED attempts
    /\ UNCHANGED <<now, account, session, token, mailed, redisUp, switches, peak>>

\* ... and inserts learner and session; when another signup has committed the
\* address in between, the unique constraint rolls everything back.
SignupInsert(r) ==
    /\ req[r].kind = "signup"
    /\ req[r].pc = "write"
    /\ IF Exists(req[r].email)
       THEN /\ Hit(<<"signup">>)
            /\ Ends(r, FALSE)
            /\ UNCHANGED <<account, session, token>>
       ELSE /\ account' = [account EXCEPT ![req[r].email] =
                              [password |-> req[r].password, resets |-> 0]]
            /\ session' = OpenSession(r, 0)
            /\ token' = CleanTokens
            /\ Continues(r, "clear")
            /\ UNCHANGED attempts
    /\ UNCHANGED <<now, mailed, redisUp, switches, peak>>

\* The first transaction of login reads the learner, and the password is
\* verified against what was read.
LoginVerify(r) ==
    /\ req[r].kind = "login"
    /\ req[r].pc = "read"
    /\ IF Exists(req[r].email) /\ account[req[r].email].password = req[r].password
       THEN Continues(r, "write") /\ UNCHANGED attempts
       ELSE Hit(KeyOf(req[r])) /\ Ends(r, FALSE)
    /\ UNCHANGED <<now, account, session, token, mailed, redisUp, switches, peak>>

\* The second reads the learner again, by id, and opens the session.
LoginOpen(r) ==
    /\ req[r].kind = "login"
    /\ req[r].pc = "write"
    /\ session' = OpenSession(r, account[req[r].email].resets)
    /\ token' = CleanTokens
    /\ Continues(r, "clear")
    /\ UNCHANGED <<now, account, mailed, attempts, redisUp, switches, peak>>

\* An unknown address is counted and answered like a known one.
ResetRead(r) ==
    /\ req[r].kind = "reset"
    /\ req[r].pc = "read"
    /\ IF Exists(req[r].email)
       THEN Continues(r, "write") /\ UNCHANGED attempts
       ELSE Hit(KeyOf(req[r])) /\ Ends(r, TRUE)
    /\ UNCHANGED <<now, account, session, token, mailed, redisUp, switches, peak>>

ResetIssue(r) ==
    /\ req[r].kind = "reset"
    /\ req[r].pc = "write"
    /\ session' = CleanSessions
    /\ token' = [CleanTokens EXCEPT ![r] = [email |-> req[r].email, used |-> FALSE,
                                            expires |-> now + TokenTtl]]
    /\ Continues(r, "mail")
    /\ UNCHANGED <<now, account, mailed, attempts, redisUp, switches, peak>>

\* The mail is sent after the commit; when the server refuses it the request
\* fails, the token stays and the limiter is not cleared.
ResetMail(r) ==
    /\ req[r].pc = "mail"
    /\ \/ mailed' = mailed \union {r} /\ Continues(r, "clear")
       \/ UNCHANGED mailed /\ Ends(r, FALSE)
    /\ UNCHANGED <<now, account, session, token, attempts, redisUp, switches, peak>>

\* The last step of a successful signup, login or reset request.
ClearLimit(r) ==
    /\ req[r].pc = "clear"
    /\ Clear(KeyOf(req[r]))
    /\ Ends(r, TRUE)
    /\ UNCHANGED <<now, account, session, token, mailed, redisUp, switches, peak>>

\* get_active_auth_token.
TokenActive(t) ==
    /\ token[t].email # None
    /\ ~token[t].used
    /\ token[t].expires > now

\* confirm_password_reset with the link of t: the token is read without a lock.
ConfirmRead(r, t, password) ==
    /\ req[r].pc = "idle"
    /\ t \in mailed
    /\ req' = [req EXCEPT ![r] =
                  [kind |-> "confirm", email |-> req[t].email,
                   password |-> password, token |-> t, ok |-> FALSE,
                   pc |-> IF TokenActive(t) THEN "write" ELSE "done"]]
    /\ UNCHANGED <<now, account, session, token, mailed, attempts, redisUp, switches, peak>>

\* The rest of its transaction: password, token and sessions together.  The
\* token is marked used by its id alone, whether or not another did.
ConfirmWrite(r) ==
    LET email == req[r].email  t == req[r].token IN
    /\ req[r].kind = "confirm"
    /\ req[r].pc = "write"
    /\ account' = [account EXCEPT ![email] = [password |-> req[r].password,
                                              resets |-> @.resets + 1]]
    /\ token' = [CleanTokens EXCEPT ![t] = IF @.email = None THEN @
                                           ELSE [@ EXCEPT !.used = TRUE]]
    /\ session' = RevokeAll(CleanSessions, email)
    /\ Ends(r, TRUE)
    /\ UNCHANGED <<now, mailed, attempts, redisUp, switches, peak>>

\* logout with the cookie that request s was given.
Logout(s) ==
    /\ req[s].pc = "done"
    /\ session[s].email # None /\ ~session[s].revoked
    /\ session' = [session EXCEPT ![s].revoked = TRUE]
    /\ UNCHANGED <<now, account, token, mailed, attempts, redisUp, switches, req, peak>>

TickAuth ==
    /\ now < MaxTime
    /\ now' = now + 1
    /\ UNCHANGED <<account, session, token, mailed, attempts, redisUp, switches,
                   req, peak>>

SwitchRedis ==
    /\ switches < MaxSwitches
    /\ redisUp' = ~redisUp
    /\ switches' = switches + 1
    /\ UNCHANGED <<now, account, session, token, mailed, attempts, req, peak>>

NextAuth ==
    \/ \E r \in Requests :
          \/ \E k \in {"signup", "login"}, e \in Emails, p \in Passwords : Arrive(r, k, e, p)
          \/ \E e \in Emails : Arrive(r, "reset", e, None)
          \/ \E t \in Requests, p \in Passwords : ConfirmRead(r, t, p)
          \/ SignupRead(r) \/ SignupInsert(r)
          \/ LoginVerify(r) \/ LoginOpen(r)
          \/ ResetRead(r) \/ ResetIssue(r) \/ ResetMail(r)
          \/ ClearLimit(r) \/ ConfirmWrite(r) \/ Logout(r)
    \/ TickAuth
    \/ SwitchRedis

SpecAuth == InitAuth /\ [][NextAuth]_authVars

----------------------------------------------------------------------------
(* Properties                                                              *)

\* Types of the tables and of the requests' state.
Account == [password : Passwords, resets : Nat]
Session == [email : Emails \union {None}, expires : 0 .. MaxTime + SessionTtl,
            revoked : BOOLEAN, resets : Nat]
Token == [email : Emails \union {None}, expires : 0 .. MaxTime + TokenTtl, used : BOOLEAN]
Pcs == {"idle", "read", "write", "mail", "clear", "done"}
Request == [kind : Kinds \union {"none"}, email : Emails \union {None},
            password : Passwords \union {None}, token : Requests \union {None},
            pc : Pcs, ok : BOOLEAN]
Times == 0 .. MaxTime

AuthTypeOK ==
    /\ now \in Times
    /\ account \in [Emails -> Account \union {None}]
    /\ session \in [Requests -> Session]
    /\ token \in [Requests -> Token]
    /\ mailed \subseteq Requests
    /\ attempts \in [{"redis", "memory"} -> [LimitKeys -> Seq(Times)]]
    /\ redisUp \in BOOLEAN /\ switches \in 0 .. MaxSwitches
    /\ req \in [Requests -> Request]
    /\ peak \in [LimitKeys -> Nat]

\* Two signups for one address race between the look-up and the insert; one of
\* them gets the account and the session, the other 409 and neither
\* (AuthService.signup with the unique constraint on learners.email).
OneSignupWins ==
    \A r, s \in Requests :
        /\ req[r].kind = "signup" /\ req[r].pc \in {"clear", "done"}
        /\ session[r].email # None
        /\ req[s].kind = "signup" /\ session[s].email # None
        /\ req[r].email = req[s].email
        => r = s

\* A session that authenticates was opened after the last password change of
\* its learner, however signups, logins and confirmations overlap
\* (revoke_all_sessions_for_learner, with cleanup, expiry and logout).
LiveSessionsPostdateReset ==
    \A r \in Requests : Live(r) =>
        /\ Exists(session[r].email)
        /\ session[r].resets = account[session[r].email].resets

SessionsAreEarned == OneSignupWins /\ LiveSessionsPostdateReset

\* check and hit are separate calls with a database read in between: a key
\* collects at most the limit plus the requests that overlapped, and as many
\* again each time the limiter changes between Redis and memory.
AttemptsBounded ==
    \A store \in {"redis", "memory"}, k \in LimitKeys :
        Len(Recent(attempts[store][k]))
            <= AttemptLimit - 1 + peak[k] * (switches + 1)

----------------------------------------------------------------------------
(* The inductive invariant behind these properties.                        *)

\* Where a request has got to, by its kind; beyond its first read a login, a
\* reset and a confirmation know that the account exists.
RequestsProgress ==
    \A r \in Requests : LET q == req[r] IN
        /\ q.pc # "idle" => q.kind \in Kinds /\ q.email \in Emails
        /\ q.pc = "mail" => q.kind = "reset"
        /\ q.pc # "idle" /\ q.kind # "reset" => q.password \in Passwords
        /\ q.kind = "confirm" => q.token \in Requests /\ q.pc \in {"write", "done"}
        /\ q.kind = "signup" /\ q.pc = "clear" => Exists(q.email)
        /\ q.kind # "signup" /\ q.pc \in {"write", "mail", "clear"} => Exists(q.email)

\* Links are mailed for requested resets of existing accounts.
MailedExist ==
    \A t \in mailed : /\ req[t].kind = "reset" /\ req[t].pc \in {"clear", "done"}
                      /\ Exists(req[t].email)

\* A session belongs to the request that opened it, of an account that exists
\* and, unless it is revoked, has not been reset since.
SessionsOwned ==
    \A r \in Requests : session[r].email # None =>
        /\ req[r].pc \in {"clear", "done"} /\ req[r].kind \in {"signup", "login"}
        /\ session[r].email = req[r].email
        /\ Exists(session[r].email)
        /\ ~session[r].revoked => session[r].resets = account[session[r].email].resets

\* What a key has collected in the store in use, and what is still on its way
\* there, stay within the bound together.
Collected(store, key) == Len(Recent(attempts[store][key]))
Allowed(key) == AttemptLimit - 1 + peak[key] * (switches + 1)

KeyKeeps(key) ==
    /\ IsFiniteSet(Running(req, key)) /\ Cardinality(Running(req, key)) <= peak[key]
    /\ \A store \in {"redis", "memory"} : Collected(store, key) <= Allowed(key)
    /\ Collected(LimitStore, key) + Cardinality(Running(req, key)) <= Allowed(key)

LimiterKeeps == \A key \in LimitKeys : KeyKeeps(key)

AuthInv == /\ AuthTypeOK /\ RequestsProgress /\ MailedExist
           /\ SessionsOwned /\ OneSignupWins /\ LimiterKeeps
=============================================================================
