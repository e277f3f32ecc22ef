------------------------- MODULE AuthSessionsProofs -------------------------
(***************************************************************************)
(* Proofs about AuthSessions: for any numbers of requests, addresses and   *)
(* passwords, any limit, window and lifetimes.                             *)
(***************************************************************************)
EXTENDS AuthSessions, FiniteSetTheorems, TLAPS

-----------------------------------------------------------------------------
(* The limiter's window.                                                   *)

\* The first n indices are n.
LEMMA PrefixSize ==
    ASSUME NEW n \in Nat
    PROVE  IsFiniteSet(1 .. n) /\ Cardinality(1 .. n) = n
  <1>1. IsFiniteSet(1 .. n) /\ Cardinality(1 .. n) = IF 1 > n THEN 0 ELSE n - 1 + 1
    BY FS_Interval
  <1>2. QED
    BY <1>1

\* What is outdated is a part of what was collected.
LEMMA OutdatedIsPart ==
    ASSUME NEW times \in Seq(Times)
    PROVE  /\ IsFiniteSet(Outdated(times))
           /\ Cardinality(Outdated(times)) \in 0 .. Len(times)
  <1>1. IsFiniteSet(1 .. Len(times)) /\ Cardinality(1 .. Len(times)) = Len(times)
    BY PrefixSize
  <1>2. Outdated(times) \subseteq 1 .. Len(times)
    BY DEF Outdated
  <1>3. QED
    BY <1>1, <1>2, FS_Subset, FS_CardinalityType

\* Trimming only drops attempts.
LEMMA RecentIsPart ==
    ASSUME NEW times \in Seq(Times)
    PROVE  /\ Recent(times) \in Seq(Times)
           /\ Len(Recent(times)) = Len(times) - Cardinality(Outdated(times))
           /\ Len(Recent(times)) <= Len(times)
  <1>1. Cardinality(Outdated(times)) \in 0 .. Len(times)
    BY OutdatedIsPart
  <1>2. QED
    BY <1>1 DEF Recent

\* A later window keeps no more of the same attempts.
LEMMA RecentShrinks ==
    ASSUME NEW times \in Seq(Times), now \in Int, now' \in Int, now <= now', Window \in Int, MaxTime \in Nat
    PROVE  Len(Recent(times)') <= Len(Recent(times))
  <1>1. Outdated(times) \subseteq Outdated(times)'
    <2>1. \A i \in 1 .. Len(times) : times[i] \in Int
      BY DEF Times
    <2>2. QED
      BY <2>1 DEF Outdated
  <1>2. IsFiniteSet(1 .. Len(times)) /\ Cardinality(1 .. Len(times)) = Len(times)
    BY PrefixSize
  <1>3. Outdated(times)' \subseteq 1 .. Len(times)
    BY DEF Outdated
  <1>4. /\ Cardinality(Outdated(times)) <= Cardinality(Outdated(times)')
        /\ Cardinality(Outdated(times)') \in 0 .. Len(times)
    BY <1>1, <1>2, <1>3, FS_Subset, FS_CardinalityType
  <1>5. Cardinality(Outdated(times)) \in 0 .. Len(times)
    BY OutdatedIsPart
  <1>6. QED
    BY <1>4, <1>5 DEF Recent

-----------------------------------------------------------------------------
(* Types.                                                                  *)

\* A counted request has a key.
LEMMA KeyOfType ==
    ASSUME NEW q, q.kind \in {"signup", "login", "reset"}, q.email \in Emails
    PROVE  KeyOf(q) \in LimitKeys
  BY DEF KeyOf, LimitKeys

\* Whatever is done to a key, the stores keep lists of times.
LEMMA AttemptTypes ==
    ASSUME AuthAssumption, AuthTypeOK, NEW key \in LimitKeys,
           attempts' = Trim(key) \/ Hit(key) \/ Clear(key) \/ UNCHANGED attempts
    PROVE  attempts' \in [{"redis", "memory"} -> [LimitKeys -> Seq(Times)]]
  <1>1. LimitStore \in {"redis", "memory"}
    BY DEF LimitStore
  <1>2. attempts[LimitStore][key] \in Seq(Times)
    BY <1>1 DEF AuthTypeOK, Times
  <1>3. Recent(attempts[LimitStore][key]) \in Seq(Times)
    BY <1>2, RecentIsPart
  <1>4. Append(Recent(attempts[LimitStore][key]), now) \in Seq(Times)
    BY <1>3 DEF AuthTypeOK, Times
  <1>5. CASE attempts' = Trim(key)
    BY <1>1, <1>3, <1>5 DEF AuthTypeOK, Trim, Times
  <1>6. CASE Hit(key)
    BY <1>1, <1>4, <1>6 DEF AuthTypeOK, Hit, Times
  <1>7. CASE Clear(key)
    <2>1. <<>> \in Seq(Times)
      OBVIOUS
    <2>2. ASSUME NEW store \in {"redis", "memory"}
          PROVE  attempts'[store] \in [LimitKeys -> Seq(Times)]
      BY <1>7, <2>1 DEF AuthTypeOK, Clear, Times
    <2>3. attempts' = [store \in {"redis", "memory"} |-> attempts'[store]]
      BY <1>7 DEF AuthTypeOK, Clear
    <2>4. QED
      BY <2>2, <2>3
  <1>8. CASE UNCHANGED attempts
    BY <1>8 DEF AuthTypeOK, Times
  <1>9. QED
    BY <1>5, <1>6, <1>7, <1>8

\* The tables' and the requests' new rows.
LEMMA RowTypes ==
    ASSUME AuthAssumption, now \in Times
    PROVE  /\ NoSession \in Session /\ NoToken \in Token
           /\ \A e \in Emails, n \in Nat :
                 [email |-> e, revoked |-> FALSE, expires |-> now + SessionTtl, resets |-> n] \in Session
           /\ \A e \in Emails : [email |-> e, used |-> FALSE, expires |-> now + TokenTtl] \in Token
           /\ \A row \in Session : [row EXCEPT !.revoked = TRUE] \in Session
           /\ \A row \in Token : [row EXCEPT !.used = TRUE] \in Token
  <1>1. SessionTtl \in Nat /\ TokenTtl \in Nat /\ MaxTime \in Nat /\ now \in Nat /\ now <= MaxTime
    BY DEF AuthAssumption, Times
  <1>2. NoSession \in Session /\ NoToken \in Token
    BY <1>1 DEF NoSession, NoToken, Session, Token
  <1>3. /\ now + SessionTtl \in 0 .. MaxTime + SessionTtl
        /\ now + TokenTtl \in 0 .. MaxTime + TokenTtl
    BY <1>1
  <1>4. /\ \A row \in Session : [row EXCEPT !.revoked = TRUE] \in Session
        /\ \A row \in Token : [row EXCEPT !.used = TRUE] \in Token
    BY DEF Session, Token
  <1>5. QED
    BY <1>2, <1>3, <1>4 DEF Session, Token

\* Cleaning leaves tables of rows.
LEMMA CleanTypes ==
    ASSUME AuthAssumption, AuthTypeOK
    PROVE  CleanSessions \in [Requests -> Session] /\ CleanTokens \in [Requests -> Token]
  BY RowTypes DEF AuthTypeOK, CleanSessions, CleanTokens

\* A request that moves on or ends is still a request.
LEMMA RequestMoves ==
    ASSUME req \in [Requests -> Request], NEW r \in Requests
    PROVE  /\ \A pc \in Pcs : Continues(r, pc) => req' \in [Requests -> Request]
           /\ \A ok \in BOOLEAN : Ends(r, ok) => req' \in [Requests -> Request]
  <1>1. ASSUME NEW pc \in Pcs, Continues(r, pc) PROVE req' \in [Requests -> Request]
    BY <1>1 DEF Continues, Request
  <1>2. ASSUME NEW ok \in BOOLEAN, Ends(r, ok) PROVE req' \in [Requests -> Request]
    <2>1. [[req[r] EXCEPT !.pc = "done"] EXCEPT !.ok = ok] \in Request
      BY DEF Request, Pcs
    <2>2. req' = [req EXCEPT ![r] = [[req[r] EXCEPT !.pc = "done"] EXCEPT !.ok = ok]]
      BY <1>2 DEF Ends
    <2>3. QED
      BY <2>1, <2>2
  <1>3. QED
    BY <1>1, <1>2

-----------------------------------------------------------------------------
(* Every step keeps the types.                                             *)

\* The larger of two numbers.
LEMMA MaxOfTwo ==
    ASSUME NEW a \in Nat, NEW b \in Nat
    PROVE  Max({a, b}) \in Nat /\ Max({a, b}) >= a /\ Max({a, b}) >= b
  <1>1. \E x \in {a, b} : \A y \in {a, b} : x >= y
    OBVIOUS
  <1>2. QED
    BY <1>1 DEF Max

\* A request that passes the check joins those of its key.
LEMMA ArrivalRuns ==
    ASSUME AuthInv, NEW r \in Requests, req[r].pc = "idle", NEW key \in LimitKeys,
           NEW q \in Request, q.kind # "confirm", q.pc = "read"
    PROVE  LET arrived == [req EXCEPT ![r] = q]
           IN  /\ Running(arrived, key) = IF KeyOf(q) = key THEN Running(req, key) \cup {r} ELSE Running(req, key)
               /\ r \notin Running(req, key)
               /\ IsFiniteSet(Running(arrived, key))
               /\ Cardinality(Running(arrived, key)) \in Nat
               /\ Cardinality(Running(arrived, key)) = IF KeyOf(q) = key THEN Cardinality(Running(req, key)) + 1
                                                       ELSE Cardinality(Running(req, key))
  <1> DEFINE arrived == [req EXCEPT ![r] = q]
  <1>1. arrived[r] = q /\ \A s \in Requests : s # r => arrived[s] = req[s]
    BY DEF AuthInv, AuthTypeOK
  <1>2. Running(arrived, key) = IF KeyOf(q) = key THEN Running(req, key) \cup {r} ELSE Running(req, key)
    BY <1>1 DEF Running
  <1>3. r \notin Running(req, key) /\ IsFiniteSet(Running(req, key))
    BY DEF Running, AuthInv, LimiterKeeps, KeyKeeps
  <1>4. QED
    BY <1>2, <1>3, FS_AddElement, FS_CardinalityType

\* The new request of an arrival.
LEMMA ArrivalType ==
    ASSUME NEW kind \in {"signup", "login", "reset"}, NEW email \in Emails, NEW password \in Passwords \cup {None},
           NEW pc \in Pcs
    PROVE  [kind |-> kind, email |-> email, password |-> password,
            token |-> None, pc |-> pc, ok |-> FALSE] \in Request
  BY DEF Request, Kinds

\* Arrivals keep the types.
LEMMA ArriveTypes ==
    ASSUME AuthAssumption, AuthInv, NEW r \in Requests, NEW kind \in {"signup", "login", "reset"},
           NEW email \in Emails, NEW password \in Passwords \cup {None}, Arrive(r, kind, email, password)
    PROVE  AuthTypeOK'
  <1> DEFINE q == [kind |-> kind, email |-> email, password |-> password,
                   token |-> None, pc |-> "read", ok |-> FALSE]
             key == KeyOf(q)
             arrived == [req EXCEPT ![r] = q]
  <1>1. q \in Request /\ [q EXCEPT !.pc = "done"] \in Request
    <2>1. q \in Request
      BY ArrivalType DEF Pcs
    <2>2. \A x \in Request : [x EXCEPT !.pc = "done"] \in Request
      BY DEF Request, Pcs
    <2>3. QED
      BY <2>1, <2>2
  <1>2. key \in LimitKeys
    BY KeyOfType
  <1>3. attempts' \in [{"redis", "memory"} -> [LimitKeys -> Seq(Times)]]
    BY <1>2, AttemptTypes DEF Arrive, AuthInv
  <1>4. req' \in [Requests -> Request]
    BY <1>1 DEF Arrive, AuthInv, AuthTypeOK
  <1>5. peak' \in [LimitKeys -> Nat]
    <2>1. Cardinality(Running(arrived, key)) \in Nat
      BY <1>1, <1>2, ArrivalRuns DEF Arrive
    <2>2. peak[key] \in Nat
      BY <1>2 DEF AuthInv, AuthTypeOK
    <2>3. Max({peak[key], Cardinality(Running(arrived, key))}) \in Nat
      BY <2>1, <2>2, MaxOfTwo
    <2>4. \/ peak' = [peak EXCEPT ![key] = Max({peak[key], Cardinality(Running(arrived, key))})]
          \/ peak' = peak
      BY DEF Arrive
    <2>5. QED
      BY <2>3, <2>4 DEF AuthInv, AuthTypeOK
  <1>6. QED
    BY <1>3, <1>4, <1>5 DEF Arrive, AuthInv, AuthTypeOK

\* Only requests that were counted clear their key.
LEMMA ClearKey ==
    ASSUME AuthInv, NEW r \in Requests, req[r].pc = "clear"
    PROVE  KeyOf(req[r]) \in LimitKeys
  <1>1. req[r].kind \in {"signup", "login", "reset"} /\ req[r].email \in Emails
    BY DEF AuthInv, RequestsProgress, Kinds
  <1>2. QED
    BY <1>1, KeyOfType

\* A confirmation keeps the types.
LEMMA ConfirmReadTypes ==
    ASSUME AuthInv, NEW r \in Requests, NEW t \in Requests, NEW password \in Passwords,
           ConfirmRead(r, t, password)
    PROVE  AuthTypeOK'
  <1>1. req[t].email \in Emails \cup {None}
    BY DEF AuthInv, AuthTypeOK, Request
  <1>2. \A pc \in {"write", "done"} :
           [kind |-> "confirm", email |-> req[t].email, password |-> password, token |-> t,
            ok |-> FALSE, pc |-> pc] \in Request
    BY <1>1 DEF Request, Kinds, Pcs
  <1>3. req' \in [Requests -> Request]
    BY <1>2 DEF ConfirmRead, AuthInv, AuthTypeOK
  <1>4. QED
    BY <1>3 DEF ConfirmRead, AuthInv, AuthTypeOK

\* All signups share one key.
LEMMA SignupKey == <<"signup">> \in LimitKeys
  BY DEF LimitKeys

\* The first reads of signup, login and reset.
LEMMA ReadTypes ==
    ASSUME AuthAssumption, AuthInv, NEW r \in Requests, SignupRead(r) \/ LoginVerify(r) \/ ResetRead(r)
    PROVE  AuthTypeOK'
  <1>1. req[r].kind \in {"signup", "login", "reset"} /\ req[r].email \in Emails
    BY DEF SignupRead, LoginVerify, ResetRead, AuthInv, RequestsProgress
  <1>2. KeyOf(req[r]) \in LimitKeys
    BY <1>1, KeyOfType
  <1>3. \E key \in LimitKeys : Hit(key) \/ UNCHANGED attempts
    BY <1>2, SignupKey DEF SignupRead, LoginVerify, ResetRead
  <1>4. attempts' \in [{"redis", "memory"} -> [LimitKeys -> Seq(Times)]]
    BY <1>3, AttemptTypes DEF AuthInv
  <1>5. \/ Continues(r, "write")
        \/ \E ok \in BOOLEAN : Ends(r, ok)
    BY DEF SignupRead, LoginVerify, ResetRead
  <1>6. req' \in [Requests -> Request]
    BY <1>5, RequestMoves DEF AuthInv, AuthTypeOK, Pcs
  <1>7. QED
    BY <1>4, <1>6 DEF SignupRead, LoginVerify, ResetRead, AuthInv, AuthTypeOK

\* The insert of a signup keeps the types.
LEMMA SignupInsertTypes ==
    ASSUME AuthAssumption, AuthInv, NEW r \in Requests, SignupInsert(r)
    PROVE  AuthTypeOK'
  <1>1. req[r].email \in Emails /\ req[r].password \in Passwords
    BY DEF SignupInsert, AuthInv, RequestsProgress
  <1>2. req' \in [Requests -> Request]
    BY RequestMoves DEF SignupInsert, AuthInv, AuthTypeOK, Pcs
  <1>3. attempts' \in [{"redis", "memory"} -> [LimitKeys -> Seq(Times)]]
    BY SignupKey, AttemptTypes DEF SignupInsert, AuthInv
  <1>4. [password |-> req[r].password, resets |-> 0] \in Account
    BY <1>1 DEF Account
  <1>5. OpenSession(r, 0) \in [Requests -> Session]
    BY <1>1, CleanTypes, RowTypes DEF OpenSession, AuthInv, AuthTypeOK
  <1>6. QED
    BY <1>1, <1>2, <1>3, <1>4, <1>5, CleanTypes DEF SignupInsert, AuthInv, AuthTypeOK

\* Opening a session keeps the types; the account a login has read still exists.
LEMMA LoginOpenTypes ==
    ASSUME AuthAssumption, AuthInv, NEW r \in Requests, LoginOpen(r)
    PROVE  AuthTypeOK'
  <1>1. req[r].email \in Emails /\ account[req[r].email] \in Account
    BY DEF LoginOpen, AuthInv, AuthTypeOK, RequestsProgress, Exists
  <1>2. account[req[r].email].resets \in Nat
    BY <1>1 DEF Account
  <1>3. OpenSession(r, account[req[r].email].resets) \in [Requests -> Session]
    BY <1>1, <1>2, CleanTypes, RowTypes DEF OpenSession, AuthInv, AuthTypeOK
  <1>4. QED
    BY <1>3, CleanTypes, RequestMoves DEF LoginOpen, AuthInv, AuthTypeOK, Pcs

\* A confirmed reset keeps the types.
LEMMA ConfirmWriteTypes ==
    ASSUME AuthAssumption, AuthInv, NEW r \in Requests, ConfirmWrite(r)
    PROVE  AuthTypeOK'
  <1>1. /\ req[r].email \in Emails /\ account[req[r].email] \in Account
        /\ req[r].token \in Requests /\ req[r].password \in Passwords
    BY DEF ConfirmWrite, AuthInv, AuthTypeOK, RequestsProgress, Exists
  <1>2. [password |-> req[r].password, resets |-> account[req[r].email].resets + 1] \in Account
    BY <1>1 DEF Account
  <1>3. RevokeAll(CleanSessions, req[r].email) \in [Requests -> Session]
    BY CleanTypes, RowTypes DEF RevokeAll, AuthInv, AuthTypeOK
  <1>4. token' \in [Requests -> Token]
    BY <1>1, CleanTypes, RowTypes DEF ConfirmWrite, AuthInv, AuthTypeOK
  <1>5. QED
    BY <1>1, <1>2, <1>3, <1>4, RequestMoves DEF ConfirmWrite, AuthInv, AuthTypeOK

\* No step leaves the types.
LEMMA TypeStep == AuthAssumption /\ AuthInv /\ [NextAuth]_authVars => AuthTypeOK'
  <1> SUFFICES ASSUME AuthAssumption, AuthInv, [NextAuth]_authVars PROVE AuthTypeOK'
    OBVIOUS
  <1> USE DEF AuthInv, AuthTypeOK, Kinds, Pcs
  <1>1. ASSUME NEW r \in Requests, NEW k \in {"signup", "login"}, NEW e \in Emails, NEW p \in Passwords,
             Arrive(r, k, e, p)
        PROVE  AuthTypeOK'
    BY <1>1, ArriveTypes
  <1>2. ASSUME NEW r \in Requests, NEW e \in Emails, Arrive(r, "reset", e, None) PROVE AuthTypeOK'
    BY <1>2, ArriveTypes
  <1>3. ASSUME NEW r \in Requests, NEW t \in Requests, NEW p \in Passwords, ConfirmRead(r, t, p)
        PROVE  AuthTypeOK'
    BY <1>3, ConfirmReadTypes
  <1>4. ASSUME NEW r \in Requests, SignupRead(r) PROVE AuthTypeOK'
    BY <1>4, ReadTypes
  <1>5. ASSUME NEW r \in Requests, SignupInsert(r) PROVE AuthTypeOK'
    BY <1>5, SignupInsertTypes
  <1>6. ASSUME NEW r \in Requests, LoginVerify(r) PROVE AuthTypeOK'
    BY <1>6, ReadTypes
  <1>7. ASSUME NEW r \in Requests, LoginOpen(r) PROVE AuthTypeOK'
    BY <1>7, LoginOpenTypes
  <1>8. ASSUME NEW r \in Requests, ResetRead(r) PROVE AuthTypeOK'
    BY <1>8, ReadTypes
  <1>9. ASSUME NEW r \in Requests, ResetIssue(r) PROVE AuthTypeOK'
    BY <1>9, CleanTypes, RowTypes, RequestMoves DEF ResetIssue, RequestsProgress
  <1>10. ASSUME NEW r \in Requests, ResetMail(r) PROVE AuthTypeOK'
    BY <1>10, RequestMoves DEF ResetMail
  <1>11. ASSUME NEW r \in Requests, ClearLimit(r) PROVE AuthTypeOK'
    BY <1>11, ClearKey, AttemptTypes, RequestMoves DEF ClearLimit
  <1>12. ASSUME NEW r \in Requests, ConfirmWrite(r) PROVE AuthTypeOK'
    BY <1>12, ConfirmWriteTypes
  <1>13. ASSUME NEW r \in Requests, Logout(r) PROVE AuthTypeOK'
    BY <1>13, RowTypes DEF Logout
  <1>14. CASE TickAuth
    BY <1>14 DEF TickAuth, AuthAssumption, Times
  <1>15. CASE SwitchRedis
    BY <1>15 DEF SwitchRedis, AuthAssumption
  <1>16. CASE UNCHANGED authVars
    BY <1>16 DEF authVars
  <1>17. QED
    BY <1>1, <1>2, <1>3, <1>4, <1>5, <1>6, <1>7, <1>8, <1>9, <1>10, <1>11, <1>12, <1>13, <1>14, <1>15, <1>16 DEF NextAuth

-----------------------------------------------------------------------------
(* Accounts and sessions.                                                  *)

\* Accounts are never deleted, and a signup makes its account.
LEMMA AccountsStay ==
    ASSUME AuthAssumption, AuthInv, [NextAuth]_authVars, NEW e \in Emails, Exists(e)
    PROVE  Exists(e)'
  <1>1. None \notin Account
    BY DEF AuthAssumption, Account
  <1>2. ASSUME NEW r \in Requests, SignupInsert(r) PROVE Exists(e)'
    BY <1>2 DEF SignupInsert, AuthInv, AuthTypeOK, Exists
  <1>3. ASSUME NEW r \in Requests, ConfirmWrite(r) PROVE Exists(e)'
    <2>1. /\ req[r].email \in Emails /\ account[req[r].email] \in Account
          /\ req[r].password \in Passwords
      BY <1>3 DEF ConfirmWrite, AuthInv, AuthTypeOK, RequestsProgress, Exists
    <2>2. [password |-> req[r].password, resets |-> account[req[r].email].resets + 1] \in Account
      BY <2>1 DEF Account
    <2>3. QED
      BY <1>1, <1>3, <2>1, <2>2 DEF ConfirmWrite, AuthInv, AuthTypeOK, Exists
  <1>4. ASSUME NEW r \in Requests, \/ \E k, f, p : Arrive(r, k, f, p)
                                   \/ \E t, p : ConfirmRead(r, t, p)
                                   \/ SignupRead(r) \/ LoginVerify(r) \/ LoginOpen(r) \/ ResetRead(r)
                                   \/ ResetIssue(r) \/ ResetMail(r) \/ ClearLimit(r) \/ Logout(r)
        PROVE  Exists(e)'
    <2>1. UNCHANGED account
      BY <1>4 DEF Arrive, ConfirmRead, SignupRead, LoginVerify, LoginOpen, ResetRead, ResetIssue,
                  ResetMail, ClearLimit, Logout
    <2>2. QED
      BY <2>1 DEF Exists
  <1>5. CASE TickAuth \/ SwitchRedis \/ UNCHANGED authVars
    BY <1>5 DEF TickAuth, SwitchRedis, authVars, Exists
  <1>6. QED
    BY <1>2, <1>3, <1>4, <1>5 DEF NextAuth

\* After the insert of a signup, whoever won, the account exists.
LEMMA SignupMakesAccount ==
    ASSUME AuthAssumption, AuthInv, NEW r \in Requests, SignupInsert(r)
    PROVE  Exists(req[r].email)'
  <1>1. req[r].email \in Emails /\ req[r].password \in Passwords
    BY DEF SignupInsert, AuthInv, RequestsProgress
  <1>2. [password |-> req[r].password, resets |-> 0] # None
    BY <1>1 DEF AuthAssumption
  <1>3. req'[r].email = req[r].email
    BY DEF SignupInsert, AuthInv, AuthTypeOK, Request, Ends, Continues
  <1>4. CASE Exists(req[r].email)
    BY <1>3, <1>4 DEF SignupInsert, Exists
  <1>5. CASE ~Exists(req[r].email)
    BY <1>1, <1>2, <1>3, <1>5 DEF SignupInsert, AuthInv, AuthTypeOK, Exists
  <1>6. QED
    BY <1>4, <1>5

\* An arrival, let in or not.
LEMMA ArriveRequest ==
    ASSUME AuthInv, NEW r \in Requests, NEW kind, NEW email, NEW password,
           Arrive(r, kind, email, password)
    PROVE  /\ req[r].pc = "idle"
           /\ req'[r].kind = kind /\ req'[r].email = email /\ req'[r].password = password
           /\ req'[r].pc \in {"read", "done"}
           /\ \A s \in Requests : s # r => req'[s] = req[s]
  <1> DEFINE q == [kind |-> kind, email |-> email, password |-> password,
                   token |-> None, pc |-> "read", ok |-> FALSE]
             over == [q EXCEPT !.pc = "done"]
  <1>1. q.kind = kind /\ q.email = email /\ q.password = password /\ q.pc = "read"
    OBVIOUS
  <1>2. over.kind = kind /\ over.email = email /\ over.password = password /\ over.pc = "done"
    OBVIOUS
  <1>3. req' = [req EXCEPT ![r] = q] \/ req' = [req EXCEPT ![r] = over]
    BY DEF Arrive
  <1> HIDE DEF q, over
  <1>4. req'[r] \in {q, over} /\ \A s \in Requests : s # r => req'[s] = req[s]
    BY <1>3 DEF AuthInv, AuthTypeOK
  <1>5. QED
    BY <1>1, <1>2, <1>4 DEF Arrive

\* What a step can make of a request: it arrives, moves on or ends.  Kind,
\* address, password and token are those it arrived with.
Same(p, q) == p.kind = q.kind /\ p.email = q.email /\ p.password = q.password /\ p.token = q.token

\* A step leaves a request as it is, lets it arrive, or moves it on.
LEMMA RequestSteps ==
    ASSUME AuthInv, [NextAuth]_authVars, NEW r \in Requests
    PROVE  \/ req'[r] = req[r]
           \/ /\ req[r].pc = "idle"
              /\ \/ /\ req'[r].kind \in {"signup", "login"} /\ req'[r].password \in Passwords
                    /\ req'[r].email \in Emails /\ req'[r].pc \in {"read", "done"}
                 \/ /\ req'[r].kind = "reset" /\ req'[r].email \in Emails
                    /\ req'[r].pc \in {"read", "done"}
                 \/ \E t \in mailed : /\ req'[r].kind = "confirm" /\ req'[r].token = t
                                      /\ req'[r].email = req[t].email /\ req'[r].password \in Passwords
                                      /\ req'[r].pc \in {"write", "done"}
           \/ /\ Same(req'[r], req[r])
              /\ \/ req[r].pc \notin {"idle", "done"} /\ req'[r].pc = "done"
                 \/ /\ req[r].pc = "read" /\ req'[r].pc = "write"
                    /\ req[r].kind # "signup" => Exists(req[r].email)
                 \/ /\ req[r].pc = "write" /\ req'[r].pc = "clear"
                    /\ SignupInsert(r) \/ LoginOpen(r)
                 \/ req[r].pc = "write" /\ req'[r].pc = "mail" /\ req[r].kind = "reset"
                 \/ req[r].pc = "mail" /\ req'[r].pc = "clear"
  <1> DEFINE Goal == \/ req'[r] = req[r]
                     \/ /\ req[r].pc = "idle"
                        /\ \/ /\ req'[r].kind \in {"signup", "login"} /\ req'[r].password \in Passwords
                              /\ req'[r].email \in Emails /\ req'[r].pc \in {"read", "done"}
                           \/ /\ req'[r].kind = "reset" /\ req'[r].email \in Emails
                              /\ req'[r].pc \in {"read", "done"}
                           \/ \E t \in mailed : /\ req'[r].kind = "confirm" /\ req'[r].token = t
                                                /\ req'[r].email = req[t].email /\ req'[r].password \in Passwords
                                                /\ req'[r].pc \in {"write", "done"}
                     \/ /\ Same(req'[r], req[r])
                        /\ \/ req[r].pc \notin {"idle", "done"} /\ req'[r].pc = "done"
                           \/ /\ req[r].pc = "read" /\ req'[r].pc = "write"
                              /\ req[r].kind # "signup" => Exists(req[r].email)
                           \/ /\ req[r].pc = "write" /\ req'[r].pc = "clear"
                              /\ SignupInsert(r) \/ LoginOpen(r)
                           \/ req[r].pc = "write" /\ req'[r].pc = "mail" /\ req[r].kind = "reset"
                           \/ req[r].pc = "mail" /\ req'[r].pc = "clear"
  <1> USE DEF AuthInv, AuthTypeOK, Ends, Continues, Same
  <1>0. req \in [Requests -> Request] /\ \A q \in Request : DOMAIN q = {"kind", "email", "password", "token", "pc", "ok"}
    BY DEF Request
  <1>1. ASSUME NEW s \in Requests, NEW k \in {"signup", "login"}, NEW e \in Emails, NEW p \in Passwords,
             Arrive(s, k, e, p)
        PROVE  Goal
    BY <1>0, <1>1, ArriveRequest
  <1>2. ASSUME NEW s \in Requests, NEW e \in Emails, Arrive(s, "reset", e, None) PROVE Goal
    BY <1>0, <1>2, ArriveRequest
  <1>3. ASSUME NEW s \in Requests, NEW t \in Requests, NEW p \in Passwords, ConfirmRead(s, t, p)
        PROVE  Goal
    BY <1>0, <1>3 DEF ConfirmRead
  <1>4. ASSUME NEW s \in Requests, SignupRead(s) PROVE Goal
    BY <1>0, <1>4 DEF SignupRead
  <1>5. ASSUME NEW s \in Requests, SignupInsert(s) PROVE Goal
    BY <1>0, <1>5 DEF SignupInsert
  <1>6. ASSUME NEW s \in Requests, LoginVerify(s) PROVE Goal
    BY <1>0, <1>6 DEF LoginVerify
  <1>7. ASSUME NEW s \in Requests, LoginOpen(s) PROVE Goal
    BY <1>0, <1>7 DEF LoginOpen
  <1>8. ASSUME NEW s \in Requests, ResetRead(s) PROVE Goal
    BY <1>0, <1>8 DEF ResetRead
  <1>9. ASSUME NEW s \in Requests, ResetIssue(s) PROVE Goal
    BY <1>0, <1>9 DEF ResetIssue
  <1>10. ASSUME NEW s \in Requests, ResetMail(s) PROVE Goal
    BY <1>0, <1>10 DEF ResetMail
  <1>11. ASSUME NEW s \in Requests, ClearLimit(s) PROVE Goal
    BY <1>0, <1>11 DEF ClearLimit
  <1>12. ASSUME NEW s \in Requests, ConfirmWrite(s) PROVE Goal
    BY <1>0, <1>12 DEF ConfirmWrite
  <1>13. ASSUME NEW s \in Requests, Logout(s) PROVE Goal
    BY <1>0, <1>13 DEF Logout
  <1>14. ASSUME TickAuth PROVE Goal
    BY <1>0, <1>14 DEF TickAuth
  <1>15. ASSUME SwitchRedis PROVE Goal
    BY <1>0, <1>15 DEF SwitchRedis
  <1>16. ASSUME UNCHANGED authVars PROVE Goal
    BY <1>0, <1>16 DEF authVars
  <1> HIDE DEF Goal
  <1>17. Goal
    BY <1>1, <1>2, <1>3, <1>4, <1>5, <1>6, <1>7, <1>8, <1>9, <1>10, <1>11, <1>12, <1>13, <1>14, <1>15, <1>16 DEF NextAuth
  <1> QED
    BY <1>17 DEF Goal

\* Requests stay consistent with what they have read.
LEMMA RequestsProgressStep ==
    ASSUME AuthAssumption, AuthInv, [NextAuth]_authVars
    PROVE  RequestsProgress'
  <1> SUFFICES ASSUME NEW r \in Requests
               PROVE  LET q == req'[r] IN
                        /\ q.pc # "idle" => q.kind \in Kinds /\ q.email \in Emails
                        /\ q.pc = "mail" => q.kind = "reset"
                        /\ q.pc # "idle" /\ q.kind # "reset" => q.password \in Passwords
                        /\ q.kind = "confirm" => q.token \in Requests /\ q.pc \in {"write", "done"}
                        /\ q.kind = "signup" /\ q.pc = "clear" => account'[q.email] # None
                        /\ q.kind # "signup" /\ q.pc \in {"write", "mail", "clear"} => account'[q.email] # None
    BY DEF RequestsProgress, Exists
  <1>1. \A e \in Emails : Exists(e) => Exists(e)'
    BY AccountsStay
  <1>2. /\ req[r].pc # "idle" => req[r].kind \in Kinds /\ req[r].email \in Emails
        /\ req[r].pc = "mail" => req[r].kind = "reset"
        /\ req[r].pc # "idle" /\ req[r].kind # "reset" => req[r].password \in Passwords
        /\ req[r].kind = "confirm" => req[r].token \in Requests /\ req[r].pc \in {"write", "done"}
        /\ req[r].kind = "signup" /\ req[r].pc = "clear" => Exists(req[r].email)
        /\ req[r].kind # "signup" /\ req[r].pc \in {"write", "mail", "clear"} => Exists(req[r].email)
    BY DEF AuthInv, RequestsProgress
  <1>3. \A t \in mailed : t \in Requests /\ req[t].email \in Emails /\ Exists(req[t].email)
    BY DEF AuthInv, AuthTypeOK, MailedExist, RequestsProgress
  <1>4. CASE req'[r] = req[r]
    BY <1>1, <1>2, <1>4 DEF Exists
  <1>5. CASE req[r].pc = "idle" /\ req'[r] # req[r]
    BY <1>1, <1>3, <1>5, RequestSteps DEF Kinds, Exists
  <1>6. CASE Same(req'[r], req[r]) /\ req[r].pc # "idle"
    <2>1. ASSUME req[r].kind = "signup", req'[r].pc = "clear", req[r].pc # "clear" PROVE account'[req'[r].email] # None
      <3>1. SignupInsert(r) \/ LoginOpen(r)
        BY <1>2, <1>6, <2>1, RequestSteps DEF Same
      <3>2. QED
        BY <2>1, <3>1, SignupMakesAccount DEF LoginOpen, Exists
    <2>2. \/ req'[r].pc = req[r].pc \/ req'[r].pc = "done"
          \/ /\ req[r].pc = "read" /\ req'[r].pc = "write"
             /\ req[r].kind # "signup" => Exists(req[r].email)
          \/ /\ req[r].pc = "write" /\ req'[r].pc = "clear"
             /\ req[r].kind \in {"signup", "login"}
          \/ req[r].pc = "write" /\ req'[r].pc = "mail" /\ req[r].kind = "reset"
          \/ req[r].pc = "mail" /\ req'[r].pc = "clear"
      BY <1>6, RequestSteps DEF SignupInsert, LoginOpen
    <2>3. req[r].kind # "confirm" \/ req'[r].pc \in {"write", "done"}
      BY <1>2, <1>6, <2>2
    <2>4. /\ req'[r].kind = req[r].kind /\ req'[r].email = req[r].email
          /\ req'[r].password = req[r].password /\ req'[r].token = req[r].token
      BY <1>6 DEF Same
    <2>5. Exists(req[r].email) => account'[req'[r].email] # None
      BY <1>1, <1>2, <1>6, <2>4 DEF Exists
    <2>6. QED
      BY <1>2, <1>6, <2>1, <2>2, <2>3, <2>4, <2>5
  <1>7. QED
    BY <1>4, <1>5, <1>6, RequestSteps

\* Links are only mailed for requested resets of existing accounts.
LEMMA MailedExistStep ==
    ASSUME AuthAssumption, AuthInv, [NextAuth]_authVars
    PROVE  MailedExist'
  <1>1. \/ mailed' = mailed
        \/ \E r \in Requests : /\ mailed' = mailed \cup {r} /\ req[r].pc = "mail" /\ Continues(r, "clear")
    <2>1. ASSUME NEW r \in Requests, ResetMail(r)
          PROVE  \/ mailed' = mailed
                 \/ mailed' = mailed \cup {r} /\ req[r].pc = "mail" /\ Continues(r, "clear")
      BY <2>1 DEF ResetMail
    <2>2. ASSUME NEW r \in Requests, \/ \E k, f, p : Arrive(r, k, f, p)
                                     \/ \E t, p : ConfirmRead(r, t, p)
                                     \/ SignupRead(r) \/ LoginVerify(r) \/ ResetRead(r)
                                     \/ ResetIssue(r) \/ ClearLimit(r) \/ Logout(r)
          PROVE  mailed' = mailed
      BY <2>2 DEF Arrive, ConfirmRead, SignupRead, LoginVerify, ResetRead, ResetIssue, ClearLimit, Logout
    <2>3. ASSUME NEW r \in Requests, SignupInsert(r) \/ LoginOpen(r) \/ ConfirmWrite(r)
          PROVE  mailed' = mailed
      BY <2>3 DEF SignupInsert, LoginOpen, ConfirmWrite
    <2>4. CASE TickAuth \/ SwitchRedis \/ UNCHANGED authVars
      BY <2>4 DEF TickAuth, SwitchRedis, authVars
    <2>5. QED
      BY <2>1, <2>2, <2>3, <2>4 DEF NextAuth
  <1>2. ASSUME NEW t \in mailed
        PROVE  req'[t].kind = "reset" /\ req'[t].pc \in {"clear", "done"} /\ account'[req'[t].email] # None
    <2>1. /\ t \in Requests /\ req[t].kind = "reset" /\ req[t].pc \in {"clear", "done"}
          /\ req[t].email \in Emails /\ Exists(req[t].email)
      BY DEF AuthInv, AuthTypeOK, MailedExist, RequestsProgress
    <2>2. req'[t].kind = "reset" /\ req'[t].pc \in {"clear", "done"} /\ req'[t].email = req[t].email
      BY <2>1, RequestSteps DEF Same
    <2>3. QED
      BY <2>1, <2>2, AccountsStay DEF Exists
  <1>3. ASSUME NEW r \in Requests, req[r].pc = "mail", Continues(r, "clear")
        PROVE  req'[r].kind = "reset" /\ req'[r].pc \in {"clear", "done"} /\ account'[req'[r].email] # None
    <2>1. req[r].kind = "reset" /\ req[r].email \in Emails /\ Exists(req[r].email)
      BY <1>3 DEF AuthInv, RequestsProgress
    <2>2. req'[r].kind = "reset" /\ req'[r].pc = "clear" /\ req'[r].email = req[r].email
      BY <1>3, <2>1 DEF AuthInv, AuthTypeOK, Request, Continues
    <2>3. QED
      BY <2>1, <2>2, AccountsStay DEF Exists
  <1>4. QED
    BY <1>1, <1>2, <1>3 DEF MailedExist, Exists

\* A request that has opened a session stays the one it is.
LEMMA OpenersStay ==
    ASSUME AuthInv, [NextAuth]_authVars, NEW r \in Requests, session[r].email # None
    PROVE  /\ req'[r].pc \in {"clear", "done"} /\ req'[r].kind \in {"signup", "login"}
           /\ Same(req'[r], req[r])
  BY RequestSteps DEF AuthInv, SessionsOwned, Same

\* Cleaning removes rows and changes none.
LEMMA CleanKeeps ==
    ASSUME NEW r \in Requests, CleanSessions[r].email # None
    PROVE  CleanSessions[r] = session[r]
  BY DEF CleanSessions, NoSession

\* What a step that opens or revokes sessions does to the rows; the others
\* leave accounts and sessions alone.
SessionRowsStay ==
    \A r \in Requests : session'[r].email # None =>
        /\ session'[r].email = session[r].email /\ session'[r].resets = session[r].resets
        /\ session[r].revoked => session'[r].revoked

\* Every step is one of these, for accounts and sessions.
LEMMA SessionSteps ==
    ASSUME AuthAssumption, AuthInv, [NextAuth]_authVars
    PROVE  \/ UNCHANGED account /\ SessionRowsStay
           \/ \E x \in Requests : SignupInsert(x) /\ ~Exists(req[x].email)
           \/ \E x \in Requests : LoginOpen(x)
           \/ \E x \in Requests : ConfirmWrite(x)
  <1> DEFINE Goal == \/ UNCHANGED account /\ SessionRowsStay
                     \/ \E x \in Requests : SignupInsert(x) /\ ~Exists(req[x].email)
                     \/ \E x \in Requests : LoginOpen(x)
                     \/ \E x \in Requests : ConfirmWrite(x)
  <1>1. ASSUME UNCHANGED <<account, session>> PROVE Goal
    BY <1>1 DEF SessionRowsStay
  <1>2. ASSUME NEW x \in Requests, ResetIssue(x) PROVE Goal
    BY <1>2, CleanKeeps DEF ResetIssue, SessionRowsStay
  <1>3. ASSUME NEW x \in Requests, Logout(x) PROVE Goal
    <2>1. \A r \in Requests : /\ session'[r].email = session[r].email /\ session'[r].resets = session[r].resets
                              /\ session[r].revoked => session'[r].revoked
      BY <1>3 DEF Logout, AuthInv, AuthTypeOK, Session
    <2>2. QED
      BY <1>3, <2>1 DEF Logout, SessionRowsStay
  <1>4. ASSUME NEW x \in Requests, SignupInsert(x) PROVE Goal
    BY <1>1, <1>4 DEF SignupInsert
  <1>5. ASSUME NEW x \in Requests, \/ \E k, f, p : Arrive(x, k, f, p)
                                   \/ \E t, p : ConfirmRead(x, t, p)
                                   \/ SignupRead(x) \/ LoginVerify(x) \/ ResetRead(x)
                                   \/ ResetMail(x) \/ ClearLimit(x)
        PROVE  Goal
    BY <1>1, <1>5 DEF Arrive, ConfirmRead, SignupRead, LoginVerify, ResetRead, ResetMail, ClearLimit
  <1>6. ASSUME TickAuth \/ SwitchRedis \/ UNCHANGED authVars PROVE Goal
    BY <1>1, <1>6 DEF TickAuth, SwitchRedis, authVars
  <1> HIDE DEF Goal
  <1>7. ASSUME NEW x \in Requests, LoginOpen(x) \/ ConfirmWrite(x) PROVE Goal
    BY <1>7 DEF Goal
  <1>8. Goal
    BY <1>2, <1>3, <1>4, <1>5, <1>6, <1>7 DEF NextAuth
  <1>9. QED
    BY <1>8 DEF Goal

\* An unrevoked session stays one of the current password.
LEMMA SessionsOwnedStep ==
    ASSUME AuthAssumption, AuthInv, [NextAuth]_authVars
    PROVE  SessionsOwned'
  <1> SUFFICES ASSUME NEW r \in Requests, session'[r].email # None
               PROVE  /\ req'[r].pc \in {"clear", "done"} /\ req'[r].kind \in {"signup", "login"}
                      /\ session'[r].email = req'[r].email
                      /\ account'[session'[r].email] # None
                      /\ ~session'[r].revoked => session'[r].resets = account'[session'[r].email].resets
    BY DEF SessionsOwned, Exists
  <1> DEFINE Goal == /\ req'[r].pc \in {"clear", "done"} /\ req'[r].kind \in {"signup", "login"}
                     /\ session'[r].email = req'[r].email
                     /\ account'[session'[r].email] # None
                     /\ ~session'[r].revoked => session'[r].resets = account'[session'[r].email].resets
  <1>1. ASSUME session[r].email # None, session'[r].email = session[r].email,
               ~session'[r].revoked => /\ ~session[r].revoked /\ session'[r].resets = session[r].resets
                                       /\ account'[session[r].email] = account[session[r].email]
        PROVE  Goal
    <2>1. /\ session[r].email = req[r].email /\ Exists(session[r].email) /\ session[r].email \in Emails
          /\ ~session[r].revoked => session[r].resets = account[session[r].email].resets
      BY <1>1 DEF AuthInv, AuthTypeOK, Session, SessionsOwned
    <2>2. account'[session[r].email] # None
      BY <1>1, <2>1, AccountsStay DEF Exists
    <2>3. QED
      BY <1>1, <2>1, <2>2, OpenersStay DEF Same, Exists
  <1>2. ASSUME UNCHANGED account, SessionRowsStay PROVE Goal
    BY <1>1, <1>2 DEF SessionRowsStay
  <1>3. ASSUME NEW x \in Requests, SignupInsert(x), ~Exists(req[x].email) PROVE Goal
    <2>1. /\ account' = [account EXCEPT ![req[x].email] = [password |-> req[x].password, resets |-> 0]]
          /\ session' = OpenSession(x, 0) /\ Continues(x, "clear")
          /\ req[x].email \in Emails /\ req[x].kind = "signup"
      BY <1>3 DEF SignupInsert, AuthInv, RequestsProgress
    <2>2. CASE r = x
      <3>1. session'[r].email = req[r].email /\ session'[r].resets = 0
        BY <2>1, <2>2, CleanTypes DEF OpenSession, AuthInv
      <3>2. account'[req[x].email].resets = 0
        BY <2>1 DEF AuthInv, AuthTypeOK
      <3>3. req'[r].pc = "clear" /\ req'[r].kind = "signup" /\ req'[r].email = req[r].email
        BY <2>1, <2>2 DEF Continues, AuthInv, AuthTypeOK, Request
      <3>4. QED
        BY <1>3, <2>2, <3>1, <3>2, <3>3, SignupMakesAccount DEF Exists
    <2>3. CASE r # x
      <3>1. session'[r] = CleanSessions[r]
        BY <2>1, <2>3, CleanTypes DEF OpenSession, AuthInv
      <3>2. session'[r] = session[r]
        BY <3>1, CleanKeeps
      <3>3. session[r].email # req[x].email /\ session[r].email \in Emails
        BY <1>3, <3>2 DEF AuthInv, AuthTypeOK, SessionsOwned, Session
      <3>4. account'[session[r].email] = account[session[r].email]
        BY <2>1, <3>3 DEF AuthInv, AuthTypeOK
      <3>5. QED
        BY <1>1, <3>2, <3>4
    <2>4. QED
      BY <2>2, <2>3
  <1>4. ASSUME NEW x \in Requests, LoginOpen(x) PROVE Goal
    <2>1. /\ session' = OpenSession(x, account[req[x].email].resets) /\ Continues(x, "clear")
          /\ req[x].email \in Emails /\ req[x].kind = "login" /\ Exists(req[x].email)
          /\ account' = account
      BY <1>4 DEF LoginOpen, AuthInv, RequestsProgress
    <2>2. CASE r = x
      <3>1. session'[r].email = req[r].email /\ session'[r].resets = account[req[r].email].resets
        BY <2>1, <2>2, CleanTypes DEF OpenSession, AuthInv
      <3>2. req'[r].pc = "clear" /\ req'[r].kind = "login" /\ req'[r].email = req[r].email
        BY <2>1, <2>2 DEF Continues, AuthInv, AuthTypeOK, Request
      <3>3. QED
        BY <2>1, <2>2, <3>1, <3>2 DEF Exists
    <2>3. CASE r # x
      <3>1. session'[r] = session[r]
        BY <2>1, <2>3, CleanTypes, CleanKeeps DEF OpenSession, AuthInv
      <3>2. QED
        BY <1>1, <2>1, <3>1
    <2>4. QED
      BY <2>2, <2>3
  <1>5. ASSUME NEW x \in Requests, ConfirmWrite(x) PROVE Goal
    <2>1. /\ session' = RevokeAll(CleanSessions, req[x].email) /\ req[x].email \in Emails
          /\ \A e \in Emails : e # req[x].email => account'[e] = account[e]
      BY <1>5 DEF ConfirmWrite, AuthInv, AuthTypeOK, RequestsProgress
    <2>2. CleanSessions[r] \in Session
      BY CleanTypes DEF AuthInv
    <2>3. /\ session'[r].email = CleanSessions[r].email /\ session'[r].resets = CleanSessions[r].resets
          /\ CleanSessions[r].email = req[x].email => session'[r].revoked
          /\ CleanSessions[r].email # req[x].email => session'[r] = CleanSessions[r]
      BY <2>1, <2>2 DEF RevokeAll, Session
    <2>4. CleanSessions[r] = session[r] /\ session[r].email \in Emails
      BY <2>2, <2>3, CleanKeeps DEF Session
    <2>5. QED
      BY <1>1, <2>1, <2>3, <2>4
  <1> HIDE DEF Goal
  <1>6. Goal
    BY <1>2, <1>3, <1>4, <1>5, SessionSteps
  <1>7. QED
    BY <1>6 DEF Goal

\* The insert of the second of two signups finds the account of the first.
LEMMA OneSignupWinsStep ==
    ASSUME AuthAssumption, AuthInv, [NextAuth]_authVars
    PROVE  OneSignupWins'
  <1> SUFFICES ASSUME NEW r \in Requests, NEW s \in Requests,
                      req'[r].kind = "signup", session'[r].email # None,
                      req'[s].kind = "signup", session'[s].email # None,
                      req'[r].email = req'[s].email
               PROVE  r = s
    BY DEF OneSignupWins
  <1>1. ASSUME session[r].email # None, session[s].email # None PROVE r = s
    BY <1>1, OpenersStay DEF AuthInv, OneSignupWins, SessionsOwned, Same
  <1>2. CASE UNCHANGED account /\ SessionRowsStay
    BY <1>1, <1>2 DEF SessionRowsStay
  <1>3. ASSUME NEW x \in Requests, SignupInsert(x), ~Exists(req[x].email) PROVE r = s
    <2>1. session' = OpenSession(x, 0) /\ Continues(x, "clear")
      BY <1>3 DEF SignupInsert
    <2>2. \A y \in Requests : y # x => session'[y] = CleanSessions[y]
      BY <2>1, CleanTypes DEF OpenSession, AuthInv
    <2>3. \A y \in Requests : y # x /\ session'[y].email # None =>
              session[y].email # None /\ req'[y].email # req[x].email
      BY <1>3, <2>2, CleanKeeps, OpenersStay DEF AuthInv, SessionsOwned, Same
    <2>4. req'[x].email = req[x].email
      BY <2>1 DEF Continues, AuthInv, AuthTypeOK, Request
    <2>5. QED
      BY <1>1, <2>3, <2>4
  <1>4. ASSUME NEW x \in Requests, LoginOpen(x) PROVE r = s
    <2>1. session' = OpenSession(x, account[req[x].email].resets) /\ req'[x].kind = "login"
      BY <1>4 DEF LoginOpen, Continues, AuthInv, AuthTypeOK, Request
    <2>2. \A y \in Requests : y # x => session'[y] = CleanSessions[y]
      BY <2>1, CleanTypes DEF OpenSession, AuthInv
    <2>3. QED
      BY <1>1, <2>1, <2>2, CleanKeeps
  <1>5. ASSUME NEW x \in Requests, ConfirmWrite(x) PROVE r = s
    <2>1. \A y \in Requests : session'[y].email = CleanSessions[y].email
      BY <1>5, CleanTypes DEF ConfirmWrite, RevokeAll, AuthInv, Session
    <2>2. QED
      BY <1>1, <2>1, CleanKeeps
  <1>6. QED
    BY <1>2, <1>3, <1>4, <1>5, SessionSteps

-----------------------------------------------------------------------------
(* The attempt limiter.                                                    *)

\* The two stores of a key, and the one in use, hold counts.
LEMMA CountTypes ==
    ASSUME AuthAssumption, AuthInv, NEW key \in LimitKeys
    PROVE  /\ LimitStore \in {"redis", "memory"}
           /\ \A store \in {"redis", "memory"} : /\ attempts[store][key] \in Seq(Times)
                                                 /\ Recent(attempts[store][key]) \in Seq(Times)
                                                 /\ Collected(store, key) \in Nat
           /\ Cardinality(Running(req, key)) \in Nat /\ peak[key] \in Nat /\ switches \in Nat
           /\ peak[key] * (switches + 1) \in Nat /\ Allowed(key) \in Int
  <1>1. LimitStore \in {"redis", "memory"}
    BY DEF LimitStore
  <1>2. ASSUME NEW store \in {"redis", "memory"}
        PROVE  /\ attempts[store][key] \in Seq(Times)
               /\ Recent(attempts[store][key]) \in Seq(Times)
               /\ Collected(store, key) \in Nat
    <2>1. attempts[store][key] \in Seq(Times)
      BY DEF AuthInv, AuthTypeOK, Times
    <2>2. Recent(attempts[store][key]) \in Seq(Times)
      BY <2>1, RecentIsPart
    <2>3. QED
      BY <2>1, <2>2 DEF Collected
  <1>3. Cardinality(Running(req, key)) \in Nat
    BY FS_CardinalityType DEF AuthInv, LimiterKeeps, KeyKeeps
  <1>4. peak[key] \in Nat /\ switches \in Nat /\ AttemptLimit \in Nat
    BY DEF AuthInv, AuthTypeOK, AuthAssumption
  <1>5. \A a \in Nat, b \in Nat : a * (b + 1) \in Nat
    OBVIOUS
  <1>6. peak[key] * (switches + 1) \in Nat
    BY <1>4, <1>5
  <1>7. Allowed(key) \in Int
    BY <1>4, <1>6 DEF Allowed
  <1>8. QED
    BY <1>1, <1>2, <1>3, <1>4, <1>6, <1>7

\* Nothing but a hit adds to what a key has collected, and a hit adds one to
\* its own key in the store in use.
LEMMA CollectedSteps ==
    ASSUME AuthAssumption, AuthInv, now' = now, NEW key0 \in LimitKeys, NEW key \in LimitKeys,
           NEW store \in {"redis", "memory"}
    PROVE  /\ attempts' = Trim(key0) \/ Clear(key0) \/ UNCHANGED attempts
                 => Collected(store, key)' \in Nat /\ Collected(store, key)' <= Collected(store, key)
           /\ Hit(key0) => /\ Collected(store, key)' \in Nat
                           /\ \/ Collected(store, key)' <= Collected(store, key)
                              \/ /\ store = LimitStore /\ key = key0
                                 /\ Collected(store, key)' <= Collected(store, key) + 1
  <1> DEFINE old == attempts[store][key]
             new == attempts'[store][key]
  <1>1. Collected(store, key)' = Len(Recent(new))
    BY DEF Collected, Recent, Outdated
  <1>2. old \in Seq(Times) /\ Recent(old) \in Seq(Times) /\ Collected(store, key) = Len(Recent(old))
    BY CountTypes DEF Collected
  <1>3. Len(Recent(old)) \in Nat
    BY <1>2
  <1>4. ASSUME new = old PROVE Len(Recent(new)) \in Nat /\ Len(Recent(new)) <= Len(Recent(old))
    BY <1>3, <1>4
  <1>5. ASSUME new = Recent(old) PROVE Len(Recent(new)) \in Nat /\ Len(Recent(new)) <= Len(Recent(old))
    BY <1>2, <1>5, RecentIsPart
  <1>6. ASSUME new = <<>> PROVE Len(Recent(new)) \in Nat /\ Len(Recent(new)) <= Len(Recent(old))
    <2>1. <<>> \in Seq(Times) /\ Len(<<>>) = 0
      OBVIOUS
    <2>2. Recent(new) \in Seq(Times) /\ Len(Recent(new)) <= 0
      BY <1>6, <2>1, RecentIsPart
    <2>3. QED
      BY <1>3, <2>2
  <1>7. ASSUME new = Append(Recent(old), now)
        PROVE  Len(Recent(new)) \in Nat /\ Len(Recent(new)) <= Len(Recent(old)) + 1
    <2>1. new \in Seq(Times) /\ Len(new) = Len(Recent(old)) + 1
      BY <1>2, <1>7 DEF AuthInv, AuthTypeOK
    <2>2. QED
      BY <2>1, RecentIsPart
  <1>0. /\ attempts \in [{"redis", "memory"} -> [LimitKeys -> Seq(Times)]]
        /\ LimitStore \in {"redis", "memory"}
    BY CountTypes DEF AuthInv, AuthTypeOK
  <1>8. ASSUME attempts' = Trim(key0) PROVE new = old \/ new = Recent(old)
    <2>1. attempts' = [attempts EXCEPT ![LimitStore] = [attempts[LimitStore] EXCEPT ![key0] = Recent(attempts[LimitStore][key0])]]
      BY <1>8 DEF Trim
    <2>2. CASE store = LimitStore /\ key = key0
      BY <1>0, <2>1, <2>2
    <2>3. CASE ~(store = LimitStore /\ key = key0)
      BY <1>0, <2>1, <2>3
    <2>4. QED
      BY <2>2, <2>3
  <1>9. Clear(key0) => new = old \/ new = <<>>
    BY DEF Clear, AuthInv, AuthTypeOK
  <1>10. ASSUME Hit(key0)
         PROVE  \/ new = old
                \/ store = LimitStore /\ key = key0 /\ new = Append(Recent(old), now)
    <2>1. attempts' = [attempts EXCEPT ![LimitStore] =
                          [attempts[LimitStore] EXCEPT ![key0] = Append(Recent(attempts[LimitStore][key0]), now)]]
      BY <1>10 DEF Hit
    <2>2. CASE store = LimitStore /\ key = key0
      BY <1>0, <2>1, <2>2
    <2>3. ASSUME store # LimitStore PROVE new = old
      BY <1>0, <2>1, <2>3
    <2>4. ASSUME key # key0 PROVE new = old
      <3>1. attempts'[LimitStore][key] = attempts[LimitStore][key]
        BY <1>0, <2>1, <2>4
      <3>2. QED
        BY <2>3, <3>1
    <2>5. QED
      BY <2>2, <2>3, <2>4
  <1>11. UNCHANGED attempts => new = old
    OBVIOUS
  <1> HIDE DEF old, new
  <1>12. QED
    BY <1>1, <1>2, <1>4, <1>5, <1>6, <1>7, <1>8, <1>9, <1>10, <1>11

\* Only an arrival joins the running requests of a key.
LEMMA NewlyRunning ==
    ASSUME AuthInv, [NextAuth]_authVars, NEW key \in LimitKeys, NEW r \in Requests,
           r \in Running(req', key), r \notin Running(req, key)
    PROVE  req[r].pc = "idle" /\ req'[r] # req[r] /\ req'[r].kind # "confirm"
  BY RequestSteps DEF Running, KeyOf, Same

\* A key whose attempts and running requests do not grow keeps its bound.
LEMMA KeySettles ==
    ASSUME AuthAssumption, AuthInv, NEW key \in LimitKeys, UNCHANGED <<switches, redisUp>>,
           peak'[key] = peak[key],
           Running(req', key) \subseteq Running(req, key),
           \A store \in {"redis", "memory"} : /\ Collected(store, key)' \in Nat
                                              /\ Collected(store, key)' <= Collected(store, key)
    PROVE  KeyKeeps(key)'
  <1>1. KeyKeeps(key)
    BY DEF AuthInv, LimiterKeeps
  <1>2. /\ IsFiniteSet(Running(req', key)) /\ Cardinality(Running(req', key)) \in Nat
        /\ Cardinality(Running(req', key)) <= Cardinality(Running(req, key))
    BY <1>1, FS_Subset, FS_CardinalityType DEF KeyKeeps
  <1>3. Allowed(key)' = Allowed(key) /\ LimitStore' = LimitStore
    BY DEF Allowed, LimitStore
  <1>4. /\ IsFiniteSet(Running(req', key)) /\ Cardinality(Running(req', key)) <= peak'[key]
        /\ \A store \in {"redis", "memory"} : Collected(store, key)' <= Allowed(key)
        /\ Collected(LimitStore, key)' + Cardinality(Running(req', key)) <= Allowed(key)
    <2>1. Cardinality(Running(req', key)) <= peak'[key]
      BY <1>1, <1>2, CountTypes DEF KeyKeeps
    <2>2. ASSUME NEW store \in {"redis", "memory"} PROVE Collected(store, key)' <= Allowed(key)
      BY <1>1, CountTypes DEF KeyKeeps
    <2>3. /\ Collected(LimitStore, key)' \in Nat
          /\ Collected(LimitStore, key)' <= Collected(LimitStore, key)
      BY <1>3, CountTypes DEF LimitStore
    <2>4. /\ Collected(LimitStore, key) \in Nat /\ Allowed(key) \in Int /\ Cardinality(Running(req, key)) \in Nat
          /\ Collected(LimitStore, key) + Cardinality(Running(req, key)) <= Allowed(key)
      BY <1>1, CountTypes DEF KeyKeeps
    <2>5. Collected(LimitStore, key)' + Cardinality(Running(req', key)) <= Allowed(key)
      BY <1>2, <2>3, <2>4
    <2>6. QED
      BY <1>2, <2>1, <2>2, <2>5
  <1>5. QED
    BY <1>3, <1>4 DEF KeyKeeps

\* A request that ends with a hit exchanges its place among the running ones
\* for a collected attempt.
LEMMA KeyHit ==
    ASSUME AuthAssumption, AuthInv, NEW key \in LimitKeys, UNCHANGED <<switches, redisUp, peak>>,
           NEW r \in Running(req, key), Running(req', key) \subseteq Running(req, key) \ {r},
           \A store \in {"redis", "memory"} :
              /\ Collected(store, key)' \in Nat
              /\ \/ Collected(store, key)' <= Collected(store, key)
                 \/ store = LimitStore /\ Collected(store, key)' <= Collected(store, key) + 1
    PROVE  KeyKeeps(key)'
  <1>1. KeyKeeps(key)
    BY DEF AuthInv, LimiterKeeps
  <1>2. /\ IsFiniteSet(Running(req, key) \ {r})
        /\ Cardinality(Running(req, key) \ {r}) = Cardinality(Running(req, key)) - 1
        /\ Cardinality(Running(req, key) \ {r}) \in Nat
    BY <1>1, FS_RemoveElement, FS_CardinalityType DEF KeyKeeps
  <1>3. /\ IsFiniteSet(Running(req', key)) /\ Cardinality(Running(req', key)) \in Nat
        /\ Cardinality(Running(req', key)) <= Cardinality(Running(req, key)) - 1
    BY <1>2, FS_Subset, FS_CardinalityType
  <1>4. Allowed(key)' = Allowed(key) /\ LimitStore' = LimitStore
    BY DEF Allowed, LimitStore
  <1>5. Cardinality(Running(req, key)) \in Nat /\ Cardinality(Running(req, key)) >= 1
    BY <1>2, CountTypes
  <1>6. Cardinality(Running(req', key)) <= peak'[key]
    BY <1>1, <1>3, <1>5, CountTypes, SMTT(30) DEF KeyKeeps
  <1>7. ASSUME NEW store \in {"redis", "memory"} PROVE Collected(store, key)' <= Allowed(key)
    <2>1. CASE Collected(store, key)' <= Collected(store, key)
      BY <1>1, <2>1, CountTypes DEF KeyKeeps
    <2>2. CASE store = LimitStore /\ Collected(store, key)' <= Collected(store, key) + 1
      <3>1. Collected(store, key) + Cardinality(Running(req, key)) <= Allowed(key)
        BY <1>1, <2>2 DEF KeyKeeps
      <3>2. QED
        BY <1>5, <2>2, <3>1, CountTypes
    <2>3. QED
      BY <2>1, <2>2
  <1>8. /\ Collected(LimitStore, key)' \in Nat
        /\ Collected(LimitStore, key)' <= Collected(LimitStore, key) + 1
    <2>1. CASE LimitStore = "redis"
      <3>1. /\ Collected("redis", key)' \in Nat /\ Collected("redis", key) \in Nat
            /\ Collected("redis", key)' <= Collected("redis", key) + 1
        BY CountTypes
      <3>2. Collected(LimitStore, key)' = Collected("redis", key)' /\ Collected(LimitStore, key) = Collected("redis", key)
        BY <1>4, <2>1 DEF Collected, Recent, Outdated
      <3>3. QED
        BY <3>1, <3>2
    <2>2. CASE LimitStore = "memory"
      <3>1. /\ Collected("memory", key)' \in Nat /\ Collected("memory", key) \in Nat
            /\ Collected("memory", key)' <= Collected("memory", key) + 1
        BY CountTypes
      <3>2. Collected(LimitStore, key)' = Collected("memory", key)' /\ Collected(LimitStore, key) = Collected("memory", key)
        BY <1>4, <2>2 DEF Collected, Recent, Outdated
      <3>3. QED
        BY <3>1, <3>2
    <2>3. QED
      BY <2>1, <2>2 DEF LimitStore
  <1>9. Collected(LimitStore, key)' + Cardinality(Running(req', key)) <= Allowed(key)
    <2>1. /\ Collected(LimitStore, key) \in Nat /\ Allowed(key) \in Int
          /\ Collected(LimitStore, key) + Cardinality(Running(req, key)) <= Allowed(key)
      BY <1>1, CountTypes DEF KeyKeeps
    <2>2. QED
      BY <1>3, <1>5, <1>8, <2>1
  <1>10. QED
    BY <1>3, <1>4, <1>6, <1>7, <1>9 DEF KeyKeeps

\* A product of counts grows with its factors.
LEMMA ProductGrows ==
    ASSUME NEW a \in Nat, NEW b \in Nat, NEW n \in Nat, NEW m \in Nat, a <= b, n <= m
    PROVE  /\ a * n \in Nat /\ b * m \in Nat /\ a * n <= b * m
           /\ n < m => a * n + a <= b * m
           /\ n >= 1 => a <= a * n
  <1>1. \A x \in Nat, y \in Nat : x * y \in Nat
    OBVIOUS
  <1>2. \A x \in Nat, y \in Nat, z \in Nat : x * (y + z) = x * y + x * z /\ (x + y) * z = x * z + y * z
    OBVIOUS
  <1>3. b - a \in Nat /\ b = a + (b - a) /\ m - n \in Nat /\ m = n + (m - n)
    OBVIOUS
  <1>4. b * m = a * m + (b - a) * m
    BY <1>2, <1>3
  <1>5. a * m = a * n + a * (m - n)
    BY <1>2, <1>3
  <1>6. a * n + a * (m - n) <= b * m /\ a * (m - n) \in Nat /\ a * n \in Nat /\ b * m \in Nat
    BY <1>1, <1>3, <1>4, <1>5
  <1>7. \A y \in Nat : y >= 1 => a <= a * y
    <2>1. \A y \in Nat : y >= 1 => y - 1 \in Nat /\ y = 1 + (y - 1)
      OBVIOUS
    <2>2. \A y \in Nat : y >= 1 => a * y = a * 1 + a * (y - 1)
      BY <1>2, <2>1
    <2>3. QED
      BY <1>1, <2>1, <2>2
  <1>8. n < m => m - n >= 1
    OBVIOUS
  <1>9. n < m => a <= a * (m - n)
    BY <1>3, <1>7, <1>8
  <1>10. QED
    BY <1>6, <1>7, <1>9

\* A request that passes the check found fewer than the limit.
LEMMA KeyArrives ==
    ASSUME AuthAssumption, AuthInv, NEW r \in Requests, NEW kind \in {"signup", "login", "reset"},
           NEW email \in Emails, NEW password \in Passwords \cup {None}, Arrive(r, kind, email, password),
           NEW key \in LimitKeys, req'[r].pc = "read", KeyOf(req'[r]) = key
    PROVE  KeyKeeps(key)'
  <1> DEFINE q == [kind |-> kind, email |-> email, password |-> password,
                   token |-> None, pc |-> "read", ok |-> FALSE]
             runs == Cardinality(Running(req', key))
  <1>1. q \in Request /\ q.kind # "confirm" /\ q.pc = "read" /\ [q EXCEPT !.pc = "done"].pc = "done"
    BY ArrivalType DEF Pcs
  <1>2. req' = [req EXCEPT ![r] = q] /\ CheckPasses(KeyOf(q)) /\ req[r].pc = "idle"
        /\ peak' = [peak EXCEPT ![KeyOf(q)] = Max({peak[KeyOf(q)], Cardinality(Running([req EXCEPT ![r] = q], KeyOf(q)))})]
    <2>1. \/ /\ req' = [req EXCEPT ![r] = q] /\ CheckPasses(KeyOf(q))
             /\ peak' = [peak EXCEPT ![KeyOf(q)] = Max({peak[KeyOf(q)], Cardinality(Running([req EXCEPT ![r] = q], KeyOf(q)))})]
          \/ req' = [req EXCEPT ![r] = [q EXCEPT !.pc = "done"]]
      BY DEF Arrive
    <2>2. req' # [req EXCEPT ![r] = [q EXCEPT !.pc = "done"]]
      BY <1>1 DEF AuthInv, AuthTypeOK
    <2>3. QED
      BY <2>1, <2>2 DEF Arrive
  <1> HIDE DEF q
  <1>3. KeyOf(q) = key
    BY <1>2 DEF AuthInv, AuthTypeOK
  <1>4. IsFiniteSet(Running(req', key)) /\ runs \in Nat
    BY <1>1, <1>2, ArrivalRuns
  <1>5. peak'[key] = Max({peak[key], runs})
    BY <1>2, <1>3 DEF AuthInv, AuthTypeOK
  <1>6. peak'[key] \in Nat /\ peak'[key] >= runs /\ peak'[key] >= peak[key]
    <2>1. peak[key] \in Nat
      BY CountTypes
    <2> HIDE DEF runs
    <2>2. QED
      BY <1>4, <1>5, <2>1, MaxOfTwo
  <1>7. UNCHANGED <<now, redisUp, switches>> /\ attempts' = Trim(key)
    BY <1>3 DEF Arrive, q
  <1>8. /\ \A store \in {"redis", "memory"} : /\ Collected(store, key)' \in Nat
                                              /\ Collected(store, key)' <= Collected(store, key)
    BY <1>7, CollectedSteps
  <1>9. /\ Collected(LimitStore, key)' \in Nat
        /\ Collected(LimitStore, key)' <= AttemptLimit - 1
    <2>1. Collected(LimitStore, key) < AttemptLimit /\ Collected(LimitStore, key) \in Nat
      BY <1>2, <1>3, CountTypes DEF CheckPasses, Collected
    <2>2. /\ Collected(LimitStore, key)' \in Nat
          /\ Collected(LimitStore, key)' <= Collected(LimitStore, key)
      BY <1>7, <1>8, CountTypes DEF LimitStore
    <2>3. QED
      BY <2>1, <2>2 DEF AuthAssumption
  <1>10. /\ peak[key] * (switches + 1) <= peak'[key] * (switches + 1)
         /\ peak'[key] <= peak'[key] * (switches + 1) /\ peak'[key] * (switches + 1) \in Nat
    <2> DEFINE n == switches + 1
    <2>1. n \in Nat /\ n >= 1 /\ n <= n /\ peak[key] \in Nat /\ peak'[key] <= peak'[key]
      BY <1>6, CountTypes
    <2> HIDE DEF n
    <2>2. peak[key] * n <= peak'[key] * n
      BY <1>6, <2>1, ProductGrows
    <2>3. peak'[key] <= peak'[key] * n /\ peak'[key] * n \in Nat
      BY <1>6, <2>1, ProductGrows
    <2>4. QED
      BY <2>2, <2>3 DEF n
  <1>11. Allowed(key)' = AttemptLimit - 1 + peak'[key] * (switches + 1)
    BY <1>7 DEF Allowed
  <1>12. Allowed(key) = AttemptLimit - 1 + peak[key] * (switches + 1) /\ AttemptLimit \in Nat
    BY DEF Allowed, AuthAssumption
  <1>13. ASSUME NEW store \in {"redis", "memory"} PROVE Collected(store, key)' <= Allowed(key)'
    <2>1. Collected(store, key) <= Allowed(key)
      BY DEF AuthInv, LimiterKeeps, KeyKeeps
    <2>2. QED
      BY <1>8, <1>10, <1>11, <1>12, <2>1, CountTypes, SMTT(30)
  <1>14. Collected(LimitStore, key)' + runs <= Allowed(key)'
    BY <1>4, <1>6, <1>9, <1>10, <1>11, <1>12
  <1>15. QED
    BY <1>4, <1>6, <1>13, <1>14 DEF KeyKeeps

\* When Redis is lost or comes back, the other store allows as many again as
\* are running.
LEMMA KeySwitches ==
    ASSUME AuthAssumption, AuthInv, SwitchRedis, NEW key \in LimitKeys
    PROVE  KeyKeeps(key)'
  <1>1. KeyKeeps(key)
    BY DEF AuthInv, LimiterKeeps
  <1>2. UNCHANGED <<now, attempts, req, peak>> /\ switches' = switches + 1
    BY DEF SwitchRedis
  <1>3. Allowed(key)' = AttemptLimit - 1 + peak[key] * (switches + 1 + 1)
    BY <1>2 DEF Allowed
  <1>4. /\ peak[key] * (switches + 1) + peak[key] <= peak[key] * (switches + 1 + 1)
        /\ peak[key] * (switches + 1 + 1) \in Nat
    <2> DEFINE n == switches + 1  m == switches + 1 + 1
    <2>1. n \in Nat /\ m \in Nat /\ n < m /\ n <= m /\ peak[key] \in Nat /\ peak[key] <= peak[key]
      BY CountTypes
    <2> HIDE DEF n, m
    <2>2. peak[key] * n + peak[key] <= peak[key] * m /\ peak[key] * m \in Nat
      BY <2>1, ProductGrows
    <2>3. QED
      BY <2>2 DEF n, m
  <1>5. \A store \in {"redis", "memory"} : Collected(store, key)' = Collected(store, key)
    BY <1>2 DEF Collected, Recent, Outdated
  <1>6. LimitStore' \in {"redis", "memory"}
    BY DEF LimitStore
  <1>7. \A store \in {"redis", "memory"} :
           /\ Collected(store, key)' <= Allowed(key)'
           /\ Collected(store, key)' + Cardinality(Running(req, key)) <= Allowed(key)'
    <2>1. Allowed(key) + peak[key] <= Allowed(key)' /\ Allowed(key)' \in Int
      <3>1. peak[key] \in Nat /\ peak[key] * (switches + 1) \in Nat /\ AttemptLimit \in Nat
        BY CountTypes DEF AuthAssumption
      <3>2. QED
        BY <1>3, <1>4, <3>1 DEF Allowed
    <2>2. ASSUME NEW store \in {"redis", "memory"}
          PROVE  /\ Collected(store, key) <= Allowed(key)'
                 /\ Collected(store, key) + Cardinality(Running(req, key)) <= Allowed(key)'
      BY <1>1, <2>1, CountTypes DEF KeyKeeps
    <2>3. QED
      BY <1>5, <2>2
  <1>8. Collected(LimitStore, key)' + Cardinality(Running(req, key)) <= Allowed(key)'
    <2>1. CASE LimitStore' = "redis"
      <3>1. Collected(LimitStore, key)' = Collected("redis", key)'
        BY <2>1 DEF Collected, Recent, Outdated
      <3>2. QED
        BY <1>7, <3>1
    <2>2. CASE LimitStore' = "memory"
      <3>1. Collected(LimitStore, key)' = Collected("memory", key)'
        BY <2>2 DEF Collected, Recent, Outdated
      <3>2. QED
        BY <1>7, <3>1
    <2>3. QED
      BY <1>6, <2>1, <2>2
  <1>9. QED
    BY <1>1, <1>2, <1>7, <1>8 DEF KeyKeeps

\* An arrival does not change what other keys have running, and one over the
\* limit does not run.
LEMMA KeyArrivesElsewhere ==
    ASSUME AuthAssumption, AuthInv, NEW r \in Requests, NEW kind \in {"signup", "login", "reset"},
           NEW email \in Emails, NEW password \in Passwords \cup {None}, Arrive(r, kind, email, password),
           [NextAuth]_authVars, NEW key \in LimitKeys, req'[r].pc # "read" \/ KeyOf(req'[r]) # key
    PROVE  KeyKeeps(key)'
  <1> DEFINE q == [kind |-> kind, email |-> email, password |-> password,
                   token |-> None, pc |-> "read", ok |-> FALSE]
  <1>1. KeyOf(q) \in LimitKeys
    BY KeyOfType
  <1>2. /\ UNCHANGED <<now, redisUp, switches>> /\ attempts' = Trim(KeyOf(q))
        /\ \/ req' = [req EXCEPT ![r] = q] /\ \E n : peak' = [peak EXCEPT ![KeyOf(q)] = n]
           \/ peak' = peak
    BY DEF Arrive
  <1>3. q.pc = "read"
    OBVIOUS
  <1> HIDE DEF q
  <1>4. peak'[key] = peak[key]
    <2>1. CASE peak' = peak
      BY <2>1
    <2>2. CASE req' = [req EXCEPT ![r] = q] /\ \E n : peak' = [peak EXCEPT ![KeyOf(q)] = n]
      <3>1. KeyOf(q) # key
        BY <1>3, <2>2 DEF AuthInv, AuthTypeOK
      <3>2. QED
        BY <2>2, <3>1 DEF AuthInv, AuthTypeOK
    <2>3. QED
      BY <1>2, <2>1, <2>2
  <1>5. Running(req', key) \subseteq Running(req, key)
    <2> SUFFICES ASSUME NEW s \in Requests, s \in Running(req', key), s \notin Running(req, key)
                 PROVE  FALSE
      BY DEF Running
    <2>1. req'[s] # req[s]
      BY NewlyRunning
    <2>2. s = r /\ req'[r].pc \in {"read", "done"}
      BY <2>1, ArriveRequest
    <2>3. QED
      BY <2>2 DEF Running
  <1>6. \A store \in {"redis", "memory"} : /\ Collected(store, key)' \in Nat
                                           /\ Collected(store, key)' <= Collected(store, key)
    BY <1>1, <1>2, CollectedSteps
  <1>7. QED
    BY <1>2, <1>4, <1>5, <1>6, KeySettles

\* What the limiter sees of the other steps of requests: nothing, the clearing
\* of a key, or a hit by the request that ends.
LEMMA LimiterSteps ==
    ASSUME AuthAssumption, AuthInv, NEW r \in Requests,
           \/ \E t \in Requests, p \in Passwords : ConfirmRead(r, t, p)
           \/ SignupRead(r) \/ SignupInsert(r) \/ LoginVerify(r) \/ LoginOpen(r)
           \/ ResetRead(r) \/ ResetIssue(r) \/ ResetMail(r) \/ ClearLimit(r)
           \/ ConfirmWrite(r) \/ Logout(r)
    PROVE  /\ UNCHANGED <<now, redisUp, switches, peak>>
           /\ \A s \in Requests : req'[s] # req[s] => req[s].pc # "idle" \/ req'[s].kind = "confirm"
           /\ \/ UNCHANGED attempts
              \/ KeyOf(req[r]) \in LimitKeys /\ Clear(KeyOf(req[r]))
              \/ /\ Hit(KeyOf(req[r])) /\ r \in Running(req, KeyOf(req[r]))
                 /\ req'[r].pc = "done"
  <1> DEFINE Goal == /\ UNCHANGED <<now, redisUp, switches, peak>>
                     /\ \A s \in Requests : req'[s] # req[s] => req[s].pc # "idle" \/ req'[s].kind = "confirm"
                     /\ \/ UNCHANGED attempts
                        \/ KeyOf(req[r]) \in LimitKeys /\ Clear(KeyOf(req[r]))
                        \/ /\ Hit(KeyOf(req[r])) /\ r \in Running(req, KeyOf(req[r]))
                           /\ req'[r].pc = "done"
  <1>1. req \in [Requests -> Request] /\ \A q \in Request : DOMAIN q = {"kind", "email", "password", "token", "pc", "ok"}
    BY DEF AuthInv, AuthTypeOK, Request
  <1>2. \A ok : Ends(r, ok) => req'[r].pc = "done" /\ \A s \in Requests : s # r => req'[s] = req[s]
    BY <1>1 DEF Ends
  <1>3. \A pc : Continues(r, pc) => \A s \in Requests : s # r => req'[s] = req[s]
    BY <1>1 DEF Continues
  <1>4. req[r].kind = "signup" => KeyOf(req[r]) = <<"signup">>
    BY DEF KeyOf
  <1>5. req[r].pc \notin {"idle", "done"} /\ req[r].kind # "confirm" => r \in Running(req, KeyOf(req[r]))
    BY DEF Running
  <1>6. ASSUME NEW t \in Requests, NEW p \in Passwords, ConfirmRead(r, t, p) PROVE Goal
    <2>1. /\ req'[r].kind = "confirm" /\ \A s \in Requests : s # r => req'[s] = req[s]
      BY <1>1, <1>6 DEF ConfirmRead
    <2>2. UNCHANGED <<now, redisUp, switches, peak, attempts>>
      BY <1>6 DEF ConfirmRead
    <2>3. QED
      BY <2>1, <2>2
  <1>7. ASSUME SignupRead(r) PROVE Goal
    BY <1>2, <1>3, <1>4, <1>5, <1>7 DEF SignupRead
  <1>8. ASSUME SignupInsert(r) PROVE Goal
    BY <1>2, <1>3, <1>4, <1>5, <1>8 DEF SignupInsert
  <1>9. ASSUME LoginVerify(r) PROVE Goal
    BY <1>2, <1>3, <1>5, <1>9 DEF LoginVerify
  <1>10. ASSUME LoginOpen(r) PROVE Goal
    BY <1>3, <1>10 DEF LoginOpen
  <1>11. ASSUME ResetRead(r) PROVE Goal
    BY <1>2, <1>3, <1>5, <1>11 DEF ResetRead
  <1>12. ASSUME ResetIssue(r) PROVE Goal
    BY <1>3, <1>12 DEF ResetIssue
  <1>13. ASSUME ResetMail(r) PROVE Goal
    BY <1>2, <1>3, <1>13 DEF ResetMail
  <1>14. ASSUME ClearLimit(r) PROVE Goal
    BY <1>2, <1>14, ClearKey DEF ClearLimit
  <1>15. ASSUME ConfirmWrite(r) PROVE Goal
    BY <1>2, <1>15 DEF ConfirmWrite
  <1>16. ASSUME Logout(r) PROVE Goal
    BY <1>16 DEF Logout
  <1> HIDE DEF Goal
  <1>17. Goal
    BY <1>6, <1>7, <1>8, <1>9, <1>10, <1>11, <1>12, <1>13, <1>14, <1>15, <1>16
  <1>18. QED
    BY <1>17 DEF Goal

\* Time only empties the window.
LEMMA KeyAges ==
    ASSUME AuthAssumption, AuthInv, AuthTypeOK', TickAuth, NEW key \in LimitKeys
    PROVE  KeyKeeps(key)'
  <1>1. now \in Int /\ now' \in Int /\ now <= now' /\ Window \in Int /\ MaxTime \in Nat
    BY DEF TickAuth, AuthInv, AuthTypeOK, AuthAssumption, Times
  <1>2. UNCHANGED <<attempts, redisUp, switches, req, peak>>
    BY DEF TickAuth
  <1>3. ASSUME NEW store \in {"redis", "memory"}
        PROVE  Collected(store, key)' \in Nat /\ Collected(store, key)' <= Collected(store, key)
    <2>1. \E t \in Seq(Times) : t = attempts[store][key] /\ t = attempts'[store][key]
      BY <1>2, CountTypes
    <2>2. PICK times \in Seq(Times) : times = attempts[store][key] /\ times = attempts'[store][key]
      BY <2>1
    <2>3. Collected(store, key)' = Len(Recent(times)')
      BY <2>2 DEF Collected, Recent, Outdated
    <2>4. Collected(store, key) = Len(Recent(times)) /\ Collected(store, key) \in Nat
      BY <2>2, CountTypes DEF Collected
    <2>5. Len(Recent(times)') <= Len(Recent(times))
      BY <1>1, RecentShrinks
    <2>6. Collected(store, key)' \in Nat
      <3>1. attempts'[store][key] \in Seq(Times)
        BY <2>2
      <3>2. Outdated(times)' \subseteq 1 .. Len(times) /\ IsFiniteSet(1 .. Len(times)) /\ Cardinality(1 .. Len(times)) = Len(times)
        BY PrefixSize DEF Outdated
      <3>3. Cardinality(Outdated(times)') \in Nat /\ Cardinality(Outdated(times)') <= Len(times)
        BY <3>2, FS_Subset, FS_CardinalityType
      <3>4. Recent(times)' \in Seq(Times)
        BY <3>3 DEF Recent
      <3>5. QED
        BY <2>3, <3>4
    <2>7. QED
      BY <2>3, <2>4, <2>5, <2>6
  <1>4. Running(req', key) \subseteq Running(req, key)
    BY <1>2
  <1>5. QED
    BY <1>2, <1>3, <1>4, KeySettles

\* No step takes a key over its bound.
LEMMA LimiterKeepsStep ==
    ASSUME AuthAssumption, AuthInv, [NextAuth]_authVars
    PROVE  LimiterKeeps'
  <1> SUFFICES ASSUME NEW key \in LimitKeys PROVE KeyKeeps(key)'
    BY DEF LimiterKeeps, LimitKeys
  <1>1. ASSUME NEW r \in Requests, NEW kind \in {"signup", "login", "reset"}, NEW email \in Emails,
               NEW password \in Passwords \cup {None}, Arrive(r, kind, email, password)
        PROVE  KeyKeeps(key)'
    BY <1>1, KeyArrives, KeyArrivesElsewhere
  <1>2. ASSUME NEW r \in Requests,
               \/ \E t \in Requests, p \in Passwords : ConfirmRead(r, t, p)
               \/ SignupRead(r) \/ SignupInsert(r) \/ LoginVerify(r) \/ LoginOpen(r)
               \/ ResetRead(r) \/ ResetIssue(r) \/ ResetMail(r) \/ ClearLimit(r)
               \/ ConfirmWrite(r) \/ Logout(r)
        PROVE  KeyKeeps(key)'
    <2> DEFINE key0 == KeyOf(req[r])
    <2>1. /\ UNCHANGED <<now, redisUp, switches, peak>>
          /\ \A s \in Requests : req'[s] # req[s] => req[s].pc # "idle" \/ req'[s].kind = "confirm"
          /\ \/ UNCHANGED attempts
             \/ key0 \in LimitKeys /\ Clear(key0)
             \/ Hit(key0) /\ r \in Running(req, key0) /\ req'[r].pc = "done"
      BY <1>2, LimiterSteps
    <2>2. Running(req', key) \subseteq Running(req, key)
      <3> SUFFICES ASSUME NEW s \in Requests, s \in Running(req', key), s \notin Running(req, key)
                   PROVE  FALSE
        BY DEF Running
      <3>1. QED
        BY <2>1, NewlyRunning
    <2> HIDE DEF key0
    <2>3. ASSUME NEW k0 \in LimitKeys, Clear(k0) \/ UNCHANGED attempts PROVE KeyKeeps(key)'
      <3>1. \A store \in {"redis", "memory"} : /\ Collected(store, key)' \in Nat
                                               /\ Collected(store, key)' <= Collected(store, key)
        BY <2>1, <2>3, CollectedSteps
      <3>2. QED
        BY <2>1, <2>2, <3>1, KeySettles
    <2>4. ASSUME Hit(key0), r \in Running(req, key0), req'[r].pc = "done" PROVE KeyKeeps(key)'
      <3>1. key0 \in LimitKeys
        <4>1. req[r].kind \in {"signup", "login", "reset"} /\ req[r].email \in Emails
          BY <2>4 DEF Running, AuthInv, RequestsProgress, Kinds
        <4>2. QED
          BY <4>1, KeyOfType DEF key0
      <3>2. \A store \in {"redis", "memory"} :
               /\ Collected(store, key)' \in Nat
               /\ \/ Collected(store, key)' <= Collected(store, key)
                  \/ /\ store = LimitStore /\ key = key0
                     /\ Collected(store, key)' <= Collected(store, key) + 1
        BY <2>1, <2>4, <3>1, CollectedSteps
      <3>3. CASE key = key0
        <4>1. Running(req', key) \subseteq Running(req, key) \ {r}
          BY <2>2, <2>4 DEF Running
        <4>2. QED
          BY <2>1, <2>4, <3>2, <3>3, <4>1, KeyHit
      <3>4. CASE key # key0
        BY <2>1, <2>2, <3>2, <3>4, KeySettles
      <3>5. QED
        BY <3>3, <3>4
    <2>5. QED
      BY <2>1, <2>3, <2>4
  <1>3. CASE TickAuth
    BY <1>3, TypeStep, KeyAges
  <1>4. CASE SwitchRedis
    BY <1>4, KeySwitches
  <1>5. CASE UNCHANGED authVars
    <2>1. KeyKeeps(key)
      BY DEF AuthInv, LimiterKeeps
    <2>2. QED
      BY <1>5, <2>1 DEF authVars, KeyKeeps, Collected, Allowed, LimitStore, Recent, Outdated
  <1>6. QED
    BY <1>1, <1>2, <1>3, <1>4, <1>5 DEF NextAuth

-----------------------------------------------------------------------------
(* The theorems.                                                           *)

\* It holds when the service starts.
LEMMA AuthInvInit == AuthAssumption /\ InitAuth => AuthInv
  <1> SUFFICES ASSUME AuthAssumption, InitAuth PROVE AuthInv
    OBVIOUS
  <1>1. 0 \in Times /\ MaxTime \in Nat /\ SessionTtl \in Nat /\ TokenTtl \in Nat /\ MaxSwitches \in Nat
    BY DEF AuthAssumption, Times
  <1>2. [password : Passwords, resets : {0}] \subseteq Account
    BY DEF Account
  <1>3. AuthTypeOK
    <2>1. account \in [Emails -> Account \cup {None}]
      BY <1>2 DEF InitAuth
    <2>2. session \in [Requests -> Session] /\ token \in [Requests -> Token]
      BY <1>1, RowTypes DEF InitAuth
    <2>3. req \in [Requests -> Request]
      BY DEF InitAuth, Request, Pcs
    <2>4. attempts \in [{"redis", "memory"} -> [LimitKeys -> Seq(Times)]] /\ peak \in [LimitKeys -> Nat]
      BY DEF InitAuth
    <2>5. now \in Times /\ mailed \subseteq Requests /\ redisUp \in BOOLEAN /\ switches \in 0 .. MaxSwitches
      BY <1>1 DEF InitAuth
    <2>6. QED
      BY <2>1, <2>2, <2>3, <2>4, <2>5 DEF AuthTypeOK
  <1>4. RequestsProgress /\ MailedExist /\ SessionsOwned /\ OneSignupWins
    BY DEF InitAuth, RequestsProgress, MailedExist, SessionsOwned, OneSignupWins, NoSession
  <1>5. ASSUME NEW key \in LimitKeys PROVE KeyKeeps(key)
    <2>1. Running(req, key) = {}
      BY DEF InitAuth, Running
    <2>2. IsFiniteSet(Running(req, key)) /\ Cardinality(Running(req, key)) = 0
      BY <2>1, FS_EmptySet
    <2>3. ASSUME NEW store \in {"redis", "memory"} PROVE Collected(store, key) = 0
      <3>1. attempts[store][key] = <<>> /\ <<>> \in Seq(Times) /\ Len(<<>>) = 0
        BY DEF InitAuth
      <3>2. Recent(<<>>) \in Seq(Times) /\ Len(Recent(<<>>)) <= 0
        BY <3>1, RecentIsPart
      <3>3. QED
        BY <3>1, <3>2 DEF Collected
    <2>4. peak[key] = 0 /\ switches = 0 /\ LimitStore \in {"redis", "memory"}
      BY DEF InitAuth, LimitStore
    <2>5. Allowed(key) = AttemptLimit - 1 /\ AttemptLimit \in Nat \ {0}
      BY <2>4 DEF Allowed, AuthAssumption
    <2>6. QED
      BY <2>2, <2>3, <2>4, <2>5 DEF KeyKeeps
  <1>6. QED
    BY <1>3, <1>4, <1>5 DEF AuthInv, LimiterKeeps

\* And every step keeps it.
LEMMA AuthInvStep == AuthAssumption /\ AuthInv /\ [NextAuth]_authVars => AuthInv'
  BY TypeStep, RequestsProgressStep, MailedExistStep, SessionsOwnedStep, OneSignupWinsStep,
     LimiterKeepsStep DEF AuthInv

\* What any interleaving of signups, logins, resets and confirmations keeps.
THEOREM Invariance == ASSUME AuthAssumption PROVE SpecAuth => []AuthInv
  <1>1. InitAuth => AuthInv
    BY AuthInvInit
  <1>2. AuthInv /\ [NextAuth]_authVars => AuthInv'
    BY AuthInvStep
  <1>3. QED
    BY <1>1, <1>2, PTL DEF SpecAuth

\* The tables and the requests keep their types.
THEOREM TypeCorrect == ASSUME AuthAssumption PROVE SpecAuth => []AuthTypeOK
  <1>1. AuthInv => AuthTypeOK
    BY DEF AuthInv
  <1>2. QED
    BY <1>1, Invariance, PTL

\* Of the signups for one address one wins, and every session that
\* authenticates was opened after the last password reset of its learner.
THEOREM SessionsAlwaysEarned == ASSUME AuthAssumption PROVE SpecAuth => []SessionsAreEarned
  <1>1. AuthInv => SessionsAreEarned
    BY DEF AuthInv, SessionsAreEarned, LiveSessionsPostdateReset, Live, SessionsOwned
  <1>2. QED
    BY <1>1, Invariance, PTL

\* A key never collects more than the limit and the requests that overlapped,
\* once more for each time Redis was lost or came back.
THEOREM AttemptsAlwaysBounded == ASSUME AuthAssumption PROVE SpecAuth => []AttemptsBounded
  <1>1. AuthInv => AttemptsBounded
    BY DEF AuthInv, LimiterKeeps, KeyKeeps, AttemptsBounded, Collected, Allowed
  <1>2. QED
    BY <1>1, Invariance, PTL
=============================================================================
