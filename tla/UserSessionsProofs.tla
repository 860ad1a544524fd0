--------------------------- MODULE UserSessionsProofs ---------------------------
(***************************************************************************)
(* What accounts and sessions guarantee for any number of requests,        *)
(* addresses, passwords and restarts.  A session belongs to the login that *)
(* drew its token, which has been answered and stays what it was; a purge  *)
(* holds the locks of rows that had expired, and a logout that of its own. *)
(***************************************************************************)
EXTENDS UserSessions, TLAPS

\* A login that was answered with a token
Drawn(t) == req[t].kind = "login" /\ req[t].answer = "ok" /\ pc[t] \in {"done", "settled"}

\* What a request is at each await of its use case
StageOf(r) ==
    /\ pc[r] \in {"look", "insert", "inserted"} =>
          req[r].kind = "register" /\ req[r].answer = "none"
    /\ pc[r] \in {"read", "verify", "purge", "commit"} =>
          req[r].kind = "login" /\ req[r].answer = "none"
    /\ pc[r] \in {"delete", "deleted"} => req[r].kind = "logout" /\ req[r].token \in Requests
    /\ pc[r] = "session" => req[r].kind = "me" /\ req[r].answer = "none"
    /\ pc[r] = "idle" => req[r] = Unsent
    /\ req[r].kind \in {"register", "login"} =>
          req[r].email \in Emails /\ req[r].password \in Passwords
    /\ req[r].kind = "me" => req[r].token \in Requests

\* The rows that a transaction has written and not committed
LocksOf(r) ==
    /\ pc[r] = "inserted" => locks[r] = {req[r].email}
    /\ pc[r] = "commit" => \A t \in locks[r] : t \in Requests /\ Drawn(t)
    /\ pc[r] = "deleted" => locks[r] = {req[r].token}
    /\ pc[r] \notin {"inserted", "commit", "deleted"} => locks[r] = {}

TokensOf(r) ==
    /\ req[r].kind \in {"logout", "me"} /\ req[r].token # None => Drawn(req[r].token)
    /\ pc[r] = "done" /\ req[r].kind = "logout" /\ req[r].answer = "ok" =>
          /\ req[r].token # None
          /\ \A s \in sessions : s.token # req[r].token

ShapeInv ==
    /\ TypeOK
    /\ \A r \in Requests : StageOf(r) /\ LocksOf(r) /\ TokensOf(r)
    /\ store # None => Drawn(store)
    /\ \A s \in sessions : Drawn(s.token)
    /\ \A s, x \in sessions : s.token = x.token => s = x
    /\ \A t \in loggedOut : Drawn(t) /\ \A s \in sessions : s.token # t

LEMMA InitShape == Init => ShapeInv
<1> SUFFICES ASSUME Init PROVE ShapeInv
  OBVIOUS
<1>1. Unsent \in Request
  BY DEF Unsent, Request, Kinds, Answers
<1>2. TypeOK
  BY <1>1, SessionsAssumption DEF Init, TypeOK, Pc
<1>3. ASSUME NEW r \in Requests PROVE StageOf(r) /\ LocksOf(r) /\ TokensOf(r)
  <2>1. pc[r] = "idle" /\ req[r] = Unsent /\ locks[r] = {}
    BY DEF Init
  <2> QED BY <2>1 DEF StageOf, LocksOf, TokensOf, Unsent
<1> QED BY <1>2, <1>3 DEF Init, ShapeInv

LEMMA RequestUpdates ==
    ASSUME NEW f \in [Requests -> Request], NEW r \in Requests
    PROVE  /\ \A a \in Answers : [f EXCEPT ![r].answer = a] \in [Requests -> Request]
           /\ [f EXCEPT ![r].made = TRUE] \in [Requests -> Request]
           /\ \A e \in Emails : [f EXCEPT ![r].email = e] \in [Requests -> Request]
           /\ \A t \in Nat : [f EXCEPT ![r].now = t] \in [Requests -> Request]
           /\ [f EXCEPT ![r].known = None] \in [Requests -> Request]
<1>1. ASSUME NEW a \in Answers PROVE [f EXCEPT ![r].answer = a] \in [Requests -> Request]
  BY DEF Request
<1>2. [f EXCEPT ![r].made = TRUE] \in [Requests -> Request]
  <2>1. [f[r] EXCEPT !.made = TRUE] \in Request
    <3>1. f[r] \in Request
      OBVIOUS
    <3> QED BY <3>1 DEF Request
  <2>2. \A x \in Request : [f EXCEPT ![r] = x] \in [Requests -> Request]
    OBVIOUS
  <2> QED BY <2>1, <2>2
<1>3. ASSUME NEW e \in Emails PROVE [f EXCEPT ![r].email = e] \in [Requests -> Request]
  BY DEF Request
<1>4. ASSUME NEW t \in Nat PROVE [f EXCEPT ![r].now = t] \in [Requests -> Request]
  BY DEF Request
<1>5. [f EXCEPT ![r].known = None] \in [Requests -> Request]
  BY DEF Request
<1> QED BY <1>1, <1>2, <1>3, <1>4, <1>5

LEMMA TypesOfSend ==
    ASSUME TypeOK, NEW r \in Requests, NEW kind \in Kinds, NEW email \in Emails \cup {None},
           NEW password \in Passwords \cup {None}, NEW token \in Requests \cup {None},
           NEW first \in Pc, Send(r, kind, email, password, token, first)
    PROVE  TypeOK'
<1> DEFINE sent == [Unsent EXCEPT !.kind = kind, !.email = email, !.password = password,
                                  !.token = token, !.browser = (kind # "me" \/ token = store),
                                  !.sent = IF kind = "me" THEN clock ELSE 0,
                                  !.closed = IF kind = "me" THEN loggedOut ELSE {}]
<1>1. /\ req' = [req EXCEPT ![r] = sent] /\ pc' = [pc EXCEPT ![r] = first]
      /\ UNCHANGED <<clock, users, sessions, locks, store, restarts, loggedOut, overlapped>>
  BY DEF Send, GoTo, history
<1>2. sent \in Request
  <2>1. (IF kind = "me" THEN clock ELSE 0) \in Nat /\ (IF kind = "me" THEN loggedOut ELSE {}) \subseteq Requests
    BY DEF TypeOK
  <2>2. (kind # "me" \/ token = store) \in BOOLEAN /\ Unsent \in Request
    BY DEF Unsent, Request, Answers
  <2>3. \A b \in BOOLEAN, n \in Nat, s \in SUBSET Requests :
           [Unsent EXCEPT !.kind = kind, !.email = email, !.password = password, !.token = token,
                          !.browser = b, !.sent = n, !.closed = s] \in Request
    BY ZenonT(40) DEF Unsent, Request, Answers
  <2> QED BY <2>1, <2>2, <2>3
<1> HIDE DEF sent
<1> QED BY <1>1, <1>2 DEF TypeOK

LEMMA StepKeepsTypes == ShapeInv /\ [Next]_vars => TypeOK'
<1> SUFFICES ASSUME ShapeInv, [Next]_vars PROVE TypeOK'
  OBVIOUS
<1>0. TypeOK /\ \A r \in Requests : StageOf(r) /\ TokensOf(r)
  BY DEF ShapeInv
<1> USE SessionsAssumption
<1>1. CASE Tick
  BY <1>0, <1>1 DEF Tick, TypeOK, history
<1>2. CASE Restart
  <2>1. \A r \in Requests : req[r] \in Request /\ [req[r] EXCEPT !.answer = "failed"] \in Request
    <3>1. \A r \in Requests : req[r] \in Request
      BY <1>0 DEF TypeOK
    <3>2. \A x \in Request : [x EXCEPT !.answer = "failed"] \in Request
      BY DEF Request, Answers
    <3> QED BY <3>1, <3>2
  <2>2. req' \in [Requests -> Request]
    BY <1>2, <2>1 DEF Restart
  <2>3. pc' \in [Requests -> Pc]
    BY <1>0, <1>2 DEF Restart, TypeOK, Pc
  <2>4. restarts' \in Nat /\ locks' \in [Requests -> SUBSET (Requests \cup Emails)]
    BY <1>0, <1>2 DEF Restart, TypeOK
  <2> QED BY <1>0, <1>2, <2>2, <2>3, <2>4 DEF Restart, TypeOK, history
<1>3. ASSUME NEW r \in Requests, ServerStep(r) PROVE TypeOK'
  <2> USE <1>0 DEF TypeOK, At, GoTo, Answered, Request, Answers, Pc, Working, history
  <2>1. CASE LookForAccount(r)
    <3>1. UNCHANGED req \/ req' = [req EXCEPT ![r].answer = "conflict"]
      BY <2>1 DEF LookForAccount
    <3>2. req' \in [Requests -> Request]
      <4>1. "conflict" \in Answers
        OBVIOUS
      <4>2. CASE req' = [req EXCEPT ![r].answer = "conflict"]
        <5> HIDE DEF Request, Answers
        <5> QED BY <4>1, <4>2, RequestUpdates
      <4>3. CASE UNCHANGED req
        BY <4>3
      <4> QED BY <3>1, <4>2, <4>3
    <3>3. pc' \in [Requests -> Pc] /\ locks' \in [Requests -> SUBSET (Requests \cup Emails)]
      BY <2>1 DEF LookForAccount
    <3> HIDE DEF Request, Pc, Answered, GoTo, At, Answers
    <3> QED BY <2>1, <3>2, <3>3 DEF LookForAccount
  <2>2. CASE InsertUser(r)
    <3>1. UNCHANGED req \/ req' = [req EXCEPT ![r].answer = "conflict"]
      BY <2>2 DEF InsertUser
    <3>2. req' \in [Requests -> Request]
      <4>1. "conflict" \in Answers
        OBVIOUS
      <4>2. CASE req' = [req EXCEPT ![r].answer = "conflict"]
        <5> HIDE DEF Request, Answers
        <5> QED BY <4>1, <4>2, RequestUpdates
      <4>3. CASE UNCHANGED req
        BY <4>3
      <4> QED BY <3>1, <4>2, <4>3
    <3>3. pc' \in [Requests -> Pc]
      BY <2>2 DEF InsertUser
    <3>4. locks' \in [Requests -> SUBSET (Requests \cup Emails)]
      <4>1. req[r].email \in Emails
        BY <2>2 DEF InsertUser, StageOf
      <4> HIDE DEF Request, Pc
      <4> QED BY <2>2, <4>1 DEF InsertUser
    <3> HIDE DEF Request, Pc, Answered, GoTo, At, Answers
    <3> QED BY <2>2, <3>2, <3>3, <3>4 DEF InsertUser
  <2>3. CASE CommitUser(r)
    <3>1. req' \in [Requests -> Request]
      <4> DEFINE f == [req EXCEPT ![r].answer = "ok"]
      <4>1. f \in [Requests -> Request]
        BY RequestUpdates
      <4>2. req' = [f EXCEPT ![r].made = TRUE]
        BY <2>3 DEF CommitUser
      <4> HIDE DEF f, Request
      <4> QED BY <4>1, <4>2, RequestUpdates
    <3>2. req[r].email \in Emails /\ req[r].password \in Passwords
      BY <2>3 DEF CommitUser, StageOf
    <3>3. users' \in [Emails -> Passwords \cup {None}] /\ pc' \in [Requests -> Pc]
      BY <2>3, <3>2 DEF CommitUser
    <3>4. locks' \in [Requests -> SUBSET (Requests \cup Emails)]
      BY <2>3 DEF CommitUser
    <3> HIDE DEF Request, Pc, Answered, GoTo, At, Answers
    <3> QED BY <2>3, <3>1, <3>3, <3>4 DEF CommitUser
  <2>4. CASE ReadUser(r)
    BY <2>4 DEF ReadUser, StageOf
  <2>5. CASE Verify(r)
    <3>1. req' \in [Requests -> Request]
      <4>1. CASE req[r].known = req[r].password
        BY <2>5, <4>1 DEF Verify
      <4>2. CASE req[r].known # req[r].password
        <5>1. req' = [req EXCEPT ![r].answer = "refused"] /\ "refused" \in Answers
          BY <2>5, <4>2 DEF Verify
        <5> HIDE DEF Request, Answers
        <5> QED BY <5>1, RequestUpdates
      <4> QED BY <4>1, <4>2
    <3>2. pc' \in [Requests -> Pc]
      BY SMTT(30), <2>5 DEF Verify
    <3>3. locks' \in [Requests -> SUBSET (Requests \cup Emails)]
      BY <2>5 DEF Verify
    <3> HIDE DEF Request, Pc, Answered, GoTo, At, Answers
    <3> QED BY <2>5, <3>1, <3>2, <3>3 DEF Verify
  <2>6. CASE Purge(r)
    BY <2>6 DEF Purge, Expired, Session
  <2>7. CASE CommitLogin(r)
    BY SMTT(30), <2>7 DEF CommitLogin, Session, StageOf
  <2>8. CASE DeleteSession(r)
    BY <2>8 DEF DeleteSession, StageOf
  <2>9. CASE CommitLogout(r)
    BY <2>9 DEF CommitLogout
  <2>10. CASE Authenticate(r)
    <3>1. CASE Answered(r, "unauthenticated")
      <4>1. req' \in [Requests -> Request]
        BY <3>1
      <4>2. pc' \in [Requests -> Pc]
        BY <3>1
      <4>3. locks' \in [Requests -> SUBSET (Requests \cup Emails)]
        BY <3>1
      <4> HIDE DEF Request, Pc, GoTo, At, Answered, Answers
      <4> QED BY <2>10, <4>1, <4>2, <4>3 DEF Authenticate
    <3>2. ASSUME NEW s \in sessions, GoTo(r, "done"), locks' = [locks EXCEPT ![r] = {}],
                 req' = [req EXCEPT ![r].email = s.email, ![r].answer = "ok"]
          PROVE  TypeOK'
      <4>1. s.email \in Emails
        BY DEF Session
      <4>2. req' \in [Requests -> Request]
        <5> DEFINE f == [req EXCEPT ![r].email = s.email]
        <5>1. f \in [Requests -> Request]
          BY <4>1, RequestUpdates
        <5>2. req' = [f EXCEPT ![r].answer = "ok"]
          BY <3>2
        <5>3. "ok" \in Answers
          OBVIOUS
        <5> HIDE DEF f, Request, Answers
        <5> QED BY <5>1, <5>2, <5>3, RequestUpdates
      <4>3. pc' \in [Requests -> Pc]
        BY <3>2
      <4>4. locks' \in [Requests -> SUBSET (Requests \cup Emails)]
        BY <3>2
      <4> HIDE DEF Request, Pc, GoTo, At, Answers
      <4> QED BY <2>10, <4>2, <4>3, <4>4 DEF Authenticate
    <3> HIDE DEF TypeOK, Request, Pc, GoTo, At, Answers
    <3> QED BY <2>10, <3>1, <3>2 DEF Authenticate
  <2> QED BY <1>3, <2>1, <2>2, <2>3, <2>4, <2>5, <2>6, <2>7, <2>8, <2>9, <2>10 DEF ServerStep
<1>4. ASSUME NEW r \in Requests, BrowserStep(r) PROVE TypeOK'
  <2> USE <1>0 DEF TypeOK, At, GoTo, Request, Answers, Pc, Working, history, Kinds
  <2>1. CASE ThenLogin(r)
    BY <2>1 DEF ThenLogin
  <2>2. CASE KeepToken(r)
    BY <2>2 DEF KeepToken
  <2>3. CASE DropToken(r)
    BY <2>3 DEF DropToken, TokensOf
  <2>4. CASE Settle(r)
    BY <2>4 DEF Settle
  <2> QED BY <1>4, <2>1, <2>2, <2>3, <2>4 DEF BrowserStep
<1>5. ASSUME NEW r \in Requests, SendStep(r) PROVE TypeOK'
  <2> USE <1>0 DEF Kinds, Pc, Working
  <2>1. ASSUME NEW e \in Emails, NEW p \in Passwords, SendRegister(r, e, p) PROVE TypeOK'
    BY <2>1, TypesOfSend DEF SendRegister
  <2>2. ASSUME NEW e \in Emails, NEW p \in Passwords, SendLogin(r, e, p) PROVE TypeOK'
    BY <2>2, TypesOfSend DEF SendLogin
  <2>3. CASE SendLogout(r)
    <3>1. store \in Requests \cup {None}
      BY DEF TypeOK
    <3> QED BY <2>3, <3>1, TypesOfSend DEF SendLogout
  <2>4. ASSUME NEW t \in Given \cup ({store} \ {None}), SendMe(r, t) PROVE TypeOK'
    <3>1. t \in Requests
      BY DEF TypeOK, Given
    <3> QED BY <2>4, <3>1, TypesOfSend DEF SendMe
  <2> QED BY <1>5, <2>1, <2>2, <2>3, <2>4 DEF SendStep
<1>6. CASE UNCHANGED vars
  BY <1>0, <1>6 DEF vars, history, TypeOK
<1> QED BY <1>1, <1>2, <1>3, <1>4, <1>5, <1>6 DEF Next

StepOf(r) == ServerStep(r) \/ BrowserStep(r) \/ SendStep(r)

\* A step of one request leaves what the others hold
LEMMA OthersStay ==
    ASSUME TypeOK, NEW r \in Requests, StepOf(r), NEW q \in Requests \ {r}
    PROVE  pc'[q] = pc[q] /\ req'[q] = req[q] /\ locks'[q] = locks[q]
<1> USE DEF TypeOK, GoTo, At, Answered
<1>1. CASE ServerStep(r)
  BY ZenonT(40), <1>1 DEF ServerStep, LookForAccount, InsertUser, CommitUser, ReadUser, Verify, Purge, CommitLogin,
              DeleteSession, CommitLogout, Authenticate
<1>2. CASE BrowserStep(r)
  BY <1>2 DEF BrowserStep, ThenLogin, KeepToken, DropToken, Settle
<1>3. CASE SendStep(r)
  BY ZenonT(40), <1>3 DEF SendStep, Send, SendRegister, SendLogin, SendLogout, SendMe
<1> QED BY <1>1, <1>2, <1>3 DEF StepOf

\* Only a login that commits adds a session, and it is its own
LEMMA SessionsComeFromLogins ==
    ASSUME TypeOK, NEW r \in Requests, StepOf(r), NEW s \in sessions'
    PROVE  \/ s \in sessions
           \/ CommitLogin(r) /\ s = [token |-> r, email |-> req[r].email, expires |-> req[r].now + Lifetime]
<1>1. CASE ServerStep(r)
  BY <1>1 DEF ServerStep, LookForAccount, InsertUser, CommitUser, ReadUser, Verify, Purge, CommitLogin,
              DeleteSession, CommitLogout, Authenticate
<1>2. CASE BrowserStep(r)
  BY <1>2 DEF BrowserStep, ThenLogin, KeepToken, DropToken, Settle
<1>3. CASE SendStep(r)
  BY <1>3 DEF SendStep, Send, SendRegister, SendLogin, SendLogout, SendMe
<1> QED BY <1>1, <1>2, <1>3 DEF StepOf

\* A login that was answered with a token stays what it was
LEMMA DrawnStays ==
    ASSUME ShapeInv, [Next]_vars, NEW t \in Requests, Drawn(t)
    PROVE  Drawn(t)' /\ req'[t] = req[t]
<1> USE DEF ShapeInv, TypeOK, Drawn, GoTo, At, Answered
<1>1. CASE Tick \/ UNCHANGED vars
  BY <1>1 DEF Tick, vars
<1>2. CASE Restart
  BY <1>2 DEF Restart, Working
<1>3. ASSUME NEW r \in Requests, StepOf(r) PROVE Drawn(t)' /\ req'[t] = req[t]
  <2>1. CASE r # t
    BY <1>3, <2>1, OthersStay
  <2>2. CASE r = t
    <3>1. CASE ServerStep(r)
      BY <2>2, <3>1 DEF ServerStep, LookForAccount, InsertUser, CommitUser, ReadUser, Verify, Purge,
                        CommitLogin, DeleteSession, CommitLogout, Authenticate
    <3>2. CASE BrowserStep(r)
      BY <2>2, <3>2 DEF BrowserStep, ThenLogin, KeepToken, DropToken, Settle
    <3>3. CASE SendStep(r)
      BY <2>2, <3>3 DEF SendStep, Send, SendRegister, SendLogin, SendLogout, SendMe
    <3> QED BY <1>3, <3>1, <3>2, <3>3 DEF StepOf
  <2> QED BY <2>1, <2>2
<1> QED BY <1>1, <1>2, <1>3 DEF Next, StepOf

\* What a step of r leaves true of another request
LEMMA OthersKeepTheirShape ==
    ASSUME ShapeInv, [Next]_vars, NEW r \in Requests, StepOf(r), NEW q \in Requests \ {r}
    PROVE  StageOf(q)' /\ LocksOf(q)' /\ TokensOf(q)'
<1>1. pc'[q] = pc[q] /\ req'[q] = req[q] /\ locks'[q] = locks[q]
  BY OthersStay DEF ShapeInv
<1>2. StageOf(q) /\ LocksOf(q) /\ TokensOf(q)
  BY DEF ShapeInv
<1>3. StageOf(q)'
  BY <1>1, <1>2 DEF StageOf
<1>4. LocksOf(q)'
  BY <1>1, <1>2, DrawnStays DEF LocksOf
<1>5. TokensOf(q)'
  <2>1. req[q].token \in Requests \cup {None}
    BY DEF ShapeInv, TypeOK, Request
  <2>2. req[q].kind \in {"logout", "me"} /\ req[q].token # None =>
           Drawn(req[q].token) /\ Drawn(req[q].token)'
    BY <1>1, <1>2, <2>1, DrawnStays DEF TokensOf
  <2>3. ASSUME NEW s \in sessions', s \notin sessions, Drawn(req[q].token) PROVE s.token # req[q].token
    <3>1. TypeOK
      BY DEF ShapeInv
    <3>2. CommitLogin(r) /\ s.token = r
      BY <2>3, <3>1, SessionsComeFromLogins
    <3> QED BY <2>3, <3>2 DEF CommitLogin, At, Drawn
  <2> QED BY <1>1, <1>2, <2>2, <2>3 DEF TokensOf
<1> QED BY <1>3, <1>4, <1>5

\* What a step of r makes of r itself
LEMMA StepKeepsItsShape ==
    ASSUME ShapeInv, [Next]_vars, NEW r \in Requests, StepOf(r)
    PROVE  StageOf(r)' /\ LocksOf(r)' /\ TokensOf(r)'
<1>0. TypeOK /\ StageOf(r) /\ LocksOf(r) /\ TokensOf(r)
  BY DEF ShapeInv
<1> USE <1>0 DEF TypeOK, GoTo, At, Answered, StageOf, LocksOf, TokensOf, Drawn
<1> DEFINE Shape == StageOf(r) /\ LocksOf(r) /\ TokensOf(r)
<1>t. ASSUME NEW t, t = req[r].token, req[r].kind \in {"logout", "me"}, t # None PROVE Drawn(t)'
  <2>1. t \in Requests /\ Drawn(t)
    BY <1>t DEF Request
  <2> HIDE DEF Drawn
  <2> QED BY <2>1, DrawnStays
<1>a. ASSUME NEW answer \in {"conflict", "refused", "unauthenticated"}, Answered(r, answer),
             pc[r] \in {"look", "insert", "verify", "session"}, sessions' = sessions
      PROVE  Shape'
  <2>1. req'[r] = [req[r] EXCEPT !.answer = answer] /\ pc'[r] = "done" /\ locks'[r] = {}
    BY <1>a
  <2>2. req'[r].kind = req[r].kind /\ req'[r].email = req[r].email /\ req'[r].password = req[r].password
        /\ req'[r].token = req[r].token
    BY <2>1 DEF Request
  <2>3. req[r].kind # "logout"
    BY <1>a
  <2> HIDE DEF Answered, TypeOK
  <2> QED BY <1>a, <1>t, <2>1, <2>2, <2>3
<1>1. CASE LookForAccount(r)
  <2>1. CASE users[req[r].email] # None
    BY <1>a, <1>1, <2>1 DEF LookForAccount
  <2>2. CASE users[req[r].email] = None
    BY <1>1, <2>2 DEF LookForAccount
  <2> QED BY <2>1, <2>2
<1>2. CASE InsertUser(r)
  <2>1. CASE users[req[r].email] # None
    BY <1>a, <1>2, <2>1 DEF InsertUser
  <2>2. CASE users[req[r].email] = None
    BY <1>2, <2>2 DEF InsertUser
  <2> QED BY <2>1, <2>2
<1>3. CASE CommitUser(r)
  BY <1>3 DEF CommitUser
<1>4. CASE ReadUser(r)
  BY <1>4 DEF ReadUser
<1>5. CASE Verify(r)
  <2>1. CASE req[r].known # req[r].password
    BY <1>a, <1>5, <2>1 DEF Verify
  <2>2. CASE req[r].known = req[r].password
    <3>1. pc'[r] = "purge" /\ locks'[r] = {} /\ req'[r].kind = "login" /\ req'[r].answer = "none"
          /\ req'[r].email = req[r].email /\ req'[r].password = req[r].password
      BY <1>5, <2>2 DEF Verify, Request
    <3> QED BY <1>5, <3>1 DEF Verify
  <2> QED BY <2>1, <2>2
<1>6. CASE Purge(r)
  <2>1. \A t \in Expired(req[r].now) : t \in Requests /\ t # r /\ Drawn(t)
    BY <1>6 DEF Purge, Expired, ShapeInv, Session
  <2> QED BY <1>6, <2>1 DEF Purge
<1>7. CASE CommitLogin(r)
  BY <1>7 DEF CommitLogin
<1>8. CASE DeleteSession(r)
  BY <1>8 DEF DeleteSession
<1>9. CASE CommitLogout(r)
  BY <1>9, SessionsAssumption DEF CommitLogout
<1>10. CASE Authenticate(r)
  <2>1. CASE Answered(r, "unauthenticated")
    BY <1>a, <1>10, <2>1 DEF Authenticate
  <2>2. CASE ~Answered(r, "unauthenticated")
    <3>1. /\ pc[r] = "session" /\ pc'[r] = "done" /\ locks'[r] = {} /\ sessions' = sessions
          /\ req'[r].kind = req[r].kind /\ req'[r].token = req[r].token
      <4>1. PICK s \in sessions : req' = [req EXCEPT ![r].email = s.email, ![r].answer = "ok"]
                                  /\ pc' = [pc EXCEPT ![r] = "done"] /\ locks' = [locks EXCEPT ![r] = {}]
        <5> DEFINE known == {x \in sessions : IsActive(x, req[r].token, clock) /\ users[x.email] # None}
        <5>1. PICK s \in known : GoTo(r, "done") /\ locks' = [locks EXCEPT ![r] = {}]
                                /\ req' = [req EXCEPT ![r].email = s.email, ![r].answer = "ok"]
          <6> HIDE DEF TypeOK, StageOf, LocksOf, TokensOf, Drawn, Answered, GoTo
          <6> QED BY <1>10, <2>2 DEF Authenticate
        <5>2. s \in sessions
          OBVIOUS
        <5> HIDE DEF known, TypeOK, StageOf, LocksOf, TokensOf, Drawn, Answered
        <5> QED BY <5>1, <5>2
      <4>2. pc[r] = "session" /\ sessions' = sessions
        BY <1>10 DEF Authenticate
      <4>3. req'[r].kind = req[r].kind /\ req'[r].token = req[r].token
        BY <4>1 DEF Request
      <4> QED BY <4>1, <4>2, <4>3
    <3> QED BY <1>t, <3>1
  <2> QED BY <2>1, <2>2
<1>11. CASE ThenLogin(r)
  <2>1. /\ pc[r] = "done" /\ pc'[r] = "read" /\ locks'[r] = {} /\ req'[r].kind = "login"
        /\ req'[r].answer = "none" /\ req'[r].email = req[r].email /\ req'[r].password = req[r].password
        /\ req[r].kind = "register"
    BY <1>11 DEF ThenLogin, Request
  <2> QED BY <2>1
<1>12. CASE KeepToken(r) \/ DropToken(r) \/ Settle(r)
  <2>1. pc'[r] = "settled" /\ locks'[r] = {} /\ req'[r] = req[r] /\ pc[r] = "done"
    BY <1>12 DEF KeepToken, DropToken, Settle
  <2> QED BY <1>t, <2>1
<1>s. ASSUME NEW kind \in Kinds, NEW email, NEW password, NEW token \in Requests \cup {None},
             NEW first, Send(r, kind, email, password, token, first),
             kind \in {"register", "login"} => email \in Emails /\ password \in Passwords,
             kind \in {"logout", "me"} /\ token # None => Drawn(token),
             \/ kind = "register" /\ first = "look"
             \/ kind = "login" /\ first = "read"
             \/ kind = "logout" /\ first = (IF token = None THEN "done" ELSE "delete")
             \/ kind = "me" /\ first = "session" /\ token # None
      PROVE  Shape'
  <2>1. /\ pc'[r] = first /\ locks'[r] = {} /\ req'[r].kind = kind /\ req'[r].answer = "none"
        /\ req'[r].email = email /\ req'[r].password = password /\ req'[r].token = token
    BY <1>s DEF Send, Unsent
  <2>2. token # None /\ kind \in {"logout", "me"} => \A t \in {token} : Drawn(t)'
    <3> HIDE DEF Drawn
    <3> QED BY <1>s, DrawnStays
  <2> HIDE DEF TypeOK
  <2> QED BY <1>s, <2>1, <2>2
<1>13. CASE SendStep(r)
  <2>1. CASE \E e \in Emails, p \in Passwords : SendRegister(r, e, p) \/ SendLogin(r, e, p)
    <3> HIDE DEF StageOf, LocksOf, TokensOf, Drawn, TypeOK
    <3>1. ASSUME NEW e \in Emails, NEW p \in Passwords, SendRegister(r, e, p) PROVE Shape'
      BY <1>s, <3>1 DEF SendRegister, Kinds
    <3>2. ASSUME NEW e \in Emails, NEW p \in Passwords, SendLogin(r, e, p) PROVE Shape'
      BY <1>s, <3>2 DEF SendLogin, Kinds
    <3> QED BY <2>1, <3>1, <3>2
  <2>2. CASE SendLogout(r)
    <3>1. store \in Requests \cup {None} /\ (store # None => Drawn(store))
      BY DEF ShapeInv
    <3>2. Send(r, "logout", None, None, store, IF store = None THEN "done" ELSE "delete")
      BY <2>2 DEF SendLogout
    <3> HIDE DEF StageOf, LocksOf, TokensOf, Drawn, TypeOK
    <3> QED BY <1>s, <3>1, <3>2 DEF Kinds
  <2>3. ASSUME NEW t \in Given \cup ({store} \ {None}), SendMe(r, t) PROVE Shape'
    <3>1. t \in Requests /\ t # None /\ Drawn(t)
      BY SessionsAssumption DEF ShapeInv, Given
    <3> HIDE DEF StageOf, LocksOf, TokensOf, Drawn, TypeOK
    <3> QED BY <1>s, <2>3, <3>1 DEF SendMe, Kinds
  <2> QED BY <1>13, <2>1, <2>2, <2>3 DEF SendStep
<1> QED BY <1>1, <1>2, <1>3, <1>4, <1>5, <1>6, <1>7, <1>8, <1>9, <1>10, <1>11, <1>12, <1>13
        DEF StepOf, ServerStep, BrowserStep

LEMMA NextShape == ShapeInv /\ [Next]_vars => ShapeInv'
<1> SUFFICES ASSUME ShapeInv, [Next]_vars PROVE ShapeInv'
  OBVIOUS
<1>0. TypeOK /\ TypeOK' /\ sessions \subseteq Session /\ store \in Requests \cup {None}
      /\ loggedOut \subseteq Requests /\ \A s \in Session : s.token \in Requests
  BY StepKeepsTypes DEF ShapeInv, TypeOK, Session
<1>1. \A t \in Requests : Drawn(t) => Drawn(t)'
  BY DrawnStays
\* Nothing but time passes
<1>2. ASSUME pc' = pc, req' = req, locks' = locks, sessions' = sessions, store' = store,
             loggedOut' = loggedOut
      PROVE  ShapeInv'
  BY <1>0, <1>2 DEF ShapeInv, StageOf, LocksOf, TokensOf, Drawn
<1>3. CASE Restart
  <2> USE <1>0, <1>3 DEF Restart, TypeOK, Working
  <2>1. ASSUME NEW r \in Requests PROVE (StageOf(r) /\ LocksOf(r) /\ TokensOf(r))'
    <3>1. StageOf(r) /\ LocksOf(r) /\ TokensOf(r)
      BY DEF ShapeInv
    <3>2. CASE pc[r] \in Working
      <4>1. /\ pc'[r] = "done" /\ req'[r].answer = "failed" /\ req'[r].kind = req[r].kind
            /\ req'[r].email = req[r].email /\ req'[r].password = req[r].password
            /\ req'[r].token = req[r].token /\ locks'[r] = {}
        BY <3>2 DEF Request
      <4>2. req[r].kind \in {"logout", "me"} /\ req[r].token # None => \A t \in {req[r].token} : Drawn(t)'
        BY <1>1, <3>1 DEF TokensOf, Request
      <4> QED BY <3>1, <4>1, <4>2 DEF StageOf, LocksOf, TokensOf
    <3>3. CASE pc[r] \notin Working
      <4>1. pc'[r] = pc[r] /\ req'[r] = req[r] /\ locks'[r] = {} /\ sessions' = sessions
        BY <3>3
      <4>2. req[r].kind \in {"logout", "me"} /\ req[r].token # None => \A t \in {req[r].token} : Drawn(t)'
        BY <1>1, <3>1 DEF TokensOf, Request
      <4> QED BY <3>1, <3>3, <4>1, <4>2 DEF StageOf, LocksOf, TokensOf
    <3> QED BY <3>2, <3>3
  <2> HIDE DEF TypeOK
  <2> QED BY <1>1, <2>1 DEF ShapeInv, history
<1>4. ASSUME NEW r \in Requests, StepOf(r) PROVE ShapeInv'
  <2>1. ASSUME NEW q \in Requests PROVE (StageOf(q) /\ LocksOf(q) /\ TokensOf(q))'
    <3>1. CASE q = r
      BY <1>4, <3>1, StepKeepsItsShape
    <3>2. CASE q # r
      BY <1>4, <3>2, OthersKeepTheirShape
    <3> QED BY <3>1, <3>2
  <2>2. ASSUME NEW s \in sessions' PROVE Drawn(s.token)'
    <3>1. CASE s \in sessions
      BY <1>0, <1>1, <3>1 DEF ShapeInv
    <3>2. CASE CommitLogin(r) /\ s.token = r
      <4>1. pc[r] = "commit" /\ pc'[r] = "done" /\ req'[r].kind = req[r].kind /\ req'[r].answer = "ok"
        BY <1>0, <3>2 DEF CommitLogin, At, Answered, GoTo, TypeOK, Request
      <4> QED BY <3>2, <4>1 DEF Drawn, ShapeInv, StageOf
    <3> QED BY <1>0, <1>4, <3>1, <3>2, SessionsComeFromLogins
  <2>3. store' # None => Drawn(store)'
    <3>1. store' \in {None, store} \/ (store' = r /\ KeepToken(r))
      <4>1. CASE ServerStep(r)
        BY <4>1 DEF ServerStep, LookForAccount, InsertUser, CommitUser, ReadUser, Verify, Purge,
                    CommitLogin, DeleteSession, CommitLogout, Authenticate
      <4>2. CASE BrowserStep(r)
        BY <4>2 DEF BrowserStep, ThenLogin, KeepToken, DropToken, Settle
      <4>3. CASE SendStep(r)
        BY <4>3 DEF SendStep, Send, SendRegister, SendLogin, SendLogout, SendMe
      <4> QED BY <1>4, <4>1, <4>2, <4>3 DEF StepOf
    <3>2. KeepToken(r) => Drawn(r)
      BY DEF KeepToken, Drawn, At
    <3> QED BY <1>0, <1>1, <3>1, <3>2 DEF ShapeInv
  <2>4. ASSUME NEW t \in loggedOut' PROVE Drawn(t)' /\ \A s \in sessions' : s.token # t
    <3>1. \/ t \in loggedOut
          \/ DropToken(r) /\ t = req[r].token /\ req[r].answer = "ok"
      <4>1. CASE ServerStep(r)
        BY <4>1 DEF ServerStep, LookForAccount, InsertUser, CommitUser, ReadUser, Verify, Purge,
                    CommitLogin, DeleteSession, CommitLogout, Authenticate, history
      <4>2. CASE BrowserStep(r)
        BY <4>2 DEF BrowserStep, ThenLogin, KeepToken, DropToken, Settle, history
      <4>3. CASE SendStep(r)
        BY <4>3 DEF SendStep, Send, SendRegister, SendLogin, SendLogout, SendMe, history
      <4> QED BY <1>4, <4>1, <4>2, <4>3 DEF StepOf
    <3>2. CASE t \in loggedOut
      <4>1. Drawn(t) /\ t \in Requests /\ \A s \in sessions : s.token # t
        BY <1>0, <3>2 DEF ShapeInv
      <4>2. ASSUME NEW s \in sessions' PROVE s.token # t
        BY <1>0, <1>4, <4>1, SessionsComeFromLogins DEF CommitLogin, At, Drawn
      <4> QED BY <1>1, <4>1, <4>2
    <3>3. CASE DropToken(r) /\ t = req[r].token /\ req[r].answer = "ok"
      <4>1. t # None /\ Drawn(t) /\ t \in Requests /\ \A s \in sessions : s.token # t
        BY <1>0, <3>3 DEF DropToken, At, ShapeInv, TokensOf, TypeOK, Request
      <4>2. sessions' = sessions
        BY <3>3 DEF DropToken
      <4> QED BY <1>1, <4>1, <4>2
    <3> QED BY <3>1, <3>2, <3>3
  <2>5. ASSUME NEW s \in sessions', NEW x \in sessions', s.token = x.token PROVE s = x
    <3>1. CommitLogin(r) => \A y \in sessions : y.token # r
      BY DEF CommitLogin, At, Drawn, ShapeInv
    <3>2. ASSUME NEW y \in sessions'
          PROVE  \/ y \in sessions
                 \/ /\ CommitLogin(r)
                    /\ y = [token |-> r, email |-> req[r].email, expires |-> req[r].now + Lifetime]
      BY <1>0, <1>4, SessionsComeFromLogins
    <3>3. CASE s \in sessions /\ x \in sessions
      BY <2>5, <3>3 DEF ShapeInv
    <3>4. CASE s \notin sessions \/ x \notin sessions
      BY <2>5, <3>1, <3>2, <3>4
    <3> QED BY <3>3, <3>4
  <2> QED BY <1>0, <2>1, <2>2, <2>3, <2>4, <2>5 DEF ShapeInv
<1> QED BY <1>2, <1>3, <1>4 DEF Next, StepOf, Tick, vars, history

\* What a step tells about the request that makes it
LEMMA Sent ==
    ASSUME ShapeInv, NEW r \in Requests, SendStep(r)
    PROVE  /\ pc[r] = "idle" /\ pc'[r] \in {"look", "read", "done", "delete", "session"}
           /\ req'[r].answer = "none" /\ req'[r].made = FALSE
           /\ pc'[r] = "done" => req'[r].kind = "logout"
           /\ req'[r].kind = "me" => req'[r].closed = loggedOut /\ req'[r].sent = clock
           /\ UNCHANGED <<clock, users, sessions, loggedOut>>
<1> USE DEF ShapeInv, TypeOK, At, GoTo, history
<1>1. ASSUME NEW kind, NEW email, NEW password, NEW token, NEW first,
             Send(r, kind, email, password, token, first)
      PROVE  /\ pc[r] = "idle" /\ pc'[r] = first /\ req'[r].kind = kind
             /\ req'[r].answer = "none" /\ req'[r].made = FALSE
             /\ kind = "me" => req'[r].closed = loggedOut /\ req'[r].sent = clock
             /\ UNCHANGED <<clock, users, sessions, loggedOut>>
  BY <1>1 DEF Send, Unsent
<1> HIDE DEF ShapeInv, TypeOK, At, GoTo, history
<1>2. ASSUME NEW e \in Emails, NEW p \in Passwords, SendRegister(r, e, p) \/ SendLogin(r, e, p)
      PROVE  /\ pc[r] = "idle" /\ pc'[r] \in {"look", "read"}
             /\ req'[r].answer = "none" /\ req'[r].made = FALSE
             /\ req'[r].kind \in {"register", "login"}
             /\ UNCHANGED <<clock, users, sessions, loggedOut>>
  BY <1>1, <1>2 DEF SendRegister, SendLogin
<1>3. ASSUME SendLogout(r)
      PROVE  /\ pc[r] = "idle" /\ pc'[r] \in {"done", "delete"}
             /\ req'[r].answer = "none" /\ req'[r].made = FALSE /\ req'[r].kind = "logout"
             /\ UNCHANGED <<clock, users, sessions, loggedOut>>
  <2>1. Send(r, "logout", None, None, store, IF store = None THEN "done" ELSE "delete")
    BY <1>3 DEF SendLogout
  <2> QED BY <1>1, <2>1
<1>4. ASSUME NEW t, SendMe(r, t)
      PROVE  /\ pc[r] = "idle" /\ pc'[r] = "session" /\ req'[r].kind = "me"
             /\ req'[r].answer = "none" /\ req'[r].made = FALSE
             /\ req'[r].closed = loggedOut /\ req'[r].sent = clock
             /\ UNCHANGED <<clock, users, sessions, loggedOut>>
  BY <1>1, <1>4 DEF SendMe
<1> QED BY <1>2, <1>3, <1>4 DEF SendStep

\* What an authenticated answer is made of
LEMMA Authenticated ==
    ASSUME ShapeInv, NEW r \in Requests, Authenticate(r)
    PROVE  /\ pc[r] = "session" /\ pc'[r] = "done" /\ UNCHANGED <<clock, users, sessions, loggedOut>>
           /\ req'[r].kind = "me" /\ req'[r].token = req[r].token /\ req'[r].closed = req[r].closed
           /\ req'[r].sent = req[r].sent /\ req'[r].made = req[r].made
           /\ \/ req'[r].answer = "unauthenticated"
              \/ /\ req'[r].answer = "ok"
                 /\ \E s \in sessions : IsActive(s, req[r].token, clock) /\ req'[r].email = s.email
<1> DEFINE known == {x \in sessions : IsActive(x, req[r].token, clock) /\ users[x.email] # None}
<1>1. pc[r] = "session" /\ req[r].kind = "me" /\ req \in [Requests -> Request] /\ pc \in [Requests -> Pc]
  BY DEF ShapeInv, TypeOK, StageOf, Authenticate, At
<1>2. CASE Answered(r, "unauthenticated")
  <2>1. req'[r] = [req[r] EXCEPT !.answer = "unauthenticated"] /\ pc'[r] = "done"
    BY <1>1, <1>2 DEF Answered, GoTo
  <2>2. UNCHANGED <<clock, users, sessions, loggedOut>>
    BY DEF Authenticate, history
  <2> QED BY <1>1, <2>1, <2>2 DEF Request
<1>3. CASE ~Answered(r, "unauthenticated")
  <2>1. PICK s \in known : GoTo(r, "done") /\ req' = [req EXCEPT ![r].email = s.email, ![r].answer = "ok"]
    BY <1>3 DEF Authenticate
  <2>2. s \in sessions /\ IsActive(s, req[r].token, clock)
    OBVIOUS
  <2>3. /\ req'[r].kind = req[r].kind /\ req'[r].token = req[r].token /\ req'[r].closed = req[r].closed
        /\ req'[r].sent = req[r].sent /\ req'[r].made = req[r].made
    BY <1>1, <2>1 DEF Request
  <2>4. req'[r].answer = "ok" /\ req'[r].email = s.email /\ pc'[r] = "done"
    BY <1>1, <2>1 DEF Request, GoTo
  <2>5. UNCHANGED <<clock, users, sessions, loggedOut>>
    BY DEF Authenticate, history
  <2> HIDE DEF known
  <2> QED BY <1>1, <2>2, <2>3, <2>4, <2>5
<1> QED BY <1>2, <1>3

\* What any other step of the server or of the browser keeps of it
LEMMA OtherSteps ==
    ASSUME ShapeInv, NEW r \in Requests, StepOf(r), ~SendStep(r), ~Authenticate(r)
    PROVE  /\ req'[r].token = req[r].token /\ req'[r].closed = req[r].closed
           /\ req'[r].sent = req[r].sent /\ req'[r].email = req[r].email
           /\ req'[r].password = req[r].password
           /\ Verify(r) \/ req'[r].now = req[r].now
           /\ CommitUser(r) \/ req'[r].made = req[r].made
           /\ CommitUser(r) \/ users' = users
           /\ ThenLogin(r) \/ req'[r].kind = req[r].kind
           /\ req[r].kind = "me" => req'[r].answer = req[r].answer
           /\ clock' = clock
           /\ loggedOut \subseteq loggedOut'
<1> USE DEF ShapeInv, TypeOK, At, GoTo, Answered, history, StageOf
<1>1. CASE LookForAccount(r)
  <2>1. req' = req \/ req' = [req EXCEPT ![r].answer = "conflict"]
    BY <1>1 DEF LookForAccount
  <2> QED BY <1>1, <2>1 DEF LookForAccount, Request
<1>2. CASE InsertUser(r)
  <2>1. req' = req \/ req' = [req EXCEPT ![r].answer = "conflict"]
    BY <1>2 DEF InsertUser
  <2> QED BY <1>2, <2>1 DEF InsertUser, Request
<1>3. CASE CommitUser(r)
  BY <1>3 DEF CommitUser, Request
<1>4. CASE ReadUser(r)
  BY <1>4 DEF ReadUser, Request
<1>5. CASE Verify(r)
  <2>1. CASE req[r].known = req[r].password
    BY <1>5, <2>1 DEF Verify, Request
  <2>2. CASE req[r].known # req[r].password
    BY <1>5, <2>2 DEF Verify, Request
  <2> QED BY <2>1, <2>2
<1>6. CASE Purge(r) \/ DeleteSession(r)
  BY <1>6 DEF Purge, DeleteSession
<1>7. CASE CommitLogin(r) \/ CommitLogout(r)
  BY <1>7 DEF CommitLogin, CommitLogout, Request
<1>8. CASE ThenLogin(r)
  BY <1>8 DEF ThenLogin, Request
<1>9. CASE KeepToken(r) \/ DropToken(r) \/ Settle(r)
  BY <1>9 DEF KeepToken, DropToken, Settle
<1> QED BY <1>1, <1>2, <1>3, <1>4, <1>5, <1>6, <1>7, <1>8, <1>9 DEF StepOf, ServerStep, BrowserStep

--------------------------------------------------------------------------------
(* Logouts and purges *)

\* An authenticated answer names a session that was committed and not logged out
FinalOf(r) ==
    req[r].kind = "me" =>
        /\ req[r].closed \subseteq loggedOut
        /\ req[r].answer = "ok" => req[r].token \notin req[r].closed

\* A purge holds rows that had expired when it looked
PurgeOf(r) ==
    /\ pc[r] \in {"purge", "commit"} => req[r].now <= clock
    /\ pc[r] = "commit" => \A s \in sessions : s.token \in locks[r] => s.expires <= clock

SessionsInv == ShapeInv /\ \A r \in Requests : FinalOf(r) /\ PurgeOf(r)

LEMMA InitSessions == Init => SessionsInv
BY InitShape DEF Init, SessionsInv, FinalOf, PurgeOf, Unsent

\* The clock does not go back
LEMMA ClockAdvances == TypeOK /\ [Next]_vars => clock' \in Nat /\ clock <= clock'
<1> SUFFICES ASSUME TypeOK, [Next]_vars PROVE clock' \in Nat /\ clock <= clock'
  OBVIOUS
<1>1. clock \in Nat
  BY DEF TypeOK
<1>2. CASE Tick
  BY <1>1, <1>2 DEF Tick
<1>3. CASE Restart \/ UNCHANGED vars
  BY <1>1, <1>3 DEF Restart, vars
<1>4. ASSUME NEW r \in Requests, StepOf(r) PROVE clock' = clock
  <2>1. CASE ServerStep(r)
    BY <2>1 DEF ServerStep, LookForAccount, InsertUser, CommitUser, ReadUser, Verify, Purge,
                CommitLogin, DeleteSession, CommitLogout, Authenticate
  <2>2. CASE BrowserStep(r)
    BY <2>2 DEF BrowserStep, ThenLogin, KeepToken, DropToken, Settle
  <2>3. CASE SendStep(r)
    BY <2>3 DEF SendStep, Send, SendRegister, SendLogin, SendLogout, SendMe
  <2> QED BY <1>4, <2>1, <2>2, <2>3 DEF StepOf
<1> QED BY <1>1, <1>2, <1>3, <1>4 DEF Next, StepOf

LEMMA NextFinal ==
    ASSUME SessionsInv, [Next]_vars, NEW r \in Requests
    PROVE  FinalOf(r)'
<1>0. ShapeInv /\ FinalOf(r)
  BY DEF SessionsInv
<1>1. CASE Tick \/ UNCHANGED vars
  BY <1>0, <1>1 DEF Tick, vars, history, FinalOf
<1>2. CASE Restart
  <2>1. req[r] \in Request /\ req \in [Requests -> Request] /\ pc \in [Requests -> Pc]
    BY <1>0 DEF ShapeInv, TypeOK
  <2>2. /\ req'[r].kind = req[r].kind /\ req'[r].closed = req[r].closed
        /\ req'[r].token = req[r].token /\ req'[r].answer \in {req[r].answer, "failed"}
        /\ loggedOut' = loggedOut
    BY <1>2, <2>1 DEF Restart, history, Request
  <2> QED BY <1>0, <2>2 DEF FinalOf
<1>3. ASSUME NEW q \in Requests, StepOf(q) PROVE FinalOf(r)'
  <2>1. CASE SendStep(q)
    <3>1. CASE q = r
      BY <1>0, <2>1, <3>1, Sent DEF FinalOf
    <3>2. CASE q # r
      BY ZenonT(40), <1>0, <1>3, <2>1, <3>2, Sent, OthersStay DEF FinalOf, ShapeInv
    <3> QED BY <3>1, <3>2
  <2>2. CASE Authenticate(q)
    <3>1. CASE q = r
      <4>1. /\ pc[r] = "session" /\ UNCHANGED <<sessions, loggedOut>>
            /\ req'[r].token = req[r].token /\ req'[r].closed = req[r].closed
            /\ \/ req'[r].answer = "unauthenticated"
               \/ \E s \in sessions : IsActive(s, req[r].token, clock)
        BY <1>0, <2>2, <3>1, Authenticated
      <4>2. req[r].kind = "me"
        BY <1>0, <4>1 DEF ShapeInv, StageOf
      <4>3. (\E s \in sessions : s.token = req[r].token) => req[r].token \notin loggedOut
        BY <1>0 DEF ShapeInv
      <4> QED BY <1>0, <4>1, <4>2, <4>3 DEF FinalOf, IsActive
    <3>2. CASE q # r
      BY <1>0, <1>3, <2>2, <3>2, Authenticated, OthersStay DEF FinalOf, ShapeInv
    <3> QED BY <3>1, <3>2
  <2>3. CASE ~SendStep(q) /\ ~Authenticate(q)
    <3>0. loggedOut \subseteq loggedOut'
      BY <1>0, <1>3, <2>3, OtherSteps
    <3>1. CASE q = r
      <4>1. /\ req'[r].token = req[r].token /\ req'[r].closed = req[r].closed
            /\ ThenLogin(r) \/ req'[r].kind = req[r].kind
            /\ req[r].kind = "me" => req'[r].answer = req[r].answer
        BY <1>0, <1>3, <2>3, <3>1, OtherSteps
      <4>2. ThenLogin(r) => req'[r].kind = "login"
        BY <1>0 DEF ThenLogin, ShapeInv, TypeOK, Request
      <4> QED BY <1>0, <3>0, <4>1, <4>2 DEF FinalOf
    <3>2. CASE q # r
      BY <1>0, <1>3, <3>0, <3>2, OthersStay DEF FinalOf, ShapeInv
    <3> QED BY <3>1, <3>2
  <2> QED BY <2>1, <2>2, <2>3
<1> QED BY <1>1, <1>2, <1>3 DEF Next, StepOf

LEMMA NextPurge ==
    ASSUME SessionsInv, [Next]_vars, NEW r \in Requests
    PROVE  PurgeOf(r)'
<1>0. ShapeInv /\ PurgeOf(r) /\ TypeOK /\ clock \in Nat /\ clock' \in Nat /\ clock <= clock'
  BY ClockAdvances DEF SessionsInv, ShapeInv, TypeOK
<1>1. req[r].now \in Nat /\ \A s \in sessions : s.expires \in Nat
  BY <1>0 DEF TypeOK, Request, Session
<1>2. ASSUME pc'[r] = pc[r], req'[r] = req[r], locks'[r] = locks[r],
             \A s \in sessions' \ sessions : pc[r] = "commit" => s.token \notin locks[r]
      PROVE  PurgeOf(r)'
  BY <1>0, <1>1, <1>2 DEF PurgeOf
<1>3. CASE Tick \/ UNCHANGED vars
  BY <1>2, <1>3 DEF Tick, vars
<1>4. CASE Restart
  BY <1>0, <1>1, <1>2, <1>4 DEF Restart, PurgeOf, Working, TypeOK
<1>5. ASSUME NEW q \in Requests, StepOf(q), q # r PROVE PurgeOf(r)'
  <2>1. pc'[r] = pc[r] /\ req'[r] = req[r] /\ locks'[r] = locks[r]
    BY <1>0, <1>5, OthersStay
  <2>2. ASSUME NEW s \in sessions' \ sessions, pc[r] = "commit" PROVE s.token \notin locks[r]
    <3>1. CommitLogin(q) /\ s.token = q
      BY <1>0, <1>5, SessionsComeFromLogins
    <3>2. ~Drawn(q)
      BY <3>1 DEF CommitLogin, At, Drawn
    <3> QED BY <1>0, <2>2, <3>1, <3>2 DEF ShapeInv, LocksOf
  <2> QED BY <1>2, <2>1, <2>2
<1>6. CASE StepOf(r)
  <2> USE <1>0, <1>1 DEF TypeOK, GoTo, At, PurgeOf
  <2>1. CASE Verify(r)
    <3>1. pc'[r] = "purge" => req'[r].now = clock /\ clock' = clock
      BY <2>1 DEF Verify, Answered, Request
    <3>2. pc'[r] # "commit"
      BY <2>1 DEF Verify, Answered
    <3> QED BY <3>1, <3>2
  <2>2. CASE Purge(r)
    <3>1. /\ pc[r] = "purge" /\ req'[r].now = req[r].now /\ clock' = clock /\ sessions' = sessions
          /\ locks'[r] = locks[r] \cup Expired(req[r].now)
      BY <2>2 DEF Purge
    <3>2. locks[r] = {}
      BY <3>1 DEF ShapeInv, LocksOf
    <3>3. \A s \in sessions : s.token \in Expired(req[r].now) => s.expires <= req[r].now
      BY DEF ShapeInv, Expired
    <3> QED BY <3>1, <3>2, <3>3
  <2>3. CASE ~Verify(r) /\ ~Purge(r)
    <3>1. pc'[r] \notin {"purge", "commit"}
      <4>1. CASE ServerStep(r)
        BY ZenonT(40), <2>3, <4>1 DEF ServerStep, LookForAccount, InsertUser, CommitUser, ReadUser, CommitLogin,
                          DeleteSession, CommitLogout, Authenticate, Answered
      <4>2. CASE BrowserStep(r)
        BY <4>2 DEF BrowserStep, ThenLogin, KeepToken, DropToken, Settle
      <4>3. CASE SendStep(r)
        BY <4>3, Sent
      <4> QED BY <1>6, <4>1, <4>2, <4>3 DEF StepOf
    <3> QED BY <3>1
  <2> QED BY <2>1, <2>2, <2>3
<1> QED BY <1>3, <1>4, <1>5, <1>6 DEF Next, StepOf

LEMMA NextSessions == SessionsInv /\ [Next]_vars => SessionsInv'
BY NextShape, NextFinal, NextPurge DEF SessionsInv

\* Every session is of a login that was answered, and a transaction holds the locks
\* of the rows it has written and no others.
THEOREM SessionsInvariant == Spec => []SessionsInv
BY InitSessions, NextSessions, PTL DEF Spec

\* Each variable keeps its type: in particular a logout is answered for a token.
THEOREM TypeCorrect == Spec => []TypeOK
<1>1. SessionsInv => TypeOK
  BY DEF SessionsInv, ShapeInv
<1> QED BY <1>1, SessionsInvariant, PTL

\* After a logout was answered, no request that begins is authenticated with that
\* token, for any number of requests and restarts (logout_user.py:19).
THEOREM LogoutsAreFinal == Spec => []LogoutIsFinal
<1>1. SessionsInv => LogoutIsFinal
  BY DEF SessionsInv, FinalOf, LogoutIsFinal
<1> QED BY <1>1, SessionsInvariant, PTL

\* A session that has not expired goes only by a logout of its own token, whatever
\* purges run beside it (login_user.py:59, sql.py:1062).
THEOREM PurgesSpareTheLiving == Spec => LiveSessionsSurvive
<1> DEFINE Survives ==
      \A s \in sessions \ sessions' :
         s.expires <= clock \/ \E r \in Requests : At(r, "deleted") /\ req[r].token = s.token
<1>1. SessionsInv /\ [Next]_vars => [Survives]_vars
  <2> SUFFICES ASSUME SessionsInv, [Next]_vars, NEW s \in sessions \ sessions'
               PROVE  \/ s.expires <= clock
                      \/ \E r \in Requests : At(r, "deleted") /\ req[r].token = s.token
    OBVIOUS
  <2>1. PICK r \in Requests : CommitLogin(r) \/ CommitLogout(r)
    BY ZenonT(40) DEF Next, vars, Tick, Restart, ServerStep, BrowserStep, SendStep, Send, SendRegister, SendLogin,
           SendLogout, SendMe, ThenLogin, KeepToken, DropToken, Settle, LookForAccount, InsertUser,
           CommitUser, ReadUser, Verify, Purge, DeleteSession, Authenticate
  <2>2. s.token \in locks[r]
    BY <2>1 DEF CommitLogin, CommitLogout
  <2>3. CASE CommitLogin(r)
    BY <2>2, <2>3 DEF CommitLogin, At, SessionsInv, PurgeOf
  <2>4. CASE CommitLogout(r)
    BY <2>2, <2>4 DEF CommitLogout, At, SessionsInv, ShapeInv, LocksOf
  <2> QED BY <2>1, <2>3, <2>4
<1>2. (Spec => []SessionsInv) => (Spec => [][Survives]_vars)
  BY <1>1, PTL DEF Spec
<1> QED BY <1>2, SessionsInvariant, PTL DEF LiveSessionsSurvive

--------------------------------------------------------------------------------
(* Accounts *)

\* An insertion holds its address alone, an account keeps its password, and a login
\* has verified it
AccountOf(r) ==
    /\ pc[r] = "inserted" => users[req[r].email] = None
    /\ req[r].made =>
          /\ req[r].kind \in {"register", "login"}
          /\ pc[r] \notin {"look", "insert", "inserted"}
          /\ users[req[r].email] = req[r].password
    /\ pc[r] = "verify" => req[r].known \in {None, users[req[r].email]}
    /\ pc[r] \in {"purge", "commit"} \/ Drawn(r) => users[req[r].email] = req[r].password

AcceptedOf(r) ==
    req[r].kind = "me" =>
        /\ req[r].sent <= clock
        /\ req[r].answer = "ok" =>
              LET login == req[req[r].token] IN
              /\ login.email = req[r].email
              /\ req[r].sent < login.now + Lifetime

AccountsInv ==
    /\ ShapeInv
    /\ \A r \in Requests : AccountOf(r) /\ AcceptedOf(r)
    /\ \A r, q \in Requests : r # q /\ req[r].email = req[q].email =>
          /\ ~(pc[r] = "inserted" /\ pc[q] = "inserted")
          /\ ~(req[r].made /\ req[q].made)
    /\ \A s \in sessions : s.email = req[s.token].email /\ s.expires = req[s.token].now + Lifetime

LEMMA InitAccounts == Init => AccountsInv
<1> SUFFICES ASSUME Init PROVE AccountsInv
  OBVIOUS
<1>1. ASSUME NEW r \in Requests
      PROVE  pc[r] = "idle" /\ req[r].kind = "none" /\ req[r].made = FALSE /\ ~Drawn(r)
  BY DEF Init, Unsent, Drawn
<1>2. ASSUME NEW r \in Requests PROVE AccountOf(r) /\ AcceptedOf(r)
  BY <1>1 DEF AccountOf, AcceptedOf
<1> QED BY <1>1, <1>2, InitShape DEF AccountsInv, Init

\* An account that exists keeps its password
LEMMA PasswordsStay ==
    ASSUME AccountsInv, [Next]_vars
    PROVE  /\ \A e \in Emails : users[e] # None => users'[e] = users[e]
           /\ users' # users => \E r \in Requests : CommitUser(r)
<1>1. CASE Tick \/ Restart \/ UNCHANGED vars
  BY <1>1 DEF Tick, Restart, vars
<1>2. ASSUME NEW r \in Requests, StepOf(r)
      PROVE  /\ \A e \in Emails : users[e] # None => users'[e] = users[e]
             /\ users' # users => CommitUser(r)
  <2>1. CASE CommitUser(r)
    <3>1. users[req[r].email] = None /\ users \in [Emails -> Passwords \cup {None}]
      BY <2>1 DEF CommitUser, At, AccountsInv, AccountOf, ShapeInv, TypeOK
    <3> QED BY <2>1, <3>1 DEF CommitUser
  <2>2. CASE ~CommitUser(r)
    <3>1. ShapeInv
      BY DEF AccountsInv
    <3>2. users' = users
      BY <1>2, <2>2, <3>1, Sent, Authenticated, OtherSteps
    <3> QED BY <2>2, <3>2
  <2> QED BY <2>1, <2>2
<1> QED BY <1>1, <1>2 DEF Next, StepOf

\* What a step of r makes of its own account
LEMMA NextAccountOf ==
    ASSUME AccountsInv, [Next]_vars, NEW r \in Requests, StepOf(r)
    PROVE  AccountOf(r)'
<1>0. /\ ShapeInv /\ TypeOK /\ AccountOf(r) /\ StageOf(r)
      /\ \A e \in Emails : users[e] # None => users'[e] = users[e]
      /\ None \notin Passwords
  BY PasswordsStay, SessionsAssumption DEF AccountsInv, ShapeInv
<1>1. CASE SendStep(r)
  BY <1>0, <1>1, Sent DEF AccountOf, Drawn
<1>2. CASE Authenticate(r)
  <2>1. pc'[r] = "done" /\ req'[r].kind = "me" /\ req'[r].made = req[r].made /\ req[r].kind = "me"
    BY <1>0, <1>2, Authenticated DEF StageOf
  <2> QED BY <1>0, <2>1 DEF AccountOf, Drawn
<1>3. CASE ~SendStep(r) /\ ~Authenticate(r)
  <2>1. /\ req'[r].email = req[r].email /\ req'[r].password = req[r].password
        /\ CommitUser(r) \/ req'[r].made = req[r].made
        /\ CommitUser(r) \/ users' = users
        /\ ThenLogin(r) \/ req'[r].kind = req[r].kind
    BY <1>0, <1>3, OtherSteps
  <2>2. pc \in [Requests -> Pc] /\ req \in [Requests -> Request]
    BY <1>0 DEF TypeOK
  <2> USE <1>0, <2>1, <2>2 DEF At, GoTo, Answered
  <2>3. CASE LookForAccount(r)
    <3>1. pc'[r] \in {"done", "insert"} /\ pc[r] = "look" /\ ~ThenLogin(r) /\ ~CommitUser(r)
      BY <2>3 DEF LookForAccount, ThenLogin, CommitUser
    <3> QED BY <3>1 DEF AccountOf, StageOf, Drawn
  <2>4. CASE InsertUser(r)
    <3>1. /\ pc'[r] \in {"done", "inserted"} /\ pc[r] = "insert" /\ ~ThenLogin(r) /\ ~CommitUser(r)
          /\ pc'[r] = "inserted" => users[req[r].email] = None
      BY <2>4 DEF InsertUser, ThenLogin, CommitUser
    <3> QED BY <3>1 DEF AccountOf, StageOf, Drawn
  <2>5. CASE CommitUser(r)
    <3>1. /\ pc'[r] = "done" /\ pc[r] = "inserted" /\ ~ThenLogin(r)
          /\ users' = [users EXCEPT ![req[r].email] = req[r].password]
      BY <2>5 DEF CommitUser, ThenLogin
    <3>2. req[r].email \in Emails /\ users'[req[r].email] = req[r].password
      BY <3>1 DEF StageOf, TypeOK
    <3> QED BY <3>1, <3>2 DEF AccountOf, StageOf, Drawn
  <2>6. CASE ReadUser(r)
    <3>1. /\ pc'[r] = "verify" /\ pc[r] = "read" /\ ~ThenLogin(r) /\ ~CommitUser(r)
          /\ req'[r].known = users[req[r].email]
      BY <2>6 DEF ReadUser, ThenLogin, CommitUser, Request
    <3> QED BY <3>1 DEF AccountOf, Drawn
  <2>7. CASE Verify(r)
    <3>1. pc[r] = "verify" /\ ~ThenLogin(r) /\ ~CommitUser(r)
      BY <2>7 DEF Verify, ThenLogin, CommitUser
    <3>2. CASE req[r].known = req[r].password
      <4>1. pc'[r] = "purge"
        BY <2>7, <3>2 DEF Verify
      <4>2. users[req[r].email] = req[r].password
        BY <3>1, <3>2 DEF AccountOf, StageOf
      <4> QED BY <3>1, <4>1, <4>2 DEF AccountOf, Drawn
    <3>3. CASE req[r].known # req[r].password
      <4>1. pc'[r] = "done" /\ req'[r].answer = "refused"
        BY <2>7, <3>3 DEF Verify, Request
      <4> QED BY <3>1, <4>1 DEF AccountOf, Drawn
    <3> QED BY <3>2, <3>3
  <2>8. CASE Purge(r) \/ CommitLogin(r)
    <3>1. pc[r] \in {"purge", "commit"} /\ pc'[r] \in {"commit", "done"} /\ ~ThenLogin(r) /\ ~CommitUser(r)
      BY <2>8 DEF Purge, CommitLogin, ThenLogin, CommitUser
    <3> QED BY <3>1 DEF AccountOf, Drawn
  <2>9. CASE DeleteSession(r) \/ CommitLogout(r)
    <3>1. pc[r] \in {"delete", "deleted"} /\ pc'[r] \in {"deleted", "done"} /\ ~ThenLogin(r) /\ ~CommitUser(r)
      BY <2>9 DEF DeleteSession, CommitLogout, ThenLogin, CommitUser
    <3> QED BY <3>1 DEF AccountOf, StageOf, Drawn
  <2>10. CASE ThenLogin(r)
    <3>1. /\ pc[r] = "done" /\ pc'[r] = "read" /\ req'[r].kind = "login" /\ ~CommitUser(r)
      BY <2>10 DEF ThenLogin, CommitUser, Request
    <3> QED BY <3>1 DEF AccountOf, Drawn
  <2>11. CASE KeepToken(r) \/ DropToken(r) \/ Settle(r)
    <3>1. pc[r] = "done" /\ pc'[r] = "settled" /\ req' = req /\ ~ThenLogin(r) /\ ~CommitUser(r)
      BY <2>11 DEF KeepToken, DropToken, Settle, ThenLogin, CommitUser
    <3> QED BY <3>1 DEF AccountOf, Drawn
  <2> QED BY <1>3, <2>3, <2>4, <2>5, <2>6, <2>7, <2>8, <2>9, <2>10, <2>11
          DEF StepOf, ServerStep, BrowserStep
<1> QED BY <1>1, <1>2, <1>3

\* What a step of r makes of its own answer
LEMMA NextAcceptedOf ==
    ASSUME AccountsInv, [Next]_vars, NEW r \in Requests, StepOf(r)
    PROVE  AcceptedOf(r)'
<1>0. /\ ShapeInv /\ TypeOK /\ AcceptedOf(r) /\ StageOf(r) /\ TokensOf(r) /\ clock \in Nat
      /\ None \notin Requests
  BY SessionsAssumption DEF AccountsInv, ShapeInv, TypeOK
<1>1. ASSUME NEW t \in Requests, Drawn(t) PROVE req'[t] = req[t]
  BY <1>0, <1>1, DrawnStays
<1>2. CASE SendStep(r)
  <2>1. req'[r].answer = "none" /\ (req'[r].kind = "me" => req'[r].sent = clock) /\ clock' = clock
    BY <1>0, <1>2, Sent
  <2> QED BY <1>0, <2>1 DEF AcceptedOf
<1>3. CASE Authenticate(r)
  <2>1. /\ pc[r] = "session" /\ req'[r].token = req[r].token /\ req'[r].sent = req[r].sent
        /\ clock' = clock
        /\ \/ req'[r].answer = "unauthenticated"
           \/ \E s \in sessions : IsActive(s, req[r].token, clock) /\ req'[r].email = s.email
    BY <1>0, <1>3, Authenticated
  <2>2. req[r].kind = "me" /\ req[r].token \in Requests /\ Drawn(req[r].token)
    BY <1>0, <2>1 DEF StageOf, TokensOf
  <2>3. ASSUME NEW s \in sessions, IsActive(s, req[r].token, clock), req'[r].email = s.email
        PROVE  /\ req'[req'[r].token].email = req'[r].email
               /\ req'[r].sent < req'[req'[r].token].now + Lifetime
    <3>1. /\ s.email = req[req[r].token].email /\ s.expires = req[req[r].token].now + Lifetime
          /\ s.expires > clock
      BY <2>3 DEF AccountsInv, IsActive
    <3>2. req[r].sent <= clock
      BY <1>0, <2>2 DEF AcceptedOf
    <3>3. req'[req'[r].token] = req[req[r].token]
      BY <1>1, <2>1, <2>2
    <3>4. req[req[r].token].now \in Nat /\ req[r].sent \in Nat /\ Lifetime \in Nat
      BY <1>0, <2>2, SessionsAssumption DEF TypeOK, Request
    <3> QED BY <1>0, <2>1, <2>3, <3>1, <3>2, <3>3, <3>4
  <2>4. req'[r].sent <= clock'
    BY <1>0, <2>1, <2>2 DEF AcceptedOf
  <2> QED BY <2>1, <2>3, <2>4 DEF AcceptedOf
<1>4. CASE ~SendStep(r) /\ ~Authenticate(r)
  <2>1. /\ req'[r].token = req[r].token /\ req'[r].sent = req[r].sent /\ req'[r].email = req[r].email
        /\ ThenLogin(r) \/ req'[r].kind = req[r].kind
        /\ req[r].kind = "me" => req'[r].answer = req[r].answer
        /\ clock' = clock
    BY <1>0, <1>4, OtherSteps
  <2>2. ThenLogin(r) => req'[r].kind = "login"
    BY <1>0 DEF ThenLogin, TypeOK, Request
  <2>3. req[r].kind = "me" => req[r].token \in Requests /\ Drawn(req[r].token)
    BY <1>0 DEF StageOf, TokensOf
  <2>4. req[r].kind = "me" => req'[req'[r].token] = req[req[r].token]
    BY <1>1, <2>1, <2>3
  <2> QED BY <1>0, <2>1, <2>2, <2>4 DEF AcceptedOf
<1> QED BY <1>2, <1>3, <1>4

LEMMA NextAccounts == AccountsInv /\ [Next]_vars => AccountsInv'
<1> SUFFICES ASSUME AccountsInv, [Next]_vars PROVE AccountsInv'
  OBVIOUS
<1>0. /\ ShapeInv /\ ShapeInv' /\ TypeOK /\ clock \in Nat /\ clock' \in Nat /\ clock <= clock'
      /\ \A e \in Emails : users[e] # None => users'[e] = users[e]
      /\ None \notin Requests \cup Passwords
  BY NextShape, ClockAdvances, PasswordsStay, SessionsAssumption DEF AccountsInv, ShapeInv, TypeOK
<1>1. \A t \in Requests : Drawn(t) => Drawn(t)' /\ req'[t] = req[t]
  BY <1>0, DrawnStays
\* What stays true of a request that takes no step
<1>2. ASSUME NEW q \in Requests, req'[q] = req[q], pc'[q] = pc[q],
             pc[q] = "inserted" => users'[req[q].email] = users[req[q].email]
      PROVE  AccountOf(q)' /\ AcceptedOf(q)'
  <2>1. AccountOf(q) /\ AcceptedOf(q) /\ StageOf(q) /\ TokensOf(q) /\ req[q].sent \in Nat
    BY <1>0 DEF AccountsInv, ShapeInv, TypeOK, Request
  <2>2. AccountOf(q)'
    BY <1>0, <1>2, <2>1 DEF AccountOf, StageOf, Drawn
  <2>3. req[q].kind = "me" => req'[req'[q].token] = req[req[q].token]
    BY <1>0, <1>1, <1>2, <2>1 DEF StageOf, TokensOf
  <2>4. AcceptedOf(q)'
    BY <1>0, <1>2, <2>1, <2>3 DEF AcceptedOf
  <2> QED BY <2>2, <2>4
<1>3. \A s \in sessions' : s \in sessions =>
         s.email = req'[s.token].email /\ s.expires = req'[s.token].now + Lifetime
  <2>1. \A s \in sessions : s.token \in Requests
    BY <1>0 DEF TypeOK, Session
  <2> QED BY <1>0, <1>1, <2>1 DEF AccountsInv, ShapeInv
<1>4. CASE Tick \/ UNCHANGED vars
  <2>1. req' = req /\ pc' = pc /\ users' = users /\ sessions' = sessions
    BY <1>4 DEF Tick, vars
  <2> QED BY <1>0, <1>2, <1>3, <2>1 DEF AccountsInv
<1>5. CASE Restart
  <2>1. users' = users /\ sessions' = sessions /\ clock' = clock
    BY <1>5 DEF Restart
  <2>2. ASSUME NEW q \in Requests, pc[q] \notin Working PROVE req'[q] = req[q] /\ pc'[q] = pc[q]
    BY <1>0, <1>5, <2>2 DEF Restart, TypeOK
  <2>3. ASSUME NEW q \in Requests, pc[q] \in Working
        PROVE  /\ pc'[q] = "done" /\ req'[q].answer = "failed" /\ req'[q].kind = req[q].kind
               /\ req'[q].email = req[q].email /\ req'[q].password = req[q].password
               /\ req'[q].made = req[q].made /\ req'[q].sent = req[q].sent
    BY <1>0, <1>5, <2>3 DEF Restart, TypeOK, Request
  <2>4. ASSUME NEW q \in Requests PROVE AccountOf(q)' /\ AcceptedOf(q)'
    <3>1. CASE pc[q] \notin Working
      BY <1>2, <2>1, <2>2, <3>1
    <3>2. CASE pc[q] \in Working
      <4>1. AccountOf(q) /\ AcceptedOf(q) /\ StageOf(q)
        BY <1>0 DEF AccountsInv, ShapeInv
      <4> QED BY <2>1, <2>3, <3>2, <4>1 DEF AccountOf, AcceptedOf, StageOf, Drawn
    <3> QED BY <3>1, <3>2
  <2>5. ASSUME NEW q \in Requests
        PROVE  req'[q].email = req[q].email /\ req'[q].made = req[q].made /\ pc'[q] # "inserted"
    BY <2>2, <2>3 DEF Working
  <2> QED BY <1>0, <1>3, <2>1, <2>4, <2>5 DEF AccountsInv
<1>6. ASSUME NEW r \in Requests, StepOf(r) PROVE AccountsInv'
  <2>0. AccountOf(r) /\ AccountOf(r)' /\ StageOf(r) /\ StageOf(r)' /\ LocksOf(r)
    BY <1>0, <1>6, NextAccountOf DEF AccountsInv, ShapeInv
  <2>1. ASSUME NEW q \in Requests, q # r PROVE pc'[q] = pc[q] /\ req'[q] = req[q]
    BY <1>0, <1>6, <2>1, OthersStay
  <2>2. \/ users' = users
        \/ /\ CommitUser(r)
           /\ \A e \in Emails : e # req[r].email => users'[e] = users[e]
    <3>1. CASE CommitUser(r)
      BY <1>0, <3>1 DEF CommitUser, TypeOK
    <3>2. CASE ~CommitUser(r)
      BY <1>0, <1>6, <3>2, Sent, Authenticated, OtherSteps
    <3> QED BY <3>1, <3>2
  <2>3. ASSUME NEW q \in Requests PROVE AccountOf(q)' /\ AcceptedOf(q)'
    <3>1. CASE q = r
      BY <1>6, <3>1, NextAccountOf, NextAcceptedOf
    <3>2. CASE q # r
      <4>1. AccountOf(q) /\ StageOf(q)
        BY <1>0 DEF AccountsInv, ShapeInv
      <4>2. CASE pc[q] = "inserted"
        <5>1. pc[r] = "inserted" => req[r].email # req[q].email
          BY <3>2, <4>2 DEF AccountsInv
        <5>2. users'[req[q].email] = users[req[q].email]
          BY <2>2, <4>1, <4>2, <5>1 DEF CommitUser, At, StageOf
        <5> QED BY <1>2, <2>1, <3>2, <4>2, <5>2
      <4>3. CASE pc[q] # "inserted"
        BY <1>2, <2>1, <3>2, <4>3
      <4> QED BY <4>2, <4>3
    <3> QED BY <3>1, <3>2
  <2>4. ASSUME NEW q \in Requests, q # r, req'[r].email = req'[q].email
        PROVE  /\ ~(pc'[r] = "inserted" /\ pc'[q] = "inserted")
               /\ ~(req'[r].made /\ req'[q].made)
    <3>0. AccountOf(q) /\ StageOf(q) /\ LocksOf(q) /\ pc'[q] = pc[q] /\ req'[q] = req[q]
      BY <1>0, <2>1, <2>4 DEF AccountsInv, ShapeInv
    <3>1. CASE SendStep(r)
      BY <1>0, <3>1, Sent
    <3>2. CASE Authenticate(r)
      <4>1. pc'[r] = "done" /\ req'[r].kind = "me"
        BY <1>0, <3>2, Authenticated
      <4> QED BY <2>0, <4>1 DEF AccountOf
    <3>3. CASE InsertUser(r)
      <4>1. req' = req \/ pc'[r] = "done"
        BY <1>0, <3>3 DEF InsertUser, Answered, GoTo, TypeOK
      <4>2. pc[q] = "inserted" => req[q].email # req[r].email
        BY <2>4, <3>0, <3>3 DEF InsertUser, Free, LocksOf
      <4>3. req[r].made = FALSE /\ req'[r].made = FALSE /\ req'[r].email = req[r].email
        <5>1. req'[r].made = req[r].made /\ req'[r].email = req[r].email
          BY <1>0, <1>6, <3>3, OtherSteps DEF InsertUser, CommitUser, SendStep, Send, Authenticate, At,
             SendRegister, SendLogin, SendLogout, SendMe
        <5>2. req[r].made \in BOOLEAN
          BY <1>0 DEF TypeOK, Request
        <5> QED BY <2>0, <3>3, <5>1, <5>2 DEF AccountOf, InsertUser, At
      <4> QED BY <2>4, <3>0, <4>2, <4>3
    <3>4. CASE CommitUser(r)
      <4>1. pc[r] = "inserted" /\ pc'[r] = "done" /\ req'[r].email = req[r].email
        BY <1>0, <3>4 DEF CommitUser, At, GoTo, TypeOK, Request
      <4>2. req[q].made => users[req[q].email] # None
        BY <1>0, <3>0 DEF AccountOf, StageOf
      <4> QED BY <2>0, <2>4, <3>0, <4>1, <4>2 DEF AccountOf
    <3>5. CASE ~SendStep(r) /\ ~Authenticate(r) /\ ~InsertUser(r) /\ ~CommitUser(r)
      <4>1. req'[r].email = req[r].email /\ req'[r].made = req[r].made
        BY <1>0, <1>6, <3>5, OtherSteps
      <4>2. pc'[r] # "inserted"
        BY <1>0, <1>6, <3>5
           DEF StepOf, ServerStep, BrowserStep, LookForAccount, ReadUser, Verify, Purge, CommitLogin,
               DeleteSession, CommitLogout, ThenLogin, KeepToken, DropToken, Settle, At, GoTo, Answered,
               TypeOK
      <4> QED BY <2>4, <3>0, <4>1, <4>2 DEF AccountsInv
    <3> QED BY <3>1, <3>2, <3>3, <3>4, <3>5
  <2>5. ASSUME NEW s \in sessions', s \notin sessions
        PROVE  s.email = req'[s.token].email /\ s.expires = req'[s.token].now + Lifetime
    <3>1. /\ CommitLogin(r)
          /\ s = [token |-> r, email |-> req[r].email, expires |-> req[r].now + Lifetime]
      BY <1>0, <1>6, <2>5, SessionsComeFromLogins
    <3>2. req'[r].email = req[r].email /\ req'[r].now = req[r].now
      BY <1>0, <3>1 DEF CommitLogin, Answered, TypeOK, Request
    <3> QED BY <3>1, <3>2
  <2>6. \A a, q \in Requests : a # q /\ req'[a].email = req'[q].email =>
          /\ ~(pc'[a] = "inserted" /\ pc'[q] = "inserted")
          /\ ~(req'[a].made /\ req'[q].made)
    <3> SUFFICES ASSUME NEW a \in Requests, NEW q \in Requests, a # q, req'[a].email = req'[q].email
                 PROVE  /\ ~(pc'[a] = "inserted" /\ pc'[q] = "inserted")
                        /\ ~(req'[a].made /\ req'[q].made)
      OBVIOUS
    <3>1. CASE a = r \/ q = r
      BY <2>4, <3>1
    <3>2. CASE a # r /\ q # r
      BY <2>1, <3>2 DEF AccountsInv
    <3> QED BY <3>1, <3>2
  <2> QED BY <1>0, <1>3, <2>3, <2>5, <2>6 DEF AccountsInv
<1> QED BY <1>4, <1>5, <1>6 DEF Next, StepOf

\* The password of an account is the one of the registration that made it, and an
\* open insertion holds its address alone.
THEOREM AccountsInvariant == Spec => []AccountsInv
BY InitAccounts, NextAccounts, PTL DEF Spec

\* Of the registrations of one address at most one is answered with an account, and
\* the account keeps its password (register_user.py:38, sql.py:1015).
THEOREM OneAccount == Spec => []OneAccountPerAddress
<1>1. AccountsInv => OneAccountPerAddress
  BY DEF AccountsInv, AccountOf, OneAccountPerAddress
<1> QED BY <1>1, AccountsInvariant, PTL

\* A token is accepted only for the account whose password was given when it was
\* drawn, and never by a request that began after it expired (login_user.py:54,
\* sql.py:1050).
THEOREM TokensAreGood == Spec => []AcceptedTokensAreGood
<1>1. ASSUME AccountsInv, NEW r \in Requests, req[r].kind = "me", req[r].answer = "ok"
      PROVE  LET login == req[req[r].token] IN
             /\ login.kind = "login"
             /\ login.email = req[r].email
             /\ login.password = users[login.email]
             /\ req[r].sent < login.now + Lifetime
  <2>1. StageOf(r) /\ TokensOf(r) /\ AcceptedOf(r) /\ None \notin Requests
    BY <1>1, SessionsAssumption DEF AccountsInv, ShapeInv
  <2>2. req[r].token \in Requests /\ Drawn(req[r].token)
    BY <1>1, <2>1 DEF StageOf, TokensOf
  <2>3. AccountOf(req[r].token)
    BY <1>1, <2>2 DEF AccountsInv
  <2>4. /\ req[req[r].token].email = req[r].email
        /\ req[r].sent < req[req[r].token].now + Lifetime
    BY <1>1, <2>1 DEF AcceptedOf
  <2>5. /\ req[req[r].token].kind = "login"
        /\ users[req[req[r].token].email] = req[req[r].token].password
    BY <2>2, <2>3 DEF AccountOf, Drawn
  <2> QED BY <2>4, <2>5
<1>2. AccountsInv => AcceptedTokensAreGood
  BY <1>1 DEF AcceptedTokensAreGood
<1> QED BY <1>2, AccountsInvariant, PTL
--------------------------------------------------------------------------------
(* The token of the browser *)

\* No session is active under a token
Dead(t) == \A s \in sessions : ~IsActive(s, t, clock)

\* Unless a login overlapped, a question of the browser under way is about the token
\* it keeps, and one that was answered "unauthenticated" was about a dead token
OwnTokenOf(r) ==
    /\ req[r].kind = "me" /\ req[r].browser /\ pc[r] \in {"session", "done"} /\ ~overlapped =>
          store \in {None, req[r].token}
    /\ pc[r] = "done" /\ req[r].answer = "unauthenticated" =>
          req[r].kind = "me" /\ Dead(req[r].token)

OwnTokens == \A r \in Requests : OwnTokenOf(r)

\* A token that was drawn and is dead stays dead: no login draws it again
LEMMA DeadStays ==
    ASSUME ShapeInv, [Next]_vars, NEW t \in Requests, Drawn(t), Dead(t)
    PROVE  Dead(t)'
<1>1. TypeOK /\ TypeOK' /\ clock \in Nat /\ clock' \in Nat /\ clock <= clock'
  BY NextShape, ClockAdvances DEF ShapeInv, TypeOK
<1>2. ASSUME NEW s \in sessions' PROVE s \in sessions \/ s.token # t
  <2>1. CASE Tick \/ Restart \/ UNCHANGED vars
    BY <2>1 DEF Tick, Restart, vars
  <2>2. ASSUME NEW r \in Requests, StepOf(r) PROVE s \in sessions \/ s.token # t
    <3>1. CASE s \in sessions
      BY <3>1
    <3>2. CASE CommitLogin(r) /\ s.token = r
      BY <3>2 DEF CommitLogin, At, Drawn
    <3>3. QED
      BY <1>1, <2>2, <3>1, <3>2, SessionsComeFromLogins
  <2>3. QED
    BY <2>1, <2>2 DEF Next, StepOf
<1>3. \A s \in sessions : s.expires \in Nat
  BY <1>1 DEF TypeOK, Session
<1>4. QED
  BY <1>1, <1>2, <1>3 DEF Dead, IsActive

\* What the browser keeps changes with the settlement of a login, of a logout or of
\* a question only
LEMMA StoreMoves ==
    ASSUME ShapeInv, NEW r \in Requests, StepOf(r)
    PROVE  /\ overlapped => overlapped'
           /\ \/ UNCHANGED <<store, overlapped>>
              \/ store' = None /\ overlapped' = overlapped
              \/ /\ KeepToken(r) /\ store' = r
                 /\ \A q \in Requests \ {r} : pc[q] \in {"session", "done"} => overlapped'
<1>1. CASE KeepToken(r)
  <2>1. store' = r /\ overlapped' = (overlapped \/ Pending(r) # {})
    BY <1>1 DEF KeepToken
  <2>2. \A q \in Requests \ {r} : pc[q] \in {"session", "done"} => q \in Pending(r)
    BY DEF Pending, Working
  <2>3. QED
    BY <1>1, <2>1, <2>2
<1>2. CASE DropToken(r)
  BY <1>2 DEF DropToken
<1>3. CASE Settle(r)
  BY <1>3 DEF Settle, history
<1>4. CASE ThenLogin(r)
  BY <1>4 DEF ThenLogin, history
<1>5. CASE SendStep(r)
  <2>1. ASSUME NEW kind, NEW email, NEW password, NEW token, NEW first,
               Send(r, kind, email, password, token, first)
        PROVE  UNCHANGED <<store, overlapped>>
    BY <2>1 DEF Send, history
  <2>2. UNCHANGED <<store, overlapped>>
    BY <1>5, <2>1 DEF SendStep, SendRegister, SendLogin, SendLogout, SendMe
  <2>3. QED
    BY <2>2
<1>6. CASE ServerStep(r)
  BY <1>6 DEF ServerStep, LookForAccount, InsertUser, CommitUser, ReadUser, Verify, Purge,
     CommitLogin, DeleteSession, CommitLogout, Authenticate, history
<1>7. QED
  BY <1>1, <1>2, <1>3, <1>4, <1>5, <1>6 DEF StepOf, BrowserStep

\* The question is about the token the browser keeps when it is sent
LEMMA SentToken ==
    ASSUME ShapeInv, NEW r \in Requests, SendStep(r), req'[r].kind = "me", req'[r].browser
    PROVE  store' = store /\ req'[r].token = store
<1>1. ASSUME NEW kind, NEW email, NEW password, NEW token, NEW first,
             Send(r, kind, email, password, token, first)
      PROVE  /\ req'[r].kind = kind /\ req'[r].token = token /\ store' = store
             /\ req'[r].browser = (kind # "me" \/ token = store)
  BY <1>1 DEF Send, Unsent, ShapeInv, TypeOK
<1>2. ASSUME NEW t, SendMe(r, t) PROVE store' = store /\ req'[r].token = store
  <2>1. Send(r, "me", None, None, t, "session")
    BY <1>2 DEF SendMe
  <2>2. QED
    BY <1>1, <2>1
<1>3. ASSUME NEW e \in Emails, NEW p \in Passwords PROVE ~SendRegister(r, e, p) /\ ~SendLogin(r, e, p)
  <2>1. Send(r, "register", e, p, None, "look") => req'[r].kind = "register"
    BY <1>1
  <2>2. Send(r, "login", e, p, None, "read") => req'[r].kind = "login"
    BY <1>1
  <2>3. QED
    BY <2>1, <2>2 DEF SendRegister, SendLogin
<1>4. ~SendLogout(r)
  <2>1. SendLogout(r) => req'[r].kind = "logout"
    BY <1>1 DEF SendLogout
  <2>2. QED
    BY <2>1
<1>5. QED
  BY <1>2, <1>3, <1>4 DEF SendStep

\* A question is answered "unauthenticated" on a dead token only: the account of a
\* session that is still active exists
LEMMA RefusedIsDead ==
    ASSUME AccountsInv, NEW r \in Requests, Authenticate(r), req'[r].answer = "unauthenticated"
    PROVE  Dead(req[r].token)
<1>1. ShapeInv /\ TypeOK
  BY DEF AccountsInv, ShapeInv
<1>2. ASSUME NEW s \in sessions PROVE users[s.email] # None
  <2>1. s.token \in Requests /\ Drawn(s.token) /\ s.email = req[s.token].email
    BY <1>1 DEF AccountsInv, ShapeInv, TypeOK, Session
  <2>2. AccountOf(s.token) /\ StageOf(s.token)
    BY <2>1 DEF AccountsInv, ShapeInv
  <2>3. users[s.email] = req[s.token].password /\ req[s.token].password \in Passwords
    BY <2>1, <2>2 DEF AccountOf, StageOf, Drawn
  <2>4. QED
    BY <2>3, SessionsAssumption
<1>3. ASSUME NEW x \in sessions, IsActive(x, req[r].token, clock) PROVE FALSE
  <2>1. PICK s \in sessions : req' = [req EXCEPT ![r].email = s.email, ![r].answer = "ok"]
    BY <1>2, <1>3 DEF Authenticate
  <2>2. req'[r].answer = "ok"
    BY <1>1, <2>1 DEF TypeOK, Request
  <2>3. QED
    BY <2>2
<1>4. QED
  BY <1>3 DEF Dead

\* What a step of r makes of its own question
LEMMA NextOwnToken ==
    ASSUME AccountsInv, NEW r \in Requests, OwnTokenOf(r), [Next]_vars, StepOf(r)
    PROVE  OwnTokenOf(r)'
<1>0. ShapeInv /\ TypeOK /\ StageOf(r) /\ TokensOf(r)
  BY DEF AccountsInv, ShapeInv
<1>1. CASE SendStep(r)
  <2>1. req'[r].answer = "none"
    BY <1>0, <1>1, Sent
  <2>2. QED
    BY <1>0, <1>1, <2>1, SentToken DEF OwnTokenOf
<1>2. CASE Authenticate(r)
  <2>1. /\ pc[r] = "session" /\ req[r].kind = "me" /\ req'[r].kind = "me"
        /\ req'[r].token = req[r].token
    BY <1>0, <1>2, Authenticated DEF StageOf
  <2>2. req'[r].browser = req[r].browser
    <3>1. \/ req' = [req EXCEPT ![r].answer = "unauthenticated"]
          \/ \E s \in sessions : req' = [req EXCEPT ![r].email = s.email, ![r].answer = "ok"]
      BY <1>2 DEF Authenticate, Answered
    <3>2. QED
      BY ZenonT(40), <1>0, <3>1 DEF TypeOK, Request
  <2>3. UNCHANGED <<store, overlapped>>
    BY <1>2 DEF Authenticate, history
  <2>4. req[r].token \in Requests /\ Drawn(req[r].token)
    BY <1>0, <2>1, SessionsAssumption DEF StageOf, TokensOf
  <2>5. ASSUME NEW t \in Requests, t = req[r].token, req'[r].answer = "unauthenticated"
        PROVE  Dead(t)'
    <3>1. Dead(t) /\ Drawn(t)
      BY <1>2, <2>4, <2>5, RefusedIsDead
    <3>2. QED
      BY <1>0, <3>1, DeadStays
  <2>6. QED
    BY <2>1, <2>2, <2>3, <2>4, <2>5 DEF OwnTokenOf, Dead
<1>3. CASE ~SendStep(r) /\ ~Authenticate(r)
  <2>1. \/ pc'[r] \in {"insert", "inserted", "verify", "purge", "commit", "deleted", "settled", "read"}
        \/ pc'[r] = "done" /\ req'[r].answer \in {"conflict", "refused", "ok"} /\ pc[r] # "session"
                          /\ pc[r] \in Working
    BY <1>0, <1>3 DEF StepOf, ServerStep, BrowserStep, LookForAccount, InsertUser, CommitUser,
       ReadUser, Verify, Purge, CommitLogin, DeleteSession, CommitLogout, ThenLogin, KeepToken,
       DropToken, Settle, At, GoTo, Answered, TypeOK, Request, Working
  <2>2. req'[r].kind = "me" => req[r].kind = "me"
    <3>1. ThenLogin(r) => req'[r].kind = "login"
      BY <1>0 DEF ThenLogin, TypeOK, Request
    <3>2. QED
      BY <1>0, <1>3, <3>1, OtherSteps
  <2>3. req[r].kind = "me" => pc[r] \notin Working \ {"session"}
    BY <1>0 DEF StageOf, Working
  <2>4. QED
    BY <2>1, <2>2, <2>3 DEF OwnTokenOf
<1>4. QED
  BY <1>1, <1>2, <1>3

\* What a step of r leaves true of the question of another request
LEMMA OthersOwnToken ==
    ASSUME AccountsInv, [Next]_vars, NEW r \in Requests, StepOf(r), NEW q \in Requests \ {r},
           OwnTokenOf(q)
    PROVE  OwnTokenOf(q)'
<1>0. ShapeInv /\ TypeOK /\ StageOf(q) /\ TokensOf(q)
  BY DEF AccountsInv, ShapeInv
<1>1. pc'[q] = pc[q] /\ req'[q] = req[q]
  BY <1>0, OthersStay
<1>2. ASSUME NEW t \in Requests, req[q].kind = "me", t = req[q].token, Dead(t) PROVE Dead(t)'
  BY <1>0, <1>2, DeadStays, SessionsAssumption DEF TokensOf
<1>3. QED
  BY <1>0, <1>1, <1>2, StoreMoves DEF OwnTokenOf, StageOf, Dead

LEMMA NextOwnTokens == AccountsInv /\ OwnTokens /\ [Next]_vars => OwnTokens'
<1> SUFFICES ASSUME AccountsInv, OwnTokens, [Next]_vars, NEW q \in Requests PROVE OwnTokenOf(q)'
  BY DEF OwnTokens
<1>0. OwnTokenOf(q) /\ ShapeInv /\ TypeOK /\ StageOf(q) /\ TokensOf(q)
  BY DEF OwnTokens, AccountsInv, ShapeInv
<1>1. ASSUME NEW t \in Requests, req[q].kind = "me", t = req[q].token, Dead(t) PROVE Dead(t)'
  BY <1>0, <1>1, DeadStays, SessionsAssumption DEF TokensOf
<1>2. CASE Tick \/ UNCHANGED vars
  <2>1. UNCHANGED <<req, pc, store, overlapped>>
    BY <1>2 DEF Tick, vars, history
  <2>2. QED
    BY <1>0, <1>1, <2>1 DEF OwnTokenOf, StageOf, Dead
<1>3. CASE Restart
  <2>1. UNCHANGED <<store, overlapped, clock, sessions>>
    BY <1>3 DEF Restart, history
  <2>2. CASE pc[q] \notin Working
    <3>1. req'[q] = req[q] /\ pc'[q] = pc[q]
      BY <1>0, <1>3, <2>2 DEF Restart, TypeOK
    <3>2. QED
      BY <1>0, <1>1, <2>1, <3>1 DEF OwnTokenOf, StageOf, Dead
  <2>3. CASE pc[q] \in Working
    <3>1. /\ pc'[q] = "done" /\ req'[q].answer = "failed" /\ req'[q].kind = req[q].kind
          /\ req'[q].token = req[q].token /\ req'[q].browser = req[q].browser
      BY <1>0, <1>3, <2>3 DEF Restart, TypeOK, Request
    <3>2. req[q].kind = "me" => pc[q] = "session"
      BY <1>0, <2>3 DEF StageOf, Working
    <3>3. QED
      BY <1>0, <2>1, <3>1, <3>2 DEF OwnTokenOf
  <2>4. QED
    BY <2>2, <2>3
<1>4. ASSUME NEW r \in Requests, StepOf(r) PROVE OwnTokenOf(q)'
  <2>1. CASE q = r
    BY <1>0, <1>4, <2>1, NextOwnToken
  <2>2. CASE q # r
    BY <1>0, <1>4, <2>2, OthersOwnToken
  <2>3. QED
    BY <2>1, <2>2
<1>5. QED
  BY <1>2, <1>3, <1>4 DEF Next, StepOf

\* Unless a login was answered while another request of the browser was under way,
\* the browser drops its token only on a logout or when the token is dead
\* (client.ts:93, auth.mutations.ts:42).
THEOREM SignedInUntilDead == Spec => SignedInStays
<1> DEFINE Stays ==
      (store # None /\ store' = None /\ ~overlapped) =>
          \/ \E r \in Requests : At(r, "done") /\ ~At(r, "done")' /\ req[r].kind = "logout"
          \/ ~\E s \in sessions : IsActive(s, store, clock)
<1>1. Init => OwnTokens
  BY DEF Init, OwnTokens, OwnTokenOf, Unsent
<1>2. AccountsInv /\ OwnTokens /\ [Next]_vars => [Stays]_vars
  <2> SUFFICES ASSUME AccountsInv, OwnTokens, [Next]_vars, store # None, store' = None, ~overlapped
               PROVE  \/ \E r \in Requests : At(r, "done") /\ ~At(r, "done")' /\ req[r].kind = "logout"
                      \/ ~\E s \in sessions : IsActive(s, store, clock)
    OBVIOUS
  <2>0. ShapeInv /\ TypeOK
    BY DEF AccountsInv, ShapeInv
  <2>1. PICK r \in Requests : DropToken(r) \/ Settle(r)
    <3>1. ~Tick /\ ~Restart /\ ~UNCHANGED vars
      BY DEF Tick, Restart, vars
    <3>2. \A r \in Requests : ~ServerStep(r) /\ ~SendStep(r) /\ ~ThenLogin(r) /\ ~KeepToken(r)
      BY ZenonT(40), SessionsAssumption
         DEF ServerStep, SendStep, Send, SendRegister, SendLogin, SendLogout, SendMe, ThenLogin,
             KeepToken, LookForAccount, InsertUser, CommitUser, ReadUser, Verify, Purge, CommitLogin,
             DeleteSession, CommitLogout, Authenticate
    <3>3. QED
      BY <3>1, <3>2 DEF Next, BrowserStep
  <2>2. CASE DropToken(r)
    <3>1. At(r, "done") /\ ~At(r, "done")' /\ req[r].kind = "logout"
      BY <2>0, <2>2 DEF DropToken, At, GoTo, TypeOK
    <3>2. QED
      BY <3>1
  <2>3. CASE Settle(r)
    <3>1. pc[r] = "done" /\ req[r].browser /\ req[r].answer = "unauthenticated"
      BY <2>3 DEF Settle, At, SignsOut
    <3>2. store = req[r].token /\ Dead(store)
      BY <3>1 DEF OwnTokens, OwnTokenOf
    <3>3. QED
      BY <3>2 DEF Dead
  <2>4. QED
    BY <2>1, <2>2, <2>3
<1>3. (Spec => []AccountsInv) => (Spec => [][Stays]_vars)
  BY <1>1, <1>2, NextOwnTokens, PTL DEF Spec
<1>4. QED
  BY <1>3, AccountsInvariant DEF SignedInStays
================================================================================
