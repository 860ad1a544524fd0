------------------------------ MODULE UserSessions ------------------------------
(***************************************************************************)
(* Registration, login, logout and authentication of concurrent requests   *)
(* over the tables users and user_session, and the one token a browser     *)
(* keeps for all its tabs.  A token is named after the login that drew it, *)
(* and a digest after its token.  A transaction reads what is committed    *)
(* and its writes lock rows until it ends.                                 *)
(***************************************************************************)
EXTENDS Naturals, FiniteSets

CONSTANTS
    Requests,      \* the requests made, each of any kind
    Emails,        \* normalised addresses
    Passwords,
    None,
    Lifetime,      \* SESSION_LIFETIME, in ticks
    May,           \* bound: the kinds of request each of them may be
    MaxClock,      \* bound: the clock stops there
    MaxRestarts    \* bound: restarts of the server

ASSUME SessionsAssumption ==
    /\ {Lifetime, MaxClock, MaxRestarts} \subseteq Nat
    /\ Lifetime > 0
    /\ May \in [Requests -> SUBSET {"register", "login", "logout", "me"}]
    /\ None \notin Requests \cup Emails \cup Passwords

VARIABLES
    clock,
    users,       \* the password of each account, None without one
    sessions,    \* the committed rows of user_session
    pc,          \* where each request is
    req,         \* what each request was sent with and has learnt
    locks,       \* the rows each transaction has written: digests and addresses
    store,       \* the token in the browser's localStorage
    restarts,
    loggedOut,   \* history: the tokens whose logout was answered
    overlapped   \* history: a login was answered while another request was under way

history == <<loggedOut, overlapped>>
vars == <<clock, users, sessions, pc, req, locks, store, restarts, history>>

Kinds == {"register", "login", "logout", "me"}

\* The awaits of the four use cases
Working == {"look", "insert", "inserted", "read", "verify", "purge", "commit",
            "delete", "deleted", "session"}

Pc == {"idle", "done", "settled"} \cup Working

Answers == {"none", "ok", "conflict", "refused", "unauthenticated", "failed"}

Request ==
    [kind : Kinds \cup {"none"}, email : Emails \cup {None}, password : Passwords \cup {None},
     token : Requests \cup {None}, browser : BOOLEAN, sent : Nat, now : Nat, made : BOOLEAN,
     known : Passwords \cup {None}, closed : SUBSET Requests, answer : Answers]

Session == [token : Requests, email : Emails, expires : Nat]

TypeOK ==
    /\ clock \in Nat
    /\ users \in [Emails -> Passwords \cup {None}]
    /\ sessions \subseteq Session
    /\ pc \in [Requests -> Pc]
    /\ req \in [Requests -> Request]
    /\ locks \in [Requests -> SUBSET (Requests \cup Emails)]
    /\ store \in Requests \cup {None}
    /\ restarts \in Nat
    /\ loggedOut \subseteq Requests
    /\ overlapped \in BOOLEAN

Unsent ==
    [kind |-> "none", email |-> None, password |-> None, token |-> None, browser |-> FALSE,
     sent |-> 0, now |-> 0, made |-> FALSE, known |-> None, closed |-> {}, answer |-> "none"]

Init ==
    /\ clock = 0
    /\ users \in [Emails -> Passwords \cup {None}]
    /\ sessions = {}
    /\ pc = [r \in Requests |-> "idle"]
    /\ req = [r \in Requests |-> Unsent]
    /\ locks = [r \in Requests |-> {}]
    /\ store = None
    /\ restarts = 0
    /\ loggedOut = {}
    /\ overlapped = FALSE

GoTo(r, there) == pc' = [pc EXCEPT ![r] = there]

At(r, here) == pc[r] = here

\* The use case ends with an answer, and its transaction with it
Answered(r, answer) ==
    /\ GoTo(r, "done")
    /\ req' = [req EXCEPT ![r].answer = answer]
    /\ locks' = [locks EXCEPT ![r] = {}]

\* A row that another transaction has written is waited for
Free(r, row) == \A q \in Requests \ {r} : row \notin locks[q]

Tick ==
    /\ clock < MaxClock
    /\ clock' = clock + 1
    /\ UNCHANGED <<users, sessions, pc, req, locks, store, restarts, history>>

--------------------------------------------------------------------------------
(* The browser: send() in client.ts and the mutations and queries of auth *)

Send(r, kind, email, password, token, first) ==
    /\ At(r, "idle")
    /\ kind \in May[r]
    /\ req' = [req EXCEPT ![r] =
          [Unsent EXCEPT !.kind = kind, !.email = email, !.password = password,
                         !.token = token, !.browser = (kind # "me" \/ token = store),
                         !.sent = IF kind = "me" THEN clock ELSE 0,
                         !.closed = IF kind = "me" THEN loggedOut ELSE {}]]
    /\ GoTo(r, first)
    /\ UNCHANGED <<clock, users, sessions, locks, store, restarts, history>>

SendRegister(r, email, password) == Send(r, "register", email, password, None, "look")

SendLogin(r, email, password) == Send(r, "login", email, password, None, "read")

\* Without a token there is nothing to delete
SendLogout(r) == Send(r, "logout", None, None, store, IF store = None THEN "done" ELSE "delete")

\* The query of the browser is enabled only with a token; another client may keep
\* a token it was given once
SendMe(r, token) == Send(r, "me", None, None, token, "session")

Given == {t \in Requests : req[t].kind = "login" /\ req[t].answer = "ok" /\ pc[t] = "settled"}

Pending(r) == {q \in Requests \ {r} : pc[q] \in Working \cup {"done"}}

\* useRegisterMutation: an account that was created is logged in to
ThenLogin(r) ==
    /\ At(r, "done") /\ req[r].kind = "register" /\ req[r].answer = "ok"
    /\ req' = [req EXCEPT ![r].kind = "login", ![r].answer = "none"]
    /\ GoTo(r, "read")
    /\ UNCHANGED <<clock, users, sessions, locks, store, restarts, history>>

\* onSuccess of a login
KeepToken(r) ==
    /\ At(r, "done") /\ req[r].kind = "login" /\ req[r].answer = "ok"
    /\ store' = r
    /\ overlapped' = (overlapped \/ Pending(r) # {})
    /\ GoTo(r, "settled")
    /\ UNCHANGED <<clock, users, sessions, req, locks, restarts, loggedOut>>

\* onSettled of a logout, whatever the answer
DropToken(r) ==
    /\ At(r, "done") /\ req[r].kind = "logout"
    /\ store' = None
    /\ loggedOut' = IF req[r].answer = "ok" THEN loggedOut \cup {req[r].token} ELSE loggedOut
    /\ GoTo(r, "settled")
    /\ UNCHANGED <<clock, users, sessions, req, locks, restarts, overlapped>>

\* Mutant: every answer 401 clears the token.
SignsOutAny(answer) == answer \in {"unauthenticated", "refused"}

\* send(): the code of the answer that clears the token, whichever it is by then
SignsOut(answer) == answer = "unauthenticated"

Settle(r) ==
    /\ At(r, "done")
    /\ req[r].kind # "logout"
    /\ ~(req[r].answer = "ok" /\ req[r].kind \in {"register", "login"})
    /\ store' = IF req[r].browser /\ SignsOut(req[r].answer) THEN None ELSE store
    /\ GoTo(r, "settled")
    /\ UNCHANGED <<clock, users, sessions, req, locks, restarts, history>>

--------------------------------------------------------------------------------
(* RegisterUser: the password is hashed before the transaction opens *)

LookForAccount(r) ==
    /\ At(r, "look")
    /\ IF users[req[r].email] # None THEN Answered(r, "conflict")
       ELSE GoTo(r, "insert") /\ UNCHANGED <<req, locks>>
    /\ UNCHANGED <<clock, users, sessions, store, restarts, history>>

\* The unique index makes the insert wait for another one of the same address
InsertUser(r) ==
    /\ At(r, "insert")
    /\ Free(r, req[r].email)
    /\ IF users[req[r].email] # None
       THEN Answered(r, "conflict")
       ELSE /\ GoTo(r, "inserted")
            /\ locks' = [locks EXCEPT ![r] = @ \cup {req[r].email}]
            /\ UNCHANGED req
    /\ UNCHANGED <<clock, users, sessions, store, restarts, history>>

CommitUser(r) ==
    /\ At(r, "inserted")
    /\ users' = [users EXCEPT ![req[r].email] = req[r].password]
    /\ GoTo(r, "done")
    /\ req' = [req EXCEPT ![r].answer = "ok", ![r].made = TRUE]
    /\ locks' = [locks EXCEPT ![r] = {}]
    /\ UNCHANGED <<clock, sessions, store, restarts, history>>

--------------------------------------------------------------------------------
(* LoginUser *)

ReadUser(r) ==
    /\ At(r, "read")
    /\ req' = [req EXCEPT ![r].known = users[req[r].email]]
    /\ GoTo(r, "verify")
    /\ UNCHANGED <<clock, users, sessions, locks, store, restarts, history>>

\* No transaction is open; an account that does not exist fails like a wrong
\* password.  The token and the hour are drawn before the next transaction
Verify(r) ==
    /\ At(r, "verify")
    /\ IF req[r].known = req[r].password
       THEN /\ GoTo(r, "purge")
            /\ req' = [req EXCEPT ![r].now = clock, ![r].known = None]
            /\ UNCHANGED locks
       ELSE Answered(r, "refused")
    /\ UNCHANGED <<clock, users, sessions, store, restarts, history>>

\* Mutant: the comparison is turned round.
ExpiredTurned(now) == {s.token : s \in {x \in sessions : x.expires >= now}}

Expired(now) == {s.token : s \in {x \in sessions : x.expires <= now}}

\* delete_expired: a row another transaction is deleting is waited for
Purge(r) ==
    /\ At(r, "purge")
    /\ \A t \in Expired(req[r].now) : Free(r, t)
    /\ locks' = [locks EXCEPT ![r] = @ \cup Expired(req[r].now)]
    /\ GoTo(r, "commit")
    /\ UNCHANGED <<clock, users, sessions, req, store, restarts, history>>

\* The row of a new token conflicts with no other
CommitLogin(r) ==
    /\ At(r, "commit")
    /\ sessions' = {s \in sessions : s.token \notin locks[r]} \cup
          {[token |-> r, email |-> req[r].email, expires |-> req[r].now + Lifetime]}
    /\ Answered(r, "ok")
    /\ UNCHANGED <<clock, users, store, restarts, history>>

--------------------------------------------------------------------------------
(* LogoutUser *)

DeleteSession(r) ==
    /\ At(r, "delete")
    /\ Free(r, req[r].token)
    /\ locks' = [locks EXCEPT ![r] = @ \cup {req[r].token}]
    /\ GoTo(r, "deleted")
    /\ UNCHANGED <<clock, users, sessions, req, store, restarts, history>>

\* Mutant: the deletion is rolled back when the unit of work closes.
CommitLogoutLost(r) ==
    /\ At(r, "deleted")
    /\ Answered(r, "ok")
    /\ UNCHANGED <<clock, users, sessions, store, restarts, history>>

CommitLogout(r) ==
    /\ At(r, "deleted")
    /\ sessions' = {s \in sessions : s.token \notin locks[r]}
    /\ Answered(r, "ok")
    /\ UNCHANGED <<clock, users, store, restarts, history>>

--------------------------------------------------------------------------------
(* AuthenticateUser *)

\* get_active_by_token_hash
IsActive(s, token, now) == s.token = token /\ s.expires > now

\* No route deletes a user, so that both reads are one step
Authenticate(r) ==
    /\ At(r, "session")
    /\ LET found == {s \in sessions : IsActive(s, req[r].token, clock)}
           known == {s \in found : users[s.email] # None} IN
       IF known = {} THEN Answered(r, "unauthenticated")
       ELSE \E s \in known :
              /\ GoTo(r, "done")
              /\ req' = [req EXCEPT ![r].email = s.email, ![r].answer = "ok"]
              /\ locks' = [locks EXCEPT ![r] = {}]
    /\ UNCHANGED <<clock, users, sessions, store, restarts, history>>

--------------------------------------------------------------------------------

\* Mutant: the connections of a stopped server keep their locks.
RestartKeepingLocks ==
    /\ restarts < MaxRestarts
    /\ restarts' = restarts + 1
    /\ pc' = [r \in Requests |-> IF pc[r] \in Working THEN "done" ELSE pc[r]]
    /\ req' = [r \in Requests |->
          IF pc[r] \in Working THEN [req[r] EXCEPT !.answer = "failed"] ELSE req[r]]
    /\ UNCHANGED <<clock, users, sessions, locks, store, history>>

\* The server stops and starts again: open transactions are rolled back and the
\* requests under way end without an answer
Restart ==
    /\ restarts < MaxRestarts
    /\ restarts' = restarts + 1
    /\ pc' = [r \in Requests |-> IF pc[r] \in Working THEN "done" ELSE pc[r]]
    /\ req' = [r \in Requests |->
          IF pc[r] \in Working THEN [req[r] EXCEPT !.answer = "failed"] ELSE req[r]]
    /\ locks' = [r \in Requests |-> {}]
    /\ UNCHANGED <<clock, users, sessions, store, history>>

ServerStep(r) ==
    \/ LookForAccount(r) \/ InsertUser(r) \/ CommitUser(r)
    \/ ReadUser(r) \/ Verify(r) \/ Purge(r) \/ CommitLogin(r)
    \/ DeleteSession(r) \/ CommitLogout(r) \/ Authenticate(r)

BrowserStep(r) == ThenLogin(r) \/ KeepToken(r) \/ DropToken(r) \/ Settle(r)

SendStep(r) ==
    \/ \E e \in Emails, p \in Passwords : SendRegister(r, e, p) \/ SendLogin(r, e, p)
    \/ SendLogout(r)
    \/ \E t \in Given \cup ({store} \ {None}) : SendMe(r, t)

Next == Tick \/ Restart \/ \E r \in Requests : ServerStep(r) \/ BrowserStep(r) \/ SendStep(r)

Spec == Init /\ [][Next]_vars

\* A request under way goes on; people, the clock and restarts owe nothing
FairSpec == Spec /\ \A r \in Requests : WF_vars(ServerStep(r)) /\ WF_vars(BrowserStep(r))

--------------------------------------------------------------------------------
(* Properties *)

\* Of the registrations of an address at most one is answered with an account, and
\* the account has the password of that one (register_user.py:38, sql.py:1015).
OneAccountPerAddress ==
    \A r \in Requests : req[r].made =>
        /\ users[req[r].email] = req[r].password
        /\ \A q \in Requests \ {r} : ~(req[q].made /\ req[q].email = req[r].email)

\* A token is accepted only for the account whose password was given when it was
\* drawn, and never by a request that began after it expired (login_user.py:54,
\* sql.py:1050).
AcceptedTokensAreGood ==
    \A r \in Requests : req[r].kind = "me" /\ req[r].answer = "ok" =>
        LET login == req[req[r].token] IN
        /\ login.kind = "login"
        /\ login.email = req[r].email
        /\ login.password = users[login.email]
        /\ req[r].sent < login.now + Lifetime

\* After a logout was answered, no request that begins is authenticated with that
\* token, whatever logins and purges were under way (logout_user.py:19).
LogoutIsFinal ==
    \A r \in Requests : req[r].kind = "me" /\ req[r].answer = "ok" =>
        req[r].token \notin req[r].closed

\* A session that has not expired goes only by a logout of its own token: the purge
\* of a login never ends another person's session (login_user.py:59, sql.py:1062).
LiveSessionsSurvive ==
    [][\A s \in sessions \ sessions' :
          s.expires <= clock \/ \E r \in Requests : At(r, "deleted") /\ req[r].token = s.token]_vars

\* Unless a login was answered while another request of the browser was under way,
\* the browser drops its token only on a logout or when the token is dead
\* (client.ts:93, auth.mutations.ts:42).
SignedInStays ==
    [][(store # None /\ store' = None /\ ~overlapped) =>
          \/ \E r \in Requests : At(r, "done") /\ ~At(r, "done")' /\ req[r].kind = "logout"
          \/ ~\E s \in sessions : IsActive(s, store, clock)]_vars

\* Every request is answered: the waits of registrations, purges and logouts for
\* one another end.
EveryRequestIsAnswered == \A r \in Requests : pc[r] \in Working ~> pc[r] = "settled"
================================================================================
