------------------------------- MODULE Browser -------------------------------
(***************************************************************************)
(* The session in the browser: the interceptors of                         *)
(* frontend/src/services/api.js, AuthContext.jsx, ProtectedRoute.jsx and   *)
(* the login page, in tabs that share localStorage.  What a tab shows as   *)
(* its user is its own and only follows localStorage when the page loads.  *)
(* Of the requests, only POST /transactions asks for a token; a request    *)
(* carries the one that is stored when it is sent, and the answer to it    *)
(* may come when another is stored.  The refresh token of the login is     *)
(* never kept: a session ends with its access token.                       *)
(***************************************************************************)
EXTENDS Naturals

CONSTANTS
    Tab,
    MaxToken    \* bound on the access tokens issued

ASSUME BrowserAssumption == MaxToken \in Nat

VARIABLES
    good,       \* access tokens that get_current_user accepts
    issued,     \* access tokens issued so far
    store,      \* localStorage: the token, and beside it the user; 0 for neither
    page,       \* "app", the pages ProtectedRoute guards, or "login"
    user,       \* the tab shows a user
    login,      \* a login of the tab is under way
    post        \* a submission of the tab, with its token

vars == <<good, issued, store, page, user, login, post>>

NoPost == [pc |-> "idle"]

-----------------------------------------------------------------------------
Init ==
    /\ good = {} /\ issued = 0 /\ store = 0
    /\ page = [t \in Tab |-> "login"] /\ user = [t \in Tab |-> FALSE]
    /\ login = [t \in Tab |-> FALSE]
    /\ post = [t \in Tab |-> NoPost]

\* The token expires, or its user is deactivated.
Expire(token) ==
    /\ good' = good \ {token}
    /\ UNCHANGED <<issued, store, page, user, login, post>>

\* A page load: the tab forgets its requests, and its user is what is stored.
Load(t, to, stored) ==
    /\ user' = [user EXCEPT ![t] = stored # 0]
    /\ page' = [page EXCEPT ![t] = IF stored # 0 THEN to ELSE "login"]
    /\ login' = [login EXCEPT ![t] = FALSE]
    /\ post' = [post EXCEPT ![t] = NoPost]

Open(t) ==
    /\ \E to \in {"login", "app"} : Load(t, to, store)
    /\ UNCHANGED <<good, issued, store>>

\* Back in the history, or on from the registration, which does not log in.
Enter(t) ==
    /\ page[t] = "login" /\ user[t]
    /\ page' = [page EXCEPT ![t] = "app"]
    /\ UNCHANGED <<good, issued, store, user, login, post>>

Logout(t) ==
    /\ page[t] = "app"
    /\ store' = 0
    /\ user' = [user EXCEPT ![t] = FALSE]
    /\ page' = [page EXCEPT ![t] = "login"]
    /\ UNCHANGED <<good, issued, login, post>>

LoginSend(t) ==
    /\ page[t] = "login" /\ ~login[t]
    /\ login' = [login EXCEPT ![t] = TRUE]
    /\ UNCHANGED <<good, issued, store, page, user, post>>

\* The new token is stored, and the dashboard shown.
LoginEnds(t) ==
    /\ login[t] /\ issued < MaxToken
    /\ issued' = issued + 1
    /\ good' = good \cup {issued'}
    /\ store' = issued'
    /\ user' = [user EXCEPT ![t] = TRUE]
    /\ page' = [page EXCEPT ![t] = "app"]
    /\ login' = [login EXCEPT ![t] = FALSE]
    /\ UNCHANGED post

\* A wrong password is a 401 like any other: it empties localStorage, and if the user
\* has gone back to the app meanwhile, loads the login page.
LoginRefused(t) ==
    /\ login[t]
    /\ store' = 0
    /\ IF page[t] = "app" THEN Load(t, "login", 0)
       ELSE login' = [login EXCEPT ![t] = FALSE] /\ UNCHANGED <<page, user, post>>
    /\ UNCHANGED <<good, issued>>

\* The request interceptor sends what is stored.
PostSend(t) ==
    /\ page[t] = "app" /\ post[t] = NoPost
    /\ post' = [post EXCEPT ![t] = [pc |-> "sent", token |-> store]]
    /\ UNCHANGED <<good, issued, store, page, user, login>>

\* get_current_user, the only guard of POST /transactions; or another error.
PostServe(t) ==
    /\ post[t].pc = "sent"
    /\ \E pc \in {"failed", IF post[t].token \in good THEN "served" ELSE "refused"} :
           post' = [post EXCEPT ![t].pc = pc]
    /\ UNCHANGED <<good, issued, store, page, user, login>>

\* Faulty: any error empties localStorage.
AnyError(pc) == pc \in {"refused", "failed"}

\* The response interceptor acts on a 401.
Unauthorized(pc) == pc = "refused"

\* The answer: a 401 removes whatever is stored, and a page other than the login is
\* left for it by a page load.
PostEnds(t) ==
    /\ post[t].pc \in {"served", "refused", "failed"}
    /\ store' = IF Unauthorized(post[t].pc) THEN 0 ELSE store
    /\ IF Unauthorized(post[t].pc) /\ page[t] = "app" THEN Load(t, "login", 0)
       ELSE post' = [post EXCEPT ![t] = NoPost] /\ UNCHANGED <<page, user, login>>
    /\ UNCHANGED <<good, issued>>

Next ==
    \/ \E token \in good : Expire(token)
    \/ \E t \in Tab :
          \/ Open(t) \/ Enter(t) \/ Logout(t)
          \/ LoginSend(t) \/ LoginEnds(t) \/ LoginRefused(t)
          \/ PostSend(t) \/ PostServe(t) \/ PostEnds(t)

Spec == Init /\ [][Next]_vars

-----------------------------------------------------------------------------
\* The interceptor of api.js removes what is stored when a 401 arrives, whatever it
\* answers.  So a token that the backend still accepts is lost, in all tabs, to a
\* logout, to a login, to a wrong password, and to the 401 of a submission that was
\* sent with another token or with none; but never to the answer to a submission that
\* carried it, nor to an error that is no 401.
GoodTokenIsKept ==
    [][(store \in good /\ store' # store) =>
          \E t \in Tab :
              \/ Logout(t) \/ LoginEnds(t) \/ LoginRefused(t)
              \/ PostEnds(t) /\ post[t].token # store]_vars
=============================================================================
