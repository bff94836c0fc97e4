------------------------------ MODULE Sessions ------------------------------
(***************************************************************************)
(* Accounts and sessions: register, login, /auth/refresh and logout of     *)
(* backend/routers/auth.py, on the users table of user_repository.py and   *)
(* the refresh_tokens table of refresh_token_repository.py.                *)
(*                                                                         *)
(* A refresh token is a signed statement of a user and of an expiry in     *)
(* whole seconds, with nothing random in it: minted twice for a user in    *)
(* one second it is the same string, and its hash is unique in the table.  *)
(* Each await on the database is a step; revoke and store_hash commit      *)
(* separately.  A password stands for the 72 bytes of it that bcrypt sees. *)
(* Signatures are taken as checked; access tokens, which no table knows,   *)
(* are in Browser.                                                         *)
(***************************************************************************)
EXTENDS Naturals

CONSTANTS
    User,       \* email addresses, and the accounts they name
    Password,   \* passwords; Weak ones break a rule of validate_password
    Weak,
    Req,        \* requests that can be open at a time
    Life,       \* seconds a refresh token lives
    MaxTime     \* bound on the clock

ASSUME SessionAssumption ==
    /\ Weak \subseteq Password /\ "none" \notin Password
    /\ Life \in Nat \ {0} /\ MaxTime \in Nat

VARIABLES
    now,        \* seconds
    account,    \* password of each row of users, or none
    active,     \* users with is_active
    stored,     \* rows of refresh_tokens
    revoked,    \* rows with is_revoked
    known,      \* tokens clients were given
    pc,
    call,       \* what each request asks: a user to log in, or a token
    fresh,      \* token a request has minted
    reply

vars == <<now, account, active, stored, revoked, known, pc, call, fresh, reply>>

tables == <<account, stored, revoked>>

-----------------------------------------------------------------------------
Token == [user : User, exp : Life .. MaxTime + Life]

Call == [op : {"register", "login"}, user : User, password : Password]
        \cup [op : {"refresh", "logout"}, token : Token]

NoCall  == [op |-> "none"]
NoToken == [user |-> "none"]
None    == "none"

Replies == {"none", "created", "tokens", "logged out", "already revoked",
            "refused", "conflict", "error"}

InFlight(r) == pc[r] \in {"started", "validated", "checked", "found", "revoked",
                     "minted", "stored", "free", "inserted"}

Init ==
    /\ now = 0
    /\ account = [u \in User |-> None]
    /\ active = {}
    /\ stored = {} /\ revoked = {} /\ known = {}
    /\ pc = [r \in Req |-> "idle"]
    /\ call = [r \in Req |-> NoCall]
    /\ fresh = [r \in Req |-> NoToken]
    /\ reply = [r \in Req |-> "none"]

Tick ==
    /\ now < MaxTime
    /\ now' = now + 1
    /\ UNCHANGED <<active, tables, known, pc, call, fresh, reply>>

\* Someone edits users.is_active; the application never does.
Deactivate(u) ==
    /\ u \in active
    /\ active' = active \ {u}
    /\ UNCHANGED <<now, tables, known, pc, call, fresh, reply>>

Start(r, c) ==
    /\ pc[r] = "idle"
    /\ c.op \in {"refresh", "logout"} => c.token \in known
    /\ pc' = [pc EXCEPT ![r] = "started"]
    /\ call' = [call EXCEPT ![r] = c]
    /\ UNCHANGED <<now, active, tables, known, fresh, reply>>

Goto(r, to) == pc' = [pc EXCEPT ![r] = to] /\ UNCHANGED reply

Answer(r, what) ==
    /\ pc' = [pc EXCEPT ![r] = "done"]
    /\ reply' = [reply EXCEPT ![r] = what]

\* register: the schema refuses a weak password with 422; then the select by address,
\* which answers 409 if the address is taken.
LookUp(r) ==
    /\ pc[r] = "started" /\ call[r].op = "register"
    /\ LET free == call[r].password \notin Weak /\ account[call[r].user] = None IN
       (free /\ Goto(r, "free")) \/ (~free /\ Answer(r, "refused"))
    /\ UNCHANGED <<now, active, tables, known, call, fresh>>

\* Faulty: the insert overwrites the row of the address.
InsertOrReplace(r) ==
    /\ pc[r] = "free"
    /\ account' = [account EXCEPT ![call[r].user] = call[r].password]
    /\ active' = active \cup {call[r].user}
    /\ Goto(r, "inserted")
    /\ UNCHANGED <<now, stored, revoked, known, call, fresh>>

\* create_user: the unique address refuses the second of two inserts, with 500.
Insert(r) ==
    LET u == call[r].user IN
    /\ pc[r] = "free"
    /\ \/ /\ account[u] = None
          /\ account' = [account EXCEPT ![u] = call[r].password]
          /\ active' = active \cup {u}
          /\ Goto(r, "inserted")
       \/ account[u] # None /\ Answer(r, "conflict") /\ UNCHANGED <<account, active>>
    /\ UNCHANGED <<now, stored, revoked, known, call, fresh>>

\* The refresh of the row, and 201.
Created(r) ==
    /\ pc[r] = "inserted"
    /\ Answer(r, "created")
    /\ UNCHANGED <<now, active, tables, known, call, fresh>>

MintedAt(u, second) == [user |-> u, exp |-> second + Life]

Knows(c) == account[c.user] = c.password /\ c.user \in active

\* login, up to the insert: the user with this password, and a token that carries
\* this second.
LoadUser(r) ==
    /\ pc[r] = "started" /\ call[r].op = "login"
    /\ \/ /\ Knows(call[r])
          /\ fresh' = [fresh EXCEPT ![r] = MintedAt(call[r].user, now)]
          /\ Goto(r, "minted")
       \/ ~Knows(call[r]) /\ Answer(r, "refused") /\ UNCHANGED fresh
    /\ UNCHANGED <<now, active, tables, known, call>>

IsLive(k) == k \in stored \ revoked

\* In the second of its expiry a token is still good as a JWT; its row, which keeps
\* the microseconds, may have expired or not.
MayExpire(k) == now >= k.exp
MayBeUsed(k) == now <= k.exp

\* Faulty: the row is looked up without is_revoked.
ValidateStored(r) ==
    LET k == call[r].token IN
    /\ pc[r] = "started" /\ call[r].op = "refresh"
    /\ \/ k \in stored /\ MayBeUsed(k) /\ Goto(r, "validated")
       \/ (k \notin stored \/ MayExpire(k)) /\ Answer(r, "refused")
    /\ UNCHANGED <<now, active, tables, known, call, fresh>>

\* refresh: the expiry in the token, then validate_hash.
Validate(r) ==
    LET k == call[r].token IN
    /\ pc[r] = "started" /\ call[r].op = "refresh"
    /\ \/ IsLive(k) /\ MayBeUsed(k) /\ Goto(r, "validated")
       \/ (~IsLive(k) \/ MayExpire(k)) /\ Answer(r, "refused")
    /\ UNCHANGED <<now, active, tables, known, call, fresh>>

\* refresh: get_by_id of the user.
CheckUser(r) ==
    LET ok == call[r].token.user \in active IN
    /\ pc[r] = "validated"
    /\ (ok /\ Goto(r, "checked")) \/ (~ok /\ Answer(r, "refused"))
    /\ UNCHANGED <<now, active, tables, known, call, fresh>>

AtRevoke(r) ==
    \/ pc[r] = "checked"
    \/ pc[r] = "started" /\ call[r].op = "logout"

\* What follows revoke: logout reports whether there was anything to revoke,
\* refresh mints the next token either way.
AfterRevoke(r, found) ==
    \/ /\ call[r].op = "logout"
       /\ Answer(r, IF found THEN "logged out" ELSE "already revoked")
       /\ UNCHANGED fresh
    \/ /\ call[r].op = "refresh"
       /\ fresh' = [fresh EXCEPT ![r] = MintedAt(call[r].token.user, now)]
       /\ Goto(r, "minted")

\* Faulty: the next token is minted and stored before the old one is revoked.
FindToRevokeLater(r) ==
    /\ AtRevoke(r)
    /\ AfterRevoke(r, TRUE)
    /\ UNCHANGED <<now, active, tables, known, call>>

\* revoke: the select of a row that is not revoked.
FindToRevoke(r) ==
    /\ AtRevoke(r)
    /\ \/ IsLive(call[r].token) /\ Goto(r, "found") /\ UNCHANGED fresh
       \/ ~IsLive(call[r].token) /\ AfterRevoke(r, FALSE)
    /\ UNCHANGED <<now, active, tables, known, call>>

\* revoke: the commit of is_revoked.
Revoke(r) ==
    /\ pc[r] = "found"
    /\ revoked' = revoked \cup {call[r].token}
    /\ Goto(r, "revoked")
    /\ UNCHANGED <<now, account, active, stored, known, call, fresh>>

Proceed(r) ==
    /\ pc[r] = "revoked"
    /\ AfterRevoke(r, TRUE)
    /\ UNCHANGED <<now, active, tables, known, call>>

\* Faulty: the row is replaced when the hash is there already.
StoreOrReplace(r) ==
    /\ pc[r] = "minted"
    /\ stored' = stored \cup {fresh[r]}
    /\ revoked' = revoked \ {fresh[r]}
    /\ Goto(r, "stored")
    /\ UNCHANGED <<now, account, active, known, call, fresh>>

\* store_hash: the unique hash refuses a token that is there already, revoked
\* or not.
Store(r) ==
    /\ pc[r] = "minted"
    /\ \/ fresh[r] \notin stored /\ stored' = stored \cup {fresh[r]} /\ Goto(r, "stored")
       \/ fresh[r] \in stored /\ Answer(r, "conflict") /\ UNCHANGED stored
    /\ UNCHANGED <<now, account, active, revoked, known, call, fresh>>

\* The answer with the tokens.
Reply(r) ==
    /\ pc[r] = "stored"
    /\ known' = known \cup {fresh[r]}
    /\ Answer(r, "tokens")
    /\ UNCHANGED <<now, active, tables, call, fresh>>

\* A database call raises, before a commit or after one: 500, and what was
\* committed stays.
Fail(r) ==
    /\ InFlight(r)
    /\ Answer(r, "error")
    /\ UNCHANGED <<now, active, tables, known, call, fresh>>

\* The backend dies.
Crash ==
    /\ pc' = [r \in Req |-> IF InFlight(r) THEN "lost" ELSE pc[r]]
    /\ UNCHANGED <<now, active, tables, known, call, fresh, reply>>

Close(r) ==
    /\ pc[r] \in {"done", "lost"}
    /\ pc' = [pc EXCEPT ![r] = "idle"]
    /\ call' = [call EXCEPT ![r] = NoCall]
    /\ fresh' = [fresh EXCEPT ![r] = NoToken]
    /\ reply' = [reply EXCEPT ![r] = "none"]
    /\ UNCHANGED <<now, active, tables, known>>

Handle(r) ==
    \/ LookUp(r) \/ Insert(r) \/ Created(r)
    \/ LoadUser(r) \/ Validate(r) \/ CheckUser(r) \/ FindToRevoke(r)
    \/ Revoke(r) \/ Proceed(r) \/ Store(r) \/ Reply(r)

Next ==
    \/ Tick
    \/ \E u \in User : Deactivate(u)
    \/ \E r \in Req, c \in Call : Start(r, c)
    \/ \E r \in Req : Handle(r) \/ Fail(r) \/ Close(r)
    \/ Crash

Spec == Init /\ [][Next]_vars

-----------------------------------------------------------------------------
\* Types, and the order of the writes: only stored tokens are revoked, and
\* clients are only given stored ones.
TypeOK ==
    /\ now \in 0 .. MaxTime
    /\ account \in [User -> Password \cup {None}] /\ active \subseteq User
    /\ stored \subseteq Token /\ revoked \subseteq stored /\ known \subseteq stored
    /\ pc \in [Req -> {"idle", "started", "validated", "checked", "found",
                       "revoked", "minted", "stored", "free", "inserted", "done", "lost"}]
    /\ call \in [Req -> Call \cup {NoCall}]
    /\ fresh \in [Req -> Token \cup {NoToken}]
    /\ reply \in [Req -> Replies]

\* Past validation: a refresh that will end in a new token.
Redeems(r, k) ==
    /\ pc[r] \in {"validated", "checked", "found", "revoked", "minted", "stored"}
    /\ call[r].op = "refresh"
    /\ call[r].token = k

\* A refresh mints only after the token it was given is revoked: at no time, and
\* after no crash, are a token and its successor both good.
SuccessorFollowsRevocation ==
    \A r \in Req :
        pc[r] \in {"minted", "stored"} /\ call[r].op = "refresh" => call[r].token \in revoked

\* One answer per token: two logins in a second, or a refresh in the second of the
\* login, never give two clients the same session.
OneOwnerPerToken ==
    \A q, r \in Req :
        reply[q] = "tokens" /\ reply[r] = "tokens" /\ fresh[q] = fresh[r] => q = r

\* The exposure to the races is again a window: once a token is revoked and the
\* refreshes that had validated it are over, it is never good for a new one, and
\* its row never comes back to life.
SpentIsFinal ==
    [][\A k \in revoked :
          (\A r \in Req : ~Redeems(r, k)) =>
              k \in revoked' /\ \A r \in Req : ~Redeems(r, k)']_vars

\* Two registrations of one address may both find it free, and one of them may fail
\* after its insert: an account opens only to the password of the registration that
\* made it, for good, and whoever was told 201 is who made it.
AccountIsMadeOnce ==
    [][\A u \in User, r \in Req :
        /\ account[u] # None => account'[u] = account[u]
        /\ reply'[r] = "created" =>
               account'[call'[r].user] = call'[r].password]_vars
=============================================================================
