--------------------------- MODULE SessionsProofs ---------------------------
(***************************************************************************)
(* Accounts, the order of revocation and issue, the ownership of tokens    *)
(* and the end of a spent token, for any number of users, passwords and    *)
(* requests.                                                               *)
(*                                                                         *)
(* The argument: a refresh holds a token that is in the table, so that a   *)
(* revoke which finds nothing has found it revoked (Revocations); an       *)
(* insert that succeeds has made its row, and nothing overwrites one       *)
(* (Accounts, Owners); and who has validated nothing yet cannot validate   *)
(* what is revoked.                                                        *)
(***************************************************************************)
EXTENDS Sessions, TLAPS

\* Which requests can be where, and what they hold there.
Places ==
    \A r \in Req :
        /\ pc[r] \in {"validated", "checked"} => call[r].op = "refresh"
        /\ pc[r] \in {"found", "revoked"} => call[r].op \in {"refresh", "logout"}
        /\ pc[r] \in {"free", "inserted"} => call[r].op = "register"
        /\ pc[r] \in {"minted", "stored"} => fresh[r] \in Token
        /\ reply[r] # "none" => pc[r] = "done"
        /\ reply[r] = "created" => call[r].op = "register"
        /\ reply[r] = "tokens" => fresh[r] \in Token

\* A token that is asked about is in the table; one that was revoked on behalf of a
\* refresh is so before the next is minted.
Revocations ==
    \A r \in Req :
        /\ call[r].op \in {"refresh", "logout"} => call[r].token \in stored
        /\ pc[r] \in {"revoked", "minted", "stored"} /\ call[r].op = "refresh" =>
               call[r].token \in revoked

\* Who has inserted a user has made the account.
Accounts ==
    \A r \in Req :
        pc[r] = "inserted" \/ reply[r] = "created" =>
            account[call[r].user] = call[r].password

\* The request has put its token in the table, and given it to nobody or to its client.
Owns(r) == pc[r] = "stored" \/ reply[r] = "tokens"

Owners ==
    \A q, r \in Req :
        /\ Owns(q) => fresh[q] \in stored
        /\ Owns(q) /\ Owns(r) /\ fresh[q] = fresh[r] => q = r

IInv == TypeOK /\ Places /\ Revocations /\ Accounts /\ Owners

-----------------------------------------------------------------------------
\* No account, no token and no request at first: Init establishes the invariant.
LEMMA InitInv == Init => IInv
  BY SessionAssumption
  DEF Init, IInv, TypeOK, Places, Revocations, Accounts, Owners, Owns, NoCall, NoToken,
      Replies, None

\* What a request carries, by what it asks.
LEMMA CallTypes ==
  ASSUME TypeOK, NEW r \in Req
  PROVE  /\ call[r].op \in {"register", "login"} =>
               call[r].user \in User /\ call[r].password \in Password
         /\ call[r].op \in {"refresh", "logout"} =>
               call[r].token \in Token /\ call[r].token.user \in User
  BY DEF TypeOK, Call, NoCall, Token

\* A token minted now is one.
LEMMA MintedIsToken ==
  ASSUME TypeOK, NEW u \in User
  PROVE  MintedAt(u, now) \in Token
  <1>1. now + Life \in Life .. MaxTime + Life
    BY SessionAssumption DEF TypeOK
  <1> QED BY <1>1 DEF MintedAt, Token

\* What follows revoke keeps the invariant, where the token of a refresh is revoked.
LEMMA AfterRevokeKeepsInv ==
  ASSUME IInv, NEW r \in Req, NEW found \in BOOLEAN, AfterRevoke(r, found),
         pc[r] \in {"started", "checked", "revoked"},
         call[r].op = "refresh" => call[r].token \in revoked,
         UNCHANGED <<now, active, tables, known, call>>
  PROVE  IInv'
  <1> USE DEF IInv, Answer, Goto, tables
  <1>1. CASE call[r].op = "logout"
    <2>1. /\ pc' = [pc EXCEPT ![r] = "done"] /\ fresh' = fresh
          /\ reply' = [reply EXCEPT ![r] = IF found THEN "logged out" ELSE "already revoked"]
      BY <1>1 DEF AfterRevoke
    <2>2. (TypeOK /\ Places)'
      BY <2>1 DEF TypeOK, Places, Replies
    <2>3. (Revocations /\ Accounts)'
      BY <2>1 DEF TypeOK, Places, Revocations, Accounts
    <2>4. Owners'
      BY <2>1, ZenonT(60) DEF TypeOK, Places, Owners, Owns
    <2> QED BY <2>2, <2>3, <2>4
  <1>2. CASE call[r].op = "refresh"
    <2> DEFINE next == MintedAt(call[r].token.user, now)
    <2>1. next \in Token
      BY <1>2, CallTypes, MintedIsToken
    <2>2. /\ pc' = [pc EXCEPT ![r] = "minted"] /\ reply' = reply
          /\ fresh' = [fresh EXCEPT ![r] = next]
      BY <1>2 DEF AfterRevoke
    <2> HIDE DEF next
    <2>3. TypeOK'
      BY <2>1, <2>2 DEF TypeOK
    <2>4. Places'
      BY <1>2, <2>1, <2>2 DEF TypeOK, Places
    <2>5. (Revocations /\ Accounts)'
      BY <1>2, <2>2 DEF TypeOK, Places, Revocations, Accounts
    <2>6. \A q \in Req : Owns(q)' => q # r /\ Owns(q) /\ fresh'[q] = fresh[q]
      BY <2>2 DEF TypeOK, Places, Owns
    <2>7. Owners'
      BY <2>6 DEF Owners
    <2> QED BY <2>3, <2>4, <2>5, <2>7
  <1> QED BY <1>1, <1>2 DEF AfterRevoke

\* Every step of a handler, of a client, of an administrator and of the clock keeps each
\* part of the invariant.
LEMMA StepInv == IInv /\ [Next]_vars => IInv'
  <1> SUFFICES ASSUME IInv, [Next]_vars PROVE IInv'
    OBVIOUS
  <1> USE DEF IInv, Goto, Answer, tables
  <1>1. CASE UNCHANGED vars
    <2> USE <1>1 DEF vars
    <2>1. TypeOK'
      BY DEF TypeOK, Places, Revocations, Owners, Owns, NoCall, NoToken, Replies
    <2>2. Places'
      BY DEF TypeOK, Places, NoCall
    <2>3. Revocations'
      BY DEF TypeOK, Places, Revocations
    <2>4. Accounts'
      BY DEF TypeOK, Places, Accounts, Call, NoCall, None
    <2>5. Owners'
      BY DEF TypeOK, Places, Owners, Owns
    <2> QED BY <2>1, <2>2, <2>3, <2>4, <2>5
  <1>2. CASE Tick
    <2> USE <1>2 DEF Tick
    <2>1. TypeOK'
      <3>1. now' \in 0 .. MaxTime
        BY SessionAssumption DEF TypeOK
      <3> QED BY <3>1 DEF TypeOK
    <2>2. Places'
      BY SessionAssumption DEF TypeOK, Places, NoCall
    <2>3. Revocations'
      BY DEF TypeOK, Places, Revocations
    <2>4. Accounts'
      BY DEF TypeOK, Places, Accounts, Call, NoCall, None
    <2>5. Owners'
      BY DEF TypeOK, Places, Owners, Owns
    <2> QED BY <2>1, <2>2, <2>3, <2>4, <2>5
  <1>3. ASSUME NEW u \in User, Deactivate(u) PROVE IInv'
    <2> USE <1>3 DEF Deactivate
    <2>1. TypeOK'
      BY DEF TypeOK, Places, Revocations, Owners, Owns, NoCall, NoToken, Replies
    <2>2. Places'
      BY DEF TypeOK, Places, NoCall
    <2>3. Revocations'
      BY DEF TypeOK, Places, Revocations
    <2>4. Accounts'
      BY DEF TypeOK, Places, Accounts, Call, NoCall, None
    <2>5. Owners'
      BY DEF TypeOK, Places, Owners, Owns
    <2> QED BY <2>1, <2>2, <2>3, <2>4, <2>5
  <1>4. ASSUME NEW r \in Req, NEW c \in Call, Start(r, c) PROVE IInv'
    <2> USE <1>4 DEF Start
    <2>1. TypeOK'
      BY DEF TypeOK, Places, Revocations, Owners, Owns, NoCall, NoToken, Replies
    <2>2. Places'
      BY DEF TypeOK, Places, NoCall
    <2>3. Revocations'
      BY DEF TypeOK, Places, Revocations
    <2>4. Accounts'
      BY DEF TypeOK, Places, Accounts, Call, NoCall, None
    <2>5. Owners'
      BY DEF TypeOK, Places, Owners, Owns
    <2> QED BY <2>1, <2>2, <2>3, <2>4, <2>5
  <1>5. ASSUME NEW r \in Req, LookUp(r) PROVE IInv'
    <2> USE <1>5 DEF LookUp
    <2>1. TypeOK'
      BY DEF TypeOK, Places, Revocations, Owners, Owns, NoCall, NoToken, Replies
    <2>2. Places'
      BY DEF TypeOK, Places, NoCall
    <2>3. Revocations'
      BY DEF TypeOK, Places, Revocations
    <2>4. Accounts'
      BY DEF TypeOK, Places, Accounts, Call, NoCall, None
    <2>5. Owners'
      BY DEF TypeOK, Places, Owners, Owns
    <2> QED BY <2>1, <2>2, <2>3, <2>4, <2>5
  <1>6. ASSUME NEW r \in Req, Insert(r) PROVE IInv'
    <2> USE <1>6 DEF Insert
    <2>1. TypeOK'
      BY CallTypes, ZenonT(60) DEF TypeOK, Places, Revocations, Owners, Owns, NoCall, NoToken, Replies
    <2>2. Places'
      BY CallTypes DEF TypeOK, Places, NoCall
    <2>3. Revocations'
      BY DEF TypeOK, Places, Revocations
    <2>4. Accounts'
      <3>1. account[call[r].user] = None =>
               /\ account'[call[r].user] = call[r].password
               /\ \A u \in User : account[u] # None => account'[u] = account[u]
        BY CallTypes DEF TypeOK, Places
      <3>2. \A q \in Req : pc[q] = "inserted" \/ reply[q] = "created" =>
               /\ call[q].user \in User
               /\ account[call[q].user] # None
        BY CallTypes, SessionAssumption DEF TypeOK, Places, Accounts, None
      <3>3. CASE account[call[r].user] = None /\ pc' = [pc EXCEPT ![r] = "inserted"] /\ reply' = reply
        BY <3>1, <3>2, <3>3 DEF TypeOK, Accounts
      <3>4. CASE Answer(r, "conflict") /\ account' = account
        BY <3>4 DEF TypeOK, Accounts
      <3> QED BY <3>3, <3>4
    <2>5. Owners'
      BY DEF TypeOK, Places, Owners, Owns
    <2> QED BY <2>1, <2>2, <2>3, <2>4, <2>5
  <1>7. ASSUME NEW r \in Req, Created(r) PROVE IInv'
    <2> USE <1>7 DEF Created
    <2>1. TypeOK'
      BY DEF TypeOK, Places, Revocations, Owners, Owns, NoCall, NoToken, Replies
    <2>2. Places'
      BY DEF TypeOK, Places, NoCall
    <2>3. Revocations'
      BY DEF TypeOK, Places, Revocations
    <2>4. Accounts'
      BY DEF TypeOK, Places, Accounts, Call, NoCall, None
    <2>5. Owners'
      BY DEF TypeOK, Places, Owners, Owns
    <2> QED BY <2>1, <2>2, <2>3, <2>4, <2>5
  <1>8. ASSUME NEW r \in Req, LoadUser(r) PROVE IInv'
    <2> USE <1>8 DEF LoadUser
    <2>0. Knows(call[r]) => MintedAt(call[r].user, now) \in Token
      BY CallTypes, MintedIsToken DEF AfterRevoke
    <2>1. TypeOK'
      <3>1. fresh' \in [Req -> Token \cup {NoToken}]
        BY <2>0 DEF TypeOK
      <3>2. pc' \in [Req -> {"idle", "started", "validated", "checked", "found", "revoked",
                           "minted", "stored", "free", "inserted", "done", "lost"}]
            /\ reply' \in [Req -> Replies]
        BY DEF TypeOK, Replies
      <3> QED BY <3>1, <3>2 DEF TypeOK
    <2>2. Places'
      BY <2>0, CallTypes DEF TypeOK, Places, NoCall
    <2>3. Revocations'
      BY DEF TypeOK, Places, Revocations
    <2>4. Accounts'
      BY DEF TypeOK, Places, Accounts, Call, NoCall, None
    <2>5. Owners'
      BY DEF TypeOK, Places, Owners, Owns
    <2> QED BY <2>1, <2>2, <2>3, <2>4, <2>5
  <1>9. ASSUME NEW r \in Req, Validate(r) PROVE IInv'
    <2> USE <1>9 DEF Validate, IsLive, MayBeUsed, MayExpire
    <2>1. TypeOK'
      BY DEF TypeOK, Places, Revocations, Owners, Owns, NoCall, NoToken, Replies
    <2>2. Places'
      BY DEF TypeOK, Places, NoCall
    <2>3. Revocations'
      BY DEF TypeOK, Places, Revocations
    <2>4. Accounts'
      BY DEF TypeOK, Places, Accounts, Call, NoCall, None
    <2>5. Owners'
      BY DEF TypeOK, Places, Owners, Owns
    <2> QED BY <2>1, <2>2, <2>3, <2>4, <2>5
  <1>10. ASSUME NEW r \in Req, CheckUser(r) PROVE IInv'
    <2> USE <1>10 DEF CheckUser
    <2>1. TypeOK'
      BY DEF TypeOK, Places, Revocations, Owners, Owns, NoCall, NoToken, Replies
    <2>2. Places'
      BY DEF TypeOK, Places, NoCall
    <2>3. Revocations'
      BY DEF TypeOK, Places, Revocations
    <2>4. Accounts'
      BY DEF TypeOK, Places, Accounts, Call, NoCall, None
    <2>5. Owners'
      BY DEF TypeOK, Places, Owners, Owns
    <2> QED BY <2>1, <2>2, <2>3, <2>4, <2>5
  <1>11. ASSUME NEW r \in Req, FindToRevoke(r) PROVE IInv'
    <2> USE <1>11 DEF FindToRevoke, AtRevoke, IsLive
    <2>1. CASE IsLive(call[r].token) /\ Goto(r, "found") /\ UNCHANGED fresh
      <3> USE <2>1
      <3>1. TypeOK'
        BY DEF TypeOK
      <3>2. Places'
        BY DEF TypeOK, Places
      <3>3. Revocations'
        BY DEF TypeOK, Places, Revocations
      <3>4. Accounts'
        BY DEF TypeOK, Places, Accounts
      <3>5. Owners'
        BY DEF TypeOK, Places, Owners, Owns
      <3> QED BY <3>1, <3>2, <3>3, <3>4, <3>5
    <2>2. CASE ~IsLive(call[r].token) /\ AfterRevoke(r, FALSE)
      <3>1. pc[r] \in {"started", "checked"} /\ call[r].token \in revoked
        BY <2>2 DEF Places, Revocations
      <3> QED BY <2>2, <3>1, AfterRevokeKeepsInv
    <2> QED BY <2>1, <2>2
  <1>12. ASSUME NEW r \in Req, Revoke(r) PROVE IInv'
    <2> USE <1>12 DEF Revoke
    <2>1. TypeOK'
      BY CallTypes DEF TypeOK, Places, Revocations, Owners, Owns, NoCall, NoToken, Replies
    <2>2. Places'
      BY CallTypes DEF TypeOK, Places, NoCall
    <2>3. Revocations'
      BY DEF TypeOK, Places, Revocations
    <2>4. Accounts'
      BY DEF TypeOK, Places, Accounts, Call, NoCall, None
    <2>5. Owners'
      BY DEF TypeOK, Places, Owners, Owns
    <2> QED BY <2>1, <2>2, <2>3, <2>4, <2>5
  <1>13. ASSUME NEW r \in Req, Proceed(r) PROVE IInv'
    BY <1>13, AfterRevokeKeepsInv DEF Proceed, Revocations
  <1>14. ASSUME NEW r \in Req, Store(r) PROVE IInv'
    <2> USE <1>14 DEF Store
    <2>1. TypeOK'
      BY DEF TypeOK, Places, Revocations, Owners, Owns, NoCall, NoToken, Replies
    <2>2. Places'
      BY DEF TypeOK, Places, NoCall
    <2>3. Revocations'
      BY DEF TypeOK, Places, Revocations
    <2>4. Accounts'
      BY DEF TypeOK, Places, Accounts, Call, NoCall, None
    <2>5. Owners'
      BY DEF TypeOK, Places, Owners, Owns
    <2> QED BY <2>1, <2>2, <2>3, <2>4, <2>5
  <1>15. ASSUME NEW r \in Req, Reply(r) PROVE IInv'
    <2> USE <1>15 DEF Reply
    <2>1. TypeOK'
      BY DEF TypeOK, Places, Revocations, Owners, Owns, NoCall, NoToken, Replies
    <2>2. Places'
      BY DEF TypeOK, Places, NoCall
    <2>3. Revocations'
      BY DEF TypeOK, Places, Revocations
    <2>4. Accounts'
      BY DEF TypeOK, Places, Accounts, Call, NoCall, None
    <2>5. Owners'
      BY DEF TypeOK, Places, Owners, Owns
    <2> QED BY <2>1, <2>2, <2>3, <2>4, <2>5
  <1>16. ASSUME NEW r \in Req, Fail(r) PROVE IInv'
    <2> USE <1>16 DEF Fail, InFlight
    <2>1. TypeOK'
      BY DEF TypeOK, Places, Revocations, Owners, Owns, NoCall, NoToken, Replies
    <2>2. Places'
      BY DEF TypeOK, Places, NoCall
    <2>3. Revocations'
      BY DEF TypeOK, Places, Revocations
    <2>4. Accounts'
      BY DEF TypeOK, Places, Accounts, Call, NoCall, None
    <2>5. Owners'
      BY DEF TypeOK, Places, Owners, Owns
    <2> QED BY <2>1, <2>2, <2>3, <2>4, <2>5
  <1>17. ASSUME NEW r \in Req, Close(r) PROVE IInv'
    <2> USE <1>17 DEF Close, NoCall, NoToken
    <2>1. TypeOK'
      BY DEF TypeOK, Places, Revocations, Owners, Owns, NoCall, NoToken, Replies
    <2>2. Places'
      BY DEF TypeOK, Places, NoCall
    <2>3. Revocations'
      BY DEF TypeOK, Places, Revocations
    <2>4. Accounts'
      BY DEF TypeOK, Places, Accounts, Call, NoCall, None
    <2>5. Owners'
      BY DEF TypeOK, Places, Owners, Owns
    <2> QED BY <2>1, <2>2, <2>3, <2>4, <2>5
  <1>18. CASE Crash
    <2> USE <1>18 DEF Crash, InFlight
    <2>1. TypeOK'
      BY DEF TypeOK, Places, Revocations, Owners, Owns, NoCall, NoToken, Replies
    <2>2. Places'
      BY DEF TypeOK, Places, NoCall
    <2>3. Revocations'
      BY DEF TypeOK, Places, Revocations
    <2>4. Accounts'
      BY DEF TypeOK, Places, Accounts, Call, NoCall, None
    <2>5. Owners'
      BY DEF TypeOK, Places, Owners, Owns
    <2> QED BY <2>1, <2>2, <2>3, <2>4, <2>5
  <1> QED
    BY <1>1, <1>2, <1>3, <1>4, <1>5, <1>6, <1>7, <1>8, <1>9, <1>10, <1>11, <1>12, <1>13, <1>14, <1>15, <1>16, <1>17, <1>18 DEF Next, Handle

\* The invariant holds throughout.
THEOREM Invariance == Spec => []IInv
  BY InitInv, StepInv, PTL DEF Spec

-----------------------------------------------------------------------------
\* For any number of users and requests: the types of Sessions, and only stored tokens
\* are revoked or given out.
THEOREM TypeCorrect == Spec => []TypeOK
  <1>1. IInv => TypeOK
    BY DEF IInv
  <1> QED BY <1>1, Invariance, PTL

\* For any number of users and requests: /auth/refresh mints the next token when the
\* old one is revoked, never before.
THEOREM SuccessorsFollow == Spec => []SuccessorFollowsRevocation
  <1>1. IInv => SuccessorFollowsRevocation
    BY DEF IInv, Revocations, SuccessorFollowsRevocation
  <1> QED BY <1>1, Invariance, PTL

\* For any number of users and requests: no two answers carry the same refresh token,
\* although a token has nothing random in it.
THEOREM TokensHaveOneOwner == Spec => []OneOwnerPerToken
  <1>1. IInv => OneOwnerPerToken
    BY DEF IInv, Owners, Owns, OneOwnerPerToken
  <1> QED BY <1>1, Invariance, PTL

\* For any number of users and requests: registrations that race for an address make
\* one account, with the password of the one that is told so.
THEOREM AccountsMadeOnce == Spec => AccountIsMadeOnce
  <1>1. ASSUME IInv, IInv', Next, NEW u \in User, account[u] # None
        PROVE  account'[u] = account[u]
    <2>1. CASE UNCHANGED account
      BY <2>1
    <2>2. ASSUME NEW r \in Req, Insert(r) PROVE account'[u] = account[u]
      BY <1>1, <2>2 DEF Insert, IInv, TypeOK
    <2> QED
      BY <1>1, <2>1, <2>2
      DEF Next, Handle, Tick, Deactivate, Start, LookUp, Created, LoadUser, Validate, CheckUser,
          FindToRevoke, Revoke, Proceed, Store, Reply, Fail, Close, Crash, tables
  <1>2. ASSUME IInv', NEW r \in Req, reply'[r] = "created"
        PROVE  account'[call'[r].user] = call'[r].password
    BY <1>2 DEF IInv, Accounts
  <1>3. IInv /\ IInv' /\ [Next]_vars =>
           [\A u \in User, r \in Req :
              /\ account[u] # None => account'[u] = account[u]
              /\ reply'[r] = "created" =>
                     account'[call'[r].user] = call'[r].password]_vars
    BY <1>1, <1>2
  <1> QED BY <1>3, Invariance, PTL DEF Spec, AccountIsMadeOnce

\* A request that redeems a revoked token after a step has validated it before.
LEMMA SpentStaysSpent ==
  ASSUME IInv, Next, NEW k \in revoked, NEW r \in Req, Redeems(r, k)'
  PROVE  Redeems(r, k)
  <1> USE DEF IInv, TypeOK, Redeems, Goto, Answer
  <1>1. ASSUME NEW c \in Call, NEW q \in Req, Start(q, c) PROVE Redeems(r, k)
    BY <1>1 DEF Start
  <1>2. ASSUME NEW q \in Req, Validate(q) PROVE Redeems(r, k)
    BY <1>2 DEF Validate, IsLive
  <1>3. ASSUME NEW q \in Req, CheckUser(q) PROVE Redeems(r, k)
    BY <1>3 DEF CheckUser
  <1>4. ASSUME NEW q \in Req, FindToRevoke(q) \/ Revoke(q) \/ Proceed(q) PROVE Redeems(r, k)
    BY <1>4 DEF FindToRevoke, Revoke, Proceed, AtRevoke, AfterRevoke, IsLive
  <1>5. ASSUME NEW q \in Req, LoadUser(q) \/ Store(q) \/ Reply(q) PROVE Redeems(r, k)
    BY <1>5 DEF LoadUser, Store, Reply
  <1>6. ASSUME NEW q \in Req, LookUp(q) \/ Insert(q) \/ Created(q) PROVE Redeems(r, k)
    BY <1>6 DEF LookUp, Insert, Created
  <1>7. ASSUME NEW q \in Req, Fail(q) \/ Close(q) PROVE Redeems(r, k)
    BY <1>7 DEF Fail, Close
  <1>8. ASSUME NEW u \in User, Deactivate(u) PROVE Redeems(r, k)
    BY <1>8 DEF Deactivate
  <1>9. CASE Tick
    BY <1>9 DEF Tick
  <1>10. CASE Crash
    BY <1>10 DEF Crash
  <1> QED
    BY <1>1, <1>2, <1>3, <1>4, <1>5, <1>6, <1>7, <1>8, <1>9, <1>10 DEF Next, Handle

\* For any number of users and requests: a revoked token that no refresh has validated
\* is never good again, in the table or for a new token.
THEOREM SpentForGood == Spec => SpentIsFinal
  <1>1. ASSUME IInv, Next, NEW k \in revoked PROVE k \in revoked'
    BY <1>1 DEF Next, Handle, Tick, Deactivate, Start, LookUp, Insert, Created, LoadUser,
                Validate, CheckUser, FindToRevoke, Revoke, Proceed, Store, Reply, Fail, Close,
                Crash, tables
  <1>2. ASSUME IInv, [Next]_vars, vars' # vars,
               NEW k \in revoked, \A r \in Req : ~Redeems(r, k)
        PROVE  k \in revoked' /\ \A r \in Req : ~Redeems(r, k)'
    BY <1>1, <1>2, SpentStaysSpent
  <1>3. IInv /\ [Next]_vars =>
           [\A k \in revoked :
              (\A r \in Req : ~Redeems(r, k)) =>
                  k \in revoked' /\ \A r \in Req : ~Redeems(r, k)']_vars
    BY <1>2
  <1> QED BY <1>3, Invariance, PTL DEF Spec, SpentIsFinal
=============================================================================
