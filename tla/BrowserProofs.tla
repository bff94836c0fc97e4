--------------------------- MODULE BrowserProofs ---------------------------
(***************************************************************************)
(* The ways in which the browser loses a token the backend still accepts,  *)
(* for any number of tabs and of tokens.                                   *)
(*                                                                         *)
(* The argument: a submission is refused because its token is not good,    *)
(* and tokens that are not good stay so, because a login issues a new one. *)
(***************************************************************************)
EXTENDS Browser, TLAPS

\* Types: every token was issued, and what is stored or sent is a token or 0.
TypeInv ==
    /\ issued \in Nat
    /\ good \subseteq 1 .. issued
    /\ store \in 0 .. issued
    /\ page \in [Tab -> {"app", "login"}]
    /\ user \in [Tab -> BOOLEAN]
    /\ login \in [Tab -> BOOLEAN]
    /\ post \in [Tab -> {NoPost} \cup
                        [pc : {"sent", "served", "refused", "failed"}, token : 0 .. issued]]

\* What get_current_user has refused is not good, and never will be again.
RefusedIsBad ==
    \A t \in Tab : post[t].pc = "refused" => post[t].token \notin good

IInv == TypeInv /\ RefusedIsBad

-----------------------------------------------------------------------------
\* No token is issued or stored at first, and nothing was refused: Init of Browser
\* establishes the inductive invariant.
LEMMA InitInv == Init => IInv
  BY DEF Init, IInv, TypeInv, RefusedIsBad, NoPost

\* A page load changes only what its tab keeps, and leaves no submission there.
LEMMA LoadKeepsInv ==
  ASSUME IInv, NEW t \in Tab, NEW to \in {"login", "app"}, NEW stored,
         Load(t, to, stored), UNCHANGED <<good, issued>>, store' \in {0, store}
  PROVE  IInv'
  <1>1. TypeInv'
    BY DEF IInv, TypeInv, Load, NoPost
  <1>2. RefusedIsBad'
    BY DEF IInv, TypeInv, RefusedIsBad, Load, NoPost
  <1> QED BY <1>1, <1>2 DEF IInv

\* Every step of every tab, of the clock and of the backend keeps the invariant.
LEMMA StepInv == IInv /\ [Next]_vars => IInv'
  <1> SUFFICES ASSUME IInv, [Next]_vars PROVE IInv'
    OBVIOUS
  <1> USE DEF IInv
  <1>1. CASE UNCHANGED vars
    BY <1>1 DEF vars, TypeInv, RefusedIsBad
  <1>2. ASSUME NEW token \in good, Expire(token) PROVE IInv'
    BY <1>2 DEF Expire, TypeInv, RefusedIsBad
  <1>3. ASSUME NEW t \in Tab, Open(t) PROVE IInv'
    BY <1>3, LoadKeepsInv DEF Open
  <1>4. ASSUME NEW t \in Tab, Enter(t) PROVE IInv'
    BY <1>4 DEF Enter, TypeInv, RefusedIsBad
  <1>5. ASSUME NEW t \in Tab, Logout(t) PROVE IInv'
    BY <1>5 DEF Logout, TypeInv, RefusedIsBad
  <1>6. ASSUME NEW t \in Tab, LoginSend(t) PROVE IInv'
    BY <1>6 DEF LoginSend, TypeInv, RefusedIsBad
  <1>7. ASSUME NEW t \in Tab, LoginEnds(t) PROVE IInv'
    <2>1. issued' = issued + 1 /\ good' = good \cup {issued + 1} /\ post' = post
      BY <1>7 DEF LoginEnds
    <2>2. TypeInv'
      <3>1. good' \subseteq 1 .. issued' /\ store' \in 0 .. issued' /\ issued' \in Nat
        BY <1>7, <2>1 DEF LoginEnds, TypeInv
      <3>2. /\ page' \in [Tab -> {"app", "login"}] /\ user' \in [Tab -> BOOLEAN]
            /\ login' \in [Tab -> BOOLEAN]
        BY <1>7 DEF LoginEnds, TypeInv
      <3>3. 0 .. issued \subseteq 0 .. issued'
        BY <2>1 DEF TypeInv
      <3>4. post' \in [Tab -> {NoPost} \cup
                [pc : {"sent", "served", "refused", "failed"}, token : 0 .. issued']]
        BY <2>1, <3>3 DEF TypeInv
      <3> QED BY <3>1, <3>2, <3>4 DEF TypeInv
    <2>3. ASSUME NEW q \in Tab, post'[q].pc = "refused" PROVE post'[q].token \notin good'
      <3>1. post[q].token \in 0 .. issued /\ post[q].token \notin good
        BY <2>1, <2>3 DEF TypeInv, RefusedIsBad, NoPost
      <3> QED BY <2>1, <3>1 DEF TypeInv
    <2> QED BY <2>2, <2>3 DEF RefusedIsBad
  <1>8. ASSUME NEW t \in Tab, LoginRefused(t) PROVE IInv'
    <2>1. CASE page[t] = "app"
      BY <1>8, <2>1, LoadKeepsInv DEF LoginRefused
    <2>2. CASE page[t] # "app"
      <3>1. /\ store' = 0 /\ login' = [login EXCEPT ![t] = FALSE]
            /\ UNCHANGED <<good, issued, page, user, post>>
        BY <1>8, <2>2 DEF LoginRefused
      <3> QED BY <3>1 DEF TypeInv, RefusedIsBad
    <2> QED BY <2>1, <2>2
  <1>9. ASSUME NEW t \in Tab, PostSend(t) PROVE IInv'
    BY <1>9 DEF PostSend, TypeInv, RefusedIsBad, NoPost
  <1>10. ASSUME NEW t \in Tab, PostServe(t) PROVE IInv'
    <2>1. PICK pc \in {"failed", IF post[t].token \in good THEN "served" ELSE "refused"} :
             post' = [post EXCEPT ![t].pc = pc]
      BY <1>10 DEF PostServe
    <2>2. post[t] \in [pc : {"sent", "served", "refused", "failed"}, token : 0 .. issued]
      BY <1>10 DEF PostServe, TypeInv, NoPost
    <2>3. post'[t].pc = pc /\ post'[t].token = post[t].token
      BY <2>1, <2>2 DEF TypeInv
    <2>4. TypeInv'
      BY <1>10, <2>1, <2>2 DEF PostServe, TypeInv
    <2>5. RefusedIsBad'
      BY <1>10, <2>1, <2>3 DEF PostServe, TypeInv, RefusedIsBad
    <2> QED BY <2>4, <2>5
  <1>11. ASSUME NEW t \in Tab, PostEnds(t) PROVE IInv'
    <2>1. CASE Unauthorized(post[t].pc) /\ page[t] = "app"
      BY <1>11, <2>1, LoadKeepsInv DEF PostEnds
    <2>2. CASE ~(Unauthorized(post[t].pc) /\ page[t] = "app")
      BY <1>11, <2>2 DEF PostEnds, TypeInv, RefusedIsBad, NoPost
    <2> QED BY <2>1, <2>2
  <1> QED
    BY <1>1, <1>2, <1>3, <1>4, <1>5, <1>6, <1>7, <1>8, <1>9, <1>10, <1>11 DEF Next

\* The invariant holds throughout.
THEOREM Invariance == Spec => []IInv
  BY InitInv, StepInv, PTL DEF Spec

-----------------------------------------------------------------------------
\* The causes that GoodTokenIsKept admits.
LosesGoodToken(t) ==
    \/ Logout(t) \/ LoginEnds(t) \/ LoginRefused(t)
    \/ PostEnds(t) /\ post[t].token # store

\* One step of GoodTokenIsKept: the answer to a submission empties localStorage only
\* when it was refused, and then its token is not good.
LEMMA StepKeepsGoodToken ==
  ASSUME IInv, [Next]_vars, store \in good, store' # store
  PROVE  \E t \in Tab : LosesGoodToken(t)
  <1>1. PICK t \in Tab : Logout(t) \/ LoginEnds(t) \/ LoginRefused(t) \/ PostEnds(t)
    BY DEF Next, vars, Expire, Open, Enter, LoginSend, PostSend, PostServe
  <1>2. ASSUME PostEnds(t) PROVE post[t].token # store
    <2>1. post[t].pc = "refused"
      BY <1>2 DEF PostEnds, Unauthorized
    <2> QED BY <2>1 DEF IInv, RefusedIsBad
  <1> QED BY <1>1, <1>2 DEF LosesGoodToken

\* For any number of tabs and tokens: a token that the backend accepts is lost to a
\* logout, a login, a wrong password or the 401 of a submission with another token,
\* and to nothing else.
THEOREM GoodTokenKept == Spec => GoodTokenIsKept
  <1>1. IInv /\ [Next]_vars =>
           [(store \in good /\ store' # store) =>
               \E t \in Tab :
                   \/ Logout(t) \/ LoginEnds(t) \/ LoginRefused(t)
                   \/ PostEnds(t) /\ post[t].token # store]_vars
    BY StepKeepsGoodToken DEF LosesGoodToken
  <1> QED BY <1>1, Invariance, PTL DEF Spec, GoodTokenIsKept
=============================================================================
