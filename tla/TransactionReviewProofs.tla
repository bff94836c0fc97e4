----------------------- MODULE TransactionReviewProofs -----------------------
(***************************************************************************)
(* Proofs about TransactionReview for any transactions, requests and seed. *)
(***************************************************************************)
EXTENDS TransactionReview, TLAPS

\* A token request past its check carries a token that exists and whose action
\* is the one asked for.
CheckedTokens ==
    \A r \in Req :
        /\ pc[r] \in {"vouched", "loaded", "committed"}
        /\ call[r].via = "token"
        => TokenOf(r) \in Token /\ call[r].link = call[r].action

\* A request that has loaded its transaction has read a pending row.
SeenPending == \A r \in Req : pc[r] = "loaded" => seen[r] \in {"PENDING", "pending"}

TypeInv == TypeOK /\ CheckedTokens /\ SeenPending

\* The decision of r is on record.
OnRecord(r) ==
    LET t == call[r].txn IN
    /\ Decided(t)
    /\ \/ \E i \in DOMAIN trail[t] :
             trail[t][i].by = r /\ trail[t][i].new = Verdict(call[r].action)
       \/ call[r].via = "token" /\ TokenOf(r) \in used

\* AckIsOnRecord, from the commit on.
CommittedOnRecord ==
    \A r \in Req :
        /\ pc[r] = "committed" => OnRecord(r)
        /\ reply[r] = 200 => pc[r] = "done" /\ OnRecord(r)

\* OneRowPerRequest, and why: who still holds a transaction has no row on it.
HolderHasNoRow ==
    \A t \in Txn : \A r \in Req :
        Holds(r, t) => \A i \in DOMAIN trail[t] : trail[t][i].by # r

IInv ==
    /\ TypeInv
    /\ OnlyFlaggedReviewed
    /\ PendingIsUntouched
    /\ VerdictIsBacked
    /\ CommittedOnRecord
    /\ HolderHasNoRow
    /\ OneRowPerRequest
    /\ TrailMatchesStatus

-----------------------------------------------------------------------------
\* What the handlers' comparisons of lower-case strings tell apart.
LEMMA PendingStrings ==
    ASSUME NEW t \in Txn, TypeOK
    PROVE  /\ IsPending(t) <=> status[t] \in {"PENDING", "pending"}
           /\ status[t] \in {"none", "AUTO_APPROVED"} \/ IsPending(t) \/ Decided(t)
BY DEF TypeOK, IsPending, Lower, StoredStatus, Decided

\* A verdict is one of two values.
LEMMA VerdictValues ==
    ASSUME NEW a \in Action
    PROVE  Verdict(a) \in {"approved", "rejected"}
BY DEF Verdict

\* Types hold at the start,
LEMMA TypeInit == Init => TypeInv
BY ReviewAssumption DEF Init, TypeInv, TypeOK, CheckedTokens, SeenPending, StoredStatus

\* and every step keeps them.
LEMMA TypeStep == TypeInv /\ [Next]_vars => TypeInv'
<1> SUFFICES ASSUME TypeInv, [Next]_vars
             PROVE  TypeInv'
  OBVIOUS
<1> USE DEF TypeInv, TypeOK, CheckedTokens, SeenPending
<1>1. ASSUME NEW t \in Txn, NEW flagged \in BOOLEAN, Create(t, flagged)
      PROVE  TypeInv'
  BY <1>1 DEF Create, StoredStatus, TokenOf
<1>2. ASSUME NEW t \in Txn, Expire(t)
      PROVE  TypeInv'
  BY <1>2 DEF Expire, TokenOf
<1>3. ASSUME NEW r \in Req, NEW c \in Call, Start(r, c)
      PROVE  TypeInv'
  BY <1>3 DEF Start, TokenOf
<1>4. ASSUME NEW r \in Req, CheckToken(r)
      PROVE  TypeInv'
  <2>1. CASE TokenIsValid(r) /\ pc' = [pc EXCEPT ![r] = "vouched"] /\ UNCHANGED reply
    BY <1>4, <2>1 DEF CheckToken, TokenIsValid, TokenOf
  <2>2. CASE Answer(r, 400)
    BY <1>4, <2>2 DEF CheckToken, Answer, TokenOf
  <2>3. QED
    BY <1>4, <2>1, <2>2 DEF CheckToken
<1>5. ASSUME NEW r \in Req, Load(r)
      PROVE  TypeInv'
  <2>1. call[r] \in Call /\ call[r].txn \in Txn
    <3>1. pc[r] # "idle"
      BY <1>5 DEF Load, AtLoad
    <3>2. QED
      BY <3>1 DEF Call
  <2>2. ASSUME NEW code \in {400, 404}, Answer(r, code), UNCHANGED seen
        PROVE  TypeInv'
    <3>1. UNCHANGED <<status, trail, used, expired, call, overlap>>
      BY <1>5 DEF Load
    <3>2. TypeOK'
      BY <2>1, <2>2, <3>1 DEF Answer
    <3>3. CheckedTokens' /\ SeenPending'
      BY <2>2, <3>1 DEF Answer, TokenOf
    <3>4. QED
      BY <3>2, <3>3
  <2>3. CASE /\ pc' = [pc EXCEPT ![r] = "loaded"]
             /\ seen' = [seen EXCEPT ![r] = status[call[r].txn]]
             /\ UNCHANGED reply
    <3>1. IsPending(call[r].txn)
      BY <1>5, <2>1, <2>3 DEF Load, Answer
    <3>2. status[call[r].txn] \in {"PENDING", "pending"}
      BY <3>1, <2>1, PendingStrings
    <3>3. TypeOK'
      BY <1>5, <2>1, <2>3, <3>2 DEF Load
    <3>4. CheckedTokens'
      BY <1>5, <2>1, <2>3 DEF Load, AtLoad, TokenOf
    <3>5. SeenPending'
      BY <1>5, <2>3, <3>2 DEF Load
    <3>6. QED
      BY <3>3, <3>4, <3>5
  <2>4. QED
    BY <1>5, <2>2, <2>3 DEF Load
<1>6. ASSUME NEW r \in Req, Commit(r)
      PROVE  TypeInv'
  <2> DEFINE t == call[r].txn
             row == [by |-> r, old |-> seen[r], new |-> Verdict(call[r].action)]
  <2>1. call[r] \in Call /\ t \in Txn /\ call[r].action \in Action
    BY <1>6 DEF Commit, Call
  <2>2. status' \in [Txn -> StoredStatus \cup {"none"}]
    BY <1>6, <2>1, VerdictValues DEF Commit, StoredStatus
  <2>3. trail' \in [Txn -> Seq(Row)]
    <3>1. CASE UNCHANGED trail
      BY <3>1
    <3>2. CASE trail' = [trail EXCEPT ![t] = Append(@, row)]
      <4>1. seen[r] \in StoredStatus
        BY <1>6 DEF Commit, StoredStatus
      <4>2. row \in Row
        BY <4>1, <2>1, VerdictValues DEF Row
      <4>3. Append(trail[t], row) \in Seq(Row)
        BY <4>2, <2>1
      <4>4. QED
        BY <3>2, <4>3
    <3>3. QED
      BY <1>6, <3>1, <3>2 DEF Commit
  <2>4. used' \subseteq Token
    BY <1>6 DEF Commit
  <2>5. QED
    BY <1>6, <2>2, <2>3, <2>4 DEF Commit, TokenOf
<1>7. ASSUME NEW r \in Req, Reply(r)
      PROVE  TypeInv'
  BY <1>7 DEF Reply, Answer, TokenOf
<1>8. ASSUME NEW r \in Req, Fail(r)
      PROVE  TypeInv'
  BY <1>8 DEF Fail, InFlight, Answer, TokenOf
<1>9. ASSUME NEW r \in Req, Close(r)
      PROVE  TypeInv'
  BY <1>9 DEF Close, TokenOf
<1>10. ASSUME Crash
       PROVE  TypeInv'
  BY <1>10 DEF Crash, InFlight, TokenOf
<1>11. ASSUME UNCHANGED vars
       PROVE  TypeInv'
  BY <1>11 DEF vars, TokenOf
<1>12. QED
  BY <1>1, <1>2, <1>3, <1>4, <1>5, <1>6, <1>7, <1>8, <1>9, <1>10, <1>11
     DEF Next, Handle

\* Every variable keeps its type: in particular a token that does not exist is
\* never marked used, and an audit row carries the outcome it was written for.
THEOREM TypeCorrect == Spec => []TypeOK
<1>1. Spec => []TypeInv
  BY TypeInit, TypeStep, PTL DEF Spec
<1>2. TypeInv => TypeOK
  BY DEF TypeInv
<1>3. QED
  BY <1>1, <1>2, PTL

-----------------------------------------------------------------------------
\* Nothing has been decided at the start.
LEMMA SafetyInit == Init => IInv
BY TypeInit, ReviewAssumption
   DEF Init, IInv, OnlyFlaggedReviewed, PendingIsUntouched, VerdictIsBacked,
       CommittedOnRecord, HolderHasNoRow, OneRowPerRequest, TrailMatchesStatus,
       Holds, Decided, Verdict, Action

\* A step that writes no row, and lets no handler hold a transaction, commit or
\* answer 200 that did not before.
LEMMA QuietStep ==
    ASSUME IInv, TypeInv', UNCHANGED <<status, trail, used>>,
           \A r \in Req :
               /\ pc'[r] = "loaded" => pc[r] = "loaded" /\ call'[r] = call[r]
               /\ pc'[r] = "committed" => pc[r] = "committed" /\ call'[r] = call[r]
               /\ reply'[r] = 200 =>
                      /\ pc'[r] = "done" /\ call'[r] = call[r]
                      /\ reply[r] = 200 \/ pc[r] = "committed"
    PROVE  IInv'
<1>1. \A r \in Req, t \in Txn : Holds(r, t)' => Holds(r, t)
  BY DEF Holds
<1>2. OnlyFlaggedReviewed'
  BY <1>1 DEF IInv, OnlyFlaggedReviewed
<1>3. PendingIsUntouched'
  BY DEF IInv, PendingIsUntouched, IsPending
<1>4. VerdictIsBacked'
  BY DEF IInv, VerdictIsBacked, HasRow
<1>5. CommittedOnRecord'
  BY DEF IInv, CommittedOnRecord, OnRecord, Decided, TokenOf
<1>6. HolderHasNoRow'
  BY <1>1 DEF IInv, HolderHasNoRow
<1>7. OneRowPerRequest' /\ TrailMatchesStatus'
  BY DEF IInv, OneRowPerRequest, TrailMatchesStatus, Decided
<1>8. QED
  BY <1>2, <1>3, <1>4, <1>5, <1>6, <1>7 DEF IInv

\* A new row has no trail, no spent token and no holder.
LEMMA CreateKeeps ==
    ASSUME IInv, TypeInv', NEW t \in Txn, NEW flagged \in BOOLEAN, Create(t, flagged)
    PROVE  IInv'
<1> USE DEF TypeInv, TypeOK
<1>1. status[t] = "none" /\ trail[t] = <<>> /\ UNCHANGED <<trail, used, pc, call, reply>>
  BY DEF Create, IInv, OnlyFlaggedReviewed
<1>2. /\ \A u \in Txn \ {t} : status'[u] = status[u]
      /\ status'[t] \in {"PENDING", "AUTO_APPROVED"}
  BY DEF Create, IInv
<1>3. \A r \in Req, u \in Txn : Holds(r, u)' <=> Holds(r, u)
  BY <1>1 DEF Holds
<1>4. \A u \in Txn : Decided(u)' <=> Decided(u)
  BY <1>1, <1>2 DEF Decided
<1>5. OnlyFlaggedReviewed'
  BY <1>1, <1>2, <1>3 DEF IInv, OnlyFlaggedReviewed
<1>6. PendingIsUntouched'
  BY <1>1, <1>2, ZenonT(60) DEF IInv, OnlyFlaggedReviewed, PendingIsUntouched, IsPending
<1>7. VerdictIsBacked'
  BY <1>1, <1>2, VerdictValues, SMTT(60) DEF IInv, VerdictIsBacked, HasRow
<1>8. CommittedOnRecord'
  <2>1. ASSUME NEW r \in Req, OnRecord(r), pc[r] # "idle"
        PROVE  OnRecord(r)'
    <3>1. call[r].txn \in Txn
      BY <2>1 DEF IInv, Call
    <3>2. QED
      BY <1>1, <1>4, <2>1, <3>1 DEF OnRecord, TokenOf
  <2>2. QED
    BY <1>1, <2>1 DEF IInv, CommittedOnRecord
<1>9. HolderHasNoRow'
  BY <1>1, <1>3 DEF IInv, HolderHasNoRow
<1>10. OneRowPerRequest' /\ TrailMatchesStatus'
  BY <1>1, <1>2, <1>4 DEF IInv, OneRowPerRequest, TrailMatchesStatus, Decided
<1>11. QED
  BY <1>5, <1>6, <1>7, <1>8, <1>9, <1>10 DEF IInv

\* Reading the row changes none; who reads it pending becomes a holder.
LEMMA LoadKeeps ==
    ASSUME IInv, TypeInv', NEW r \in Req, Load(r)
    PROVE  IInv'
<1> DEFINE t == call[r].txn
<1>1. /\ UNCHANGED <<status, trail, used, call>>
      /\ AtLoad(r) /\ pc[r] # "idle"
  BY DEF Load, AtLoad
<1>2. /\ t \in Txn
      /\ pc = [q \in Req |-> pc[q]] /\ reply = [q \in Req |-> reply[q]]
  BY <1>1 DEF IInv, TypeInv, TypeOK, Call
<1>3. ASSUME NEW code \in {400, 404}, Answer(r, code)
      PROVE  IInv'
  <2>1. \A q \in Req \ {r} : pc'[q] = pc[q] /\ reply'[q] = reply[q]
    BY <1>2, <1>3 DEF Answer
  <2>2. pc'[r] = "done" /\ reply'[r] # 200
    BY <1>2, <1>3 DEF Answer
  <2>3. \A q \in Req : reply[q] = 200 => pc[q] = "done"
    BY DEF IInv, CommittedOnRecord
  <2>4. QED
    BY <1>1, <2>1, <2>2, <2>3, QuietStep
<1>4. ASSUME IsPending(t), pc' = [pc EXCEPT ![r] = "loaded"], UNCHANGED reply
      PROVE  IInv'
  <2>1. trail[t] = <<>> /\ status[t] \in {"PENDING", "pending"}
    BY <1>2, <1>4, PendingStrings DEF IInv, TypeInv, PendingIsUntouched
  <2>2. /\ \A q \in Req, u \in Txn : Holds(q, u)' => Holds(q, u) \/ (q = r /\ u = t)
        /\ \A q \in Req : pc'[q] # "loaded" => pc'[q] = pc[q]
    BY <1>1, <1>2, <1>4 DEF Holds
  <2>3. OnlyFlaggedReviewed'
    BY <1>1, <2>1, <2>2 DEF IInv, OnlyFlaggedReviewed
  <2>4. PendingIsUntouched' /\ VerdictIsBacked'
    BY <1>1 DEF IInv, PendingIsUntouched, IsPending, VerdictIsBacked, HasRow
  <2>5. CommittedOnRecord'
    BY <1>1, <1>2, <1>4, <2>2 DEF IInv, CommittedOnRecord, OnRecord, Decided, TokenOf, AtLoad
  <2>6. HolderHasNoRow'
    BY <1>1, <2>1, <2>2 DEF IInv, HolderHasNoRow
  <2>7. OneRowPerRequest' /\ TrailMatchesStatus'
    BY <1>1 DEF IInv, OneRowPerRequest, TrailMatchesStatus, Decided
  <2>8. QED
    BY <2>3, <2>4, <2>5, <2>6, <2>7 DEF IInv
<1>5. QED
  BY <1>3, <1>4 DEF Load

\* A commit writes a verdict together with its record, on a row that was flagged.
LEMMA CommitKeeps ==
    ASSUME IInv, TypeInv', NEW r \in Req, Commit(r)
    PROVE  IInv'
<1>a. PICK t \in Txn : t = call[r].txn
  BY DEF Commit, IInv, TypeInv, TypeOK, Call
<1>b. PICK new \in {"approved", "rejected"} : new = Verdict(call[r].action)
  BY DEF Verdict
<1>c. PICK row : row = [by |-> r, old |-> seen[r], new |-> new]
  OBVIOUS
<1>1. /\ t = call[r].txn /\ new = Verdict(call[r].action) /\ row.by = r /\ row.new = new
      /\ call[r].action \in Action /\ call[r].via \in {"endpoint", "token"}
      /\ UNCHANGED <<call, reply>>
      /\ pc[r] = "loaded" /\ Holds(r, t)
  BY <1>a, <1>b, <1>c DEF Commit, Holds, IInv, TypeInv, TypeOK, Call
<1>2. /\ \A u \in Txn \ {t} : status'[u] = status[u] /\ trail'[u] = trail[u]
      /\ status'[t] = new
      /\ \A u \in Txn : trail[u] \in Seq(Row)
  BY <1>1 DEF Commit, IInv, TypeInv, TypeOK
<1>3. /\ used \subseteq used'
      /\ \A k \in used' : k \in used \/ (k = TokenOf(r) /\ k.txn = t)
      /\ TokenOf(r).txn = t
  BY <1>1 DEF Commit, TokenOf
<1>4. \/ call[r].via = "endpoint" /\ trail'[t] = Append(trail[t], row) /\ used' = used
      \/ /\ call[r].via = "token" /\ trail'[t] = trail[t]
         /\ TokenOf(r) \in used' /\ TokenOf(r) = [txn |-> t, action |-> call[r].action]
         /\ t \in Seeded
  BY <1>1, <1>c DEF Commit, IInv, TypeInv, TypeOK, CheckedTokens, TokenOf, Token
<1>5. \A i \in DOMAIN trail[t] : i \in DOMAIN trail'[t] /\ trail'[t][i] = trail[t][i]
  BY <1>2, <1>4
<1>6. \A i \in DOMAIN trail'[t] : \/ i \in DOMAIN trail[t] /\ trail'[t][i] = trail[t][i]
                                 \/ /\ call[r].via = "endpoint"
                                    /\ i = Len(trail[t]) + 1 /\ trail'[t][i] = row
  BY <1>2, <1>4
<1>7. /\ \A q \in Req, u \in Txn : Holds(q, u)' => Holds(q, u) /\ q # r
      /\ pc'[r] = "committed"
      /\ \A q \in Req \ {r} : pc'[q] = pc[q]
  BY <1>1 DEF Commit, Holds, IInv, TypeInv, TypeOK
<1>8. ~(status[t] \in {"none", "AUTO_APPROVED"})
  BY <1>1 DEF IInv, OnlyFlaggedReviewed
<1>9. ~IsPending(t)' /\ Decided(t)'
  BY <1>1, <1>2 DEF IsPending, Lower, Decided
<1>10. \A u \in Txn : Decided(u) => Decided(u)'
  BY <1>2, <1>9 DEF Decided
<1>11. OnlyFlaggedReviewed'
  BY <1>1, <1>2, <1>3, <1>7 DEF IInv, OnlyFlaggedReviewed
<1>12. PendingIsUntouched'
  BY <1>2, <1>3, <1>9 DEF IInv, PendingIsUntouched, IsPending
<1>13. VerdictIsBacked'
  <2>1. ASSUME NEW u \in Txn \ {t}, NEW a \in Action, status'[u] = Verdict(a)
        PROVE  HasRow(u, Verdict(a))' \/ [txn |-> u, action |-> a] \in used'
    BY <1>2, <1>3, <2>1 DEF IInv, VerdictIsBacked, HasRow
  <2>2. ASSUME NEW a \in Action, new = Verdict(a)
        PROVE  HasRow(t, Verdict(a))' \/ [txn |-> t, action |-> a] \in used'
    <3>1. a = call[r].action
      BY <1>1, <2>2 DEF Verdict, Action
    <3>2. CASE call[r].via = "endpoint"
      <4>1. Len(trail[t]) + 1 \in DOMAIN trail'[t] /\ trail'[t][Len(trail[t]) + 1] = row
        BY <1>1, <1>2, <1>4, <3>2
      <4>2. QED
        BY <1>1, <4>1, <2>2 DEF HasRow
    <3>3. CASE call[r].via = "token"
      BY <1>4, <3>1, <3>3
    <3>4. QED
      BY <1>1, <3>2, <3>3
  <2>3. QED
    BY <1>2, <2>1, <2>2 DEF VerdictIsBacked
<1>14. CommittedOnRecord'
  <2>1. ASSUME NEW q \in Req, OnRecord(q), pc[q] # "idle"
        PROVE  OnRecord(q)'
    <3>1. call[q].txn \in Txn
      BY <2>1 DEF IInv, TypeInv, TypeOK, Call
    <3>2. Decided(call[q].txn)'
      BY <1>1, <1>10, <2>1, <3>1 DEF OnRecord
    <3>3. CASE call[q].txn = t
      BY <1>1, <1>3, <1>5, <2>1, <3>2, <3>3, SMTT(60) DEF OnRecord, TokenOf
    <3>4. CASE call[q].txn # t
      BY <1>1, <1>2, <1>3, <2>1, <3>1, <3>2, <3>4, SMTT(60) DEF OnRecord, TokenOf
    <3>5. QED
      BY <1>1, <3>3, <3>4
  <2>2. OnRecord(r)'
    <3>1. CASE call[r].via = "endpoint"
      <4>1. Len(trail[t]) + 1 \in DOMAIN trail'[t] /\ trail'[t][Len(trail[t]) + 1] = row
        BY <1>1, <1>2, <1>4, <3>1
      <4>2. QED
        BY <1>1, <1>9, <4>1 DEF OnRecord
    <3>2. CASE call[r].via = "token"
      BY <1>1, <1>4, <1>9, <3>2 DEF OnRecord, TokenOf
    <3>3. QED
      BY <1>1, <3>1, <3>2
  <2>3. QED
    BY <1>1, <1>7, <2>1, <2>2 DEF IInv, CommittedOnRecord
<1>15. HolderHasNoRow'
  <2>1. ASSUME NEW u \in Txn, NEW q \in Req, Holds(q, u)', NEW i \in DOMAIN trail'[u]
        PROVE  trail'[u][i].by # q
    <3>1. Holds(q, u) /\ q # r
      BY <1>7, <2>1
    <3>2. CASE u = t
      BY <1>1, <1>6, <3>1, <3>2, <2>1 DEF IInv, HolderHasNoRow
    <3>3. CASE u # t
      BY <1>2, <3>1, <3>3 DEF IInv, HolderHasNoRow
    <3>4. QED
      BY <3>2, <3>3
  <2>2. QED
    BY <2>1 DEF HolderHasNoRow
<1>16. OneRowPerRequest'
  <2>1. \A i \in DOMAIN trail[t] : trail[t][i].by # r
    BY <1>1 DEF IInv, HolderHasNoRow
  <2>2. \A i, j \in DOMAIN trail'[t] : trail'[t][i].by = trail'[t][j].by => i = j
    BY <1>1, <1>6, <2>1 DEF IInv, OneRowPerRequest
  <2>3. QED
    BY <1>2, <2>2 DEF IInv, OneRowPerRequest
<1>17. TrailMatchesStatus'
  <2>1. ASSUME t \notin Seeded
        PROVE  trail'[t] # <<>> /\ trail'[t][Len(trail'[t])].new = status'[t]
    BY <1>1, <1>2, <1>4, <2>1
  <2>2. QED
    BY <1>2, <1>9, <2>1 DEF IInv, TrailMatchesStatus, Decided
<1>18. QED
  BY <1>11, <1>12, <1>13, <1>14, <1>15, <1>16, <1>17 DEF IInv

\* Every step keeps the invariant.
LEMMA SafetyStep == IInv /\ [Next]_vars => IInv'
<1> SUFFICES ASSUME IInv, [Next]_vars
             PROVE  IInv'
  OBVIOUS
<1>1. TypeInv'
  BY TypeStep DEF IInv
<1>2. /\ pc = [r \in Req |-> pc[r]] /\ reply = [r \in Req |-> reply[r]]
      /\ call = [r \in Req |-> call[r]]
      /\ \A r \in Req : reply[r] = 200 => pc[r] = "done"
  BY DEF IInv, TypeInv, TypeOK, CommittedOnRecord
<1>3. ASSUME NEW t \in Txn, NEW flagged \in BOOLEAN, Create(t, flagged)
      PROVE  IInv'
  BY <1>1, <1>3, CreateKeeps
<1>4. ASSUME NEW t \in Txn, Expire(t)
      PROVE  IInv'
  BY <1>1, <1>2, <1>4, QuietStep DEF Expire
<1>5. ASSUME NEW r \in Req, NEW c \in Call, Start(r, c)
      PROVE  IInv'
  BY <1>1, <1>2, <1>5, QuietStep DEF Start
<1>6. ASSUME NEW r \in Req, CheckToken(r)
      PROVE  IInv'
  BY <1>1, <1>2, <1>6, QuietStep DEF CheckToken, Answer
<1>7. ASSUME NEW r \in Req, Load(r)
      PROVE  IInv'
  BY <1>1, <1>7, LoadKeeps
<1>8. ASSUME NEW r \in Req, Commit(r)
      PROVE  IInv'
  BY <1>1, <1>8, CommitKeeps
<1>9. ASSUME NEW r \in Req, Reply(r)
      PROVE  IInv'
  BY <1>1, <1>2, <1>9, QuietStep DEF Reply, Answer
<1>10. ASSUME NEW r \in Req, Fail(r)
       PROVE  IInv'
  BY <1>1, <1>2, <1>10, QuietStep DEF Fail, InFlight, Answer
<1>11. ASSUME NEW r \in Req, Close(r)
       PROVE  IInv'
  BY <1>1, <1>2, <1>11, QuietStep DEF Close
<1>12. ASSUME Crash
       PROVE  IInv'
  BY <1>1, <1>2, <1>12, QuietStep DEF Crash, InFlight
<1>13. ASSUME UNCHANGED vars
       PROVE  IInv'
  BY <1>1, <1>2, <1>13, QuietStep DEF vars
<1>14. QED
  BY <1>3, <1>4, <1>5, <1>6, <1>7, <1>8, <1>9, <1>10, <1>11, <1>12, <1>13
     DEF Next, Handle

\* So it holds in every state.
LEMMA Inductive == Spec => []IInv
BY SafetyInit, SafetyStep, PTL DEF Spec

\* No verdict without a decision on record, whatever handlers race, fail or die.
THEOREM BackedVerdicts == Spec => []VerdictIsBacked
<1>1. IInv => VerdictIsBacked
  BY DEF IInv
<1>2. QED
  BY <1>1, Inductive, PTL

\* What was approved automatically is never reviewed.
THEOREM AutoApprovedStays == Spec => []OnlyFlaggedReviewed
<1>1. IInv => OnlyFlaggedReviewed
  BY DEF IInv
<1>2. QED
  BY <1>1, Inductive, PTL

\* A pending transaction has no decision on record and its tokens unspent.
THEOREM PendingUntouched == Spec => []PendingIsUntouched
<1>1. IInv => PendingIsUntouched
  BY DEF IInv
<1>2. QED
  BY <1>1, Inductive, PTL

\* An answer 200 is backed by the database.
THEOREM AcksDurable == Spec => []AckIsOnRecord
<1>1. IInv => AckIsOnRecord
  BY DEF IInv, CommittedOnRecord, OnRecord, AckIsOnRecord
<1>2. QED
  BY <1>1, Inductive, PTL

\* The audit rows of a transaction come from different requests.
THEOREM RowsDistinct == Spec => []OneRowPerRequest
<1>1. IInv => OneRowPerRequest
  BY DEF IInv
<1>2. QED
  BY <1>1, Inductive, PTL

\* Without tokens the newest audit row is the status, racing handlers included.
THEOREM TrailIsCurrent == Spec => []TrailMatchesStatus
<1>1. IInv => TrailMatchesStatus
  BY DEF IInv
<1>2. QED
  BY <1>1, Inductive, PTL

-----------------------------------------------------------------------------
\* No step changes a decided transaction that nobody holds.
LEMMA SettledStep ==
    ASSUME IInv, [Next]_vars, NEW t \in Txn, Settled(t)
    PROVE  /\ status'[t] = status[t]
           /\ trail'[t] = trail[t]
           /\ {k \in used' : k.txn = t} = {k \in used : k.txn = t}
           /\ \A r \in Req : ~(pc[r] = "loaded" /\ pc'[r] = "committed" /\ call[r].txn = t)
           /\ Settled(t)'
<1> DEFINE Goal ==
        /\ status'[t] = status[t]
        /\ trail'[t] = trail[t]
        /\ {k \in used' : k.txn = t} = {k \in used : k.txn = t}
        /\ \A r \in Req : ~(pc[r] = "loaded" /\ pc'[r] = "committed" /\ call[r].txn = t)
        /\ Settled(t)'
<1>1. Decided(t) /\ status[t] # "none" /\ ~IsPending(t) /\ \A r \in Req : ~Holds(r, t)
  BY DEF Settled, Decided, IsPending, Lower
<1>2. ASSUME UNCHANGED <<status, trail, used>>,
             \A r \in Req : pc'[r] = "loaded" =>
                 call'[r] = call[r] /\ (pc[r] = "loaded" \/ call[r].txn # t)
      PROVE  Goal
  BY <1>1, <1>2 DEF Settled, Decided, Holds
<1>3. /\ pc = [r \in Req |-> pc[r]] /\ call = [r \in Req |-> call[r]]
      /\ status = [u \in Txn |-> status[u]] /\ trail = [u \in Txn |-> trail[u]]
  BY DEF IInv, TypeInv, TypeOK
<1>4. ASSUME NEW u \in Txn, NEW flagged \in BOOLEAN, Create(u, flagged)
      PROVE  Goal
  BY <1>1, <1>3, <1>4 DEF Create, Settled, Decided, Holds
<1>5. ASSUME NEW u \in Txn, Expire(u)
      PROVE  Goal
  BY <1>2, <1>5 DEF Expire
<1>6. ASSUME NEW r \in Req, NEW c \in Call, Start(r, c)
      PROVE  Goal
  BY <1>2, <1>3, <1>6 DEF Start
<1>7. ASSUME NEW r \in Req, CheckToken(r)
      PROVE  Goal
  BY <1>2, <1>3, <1>7 DEF CheckToken, Answer
<1>8. ASSUME NEW r \in Req, Load(r)
      PROVE  Goal
  <2>1. pc'[r] = "loaded" => IsPending(call[r].txn)
    BY <1>3, <1>8 DEF Load, Answer
  <2>2. pc'[r] = "loaded" => call[r].txn # t
    BY <1>1, <2>1
  <2>3. UNCHANGED <<status, trail, used, call>> /\ \A q \in Req \ {r} : pc'[q] = pc[q]
    BY <1>3, <1>8 DEF Load, Answer
  <2>4. QED
    BY <1>2, <2>2, <2>3
<1>9. ASSUME NEW r \in Req, Commit(r)
      PROVE  Goal
  <2>1. call[r].txn # t /\ UNCHANGED call
    BY <1>1, <1>9 DEF Commit, Holds
  <2>2. status'[t] = status[t] /\ trail'[t] = trail[t]
    BY <1>3, <1>9, <2>1 DEF Commit
  <2>3. \A k \in Token : k.txn = t => (k \in used' <=> k \in used)
    BY <1>9, <2>1 DEF Commit, TokenOf
  <2>4. {k \in used' : k.txn = t} = {k \in used : k.txn = t}
    BY <1>9, <2>1 DEF Commit, TokenOf
  <2>5. /\ pc'[r] = "committed"
        /\ \A q \in Req \ {r} : pc'[q] = pc[q]
    BY <1>3, <1>9 DEF Commit
  <2>6. QED
    BY <1>1, <2>1, <2>2, <2>4, <2>5 DEF Settled, Decided, Holds
<1>10. ASSUME NEW r \in Req, Reply(r)
       PROVE  Goal
  BY <1>2, <1>3, <1>10 DEF Reply, Answer
<1>11. ASSUME NEW r \in Req, Fail(r)
       PROVE  Goal
  BY <1>2, <1>3, <1>11 DEF Fail, Answer
<1>12. ASSUME NEW r \in Req, Close(r)
       PROVE  Goal
  BY <1>2, <1>3, <1>12 DEF Close
<1>13. ASSUME Crash
       PROVE  Goal
  BY <1>2, <1>3, <1>13 DEF Crash
<1>14. ASSUME UNCHANGED vars
       PROVE  Goal
  BY <1>2, <1>14 DEF vars
<1>15. QED
  BY <1>4, <1>5, <1>6, <1>7, <1>8, <1>9, <1>10, <1>11, <1>12, <1>13, <1>14
     DEF Next, Handle

\* Once the handlers that had read a transaction while it was pending are gone,
\* its verdict, its audit rows and its tokens never change again.
THEOREM SettledForGood == Spec => SettledIsFinal
<1>1. IInv /\ [Next]_vars =>
        [\A t \in Txn : Settled(t) =>
            /\ status'[t] = status[t]
            /\ trail'[t] = trail[t]
            /\ {k \in used' : k.txn = t} = {k \in used : k.txn = t}
            /\ \A r \in Req : ~(pc[r] = "loaded" /\ pc'[r] = "committed" /\ call[r].txn = t)
            /\ Settled(t)']_vars
  BY SettledStep
<1>2. QED
  BY <1>1, Inductive, PTL DEF Spec, SettledIsFinal

-----------------------------------------------------------------------------
\* What one request at a time adds: nobody else has the transaction in hand, so
\* it is still pending when the verdict is committed.
SerialInv ==
    /\ \A q, r \in Req : InFlight(q) /\ InFlight(r) /\ call[q].txn = call[r].txn => q = r
    /\ \A r \in Req, t \in Txn : Holds(r, t) => IsPending(t)

\* Nobody is in flight at the start.
LEMMA SerialInit == Init => SerialInv
BY DEF Init, SerialInv, InFlight, Holds

\* A step after which nobody is in flight, and nobody holds, who did not before.
LEMMA SerialQuiet ==
    ASSUME IInv, SerialInv, UNCHANGED status,
           \A r \in Req : InFlight(r)' => InFlight(r) /\ call'[r] = call[r],
           \A r \in Req : pc'[r] = "loaded" =>
               call'[r] = call[r] /\ (pc[r] = "loaded" \/ IsPending(call[r].txn))
    PROVE  SerialInv'
<1>1. \A r \in Req, t \in Txn : Holds(r, t)' => IsPending(t)
  BY DEF SerialInv, Holds
<1>2. \A t \in Txn : IsPending(t) => IsPending(t)'
  BY DEF IsPending
<1>3. QED
  BY <1>1, <1>2 DEF SerialInv

\* Without overlap a transaction has one request in flight, and its holder sees a pending row.
LEMMA SerialStep ==
    ASSUME ~overlap, IInv, SerialInv, [Next]_vars
    PROVE  SerialInv'
<1>1. /\ pc = [r \in Req |-> pc[r]] /\ call = [r \in Req |-> call[r]]
      /\ status = [u \in Txn |-> status[u]]
  BY DEF IInv, TypeInv, TypeOK
<1>2. ASSUME NEW u \in Txn, NEW flagged \in BOOLEAN, Create(u, flagged)
      PROVE  SerialInv'
  BY <1>1, <1>2 DEF Create, SerialInv, InFlight, Holds, IsPending, Lower
<1>3. ASSUME NEW u \in Txn, Expire(u)
      PROVE  SerialInv'
  BY <1>3, SerialQuiet DEF Expire, InFlight
<1>4. ASSUME NEW r \in Req, NEW c \in Call, Start(r, c)
      PROVE  SerialInv'
  BY <1>1, <1>4 DEF Start, SerialInv, InFlight, Holds, IsPending
<1>5. ASSUME NEW r \in Req, CheckToken(r)
      PROVE  SerialInv'
  BY <1>1, <1>5, SerialQuiet DEF CheckToken, Answer, InFlight
<1>6. ASSUME NEW r \in Req, Load(r)
      PROVE  SerialInv'
  BY <1>1, <1>6, SerialQuiet DEF Load, AtLoad, Answer, InFlight
<1>7. ASSUME NEW r \in Req, Commit(r)
      PROVE  SerialInv'
  <2>1. /\ pc'[r] = "committed" /\ pc[r] = "loaded" /\ UNCHANGED call
        /\ \A q \in Req \ {r} : pc'[q] = pc[q]
        /\ \A t \in Txn : t # call[r].txn => status'[t] = status[t]
    BY <1>1, <1>7 DEF Commit
  <2>2. \A q, p \in Req : InFlight(q)' /\ InFlight(p)' /\ call'[q].txn = call'[p].txn => q = p
    BY <2>1 DEF SerialInv, InFlight
  <2>3. ASSUME NEW q \in Req, NEW t \in Txn, Holds(q, t)'
        PROVE  IsPending(t)'
    <3>1. Holds(q, t) /\ q # r
      BY <2>1, <2>3 DEF Holds
    <3>2. t # call[r].txn
      BY <2>1, <3>1 DEF SerialInv, InFlight, Holds
    <3>3. QED
      BY <2>1, <3>1, <3>2 DEF SerialInv, IsPending
  <2>4. QED
    BY <2>2, <2>3 DEF SerialInv
<1>8. ASSUME NEW r \in Req, Reply(r)
      PROVE  SerialInv'
  BY <1>1, <1>8, SerialQuiet DEF Reply, Answer, InFlight
<1>9. ASSUME NEW r \in Req, Fail(r)
      PROVE  SerialInv'
  BY <1>1, <1>9, SerialQuiet DEF Fail, Answer, InFlight
<1>10. ASSUME NEW r \in Req, Close(r)
       PROVE  SerialInv'
  BY <1>1, <1>10, SerialQuiet DEF Close, InFlight
<1>11. ASSUME Crash
       PROVE  SerialInv'
  BY <1>1, <1>11, SerialQuiet DEF Crash, InFlight
<1>12. ASSUME UNCHANGED vars
       PROVE  SerialInv'
  BY <1>12, SerialQuiet DEF vars, InFlight
<1>13. QED
  BY <1>2, <1>3, <1>4, <1>5, <1>6, <1>7, <1>8, <1>9, <1>10, <1>11, <1>12
     DEF Next, Handle

\* Whether requests may overlap is settled at the start.
LEMMA OverlapStays == [Next]_vars => overlap' = overlap
BY DEF Next, vars, Handle, Create, Expire, Start, CheckToken, Load, Commit, Reply, Fail,
       Crash, Close

\* Then each step is one of the life cycle, or changes no phase.
LEMMA PhaseStep ==
    ASSUME ~overlap, IInv, SerialInv, [Next]_vars
    PROVE  [LC!Next]_([t \in Txn |-> IF overlap THEN AtFirst(t) ELSE Phase(t)])
<1> DEFINE state == [t \in Txn |-> IF overlap THEN AtFirst(t) ELSE Phase(t)]
<1>0. ~overlap'
  BY OverlapStays
<1>1. status \in [Txn -> StoredStatus \cup {"none"}]
  BY DEF IInv, TypeInv, TypeOK
<1>2. ASSUME NEW u \in Txn, NEW flagged \in BOOLEAN, Create(u, flagged)
      PROVE  LC!Next
  <2>1. /\ status[u] = "none"
        /\ status' = [status EXCEPT ![u] = IF flagged THEN "PENDING" ELSE "AUTO_APPROVED"]
    BY <1>2 DEF Create
  <2>2. state[u] = "new"
    BY <2>1 DEF Phase
  <2>3. CASE flagged
    <3>1. state' = [state EXCEPT ![u] = "pending"]
      BY <1>0, <1>1, <2>1, <2>3 DEF Phase, Lower, StoredStatus
    <3>2. QED
      BY <2>2, <3>1 DEF LC!Next, LC!Flag, LC!Move
  <2>4. CASE ~flagged
    <3>1. state' = [state EXCEPT ![u] = "auto_approved"]
      BY <1>0, <1>1, <2>1, <2>4 DEF Phase, Lower, StoredStatus
    <3>2. QED
      BY <2>2, <3>1 DEF LC!Next, LC!AutoApprove, LC!Move
  <2>5. QED
    BY <2>3, <2>4
<1>3. ASSUME NEW r \in Req, Commit(r)
      PROVE  LC!Next
  <2>1. PICK t \in Txn : t = call[r].txn /\ call[r].action \in Action
    BY <1>3 DEF Commit, IInv, TypeInv, TypeOK, Call
  <2>2. status' = [status EXCEPT ![t] = Verdict(call[r].action)]
    BY <1>3, <2>1 DEF Commit
  <2>3. state[t] = "pending"
    <3>1. IsPending(t)
      BY <1>3, <2>1 DEF Commit, SerialInv, Holds
    <3>2. QED
      BY <3>1, PendingStrings DEF Phase, Lower, IInv, TypeInv
  <2>4. CASE call[r].action = "approve"
    <3>1. state' = [state EXCEPT ![t] = "approved"]
      BY <1>0, <1>1, <2>2, <2>4 DEF Phase, Lower, StoredStatus, Verdict
    <3>2. QED
      BY <2>3, <3>1 DEF LC!Next, LC!Approve, LC!Move
  <2>5. CASE call[r].action = "reject"
    <3>1. state' = [state EXCEPT ![t] = "rejected"]
      BY <1>0, <1>1, <2>2, <2>5 DEF Phase, Lower, StoredStatus, Verdict
    <3>2. QED
      BY <2>3, <3>1 DEF LC!Next, LC!Reject, LC!Move
  <2>6. QED
    BY <2>1, <2>4, <2>5 DEF Action
<1>4. ASSUME UNCHANGED status
      PROVE  UNCHANGED state
  BY <1>0, <1>4 DEF Phase
<1>5. QED
  BY <1>2, <1>3, <1>4
     DEF Next, Handle, vars, Expire, Start, CheckToken, Load, Reply, Fail, Close, Crash

\* Where requests may overlap the life cycle stands still.
LEMMA LifecycleStep ==
    ASSUME IInv, ~overlap => SerialInv, [Next]_vars
    PROVE  [LC!Next]_([t \in Txn |-> IF overlap THEN AtFirst(t) ELSE Phase(t)])
<1>1. CASE overlap
  <2>1. overlap'
    BY <1>1, OverlapStays
  <2>2. QED
    BY <1>1, <2>1 DEF AtFirst
<1>2. CASE ~overlap
  BY <1>2, PhaseStep
<1>3. QED
  BY <1>1, <1>2

\* When the requests about a transaction come one at a time, the handlers implement
\* the life of a transaction: approved and rejected are reached from pending only
\* and never left.
THEOREM SerialReviewImplementsLifecycle == Spec => ImplementsLifecycle
<1>1. Init => LC!Init
  BY DEF Init, LC!Init, Phase, AtFirst, Lower
<1>2. Init => (~overlap => SerialInv)
  BY SerialInit
<1>3. IInv /\ (~overlap => SerialInv) /\ [Next]_vars => (~overlap => SerialInv)'
  BY SerialStep, OverlapStays
<1>4. Spec => [](~overlap => SerialInv)
  BY <1>2, <1>3, Inductive, PTL DEF Spec
<1>5. IInv /\ (~overlap => SerialInv) /\ [Next]_vars
          => [LC!Next]_([t \in Txn |-> IF overlap THEN AtFirst(t) ELSE Phase(t)])
  BY LifecycleStep
<1>6. QED
  BY <1>1, <1>4, <1>5, Inductive, PTL DEF Spec, ImplementsLifecycle, LC!Spec
=============================================================================
