------------------------- MODULE TransactionReview --------------------------
(***************************************************************************)
(* The review of flagged transactions: the rows of the transactions table, *)
(* the two decision endpoints of backend/routers/transactions.py, the      *)
(* token endpoint of backend/routers/webhook.py and the audit rows they    *)
(* write.                                                                  *)
(*                                                                         *)
(* A handler runs on one event loop and gives way at each await on the     *)
(* database: the select of the token, the select of the transaction and    *)
(* the commit are separate steps, and other handlers run in between.       *)
(* Nothing locks or versions a row, so the UPDATE that a commit flushes    *)
(* overwrites whatever was committed since the select.  The UPDATE, the    *)
(* audit INSERT and the token's UPDATE are one database transaction.       *)
(***************************************************************************)
EXTENDS Naturals, Sequences

CONSTANTS
    Txn,        \* transactions
    Req,        \* decision requests that can be open at a time
    Seeded      \* transactions inserted by backend/init_db.py, with tokens

ASSUME ReviewAssumption == Seeded \subseteq Txn

VARIABLES
    status,     \* status column of each row, "none" when there is no row
    trail,      \* USER_APPROVED / USER_REJECTED rows of audit_logs, oldest first
    used,       \* tokens with is_used
    expired,    \* seeded transactions whose two tokens are past expires_at
    pc,         \* how far each request is
    call,       \* what each request asks
    seen,       \* old_status: the status a request read
    reply,      \* HTTP status of the answer, 0 before it
    overlap     \* do clients ask about a transaction while another request about it
                \* is open?  Either for the whole of a behaviour

vars == <<status, trail, used, expired, pc, call, seen, reply, overlap>>

-----------------------------------------------------------------------------
Action == {"approve", "reject"}

\* The strings the code stores: prediction["status"] is upper case, the
\* values of TransactionStatus are lower case.
StoredStatus == {"PENDING", "AUTO_APPROVED", "pending", "approved", "rejected"}

\* str(txn.status).lower() on those strings.
Lower(s) == CASE s = "PENDING"       -> "pending"
              [] s = "AUTO_APPROVED" -> "auto_approved"
              [] OTHER               -> s

\* init_db.py makes an approve and a reject token for a seeded transaction.
\* Nothing at run time makes any.
Token == [txn : Seeded, action : Action]

\* A request to an endpoint names a transaction and, by its path, an action.
\* A request with a token carries the token, and an action in its body; "late"
\* is the comparison of expires_at with the time the handler took first.
Call == [via : {"endpoint", "token"}, txn : Txn, link : Action,
         action : Action, late : BOOLEAN]

NoCall == [via |-> "none"]

Row == [by : Req, old : StoredStatus, new : {"approved", "rejected"}]

TokenOf(r) == [txn |-> call[r].txn, action |-> call[r].link]

\* Faulty: the action of the request is stored as the status.
VerdictRaw(action) == action

Verdict(action) == IF action = "approve" THEN "approved" ELSE "rejected"

Decided(t) == status[t] \in {"approved", "rejected"}

\* Faulty: the guard tests for a decision made, not for a pending one.
IsUndecided(t) == status[t] # "none" /\ ~Decided(t)

\* Faulty: PENDING, as predict_fraud stores it, is not matched.
IsPendingCaseSensitive(t) == status[t] = "pending"

IsPending(t) == Lower(status[t]) = "pending"

InFlight(r) == pc[r] \in {"started", "vouched", "loaded", "committed"}

\* r has read a pending row of t and has not committed its verdict.
Holds(r, t) == pc[r] = "loaded" /\ call[r].txn = t

-----------------------------------------------------------------------------
Init ==
    /\ status = [t \in Txn |-> IF t \in Seeded THEN "pending" ELSE "none"]
    /\ trail = [t \in Txn |-> <<>>]
    /\ used = {}
    /\ expired = {}
    /\ pc = [r \in Req |-> "idle"]
    /\ call = [r \in Req |-> NoCall]
    /\ seen = [r \in Req |-> "none"]
    /\ reply = [r \in Req |-> 0]
    /\ overlap \in BOOLEAN

\* transaction_repository.create with the label predict_fraud chose: the row is
\* there, committed, with the status of its score.
Create(t, flagged) ==
    /\ status[t] = "none"
    /\ status' = [status EXCEPT ![t] = IF flagged THEN "PENDING" ELSE "AUTO_APPROVED"]
    /\ UNCHANGED <<trail, used, expired, pc, call, seen, reply, overlap>>

\* 24 hours after seeding.
Expire(t) ==
    /\ t \in Seeded \ expired
    /\ expired' = expired \cup {t}
    /\ UNCHANGED <<status, trail, used, pc, call, seen, reply, overlap>>

\* A request reaches its handler.
Start(r, c) ==
    /\ pc[r] = "idle"
    /\ overlap \/ \A q \in Req : InFlight(q) => call[q].txn # c.txn
    /\ c.via = "endpoint" => c.link = c.action /\ ~c.late
    /\ c.via = "token" => c.late = (c.txn \in expired)
    /\ pc' = [pc EXCEPT ![r] = "started"]
    /\ call' = [call EXCEPT ![r] = c]
    /\ UNCHANGED <<status, trail, used, expired, seen, reply, overlap>>

Answer(r, code) ==
    /\ pc' = [pc EXCEPT ![r] = "done"]
    /\ reply' = [reply EXCEPT ![r] = code]

TokenIsValid(r) ==
    /\ TokenOf(r) \in Token \ used
    /\ ~call[r].late
    /\ call[r].link = call[r].action

\* Faulty: the token is used up, and committed, as soon as it is found.
CheckTokenBurns(r) ==
    /\ pc[r] = "started"
    /\ call[r].via = "token"
    /\ \/ /\ TokenIsValid(r)
          /\ pc' = [pc EXCEPT ![r] = "vouched"]
          /\ used' = used \cup {TokenOf(r)}
          /\ UNCHANGED reply
       \/ ~TokenIsValid(r) /\ Answer(r, 400) /\ UNCHANGED used
    /\ UNCHANGED <<status, trail, expired, call, seen, overlap>>

\* transaction_response: the select of an unused token and the checks on it.
CheckToken(r) ==
    /\ pc[r] = "started"
    /\ call[r].via = "token"
    /\ \/ /\ TokenIsValid(r)
          /\ pc' = [pc EXCEPT ![r] = "vouched"]
          /\ UNCHANGED reply
       \/ ~TokenIsValid(r) /\ Answer(r, 400)
    /\ UNCHANGED <<status, trail, used, expired, call, seen, overlap>>

AtLoad(r) == pc[r] = IF call[r].via = "token" THEN "vouched" ELSE "started"

\* Faulty: any row will do.
LoadAnyRow(r) ==
    LET t == call[r].txn IN
    /\ AtLoad(r)
    /\ \/ status[t] = "none" /\ Answer(r, 404) /\ UNCHANGED seen
       \/ /\ status[t] # "none"
          /\ pc' = [pc EXCEPT ![r] = "loaded"]
          /\ seen' = [seen EXCEPT ![r] = status[t]]
          /\ UNCHANGED reply
    /\ UNCHANGED <<status, trail, used, expired, call, overlap>>

\* The select of the transaction, the 404 and the test that it is pending.
Load(r) ==
    LET t == call[r].txn IN
    /\ AtLoad(r)
    /\ \/ /\ status[t] = "none"
          /\ Answer(r, 404)
          /\ UNCHANGED seen
       \/ /\ status[t] # "none" /\ ~IsPending(t)
          /\ Answer(r, 400)
          /\ UNCHANGED seen
       \/ /\ IsPending(t)
          /\ pc' = [pc EXCEPT ![r] = "loaded"]
          /\ seen' = [seen EXCEPT ![r] = status[t]]
          /\ UNCHANGED reply
    /\ UNCHANGED <<status, trail, used, expired, call, overlap>>

\* Faulty: the audit row is built and never added to the session.
CommitUnlogged(r) ==
    /\ pc[r] = "loaded"
    /\ status' = [status EXCEPT ![call[r].txn] = Verdict(call[r].action)]
    /\ used' = IF call[r].via = "token" THEN used \cup {TokenOf(r)} ELSE used
    /\ pc' = [pc EXCEPT ![r] = "committed"]
    /\ UNCHANGED <<trail, expired, call, seen, reply, overlap>>

\* Faulty: new_status is taken before the status is assigned.
CommitOldOutcome(r) ==
    /\ pc[r] = "loaded"
    /\ status' = [status EXCEPT ![call[r].txn] = Verdict(call[r].action)]
    /\ trail' = [trail EXCEPT ![call[r].txn] =
                     Append(@, [by |-> r, old |-> seen[r], new |-> seen[r]])]
    /\ pc' = [pc EXCEPT ![r] = "committed"]
    /\ UNCHANGED <<used, expired, call, seen, reply, overlap>>

\* The commit of the new status, with the audit row of an endpoint or with the
\* is_used of a token.
Commit(r) ==
    LET t   == call[r].txn
        new == Verdict(call[r].action)
    IN
    /\ pc[r] = "loaded"
    /\ status' = [status EXCEPT ![t] = new]
    /\ \/ /\ call[r].via = "endpoint"
          /\ trail' = [trail EXCEPT ![t] = Append(@, [by |-> r, old |-> seen[r], new |-> new])]
          /\ UNCHANGED used
       \/ /\ call[r].via = "token"
          /\ used' = used \cup {TokenOf(r)}
          /\ UNCHANGED trail
    /\ pc' = [pc EXCEPT ![r] = "committed"]
    /\ UNCHANGED <<expired, call, seen, reply, overlap>>

\* Faulty: the commit is not awaited.
ReplyEarly(r) ==
    /\ pc[r] \in {"loaded", "committed"}
    /\ Answer(r, 200)
    /\ UNCHANGED <<status, trail, used, expired, call, seen, overlap>>

\* refresh and the 200 answer.
Reply(r) ==
    /\ pc[r] = "committed"
    /\ Answer(r, 200)
    /\ UNCHANGED <<status, trail, used, expired, call, seen, overlap>>

\* Faulty: an error at the refresh runs the decision again.
FailRetries(r) ==
    /\ InFlight(r)
    /\ IF pc[r] = "committed"
       THEN pc' = [pc EXCEPT ![r] = "loaded"] /\ UNCHANGED reply
       ELSE Answer(r, 500)
    /\ UNCHANGED <<status, trail, used, expired, call, seen, overlap>>

\* A database call raises, before the commit or at the refresh after it: the
\* exception handler answers 500.
Fail(r) ==
    /\ InFlight(r)
    /\ Answer(r, 500)
    /\ UNCHANGED <<status, trail, used, expired, call, seen, overlap>>

\* The backend dies: what was not committed is gone, nobody is answered.
Crash ==
    /\ pc' = [r \in Req |-> IF InFlight(r) THEN "lost" ELSE pc[r]]
    /\ UNCHANGED <<status, trail, used, expired, call, seen, reply, overlap>>

\* The client has its answer, or has given up: the slot takes another request.
Close(r) ==
    /\ pc[r] \in {"done", "lost"}
    /\ pc' = [pc EXCEPT ![r] = "idle"]
    /\ call' = [call EXCEPT ![r] = NoCall]
    /\ seen' = [seen EXCEPT ![r] = "none"]
    /\ reply' = [reply EXCEPT ![r] = 0]
    /\ UNCHANGED <<status, trail, used, expired, overlap>>

Handle(r) == CheckToken(r) \/ Load(r) \/ Commit(r) \/ Reply(r)

Next ==
    \/ \E t \in Txn, flagged \in BOOLEAN : Create(t, flagged)
    \/ \E t \in Txn : Expire(t)
    \/ \E r \in Req, c \in Call : Start(r, c)
    \/ \E r \in Req : Handle(r) \/ Fail(r) \/ Close(r)
    \/ Crash

Spec == Init /\ [][Next]_vars

-----------------------------------------------------------------------------
\* Types: what a handler stores as a status is one of the strings its readers know.
TypeOK ==
    /\ status \in [Txn -> StoredStatus \cup {"none"}]
    /\ trail \in [Txn -> Seq(Row)]
    /\ used \subseteq Token
    /\ expired \subseteq Seeded
    /\ pc \in [Req -> {"idle", "started", "vouched", "loaded", "committed", "done", "lost"}]
    /\ call \in [Req -> Call \cup {NoCall}]
    /\ \A r \in Req : pc[r] # "idle" => call[r] \in Call
    /\ seen \in [Req -> StoredStatus \cup {"none"}]
    /\ reply \in [Req -> {0, 200, 400, 404, 500}]
    /\ overlap \in BOOLEAN

HasRow(t, new) == \E i \in DOMAIN trail[t] : trail[t][i].new = new

\* Every approved or rejected transaction is so because of a decision on record:
\* an audit row with that outcome, or a used token of that action.  Racing
\* handlers may replace one verdict by another, never by one nobody gave.
VerdictIsBacked ==
    \A t \in Txn, a \in Action :
        status[t] = Verdict(a) => HasRow(t, Verdict(a)) \/ [txn |-> t, action |-> a] \in used

\* A transaction that was approved automatically, or is not there, is never
\* reviewed: no audit row, no used token, and no handler about to write one.
OnlyFlaggedReviewed ==
    \A t \in Txn :
        status[t] \in {"none", "AUTO_APPROVED"} =>
            /\ trail[t] = <<>>
            /\ \A a \in Action : [txn |-> t, action |-> a] \notin used
            /\ \A r \in Req : ~Holds(r, t)

\* A transaction still pending has lost nothing: no token spent on it and no
\* decision recorded, whatever crashed or failed on the way.
PendingIsUntouched ==
    \A t \in Txn :
        IsPending(t) =>
            /\ trail[t] = <<>>
            /\ \A a \in Action : [txn |-> t, action |-> a] \notin used

\* A 200 is only given for a decision that is on record, and stays there through
\* every later crash: the audit row of this request, or its token used.
AckIsOnRecord ==
    \A r \in Req :
        reply[r] = 200 =>
            LET t == call[r].txn IN
            /\ Decided(t)
            /\ \/ \E i \in DOMAIN trail[t] :
                     trail[t][i].by = r /\ trail[t][i].new = Verdict(call[r].action)
               \/ call[r].via = "token" /\ TokenOf(r) \in used

\* Where no token exists, as at run time, the newest audit row names the outcome
\* the transaction has, racing handlers included; and there is a row as soon as
\* there is an outcome.
TrailMatchesStatus ==
    \A t \in Txn \ Seeded :
        /\ Decided(t) <=> trail[t] # <<>>
        /\ Decided(t) => trail[t][Len(trail[t])].new = status[t]

\* However requests are retried on a slot, one request leaves one audit row, so
\* a transaction gets no more rows than requests that overlapped.
OneRowPerRequest ==
    \A t \in Txn : \A i, j \in DOMAIN trail[t] :
        trail[t][i].by = trail[t][j].by => i = j

\* A verdict that nobody can overwrite any more: the handlers that read the
\* transaction while it was pending are gone.
Settled(t) == Decided(t) /\ \A r \in Req : ~Holds(r, t)

\* The exposure to the race is the window of the handlers that had read the
\* pending row: once it closes, no request whatever changes the transaction,
\* its audit rows or its tokens, or is answered 200 about it.
SettledIsFinal ==
    [][\A t \in Txn : Settled(t) =>
        /\ status'[t] = status[t]
        /\ trail'[t] = trail[t]
        /\ {k \in used' : k.txn = t} = {k \in used : k.txn = t}
        /\ \A r \in Req : ~(pc[r] = "loaded" /\ pc'[r] = "committed" /\ call[r].txn = t)
        /\ Settled(t)']_vars

\* models.py:63-71: approved and rejected are where a transaction ends.
VerdictIsFinal == [][\A t \in Txn : Decided(t) => status'[t] = status[t]]_vars

\* When the requests about a transaction come one at a time, the handlers
\* implement the life of a transaction that models.py draws.  Of behaviours in which
\* they overlap this says nothing: there the life cycle stands still.
Phase(t) == IF status[t] = "none" THEN "new" ELSE Lower(status[t])

AtFirst(t) == IF t \in Seeded THEN "pending" ELSE "new"

LC == INSTANCE TransactionLifecycle
          WITH state <- [t \in Txn |-> IF overlap THEN AtFirst(t) ELSE Phase(t)]

ImplementsLifecycle == LC!Spec
=============================================================================
