--------------------------- MODULE AlertDelivery ----------------------------
(***************************************************************************)
(* From the submission of a transaction to the email that asks its user:   *)
(* create_transaction of backend/routers/transactions.py and of            *)
(* backend/services/transaction_service.py, trigger_alert and              *)
(* send_webhook_to_n8n of backend/services/notification_service.py, and    *)
(* the n8n workflow "Fraud Alert Email".                                   *)
(*                                                                         *)
(* Each submission gets a fresh random identifier, so Txn numbers the      *)
(* submissions.  Scoring is the choice of "flagged"; the Redis publication *)
(* after the insert changes no state (the dictionary it would send reads   *)
(* txn.timestamp, a column that does not exist, and the AttributeError is  *)
(* caught).                                                                *)
(***************************************************************************)
EXTENDS Naturals

CONSTANT Txn

VARIABLES
    row,        \* committed rows: "none", "flagged" (pending) or "clear"
    sub,        \* how far the handler of each submission is
    answer,     \* message of the answer
    hasRedis,   \* redis_client.client of the running process is not None
    key,        \* alert_sent:<id> keys in Redis
    wire,       \* webhook requests sent to n8n and not yet received
    hooks,      \* webhook requests n8n accepted, per transaction
    todo,       \* executions of "Fraud Alert Email" not yet run
    mail        \* transactions whose user has the email with the two links

vars == <<row, sub, answer, hasRedis, key, wire, hooks, todo, mail>>

net == <<wire, hooks, todo, mail>>

-----------------------------------------------------------------------------
InFlight(t) == sub[t] \in {"scoring", "saved", "asked", "sending", "posted"}

Init ==
    /\ row = [t \in Txn |-> "none"]
    /\ sub = [t \in Txn |-> "idle"]
    /\ answer = [t \in Txn |-> "none"]
    /\ hasRedis \in BOOLEAN
    /\ key = {}
    /\ wire = {}
    /\ hooks = [t \in Txn |-> 0]
    /\ todo = {}
    /\ mail = {}

Goto(t, to) == sub' = [sub EXCEPT ![t] = to] /\ UNCHANGED answer

Answer(t, message) ==
    /\ sub' = [sub EXCEPT ![t] = "done"]
    /\ answer' = [answer EXCEPT ![t] = message]

\* Faulty: the identifier is reserved in Redis when the request comes in.
SubmitReserves(t) ==
    /\ sub[t] = "idle"
    /\ key' = key \cup {t}
    /\ Goto(t, "scoring")
    /\ UNCHANGED <<row, hasRedis, net>>

Submit(t) ==
    /\ sub[t] = "idle"
    /\ Goto(t, "scoring")
    /\ UNCHANGED <<row, hasRedis, key, net>>

\* transaction_repository.create commits the row.
Save(t, flagged) ==
    /\ sub[t] = "scoring"
    /\ row' = [row EXCEPT ![t] = IF flagged THEN "flagged" ELSE "clear"]
    /\ Goto(t, "saved")
    /\ UNCHANGED <<hasRedis, key, net>>

\* Faulty: errors of the alert are not caught by the router.
RaiseAnywhere(t) ==
    /\ InFlight(t)
    /\ Answer(t, "error")
    /\ UNCHANGED <<row, hasRedis, key, net>>

\* Scoring or the insert raises, or the refresh after the insert does.
Raise(t) ==
    /\ sub[t] \in {"scoring", "saved"}
    /\ Answer(t, "error")
    /\ UNCHANGED <<row, hasRedis, key, net>>

\* No fraud: answered without an alert.
Clear(t) ==
    /\ sub[t] = "saved" /\ row[t] = "clear"
    /\ Answer(t, "auto")
    /\ UNCHANGED <<row, hasRedis, key, net>>

\* Faulty: the alert is started before the row is saved.
AskKeyEarly(t) ==
    /\ sub[t] \in {"scoring", "saved"} /\ row[t] # "clear"
    /\ Goto(t, "sending")
    /\ UNCHANGED <<row, hasRedis, key, net>>

\* Faulty: without a client the alert waits for one.
AskKeyWaits(t) ==
    /\ sub[t] = "saved" /\ row[t] = "flagged" /\ hasRedis
    /\ Goto(t, "asked") \/ Answer(t, "sent")
    /\ UNCHANGED <<row, hasRedis, key, net>>

\* trigger_alert looks for the key: without a client it goes on to send; with
\* the key there it returns; an error of Redis ends it, caught by the router.
AskKey(t) ==
    /\ sub[t] = "saved" /\ row[t] = "flagged"
    /\ \/ ~hasRedis /\ Goto(t, "sending")
       \/ hasRedis /\ t \notin key /\ Goto(t, "asked")
       \/ hasRedis /\ Answer(t, "sent")
    /\ UNCHANGED <<row, hasRedis, key, net>>

\* The key is set before anything is sent.  An error of Redis ends the alert,
\* with the key set if only the reply was lost.
SetKey(t) ==
    /\ sub[t] = "asked"
    /\ \/ key' = key \cup {t} /\ Goto(t, "sending")
       \/ key' \in {key, key \cup {t}} /\ Answer(t, "sent")
    /\ UNCHANGED <<row, hasRedis, net>>

\* send_webhook_to_n8n: no URL, or no connection, and the alert is given up.
Refused(t) ==
    /\ sub[t] = "sending"
    /\ Answer(t, "sent")
    /\ UNCHANGED <<row, hasRedis, key, net>>

Post(t) ==
    /\ sub[t] = "sending"
    /\ wire' = wire \cup {t}
    /\ Goto(t, "posted")
    /\ UNCHANGED <<row, hasRedis, key, hooks, todo, mail>>

\* Faulty: a request without an answer is sent again.
ReturnResends(t) ==
    /\ sub[t] = "posted"
    /\ IF t \in wire THEN Answer(t, "sent") ELSE Goto(t, "sending")
    /\ UNCHANGED <<row, hasRedis, key, net>>

\* The answer of n8n, an error answer, or ten seconds without one: the outcome is
\* logged and dropped, and the request may still be on its way.
Return(t) ==
    /\ sub[t] = "posted"
    /\ Answer(t, "sent")
    /\ UNCHANGED <<row, hasRedis, key, net>>

\* n8n receives the request: it answers at once and queues the workflow.
Accept(t) ==
    /\ t \in wire
    /\ wire' = wire \ {t}
    /\ hooks' = [hooks EXCEPT ![t] = @ + 1]
    /\ todo' = todo \cup {t}
    /\ UNCHANGED <<row, sub, answer, hasRedis, key, mail>>

\* The request is lost, or n8n answers it with an error.
Drop(t) ==
    /\ t \in wire
    /\ wire' = wire \ {t}
    /\ UNCHANGED <<row, sub, answer, hasRedis, key, hooks, todo, mail>>

\* "Send an Email", which goes on as if nothing was when the mail server fails.
RunWorkflow(t) ==
    /\ t \in todo
    /\ todo' = todo \ {t}
    /\ mail' \in {mail, mail \cup {t}}
    /\ UNCHANGED <<row, sub, answer, hasRedis, key, wire, hooks>>

\* The hour of the key is far longer than any handler runs.
KeyExpires(t) ==
    /\ t \in key /\ ~InFlight(t)
    /\ key' = key \ {t}
    /\ UNCHANGED <<row, sub, answer, hasRedis, net>>

\* The backend dies and starts again; startup may or may not reach Redis.
Crash ==
    /\ sub' = [t \in Txn |-> IF InFlight(t) THEN "lost" ELSE sub[t]]
    /\ hasRedis' \in BOOLEAN
    /\ UNCHANGED <<row, answer, key, net>>

Handle(t) ==
    \/ \E flagged \in BOOLEAN : Save(t, flagged)
    \/ Clear(t) \/ AskKey(t) \/ SetKey(t) \/ Refused(t) \/ Post(t) \/ Return(t)

Next ==
    \/ \E t \in Txn :
          Submit(t) \/ Handle(t) \/ Raise(t) \/ Accept(t) \/ Drop(t)
          \/ RunWorkflow(t) \/ KeyExpires(t)
    \/ Crash

Spec == Init /\ [][Next]_vars

\* Handlers are run to their end: each call they await returns or times out.
FairSpec == Spec /\ \A t \in Txn : WF_vars(Handle(t))

-----------------------------------------------------------------------------
\* Types of the state.
TypeOK ==
    /\ row \in [Txn -> {"none", "flagged", "clear"}]
    /\ sub \in [Txn -> {"idle", "scoring", "saved", "asked", "sending", "posted", "done", "lost"}]
    /\ answer \in [Txn -> {"none", "sent", "auto", "error"}]
    /\ hasRedis \in BOOLEAN
    /\ key \subseteq Txn /\ wire \subseteq Txn /\ todo \subseteq Txn /\ mail \subseteq Txn
    /\ hooks \in [Txn -> Nat]

\* Nothing leaves the backend about a transaction that is not stored as flagged:
\* no key, no webhook, no email.
AlertIsForFlagged ==
    \A t \in Txn :
        t \in key \cup wire \cup todo \cup mail \/ hooks[t] > 0 => row[t] = "flagged"

\* notification_service.py:53, duplicate webhooks are not sent for a transaction:
\* timeouts, late answers and crashes included, n8n gets one at most.
AtMostOneAlert ==
    \A t \in Txn : hooks[t] + (IF t \in wire THEN 1 ELSE 0) <= 1

\* The key never silences the only alert of a transaction: while its handler has
\* yet to look, the key is absent.
KeyNeverPreempts ==
    \A t \in Txn : sub[t] \in {"idle", "scoring", "saved", "asked"} => t \notin key

\* The message of an answer tells what is stored; an alert that fails, for whatever
\* reason, never turns a stored transaction into an error.
AnswerMatchesRow ==
    \A t \in Txn :
        /\ answer[t] = "sent" => row[t] = "flagged"
        /\ answer[t] = "auto" => row[t] = "clear"
        /\ answer[t] = "error" => t \notin key \cup wire /\ hooks[t] = 0

\* A submission is answered, or dies with the backend, with Redis and n8n up or
\* down.
SubmissionEnds == \A t \in Txn : InFlight(t) ~> ~InFlight(t)
=============================================================================
