----------------------------- MODULE ReviewFlow -----------------------------
(***************************************************************************)
(* The whole review of a flagged transaction: AlertDelivery takes it from  *)
(* its submission to the user's email, the links of the email go through   *)
(* the n8n workflow "Approve/Reject Handler" to the decision endpoints of  *)
(* TransactionReview.  The endpoints ask for no token and GET /transactions *)
(* lists the identifiers, so others call them too, with or without an      *)
(* email, before the alert or instead of it.  Both components run in one   *)
(* backend process, on one table: the rows AlertDelivery saves are the     *)
(* statuses TransactionReview decides.  No transaction is seeded here, so  *)
(* there are no tokens of init_db.py.                                      *)
(***************************************************************************)
EXTENDS Naturals

CONSTANTS
    Txn, Req,
    MaxFaults   \* bound on requests failing and on crashes of the backend

VARIABLES
    status, trail, used, expired, pc, call, seen, reply,
    sub, answer, hasRedis, key, wire, hooks, todo, mail,
    faults      \* how many of them happened

RowOf(s) == CASE s = "none"          -> "none"
              [] s = "AUTO_APPROVED" -> "clear"
              [] OTHER               -> "flagged"

\* Nobody keeps requests apart, so overlap is true; TLC takes no literal TRUE for a
\* variable of an UNCHANGED.
Review == INSTANCE TransactionReview WITH Seeded <- {}, overlap <- ~FALSE
Alert  == INSTANCE AlertDelivery WITH row <- [t \in Txn |-> RowOf(status[t])]

reviewVars == <<status, trail, used, expired, pc, call, seen, reply>>
alertVars  == <<sub, answer, hasRedis, key, wire, hooks, todo, mail>>
vars       == <<reviewVars, alertVars, faults>>

Init == Review!Init /\ Alert!Init /\ faults = 0

Fault == faults < MaxFaults /\ faults' = faults + 1

\* Faulty: a job stores the row, not the handler that raises the alert.
SaveElsewhere(t, flagged) ==
    /\ Review!Create(t, flagged)
    /\ UNCHANGED <<alertVars, faults>>

\* The insert is the same event for both components.
Save(t, flagged) ==
    /\ Review!Create(t, flagged)
    /\ Alert!Save(t, flagged)
    /\ UNCHANGED faults

AlertHandle(t) ==
    \/ \E flagged \in BOOLEAN : Save(t, flagged)
    \/ /\ UNCHANGED <<reviewVars, faults>>
       /\ \/ Alert!Clear(t) \/ Alert!AskKey(t) \/ Alert!SetKey(t)
          \/ Alert!Refused(t) \/ Alert!Post(t) \/ Alert!Return(t)

AlertStep(t) ==
    /\ UNCHANGED <<reviewVars, faults>>
    /\ \/ Alert!Submit(t) \/ Alert!Raise(t) \/ Alert!Accept(t)
       \/ Alert!Drop(t) \/ Alert!RunWorkflow(t) \/ Alert!KeyExpires(t)

\* Anyone posts to /approve or /reject of a transaction, stored or not.
Ask(r, t, action) ==
    /\ Review!Start(r, [via |-> "endpoint", txn |-> t, link |-> action,
                        action |-> action, late |-> FALSE])
    /\ UNCHANGED <<alertVars, faults>>

\* Someone follows a link of the email, as often as they like; n8n posts to
\* /approve for that action and to /reject for anything else.
Click(r, t, action) == t \in mail /\ Ask(r, t, action)

ReviewHandle(r) == Review!Handle(r) /\ UNCHANGED <<alertVars, faults>>

ReviewClose(r) == Review!Close(r) /\ UNCHANGED <<alertVars, faults>>

ReviewFail(r) == Fault /\ Review!Fail(r) /\ UNCHANGED alertVars

\* One process runs the handlers of both components.
Crash == Fault /\ Review!Crash /\ Alert!Crash

Next ==
    \/ \E t \in Txn : AlertHandle(t) \/ AlertStep(t)
    \/ \E r \in Req, t \in Txn, action \in Review!Action :
          Ask(r, t, action) \/ Click(r, t, action)
    \/ \E r \in Req : ReviewHandle(r) \/ ReviewClose(r) \/ ReviewFail(r)
    \/ Crash

Spec == Init /\ [][Next]_vars

\* Handlers are run to their end, clients take their answers, and a user who has
\* the email does follow one of its links, again if need be.
FairSpec ==
    /\ Spec
    /\ \A t \in Txn : WF_vars(AlertHandle(t))
    /\ \A r \in Req : WF_vars(ReviewHandle(r)) /\ WF_vars(ReviewClose(r))
    /\ \A t \in Txn : WF_vars(\E r \in Req, action \in Review!Action : Click(r, t, action))

-----------------------------------------------------------------------------
\* A link leads somewhere: once the email is sent, whoever asks for a decision about
\* its transaction, by a link or otherwise, finds it stored, and flagged; the only
\* refusal is that it was decided before.
LinksLeadToReviews ==
    [][\A r \in Req :
          (call[r].via = "endpoint" /\ call[r].txn \in mail /\ reply'[r] # reply[r]) =>
              /\ reply'[r] # 404
              /\ reply'[r] = 400 => Review!Decided(call[r].txn)]_vars

\* The parts keep their promises together: seen from the review the delivery only
\* inserts rows, and seen from the delivery no verdict touches a row it reads.
ImplementsParts == Review!Spec /\ Alert!Spec

\* With finitely many failures, an email is enough: lost answers and crashes only
\* make the user click again, and others that ask only help.
MailedIsDecided == \A t \in Txn : t \in mail ~> Review!Decided(t)

\* models.py:62-71, a transaction over the threshold is pending, its user gets the
\* email and answers.
FlaggedIsDecided == \A t \in Txn : status[t] = "PENDING" ~> Review!Decided(t)
=============================================================================
