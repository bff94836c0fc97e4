-------------------------- MODULE ReviewFlowProofs --------------------------
(***************************************************************************)
(* ReviewFlow is a composition, and its proofs are about composition: for  *)
(* any transactions, requests and number of failures it implements each of *)
(* its two parts, so what is proved of TransactionReview and AlertDelivery *)
(* alone holds of the whole (ReviewProofs, AlertProofs).  From both        *)
(* follows what neither says alone: the links of an email lead to a        *)
(* review, whoever else calls the endpoints.                               *)
(***************************************************************************)
EXTENDS ReviewFlow, TLAPS

Rows == [t \in Txn |-> RowOf(status[t])]

ReviewProofs == INSTANCE TransactionReviewProofs WITH Seeded <- {}, overlap <- ~FALSE
AlertProofs  == INSTANCE AlertDeliveryProofs WITH row <- Rows

-----------------------------------------------------------------------------
\* What TransactionReview needs of its constants is true of the values given here.
LEMMA NothingSeeded == {} \subseteq Txn /\ TRUE \in BOOLEAN
  OBVIOUS

\* The part that ReviewFlow takes from TransactionReview is the one proved about.
LEMMA SameReview == Review!Spec => ReviewProofs!Spec
  <1>1. Review!Init => ReviewProofs!Init
    BY DEF Review!Init, ReviewProofs!Init, Review!NoCall, ReviewProofs!NoCall
  <1>2. ASSUME NEW r PROVE Review!Handle(r) => ReviewProofs!Handle(r)
    BY DEF Review!Handle, ReviewProofs!Handle, Review!CheckToken, ReviewProofs!CheckToken,
           Review!Load, ReviewProofs!Load, Review!Commit, ReviewProofs!Commit,
           Review!Reply, ReviewProofs!Reply, Review!Answer, ReviewProofs!Answer,
           Review!TokenIsValid, ReviewProofs!TokenIsValid, Review!TokenOf, ReviewProofs!TokenOf,
           Review!Token, ReviewProofs!Token, Review!Action, ReviewProofs!Action,
           Review!AtLoad, ReviewProofs!AtLoad, Review!IsPending, ReviewProofs!IsPending,
           Review!Lower, ReviewProofs!Lower, Review!Verdict, ReviewProofs!Verdict
  <1>3. Review!Next => ReviewProofs!Next
    BY <1>2
    DEF Review!Next, ReviewProofs!Next, Review!Create, ReviewProofs!Create,
        Review!Expire, ReviewProofs!Expire, Review!Start, ReviewProofs!Start,
        Review!Call, ReviewProofs!Call, Review!Action, ReviewProofs!Action,
        Review!Fail, ReviewProofs!Fail, Review!Close, ReviewProofs!Close,
        Review!Crash, ReviewProofs!Crash, Review!Answer, ReviewProofs!Answer,
        Review!InFlight, ReviewProofs!InFlight, Review!NoCall, ReviewProofs!NoCall
  <1>4. UNCHANGED Review!vars => UNCHANGED ReviewProofs!vars
    BY DEF Review!vars, ReviewProofs!vars
  <1> QED BY <1>1, <1>3, <1>4, PTL DEF Review!Spec, ReviewProofs!Spec

\* And so is the part taken from AlertDelivery.
LEMMA SameAlert == Alert!Spec => AlertProofs!Spec
  <1> USE DEF Rows
  <1>1. Alert!Init => AlertProofs!Init
    BY DEF Alert!Init, AlertProofs!Init
  <1>2. ASSUME NEW t PROVE Alert!Handle(t) => AlertProofs!Handle(t)
    BY DEF Alert!Handle, AlertProofs!Handle, Alert!Save, AlertProofs!Save,
           Alert!Clear, AlertProofs!Clear, Alert!AskKey, AlertProofs!AskKey,
           Alert!SetKey, AlertProofs!SetKey, Alert!Refused, AlertProofs!Refused,
           Alert!Post, AlertProofs!Post, Alert!Return, AlertProofs!Return,
           Alert!Goto, AlertProofs!Goto, Alert!Answer, AlertProofs!Answer,
           Alert!net, AlertProofs!net
  <1>3. Alert!Next => AlertProofs!Next
    BY <1>2
    DEF Alert!Next, AlertProofs!Next, Alert!Submit, AlertProofs!Submit,
        Alert!Raise, AlertProofs!Raise, Alert!Accept, AlertProofs!Accept,
        Alert!Drop, AlertProofs!Drop, Alert!RunWorkflow, AlertProofs!RunWorkflow,
        Alert!KeyExpires, AlertProofs!KeyExpires, Alert!Crash, AlertProofs!Crash,
        Alert!Goto, AlertProofs!Goto, Alert!Answer, AlertProofs!Answer,
        Alert!InFlight, AlertProofs!InFlight, Alert!net, AlertProofs!net
  <1>4. UNCHANGED Alert!vars => UNCHANGED AlertProofs!vars
    BY DEF Alert!vars, AlertProofs!vars, Alert!net, AlertProofs!net
  <1> QED BY <1>1, <1>3, <1>4, PTL DEF Alert!Spec, AlertProofs!Spec

-----------------------------------------------------------------------------
\* Every step of the whole is a step of the review, or none of its business.
LEMMA ReviewMoves == [Next]_vars => [Review!Next]_(Review!vars)
  <1> SUFFICES ASSUME [Next]_vars PROVE [Review!Next]_(Review!vars)
    OBVIOUS
  <1>1. CASE UNCHANGED reviewVars
    BY <1>1 DEF reviewVars, Review!vars
  <1>2. ASSUME NEW t \in Txn, AlertHandle(t) PROVE [Review!Next]_(Review!vars)
    BY <1>1, <1>2 DEF AlertHandle, Save, Review!Next
  <1>3. ASSUME NEW t \in Txn, AlertStep(t) PROVE UNCHANGED reviewVars
    BY <1>3 DEF AlertStep
  <1>4. ASSUME NEW r \in Req, NEW t \in Txn, NEW action \in Review!Action,
               Ask(r, t, action) \/ Click(r, t, action)
        PROVE  Review!Next
    BY <1>4 DEF Ask, Click, Review!Next, Review!Call
  <1>5. ASSUME NEW r \in Req, ReviewHandle(r) \/ ReviewClose(r) \/ ReviewFail(r)
        PROVE  Review!Next
    BY <1>5 DEF ReviewHandle, ReviewClose, ReviewFail, Review!Next
  <1>6. CASE Crash
    BY <1>6 DEF Crash, Review!Next
  <1>7. CASE UNCHANGED vars
    BY <1>1, <1>7 DEF vars
  <1> QED BY <1>1, <1>2, <1>3, <1>4, <1>5, <1>6, <1>7 DEF Next

\* Whatever happens to a submission and its email, the decision endpoints and their
\* rows behave as TransactionReview says.
THEOREM FlowImplementsReview == Spec => Review!Spec
  <1>1. Init => Review!Init
    BY DEF Init
  <1> QED BY <1>1, ReviewMoves, PTL DEF Spec, Review!Spec

\* What is proved of TransactionReview holds of the whole.
LEMMA ReviewInvariant == Spec => []ReviewProofs!IInv
  <1>1. ReviewProofs!Spec => []ReviewProofs!IInv
    BY ReviewProofs!Inductive
  <1> QED BY <1>1, FlowImplementsReview, SameReview, PTL

\* A verdict is stored over a flagged row, and leaves it one for AlertDelivery.
LEMMA CommitKeepsRows ==
  ASSUME ReviewProofs!IInv, NEW r \in Req, Review!Commit(r)
  PROVE  UNCHANGED [t \in Txn |-> RowOf(status[t])]
  <1> DEFINE t == call[r].txn
  <1>1. t \in Txn /\ status \in [Txn -> ReviewProofs!StoredStatus \cup {"none"}]
    BY DEF ReviewProofs!IInv, ReviewProofs!TypeInv, ReviewProofs!TypeOK, Review!Commit,
           ReviewProofs!Call
  <1>2. status[t] \notin {"none", "AUTO_APPROVED"}
    BY <1>1 DEF ReviewProofs!IInv, ReviewProofs!OnlyFlaggedReviewed, ReviewProofs!Holds,
                Review!Commit
  <1>3. PICK new \in {"approved", "rejected"} : status' = [status EXCEPT ![t] = new]
    BY DEF Review!Commit, Review!Verdict
  <1>4. RowOf(status[t]) = "flagged" /\ RowOf(new) = "flagged"
    BY <1>2 DEF RowOf
  <1>5. ASSUME NEW x \in Txn PROVE RowOf(status'[x]) = RowOf(status[x])
    <2>1. CASE x = t
      BY <1>1, <1>3, <1>4, <2>1
    <2>2. CASE x # t
      BY <1>1, <1>3, <2>2
    <2> QED BY <2>1, <2>2
  <1> QED BY <1>5

\* Every step of the whole is a step of the delivery, or none of its business.
LEMMA AlertMoves ==
  ASSUME ReviewProofs!IInv, [Next]_vars
  PROVE  [Alert!Next]_(Alert!vars)
  <1>1. CASE UNCHANGED alertVars /\ UNCHANGED status
    BY <1>1 DEF alertVars, Alert!vars
  <1>2. ASSUME NEW t \in Txn, AlertHandle(t) PROVE Alert!Next
    BY <1>2 DEF AlertHandle, Save, Alert!Next, Alert!Handle
  <1>3. ASSUME NEW t \in Txn, AlertStep(t) PROVE Alert!Next
    BY <1>3 DEF AlertStep, Alert!Next
  <1>4. ASSUME NEW r \in Req, NEW t \in Txn, NEW action \in Review!Action,
               Ask(r, t, action) \/ Click(r, t, action)
        PROVE  UNCHANGED alertVars /\ UNCHANGED status
    BY <1>4 DEF Ask, Click, Review!Start
  <1>5. ASSUME NEW r \in Req, ReviewHandle(r) PROVE [Alert!Next]_(Alert!vars)
    <2>1. CASE Review!Commit(r)
      BY <1>5, <2>1, CommitKeepsRows DEF ReviewHandle, alertVars, Alert!vars
    <2>2. CASE Review!CheckToken(r) \/ Review!Load(r) \/ Review!Reply(r)
      BY <1>1, <1>5, <2>2 DEF ReviewHandle, Review!CheckToken, Review!Load, Review!Reply
    <2> QED BY <1>5, <2>1, <2>2 DEF ReviewHandle, Review!Handle
  <1>6. ASSUME NEW r \in Req, ReviewClose(r) \/ ReviewFail(r)
        PROVE  UNCHANGED alertVars /\ UNCHANGED status
    BY <1>6 DEF ReviewClose, ReviewFail, Review!Close, Review!Fail
  <1>7. CASE Crash
    BY <1>7 DEF Crash, Alert!Next
  <1>8. CASE UNCHANGED vars
    BY <1>1, <1>8 DEF vars, reviewVars
  <1> QED BY <1>1, <1>2, <1>3, <1>4, <1>5, <1>6, <1>7, <1>8 DEF Next

\* Whatever is decided about a transaction meanwhile, submissions and alerts behave as
\* AlertDelivery says: a verdict is no step of its, and a flagged row stays flagged.
THEOREM FlowImplementsAlert == Spec => Alert!Spec
  <1>1. Init => Alert!Init
    BY DEF Init
  <1>2. ReviewProofs!IInv /\ [Next]_vars => [Alert!Next]_(Alert!vars)
    BY AlertMoves
  <1> QED BY <1>1, <1>2, ReviewInvariant, PTL DEF Spec, Alert!Spec

\* Both parts in one: the composition adds no behaviour to either.
THEOREM FlowImplementsParts == Spec => ImplementsParts
  BY FlowImplementsReview, FlowImplementsAlert, PTL DEF ImplementsParts

\* What is proved of AlertDelivery holds of the whole.
LEMMA AlertInvariant == Spec => []AlertProofs!IInv
  BY FlowImplementsAlert, SameAlert, AlertProofs!Invariance, PTL

-----------------------------------------------------------------------------
\* What both parts' invariants say of a request about a transaction whose email was
\* sent: its row is pending, in either spelling, or decided.
LEMMA MailedIsStored ==
  ASSUME ReviewProofs!IInv, AlertProofs!IInv, NEW t \in mail
  PROVE  t \in Txn /\ status[t] # "none" /\ (Review!IsPending(t) \/ Review!Decided(t))
  <1>1. t \in Txn
    BY DEF AlertProofs!IInv, AlertProofs!TypeOK
  <1>2. Rows[t] = "flagged"
    BY <1>1 DEF AlertProofs!IInv, AlertProofs!Alerts, AlertProofs!AlertIsForFlagged
  <1>3. status[t] \notin {"none", "AUTO_APPROVED"}
    BY <1>1, <1>2 DEF Rows, RowOf
  <1>4. status[t] \in ReviewProofs!StoredStatus \cup {"none"}
    BY <1>1 DEF ReviewProofs!IInv, ReviewProofs!TypeInv, ReviewProofs!TypeOK
  <1> QED BY <1>1, <1>3, <1>4 DEF Review!IsPending, Review!Lower, Review!Decided,
                                  ReviewProofs!StoredStatus

\* One step of LinksLeadToReviews, for one request.
Leads(r) ==
    (call[r].via = "endpoint" /\ call[r].txn \in mail /\ reply'[r] # reply[r]) =>
        /\ reply'[r] # 404
        /\ reply'[r] = 400 => Review!Decided(call[r].txn)

\* A handler answers such a request 400 when it finds the row decided, or 200.
LEMMA HandlerLeads ==
  ASSUME ReviewProofs!IInv, AlertProofs!IInv, NEW q \in Req, Review!Handle(q), NEW r \in Req
  PROVE  Leads(r)
  <1> SUFFICES ASSUME call[r].via = "endpoint", call[r].txn \in mail, reply'[r] # reply[r]
               PROVE  reply'[r] # 404 /\ (reply'[r] = 400 => Review!Decided(call[r].txn))
    BY DEF Leads
  <1>1. reply \in [Req -> {0, 200, 400, 404, 500}]
    BY DEF ReviewProofs!IInv, ReviewProofs!TypeInv, ReviewProofs!TypeOK
  <1>2. q = r
    BY <1>1 DEF Review!Handle, Review!CheckToken, Review!Load, Review!Commit, Review!Reply,
                Review!Answer
  <1>3. CASE Review!Load(r)
    <2>1. Review!Answer(r, 400) /\ ~Review!IsPending(call[r].txn)
      BY <1>1, <1>3, MailedIsStored DEF Review!Load
    <2> QED BY <1>1, <2>1, MailedIsStored DEF Review!Answer
  <1>4. CASE Review!Reply(r)
    BY <1>1, <1>4 DEF Review!Reply, Review!Answer
  <1>5. ~Review!CheckToken(r) /\ ~Review!Commit(r)
    BY DEF Review!CheckToken, Review!Commit
  <1> QED BY <1>2, <1>3, <1>4, <1>5 DEF Review!Handle

\* No other step answers one with 400 or 404.
LEMMA EveryStepLeads ==
  ASSUME ReviewProofs!IInv, AlertProofs!IInv, [Next]_vars, NEW r \in Req
  PROVE  Leads(r)
  <1>1. CASE UNCHANGED reply
    BY <1>1 DEF Leads
  <1>2. ASSUME NEW q \in Req, ReviewHandle(q) PROVE Leads(r)
    BY <1>2, HandlerLeads DEF ReviewHandle
  <1>3. ASSUME NEW q \in Req, ReviewClose(q) \/ ReviewFail(q) PROVE Leads(r)
    <2>1. reply \in [Req -> {0, 200, 400, 404, 500}]
      BY DEF ReviewProofs!IInv, ReviewProofs!TypeInv, ReviewProofs!TypeOK
    <2>2. \E code \in {0, 500} : reply' = [reply EXCEPT ![q] = code]
      BY <1>3 DEF ReviewClose, ReviewFail, Review!Close, Review!Fail, Review!Answer
    <2> QED BY <2>1, <2>2 DEF Leads
  <1>4. ASSUME NEW t \in Txn, AlertHandle(t) \/ AlertStep(t) PROVE UNCHANGED reply
    BY <1>4 DEF AlertHandle, AlertStep, Save, Review!Create, reviewVars
  <1>5. ASSUME NEW q \in Req, NEW t \in Txn, NEW action \in Review!Action,
               Ask(q, t, action) \/ Click(q, t, action)
        PROVE  UNCHANGED reply
    BY <1>5 DEF Ask, Click, Review!Start
  <1>6. CASE Crash
    BY <1>1, <1>6 DEF Crash, Review!Crash
  <1>7. CASE UNCHANGED vars
    BY <1>1, <1>7 DEF vars, reviewVars
  <1> QED BY <1>1, <1>2, <1>3, <1>4, <1>5, <1>6, <1>7 DEF Next

\* For any number of transactions, requests, callers and failures: whoever follows a
\* link of an email finds the transaction stored and flagged; it is refused only if it
\* was decided before.
THEOREM LinksLead == Spec => LinksLeadToReviews
  <1>1. ReviewProofs!IInv /\ AlertProofs!IInv /\ [Next]_vars =>
           [\A r \in Req :
               (call[r].via = "endpoint" /\ call[r].txn \in mail /\ reply'[r] # reply[r]) =>
                   /\ reply'[r] # 404
                   /\ reply'[r] = 400 => Review!Decided(call[r].txn)]_vars
    BY EveryStepLeads DEF Leads
  <1> QED BY <1>1, ReviewInvariant, AlertInvariant, PTL DEF Spec, LinksLeadToReviews

\* The promises of the parts are kept by the whole: n8n gets one webhook at most for a
\* transaction, and only for a flagged one, a 200 is only given for a decision on
\* record, and a verdict nobody holds any more is final.
THEOREM PromisesKept ==
    Spec => /\ []Alert!AtMostOneAlert /\ []Alert!AlertIsForFlagged
            /\ []Review!AckIsOnRecord /\ Review!SettledIsFinal
  <1>1. AlertProofs!IInv => Alert!AtMostOneAlert /\ Alert!AlertIsForFlagged
    BY DEF AlertProofs!IInv, AlertProofs!Alerts, AlertProofs!AtMostOneAlert,
           Alert!AtMostOneAlert, AlertProofs!AlertIsForFlagged, Alert!AlertIsForFlagged, Rows
  <1>2. ReviewProofs!Spec => []ReviewProofs!AckIsOnRecord
    BY ReviewProofs!AcksDurable
  <1>3. ReviewProofs!AckIsOnRecord => Review!AckIsOnRecord
    BY DEF ReviewProofs!AckIsOnRecord, Review!AckIsOnRecord, ReviewProofs!Decided,
           Review!Decided, ReviewProofs!Verdict, Review!Verdict, ReviewProofs!TokenOf,
           Review!TokenOf
  <1>4. ReviewProofs!Spec => ReviewProofs!SettledIsFinal
    BY ReviewProofs!SettledForGood
  <1>5. ReviewProofs!SettledIsFinal => Review!SettledIsFinal
    BY DEF ReviewProofs!SettledIsFinal, Review!SettledIsFinal, ReviewProofs!Settled,
           Review!Settled, ReviewProofs!Decided, Review!Decided, ReviewProofs!Holds,
           Review!Holds, ReviewProofs!vars, Review!vars
  <1> QED BY <1>1, <1>2, <1>3, <1>4, <1>5, AlertInvariant, FlowImplementsReview, SameReview, PTL
=============================================================================
