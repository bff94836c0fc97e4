------------------------ MODULE AlertDeliveryProofs ------------------------
(***************************************************************************)
(* At most one alert, only about a stored flagged row, and answers that    *)
(* match the rows, for any number of submissions.                          *)
(*                                                                         *)
(* The argument: until a handler is past "sending" nothing of its alert    *)
(* is out (Unsent), and from then on it never comes back to send again;    *)
(* the row was written before the handler looked for the key (Written).    *)
(***************************************************************************)
EXTENDS AlertDelivery, TLAPS

\* Nothing is on its way to n8n, or there, before the handler has sent it.
Unsent ==
    \A t \in Txn :
        sub[t] \in {"idle", "scoring", "saved", "asked", "sending"} =>
            t \notin wire /\ hooks[t] = 0

\* The insert comes first, and only flagged rows go on to an alert.
Written ==
    \A t \in Txn :
        /\ sub[t] \in {"idle", "scoring"} => row[t] = "none"
        /\ sub[t] \in {"asked", "sending", "posted"} => row[t] = "flagged"

\* An answer ends the handler.
Unanswered == \A t \in Txn : sub[t] # "done" => answer[t] = "none"

Alerts == AlertIsForFlagged /\ AtMostOneAlert /\ KeyNeverPreempts

IInv == TypeOK /\ Unsent /\ Written /\ Unanswered /\ Alerts /\ AnswerMatchesRow

-----------------------------------------------------------------------------
\* Nothing is submitted at first: Init establishes every part of the invariant.
LEMMA InitInv == Init => IInv
  <1> SUFFICES ASSUME Init PROVE IInv
    OBVIOUS
  <1> USE DEF Init
  <1>1. TypeOK
    BY DEF TypeOK
  <1>2. Unsent /\ Written /\ Unanswered
    BY DEF Unsent, Written, Unanswered
  <1>3. Alerts
    BY DEF Alerts, AlertIsForFlagged, AtMostOneAlert, KeyNeverPreempts
  <1>4. AnswerMatchesRow
    BY DEF AnswerMatchesRow
  <1> QED BY <1>1, <1>2, <1>3, <1>4 DEF IInv

\* Every step of a handler, of the network, of n8n and of Redis, and a crash, keeps
\* each part of the invariant.
LEMMA StepInv == IInv /\ [Next]_vars => IInv'
  <1> SUFFICES ASSUME IInv, [Next]_vars PROVE IInv'
    OBVIOUS
  <1> USE DEF IInv, InFlight, Goto, Answer, net
  <1>0. CASE UNCHANGED vars
    BY <1>0 DEF vars, TypeOK, Unsent, Written, Unanswered, Alerts, AlertIsForFlagged,
                AtMostOneAlert, KeyNeverPreempts, AnswerMatchesRow
  <1>1. ASSUME NEW t \in Txn, Submit(t) PROVE IInv'
    <2> USE <1>1 DEF Submit
    <2>1. TypeOK' /\ Unsent' /\ Written' /\ Unanswered'
      BY DEF TypeOK, Unsent, Written, Unanswered
    <2>2. Alerts'
      BY DEF TypeOK, Unsent, Written, Alerts, AlertIsForFlagged,
             AtMostOneAlert, KeyNeverPreempts
    <2>3. AnswerMatchesRow'
      BY DEF TypeOK, Unsent, Written, Unanswered, Alerts, AlertIsForFlagged,
             KeyNeverPreempts, AnswerMatchesRow
    <2> QED
      BY <2>1, <2>2, <2>3
  <1>2. ASSUME NEW t \in Txn, NEW flagged \in BOOLEAN, Save(t, flagged) PROVE IInv'
    <2> USE <1>2 DEF Save
    <2>1. TypeOK' /\ Unsent' /\ Written' /\ Unanswered'
      BY DEF TypeOK, Unsent, Written, Unanswered
    <2>2. Alerts'
      BY DEF TypeOK, Unsent, Written, Alerts, AlertIsForFlagged,
             AtMostOneAlert, KeyNeverPreempts
    <2>3. AnswerMatchesRow'
      BY DEF TypeOK, Unsent, Written, Unanswered, Alerts, AlertIsForFlagged,
             KeyNeverPreempts, AnswerMatchesRow
    <2> QED
      BY <2>1, <2>2, <2>3
  <1>3. ASSUME NEW t \in Txn, Raise(t) PROVE IInv'
    <2> USE <1>3 DEF Raise
    <2>1. TypeOK' /\ Unsent' /\ Written' /\ Unanswered'
      BY DEF TypeOK, Unsent, Written, Unanswered
    <2>2. Alerts'
      BY DEF TypeOK, Unsent, Written, Alerts, AlertIsForFlagged,
             AtMostOneAlert, KeyNeverPreempts
    <2>3. AnswerMatchesRow'
      BY DEF TypeOK, Unsent, Written, Unanswered, Alerts, AlertIsForFlagged,
             KeyNeverPreempts, AnswerMatchesRow
    <2> QED
      BY <2>1, <2>2, <2>3
  <1>4. ASSUME NEW t \in Txn, Clear(t) PROVE IInv'
    <2> USE <1>4 DEF Clear
    <2>1. TypeOK' /\ Unsent' /\ Written' /\ Unanswered'
      BY DEF TypeOK, Unsent, Written, Unanswered
    <2>2. Alerts'
      BY DEF TypeOK, Unsent, Written, Alerts, AlertIsForFlagged,
             AtMostOneAlert, KeyNeverPreempts
    <2>3. AnswerMatchesRow'
      BY DEF TypeOK, Unsent, Written, Unanswered, Alerts, AlertIsForFlagged,
             KeyNeverPreempts, AnswerMatchesRow
    <2> QED
      BY <2>1, <2>2, <2>3
  <1>5. ASSUME NEW t \in Txn, AskKey(t) PROVE IInv'
    <2> USE <1>5 DEF AskKey
    <2>1. TypeOK' /\ Unsent' /\ Written' /\ Unanswered'
      BY DEF TypeOK, Unsent, Written, Unanswered
    <2>2. Alerts'
      BY DEF TypeOK, Unsent, Written, Alerts, AlertIsForFlagged,
             AtMostOneAlert, KeyNeverPreempts
    <2>3. AnswerMatchesRow'
      BY DEF TypeOK, Unsent, Written, Unanswered, Alerts, AlertIsForFlagged,
             KeyNeverPreempts, AnswerMatchesRow
    <2> QED
      BY <2>1, <2>2, <2>3
  <1>6. ASSUME NEW t \in Txn, SetKey(t) PROVE IInv'
    <2> USE <1>6 DEF SetKey
    <2>1. TypeOK' /\ Unsent' /\ Written' /\ Unanswered'
      BY DEF TypeOK, Unsent, Written, Unanswered
    <2>2. Alerts'
      BY DEF TypeOK, Unsent, Written, Alerts, AlertIsForFlagged,
             AtMostOneAlert, KeyNeverPreempts
    <2>3. AnswerMatchesRow'
      BY DEF TypeOK, Unsent, Written, Unanswered, Alerts, AlertIsForFlagged,
             KeyNeverPreempts, AnswerMatchesRow
    <2> QED
      BY <2>1, <2>2, <2>3
  <1>7. ASSUME NEW t \in Txn, Refused(t) PROVE IInv'
    <2> USE <1>7 DEF Refused
    <2>1. TypeOK' /\ Unsent' /\ Written' /\ Unanswered'
      BY DEF TypeOK, Unsent, Written, Unanswered
    <2>2. Alerts'
      BY DEF TypeOK, Unsent, Written, Alerts, AlertIsForFlagged,
             AtMostOneAlert, KeyNeverPreempts
    <2>3. AnswerMatchesRow'
      BY DEF TypeOK, Unsent, Written, Unanswered, Alerts, AlertIsForFlagged,
             KeyNeverPreempts, AnswerMatchesRow
    <2> QED
      BY <2>1, <2>2, <2>3
  <1>8. ASSUME NEW t \in Txn, Post(t) PROVE IInv'
    <2> USE <1>8 DEF Post
    <2>1. TypeOK' /\ Unsent' /\ Written' /\ Unanswered'
      BY DEF TypeOK, Unsent, Written, Unanswered
    <2>2. Alerts'
      BY DEF TypeOK, Unsent, Written, Alerts, AlertIsForFlagged,
             AtMostOneAlert, KeyNeverPreempts
    <2>3. AnswerMatchesRow'
      BY DEF TypeOK, Unsent, Written, Unanswered, Alerts, AlertIsForFlagged,
             KeyNeverPreempts, AnswerMatchesRow
    <2> QED
      BY <2>1, <2>2, <2>3
  <1>9. ASSUME NEW t \in Txn, Return(t) PROVE IInv'
    <2> USE <1>9 DEF Return
    <2>1. TypeOK' /\ Unsent' /\ Written' /\ Unanswered'
      BY DEF TypeOK, Unsent, Written, Unanswered
    <2>2. Alerts'
      BY DEF TypeOK, Unsent, Written, Alerts, AlertIsForFlagged,
             AtMostOneAlert, KeyNeverPreempts
    <2>3. AnswerMatchesRow'
      BY DEF TypeOK, Unsent, Written, Unanswered, Alerts, AlertIsForFlagged,
             KeyNeverPreempts, AnswerMatchesRow
    <2> QED
      BY <2>1, <2>2, <2>3
  <1>10. ASSUME NEW t \in Txn, Accept(t) PROVE IInv'
    <2> USE <1>10 DEF Accept
    <2>1. TypeOK' /\ Unsent' /\ Written' /\ Unanswered'
      BY DEF TypeOK, Unsent, Written, Unanswered
    <2>2. Alerts'
      BY DEF TypeOK, Unsent, Written, Alerts, AlertIsForFlagged,
             AtMostOneAlert, KeyNeverPreempts
    <2>3. AnswerMatchesRow'
      BY DEF TypeOK, Unsent, Written, Unanswered, Alerts, AlertIsForFlagged,
             KeyNeverPreempts, AnswerMatchesRow
    <2> QED
      BY <2>1, <2>2, <2>3
  <1>11. ASSUME NEW t \in Txn, Drop(t) PROVE IInv'
    <2> USE <1>11 DEF Drop
    <2>1. TypeOK' /\ Unsent' /\ Written' /\ Unanswered'
      BY DEF TypeOK, Unsent, Written, Unanswered
    <2>2. Alerts'
      BY DEF TypeOK, Unsent, Written, Alerts, AlertIsForFlagged,
             AtMostOneAlert, KeyNeverPreempts
    <2>3. AnswerMatchesRow'
      BY DEF TypeOK, Unsent, Written, Unanswered, Alerts, AlertIsForFlagged,
             KeyNeverPreempts, AnswerMatchesRow
    <2> QED
      BY <2>1, <2>2, <2>3
  <1>12. ASSUME NEW t \in Txn, RunWorkflow(t) PROVE IInv'
    <2> USE <1>12 DEF RunWorkflow
    <2>1. TypeOK' /\ Unsent' /\ Written' /\ Unanswered'
      BY DEF TypeOK, Unsent, Written, Unanswered
    <2>2. Alerts'
      BY DEF TypeOK, Unsent, Written, Alerts, AlertIsForFlagged,
             AtMostOneAlert, KeyNeverPreempts
    <2>3. AnswerMatchesRow'
      BY DEF TypeOK, Unsent, Written, Unanswered, Alerts, AlertIsForFlagged,
             KeyNeverPreempts, AnswerMatchesRow
    <2> QED
      BY <2>1, <2>2, <2>3
  <1>13. ASSUME NEW t \in Txn, KeyExpires(t) PROVE IInv'
    <2> USE <1>13 DEF KeyExpires
    <2>1. TypeOK' /\ Unsent' /\ Written' /\ Unanswered'
      BY DEF TypeOK, Unsent, Written, Unanswered
    <2>2. Alerts'
      BY DEF TypeOK, Unsent, Written, Alerts, AlertIsForFlagged,
             AtMostOneAlert, KeyNeverPreempts
    <2>3. AnswerMatchesRow'
      BY DEF TypeOK, Unsent, Written, Unanswered, Alerts, AlertIsForFlagged,
             KeyNeverPreempts, AnswerMatchesRow
    <2> QED
      BY <2>1, <2>2, <2>3
  <1>14. CASE Crash
    <2> USE <1>14 DEF Crash
    <2>1. TypeOK' /\ Unsent' /\ Written' /\ Unanswered'
      BY DEF TypeOK, Unsent, Written, Unanswered
    <2>2. Alerts'
      BY DEF TypeOK, Unsent, Written, Alerts, AlertIsForFlagged,
             AtMostOneAlert, KeyNeverPreempts
    <2>3. AnswerMatchesRow'
      BY DEF TypeOK, Unsent, Written, Unanswered, Alerts, AlertIsForFlagged,
             KeyNeverPreempts, AnswerMatchesRow
    <2> QED
      BY <2>1, <2>2, <2>3
  <1> QED
    BY <1>0, <1>1, <1>2, <1>3, <1>4, <1>5, <1>6, <1>7, <1>8, <1>9, <1>10, <1>11, <1>12, <1>13, <1>14 DEF Next, Handle

\* The invariant holds throughout.
THEOREM Invariance == Spec => []IInv
  BY InitInv, StepInv, PTL DEF Spec

-----------------------------------------------------------------------------
\* For any number of submissions: no key, webhook or email about a transaction that
\* is not stored as flagged (the order of create_transaction and trigger_alert).
THEOREM AlertForFlagged == Spec => []AlertIsForFlagged
  <1>1. IInv => AlertIsForFlagged
    BY DEF IInv, Alerts
  <1> QED BY <1>1, Invariance, PTL

\* For any number of submissions: n8n is sent one webhook per transaction at most,
\* with time-outs, late arrivals and crashes (send_webhook_to_n8n).
THEOREM OneAlert == Spec => []AtMostOneAlert
  <1>1. IInv => AtMostOneAlert
    BY DEF IInv, Alerts
  <1> QED BY <1>1, Invariance, PTL

\* For any number of submissions: trigger_alert never finds the key of an alert that
\* was not sent yet.
THEOREM KeyLate == Spec => []KeyNeverPreempts
  <1>1. IInv => KeyNeverPreempts
    BY DEF IInv, Alerts
  <1> QED BY <1>1, Invariance, PTL

\* For any number of submissions: the answer of POST /transactions tells what is
\* stored, whatever Redis and n8n did.
THEOREM AnswersMatch == Spec => []AnswerMatchesRow
  <1>1. IInv => AnswerMatchesRow
    BY DEF IInv
  <1> QED BY <1>1, Invariance, PTL
=============================================================================
