------------------------------ MODULE Dashboard ------------------------------
(***************************************************************************)
(* One browser tab of frontend/src and the list of transactions it shows:  *)
(* the list and its polling (useTransactions.js) and the form that submits *)
(* one (useCreateTransaction, TransactionForm.jsx), with GET /transactions *)
(* behind them, and the cards beside the list (useStats.js), which Stats   *)
(* counts.  The session of the tab is in Browser; here it only leaves the  *)
(* pages.                                                                  *)
(*                                                                         *)
(* TanStack Query keeps one answer per query and replaces it when a fetch  *)
(* succeeds; a fetch that fails is tried twice again, unless no page shows *)
(* the query any more.  There is one fetch of a query at a time: who wants *)
(* another joins it, and only an invalidation of a query that has data and *)
(* is shown drops it and starts anew.  The stream of new transactions is   *)
(* no part of it: nothing is ever published.                               *)
(***************************************************************************)
EXTENDS Stats

CONSTANT Limit      \* rows the list asks for; 100 in the code

ASSUME DashboardAssumption == Limit \in Nat \ {0}

VARIABLES
    shown,      \* the tab shows the pages that mount the queries
    post,       \* the submission of the form
    list        \* the query of the list: whether it has data, the data, their mark,
                \* and its fetch

tabVars == <<shown, post, list>>

vars == <<statsVars, tabVars>>

-----------------------------------------------------------------------------
Sent == [pc |-> "sent", tries |-> 1, again |-> TRUE]

\* GET /transactions: get_all, newest first.
Listed(rs) == [i \in {k \in DOMAIN rs : k > Len(rs) - Limit} |-> rs[i]]

\* Data are "fresh" for thirty seconds from the fetch that brought them, "stale"
\* after that or when invalidated, "failed" when the last fetch brought none.
Empty == [known |-> FALSE, data |-> <<>>, mark |-> "stale", fetch |-> Idle]

Init ==
    /\ StatsInit
    /\ shown = FALSE
    /\ post = Idle /\ list = Empty

-----------------------------------------------------------------------------
\* To fetch is to join the fetch under way, which then may be tried again.
Join(fetch) == IF fetch = Idle THEN Sent ELSE [fetch EXCEPT !.again = TRUE]

\* The pages are shown: the list is fetched, unless its data are fresh.
Show ==
    /\ ~shown /\ shown' = TRUE
    /\ \/ list.mark = "fresh" /\ UNCHANGED list
       \/ list.mark # "fresh" /\ list' = [list EXCEPT !.fetch = Join(@)]
    /\ UNCHANGED <<statsVars, post>>

\* Sign out, or the settings: requests under way go on, but are not tried again.
Hide ==
    /\ shown /\ shown' = FALSE
    /\ list' = [list EXCEPT !.fetch = IF @ = Idle THEN @ ELSE [@ EXCEPT !.again = FALSE]]
    /\ UNCHANGED <<statsVars, post>>

\* staleTime is over.
Age ==
    /\ list.mark = "fresh"
    /\ list' = [list EXCEPT !.mark = "stale"]
    /\ UNCHANGED <<statsVars, shown, post>>

\* gcTime is over: data that nobody shows are dropped.
Collect ==
    /\ ~shown /\ list.fetch = Idle /\ list' = Empty
    /\ UNCHANGED <<statsVars, shown, post>>

\* The network is back: what is stale is fetched.
Reconnect ==
    /\ shown /\ list.mark # "fresh"
    /\ list' = [list EXCEPT !.fetch = Join(@)]
    /\ UNCHANGED <<statsVars, shown, post>>

\* A page load, by the user or after a 401, forgets everything.
Reload ==
    /\ shown' = FALSE
    /\ stats' = Idle /\ post' = Idle /\ list' = Empty
    /\ UNCHANGED rows

-----------------------------------------------------------------------------
PostSend ==
    /\ shown /\ post.pc \in {"idle", "told"}
    /\ post' = [pc |-> "sent"]
    /\ UNCHANGED <<statsVars, shown, list>>

\* POST /transactions: the insert.
PostServe ==
    /\ post.pc = "sent"
    /\ \E status \in New : Arrive(status)
    /\ post' = [pc |-> "saved", row |-> Len(rows')]
    /\ UNCHANGED <<shown, list>>

\* onError: the request is refused, or it or its answer is lost.
PostFail ==
    /\ post.pc \in {"sent", "saved"}
    /\ post' = Idle
    /\ UNCHANGED <<statsVars, shown, list>>

\* Faulty: a fetch under way is never dropped.
InvalidateJoins ==
    list' = [list EXCEPT !.mark = "stale", !.fetch = IF shown /\ @ = Idle THEN Sent ELSE @]

\* invalidateQueries, and refetch by the table: what is shown is fetched anew if it
\* has data; the first load is joined, and what is hidden is only marked.
Invalidate ==
    list' = [list EXCEPT !.mark  = "stale",
                         !.fetch = IF shown /\ (list.known \/ @ = Idle) THEN Sent ELSE @]

\* onSuccess: the user is told; "loaded" notes whether there was a list to fetch anew.
PostSucceeds ==
    /\ post.pc = "saved"
    /\ post' = [pc |-> "told", row |-> post.row, loaded |-> shown /\ list.known]
    /\ Invalidate
    /\ UNCHANGED <<statsVars, shown>>

-----------------------------------------------------------------------------
\* Faulty: pending as DashboardMetrics.jsx compares it.
IsPendingExactly(status) == status = "pending"

\* Compared in lower case: what is stored is PENDING.
IsPending(status) == status = "PENDING"

\* refetchInterval: the list is polled while it shows a pending transaction.
Poll ==
    /\ shown /\ list.fetch = Idle
    /\ \E i \in DOMAIN list.data : IsPending(list.data[i])
    /\ list' = [list EXCEPT !.fetch = Sent]
    /\ UNCHANGED <<statsVars, shown, post>>

FetchServe ==
    /\ list.fetch.pc = "sent"
    /\ list' = [list EXCEPT !.fetch =
                    [pc |-> "read", tries |-> @.tries, again |-> @.again, data |-> Listed(rows)]]
    /\ UNCHANGED <<statsVars, shown, post>>

FetchEnds ==
    /\ list.fetch.pc = "read"
    /\ list' = [known |-> TRUE, data |-> list.fetch.data, mark |-> "fresh", fetch |-> Idle]
    /\ UNCHANGED <<statsVars, shown, post>>

\* Three failures in a row, or one that is not tried again, leave the old data and
\* an error.
FetchFails ==
    /\ list.fetch # Idle
    /\ list' = IF list.fetch.tries < 3 /\ list.fetch.again
               THEN [list EXCEPT !.fetch = [Sent EXCEPT !.tries = list.fetch.tries + 1]]
               ELSE [list EXCEPT !.fetch = Idle, !.mark = "failed"]
    /\ UNCHANGED <<statsVars, shown, post>>

-----------------------------------------------------------------------------
\* Other clients submit and decide.
Others ==
    \/ \E status \in New : Arrive(status)
    \/ \E i \in DOMAIN rows, verdict \in Decided : Decide(i, verdict)

\* The cards ask when they are shown, every thirty seconds and when invalidated.
Cards == (shown /\ StatsSend) \/ StatsSelect \/ StatsEnd

Next ==
    \/ Others /\ UNCHANGED tabVars
    \/ Cards /\ UNCHANGED tabVars
    \/ Show \/ Hide \/ Age \/ Collect \/ Reconnect \/ Reload
    \/ PostSend \/ PostServe \/ PostFail \/ PostSucceeds
    \/ Poll \/ FetchServe \/ FetchEnds \/ FetchFails

Spec == Init /\ [][Next]_vars

\* Timers fire, the backend answers, and not every answer is lost; people owe
\* nothing.
FairSpec == Spec /\ WF_vars(Poll) /\ SF_vars(FetchServe) /\ SF_vars(FetchEnds)

-----------------------------------------------------------------------------
Shows(i, status) == i \in DOMAIN list.data /\ list.data[i] = status

\* A transaction that is shown as pending after it was decided is not shown so for
\* ever, as long as the page is looked at, however often fetches fail on the way.
DecisionIsShown ==
    \A i \in 1 .. MaxRow :
        (shown /\ i \in DOMAIN rows /\ rows[i] # "PENDING" /\ Shows(i, "PENDING"))
            ~> (~shown \/ ~Shows(i, "PENDING"))

\* Row i is shown, has been pushed out by newer ones, or its fetch failed for good.
ListedOrExcused(i) ==
    \/ ~shown \/ (list.fetch = Idle /\ list.mark = "failed")
    \/ i \in DOMAIN list.data \/ i <= Len(rows) - Limit

\* What the user is told was submitted comes into a list that was shown then and had
\* data, also when the list was being fetched meanwhile.
SubmittedJoinsList ==
    \A i \in 1 .. MaxRow :
        (shown /\ post.pc = "told" /\ post.row = i /\ post.loaded) ~> ListedOrExcused(i)

\* TransactionTable.jsx:12 and TransactionForm.jsx:67, the table follows a submission
\* in real time: whatever the list was doing, what was submitted comes into it.
SubmittedIsShown ==
    \A i \in 1 .. MaxRow :
        (shown /\ post.pc = "told" /\ post.row = i) ~> ListedOrExcused(i)
=============================================================================
