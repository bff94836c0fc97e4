# A verification project for FinGuard's fraud review

FinGuard scores card transactions, stores them, and asks the user about the
suspicious ones by email. These TLA+ modules model the parts of it where
handlers, Redis, n8n, clients and failures meet, check them with TLC and prove
the most important results with TLAPS. `PROJECT.json` lists every run, theorem,
hazard and the source lines of each definition.

## 1. The system

| Component | State | Operations | Talks to |
|---|---|---|---|
| Submission (`backend/routers/transactions.py`, `services/transaction_service.py`) | rows of `transactions` | POST /transactions, /predict, the two GETs | scoring, velocity, alert, Redis channel |
| Scoring (`services/rule_engine.py`, `services/ml_service.py`, `src/velocity_engine.py`) | model and threshold of the process | predict, rules, combine_scores | velocity |
| Velocity window (`services/velocity_service.py`) | sorted set and average per user in Redis | read the profile, store a submission | Redis |
| Alert delivery (`services/notification_service.py`) | `alert_sent:<id>` keys | trigger_alert, send_webhook_to_n8n | Redis, n8n |
| n8n workflows (`n8n/workflows`) | queued executions | alert email; link to approve / reject | mail server, decision endpoints |
| Review (`routers/transactions.py`, `routers/webhook.py`) | `transactions.status`, `audit_logs`, `verification_tokens` | approve, reject, transaction-response | database |
| Sessions (`routers/auth.py`, `repositories/refresh_token_repository.py`) | `refresh_tokens` | login, refresh, logout | database |
| Registration (`routers/auth.py`, `core/security.py`, `repositories/user_repository.py`) | `users` | register | database |
| Statistics, health (`routers/stats.py`, `routers/health.py`) | none | dashboard counts, liveness, readiness | database, Redis, model |
| Live stream (`routers/transactions.py`) | Redis channel, subscribers | subscribe, publish | Redis |
| Startup (`main.py`, `core/redis.py`, `database.py`) | Redis client, pool | connect, load the model | Redis, MLflow |
| Training pipeline (`src/`, `dvc.yaml`) | model files, threshold, registry | train, evaluate, choose a threshold, promote | files, MLflow |
| Batch scoring (`src/score_new_transactions.py`, `src/reason_codes.py`) | none | score a file | files |
| Frontend (`frontend/src`) | access token in localStorage, query cache of a tab | login, submit, list, cards | the API |
| Streamlit page (`app.py`) | cached model and threshold | judge, show reasons | files |

The backend is one asyncio process: a handler runs alone until it awaits the
database, Redis or n8n, and any other handler may run there. Each request has a
database session of its own; the code takes no lock and keeps no version of a
row, so what was read before an await may be stale after it. That, and the
calls that fail half-way, is what is hard here:

* **decisions** - two links of one email, followed together; a link followed
  again; a token used twice; a crash between the read and the commit;
* **alerts** - a guard key set before the webhook it guards; a webhook that
  arrives after its time-out; a row stored whose alert is never sent;
* **sessions** - one refresh token presented twice; a refresh that overlaps a
  logout; two tokens minted in one second; revoke and store committing apart;
* **model artefacts** - a model file, a threshold file and a registry written by
  three processes at different times, read by a fourth, each of which may die;
* **velocity** - a window read before scoring and written after it; several
  clocks trimming one set; a running average updated by read and write;
* **scores** - one threshold compared with two different scores, a level taken
  before rounding and a flag after it;
* **the browser** - answers that arrive when the tab, the token or the list they
  were asked for is no longer the one that is there.

What would make each part correct: a verdict is somebody's decision, on record,
and final; nobody is asked twice or about a row that is not there, and whoever
was asked gets a verdict; an account is made once; a token has one owner, follows
its predecessor's end, and is spent for good; a rule fires for what really
happened, and does fire when it should; a model is used with its own threshold;
what is flagged is explained; a tab comes to show what happened and keeps a
session that is good.

## 2. Modules

```
TransactionLifecycle   what models.py draws            <- implemented by
TransactionReview      rows, tokens, audit trail, decision handlers
AlertDelivery          submission, guard key, webhook, n8n, email
ReviewFlow             AlertDelivery + TransactionReview on one table
Sessions               registration, login, refresh, logout
Velocity               the Redis window and average of a user
ThresholdPolicy        metrics of a threshold, the choice among them
Scoring                rules, blend, level, flag and reasons of one transaction
ModelServing           training, evaluation, promotion, startup, the offline
                       programs (extends ThresholdPolicy and Scoring)
Stats                  the cards of the dashboard: GET /stats
Dashboard              the list and the form of one tab, and its cards
                       (extends Stats)
Browser                the session that the tabs of a browser share
*Proofs                theorems about the module they are named after, and those it
                       extends
MC*                    model values, instances and symmetry for TLC
```

All concurrent modules are written the same way: `pc` says how far each
request is, every await on a shared store ends a step, a step's guard is the
condition of the code and its effect is what is committed there. A definition
whose comment begins with *Faulty* is a plausible bug in the definition that
follows; no specification uses it. Each property is known to fail when one such
bug is put in the place of the code.

**TransactionLifecycle** is the abstract specification: five states, four moves
(`models.py:51-77`).

**TransactionReview.** `status` is the column, "none" before the insert. It
keeps the strings as they are stored: `predict_fraud` writes upper case, the
readers' constants are lower case, and `Lower` is what the guard applies.
`Create` is the commit of a scored row, `Load` the select with its 404 and
400, `CheckToken` the token's select and tests, `Commit` the single database
transaction that writes the status with the audit row (endpoints) or with
`is_used` (token path, which writes no audit row), `Reply` the refresh and the
200. `Fail` is an exception in any of them, after the commit too; `Crash` ends
every handler. A slot of `Req` is a connection: `Close` lets it carry a new
request, so a retry is a new request. Tokens exist only for seeded rows, because
only `init_db.py` makes them. The seeded row that is `auto_approved` behaves as
a scored one and is not modelled apart. `overlap` says of a whole behaviour whether
clients ask about a transaction while another request about it is open; it is chosen
at the start. The life cycle is implemented where they do not; where they do, it is
mapped to one that stands still.

**AlertDelivery.** `sub` is the progress of a submission's handler. The guard
key is looked up and set in two steps; `Post` puts the webhook on the `wire`,
from where n8n takes it (`Accept`) or it is lost (`Drop`), both possibly after
the handler has given up waiting (`Return`). `RunWorkflow` is the email node,
which continues when the mail server fails. `hasRedis` is whether the client
connected at startup; a `Crash` includes the restart. Nothing resends an alert.

**ReviewFlow** takes both as they are. They share the table: `Save` is one
action of both, and `AlertDelivery` sees `row` as a function of `status`. The
clicks on the email's links become requests to the endpoints (`Click`). The
endpoints check no token and GET /transactions lists the identifiers, so anyone
else may ask for a decision too, at any time, stored transaction or not (`Ask`).
`ImplementsParts` says that each part still does
only what its own specification allows: the review over a table without seeded
rows, the alert delivery over the rows that exist.

**Sessions.** A token is a user and an expiry in whole seconds, as `create_refresh_token`
makes it: two tokens minted for one user in one second are equal. `validate_hash`,
the load of the user, the select of `revoke`, its commit, `store_hash` and the
answer are steps; `revoke` and `store_hash` commit apart. The JWT library and
`validate_hash` compare with clocks of different precision, so in the second of
its expiry a token may pass or fail either. `LookUp`, `Insert` and `Created` are
registration: the schema's 422, the select by address, the insert under the unique
column, the refresh of the row. A password is the 72 bytes bcrypt looks at;
`Weak` ones break a rule of `validate_password`. Signatures are taken as checked.

**Velocity** is one user's window. `hist` is the sorted set and `at` its
scores, `dies` its time to live, `avg` the amounts blended into the average, in
order, from which `Mean` computes the number as a fraction. `Trim`, `Count5`,
`Count1h`, `GetAverage` read; `Add`, `Keep` (EXPIRE), `ReadAverage`,
`WriteAverage` store. `LoseProfile` and `LoseStore` are the `except` clauses,
which swallow errors and keep what was read so far. `covered` is a history
variable: the entries that were in the set when an EXPIRE gave it an hour.

**ThresholdPolicy** has no state. A row of the threshold search is its confusion
matrix and rates are exact fractions; a key is the tuple the code gives to `min`
or, negated, to `max`; the first of equal rows is the one with the lowest
threshold, because the grid ascends. `OrOne` is Python's `x or 1.0`.

**Scoring** has no state either. `Triggered` is `evaluate_velocity_rules` with all
five rules, `Blend`, `Rounded` and `RiskLevel` are `combine_scores`, `round` and
`get_risk_level`, `Decision` is `predict_fraud`; `OfflineFlag` and
`OfflineReasons` are `score_dataframe` and `reason_codes_for_row`. Everything is
in integers of a named unit; `noise` is the last bit of a sum of doubles, left
open, because it decides what happens exactly at a bound. The stub's term for the
night is absent: it reads `transaction_hour`, which the input calls `hour`.

**ModelServing** is the life of a model. `file` and `threshold` are the two
artefacts, which a writer truncates (`Torn`) before it fills them; `logged` and
`production` are what MLflow knows; the trainer, the evaluator, the backend and
`offline`, which is the Streamlit page or the batch scorer, are processes that die
or are stopped anywhere. `Start` is `load_model_on_startup` up to the model,
`ReadThreshold` the rest; `LoadOffline` and `ReadThresholdOffline` are the two
loads of the page, which caches each separately. `order` is a history variable:
how far train, evaluate, restart were done without anybody running in between.

**Dashboard** is one tab. `list` is TanStack Query's entry for the list: whether it
has data, the data, whether they are fresh, and the fetch under way with its tries.
There is one fetch at a time. `Invalidate` is `invalidateQueries` and the table's
`refetch`: a running fetch is dropped for a new one only when the list is shown and
has data; during the first load it is joined, and a list that nobody shows is only
marked, which the success of a running fetch resets. `Age` and `Collect` are
`staleTime` and `gcTime`; `Show` fetches unless the data are fresh; `Hide` (sign out)
keeps a fetch going but not its tries; `Poll` is `refetchInterval`, which asks whether
the data shown hold a pending row; `Reload` is the other way out. Other clients
insert, decide and replace verdicts between any two steps.

**Stats** is what the cards of that tab ask for: `get_stats`, each of whose counts is a
select of its own, while others insert, decide and replace verdicts. Of the counts that
must not overlap it keeps the sum. Its specification is the part of `Dashboard` that
the cards see.

**Browser** is localStorage and the tabs over it. A submission carries the token
that was stored when it was sent (the request interceptor), and its 401 empties
what is stored when it arrives (the response interceptor); a wrong password is a
401 like any other. `user` is React state, which follows localStorage only when
a page loads. The refresh token of a login is never kept, so nothing renews a
session here.

## 3. Runs

| Run | Shows | Bounds |
|---|---|---|
| `review` | see below | 1 seeded and 1 scored transaction, 2 requests open at a time, overlapping or not |
| `review_verdict_final` | *violated:* a verdict can be replaced | 1 transaction, 2 requests |
| `alert_delivery` | see below | 2 submissions |
| `flow` | the composed system | 1 transaction, 2 requests, 2 faults |
| `flow_flagged_decided` | *violated:* a flagged transaction may wait for ever | the same |
| `sessions` | see below | 1 address, 3 passwords (1 weak), 2 requests, seconds 0 to 2, tokens of 1 second |
| `velocity` | see below | 3 submissions, 2 amounts, windows of 1 and 3, limits 2 and 2, clock to 5 |
| `velocity_burst` | *violated:* an overlapping burst is not caught | 3 submissions, no failures, clock to 1 |
| `serving` | see below | 40 cases, 3 models, 6 thresholds; 192 transactions, 12 probabilities, 4 profiles |
| `dashboard` | see below | a page of 1 row, 2 rows at most, one submission under way |
| `dashboard_submitted_shown` | *violated:* a submitted row may be missing | the same |
| `browser` | see below | 2 tabs, 3 tokens |

`review`: a verdict is backed by a decision on record (`VerdictIsBacked`);
transactions approved automatically are never reviewed (`OnlyFlaggedReviewed`);
a pending one has lost nothing (`PendingIsUntouched`); a 200 is for a decision
that is and stays on record (`AckIsOnRecord`); where no tokens exist the newest
audit row names the status, and a request leaves one row (`TrailMatchesStatus`,
`OneRowPerRequest`). `SettledIsFinal` says how far the race reaches: once no
handler holds a pending copy of a decided transaction, nothing changes it any
more. When the requests about a transaction come one at a time, the handlers implement
the life cycle (`ImplementsLifecycle`). Two requests are enough for every race between a read and a commit, since
a step of one request depends on the others only through the row; the theorems
lift the bound.

`alert_delivery`: no key, webhook or email about a row that is not stored as
flagged; at most one alert per transaction whatever times out or crashes; the
key never silences the only alert; the answer agrees with the stored row; every
submission ends. Submissions share nothing but the process and its client, so
two show what there is. There is no deadlock: a crash is always possible.

`flow`: the composition implements `TransactionReview` and `AlertDelivery`
(`ImplementsParts`), so what holds of the parts holds of the whole. Once the email is
sent, whoever asks for a decision about its transaction finds it stored and flagged,
and is refused only if it was decided (`LinksLeadToReviews`); a user with the email
ends in a verdict, be it another's, although requests fail and the backend crashes
(`MailedIsDecided`). That a verdict comes from somebody who was asked is not true of
the code and not claimed. `MaxFaults` bounds the failures of requests and the crashes:
with unboundedly many no verdict can be promised. One transaction suffices: rows of
different transactions never meet, and the slots of `Req` are the requests about this
one. Requests are always possible, so nothing stops.

`sessions`: whoever races or fails, an account opens only to the password of the
registration that made it, and a 201 is for that one; a refresh mints only after
the old token is revoked, so no failure leaves both good; no two answers carry
one token; a revoked token is spent once the refreshes that had validated it are
over: that two of these both get a new pair, or one outlives a logout, is admitted. With the clock at 0, 1 and 2 and tokens of one second, tokens expire while
requests run, and two mints fall into one second and into different ones. Rows of
different users never meet, so one address is enough; the theorems lift all of it.

`velocity`: a count is never more than the other submissions of the window;
every entry that an EXPIRE covered is counted by whoever reads later, although
other handlers trim and the set expires (at the far end of the hour a handler
may lose what one with a later clock trims); an amount is blended in once at
most; an unusual amount is more than three times an earlier one. The limits 3
and 5 of the rules are 2 and 2 here and the windows 1 and 3, so that three
submissions reach them; `Slow` (1) bounds how long a handler takes, below the
difference of the windows. The clock stops at `MaxTime` and submissions are made
once, hence no deadlock check.

`serving`: whatever dies or overlaps, the selected threshold is one that no other
beats case by case, it is the one the policy file recommends, the candidates meet
their targets and exist when a target can be met, and after train, evaluate,
restart in that order the model of the file has its own threshold, in the backend,
in the page and in the batch scorer (`MatchedInOrder`). Then every transaction is
judged: from a threshold of 0.35 on nothing is flagged without a reason the analyst
is shown, the preview flags nothing that a submission clears, level and flag part
only where rounding lifts a score to 0.5, and where the backend flags what the
offline programs clear, with one model and one threshold, a rule did it
(`FlaggedIsExplained`, `PreviewFlagsNoMore`, `LevelMeetsFlag`,
`OnlineFlagNeedsRule`). The 40 cases are enough for the real targets (95 %, 70 %,
10 %) to be missed, met and met exactly, and for costs to tie; the thresholds are
six of the nineteen of `THRESHOLD_GRID`; the transactions, probabilities and
profiles lie on both sides of every bound in the rules, the bands and the reasons.
The processes, not the numbers, make the states, and two overlapping runs of one
kind are left out. `MatchedInOrder` promises nothing out of that order: a start between
training and evaluation pairs a model with another's threshold, a start on a
half-written file ends the backend, and a model from the registry gets the local
threshold, whichever it is (`ml_service.py:81`). All three happen in the run.

`dashboard`: the cards never count a transaction twice although each count is a select
of its own, because the code happens to count in the one safe order
(`EachCountedOnce`). A decision comes to be shown (`DecisionIsShown`), and what the user was
told was submitted comes into a list that was shown then and had data, also when the
list was being fetched at that moment (`SubmittedJoinsList`). A page of one row with two
rows in the table is the smallest where a new row pushes an old one out. `MaxRow`
bounds the inserts; a page load is always possible, so nothing stops. In
`dashboard_submitted_shown` the list is being loaded for the first time when the
submission succeeds: the answer from before the insert stays, and if it lists nothing
pending, nothing polls. What was submitted while the pages were left is in the model
and under neither property.

`browser`: the interceptor removes whatever is stored when a 401 arrives and does not
compare tokens, so a token that is still good does get lost: to a wrong password on the
login page, and to the 401 of a submission that carried another token or none.
`GoodTokenIsKept` says that these, a logout and a login are all: no answer to a
submission that carried the token, and no other error, removes it. Two tabs and three
tokens let an old tab's answer meet a newer login of the other.

### Fairness

`AlertDelivery` and `ReviewFlow` assume weak fairness of the handlers' own steps: the
event loop runs every ready coroutine, and each call returns, raises or times out (the
webhook after ten seconds). Of Redis this is a little generous: its client has no socket
timeout (`core/redis.py:26-31`), so a server that accepts and never answers holds a
submission for as long as TCP allows. `flow` adds that clients take their answers and
that a user who has the email follows one of its links, again if no verdict came
(`Click`); without that nothing obliges anyone to decide. Of others that ask (`Ask`)
nothing is assumed.
`dashboard` assumes that the poll timer fires (weak fairness of `Poll`) and that
the backend answers and not every answer is lost (strong fairness of `FetchServe`
and `FetchEnds`: a fetch that is dropped or fails disables them, and the next one
enables them again). No fairness is assumed of the network, of n8n, of the mail
server, of the clock or of people who browse. `TransactionReview`,
`Sessions`, `Velocity`, `ModelServing` and `Browser` state no liveness and no fairness.

### Divergences

Shown by a run:

* The later of two overlapping decisions replaces the earlier verdict, and both
  are answered 200 (`transactions.py:202`, `:223`; `webhook.py` likewise, so a
  token can be accepted twice while the first use is uncommitted).
* A refused webhook or a crash after the insert leaves a pending transaction
  nobody is asked about, while the answer announces the email; the guard key is
  set before the send (`notification_service.py:62`).
* Submissions that overlap do not see each other in the window, so VEL_001 can
  be silent for a burst (`transaction_service.py:60` and `:113`).
* A submission that succeeds during the first load of the list may stay out of it
  (`useTransactions.js:44`, `TransactionForm.jsx:68`, `TransactionTable.jsx:15`).

Built into the models, which do as the code does:

* Approve and reject take no token (`transactions.py:190`, `:234`), so a verdict need
  not come from the user who was asked.
* Two refreshes of one token both succeed when they mint in different seconds, and a
  refresh that overlaps a logout still mints: `auth.py:150` ignores what `revoke`
  returns, although `models.py:406` promises no reuse after a logout.
* Two handlers that read one average write theirs in turn, and an amount is lost from
  it (`velocity_service.py:88` and `:96`).
* A 401 removes a newer token than the one it refused (`api.js:26`).
* A refresh in the second its token was minted revokes it and then fails on the
  unique hash (`auth_service.py:125`), as does a second login in that second.
* The second of two racing registrations gets 500, not 409 (`auth.py:59`).
* The threshold is chosen for the model's probability and compared with the blend
  of it and the rules (`transaction_service.py:75`); under a low one a score can
  flag a transaction with no reason to show.
* A start while `threshold.json` is half-written ends the backend, and the
  registry's model is served with the local file's threshold (`ml_service.py:81`).
* The stub never uses its night term: `transaction_hour` is not a field of the
  input (`ml_service.py:103`).
* The refresh token of a login is dropped (`AuthContext.jsx:24`): after fifteen
  minutes the user logs in again.

Met while reading, and outside the models:

* `transaction_service.py:151` reads `txn.timestamp`, which no row has: nothing is
  ever published, and the stream is silent.
* `health.py:45` calls `ping` on a wrapper that has none: never ready.
* `stats.py:15` imports the threshold by value, before startup sets it;
  `transactions.py:141` answers `threshold_used` 0.5 whatever was used.
* `stats.py:59` divides a later count by an earlier one: above one hundred percent
  is possible.
* `auth.py:94` looks up the address as typed, while registration stored it as the
  validator normalised it.
* `DashboardMetrics.jsx:13` compares the status with lower-case names where the
  API sends upper-case ones; `transaction_service.py:121` stores the text of an
  enumeration's member rather than its value.
* The `evaluate` stage of `dvc.yaml` does not list `threshold.json` among what it
  writes.

## 4. Proofs

Every theorem holds for all values of the constants, from the named assumptions
of its module alone. The properties are seldom inductive; each module of a
component with state strengthens them to an inductive invariant, `IInv`.

* **TransactionReviewProofs**: every safety property of `review`, and that the review
  implements `TransactionLifecycle` where requests about a transaction do not overlap
  (initial states and every step; the life cycle has no fairness). `IInv` adds `TypeInv` (who is past the token check names a token that
  exists, who loaded a row saw one of the two spellings of pending),
  `CommittedOnRecord` (between commit and answer the row or the used token is
  there: what makes a 200 durable) and `HolderHasNoRow` (who still has to commit
  has no row: one row per request). `SerialInv` says that a handler that holds a
  pending copy is the only one, and its copy true.
* **AlertDeliveryProofs**: the four invariants of `alert_delivery`. Until the
  handler has sent, nothing of its alert is out (`Unsent`), and it never comes back
  to send again; the insert comes before the look at the key (`Written`).
* **SessionsProofs**: types and the four properties of `sessions`. A refresh holds
  a token that is in the table, so a revoke that finds nothing has found it revoked
  (`Revocations`); an insert that succeeds has made its row and nothing overwrites
  one (`Accounts`, `Owners`); `Places` says who can be where with what.
* **ReviewFlowProofs**: the composition implements both of its parts, from the
  first state and step by step (`FlowImplementsReview`, `FlowImplementsAlert`):
  what one part does is a stutter of the other, except `Save`, which is a step of
  both, and a crash. What is proved of the parts is then instantiated and holds of the
  whole (`PromisesKept`), and their inductive invariants are at hand for the property
  that relates the parts (`LinksLead`, an action property, whoever the callers are): what
  is mailed was saved as flagged (`MailedIsStored`), and the row of a flagged submission
  is pending or decided, so `Load` finds no other reason to refuse.
* **VelocityProofs**: types and the four properties of `velocity`. A submission is
  entered once, after its own counts (`Entries`); a covered entry leaves the set only
  when its hour is over by a clock that no handler lags by more than `Slow` (`Clock`,
  `Kept`); an amount is in an average only when its handler has ended (`Averages`).
  `RecordedIsCounted` needs `Five + Slow < Hour`, an assumption of the module that real
  windows of five and sixty minutes meet. `UnusualIsUnusual` is about a number: the
  average lies above some amount blended into it, because each blend of two numbers
  lies above the lesser (`BlendAbove`). `Mean` is a recursive function, and the provers
  have no induction, so both that it exists and what it is above are shown by the least
  place where they fail (`MeansExist`, `MeanAbove`).
* **ModelServingProofs**: types and all nine properties of `serving`, in three parts
  and their composition.
  *The choice of a threshold*, for any test set with cases of both kinds, any grid and
  any scores. `Least` is a `CHOOSE`, which says nothing unless there is a least key:
  `Before` is transitive and orders different thresholds, and a transitive total order
  of a finite set has a first member (`FirstExists`, by a smallest set without one).
  `CandidateIsLeast` gives the first two places of the key, `RowCounts` and `Split` the
  counts behind them; `CaseByCase` turns costs into what each case gains or loses.
  *The judgement*, for every transaction, profile, probability and threshold. All of it
  rests on `TopScore`: the rules enter the blend by the highest of their scores.
  *The processes*, for any models that are not the marks of a missing or torn file.
  Each step of the documented order leaves a trace, in the files (`Loaded`,
  `Evaluated`) or in a process that has read one of them (`Starting`, `Opening`).
  *Together*: by `TypeOK` every threshold in use is `evaluate.py`'s choice for a model or
  the default, so that the first two parts apply to it.
* **DashboardProofs**: `EachCountedOnce` for any number of rows. It is an invariant of
  `Stats`, which the tab implements (`TabImplementsStats`: a submission is an insert
  like any other, a page load the end of a request): what was counted as
  automatic stays so, and what was counted as rejected stays decided, though maybe
  approved by now; hence the sum so far never exceeds the rows that are now automatic
  or decided (`Counted`), and none of these is pending.
* **BrowserProofs**: `GoodTokenIsKept` for any number of tabs: what was refused is
  not good, and never becomes so, because a login issues a new token; hence a 401 of a
  submission that carried the stored token finds it no longer good.

Every invariant and every action property of the passing runs has its theorem, and so
have the two refinements. Left to TLC is liveness under fairness (`SubmissionEnds`,
`MailedIsDecided`, `DecisionIsShown`, `SubmittedJoinsList`): the provers have no
`ENABLED`. The four properties that runs find violated are shown by their
counterexamples. The theorems are about the models, in which numbers are exact but for
the last bit of a blended score (`Noise`).

## 5. Plan

1. A second trainer and a second evaluator in `ModelServing`, once the instance can
   be kept small enough.
2. An abstract specification of the session of a user, which `Sessions` implements
   where requests do not overlap, as the life cycle is for the review.
3. The stream, when something is published on it.
4. A retry of lost alerts in `AlertDelivery`, should the code get one: `KeyLate` and
   `OneAlert` say what it must not break.

## 6. Not modelled

The live stream, which publishes nothing, and readiness, which is a constant; the
schema's migrations, which hold nothing beyond the unique columns of Sessions;
middleware, settings, logging and metrics; the generation of synthetic data, the
checks of data frames, SHAP reasons and model fitting, which are numerical
libraries and file output; the figures, uploads and the threshold slider of the
Streamlit page; rendering, sorting, export and charts of the frontend; containers,
CI and the one-off scripts that edit the source; the synchronous token functions of
`auth_service.py` and the audit service, which nothing calls.

Of the components that are marked as partly modelled, the rest is of these kinds.
The seeded rows that nobody can review behave as scored ones and are not modelled
apart.
