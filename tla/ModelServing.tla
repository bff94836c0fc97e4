---------------------------- MODULE ModelServing -----------------------------
(***************************************************************************)
(* A model from its training to the backend that uses it: train_model.py,  *)
(* evaluate.py and promote_model.py of src/, each a process of its own,    *)
(* and load_model_on_startup of backend/services/ml_service.py.  They meet *)
(* in models/fraud_pipeline.joblib, models/threshold.json and the registry *)
(* of MLflow.  Nothing locks a file, and a file is truncated before it is  *)
(* written: a process that dies in between leaves it torn, and whoever     *)
(* reads it then gets an exception.  Transactions are then judged as in    *)
(* Scoring, by the backend and by the offline programs: the Streamlit page *)
(* (app.py), which keeps what it has loaded until it is restarted, and     *)
(* score_file.  They do not meet each other, so one of them at a time is   *)
(* enough.                                                                 *)
(***************************************************************************)
EXTENDS ThresholdPolicy, Scoring

VARIABLES
    file,       \* fraud_pipeline.joblib
    threshold,  \* threshold.json: the chosen row, and the model it was chosen for
    logged,     \* models logged in runs of MLflow
    production, \* model of the version in stage Production
    train, eval,
    server,     \* the backend: its model, where it comes from, its threshold
    offline,    \* the page or score_file: its model and its threshold
    order       \* history variable: how far the order of docs/mlops.md was kept

vars == <<file, threshold, logged, production, train, eval, server, offline, order>>

-----------------------------------------------------------------------------
None == "none"
Torn == "torn"
Stub == "stub"

ASSUME ServingAssumption == {None, Torn, Stub} \cap Model = {}

Idle == [pc |-> "idle"]
Down == [pc |-> "down"]

\* What evaluate.py writes about each model.
Choice == [model \in Model |-> [of |-> model, row |-> PickBest(Results(model))]]

Default == [of |-> None, row |-> [threshold |-> 50]]

Advance(from, to) == order' = IF order = from THEN to ELSE order

\* The repository comes with a threshold.json and without a model file.
Init ==
    /\ file = None
    /\ threshold \in {Choice[model] : model \in Model}
    /\ logged = {} /\ production = None
    /\ train = Idle /\ eval = Idle /\ server = Down /\ offline = Down
    /\ order = "none"

\* train_and_evaluate: the model is fitted, and its file opened for writing.
TrainOpen(model) ==
    /\ train = Idle
    /\ train' = [pc |-> "writing", model |-> model]
    /\ file' = Torn
    /\ order' = "none"
    /\ offline' = IF offline.pc = "loading" THEN [offline EXCEPT !.inOrder = FALSE] ELSE offline
    /\ UNCHANGED <<threshold, logged, production, eval, server>>

TrainWrite ==
    /\ train.pc = "writing"
    /\ train' = [train EXCEPT !.pc = "written"]
    /\ file' = train.model
    /\ order' = "trained"
    /\ UNCHANGED <<threshold, logged, production, eval, server, offline>>

\* log_model, whose failure is only a warning.
TrainLog ==
    /\ train.pc = "written"
    /\ train' = Idle
    /\ logged' \in {logged, logged \cup {train.model}}
    /\ UNCHANGED <<file, threshold, production, eval, server, offline, order>>

TrainDies ==
    /\ train # Idle
    /\ train' = Idle
    /\ UNCHANGED <<file, threshold, logged, production, eval, server, offline, order>>

\* Faulty: the model in Production is evaluated, when there is one.
EvalLoadProduction ==
    /\ eval = Idle /\ file \in Model
    /\ eval' = [pc |-> "loaded", model |-> IF production = None THEN file ELSE production]
    /\ order' = "loaded"
    /\ UNCHANGED <<file, threshold, logged, production, train, server, offline>>

\* evaluate.main loads the model and scores the test set; without one it ends.
EvalLoad ==
    /\ eval = Idle /\ file \in Model
    /\ eval' = [pc |-> "loaded", model |-> file]
    /\ order' = "loaded"
    /\ UNCHANGED <<file, threshold, logged, production, train, server, offline>>

EvalOpen ==
    /\ eval.pc = "loaded"
    /\ eval' = [eval EXCEPT !.pc = "writing"]
    /\ threshold' = [of |-> Torn]
    /\ UNCHANGED <<file, logged, production, train, server, offline, order>>

EvalWrite ==
    /\ eval.pc = "writing"
    /\ eval' = Idle
    /\ threshold' = Choice[eval.model]
    /\ Advance("loaded", "evaluated")
    /\ UNCHANGED <<file, logged, production, train, server, offline>>

EvalDies ==
    /\ eval # Idle
    /\ eval' = Idle
    /\ Advance("loaded", "trained")
    /\ UNCHANGED <<file, threshold, logged, production, train, server, offline>>

\* promote_model: the model of a run becomes the one in Production; a run that
\* logged none cannot be registered.
Promote ==
    /\ production' \in logged
    /\ UNCHANGED <<file, threshold, logged, train, eval, server, offline, order>>

Loading(model, source) == [pc |-> "loading", model |-> model, from |-> source]

Up(loading, thr) == [pc |-> "up", model |-> loading.model, from |-> loading.from, threshold |-> thr]

\* The backend starts: the model in Production if the registry can be reached, or
\* else the file; with neither, it serves the stub and looks no further.  A torn
\* file ends it.
Start ==
    /\ server = Down
    /\ \/ production # None /\ server' = Loading(production, "registry")
       \/ file \in Model /\ server' = Loading(file, "file")
       \/ file = None /\ server' = Up(Loading(Stub, "nowhere"), Default)
    /\ Advance("evaluated", "started")
    /\ UNCHANGED <<file, threshold, logged, production, train, eval, offline>>

\* The rest of the startup: threshold.json, for whichever model it is.
ReadThreshold ==
    /\ server.pc = "loading"
    /\ server' = IF threshold.of = Torn THEN Down ELSE Up(server, threshold)
    /\ Advance("started", "served")
    /\ UNCHANGED <<file, threshold, logged, production, train, eval, offline>>

\* The backend is stopped, or dies.
Stop ==
    /\ server # Down
    /\ server' = Down
    /\ order' = IF order \in {"started", "served"} THEN "evaluated" ELSE order
    /\ UNCHANGED <<file, threshold, logged, production, train, eval, offline>>

\* The page or score_file loads the model of the file; without one, or with a torn
\* one, it stops.  inOrder is history: nothing was trained since the evaluation.
LoadOffline ==
    /\ offline = Down
    /\ file \in Model
    /\ offline' = [pc |-> "loading", model |-> file,
                   inOrder |-> order \in {"evaluated", "started", "served"}]
    /\ UNCHANGED <<file, threshold, logged, production, train, eval, server, order>>

\* Then threshold.json.  A torn one is an exception: score_file ends, the page has
\* its model in the cache and reads again when it is next shown.
ReadThresholdOffline ==
    /\ offline.pc = "loading"
    /\ threshold.of # Torn
    /\ offline' = [pc |-> "up", model |-> offline.model, threshold |-> threshold,
                   inOrder |-> offline.inOrder]
    /\ UNCHANGED <<file, threshold, logged, production, train, eval, server, order>>

\* score_file has written its file, or raises; the page is stopped.
StopOffline ==
    /\ offline # Down
    /\ offline' = Down
    /\ UNCHANGED <<file, threshold, logged, production, train, eval, server, order>>

Next ==
    \/ \E model \in Model : TrainOpen(model)
    \/ TrainWrite \/ TrainLog \/ TrainDies
    \/ EvalLoad \/ EvalOpen \/ EvalWrite \/ EvalDies
    \/ Promote
    \/ Start \/ ReadThreshold \/ Stop
    \/ LoadOffline \/ ReadThresholdOffline \/ StopOffline

Spec == Init /\ [][Next]_vars
-----------------------------------------------------------------------------
\* What evaluate.py and threshold_policy.py compute for each model, once.
Table == [model \in Model |-> Results(model)]
Candidate == [model \in Model |-> Candidates(Table[model])]

Thresholds == {Choice[model] : model \in Model}

\* Types of the state; what is in Production was logged by a training, and a backend
\* that is up never serves a torn file.
TypeOK ==
    /\ file \in Model \cup {None, Torn}
    /\ threshold \in Thresholds \cup {[of |-> Torn]}
    /\ logged \subseteq Model /\ production \in logged \cup {None}
    /\ train \in {Idle} \cup [pc : {"writing", "written"}, model : Model]
    /\ eval \in {Idle} \cup [pc : {"loaded", "writing"}, model : Model]
    /\ server.pc # "down" =>
           server.model \in (IF server.from = "nowhere" THEN {Stub} ELSE Model)
    /\ server.pc = "up" => server.threshold \in Thresholds \cup {Default}
    /\ offline.pc # "down" => offline.model \in Model
    /\ offline.pc = "up" => offline.threshold \in Thresholds
    /\ order \in {"none", "trained", "loaded", "evaluated", "started", "served"}

\* The thresholds that no other one beats: whichever were taken instead, the frauds
\* it catches in addition are not worth the alarms it adds.
Unbeaten == [model \in Model |->
    {thr \in Grid : \A other \in Grid :
        LET gained == Flagged(model, other) \ Flagged(model, thr)
            lost   == Flagged(model, thr) \ Flagged(model, other)
        IN  10 * Cardinality(gained \cap Fraud) + Cardinality(lost \ Fraud)
                <= 10 * Cardinality(lost \cap Fraud) + Cardinality(gained \ Fraud)}]

\* threshold_policy.py:93, the selected threshold minimizes expected business cost,
\* counted case by case against every other threshold of the grid.
NoOtherThresholdPays ==
    threshold.of \in Model => threshold.row.threshold \in Unbeaten[threshold.of]

\* The threshold that evaluate.py selects is the one that threshold_policy.py
\* recommends: two choices, written twice, of one row.
RecommendedIsSelected ==
    threshold.of \in Model =>
        threshold.row = Candidate[threshold.of]["cost_optimized"]

\* A target that some threshold meets has a candidate, which meets it.  For the
\* review budget only thresholds that flag something count.
TargetsAreMet ==
    threshold.of \in Model =>
        LET rows  == Table[threshold.of]
            found == Candidate[threshold.of]
            Meets(policy, row) ==
                CASE policy = "high_recall"    -> 100 * row.tp >= 95 * Cardinality(Fraud)
                  [] policy = "high_precision" -> row.tp > 0 /\ 30 * row.tp >= 70 * row.fp
                  [] OTHER                     -> row.tp + row.fp > 0
                                                  /\ 10 * (row.tp + row.fp) <= Cardinality(Case)
        IN  \A policy \in {"high_recall", "high_precision", "review_capacity"} :
                /\ policy \in DOMAIN found => Meets(policy, found[policy])
                /\ (\E row \in rows : Meets(policy, row)) => policy \in DOMAIN found

\* Where the recommended threshold reaches the recall target, the policy that
\* insists on recall costs the same and reviews no more.
RecallPolicyReviewsNoMore ==
    threshold.of \in Model =>
        LET found == Candidate[threshold.of]
            best  == found["cost_optimized"]
        IN  ~Below(Recall(best), Over(95, 100)) =>
                /\ Cost(found["high_recall"]) = Cost(best)
                /\ ~Below(FlaggedRate(best), FlaggedRate(found["high_recall"]))

\* docs/mlops.md:25, train, evaluate, and restart the backend: if nobody else ran in
\* between, the model of the file has its own threshold, whatever died before; and
\* so it has in the page and in score_file, started after the evaluation.
MatchedInOrder ==
    /\ order = "served" /\ server.pc = "up" /\ server.from = "file" =>
           server.threshold.of = server.model
    /\ offline.pc = "up" /\ offline.inOrder => offline.threshold.of = offline.model

-----------------------------------------------------------------------------
\* What a model, or the stub, may say of a transaction.
Says(stub, txn) == IF stub THEN {StubScore(txn)} ELSE Prob

\* All decisions about a transaction by a threshold.
Judged(stub, txn, profiles, thr) ==
    {Decision(txn, profile, ml, thr, noise) :
        profile \in profiles, ml \in Says(stub, txn), noise \in Noise}

ByStub == server.model = Stub

\* Thresholds under which the stub, or a model, flags nothing without a reason.
ExplainedOnline == [stub \in BOOLEAN |-> {thr \in Grid \cup {50} :
    \A txn \in Txn : \A d \in Judged(stub, txn, Profile \cup {EmptyProfile(txn)}, thr) :
        d.fraud_flag => d.reason_codes # {}}]

ExplainedOffline == {thr \in Grid :
    \A txn \in Txn, ml \in Prob : \A cutoff \in {txn.amount, txn.amount + 1} :
        LET reasons == OfflineReasons(txn, ml, thr, cutoff) IN
        /\ OfflineFlag(ml, thr) => reasons[1] \in {"critical", "review"}
        /\ Len(reasons) \in 1 .. 5}

\* A flagged transaction is flagged for a reason the analyst is shown.  Offline the
\* model's score is the first of at most five reasons.  Online it is a reason from 0.5
\* on, and 70% of 0.5 is 0.35: under a lower threshold a score alone can flag a
\* transaction with nothing to explain it.
FlaggedIsExplained ==
    /\ server.pc = "up" /\ server.threshold.row.threshold >= 35 =>
           server.threshold.row.threshold \in ExplainedOnline[ByStub]
    /\ offline.pc = "up" => offline.threshold.row.threshold \in ExplainedOffline

BoundedByPreview == [stub \in BOOLEAN |-> {thr \in Grid \cup {50} :
    \A txn \in Txn, profile \in Profile, noise \in Noise : \A ml \in Says(stub, txn) :
        LET preview   == Decision(txn, EmptyProfile(txn), ml, thr, noise)
            submitted == Decision(txn, profile, ml, thr, noise)
        IN  /\ preview.fraud_flag => submitted.fraud_flag
            /\ preview.fraud_probability <= submitted.fraud_probability}]

\* The preview knows no user, so it may clear what the submission then flags, but it
\* never flags what the submission of any user clears.
PreviewFlagsNoMore ==
    server.pc = "up" => server.threshold.row.threshold \in BoundedByPreview[ByStub]

LevelAgrees == {stub \in BOOLEAN :
    \A txn \in Txn : \A d \in Judged(stub, txn, Profile, 50) :
        /\ d.fraud_flag /\ d.risk_level = "LOW" => d.fraud_probability = 5000
        /\ ~d.fraud_flag => d.risk_level = "LOW"}

\* Where the threshold is the 0.5 at which MEDIUM begins, a flagged transaction is
\* not LOW and a cleared one is.  The level is of the score before rounding: only the
\* scores that are rounded up to 0.5 are flagged as LOW.
LevelMeetsFlag ==
    server.pc = "up" /\ server.threshold.row.threshold = 50 => ByStub \in LevelAgrees

NeedsRule == {thr \in Grid :
    \A txn \in Txn, profile \in Profile, ml \in Prob, noise \in Noise :
        /\ Decision(txn, profile, ml, thr, noise).fraud_flag
        /\ ~OfflineFlag(ml, thr)
        => \E rule \in Triggered(txn, profile) : 1000 * RuleScore[rule] > ml}

\* The backend and the offline programs disagree although they have one model and one
\* threshold, because the threshold was chosen for the probability and the backend
\* compares it with the blend.  What the backend flags and they do not is always the
\* work of a rule whose score is above the probability.
OnlineFlagNeedsRule ==
    /\ server.pc = "up" /\ offline.pc = "up"
    /\ server.model = offline.model /\ server.threshold = offline.threshold
    => offline.threshold.row.threshold \in NeedsRule
=============================================================================
