------------------------------ MODULE Dashboard ------------------------------
(***************************************************************************)
(* One browser session of the dashboard: the pages that load, clean,       *)
(* inspect, model, apply and report.  Streamlit runs the whole script of a *)
(* page whenever the user touches a widget, so an action is one run of a   *)
(* page's script, with the event that caused it.  A page either shows its  *)
(* result, stops with a hint, refuses a file it was given, tells the user  *)
(* of an error, or raises: no handler catches the exception and the page   *)
(* ends in a traceback.                                                    *)
(*                                                                         *)
(* Every page trusts the keys of st.session_state, and each key is written *)
(* by another page: the dataset by page 1, the target, the task and the    *)
(* feature columns by the widgets of page 4, the model by pages 4 and 5,   *)
(* the results of an analysis by page 7.  A value is kept until another    *)
(* page replaces it, so what fits together is a matter of the order.  A    *)
(* training in the background ends between any two pages: its result is    *)
(* stored when page 4 is next on screen.                                   *)
(*                                                                         *)
(* Values of cells are left out: a frame is its columns with their kinds   *)
(* and its row labels; a label stands for many rows, unless it is the only *)
(* one.  Numeric columns are not all missing, and two rows of them differ. *)
(***************************************************************************)
EXTENDS Integers, FiniteSets

CONSTANTS
  Nil,             \* Python's None
  Columns,         \* names of columns
  Samples,         \* names of the sample datasets
  Downloaded,      \* those that are fetched from the network
  Files,           \* files and URLs a user may load
  SourceContent,   \* what a sample or file holds: kinds of its columns, its rows
  SuggestedTarget, \* the suggested target of a sample
  FileFormat,      \* how a file is written: extension, separator, Latin-1, damaged
  UploadSignature, \* "name:size" of a file
  UsePolars,       \* PERF_USE_POLARS, and polars is installed
  HygieneForms,    \* how the hygiene form may be filled: columns to parse, to drop
  Selections,      \* how the widgets of page 4 may be set
  Cards            \* cards of the model files a user may upload

\* "when" is text that parses as dates, "epoch" a number that does.
Kinds   == {"int", "float", "epoch", "text", "when", "date"}
Tasks   == {"classification", "regression"}
Sources == Samples \cup Files
Content == [kinds : UNION {[S -> Kinds] : S \in (SUBSET Columns) \ {{}}},
            rows  : (SUBSET (0 .. 9)) \ {{}}]

ASSUME DashboardAssumption ==
  /\ Samples \cap Files = {} /\ Downloaded \subseteq Samples
  /\ SourceContent \in [Sources -> Content]
  /\ HygieneForms \subseteq [parse : SUBSET Columns, drop : SUBSET Columns]
  /\ Selections \subseteq [target : Columns, task : Tasks, features : SUBSET Columns]
  /\ Cards \subseteq [features : (SUBSET Columns) \ {{}}, task : Tasks, target : Columns]
  /\ \A s \in Samples : SuggestedTarget[s] \in DOMAIN SourceContent[s].kinds

VARIABLES
  data,       \* the dataset: where it comes from, its columns and its rows
  chosen,     \* what the user loaded last and was not told cannot be read; whether it is
              \* a file with the name and size of the file uploaded before it (history)
  uploader,   \* the file in the upload widget, which lives as long as the page
  signature,  \* _dataset_upload_sig
  target, task, features,   \* as the widgets of page 4 or an uploaded card left them
  bundle,     \* the model: its columns, its task, where it comes from
  report,     \* a training report is kept; it is late if its job outlived the dataset
  job,        \* the training in the background, whose id the session holds
  anomaly,    \* adv_anomaly: the row labels it flags
  since,      \* what became of the dataset since the training, the job, the flags (history)
  reselected, \* other columns or another task were written since the model or the job (history)
  page        \* the page on screen and how its script ended

modelVars     == <<target, task, features, bundle, report, job>>
dashboardVars == <<data, chosen, uploader, signature, modelVars, anomaly, since, reselected, page>>

Results   == {"report", "job", "anomaly"}
Trainings == {"bundle", "job"}
Fates     == {"kept", "cleaned", "replaced"}

Cols        == DOMAIN data.kinds
OfKind(K)   == {c \in Cols : data.kinds[c] \in K}
Numeric     == OfKind({"int", "float", "epoch"})
Categorical == OfKind({"int", "text", "when"})     \* small integers count as both
Datetimes   == OfKind({"date"})
LoneRow     == Cardinality(data.rows) = 1
\* What page 7 takes for dates; it wants two of them from a text or a number.
DateLike    == OfKind(IF LoneRow THEN {"date"} ELSE {"date", "when", "epoch"})

\* A page is drawn; the widgets of the page before are gone.
ShowPage(name, how) ==
  /\ page' = [name |-> name, how |-> how]
  /\ name # "load" => uploader' = Nil

DashboardInit ==
  /\ data = Nil /\ chosen = [from |-> Nil, repeated |-> FALSE]
  /\ uploader = Nil /\ signature = Nil
  /\ target = Nil /\ task = Nil /\ features = Nil
  /\ bundle = Nil /\ report = "none" /\ job = Nil /\ anomaly = Nil
  /\ since = [r \in Results |-> "kept"]
  /\ reselected = [r \in Trainings |-> FALSE]
  /\ page = [name |-> "home", how |-> "shown"]

-----------------------------------------------------------------------------
(* Page 1: loading and cleaning. *)

Frame(source, content) == [from |-> source, kinds |-> content.kinds, rows |-> content.rows]

\* The dataset is cleaned or replaced: what was computed before is of another.
Age(fate) ==
  since' = [r \in Results |-> IF since[r] = "replaced" \/ (r = "job" /\ job = Nil) THEN since[r] ELSE fate]

Choose(source, repeated) == chosen' = [from |-> source, repeated |-> repeated]

\* Faulty variant: the model goes, its report stays.
StoreTable_KeepsReport(source, content) ==
  /\ data' = Frame(source, content)
  /\ bundle' = Nil
  /\ UNCHANGED <<report, job, task, features, anomaly, reselected>>
  /\ Age("replaced")

\* The model and its report go; the columns chosen for it, the task, the job in
\* the background and the results of page 7 stay.
StoreTable(source, content) ==
  /\ data' = Frame(source, content)
  /\ bundle' = Nil /\ report' = "none"
  /\ UNCHANGED <<job, task, features, anomaly, reselected>>
  /\ Age("replaced")

KeepDataset == UNCHANGED <<data, since, task, features, bundle, report, job, anomaly, reselected>>

\* No handler surrounds the call: a download that fails ends the page.
LoadSample ==
  /\ page.name = "load"
  /\ \E s \in Samples :
       \/ /\ StoreTable(s, SourceContent[s])
          /\ Choose(s, FALSE) /\ target' = SuggestedTarget[s]
          /\ ShowPage("load", "shown")
       \/ /\ s \in Downloaded
          /\ KeepDataset /\ UNCHANGED <<chosen, target>>
          /\ ShowPage("load", "raised")
  /\ UNCHANGED <<uploader, signature>>

\* All the columns of a file read with the wrong separator are one text column.
OneColumn(f) ==
  [SourceContent[f] EXCEPT !.kinds = [c \in {CHOOSE d \in DOMAIN @ : TRUE} |-> "text"]]

Binary == {".parquet", ".xlsx", ".json"}
TabExtensions == IF UsePolars THEN {".tsv", ".txt"} ELSE {".tsv"}

\* Text is split at the separator its extension stands for.
AsSeparated(f) ==
  LET own == IF FileFormat[f].extension \in TabExtensions THEN "tab" ELSE "comma"
  IN IF FileFormat[f].separator = own THEN SourceContent[f] ELSE OneColumn(f)

\* What a reader may make of a file, Nil if it raises.  Other separators may
\* also break the parser, and Latin-1 the decoder.
Readings(f) ==
  LET w == FileFormat[f]
  IN CASE w.damaged             -> {Nil}
       [] w.extension \in Binary -> {SourceContent[f]}
       [] w.latin               -> {Nil}
       [] OTHER                 -> {AsSeparated(f)} \cup (IF w.separator = "semicolon" THEN {Nil} ELSE {})

\* The reader used without Polars repeats a failed decoding as Latin-1 or a
\* failed parse with semicolons, but not one after the other.
UploadReadings(f) ==
  LET w == FileFormat[f]
  IN IF UsePolars \/ w.damaged \/ w.extension \in Binary THEN Readings(f)
     ELSE IF w.latin THEN {AsSeparated(f)} \cup (Readings(f) \cap (IF w.separator = "semicolon" THEN {Nil} ELSE {}))
     ELSE IF w.separator = "semicolon" THEN {SourceContent[f], AsSeparated(f)}
     ELSE Readings(f)

\* The content read is stored, or the user is told of the failure.
Take(f, content) ==
  \/ content = Nil /\ KeepDataset /\ ShowPage("load", "refused")
  \/ content # Nil /\ StoreTable(f, content) /\ ShowPage("load", "shown")

\* Faulty variant: the file is read again at every run of the script.
IsNewUpload_Always(f) == TRUE

\* The signature is compared and remembered before the file is read: a load
\* that failed is not repeated, and a file of the same name and size is taken
\* for the one before.
IsNewUpload(f) == signature # UploadSignature[f]

\* A run of the script with a file in the widget, which may have been there.
RunWithUpload(f) ==
  /\ IF IsNewUpload(f)
     THEN /\ signature' = UploadSignature[f]
          /\ \E c \in UploadReadings(f) : Take(f, c)
     ELSE UNCHANGED signature /\ KeepDataset /\ ShowPage("load", "shown")
  /\ UNCHANGED target

\* The same file, or another of its name and size, may be dropped again.
DropFile ==
  /\ page.name = "load"
  /\ \E f \in Files \ {uploader} :
       /\ uploader' = f
       /\ RunWithUpload(f)
       /\ IF page'.how = "refused" THEN UNCHANGED chosen
          ELSE Choose(f, UploadSignature[f] = signature)

\* Another widget of the page is touched: the script runs with the same file.
Rerun ==
  /\ page.name = "load" /\ uploader # Nil
  /\ RunWithUpload(uploader)
  /\ UNCHANGED <<uploader, chosen>>

LoadUrl ==
  /\ page.name = "load"
  /\ \E f \in Files : \E c \in Readings(f) :
       /\ Take(f, c)
       /\ IF c = Nil THEN UNCHANGED chosen ELSE Choose(f, FALSE)
  /\ UNCHANGED <<target, uploader, signature>>

\* Columns are parsed as dates, sparse ones dropped, duplicate rows dropped and
\* the others numbered again; one column at least is not sparse.
Cleaned(form, n) ==
  [data EXCEPT !.kinds = [c \in Cols \ form.drop |-> IF c \in form.parse THEN "date" ELSE @[c]],
               !.rows  = IF n = Cardinality(@) THEN @ ELSE 0 .. n - 1]

\* Nothing else is reset.
ApplyHygieneForm ==
  /\ page.name = "load" /\ data # Nil
  /\ \E form \in HygieneForms, n \in 1 .. Cardinality(data.rows) :
       /\ Cols \ form.drop # {} /\ form.parse \cap Datetimes = {}
       /\ data' = Cleaned(form, n)
  /\ ShowPage("load", "shown")
  /\ UNCHANGED <<chosen, uploader, signature, modelVars, anomaly, reselected>>
  /\ Age("cleaned")

\* The script begins with an empty upload widget; without a dataset it ends there.
OpenLoadPage ==
  /\ page.name # "load"
  /\ ShowPage("load", IF data = Nil THEN "stopped" ELSE "shown")
  /\ UNCHANGED <<data, chosen, uploader, signature, modelVars, anomaly, since, reselected>>

-----------------------------------------------------------------------------
(* Pages 2 and 3: each tab calls functions of src/ with what its widgets    *)
(* let the user pick, and no handler surrounds the calls.                   *)

\* The domains of the functions: known columns, enough of them.
Known(c)            == c \in Cols
MonthlyWorks(d, v)  == Known(d) /\ v \in Numeric
GroupingWorks(g, v) == Known(g) /\ v \in Numeric
ChiSquareWorks(a, b) == a # b /\ Known(a) /\ Known(b)
CorrelationWorks(t) == Cardinality(Numeric) >= 2 /\ (t = Nil \/ t \in Numeric)
OutliersOverviewWorks == Numeric # {}     \* a frame without columns cannot be sorted

DescriptivePageWorks ==
  /\ \A c \in Numeric, g \in Categorical : Known(c) /\ GroupingWorks(g, c)
  /\ \A d \in Datetimes, v \in Numeric : MonthlyWorks(d, v)

OutlierTabOpen == Numeric # {}

\* The session's target is the default of the list only if the list has it.
FocusTarget == IF target \in Numeric THEN target ELSE Nil

DiagnosticPageWorks ==
  /\ Cardinality(Numeric) >= 2 => CorrelationWorks(FocusTarget)
  /\ \A g \in Categorical, v \in Numeric : GroupingWorks(g, v)
  /\ Cardinality(Categorical) >= 2 =>
       \A a \in Categorical : Categorical \ {a} # {} /\ \A b \in Categorical \ {a} : ChiSquareWorks(a, b)
  /\ OutlierTabOpen => OutliersOverviewWorks

OnlyRead == UNCHANGED <<data, chosen, signature, modelVars, anomaly, since, reselected>>

Inspect(name, works) ==
  /\ ShowPage(name, IF data = Nil THEN "stopped" ELSE IF works THEN "shown" ELSE "raised")
  /\ OnlyRead

DescriptivePage == Inspect("descriptive", DescriptivePageWorks)
DiagnosticPage  == Inspect("diagnostic", DiagnosticPageWorks)

-----------------------------------------------------------------------------
(* Page 4: target, task and features are written at every run.  How a job   *)
(* in the background is polled is in TrainingSession.                       *)

Rewritten == features' # features \/ task' # task

\* What is trained now is trained for the columns just written.
Reselect(fresh) ==
  reselected' = [r \in Trainings |->
    r # fresh /\ (reselected[r] \/ (Rewritten /\ (r = "job" => job # Nil)))]

\* The report describes the data as it is; a single row cannot be split.
Train ==
  /\ ~ LoneRow
  /\ bundle' = [origin |-> "trained", features |-> features', task |-> task']
  /\ report' = "timely" /\ UNCHANGED job
  /\ Reselect("bundle")
  /\ since' = [since EXCEPT !["report"] = "kept"]

\* The training of the data as it is; a job before it is forgotten.
Submit ==
  /\ job' = [features |-> features', task |-> task', trainable |-> ~ LoneRow]
  /\ Reselect("job")
  /\ since' = [since EXCEPT !["job"] = "kept"]
  /\ UNCHANGED <<bundle, report>>

\* The page without training, or with one that failed.
NoTraining == Reselect("none") /\ UNCHANGED <<bundle, report, job, since>>

\* The widgets offer the columns of the dataset, and the target is no feature.
Settable(w) == w.target \in Cols /\ w.features \subseteq Cols \ {w.target}

\* They are drawn if there is no job, or if it still waits for a thread.
DrawWidgets ==
  \E w \in Selections :
    /\ Settable(w) /\ target' = w.target /\ task' = w.task
    /\ \/ w.features = {} /\ UNCHANGED features /\ NoTraining /\ ShowPage("model", "stopped")
       \/ w.features # {} /\ features' = w.features /\ (Train \/ Submit) /\ ShowPage("model", "shown")
       \/ /\ w.features # {} /\ features' = w.features /\ NoTraining
          /\ \E how \in {"shown", "told"} : ShowPage("model", how)

JobGoes(stored) ==
  /\ job' = Nil
  /\ since' = [since EXCEPT !["report"] = IF stored THEN since["job"] ELSE @, !["job"] = "kept"]
  /\ reselected' = [reselected EXCEPT !["bundle"] = IF stored THEN reselected["job"] ELSE @, !["job"] = FALSE]

\* The result is stored whatever the dataset on screen is by now.
StoreResult ==
  /\ job.trainable
  /\ bundle' = [origin |-> "trained", features |-> job.features, task |-> job.task]
  /\ report' = IF since["job"] = "replaced" THEN "late" ELSE "timely"

\* The page finds the job running, ended with a result, or failed; pickling the
\* result for the download may raise, and the job is then polled again.
FindJob ==
  /\ job # Nil
  /\ \/ ShowPage("model", "stopped") /\ UNCHANGED <<bundle, report, job, since, reselected>>
     \/ StoreResult /\ JobGoes(TRUE) /\ ShowPage("model", "shown")
     \/ /\ StoreResult /\ UNCHANGED job
        /\ since' = [since EXCEPT !["report"] = since["job"]]
        /\ reselected' = [reselected EXCEPT !["bundle"] = reselected["job"]]
        /\ ShowPage("model", "raised")
     \/ UNCHANGED <<bundle, report>> /\ JobGoes(FALSE) /\ ShowPage("model", "told")
  /\ UNCHANGED <<target, task, features>>

ModelPage ==
  /\ data # Nil
  /\ DrawWidgets \/ FindJob
  /\ UNCHANGED <<data, chosen, signature, anomaly>>

-----------------------------------------------------------------------------
(* Pages 5 and 6: apply the model. *)

\* A model file brings its card; the report of the last training stays.
LoadBundle(card) ==
  /\ bundle' = [origin |-> "uploaded", features |-> card.features, task |-> card.task]
  /\ task' = card.task /\ target' = card.target /\ features' = card.features
  /\ Reselect("bundle")

\* A file that is no model, or of another version, is refused.
UploadBundle ==
  /\ \/ (\E card \in Cards : LoadBundle(card)) /\ ShowPage("apply", "shown")
     \/ UNCHANGED <<bundle, target, task, features, reselected>> /\ ShowPage("apply", "refused")
  /\ UNCHANGED <<data, chosen, signature, report, job, anomaly, since>>

NoModel == bundle = Nil \/ features \in {Nil, {}}

\* predict() gives the pipeline the session's columns, absent ones as missing
\* values; the pipeline wants the columns it was fitted on.
PredictFails == ~ bundle.features \subseteq features

\* The form offers the values of the dataset on screen, and an empty text for
\* a column it lacks; a model of other data may not take them.
FormFits == bundle.origin = "trained" /\ since["report"] = "kept"

\* A prediction for the form, for the session's dataset or for a batch file of
\* any columns.
Prediction(input) ==
  IF NoModel THEN {"stopped"}
  ELSE IF PredictFails THEN {"told"}
  ELSE {"shown"} \cup (IF input = "file" THEN {"refused"} ELSE IF FormFits THEN {} ELSE {"told"})

ApplyPage ==
  /\ \E input \in {"session", "file"} : \E how \in Prediction(input) : ShowPage("apply", how)
  /\ OnlyRead

\* The average of a column the dataset lacks is a missing value; a row of it
\* cannot be taken, and neither can the list of numeric features.
BaselineFails(mode) == mode = "row" /\ ~ features \subseteq Cols
NumericFeatureListFails == ~ features \subseteq Cols

\* A slider has no range over one row.
SliderFails == LoneRow

\* what_if_scenario and two_factor_scenario predict outside any handler; the
\* plots of a regression read the report's target, and average predictions.
SweepFails == PredictFails \/ (task = "regression" /\ (report = "none" \/ bundle.task # task))

PrescriptivePage ==
  \E mode \in {"mean", "median", "row"}, sweep \in BOOLEAN :
    /\ ShowPage("prescriptive",
            IF NoModel \/ data = Nil THEN "stopped"
            ELSE IF BaselineFails(mode) \/ NumericFeatureListFails THEN "raised"
            ELSE IF features \cap Numeric = {} THEN "stopped"
            ELSE IF SliderFails \/ (sweep /\ SweepFails) THEN "raised" ELSE "shown")
    /\ OnlyRead

-----------------------------------------------------------------------------
(* Page 7: the tabs are drawn in one script, so one that stops or raises    *)
(* takes the later ones with it.                                            *)

\* The date column picked is the only numeric one.
TimeSeriesStops(d) == Numeric # {} /\ Numeric \subseteq {d}

\* The flags are joined to the rows of the dataset on screen by their labels.
FlaggedFails == anomaly # Nil /\ Numeric # {} /\ ~ anomaly \subseteq data.rows

\* A column of one row is squeezed to a scalar, and a frame cannot be made of
\* three of them.
RatingsFail == LoneRow /\ Cardinality(Cols) >= 3

\* Faulty variant: the detector answers with row numbers of its own.
Detected_Renumbered(kept) == {r + 1 : r \in kept}

\* Rows with missing values are left out, the others keep their labels.
Detected(kept) == kept

AdvancedPage ==
  /\ data # Nil
  /\ \E d \in DateLike \cup {Nil} :
       ShowPage("advanced", IF TimeSeriesStops(d) THEN "stopped"
                            ELSE IF FlaggedFails \/ RatingsFail THEN "raised" ELSE "shown")
  /\ OnlyRead

\* The user is told when there are too few rows.
DetectAnomalies ==
  /\ page.name = "advanced" /\ page.how # "stopped" /\ Numeric # {}
  /\ \/ ShowPage("advanced", IF FlaggedFails \/ RatingsFail THEN "raised" ELSE "told") /\ UNCHANGED <<anomaly, since>>
     \/ \E kept \in (SUBSET data.rows) \ {{}} :
          /\ ~ LoneRow
          /\ anomaly' = Detected(kept)
          /\ since' = [since EXCEPT !["anomaly"] = "kept"]
          /\ ShowPage("advanced", IF anomaly' \subseteq data.rows THEN "shown" ELSE "raised")
  /\ UNCHANGED <<data, chosen, signature, modelVars, reselected>>

-----------------------------------------------------------------------------
(* Page 8: the report profiles the dataset on screen and quotes the metrics *)
(* of the training report in the session, whatever they have in common.     *)

BuildReport ==
  /\ ShowPage("export", IF data = Nil THEN "stopped" ELSE "shown")
  /\ OnlyRead

DashboardNext ==
  \/ OpenLoadPage \/ LoadSample \/ DropFile \/ Rerun \/ LoadUrl \/ ApplyHygieneForm
  \/ DescriptivePage \/ DiagnosticPage
  \/ ModelPage
  \/ UploadBundle \/ ApplyPage \/ PrescriptivePage
  \/ AdvancedPage \/ DetectAnomalies
  \/ BuildReport

-----------------------------------------------------------------------------
Outcomes == {"shown", "stopped", "refused", "told", "raised"}

\* Types of the session's keys.
DashboardTypeOK ==
  /\ data = Nil \/ /\ data.from \in Sources
                   /\ [kinds |-> data.kinds, rows |-> data.rows] \in Content
  /\ chosen \in [from : Sources \cup {Nil}, repeated : BOOLEAN]
  /\ uploader \in Files \cup {Nil} /\ signature \in {UploadSignature[f] : f \in Files} \cup {Nil}
  /\ target \in Columns \cup {Nil} /\ task \in Tasks \cup {Nil}
  /\ features = Nil \/ features \subseteq Columns
  /\ bundle = Nil \/ bundle \in [origin : {"trained", "uploaded"}, features : SUBSET Columns, task : Tasks]
  /\ report \in {"none", "timely", "late"}
  /\ job = Nil \/ job \in [features : SUBSET Columns, task : Tasks, trainable : BOOLEAN]
  /\ anomaly = Nil \/ anomaly \subseteq 0 .. 9
  /\ since \in [Results -> Fates] /\ reselected \in [Trainings -> BOOLEAN]
  /\ page \in [name : {"home", "load", "descriptive", "diagnostic", "model", "apply",
                       "prescriptive", "advanced", "export"}, how : Outcomes]

\* The dataset on screen is the one the user loaded last, unless that was a file
\* with the name and size of the file uploaded before it: a file that is still
\* in the upload widget does not come back when the script runs again.
DatasetIsLastChosen == data # Nil => data.from = chosen.from \/ chosen.repeated

\* The model on screen is not of the dataset on screen, or the session's columns
\* and task are not those it was made with.
ForeignModel == bundle.origin = "uploaded" \/ since["report"] # "kept" \/ reselected["bundle"]

\* A page ends in a traceback only when the network fails, when a finished model
\* cannot be pickled, or on values that come from different moments: page 6 on
\* a model that was uploaded, trained before the data was cleaned or replaced,
\* or for other columns; page 7 on flags of an earlier dataset, or on a table
\* of a single row; other pages never.
PagesRaiseOnlyOnMixedState ==
  page.how = "raised" =>
    \/ page.name = "load" /\ Downloaded # {}
    \/ page.name = "model" /\ job # Nil
    \/ page.name = "prescriptive" /\ ForeignModel
    \/ page.name = "advanced" /\ (since["anomaly"] # "kept" \/ LoneRow)

\* Page 5 fails to predict for the data on screen only with such a model.
PredictionFailsOnlyOnMixedState ==
  page = [name |-> "apply", how |-> "told"] => ForeignModel

\* No page fails on a model trained on the data on screen for the session's
\* columns, nor on flags just computed.
PagesFailOnlyOnMixedState ==
  PagesRaiseOnlyOnMixedState /\ PredictionFailsOnlyOnMixedState

\* A report that profiles one dataset and quotes the metrics of a training on
\* another does so only because the training ended in the background after
\* the dataset was replaced; a report stored before goes with its dataset.
ReportMixesOnlyWhenLate ==
  page.name = "export" /\ report # "none" /\ since["report"] = "replaced" => report = "late"

\* "Persist dataset and reset downstream ML artifacts": no report quotes the
\* metrics of a training on a dataset that was replaced.
ReportIsOfDataset ==
  page.name = "export" /\ report # "none" => since["report"] # "replaced"

DashboardSpec == DashboardInit /\ [][DashboardNext]_dashboardVars
=============================================================================
