# Formal models of IAD

TLA+ models of the Intelligent Analytics Dashboard: its background training, the
pages of a browser session, its dataset registry, the training service with
preprocessing, tuning, evaluation and the specialised analyses, the HTTP training
path, the request path of the API with its rate limiter and database pool, user
accounts, experiment tracking and report exports, with the TLC configurations that
check them and TLAPS proofs of their main properties.

Contents: [inventory](#1-inventory), [plan](#2-plan), [modules and
code](#3-modules-and-code), [runs](#4-runs), [fairness](#5-fairness),
[proofs](#6-proofs), [findings](#7-findings), [what is left out](#8-what-is-left-out).

Paths are relative to the repository root.

## 1. Inventory

IAD is two processes that share a database and a data directory: a Streamlit
dashboard (`app.py`, `pages/`, `iad/frontend`) and a FastAPI service
(`iad/backend`). Both call the same training code (`iad/ml`, and the older
`src/predictive.py`), and both run it in threads.

### Components with state and concurrency

| Component | State | Operations | Interacts through | Hard part | What makes it correct |
|---|---|---|---|---|---|
| Background job runner, `iad/performance/jobs.py` | process-wide dictionaries of records and futures, thread pool | `submit`, `get`, `cancel`, `reset`, the wrapper | records shared without a lock with every session's thread | status, result, error, progress written one by one while others read; cancel and reset against the pool | a reader of COMPLETED has its result; a cancelled job never ran; a status follows its life cycle; every queued job ends |
| Background training of a session, `frontend/performance/background.py`, `frontend/services/training.py`, `services/context.py`, pages 1, 4, 5 | `st.session_state`: dataset, model, report, download bytes, active job, last result | click, script run, two-second fragment, load, clean, upload | polls the runner's records, several reads per poll | the job moves between two reads; rerun, stop and exception cut a script short; new data and new jobs while one runs | report and model belong together; sessions are isolated; no outcome is lost; the running page ends; failures are shown |
| Dataset registry, `services/dataset_upload_service.py`, `repositories/{user,dataset}.py`, `database/session.py` | tables `users`, `datasets`; uploaded files | upload, register | database transactions, the file system | check-then-insert in two places, unique keys, rollback after the file was written | versions are 1, 2, 3...; rows are anchored; an answer means a row; no request waits for ever |
| Training over HTTP, `services/training_api_service.py`, `ml/training/persistence.py` | bundle files, experiment rows, Prometheus counters | `POST /train` in a thread per request | training service, file system, database | three stores that share no transaction; file names with a resolution of one second | counters balance; rows belong to answered requests; a bundle is its training's |
| Training service, `ml/training/service.py`, `registry.py`, `src/predictive.py` | leaderboard, running maximum, estimators | `train`, `train_models`, `persist_training_result` | estimators: one per candidate, or module globals | ties, failing candidates, concurrent trainings | best entry heads the leaderboard; every candidate has its entry; a result describes its own fit; one champion |
| Experiment and model store, `repositories/{experiment,ml_model,metric}.py` | tables `experiments`, `ml_models`, `metrics` | create, complete, set champion | one transaction of the persistence service | champion flags written at creation, bulk-cleared, set again | one champion per experiment |
| Inference over HTTP, `services/inference_service.py`, `repositories/prediction.py` | table `predictions` | predict: one logging transaction per row, beside the session of the request | bundle files, database pool | a failing log after some rows leaves a partial audit and an error answer; a request waits for a second connection while it holds one | an answered prediction is logged in full, a failed one up to its failure; requests do not wait for each other for ever |
| Authentication, `services/auth_service.py`, `security/*`, `frontend/auth/gate.py`, `api/deps.py` | table `users`, tokens in session state | register, login, refresh, change password | `session_scope`, which wraps every exception | check-then-create across a slow hash; owners without a password in the same table; domain errors turned into `DatabaseError` | one user per e-mail; the stored password is one that a successful call set; owners stay without |
| Rate limiter, `security/rate_limit.py` | hit times per key | `check`, `reset` | one middleware | lazy pruning, window boundary, keys never evicted | at most `max` hits in any window, and no request refused without need |
| Pages of a session, `pages/1`-`8`, `src/utils.py`, `frontend/services/*` | keys of `st.session_state` | load, clean, inspect, choose columns, train, upload a model, score, explore, export | keys written by one page and trusted by another | reruns repeat a script with the same upload; values outlive what they describe | the dataset is the one chosen last; a page fails only on what an earlier page left behind |
| Preprocessing pipelines, `ml/preprocessing/{pipelines,transformers}` | fitted steps: columns, mappings | build, fit, transform | each step gets the frame the step before made | a fitted step meets a frame without its columns | the model is served the columns it was fitted on, or nothing; no leak of the target; a dropped column has a twin |
| Tuning and AutoML, `ml/tuning`, `ml/automl` | trials of a study, the preprocessor handed over | `fit` | registry, search spaces, Optuna | trials fail one by one; a preprocessor is refitted | the returned parameters are the best tried |
| Experiment tracking, `ml/tracking/mlflow_tracker.py` | experiment of the process, active run of the thread | enter, log, exit | MLflow | failure between start and end of a run, two trainings in between | no run is lost or mixed without a fault or a race |
| Export, `iad/export` | run directory, manifest, archive | eight kinds of export | charts, PDF, DOCX | an image or a document fails half way; two exports at once | an answered export is whole and its own |
| Caches, `performance/fingerprints.py`, `frontend/performance/streamlit_cache.py` | results keyed by sampled fingerprints | cached statistics | data frames | equal fingerprints of different data | a cached result belongs to the data shown |

### Components whose calls keep no state

Data quality checks and drift (`ml/preprocessing/{quality,profiling,drift,schemas}`),
specialised analyses (`ml/{forecasting,clustering,anomaly,nlp,recommendation}`),
metrics, reports and explanations (`ml/evaluation`, `ml/explainability`,
`core/validation.py`, `ml/training/reproducibility.py`), the helpers of `src/`: each
call reads its arguments and answers. Their hard part is at the edges of the
data: which rows are left, which column is constant, which class is missing, and
which refusal or exception the caller meets. API wiring and schemas,
observability, charts and tables, deployment scripts are wiring.

`PROJECT.json` lists every component with its status, and under `hazards` each
place of the code that is hard to test, with the properties aimed at it or the
reason why none is.

## 2. Plan

In order of importance; all of them are written.

| # | Module | Composes | Abstract specification | Proved |
|---|---|---|---|---|
| 1 | `JobRunner` | - | `JobLifecycle` | yes, `JobRunnerProofs` |
| 2 | `TrainingSession` | `JobRunner` (EXTENDS) | `JobRunner`, which its steps implement | yes, `BrowserProofs` |
| 3 | `DatasetRegistry` | - | `VersionLog` | yes, `DatasetRegistryProofs` |
| 4 | `TrainingApi` | - | - | yes, `ServicesProofs` |
| 5 | `ModelTraining` | - | - | yes, `ModelTrainingProofs` |
| 6 | `RateLimiter` | - | the full history of accepted requests | yes, `ApiRequestsProofs` |
| 7 | `ApiRequests` | `RateLimiter` (EXTENDS) | `RateLimiter`, which its steps implement | yes, `ApiRequestsProofs` |
| 8 | `Accounts` | - | - | yes, `ServicesProofs` |
| 9 | `Dashboard`: the pages of one session | - | - | yes, `BrowserProofs` |
| 10 | `ExperimentTracking`, `ExportReport` | - | - | yes, `ServicesProofs`, `BrowserProofs` |
| 11 | `Preprocessing`, `Tuning` | - | - | yes, `LearningProofs` |
| 12 | `Analytics`, `DataQuality`, `ModelReports`: calls without state | - | properties that define the right answer | yes, `LearningProofs` |
| 13 | `MCBrowser`, `MCServices`, `MCLearning` | the modules of one process side by side | the specification of each part, which the whole implements | yes, with their parts |

## 3. Modules and code

### JobRunner, JobLifecycle

`record[j]` is the `JobRecord`, `future[j]` the `Future`, `workQueue` the
executor's queue. `submitter[j]` and `worker[j]` are program counters of
`submit()` and of `_wrapper()`: every statement that writes a field somebody else
can read is one action, because neither the lock nor the GIL makes two of them
one step. `canceller` holds the jobs between `future.cancel()` and the write of
CANCELLED. `Reset` shuts the pool down: queued futures are cancelled, running
wrappers go on and write records that nobody can reach (`retired`). The pool is
external code, modelled from its use: first in first out, `MaxWorkers` threads,
cancellable until picked.

`get()` only reads; its repair of a finished future whose record says RUNNING
(line 131) is dead code, which `DoneMeansSettled` states. `message`, `created_at`
and `started_at` are left out.

`JobLifecycle` is the promise to a client: absent, PENDING, RUNNING, then
COMPLETED or FAILED, or PENDING then CANCELLED, and nothing else. The refinement
mapping reads the record's status, "absent" until the record is published.

### TrainingSession

One script or fragment of a session runs at a time and only that thread touches
`st.session_state`; workers write the job's record meanwhile. So every read of
`record.status` is a step of its own: `PollStatus` (line 53), `PollOtherStatus`
(57), `TakeSnapshot` (58), `SyncReadsRunning` (93), `SyncReadsCompleted` (99),
`SyncReadsFailed` (102), `FragmentReadsStatus` (70). So is every write of a session
key: `PersistModel`, `PersistReport` and `PersistBytes` (`training.py:159-161`),
`StoreDataset`, `ClearBundle` and `ClearReport` (`context.py:44-46`), `ForgetJob`,
`TrackJob` and `ClearOutcome`. Each access to the session state is a point at which
Streamlit ends a script whose user has clicked on, gone to another page or closed
the browser: `Cut`. What the script had written stays, and the history variable
`torn` remembers which script was cut between model and report, until both are
written again. `script[s]` names the statement that comes next; `local[s]` holds the
locals and the click that started the run; `view[s]` what the browser shows while no
script runs. A click on "Train models" is handled where the page handles it, at the
end of a script that has polled the session's job first (`BeginTraining`), and the
training runs in the script's thread or in the background.

Artifacts are named by the training run that made them, so that a report and a
model can be compared. The model is a value here: what two trainings do to a
shared estimator object is `ModelTraining`'s subject, and `SessionsAreIsolated`
speaks of session state only.

Assumed of Streamlit: a rerun from a fragment reruns the page; the control
exceptions of `st.rerun` and `st.stop` are `BaseException`s, so the page's
`except Exception` lets them pass; a fragment's timer stays armed while its page
is on screen. `PERF_BACKGROUND_TRAINING` is on or off, from click to click.
`clear_job_state`, `render_job_status` and `cancel` have no caller in the pages;
`Operator` says whether a run lets somebody call `cancel` or `reset` anyway, and
`Impatient` whose scripts are cut.

### DatasetRegistry, VersionLog

`pc[r]` is the statement of request `r`, `work[r]` its arguments and what its open
transaction has written, `told[r]` what its client knows; `users` and `datasets`
hold committed rows. `register_dataset()` commits before it returns. `POST /upload`
builds its answer in the handler (`routes/ml.py:135`) and commits in the exit code of
`get_db()` (`deps.py:24`), which FastAPI runs before or after it sends the answer,
depending on its release; `Early` are the requests for which it runs afterwards, and
`Abort` may still hit them then: a client holds a 201 for a row that never was.
Statements see committed rows and their own, an INSERT waits while another open transaction
holds the same unique key and fails if it is committed. That is READ COMMITTED;
SQLite's lock on the whole database allows fewer interleavings. `Abort` covers
statement failures, lock timeouts and crashes, `Die` a process that dies between
the commit and the answer. `delete()` has no callers, so rows
never vanish. Many names have one slug, so a request is given its slug.

`VersionLog` is the promise: per user and name an append-only sequence. The
mapping reads the table by version.

### TrainingApi

One `POST /train` is counted, trains, saves its bundle (look, open, dump are
three steps), stores its rows and answers; each step may raise. A path is a model
and the second of its model card, as `save_bundle` names it. `raced` is a history
variable: the paths that two requests found absent before either opened them.
"mixed" stands for whatever two writers of one file leave. Metrics are enabled,
the wall clock does not step back, the database part is one step (its
transaction is `ModelTraining.Store` and `DatasetRegistry`'s isolation).

### ModelTraining, MCModelTraining

`call[c]` is a call of `train()` ("enterprise") or `train_models()` ("legacy"):
the candidates left to train, the leaderboard, the best entry of the loop. `fitted`
maps an estimator object to the call whose data it is fitted on; the legacy
engine's estimators belong to the module, the enterprise engine's to the call.
`fit()` is two steps; two overlapping fits of one estimator leave it in no
known state, which over-approximates what interleaved array writes produce.
The preprocessor is cloned (enterprise) or refitted (legacy), cross-validation
works on clones, so neither is state. Every call has data of its own. Every
successful candidate has the primary metric. An entry's error is none, an empty
text or a text: the training tests for `None`, the persistence for truth. The
legacy leaderboard is ranked in any order that its scores allow, since pandas'
default sort is not stable. `Store` is one transaction.

### RateLimiter

`hits[k]` is the deque of client `k`, `accepted[k]` a history variable: every time
it ever held since the last `reset()`. The loop that pops expired times is one
operator, `Expired`, and the decision that follows either `Accept` or `Refuse`.
`check()` reads the clock before it takes the lock; its only caller is a
middleware on the event loop that does not suspend in between, so both are one
step. `reset()` has no caller in the repository and is modelled all the same.
Times are ticks: what matters of a float is its order and the two comparisons
`<` and `>=`.

### ApiRequests

`stage[r]` says how far a request has got: the limiter (`Arrive`), its token
(`RejectToken`), its user, read with the session of the request (`AdmitUser`),
the handler up to its first write (`Handle`), then a session of its own per
transaction (`BeginWrite`, then `CommitWrite` or `WriteRaises`), the serialization of
what the handler returned (`Serialize`, which raises for a NaN or an infinity), and
the end of the request's session (`Close`), whose commit may raise as well. A failure
after the handler has returned is a 500 of its own kind, "broken": every row is
committed by then. `connections` is the pool by request and session: a session takes
its connection with its first statement and keeps it until it is closed.
`audited[r]` holds the committed rows, `observed` the requests that the metrics
middleware counted.

Assumed: CORS and CSRF let these requests pass; the pool is SQLAlchemy's
QueuePool with `DATABASE_POOL_SIZE + DATABASE_MAX_OVERFLOW` connections and a
timeout (external, modelled from its use; an in-memory SQLite has one shared
connection instead and is used by tests only). A commit that fails after the answer
has left changes nothing the model speaks of: the session of the request has written
nothing.

### Accounts

`step[c]` is the statement a call of `AuthService` executes next: the look-up and
the `INSERT` of `register()` and of `get_or_create_default()`, the read of
`login()`, the read of `get_current_user()` before a password change (`Authorize`),
the second read and the `UPDATE` of `change_password()`, the commit. `accounts` holds
committed rows, `flushed` the calls whose statement is executed and not committed:
the unique index on the e-mail makes another `INSERT` wait and then fail, the row
lock another `UPDATE` wait. A call from the sign-in form commits in a
`session_scope()` of its own before it returns. A call from a route returns its
result and its tokens first (`Answer`) and `get_db()` commits afterwards; `answered`
holds those calls, and the commit may still fail. A token is represented by its
subject: a committed account, or one whose registration has answered early
(`Subjects`). `change_password()` reads the user that `get_current_user()` has read
in the same session. SQLAlchemy's identity map refers to it weakly, so whether the
second read sees the first one's hash (`seen`) or the committed one depends on whether
something still holds the object; both are modelled. `needs_rehash()` always
returns `False`, so its branch of `login()` is dead and left out. The e-mail is its
normal form. `raised` is the exception as `AuthService` raises it; the routes turn
it into a status, and `session_scope` into a `DatabaseError`.

### Dashboard

A frame is its columns with their kinds and its row labels, each of which stands
for many rows unless it is the only one. The keys of the session are `data`,
`signature`, `target`, `task`, `features`, `bundle` (model with its task and columns),
`report`, `job` (a training in the background) and `anomaly` (the labels a detector
flagged); `uploader` is the file in the upload widget. An action is one run of a
page's script with the event that caused it, and `page` says how it ended: shown,
stopped with a hint, refused a file, told of an error by a handler, or raised out of
the script. What a page meets that nobody's earlier step explains is part of it: a
sample that cannot be downloaded (`Downloaded`), an unreadable data or model file, a
form of page 5 whose empty fields the model does not take, a model that cannot be
pickled for the download. A background training may end between any two pages; its
result is stored when page 4 is next on screen, whatever dataset is loaded by then,
and the report is then "late".

`chosen`, `since` and `reselected` are history variables. `chosen` is set from what
the user did, not from what came of it: the source loaded last that was not refused,
and whether it is a file of the name and size of the one uploaded before it
(`repeated`), which page 1 does not read again. `since` and `reselected` say what
has happened to the data and to the choices since the report, the job and the flags
were made. The readers are modelled by what they make of a file whose separator,
encoding or extension is not the expected one, once with and once without Polars
(`UsePolars`; the run takes the legacy reader, which retries). `Selections` are the
ways the widgets of page 4 may be set.

Assumed: numeric columns are not all missing and vary over two rows, and at least
one column is not sparse. How a job is polled, statement by statement, is
`TrainingSession`'s subject.

### ExportReport

`exports[e]` holds the files a call has still to write, `disk` the files with the
call that wrote them and, for a manifest, its content; `archives` what was zipped.
Each file is one step and may fail; only an image of the automated package is
skipped. A failed call leaves its directory behind.

### ExperimentTracking

`phase[t]` is a training's place in `MLflowTracker.__enter__`, the logging calls and
`__exit__`; `experiment` belongs to the process and `activeRun` to a thread of the
pool, as in MLflow's fluent interface (external). Every call of MLflow may fail.
`faults` and `overtaken` are history variables.

### Preprocessing

`plan` is the sequence of steps of a builder, `stepColumns` the categories whose rare
values are grouped and those that are encoded (given explicitly, or all that the
step takes by default), `traits` what the steps will find in the training values
(skewed columns, pairs that are alike, columns that matter), chosen freely;
`pipeline.memory[i]` what step `i` remembers once fitted. A fit may fail: the
feature ranking refuses dates (`RankingFails`), and some steps fail on what is in
the cells (`Fallible`). `Serve` gives the fitted pipeline a frame with columns
missing, some of whose columns may have pandas' dtype `category`, which the loader
makes of columns of few values by default and into which the rare-category step
cannot write a value they do not know (`frozen`, `CannotWrite`). A column is an
input or a value made from one. Cells are finite. The target encoder is also
modelled on cells and binary targets with exact rationals (`EncodeTraining`).

### Analytics, DataQuality, ModelReports

Each keeps the answer of the last call. `Analytics` reduces a table to the number
of rows each guard looks at, a series to its positions and the range of its values,
a clustering to numbers of rows, columns and labels; ratings are kept. Infinite
cells, a list of no columns, a multiplicative model of values that are not positive
and a missing or failing UMAP escape as exceptions of the libraries ("raised"), as
no handler catches them. `DataQuality` works on tables of small numbers and missing
cells; sequences of one deviating value (`LoneLengths`) reach the z-score's bound,
and tables on both sides of `MinSampleSize` the drift detector's. `ModelReports`
compares metrics as ratios of integers over all small test sets, and names and
values of explanations by their numbers. Logarithms,
p-values and skewness are chosen among the outcomes that the values allow; ratings
are non-negative.

### Tuning

A search is its trials: a score, no value (some folds failed) or a failure, which
prunes the trial. `preprocessors` records which search fitted the preprocessor that
an earlier pipeline still refers to. `BestTrial` is Optuna's (external). Whether
the estimator accepts what the search space draws is taken from the registry and
`search_spaces.py`.

### MCBrowser, MCServices, MCLearning

The parts of a host share no state in these models, so a behaviour explores one of
them (`place`, `which`, `part`) and the others stay in their initial states: state
spaces add up instead of multiplying. In the code the parts meet in values: a frame,
a model, a path. `Dashboard` states what the pages do with them, and
`TrainingSession` what two sessions do to the shared pool.

## 4. Runs

| Run | Shows | Bounds and why they suffice |
|---|---|---|
| `job_runner` | results, settled records, the refinement and `QueuedJobEnds` | three jobs on two threads: one waits while two run, and it can be cancelled or reset in the queue; the proofs cover the rest |
| `browser` | sessions are isolated; pages: the dataset is the last chosen, a page fails only on values of different moments, a report over another dataset is a late one; exports are whole | two sessions and two jobs on one thread: one job waits for the other, a session can replace its job. No script is cut here (`Impatient = {}`): cuts of two sessions only multiply what `one_session` covers. One downloaded sample and two files over three columns: a file in Latin-1 with semicolons and a number that passes for a date, and one of a single row and of the same name and size. One hygiene form, which parses one column and drops another. Three `Selections`: two targets, and no feature. Two exports with no chart or four candidate columns, one more than is used. Symmetric in sessions and jobs |
| `one_session` | report and model are of one training unless a cut tore them apart; a job is forgotten only with its outcome; `RunningPageEnds` | a user who cuts any script at any access to the session's state, two jobs, an operator who cancels and resets; no symmetry, since it checks liveness |
| `dataset_registry` | numbering, answers, the version log, no endless wait | three requests, two users, two names: two compete for a version while a third has another user or name. `Early = {r1}`: one request is answered before its commit, the others afterwards |
| `learning` | training: own fits and stored champion; analyses, preprocessing, quality, searches, reports | two calls of either engine, three models of which they fit four together (`MaxCandidates`), two scores: every order and tie of three. Table sizes are those at which a guard or a derived number changes. Five input columns (two numeric, a date, one of few and one of many categories) and plans whose order matters; two alike pairs at most. Tables of two columns and up to three lines with a minimal sample of three, columns with one deviating value of 5, 10 and 11. Two searches of up to two trials. Test sets of four rows and three classes. Symmetric in calls |
| `services` | the window against the history; pool, audit and end of requests; accounts; trainings over HTTP; tracking | two clients, two requests per window of two ticks, five instants: a hit can be inside, at the edge of and beyond the window. Three requests (two rows, one row, none) on two connections: two can block each other while the third waits; every step may fail, the serialization and the last commit included. Three calls of `AuthService` on one e-mail, two strong passwords and a weak one: two race and the third signs in or changes a password; each commits before or after it returns. Three trainings, two models, two seconds: same path, same model in another second, and an unrelated one. Three tracked trainings in two threads, two experiments: one thread reused, one race |
| `stay_on_page`, `failure_shown`, `report_of_dataset`, `bundle_is_own`, `legacy_fits`, `only_trained` | the findings below, each a counterexample | smallest instance that shows it |

Runs without deadlock checking stop for a reason: every job id, request, call,
training or export is used once, and a browser may be left alone. The clock of
`TrainingApi` is bounded by `MaxClock`, that of `RateLimiter` by `MaxNow`, a series of
searches by `MaxSearches`, the models fitted by the calls of `MCLearning` by
`MaxCandidates`, the pairs of alike columns by `AlikePairs`; no other counter is bounded.
`Early`, `Impatient` and `Selections` choose which requests, users and forms a run
has; the proofs hold for every choice.

Every property of a passing run has a mutant: a faulty variant of one operator,
written next to it in the module ("Faulty variant"), under which TLC violates it.

## 5. Fairness

* `JobRunner`: weak fairness of each wrapper's next statement, of the pool's pick
  and of a `submit()` or `cancel()` that has begun. These are running threads.
  The training function itself returns, since it has no unbounded loop. Nobody
  is obliged to submit.
* `TrainingSession`: a script that was started goes on, and the fragment's timer
  keeps firing. Users owe nothing: no fairness on clicks or visits.
* `DatasetRegistry`: a request that has begun executes its statements; a waiting
  INSERT is not enabled until the key is free. No fairness on `Abort`, so nothing
  is said to fail, and `EveryRequestEnds` does not rest on timeouts.
* `ApiRequests`: a request that has arrived is served: its thread runs, its
  statements return, and the pool's timeout ends a wait. The timeout is needed:
  without it two predictions that hold all connections wait for each other, which
  is what the mutant of `EveryRequestEnds` shows. Nobody is obliged to send a
  request, and no particular outcome is fair.
* All other modules claim safety only. `Dashboard`'s user owes nothing, and the calls
  without state end in one step.

## 6. Proofs

TLAPS proves the theorems for every value of the constants. Every safety property,
action property and refinement that a passing run checks is stated by a theorem;
only the liveness properties are not. The assumptions are the named `ASSUME`s of the
modules, which TLC evaluates on each run:

* `JobRunner`, `ModelTraining`: the set of jobs is finite and there is a thread; the
  registry names models once, scores are natural numbers, reserved values are not
  calls.
* `RateLimiter`, `ApiRequests`: a window admits a request, it and the bound of the
  clock are natural numbers, the pool has a connection, requests are finitely many.
* `TrainingApi` (`RequestAssumption`): requests are finitely many, and none is called
  like what a file may hold. `Accounts` (`SeedAssumption`): the account that is there
  at the start was made by none of the calls, and no password is both strong and weak.
  `TrainingSession` (`NamesAssumption`, `OperatorAssumption`): reserved values are
  neither datasets nor jobs, impatient users are users. `DatasetRegistry`
  (`EarlyAssumption`): those answered early are requests. `ExportReport`
  (`ChartsAssumption`): names of columns are strings.
* `Dashboard`: samples are not files, sources have contents, forms, selections and
  model cards name columns, suggested targets exist. `ExperimentTracking`: each
  training has a thread and an experiment, and `NoRun` is not a training.
* `Preprocessing`: a frame has no two columns of one name, a plan no step twice, each
  column has a kind, a date has finitely many parts whose names are not reserved,
  there are two folds and more. `Tuning`: numbers of trials and scores are natural.
* `Analytics`: finitely many users, 0 among the holdouts, ratings not negative.
  `DataQuality`: a table has a column, and finitely many; cells are natural numbers or
  missing. `ModelReports`: a test set has a row.

**JobRunnerProofs.** The properties are not inductive: nothing in "COMPLETED has a
result" says in which order the wrapper writes. `IInv` adds `RecordFollowsWorker`
(what the record holds at each statement of the wrapper), `FutureFollowsWorker`
(the future is RUNNING just while the wrapper executes, a cancelled record has a
cancelled future) and `QueueInv`. From it follow type correctness,
`CompletedHasResult`, `CancelledNeverRuns`, `DoneMeansSettled`,
`QueueHoldsWaitingJobs` and the refinement of `JobLifecycle`.

**DatasetRegistryProofs.** An open transaction has read that the version below its
own is stored (`Pending`), what it has inserted is held by nobody else
(`Exclusive`), and each line is `1..n` (`Dense`): so a commit extends its line by
one. What a client has been told is related to the statement its request is at and to
the rows (`Bookkeeping`): an error leaves no row, and a success has its row unless it
was told before the commit, which may yet fail. From it follow numbering, anchoring,
answers and the refinement of `VersionLog`, whose step is that `Log` grows by `Append`.

**ModelTrainingProofs.** First the sort: whatever order it chooses, it permutes the
leaderboard (`RankedPermutes`), so an entry that precedes all others has the first
score, and with the stable order the first place. Then, per call: `Board` (entries
and remaining candidates partition the selection), `BestSoFar` (the running
maximum is the first maximum), `Fits` (an enterprise call's estimators are as it
left them: no other call has a step that touches them), `Result` and `RowsInv`.
From it follow all four safety properties.

**ProofBasics.** What several proofs need and the library does not state. The least
member of a set of naturals (`LeastMember`, from the well-founded order of finite sets)
stands for induction: a least counterexample cannot exist. From it: greatest members,
climbing an interval (`Climb`), growing a finite set (`Grow`, `Smaller`), that a function
defined by recursion over `0..n` exists (`Recursion`), and that the community module's
sum over a finite set may be taken in any order (`SumAny`), is linear, monotone and adds
up over parts, with the sum of squared distances that variances are made of.

**ApiRequestsProofs.** The limiter first. Its bucket alone says nothing about the
past, so the invariant relates it to the history: it is a suffix of `accepted`
(`Suffix`), what is before the suffix is older than the window, times are in order
(`InOrder`) and any `MaxRequests + 1` in a row are more than a window apart
(`Spaced`). `ExpiredFacts` says what the pruning loop drops. From it follow the bound
and `LimiterIsExact`. The bound on the clock is a constant, so the result holds for
every clock. Of the requests, what is said of one depends on its own variables:
`AuditInv` (rows written against stage and answer) and `PoolInv` (which connections it
may hold at which stage). `OwnStep` proves them for the request that moves,
`OtherRequest` for the others. An error made by a dependency or the handler means that
rows are missing; a 500 after the handler does not. From them follow
`AuditMatchesAnswer` and, by counting pairs of active requests and sessions,
`ExhaustionNeedsLoad`; a step is a limiter step or leaves it alone, so `ApiSpec`
implements `LimiterSpec` and the limiter's theorems hold for the API.

**ServicesProofs.** *Trainings over HTTP* (`TrainingInv`). Neither property is
inductive: that a request has its bundle says nothing of who else is writing. The
invariant says of every path that was not raced that whoever has opened it is alone
(`PathInv`), of every request what it has decided by the statement it is at
(`RunFollowsRequest`), that writers are exactly those that dump, and that the counters
count requests by their program counter, which is carried from step to step by
cardinalities (`OneMore`, `FailureCounted`). *Accounts* (`AccountInv`). Rows are never
deleted, so what a call read stays there (`StepFollowsAccounts`); the unique index
lets one insert of an e-mail wait for its commit (`InsertsExclude`); each row has the
call it stems from, and each password the call that set it (`RowInv`), which leaves
none for the owner. A call that has answered either goes on to its commit or fails
there, and only tokens handed out by such a call can name nobody (`PromiseInv`).
*Tracking* (`TrackingInv`): an active run belongs to a training in progress on its
thread or was left by a fault (`ActiveRunIsAccounted`). The API process implements
each service, and its types follow from the four invariants.

**BrowserProofs.** *Sessions* (`SessionInv`) extend the runner's own invariant, since
workers write records between any two reads of a script: `ScriptInv` says what a
script knows at each statement nevertheless (a status that was terminal stays so,
`TerminalIsFinal`) and how far report and model may be apart there, which `torn`
carries over a cut; `HeldOnce` that no two sessions hold a job. Each step of a session
is a step of the runner or leaves it alone, so the runner's theorems hold under it;
`ForgottenOnlyWithOutcome` follows step by step (`StepResolves`). *Pages* (`PagesInv`):
the widget's file is the one whose signature is remembered, the chosen columns are
the model's, and a job's, until page 4 writes others; a model, a job and flags fit the
data as long as the history variables say that nothing was replaced; a report of a
replaced dataset is a late one (`ReportIsDropped`). *Exports* (`ExportInv`): the
files still to write end with manifest and archive, and a directory holds exactly
what its call has listed so far.

**LearningProofs.** *Searches* (`TuningInv`): the best of finitely many trials exists
(`BestTrialFacts`), and the owner of a shared preprocessor is a later search with the
caller's. *Target encoder* (`EncoderInv`): a mean over other rows is a sum that does
not contain the row's own target (`OthersDecide`). *Pipelines* (`PipelineInv`): what is
remembered and served is what fitting and serving compute, so the argument is about
functions. Both are unfolded into sequences of frames (`FitUnfolds`, `ServingUnfolds`);
`After` gives the columns a step leaves, `Refuses` when it fails, whatever columns the
steps were given; a frame with a column that cannot be written to is refused as a
whole. Side by side, the
columns missing from the served frame are dates until a step makes them good or
picks others (`StepsAgree`), by the invariant over positions that either nothing but
dates is missing or the two frames agree. Dropped columns have twins because the
visit of each column is decided by those before it (`Judged`, `RedundantFacts`).
*Quality*: the score is a sum of rounded shares each bounded by its issue
(`CleanScore`); equal shares of single values add up to equal shares of a bin
(`SharesAdd`), so drift needs a value whose share changed; no value of ten deviates
by three standard deviations, by Samuelson's inequality over integers; and Tukey's
fences keep half of the values because the quartiles are interpolated between two
order statistics and lie between the places that bound them (`QuartileValues`,
`FencesKeepHalf`, by the remainder of `n - 1` modulo 4). *Analyses*: predictions are
weighted means (`MeanLiesBetween`), holdouts smaller than half. *Reports*: the counted
hits are the hits (`ConfusionCounts`), and the two r2 have one value (`ScoresAgree`).
The parts used together implement each module, so all this holds of the whole.

Proved and not run, since another property says more or the run of the same
module covers its cases: the type invariants of `JobRunner` and `DatasetRegistry`,
`CancelledNeverRuns`, `QueueHoldsWaitingJobs`, `RowsAreAnchored`, `AtMostMaxPerWindow`,
`BestHeadsLeaderboard` and `LeaderboardIsComplete`.

Model-checked only: `QueuedJobEnds`, `RunningPageEnds` and `EveryRequestEnds`.
Liveness rests on fairness and `ENABLED`, which the prover does not reason about. The
findings of section 7 are counterexamples and stay with TLC as well.

## 7. Findings

* **A queued job is not polled** (`stay_on_page`, `background.py:106`). A PENDING
  job makes `sync_background_training` return "idle"; the page shows its form and
  arms no fragment. The user who was told to stay on the page waits for ever.
* **A failure is not shown** (`failure_shown`, `background.py:57`). The fragment
  that polls the failure forgets the job before the page reruns; the page finds no
  active job and shows nothing.
* **A report outlives its dataset** (`report_of_dataset`, `context.py:47`). Loading
  data clears model and report and keeps the active job; when it has ended, page 4
  stores the model and the report of the old data beside the new ones, and page 8
  quotes those metrics over the new data.
* **A bundle is overwritten in spite of `overwrite=False`** (`bundle_is_own`,
  `persistence.py:58`). Two trainings that select one model in one second.
* **A returned pipeline is refitted** (`legacy_fits`, `src/predictive.py:196`). The
  estimators are module globals.
* **A failed candidate is stored as a model** (`only_trained`,
  `persistence_service.py:148`). Its exception had no message, and the test is for
  truth.

Seen while modelling and visible in the models, without a run of their own:

* Training: cross-validation metrics of the winner are never stored, since the leaderboard
  keeps the older entry (`service.py:255`).
* Answers: what is answered before `get_db()` commits may not come true. `POST /upload`
  answers 201 for a row whose commit then fails and whose file stays; a registration
  hands out tokens for an account that is not there (`deps.py:24`, `auth_service.py:94`;
  with FastAPI 0.118 and later the client holds them, `pyproject.toml` asks for 0.111
  or any later one).
* Sessions: a script cut between two writes leaves model and report of different
  trainings (`training.py:159-160`); for a polled job the next poll repairs it, for a
  training in the script's thread nothing does. "completed" of
  `sync_background_training` may come back before the results are in the session when
  the job completes between two reads (the next rerun repairs it); two sessions that
  upload bundles of one name to page 5 write the same file (`5_Apply_Model.py:47`).
* Pages: on a table of one row the recommendation tab of page 7 raises
  (`matrix.py:10`, `squeeze` makes scalars) and the sliders of page 6 have no range;
  flags of an earlier dataset make page 7 raise (`7_Advanced_Analytics.py:272`); a
  model uploaded after another training meets that training's report on page 6; a
  sample that cannot be downloaded raises (`1_Data_Loading.py:53`); a file dropped
  again after a sample was loaded is not read (`1_Data_Loading.py:72`).
* Requests: a prediction whose rows are all committed may still answer 500, for a
  result with a NaN or a commit that fails (`routes/ml.py:52`, `deps.py:24`); the
  metrics middleware is innermost, so a 429 of the rate limiter is
  not counted (`api/app.py:53` against `prometheus.py:14`); `session_scope` turns the
  `AuthError` of a wrong password into a `DatabaseError` that the login page does not
  catch (`session.py:100`, `gate.py:81`); two concurrent changes of one password both
  succeed (`auth_service.py:177`).
* Recommendations: item-item recommendations are empty (`similarity.py:55`,
  `CosineScore`). The weights of an unrated item come from a row from which the user's
  own items have been taken out, so the sum multiplies them with ratings that are all
  zero.
* Tuning: the regression decision tree cannot be tuned (`search_spaces.py:63`,
  `Accepts`). Its space draws the criteria of a classifier; every trial is pruned and
  `study.best_params` raises a `ValueError` past the error made for the user.
* Drift: the Kolmogorov-Smirnov test alone never flags a column, though the
  argument's description says so (`detector.py:94`); below the minimal sample a flag is
  added and the scores are computed all the same, though the text says NaN
  (`detector.py:97`, `:133`).
* Reports: the confusion report drops predicted classes that the
  test set lacks; the r2 of the regression report differs from the leaderboard's for a
  constant target; a bundle without a card loads with an empty list of features.
* Preprocessing: the target encoder without columns fits but does not transform
  (`target_encoder.py:137`); fewer rows than folds raise; the skewness step raises on
  a frame with some of its columns; a protected first column lets its twin stay;
  grouping rare values raises on a column of dtype `category`, which the loader makes
  by default (`rare_category.py:81`, `memory.py:49`); the feature selection refuses
  frames with dates.
* Analyses: infinite cells, an empty list of columns and a multiplicative model of
  values that are not positive end in exceptions of scikit-learn and statsmodels, past
  the errors made for the user (`kmeans.py:33`, `dbscan.py:33`, `decomposition.py:40`;
  page 7 asks for additive models only).
* Exports: a failed call leaves its directory.

## 8. What is left out

**Not modelled.** Observability and core (`core/logging.py`, error formatting,
settings, Sentry, health probes): no protocol of their own, only the counters are
modelled where they are incremented. Deployment and scripts: run once. The caches
of `performance/fingerprints.py` and `frontend/performance/streamlit_cache.py`: a
wrong hit depends on which cells a sample hashes, which is data, and their
memory and Dask parts only change speed.

**Left out of modelled components.** Numerics (estimators, the other metrics,
statistics of transformers, charts), formatting and rendering; the synthetic
sample datasets; the fingerprint of a model's data (a hash; it sorts the names and not
the contents, `reproducibility.py:136-141`, so contents under exchanged names share
one); the ready-made schemas and the profile's HTML and JSON; git and
environment capture; the database copy of an inline training (page 4, lines
164-177); engine creation and reset; joblib's format; the token format, CSRF, roles
and the sign-in form's session state; the champion flags inside one transaction;
stored cross-validation rows. The quality library (profiles, drift, schemas) is called
by tests and scripts only, so nothing says which page would read its answers. The
reasons stand beside each component and hazard in `PROJECT.json`.
