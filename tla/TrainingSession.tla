--------------------------- MODULE TrainingSession ---------------------------
(***************************************************************************)
(* Browser sessions of the Streamlit front end on top of JobRunner: the    *)
(* script of the Predictive Modeling page, the two-second fragment that    *)
(* polls the session's job, and the pages that change the dataset or the   *)
(* model (pages 1 and 5).                                                  *)
(*                                                                         *)
(* Streamlit runs one script or fragment of a session at a time, and only  *)
(* that thread touches st.session_state; worker threads write the job's    *)
(* record meanwhile.  So every read of record.status is a step of its own. *)
(* So is every write of a session key: each access to st.session_state is  *)
(* a point where Streamlit ends the script if the user has meanwhile       *)
(* touched a widget, left the page or closed it (Cut), and what the script *)
(* had written by then stays.                                              *)
(*                                                                         *)
(* A training run is identified by a job id, also when it runs in the      *)
(* script's thread: artifacts are named by the run that produced them.     *)
(***************************************************************************)
EXTENDS JobRunner

CONSTANTS
  Sessions,     \* browser sessions
  Datasets,     \* contents a session's dataset can have, as loaded or cleaned
  None,         \* Python's None
  Operator,     \* calls made outside the pages: a subset of {"cancel", "reset"}
  Impatient     \* users who act while a script runs: a subset of Sessions

Uploaded == "uploaded"      \* a model bundle uploaded on page 5

ASSUME OperatorAssumption == Operator \subseteq {"cancel", "reset"} /\ Impatient \subseteq Sessions

\* Neither a job id nor a dataset is mistaken for nothing or for an upload.
ASSUME NamesAssumption == None \notin Jobs \cup Datasets /\ Uploaded \notin Jobs

VARIABLES
  session,      \* st.session_state of each session (the keys of the ML workflow)
  script,       \* the statement the session's script is about to execute
  local,        \* its local variables: the record polled, who polls, the phase
  view,         \* what the browser shows when no script runs
  trainedOn,    \* the dataset a training run was started with
  reported,     \* failed jobs whose error has been displayed
  torn          \* which script was cut between the writes of model and report (history)

sessionVars == <<session, script, local, view, trainedOn, reported, torn>>
allVars     == <<vars, sessionVars>>

Snapshot == [job : Jobs, status : JobStatus]      \* record.to_dict()

NewSession == [dataset |-> None, bundle |-> None, report |-> None, bytes |-> None,
               active |-> None, jobResult |-> None]

NoLocals   == [job |-> None, caller |-> "sync", phase |-> "idle", click |-> "none"]

InitSession ==
  /\ session   = [s \in Sessions |-> NewSession]
  /\ script    = [s \in Sessions |-> "rest"]
  /\ local     = [s \in Sessions |-> NoLocals]
  /\ view      = [s \in Sessions |-> "elsewhere"]
  /\ trainedOn = [j \in Jobs |-> None]
  /\ reported  = {}
  /\ torn      = [s \in Sessions |-> "none"]

\* Assignments to the session state, the next statement, a local variable.
Put(s, state)  == session' = [session EXCEPT ![s] = state]
Goto(s, where) == script' = [script EXCEPT ![s] = where]

\* sync_background_training() returns; the page remembers how it was started.
Return(s, ph)  == /\ local' = [local EXCEPT ![s] = [NoLocals EXCEPT !.phase = ph, !.click = local[s].click]]
                  /\ Goto(s, "returned")

\* The page's script starts from its top, for a click on a button or not.
RunPage(s, click) == /\ local' = [local EXCEPT ![s] = [NoLocals EXCEPT !.click = click]]
                     /\ Goto(s, "sync")
                     /\ UNCHANGED view

\* The script ends (st.stop(), its last line or an exception) and the page
\* stays on screen; an exception stays in the place that raised it.
Show(s, what) == /\ view'  = [view EXCEPT ![s] = what]
                 /\ local' = [local EXCEPT ![s] =
                                [NoLocals EXCEPT !.caller =
                                   IF what = "exception" THEN local[s].caller ELSE @]]
                 /\ Goto(s, "rest")

Polled(s) == record[local[s].job].status

-----------------------------------------------------------------------------
(* sync_background_training() and poll_active_job() *)

SyncStart(s) ==
  /\ script[s] = "sync"
  /\ IF session[s].active = None
     THEN Return(s, "idle")
     ELSE /\ local' = [local EXCEPT ![s] = [@ EXCEPT !.job = session[s].active, !.caller = "sync"]]
          /\ Goto(s, "poll")
  /\ UNCHANGED <<vars, session, view, trainedOn, reported, torn>>

\* poll_active_job() returns to the script or to the fragment.
PollReturns(s) == Goto(s, IF local[s].caller = "sync" THEN "read93" ELSE "read70")

\* runner.get() does not know the job: it is forgotten.
PollUnknown(s) ==
  /\ script[s] = "poll"
  /\ local[s].job \notin KnownJobs
  /\ Put(s, [session[s] EXCEPT !.active = None])
  /\ torn' = [torn EXCEPT ![s] = IF @ = "poll" THEN "lost" ELSE @]
  /\ IF local[s].caller = "sync"
     THEN Return(s, "idle") /\ UNCHANGED view
     ELSE RunPage(s, "none")
  /\ UNCHANGED <<vars, trainedOn, reported>>

PollStatus(s) ==
  /\ script[s] = "poll"
  /\ local[s].job \in KnownJobs
  /\ Goto(s, IF Polled(s) = "COMPLETED" THEN "apply" ELSE "read57")
  /\ UNCHANGED <<vars, session, local, view, trainedOn, reported, torn>>

\* _apply_training_result() and persist_training_to_session(), which the page
\* calls too after a training in its own thread: model, report and download
\* bytes are stored one after the other.
PersistModel(s) ==
  /\ script[s] = "apply"
  /\ IF local[s].caller = "inline" \/ record[local[s].job].result
     THEN Put(s, [session[s] EXCEPT !.bundle = local[s].job]) /\ Goto(s, "report")
     ELSE UNCHANGED session /\ Goto(s, "snapshot")
  /\ UNCHANGED <<vars, local, view, trainedOn, reported, torn>>

PersistReport(s) ==
  /\ script[s] = "report"
  /\ Put(s, [session[s] EXCEPT !.report = local[s].job])
  /\ torn' = [torn EXCEPT ![s] = "none"]
  /\ Goto(s, "bytes")
  /\ UNCHANGED <<vars, local, view, trainedOn, reported>>

PersistBytes(s) ==
  /\ script[s] = "bytes"
  /\ Put(s, [session[s] EXCEPT !.bytes = local[s].job])
  /\ IF local[s].caller = "inline"
     THEN Show(s, "form")
     ELSE Goto(s, "snapshot") /\ UNCHANGED <<local, view>>
  /\ UNCHANGED <<vars, trainedOn, reported, torn>>

\* Pickling the model for the download raises; only the page catches it.
PersistRaises(s) ==
  /\ script[s] = "bytes"
  /\ Show(s, IF local[s].caller = "inline" THEN "form" ELSE "exception")
  /\ UNCHANGED <<vars, session, trainedOn, reported, torn>>

\* Faulty variant: every job that has not completed is taken for a failed one.
PollOtherStatus_Else(s) ==
  /\ script[s] = "read57"
  /\ Goto(s, "snapshot")
  /\ UNCHANGED <<vars, session, local, view, trainedOn, reported, torn>>

PollOtherStatus(s) ==
  /\ script[s] = "read57"
  /\ IF Polled(s) \in {"FAILED", "CANCELLED"} THEN Goto(s, "snapshot") ELSE PollReturns(s)
  /\ UNCHANGED <<vars, session, local, view, trainedOn, reported, torn>>

TakeSnapshot(s) ==
  /\ script[s] = "snapshot"
  /\ Put(s, [session[s] EXCEPT !.jobResult = [job |-> local[s].job, status |-> Polled(s)]])
  /\ Goto(s, "forget")
  /\ UNCHANGED <<vars, local, view, trainedOn, reported, torn>>

ForgetJob(s) ==
  /\ script[s] = "forget"
  /\ Put(s, [session[s] EXCEPT !.active = None])
  /\ PollReturns(s)
  /\ UNCHANGED <<vars, local, view, trainedOn, reported, torn>>

\* RUNNING: the progress bar is drawn and the fragment runs for the first time.
SyncReadsRunning(s) ==
  /\ script[s] = "read93"
  /\ IF Polled(s) = "RUNNING" THEN Goto(s, "fragment") ELSE Goto(s, "read99")
  /\ UNCHANGED <<vars, session, local, view, trainedOn, reported, torn>>

SyncReadsCompleted(s) ==
  /\ script[s] = "read99"
  /\ IF Polled(s) = "COMPLETED"
     THEN Return(s, "completed")
     ELSE Goto(s, "read102") /\ UNCHANGED local
  /\ UNCHANGED <<vars, session, view, trainedOn, reported, torn>>

SyncReadsFailed(s) ==
  /\ script[s] = "read102"
  /\ IF Polled(s) = "FAILED"
     THEN /\ reported' = reported \cup {local[s].job}
          /\ Return(s, "failed")
     ELSE /\ Return(s, "idle")
          /\ UNCHANGED reported
  /\ UNCHANGED <<vars, session, view, trainedOn, torn>>

-----------------------------------------------------------------------------
(* _poll_training_fragment(), inline or on its two-second timer *)

\* The timer stays armed while the running page, or the exception that the
\* fragment itself raised, is on screen.
FragmentTick(s) ==
  /\ script[s] = "rest"
  /\ \/ view[s] = "running"
     \/ view[s] = "exception" /\ local[s].caller = "fragment"
  /\ Goto(s, "fragment")
  /\ UNCHANGED <<vars, session, local, view, trainedOn, reported, torn>>

Fragment(s) ==
  /\ script[s] = "fragment"
  /\ IF session[s].active = None
     THEN Show(s, "running")
     ELSE /\ local' = [local EXCEPT ![s] = [@ EXCEPT !.job = session[s].active, !.caller = "fragment"]]
          /\ Goto(s, "poll")
          /\ UNCHANGED view
  /\ UNCHANGED <<vars, session, trainedOn, reported, torn>>

\* Faulty variant: the page is only rerun when the training succeeded.
FragmentReadsStatus_OnlyCompleted(s) ==
  /\ script[s] = "read70"
  /\ IF Polled(s) = "COMPLETED"
     THEN RunPage(s, "none")
     ELSE Show(s, "running")
  /\ UNCHANGED <<vars, session, trainedOn, reported, torn>>

\* The whole page is rerun unless the job is still RUNNING.
FragmentReadsStatus(s) ==
  /\ script[s] = "read70"
  /\ IF Polled(s) # "RUNNING"
     THEN RunPage(s, "none")                               \* st.rerun()
     ELSE Show(s, "running")
  /\ UNCHANGED <<vars, session, trainedOn, reported, torn>>

-----------------------------------------------------------------------------
(* The rest of the page's script *)

\* st.rerun() starts the page again, without the click that started this run.
PageContinues(s) ==
  /\ script[s] = "returned"
  /\ CASE local[s].phase = "idle"      -> local[s].click = "none" /\ Show(s, "form")
       [] local[s].phase = "failed"    -> Show(s, "failure")
       [] local[s].phase = "completed" -> RunPage(s, "none")
  /\ UNCHANGED <<vars, session, trainedOn, reported, torn>>

\* "Train models": the script has polled the job of the session and not ended
\* on it.  Training in the background publishes and queues the job (SubmitStep)
\* and tracks it; in the script's thread it ends before the script goes on, and
\* the page catches what it raises and shows the session's report.
BeginTraining(s, j) ==
  /\ script[s] = "returned" /\ local[s].phase = "idle" /\ local[s].click # "none"
  /\ trainedOn[j] = None
  /\ trainedOn' = [trainedOn EXCEPT ![j] = session[s].dataset]
  /\ \/ /\ local[s].click = "background"
        /\ local' = [local EXCEPT ![s] = [NoLocals EXCEPT !.job = j]]
        /\ Goto(s, "submit") /\ UNCHANGED view
     \/ /\ local[s].click = "inline"
        /\ \/ local' = [local EXCEPT ![s] = [NoLocals EXCEPT !.job = j, !.caller = "inline"]]
              /\ Goto(s, "apply") /\ UNCHANGED view
           \/ Show(s, "form")
  /\ UNCHANGED <<vars, session, reported, torn>>

\* Bound: when the job ids have run out, a training raises.
NoJobLeft(s) ==
  /\ script[s] = "returned" /\ local[s].phase = "idle" /\ local[s].click # "none"
  /\ \A j \in Jobs : trainedOn[j] # None
  /\ Show(s, "form")
  /\ UNCHANGED <<vars, session, trainedOn, reported, torn>>

SubmitJob(s) ==
  /\ script[s] = "submit"
  /\ SubmitStep(local[s].job)
  /\ UNCHANGED sessionVars

\* Faulty variants: the job id lands in state that all sessions share; the
\* record itself is stored instead of its id.
TrackJob_ProcessWide(s) ==
  /\ script[s] = "submit"
  /\ submitter[local[s].job] = "submitted"
  /\ session' = [t \in Sessions |-> [session[t] EXCEPT !.active = local[s].job]]
  /\ Goto(s, "tracked")
  /\ UNCHANGED <<vars, local, view, trainedOn, reported, torn>>
TrackJob_StoresRecord(s) ==
  /\ script[s] = "submit"
  /\ submitter[local[s].job] = "submitted"
  /\ Put(s, [session[s] EXCEPT !.active = record[local[s].job]])
  /\ Goto(s, "tracked")
  /\ UNCHANGED <<vars, local, view, trainedOn, reported, torn>>

TrackJob(s) ==
  /\ script[s] = "submit"
  /\ submitter[local[s].job] = "submitted"
  /\ Put(s, [session[s] EXCEPT !.active = local[s].job])
  /\ Goto(s, "tracked")
  /\ UNCHANGED <<vars, local, view, trainedOn, reported, torn>>

ClearOutcome(s) ==
  /\ script[s] = "tracked"
  /\ Put(s, [session[s] EXCEPT !.jobResult = None])
  /\ RunPage(s, "none")                                     \* st.rerun()
  /\ UNCHANGED <<vars, trainedOn, reported, torn>>

SubmitRaises(s) ==
  /\ script[s] = "submit"
  /\ submitter[local[s].job] = "raised"
  /\ Show(s, "form")
  /\ UNCHANGED <<vars, session, trainedOn, reported, torn>>

-----------------------------------------------------------------------------
(* What else the user does between two script runs *)

\* Opening page 4, or any widget of it, runs its script from the top; without
\* a dataset the script stops before it looks at the job.
VisitPage4(s) ==
  /\ script[s] = "rest"
  /\ session[s].dataset # None
  /\ RunPage(s, "none")
  /\ UNCHANGED <<vars, session, trainedOn, reported, torn>>

ClickTrain(s, how) ==
  /\ script[s] = "rest"
  /\ view[s] = "form"
  /\ RunPage(s, how)
  /\ UNCHANGED <<vars, session, trainedOn, reported, torn>>

\* store_dataset(): the dataset, then the model, then the report; job and
\* download bytes stay.
StoreDataset(s, d) ==
  /\ script[s] = "rest"
  /\ Put(s, [session[s] EXCEPT !.dataset = d])
  /\ local' = [local EXCEPT ![s] = NoLocals]
  /\ Goto(s, "clearBundle")
  /\ UNCHANGED <<vars, view, trainedOn, reported, torn>>

\* Faulty variant: the report of the previous dataset survives.
ClearBundle_KeepsReport(s) ==
  /\ script[s] = "clearBundle"
  /\ Put(s, [session[s] EXCEPT !.bundle = None])
  /\ Show(s, "elsewhere")
  /\ UNCHANGED <<vars, trainedOn, reported, torn>>

ClearBundle(s) ==
  /\ script[s] = "clearBundle"
  /\ Put(s, [session[s] EXCEPT !.bundle = None])
  /\ Goto(s, "clearReport")
  /\ UNCHANGED <<vars, local, view, trainedOn, reported, torn>>

ClearReport(s) ==
  /\ script[s] = "clearReport"
  /\ Put(s, [session[s] EXCEPT !.report = None])
  /\ torn' = [torn EXCEPT ![s] = "none"]
  /\ Show(s, "elsewhere")
  /\ UNCHANGED <<vars, trainedOn, reported>>

\* Page 1's hygiene form replaces the dataset by a cleaned one, nothing else.
ApplyHygiene(s, d) ==
  /\ script[s] = "rest"
  /\ session[s].dataset # None
  /\ Put(s, [session[s] EXCEPT !.dataset = d])
  /\ Show(s, "elsewhere")
  /\ UNCHANGED <<vars, trainedOn, reported, torn>>

\* Page 5's upload replaces the model but neither report nor download bytes.
UploadModel(s) ==
  /\ script[s] = "rest"
  /\ Put(s, [session[s] EXCEPT !.bundle = Uploaded])
  /\ Show(s, "elsewhere")
  /\ UNCHANGED <<vars, trainedOn, reported, torn>>

\* The user leaves a page, or touches a widget of it, while its script runs: the
\* script ends at its next access to the session's state.  submit() has none.
Cut(s) ==
  /\ s \in Impatient /\ script[s] # "rest"
  /\ script[s] = "submit" => submitter[local[s].job] \in {"submitted", "raised"}
  /\ torn' = [torn EXCEPT ![s] =
                CASE script[s] = "clearReport" -> "load"
                  [] script[s] = "report"      -> IF local[s].caller = "inline" THEN "inline" ELSE "poll"
                  [] OTHER                     -> @]
  /\ Show(s, "elsewhere")
  /\ UNCHANGED <<vars, session, trainedOn, reported>>

-----------------------------------------------------------------------------
ScriptStep(s) ==
  \/ SyncStart(s)
  \/ PollUnknown(s)
  \/ PollStatus(s)
  \/ PersistModel(s)
  \/ PersistReport(s)
  \/ PersistBytes(s)
  \/ PersistRaises(s)
  \/ PollOtherStatus(s)
  \/ TakeSnapshot(s)
  \/ ForgetJob(s)
  \/ SyncReadsRunning(s)
  \/ SyncReadsCompleted(s)
  \/ SyncReadsFailed(s)
  \/ Fragment(s)
  \/ FragmentReadsStatus(s)
  \/ PageContinues(s)
  \/ \E j \in Jobs : BeginTraining(s, j)
  \/ NoJobLeft(s)
  \/ SubmitJob(s)
  \/ TrackJob(s)
  \/ ClearOutcome(s)
  \/ SubmitRaises(s)
  \/ ClearBundle(s)
  \/ ClearReport(s)

UserStep(s) ==
  \/ VisitPage4(s)
  \/ \E how \in {"background", "inline"} : ClickTrain(s, how)
  \/ \E d \in Datasets : StoreDataset(s, d)
  \/ \E d \in Datasets : ApplyHygiene(s, d)
  \/ UploadModel(s)
  \/ Cut(s)

\* No page calls cancel() or reset(); an operator or a test may.
RunnerStep ==
  /\ \/ \E j \in Jobs : WorkerStep(j)
     \/ PickWork
     \/ "cancel" \in Operator /\ \E j \in Jobs : CancelStep(j)
     \/ "reset" \in Operator /\ Reset
  /\ UNCHANGED sessionVars

InitAll == Init /\ InitSession
NextAll == RunnerStep \/ \E s \in Sessions : ScriptStep(s) \/ FragmentTick(s) \/ UserStep(s)

\* A script that was started runs on to its end unless the user cuts it short,
\* and the browser's timer keeps firing; nothing obliges the user to anything.
SessionFairness ==
  \A s \in Sessions : WF_allVars(ScriptStep(s)) /\ WF_allVars(FragmentTick(s))

SessionSpec     == InitAll /\ [][NextAll]_allVars
FairSessionSpec == SessionSpec /\ Fairness /\ SessionFairness

-----------------------------------------------------------------------------
(* Properties *)

Artifacts == Jobs \cup {Uploaded, None}

\* Types of the session variables.
SessionTypeOK ==
  /\ session \in [Sessions -> [dataset   : Datasets \cup {None},
                              bundle    : Artifacts,
                              report    : Jobs \cup {None},
                              bytes     : Jobs \cup {None},
                              active    : Jobs \cup {None},
                              jobResult : Snapshot \cup {None}]]
  /\ script \in [Sessions -> {"rest", "sync", "poll", "apply", "report", "bytes", "read57", "snapshot",
                             "forget", "read93", "read99", "read102", "fragment", "read70", "returned",
                             "submit", "tracked", "clearBundle", "clearReport"}]
  /\ local  \in [Sessions -> [job    : Jobs \cup {None},
                              caller : {"sync", "fragment", "inline"},
                              phase  : {"idle", "completed", "failed"},
                              click  : {"none", "background", "inline"}]]
  /\ view   \in [Sessions -> {"elsewhere", "form", "running", "failure", "exception"}]
  /\ trainedOn \in [Jobs -> Datasets \cup {None}]
  /\ reported \subseteq Jobs
  /\ torn \in [Sessions -> {"none", "poll", "lost", "inline", "load"}]

\* poll_active_job() forgets a job only when the runner no longer knows it or
\* its final outcome is in the session; if it succeeded, its model, report and
\* download bytes are.  The status is read several times on the way there while
\* the worker and an operator's cancel() go on writing it.
ForgottenOnlyWithOutcome ==
  [][ \A s \in Sessions :
        session[s].active # None /\ session'[s].active = None =>
          LET j == session[s].active IN
            \/ j \notin KnownJobs
            \/ /\ session'[s].jobResult.job = j
               /\ session'[s].jobResult.status \in Terminal
               /\ session'[s].jobResult.status = "COMPLETED" =>
                    /\ session'[s].bundle = j
                    /\ session'[s].report = j
                    /\ session'[s].bytes = j ]_session

\* The report on page 4 and the model that pages 4, 5 and 8 use come from the
\* same training run, unless the user replaced the model by an uploaded one or
\* cut a script between the two writes.  A cut of the script that polls heals:
\* the job whose model is there is still tracked, so that the next poll brings
\* its report, unless the runner has forgotten the job by then.
ReportDescribesModel ==
  \A s \in Sessions :
    LET st == session[s] IN
      st.report # None /\ st.bundle \notin {st.report, Uploaded} =>
        \/ script[s] \in {"report", "clearReport"}
        \/ torn[s] \in {"inline", "load", "lost"}
        \/ torn[s] = "poll" /\ st.active = st.bundle

\* Two sessions share the runner and nothing else: no artifact of a training
\* run is ever seen by more than one session, nor is its job tracked twice.
SessionsAreIsolated ==
  \A s, t \in Sessions : s # t =>
    LET Held(u) == {session[u].active, session[u].report, session[u].bytes, session[u].bundle}
    IN  Held(s) \cap Held(t) \cap Jobs = {}

\* The "Training is running" page does not stay for ever: every training ends,
\* and the fragment on that page notices.
RunningPageEnds ==
  \A s \in Sessions : (script[s] = "rest" /\ view[s] = "running") ~> view[s] # "running"

\* A failed training is shown to the user before the session forgets the job:
\* when the page comes to rest with the failure recorded, it was displayed.
FailureIsShown ==
  \A s \in Sessions :
    LET r == session[s].jobResult IN
      script[s] = "rest" /\ r # None => (r.status = "FAILED" => r.job \in reported)

\* "Stay on this page or return shortly": with a user who stays, the job that a
\* click submitted is eventually resolved in the session.
StayingOnPageResolvesJob ==
  \A s \in Sessions : \A j \in Jobs :
    session[s].active = j ~> (session[s].active # j \/ view[s] # "form")
=============================================================================
