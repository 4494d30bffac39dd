------------------------- MODULE ExperimentTracking --------------------------
(***************************************************************************)
(* Trainings that report to MLflow.  MLflowTracker wraps one run: it sets  *)
(* the experiment, starts a run and ends it, and hides every failure of    *)
(* the tracking server from the training.  The experiment set last belongs *)
(* to the process, the run that is active to a thread; trainings over HTTP *)
(* run in threads of a pool, several at once, each naming its experiment.  *)
(***************************************************************************)
EXTENDS Integers, FiniteSets

CONSTANTS
  Trainings,     \* trainings that track
  ThreadOf,      \* the thread of the pool that makes a training
  WantedBy,      \* the experiment a training names
  NoRun

ASSUME TrackingAssumption ==
  DOMAIN ThreadOf = Trainings /\ DOMAIN WantedBy = Trainings /\ NoRun \notin Trainings

VARIABLES
  phase,         \* where a training's tracker is
  experiment,    \* the experiment set last in the process
  activeRun,     \* for each thread, the training whose run is active, or NoRun
  runs,          \* for each training its run: experiment and status, if it has one
  reported,      \* whether the training's card names its run
  faults,        \* history: trainings whose tracker met a fault of the server
  overtaken      \* history: another training set the experiment before the start

trackingVars == <<phase, experiment, activeRun, runs, reported, faults, overtaken>>

NoExperiment == "none"
Experiments  == {WantedBy[t] : t \in Trainings} \cup {NoExperiment}
Threads      == {ThreadOf[t] : t \in Trainings}
Absent       == [experiment |-> NoExperiment, status |-> "absent"]

Reach(t, where) == phase' = [phase EXCEPT ![t] = where]
Fault(t)        == faults' = faults \cup {t}

TrackingInit ==
  /\ phase = [t \in Trainings |-> "new"]
  /\ experiment = NoExperiment
  /\ activeRun = [h \in Threads |-> NoRun]
  /\ runs = [t \in Trainings |-> Absent]
  /\ reported = {} /\ faults = {} /\ overtaken = {}

\* A thread makes one training at a time.
SetExperiment(t) ==
  /\ phase[t] = "new"
  /\ \A u \in Trainings : ThreadOf[u] = ThreadOf[t] => phase[u] \in {"new", "over"}
  /\ \/ /\ experiment' = WantedBy[t]
        /\ overtaken' = overtaken \cup {u \in Trainings : phase[u] = "set"}
        /\ Reach(t, "set") /\ UNCHANGED faults
     \/ /\ Fault(t) /\ Reach(t, "disabled") /\ UNCHANGED <<experiment, overtaken>>
  /\ UNCHANGED <<activeRun, runs, reported>>

\* A run starts in the experiment of the process; the library refuses a second
\* one in the thread.
StartRun(t) ==
  /\ phase[t] = "set"
  /\ \/ /\ activeRun[ThreadOf[t]] = NoRun
        /\ activeRun' = [activeRun EXCEPT ![ThreadOf[t]] = t]
        /\ runs' = [runs EXCEPT ![t] = [experiment |-> experiment, status |-> "running"]]
        /\ Reach(t, "started") /\ UNCHANGED faults
     \/ /\ activeRun[ThreadOf[t]] # NoRun
        /\ Reach(t, "disabled") /\ UNCHANGED <<activeRun, runs, faults>>
     \/ /\ Fault(t) /\ Reach(t, "disabled") /\ UNCHANGED <<activeRun, runs>>
  /\ UNCHANGED <<experiment, reported, overtaken>>

\* Tags and the run's data are part of the set-up: if they fail, the tracker is
\* disabled though its run is active.
FinishSetup(t) ==
  /\ phase[t] = "started"
  /\ \/ Reach(t, "logging") /\ UNCHANGED faults
     \/ Fault(t) /\ Reach(t, "disabled")
  /\ UNCHANGED <<experiment, activeRun, runs, reported, overtaken>>

\* Parameters, metrics, the pipeline and the card are logged if they can be.
LogResults(t) ==
  /\ phase[t] \in {"logging", "disabled"}
  /\ Reach(t, IF phase[t] = "logging" THEN "logged" ELSE "idle")
  /\ reported' = IF phase[t] = "logging" THEN reported \cup {t} ELSE reported
  /\ UNCHANGED <<experiment, activeRun, runs, faults, overtaken>>

\* Faulty variant: the run of the thread stays active.
EndRun_Open(t) ==
  /\ phase[t] = "logged"
  /\ runs' = [runs EXCEPT ![t].status = "finished"]
  /\ Reach(t, "over")
  /\ UNCHANGED <<experiment, activeRun, reported, faults, overtaken>>

\* Leaving a tracker ends the active run, whatever comes of it on the server.
EndRun(t) ==
  /\ phase[t] = "logged"
  /\ activeRun' = [activeRun EXCEPT ![ThreadOf[t]] = NoRun]
  /\ \/ runs' = [runs EXCEPT ![t].status = "finished"] /\ UNCHANGED faults
     \/ Fault(t) /\ UNCHANGED runs
  /\ Reach(t, "over")
  /\ UNCHANGED <<experiment, reported, overtaken>>

\* Leaving a disabled tracker does nothing.
LeaveDisabled(t) ==
  /\ phase[t] = "idle" /\ Reach(t, "over")
  /\ UNCHANGED <<experiment, activeRun, runs, reported, faults, overtaken>>

TrackingNext ==
  \E t \in Trainings :
    SetExperiment(t) \/ StartRun(t) \/ FinishSetup(t) \/ LogResults(t) \/ EndRun(t) \/ LeaveDisabled(t)

-----------------------------------------------------------------------------
\* Types of the trackers and runs.
TrackingTypeOK ==
  /\ phase \in [Trainings -> {"new", "set", "started", "logging", "logged", "disabled", "idle", "over"}]
  /\ experiment \in Experiments
  /\ activeRun \in [Threads -> Trainings \cup {NoRun}]
  /\ runs \in [Trainings -> [experiment : Experiments, status : {"absent", "running", "finished"}]]
  /\ reported \subseteq Trainings /\ faults \subseteq Trainings /\ overtaken \subseteq Trainings

\* A run outlives its tracker only if the server failed that training, and a
\* training is left untracked only if the server failed it or an earlier one of
\* its thread, whose run is still active there.
LostRunsMeanFaults ==
  \A t \in Trainings : phase[t] = "over" =>
    /\ runs[t].status = "running" => t \in faults
    /\ t \notin reported => t \in faults \/ activeRun[ThreadOf[t]] \in faults \ {t}

\* A run is in the experiment its training named, unless another training set
\* its own between the two steps.
RunsMixOnlyWhenOvertaken ==
  \A t \in Trainings :
    runs[t].status # "absent" /\ runs[t].experiment # WantedBy[t] => t \in overtaken

\* What trackers promise each other: no lost runs, no mixed experiments.
TrackedRunsAreOwn == LostRunsMeanFaults /\ RunsMixOnlyWhenOvertaken

TrackingSpec == TrackingInit /\ [][TrackingNext]_trackingVars
=============================================================================
