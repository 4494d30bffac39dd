------------------------------ MODULE MCServices ------------------------------
(* The services of the API process share no state in these models, so each   *)
(* behaviour explores one of them and their state spaces add up.             *)
EXTENDS ApiRequests, Accounts, TrainingApi, ExperimentTracking

VARIABLE which

servicesVars == <<which, apiVars, accountVars, trainingVars, trackingVars>>

Components == {"limiter", "requests", "accounts", "training", "tracking"}

ServicesInit ==
  /\ which \in Components
  /\ ApiInit /\ AccountInit /\ TrainingInit /\ TrackingInit
  /\ which # "accounts" => accounts = {}
  /\ which # "training" => \A r \in TrainRequests : ~ run[r].save /\ ~ run[r].persist

LimiterStep ==
  /\ which = "limiter" /\ LimiterNext
  /\ UNCHANGED <<which, stage, outcome, connections, audited, observed,
                 accountVars, trainingVars, trackingVars>>

RequestStep ==
  /\ which = "requests" /\ ApiNext
  /\ UNCHANGED <<which, accountVars, trainingVars, trackingVars>>

AccountsStep ==
  /\ which = "accounts" /\ AccountNext
  /\ UNCHANGED <<which, apiVars, trainingVars, trackingVars>>

TrainingStep ==
  /\ which = "training" /\ TrainingNext
  /\ UNCHANGED <<which, apiVars, accountVars, trackingVars>>

TrackingStep ==
  /\ which = "tracking" /\ TrackingNext
  /\ UNCHANGED <<which, apiVars, accountVars, trainingVars>>

ServicesNext ==
  LimiterStep \/ RequestStep \/ AccountsStep \/ TrainingStep \/ TrackingStep

ServicesFairness ==
  \A r \in Requests : WF_servicesVars(RequestStep /\ stage[r] # "new" /\ Serve(r))

ServicesSpec == ServicesInit /\ [][ServicesNext]_servicesVars /\ ServicesFairness

\* Types of the variables of every component.
ServicesTypeOK ==
  ApiTypeOK /\ AccountTypeOK /\ TrainingTypeOK /\ TrackingTypeOK

\* One client sends a prediction of two rows, one of one row and a plain read.
MCClientOf == [r \in Requests |-> "k1"]
MCWrites   == [r \in Requests |-> CASE r = "r1" -> 2 [] r = "r2" -> 1 [] OTHER -> 0]

\* Two trainings of one thread, with an experiment each, and one of another.
MCThreadOf == [t \in Trainings |-> IF t = "t3" THEN "h2" ELSE "h1"]
MCWantedBy == [t \in Trainings |-> IF t = "t1" THEN "e1" ELSE "e2"]
=============================================================================
