------------------------------- MODULE Tuning --------------------------------
(***************************************************************************)
(* Hyperparameter search over a registered model, and the adapters of the  *)
(* AutoML libraries.  A search is run trial by trial until it has made all *)
(* its trials or its time is up; a trial cross-validates the model with    *)
(* parameters from the search space registered under the model's name.     *)
(*                                                                         *)
(* Estimators are numerics: a trial scores, scores nothing (a part of the  *)
(* folds failed) or fails (all folds failed, or the constructor refused).  *)
(* With good data it scores if the model accepts the parameters.           *)
(***************************************************************************)
EXTENDS Integers, Sequences, FiniteSets, FiniteSetsExt, SequencesExt

CONSTANTS
  Searched,       \* models a caller asks for, pairs of a task and a name
  TrialCounts,    \* numbers of trials asked for
  TrialScores,    \* values of the scoring function
  MaxSearches     \* bound: searches in a row

ASSUME TuningAssumption ==
  TrialCounts \subseteq Nat /\ TrialScores \subseteq Nat /\ MaxSearches \in Nat

VARIABLES
  searches,       \* the searches made, the last one may be running
  preprocessors,  \* for each search and for the caller's own: who fitted it last
  automl          \* the last answer of an AutoML backend

tuningVars == <<searches, preprocessors, automl>>

-----------------------------------------------------------------------------
(* The registry of models and the search spaces.                             *)

BuiltinModels ==
  {"classification"} \X {"Logistic Regression", "Random Forest", "Gradient Boosting", "Hist Gradient Boosting",
                         "Extra Trees", "Decision Tree", "K-Nearest Neighbors"}
  \cup {"regression"} \X {"Linear Regression", "Ridge Regression", "ElasticNet", "Random Forest", "Extra Trees",
                          "Gradient Boosting", "Hist Gradient Boosting", "Decision Tree", "K-Nearest Neighbors"}

\* Registered if their libraries can be imported.
OptionalModels == {"classification", "regression"} \X {"XGBoost", "LightGBM", "CatBoost"}

\* Search spaces are registered by name, for both tasks.
SearchSpaces ==
  {m[2] : m \in BuiltinModels \cup OptionalModels} \ {"Linear Regression"}

Registered(model, installed) == model \in BuiltinModels \/ (installed /\ model \in OptionalModels)

\* The space of the decision tree has the criteria of a classifier.
Accepts(model) == model # <<"regression", "Decision Tree">>

-----------------------------------------------------------------------------
Now      == Len(searches)
Search   == searches[Now]
Running  == Now > 0 /\ Search.how = "running"
Caller   == 0      \* owner of the preprocessor callers hand over

\* A search may start when the last one is over; unknown models and models
\* without a space are refused.
StartSearch ==
  /\ Now < MaxSearches /\ ~ Running /\ automl.how = "none"
  /\ \E model \in Searched, asked \in TrialCounts, installed, good, own \in BOOLEAN :
       searches' = Append(searches,
         [model |-> model, asked |-> asked, good |-> good, own |-> own, trials |-> <<>>, best |-> 0,
          how |-> IF ~ Registered(model, installed) THEN "unknown"
                  ELSE IF model[2] \notin SearchSpaces THEN "refused" ELSE "running"])
  /\ UNCHANGED <<preprocessors, automl>>

NoValue == -1      \* a trial without a score
Failed  == -2      \* a trial that was given up

Outcomes ==
  IF ~ Accepts(Search.model) THEN {Failed}
  ELSE IF Search.good THEN TrialScores ELSE TrialScores \cup {NoValue, Failed}

RunTrial ==
  /\ Running /\ Len(Search.trials) < Search.asked
  /\ \E outcome \in Outcomes : searches' = [searches EXCEPT ![Now].trials = Append(@, outcome)]
  /\ UNCHANGED <<preprocessors, automl>>

Completed(trials) == {i \in DOMAIN trials : trials[i] >= 0}

\* Faulty variant: the last trial that scored.
BestTrial_Last(trials) == Max(Completed(trials))

\* Of the best trials the first.
BestTrial(trials) ==
  CHOOSE i \in Completed(trials) :
    \A j \in Completed(trials) : trials[i] > trials[j] \/ (trials[i] = trials[j] /\ i <= j)

\* Only a search without any trial is reported as one; when all trials failed,
\* the study has no best parameters and raises.  The best parameters are then
\* fitted on all the data, with the preprocessor itself.
Conclude ==
  /\ Running
  /\ LET trials == Search.trials
         owner  == IF Search.own THEN Now ELSE Caller
     IN /\ \E how \in IF trials = <<>> THEN {"no trials"}
                      ELSE IF Completed(trials) = {} THEN {"raised"}
                      ELSE IF Search.good THEN {"tuned"} ELSE {"tuned", "fit raised"} :
             searches' = [searches EXCEPT ![Now].how = how,
                                          ![Now].best = IF Completed(trials) = {} THEN 0 ELSE BestTrial(trials)]
        /\ preprocessors' = IF Completed(trials) = {} THEN preprocessors
                            ELSE [preprocessors EXCEPT ![owner] = Now]
  /\ UNCHANGED automl

-----------------------------------------------------------------------------
(* AutoML.  The libraries are external; what is the adapters' own is the     *)
(* refusal without a library and the table they make of the result.          *)

\* FLAML lists estimators, with the best one alone if it lists none.
FlamlBoard(estimators) == IF estimators = {} THEN {"best"} ELSE estimators

\* The adapters are explored apart from the searches, which they share nothing with.
Adapter(installed, raises, answer) ==
  /\ Now = 0 /\ automl.how = "none"
  /\ automl' = IF ~ installed THEN [how |-> "refused"] ELSE IF raises THEN [how |-> "raised"] ELSE answer
  /\ UNCHANGED <<searches, preprocessors>>

RunFlaml ==
  \E installed, raises \in BOOLEAN, estimators \in SUBSET {"lgbm", "rf"} :
    Adapter(installed, raises, [how |-> "flaml", board |-> FlamlBoard(estimators)])

\* PyCaret compares to one model or to a list of which the first is finalized.
RunPyCaret ==
  \E installed, raises \in BOOLEAN, compared \in {"list", "one"} :
    Adapter(installed, raises, [how |-> "pycaret", board |-> {IF compared = "list" THEN "first" ELSE "only"}])

TuningInit ==
  /\ searches = <<>>
  /\ preprocessors = [s \in 0 .. MaxSearches |-> Caller]
  /\ automl = [how |-> "none"]

\* Another caller, with another preprocessor.
NextCaller ==
  /\ ~ Running /\ (Now = MaxSearches \/ automl.how # "none")
  /\ searches' = <<>> /\ preprocessors' = [s \in 0 .. MaxSearches |-> Caller] /\ automl' = [how |-> "none"]

TuningNext == StartSearch \/ RunTrial \/ Conclude \/ RunFlaml \/ RunPyCaret \/ NextCaller

-----------------------------------------------------------------------------
\* Types of the searches.
TuningTypeOK ==
  /\ \A s \in DOMAIN searches :
       /\ searches[s].how \in {"unknown", "refused", "running", "no trials", "raised", "tuned", "fit raised"}
       /\ Range(searches[s].trials) \subseteq TrialScores \cup {NoValue, Failed}
  /\ preprocessors \in [0 .. MaxSearches -> 0 .. MaxSearches]

\* A search that returns has tried the parameters it returns and nothing better,
\* one that raises has tried nothing that scored; and a pipeline it returned
\* keeps the preprocessor it was fitted with unless the caller handed over the
\* same one again.
SearchesKeepTheirBest ==
  \A s \in DOMAIN searches :
    LET this == searches[s]
    IN /\ this.how = "tuned" =>
            /\ \A i \in DOMAIN this.trials : this.trials[i] <= this.trials[this.best]
            /\ this.own => preprocessors[s] = s
            /\ ~ this.own /\ preprocessors[Caller] # s => \E r \in DOMAIN searches : r > s /\ ~ searches[r].own
       /\ this.how = "raised" => \A i \in DOMAIN this.trials : this.trials[i] < 0

TuningSpec == TuningInit /\ [][TuningNext]_tuningVars
=============================================================================
