----------------------------- MODULE MCLearning -----------------------------
(* The parts of iad/ml meet only in the frames and models they hand on, so   *)
(* each behaviour explores one of them and their state spaces add up.        *)
EXTENDS MCModelTraining, Analytics, Preprocessing, DataQuality, Tuning, ModelReports

CONSTANT MaxCandidates   \* models fitted by all trainings together

VARIABLE part

learningVars == <<part, vars, analysis, pipelineVars, quality, tuningVars, about>>

Subjects == {"training", "analytics", "preprocessing", "quality", "tuning", "reports"}

LearningInit ==
  /\ part \in Subjects
  /\ Init /\ AnalyticsInit /\ PipelineInit /\ QualityInit /\ TuningInit /\ AboutInit
  /\ part # "training" => \A c \in Calls : call[c] = Fresh("enterprise")

TrainingStep ==
  /\ part = "training" /\ Next
  /\ Cardinality(UNION {{c} \X call'[c].candidates : c \in Calls}) <= MaxCandidates
  /\ UNCHANGED <<part, analysis, pipelineVars, quality, tuningVars, about>>

AnalyticsStep ==
  /\ part = "analytics" /\ AnalyticsNext
  /\ UNCHANGED <<part, vars, pipelineVars, quality, tuningVars, about>>

PreprocessingStep ==
  /\ part = "preprocessing" /\ PipelineNext
  /\ UNCHANGED <<part, vars, analysis, quality, tuningVars, about>>

QualityStep ==
  /\ part = "quality" /\ QualityNext
  /\ UNCHANGED <<part, vars, analysis, pipelineVars, tuningVars, about>>

TuningStep ==
  /\ part = "tuning" /\ TuningNext
  /\ UNCHANGED <<part, vars, analysis, pipelineVars, quality, about>>

ReportsStep ==
  /\ part = "reports" /\ AboutNext
  /\ UNCHANGED <<part, vars, analysis, pipelineVars, quality, tuningVars>>

LearningNext ==
  \/ TrainingStep \/ AnalyticsStep \/ PreprocessingStep
  \/ QualityStep \/ TuningStep \/ ReportsStep

LearningSpec == LearningInit /\ [][LearningNext]_learningVars

\* Types of the variables of every part.
LearningTypeOK ==
  /\ TypeOK /\ AnalyticsTypeOK /\ PipelineTypeOK
  /\ QualityTypeOK /\ TuningTypeOK /\ AboutTypeOK

\* A tree for each task, a model without a search space and an optional one.
MCSearched == {<<"classification", "Decision Tree">>, <<"regression", "Decision Tree">>,
               <<"regression", "Linear Regression">>, <<"regression", "XGBoost">>}

\* Two numeric columns, a date, a column of few and one of many categories; a
\* step that learns from the target, steps that drop columns, and an order that
\* matters.
MCInput     == <<"n1", "n2", "d", "c", "w">>
MCKind      == [c \in {"n1", "n2", "d", "c", "w"} |->
                  CASE c = "d" -> "datetime" [] c = "c" -> "category" [] c = "w" -> "wide"
                    [] OTHER -> "numeric"]
MCPlans     == {<<>>,
                <<"skewness", "multicollinearity", "datetime_features">>,
                <<"datetime_features", "target_encoding">>,
                <<"feature_selection", "target_encoding">>}
MCProtected == {<<"raw", "n1">>}
=============================================================================
