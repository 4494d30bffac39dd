---------------------------- MODULE ModelReports -----------------------------
(***************************************************************************)
(* What is said about a trained model: the metrics of the leaderboard and  *)
(* the reports beside them, the importance of its features, explanations   *)
(* of its predictions and the card and bundle it is stored with.  Each is  *)
(* one call that answers.                                                  *)
(*                                                                         *)
(* Test sets are a few rows with a label or a small number.  Metrics are   *)
(* pairs of a numerator and a denominator.                                 *)
(***************************************************************************)
EXTENDS Integers, Sequences, FiniteSets, FiniteSetsExt, Functions

CONSTANTS
  TestRows,        \* number of rows of a test set
  Labels,          \* classes
  Widths,          \* numbers of columns a preprocessor may make, numbers of names
  FrameNames       \* names of columns

ASSUME ReportsAssumption == TestRows \in Nat \ {0} /\ Widths \subseteq Nat \ {0}

VARIABLE about     \* the last answer

Nothing           == [of |-> "nothing"]
Tests             == 1 .. TestRows
Hits(truth, predicted) == {i \in Tests : truth[i] = predicted[i]}
SameRatio(a, b)   == a[1] * b[2] = b[1] * a[2]

-----------------------------------------------------------------------------
(* Metrics and reports.                                                      *)

AccuracyScore(truth, predicted) == <<Cardinality(Hits(truth, predicted)), TestRows>>

\* Faulty variant: a report with a class of its own for every prediction.
ReportLabels_Predicted(truth, predicted) == Range(predicted)

\* Classes of the confusion matrix: those of the test set.
ReportLabels(truth, predicted) == Range(truth)

\* Rows with a predicted class that is not among them are not counted.
Confusion(truth, predicted) ==
  LET classes == ReportLabels(truth, predicted)
      counted == {i \in Tests : truth[i] \in classes /\ predicted[i] \in classes}
      row(k)  == {i \in counted : truth[i] = k}
      column(k) == {i \in counted : predicted[i] = k}
  IN [samples  |-> Cardinality(counted),
      hits     |-> Cardinality(Hits(truth, predicted) \cap counted),
      recall   |-> [k \in classes |-> <<Cardinality(row(k) \cap column(k)), Cardinality(row(k))>>],
      precision |-> [k \in classes |-> <<Cardinality(row(k) \cap column(k)), Cardinality(column(k))>>]]

\* Probabilities come with one column per class the model was trained on; the
\* metrics made of them are left out if they do not fit the classes in the test.
WithProbabilities(truth, known) == Cardinality(Range(truth)) > 1 /\ Range(truth) = known

\* Calibration is reported for two columns.
Calibrated(known) == Cardinality(known) = 2

Classified ==
  \E truth, predicted \in [Tests -> Labels], known \in SUBSET Labels :
    /\ Range(predicted) \subseteq known
    /\ about' = [of |-> "classes", truth |-> truth, predicted |-> predicted,
                 accuracy |-> AccuracyScore(truth, predicted), confusion |-> Confusion(truth, predicted),
                 probabilities |-> WithProbabilities(truth, known), calibrated |-> Calibrated(known)]

Squares(f)   == SumFunctionOnSet([i \in Tests |-> f[i] * f[i]], Tests)
Total(f)     == SumFunctionOnSet(f, Tests)
Residuals(truth, predicted) == [i \in Tests |-> truth[i] - predicted[i]]

\* TestRows times the sum of squares around the mean.
Spread(truth) == TestRows * Squares(truth) - Total(truth) * Total(truth)

\* r2 of the leaderboard: the library calls a perfect prediction of a constant 1
\* and any other 0.
R2Score(truth, predicted) ==
  LET missed == Squares(Residuals(truth, predicted))
  IN IF Spread(truth) # 0 THEN <<Spread(truth) - TestRows * missed, Spread(truth)>>
     ELSE IF missed = 0 THEN <<1, 1>> ELSE <<0, 1>>

\* r2 of the report: a constant has a spread of 1.
R2Report(truth, predicted) ==
  LET missed == TestRows * Squares(Residuals(truth, predicted))
      spread == IF Spread(truth) = 0 THEN TestRows ELSE Spread(truth)
  IN <<spread - missed, spread>>

Regressed ==
  \E truth, predicted \in [Tests -> 0 .. 2] :
    about' = [of |-> "numbers", truth |-> truth, predicted |-> predicted,
              score |-> R2Score(truth, predicted), report |-> R2Report(truth, predicted)]

-----------------------------------------------------------------------------
(* Names of features, for importances and explanations.                      *)

Raises == 0      \* a source that has no names to give

\* The first source of names that has as many as there are columns; numbered
\* names if there is none.
FirstFitting(sources, width) ==
  LET fitting == {i \in DOMAIN sources : sources[i] = width}
  IN IF fitting = {} THEN width ELSE sources[Min(fitting)]

Sources(n) == [1 .. n -> Widths \cup {Raises}]

\* Importances come from the trees or the coefficients of a model, if any: asked
\* are the preprocessor (twice), the model and the columns of the dataset.
Importance ==
  \E kind \in {"trees", "coefficients", "neither"}, width \in Widths : \E sources \in Sources(4) :
    /\ sources[4] # Raises
    /\ about' = IF kind = "neither" THEN Nothing
                ELSE [of |-> "importance", values |-> width, names |-> FirstFitting(sources, width)]

\* The explainer is chosen by the model's class; one that cannot be made gives
\* way to the kernel explainer.
Strategies(family) == IF family = "other" THEN {"kernel"} ELSE {family, "kernel"}

\* Values come as a list of classes, a cube with the classes last, or a matrix.
\* The base values are one per class for a list, else one.
ShapForms == {"list", "cube", "matrix"}

\* Class the base value belongs to, and class whose values are ranked.
BaseOf(form, classes) == IF form = "list" THEN 0 .. classes - 1 ELSE {0}

ExplainByShap ==
  \E family \in {"tree", "linear", "other"}, empty, transforms \in BOOLEAN, width \in Widths, form \in ShapForms :
  \E sources \in Sources(2), strategy \in Strategies(family) :
    about' = IF empty \/ ~ transforms THEN [of |-> "refused"]
             ELSE [of |-> "shap", values |-> width, names |-> FirstFitting(sources, width), strategy |-> strategy,
                   ranked |-> 0, bases |-> BaseOf(form, 2)]

NoLabel == -1

\* LIME perturbs numbers only, and explains class 1 if it is not told another.
ExplainByLime ==
  \E numeric, knows \in BOOLEAN, asked \in {NoLabel, 0, 1}, mode \in {"classification", "regression"} :
    about' = IF ~ numeric \/ (mode = "classification" /\ ~ knows) THEN [of |-> "raised"]
             ELSE [of |-> "lime", label |-> IF mode = "regression" THEN NoLabel
                                            ELSE IF asked = NoLabel THEN 1 ELSE asked]

-----------------------------------------------------------------------------
(* Bundles.  A card is reduced to the features it lists.                     *)

\* The loader reads the card only: a bundle without one has an empty card,
\* though the bundle lists the features too.
CardOf(bundle) == IF bundle.carded THEN bundle.features ELSE {}

\* Files that are not bundles are refused: other places, too large, another
\* extension or other content.
LoadBundleFile ==
  \E features \in SUBSET FrameNames, carded, trusted, small, joblib, pickled \in BOOLEAN :
    LET bundle == [features |-> features, carded |-> carded]
    IN about' = IF ~ trusted \/ ~ small \/ ~ joblib \/ ~ pickled THEN [of |-> "refused"]
                ELSE [of |-> "bundle", bundle |-> bundle, card |-> CardOf(bundle)]

-----------------------------------------------------------------------------
(* Checks of data before a model is trained on it or predicts for it.        *)

\* What a table is refused for, whichever comes first; regression wants numbers.
TrainingDefects ==
  {"no table", "few rows", "one column", "too large", "names twice", "columns missing", "no target",
   "empty target", "constant target", "no features", "text for regression"}

CheckTrainingData ==
  \E defects \in SUBSET TrainingDefects :
    about' = IF defects # {} THEN [of |-> "refused"] ELSE [of |-> "accepted"]

\* A batch is cut down to the columns of the model; those it lacks are empty.
AlignBatch ==
  \E columns, expected \in SUBSET FrameNames :
    about' = IF expected = {} THEN [of |-> "refused"]
             ELSE [of |-> "aligned", filled |-> expected \cap columns, empty |-> expected \ columns]

-----------------------------------------------------------------------------
AboutInit == about = Nothing

\* The next call has nothing to do with this one.
NextAnswer == about # Nothing /\ about' = Nothing

AboutNext ==
  \/ /\ about = Nothing
     /\ \/ Classified \/ Regressed \/ Importance \/ ExplainByShap \/ ExplainByLime
        \/ LoadBundleFile \/ CheckTrainingData \/ AlignBatch
  \/ NextAnswer

-----------------------------------------------------------------------------
\* Types of the last answer.
AboutTypeOK ==
  about.of \in {"nothing", "classes", "numbers", "importance", "refused", "raised", "shap", "lime",
               "bundle", "accepted", "aligned"}

\* The accuracy of the confusion report is that of the leaderboard if no class
\* is predicted that the test set lacks, and never less; r2 of the regression
\* report is that of the leaderboard unless the target is constant.
ReportsAgreeWithMetrics ==
  /\ about.of = "classes" =>
       LET report == <<about.confusion.hits, about.confusion.samples>>
       IN /\ Range(about.predicted) \subseteq Range(about.truth) => SameRatio(report, about.accuracy)
          /\ report[1] * about.accuracy[2] >= about.accuracy[1] * report[2]
  /\ about.of = "numbers" =>
       SameRatio(about.score, about.report) \/ Cardinality(Range(about.truth)) = 1

AboutSpec == AboutInit /\ [][AboutNext]_about
=============================================================================
