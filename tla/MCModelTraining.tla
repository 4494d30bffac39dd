--------------------------- MODULE MCModelTraining ---------------------------
(* Three models give every order and tie of the metrics; the calls are       *)
(* interchangeable.                                                          *)
EXTENDS ModelTraining, TLC

TwoModels   == <<"Logistic Regression", "Random Forest">>
ThreeModels == Append(TwoModels, "Gradient Boosting")
Symmetry    == Permutations(Calls)
=============================================================================
