------------------------------ MODULE MCBrowser ------------------------------
(* What browsers see: sessions that share the pool of training threads, the  *)
(* pages of one session, and exports.  The three share no state in these     *)
(* models, so each behaviour explores one of them and their state spaces add *)
(* up.  Job ids and sessions are interchangeable.                            *)
EXTENDS TrainingSession, Dashboard, ExportReport, TLC

VARIABLE place

browserVars == <<place, allVars, dashboardVars, exportVars>>

BrowserInit ==
  /\ place \in {"sessions", "pages", "exports"}
  /\ InitAll /\ DashboardInit /\ ExportInit
  /\ place # "exports" => renders = FALSE

SessionsStep ==
  /\ place = "sessions" /\ NextAll
  /\ UNCHANGED <<place, dashboardVars, exportVars>>

PagesStep ==
  /\ place = "pages" /\ DashboardNext
  /\ UNCHANGED <<place, allVars, exportVars>>

ExportsStep ==
  /\ place = "exports" /\ ExportNext
  /\ UNCHANGED <<place, allVars, dashboardVars>>

BrowserNext == SessionsStep \/ PagesStep \/ ExportsStep

BrowserSpec == BrowserInit /\ [][BrowserNext]_browserVars

\* Types of the variables of every part.
BrowserTypeOK == TypeOK /\ SessionTypeOK /\ DashboardTypeOK /\ ExportTypeOK

Symmetry == Permutations(Jobs) \cup Permutations(Sessions)

\* A sample, fetched from the network, of two numbers, one of which parses as a
\* date; a file in Latin-1 and with semicolons; and a file of the same name and
\* size, of one row with a text that parses as a date.
MCSourceContent ==
  [s \in {"housing", "f1", "f2"} |->
     IF s = "f2" THEN [kinds |-> [a |-> "when", b |-> "text", c |-> "int"], rows |-> {0}]
     ELSE [kinds |-> [a |-> "int", b |-> "epoch"], rows |-> {0, 1}]]
MCSuggestedTarget == [s \in {"housing"} |-> "b"]
MCFileFormat ==
  [f \in {"f1", "f2"} |->
     [extension |-> IF f = "f2" THEN ".xlsx" ELSE ".csv",
      separator |-> IF f = "f2" THEN "comma" ELSE "semicolon",
      latin     |-> f = "f1", damaged |-> FALSE]]
MCUploadSignature == [f \in {"f1", "f2"} |-> "same"]
MCHygieneForms    == {[parse |-> {"b"}, drop |-> {"a"}]}
MCSelections ==
  {[target |-> "b", task |-> "classification", features |-> {"a"}],
   [target |-> "a", task |-> "regression", features |-> {"b"}],
   [target |-> "a", task |-> "regression", features |-> {}]}
MCCards           == {[features |-> {"a"}, task |-> "regression", target |-> "b"]}

\* An export without charts, and one with a column too many for them.
MCChartColumns == {<<>>, <<"a", "b", "c", "d">>}
=============================================================================
