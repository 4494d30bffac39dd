---------------------------- MODULE ModelTraining ----------------------------
(***************************************************************************)
(* Training of a leaderboard of models: train_models() of the original     *)
(* ("legacy") path and TrainingService.train() of the enterprise path.     *)
(* Calls run in threads of one process, those of the background runner and *)
(* those of the API.  A fitted pipeline refers to its estimator: the       *)
(* legacy path takes estimators from two module-level dictionaries, the    *)
(* enterprise path makes one per candidate.                                *)
(*                                                                         *)
(* Every call trains on data of its own, so an estimator's state is the    *)
(* call that fitted it.  Metrics are reduced to the primary one, which     *)
(* every successful candidate has.  Of an error only the text str(exc)     *)
(* counts: the training asks whether there is one, who stores its result   *)
(* whether it is empty (MemoryError(), a bare assert).                     *)
(***************************************************************************)
EXTENDS Integers, Sequences, FiniteSets, Functions

CONSTANTS Calls,       \* calls of train() or train_models(), each made once
          Registry,    \* sequence of the names of all models, in registry order
          Unknown,     \* a name that is not registered
          Scores       \* values of the primary metric

Models   == Range(Registry)
NoScore  == -1         \* float("-inf")
NoCall   == "none"     \* fitted by no call, or by several at once
Fitting  == "fitting"  \* one call is inside fit()
Engines  == {"legacy", "enterprise"}
Errors   == {"none", "empty", "text"}

ASSUME RegistryAssumption ==
  /\ Registry \in Seq(Models) /\ Models # {} /\ Unknown \notin Models
  /\ \A i, j \in DOMAIN Registry : Registry[i] = Registry[j] => i = j
ASSUME ScoresAssumption == Scores \subseteq Nat
ASSUME CallsAssumption  == {NoCall, Fitting, "module"} \cap Calls = {}

VARIABLES
  pc,          \* where a call is
  call,        \* its engine, candidates, leaderboard and best entry
  fitted,      \* the call whose data an estimator is fitted on
  rows         \* rows of the table ml_models

vars == <<pc, call, fitted, rows>>

Entry == [model : Models,
          score : Scores \cup {NoScore},
          error : Errors,
          cv    : BOOLEAN,                  \* it has cross-validation metrics
          by    : Calls \cup {NoCall}]      \* whose fit its metrics measure
NoBest == [model |-> Registry[1], score |-> NoScore, error |-> "text", cv |-> FALSE,
           by |-> NoCall]

InError(entry) == entry.error # "none"      \* error is not None
Marked(entry)  == entry.error = "text"      \* bool(error)

Owners     == Calls \cup {"module"}
Estimators == Owners \X Models

\* Faulty variant: the factory of a spec hands out one instance.
Estimator_Shared(c, m) == <<"module", m>>

\* CLASSIFIERS[m] or REGRESSORS[m] for one, spec.factory() for the other.
Estimator(c, m) == IF call[c].engine = "legacy" THEN <<"module", m>> ELSE <<c, m>>

Fresh(engine) ==
  [engine |-> engine, candidates |-> {}, left |-> {}, board |-> <<>>, best |-> NoBest]

Init ==
  /\ pc = [c \in Calls |-> "new"]
  /\ \E e \in [Calls -> Engines] : call = [c \in Calls |-> Fresh(e[c])]
  /\ fitted = [o \in Estimators |-> NoCall]
  /\ rows = {}

Goto(c, where) == pc' = [pc EXCEPT ![c] = where]

\* Candidates are positions of the registry, taken in its order.
Positions      == DOMAIN Registry
Matching(keep) == {i \in Positions : Registry[i] \in keep}

\* The candidate a call has come to, and its estimator.
Current(c) == Registry[CHOOSE i \in call[c].left : \A j \in call[c].left : i <= j]
Its(c)     == Estimator(c, Current(c))
InLoop(c)  == call[c].left # {}

Remaining(c) == {i \in call[c].left : Registry[i] # Current(c)}

-----------------------------------------------------------------------------
\* Nothing selected means everything; a selection that matches nothing means
\* everything to one engine and is an error to the other.
Select(c) ==
  /\ pc[c] = "new"
  /\ \E keep \in SUBSET (Models \cup {Unknown}) :
       IF keep # {} /\ Matching(keep) = {} /\ call[c].engine = "enterprise"
       THEN Goto(c, "raised") /\ UNCHANGED call
       ELSE LET chosen == IF Matching(keep) = {} THEN Positions ELSE Matching(keep)
            IN /\ call' = [call EXCEPT ![c].candidates = chosen, ![c].left = chosen]
               /\ Goto(c, "loop")
  /\ UNCHANGED <<fitted, rows>>

\* The calls inside fit() of the same estimator.
Rivals(c) == {d \in Calls \ {c} : pc[d] = "fit" /\ Its(d) = Its(c)}

\* fit() overwrites the estimator from its first statement on; two at a time
\* leave it in no state of either.
BeginFit(c) ==
  /\ pc[c] = "loop" /\ InLoop(c)
  /\ fitted' = [fitted EXCEPT ![Its(c)] = IF Rivals(c) = {} THEN Fitting ELSE NoCall]
  /\ Goto(c, "fit")
  /\ UNCHANGED <<call, rows>>

EndFit(c) ==
  /\ pc[c] = "fit"
  /\ fitted' = [fitted EXCEPT ![Its(c)] = IF @ = Fitting THEN c ELSE NoCall]
  /\ Goto(c, "evaluate")
  /\ UNCHANGED <<call, rows>>

Better(entry, best) == entry.score > best.score

\* The pipeline predicts the test rows with the estimator as it is by now.
Evaluate(c) ==
  /\ pc[c] = "evaluate"
  /\ \E s \in Scores :
       LET entry == [model |-> Current(c), score |-> s, error |-> "none", cv |-> FALSE,
                     by |-> IF fitted[Its(c)] \in Calls THEN fitted[Its(c)] ELSE NoCall]
       IN call' = [call EXCEPT
                     ![c].left  = Remaining(c),
                     ![c].board = Append(@, entry),
                     ![c].best  = IF Better(entry, @) THEN entry ELSE @]
  /\ Goto(c, "loop")
  /\ UNCHANGED <<fitted, rows>>

\* Faulty variant: the name of the model is lost with its fit.
FailedEntry_Unnamed(c, text) == [NoBest EXCEPT !.model = Unknown, !.error = text]

FailedEntry(c, text) == [NoBest EXCEPT !.model = Current(c), !.error = text]

\* fit(), predict() or a metric raises: an entry with an error, and on it goes.
CandidateFails(c) ==
  /\ pc[c] \in {"fit", "evaluate"}
  /\ fitted' = IF pc[c] = "fit" THEN [fitted EXCEPT ![Its(c)] = NoCall] ELSE fitted
  /\ \E text \in Errors \ {"none"} :
       call' = [call EXCEPT ![c].left  = Remaining(c),
                            ![c].board = Append(@, FailedEntry(c, text))]
  /\ Goto(c, "loop")
  /\ UNCHANGED rows

\* The orders in which a leaderboard may be sorted by the primary metric, best
\* first and failures last: list.sort() is stable, pandas' quicksort is not.
Precedes(c, i, j) ==
  LET board == call[c].board
  IN \/ board[i].score > board[j].score
     \/ board[i].score = board[j].score /\ (call[c].engine = "enterprise" => i <= j)
Rankings(c) ==
  LET places == DOMAIN call[c].board
  IN {order \in Bijection(places, places) :
        \A k, l \in places : k < l => Precedes(c, order[k], order[l])}
Ranked(c, order) == [k \in DOMAIN call[c].board |-> call[c].board[order[k]]]

\* The loop is over.  The winner is cross-validated, on clones, if asked for
\* and if that works; the leaderboard keeps the entry it had before.
Rank(c) ==
  /\ pc[c] = "loop" /\ ~InLoop(c)
  /\ call[c].best # NoBest
  /\ \E cv \in BOOLEAN, order \in Rankings(c) :
       call' = [call EXCEPT ![c].board = Ranked(c, order), ![c].best.cv = cv]
  /\ Goto(c, "report")
  /\ UNCHANGED <<fitted, rows>>

NothingTrained(c) ==
  /\ pc[c] = "loop" /\ ~InLoop(c)
  /\ call[c].best = NoBest
  /\ Goto(c, "raised")
  /\ UNCHANGED <<call, fitted, rows>>

\* The estimator in the pipeline a call returns.
Winner(c) == Estimator(c, call[c].best.model)

\* Test predictions of the winner, confusion matrix or residuals, model card.
Report(c) ==
  /\ pc[c] = "report"
  /\ Goto(c, "done")
  /\ UNCHANGED <<call, fitted, rows>>

\* The winner was fitted on other columns in the meantime.
ReportRaises(c) ==
  /\ pc[c] = "report"
  /\ fitted[Winner(c)] # c
  /\ Goto(c, "raised")
  /\ UNCHANGED <<call, fitted, rows>>

\* persist_training_result(): one transaction, all or nothing.
RowOf(c, e) == [call |-> c, model |-> e.model, score |-> e.score, by |-> e.by,
                champion |-> e.model = call[c].best.model]
Stored(c) == {e \in Range(call[c].board) : ~Marked(e)}

\* Faulty variant: entries with an error are stored as well.
Store_WithFailed(c) ==
  /\ pc[c] = "done" /\ call[c].engine = "enterprise"
  /\ rows' = rows \cup {RowOf(c, e) : e \in Range(call[c].board)}
  /\ Goto(c, "stored")
  /\ UNCHANGED <<call, fitted>>

Store(c) ==
  /\ pc[c] = "done" /\ call[c].engine = "enterprise"
  /\ rows' = rows \cup {RowOf(c, e) : e \in Stored(c)}
  /\ Goto(c, "stored")
  /\ UNCHANGED <<call, fitted>>

-----------------------------------------------------------------------------
Next ==
  \E c \in Calls :
    \/ Select(c)
    \/ BeginFit(c)
    \/ EndFit(c)
    \/ Evaluate(c)
    \/ CandidateFails(c)
    \/ Rank(c)
    \/ NothingTrained(c)
    \/ Report(c)
    \/ ReportRaises(c)
    \/ Store(c)

Spec == Init /\ [][Next]_vars

-----------------------------------------------------------------------------
(* Properties *)

Row  == [call     : Calls,
         model    : Models,
         score    : Scores \cup {NoScore},
         by       : Calls \cup {NoCall},
         champion : BOOLEAN]
Call == [engine     : Engines,
         candidates : SUBSET Positions,
         left       : SUBSET Positions,
         board      : Seq(Entry),
         best       : Entry]

\* Types of the variables.
TypeOK ==
  /\ pc \in [Calls -> {"new", "loop", "fit", "evaluate", "report", "done", "raised", "stored"}]
  /\ call \in [Calls -> Call]
  /\ fitted \in [Estimators -> Calls \cup {NoCall, Fitting}]
  /\ rows \subseteq Row

Returned == {c \in Calls : pc[c] \in {"report", "done", "stored"}}

\* The loop's running maximum and the sort agree, also when candidates tie: the
\* best entry is the first of the leaderboard, or with the unstable sort one of
\* those that share the first place.
BestHeadsLeaderboard ==
  \A c \in Returned :
    LET best == [call[c].best EXCEPT !.cv = FALSE]
        board == call[c].board
    IN /\ best \in Range(board) /\ board[1].score = best.score
       /\ call[c].engine = "enterprise" => board[1] = best

\* Every candidate has exactly one entry, the failed ones behind the others,
\* and a training has a result as soon as one candidate could be trained.
LeaderboardIsComplete ==
  \A c \in Returned :
    LET board == call[c].board IN
      /\ {Registry[i] : i \in call[c].candidates} = {e.model : e \in Range(board)}
      /\ \A i, j \in DOMAIN board : board[i].model = board[j].model => i = j
      /\ \A i, j \in DOMAIN board : i < j /\ InError(board[i]) => InError(board[j])
      /\ ~InError(call[c].best)

\* With the enterprise engine every metric measures the call's own fit, and the
\* pipeline it returns stays fitted on the call's data whatever other calls do.
EnterpriseFitsAreOwn ==
  \A c \in Calls : call[c].engine = "enterprise" =>
    /\ \A e \in Range(call[c].board) : InError(e) \/ e.by = c
    /\ c \in Returned => fitted[Winner(c)] = c

\* What is stored of a training: one champion, which no other row beats, and
\* no row without metrics but those of candidates that failed without a word.
StoredChampionIsBest ==
  \A c \in Calls : pc[c] = "stored" =>
    LET stored == {row \in rows : row.call = c} IN
      /\ \A row \in stored : row.score = NoScore =>
           \E e \in Range(call[c].board) : e.model = row.model /\ e.error = "empty"
      /\ \E champion \in stored :
           /\ champion.score # NoScore
           /\ \A row \in stored : /\ row.champion <=> row = champion
                                 /\ row.score <= champion.score

\* "Persisted trained model": a row of ml_models stands for a candidate that
\* could be trained.
StoredModelsAreTrained ==
  \A row \in rows : \E e \in Range(call[row.call].board) :
    e.model = row.model /\ ~InError(e)

\* "train candidate models, return the best pipeline and a structured report":
\* the pipeline train_models() has returned is the one its report describes.
LegacyPipelineIsOwn ==
  \A c \in Calls : pc[c] = "done" /\ call[c].engine = "legacy" => fitted[Winner(c)] = c
=============================================================================
