---------------------------- MODULE Preprocessing ----------------------------
(***************************************************************************)
(* The preprocessing pipeline of the enterprise path: a builder collects   *)
(* steps, the steps are fitted on the training frame one after the other,  *)
(* and the fitted pipeline is given other frames when the model predicts.  *)
(* Steps add, drop and pick columns, and some of them remember the columns *)
(* they were fitted on, so what is modelled is which columns a frame has   *)
(* between two steps.  What depends on values - which columns are skewed,  *)
(* which two are alike, which matter to the target - is chosen freely with *)
(* the training frame.  Cells are finite: infinite ones make a fit fail,   *)
(* and a prediction.                                                       *)
(*                                                                         *)
(* The target encoder is also modelled on values: its training encoding    *)
(* must not look at the row's own target.                                  *)
(***************************************************************************)
EXTENDS Integers, Sequences, FiniteSets, SequencesExt, FiniteSetsExt, Functions

CONSTANTS
  InputColumns,   \* columns of the training frame, in order
  KindOf,         \* "numeric", "datetime", "category", or "wide": > 30 categories
  Parts,          \* what is extracted from a date
  Plans,          \* sequences of steps a caller of the builder may ask for
  Protected,      \* columns a caller protects from the correlation filter
  EncoderRows,    \* number of rows of a training frame for the target encoder
  EncoderFolds,   \* number of folds
  Smoothing,
  AlikePairs      \* bound: pairs of columns that are alike

\* The steps in the order of the automatic plan.
StepOrder == <<"datetime_features", "rare_category", "skewness", "target_encoding", "multicollinearity",
               "feature_selection", "column_transformer">>
Steps     == Range(StepOrder)

\* A frame has no two columns of a name, a pipeline no two steps of one.
ASSUME PreprocessingAssumption ==
  /\ InputColumns \in Seq(Range(InputColumns)) /\ IsInjective(InputColumns)
  /\ KindOf \in [Range(InputColumns) -> {"numeric", "datetime", "category", "wide"}]
  /\ IsFiniteSet(Parts) /\ Parts \cap {"raw", "encoded", "failed"} = {}
  /\ \A asked \in Plans : asked \in Seq(Steps \ {"column_transformer"}) /\ IsInjective(asked)
  /\ EncoderRows \in Nat /\ EncoderFolds \in Nat \ {0, 1} /\ Smoothing \in Nat /\ AlikePairs \in Nat

VARIABLES
  plan,         \* the steps, in order
  stepColumns,  \* the categories whose rare values are grouped, and those encoded
  traits,       \* what the steps find in the values of the training frame
  pipeline,     \* what the steps remember
  batch,        \* columns of the last frame to predict for
  frozen,       \* its columns of dtype "category" that a step cannot write to
  served,       \* columns the model was given for it
  coded         \* the last column the target encoder encoded: cells, targets, folds, codes

pipelineVars == <<plan, stepColumns, traits, pipeline, batch, frozen, served, coded>>

Raw(c)        == <<"raw", c>>
PartOf(c, p)  == <<p, c>>
Encoded(c)    == <<"encoded", c>>
Kind(col)     == IF col[1] = "raw" THEN KindOf[col[2]] ELSE "numeric"
IsNumeric(col)  == Kind(col) = "numeric"
IsDate(col)     == Kind(col) = "datetime"
IsCategory(col) == Kind(col) \in {"category", "wide"}

TrainingFrame == [i \in DOMAIN InputColumns |-> Raw(InputColumns[i])]

\* Columns that may come up in any step.
AllColumns == Range(TrainingFrame) \cup {PartOf(c, p) : c \in Range(InputColumns), p \in Parts}
              \cup {Encoded(c) : c \in Range(InputColumns)}
Numbers    == {c \in AllColumns : IsNumeric(c)}

\* The columns that are kept, in order.
Only(cols, kept) ==
  LET picked[i \in 0 .. Len(cols)] ==
        IF i = 0 THEN <<>>
        ELSE IF cols[i] \in kept THEN Append(picked[i - 1], cols[i]) ELSE picked[i - 1]
  IN picked[Len(cols)]

Without(cols, gone) == Only(cols, Range(cols) \ gone)
Lacks(cols, wanted) == ~ wanted \subseteq Range(cols)
FailedFit           == <<<<"failed", "fit">>>>
NotEncoded          == [x |-> <<>>]
NotFitted           == [memory |-> <<>>]
FitFailure          == [memory |-> <<>>, output |-> FailedFit]
NoColumns           == [group |-> {}, encode |-> {}]

-----------------------------------------------------------------------------
(* The transformers: what they remember and what they make of a frame.       *)

DatePartsOf(dates) == SetToSeq({PartOf(d[2], p) : d \in dates, p \in Parts})

\* Faulty variant: a missing date has no parts.
ExtractDates_Strict(dates, cols) ==
  Without(cols, dates) \o DatePartsOf(dates \cap Range(cols))

\* A missing date gets missing parts; the dates themselves go.
ExtractDates(dates, cols) == Without(cols, dates) \o DatePartsOf(dates)

\* The transformer of the skewed columns wants all of them or none.
CorrectSkewness(skewed, cols) ==
  IF Range(cols) \cap skewed = {} \/ ~ Lacks(cols, skewed) THEN cols ELSE FailedFit

\* An encoder that has no columns does not know that it was fitted.
EncodeTargets(encoded, cols) ==
  IF encoded = {} THEN FailedFit
  ELSE cols \o SetToSeq({Encoded(c[2]) : c \in encoded})

\* Faulty variant: the first of a pair is dropped, whatever became of the second.
Redundant_First(numbers, alike, protected) ==
  {c \in Range(numbers) : \E d \in Range(numbers) : {c, d} \in alike} \ protected

\* Columns are visited in order.  One that is like an earlier column, which is
\* neither protected nor dropped itself, is dropped.
Redundant(numbers, alike, protected) ==
  LET dropped[i \in 0 .. Len(numbers)] ==
        IF i = 0 THEN {}
        ELSE LET c == numbers[i]
                 earlier == {numbers[j] : j \in 1 .. i - 1} \ (dropped[i - 1] \cup protected)
             IN IF c \notin protected /\ \E d \in earlier : {c, d} \in alike
                THEN dropped[i - 1] \cup {c} ELSE dropped[i - 1]
  IN dropped[Len(numbers)]

NumbersOf(cols) == Only(cols, {c \in Range(cols) : IsNumeric(c)})

\* Columns that vary and are not redundant.
Apart(cols, t) ==
  LET varying == Without(cols, t.constant)
  IN Without(varying, Redundant(NumbersOf(varying), t.alike, {}))

\* Of those the ones that matter; if none varies, none.
Selected(cols, t) ==
  LET apart  == Apart(cols, t)
      ranked == Only(apart, t.important)
  IN IF apart = <<>> \/ ranked # <<>> THEN Range(ranked) ELSE {apart[1]}

\* The column transformer wants the columns it found when it was fitted.
Given(memory, cols) == IF Lacks(cols, memory) THEN FailedFit ELSE SetToSeq(memory)

-----------------------------------------------------------------------------
(* The builder.                                                              *)

CategoryColumns == {c \in Range(TrainingFrame) : IsCategory(c)}
Wide            == {c \in CategoryColumns : Kind(c) = "wide"}

\* With a target the automatic plan encodes the wide categories and groups the
\* rare values of the others.
AutoColumns(supervised) ==
  LET encode == IF supervised THEN Wide ELSE {}
  IN [group |-> CategoryColumns \ encode, encode |-> encode]

HasWork(step, supervised, selecting) ==
  CASE step = "datetime_features"  -> \E c \in Range(TrainingFrame) : IsDate(c)
    [] step = "rare_category"      -> AutoColumns(supervised).group # {}
    [] step = "target_encoding"    -> AutoColumns(supervised).encode # {}
    [] step = "feature_selection"  -> selecting
    [] step = "column_transformer" -> TRUE
    [] OTHER                       -> \E c \in Range(TrainingFrame) : IsNumeric(c)

\* The automatic plan: each step if there is something for it to do.
AutoPlan(supervised, selecting) == Only(StepOrder, {step \in Steps : HasWork(step, supervised, selecting)})

\* A caller's plan: the steps it asked for in its order, then the column
\* transformer unless it was switched off; a pipeline without steps is refused.
BuiltPlan(asked, transformer) == asked \o IF transformer THEN <<"column_transformer">> ELSE <<>>

\* It may give a step its columns; without them the step takes every category.
ColumnsGiven(asked) ==
  LET some(step) == IF step \in Range(asked) THEN SUBSET CategoryColumns ELSE {{}}
  IN [group : some("rare_category"), encode : some("target_encoding")]

Build ==
  /\ plan = <<>> /\ coded = NotEncoded
  /\ \/ \E supervised, selecting \in BOOLEAN :
          /\ plan' = AutoPlan(supervised, selecting)
          /\ stepColumns' = AutoColumns(supervised)
     \/ \E asked \in Plans, transformer \in BOOLEAN :
          /\ BuiltPlan(asked, transformer) # <<>>
          /\ plan' = BuiltPlan(asked, transformer)
          /\ stepColumns' \in ColumnsGiven(asked)
  /\ UNCHANGED <<traits, pipeline, batch, frozen, served, coded>>

-----------------------------------------------------------------------------
(* Fitting.                                                                  *)

\* What a step remembers of the columns it is fitted on.
Memory(step, cols, t) ==
  CASE step = "datetime_features" -> {c \in Range(cols) : IsDate(c)}
    [] step = "rare_category"     -> Range(cols) \cap t.group
    [] step = "skewness"          -> {c \in Range(cols) : IsNumeric(c) /\ c \in t.skewed}
    [] step = "target_encoding"   -> Range(cols) \cap t.encode
    [] step = "multicollinearity" -> Redundant(NumbersOf(cols), t.alike, t.protected)
    [] step = "feature_selection" -> Selected(cols, t)
    [] OTHER                      -> {c \in Range(cols) : IsNumeric(c) \/ IsCategory(c)}

\* What a fitted step makes of a frame it can write to.
Transformed(step, memory, cols) ==
  IF cols = FailedFit THEN FailedFit
  ELSE CASE step = "datetime_features" -> ExtractDates(memory, cols)
         [] step = "rare_category"     -> cols
         [] step = "skewness"          -> CorrectSkewness(memory, cols)
         [] step = "target_encoding"   -> EncodeTargets(memory, cols)
         [] step = "multicollinearity" -> Without(cols, memory)
         [] step = "feature_selection" -> Only(cols, memory)
         [] OTHER                      -> Given(memory, cols)

\* While fitting, an encoder without columns hands the frame on.
FittedFrame(step, memory, cols) ==
  IF step = "target_encoding" /\ memory = {} THEN cols ELSE Transformed(step, memory, cols)

\* The frames between the steps, and what each step remembers.
FitSteps(steps, t) ==
  LET frame[i \in 0 .. Len(steps)] ==
        IF i = 0 THEN TrainingFrame
        ELSE FittedFrame(steps[i], Memory(steps[i], frame[i - 1], t), frame[i - 1])
  IN [memory |-> [i \in DOMAIN steps |-> Memory(steps[i], frame[i - 1], t)],
      output |-> frame[Len(steps)],
      numbers |-> [i \in DOMAIN steps |-> Range(NumbersOf(frame[i - 1]))],
      apart |-> [i \in DOMAIN steps |-> Range(Apart(frame[i - 1], t))]]

\* Columns are ranked by a forest, which cannot take dates among other columns.
RankingFails(steps, fitted, t) ==
  \E i \in DOMAIN steps :
    /\ steps[i] = "feature_selection" /\ t.ranking
    /\ \E c, d \in fitted.apart[i] : IsDate(c) /\ ~ IsDate(d)

\* The steps that may refuse the training frame: a rare value or a code cannot
\* be written to a column of dtype "category", a target is missing or not a
\* number, a cell is infinite.
Fallible == Steps \ {"datetime_features", "multicollinearity"}

\* What a plan may find in the values: the columns that exist once all steps are
\* done, and at most AlikePairs pairs of numeric ones that are alike.
FoundIn(steps, given) ==
  LET uses(s) == s \in Range(steps)
      dates   == {c \in Range(InputColumns) : KindOf[c] = "datetime"}
      present == Range(TrainingFrame) \cup {PartOf(c, p) : c \in dates, p \in Parts}
                 \cup {Encoded(c[2]) : c \in given.encode}
      numbers == {c \in present : IsNumeric(c)}
      pairs   == {pair \in SUBSET numbers : Cardinality(pair) = 2}
      some(on, values, none) == IF on THEN values ELSE {none}
  IN [group     : {given.group},
      encode    : {given.encode},
      protected : some(uses("multicollinearity"), {{}, Protected}, {}),
      skewed    : some(uses("skewness"), SUBSET (numbers \cap Range(TrainingFrame)), {}),
      alike     : some(uses("multicollinearity") \/ uses("feature_selection"),
                       {s \in SUBSET pairs : Cardinality(s) <= AlikePairs}, {}),
      constant  : some(uses("feature_selection"), {{}} \cup {{c} : c \in numbers}, {}),
      ranking   : some(uses("feature_selection"), BOOLEAN, FALSE),
      important : some(uses("feature_selection"), {present} \cup {present \ {c} : c \in present}, present)]

FitPipeline ==
  /\ plan # <<>> /\ pipeline = NotFitted
  /\ \/ /\ traits' \in FoundIn(plan, stepColumns)
        /\ pipeline' = FitSteps(plan, traits')
        /\ ~ RankingFails(plan, pipeline', traits')
     \/ /\ Range(plan) \cap Fallible # {}
        /\ pipeline' = FitFailure /\ UNCHANGED traits
  /\ UNCHANGED <<plan, stepColumns, batch, frozen, served, coded>>

\* A frame that lacks columns, in another order, or has more of them: the
\* steps go by name.
Frames == {Only(TrainingFrame, kept) : kept \in SUBSET Range(TrainingFrame)}

Serving(cols) ==
  LET frame[i \in 0 .. Len(plan)] ==
        IF i = 0 THEN cols ELSE Transformed(plan[i], pipeline.memory[i], frame[i - 1])
  IN frame[Len(plan)]

\* Rare values are replaced and categories mapped to codes, and a column of
\* dtype "category" takes no value that is not one of its categories.  A column a
\* step remembers is still there when the step is reached.
CannotWrite(stuck) ==
  \E i \in DOMAIN plan :
    plan[i] \in {"rare_category", "target_encoding"} /\ pipeline.memory[i] \cap stuck # {}

Rewritten == stepColumns.group \cup stepColumns.encode

Serve ==
  /\ pipeline \notin {NotFitted, FitFailure} /\ batch = <<>>
  /\ \E cols \in Frames \ {<<>>} : \E stuck \in SUBSET (Rewritten \cap Range(cols)) :
       /\ batch' = cols /\ frozen' = stuck
       /\ served' = IF CannotWrite(stuck) THEN FailedFit ELSE Serving(cols)
  /\ UNCHANGED <<plan, stepColumns, traits, pipeline, coded>>

-----------------------------------------------------------------------------
(* The target encoder on values: rows 1 .. EncoderRows of one column x and   *)
(* the target y.  Means are pairs of a numerator and a denominator.          *)

EncoderRowSet == 1 .. EncoderRows
MissingValue  == "missing"
Categories    == {"a", "b"}

\* KFold: shuffled, and no fold is more than one row larger than another.
Folds == {f \in [EncoderRowSet -> 1 .. EncoderFolds] :
            \A k \in 1 .. EncoderFolds :
              Cardinality({i \in EncoderRowSet : f[i] = k}) - EncoderRows \div EncoderFolds \in {0, 1}}

SumOver(y, among)  == SumFunctionOnSet(y, among)
GlobalMean(y, among) == <<SumOver(y, among), Cardinality(among)>>

\* A category's mean over some rows, drawn towards the mean of all of them.
Smoothed(x, y, among, category) ==
  LET own == {i \in among : x[i] = category}
      n   == Cardinality(among)
  IN <<n * SumOver(y, own) + Smoothing * SumOver(y, among), n * (Cardinality(own) + Smoothing)>>

\* A missing value or a category no row has stands for the mean.
Mapped(x, y, among, value) ==
  IF value # MissingValue /\ \E i \in among : x[i] = value
  THEN Smoothed(x, y, among, value) ELSE GlobalMean(y, among)

\* Faulty variant: training rows are encoded with the mapping for new rows.
OutOfFold_Full(x, y, folds, i) == Mapped(x, y, EncoderRowSet, x[i])

\* A training row is encoded with the rows of the other folds.
OutOfFold(x, y, folds, i) == Mapped(x, y, {j \in EncoderRowSet : folds[j] # folds[i]}, x[i])

\* fit_transform() on one column of a training frame.
EncodeTraining ==
  /\ plan = <<>> /\ coded = NotEncoded
  /\ \E x \in [EncoderRowSet -> Categories \cup {MissingValue}], y \in [EncoderRowSet -> {0, 1}], folds \in Folds :
       coded' = [x |-> x, y |-> y, folds |-> folds,
                    codes |-> [i \in EncoderRowSet |-> OutOfFold(x, y, folds, i)]]
  /\ UNCHANGED <<plan, stepColumns, traits, pipeline, batch, frozen, served>>

-----------------------------------------------------------------------------
\* The next pipeline has nothing to do with this one.
NextPipeline ==
  /\ batch # <<>> \/ pipeline = FitFailure \/ coded # NotEncoded
  /\ plan' = <<>> /\ stepColumns' = NoColumns /\ traits' = {} /\ pipeline' = NotFitted
  /\ batch' = <<>> /\ frozen' = {} /\ served' = <<>> /\ coded' = NotEncoded

PipelineInit ==
  /\ plan = <<>> /\ stepColumns = NoColumns /\ traits = {} /\ pipeline = NotFitted
  /\ batch = <<>> /\ frozen = {} /\ served = <<>> /\ coded = NotEncoded

PipelineNext == Build \/ FitPipeline \/ Serve \/ EncodeTraining \/ NextPipeline

-----------------------------------------------------------------------------
\* Types of the pipeline.
PipelineTypeOK ==
  /\ Range(plan) \subseteq Steps
  /\ Len(pipeline.memory) \in {0, Len(plan)}
  /\ Range(batch) \subseteq Range(TrainingFrame)
  /\ served = FailedFit \/ Range(served) \subseteq AllColumns
  /\ coded = NotEncoded \/ DOMAIN coded.codes = EncoderRowSet

EncodesNothing ==
  \E i \in DOMAIN plan : plan[i] = "target_encoding" /\ pipeline.memory[i] = {}

\* Dates may be missing from a frame if a step extracts them or drops them.
Forgiven ==
  IF {"datetime_features", "column_transformer"} \cap Range(plan) = {} THEN {}
  ELSE {c \in Range(TrainingFrame) : IsDate(c)}

\* Once a plan was fitted, a frame that has the columns of the training frame,
\* dates excepted, and which its steps can write to, reaches the model with the
\* columns it was fitted on; and with a column transformer any frame does, or is
\* refused: never with fewer or other columns.
ServedAsFitted ==
  batch # <<>> =>
    /\ Range(TrainingFrame) \ Range(batch) \subseteq Forgiven /\ ~ EncodesNothing /\ frozen = {} =>
         served # FailedFit /\ Range(served) = Range(pipeline.output)
    /\ "column_transformer" \in Range(plan) =>
         served = FailedFit \/ Range(served) = Range(pipeline.output)

\* The correlation filter drops a column only if one like it is kept, and of
\* two that are alike it keeps one, unless either is protected.
DroppedColumnsHaveTwins ==
  \A i \in DOMAIN pipeline.memory :
    plan[i] = "multicollinearity" =>
      LET kept == pipeline.numbers[i] \ pipeline.memory[i]
      IN /\ \A c \in pipeline.memory[i] : \E d \in kept : {c, d} \in traits.alike
         /\ \A c, d \in kept \ traits.protected : {c, d} \notin traits.alike

\* "The encoded value of a row must not be computed using its own target":
\* it stays the same whatever the row's target is.
EncodingHidesOwnTarget ==
  coded # NotEncoded =>
    \A i \in EncoderRowSet :
      coded.codes[i] = OutOfFold(coded.x, [coded.y EXCEPT ![i] = 1 - @], coded.folds, i)

PipelineSpec == PipelineInit /\ [][PipelineNext]_pipelineVars
=============================================================================
