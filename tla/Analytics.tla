------------------------------ MODULE Analytics ------------------------------
(***************************************************************************)
(* The specialised analyses behind page 7: time series, clustering,        *)
(* anomalies, text and recommendations.  Each is one function call that    *)
(* answers with a report, refuses with an error made for the user          *)
(* (SchemaError, AnalyticsError), or lets an exception of the library it   *)
(* uses escape ("raised").                                                 *)
(*                                                                         *)
(* What the guards of an analysis look at is how much data is left once    *)
(* rows with missing or unreadable cells are gone, so a table is reduced   *)
(* to such numbers, a series to the positions of its points, a clustering  *)
(* to its numbers of rows and labels.  Ratings are kept, as they are what  *)
(* a recommendation is made of.                                            *)
(***************************************************************************)
EXTENDS Integers, FiniteSets, FiniteSetsExt

CONSTANTS
  Sizes,       \* numbers of rows a table may have left
  Horizons,    \* steps to forecast
  Holdouts,    \* points kept back to measure the forecast, 0 for none
  Orders,      \* sums of the ARIMA order
  Wanted,      \* numbers of clusters, topics, dimensions or samples asked for
  Users, Items,
  Ratings,     \* ratings a user may give
  Certain      \* a similarity of 1, in the steps similarities are counted in

Unrated == -1
ASSUME AnalyticsAssumption ==
  /\ Sizes \cup Horizons \cup Holdouts \cup Orders \cup Ratings \subseteq Nat
  /\ Wanted \subseteq Nat \ {0} /\ Certain \in Nat \ {0}
  /\ 0 \in Holdouts /\ IsFiniteSet(Users)

VARIABLE analysis     \* the last answer

NoAnalysis      == [how |-> "none"]
SchemaError     == [how |-> "schema"]
AnalyticsError  == [how |-> "analytics"]
Raised(content) == [how |-> "raised", of |-> content]
Found(content) == [how |-> "report", of |-> content]

Least(a, b)    == IF a < b THEN a ELSE b
Greatest(a, b) == IF a < b THEN b ELSE a

-----------------------------------------------------------------------------
(* Time series.  "points" is the number of different dates left after rows   *)
(* without a readable date or value are dropped; of rows with the same date  *)
(* one is kept.                                                              *)

ColumnChoices == {"distinct", "same", "missing"}

SeriesRefused(columns, points) == columns # "distinct" \/ points = 0

InferredPeriod(points) == Least(12, Greatest(2, points \div 2))

\* What the smallest value of the series is, or that one is infinite.
ValueRanges == {"positive", "nonpositive", "infinite"}

\* seasonal_decompose takes finite values, and divides by positive ones only.
CannotDecompose(values, model) ==
  values = "infinite" \/ (model = "multiplicative" /\ values = "nonpositive")

\* A period of 0 asks for the inferred one.
Decomposition(columns, points, asked, values, model) ==
  LET period == IF asked = 0 THEN InferredPeriod(points) ELSE asked
  IN IF SeriesRefused(columns, points) THEN SchemaError
     ELSE IF points < 4 \/ points < 2 * period THEN AnalyticsError
     ELSE IF CannotDecompose(values, model) THEN Raised([kind |-> "decomposition"])
     ELSE Found([kind |-> "decomposition", points |-> points, period |-> period])

\* Faulty variant: up to half of the points, and more, are kept back.
HeldBack_Most(points, holdout) == IF holdout < points THEN holdout ELSE 0

\* A holdout of half of the points or more is ignored.
HeldBack(points, holdout) == IF holdout < points \div 2 THEN holdout ELSE 0

\* Forecasts go on from the last point trained on.
ForecastReport(points, holdout, horizon) ==
  LET held == HeldBack(points, holdout)
  IN Found([kind |-> "forecast", points |-> points,
             train |-> 1 .. points - held, test |-> points - held + 1 .. points,
             measured |-> points - held + 1 .. points,
             future |-> points - held + 1 .. points - held + horizon])

\* A fit that fails is reported to the user.
ArimaForecasts(columns, points, order, holdout, horizon) ==
  IF SeriesRefused(columns, points) THEN {SchemaError}
  ELSE IF points < Greatest(10, order + 5) THEN {AnalyticsError}
  ELSE {AnalyticsError, ForecastReport(points, holdout, horizon)}

\* The library is optional, and nothing catches its exceptions.
ProphetForecasts(installed, columns, points, holdout, horizon) ==
  IF ~ installed THEN {AnalyticsError}
  ELSE IF SeriesRefused(columns, points) THEN {SchemaError}
  ELSE IF points < 10 THEN {AnalyticsError}
  ELSE {Raised([kind |-> "prophet"]), ForecastReport(points, holdout, horizon)}

Forecasts(method, columns, points, order, holdout, horizon) ==
  CASE method = "arima"   -> ArimaForecasts(columns, points, order, holdout, horizon)
    [] method = "prophet" -> UNION {ProphetForecasts(i, columns, points, holdout, horizon) : i \in BOOLEAN}
    [] OTHER              -> {AnalyticsError}

Decompose ==
  \E columns \in ColumnChoices, points \in Sizes, asked \in Wanted \cup {0},
     values \in ValueRanges, model \in {"additive", "multiplicative"} :
    analysis' = Decomposition(columns, points, asked, values, model)

Forecast ==
  \E method \in {"arima", "prophet", "other"}, columns \in ColumnChoices, points \in Sizes,
     order \in Orders, holdout \in Holdouts, horizon \in Horizons :
    analysis' \in Forecasts(method, columns, points, order, holdout, horizon)

-----------------------------------------------------------------------------
(* Clusters and anomalies over the rows without a missing value in the       *)
(* columns chosen.                                                           *)

\* With no column chosen no row misses a value, and none is infinite.
FeatureTables ==
  {t \in [known : BOOLEAN, columns : {0, 1}, size : Sizes, finite : BOOLEAN] :
     /\ t.columns = 0 => t.known
     /\ t.columns = 0 \/ t.size = 0 => t.finite}

\* StandardScaler wants a column, and finite cells.
ScalerFails(table) == table.columns = 0 \/ ~ table.finite

\* umap is optional, and nothing catches its exceptions.
Projections(method, size) ==
  CASE method = "pca"  -> IF size >= 2 THEN {"drawn"} ELSE {"refused"}
    [] method = "umap" -> UNION {IF installed THEN {"drawn", "raised"} ELSE {"refused"} : installed \in BOOLEAN}
    [] OTHER           -> {"refused"}

\* The silhouette wants fewer labels than rows.
SilhouetteFails(labels, size) == labels > 1 /\ labels >= size

Clustering(kind, asked, table, labels, measured, projected) ==
  IF ScalerFails(table) \/ SilhouetteFails(labels, measured) \/ projected = "raised"
  THEN Raised([kind |-> kind, asked |-> asked, table |-> table, projected |-> projected])
  ELSE IF projected = "refused" THEN AnalyticsError
  ELSE Found([kind |-> kind, asked |-> asked, table |-> table, labels |-> labels])

ProjectionMethods == {"pca", "umap", "other"}

KMeansRefuses(size, k) == size < k

\* As many labels as rows differ, k at most.
KMeans ==
  \E table \in FeatureTables, k \in Wanted, method \in ProjectionMethods :
  \E different \in 1 .. Greatest(1, table.size), projected \in Projections(method, table.size) :
    analysis' = IF ~ table.known THEN SchemaError
                ELSE IF KMeansRefuses(table.size, k) THEN AnalyticsError
                ELSE Clustering("kmeans", k, table, Least(k, different), table.size, projected)

\* Rows of noise have no label.  The first cluster takes all its neighbours, a
\* later one may lose some to earlier ones, but not its core.
DBSCAN ==
  \E table \in FeatureTables, samples \in Wanted, method \in ProjectionMethods :
  \E projected \in Projections(method, table.size), labelled \in 0 .. table.size :
  \E labels \in 0 .. labelled :
    /\ labels = 0 <=> labelled = 0
    /\ labels > 0 => labelled >= samples + labels - 1
    /\ analysis' = IF ~ table.known THEN SchemaError
                   ELSE IF table.size < samples THEN AnalyticsError
                   ELSE Clustering("dbscan", samples, table, labels, labelled, projected)

\* Both detectors score the complete rows; the columns are those given or all
\* numeric ones.
Detection(detector, table) ==
  IF ~ table.known \/ table.columns = 0 THEN SchemaError
  ELSE IF table.size < 10 THEN AnalyticsError
  ELSE IF ScalerFails(table) THEN Raised([kind |-> detector, table |-> table])
  ELSE Found([kind |-> detector, scored |-> table.size])

DetectIsolationForest ==
  \E table \in FeatureTables : analysis' = Detection("isolation_forest", table)

DetectOneClassSVM ==
  \E table \in FeatureTables : analysis' = Detection("one_class_svm", table)

-----------------------------------------------------------------------------
(* Text.  "words" is the size of the vocabulary without stop words, 0 makes  *)
(* the vectorizer raise.                                                     *)

\* Every row is scored, rows without text as neutral.
Sentiment ==
  \E known, supported, installed, blank \in BOOLEAN, size \in Sizes :
    analysis' = IF ~ known THEN SchemaError
                ELSE IF ~ supported \/ ~ installed THEN AnalyticsError
                ELSE IF blank \/ size = 0 THEN SchemaError
                ELSE Found([kind |-> "sentiment", scored |-> size])

TopicCount(asked, documents) == Greatest(2, Least(asked, documents - 1))

Topics ==
  \E known \in BOOLEAN, documents \in Sizes, asked \in Wanted, words \in {0, 1, 2} :
    analysis' = IF ~ known \/ documents < 3 THEN SchemaError
                ELSE IF words = 0 THEN Raised([kind |-> "topics"])
                ELSE Found([kind |-> "topics", topics |-> TopicCount(asked, documents),
                             documents |-> documents])

\* The decomposition wants no more dimensions than words.
Embeddings ==
  \E known, blank \in BOOLEAN, documents \in Sizes, asked \in Wanted, words \in {0, 1, 2} :
    LET dimensions == Least(asked, Greatest(1, documents - 1))
    IN analysis' = IF ~ known \/ blank \/ documents = 0 THEN SchemaError
                   ELSE IF words = 0 \/ dimensions > words THEN Raised([kind |-> "embeddings"])
                   ELSE Found([kind |-> "embeddings", dimensions |-> dimensions, documents |-> documents])

\* The optional library encodes any text.
SentenceEmbeddings ==
  \E installed \in BOOLEAN, documents \in Sizes \ {0}, asked \in Wanted :
    analysis' = IF ~ installed THEN AnalyticsError
                ELSE Found([kind |-> "embeddings", dimensions |-> asked, documents |-> documents])

-----------------------------------------------------------------------------
(* Recommendations from a matrix of users and items.  Duplicate ratings      *)
(* enter with their mean; users and items no row is left for are not in it.  *)

Matrices == [Users \X Items -> Ratings \cup {Unrated}]

\* Rows may repeat a rating, or hold none that can be read.
TableLengthsOf(m) == {n \in {1, Cardinality(Users \X Items)} :
                        n >= Cardinality({c \in Users \X Items : m[c] # Unrated})}

Rated(m, u)    == {i \in Items : m[<<u, i>>] # Unrated}
Rows(m)        == {u \in Users : Rated(m, u) # {}}
ColumnsOf(m)   == UNION {Rated(m, u) : u \in Rows(m)}
Filled(m, u, i) == IF m[<<u, i>>] = Unrated THEN 0 ELSE m[<<u, i>>]

\* The columns of a table of one row are squeezed to scalars, and a frame
\* cannot be made of them.
SqueezedToScalars(rows) == rows = 1

UsersMeet(m, u, v) == \E i \in Items : Filled(m, u, i) * Filled(m, v, i) > 0
ItemsMeet(m, i, j) == \E u \in Users : Filled(m, u, i) * Filled(m, u, j) > 0

\* cosine_similarity: 0 for vectors that share nothing, and at most 1.
Similarities(m, u) ==
  {s \in [Rows(m) \ {u} -> 0 .. Certain] : \A v \in Rows(m) \ {u} : s[v] > 0 <=> UsersMeet(m, u, v)}

Candidates(m, u, s) == (UNION {Rated(m, v) : v \in {w \in DOMAIN s : s[w] > 0}}) \ Rated(m, u)

Raters(m, s, i) == {v \in DOMAIN s : s[v] > 0 /\ m[<<v, i>>] # Unrated}
Weight(m, s, i) == SumFunctionOnSet(s, Raters(m, s, i))
Votes(m, s, i)  == SumFunctionOnSet([v \in Raters(m, s, i) |-> s[v] * m[<<v, i>>]], Raters(m, s, i))

\* min_common = 1 is compared with the sum of the similarities: an item that
\* one neighbour rated is left out unless the neighbour is a perfect match.
Collaborative(m, u, s) ==
  IF u \notin Rows(m) THEN SchemaError
  ELSE IF \A v \in DOMAIN s : s[v] = 0 THEN AnalyticsError
  ELSE Found([kind |-> "users", matrix |-> m, user |-> u, similar |-> s,
               items |-> {i \in Candidates(m, u, s) : Weight(m, s, i) >= Certain}])

RecommendByUsers ==
  \E m \in Matrices, u \in Users : \E rows \in TableLengthsOf(m), s \in Similarities(m, u) :
    analysis' = IF SqueezedToScalars(rows) THEN Raised([kind |-> "users"])
                ELSE IF Rows(m) = {} THEN SchemaError
                ELSE Collaborative(m, u, s)

\* The weights of an item come from the items like it; those the user rated
\* are taken out first, and only they have a rating to add.
CosineScore(m, u, i) ==
  LET similar == ColumnsOf(m) \ Rated(m, u)
  IN SumFunctionOnSet([j \in similar |-> IF ItemsMeet(m, i, j) /\ j \in Rated(m, u) THEN m[<<u, j>>] ELSE 0], similar)

RecommendByItems ==
  \E m \in Matrices, u \in Users : \E rows \in TableLengthsOf(m) :
    analysis' = IF SqueezedToScalars(rows) THEN Raised([kind |-> "items"])
                ELSE IF u \notin Rows(m) THEN SchemaError
                ELSE Found([kind |-> "items", matrix |-> m, user |-> u,
                             scores |-> [i \in ColumnsOf(m) \ Rated(m, u) |-> CosineScore(m, u, i)]])

-----------------------------------------------------------------------------
AnalyticsInit == analysis = NoAnalysis

\* The next analysis does not depend on the last one.
NextAnalysis == analysis # NoAnalysis /\ analysis' = NoAnalysis

AnalyticsNext ==
  \/ /\ analysis = NoAnalysis
     /\ \/ Decompose \/ Forecast
        \/ KMeans \/ DBSCAN \/ DetectIsolationForest \/ DetectOneClassSVM
        \/ Sentiment \/ Topics \/ Embeddings \/ SentenceEmbeddings
        \/ RecommendByUsers \/ RecommendByItems
  \/ NextAnalysis

-----------------------------------------------------------------------------
\* Types of the last answer.
AnalyticsTypeOK ==
  \/ analysis \in {NoAnalysis, SchemaError, AnalyticsError}
  \/ analysis.how \in {"report", "raised"} /\ analysis.of.kind \in
       {"decomposition", "forecast", "prophet", "kmeans", "dbscan", "isolation_forest",
        "one_class_svm", "sentiment", "topics", "embeddings", "users", "items"}

Reported(kind) == analysis.how = "report" /\ analysis.of.kind = kind

\* The error of a forecast is measured on points the model was not trained on,
\* all of them forecast, and they are fewer than those it was trained on.
HoldoutIsUnseen ==
  Reported("forecast") =>
    LET f == analysis.of
    IN /\ f.train \cap f.test = {} /\ f.train \cup f.test = 1 .. f.points
       /\ f.measured = f.test
       /\ Cardinality(f.test) < Cardinality(f.train)

\* Without a period of the user's, four points can be decomposed, provided the
\* model can take their values.
InferredPeriodFits ==
  \A points \in Sizes, values \in ValueRanges, model \in {"additive", "multiplicative"} :
    points >= 4 /\ ~ CannotDecompose(values, model)
      => Decomposition("distinct", points, 0, values, model).how = "report"

\* There are fewer topics than documents.
FewerTopicsThanDocuments ==
  Reported("topics") => analysis.of.topics < analysis.of.documents

\* On finite cells of at least one column, and unless umap fails, a clustering
\* of a table it accepted raises only if k-means has to put k rows into k
\* clusters, or DBSCAN takes a single row for a cluster.
ClusteringRaisesAtEdgesOnly ==
  LET c == analysis.of
  IN analysis.how = "raised" /\ c.kind \in {"kmeans", "dbscan"} =>
       \/ c.table.columns = 0 \/ ~ c.table.finite \/ c.projected = "raised"
       \/ c.asked = IF c.kind = "kmeans" THEN c.table.size ELSE 1

\* The numbers the analyses derive from the size of the data fit the data: the
\* period of a series, the number of topics, the guards of the clusterings.
DerivedNumbersFit ==
  InferredPeriodFits /\ FewerTopicsThanDocuments /\ ClusteringRaisesAtEdgesOnly

\* What a user is recommended was rated by a user like them, not by themselves,
\* and its predicted rating lies between the ratings it was given.
RecommendationsAreMeans ==
  Reported("users") =>
    LET a == analysis.of
    IN \A i \in a.items :
         /\ a.matrix[<<a.user, i>>] = Unrated
         /\ \E v, w \in Raters(a.matrix, a.similar, i) :
              /\ a.matrix[<<v, i>>] * Weight(a.matrix, a.similar, i) <= Votes(a.matrix, a.similar, i)
              /\ a.matrix[<<w, i>>] * Weight(a.matrix, a.similar, i) >= Votes(a.matrix, a.similar, i)

\* What the analyses promise of the numbers they work with and answer.
AnalysesFitTheData == HoldoutIsUnseen /\ DerivedNumbersFit /\ RecommendationsAreMeans

AnalyticsSpec == AnalyticsInit /\ [][AnalyticsNext]_analysis
=============================================================================
