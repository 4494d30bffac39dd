----------------------------- MODULE DataQuality -----------------------------
(***************************************************************************)
(* The checks of a table: profile with a quality score, duplicates, nulls, *)
(* outliers, rules about impossible values, schemas, and the comparison of *)
(* two tables for drift.  Each is one call that reads a table and answers; *)
(* the library is called from scripts and tests, no page shows it yet.     *)
(*                                                                         *)
(* A table gives every column a sequence of small numbers, some of them    *)
(* missing.  What needs real arithmetic (skewness, p-values, the logarithm *)
(* in the stability index) is chosen among the outcomes the values allow.  *)
(***************************************************************************)
EXTENDS Integers, Sequences, FiniteSets, FiniteSetsExt

CONSTANTS
  QualityColumns,     \* columns of a table
  QualityNumeric,     \* those of them that are numeric, the others are text
  CellValues,         \* values of a cell
  TableLengths,       \* numbers of lines of a table
  MinSampleSize,      \* lines a table needs to be compared for drift
  LoneLengths         \* lengths of columns with one value that differs

ASSUME QualityAssumption ==
  /\ IsFiniteSet(QualityColumns) /\ QualityColumns # {} /\ QualityNumeric \subseteq QualityColumns
  /\ CellValues \subseteq Nat /\ TableLengths \cup LoneLengths \subseteq Nat /\ MinSampleSize \in Nat

VARIABLE quality      \* the last answer

NoAnswer    == [how |-> "none"]
Answer(how, content) == [how |-> how, of |-> content]

Missing     == -1
Cells       == CellValues \cup {Missing}
Cases(n)    == [1 .. n -> Cells]
Tables      == UNION {[QualityColumns -> Cases(n)] : n \in TableLengths}
Length(t)   == Len(t[CHOOSE c \in QualityColumns : TRUE])
Lines(t)    == 1 .. Length(t)
Present(s)  == {i \in DOMAIN s : s[i] # Missing}
ValuesOf(s) == {s[i] : i \in Present(s)}
AtLeastOne(n) == IF n = 0 THEN 1 ELSE n
HowMany(s, v) == Cardinality({i \in DOMAIN s : s[i] = v})

-----------------------------------------------------------------------------
(* Nulls, duplicates and the profile.                                        *)

\* Half of the lines and more; no line counts as one.
MostlyNull(t) ==
  {c \in QualityColumns : 2 * HowMany(t[c], Missing) >= AtLeastOne(Length(t))}

\* All copies of a line are duplicates, the first one too.
Duplicates(t, columns) ==
  {i \in Lines(t) : \E j \in Lines(t) \ {i} : \A c \in columns : t[c][i] = t[c][j]}

\* Faulty variant: missing cells do not tell the lines of a column apart.
Constant_Present(t) == {c \in QualityColumns : Cardinality(ValuesOf(t[c])) <= 1}

\* A missing cell is a value of its own here.
Constant(t) == {c \in QualityColumns : Cardinality({t[c][i] : i \in Lines(t)}) <= 1}

\* Columns with the same content, by a hash that tells numbers from text.
Twins(t) ==
  {pair \in SUBSET QualityColumns :
     /\ Cardinality(pair) = 2
     /\ \A c, d \in pair : t[c] = t[d] /\ (c \in QualityNumeric <=> d \in QualityNumeric)}

\* Skewness is 0 for a column that does not vary and unknown below three values.
MaySkew(t) ==
  {c \in QualityNumeric : Cardinality(Present(t[c])) >= 3 /\ Cardinality(ValuesOf(t[c])) > 1}

MissingCells(t) == SumFunctionOnSet([c \in QualityColumns |-> HowMany(t[c], Missing)], QualityColumns)
CellCount(t)    == AtLeastOne(Length(t) * Cardinality(QualityColumns))

\* part / whole in tenths of a percent, rounded down.
PerMille(part, whole) == (1000 * part) \div AtLeastOne(whole)

\* The score weighs four shares: missing cells count twice.
Score(t, skewed) ==
  1000 - (2 * PerMille(MissingCells(t), CellCount(t))
          + PerMille(Cardinality(Duplicates(t, QualityColumns)), Length(t))
          + PerMille(Cardinality(Constant(t)), Cardinality(QualityColumns))
          + PerMille(Cardinality(skewed), Cardinality(QualityNumeric))) \div 5

ManyMissing(t) == 10 * MissingCells(t) > CellCount(t)

\* What a profile complains about.
Issues(t, skewed) ==
  {issue \in {"missing", "null columns", "duplicates", "constants", "twins", "skewed"} :
     CASE issue = "missing"      -> ManyMissing(t)
       [] issue = "null columns" -> MostlyNull(t) # {}
       [] issue = "duplicates"   -> Duplicates(t, QualityColumns) # {}
       [] issue = "constants"    -> Constant(t) # {}
       [] issue = "twins"        -> Twins(t) # {}
       [] OTHER                  -> skewed # {}}

Profile ==
  \E t \in Tables : \E skewed \in SUBSET MaySkew(t) :
    quality' = Answer("profile", [table |-> t, score |-> Score(t, skewed), issues |-> Issues(t, skewed),
                                  constant |-> Constant(t), twins |-> Twins(t)])

-----------------------------------------------------------------------------
(* Outliers of one numeric column, and rules about its values.               *)

\* Four times the q-th quartile.  Between two places of the sorted column the
\* values are interpolated.
Quantile4(s, q) ==
  LET at == q * (Cardinality(Present(s)) - 1)
      value(k) == CHOOSE v \in ValuesOf(s) :
                    /\ Cardinality({i \in Present(s) : s[i] < v}) <= k
                    /\ Cardinality({i \in Present(s) : s[i] <= v}) > k
      low == value(at \div 4)
  IN IF at % 4 = 0 THEN 4 * low ELSE 4 * low + (at % 4) * (value(at \div 4 + 1) - low)

\* Tukey's fences at 1.5 times the distance of the quartiles, times 8.
Fence8(s) ==
  LET q1 == Quantile4(s, 1)
      q3 == Quantile4(s, 3)
  IN [low |-> 2 * q1 - 3 * (q3 - q1), high |-> 2 * q3 + 3 * (q3 - q1)]

Beyond(s) == {i \in Present(s) : 8 * s[i] < Fence8(s).low \/ 8 * s[i] > Fence8(s).high}

\* More than three standard deviations from the mean; a column that does not
\* vary has none.
Deviant(s) ==
  LET n   == Cardinality(Present(s))
      sum == SumFunctionOnSet(s, Present(s))
      squares == SumFunctionOnSet([i \in Present(s) |-> s[i] * s[i]], Present(s))
      spread  == n * squares - sum * sum
  IN {i \in Present(s) : (n * s[i] - sum) * (n * s[i] - sum) > 9 * spread /\ spread > 0}

\* Columns of one value but for their first line.
LoneCases == {[i \in 1 .. n |-> IF i = 1 THEN v ELSE w] : n \in LoneLengths, v, w \in CellValues}

Outliers ==
  \E s \in LoneCases \cup UNION {Cases(n) : n \in TableLengths} :
    quality' = Answer("outliers", [column |-> s, deviant |-> Deviant(s),
                                   beyond |-> IF Present(s) = {} THEN {} ELSE Beyond(s)])

\* A comparison with a missing value is false; the rules that negate one flag
\* missing cells, the others do not.
Violates(rule, v) ==
  CASE rule = "range"        -> v = Missing \/ v > Max(CellValues) - 1
    [] rule = "isin"         -> v = Missing \/ v # Min(CellValues)
    [] rule = "non_zero"     -> v = 0
    [] rule = "non_negative" -> FALSE
    [] OTHER                 -> FALSE

RuleNames == {"range", "isin", "non_zero", "non_negative", "regex without pattern"}

\* One report per rule, in order: a column that is not there or a rule that
\* fails on it is reported as an error, without violations.
RuleReport(rule, t, column) ==
  [rule |-> rule,
   error |-> column \notin QualityColumns \/ rule = "regex without pattern",
   violations |-> IF column \notin QualityColumns THEN {}
                  ELSE {i \in Lines(t) : Violates(rule, t[column][i])}]

CheckRules ==
  \E t \in Tables, first, second \in RuleNames, column \in QualityColumns \cup {"unknown"} :
    quality' = Answer("rules", <<RuleReport(first, t, column), RuleReport(second, t, column)>>)

-----------------------------------------------------------------------------
(* Schemas.  Both ways of checking a table convert it first.                 *)

SchemaKinds == {"number", "date"}
Converted(s, kind) ==
  CASE kind = "date" -> [i \in DOMAIN s |-> IF s[i] = 0 THEN Missing ELSE s[i]]
    [] OTHER         -> s

\* A column that cannot be converted stays as it is.
CoerceColumn ==
  \E n \in TableLengths : \E s \in Cases(n), kind \in SchemaKinds, convertible \in BOOLEAN :
    quality' = Answer("coerced", [before |-> s, after |-> IF kind = "date" \/ convertible THEN Converted(s, kind) ELSE s])

\* All errors are collected if lazy, the first one otherwise; the caller may
\* have them raised.
Validate ==
  \E t \in Tables, absent \in SUBSET QualityColumns, nullable, lazy, raise \in BOOLEAN :
    LET bad  == {c \in QualityColumns \ absent : ~ nullable /\ HowMany(t[c], Missing) > 0}
        errors == absent \cup bad
    IN quality' = IF errors = {} THEN Answer("valid", 0)
                  ELSE Answer(IF raise THEN "raised" ELSE "invalid",
                              IF lazy THEN Cardinality(errors) ELSE 1)

-----------------------------------------------------------------------------
(* Drift between a reference column and a current one.                       *)

\* Bins come from the reference, the outer ones are open: only how far values
\* are within its range is seen.
Clipped(s, v) ==
  IF v < Min(ValuesOf(s)) THEN Min(ValuesOf(s))
  ELSE IF v > Max(ValuesOf(s)) THEN Max(ValuesOf(s)) ELSE v

Share(s, values) == <<Cardinality({i \in Present(s) : s[i] \in values}), Cardinality(Present(s))>>
SameShare(a, b)  == a[1] * b[2] = b[1] * a[2]

SameShape(kind, ref, cur) ==
  \A v \in ValuesOf(ref) \cup ValuesOf(cur) :
    IF kind = "categorical" THEN SameShare(Share(ref, {v}), Share(cur, {v}))
    ELSE LET bin == {w \in CellValues : Clipped(ref, w) = Clipped(ref, v)}
         IN SameShare(Share(ref, bin), Share(cur, bin))

\* Faulty variant: a constant reference has drifted whatever it is compared with.
ConstantPSI_Always(ref, cur) == "significant"

\* A constant reference has one bin.
ConstantPSI(ref, cur) == IF ValuesOf(cur) = ValuesOf(ref) THEN "none" ELSE "significant"

\* Grades of the population stability index.
PSI(kind, ref, cur) ==
  IF Present(ref) = {} \/ Present(cur) = {} THEN {"unavailable"}
  ELSE IF kind = "numeric" /\ Cardinality(ValuesOf(ref)) = 1 THEN {ConstantPSI(ref, cur)}
  ELSE IF SameShape(kind, ref, cur) THEN {"none"}
  ELSE IF kind = "categorical" /\ ValuesOf(ref) \cap ValuesOf(cur) = {} THEN {"significant"}
  ELSE {"none", "moderate", "significant"}

\* Whether the test of Kolmogorov and Smirnov rejects; it wants two values each.
KSRejects(kind, ref, cur) ==
  IF kind = "categorical" \/ Cardinality(Present(ref)) < 2 \/ Cardinality(Present(cur)) < 2
  THEN {FALSE} ELSE BOOLEAN

\* The test only decides between the thresholds of the index.
Drifted(psi, rejects) == psi = "significant" \/ (psi = "moderate" /\ rejects)

DriftAnswer(kind, ref, cur, flagged, psi, rejects) ==
  Answer("drift", [kind |-> kind, ref |-> ref, cur |-> cur, flagged |-> flagged,
                   scored |-> psi # "unavailable", drifted |-> Drifted(psi, rejects)])

\* An empty reference or tables without a common column are refused, categories
\* with too many values are skipped.  A small table is flagged and compared all
\* the same; without a value on either side there is no score.
DetectDrift ==
  \E n, m \in TableLengths, kind \in {"numeric", "categorical"}, shared \in BOOLEAN :
  \E ref \in Cases(n), cur \in Cases(m) :
  \E psi \in PSI(kind, ref, cur), rejects \in KSRejects(kind, ref, cur), skipped \in BOOLEAN :
    /\ skipped => kind = "categorical" /\ Cardinality(ValuesOf(ref)) > 1
    /\ quality' = IF n = 0 \/ ~ shared THEN Answer("refused", 0)
                  ELSE IF skipped THEN Answer("skipped", 0)
                  ELSE DriftAnswer(kind, ref, cur, n < MinSampleSize \/ m < MinSampleSize, psi, rejects)

-----------------------------------------------------------------------------
QualityInit == quality = NoAnswer

\* The next check has nothing to do with this one.
NextCheck == quality # NoAnswer /\ quality' = NoAnswer

QualityNext ==
  \/ /\ quality = NoAnswer
     /\ Profile \/ Outliers \/ CheckRules \/ CoerceColumn \/ Validate \/ DetectDrift
  \/ NextCheck

-----------------------------------------------------------------------------
\* Types of the last answer.
QualityTypeOK ==
  quality.how \in {"none", "profile", "outliers", "rules", "coerced", "valid", "raised", "invalid",
                   "refused", "skipped", "drift"}

\* What a profile reports explains its score and is true of the table: without
\* an issue the score is at least 96 %, and lines that differ still differ
\* without a constant column or without one of two equal columns.
ProfileIsTrue ==
  quality.how = "profile" =>
    LET p == quality.of
        redundant(c) == Duplicates(p.table, QualityColumns \ {c}) = Duplicates(p.table, QualityColumns)
    IN /\ p.issues = {} => p.score >= 960
       /\ \A c \in p.constant : redundant(c)
       /\ \A pair \in p.twins : \A c \in pair : redundant(c)

\* A column that is said to have drifted has changed.  In tables of sufficient
\* size a category that has nothing in common with the reference is said to have
\* drifted, and a column with values on both sides has a score.
OnlyChangesDrift ==
  quality.how = "drift" =>
    LET d == quality.of
        compared == ~ d.flagged /\ Present(d.cur) # {} /\ Present(d.ref) # {}
    IN /\ d.drifted => \E v \in CellValues : ~ SameShare(Share(d.ref, {v}), Share(d.cur, {v}))
       /\ compared => d.scored
       /\ compared /\ d.kind = "categorical" /\ ValuesOf(d.ref) \cap ValuesOf(d.cur) = {} => d.drifted

\* Outliers are the exception: the fences keep half of the values and more, and
\* no value of ten is three deviations from the mean.
OutliersAreFew ==
  quality.how = "outliers" =>
    LET o == quality.of
    IN /\ 2 * Cardinality(o.beyond) <= Cardinality(Present(o.column))
       /\ Len(o.column) <= 10 => o.deviant = {}

\* A profile and an outlier report say of a table what is so.
QualityReportsAreTrue == ProfileIsTrue /\ OutliersAreFew

QualitySpec == QualityInit /\ [][QualityNext]_quality
=============================================================================
