---------------------------- MODULE LearningProofs ----------------------------
(***************************************************************************)
(* Proofs about what surrounds a training: hyperparameter search,          *)
(* preprocessing, the specialised analyses, data quality and the reports   *)
(* about a model, for every table, plan and score.                         *)
(***************************************************************************)
EXTENDS MCLearning, ModelTrainingProofs

-----------------------------------------------------------------------------
(* Hyperparameter search: the best trial *)

Results      == TrialScores \cup {NoValue, Failed}
SearchStates == {"unknown", "refused", "running", "no trials", "raised", "tuned", "fit raised"}
SearchRecord == [model : Searched, asked : TrialCounts, good : BOOLEAN, own : BOOLEAN,
                 trials : Seq(Results), best : Nat, how : SearchStates]

\* Results are integers, and those that count are scores.
LEMMA ResultFacts ==
  \A r \in Results : r \in Int /\ (r >= 0 => r \in Nat) /\ r >= Failed
BY TuningAssumption DEF Results, NoValue, Failed

\* Of finitely many trials one is the best and no earlier one is as good.
LEMMA BestTrialFacts ==
  ASSUME NEW trials \in Seq(Results), Completed(trials) # {}
  PROVE  /\ BestTrial(trials) \in Completed(trials)
         /\ \A i \in DOMAIN trials : trials[i] <= trials[BestTrial(trials)]
<1> DEFINE C == Completed(trials)
           scores == {trials[i] : i \in C}
<1>1. /\ C \subseteq 1 .. Len(trials) /\ Len(trials) \in Nat /\ DOMAIN trials = 1 .. Len(trials)
      /\ \A i \in C : trials[i] \in Nat
      /\ \A i \in DOMAIN trials : trials[i] \in Int /\ (i \notin C => trials[i] < 0)
  BY ResultFacts DEF Completed
<1>2. PICK top \in C : \A i \in C : trials[i] <= trials[top]
  <2> DEFINE values == {trials[i] : i \in C}
  <2>1. IsFiniteSet(C)
    BY <1>1, FinitePositions
  <2>2. IsFiniteSet(values)
    <3> DEFINE value == [i \in C |-> trials[i]]
    <3>1. value \in [C -> Nat] /\ values = {value[i] : i \in C}
      BY <1>1
    <3> HIDE DEF C, value, values
    <3>2. IsFiniteSet({value[i] : i \in C})
      BY <2>1, <3>1, FiniteImage
    <3> QED
      BY <3>1, <3>2
  <2>3. values \in SUBSET Int /\ values # {}
    BY <1>1
  <2>4. PICK v \in values : \A w \in values : w <= v
    <3> HIDE DEF values
    <3> QED
      BY <2>2, <2>3, GreatestMember
  <2> QED
    BY <2>4
<1> DEFINE tops == {i \in C : trials[i] = trials[top]}
<1>3. PICK first \in tops : \A j \in tops : first <= j
  <2>1. tops \in SUBSET Nat /\ tops # {}
    BY <1>1, <1>2
  <2> HIDE DEF tops
  <2> QED
    BY <2>1, LeastMember
<1>4. \A j \in C : trials[first] > trials[j] \/ (trials[first] = trials[j] /\ first <= j)
  BY <1>1, <1>2, <1>3
<1>5. /\ BestTrial(trials) \in C
      /\ \A j \in C : trials[BestTrial(trials)] > trials[j] \/ trials[BestTrial(trials)] = trials[j]
  BY <1>3, <1>4 DEF BestTrial
<1> HIDE DEF C
<1> QED
  BY <1>1, <1>5 DEF C

-----------------------------------------------------------------------------
(* Hyperparameter search: the invariant *)

Ended(s)    == searches[s].how \in {"tuned", "fit raised"}
LastOwner   == preprocessors[Caller]

\* What a search has to show for how it ended.
BestInv(s) ==
  /\ Ended(s) => /\ searches[s].best \in DOMAIN searches[s].trials
                 /\ \A i \in DOMAIN searches[s].trials :
                      searches[s].trials[i] <= searches[s].trials[searches[s].best]
  /\ searches[s].how = "raised" => Completed(searches[s].trials) = {}

\* Who fitted the preprocessors last: a search its own one, the last search with
\* the caller's that one.
OwnerInv(s) ==
  /\ Ended(s) /\ searches[s].own => preprocessors[s] = s
  /\ Ended(s) /\ ~ searches[s].own =>
       LastOwner \in s .. Now /\ ~ searches[LastOwner].own

TuningInv ==
  /\ searches \in Seq(SearchRecord) /\ Now \in 0 .. MaxSearches
  /\ preprocessors \in [0 .. MaxSearches -> 0 .. MaxSearches]
  /\ \A s \in 1 .. Now : searches[s].how = "running" => s = Now
  /\ \A s \in 1 .. Now : BestInv(s) /\ OwnerInv(s)

LEMMA TuningInitInv == TuningInit => TuningInv
<1> SUFFICES ASSUME TuningInit PROVE TuningInv
  OBVIOUS
<1>1. searches \in Seq(SearchRecord) /\ Now = 0 /\ 1 .. Now = {}
  BY DEF TuningInit, Now
<1>2. preprocessors \in [0 .. MaxSearches -> 0 .. MaxSearches]
  BY TuningAssumption DEF TuningInit, Caller
<1> QED
  BY <1>1, <1>2, TuningAssumption DEF TuningInv

\* A new search comes after those that are over.
LEMMA StartSearchInv == TuningInv /\ StartSearch => TuningInv'
<1> SUFFICES ASSUME TuningInv, StartSearch PROVE TuningInv'
  OBVIOUS
<1>1. PICK new : /\ searches' = Append(searches, new) /\ new \in SearchRecord
                 /\ new.how \in {"unknown", "refused", "running"}
  <2>1. PICK model \in Searched, asked \in TrialCounts, installed \in BOOLEAN, good \in BOOLEAN, own \in BOOLEAN :
          searches' = Append(searches,
            [model |-> model, asked |-> asked, good |-> good, own |-> own, trials |-> <<>>, best |-> 0,
             how |-> IF ~ Registered(model, installed) THEN "unknown"
                     ELSE IF model[2] \notin SearchSpaces THEN "refused" ELSE "running"])
    BY DEF StartSearch
  <2> DEFINE how == IF ~ Registered(model, installed) THEN "unknown"
                    ELSE IF model[2] \notin SearchSpaces THEN "refused" ELSE "running"
             new == [model |-> model, asked |-> asked, good |-> good, own |-> own, trials |-> <<>>, best |-> 0,
                     how |-> how]
  <2>2. how \in {"unknown", "refused", "running"}
    OBVIOUS
  <2> HIDE DEF how
  <2>3. new \in SearchRecord /\ new.how = how
    <3>1. <<>> \in Seq(Results)
      OBVIOUS
    <3>2. how \in SearchStates
      BY <2>2 DEF SearchStates
    <3> QED
      BY <2>1, <3>1, <3>2 DEF SearchRecord
  <2>4. searches' = Append(searches, new)
    BY <2>1 DEF how
  <2> QED
    BY <2>2, <2>3, <2>4
<1>2. /\ searches \in Seq(SearchRecord) /\ Now \in Nat /\ Now < MaxSearches /\ ~ Running
      /\ UNCHANGED preprocessors /\ preprocessors \in [0 .. MaxSearches -> 0 .. MaxSearches]
  BY TuningAssumption DEF StartSearch, TuningInv
<1>3. /\ searches' \in Seq(SearchRecord) /\ Now' = Now + 1 /\ searches'[Now + 1] = new
      /\ \A s \in 1 .. Now : searches'[s] = searches[s]
  BY <1>1, <1>2, AppendProperties DEF Now
<1>4. Now' \in 0 .. MaxSearches
  BY <1>2, <1>3, TuningAssumption
<1>5. ASSUME NEW s \in 1 .. Now'
      PROVE  /\ searches'[s].how = "running" => s = Now'
             /\ BestInv(s)' /\ OwnerInv(s)'
  <2>1. CASE s = Now + 1
    BY <1>1, <1>3, <2>1 DEF BestInv, OwnerInv, Ended
  <2>2. CASE s # Now + 1
    <3>1. s \in 1 .. Now /\ searches'[s] = searches[s]
      BY <1>2, <1>3, <1>5, <2>2
    <3>2. searches[s].how # "running"
      BY <1>2, <3>1 DEF TuningInv, Running, Search
    <3>3. BestInv(s)'
      BY <3>1 DEF TuningInv, BestInv, Ended
    <3>4. OwnerInv(s)'
      <4>1. LastOwner' = LastOwner /\ \A r \in s .. Now : searches'[r] = searches[r]
        BY <1>2, <1>3, <3>1 DEF LastOwner
      <4>2. s .. Now \subseteq s .. Now'
        BY <1>2, <1>3, <3>1
      <4>3. OwnerInv(s)
        BY <3>1 DEF TuningInv
      <4> QED
        BY <1>2, <3>1, <4>1, <4>2, <4>3 DEF OwnerInv, Ended
    <3> QED
      BY <3>1, <3>2, <3>3, <3>4
  <2> QED
    BY <2>1, <2>2
<1> QED
  BY <1>2, <1>3, <1>4, <1>5 DEF TuningInv

\* The record of the running search is what a trial and its end change.
LEMMA SearchGoesOn ==
  ASSUME TuningInv, Running, NEW record, searches' = [searches EXCEPT ![Now] = record],
         record \in SearchRecord
  PROVE  /\ searches' \in Seq(SearchRecord) /\ Now' = Now /\ searches'[Now] = record
         /\ \A s \in 1 .. Now : s # Now => searches'[s] = searches[s]
         /\ Now \in 1 .. Now /\ Now \in Nat /\ Search \in SearchRecord
         /\ Search.how = "running" /\ Search = searches[Now]
<1>1. searches \in Seq(SearchRecord) /\ Now \in 1 .. Now /\ Now \in Nat /\ Now = Len(searches)
  BY TuningAssumption DEF TuningInv, Running, Now
<1>2. searches \in [1 .. Now -> SearchRecord] /\ DOMAIN searches = 1 .. Now
  BY <1>1
<1>3. searches' \in [1 .. Now -> SearchRecord] /\ searches'[Now] = record
      /\ \A s \in 1 .. Now : s # Now => searches'[s] = searches[s]
  BY <1>1, <1>2
<1>4. searches' \in Seq(SearchRecord) /\ Now' = Now
  BY <1>1, ExceptSeq DEF Now
<1> QED
  BY <1>1, <1>2, <1>3, <1>4 DEF Search, Running

LEMMA RunTrialInv == TuningInv /\ RunTrial => TuningInv'
<1> SUFFICES ASSUME TuningInv, RunTrial PROVE TuningInv'
  OBVIOUS
<1>1. PICK outcome \in Outcomes : searches' = [searches EXCEPT ![Now].trials = Append(@, outcome)]
  BY DEF RunTrial
<1> DEFINE record == [Search EXCEPT !.trials = Append(@, outcome)]
<1>2. Running /\ UNCHANGED preprocessors
  BY DEF RunTrial
<1>3. outcome \in Results
  BY DEF Outcomes, Results
<1>4. Search \in SearchRecord
  BY <1>2, TuningAssumption DEF TuningInv, Running, Search, Now
<1>5. record \in SearchRecord /\ record.how = Search.how
  BY <1>3, <1>4 DEF SearchRecord
<1>6. searches' = [searches EXCEPT ![Now] = record]
  BY <1>1 DEF Search
<1> HIDE DEF record
<1>7. /\ searches' \in Seq(SearchRecord) /\ Now' = Now /\ searches'[Now] = record
      /\ \A s \in 1 .. Now : s # Now => searches'[s] = searches[s]
      /\ Now \in 1 .. Now /\ Now \in Nat /\ Search.how = "running" /\ Search = searches[Now]
  BY <1>2, <1>5, <1>6, SearchGoesOn
<1>8. ASSUME NEW s \in 1 .. Now
      PROVE  /\ searches'[s].how = "running" => s = Now
             /\ BestInv(s)' /\ OwnerInv(s)'
  <2>1. CASE s = Now
    BY <1>5, <1>7, <2>1 DEF BestInv, OwnerInv, Ended
  <2>2. CASE s # Now
    <3>1. searches'[s] = searches[s] /\ BestInv(s)'
      BY <1>7, <2>2 DEF TuningInv, BestInv, Ended
    <3>2. \A r \in 1 .. Now : searches'[r].own = searches[r].own
      BY <1>4, <1>7 DEF record, SearchRecord
    <3>3. OwnerInv(s)'
      <4>1. LastOwner' = LastOwner /\ s .. Now \subseteq 1 .. Now
        BY <1>2, <1>7 DEF LastOwner
      <4> QED
        BY <1>2, <1>7, <3>1, <3>2, <4>1 DEF TuningInv, OwnerInv, Ended
    <3> QED
      BY <1>7, <3>1, <3>3 DEF TuningInv
  <2> QED
    BY <2>1, <2>2
<1> QED
  BY <1>2, <1>7, <1>8 DEF TuningInv

\* The end of the running search: what it found and whose preprocessor it leaves.
LEMMA ConcludeInv == TuningInv /\ Conclude => TuningInv'
<1> SUFFICES ASSUME TuningInv, Conclude PROVE TuningInv'
  OBVIOUS
<1> DEFINE trials == Search.trials
           none   == Completed(trials) = {}
           found  == IF none THEN 0 ELSE BestTrial(trials)
           owner  == IF Search.own THEN Now ELSE Caller
<1>1. /\ Running
      /\ preprocessors' = IF none THEN preprocessors ELSE [preprocessors EXCEPT ![owner] = Now]
  BY DEF Conclude
<1>2. PICK how : /\ searches' = [searches EXCEPT ![Now].how = how, ![Now].best = found]
                 /\ how \in IF trials = <<>> THEN {"no trials"}
                            ELSE IF none THEN {"raised"}
                            ELSE IF Search.good THEN {"tuned"} ELSE {"tuned", "fit raised"}
  BY DEF Conclude
<1>3. /\ searches \in Seq(SearchRecord) /\ Now \in 1 .. Now /\ Now \in 0 .. MaxSearches
      /\ Search = searches[Now] /\ Now \in Nat /\ MaxSearches \in Nat /\ Now = Len(searches)
      /\ preprocessors \in [0 .. MaxSearches -> 0 .. MaxSearches]
  BY <1>1, TuningAssumption DEF TuningInv, Running, Search, Now
<1>4. Search \in SearchRecord /\ trials \in Seq(Results)
  <2>1. Search \in SearchRecord
    BY <1>3, ElementOfSeq
  <2> QED
    BY <2>1 DEF SearchRecord
<1>5. /\ how \in {"no trials", "raised", "tuned", "fit raised"}
      /\ how = "raised" => none
      /\ how \in {"tuned", "fit raised"} <=> ~ none
  <2>1. trials = <<>> => none
    BY DEF Completed
  <2> HIDE DEF none, trials
  <2> QED
    BY <1>2, <2>1
<1>6. /\ found \in Nat
      /\ ~ none => /\ found \in DOMAIN trials
                   /\ \A i \in DOMAIN trials : trials[i] <= trials[found]
  <2>1. CASE none
    BY <2>1
  <2>2. CASE ~ none
    <3>1. BestTrial(trials) \in Completed(trials) /\ \A i \in DOMAIN trials : trials[i] <= trials[BestTrial(trials)]
      BY <1>4, <2>2, BestTrialFacts
    <3>2. DOMAIN trials \subseteq Nat
      BY <1>4
    <3> QED
      BY <2>2, <3>1, <3>2 DEF Completed
  <2> QED
    BY <2>1, <2>2
<1> HIDE DEF found, none
<1> DEFINE record == [Search EXCEPT !.how = how, !.best = found]
<1>7. /\ record \in SearchRecord /\ record.how = how /\ record.best = found
      /\ record.trials = trials /\ record.own = Search.own
  BY <1>4, <1>5, <1>6 DEF SearchRecord, SearchStates
<1>8. searches' = [searches EXCEPT ![Now] = record]
  BY <1>2, <1>3
<1> HIDE DEF record, trials
<1>9. /\ searches' \in Seq(SearchRecord) /\ Now' = Now /\ searches'[Now] = record
      /\ \A s \in 1 .. Now : s # Now => searches'[s] = searches[s]
      /\ Search.how = "running"
  BY <1>1, <1>7, <1>8, SearchGoesOn
<1>10. \A s \in 1 .. Now : searches'[s].own = searches[s].own
  BY <1>3, <1>7, <1>9
<1>11. /\ preprocessors' \in [0 .. MaxSearches -> 0 .. MaxSearches]
       /\ \A s \in 1 .. Now : s # Now => preprocessors'[s] = preprocessors[s]
       /\ ~ none /\ Search.own => preprocessors'[Now] = Now /\ LastOwner' = LastOwner
       /\ ~ none /\ ~ Search.own => LastOwner' = Now
       /\ none => LastOwner' = LastOwner
  <2>1. Caller = 0 /\ Caller \in 0 .. MaxSearches /\ Now # Caller
    BY <1>3 DEF Caller
  <2>2. owner \in 0 .. MaxSearches /\ (Search.own => owner = Now) /\ (~ Search.own => owner = Caller)
    BY <1>3, <2>1
  <2> HIDE DEF owner
  <2>3. CASE none
    BY <1>1, <1>3, <2>3 DEF LastOwner
  <2>4. CASE ~ none
    <3>1. preprocessors' = [preprocessors EXCEPT ![owner] = Now]
      BY <1>1, <2>4
    <3>2. /\ preprocessors' \in [0 .. MaxSearches -> 0 .. MaxSearches]
          /\ \A s \in 0 .. MaxSearches : preprocessors'[s] = IF s = owner THEN Now ELSE preprocessors[s]
      BY <1>3, <2>2, <3>1
    <3>3. \A s \in 1 .. Now : s \in 0 .. MaxSearches /\ s # Caller
      BY <1>3, <2>1
    <3> QED
      BY <1>3, <2>1, <2>2, <2>4, <3>2, <3>3 DEF LastOwner
  <2> QED
    BY <2>3, <2>4
<1>12. ASSUME NEW s \in 1 .. Now
       PROVE  /\ searches'[s].how = "running" => s = Now
              /\ BestInv(s)' /\ OwnerInv(s)'
  <2>1. CASE s = Now
    <3>1. searches'[s].how # "running" /\ (Ended(s)' <=> ~ none) /\ searches'[s].own = Search.own
      BY <1>5, <1>7, <1>9, <2>1 DEF Ended
    <3>2. BestInv(s)'
      BY <1>5, <1>6, <1>7, <1>9, <2>1, <3>1 DEF BestInv, none, trials
    <3>3. OwnerInv(s)'
      <4>1. s \in s .. Now' /\ Now' = s
        BY <1>3, <1>9, <2>1
      <4>2. CASE none
        BY <3>1, <4>2 DEF OwnerInv
      <4>3. CASE ~ none /\ Search.own
        BY <1>11, <2>1, <3>1, <4>3 DEF OwnerInv
      <4>4. CASE ~ none /\ ~ Search.own
        <5>1. LastOwner' = s /\ ~ searches'[LastOwner'].own
          BY <1>11, <2>1, <3>1, <4>4
        <5> QED
          BY <3>1, <4>1, <4>4, <5>1 DEF OwnerInv
      <4> QED
        BY <4>2, <4>3, <4>4
    <3> QED
      BY <3>1, <3>2, <3>3
  <2>2. CASE s # Now
    <3>1. /\ searches'[s] = searches[s] /\ preprocessors'[s] = preprocessors[s]
          /\ s .. Now \subseteq 1 .. Now /\ Now \in s .. Now
      BY <1>3, <1>9, <1>11, <2>2
    <3>2. BestInv(s)' /\ searches'[s].how # "running"
      BY <3>1, <2>2 DEF TuningInv, BestInv, Ended
    <3>3. OwnerInv(s)'
      <4>1. OwnerInv(s)
        BY DEF TuningInv
      <4>2. LastOwner' \in {LastOwner, Now} /\ (LastOwner' = LastOwner \/ ~ Search.own)
        BY <1>11
      <4> QED
        BY <1>3, <1>9, <1>10, <3>1, <4>1, <4>2 DEF OwnerInv, Ended
    <3> QED
      BY <3>2, <3>3
  <2> QED
    BY <2>1, <2>2
<1> QED
  BY <1>3, <1>9, <1>11, <1>12 DEF TuningInv

LEMMA TuningStepInv == TuningInv /\ [TuningNext]_tuningVars => TuningInv'
<1> SUFFICES ASSUME TuningInv, [TuningNext]_tuningVars PROVE TuningInv'
  OBVIOUS
<1>1. CASE RunFlaml \/ RunPyCaret \/ UNCHANGED tuningVars
  <2>1. UNCHANGED <<searches, preprocessors>>
    BY <1>1 DEF RunFlaml, RunPyCaret, Adapter, tuningVars
  <2> QED
    BY <2>1 DEF TuningInv, BestInv, OwnerInv, Ended, LastOwner, Now
<1>2. CASE NextCaller
  <2>1. searches' \in Seq(SearchRecord) /\ Now' = 0 /\ 1 .. Now' = {}
    BY <1>2 DEF NextCaller, Now
  <2>2. preprocessors' \in [0 .. MaxSearches -> 0 .. MaxSearches]
    BY <1>2, TuningAssumption DEF NextCaller, Caller
  <2> QED
    BY <2>1, <2>2, TuningAssumption DEF TuningInv
<1> QED
  BY <1>1, <1>2, StartSearchInv, RunTrialInv, ConcludeInv DEF TuningNext

LEMMA TuningInvariant == TuningSpec => []TuningInv
BY TuningInitInv, TuningStepInv, PTL DEF TuningSpec

\* A search that returns has tried its parameters and nothing better, one that
\* raises has tried nothing that scored, and the preprocessor of a returned
\* pipeline is its own unless the caller handed it over again: for any number
\* of searches, trials and scores.
THEOREM SearchesReturnTheBest == TuningSpec => []SearchesKeepTheirBest
<1>1. TuningInv => SearchesKeepTheirBest
  <2> SUFFICES ASSUME TuningInv, NEW s \in DOMAIN searches
               PROVE  /\ searches[s].how = "tuned" =>
                           /\ \A i \in DOMAIN searches[s].trials :
                                searches[s].trials[i] <= searches[s].trials[searches[s].best]
                           /\ searches[s].own => preprocessors[s] = s
                           /\ ~ searches[s].own /\ preprocessors[Caller] # s =>
                                \E r \in DOMAIN searches : r > s /\ ~ searches[r].own
                      /\ searches[s].how = "raised" =>
                           \A i \in DOMAIN searches[s].trials : searches[s].trials[i] < 0
    BY DEF SearchesKeepTheirBest
  <2>1. /\ searches \in Seq(SearchRecord) /\ s \in 1 .. Now /\ Now \in Nat
        /\ DOMAIN searches = 1 .. Now /\ BestInv(s) /\ OwnerInv(s)
    <3>1. searches \in Seq(SearchRecord) /\ DOMAIN searches = 1 .. Now /\ Now \in Nat
      BY DEF TuningInv, Now
    <3>2. s \in 1 .. Now
      BY <3>1
    <3> QED
      BY <3>1, <3>2 DEF TuningInv
  <2>2. searches[s].trials \in Seq(Results)
    <3>1. searches[s] \in SearchRecord
      BY <2>1, ElementOfSeq DEF Now
    <3> QED
      BY <3>1 DEF SearchRecord
  <2>3. \A i \in DOMAIN searches[s].trials : searches[s].trials[i] \in Int
    BY <2>2, ResultFacts
  <2>4. searches[s].how = "raised" => \A i \in DOMAIN searches[s].trials : searches[s].trials[i] < 0
    BY <2>1, <2>3 DEF BestInv, Completed
  <2>5. ASSUME searches[s].how = "tuned", ~ searches[s].own, preprocessors[Caller] # s
        PROVE  \E q \in DOMAIN searches : q > s /\ ~ searches[q].own
    <3>1. LastOwner \in s .. Now /\ ~ searches[LastOwner].own /\ LastOwner # s
      BY <2>1, <2>5 DEF OwnerInv, Ended, LastOwner
    <3>2. LastOwner \in 1 .. Now /\ LastOwner > s
      BY <2>1, <3>1
    <3> QED
      BY <2>1, <3>1, <3>2
  <2> QED
    BY <2>1, <2>4, <2>5 DEF BestInv, OwnerInv, Ended
<1> QED
  BY <1>1, TuningInvariant, PTL

-----------------------------------------------------------------------------
(* Preprocessing: the target encoder *)

\* Means over rows other than i do not look at the target of i.
LEMMA OthersDecide ==
  ASSUME NEW x, NEW y \in [EncoderRowSet -> {0, 1}], NEW folds, NEW i \in EncoderRowSet
  PROVE  OutOfFold(x, y, folds, i) = OutOfFold(x, [y EXCEPT ![i] = 1 - @], folds, i)
<1> DEFINE z == [y EXCEPT ![i] = 1 - @]
           among == {j \in EncoderRowSet : folds[j] # folds[i]}
<1>1. /\ among \in SUBSET EncoderRowSet /\ i \notin among
      /\ \A j \in among : y[j] \in Int /\ z[j] = y[j]
  OBVIOUS
<1> HIDE DEF z, among
<1>2. \A S \in SUBSET among : SumOver(y, S) = SumOver(z, S)
  <2> SUFFICES ASSUME NEW S \in SUBSET among PROVE SumOver(y, S) = SumOver(z, S)
    OBVIOUS
  <2>1. IsFiniteSet(S)
    BY <1>1, PreprocessingAssumption, FinitePositions DEF EncoderRowSet
  <2>2. Integral(y, S) /\ \A j \in S : y[j] = z[j]
    BY <1>1 DEF Integral
  <2> QED
    BY <2>1, <2>2, SumSame DEF SumOver
<1>3. GlobalMean(y, among) = GlobalMean(z, among)
  <2>1. among \in SUBSET among
    OBVIOUS
  <2> QED
    BY <1>2, <2>1 DEF GlobalMean
<1>4. \A category : Smoothed(x, y, among, category) = Smoothed(x, z, among, category)
  <2> SUFFICES ASSUME NEW category PROVE Smoothed(x, y, among, category) = Smoothed(x, z, among, category)
    OBVIOUS
  <2> DEFINE own == {j \in among : x[j] = category}
  <2>1. own \in SUBSET among /\ among \in SUBSET among
    OBVIOUS
  <2> HIDE DEF own
  <2>2. SumOver(y, own) = SumOver(z, own) /\ SumOver(y, among) = SumOver(z, among)
    BY <1>2, <2>1
  <2> QED
    BY <2>2 DEF Smoothed, own
<1>5. \A value : Mapped(x, y, among, value) = Mapped(x, z, among, value)
  BY <1>3, <1>4 DEF Mapped
<1> QED
  BY <1>5 DEF OutOfFold, z, among

\* A column is encoded row by row.
EncoderInv ==
  coded # NotEncoded =>
    /\ coded.y \in [EncoderRowSet -> {0, 1}]
    /\ coded.codes = [i \in EncoderRowSet |-> OutOfFold(coded.x, coded.y, coded.folds, i)]

LEMMA EncoderStep == EncoderInv /\ [PipelineNext]_pipelineVars => EncoderInv'
<1> SUFFICES ASSUME EncoderInv, [PipelineNext]_pipelineVars PROVE EncoderInv'
  OBVIOUS
<1>1. CASE EncodeTraining
  <2>1. PICK x \in [EncoderRowSet -> Categories \cup {MissingValue}], y \in [EncoderRowSet -> {0, 1}], folds \in Folds :
          coded' = [x |-> x, y |-> y, folds |-> folds,
                    codes |-> [i \in EncoderRowSet |-> OutOfFold(x, y, folds, i)]]
    BY <1>1 DEF EncodeTraining
  <2>2. /\ coded'.x = x /\ coded'.y = y /\ coded'.folds = folds
        /\ coded'.codes = [i \in EncoderRowSet |-> OutOfFold(x, y, folds, i)]
    BY <2>1
  <2> QED
    BY <2>1, <2>2 DEF EncoderInv
<1>2. CASE NextPipeline
  BY <1>2 DEF NextPipeline, EncoderInv, NotEncoded
<1>3. CASE Build \/ FitPipeline \/ Serve \/ UNCHANGED pipelineVars
  <2>1. coded' = coded
    BY <1>3 DEF Build, FitPipeline, Serve, pipelineVars
  <2> QED
    BY <2>1 DEF EncoderInv
<1> QED
  BY <1>1, <1>2, <1>3 DEF PipelineNext

\* "The encoded value of a row must not be computed using its own target": in
\* fit_transform() of the target encoder no code of a training row depends on
\* the row's own target, for any column, split into folds and smoothing.
THEOREM EncodingIsHonest == PipelineSpec => []EncodingHidesOwnTarget
<1>1. PipelineInit => EncoderInv
  BY DEF PipelineInit, EncoderInv
<1>2. EncoderInv => EncodingHidesOwnTarget
  <2> SUFFICES ASSUME EncoderInv, coded # NotEncoded, NEW i \in EncoderRowSet
               PROVE  coded.codes[i] = OutOfFold(coded.x, [coded.y EXCEPT ![i] = 1 - @], coded.folds, i)
    BY DEF EncodingHidesOwnTarget
  <2>1. coded.y \in [EncoderRowSet -> {0, 1}]
        /\ coded.codes[i] = OutOfFold(coded.x, coded.y, coded.folds, i)
    BY DEF EncoderInv
  <2> QED
    BY <2>1, OthersDecide
<1> QED
  BY <1>1, <1>2, EncoderStep, PTL DEF PipelineSpec

-----------------------------------------------------------------------------
(* Reports and the metrics of the leaderboard *)

LEMMA TestsAreFinite ==
  /\ IsFiniteSet(Tests) /\ Cardinality(Tests) = TestRows /\ TestRows \in Nat \ {0}
  /\ \A S \in SUBSET Tests : IsFiniteSet(S) /\ Cardinality(S) \in Nat /\ Cardinality(S) <= TestRows
<1>1. IsFiniteSet(Tests) /\ Cardinality(Tests) = TestRows /\ TestRows \in Nat \ {0}
  BY ReportsAssumption, FS_Interval DEF Tests
<1> QED
  BY <1>1, FinitePositions DEF Tests

\* The confusion report counts all hits, among no more rows than there are.
LEMMA ConfusionCounts ==
  ASSUME NEW truth \in [Tests -> Labels], NEW predicted \in [Tests -> Labels]
  PROVE  LET report   == <<Confusion(truth, predicted).hits, Confusion(truth, predicted).samples>>
             accuracy == AccuracyScore(truth, predicted)
         IN /\ Range(predicted) \subseteq Range(truth) => SameRatio(report, accuracy)
            /\ report[1] * accuracy[2] >= accuracy[1] * report[2]
<1> DEFINE counted == {i \in Tests : truth[i] \in Range(truth) /\ predicted[i] \in Range(truth)}
           hits    == Hits(truth, predicted)
           h       == Cardinality(hits)
           n       == Cardinality(counted)
<1>1. \A i \in Tests : truth[i] \in Range(truth) /\ predicted[i] \in Range(predicted)
  BY DEF Range
<1>2. counted \in SUBSET Tests /\ hits \in SUBSET Tests /\ hits \cap counted = hits
  BY <1>1 DEF Hits
<1>3. Range(predicted) \subseteq Range(truth) => counted = Tests
  BY <1>1
<1>4. /\ Confusion(truth, predicted).hits = Cardinality(hits \cap counted)
      /\ Confusion(truth, predicted).samples = Cardinality(counted)
  BY DEF Confusion, ReportLabels
<1> HIDE DEF counted, hits
<1>5. h \in Nat /\ n \in Nat /\ n <= TestRows /\ TestRows \in Nat
  BY <1>2, TestsAreFinite
<1>6. Confusion(truth, predicted).hits = h /\ Confusion(truth, predicted).samples = n
  BY <1>2, <1>4
<1>7. AccuracyScore(truth, predicted) = <<h, TestRows>>
  BY DEF AccuracyScore, hits
<1>8. Range(predicted) \subseteq Range(truth) => n = TestRows
  BY <1>3, TestsAreFinite
<1> HIDE DEF h, n
<1>9. h * TestRows >= h * n
  <2>1. TestRows - n \in Nat /\ h * TestRows = h * n + h * (TestRows - n)
    BY <1>5
  <2>2. h * (TestRows - n) \in Nat /\ h * n \in Nat
    BY <1>5, <2>1
  <2> QED
    BY <2>1, <2>2
<1> QED
  BY <1>5, <1>6, <1>7, <1>8, <1>9 DEF SameRatio

\* Both ways of computing r2 agree unless all targets are the same.
LEMMA ScoresAgree ==
  ASSUME NEW truth \in [Tests -> 0 .. 2], NEW predicted \in [Tests -> 0 .. 2]
  PROVE  \/ SameRatio(R2Score(truth, predicted), R2Report(truth, predicted))
         \/ Cardinality(Range(truth)) = 1
<1>1. CASE Spread(truth) # 0
  <2>1. R2Score(truth, predicted) = R2Report(truth, predicted)
    BY <1>1 DEF R2Score, R2Report
  <2> HIDE DEF R2Score, R2Report
  <2> QED
    BY <2>1 DEF SameRatio
<1>2. CASE Spread(truth) = 0
  <2>1. Spread(truth) = SpreadOf(truth, Tests)
    BY TestsAreFinite DEF Spread, SpreadOf, Squares, Total, SquareOf
  <2>2. Integral(truth, Tests)
    BY DEF Integral
  <2>3. \A i, j \in Tests : truth[i] = truth[j]
    BY <1>2, <2>1, <2>2, TestsAreFinite, SpreadIsNatural
  <2>4. 1 \in Tests
    BY ReportsAssumption DEF Tests
  <2>5. Range(truth) = {truth[1]}
    BY <2>3, <2>4 DEF Range
  <2> QED
    BY <2>5, FS_Singleton
<1> QED
  BY <1>1, <1>2

LEMMA AnswerAgrees ==
  ASSUME about = Nothing, AboutNext PROVE ReportsAgreeWithMetrics'
<1>1. CASE Classified
  <2>1. PICK truth \in [Tests -> Labels], predicted \in [Tests -> Labels], known \in SUBSET Labels :
          about' = [of |-> "classes", truth |-> truth, predicted |-> predicted,
                    accuracy |-> AccuracyScore(truth, predicted), confusion |-> Confusion(truth, predicted),
                    probabilities |-> WithProbabilities(truth, known), calibrated |-> Calibrated(known)]
    BY <1>1 DEF Classified
  <2>2. /\ about'.of = "classes" /\ about'.truth = truth /\ about'.predicted = predicted
        /\ about'.accuracy = AccuracyScore(truth, predicted) /\ about'.confusion = Confusion(truth, predicted)
    BY <2>1
  <2> QED
    BY <2>2, ConfusionCounts DEF ReportsAgreeWithMetrics
<1>2. CASE Regressed
  <2>1. PICK truth \in [Tests -> 0 .. 2], predicted \in [Tests -> 0 .. 2] :
          about' = [of |-> "numbers", truth |-> truth, predicted |-> predicted,
                    score |-> R2Score(truth, predicted), report |-> R2Report(truth, predicted)]
    BY <1>2 DEF Regressed
  <2>2. /\ about'.of = "numbers" /\ about'.truth = truth
        /\ about'.score = R2Score(truth, predicted) /\ about'.report = R2Report(truth, predicted)
    BY <2>1
  <2> QED
    BY <2>2, ScoresAgree DEF ReportsAgreeWithMetrics
<1>3. ASSUME about'.of \notin {"classes", "numbers"} PROVE ReportsAgreeWithMetrics'
  BY <1>3 DEF ReportsAgreeWithMetrics
<1>4. CASE Importance
  BY <1>3, <1>4 DEF Importance, Nothing
<1>5. CASE ExplainByShap
  BY <1>3, <1>5 DEF ExplainByShap
<1>6. CASE ExplainByLime
  BY <1>3, <1>6 DEF ExplainByLime
<1>7. CASE LoadBundleFile
  BY <1>3, <1>7 DEF LoadBundleFile
<1>8. CASE CheckTrainingData
  BY <1>3, <1>8 DEF CheckTrainingData
<1>9. CASE AlignBatch
  BY <1>3, <1>9 DEF AlignBatch
<1>10. CASE NextAnswer
  BY <1>3, <1>10 DEF NextAnswer, Nothing
<1> QED
  BY <1>1, <1>2, <1>4, <1>5, <1>6, <1>7, <1>8, <1>9, <1>10 DEF AboutNext

\* The confusion report has the accuracy of the leaderboard if no class is
\* predicted that the test set lacks, and never less; the r2 of the regression
\* report is that of the leaderboard unless the target is constant: for any test
\* set, classes and predictions.
THEOREM ReportsAgree == AboutSpec => []ReportsAgreeWithMetrics
<1>1. AboutInit => ReportsAgreeWithMetrics
  BY DEF AboutInit, Nothing, ReportsAgreeWithMetrics
<1>2. ReportsAgreeWithMetrics /\ [AboutNext]_about => ReportsAgreeWithMetrics'
  <2>1. CASE about = Nothing /\ AboutNext
    BY <2>1, AnswerAgrees
  <2>2. CASE NextAnswer
    BY <2>2 DEF NextAnswer, Nothing, ReportsAgreeWithMetrics
  <2>3. CASE UNCHANGED about
    BY <2>3 DEF ReportsAgreeWithMetrics
  <2> QED
    BY <2>1, <2>2, <2>3 DEF AboutNext
<1> QED
  BY <1>1, <1>2, PTL DEF AboutSpec

-----------------------------------------------------------------------------
(* Specialised analyses: numbers derived from the size of the data *)

\* Half of a number, rounded down.
LEMMA Halves == \A n \in Nat : n \div 2 \in Nat /\ 2 * (n \div 2) <= n /\ n < 2 * (n \div 2) + 2
OBVIOUS

\* What is kept back of a series is less than what is left.
LEMMA HeldBackFits ==
  ASSUME NEW points \in Nat, points > 0, NEW holdout \in Nat
  PROVE  LET held == HeldBack(points, holdout)
         IN /\ held \in Nat /\ held <= points /\ held < points - held
            /\ (1 .. points - held) \cap (points - held + 1 .. points) = {}
            /\ (1 .. points - held) \cup (points - held + 1 .. points) = 1 .. points
            /\ Cardinality(points - held + 1 .. points) < Cardinality(1 .. points - held)
<1> DEFINE held == HeldBack(points, holdout)
<1>1. held \in Nat /\ held <= points /\ held < points - held
  BY Halves DEF HeldBack
<1> HIDE DEF held
<1>2. /\ (1 .. points - held) \cap (points - held + 1 .. points) = {}
      /\ (1 .. points - held) \cup (points - held + 1 .. points) = 1 .. points
  BY <1>1
<1>3. Cardinality(1 .. points - held) = points - held
  <2>1. points - held \in Nat
    BY <1>1
  <2> QED
    BY <1>1, <2>1, FS_Interval
<1>4. Cardinality(points - held + 1 .. points) = held
  <2>1. points - held + 1 \in Int /\ points \in Int
    BY <1>1
  <2>2. Cardinality(points - held + 1 .. points) =
          IF points - held + 1 > points THEN 0 ELSE points - (points - held + 1) + 1
    BY <2>1, FS_Interval
  <2> QED
    BY <1>1, <2>2
<1>5. Cardinality(points - held + 1 .. points) < Cardinality(1 .. points - held)
  BY <1>1, <1>3, <1>4
<1> QED
  BY <1>1, <1>2, <1>5 DEF held

\* The inferred period goes into four points and more twice.
LEMMA PeriodFits == InferredPeriodFits
<1> SUFFICES ASSUME NEW points \in Sizes, NEW values \in ValueRanges,
                    NEW model \in {"additive", "multiplicative"},
                    points >= 4, ~ CannotDecompose(values, model)
             PROVE  Decomposition("distinct", points, 0, values, model).how = "report"
  BY DEF InferredPeriodFits
<1>1. points \in Nat
  BY AnalyticsAssumption
<1> DEFINE period == InferredPeriod(points)
<1>2. period \in Nat /\ 2 * period <= points
  BY <1>1, Halves DEF InferredPeriod, Least, Greatest
<1> HIDE DEF period
<1>3. ~ SeriesRefused("distinct", points)
  BY <1>1 DEF SeriesRefused
<1>4. Decomposition("distinct", points, 0, values, model)
        = Found([kind |-> "decomposition", points |-> points, period |-> period])
  BY <1>1, <1>2, <1>3 DEF Decomposition, period
<1> QED
  BY <1>4 DEF Found

\* Answers that are neither forecasts, topics nor recommendations promise nothing.
LEMMA QuietAnswer ==
  ASSUME \/ analysis'.how \notin {"report", "raised"}
         \/ analysis'.how = "report" /\ analysis'.of.kind \notin {"forecast", "topics", "users"}
         \/ analysis'.how = "raised" /\ analysis'.of.kind \notin {"kmeans", "dbscan"}
  PROVE  AnalysesFitTheData'
BY PeriodFits
   DEF AnalysesFitTheData, HoldoutIsUnseen, DerivedNumbersFit, RecommendationsAreMeans, Reported,
       FewerTopicsThanDocuments, ClusteringRaisesAtEdgesOnly, InferredPeriodFits

LEMMA Refusals ==
  ASSUME analysis' \in {NoAnalysis, SchemaError, AnalyticsError} PROVE AnalysesFitTheData'
BY QuietAnswer DEF NoAnalysis, SchemaError, AnalyticsError

LEMMA ForecastFits == Forecast => AnalysesFitTheData'
<1> SUFFICES ASSUME Forecast PROVE AnalysesFitTheData'
  OBVIOUS
<1>1. PICK method \in {"arima", "prophet", "other"}, columns \in ColumnChoices, points \in Sizes,
           order \in Orders, holdout \in Holdouts, horizon \in Horizons :
        analysis' \in Forecasts(method, columns, points, order, holdout, horizon)
  BY DEF Forecast
<1>2. points \in Nat /\ holdout \in Nat /\ order \in Nat
  BY AnalyticsAssumption
<1>3. \/ analysis' \in {SchemaError, AnalyticsError, Raised([kind |-> "prophet"])}
      \/ points >= 10 /\ analysis' = ForecastReport(points, holdout, horizon)
  <2>1. CASE method = "arima"
    <3>1. analysis' \in ArimaForecasts(columns, points, order, holdout, horizon)
      BY <1>1, <2>1 DEF Forecasts
    <3>2. points >= Greatest(10, order + 5) => points >= 10
      BY <1>2 DEF Greatest
    <3>3. points < Greatest(10, order + 5) \/ points >= Greatest(10, order + 5)
      BY <1>2 DEF Greatest
    <3> QED
      BY <3>1, <3>2, <3>3 DEF ArimaForecasts
  <2>2. CASE method = "prophet"
    <3>1. PICK i \in BOOLEAN : analysis' \in ProphetForecasts(i, columns, points, holdout, horizon)
      BY <1>1, <2>2 DEF Forecasts
    <3>2. points < 10 \/ points >= 10
      BY <1>2
    <3> QED
      BY <3>1, <3>2 DEF ProphetForecasts
  <2>3. CASE method = "other"
    BY <1>1, <2>3 DEF Forecasts
  <2> QED
    BY <2>1, <2>2, <2>3
<1>4. CASE analysis' \in {SchemaError, AnalyticsError}
  BY <1>4, Refusals
<1>5. CASE analysis' = Raised([kind |-> "prophet"])
  BY <1>5, QuietAnswer DEF Raised
<1>6. CASE points >= 10 /\ analysis' = ForecastReport(points, holdout, horizon)
  <2> DEFINE held == HeldBack(points, holdout)
  <2>1. /\ analysis'.how = "report" /\ analysis'.of.kind = "forecast"
        /\ analysis'.of.points = points /\ analysis'.of.train = 1 .. points - held
        /\ analysis'.of.test = points - held + 1 .. points
        /\ analysis'.of.measured = points - held + 1 .. points
    BY <1>6 DEF ForecastReport, Found
  <2>2. /\ (1 .. points - held) \cap (points - held + 1 .. points) = {}
        /\ (1 .. points - held) \cup (points - held + 1 .. points) = 1 .. points
        /\ Cardinality(points - held + 1 .. points) < Cardinality(1 .. points - held)
    <3>1. points > 0
      BY <1>2, <1>6
    <3> QED
      BY <1>2, <3>1, HeldBackFits
  <2> HIDE DEF held
  <2>3. HoldoutIsUnseen'
    BY <2>1, <2>2 DEF HoldoutIsUnseen
  <2>4. DerivedNumbersFit' /\ RecommendationsAreMeans'
    BY <2>1, PeriodFits
       DEF DerivedNumbersFit, RecommendationsAreMeans, Reported, FewerTopicsThanDocuments,
           ClusteringRaisesAtEdgesOnly, InferredPeriodFits
  <2> QED
    BY <2>3, <2>4 DEF AnalysesFitTheData
<1> QED
  BY <1>3, <1>4, <1>5, <1>6

LEMMA TopicsFit == Topics => AnalysesFitTheData'
<1> SUFFICES ASSUME Topics PROVE AnalysesFitTheData'
  OBVIOUS
<1>1. PICK known \in BOOLEAN, documents \in Sizes, asked \in Wanted, words \in {0, 1, 2} :
        analysis' = IF ~ known \/ documents < 3 THEN SchemaError
                    ELSE IF words = 0 THEN Raised([kind |-> "topics"])
                    ELSE Found([kind |-> "topics", topics |-> TopicCount(asked, documents),
                                documents |-> documents])
  BY DEF Topics
<1>2. documents \in Nat /\ asked \in Nat
  BY AnalyticsAssumption
<1>3. CASE analysis' = SchemaError
  BY <1>3, Refusals
<1>4. CASE analysis' = Raised([kind |-> "topics"])
  BY <1>4, QuietAnswer DEF Raised
<1>5. CASE /\ ~ (documents < 3)
           /\ analysis' = Found([kind |-> "topics", topics |-> TopicCount(asked, documents),
                                 documents |-> documents])
  <2>1. TopicCount(asked, documents) < documents
    BY <1>2, <1>5 DEF TopicCount, Greatest, Least
  <2>2. /\ analysis'.how = "report" /\ analysis'.of.kind = "topics"
        /\ analysis'.of.topics < analysis'.of.documents
    BY <1>5, <2>1 DEF Found
  <2> QED
    BY <2>2, PeriodFits
       DEF AnalysesFitTheData, HoldoutIsUnseen, DerivedNumbersFit, RecommendationsAreMeans, Reported,
           FewerTopicsThanDocuments, ClusteringRaisesAtEdgesOnly, InferredPeriodFits
<1> QED
  BY <1>1, <1>3, <1>4, <1>5

\* What a clustering answers.
LEMMA ClusteringFits ==
  ASSUME NEW kind \in {"kmeans", "dbscan"}, NEW asked, NEW table, NEW labels, NEW measured, NEW projected,
         analysis' = Clustering(kind, asked, table, labels, measured, projected),
         SilhouetteFails(labels, measured) => asked = IF kind = "kmeans" THEN table.size ELSE 1
  PROVE  AnalysesFitTheData'
<1> DEFINE raises == ScalerFails(table) \/ SilhouetteFails(labels, measured) \/ projected = "raised"
<1>1. CASE raises
  <2>1. /\ analysis'.how = "raised" /\ analysis'.of.kind = kind /\ analysis'.of.table = table
        /\ analysis'.of.asked = asked /\ analysis'.of.projected = projected
    BY <1>1 DEF Clustering, Raised
  <2>2. ClusteringRaisesAtEdgesOnly'
    BY <1>1, <2>1 DEF ClusteringRaisesAtEdgesOnly, ScalerFails
  <2>3. ~ (Reported("forecast") \/ Reported("topics") \/ Reported("users"))'
    BY <2>1 DEF Reported
  <2> QED
    BY <2>2, <2>3, PeriodFits
       DEF AnalysesFitTheData, HoldoutIsUnseen, DerivedNumbersFit, RecommendationsAreMeans,
           FewerTopicsThanDocuments, InferredPeriodFits
<1>2. CASE ~ raises /\ projected = "refused"
  <2>1. analysis' = AnalyticsError
    BY <1>2 DEF Clustering
  <2> QED
    BY <2>1, Refusals
<1>3. CASE ~ raises /\ projected # "refused"
  <2>1. analysis'.how = "report" /\ analysis'.of.kind = kind
    BY <1>3 DEF Clustering, Found
  <2> QED
    BY <2>1, QuietAnswer
<1> QED
  BY <1>1, <1>2, <1>3

LEMMA KMeansFits == KMeans => AnalysesFitTheData'
<1> SUFFICES ASSUME KMeans PROVE AnalysesFitTheData'
  OBVIOUS
<1>1. PICK table \in FeatureTables, k \in Wanted, method \in ProjectionMethods :
      \E different \in 1 .. Greatest(1, table.size), projected \in Projections(method, table.size) :
        analysis' = IF ~ table.known THEN SchemaError
                    ELSE IF KMeansRefuses(table.size, k) THEN AnalyticsError
                    ELSE Clustering("kmeans", k, table, Least(k, different), table.size, projected)
  BY DEF KMeans
<1>2. PICK different \in 1 .. Greatest(1, table.size), projected \in Projections(method, table.size) :
        analysis' = IF ~ table.known THEN SchemaError
                    ELSE IF KMeansRefuses(table.size, k) THEN AnalyticsError
                    ELSE Clustering("kmeans", k, table, Least(k, different), table.size, projected)
  BY <1>1
<1>3. CASE analysis' \in {SchemaError, AnalyticsError}
  BY <1>3, Refusals
<1>4. CASE /\ ~ KMeansRefuses(table.size, k)
           /\ analysis' = Clustering("kmeans", k, table, Least(k, different), table.size, projected)
  <2>1. table.size \in Nat /\ k \in Nat /\ different \in Nat
    BY AnalyticsAssumption DEF Greatest, FeatureTables
  <2>2. SilhouetteFails(Least(k, different), table.size) => k = table.size
    BY <1>4, <2>1 DEF SilhouetteFails, Least, KMeansRefuses
  <2> QED
    BY <1>4, <2>2, ClusteringFits
<1> QED
  BY <1>2, <1>3, <1>4

LEMMA DBSCANFits == DBSCAN => AnalysesFitTheData'
<1> SUFFICES ASSUME DBSCAN PROVE AnalysesFitTheData'
  OBVIOUS
<1> DEFINE Answered(table, samples, labels, labelled, projected) ==
             /\ labels > 0 => labelled >= samples + labels - 1
             /\ analysis' = IF ~ table.known THEN SchemaError
                            ELSE IF table.size < samples THEN AnalyticsError
                            ELSE Clustering("dbscan", samples, table, labels, labelled, projected)
<1>1. PICK table \in FeatureTables, samples \in Wanted, method \in ProjectionMethods :
      \E projected \in Projections(method, table.size), labelled \in 0 .. table.size :
      \E labels \in 0 .. labelled : Answered(table, samples, labels, labelled, projected)
  BY DEF DBSCAN
<1>2. PICK projected \in Projections(method, table.size), labelled \in 0 .. table.size :
      \E labels \in 0 .. labelled : Answered(table, samples, labels, labelled, projected)
  BY <1>1
<1>3. PICK labels \in 0 .. labelled : Answered(table, samples, labels, labelled, projected)
  BY <1>2
<1>4. CASE analysis' \in {SchemaError, AnalyticsError}
  BY <1>4, Refusals
<1>5. CASE analysis' = Clustering("dbscan", samples, table, labels, labelled, projected)
  <2>1. labels \in Nat /\ labelled \in Nat /\ samples \in Nat \ {0}
    BY AnalyticsAssumption
  <2>2. SilhouetteFails(labels, labelled) => samples = 1
    BY <1>3, <2>1 DEF SilhouetteFails
  <2> QED
    BY <1>5, <2>2, ClusteringFits
<1> QED
  BY <1>3, <1>4, <1>5

-----------------------------------------------------------------------------
(* Specialised analyses: recommendations are weighted means *)

\* A weighted mean lies between the least and the greatest of the values.
LEMMA MeanLiesBetween ==
  ASSUME NEW S, IsFiniteSet(S), S # {}, NEW weight, NEW value,
         \A x \in S : weight[x] \in Nat /\ value[x] \in Nat
  PROVE  LET total == SumFunctionOnSet(weight, S)
             votes == SumFunctionOnSet([x \in S |-> weight[x] * value[x]], S)
         IN \E v, w \in S : value[v] * total <= votes /\ value[w] * total >= votes
<1> DEFINE product == [x \in S |-> weight[x] * value[x]]
           total   == SumFunctionOnSet(weight, S)
           votes   == SumFunctionOnSet(product, S)
           values  == {value[x] : x \in S}
<1>1. Integral(weight, S) /\ Integral(product, S)
  BY DEF Integral
<1>2. /\ values \in SUBSET Nat /\ values \in SUBSET Int /\ values # {} /\ IsFiniteSet(values)
  <2> DEFINE named == [x \in S |-> value[x]]
  <2>1. named \in [S -> Nat] /\ values = {named[x] : x \in S} /\ values \in SUBSET Nat /\ values # {}
    OBVIOUS
  <2> HIDE DEF named, values
  <2>2. IsFiniteSet({named[x] : x \in S})
    BY <2>1, FiniteImage
  <2> QED
    BY <2>1, <2>2
<1>3. PICK v \in S : \A x \in S : value[v] <= value[x]
  <2>1. PICK least \in values : \A other \in values : least <= other
    <3> HIDE DEF values
    <3> QED
      BY <1>2, LeastMember
  <2> QED
    BY <2>1
<1>4. PICK w \in S : \A x \in S : value[x] <= value[w]
  <2>1. PICK greatest \in values : \A other \in values : other <= greatest
    <3> HIDE DEF values
    <3> QED
      BY <1>2, GreatestMember
  <2> QED
    BY <2>1
\* The votes if everyone had voted c.
<1>5. ASSUME NEW c \in Nat
      PROVE  /\ Integral([x \in S |-> weight[x] * c], S)
             /\ SumFunctionOnSet([x \in S |-> weight[x] * c], S) = c * total
  <2> DEFINE same == [x \in S |-> weight[x] * c]
  <2>1. Integral(same, S)
    BY DEF Integral
  <2>2. c \in Int /\ 0 \in Int /\ \A x \in S : same[x] = c * weight[x] + 0 * weight[x]
    <3> SUFFICES ASSUME NEW x \in S PROVE same[x] = c * weight[x] + 0 * weight[x]
      OBVIOUS
    <3> DEFINE n == weight[x]
    <3>1. n \in Nat /\ same[x] = n * c
      OBVIOUS
    <3> HIDE DEF n, same
    <3> QED
      BY <3>1 DEF n
  <2>3. total \in Int
    BY <1>1, SumType
  <2> HIDE DEF same
  <2>4. SumFunctionOnSet(same, S) = c * total + 0 * total
    BY <1>1, <2>2, SumLinear
  <2> HIDE DEF total
  <2>5. c * total + 0 * total = c * total
    BY <2>3
  <2> QED
    BY <2>1, <2>4, <2>5 DEF same
<1>6. value[v] * total <= votes
  <2> DEFINE same == [x \in S |-> weight[x] * value[v]]
  <2>1. \A x \in S : same[x] <= product[x]
    <3> SUFFICES ASSUME NEW x \in S PROVE weight[x] * value[v] <= weight[x] * value[x]
      OBVIOUS
    <3>1. weight[x] \in Nat /\ value[v] \in Nat /\ value[x] \in Nat /\ value[v] <= value[x]
      BY <1>3
    <3>2. \A p, q, r \in Nat : q <= r => p * q <= p * r
      <4> SUFFICES ASSUME NEW p \in Nat, NEW q \in Nat, NEW r \in Nat, q <= r PROVE p * q <= p * r
        OBVIOUS
      <4>1. r - q \in Nat /\ p * r = p * q + p * (r - q)
        OBVIOUS
      <4>2. p * (r - q) \in Nat /\ p * q \in Nat /\ p * r \in Nat
        BY <4>1
      <4> QED
        BY <4>1, <4>2
    <3> QED
      BY <3>1, <3>2
  <2>2. value[v] \in Nat
    OBVIOUS
  <2>3. Integral(same, S) /\ SumFunctionOnSet(same, S) = value[v] * total
    BY <1>5, <2>2
  <2> HIDE DEF same, product
  <2>4. SumFunctionOnSet(same, S) <= votes
    BY <1>1, <2>1, <2>3, SumMonotone
  <2> QED
    BY <2>3, <2>4
<1>7. value[w] * total >= votes
  <2> DEFINE same == [x \in S |-> weight[x] * value[w]]
  <2>1. \A x \in S : product[x] <= same[x]
    <3> SUFFICES ASSUME NEW x \in S PROVE weight[x] * value[x] <= weight[x] * value[w]
      OBVIOUS
    <3>1. weight[x] \in Nat /\ value[w] \in Nat /\ value[x] \in Nat /\ value[x] <= value[w]
      BY <1>4
    <3>2. \A p, q, r \in Nat : q <= r => p * q <= p * r
      <4> SUFFICES ASSUME NEW p \in Nat, NEW q \in Nat, NEW r \in Nat, q <= r PROVE p * q <= p * r
        OBVIOUS
      <4>1. r - q \in Nat /\ p * r = p * q + p * (r - q)
        OBVIOUS
      <4>2. p * (r - q) \in Nat /\ p * q \in Nat /\ p * r \in Nat
        BY <4>1
      <4> QED
        BY <4>1, <4>2
    <3> QED
      BY <3>1, <3>2
  <2>2. value[w] \in Nat
    OBVIOUS
  <2>3. Integral(same, S) /\ SumFunctionOnSet(same, S) = value[w] * total
    BY <1>5, <2>2
  <2>4. votes \in Int /\ value[w] * total \in Int
    <3>1. votes \in Int /\ SumFunctionOnSet(same, S) \in Int
      BY <1>1, <2>3, SumType
    <3> QED
      BY <2>3, <3>1
  <2> HIDE DEF same, product
  <2>5. votes <= SumFunctionOnSet(same, S)
    BY <1>1, <2>1, <2>3, SumMonotone
  <2> HIDE DEF votes
  <2>6. votes <= value[w] * total
    BY <2>3, <2>5
  <2> QED
    BY <2>4, <2>6
<1> QED
  BY <1>6, <1>7

\* What a user is recommended.
LEMMA CollaborativeFits ==
  ASSUME NEW m \in Matrices, NEW u \in Users, NEW s \in Similarities(m, u),
         analysis' = Collaborative(m, u, s)
  PROVE  AnalysesFitTheData'
<1>1. CASE analysis' \in {SchemaError, AnalyticsError}
  BY <1>1, Refusals
<1>2. CASE analysis' \notin {SchemaError, AnalyticsError}
  <2> DEFINE items == {i \in Candidates(m, u, s) : Weight(m, s, i) >= Certain}
  <2>1. analysis' = Found([kind |-> "users", matrix |-> m, user |-> u, similar |-> s, items |-> items])
    BY <1>2 DEF Collaborative
  <2>2. /\ analysis'.how = "report" /\ analysis'.of.kind = "users" /\ analysis'.of.matrix = m
        /\ analysis'.of.user = u /\ analysis'.of.similar = s /\ analysis'.of.items = items
    BY <2>1 DEF Found
  <2>3. s \in [Rows(m) \ {u} -> 0 .. Certain] /\ Rows(m) \subseteq Users
    BY DEF Similarities, Rows
  <2>4. ASSUME NEW i \in items
        PROVE  /\ m[<<u, i>>] = Unrated
               /\ \E v, w \in Raters(m, s, i) :
                    /\ m[<<v, i>>] * Weight(m, s, i) <= Votes(m, s, i)
                    /\ m[<<w, i>>] * Weight(m, s, i) >= Votes(m, s, i)
    <3> DEFINE S == Raters(m, s, i)
               value == [v \in S |-> m[<<v, i>>]]
    <3>1. PICK rater \in DOMAIN s : s[rater] > 0 /\ i \in Rated(m, rater)
      BY DEF Candidates
    <3>2. i \in Items /\ i \notin Rated(m, u) /\ rater \in S
      BY <3>1 DEF Candidates, Rated, Raters
    <3>3. S \subseteq Users /\ IsFiniteSet(S) /\ S # {}
      <4>1. S \subseteq Users
        BY <2>3 DEF Raters
      <4> QED
        BY <3>2, <4>1, AnalyticsAssumption, FS_Subset
    <3>4. \A v \in S : s[v] \in Nat /\ m[<<v, i>>] \in Nat
      <4> SUFFICES ASSUME NEW v \in S PROVE s[v] \in Nat /\ m[<<v, i>>] \in Nat
        OBVIOUS
      <4>1. v \in Users /\ v \in DOMAIN s /\ m[<<v, i>>] # Unrated
        BY <3>3 DEF Raters
      <4>2. <<v, i>> \in Users \X Items
        BY <3>2, <4>1
      <4>3. m[<<v, i>>] \in Ratings \cup {Unrated}
        BY <4>2 DEF Matrices
      <4>4. Ratings \subseteq Nat /\ Certain \in Nat
        BY AnalyticsAssumption
      <4>5. s[v] \in 0 .. Certain
        BY <2>3, <4>1
      <4>6. m[<<v, i>>] \in Nat
        BY <4>1, <4>3, <4>4
      <4> HIDE DEF value
      <4>7. s[v] \in Nat
        BY <4>4, <4>5
      <4> QED
        BY <4>6, <4>7
    <3> HIDE DEF S
    <3>5. \A v \in S : s[v] \in Nat /\ value[v] \in Nat /\ value[v] = m[<<v, i>>]
      BY <3>4
    <3>6. [v \in S |-> s[v] * value[v]] = [v \in S |-> s[v] * m[<<v, i>>]]
      BY <3>5
    <3> HIDE DEF value
    <3>7. \E v, w \in S :
            /\ value[v] * SumFunctionOnSet(s, S) <= SumFunctionOnSet([x \in S |-> s[x] * value[x]], S)
            /\ value[w] * SumFunctionOnSet(s, S) >= SumFunctionOnSet([x \in S |-> s[x] * value[x]], S)
      BY <3>3, <3>5, MeanLiesBetween
    <3>8. /\ Weight(m, s, i) = SumFunctionOnSet(s, S)
          /\ Votes(m, s, i) = SumFunctionOnSet([x \in S |-> s[x] * value[x]], S)
      BY <3>6 DEF Weight, Votes, S
    <3>9. m[<<u, i>>] = Unrated
      BY <3>2 DEF Rated
    <3> QED
      BY <3>5, <3>7, <3>8, <3>9 DEF S
  <2>5. RecommendationsAreMeans'
    BY <2>2, <2>4 DEF RecommendationsAreMeans
  <2>6. HoldoutIsUnseen' /\ DerivedNumbersFit'
    BY <2>2, PeriodFits
       DEF HoldoutIsUnseen, DerivedNumbersFit, Reported, FewerTopicsThanDocuments, ClusteringRaisesAtEdgesOnly,
           InferredPeriodFits
  <2> QED
    BY <2>5, <2>6 DEF AnalysesFitTheData
<1> QED
  BY <1>1, <1>2

LEMMA RecommendByUsersFits == RecommendByUsers => AnalysesFitTheData'
<1> SUFFICES ASSUME RecommendByUsers PROVE AnalysesFitTheData'
  OBVIOUS
<1>1. PICK m \in Matrices, u \in Users : \E lines \in TableLengthsOf(m), s \in Similarities(m, u) :
        analysis' = IF SqueezedToScalars(lines) THEN Raised([kind |-> "users"])
                    ELSE IF Rows(m) = {} THEN SchemaError
                    ELSE Collaborative(m, u, s)
  BY DEF RecommendByUsers
<1>2. PICK lines \in TableLengthsOf(m), s \in Similarities(m, u) :
        analysis' = IF SqueezedToScalars(lines) THEN Raised([kind |-> "users"])
                    ELSE IF Rows(m) = {} THEN SchemaError
                    ELSE Collaborative(m, u, s)
  BY <1>1
<1>3. CASE analysis' = Raised([kind |-> "users"])
  BY <1>3, QuietAnswer DEF Raised
<1>4. CASE analysis' = SchemaError
  BY <1>4, Refusals
<1>5. CASE analysis' = Collaborative(m, u, s)
  BY <1>5, CollaborativeFits
<1> QED
  BY <1>2, <1>3, <1>4, <1>5

\* The other analyses answer with numbers the property does not speak of.
LEMMA OtherAnalyses ==
  \/ Decompose \/ DetectIsolationForest \/ DetectOneClassSVM \/ Sentiment \/ Embeddings \/ SentenceEmbeddings
  \/ RecommendByItems \/ NextAnalysis
  => AnalysesFitTheData'
<1>1. CASE Decompose
  <2>1. \/ analysis' \in {SchemaError, AnalyticsError}
        \/ analysis'.how = "report" /\ analysis'.of.kind = "decomposition"
        \/ analysis'.how = "raised" /\ analysis'.of.kind = "decomposition"
    BY <1>1 DEF Decompose, Decomposition, Found, Raised
  <2> QED
    BY <2>1, Refusals, QuietAnswer
<1>2. CASE DetectIsolationForest
  <2>1. \/ analysis' \in {SchemaError, AnalyticsError}
        \/ analysis'.how = "report" /\ analysis'.of.kind = "isolation_forest"
        \/ analysis'.how = "raised" /\ analysis'.of.kind = "isolation_forest"
    BY <1>2 DEF DetectIsolationForest, Detection, Found, Raised
  <2> QED
    BY <2>1, Refusals, QuietAnswer
<1>3. CASE DetectOneClassSVM
  <2>1. \/ analysis' \in {SchemaError, AnalyticsError}
        \/ analysis'.how = "report" /\ analysis'.of.kind = "one_class_svm"
        \/ analysis'.how = "raised" /\ analysis'.of.kind = "one_class_svm"
    BY <1>3 DEF DetectOneClassSVM, Detection, Found, Raised
  <2> QED
    BY <2>1, Refusals, QuietAnswer
<1>4. CASE Sentiment
  <2>1. \/ analysis' \in {SchemaError, AnalyticsError}
        \/ analysis'.how = "report" /\ analysis'.of.kind = "sentiment"
    BY <1>4 DEF Sentiment, Found
  <2> QED
    BY <2>1, Refusals, QuietAnswer
<1>5. CASE Embeddings
  <2>1. \/ analysis' \in {SchemaError, AnalyticsError}
        \/ analysis'.how = "report" /\ analysis'.of.kind = "embeddings"
        \/ analysis'.how = "raised" /\ analysis'.of.kind = "embeddings"
    BY <1>5 DEF Embeddings, Found, Raised
  <2> QED
    BY <2>1, Refusals, QuietAnswer
<1>6. CASE SentenceEmbeddings
  <2>1. \/ analysis' \in {SchemaError, AnalyticsError}
        \/ analysis'.how = "report" /\ analysis'.of.kind = "embeddings"
    BY <1>6 DEF SentenceEmbeddings, Found
  <2> QED
    BY <2>1, Refusals, QuietAnswer
<1>7. CASE RecommendByItems
  <2>1. \/ analysis' \in {SchemaError, AnalyticsError}
        \/ analysis'.how = "report" /\ analysis'.of.kind = "items"
        \/ analysis'.how = "raised" /\ analysis'.of.kind = "items"
    BY <1>7 DEF RecommendByItems, Found, Raised
  <2> QED
    BY <2>1, Refusals, QuietAnswer
<1>8. CASE NextAnalysis
  BY <1>8, Refusals DEF NextAnalysis
<1> QED
  BY <1>1, <1>2, <1>3, <1>4, <1>5, <1>6, <1>7, <1>8

\* The error of a forecast is measured on points the model was not trained on,
\* which are fewer; a series its model can take is decomposed with the inferred
\* period, there are fewer topics than documents, and on finite cells a
\* clustering fails at its edges, or inside umap, only; and what a user is
\* recommended was rated by others like them, with a prediction between their
\* ratings: for tables of any size, any ratings and similarities.
THEOREM AnalysesFit == AnalyticsSpec => []AnalysesFitTheData
<1>1. AnalyticsInit => AnalysesFitTheData
  <2> SUFFICES ASSUME AnalyticsInit PROVE AnalysesFitTheData
    OBVIOUS
  <2> QED
    BY PeriodFits
       DEF AnalyticsInit, NoAnalysis, AnalysesFitTheData, HoldoutIsUnseen, DerivedNumbersFit,
           RecommendationsAreMeans, Reported, FewerTopicsThanDocuments, ClusteringRaisesAtEdgesOnly,
           InferredPeriodFits
<1>2. AnalysesFitTheData /\ [AnalyticsNext]_analysis => AnalysesFitTheData'
  <2>1. AnalyticsNext => AnalysesFitTheData'
    BY ForecastFits, KMeansFits, DBSCANFits, TopicsFit, RecommendByUsersFits, OtherAnalyses DEF AnalyticsNext
  <2>2. AnalysesFitTheData /\ UNCHANGED analysis => AnalysesFitTheData'
    BY DEF AnalysesFitTheData, HoldoutIsUnseen, DerivedNumbersFit,
           RecommendationsAreMeans, Reported, FewerTopicsThanDocuments, ClusteringRaisesAtEdgesOnly,
           InferredPeriodFits
  <2> QED
    BY <2>1, <2>2
<1> QED
  BY <1>1, <1>2, PTL DEF AnalyticsSpec

-----------------------------------------------------------------------------
(* Preprocessing: sequences of columns *)

\* Picking elements of a sequence leaves those that are picked.
LEMMA KeepFacts ==
  ASSUME NEW T, NEW cols \in Seq(T), NEW kept
  PROVE  /\ Only(cols, kept) \in Seq(T)
         /\ Range(Only(cols, kept)) = Range(cols) \cap kept
<1> DEFINE n       == Len(cols)
           Unfold(p) == p = [i \in 0 .. n |->
                               IF i = 0 THEN <<>>
                               ELSE IF cols[i] \in kept THEN Append(p[i - 1], cols[i]) ELSE p[i - 1]]
           picked  == CHOOSE p : Unfold(p)
           next    == [i \in 1 .. n |-> [q \in Seq(T) |-> IF cols[i] \in kept THEN Append(q, cols[i]) ELSE q]]
<1>1. n \in Nat /\ cols \in [1 .. n -> T]
  OBVIOUS
<1>2. \E p : Unfold(p)
  <2>1. next \in [1 .. n -> [Seq(T) -> Seq(T)]]
    BY <1>1
  <2>2. <<>> \in Seq(T)
    OBVIOUS
  <2>3. \A i \in 1 .. n : \A q \in Seq(T) : next[i][q] = IF cols[i] \in kept THEN Append(q, cols[i]) ELSE q
    OBVIOUS
  <2> HIDE DEF next
  <2>4. PICK f \in [0 .. n -> Seq(T)] : Follows(f, n, <<>>, next)
    <3> DEFINE S == Seq(T)
               none == <<>>
    <3>1. n \in Nat /\ next \in [1 .. n -> [S -> S]] /\ none \in S
      BY <1>1, <2>1, <2>2
    <3> HIDE DEF n, S, none
    <3>2. \E f \in [0 .. n -> S] : Follows(f, n, none, next)
      BY <3>1, Recursion
    <3> QED
      BY <3>2 DEF S, none
  <2>5. \A i \in 0 .. n : f[i] = IF i = 0 THEN <<>>
                                 ELSE IF cols[i] \in kept THEN Append(f[i - 1], cols[i]) ELSE f[i - 1]
    <3> SUFFICES ASSUME NEW i \in 0 .. n
                 PROVE  f[i] = IF i = 0 THEN <<>>
                               ELSE IF cols[i] \in kept THEN Append(f[i - 1], cols[i]) ELSE f[i - 1]
      OBVIOUS
    <3>1. CASE i = 0
      BY <2>4, <3>1 DEF Follows
    <3>2. CASE i # 0
      <4>1. i \in 1 .. n /\ i - 1 \in 0 .. n
        BY <1>1, <3>2
      <4>2. f[i] = next[i][f[i - 1]] /\ f[i - 1] \in Seq(T)
        BY <2>4, <3>2, <4>1 DEF Follows
      <4> QED
        BY <2>3, <3>2, <4>1, <4>2
    <3> QED
      BY <3>1, <3>2
  <2>6. f = [i \in 0 .. n |-> f[i]]
    OBVIOUS
  <2>7. Unfold(f)
    BY <2>5, <2>6
  <2> QED
    BY <2>7
<1>3. Unfold(picked)
  BY <1>2
<1>4. Only(cols, kept) = picked[n]
  BY DEF Only
<1> HIDE DEF picked
<1>5. /\ picked[0] = <<>>
      /\ \A i \in 1 .. n : picked[i] = IF cols[i] \in kept THEN Append(picked[i - 1], cols[i]) ELSE picked[i - 1]
  <2>1. \A i \in 0 .. n : picked[i] = IF i = 0 THEN <<>>
                                      ELSE IF cols[i] \in kept THEN Append(picked[i - 1], cols[i]) ELSE picked[i - 1]
    BY <1>3
  <2> QED
    BY <1>1, <2>1
<1> DEFINE Upto(i) == {cols[j] : j \in 1 .. i}
           Good == {i \in 0 .. n : /\ picked[i] \in Seq(T)
                                   /\ Range(picked[i]) = Upto(i) \cap kept}
<1>6. 0 \in Good
  <2>1. <<>> \in Seq(T) /\ Range(<<>>) = {}
    BY DEF Range
  <2>2. Upto(0) = {} /\ 0 \in 0 .. n
    BY <1>1
  <2>3. picked[0] \in Seq(T) /\ Range(picked[0]) = {}
    BY <1>5, <2>1
  <2> HIDE DEF Upto
  <2> QED
    BY <2>2, <2>3
<1>7. ASSUME NEW i \in 0 .. n - 1, i \in Good PROVE i + 1 \in Good
  <2> DEFINE q == picked[i]
             c == cols[i + 1]
  <2>1. i + 1 \in 1 .. n /\ i + 1 \in 0 .. n /\ (i + 1) - 1 = i /\ i \in Nat
    BY <1>1
  <2>2. picked[i + 1] = IF c \in kept THEN Append(q, c) ELSE q
    BY <1>5, <2>1
  <2>3. c \in T /\ q \in Seq(T) /\ Range(q) = Upto(i) \cap kept
    BY <1>1, <1>7, <2>1
  <2>4. Upto(i + 1) = Upto(i) \cup {c}
    <3>1. 1 .. i + 1 = (1 .. i) \cup {i + 1}
      BY <2>1
    <3> QED
      BY <3>1
  <2> HIDE DEF q, c, Upto
  <2>6. CASE c \notin kept
    <3>1. Upto(i + 1) \cap kept = Upto(i) \cap kept
      BY <2>4, <2>6
    <3> QED
      BY <2>1, <2>2, <2>3, <2>6, <3>1
  <2>7. CASE c \in kept
    <3> DEFINE r == Append(q, c)
    <3>1. r \in Seq(T) /\ Len(q) \in Nat /\ Len(r) = Len(q) + 1 /\ DOMAIN q = 1 .. Len(q)
          /\ DOMAIN r = 1 .. Len(q) + 1
          /\ r[Len(q) + 1] = c /\ \A j \in 1 .. Len(q) : r[j] = q[j]
      BY <2>3
    <3> HIDE DEF r
    <3>2. Range(r) = Range(q) \cup {c}
      <4>1. 1 .. Len(q) + 1 = (1 .. Len(q)) \cup {Len(q) + 1}
        BY <3>1
      <4> QED
        BY <3>1, <4>1 DEF Range
    <3>3. Range(r) = Upto(i + 1) \cap kept
      BY <2>3, <2>4, <2>7, <3>2
    <3> QED
      BY <2>1, <2>2, <2>7, <3>1, <3>3 DEF r
  <2> QED
    BY <2>6, <2>7
<1> HIDE DEF Good
<1>8. n \in Good
  <2>1. \A i \in 0 .. n : i \in Good
    BY <1>1, <1>6, <1>7, Climb
  <2>2. n \in 0 .. n
    BY <1>1
  <2> QED
    BY <2>1, <2>2
<1>9. Range(cols) = Upto(n)
  BY <1>1 DEF Range
<1> QED
  BY <1>4, <1>8, <1>9 DEF Good

\* A set put in a row.
LEMMA RowOfSet ==
  ASSUME NEW S, IsFiniteSet(S)
  PROVE  /\ SetToSeq(S) \in Seq(S) /\ Range(SetToSeq(S)) = S
<1> DEFINE n == Cardinality(S)
           f == SetToSeq(S)
<1>1. n \in Nat
  BY FS_CardinalityType
<1>2. \E g \in [1 .. n -> S] : IsInjective(g)
  <2>1. ExistsBijection(1 .. n, S)
    BY FS_CardinalityType
  <2>2. PICK g : g \in Bijection(1 .. n, S)
    BY <2>1 DEF ExistsBijection
  <2> QED
    BY <2>2 DEF Bijection, Injection
<1>3. f \in [1 .. n -> S] /\ IsInjective(f)
  BY <1>2 DEF SetToSeq
<1>4. Range(f) = S
  <2>1. f \in Injection(1 .. n, S) /\ IsFiniteSet(1 .. n) /\ Cardinality(1 .. n) = n
    BY <1>1, <1>3, FS_Interval DEF Injection
  <2>2. f \in Surjection(1 .. n, S)
    <3> HIDE DEF f
    <3> DEFINE I == 1 .. n
    <3>1. f \in Injection(I, S) /\ Cardinality(I) = Cardinality(S)
      BY <2>1
    <3> HIDE DEF I, n
    <3>2. f \in Surjection(I, S)
      BY <3>1, FS_Injection
    <3> QED
      BY <3>2 DEF I
  <2> HIDE DEF f
  <2> QED
    BY <1>3, <2>2 DEF Surjection, Range
<1>5. f \in Seq(S)
  BY <1>1, <1>3
<1> QED
  BY <1>4, <1>5

\* Two sequences one after the other.
LEMMA RowsJoined ==
  ASSUME NEW T, NEW q \in Seq(T), NEW r \in Seq(T)
  PROVE  /\ q \o r \in Seq(T) /\ Range(q \o r) = Range(q) \cup Range(r)
<1>1. /\ q \o r \in Seq(T) /\ Len(q) \in Nat /\ Len(r) \in Nat
      /\ DOMAIN q = 1 .. Len(q) /\ DOMAIN r = 1 .. Len(r)
      /\ DOMAIN (q \o r) = 1 .. Len(q) + Len(r)
      /\ \A i \in 1 .. Len(q) : (q \o r)[i] = q[i]
      /\ \A i \in 1 .. Len(r) : (q \o r)[Len(q) + i] = r[i]
  OBVIOUS
<1> DEFINE j == q \o r
<1>2. \A i \in DOMAIN j : \/ i \in 1 .. Len(q) /\ j[i] = q[i]
                          \/ i - Len(q) \in 1 .. Len(r) /\ i \notin 1 .. Len(q) /\ j[i] = r[i - Len(q)]
  <2> SUFFICES ASSUME NEW i \in DOMAIN j, i \notin 1 .. Len(q)
               PROVE  i - Len(q) \in 1 .. Len(r) /\ j[i] = r[i - Len(q)]
    BY <1>1
  <2> DEFINE k == i - Len(q)
  <2>1. k \in 1 .. Len(r) /\ Len(q) + k = i
    BY <1>1
  <2> HIDE DEF k
  <2>2. j[Len(q) + k] = r[k]
    BY <1>1, <2>1
  <2> QED
    BY <2>1, <2>2 DEF k
<1>3. /\ \A i \in 1 .. Len(q) : i \in DOMAIN j /\ j[i] = q[i]
      /\ \A i \in 1 .. Len(r) : Len(q) + i \in DOMAIN j /\ j[Len(q) + i] = r[i]
  BY <1>1
<1>4. DOMAIN q = 1 .. Len(q) /\ DOMAIN r = 1 .. Len(r) /\ j \in Seq(T) /\ Len(q) \in Int
  BY <1>1
<1> HIDE DEF j
<1>5. Range(j) = Range(q) \cup Range(r)
  <2>1. Range(j) \subseteq Range(q) \cup Range(r)
    BY <1>2, <1>4 DEF Range
  <2>2. Range(q) \subseteq Range(j) /\ Range(r) \subseteq Range(j)
    BY <1>3, <1>4 DEF Range
  <2> QED
    BY <2>1, <2>2
<1> QED
  BY <1>4, <1>5 DEF j

-----------------------------------------------------------------------------
(* Preprocessing: what the steps do to the columns of a frame *)

\* The columns two steps add.
DateParts(dates) == {PartOf(d[2], p) : d \in dates, p \in Parts}
Codes(encoded)   == {Encoded(c[2]) : c \in encoded}

\* The columns a fitted step makes of columns R, and when it refuses them.
After(step, memory, R) ==
  CASE step = "datetime_features" -> (R \ memory) \cup DateParts(memory)
    [] step = "target_encoding"   -> R \cup Codes(memory)
    [] step = "multicollinearity" -> R \ memory
    [] step = "feature_selection" -> R \cap memory
    [] step = "column_transformer" -> memory
    [] OTHER                      -> R

Refuses(step, memory, R) ==
  \/ step = "skewness" /\ R \cap memory # {} /\ ~ memory \subseteq R
  \/ step = "target_encoding" /\ memory = {}
  \/ step = "column_transformer" /\ ~ memory \subseteq R

LEMMA StepNames ==
  Steps = {"datetime_features", "rare_category", "skewness", "target_encoding", "multicollinearity",
           "feature_selection", "column_transformer"} /\ StepOrder \in Seq(Steps)
<1>1. Len(StepOrder) = 7 /\ DOMAIN StepOrder = {1, 2, 3, 4, 5, 6, 7}
  BY DEF StepOrder
<1>2. /\ StepOrder[1] = "datetime_features" /\ StepOrder[2] = "rare_category" /\ StepOrder[3] = "skewness"
      /\ StepOrder[4] = "target_encoding" /\ StepOrder[5] = "multicollinearity"
      /\ StepOrder[6] = "feature_selection" /\ StepOrder[7] = "column_transformer"
  BY DEF StepOrder
<1>3. Steps = {"datetime_features", "rare_category", "skewness", "target_encoding", "multicollinearity",
               "feature_selection", "column_transformer"}
  BY <1>1, <1>2 DEF Steps, Range
<1>4. StepOrder \in Seq(Steps)
  BY <1>3 DEF StepOrder
<1> QED
  BY <1>3, <1>4

\* A column that is no number is one of the training frame's.
LEMMA ColumnKinds ==
  /\ \A c \in AllColumns : c[2] \in Range(InputColumns)
  /\ \A c \in AllColumns : \/ IsNumeric(c) /\ ~ IsDate(c) /\ ~ IsCategory(c)
                           \/ IsDate(c) /\ ~ IsNumeric(c) /\ ~ IsCategory(c)
                           \/ IsCategory(c) /\ ~ IsNumeric(c) /\ ~ IsDate(c)
  /\ \A c \in Range(InputColumns) : Encoded(c) \in AllColumns /\ IsNumeric(Encoded(c))
  /\ \A c \in Range(InputColumns), p \in Parts : PartOf(c, p) \in AllColumns /\ IsNumeric(PartOf(c, p))
  /\ FailedFit \notin Seq(AllColumns)
<1>1. /\ \A c \in Range(InputColumns) : KindOf[c] \in {"numeric", "datetime", "category", "wide"}
      /\ "raw" \notin Parts /\ "failed" \notin Parts
  BY PreprocessingAssumption
<1>2. ASSUME NEW c \in Range(TrainingFrame) PROVE \E d \in Range(InputColumns) : c = <<"raw", d>>
  BY DEF Range, TrainingFrame, Raw
<1>3. ASSUME NEW c \in AllColumns
      PROVE  \/ \E d \in Range(InputColumns) : c = <<"raw", d>>
             \/ \E d \in Range(InputColumns), p \in Parts : c = <<p, d>>
             \/ \E d \in Range(InputColumns) : c = <<"encoded", d>>
  BY <1>2 DEF AllColumns, PartOf, Encoded
<1>4. ASSUME NEW c \in AllColumns
      PROVE  /\ c[2] \in Range(InputColumns) /\ c # <<"failed", "fit">>
             /\ Kind(c) \in {"numeric", "datetime", "category", "wide"}
  <2>1. CASE \E d \in Range(InputColumns) : c = <<"raw", d>>
    BY <1>1, <2>1 DEF Kind
  <2>2. CASE \E d \in Range(InputColumns), p \in Parts : c = <<p, d>>
    BY <1>1, <2>2 DEF Kind
  <2>3. CASE \E d \in Range(InputColumns) : c = <<"encoded", d>>
    BY <1>1, <2>3 DEF Kind
  <2> QED
    BY <1>3, <2>1, <2>2, <2>3
<1>5. FailedFit \notin Seq(AllColumns)
  <2>1. FailedFit \in Seq(AllColumns) => FailedFit[1] \in AllColumns
    BY DEF FailedFit
  <2>2. FailedFit[1] = <<"failed", "fit">>
    BY DEF FailedFit
  <2> QED
    BY <1>4, <2>1, <2>2
<1>6. \A c \in Range(InputColumns) : Encoded(c) \in AllColumns /\ IsNumeric(Encoded(c))
  BY DEF AllColumns, Encoded, IsNumeric, Kind
<1>7. \A c \in Range(InputColumns), p \in Parts : PartOf(c, p) \in AllColumns /\ IsNumeric(PartOf(c, p))
  BY <1>1 DEF AllColumns, PartOf, IsNumeric, Kind
<1> QED
  BY <1>4, <1>5, <1>6, <1>7 DEF IsNumeric, IsDate, IsCategory

\* The elements of a sequence.
LEMMA RangeFacts ==
  ASSUME NEW T, NEW q \in Seq(T)
  PROVE  /\ IsFiniteSet(Range(q)) /\ Range(q) \subseteq T
         /\ q # <<>> => q[1] \in Range(q)
<1>1. Len(q) \in Nat /\ q \in [1 .. Len(q) -> T]
  OBVIOUS
<1>2. IsFiniteSet(1 .. Len(q))
  BY <1>1, FS_Interval
<1> DEFINE I == 1 .. Len(q)
<1>3. IsFiniteSet({q[i] : i \in I})
  <2>1. q \in [I -> T] /\ IsFiniteSet(I)
    BY <1>1, <1>2
  <2> HIDE DEF I
  <2> QED
    BY <2>1, FiniteImage
<1>4. Range(q) = {q[i] : i \in I} /\ Range(q) \subseteq T
  BY <1>1 DEF Range
<1>5. q # <<>> => 1 \in 1 .. Len(q)
  BY <1>1
<1> QED
  BY <1>1, <1>3, <1>4, <1>5 DEF Range

\* Columns a step adds exist, and are finitely many.
LEMMA AddedColumns ==
  ASSUME NEW memory \in SUBSET AllColumns, IsFiniteSet(memory)
  PROVE  /\ IsFiniteSet(DateParts(memory)) /\ DateParts(memory) \in SUBSET AllColumns
         /\ IsFiniteSet(Codes(memory)) /\ Codes(memory) \in SUBSET AllColumns
<1>1. DateParts(memory) \in SUBSET AllColumns /\ Codes(memory) \in SUBSET AllColumns
  BY ColumnKinds DEF DateParts, Codes
<1>2. IsFiniteSet(DateParts(memory))
  <2> DEFINE S == memory \X Parts
             f == [x \in S |-> PartOf(x[1][2], x[2])]
  <2>1. IsFiniteSet(S)
    BY FS_Product, PreprocessingAssumption
  <2>2. f \in [S -> AllColumns]
    BY ColumnKinds
  <2>3. \A z : z \in DateParts(memory) <=> \E x \in S : z = f[x]
    <3>1. \A x \in S : f[x] = PartOf(x[1][2], x[2]) /\ x[1] \in memory /\ x[2] \in Parts
      OBVIOUS
    <3>2. ASSUME NEW d \in memory, NEW p \in Parts PROVE \E x \in S : PartOf(d[2], p) = f[x]
      <4> DEFINE x == <<d, p>>
      <4>1. x \in S /\ x[1] = d /\ x[2] = p
        OBVIOUS
      <4> HIDE DEF x, S, f
      <4> QED
        BY <3>1, <4>1
    <3> HIDE DEF S, f
    <3> QED
      BY <3>1, <3>2 DEF DateParts
  <2> HIDE DEF S, f
  <2>4. DateParts(memory) = {f[x] : x \in S}
    BY <2>3
  <2>5. IsFiniteSet({f[x] : x \in S})
    BY <2>1, <2>2, FiniteImage
  <2> QED
    BY <2>4, <2>5
<1>3. IsFiniteSet(Codes(memory))
  <2> DEFINE f == [c \in memory |-> Encoded(c[2])]
  <2>1. f \in [memory -> AllColumns]
    BY ColumnKinds
  <2>2. Codes(memory) = {f[x] : x \in memory}
    BY DEF Codes
  <2> HIDE DEF f
  <2>3. IsFiniteSet({f[x] : x \in memory})
    BY <2>1, FiniteImage
  <2> QED
    BY <2>2, <2>3
<1> QED
  BY <1>1, <1>2, <1>3

\* What a step makes of a frame is told by its columns.
LEMMA TransformedColumns ==
  ASSUME NEW step \in Steps, NEW memory \in SUBSET AllColumns, IsFiniteSet(memory),
         NEW cols \in Seq(AllColumns)
  PROVE  /\ Refuses(step, memory, Range(cols)) => Transformed(step, memory, cols) = FailedFit
         /\ ~ Refuses(step, memory, Range(cols)) =>
              /\ Transformed(step, memory, cols) \in Seq(AllColumns)
              /\ Range(Transformed(step, memory, cols)) = After(step, memory, Range(cols))
<1> DEFINE made == Transformed(step, memory, cols)
           R    == Range(cols)
<1>1. cols # FailedFit /\ Range(cols) \subseteq AllColumns
  BY ColumnKinds, RangeFacts
<1>2. ASSUME NEW kept PROVE Only(cols, kept) \in Seq(AllColumns) /\ Range(Only(cols, kept)) = R \cap kept
  BY KeepFacts
<1>3. ASSUME NEW gone PROVE Without(cols, gone) \in Seq(AllColumns) /\ Range(Without(cols, gone)) = R \ gone
  <2>1. Without(cols, gone) = Only(cols, R \ gone)
    BY DEF Without
  <2> QED
    BY <1>2, <2>1
<1>4. ASSUME NEW S \in SUBSET AllColumns, IsFiniteSet(S)
      PROVE  SetToSeq(S) \in Seq(AllColumns) /\ Range(SetToSeq(S)) = S
  <2>1. SetToSeq(S) \in Seq(S) /\ Range(SetToSeq(S)) = S
    BY <1>4, RowOfSet
  <2> DEFINE q == SetToSeq(S)
  <2> HIDE DEF q
  <2>2. q \in Seq(S) => q \in Seq(AllColumns)
    OBVIOUS
  <2> QED
    BY <2>1, <2>2 DEF q
<1>5. ASSUME NEW S \in SUBSET AllColumns, IsFiniteSet(S), NEW q \in Seq(AllColumns)
      PROVE  q \o SetToSeq(S) \in Seq(AllColumns) /\ Range(q \o SetToSeq(S)) = Range(q) \cup S
  BY <1>4, <1>5, RowsJoined
<1>6. CASE step = "datetime_features"
  <2>1. made = Without(cols, memory) \o SetToSeq(DateParts(memory))
    BY <1>1, <1>6 DEF Transformed, ExtractDates, DatePartsOf, DateParts
  <2>2. ~ Refuses(step, memory, R) /\ After(step, memory, R) = (R \ memory) \cup DateParts(memory)
    BY <1>6 DEF Refuses, After
  <2> QED
    BY <1>3, <1>5, <2>1, <2>2, AddedColumns
<1>7. CASE step = "rare_category"
  <2>1. made = cols /\ ~ Refuses(step, memory, R) /\ After(step, memory, R) = R
    BY <1>1, <1>7 DEF Transformed, Refuses, After
  <2> QED
    BY <2>1
<1>8. CASE step = "skewness"
  <2>1. /\ made = IF R \cap memory = {} \/ memory \subseteq R THEN cols ELSE FailedFit
        /\ Refuses(step, memory, R) <=> ~ (R \cap memory = {} \/ memory \subseteq R)
        /\ After(step, memory, R) = R
    BY <1>1, <1>8 DEF Transformed, Refuses, After, CorrectSkewness, Lacks
  <2> QED
    BY <2>1
<1>9. CASE step = "target_encoding"
  <2>1. /\ made = IF memory = {} THEN FailedFit ELSE cols \o SetToSeq(Codes(memory))
        /\ Refuses(step, memory, R) <=> memory = {}
        /\ After(step, memory, R) = R \cup Codes(memory)
    BY <1>1, <1>9 DEF Transformed, Refuses, After, EncodeTargets, Codes
  <2> QED
    BY <1>5, <2>1, AddedColumns
<1>10. CASE step = "multicollinearity"
  <2>1. made = Without(cols, memory) /\ ~ Refuses(step, memory, R) /\ After(step, memory, R) = R \ memory
    BY <1>1, <1>10 DEF Transformed, Refuses, After
  <2> QED
    BY <1>3, <2>1
<1>11. CASE step = "feature_selection"
  <2>1. made = Only(cols, memory) /\ ~ Refuses(step, memory, R) /\ After(step, memory, R) = R \cap memory
    BY <1>1, <1>11 DEF Transformed, Refuses, After
  <2> QED
    BY <1>2, <2>1
<1>12. CASE step = "column_transformer"
  <2>1. /\ made = IF ~ memory \subseteq R THEN FailedFit ELSE SetToSeq(memory)
        /\ Refuses(step, memory, R) <=> ~ memory \subseteq R
        /\ After(step, memory, R) = memory
    BY <1>1, <1>12 DEF Transformed, Refuses, After, Given, Lacks
  <2> QED
    BY <1>4, <2>1
<1> QED
  BY <1>6, <1>7, <1>8, <1>9, <1>10, <1>11, <1>12, StepNames

-----------------------------------------------------------------------------
(* Preprocessing: the correlation filter *)

\* Columns visited and not dropped so far, and what is known of them: a dropped
\* column is like one of them, and no two of them are alike, protected columns aside.
Judged(seen, gone, alike, protected) ==
  /\ gone \subseteq seen
  /\ \A c \in gone : \E d \in (seen \ gone) \ protected : {c, d} \in alike
  /\ \A c, d \in (seen \ gone) \ protected : {c, d} \notin alike

LEMMA JudgeNext ==
  ASSUME NEW seen, NEW gone, NEW alike, NEW protected, Judged(seen, gone, alike, protected),
         \A c : {c} \notin alike, NEW c
  PROVE  Judged(seen \cup {c},
                IF c \notin protected /\ \E d \in seen \ (gone \cup protected) : {c, d} \in alike
                THEN gone \cup {c} ELSE gone, alike, protected)
<1>1. \A a, b : {a, b} = {b, a}
  OBVIOUS
<1>2. \A a : {a, a} \notin alike
  <2>1. \A a : {a, a} = {a}
    OBVIOUS
  <2> QED
    BY <2>1
<1>3. CASE c \notin protected /\ \E d \in seen \ (gone \cup protected) : {c, d} \in alike
  <2>1. PICK d \in seen \ (gone \cup protected) : {c, d} \in alike
    BY <1>3
  <2>2. c \in seen => c \in gone
    BY <1>3, <2>1 DEF Judged
  <2>3. CASE c \in gone
    <3>1. gone \cup {c} = gone /\ seen \cup {c} = seen
      BY <2>3 DEF Judged
    <3> QED
      BY <1>3, <3>1
  <2>4. CASE c \notin seen
    <3>1. (seen \cup {c}) \ (gone \cup {c}) = seen \ gone
      BY <2>4 DEF Judged
    <3> QED
      BY <1>3, <2>1, <3>1 DEF Judged
  <2> QED
    BY <2>2, <2>3, <2>4
<1>4. CASE ~ (c \notin protected /\ \E d \in seen \ (gone \cup protected) : {c, d} \in alike)
  <2>1. gone \subseteq seen \cup {c}
    BY DEF Judged
  <2>2. ASSUME NEW a \in gone PROVE \E d \in ((seen \cup {c}) \ gone) \ protected : {a, d} \in alike
    BY DEF Judged
  <2>3. ASSUME NEW a \in ((seen \cup {c}) \ gone) \ protected, NEW b \in ((seen \cup {c}) \ gone) \ protected
        PROVE  {a, b} \notin alike
    <3>1. \A x \in (seen \ gone) \ protected : c \notin protected => {c, x} \notin alike
      BY <1>4
    <3>2. CASE a = c
      BY <1>1, <1>2, <3>1, <3>2
    <3>3. CASE a # c /\ b = c
      BY <1>1, <3>1, <3>3
    <3>4. CASE a # c /\ b # c
      BY <3>4 DEF Judged
    <3> QED
      BY <3>2, <3>3, <3>4
  <2> QED
    BY <1>4, <2>1, <2>2, <2>3 DEF Judged
<1> QED
  BY <1>3, <1>4

\* What the filter drops of some columns: some of them, each like one it keeps.
LEMMA RedundantFacts ==
  ASSUME NEW T, NEW numbers \in Seq(T), NEW alike, NEW protected
  PROVE  /\ Redundant(numbers, alike, protected) \subseteq Range(numbers)
         /\ (\A c : {c} \notin alike) => Judged(Range(numbers), Redundant(numbers, alike, protected), alike, protected)
<1> DEFINE n == Len(numbers)
           R == Range(numbers)
           Visited(i) == {numbers[j] : j \in 1 .. i - 1}
           Drop(i, gone) == IF numbers[i] \notin protected
                                 /\ \E d \in Visited(i) \ (gone \cup protected) : {numbers[i], d} \in alike
                            THEN gone \cup {numbers[i]} ELSE gone
           Unfold(p) == p = [i \in 0 .. n |-> IF i = 0 THEN {} ELSE Drop(i, p[i - 1])]
           dropped == CHOOSE p : Unfold(p)
           next == [i \in 1 .. n |-> [gone \in SUBSET R |-> Drop(i, gone)]]
<1>1. n \in Nat /\ numbers \in [1 .. n -> R]
  BY DEF Range
<1>2. \A i \in 1 .. n : \A gone \in SUBSET R : Drop(i, gone) \in SUBSET R
  BY <1>1
<1>3. \E p : Unfold(p)
  <2>1. next \in [1 .. n -> [SUBSET R -> SUBSET R]] /\ {} \in SUBSET R
    BY <1>2
  <2>2. \A i \in 1 .. n : \A gone \in SUBSET R : next[i][gone] = Drop(i, gone)
    OBVIOUS
  <2>3. PICK f \in [0 .. n -> SUBSET R] : Follows(f, n, {}, next)
    <3> DEFINE S == SUBSET R
               none == {}
    <3>1. n \in Nat /\ next \in [1 .. n -> [S -> S]] /\ none \in S
      BY <1>1, <2>1
    <3> HIDE DEF n, S, none, next
    <3>2. \E f \in [0 .. n -> S] : Follows(f, n, none, next)
      BY <3>1, Recursion
    <3> QED
      BY <3>2 DEF S, none
  <2> HIDE DEF next, Drop
  <2>4. \A i \in 0 .. n : f[i] = IF i = 0 THEN {} ELSE Drop(i, f[i - 1])
    <3> SUFFICES ASSUME NEW i \in 0 .. n PROVE f[i] = IF i = 0 THEN {} ELSE Drop(i, f[i - 1])
      OBVIOUS
    <3>1. CASE i = 0
      BY <2>3, <3>1 DEF Follows
    <3>2. CASE i # 0
      <4>1. i \in 1 .. n /\ i - 1 \in 0 .. n
        BY <1>1, <3>2
      <4>2. f[i] = next[i][f[i - 1]] /\ f[i - 1] \in SUBSET R
        BY <2>3, <4>1 DEF Follows
      <4> QED
        BY <2>2, <3>2, <4>1, <4>2
    <3> QED
      BY <3>1, <3>2
  <2>5. f = [i \in 0 .. n |-> f[i]]
    BY <2>3
  <2>6. Unfold(f)
    BY <2>4, <2>5
  <2> QED
    BY <2>6
<1>4. Unfold(dropped)
  BY <1>3
<1>5. Redundant(numbers, alike, protected) = dropped[n]
  BY DEF Redundant
<1> HIDE DEF dropped
<1>6. dropped[0] = {} /\ \A i \in 1 .. n : dropped[i] = Drop(i, dropped[i - 1])
  <2>1. \A i \in 0 .. n : dropped[i] = IF i = 0 THEN {} ELSE Drop(i, dropped[i - 1])
    BY <1>4
  <2> HIDE DEF Drop
  <2> QED
    BY <1>1, <2>1
<1>7. Visited(1) = {} /\ Visited(n + 1) = R
  BY <1>1 DEF Range
<1>8. \A i \in 1 .. n : Visited(i + 1) = Visited(i) \cup {numbers[i]}
  <2> SUFFICES ASSUME NEW i \in 1 .. n PROVE Visited(i + 1) = Visited(i) \cup {numbers[i]}
    OBVIOUS
  <2>1. 1 .. (i + 1) - 1 = (1 .. i - 1) \cup {i}
    BY <1>1
  <2> QED
    BY <2>1
<1> DEFINE Good == {i \in 0 .. n : /\ dropped[i] \in SUBSET R
                                   /\ (\A c : {c} \notin alike) => Judged(Visited(i + 1), dropped[i], alike, protected)}
<1>9. 0 \in Good
  <2>1. Judged({}, {}, alike, protected)
    BY DEF Judged
  <2>2. 0 + 1 = 1 /\ 0 \in 0 .. n
    BY <1>1
  <2> HIDE DEF Visited
  <2> QED
    BY <1>6, <1>7, <2>1, <2>2
<1>10. ASSUME NEW i \in 0 .. n - 1, i \in Good PROVE i + 1 \in Good
  <2>1. i + 1 \in 1 .. n /\ i + 1 \in 0 .. n /\ (i + 1) - 1 = i
    BY <1>1
  <2> DEFINE seen == Visited(i + 1)
             gone == dropped[i]
             c == numbers[i + 1]
  <2>2. gone \in SUBSET R /\ ((\A a : {a} \notin alike) => Judged(seen, gone, alike, protected))
    BY <1>10
  <2>3. dropped[i + 1] = Drop(i + 1, gone)
    <3> HIDE DEF Drop
    <3> QED
      BY <1>6, <2>1
  <2>4. Visited((i + 1) + 1) = seen \cup {c}
    <3> HIDE DEF Visited
    <3> QED
      BY <1>8, <2>1
  <2>5. Drop(i + 1, gone) = IF c \notin protected /\ \E d \in seen \ (gone \cup protected) : {c, d} \in alike
                            THEN gone \cup {c} ELSE gone
    OBVIOUS
  <2>6. dropped[i + 1] \in SUBSET R
    <3> HIDE DEF Drop, gone
    <3> QED
      BY <1>2, <2>1, <2>2, <2>3
  <2> HIDE DEF Drop, Visited, seen, gone, c
  <2>7. ASSUME \A a : {a} \notin alike PROVE Judged(Visited((i + 1) + 1), dropped[i + 1], alike, protected)
    <3>1. Judged(seen, gone, alike, protected)
      BY <2>2, <2>7
    <3>2. Judged(seen \cup {c},
                IF c \notin protected /\ \E d \in seen \ (gone \cup protected) : {c, d} \in alike
                THEN gone \cup {c} ELSE gone, alike, protected)
      BY <2>7, <3>1, JudgeNext
    <3> QED
      BY <2>3, <2>4, <2>5, <3>2
  <2> QED
    BY <2>1, <2>6, <2>7
<1>11. n \in Good
  <2> HIDE DEF Good
  <2>1. \A i \in 0 .. n : i \in Good
    BY <1>1, <1>9, <1>10, Climb
  <2>2. n \in 0 .. n
    BY <1>1
  <2> QED
    BY <2>1, <2>2
<1> HIDE DEF Visited
<1> QED
  BY <1>5, <1>7, <1>11

-----------------------------------------------------------------------------
(* Preprocessing: what a step remembers *)

\* The numeric columns of a frame.
LEMMA NumbersFacts ==
  ASSUME NEW cols \in Seq(AllColumns)
  PROVE  /\ NumbersOf(cols) \in Seq(AllColumns)
         /\ Range(NumbersOf(cols)) = {c \in Range(cols) : IsNumeric(c)}
<1> DEFINE numeric == {c \in Range(cols) : IsNumeric(c)}
<1>1. NumbersOf(cols) = Only(cols, numeric)
  BY DEF NumbersOf
<1>2. Range(cols) \cap numeric = numeric
  OBVIOUS
<1> HIDE DEF numeric
<1>3. Only(cols, numeric) \in Seq(AllColumns) /\ Range(Only(cols, numeric)) = Range(cols) \cap numeric
  BY KeepFacts
<1> QED
  BY <1>1, <1>2, <1>3 DEF numeric

\* A step remembers columns of the frame it is fitted on.
LEMMA MemoryInFrame ==
  ASSUME NEW step \in Steps, NEW cols \in Seq(AllColumns), NEW t
  PROVE  Memory(step, cols, t) \in SUBSET Range(cols)
<1> DEFINE memory == Memory(step, cols, t)
           R == Range(cols)
<1>1. CASE step \in {"datetime_features", "rare_category", "skewness", "column_transformer"}
  BY <1>1 DEF Memory
<1>2. CASE step = "target_encoding"
  BY <1>2 DEF Memory
<1>3. CASE step = "multicollinearity"
  <2>1. memory = Redundant(NumbersOf(cols), t.alike, t.protected)
    BY <1>3 DEF Memory
  <2> DEFINE numbers == NumbersOf(cols)
  <2>2. numbers \in Seq(AllColumns) /\ Range(numbers) \subseteq R
    BY NumbersFacts
  <2> HIDE DEF memory, numbers
  <2>3. Redundant(numbers, t.alike, t.protected) \subseteq Range(numbers)
    BY <2>2, RedundantFacts
  <2> QED
    BY <2>1, <2>2, <2>3 DEF memory, numbers
<1>4. CASE step = "feature_selection"
  <2> DEFINE varying == Without(cols, t.constant)
             apart   == Apart(cols, t)
             ranked  == Only(apart, t.important)
  <2>1. varying \in Seq(AllColumns) /\ Range(varying) \subseteq R
    BY KeepFacts DEF Without
  <2>2. apart \in Seq(AllColumns) /\ Range(apart) \subseteq R
    <3> DEFINE gone == Redundant(NumbersOf(varying), t.alike, {})
    <3>1. apart = Without(varying, gone)
      BY DEF Apart
    <3> HIDE DEF varying, gone, apart
    <3>2. Without(varying, gone) \in Seq(AllColumns) /\ Range(Without(varying, gone)) \subseteq Range(varying)
      BY <2>1, KeepFacts DEF Without
    <3> QED
      BY <2>1, <3>1, <3>2
  <2>3. Range(ranked) \subseteq R
    <3> HIDE DEF apart
    <3> QED
      BY <2>2, KeepFacts
  <2>4. apart # <<>> => apart[1] \in R
    <3> HIDE DEF apart
    <3> QED
      BY <2>2, RangeFacts
  <2>5. memory = IF apart = <<>> \/ ranked # <<>> THEN Range(ranked) ELSE {apart[1]}
    BY <1>4 DEF Memory, Selected
  <2>6. CASE apart = <<>> \/ ranked # <<>>
    BY <2>3, <2>5, <2>6
  <2>7. CASE apart # <<>> /\ ranked = <<>>
    <3> HIDE DEF apart, ranked, memory
    <3>1. memory = {apart[1]} /\ apart[1] \in R
      BY <2>4, <2>5, <2>7
    <3> QED
      BY <3>1 DEF memory
  <2> QED
    BY <2>6, <2>7
<1> QED
  BY <1>1, <1>2, <1>3, <1>4, StepNames

\* So a fitted step makes something of the frame it was fitted on.
LEMMA FittedColumns ==
  ASSUME NEW step \in Steps, NEW cols \in Seq(AllColumns), NEW t
  PROVE  LET memory == Memory(step, cols, t)
         IN /\ memory \in SUBSET AllColumns /\ IsFiniteSet(memory)
            /\ FittedFrame(step, memory, cols) \in Seq(AllColumns)
            /\ Range(FittedFrame(step, memory, cols)) = After(step, memory, Range(cols))
<1> DEFINE memory == Memory(step, cols, t)
           R == Range(cols)
<1>1. memory \in SUBSET R /\ IsFiniteSet(memory) /\ R \subseteq AllColumns
  BY MemoryInFrame, RangeFacts, FS_Subset
<1> HIDE DEF memory
<1>2. CASE step = "target_encoding" /\ memory = {}
  <2>1. FittedFrame(step, memory, cols) = cols
    BY <1>2 DEF FittedFrame
  <2>2. After(step, memory, R) = R
    BY <1>2 DEF After, Codes
  <2> QED
    BY <1>1, <2>1, <2>2 DEF memory
<1>3. CASE ~ (step = "target_encoding" /\ memory = {})
  <2>1. FittedFrame(step, memory, cols) = Transformed(step, memory, cols)
    BY <1>3 DEF FittedFrame
  <2>2. ~ Refuses(step, memory, R)
    BY <1>1, <1>3 DEF Refuses
  <2>3. memory \in SUBSET AllColumns
    BY <1>1
  <2>4. Transformed(step, memory, cols) \in Seq(AllColumns)
        /\ Range(Transformed(step, memory, cols)) = After(step, memory, R)
    BY <1>1, <2>2, <2>3, TransformedColumns
  <2> QED
    BY <1>1, <2>1, <2>3, <2>4 DEF memory
<1> QED
  BY <1>2, <1>3

-----------------------------------------------------------------------------
(* Preprocessing: the frames between the steps *)

LEMMA TrainingFrameFacts ==
  /\ TrainingFrame \in Seq(AllColumns) /\ Range(TrainingFrame) \subseteq AllColumns
<1>1. /\ Len(InputColumns) \in Nat /\ DOMAIN InputColumns = 1 .. Len(InputColumns)
      /\ \A i \in 1 .. Len(InputColumns) : TrainingFrame[i] \in Range(TrainingFrame)
  BY PreprocessingAssumption DEF TrainingFrame, Range
<1>2. Range(TrainingFrame) \subseteq AllColumns
  BY DEF AllColumns
<1>3. TrainingFrame \in [1 .. Len(InputColumns) -> AllColumns]
  BY <1>1, <1>2 DEF TrainingFrame
<1> QED
  BY <1>1, <1>2, <1>3

\* f is the sequence of frames while the steps are fitted, g while they are served.
FitFrames(f, steps, t) ==
  /\ f[0] = TrainingFrame
  /\ \A i \in 1 .. Len(steps) : f[i] = FittedFrame(steps[i], Memory(steps[i], f[i - 1], t), f[i - 1])

ServedFrames(g, steps, memory, cols) ==
  /\ g[0] = cols
  /\ \A i \in 1 .. Len(steps) : g[i] = Transformed(steps[i], memory[i], g[i - 1])

LEMMA FitUnfolds ==
  ASSUME NEW steps \in Seq(Steps), NEW t
  PROVE  \E f \in [0 .. Len(steps) -> Seq(AllColumns)] :
           /\ FitFrames(f, steps, t)
           /\ FitSteps(steps, t) = [memory |-> [i \in DOMAIN steps |-> Memory(steps[i], f[i - 1], t)],
                                    output |-> f[Len(steps)],
                                    numbers |-> [i \in DOMAIN steps |-> Range(NumbersOf(f[i - 1]))],
                                    apart |-> [i \in DOMAIN steps |-> Range(Apart(f[i - 1], t))]]
<1> DEFINE n == Len(steps)
           Made(i, cols) == FittedFrame(steps[i], Memory(steps[i], cols, t), cols)
           Unfold(p) == p = [i \in 0 .. n |-> IF i = 0 THEN TrainingFrame ELSE Made(i, p[i - 1])]
           frame == CHOOSE p : Unfold(p)
           next == [i \in 1 .. n |-> [cols \in Seq(AllColumns) |-> Made(i, cols)]]
<1>1. n \in Nat /\ \A i \in 1 .. n : steps[i] \in Steps
  OBVIOUS
<1>2. \A i \in 1 .. n : \A cols \in Seq(AllColumns) : Made(i, cols) \in Seq(AllColumns)
  BY <1>1, FittedColumns
<1>3. \E p \in [0 .. n -> Seq(AllColumns)] : Unfold(p)
  <2>1. next \in [1 .. n -> [Seq(AllColumns) -> Seq(AllColumns)]]
    <3> HIDE DEF Made
    <3> QED
      BY <1>2
  <2>2. \A i \in 1 .. n : \A cols \in Seq(AllColumns) : next[i][cols] = Made(i, cols)
    OBVIOUS
  <2> DEFINE S == Seq(AllColumns)
  <2>3. PICK f \in [0 .. n -> S] : Follows(f, n, TrainingFrame, next)
    <3>1. n \in Nat /\ next \in [1 .. n -> [S -> S]] /\ TrainingFrame \in S
      BY <1>1, <2>1, TrainingFrameFacts
    <3> HIDE DEF n, S, next
    <3> QED
      BY <3>1, Recursion
  <2> HIDE DEF next, Made
  <2>4. \A i \in 0 .. n : f[i] = IF i = 0 THEN TrainingFrame ELSE Made(i, f[i - 1])
    <3> SUFFICES ASSUME NEW i \in 0 .. n PROVE f[i] = IF i = 0 THEN TrainingFrame ELSE Made(i, f[i - 1])
      OBVIOUS
    <3>1. CASE i = 0
      BY <2>3, <3>1 DEF Follows
    <3>2. CASE i # 0
      <4>1. i \in 1 .. n /\ i - 1 \in 0 .. n
        BY <1>1, <3>2
      <4>2. f[i] = next[i][f[i - 1]] /\ f[i - 1] \in S
        BY <2>3, <4>1 DEF Follows
      <4> QED
        BY <2>2, <3>2, <4>1, <4>2
    <3> QED
      BY <3>1, <3>2
  <2>5. f = [i \in 0 .. n |-> f[i]]
    BY <2>3
  <2>6. Unfold(f)
    BY <2>4, <2>5
  <2> HIDE DEF Unfold
  <2> QED
    BY <2>3, <2>6
<1>4. Unfold(frame)
  <2> HIDE DEF Unfold
  <2> QED
    BY <1>3 DEF frame
<1>5. FitSteps(steps, t) = [memory |-> [i \in DOMAIN steps |-> Memory(steps[i], frame[i - 1], t)],
                            output |-> frame[n],
                            numbers |-> [i \in DOMAIN steps |-> Range(NumbersOf(frame[i - 1]))],
                            apart |-> [i \in DOMAIN steps |-> Range(Apart(frame[i - 1], t))]]
  BY DEF FitSteps
<1> HIDE DEF frame, Made
<1> DEFINE Good == {i \in 0 .. n : frame[i] \in Seq(AllColumns)}
<1>6. \A i \in 0 .. n : frame[i] = IF i = 0 THEN TrainingFrame ELSE Made(i, frame[i - 1])
  BY <1>4
<1>7. \A i \in 0 .. n : frame[i] \in Seq(AllColumns)
  <2>1. 0 \in Good
    BY <1>1, <1>6, TrainingFrameFacts
  <2>2. ASSUME NEW i \in 0 .. n - 1, i \in Good PROVE i + 1 \in Good
    <3>1. i + 1 \in 1 .. n /\ i + 1 \in 0 .. n /\ i + 1 # 0 /\ (i + 1) - 1 = i
      BY <1>1
    <3>2. frame[i + 1] = Made(i + 1, frame[i]) /\ frame[i] \in Seq(AllColumns)
      BY <1>6, <2>2, <3>1
    <3> QED
      BY <1>2, <3>1, <3>2
  <2> HIDE DEF Good
  <2>3. \A i \in 0 .. n : i \in Good
    BY <1>1, <2>1, <2>2, Climb
  <2> QED
    BY <2>3 DEF Good
<1>8. frame \in [0 .. n -> Seq(AllColumns)]
  <2>1. frame = [i \in 0 .. n |-> frame[i]]
    BY <1>4
  <2> QED
    BY <1>7, <2>1
<1>9. FitFrames(frame, steps, t)
  <2>1. frame[0] = TrainingFrame
    BY <1>1, <1>6
  <2>2. ASSUME NEW i \in 1 .. n PROVE frame[i] = Made(i, frame[i - 1])
    <3>1. i \in 0 .. n /\ i # 0
      BY <1>1
    <3> QED
      BY <1>6, <3>1
  <2> QED
    BY <2>1, <2>2 DEF FitFrames, Made
<1> QED
  BY <1>5, <1>8, <1>9

LEMMA ServingUnfolds ==
  ASSUME plan \in Seq(Steps), NEW cols \in Seq(AllColumns),
         \A i \in 1 .. Len(plan) : pipeline.memory[i] \in SUBSET AllColumns /\ IsFiniteSet(pipeline.memory[i])
  PROVE  \E g \in [0 .. Len(plan) -> Seq(AllColumns) \cup {FailedFit}] :
           /\ ServedFrames(g, plan, pipeline.memory, cols)
           /\ Serving(cols) = g[Len(plan)]
<1> DEFINE n == Len(plan)
           F == Seq(AllColumns) \cup {FailedFit}
           Made(i, q) == Transformed(plan[i], pipeline.memory[i], q)
           Unfold(p) == p = [i \in 0 .. n |-> IF i = 0 THEN cols ELSE Made(i, p[i - 1])]
           frame == CHOOSE p : Unfold(p)
           next == [i \in 1 .. n |-> [q \in F |-> Made(i, q)]]
<1>1. n \in Nat /\ \A i \in 1 .. n : plan[i] \in Steps
  OBVIOUS
<1>2. \A i \in 1 .. n : \A q \in F : Made(i, q) \in F
  <2> SUFFICES ASSUME NEW i \in 1 .. n, NEW q \in F PROVE Made(i, q) \in F
    OBVIOUS
  <2>1. CASE q = FailedFit
    BY <2>1 DEF Transformed
  <2>2. CASE q \in Seq(AllColumns)
    <3> DEFINE memory == pipeline.memory[i]
               step == plan[i]
    <3>1. memory \in SUBSET AllColumns /\ IsFiniteSet(memory) /\ step \in Steps
      BY <1>1
    <3> HIDE DEF memory, step
    <3>2. Transformed(step, memory, q) \in F
      BY <2>2, <3>1, TransformedColumns
    <3> QED
      BY <3>2 DEF memory, step
  <2> QED
    BY <2>1, <2>2
<1>3. \E p \in [0 .. n -> F] : Unfold(p)
  <2>1. next \in [1 .. n -> [F -> F]]
    <3> HIDE DEF Made, F
    <3> QED
      BY <1>2
  <2>2. \A i \in 1 .. n : \A q \in F : next[i][q] = Made(i, q)
    OBVIOUS
  <2>3. PICK f \in [0 .. n -> F] : Follows(f, n, cols, next)
    <3>1. n \in Nat /\ next \in [1 .. n -> [F -> F]] /\ cols \in F
      BY <1>1, <2>1
    <3> HIDE DEF n, F, next
    <3> QED
      BY <3>1, Recursion
  <2> HIDE DEF next, Made, F
  <2>4. \A i \in 0 .. n : f[i] = IF i = 0 THEN cols ELSE Made(i, f[i - 1])
    <3> SUFFICES ASSUME NEW i \in 0 .. n PROVE f[i] = IF i = 0 THEN cols ELSE Made(i, f[i - 1])
      OBVIOUS
    <3>1. CASE i = 0
      BY <2>3, <3>1 DEF Follows
    <3>2. CASE i # 0
      <4>1. i \in 1 .. n /\ i - 1 \in 0 .. n
        BY <1>1, <3>2
      <4>2. f[i] = next[i][f[i - 1]] /\ f[i - 1] \in F
        BY <2>3, <4>1 DEF Follows
      <4> QED
        BY <2>2, <3>2, <4>1, <4>2
    <3> QED
      BY <3>1, <3>2
  <2>5. f = [i \in 0 .. n |-> f[i]]
    BY <2>3
  <2>6. Unfold(f)
    BY <2>4, <2>5
  <2> HIDE DEF Unfold
  <2> QED
    BY <2>3, <2>6
<1>4. Unfold(frame)
  <2> HIDE DEF Unfold
  <2> QED
    BY <1>3 DEF frame
<1>5. Serving(cols) = frame[n]
  BY DEF Serving
<1> HIDE DEF frame, Made, F
<1> DEFINE Good == {i \in 0 .. n : frame[i] \in F}
<1>6. \A i \in 0 .. n : frame[i] = IF i = 0 THEN cols ELSE Made(i, frame[i - 1])
  BY <1>4
<1>7. \A i \in 0 .. n : frame[i] \in F
  <2>1. 0 \in Good
    BY <1>1, <1>6 DEF F
  <2>2. ASSUME NEW i \in 0 .. n - 1, i \in Good PROVE i + 1 \in Good
    <3>1. i + 1 \in 1 .. n /\ i + 1 \in 0 .. n /\ i + 1 # 0 /\ (i + 1) - 1 = i
      BY <1>1
    <3>2. frame[i + 1] = Made(i + 1, frame[i]) /\ frame[i] \in F
      BY <1>6, <2>2, <3>1
    <3> QED
      BY <1>2, <3>1, <3>2
  <2> HIDE DEF Good
  <2>3. \A i \in 0 .. n : i \in Good
    BY <1>1, <2>1, <2>2, Climb
  <2> QED
    BY <2>3 DEF Good
<1>8. frame \in [0 .. n -> F]
  <2>1. frame = [i \in 0 .. n |-> frame[i]]
    BY <1>4
  <2> QED
    BY <1>7, <2>1
<1>9. ServedFrames(frame, plan, pipeline.memory, cols)
  <2>1. frame[0] = cols
    BY <1>1, <1>6
  <2>2. ASSUME NEW i \in 1 .. n PROVE frame[i] = Made(i, frame[i - 1])
    <3>1. i \in 0 .. n /\ i # 0
      BY <1>1
    <3> QED
      BY <1>6, <3>1
  <2> QED
    BY <2>1, <2>2 DEF ServedFrames, Made
<1> QED
  BY <1>5, <1>8, <1>9 DEF F

-----------------------------------------------------------------------------
(* Preprocessing: the pipeline *)

\* What was fitted was fitted by the plan on what was found in the training frame;
\* what is served was computed from the batch by what was fitted, unless a column
\* could not be written to.
Unfitted == {NotFitted, FitFailure}

PipelineInv ==
  /\ plan \in Seq(Steps)
  /\ plan = <<>> => pipeline = NotFitted
  /\ pipeline \in Unfitted => batch = <<>>
  /\ pipeline \notin Unfitted => traits \in FoundIn(plan, stepColumns) /\ pipeline = FitSteps(plan, traits)
  /\ batch = <<>> => served = <<>>
  /\ batch # <<>> => /\ batch \in Frames
                     /\ served = Serving(batch) \/ (frozen # {} /\ served = FailedFit)

\* The plans of the builder are sequences of steps.
LEMMA BuiltPlans ==
  /\ \A supervised, selecting \in BOOLEAN : AutoPlan(supervised, selecting) \in Seq(Steps)
  /\ \A asked \in Plans, transformer \in BOOLEAN : BuiltPlan(asked, transformer) \in Seq(Steps)
<1>1. ASSUME NEW supervised \in BOOLEAN, NEW selecting \in BOOLEAN
      PROVE  AutoPlan(supervised, selecting) \in Seq(Steps)
  BY StepNames, KeepFacts DEF AutoPlan
<1>2. ASSUME NEW asked \in Plans, NEW transformer \in BOOLEAN
      PROVE  BuiltPlan(asked, transformer) \in Seq(Steps)
  <2>1. asked \in Seq(Steps)
    <3>1. asked \in Seq(Steps \ {"column_transformer"})
      BY PreprocessingAssumption
    <3> QED
      BY <3>1
  <2>2. <<"column_transformer">> \in Seq(Steps) /\ <<>> \in Seq(Steps)
    BY StepNames
  <2> QED
    BY <2>1, <2>2 DEF BuiltPlan
<1> QED
  BY <1>1, <1>2

LEMMA PipelineInvHolds == PipelineSpec => []PipelineInv
<1>1. PipelineInit => PipelineInv
  <2> SUFFICES ASSUME PipelineInit PROVE PipelineInv
    OBVIOUS
  <2>1. <<>> \in Seq(Steps)
    OBVIOUS
  <2> QED
    BY <2>1 DEF PipelineInit, PipelineInv, Unfitted
<1>2. PipelineInv /\ [PipelineNext]_pipelineVars => PipelineInv'
  <2> SUFFICES ASSUME PipelineInv, [PipelineNext]_pipelineVars PROVE PipelineInv'
    OBVIOUS
  <2>1. CASE Build
    <3>1. plan' \in Seq(Steps)
      BY <2>1, BuiltPlans DEF Build
    <3>2. plan = <<>> /\ UNCHANGED <<traits, pipeline, batch, frozen, served>>
      BY <2>1 DEF Build
    <3> QED
      BY <3>1, <3>2 DEF PipelineInv, Unfitted
  <2>2. CASE FitPipeline
    <3>1. /\ plan # <<>> /\ pipeline = NotFitted /\ UNCHANGED <<plan, stepColumns, batch, frozen, served>>
          /\ \/ traits' \in FoundIn(plan, stepColumns) /\ pipeline' = FitSteps(plan, traits')
             \/ pipeline' = FitFailure
      BY <2>2 DEF FitPipeline
    <3>2. batch = <<>> /\ served = <<>> /\ plan \in Seq(Steps)
      BY <3>1 DEF PipelineInv, Unfitted
    <3> QED
      BY <3>1, <3>2 DEF PipelineInv, Unfitted
  <2>3. CASE Serve
    <3>1. pipeline \notin Unfitted /\ UNCHANGED <<plan, stepColumns, traits, pipeline>>
      BY <2>3 DEF Serve, Unfitted
    <3>2. /\ batch' \in Frames /\ batch' # <<>>
          /\ served' = IF CannotWrite(frozen') THEN FailedFit ELSE Serving(batch')
      BY <2>3 DEF Serve
    <3>3. Serving(batch)' = Serving(batch')
      BY <3>1 DEF Serving
    <3>4. CannotWrite(frozen') => frozen' # {}
      BY DEF CannotWrite
    <3> QED
      BY <3>1, <3>2, <3>3, <3>4 DEF PipelineInv, Unfitted
  <2>4. CASE EncodeTraining \/ UNCHANGED pipelineVars
    <3>1. UNCHANGED <<plan, stepColumns, traits, pipeline, batch, frozen, served>>
      BY <2>4 DEF EncodeTraining, pipelineVars
    <3> QED
      BY <3>1 DEF PipelineInv, Serving, Unfitted
  <2>5. CASE NextPipeline
    <3>1. plan' = <<>> /\ pipeline' = NotFitted /\ batch' = <<>> /\ served' = <<>> /\ <<>> \in Seq(Steps)
      BY <2>5 DEF NextPipeline
    <3> QED
      BY <3>1 DEF PipelineInv, Unfitted
  <2> QED
    BY <2>1, <2>2, <2>3, <2>4, <2>5 DEF PipelineNext
<1> QED
  BY <1>1, <1>2, PTL DEF PipelineSpec

\* Columns that are missing from a frame, if all are dates, stay dates or are made
\* good by the step, which then takes the frame as it took the one it was fitted on.
LEMMA StepsAgree ==
  ASSUME NEW step \in Steps, NEW cols \in Seq(AllColumns), NEW t, NEW Q \in SUBSET Range(cols),
         \A c \in Range(cols) \ Q : IsDate(c),
         ~ (step = "target_encoding" /\ Memory(step, cols, t) = {})
  PROVE  LET memory == Memory(step, cols, t)
             R == Range(cols)
         IN /\ ~ Refuses(step, memory, Q)
            /\ After(step, memory, Q) \subseteq After(step, memory, R)
            /\ \A c \in After(step, memory, R) \ After(step, memory, Q) : IsDate(c)
            /\ step \in {"datetime_features", "column_transformer"} => After(step, memory, Q) = After(step, memory, R)
<1> DEFINE memory == Memory(step, cols, t)
           R == Range(cols)
<1>1. memory \in SUBSET R /\ R \subseteq AllColumns
  BY MemoryInFrame, RangeFacts
<1>2. \A c \in R : ~ IsDate(c) => c \in Q
  OBVIOUS
<1>3. CASE step = "datetime_features"
  <2>1. memory = {c \in R : IsDate(c)}
    BY <1>3 DEF Memory
  <2>2. Q \ memory = R \ memory
    BY <1>2, <2>1
  <2>3. /\ After(step, memory, Q) = (Q \ memory) \cup DateParts(memory)
        /\ After(step, memory, R) = (R \ memory) \cup DateParts(memory)
        /\ ~ Refuses(step, memory, Q)
    BY <1>3 DEF After, Refuses
  <2> HIDE DEF memory
  <2> QED
    BY <2>2, <2>3 DEF memory
<1>4. CASE step = "skewness"
  <2>1. memory \subseteq Q
    BY <1>1, <1>2, <1>4, ColumnKinds DEF Memory
  <2>2. ~ Refuses(step, memory, Q) /\ After(step, memory, Q) = Q /\ After(step, memory, R) = R
    BY <1>4, <2>1 DEF Refuses, After
  <2> HIDE DEF memory
  <2> QED
    BY <1>4, <2>2 DEF memory
<1>5. CASE step = "column_transformer"
  <2>1. memory \subseteq Q
    BY <1>1, <1>2, <1>5, ColumnKinds DEF Memory
  <2>2. ~ Refuses(step, memory, Q) /\ After(step, memory, Q) = memory /\ After(step, memory, R) = memory
    BY <1>5, <2>1 DEF Refuses, After
  <2> HIDE DEF memory
  <2> QED
    BY <2>2 DEF memory
<1>6. CASE step \in {"rare_category", "target_encoding", "multicollinearity", "feature_selection"}
  <2>1. memory = Memory(step, cols, t) /\ ~ (step = "target_encoding" /\ memory = {})
    OBVIOUS
  <2> HIDE DEF memory
  <2>2. ~ Refuses(step, memory, Q)
    BY <1>6, <2>1 DEF Refuses
  <2>3. \/ After(step, memory, Q) = Q /\ After(step, memory, R) = R
        \/ After(step, memory, Q) = Q \cup Codes(memory) /\ After(step, memory, R) = R \cup Codes(memory)
        \/ After(step, memory, Q) = Q \ memory /\ After(step, memory, R) = R \ memory
        \/ After(step, memory, Q) = Q \cap memory /\ After(step, memory, R) = R \cap memory
    BY <1>6 DEF After
  <2>4. step \notin {"datetime_features", "column_transformer"}
    BY <1>6
  <2> QED
    BY <2>2, <2>3, <2>4 DEF memory
<1> QED
  BY <1>3, <1>4, <1>5, <1>6, StepNames

\* The columns of each frame of the fit follow from the ones before.
LEMMA FittedFrames ==
  ASSUME PipelineInv, pipeline \notin Unfitted
  PROVE  \E f \in [0 .. Len(plan) -> Seq(AllColumns)] :
           /\ f[0] = TrainingFrame
           /\ DOMAIN pipeline.memory = 1 .. Len(plan)
           /\ pipeline.output = f[Len(plan)]
           /\ \A i \in 1 .. Len(plan) :
                /\ pipeline.memory[i] = Memory(plan[i], f[i - 1], traits)
                /\ pipeline.memory[i] \in SUBSET AllColumns /\ IsFiniteSet(pipeline.memory[i])
                /\ pipeline.numbers[i] = Range(NumbersOf(f[i - 1]))
                /\ Range(f[i]) = After(plan[i], pipeline.memory[i], Range(f[i - 1]))
<1> DEFINE n == Len(plan)
<1>1. plan \in Seq(Steps) /\ n \in Nat /\ DOMAIN plan = 1 .. n /\ pipeline = FitSteps(plan, traits)
  BY DEF PipelineInv
<1>2. PICK f \in [0 .. n -> Seq(AllColumns)] :
           /\ FitFrames(f, plan, traits)
           /\ FitSteps(plan, traits) = [memory |-> [i \in DOMAIN plan |-> Memory(plan[i], f[i - 1], traits)],
                                        output |-> f[n],
                                        numbers |-> [i \in DOMAIN plan |-> Range(NumbersOf(f[i - 1]))],
                                        apart |-> [i \in DOMAIN plan |-> Range(Apart(f[i - 1], traits))]]
  BY <1>1, FitUnfolds
<1>3. /\ pipeline.output = f[n] /\ DOMAIN pipeline.memory = 1 .. n
      /\ \A i \in 1 .. n : /\ pipeline.memory[i] = Memory(plan[i], f[i - 1], traits)
                           /\ pipeline.numbers[i] = Range(NumbersOf(f[i - 1]))
  BY <1>1, <1>2
<1>4. ASSUME NEW i \in 1 .. n
      PROVE  /\ pipeline.memory[i] \in SUBSET AllColumns /\ IsFiniteSet(pipeline.memory[i])
             /\ Range(f[i]) = After(plan[i], pipeline.memory[i], Range(f[i - 1]))
  <2>1. i - 1 \in 0 .. n /\ plan[i] \in Steps
    BY <1>1
  <2>2. f[i - 1] \in Seq(AllColumns)
    BY <1>2, <2>1
  <2>3. f[i] = FittedFrame(plan[i], Memory(plan[i], f[i - 1], traits), f[i - 1])
    BY <1>2 DEF FitFrames
  <2> QED
    BY <1>3, <2>1, <2>2, <2>3, FittedColumns
<1> QED
  BY <1>2, <1>3, <1>4 DEF FitFrames

LEMMA PipelineServes == ASSUME PipelineInv PROVE ServedAsFitted
<1> SUFFICES ASSUME batch # <<>>
             PROVE  /\ Range(TrainingFrame) \ Range(batch) \subseteq Forgiven /\ ~ EncodesNothing /\ frozen = {} =>
                         served # FailedFit /\ Range(served) = Range(pipeline.output)
                    /\ "column_transformer" \in Range(plan) =>
                         served = FailedFit \/ Range(served) = Range(pipeline.output)
  BY DEF ServedAsFitted
<1> DEFINE n == Len(plan)
<1>1. /\ plan \in Seq(Steps) /\ n \in Nat /\ DOMAIN plan = 1 .. n /\ \A i \in 1 .. n : plan[i] \in Steps
      /\ pipeline \notin Unfitted /\ batch \in Frames
      /\ served = Serving(batch) \/ (frozen # {} /\ served = FailedFit)
  BY DEF PipelineInv
<1>2. batch \in Seq(AllColumns) /\ Range(batch) \subseteq Range(TrainingFrame)
  <2>1. PICK kept \in SUBSET Range(TrainingFrame) : batch = Only(TrainingFrame, kept)
    BY <1>1 DEF Frames
  <2> QED
    BY <2>1, TrainingFrameFacts, KeepFacts
<1>3. PICK f \in [0 .. n -> Seq(AllColumns)] :
           /\ f[0] = TrainingFrame /\ pipeline.output = f[n]
           /\ \A i \in 1 .. n :
                /\ pipeline.memory[i] = Memory(plan[i], f[i - 1], traits)
                /\ pipeline.memory[i] \in SUBSET AllColumns /\ IsFiniteSet(pipeline.memory[i])
                /\ Range(f[i]) = After(plan[i], pipeline.memory[i], Range(f[i - 1]))
  BY <1>1, FittedFrames
<1>4. PICK g \in [0 .. n -> Seq(AllColumns) \cup {FailedFit}] :
           /\ ServedFrames(g, plan, pipeline.memory, batch)
           /\ served = g[n] \/ (frozen # {} /\ served = FailedFit)
  BY <1>1, <1>2, <1>3, ServingUnfolds
<1>5. g[0] = batch /\ \A i \in 1 .. n : g[i] = Transformed(plan[i], pipeline.memory[i], g[i - 1])
  BY <1>4 DEF ServedFrames
<1>6. ASSUME NEW i \in 0 .. n - 1
      PROVE  /\ i \in 0 .. n /\ i + 1 \in 0 .. n /\ i + 1 \in 1 .. n /\ (i + 1) - 1 = i
             /\ f[i] \in Seq(AllColumns) /\ plan[i + 1] \in Steps
             /\ pipeline.memory[i + 1] = Memory(plan[i + 1], f[i], traits)
             /\ pipeline.memory[i + 1] \in SUBSET AllColumns /\ IsFiniteSet(pipeline.memory[i + 1])
             /\ Range(f[i + 1]) = After(plan[i + 1], pipeline.memory[i + 1], Range(f[i]))
             /\ g[i + 1] = Transformed(plan[i + 1], pipeline.memory[i + 1], g[i])
             /\ g[i] \in Seq(AllColumns) =>
                  /\ Refuses(plan[i + 1], pipeline.memory[i + 1], Range(g[i])) => g[i + 1] = FailedFit
                  /\ ~ Refuses(plan[i + 1], pipeline.memory[i + 1], Range(g[i])) =>
                       /\ g[i + 1] \in Seq(AllColumns)
                       /\ Range(g[i + 1]) = After(plan[i + 1], pipeline.memory[i + 1], Range(g[i]))
  <2>1. i \in 0 .. n /\ i + 1 \in 0 .. n /\ i + 1 \in 1 .. n /\ (i + 1) - 1 = i
    BY <1>1
  <2>2. /\ f[i] \in Seq(AllColumns) /\ plan[i + 1] \in Steps
        /\ pipeline.memory[i + 1] = Memory(plan[i + 1], f[i], traits)
        /\ pipeline.memory[i + 1] \in SUBSET AllColumns /\ IsFiniteSet(pipeline.memory[i + 1])
        /\ Range(f[i + 1]) = After(plan[i + 1], pipeline.memory[i + 1], Range(f[i]))
        /\ g[i + 1] = Transformed(plan[i + 1], pipeline.memory[i + 1], g[i])
    BY <1>1, <1>3, <1>5, <2>1
  <2> QED
    BY <2>1, <2>2, TransformedColumns
<1>7. ASSUME Range(TrainingFrame) \ Range(batch) \subseteq Forgiven, ~ EncodesNothing, frozen = {}
      PROVE  served # FailedFit /\ Range(served) = Range(pipeline.output)
  <2> DEFINE Good == {i \in 0 .. n :
                        /\ g[i] \in Seq(AllColumns) /\ Range(g[i]) \subseteq Range(f[i])
                        /\ \A c \in Range(f[i]) \ Range(g[i]) : IsDate(c)
                        /\ Forgiven = {} \/ (\E j \in 1 .. i : plan[j] \in {"datetime_features", "column_transformer"})
                             => Range(g[i]) = Range(f[i])}
  <2>1. 0 \in Good
    <3>1. \A c \in Range(f[0]) \ Range(g[0]) : c \in Forgiven /\ IsDate(c)
      BY <1>3, <1>5, <1>7 DEF Forgiven
    <3>2. g[0] \in Seq(AllColumns) /\ Range(g[0]) \subseteq Range(f[0]) /\ 0 \in 0 .. n
      BY <1>1, <1>2, <1>3, <1>5
    <3>3. ~ \E j \in 1 .. 0 : plan[j] \in {"datetime_features", "column_transformer"}
      OBVIOUS
    <3>4. Forgiven = {} => Range(g[0]) = Range(f[0])
      BY <3>1, <3>2
    <3> QED
      BY <3>1, <3>2, <3>3, <3>4
  <2>2. ASSUME NEW i \in 0 .. n - 1, i \in Good PROVE i + 1 \in Good
    <3> DEFINE step == plan[i + 1]
               memory == pipeline.memory[i + 1]
               Q == Range(g[i])
               R == Range(f[i])
    <3>1. /\ g[i] \in Seq(AllColumns) /\ Q \in SUBSET R /\ \A c \in R \ Q : IsDate(c)
          /\ Forgiven = {} \/ (\E j \in 1 .. i : plan[j] \in {"datetime_features", "column_transformer"}) => Q = R
      BY <2>2
    <3>2. ~ (step = "target_encoding" /\ Memory(step, f[i], traits) = {})
      BY <1>1, <1>6, <1>7 DEF EncodesNothing
    <3>3. /\ ~ Refuses(step, memory, Q)
          /\ After(step, memory, Q) \subseteq After(step, memory, R)
          /\ \A c \in After(step, memory, R) \ After(step, memory, Q) : IsDate(c)
          /\ step \in {"datetime_features", "column_transformer"} => After(step, memory, Q) = After(step, memory, R)
      <4>1. step \in Steps /\ f[i] \in Seq(AllColumns) /\ memory = Memory(step, f[i], traits)
        BY <1>6
      <4> HIDE DEF step, memory, Q
      <4> QED
        BY <3>1, <3>2, <4>1, StepsAgree
    <3>4. /\ g[i + 1] \in Seq(AllColumns) /\ Range(g[i + 1]) = After(step, memory, Q)
          /\ Range(f[i + 1]) = After(step, memory, R) /\ i + 1 \in 0 .. n /\ i \in 0 .. n
      BY <1>6, <3>1, <3>3
    <3>5. (\E j \in 1 .. i + 1 : plan[j] \in {"datetime_features", "column_transformer"}) =>
            \/ step \in {"datetime_features", "column_transformer"}
            \/ \E j \in 1 .. i : plan[j] \in {"datetime_features", "column_transformer"}
      <4>1. 1 .. i + 1 = (1 .. i) \cup {i + 1}
        BY <1>1, <3>4
      <4> QED
        BY <4>1
    <3> HIDE DEF step, memory, Q, R
    <3>6. Forgiven = {} \/ (\E j \in 1 .. i + 1 : plan[j] \in {"datetime_features", "column_transformer"})
            => Range(g[i + 1]) = Range(f[i + 1])
      BY <3>1, <3>3, <3>4, <3>5
    <3> QED
      BY <3>3, <3>4, <3>6
  <2> HIDE DEF Good
  <2>3. n \in Good
    <3>1. \A i \in 0 .. n : i \in Good
      BY <1>1, <2>1, <2>2, Climb
    <3> QED
      BY <1>1, <3>1
  <2>4. Forgiven = {} \/ \E j \in 1 .. n : plan[j] \in {"datetime_features", "column_transformer"}
    BY <1>1 DEF Forgiven, Range
  <2>5. g[n] \in Seq(AllColumns) /\ Range(g[n]) = Range(f[n])
    BY <2>3, <2>4 DEF Good
  <2> QED
    BY <1>3, <1>4, <1>7, <2>5, ColumnKinds
<1>8. ASSUME "column_transformer" \in Range(plan)
      PROVE  served = FailedFit \/ Range(served) = Range(pipeline.output)
  <2> DEFINE Good == {i \in 0 .. n :
                        (\E j \in 1 .. i : plan[j] = "column_transformer") =>
                           \/ g[i] = FailedFit
                           \/ g[i] \in Seq(AllColumns) /\ Range(g[i]) = Range(f[i])}
  <2>1. 0 \in Good
    <3>1. 0 \in 0 .. n /\ 1 .. 0 = {}
      BY <1>1
    <3> QED
      BY <3>1
  <2>2. ASSUME NEW i \in 0 .. n - 1, i \in Good PROVE i + 1 \in Good
    <3> DEFINE step == plan[i + 1]
               memory == pipeline.memory[i + 1]
    <3>1. /\ i \in 0 .. n /\ i + 1 \in 0 .. n
          /\ g[i + 1] = Transformed(step, memory, g[i]) /\ Range(f[i + 1]) = After(step, memory, Range(f[i]))
      BY <1>6
    <3>2. 1 .. i + 1 = (1 .. i) \cup {i + 1}
      BY <1>1, <3>1
    <3> SUFFICES ASSUME \E j \in 1 .. i + 1 : plan[j] = "column_transformer"
                 PROVE  \/ g[i + 1] = FailedFit
                        \/ g[i + 1] \in Seq(AllColumns) /\ Range(g[i + 1]) = Range(f[i + 1])
      BY <3>1
    <3>3. CASE g[i] = FailedFit
      BY <3>1, <3>3 DEF Transformed
    <3>4. CASE g[i] \in Seq(AllColumns)
      <4>1. \/ g[i + 1] = FailedFit
            \/ g[i + 1] \in Seq(AllColumns) /\ Range(g[i + 1]) = After(step, memory, Range(g[i]))
        BY <1>6, <3>4
      <4>2. CASE step = "column_transformer"
        <5>1. After(step, memory, Range(g[i])) = After(step, memory, Range(f[i]))
          BY <4>2 DEF After
        <5> QED
          BY <3>1, <4>1, <5>1
      <4>3. CASE step # "column_transformer"
        <5>1. \E j \in 1 .. i : plan[j] = "column_transformer"
          BY <3>2, <4>3
        <5>2. g[i] = FailedFit \/ Range(g[i]) = Range(f[i])
          BY <2>2, <5>1
        <5> HIDE DEF step, memory
        <5> QED
          BY <3>1, <3>4, <4>1, <5>2, ColumnKinds
      <4> QED
        BY <4>2, <4>3
    <3> QED
      BY <1>4, <3>1, <3>3, <3>4
  <2> HIDE DEF Good
  <2>3. n \in Good
    <3>1. \A i \in 0 .. n : i \in Good
      BY <1>1, <2>1, <2>2, Climb
    <3> QED
      BY <1>1, <3>1
  <2>4. \E j \in 1 .. n : plan[j] = "column_transformer"
    BY <1>1, <1>8 DEF Range
  <2> QED
    BY <1>3, <1>4, <2>3, <2>4 DEF Good
<1> QED
  BY <1>7, <1>8

\* Once a plan was fitted, a frame that has the columns of the training frame,
\* dates excepted where a step extracts or drops them, and whose columns can be
\* written to where a step replaces or encodes their values, reaches the model
\* with the columns it was fitted on; past a column transformer any frame does,
\* or is refused: for any columns of any kinds, any plan of the builder, with
\* whatever columns it was given, and whatever the steps find in the values.
THEOREM ServingIsFaithful == PipelineSpec => []ServedAsFitted
BY PipelineInvHolds, PipelineServes, PTL

\* Pairs of columns that are alike are of two columns.
LEMMA AlikeAreTwo == \A steps, given : \A t \in FoundIn(steps, given) : \A c : {c} \notin t.alike
<1> SUFFICES ASSUME NEW steps, NEW given, NEW t \in FoundIn(steps, given), NEW c, {c} \in t.alike PROVE FALSE
  OBVIOUS
<1>1. \A pair \in t.alike : Cardinality(pair) = 2
  BY DEF FoundIn
<1>2. Cardinality({c}) = 1
  BY FS_Singleton
<1> QED
  BY <1>1, <1>2

LEMMA PipelineKeepsTwins == ASSUME PipelineInv PROVE DroppedColumnsHaveTwins
<1> SUFFICES ASSUME NEW i \in DOMAIN pipeline.memory, plan[i] = "multicollinearity"
             PROVE  LET kept == pipeline.numbers[i] \ pipeline.memory[i]
                    IN /\ \A c \in pipeline.memory[i] : \E d \in kept : {c, d} \in traits.alike
                       /\ \A c, d \in kept \ traits.protected : {c, d} \notin traits.alike
  BY DEF DroppedColumnsHaveTwins
<1>1. pipeline \notin Unfitted
  BY DEF NotFitted, FitFailure, Unfitted
<1>2. traits \in FoundIn(plan, stepColumns) /\ plan \in Seq(Steps) /\ Len(plan) \in Nat
  BY <1>1 DEF PipelineInv
<1>3. PICK f \in [0 .. Len(plan) -> Seq(AllColumns)] :
           /\ DOMAIN pipeline.memory = 1 .. Len(plan)
           /\ \A j \in 1 .. Len(plan) :
                /\ pipeline.memory[j] = Memory(plan[j], f[j - 1], traits)
                /\ pipeline.numbers[j] = Range(NumbersOf(f[j - 1]))
  BY <1>1, FittedFrames
<1> DEFINE cols == f[i - 1]
           numbers == NumbersOf(cols)
<1>4. cols \in Seq(AllColumns)
  <2>1. i - 1 \in 0 .. Len(plan)
    BY <1>2, <1>3
  <2> QED
    BY <1>3, <2>1
<1>5. pipeline.memory[i] = Redundant(numbers, traits.alike, traits.protected) /\ pipeline.numbers[i] = Range(numbers)
  BY <1>3 DEF Memory
<1>6. numbers \in Seq(AllColumns)
  BY <1>4, NumbersFacts
<1>7. \A c : {c} \notin traits.alike
  BY <1>2, AlikeAreTwo
<1> HIDE DEF numbers
<1>8. Judged(Range(numbers), Redundant(numbers, traits.alike, traits.protected), traits.alike, traits.protected)
  BY <1>6, <1>7, RedundantFacts
<1> QED
  BY <1>5, <1>8 DEF Judged

\* The correlation filter never drops a column unless one like it stays, however
\* many columns are alike and in whatever chains, and of two that are alike it
\* keeps one unless either is protected.
THEOREM TwinsAreKept == PipelineSpec => []DroppedColumnsHaveTwins
BY PipelineInvHolds, PipelineKeepsTwins, PTL

-----------------------------------------------------------------------------
(* Quality checks: cells of a column *)

\* A column of a table or one made for the outliers.
IsColumn(s) == \E n \in Nat : s \in [1 .. n -> Cells]

LEMMA ColumnFacts ==
  ASSUME NEW s, IsColumn(s)
  PROVE  /\ Len(s) \in Nat /\ DOMAIN s = 1 .. Len(s)
         /\ Present(s) \in SUBSET (1 .. Len(s)) /\ IsFiniteSet(Present(s))
         /\ Cardinality(Present(s)) \in Nat /\ Cardinality(Present(s)) <= Len(s)
         /\ \A i \in Present(s) : s[i] \in CellValues /\ s[i] \in Nat /\ s[i] \in Int
         /\ IsFiniteSet(ValuesOf(s)) /\ ValuesOf(s) \subseteq CellValues /\ ValuesOf(s) \subseteq Nat
<1>1. PICK n \in Nat : s \in [1 .. n -> Cells]
  BY DEF IsColumn
<1>2. Len(s) = n /\ DOMAIN s = 1 .. n
  BY <1>1
<1>3. Present(s) \in SUBSET (1 .. n)
  BY <1>2 DEF Present
<1>4. IsFiniteSet(Present(s)) /\ Cardinality(Present(s)) \in Nat /\ Cardinality(Present(s)) <= n
  BY <1>1, <1>3, FinitePositions
<1>5. \A i \in Present(s) : s[i] \in CellValues /\ s[i] \in Nat /\ s[i] \in Int
  <2>1. \A i \in Present(s) : s[i] \in CellValues
    BY <1>1, <1>2 DEF Present, Cells
  <2>2. \A v \in CellValues : v \in Nat
    BY QualityAssumption
  <2>3. \A v \in Nat : v \in Int
    OBVIOUS
  <2> QED
    BY <2>1, <2>2, <2>3
<1>6. IsFiniteSet(ValuesOf(s))
  <2> DEFINE I == Present(s)
             f == [i \in I |-> s[i]]
  <2>1. f \in [I -> CellValues] /\ IsFiniteSet(I)
    BY <1>4, <1>5
  <2>2. ValuesOf(s) = {f[i] : i \in I}
    BY DEF ValuesOf
  <2> HIDE DEF f, I
  <2>3. IsFiniteSet({f[i] : i \in I})
    BY <2>1, FiniteImage
  <2> QED
    BY <2>2, <2>3
<1>7. ValuesOf(s) \subseteq CellValues /\ ValuesOf(s) \subseteq Nat
  BY <1>5 DEF ValuesOf
<1> QED
  BY <1>1, <1>2, <1>3, <1>4, <1>5, <1>6, <1>7

LEMMA CasesAreColumns ==
  /\ \A n \in TableLengths : \A s \in Cases(n) : IsColumn(s) /\ Len(s) = n
  /\ \A s \in LoneCases : IsColumn(s)
<1>1. ASSUME NEW n \in TableLengths, NEW s \in Cases(n) PROVE IsColumn(s) /\ Len(s) = n
  BY QualityAssumption DEF Cases, IsColumn
<1>2. ASSUME NEW s \in LoneCases PROVE IsColumn(s)
  <2>1. PICK n \in LoneLengths, v \in CellValues, w \in CellValues : s = [i \in 1 .. n |-> IF i = 1 THEN v ELSE w]
    BY DEF LoneCases
  <2>2. s \in [1 .. n -> Cells] /\ n \in Nat
    BY <2>1, QualityAssumption DEF Cells
  <2> QED
    BY <2>2 DEF IsColumn
<1> QED
  BY <1>1, <1>2

\* The cells of a column with a value among some.
CellsIn(s, values) == {i \in Present(s) : s[i] \in values}

LEMMA OtherValues ==
  ASSUME NEW s, NEW values, NEW W, ValuesOf(s) \subseteq W
  PROVE  CellsIn(s, values) = CellsIn(s, values \cap W)
BY DEF CellsIn, ValuesOf

LEMMA CellsInFacts ==
  ASSUME NEW s, IsColumn(s), NEW values
  PROVE  /\ IsFiniteSet(CellsIn(s, values)) /\ Cardinality(CellsIn(s, values)) \in Nat
         /\ Cardinality(CellsIn(s, values)) <= Cardinality(Present(s))
         /\ Cardinality(CellsIn(s, values)) > 0 <=> values \cap ValuesOf(s) # {}
         /\ \A v : v \notin values =>
              Cardinality(CellsIn(s, values \cup {v})) = Cardinality(CellsIn(s, values)) + Cardinality(CellsIn(s, {v}))
<1>1. IsFiniteSet(Present(s))
  BY ColumnFacts
<1>2. ASSUME NEW V PROVE /\ IsFiniteSet(CellsIn(s, V)) /\ Cardinality(CellsIn(s, V)) \in Nat
                         /\ Cardinality(CellsIn(s, V)) <= Cardinality(Present(s))
  <2>1. CellsIn(s, V) \in SUBSET Present(s)
    BY DEF CellsIn
  <2> QED
    BY <1>1, <2>1, FS_Subset, FS_CardinalityType
<1>3. Cardinality(CellsIn(s, values)) > 0 <=> values \cap ValuesOf(s) # {}
  <2>1. CellsIn(s, values) = {} <=> values \cap ValuesOf(s) = {}
    BY DEF CellsIn, ValuesOf
  <2>2. Cardinality(CellsIn(s, values)) = 0 <=> CellsIn(s, values) = {}
    BY <1>2, FS_EmptySet
  <2> QED
    BY <1>2, <2>1, <2>2
<1>4. ASSUME NEW v, v \notin values
      PROVE  Cardinality(CellsIn(s, values \cup {v})) = Cardinality(CellsIn(s, values)) + Cardinality(CellsIn(s, {v}))
  <2> DEFINE A == CellsIn(s, values)
             B == CellsIn(s, {v})
  <2>1. CellsIn(s, values \cup {v}) = A \cup B /\ A \cap B = {}
    BY <1>4 DEF CellsIn
  <2>2. IsFiniteSet(A) /\ IsFiniteSet(B) /\ Cardinality(A) \in Nat /\ Cardinality(B) \in Nat
    BY <1>2
  <2> HIDE DEF A, B
  <2>3. Cardinality(A \cup B) = Cardinality(A) + Cardinality(B) - Cardinality(A \cap B) /\ Cardinality({}) = 0
    BY <2>2, FS_Union, FS_EmptySet
  <2>5. Cardinality(A \cap B) = 0
    BY <2>1, <2>3
  <2>4. Cardinality(A \cup B) = Cardinality(A) + Cardinality(B)
    BY <2>2, <2>3, <2>5
  <2> QED
    BY <2>1, <2>4 DEF A, B
<1> QED
  BY <1>2, <1>3, <1>4

-----------------------------------------------------------------------------
(* Quality checks: drift *)

\* Two columns in which every value has the same share give any values the same share.
LEMMA SharesAdd ==
  ASSUME NEW ref, NEW cur, IsColumn(ref), IsColumn(cur),
         \A v \in CellValues : SameShare(Share(ref, {v}), Share(cur, {v})), NEW values
  PROVE  SameShare(Share(ref, values), Share(cur, values))
<1> DEFINE N == Cardinality(Present(ref))
           M == Cardinality(Present(cur))
           R(T) == Cardinality(CellsIn(ref, T))
           C(T) == Cardinality(CellsIn(cur, T))
           W == ValuesOf(ref) \cup ValuesOf(cur)
           V == values \cap W
           Good == {T \in SUBSET V : R(T) * M = C(T) * N}
<1>1. \A T : SameShare(Share(ref, T), Share(cur, T)) <=> R(T) * M = C(T) * N
  BY DEF SameShare, Share, CellsIn
<1>2. N \in Nat /\ M \in Nat /\ \A T : R(T) \in Nat /\ C(T) \in Nat
  BY ColumnFacts, CellsInFacts
<1>3. IsFiniteSet(V) /\ V \subseteq CellValues
  BY ColumnFacts, FS_Union, FS_Subset
<1>4. {} \in Good
  <2>1. ~ R({}) > 0 /\ ~ C({}) > 0
    BY CellsInFacts
  <2>2. R({}) = 0 /\ C({}) = 0
    BY <1>2, <2>1
  <2> QED
    BY <1>2, <2>2
<1>5. ASSUME NEW T \in SUBSET V, NEW x \in V \ T, T \in Good PROVE T \cup {x} \in Good
  <2>1. R(T \cup {x}) = R(T) + R({x}) /\ C(T \cup {x}) = C(T) + C({x})
    BY CellsInFacts
  <2>2. R({x}) * M = C({x}) * N
    BY <1>1, <1>3
  <2>3. R(T) * M = C(T) * N
    BY <1>5
  <2> DEFINE a == R(T)
             b == R({x})
             c == C(T)
             d == C({x})
  <2>4. a \in Nat /\ b \in Nat /\ c \in Nat /\ d \in Nat /\ a * M = c * N /\ b * M = d * N
    BY <1>2, <2>2, <2>3
  <2>5. (a + b) * M = (c + d) * N
    <3> HIDE DEF a, b, c, d, N, M
    <3>1. (a + b) * M = a * M + b * M /\ (c + d) * N = c * N + d * N
      BY <1>2, <2>4
    <3> QED
      BY <2>4, <3>1
  <2> QED
    BY <2>1, <2>5
<1> HIDE DEF Good, V
<1>6. V \in Good
  BY <1>3, <1>4, <1>5, Grow
<1>7. CellsIn(ref, values) = CellsIn(ref, V) /\ CellsIn(cur, values) = CellsIn(cur, V)
  <2>1. ValuesOf(ref) \subseteq W /\ ValuesOf(cur) \subseteq W
    OBVIOUS
  <2> HIDE DEF W
  <2>2. CellsIn(ref, values) = CellsIn(ref, values \cap W) /\ CellsIn(cur, values) = CellsIn(cur, values \cap W)
    BY <2>1, OtherValues
  <2> QED
    BY <2>2 DEF V
<1>8. R(values) * M = C(values) * N
  BY <1>6, <1>7 DEF Good
<1> QED
  BY <1>1, <1>8

LEMMA DriftIsChange ==
  ASSUME quality = NoAnswer, DetectDrift
  PROVE  OnlyChangesDrift' /\ (QualityReportsAreTrue /\ QualityTypeOK)'
<1> DEFINE Small(n, m) == n < MinSampleSize \/ m < MinSampleSize
<1>1. PICK n \in TableLengths, m \in TableLengths, kind \in {"numeric", "categorical"} :
        \E ref \in Cases(n), cur \in Cases(m) :
        \E psi \in PSI(kind, ref, cur), rejects \in KSRejects(kind, ref, cur) :
          \/ quality' = Answer("refused", 0)
          \/ quality' = Answer("skipped", 0)
          \/ quality' = DriftAnswer(kind, ref, cur, Small(n, m), psi, rejects)
  BY DEF DetectDrift
<1> DEFINE flagged == Small(n, m)
<1>2. PICK ref \in Cases(n), cur \in Cases(m) :
        \E psi \in PSI(kind, ref, cur), rejects \in KSRejects(kind, ref, cur) :
          \/ quality' = Answer("refused", 0)
          \/ quality' = Answer("skipped", 0)
          \/ quality' = DriftAnswer(kind, ref, cur, flagged, psi, rejects)
  BY <1>1
<1> HIDE DEF flagged
<1>3. PICK psi \in PSI(kind, ref, cur), rejects \in KSRejects(kind, ref, cur) :
          \/ quality' = Answer("refused", 0)
          \/ quality' = Answer("skipped", 0)
          \/ quality' = DriftAnswer(kind, ref, cur, flagged, psi, rejects)
  BY <1>2
<1>4. quality'.how \in {"refused", "skipped", "drift"}
  BY <1>3 DEF Answer, DriftAnswer
<1>5. (QualityReportsAreTrue /\ QualityTypeOK)'
  BY <1>4 DEF QualityReportsAreTrue, ProfileIsTrue, OutliersAreFew, QualityTypeOK
<1>6. IsColumn(ref) /\ IsColumn(cur)
  BY <1>1, <1>2, CasesAreColumns
<1> DEFINE Same(T) == SameShare(Share(ref, T), Share(cur, T))
           N == Cardinality(Present(ref))
           M == Cardinality(Present(cur))
           R(T) == Cardinality(CellsIn(ref, T))
           C(T) == Cardinality(CellsIn(cur, T))
<1>7. \A T : Same(T) <=> R(T) * M = C(T) * N
  BY DEF SameShare, Share, CellsIn
<1>8. N \in Nat /\ M \in Nat /\ \A T : R(T) \in Nat /\ C(T) \in Nat
  BY <1>6, ColumnFacts, CellsInFacts
<1>9. /\ Present(ref) # {} => N > 0
      /\ Present(cur) # {} => M > 0
  BY <1>6, <1>8, ColumnFacts, FS_EmptySet
<1>10. \A v : (R({v}) > 0 <=> v \in ValuesOf(ref)) /\ (C({v}) > 0 <=> v \in ValuesOf(cur))
  <2> SUFFICES ASSUME NEW v PROVE (R({v}) > 0 <=> v \in ValuesOf(ref)) /\ (C({v}) > 0 <=> v \in ValuesOf(cur))
    OBVIOUS
  <2>1. (R({v}) > 0 <=> {v} \cap ValuesOf(ref) # {}) /\ (C({v}) > 0 <=> {v} \cap ValuesOf(cur) # {})
    BY <1>6, CellsInFacts
  <2> QED
    BY <2>1
<1>11. ASSUME \A v \in CellValues : Same({v}) PROVE psi \in {"unavailable", "none"}
  <2>1. \A T : Same(T)
    BY <1>6, <1>11, SharesAdd
  <2>2. SameShape(kind, ref, cur)
    <3> HIDE DEF Same
    <3>1. \A T : SameShare(Share(ref, T), Share(cur, T))
      BY <2>1 DEF Same
    <3> QED
      BY <3>1 DEF SameShape
  <2>3. CASE Present(ref) = {} \/ Present(cur) = {}
    BY <1>3, <2>3 DEF PSI
  <2>4. CASE Present(ref) # {} /\ Present(cur) # {}
    <3>1. ValuesOf(cur) = ValuesOf(ref)
      <4> SUFFICES ASSUME NEW v PROVE v \in ValuesOf(ref) <=> v \in ValuesOf(cur)
        OBVIOUS
      <4> DEFINE a == R({v})
                 b == C({v})
      <4>1. a * M = b * N /\ a \in Nat /\ b \in Nat /\ M > 0 /\ N > 0
        BY <1>7, <1>8, <1>9, <2>1, <2>4
      <4>2. a > 0 <=> b > 0
        <5> HIDE DEF a, b, M, N
        <5>1. /\ \A x, y \in Nat : x > 0 /\ y > 0 => x * y > 0
              /\ \A x \in Nat : 0 * x = 0
          OBVIOUS
        <5> QED
          BY <1>8, <4>1, <5>1
      <4> QED
        BY <1>10, <4>2
    <3> QED
      BY <1>3, <2>2, <2>4, <3>1 DEF PSI, ConstantPSI
  <2> QED
    BY <2>3, <2>4
<1>12. ASSUME kind = "categorical", Present(cur) # {}, Present(ref) # {}, ValuesOf(ref) \cap ValuesOf(cur) = {}
       PROVE  psi = "significant"
  <2>1. PICK v : v \in ValuesOf(ref) /\ v \notin ValuesOf(cur)
    BY <1>12 DEF ValuesOf
  <2>2. R({v}) > 0 /\ ~ C({v}) > 0 /\ M > 0
    BY <1>9, <1>10, <1>12, <2>1
  <2>3. ~ Same({v})
    <3> DEFINE a == R({v})
               b == C({v})
    <3>1. a \in Nat /\ b \in Nat /\ a > 0 /\ ~ b > 0 /\ M > 0
      BY <1>8, <2>2
    <3>2. ~ a * M = b * N
      <4> HIDE DEF a, b, M, N
      <4>1. /\ \A x, y \in Nat : x > 0 /\ y > 0 => x * y > 0
            /\ \A x \in Nat : 0 * x = 0
        OBVIOUS
      <4> QED
        BY <1>8, <3>1, <4>1
    <3> QED
      BY <1>7, <3>2
  <2>4. ~ SameShape(kind, ref, cur)
    BY <1>12, <2>1, <2>3 DEF SameShape
  <2> QED
    BY <1>3, <1>12, <2>4 DEF PSI
<1>13. CASE quality' = DriftAnswer(kind, ref, cur, flagged, psi, rejects)
  <2>1. /\ quality'.of.kind = kind /\ quality'.of.ref = ref /\ quality'.of.cur = cur
        /\ quality'.of.drifted = Drifted(psi, rejects) /\ quality'.of.flagged = flagged
        /\ quality'.of.scored = (psi # "unavailable")
    BY <1>13 DEF Answer, DriftAnswer
  <2>2. Drifted(psi, rejects) => \E v \in CellValues : ~ Same({v})
    BY <1>11 DEF Drifted
  <2>3. kind = "categorical" /\ Present(cur) # {} /\ Present(ref) # {} /\ ValuesOf(ref) \cap ValuesOf(cur) = {}
          => Drifted(psi, rejects)
    BY <1>12 DEF Drifted
  <2>4. Present(cur) # {} /\ Present(ref) # {} => psi # "unavailable"
    BY <1>3 DEF PSI, ConstantPSI
  <2> QED
    BY <1>5, <2>1, <2>2, <2>3, <2>4 DEF OnlyChangesDrift
<1>14. CASE quality'.how # "drift"
  BY <1>5, <1>14 DEF OnlyChangesDrift
<1> QED
  BY <1>3, <1>13, <1>14 DEF Answer

-----------------------------------------------------------------------------
(* Quality checks: the profile *)

LEMMA TableFacts ==
  ASSUME NEW t \in Tables
  PROVE  /\ Length(t) \in Nat /\ Lines(t) = 1 .. Length(t)
         /\ \A c \in QualityColumns : IsColumn(t[c]) /\ DOMAIN t[c] = Lines(t) /\ HowMany(t[c], Missing) \in Nat
<1>1. PICK n \in TableLengths : t \in [QualityColumns -> Cases(n)]
  BY DEF Tables
<1>2. n \in Nat
  BY QualityAssumption
<1>3. \A c \in QualityColumns : IsColumn(t[c]) /\ Len(t[c]) = n /\ DOMAIN t[c] = 1 .. n
  BY <1>1, CasesAreColumns, ColumnFacts
<1>4. Length(t) = n
  <2>1. (CHOOSE c \in QualityColumns : TRUE) \in QualityColumns
    BY QualityAssumption
  <2> QED
    BY <1>3, <2>1 DEF Length
<1>5. Lines(t) = 1 .. n
  BY <1>4 DEF Lines
<1>6. ASSUME NEW c \in QualityColumns PROVE HowMany(t[c], Missing) \in Nat
  <2> DEFINE S == {i \in DOMAIN t[c] : t[c][i] = Missing}
  <2>1. S \in SUBSET (1 .. n)
    BY <1>3
  <2> HIDE DEF S
  <2>2. Cardinality(S) \in Nat
    BY <1>2, <2>1, FinitePositions
  <2> QED
    BY <2>2 DEF S, HowMany
<1> QED
  BY <1>2, <1>3, <1>4, <1>5, <1>6

\* A set of at most one member.
LEMMA AtMostOne ==
  ASSUME NEW S, IsFiniteSet(S), Cardinality(S) <= 1
  PROVE  \A a, b \in S : a = b
<1> SUFFICES ASSUME NEW a \in S, NEW b \in S, a # b PROVE FALSE
  OBVIOUS
<1> DEFINE T == S \ {a}
<1>1. IsFiniteSet(T) /\ Cardinality(T) = Cardinality(S) - 1 /\ b \in T
  BY FS_RemoveElement
<1>2. Cardinality(S) \in Nat /\ Cardinality(T) \in Nat
  BY <1>1, FS_CardinalityType
<1> HIDE DEF T
<1>3. Cardinality(T) = 0
  BY <1>1, <1>2
<1> QED
  BY <1>1, <1>3, FS_EmptySet

\* Without an issue only missing cells cost anything, and they are a tenth at most.
LEMMA CleanScore ==
  ASSUME NEW t \in Tables, NEW skewed, Issues(t, skewed) = {}
  PROVE  Score(t, skewed) >= 960
<1> DEFINE M == MissingCells(t)
           C == CellCount(t)
           Q == QualityColumns
<1>1. /\ ~ 10 * M > C
      /\ Duplicates(t, Q) = {} /\ Constant(t) = {} /\ skewed = {}
  <2>1. "missing" \notin Issues(t, skewed) /\ "duplicates" \notin Issues(t, skewed)
        /\ "constants" \notin Issues(t, skewed) /\ "skewed" \notin Issues(t, skewed)
    OBVIOUS
  <2> QED
    BY <2>1 DEF Issues, ManyMissing
<1>2. M \in Nat
  <2> DEFINE f == [c \in Q |-> HowMany(t[c], Missing)]
  <2>1. IsFiniteSet(Q) /\ \A c \in Q : f[c] \in Nat
    BY TableFacts, QualityAssumption
  <2> HIDE DEF f
  <2>2. SumFunctionOnSet(f, Q) \in Nat
    BY <2>1, SumOfNaturals
  <2> QED
    BY <2>2 DEF f, MissingCells
<1>3. C \in Nat /\ C > 0
  <2>1. Length(t) \in Nat /\ Cardinality(Q) \in Nat
    BY TableFacts, QualityAssumption, FS_CardinalityType
  <2> DEFINE p == Length(t) * Cardinality(Q)
  <2>2. p \in Nat
    BY <2>1
  <2> HIDE DEF p
  <2>3. AtLeastOne(p) \in Nat /\ AtLeastOne(p) > 0
    BY <2>2 DEF AtLeastOne
  <2> QED
    BY <2>3 DEF p, CellCount
<1> HIDE DEF M, C
<1>4. PerMille(M, C) \in 0 .. 100
  <2>1. PerMille(M, C) = (1000 * M) \div C
    BY <1>3 DEF PerMille, AtLeastOne
  <2> DEFINE d == (1000 * M) \div C
  <2>2. d \in Int /\ 1000 * M = d * C + ((1000 * M) % C) /\ (1000 * M) % C \in 0 .. C - 1
    BY <1>2, <1>3
  <2> DEFINE r == (1000 * M) % C
             e == d * C
  <2>3. r \in 0 .. C - 1 /\ e \in Int /\ 1000 * M = e + r /\ d \in Int /\ e = d * C
    BY <1>3, <2>2
  <2> HIDE DEF r, d
  <2>4. e <= 100 * C /\ e > 0 - C
    <3> HIDE DEF e
    <3> QED
      BY <1>1, <1>2, <1>3, <2>3 DEF M, C
  <2>5. d <= 100
    <3> SUFFICES ASSUME d >= 101 PROVE FALSE
      BY <2>3
    <3>1. \A x \in Int, y \in Nat : x >= 101 => x * y >= 101 * y
      OBVIOUS
    <3>2. e >= 101 * C
      BY <1>3, <2>3, <3>1
    <3> HIDE DEF e
    <3> QED
      BY <1>3, <2>3, <2>4, <3>2
  <2>6. d >= 0
    <3> SUFFICES ASSUME d <= 0 - 1 PROVE FALSE
      BY <2>3
    <3>1. \A x \in Int, y \in Nat : x <= 0 - 1 => x * y <= 0 - y
      OBVIOUS
    <3>2. e <= 0 - C
      BY <1>3, <2>3, <3>1
    <3> HIDE DEF e
    <3> QED
      BY <1>3, <2>3, <2>4, <3>2
  <2> QED
    BY <2>1, <2>3, <2>5, <2>6 DEF d
<1>5. \A n \in Nat : PerMille(0, n) = 0
  <2> SUFFICES ASSUME NEW n \in Nat PROVE PerMille(0, n) = 0
    OBVIOUS
  <2> DEFINE w == AtLeastOne(n)
  <2>1. w \in Nat /\ w > 0
    BY DEF AtLeastOne
  <2>2. PerMille(0, n) = 0 \div w
    BY DEF PerMille
  <2> HIDE DEF w
  <2>3. 0 \div w = 0
    BY <2>1
  <2> QED
    BY <2>2, <2>3
<1>6. Score(t, skewed) = 1000 - (2 * PerMille(M, C) + 0 + 0 + 0) \div 5
  <2>1. /\ Cardinality(Duplicates(t, Q)) = 0 /\ Cardinality(Constant(t)) = 0 /\ Cardinality(skewed) = 0
        /\ Length(t) \in Nat /\ Cardinality(Q) \in Nat /\ Cardinality(QualityNumeric) \in Nat
    BY <1>1, TableFacts, QualityAssumption, FS_EmptySet, FS_CardinalityType, FS_Subset
  <2> QED
    BY <1>5, <2>1 DEF Score, M, C
<1> DEFINE s == PerMille(M, C)
<1> HIDE DEF s
<1>7. s \in 0 .. 100 /\ Score(t, skewed) = 1000 - (2 * s + 0 + 0 + 0) \div 5
  BY <1>4, <1>6 DEF s
<1> QED
  BY <1>7

\* What is constant does not tell lines apart, nor does one of two equal columns.
LEMMA RedundantColumns ==
  ASSUME NEW t \in Tables, NEW c \in QualityColumns,
         \A i, j \in Lines(t) : (\A d \in QualityColumns \ {c} : t[d][i] = t[d][j]) => t[c][i] = t[c][j]
  PROVE  Duplicates(t, QualityColumns \ {c}) = Duplicates(t, QualityColumns)
BY DEF Duplicates

LEMMA ConstantRedundant ==
  ASSUME NEW t \in Tables, NEW c \in Constant(t)
  PROVE  c \in QualityColumns /\ \A i, j \in Lines(t) : t[c][i] = t[c][j]
<1> DEFINE L == Lines(t)
           f == t[c]
           S == {f[i] : i \in L}
<1>1. c \in QualityColumns /\ Cardinality(S) <= 1
  BY DEF Constant
<1>2. DOMAIN f = L /\ L = 1 .. Length(t) /\ Length(t) \in Nat /\ f \in [L -> Cells]
  BY <1>1, TableFacts DEF IsColumn
<1>3. IsFiniteSet(L)
  BY <1>2, FS_Interval
<1> HIDE DEF L, f
<1>4. IsFiniteSet(S)
  BY <1>2, <1>3, FiniteImage
<1>5. \A i \in L : f[i] \in S
  OBVIOUS
<1> HIDE DEF S
<1>6. \A a, b \in S : a = b
  BY <1>1, <1>4, AtMostOne
<1> QED
  BY <1>1, <1>5, <1>6 DEF L, f

LEMMA ProfileHolds ==
  ASSUME quality = NoAnswer, Profile
  PROVE  (QualityReportsAreTrue /\ OnlyChangesDrift /\ QualityTypeOK)'
<1>1. PICK t \in Tables : \E skewed \in SUBSET MaySkew(t) :
        quality' = Answer("profile", [table |-> t, score |-> Score(t, skewed), issues |-> Issues(t, skewed),
                                      constant |-> Constant(t), twins |-> Twins(t)])
  BY DEF Profile
<1>2. PICK skewed \in SUBSET MaySkew(t) :
        quality' = Answer("profile", [table |-> t, score |-> Score(t, skewed), issues |-> Issues(t, skewed),
                                      constant |-> Constant(t), twins |-> Twins(t)])
  BY <1>1
<1> DEFINE p == quality'.of
<1>3. /\ quality'.how = "profile" /\ p.table = t /\ p.score = Score(t, skewed) /\ p.issues = Issues(t, skewed)
      /\ p.constant = Constant(t) /\ p.twins = Twins(t)
  BY <1>2 DEF Answer
<1>4. p.issues = {} => p.score >= 960
  <2>1. Issues(t, skewed) = {} => Score(t, skewed) >= 960
    BY CleanScore
  <2> QED
    BY <1>3, <2>1
<1>5. ASSUME NEW c \in Constant(t) PROVE Duplicates(t, QualityColumns \ {c}) = Duplicates(t, QualityColumns)
  BY ConstantRedundant, RedundantColumns
<1>6. ASSUME NEW pair \in Twins(t), NEW c \in pair
      PROVE  Duplicates(t, QualityColumns \ {c}) = Duplicates(t, QualityColumns)
  <2>1. pair \in SUBSET QualityColumns /\ Cardinality(pair) = 2 /\ \A a, b \in pair : t[a] = t[b]
    BY DEF Twins
  <2>2. pair # {c}
    <3>1. Cardinality({c}) = 1
      BY FS_Singleton
    <3> QED
      BY <2>1, <3>1
  <2>3. PICK d \in pair : d # c
    BY <1>6, <2>2
  <2>4. c \in QualityColumns /\ d \in QualityColumns \ {c} /\ t[c] = t[d]
    BY <1>6, <2>1, <2>3
  <2> QED
    BY <2>4, RedundantColumns
<1>7. ProfileIsTrue'
  <2>1. \A c \in Constant(t) : Duplicates(t, QualityColumns \ {c}) = Duplicates(t, QualityColumns)
    BY <1>5
  <2>2. \A pair \in Twins(t) : \A c \in pair : Duplicates(t, QualityColumns \ {c}) = Duplicates(t, QualityColumns)
    BY <1>6
  <2> QED
    BY <1>3, <1>4, <2>1, <2>2 DEF ProfileIsTrue
<1> QED
  BY <1>3, <1>7 DEF QualityReportsAreTrue, OutliersAreFew, OnlyChangesDrift, QualityTypeOK

-----------------------------------------------------------------------------
(* Quality checks: outliers *)

LEMMA Samuelson ==
  \A N, a, L, Q, D, W, V \in Int :
    /\ D = (Q - 2 * (a * L)) + N * (a * a) /\ W = N * Q - L * L
    /\ N >= 0 /\ N <= 9 /\ W >= 0 /\ V >= 0 /\ D <= V
    => (N * a - L) * (N * a - L) <= 9 * V
<1> SUFFICES ASSUME NEW N \in Int, NEW a \in Int, NEW L \in Int, NEW Q \in Int, NEW D \in Int, NEW W \in Int,
                    NEW V \in Int, D = (Q - 2 * (a * L)) + N * (a * a), W = N * Q - L * L,
                    N >= 0, N <= 9, W >= 0, V >= 0, D <= V
             PROVE  (N * a - L) * (N * a - L) <= 9 * V
  OBVIOUS
<1> DEFINE e == (N * a - L) * (N * a - L)
           nd == N * D
           nv == N * V
<1>1. e = nd - W
  <2>1. nd = N * ((Q - 2 * (a * L)) + N * (a * a))
    OBVIOUS
  <2>2. N * ((Q - 2 * (a * L)) + N * (a * a)) = N * Q - 2 * (N * a * L) + N * a * (N * a)
    OBVIOUS
  <2>3. e = N * a * (N * a) - 2 * (N * a * L) + L * L
    OBVIOUS
  <2> QED
    BY <2>1, <2>2, <2>3
<1>2. nd <= nv
  <2>1. \A x \in Nat, y, z \in Int : y <= z => x * y <= x * z
    OBVIOUS
  <2> QED
    BY <2>1
<1>3. nv <= 9 * V
  <2>1. \A x \in Nat, y, z \in Int : y <= z => y * x <= z * x
    OBVIOUS
  <2> QED
    BY <2>1
<1>4. e \in Int /\ nd \in Int /\ nv \in Int
  OBVIOUS
<1> HIDE DEF e, nd, nv
<1>5. e <= 9 * V
  BY <1>1, <1>2, <1>3, <1>4
<1> QED
  BY <1>5 DEF e

\* No value of ten lies more than three standard deviations from the mean.
LEMMA NoneOfTenDeviates ==
  ASSUME NEW s, IsColumn(s), Len(s) <= 10
  PROVE  Deviant(s) = {}
<1> DEFINE P == Present(s)
           n == Cardinality(P)
           sum == SumFunctionOnSet(s, P)
           V == SpreadOf(s, P)
<1>1. IsFiniteSet(P) /\ n \in Nat /\ n <= 10 /\ Integral(s, P)
  BY ColumnFacts DEF Integral
<1>2. Deviant(s) = {x \in P : (n * s[x] - sum) * (n * s[x] - sum) > 9 * V /\ V > 0}
  BY DEF Deviant, SpreadOf, SquareOf
<1> HIDE DEF P
<1>3. V \in Nat /\ \A x \in P : SumFunctionOnSet(Distances(s, P \ {x}, s[x]), P \ {x}) <= V
  BY <1>1, SpreadIsNatural
<1> SUFFICES ASSUME NEW x \in P PROVE (n * s[x] - sum) * (n * s[x] - sum) <= 9 * V
  <2>1. sum \in Int /\ \A x \in P : s[x] \in Int
    BY <1>1, SumType DEF Integral
  <2> DEFINE far(x) == (n * s[x] - sum) * (n * s[x] - sum)
             bound == 9 * V
  <2>2. bound \in Int /\ \A x \in P : far(x) \in Int
    BY <1>1, <1>3, <2>1
  <2> HIDE DEF far, bound
  <2>3. \A x \in P : far(x) <= bound => ~ far(x) > bound
    BY <2>2
  <2> QED
    BY <1>2, <2>3 DEF far, bound
<1> DEFINE R == P \ {x}
           N == Cardinality(R)
           a == s[x]
           L == SumFunctionOnSet(s, R)
           Q == SumFunctionOnSet(SquareOf(s, R), R)
           D == SumFunctionOnSet(Distances(s, R, a), R)
           W == SpreadOf(s, R)
<1>4. IsFiniteSet(R) /\ N = n - 1 /\ Integral(s, R) /\ a \in Int
  BY <1>1, FS_RemoveElement DEF Integral
<1>5. sum = a + L
  BY <1>1, SumAny
<1>6. D <= V
  BY <1>3
<1> HIDE DEF R, a
<1>7. D = (Q - 2 * (a * L)) + N * (a * a) /\ W = N * Q - L * L
  BY <1>4, SumOfDistances DEF SpreadOf
<1>8. W \in Nat /\ L \in Int /\ N \in Nat
  BY <1>4, SpreadIsNatural, SumType, FS_CardinalityType
<1>9. Q \in Int
  <2>1. Integral(SquareOf(s, R), R)
    BY <1>4 DEF Integral, SquareOf
  <2> QED
    BY <1>4, <2>1, SumType
<1>10. D \in Int
  BY <1>4, <1>7, <1>8, <1>9
<1> HIDE DEF n, sum, V, N, L, Q, D, W
<1>11. (N * a - L) * (N * a - L) <= 9 * V
  <2>1. N <= 9 /\ N >= 0 /\ W >= 0 /\ V >= 0 /\ N \in Int /\ V \in Int /\ W \in Int
    BY <1>1, <1>3, <1>4, <1>8
  <2> QED
    BY <1>4, <1>6, <1>7, <1>8, <1>9, <1>10, <2>1, Samuelson
<1>12. n * a - sum = N * a - L
  BY <1>1, <1>4, <1>5, <1>8
<1>13. (n * a - sum) * (n * a - sum) <= 9 * V
  BY <1>11, <1>12
<1> QED
  BY <1>13 DEF a

\* How many cells are smaller than v, or no larger, and the value at the k-th place
\* of the sorted column, counted from 0.
CellsBelow(s, v) == {i \in Present(s) : s[i] < v}
CellsUpTo(s, v)  == {i \in Present(s) : s[i] <= v}
IsAt(s, k, v) == v \in ValuesOf(s) /\ Cardinality(CellsBelow(s, v)) <= k /\ Cardinality(CellsUpTo(s, v)) > k
AtPlace(s, k) == CHOOSE v \in ValuesOf(s) : Cardinality(CellsBelow(s, v)) <= k /\ Cardinality(CellsUpTo(s, v)) > k

LEMMA PlaceCounts ==
  ASSUME NEW s, IsColumn(s), NEW v
  PROVE  /\ CellsBelow(s, v) \in SUBSET Present(s) /\ Cardinality(CellsBelow(s, v)) \in Nat
         /\ CellsUpTo(s, v) \in SUBSET Present(s) /\ Cardinality(CellsUpTo(s, v)) \in Nat
         /\ IsFiniteSet(CellsBelow(s, v)) /\ IsFiniteSet(CellsUpTo(s, v))
<1>1. CellsBelow(s, v) \in SUBSET Present(s) /\ CellsUpTo(s, v) \in SUBSET Present(s)
  BY DEF CellsBelow, CellsUpTo
<1>2. IsFiniteSet(Present(s))
  BY ColumnFacts
<1> QED
  BY <1>1, <1>2, FS_Subset, FS_CardinalityType

\* Every place has a value.
LEMMA PlaceExists ==
  ASSUME NEW s, IsColumn(s), NEW k \in Nat, k < Cardinality(Present(s))
  PROVE  IsAt(s, k, AtPlace(s, k)) /\ AtPlace(s, k) \in Int
<1> DEFINE P == Present(s)
           V == ValuesOf(s)
           U == {v \in V : Cardinality(CellsUpTo(s, v)) > k}
<1>1. /\ IsFiniteSet(P) /\ Cardinality(P) \in Nat /\ IsFiniteSet(V) /\ V \subseteq Nat
      /\ \A i \in P : s[i] \in V /\ s[i] \in Int
      /\ \A v \in V : \E i \in P : v = s[i]
  BY ColumnFacts DEF ValuesOf
<1>2. P # {}
  BY <1>1, FS_EmptySet
<1>3. \A v \in V : v \in Int /\ v \in Nat
  BY <1>1
<1>4. U # {}
  <2>1. V # {} /\ V \in SUBSET Int
    BY <1>1, <1>2, <1>3
  <2> HIDE DEF V
  <2>2. PICK top \in V : \A v \in V : v <= top
    BY <1>1, <2>1, GreatestMember
  <2>3. CellsUpTo(s, top) = P
    BY <1>1, <2>2 DEF CellsUpTo
  <2> QED
    BY <2>2, <2>3 DEF V
<1>5. PICK v \in U : \A w \in U : v <= w
  <2>1. U \in SUBSET Nat
    BY <1>3
  <2> HIDE DEF U
  <2> QED
    BY <1>4, <2>1, LeastMember
<1>6. v \in V /\ v \in Int /\ Cardinality(CellsUpTo(s, v)) > k
  BY <1>3, <1>5
<1>7. Cardinality(CellsBelow(s, v)) <= k
  <2> DEFINE X == {w \in V : w < v}
  <2>1. CASE X = {}
    <3>1. CellsBelow(s, v) = {}
      BY <1>1, <2>1 DEF CellsBelow
    <3>2. Cardinality({}) = 0
      BY FS_EmptySet
    <3> QED
      BY <3>1, <3>2
  <2>2. CASE X # {}
    <3>1. X \in SUBSET V
      OBVIOUS
    <3>2. IsFiniteSet(X) /\ X \in SUBSET Int
      <4>1. X \in SUBSET Int
        BY <1>3
      <4>2. IsFiniteSet(V)
        BY <1>1
      <4> HIDE DEF X, V
      <4> QED
        BY <3>1, <4>1, <4>2, FS_Subset
    <3>3. PICK u \in X : \A w \in X : w <= u
      <4> HIDE DEF X
      <4> QED
        BY <2>2, <3>2, GreatestMember
    <3>4. u \in V /\ u < v /\ u \in Int
      BY <1>3, <3>3
    <3>5. \A i \in P : s[i] < v <=> s[i] <= u
      <4> SUFFICES ASSUME NEW i \in P PROVE s[i] < v <=> s[i] <= u
        OBVIOUS
      <4>1. s[i] \in V /\ s[i] \in Int
        BY <1>1
      <4>2. s[i] < v => s[i] <= u
        BY <3>3, <4>1
      <4>3. s[i] <= u => s[i] < v
        BY <1>6, <3>4, <4>1
      <4> QED
        BY <4>2, <4>3
    <3>6. CellsBelow(s, v) = CellsUpTo(s, u)
      BY <3>5 DEF CellsBelow, CellsUpTo
    <3>7. u \notin U
      <4> SUFFICES ASSUME u \in U PROVE FALSE
        OBVIOUS
      <4>1. v <= u
        BY <1>5
      <4> QED
        BY <1>6, <3>4, <4>1
    <3>8. ~ Cardinality(CellsUpTo(s, u)) > k
      BY <3>4, <3>7
    <3> QED
      BY <3>6, <3>8, PlaceCounts
  <2> QED
    BY <2>1, <2>2
<1>8. IsAt(s, k, AtPlace(s, k))
  BY <1>6, <1>7 DEF IsAt, AtPlace
<1> QED
  BY <1>3, <1>8 DEF IsAt

\* The values are in the order of their places.
LEMMA PlacesInOrder ==
  ASSUME NEW s, IsColumn(s), NEW k \in Nat, NEW l \in Nat, k <= l, NEW v \in Int, NEW w \in Int,
         IsAt(s, k, v), IsAt(s, l, w)
  PROVE  v <= w
<1> SUFFICES ASSUME w < v PROVE FALSE
  OBVIOUS
<1> DEFINE A == CellsUpTo(s, w)
           B == CellsBelow(s, v)
<1>1. \A i \in Present(s) : s[i] \in Int
  BY ColumnFacts
<1>2. A \in SUBSET B
  BY <1>1 DEF CellsUpTo, CellsBelow
<1>3. IsFiniteSet(B) /\ Cardinality(A) \in Nat /\ Cardinality(B) \in Nat
  BY PlaceCounts
<1>4. Cardinality(B) <= k /\ Cardinality(A) > l
  BY DEF IsAt
<1> HIDE DEF A, B
<1>5. Cardinality(A) <= Cardinality(B)
  BY <1>2, <1>3, FS_Subset
<1> QED
  BY <1>3, <1>4, <1>5

\* Few cells lie beyond a fence that is no nearer than the value at some place.
LEMMA FewBeyond ==
  ASSUME NEW s, IsColumn(s), NEW k \in Nat, NEW v \in Int, IsAt(s, k, v), NEW x \in Int
  PROVE  /\ x <= 8 * v => Cardinality({i \in Present(s) : 8 * s[i] < x}) <= k
         /\ x >= 8 * v => Cardinality({i \in Present(s) : 8 * s[i] > x}) <= Cardinality(Present(s)) - k - 1
<1> DEFINE P == Present(s)
           Low == {i \in P : 8 * s[i] < x}
           High == {i \in P : 8 * s[i] > x}
           A == CellsBelow(s, v)
           B == CellsUpTo(s, v)
<1>1. \A i \in P : s[i] \in Int
  BY ColumnFacts
<1>2. IsFiniteSet(P) /\ Cardinality(P) \in Nat /\ IsFiniteSet(Low) /\ IsFiniteSet(High)
  <2>1. IsFiniteSet(P) /\ Cardinality(P) \in Nat /\ Low \in SUBSET P /\ High \in SUBSET P
    BY ColumnFacts
  <2> HIDE DEF P, Low, High
  <2> QED
    BY <2>1, FS_Subset
<1>3. /\ IsFiniteSet(A) /\ Cardinality(A) \in Nat /\ Cardinality(A) <= k
      /\ B \in SUBSET P /\ IsFiniteSet(B) /\ Cardinality(B) \in Nat /\ Cardinality(B) > k
  BY PlaceCounts DEF IsAt
<1>4. ASSUME x <= 8 * v PROVE Cardinality(Low) <= k
  <2>1. Low \in SUBSET A
    BY <1>1, <1>4 DEF CellsBelow
  <2> HIDE DEF Low, A
  <2>2. Cardinality(Low) <= Cardinality(A) /\ Cardinality(Low) \in Nat
    BY <1>2, <1>3, <2>1, FS_Subset, FS_CardinalityType
  <2> QED
    BY <1>3, <2>2
<1>5. ASSUME x >= 8 * v PROVE Cardinality(High) <= Cardinality(P) - k - 1
  <2>1. High \in SUBSET (P \ B)
    BY <1>1, <1>5 DEF CellsUpTo
  <2> DEFINE C == P \ B
  <2>2. P \cap B = B
    BY <1>3
  <2> HIDE DEF P, B, High
  <2>3. IsFiniteSet(C) /\ Cardinality(C) = Cardinality(P) - Cardinality(P \cap B)
    BY <1>2, FS_Difference
  <2>4. High \in SUBSET C
    BY <2>1
  <2> HIDE DEF C
  <2>5. Cardinality(High) <= Cardinality(C) /\ Cardinality(High) \in Nat
    BY <1>2, <2>3, <2>4, FS_Subset, FS_CardinalityType
  <2>6. Cardinality(C) = Cardinality(P) - Cardinality(B)
    BY <2>2, <2>3
  <2> QED
    BY <1>2, <1>3, <2>5, <2>6
<1> QED
  BY <1>4, <1>5

\* The quartiles by the places around them.
LEMMA QuartileValues ==
  ASSUME NEW s, NEW d \in Nat, d = Cardinality(Present(s)) - 1
  PROVE  /\ Quantile4(s, 1) = IF d % 4 = 0 THEN 4 * AtPlace(s, d \div 4)
                              ELSE 4 * AtPlace(s, d \div 4)
                                   + (d % 4) * (AtPlace(s, d \div 4 + 1) - AtPlace(s, d \div 4))
         /\ Quantile4(s, 3) = IF (3 * d) % 4 = 0 THEN 4 * AtPlace(s, (3 * d) \div 4)
                              ELSE 4 * AtPlace(s, (3 * d) \div 4)
                                   + ((3 * d) % 4) * (AtPlace(s, (3 * d) \div 4 + 1) - AtPlace(s, (3 * d) \div 4))
<1>1. 1 * (Cardinality(Present(s)) - 1) = d /\ 3 * (Cardinality(Present(s)) - 1) = 3 * d
  OBVIOUS
<1> DEFINE Interpolated(at) ==
             IF at % 4 = 0 THEN 4 * AtPlace(s, at \div 4)
             ELSE 4 * AtPlace(s, at \div 4) + (at % 4) * (AtPlace(s, at \div 4 + 1) - AtPlace(s, at \div 4))
<1>2. \A q : Quantile4(s, q) = Interpolated(q * (Cardinality(Present(s)) - 1))
  BY DEF Quantile4, AtPlace, CellsBelow, CellsUpTo
<1>3. Quantile4(s, 1) = Interpolated(d) /\ Quantile4(s, 3) = Interpolated(3 * d)
  <2> HIDE DEF Interpolated
  <2> QED
    BY <1>1, <1>2
<1> QED
  BY <1>3

\* The fences keep half of the values and more.
LEMMA FencesKeepHalf ==
  ASSUME NEW s, IsColumn(s), Present(s) # {}
  PROVE  2 * Cardinality(Beyond(s)) <= Cardinality(Present(s))
<1> DEFINE N == Cardinality(Present(s))
           d == N - 1
           k == d \div 4
           r == d % 4
           l == (3 * d) \div 4
           r3 == (3 * d) % 4
           a == AtPlace(s, k)
           b == AtPlace(s, k + 1)
           c == AtPlace(s, l)
           e == AtPlace(s, l + 1)
           low == Fence8(s).low
           high == Fence8(s).high
           Few(m) == /\ 4 * m <= N
                     /\ Cardinality({i \in Present(s) : 8 * s[i] < low}) <= m
                     /\ Cardinality({i \in Present(s) : 8 * s[i] > high}) <= m
<1>1. N \in Nat /\ N > 0 /\ d \in Nat
  BY ColumnFacts, FS_EmptySet
<1>2. k \in Nat /\ r \in 0 .. 3 /\ d = 4 * k + r
  <2> HIDE DEF d
  <2> QED
    BY <1>1
<1>3. l \in Nat /\ r3 \in 0 .. 3 /\ 3 * d = 4 * l + r3
  <2> DEFINE h == 3 * d
  <2>1. h \in Nat
    BY <1>1
  <2> HIDE DEF h
  <2>2. h \div 4 \in Nat /\ h % 4 \in 0 .. 3 /\ h = 4 * (h \div 4) + (h % 4)
    BY <2>1
  <2> QED
    BY <2>2 DEF h
<1>4. /\ Quantile4(s, 1) = IF r = 0 THEN 4 * a ELSE 4 * a + r * (b - a)
      /\ Quantile4(s, 3) = IF r3 = 0 THEN 4 * c ELSE 4 * c + r3 * (e - c)
  BY <1>1, QuartileValues
<1>5. /\ low = 2 * Quantile4(s, 1) - 3 * (Quantile4(s, 3) - Quantile4(s, 1))
      /\ high = 2 * Quantile4(s, 3) + 3 * (Quantile4(s, 3) - Quantile4(s, 1))
  BY DEF Fence8
<1> HIDE DEF k, r, l, r3
<1>6. /\ IsAt(s, k, a) /\ a \in Int /\ IsAt(s, l, c) /\ c \in Int
      /\ r # 0 => IsAt(s, k + 1, b) /\ b \in Int
      /\ r3 # 0 => IsAt(s, l + 1, e) /\ e \in Int
  <2>1. k < N /\ l < N /\ (r # 0 => k + 1 < N) /\ (r3 # 0 => l + 1 < N) /\ k + 1 \in Nat /\ l + 1 \in Nat
    BY <1>1, <1>2, <1>3
  <2> HIDE DEF N
  <2> QED
    BY <1>2, <1>3, <2>1, PlaceExists DEF N
<1> HIDE DEF N, a, b, c, e, low, high
<1>7. \E m \in Nat : Few(m)
  <2>1. ASSUME NEW p \in Nat, NEW v \in Int, IsAt(s, p, v), NEW q \in Nat, NEW w \in Int, IsAt(s, q, w), NEW m \in Nat,
               low \in Int, high \in Int, low <= 8 * v, high >= 8 * w, p <= m, N - q - 1 <= m, 4 * m <= N
        PROVE  Few(m)
    <3>1. Cardinality({i \in Present(s) : 8 * s[i] < low}) <= p
          /\ Cardinality({i \in Present(s) : 8 * s[i] > high}) <= N - q - 1
      BY <2>1, FewBeyond DEF N
    <3>2. /\ Cardinality({i \in Present(s) : 8 * s[i] < low}) \in Nat
          /\ Cardinality({i \in Present(s) : 8 * s[i] > high}) \in Nat
      <4>1. IsFiniteSet(Present(s))
        BY ColumnFacts
      <4>2. ASSUME NEW T \in SUBSET Present(s) PROVE Cardinality(T) \in Nat
        BY <4>1, FS_Subset, FS_CardinalityType
      <4> QED
        BY <4>2
    <3> DEFINE x == Cardinality({i \in Present(s) : 8 * s[i] < low})
               y == Cardinality({i \in Present(s) : 8 * s[i] > high})
    <3> HIDE DEF x, y
    <3>3. x <= m /\ y <= m
      BY <1>1, <2>1, <3>1, <3>2 DEF x, y
    <3> QED
      BY <2>1, <3>3 DEF x, y
  <2> HIDE DEF Few
  <2>2. CASE r = 0
    <3>1. r3 = 0 /\ l = 3 * k /\ k <= l /\ N = 4 * k + 1
      BY <1>1, <1>2, <1>3, <2>2
    <3>2. a <= c
      BY <1>2, <1>3, <1>6, <3>1, PlacesInOrder
    <3>3. low = 2 * (4 * a) - 3 * (4 * c - 4 * a) /\ high = 2 * (4 * c) + 3 * (4 * c - 4 * a)
      BY <1>4, <1>5, <2>2, <3>1
    <3>4. low \in Int /\ high \in Int /\ low <= 8 * a /\ high >= 8 * c /\ k <= k /\ N - l - 1 <= k /\ 4 * k <= N
      BY <1>2, <1>6, <3>1, <3>2, <3>3
    <3> QED
      BY <1>2, <1>3, <1>6, <2>1, <3>4
  <2>3. CASE r = 1
    <3>1. r3 = 3 /\ l = 3 * k /\ N = 4 * k + 2
      BY <1>1, <1>2, <1>3, <2>3
    <3>2. low = 2 * (4 * a + 1 * (b - a)) - 3 * ((4 * c + 3 * (e - c)) - (4 * a + 1 * (b - a)))
          /\ high = 2 * (4 * c + 3 * (e - c)) + 3 * ((4 * c + 3 * (e - c)) - (4 * a + 1 * (b - a)))
      BY <1>4, <1>5, <2>3, <3>1
    <3>3. IsAt(s, k + 1, b) /\ b \in Int /\ IsAt(s, l + 1, e) /\ e \in Int
      BY <1>6, <2>3, <3>1
    <3>4. a <= b /\ c <= e /\ k + 1 \in Nat /\ l + 1 \in Nat
      BY <1>2, <1>3, <1>6, <3>3, PlacesInOrder
    <3>5. CASE k = 0
      <4>1. l = k
        BY <1>2, <3>1, <3>5
      <4>2. a = c /\ b = e
        BY <4>1 DEF a, b, c, e
      <4>3. low \in Int /\ high \in Int /\ low <= 8 * a /\ high >= 8 * e /\ k <= k /\ N - (l + 1) - 1 <= k /\ 4 * k <= N
        BY <1>2, <1>6, <3>1, <3>2, <3>3, <3>4, <4>2
      <4> QED
        BY <1>2, <1>3, <1>6, <2>1, <3>3, <3>4, <4>3
    <3>6. CASE k # 0
      <4>1. k + 1 <= l
        BY <1>2, <3>1, <3>6
      <4>2. b <= c
        BY <1>3, <1>6, <3>3, <3>4, <4>1, PlacesInOrder
      <4>3. low \in Int /\ high \in Int /\ low <= 8 * a /\ high >= 8 * e /\ k <= k /\ N - (l + 1) - 1 <= k /\ 4 * k <= N
        BY <1>2, <1>6, <3>1, <3>2, <3>3, <3>4, <4>2
      <4> QED
        BY <1>2, <1>3, <1>6, <2>1, <3>3, <3>4, <4>3
    <3> QED
      BY <3>5, <3>6
  <2>4. CASE r = 2
    <3>1. r3 = 2 /\ l = 3 * k + 1 /\ N = 4 * k + 3 /\ k + 1 <= l /\ k + 1 \in Nat /\ l + 1 \in Nat
      BY <1>1, <1>2, <1>3, <2>4
    <3>2. low = 2 * (4 * a + 2 * (b - a)) - 3 * ((4 * c + 2 * (e - c)) - (4 * a + 2 * (b - a)))
          /\ high = 2 * (4 * c + 2 * (e - c)) + 3 * ((4 * c + 2 * (e - c)) - (4 * a + 2 * (b - a)))
      BY <1>4, <1>5, <2>4, <3>1
    <3>3. IsAt(s, k + 1, b) /\ b \in Int /\ IsAt(s, l + 1, e) /\ e \in Int
      BY <1>6, <2>4, <3>1
    <3>4. a <= b /\ c <= e /\ b <= c
      BY <1>2, <1>3, <1>6, <3>1, <3>3, PlacesInOrder
    <3>5. low \in Int /\ high \in Int /\ low <= 8 * a /\ high >= 8 * e /\ k <= k /\ N - (l + 1) - 1 <= k /\ 4 * k <= N
      BY <1>2, <1>6, <3>1, <3>2, <3>3, <3>4
    <3> QED
      BY <1>2, <1>3, <1>6, <2>1, <3>1, <3>3, <3>5
  <2>5. CASE r = 3
    <3>1. r3 = 1 /\ l = 3 * k + 2 /\ N = 4 * k + 4 /\ k + 1 <= l /\ k + 1 \in Nat /\ l + 1 \in Nat
      BY <1>1, <1>2, <1>3, <2>5
    <3>2. low = 2 * (4 * a + 3 * (b - a)) - 3 * ((4 * c + 1 * (e - c)) - (4 * a + 3 * (b - a)))
          /\ high = 2 * (4 * c + 1 * (e - c)) + 3 * ((4 * c + 1 * (e - c)) - (4 * a + 3 * (b - a)))
      BY <1>4, <1>5, <2>5, <3>1
    <3>3. IsAt(s, k + 1, b) /\ b \in Int /\ IsAt(s, l + 1, e) /\ e \in Int
      BY <1>6, <2>5, <3>1
    <3>4. a <= b /\ c <= e /\ b <= c
      BY <1>2, <1>3, <1>6, <3>1, <3>3, PlacesInOrder
    <3>5. low \in Int /\ high \in Int /\ low <= 8 * b /\ high >= 8 * c
          /\ k + 1 <= k + 1 /\ N - l - 1 <= k + 1 /\ 4 * (k + 1) <= N
      BY <1>2, <1>6, <3>1, <3>2, <3>3, <3>4
    <3> QED
      BY <1>2, <1>3, <1>6, <2>1, <3>1, <3>3, <3>5
  <2> QED
    BY <1>2, <2>2, <2>3, <2>4, <2>5
<1>8. PICK m \in Nat : Few(m)
  BY <1>7
<1> DEFINE P == Present(s)
           X == {i \in P : 8 * s[i] < low}
           Y == {i \in P : 8 * s[i] > high}
<1>9. Beyond(s) = X \cup Y
  BY DEF Beyond, low, high
<1>10. IsFiniteSet(X) /\ IsFiniteSet(Y)
  <2>1. IsFiniteSet(P) /\ X \in SUBSET P /\ Y \in SUBSET P
    BY ColumnFacts
  <2> HIDE DEF P, X, Y
  <2> QED
    BY <2>1, FS_Subset
<1>11. 4 * m <= N /\ Cardinality(X) <= m /\ Cardinality(Y) <= m
  BY <1>8
<1> HIDE DEF X, Y, Few
<1>12. Cardinality(X \cup Y) = Cardinality(X) + Cardinality(Y) - Cardinality(X \cap Y)
  BY <1>10, FS_Union
<1>13. Cardinality(X) \in Nat /\ Cardinality(Y) \in Nat /\ Cardinality(X \cap Y) \in Nat
  BY <1>10, FS_Intersection, FS_CardinalityType
<1>14. 2 * Cardinality(X \cup Y) <= N
  BY <1>1, <1>8, <1>11, <1>12, <1>13
<1> QED
  BY <1>9, <1>14 DEF N

LEMMA OutliersHold ==
  ASSUME quality = NoAnswer, Outliers
  PROVE  (QualityReportsAreTrue /\ OnlyChangesDrift /\ QualityTypeOK)'
<1>1. PICK s \in LoneCases \cup UNION {Cases(n) : n \in TableLengths} :
        quality' = Answer("outliers", [column |-> s, deviant |-> Deviant(s),
                                       beyond |-> IF Present(s) = {} THEN {} ELSE Beyond(s)])
  BY DEF Outliers
<1> DEFINE beyond == IF Present(s) = {} THEN {} ELSE Beyond(s)
           o == quality'.of
<1>2. quality'.how = "outliers" /\ o.column = s /\ o.deviant = Deviant(s) /\ o.beyond = beyond
  BY <1>1 DEF Answer
<1>3. IsColumn(s)
  BY <1>1, CasesAreColumns
<1>4. 2 * Cardinality(beyond) <= Cardinality(Present(s))
  <2>1. CASE Present(s) = {}
    <3>1. Cardinality({}) = 0
      BY FS_EmptySet
    <3> QED
      BY <2>1, <3>1
  <2>2. CASE Present(s) # {}
    <3>1. 2 * Cardinality(Beyond(s)) <= Cardinality(Present(s))
      BY <1>3, <2>2, FencesKeepHalf
    <3> QED
      BY <2>2, <3>1
  <2> QED
    BY <2>1, <2>2
<1>5. Len(s) <= 10 => Deviant(s) = {}
  BY <1>3, NoneOfTenDeviates
<1> HIDE DEF beyond
<1> QED
  BY <1>2, <1>4, <1>5
     DEF QualityReportsAreTrue, ProfileIsTrue, OutliersAreFew, OnlyChangesDrift, QualityTypeOK

-----------------------------------------------------------------------------
(* Quality checks: theorems *)

\* What holds of the last answer.
QualityInv == QualityReportsAreTrue /\ OnlyChangesDrift /\ QualityTypeOK

LEMMA OtherChecks ==
  ASSUME CheckRules \/ CoerceColumn \/ Validate \/ NextCheck
  PROVE  QualityInv'
<1>1. quality'.how \in {"rules", "coerced", "valid", "raised", "invalid", "none"}
  <2>1. CASE CheckRules
    BY <2>1 DEF CheckRules, Answer
  <2>2. CASE CoerceColumn
    BY <2>2 DEF CoerceColumn, Answer
  <2>3. CASE Validate
    BY <2>3 DEF Validate, Answer
  <2>4. CASE NextCheck
    BY <2>4 DEF NextCheck, NoAnswer
  <2> QED
    BY <2>1, <2>2, <2>3, <2>4
<1> QED
  BY <1>1 DEF QualityInv, QualityReportsAreTrue, ProfileIsTrue, OutliersAreFew, OnlyChangesDrift, QualityTypeOK

LEMMA QualityInvariant == QualitySpec => []QualityInv
<1>1. QualityInit => QualityInv
  BY DEF QualityInit, NoAnswer, QualityInv, QualityReportsAreTrue, ProfileIsTrue, OutliersAreFew,
         OnlyChangesDrift, QualityTypeOK
<1>2. QualityInv /\ [QualityNext]_quality => QualityInv'
  <2>1. CASE quality = NoAnswer /\ Profile
    BY <2>1, ProfileHolds DEF QualityInv
  <2>2. CASE quality = NoAnswer /\ Outliers
    BY <2>2, OutliersHold DEF QualityInv
  <2>3. CASE quality = NoAnswer /\ DetectDrift
    BY <2>3, DriftIsChange DEF QualityInv
  <2>4. CASE CheckRules \/ CoerceColumn \/ Validate \/ NextCheck
    BY <2>4, OtherChecks
  <2>5. QualityInv /\ UNCHANGED quality => QualityInv'
    BY DEF QualityInv, QualityReportsAreTrue, ProfileIsTrue, OutliersAreFew, OnlyChangesDrift, QualityTypeOK
  <2> QED
    BY <2>1, <2>2, <2>3, <2>4, <2>5 DEF QualityNext
<1> QED
  BY <1>1, <1>2, PTL DEF QualitySpec

\* A table without an issue scores 96 % and more, lines that differ still differ
\* without a constant column or one of two equal ones; Tukey's fences keep half
\* of the values and more, and no value of ten is three deviations from the
\* mean: for any columns, lines and values.
THEOREM QualityReportsTrue == QualitySpec => []QualityReportsAreTrue
<1>1. QualityInv => QualityReportsAreTrue
  BY DEF QualityInv
<1> QED
  BY <1>1, QualityInvariant, PTL

\* A column that is said to have drifted has changed the share of a value; in
\* tables that are not flagged as too small, a category that shares no value with
\* its reference is said to have drifted, and a column with values has a score:
\* for any tables, also with unequal numbers of lines.
THEOREM DriftMeansChange == QualitySpec => []OnlyChangesDrift
<1>1. QualityInv => OnlyChangesDrift
  BY DEF QualityInv
<1> QED
  BY <1>1, QualityInvariant, PTL

-----------------------------------------------------------------------------
(* The parts together *)

\* A step of one part is a step of its module and leaves the others alone.
LEMMA StepsOfParts ==
  [LearningNext]_learningVars =>
    /\ [Next]_vars /\ [AnalyticsNext]_analysis /\ [PipelineNext]_pipelineVars
    /\ [QualityNext]_quality /\ [TuningNext]_tuningVars /\ [AboutNext]_about
<1> SUFFICES ASSUME [LearningNext]_learningVars
             PROVE  /\ [Next]_vars /\ [AnalyticsNext]_analysis /\ [PipelineNext]_pipelineVars
                    /\ [QualityNext]_quality /\ [TuningNext]_tuningVars /\ [AboutNext]_about
  OBVIOUS
<1>1. CASE TrainingStep
  BY <1>1 DEF TrainingStep
<1>2. CASE AnalyticsStep
  BY <1>2 DEF AnalyticsStep
<1>3. CASE PreprocessingStep
  BY <1>3 DEF PreprocessingStep
<1>4. CASE QualityStep
  BY <1>4 DEF QualityStep
<1>5. CASE TuningStep
  BY <1>5 DEF TuningStep
<1>6. CASE ReportsStep
  BY <1>6 DEF ReportsStep
<1>7. CASE UNCHANGED learningVars
  BY <1>7 DEF learningVars
<1> QED
  BY <1>1, <1>2, <1>3, <1>4, <1>5, <1>6, <1>7 DEF LearningNext

\* Training, analyses, preprocessing, checks of data, searches and reports run as
\* their modules say, each undisturbed by the others, so that what is proved of
\* one holds when they are used together.
THEOREM LearningImplementsComponents ==
  LearningSpec => Spec /\ AnalyticsSpec /\ PipelineSpec /\ QualitySpec /\ TuningSpec /\ AboutSpec
<1>1. LearningInit => Init /\ AnalyticsInit /\ PipelineInit /\ QualityInit /\ TuningInit /\ AboutInit
  BY DEF LearningInit
<1> QED
  BY <1>1, StepsOfParts, PTL
     DEF LearningSpec, Spec, AnalyticsSpec, PipelineSpec, QualitySpec, TuningSpec, AboutSpec

-----------------------------------------------------------------------------
(* Types *)

LEMMA AnalyticsTypes == AnalyticsSpec => []AnalyticsTypeOK
<1>1. AnalyticsInit => AnalyticsTypeOK
  BY DEF AnalyticsInit, AnalyticsTypeOK
<1>2. AnalyticsTypeOK /\ [AnalyticsNext]_analysis => AnalyticsTypeOK'
  <2> SUFFICES ASSUME AnalyticsNext PROVE AnalyticsTypeOK'
    BY DEF AnalyticsTypeOK
  <2> DEFINE Typed(answer) ==
               \/ answer \in {NoAnalysis, SchemaError, AnalyticsError}
               \/ answer.how \in {"report", "raised"} /\ answer.of.kind \in
                    {"decomposition", "forecast", "prophet", "kmeans", "dbscan", "isolation_forest",
                     "one_class_svm", "sentiment", "topics", "embeddings", "users", "items"}
  <2>1. CASE Decompose
    <3>1. Typed(analysis')
      BY <2>1 DEF Decompose, Decomposition, Found, Raised
    <3> QED
      BY <3>1 DEF AnalyticsTypeOK
  <2>2. CASE Forecast
    <3>1. PICK method \in {"arima", "prophet", "other"}, columns \in ColumnChoices, points \in Sizes,
               order \in Orders, holdout \in Holdouts, horizon \in Horizons :
            analysis' \in Forecasts(method, columns, points, order, holdout, horizon)
      BY <2>2 DEF Forecast
    <3>2. Typed(ForecastReport(points, holdout, horizon))
      BY DEF ForecastReport, Found
    <3>3. Typed(Raised([kind |-> "prophet"]))
      BY DEF Raised
    <3>4. analysis' \in {SchemaError, AnalyticsError, Raised([kind |-> "prophet"]),
                         ForecastReport(points, holdout, horizon)}
      BY <3>1 DEF Forecasts, ArimaForecasts, ProphetForecasts
    <3>5. Typed(analysis')
      BY <3>2, <3>3, <3>4
    <3> QED
      BY <3>5 DEF AnalyticsTypeOK
  <2>3. \A kind \in {"kmeans", "dbscan"} : \A asked, table, labels, measured, projected :
          Typed(Clustering(kind, asked, table, labels, measured, projected))
    BY DEF Clustering, Raised, Found
  <2>4. CASE KMeans
    <3>1. Typed(analysis')
      <4> HIDE DEF Typed
      <4>1. Typed(SchemaError) /\ Typed(AnalyticsError)
        BY DEF Typed
      <4> QED
        BY <2>3, <2>4, <4>1 DEF KMeans
    <3> QED
      BY <3>1 DEF AnalyticsTypeOK
  <2>5. CASE DBSCAN
    <3>1. Typed(analysis')
      <4> HIDE DEF Typed
      <4>1. Typed(SchemaError) /\ Typed(AnalyticsError)
        BY DEF Typed
      <4> QED
        BY <2>3, <2>5, <4>1 DEF DBSCAN
    <3> QED
      BY <3>1 DEF AnalyticsTypeOK
  <2>6. CASE DetectIsolationForest
    BY <2>6 DEF DetectIsolationForest, Detection, Raised, Found, AnalyticsTypeOK
  <2>7. CASE DetectOneClassSVM
    BY <2>7 DEF DetectOneClassSVM, Detection, Raised, Found, AnalyticsTypeOK
  <2>8. CASE Sentiment
    BY <2>8 DEF Sentiment, Found, AnalyticsTypeOK
  <2>9. CASE Topics
    BY <2>9 DEF Topics, Raised, Found, AnalyticsTypeOK
  <2>10. CASE Embeddings \/ SentenceEmbeddings
    BY <2>10 DEF Embeddings, SentenceEmbeddings, Raised, Found, AnalyticsTypeOK
  <2>11. CASE RecommendByUsers
    BY <2>11 DEF RecommendByUsers, Collaborative, Raised, Found, AnalyticsTypeOK
  <2>12. CASE RecommendByItems
    BY <2>12 DEF RecommendByItems, Raised, Found, AnalyticsTypeOK
  <2>13. CASE NextAnalysis
    BY <2>13 DEF NextAnalysis, AnalyticsTypeOK
  <2> QED
    BY <2>1, <2>2, <2>4, <2>5, <2>6, <2>7, <2>8, <2>9, <2>10, <2>11, <2>12, <2>13 DEF AnalyticsNext
<1> QED
  BY <1>1, <1>2, PTL DEF AnalyticsSpec

LEMMA AboutTypes == AboutSpec => []AboutTypeOK
<1>1. AboutInit => AboutTypeOK
  BY DEF AboutInit, Nothing, AboutTypeOK
<1>2. AboutTypeOK /\ [AboutNext]_about => AboutTypeOK'
  <2> SUFFICES ASSUME AboutNext PROVE AboutTypeOK'
    BY DEF AboutTypeOK
  <2>1. CASE Classified
    BY <2>1 DEF Classified, AboutTypeOK
  <2>2. CASE Regressed
    BY <2>2 DEF Regressed, AboutTypeOK
  <2>3. CASE Importance
    BY <2>3 DEF Importance, Nothing, AboutTypeOK
  <2>4. CASE ExplainByShap
    BY <2>4 DEF ExplainByShap, AboutTypeOK
  <2>5. CASE ExplainByLime
    BY <2>5 DEF ExplainByLime, AboutTypeOK
  <2>6. CASE LoadBundleFile
    BY <2>6 DEF LoadBundleFile, AboutTypeOK
  <2>7. CASE CheckTrainingData
    BY <2>7 DEF CheckTrainingData, AboutTypeOK
  <2>8. CASE AlignBatch
    BY <2>8 DEF AlignBatch, AboutTypeOK
  <2>9. CASE NextAnswer
    BY <2>9 DEF NextAnswer, Nothing, AboutTypeOK
  <2> QED
    BY <2>1, <2>2, <2>3, <2>4, <2>5, <2>6, <2>7, <2>8, <2>9 DEF AboutNext
<1> QED
  BY <1>1, <1>2, PTL DEF AboutSpec

LEMMA TuningTypes == TuningInv => TuningTypeOK
<1> SUFFICES ASSUME TuningInv, NEW s \in DOMAIN searches
             PROVE  /\ searches[s].how \in SearchStates
                    /\ Range(searches[s].trials) \subseteq Results
  BY DEF TuningInv, TuningTypeOK, SearchStates, Results
<1>1. searches[s] \in SearchRecord
  <2>1. searches \in Seq(SearchRecord)
    BY DEF TuningInv
  <2> QED
    BY <2>1, ElementOfSeq
<1>2. searches[s].how \in SearchStates /\ searches[s].trials \in Seq(Results)
  BY <1>1 DEF SearchRecord
<1>3. Range(searches[s].trials) \subseteq Results
  BY <1>2, RangeFacts
<1> QED
  BY <1>2, <1>3

LEMMA PipelineTypes == ASSUME PipelineInv, EncoderInv PROVE PipelineTypeOK
<1> DEFINE n == Len(plan)
<1>1. plan \in Seq(Steps) /\ n \in Nat /\ Range(plan) \subseteq Steps
  <2>1. plan \in Seq(Steps)
    BY DEF PipelineInv
  <2> QED
    BY <2>1, RangeFacts
<1>2. Len(pipeline.memory) \in {0, n}
  <2>1. CASE pipeline \in Unfitted
    <3>1. pipeline.memory = <<>> /\ Len(<<>>) = 0
      BY <2>1 DEF NotFitted, FitFailure, Unfitted
    <3> QED
      BY <3>1
  <2>2. CASE pipeline \notin Unfitted
    <3>1. \E memory : pipeline.memory = [i \in 1 .. n |-> memory[i]]
      <4>1. pipeline = FitSteps(plan, traits) /\ DOMAIN plan = 1 .. n
        BY <1>1, <2>2 DEF PipelineInv
      <4>2. PICK f \in [0 .. n -> Seq(AllColumns)] :
              FitSteps(plan, traits) = [memory |-> [i \in DOMAIN plan |-> Memory(plan[i], f[i - 1], traits)],
                                        output |-> f[n],
                                        numbers |-> [i \in DOMAIN plan |-> Range(NumbersOf(f[i - 1]))],
                                        apart |-> [i \in DOMAIN plan |-> Range(Apart(f[i - 1], traits))]]
        BY <1>1, FitUnfolds
      <4> DEFINE memory == [i \in 1 .. n |-> Memory(plan[i], f[i - 1], traits)]
      <4>3. pipeline.memory = memory
        BY <4>1, <4>2
      <4>4. memory = [i \in 1 .. n |-> memory[i]]
        OBVIOUS
      <4> HIDE DEF memory
      <4> QED
        BY <4>3, <4>4
    <3>2. Len(pipeline.memory) = n
      BY <1>1, <3>1
    <3> QED
      BY <3>2
  <2> QED
    BY <2>1, <2>2
<1>3. CASE batch = <<>>
  <2>1. served = <<>> /\ Range(<<>>) = {}
    BY <1>3 DEF PipelineInv, Range
  <2> QED
    BY <1>1, <1>2, <1>3, <2>1 DEF PipelineTypeOK, EncoderInv
<1>4. CASE batch # <<>>
  <2>1. batch \in Seq(AllColumns) /\ Range(batch) \subseteq Range(TrainingFrame)
    <3>1. PICK kept \in SUBSET Range(TrainingFrame) : batch = Only(TrainingFrame, kept)
      BY <1>4 DEF PipelineInv, Frames
    <3> QED
      BY <3>1, TrainingFrameFacts, KeepFacts
  <2>2. pipeline \notin Unfitted /\ (served = Serving(batch) \/ served = FailedFit)
    BY <1>4 DEF PipelineInv
  <2>3. \A i \in 1 .. n : pipeline.memory[i] \in SUBSET AllColumns /\ IsFiniteSet(pipeline.memory[i])
    BY <2>2, FittedFrames
  <2>4. PICK g \in [0 .. n -> Seq(AllColumns) \cup {FailedFit}] : Serving(batch) = g[n]
    BY <1>1, <2>1, <2>3, ServingUnfolds
  <2>5. served = FailedFit \/ served \in Seq(AllColumns)
    BY <1>1, <2>2, <2>4
  <2>6. served = FailedFit \/ Range(served) \subseteq AllColumns
    BY <2>5, RangeFacts
  <2> QED
    BY <1>1, <1>2, <2>1, <2>6 DEF PipelineTypeOK, EncoderInv
<1> QED
  BY <1>3, <1>4

\* Types of the variables of every part, for every behaviour of them together.
THEOREM LearningTypesCorrect == LearningSpec => []LearningTypeOK
<1>1. PipelineSpec => []EncoderInv
  <2>1. PipelineInit => EncoderInv
    BY DEF PipelineInit, EncoderInv
  <2> QED
    BY <2>1, EncoderStep, PTL DEF PipelineSpec
<1>2. PipelineInv /\ EncoderInv => PipelineTypeOK
  BY PipelineTypes
<1>3. QualityInv => QualityTypeOK
  BY DEF QualityInv
<1>4. /\ TypeOK /\ AnalyticsTypeOK /\ PipelineTypeOK /\ QualityTypeOK /\ TuningTypeOK /\ AboutTypeOK
      => LearningTypeOK
  BY DEF LearningTypeOK
<1> QED
  BY <1>1, <1>2, <1>3, <1>4, LearningImplementsComponents, TypeCorrect, AnalyticsTypes, PipelineInvHolds,
     QualityInvariant, TuningInvariant, TuningTypes, AboutTypes, PTL
=============================================================================
