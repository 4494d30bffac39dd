-------------------------- MODULE ModelTrainingProofs --------------------------
(***************************************************************************)
(* Proofs about ModelTraining, for every set of calls, every registry and  *)
(* every set of scores.  First the sort: it permutes a leaderboard, and an *)
(* entry that precedes all others comes first.  Then one inductive         *)
(* invariant per call: what its loop has collected so far, and that its    *)
(* estimators, if they are its own, stay as it left them.                  *)
(***************************************************************************)
EXTENDS ModelTraining, ProofBasics, FiniteSetTheorems, SequenceTheorems, TLAPS

-----------------------------------------------------------------------------
(* The sort *)

\* Position i of a leaderboard comes before position j when it is ranked.
Before(board, i, j) == \/ board[i].score > board[j].score
                       \/ board[i].score = board[j].score /\ i <= j

\* Scores of entries are integers, and those of models that were trained exceed
\* the score of a failure.
LEMMA EntryScore ==
  \A e \in Entry : e.score \in Int /\ (e.score \in Scores <=> e.score # NoScore)
                   /\ NoScore <= e.score
<1>1. NoScore \in Int /\ NoScore < 0
  BY DEF NoScore
<1>2. \A s \in Scores : s \in Int /\ NoScore < s
  BY <1>1, ScoresAssumption
<1>3. \A e \in Entry : e.score \in Scores \/ e.score = NoScore
  BY DEF Entry
<1> QED
  BY <1>1, <1>2, <1>3

\* A leaderboard is a function on its positions.
LEMMA BoardFacts ==
  ASSUME NEW board \in Seq(Entry)
  PROVE  /\ DOMAIN board = 1..Len(board) /\ Len(board) \in Nat
         /\ board \in [1..Len(board) -> Entry]
         /\ IsFiniteSet(DOMAIN board) /\ Cardinality(DOMAIN board) = Len(board)
         /\ \A i \in DOMAIN board : board[i] \in Entry /\ board[i].score \in Int /\ i \in Nat
<1>1. DOMAIN board = 1..Len(board) /\ Len(board) \in Nat /\ board \in [1..Len(board) -> Entry]
  BY LenProperties
<1>2. IsFiniteSet(1..Len(board)) /\ Cardinality(1..Len(board)) = Len(board)
  BY <1>1, FS_Interval
<1> QED
  BY <1>1, <1>2, EntryScore

\* A ranked leaderboard is a permutation in descending order of the scores.
LEMMA RankedPermutes ==
  ASSUME NEW c, call[c].board \in Seq(Entry), NEW order \in Rankings(c)
  PROVE  LET board == call[c].board
             D == DOMAIN board
         IN /\ Ranked(c, order) \in Seq(Entry)
            /\ DOMAIN Ranked(c, order) = D
            /\ \A k \in D : order[k] \in D /\ Ranked(c, order)[k] = board[order[k]]
            /\ \A i \in D : \E k \in D : order[k] = i
            /\ \A k, l \in D : order[k] = order[l] => k = l
            /\ \A k, l \in D : k < l => Precedes(c, order[k], order[l])
<1> DEFINE board == call[c].board
           D == DOMAIN board
<1>1. D = 1..Len(board) /\ Len(board) \in Nat /\ board \in [1..Len(board) -> Entry]
  BY BoardFacts
<1>2. order \in Bijection(D, D) /\ \A k, l \in D : k < l => Precedes(c, order[k], order[l])
  BY DEF Rankings
<1>3. /\ order \in [D -> D]
      /\ \A i \in D : \E k \in D : order[k] = i
      /\ \A k, l \in D : order[k] = order[l] => k = l
  <2> HIDE DEF D
  <2> QED
    BY <1>2 DEF Bijection, Injection, Surjection, IsInjective
<1>4. Ranked(c, order) = [k \in D |-> board[order[k]]]
  BY DEF Ranked
<1>5. Ranked(c, order) \in [1..Len(board) -> Entry]
  BY <1>1, <1>3, <1>4
<1>6. Ranked(c, order) \in Seq(Entry)
  BY <1>1, <1>5, SeqDef
<1> QED
  BY <1>2, <1>3, <1>4, <1>6

-----------------------------------------------------------------------------
(* The inductive invariant *)

\* What is on the leaderboard and what is still to come make the candidates.
Board(c) ==
  LET board == call[c].board IN
    /\ call[c].left \subseteq call[c].candidates
    /\ \A i \in call[c].candidates :
         i \in call[c].left \/ \E k \in DOMAIN board : board[k].model = Registry[i]
    /\ \A k \in DOMAIN board :
         /\ \E i \in call[c].candidates : board[k].model = Registry[i]
         /\ \A i \in call[c].left : board[k].model # Registry[i]
         /\ InError(board[k]) <=> board[k].score = NoScore
         /\ ~board[k].cv
    /\ \A k, l \in DOMAIN board : board[k].model = board[l].model => k = l

\* While the loop runs, the best entry is the first that has the best score.
BestSoFar(c) ==
  LET board == call[c].board IN
    \/ call[c].best = NoBest /\ \A k \in DOMAIN board : InError(board[k])
    \/ /\ ~InError(call[c].best)
       /\ \E k \in DOMAIN board :
            call[c].best = board[k] /\ \A l \in DOMAIN board : Before(board, k, l)

Loop(c) ==
  /\ pc[c] \in {"new", "loop", "fit", "evaluate"} => BestSoFar(c)
  /\ pc[c] \in {"fit", "evaluate"} => call[c].left # {}
  /\ pc[c] = "new" => call[c].board = <<>> /\ call[c].best = NoBest

\* A call that has a result has a sorted leaderboard; no entry beats its winner.
Result(c) ==
  c \in Returned =>
    LET board == call[c].board IN
      /\ call[c].left = {}
      /\ board # <<>>
      /\ \E k \in DOMAIN board : board[k] = [call[c].best EXCEPT !.cv = FALSE]
      /\ board[1].score = call[c].best.score
      /\ call[c].engine = "enterprise" => board[1] = [call[c].best EXCEPT !.cv = FALSE]
      /\ ~InError(call[c].best)
      /\ \A i, j \in DOMAIN board : i < j => board[i].score >= board[j].score

\* An estimator of its own stays as the call has left it.
Fits(c) ==
  call[c].engine = "enterprise" =>
    /\ pc[c] = "fit" => fitted[<<c, Current(c)>>] = Fitting
    /\ pc[c] = "evaluate" => fitted[<<c, Current(c)>>] = c
    /\ \A k \in DOMAIN call[c].board : InError(call[c].board[k]) \/ call[c].board[k].by = c
    /\ \/ InError(call[c].best)
       \/ /\ fitted[<<c, call[c].best.model>>] = c
          /\ \A i \in call[c].left : call[c].best.model # Registry[i]

RowsFor(c) == {row \in rows : row.call = c}

RowsInv(c) ==
  /\ pc[c] # "stored" => RowsFor(c) = {}
  /\ pc[c] = "stored" => RowsFor(c) = {RowOf(c, e) : e \in Stored(c)}

CallInv(c) == Board(c) /\ Loop(c) /\ Result(c) /\ Fits(c) /\ RowsInv(c)

IInv == TypeOK /\ \A c \in Calls : CallInv(c)

Step(c) == \/ Select(c)
           \/ BeginFit(c)
           \/ EndFit(c)
           \/ Evaluate(c)
           \/ CandidateFails(c)
           \/ Rank(c)
           \/ NothingTrained(c)
           \/ Report(c)
           \/ ReportRaises(c)
           \/ Store(c)

\* Initially no call has done anything.
LEMMA InitIInv == Init => IInv
<1> SUFFICES ASSUME Init PROVE IInv
  OBVIOUS
<1>1. Registry[1] \in Models
  BY RegistryAssumption, LenProperties DEF Models, Range
<1>2. NoBest \in Entry
  BY <1>1 DEF NoBest, Entry, Errors
<1>3. <<>> \in Seq(Entry) /\ DOMAIN <<>> = {}
  BY EmptySeq, LenProperties
<1>4. PICK e \in [Calls -> Engines] : call = [c \in Calls |-> Fresh(e[c])]
  BY DEF Init
<1>5. TypeOK
  BY <1>2, <1>3, <1>4 DEF Init, TypeOK, Fresh, Call
<1>6. ASSUME NEW c \in Calls PROVE CallInv(c)
  <2>1. /\ pc[c] = "new" /\ rows = {}
        /\ call[c].candidates = {} /\ call[c].left = {}
        /\ call[c].board = <<>> /\ call[c].best = NoBest
    BY <1>4 DEF Init, Fresh
  <2>2. InError(NoBest)
    BY DEF NoBest, InError
  <2> QED
    BY <1>3, <2>1, <2>2
       DEF CallInv, Board, Loop, BestSoFar, Result, Returned, Fits, RowsInv, RowsFor
<1> QED
  BY <1>5, <1>6 DEF IInv

-----------------------------------------------------------------------------
(* Steps *)

\* The candidate a call has come to is one of those left, and no longer left
\* once it is dealt with.
LEMMA CurrentFacts ==
  ASSUME TypeOK, NEW c \in Calls, call[c].left # {}
  PROVE  /\ \E i \in call[c].left : Current(c) = Registry[i]
         /\ Current(c) \in Models
         /\ Its(c) \in Estimators
         /\ Its(c) = IF call[c].engine = "legacy" THEN <<"module", Current(c)>>
                                                  ELSE <<c, Current(c)>>
         /\ Remaining(c) \subseteq call[c].left
         /\ \A i \in call[c].left : i \in Remaining(c) <=> Registry[i] # Current(c)
<1> DEFINE left == call[c].left
           First(i) == i \in left /\ \A j \in left : i <= j
<1>1. left \in SUBSET DOMAIN Registry
  BY DEF TypeOK, Call, Positions
<1>2. DOMAIN Registry \in SUBSET Nat
  BY RegistryAssumption, LenProperties
<1>3. \E i \in left : \A j \in left : i <= j
  BY <1>1, <1>2, LeastMember
<1>4. \E i \in left : Current(c) = Registry[i]
  BY <1>3 DEF Current
<1>5. Current(c) \in Models
  BY <1>1, <1>4 DEF Models, Range
<1>6. Its(c) = IF call[c].engine = "legacy" THEN <<"module", Current(c)>>
                                            ELSE <<c, Current(c)>>
  BY DEF Its, Estimator
<1>7. Its(c) \in Estimators
  BY <1>5, <1>6 DEF Estimators, Owners
<1>8. Remaining(c) \subseteq left /\ \A i \in left : i \in Remaining(c) <=> Registry[i] # Current(c)
  BY DEF Remaining
<1> QED
  BY <1>4, <1>5, <1>6, <1>7, <1>8

\* What a step of c leaves alone of another call d.
Untouched(d) ==
  /\ pc'[d] = pc[d]
  /\ call'[d] = call[d]
  /\ \A m \in Models : fitted'[<<d, m>>] = fitted[<<d, m>>]
  /\ RowsFor(d)' = RowsFor(d)

\* A step of a call leaves the others alone.
LEMMA StepUntouched ==
  ASSUME TypeOK, NEW c \in Calls, Step(c), NEW d \in Calls, d # c
  PROVE  Untouched(d)
<1>1. pc'[d] = pc[d]
  BY DEF TypeOK, Step, Goto, Select, BeginFit, EndFit, Evaluate, CandidateFails, Rank,
         NothingTrained, Report, ReportRaises, Store
<1>2. call'[d] = call[d]
  BY DEF TypeOK, Step, Select, BeginFit, EndFit, Evaluate, CandidateFails, Rank,
         NothingTrained, Report, ReportRaises, Store
<1>3. ASSUME NEW m \in Models PROVE fitted'[<<d, m>>] = fitted[<<d, m>>]
  <2>1. <<d, m>> \in Estimators
    BY DEF Estimators, Owners
  <2>2. d # "module"
    BY CallsAssumption
  <2>3. <<d, m>> # Its(c)
    BY <2>2 DEF Its, Estimator
  <2>4. \/ fitted' = fitted
        \/ \E x : fitted' = [fitted EXCEPT ![Its(c)] = x]
    BY DEF Step, Select, BeginFit, EndFit, Evaluate, CandidateFails, Rank,
           NothingTrained, Report, ReportRaises, Store
  <2> QED
    BY <2>1, <2>3, <2>4 DEF TypeOK
<1>4. RowsFor(d)' = RowsFor(d)
  <2>1. CASE rows' = rows
    BY <2>1 DEF RowsFor
  <2>2. CASE Store(c)
    <3>1. rows' = rows \cup {RowOf(c, e) : e \in Stored(c)}
      BY <2>2 DEF Store
    <3>2. \A e : RowOf(c, e).call # d
      BY DEF RowOf
    <3> QED
      BY <3>1, <3>2 DEF RowsFor
  <2> QED
    BY <2>1, <2>2 DEF Step, Select, BeginFit, EndFit, Evaluate, CandidateFails, Rank,
                      NothingTrained, Report, ReportRaises
<1> QED
  BY <1>1, <1>2, <1>3, <1>4 DEF Untouched

\* The invariant of a call that is left alone.
LEMMA UntouchedInv ==
  ASSUME TypeOK, NEW d \in Calls, CallInv(d), Untouched(d)
  PROVE  CallInv(d)'
<1> USE DEF Untouched
<1>1. Board(d)'
  BY DEF CallInv, Board
<1>2. Loop(d)'
  BY DEF CallInv, Loop, BestSoFar, Before
<1>3. Result(d)'
  BY DEF CallInv, Result, Returned
<1>4. Fits(d)'
  <2>1. Current(d)' = Current(d)
    BY DEF Current
  <2>2. call[d].best.model \in Models
    BY DEF TypeOK, Call, Entry
  <2>3. pc[d] \in {"fit", "evaluate"} => Current(d) \in Models
    BY CurrentFacts DEF CallInv, Loop
  <2> QED
    BY <2>1, <2>2, <2>3 DEF CallInv, Fits
<1>5. RowsInv(d)'
  BY DEF CallInv, RowsInv, RowOf, Stored
<1> QED
  BY <1>1, <1>2, <1>3, <1>4, <1>5 DEF CallInv

\* What one entry more does to a leaderboard.
LEMMA AppendEntry ==
  ASSUME NEW board \in Seq(Entry), NEW entry \in Entry
  PROVE  LET longer == Append(board, entry) IN
         /\ longer \in Seq(Entry)
         /\ DOMAIN longer = DOMAIN board \cup {Len(board) + 1}
         /\ longer[Len(board) + 1] = entry
         /\ \A k \in DOMAIN board : longer[k] = board[k] /\ k < Len(board) + 1
BY BoardFacts

\* The types of a call and of an entry's parts.
LEMMA CallTypes ==
  ASSUME TypeOK, NEW c \in Calls
  PROVE  /\ call[c] \in Call
         /\ call[c].engine \in Engines
         /\ call[c].candidates \in SUBSET Positions
         /\ call[c].left \in SUBSET Positions
         /\ call[c].board \in Seq(Entry)
         /\ call[c].best \in Entry
         /\ NoBest \in Entry
<1>1. Registry[1] \in Models
  BY RegistryAssumption, LenProperties DEF Models, Range
<1> QED
  BY <1>1 DEF TypeOK, Call, NoBest, Entry, Errors

\* The entry of a candidate that failed.
LEMMA FailedEntryFacts ==
  ASSUME NEW c \in Calls, Current(c) \in Models, NEW t \in Errors \ {"none"}
  PROVE  LET entry == FailedEntry(c, t) IN
         /\ entry \in Entry /\ entry.model = Current(c)
         /\ ~entry.cv /\ InError(entry) /\ entry.score = NoScore
BY DEF FailedEntry, NoBest, Entry, Errors, InError

\* Every step keeps the types.
LEMMA StepTypeOK ==
  ASSUME IInv, NEW c \in Calls, Step(c)
  PROVE  TypeOK'
<1> USE DEF IInv
<1>1. CASE Select(c)
  <2>1. CASE call' = call
    BY <1>1, <2>1 DEF Select, TypeOK, Goto
  <2>2. CASE \E chosen \in SUBSET Positions :
               call' = [call EXCEPT ![c].candidates = chosen, ![c].left = chosen]
    <3>1. PICK chosen \in SUBSET Positions :
            call' = [call EXCEPT ![c].candidates = chosen, ![c].left = chosen]
      BY <2>2
    <3> DEFINE new == [call[c] EXCEPT !.candidates = chosen, !.left = chosen]
    <3>2. call' = [call EXCEPT ![c] = new]
      BY <3>1
    <3>3. new \in Call
      BY CallTypes DEF Call
    <3>4. call' \in [Calls -> Call]
      <4> HIDE DEF new
      <4> QED
        BY <3>2, <3>3 DEF TypeOK
    <3> QED
      BY <1>1, <3>4 DEF Select, TypeOK, Goto
  <2>3. \A keep : Matching(keep) \in SUBSET Positions /\ Positions \in SUBSET Positions
    BY DEF Matching
  <2> QED
    BY <1>1, <2>1, <2>2, <2>3 DEF Select
<1>2. CASE BeginFit(c)
  BY <1>2 DEF BeginFit, TypeOK, Goto
<1>3. CASE EndFit(c)
  BY <1>3 DEF EndFit, TypeOK, Goto
<1>4. ASSUME call[c].left # {}, NEW entry \in Entry, NEW best \in Entry,
             call' = [call EXCEPT ![c].left  = Remaining(c),
                                  ![c].board = Append(@, entry),
                                  ![c].best  = best]
      PROVE  call' \in [Calls -> Call]
  <2>1. Append(call[c].board, entry) \in Seq(Entry)
    BY CallTypes, AppendEntry
  <2>2. Remaining(c) \in SUBSET Positions
    BY CallTypes, CurrentFacts, <1>4
  <2> QED
    BY <1>4, <2>1, <2>2, CallTypes DEF TypeOK, Call
<1>5. CASE Evaluate(c)
  <2>1. call[c].left # {}
    BY <1>5 DEF Evaluate, CallInv, Loop
  <2>2. PICK s \in Scores :
          LET entry == [model |-> Current(c), score |-> s, error |-> "none", cv |-> FALSE,
                        by |-> IF fitted[Its(c)] \in Calls THEN fitted[Its(c)] ELSE NoCall]
          IN call' = [call EXCEPT ![c].left  = Remaining(c),
                                  ![c].board = Append(@, entry),
                                  ![c].best  = IF Better(entry, @) THEN entry ELSE @]
    BY <1>5 DEF Evaluate
  <2> DEFINE entry == [model |-> Current(c), score |-> s, error |-> "none", cv |-> FALSE,
                       by |-> IF fitted[Its(c)] \in Calls THEN fitted[Its(c)] ELSE NoCall]
             best == IF Better(entry, call[c].best) THEN entry ELSE call[c].best
  <2>3. entry \in Entry
    BY <2>1, CurrentFacts DEF Entry, Errors
  <2>4. best \in Entry
    BY <2>3, CallTypes
  <2>5. call' = [call EXCEPT ![c].left  = Remaining(c),
                             ![c].board = Append(@, entry),
                             ![c].best  = best]
    BY <2>2
  <2>6. call' \in [Calls -> Call]
    BY <1>4, <2>1, <2>3, <2>4, <2>5
  <2> QED
    BY <1>5, <2>6 DEF Evaluate, TypeOK, Goto
<1>6. CASE CandidateFails(c)
  <2>1. call[c].left # {}
    BY <1>6 DEF CandidateFails, CallInv, Loop
  <2>2. PICK t \in Errors \ {"none"} :
          call' = [call EXCEPT ![c].left  = Remaining(c),
                               ![c].board = Append(@, FailedEntry(c, t))]
    BY <1>6 DEF CandidateFails
  <2>3. call' \in [Calls -> Call]
    <3>0. FailedEntry(c, t) \in Entry
      BY <2>1, CurrentFacts, FailedEntryFacts
    <3>1. Append(call[c].board, FailedEntry(c, t)) \in Seq(Entry)
      BY <3>0, CallTypes, AppendEntry
    <3>2. Remaining(c) \in SUBSET Positions
      BY CallTypes, CurrentFacts, <2>1
    <3> QED
      BY <2>2, <3>1, <3>2, CallTypes DEF TypeOK, Call
  <2>4. fitted' \in [Estimators -> Calls \cup {NoCall, Fitting}]
    BY <1>6 DEF CandidateFails, TypeOK
  <2> QED
    BY <1>6, <2>3, <2>4 DEF CandidateFails, TypeOK, Goto
<1>7. CASE Rank(c)
  <2>1. \A order \in Rankings(c) : Ranked(c, order) \in Seq(Entry)
    BY CallTypes, RankedPermutes
  <2>2. \A cv \in BOOLEAN : [call[c].best EXCEPT !.cv = cv] \in Entry
    BY CallTypes DEF Entry
  <2>3. PICK cv \in BOOLEAN, order \in Rankings(c) :
          call' = [call EXCEPT ![c].board = Ranked(c, order), ![c].best.cv = cv]
    BY <1>7 DEF Rank
  <2>4. call' = [call EXCEPT ![c].board = Ranked(c, order),
                             ![c].best  = [call[c].best EXCEPT !.cv = cv]]
    BY <2>3
  <2>5. call' \in [Calls -> Call]
    BY <2>1, <2>2, <2>4, CallTypes DEF TypeOK, Call
  <2> QED
    BY <1>7, <2>5 DEF Rank, TypeOK, Goto
<1>8. CASE Store(c)
  <2>1. \A e \in Stored(c) : RowOf(c, e) \in Row
    <3>1. \A e \in Stored(c) : e \in Entry
      BY CallTypes, BoardFacts DEF Stored, Range
    <3> QED
      BY <3>1 DEF RowOf, Row, Entry
  <2> QED
    BY <1>8, <2>1 DEF Store, TypeOK, Goto
<1>9. CASE NothingTrained(c) \/ Report(c) \/ ReportRaises(c)
  BY <1>9 DEF NothingTrained, Report, ReportRaises, TypeOK, Goto
<1> QED
  BY <1>1, <1>2, <1>3, <1>5, <1>6, <1>7, <1>8, <1>9 DEF Step

\* A step that touches neither leaderboard, nor what is left, nor the tables.
LEMMA SameBoard ==
  ASSUME IInv, NEW c \in Calls, call' = call, rows' = rows, pc[c] # "stored", pc'[c] # "stored"
  PROVE  Board(c)' /\ RowsInv(c)' /\ (BestSoFar(c) => BestSoFar(c)')
<1>1. Board(c) /\ RowsInv(c)
  BY DEF IInv, CallInv
<1> QED
  BY <1>1 DEF Board, RowsInv, RowsFor, BestSoFar, Before

\* Select keeps the invariant: nothing is on the leaderboard yet.
LEMMA SelectInv ==
  ASSUME IInv, TypeOK', NEW c \in Calls, Select(c)
  PROVE  CallInv(c)'
<1> USE DEF IInv
<1>1. pc[c] = "new" /\ call[c].board = <<>> /\ call[c].best = NoBest /\ rows' = rows
  BY DEF Select, CallInv, Loop
<1>2. pc'[c] \in {"raised", "loop"}
  BY DEF Select, Goto, TypeOK
<1>3. /\ call'[c].engine = call[c].engine
      /\ call'[c].board = <<>> /\ call'[c].best = NoBest
      /\ pc'[c] = "loop" => call'[c].left = call'[c].candidates
      /\ pc'[c] = "raised" => call'[c] = call[c]
  BY <1>1 DEF Select, Goto, TypeOK, Call
<1>4. DOMAIN <<>> = {} /\ InError(NoBest)
  BY EmptySeq DEF NoBest, InError
<1>5. Board(c)'
  BY <1>1, <1>2, <1>3, <1>4 DEF CallInv, Board
<1>6. Loop(c)'
  BY <1>2, <1>3, <1>4 DEF Loop, BestSoFar
<1>7. Result(c)' /\ Fits(c)'
  BY <1>2, <1>3, <1>4 DEF Result, Returned, Fits
<1>8. RowsInv(c)'
  BY <1>1, <1>2 DEF CallInv, RowsInv, RowsFor
<1> QED
  BY <1>5, <1>6, <1>7, <1>8 DEF CallInv

\* fit() begins and ends: only the estimator of the current candidate changes.
LEMMA FitInv ==
  ASSUME IInv, NEW c \in Calls, BeginFit(c) \/ EndFit(c)
  PROVE  CallInv(c)'
<1> USE DEF IInv
<1>1. /\ pc[c] \in {"loop", "fit"} /\ call[c].left # {}
      /\ call' = call /\ rows' = rows
      /\ pc'[c] = IF pc[c] = "loop" THEN "fit" ELSE "evaluate"
  BY DEF BeginFit, EndFit, InLoop, Goto, TypeOK, CallInv, Loop
<1>2. Board(c)' /\ RowsInv(c)' /\ BestSoFar(c)'
  BY <1>1, SameBoard DEF CallInv, Loop
<1>3. Loop(c)' /\ Result(c)'
  BY <1>1, <1>2 DEF Loop, Result, Returned
<1>4. ASSUME call[c].engine = "enterprise" PROVE Fits(c)'
  <2>1. Its(c) = <<c, Current(c)>> /\ Its(c) \in Estimators
    BY <1>1, <1>4, CurrentFacts
  <2>2. Current(c)' = Current(c)
    BY <1>1 DEF Current
  <2>3. pc[c] = "fit" => fitted'[<<c, Current(c)>>] = c
    <3>1. SUFFICES ASSUME pc[c] = "fit" PROVE fitted'[Its(c)] = c
      BY <2>1
    <3>2. EndFit(c)
      BY <3>1 DEF BeginFit
    <3>3. fitted[Its(c)] = Fitting
      BY <1>4, <2>1, <3>1 DEF CallInv, Fits
    <3> QED
      BY <2>1, <3>2, <3>3 DEF EndFit, TypeOK
  <2>4. pc[c] = "loop" => fitted'[<<c, Current(c)>>] = Fitting
    <3>1. \A d \in Calls \ {c} : Its(d) # Its(c)
      BY <2>1, CallsAssumption DEF Its, Estimator
    <3>2. Rivals(c) = {}
      BY <3>1 DEF Rivals
    <3> QED
      BY <1>1, <2>1, <3>2 DEF BeginFit, EndFit, TypeOK
  <2>5. InError(call[c].best) \/ fitted'[<<c, call[c].best.model>>] = fitted[<<c, call[c].best.model>>]
    <3>1. SUFFICES ASSUME ~InError(call[c].best)
                   PROVE  fitted'[<<c, call[c].best.model>>] = fitted[<<c, call[c].best.model>>]
      OBVIOUS
    <3>2. call[c].best.model # Current(c)
      BY <1>1, <1>4, <3>1, CurrentFacts DEF CallInv, Fits
    <3>3. <<c, call[c].best.model>> \in Estimators
      BY CallTypes DEF Entry, Estimators, Owners
    <3> QED
      BY <2>1, <3>2, <3>3 DEF BeginFit, EndFit, TypeOK
  <2> QED
    BY <1>1, <1>4, <2>2, <2>3, <2>4, <2>5 DEF CallInv, Fits
<1>5. Fits(c)'
  BY <1>1, <1>4 DEF Fits
<1> QED
  BY <1>2, <1>3, <1>5 DEF CallInv

\* One more entry, of the current candidate, keeps the leaderboard in order.
LEMMA OneMoreEntry ==
  ASSUME IInv, NEW c \in Calls, call[c].left # {},
         NEW entry \in Entry, entry.model = Current(c), ~entry.cv,
         InError(entry) <=> entry.score = NoScore,
         call'[c].candidates = call[c].candidates,
         call'[c].left = Remaining(c),
         call'[c].board = Append(call[c].board, entry)
  PROVE  Board(c)'
<1> DEFINE board == call[c].board
           n == Len(board) + 1
<1>1. Board(c) /\ TypeOK
  BY DEF IInv, CallInv
<1>2. board \in Seq(Entry) /\ call[c].left \in SUBSET Positions
  BY <1>1, CallTypes
<1>3. /\ DOMAIN call'[c].board = DOMAIN board \cup {n}
      /\ call'[c].board[n] = entry
      /\ \A k \in DOMAIN board : call'[c].board[k] = board[k] /\ k # n
  <2>1. \A k \in DOMAIN board : k \in Nat /\ n \in Nat
    BY <1>2, BoardFacts
  <2> QED
    BY <1>2, <2>1, AppendEntry
<1>4. PICK j \in call[c].left : Current(c) = Registry[j]
  BY <1>1, CurrentFacts
<1>5. /\ Remaining(c) \subseteq call[c].left
      /\ \A i \in call[c].left : i \in Remaining(c) <=> Registry[i] # Current(c)
  BY <1>1, CurrentFacts
<1>6. call'[c].left \subseteq call'[c].candidates
  BY <1>1, <1>5 DEF Board
<1>7. \A i \in call'[c].candidates :
         i \in call'[c].left \/ \E k \in DOMAIN call'[c].board : call'[c].board[k].model = Registry[i]
  BY <1>1, <1>3, <1>5 DEF Board
<1>8. \A k \in DOMAIN call'[c].board :
         /\ \E i \in call'[c].candidates : call'[c].board[k].model = Registry[i]
         /\ \A i \in call'[c].left : call'[c].board[k].model # Registry[i]
         /\ InError(call'[c].board[k]) <=> call'[c].board[k].score = NoScore
         /\ ~call'[c].board[k].cv
  BY <1>1, <1>3, <1>4, <1>5 DEF Board
<1>9. \A k, l \in DOMAIN call'[c].board :
         call'[c].board[k].model = call'[c].board[l].model => k = l
  BY <1>1, <1>3, <1>4 DEF Board
<1> QED
  BY <1>6, <1>7, <1>8, <1>9 DEF Board

\* A candidate that could be evaluated.
LEMMA EvaluateInv ==
  ASSUME IInv, NEW c \in Calls, Evaluate(c)
  PROVE  CallInv(c)'
<1> USE DEF IInv
<1> DEFINE board == call[c].board
           n == Len(board) + 1
<1>1. pc[c] = "evaluate" /\ call[c].left # {} /\ pc'[c] = "loop" /\ fitted' = fitted /\ rows' = rows
  BY DEF Evaluate, Goto, TypeOK, CallInv, Loop
<1>2. PICK s \in Scores :
        LET entry == [model |-> Current(c), score |-> s, error |-> "none", cv |-> FALSE,
                      by |-> IF fitted[Its(c)] \in Calls THEN fitted[Its(c)] ELSE NoCall]
        IN call' = [call EXCEPT ![c].left  = Remaining(c),
                                ![c].board = Append(@, entry),
                                ![c].best  = IF Better(entry, @) THEN entry ELSE @]
  BY DEF Evaluate
<1> DEFINE entry == [model |-> Current(c), score |-> s, error |-> "none", cv |-> FALSE,
                     by |-> IF fitted[Its(c)] \in Calls THEN fitted[Its(c)] ELSE NoCall]
<1>3. entry \in Entry
  BY <1>1, CurrentFacts DEF Entry, Errors
<1>4. /\ entry.model = Current(c) /\ ~entry.cv /\ ~InError(entry)
      /\ entry.score \in Int /\ entry.score # NoScore /\ NoScore <= entry.score
  BY <1>3, EntryScore DEF InError
<1>5. /\ call'[c].candidates = call[c].candidates
      /\ call'[c].left = Remaining(c)
      /\ call'[c].board = Append(board, entry)
      /\ call'[c].best = IF Better(entry, call[c].best) THEN entry ELSE call[c].best
      /\ call'[c].engine = call[c].engine
  <2> HIDE DEF entry
  <2>1. call' = [call EXCEPT ![c].left  = Remaining(c),
                             ![c].board = Append(@, entry),
                             ![c].best  = IF Better(entry, @) THEN entry ELSE @]
    BY <1>2 DEF entry
  <2> QED
    BY <2>1, CallTypes DEF TypeOK, Call
<1> HIDE DEF entry
<1>6. Board(c)'
  BY <1>1, <1>3, <1>4, <1>5, OneMoreEntry
<1>7. /\ DOMAIN call'[c].board = DOMAIN board \cup {n}
      /\ call'[c].board[n] = entry
      /\ \A k \in DOMAIN board : call'[c].board[k] = board[k] /\ k < n
      /\ \A k \in DOMAIN board : k \in Nat /\ board[k].score \in Int /\ NoScore <= board[k].score
      /\ n \in Nat
  BY <1>3, <1>5, CallTypes, AppendEntry, BoardFacts, EntryScore
<1>8. BestSoFar(c)'
  <2>1. CASE call[c].best = NoBest /\ \A k \in DOMAIN board : InError(board[k])
    <3>1. NoScore \in Int /\ \A k \in DOMAIN board : board[k].score = NoScore
      BY <2>1 DEF CallInv, Board, NoScore
    <3>2. entry.score > NoScore
      BY <1>4, <3>1
    <3>3. call'[c].best = entry
      BY <1>5, <2>1, <3>2 DEF Better, NoBest
    <3>4. \A l \in DOMAIN call'[c].board : Before(call'[c].board, n, l)
      BY <1>7, <3>1, <3>2 DEF Before
    <3> QED
      BY <1>4, <1>7, <3>3, <3>4 DEF BestSoFar
  <2>2. ASSUME ~InError(call[c].best), NEW k \in DOMAIN board, call[c].best = board[k],
               \A l \in DOMAIN board : Before(board, k, l)
        PROVE  BestSoFar(c)'
    <3>1. CASE entry.score > board[k].score
      <4>1. call'[c].best = entry
        BY <1>5, <2>2, <3>1 DEF Better
      <4>2. \A l \in DOMAIN call'[c].board : Before(call'[c].board, n, l)
        BY <1>4, <1>7, <2>2, <3>1 DEF Before
      <4> QED
        BY <1>4, <1>7, <4>1, <4>2 DEF BestSoFar
    <3>2. CASE ~(entry.score > board[k].score)
      <4>1. call'[c].best = call[c].best
        BY <1>5, <2>2, <3>2 DEF Better
      <4>2. \A l \in DOMAIN call'[c].board : Before(call'[c].board, k, l)
        BY <1>4, <1>7, <2>2, <3>2 DEF Before
      <4> QED
        BY <1>7, <2>2, <4>1, <4>2 DEF BestSoFar
    <3> QED
      BY <3>1, <3>2
  <2>3. BestSoFar(c)
    BY <1>1 DEF CallInv, Loop
  <2> QED
    BY <2>1, <2>2, <2>3 DEF BestSoFar
<1>9. Loop(c)' /\ Result(c)' /\ RowsInv(c)'
  BY <1>1, <1>8 DEF Loop, Result, Returned, CallInv, RowsInv, RowsFor
<1>10. Fits(c)'
  <2>1. SUFFICES ASSUME call[c].engine = "enterprise" PROVE Fits(c)'
    BY <1>5 DEF Fits
  <2>2. Its(c) = <<c, Current(c)>> /\ fitted[Its(c)] = c
    BY <1>1, <2>1, CurrentFacts DEF CallInv, Fits
  <2>3. entry.by = c
    BY <2>2 DEF entry
  <2>4. /\ Remaining(c) \subseteq call[c].left
        /\ \A i \in Remaining(c) : Registry[i] # Current(c)
    BY <1>1, CurrentFacts
  <2>5. \A k \in DOMAIN call'[c].board : InError(call'[c].board[k]) \/ call'[c].board[k].by = c
    <3>1. \A k \in DOMAIN board : InError(board[k]) \/ board[k].by = c
      BY <2>1 DEF CallInv, Fits
    <3> QED
      BY <1>7, <2>3, <3>1
  <2>6. \/ InError(call'[c].best)
        \/ /\ fitted[<<c, call'[c].best.model>>] = c
           /\ \A i \in Remaining(c) : call'[c].best.model # Registry[i]
    BY <1>4, <1>5, <2>1, <2>2, <2>4 DEF CallInv, Fits
  <2> QED
    BY <1>1, <1>5, <2>5, <2>6 DEF Fits
<1> QED
  BY <1>6, <1>9, <1>10 DEF CallInv

\* A candidate that failed.
LEMMA CandidateFailsInv ==
  ASSUME IInv, NEW c \in Calls, CandidateFails(c)
  PROVE  CallInv(c)'
<1> USE DEF IInv
<1> DEFINE board == call[c].board
           n == Len(board) + 1
<1>0. PICK t \in Errors \ {"none"} :
        call' = [call EXCEPT ![c].left  = Remaining(c),
                             ![c].board = Append(@, FailedEntry(c, t))]
  BY DEF CandidateFails
<1> DEFINE entry == FailedEntry(c, t)
<1>1. /\ pc[c] \in {"fit", "evaluate"} /\ call[c].left # {} /\ pc'[c] = "loop" /\ rows' = rows
  BY DEF CandidateFails, Goto, TypeOK, CallInv, Loop
<1>2. /\ entry \in Entry
      /\ entry.model = Current(c) /\ ~entry.cv /\ InError(entry) /\ entry.score = NoScore
  BY <1>1, CurrentFacts, FailedEntryFacts
<1>3. /\ call'[c].candidates = call[c].candidates
      /\ call'[c].left = Remaining(c)
      /\ call'[c].board = Append(board, entry)
      /\ call'[c].best = call[c].best
      /\ call'[c].engine = call[c].engine
  BY <1>0 DEF TypeOK, Call
<1> HIDE DEF entry
<1>4. Board(c)'
  BY <1>1, <1>2, <1>3, OneMoreEntry
<1>5. /\ DOMAIN call'[c].board = DOMAIN board \cup {n}
      /\ call'[c].board[n] = entry
      /\ \A k \in DOMAIN board : call'[c].board[k] = board[k] /\ k < n
      /\ \A k \in DOMAIN board : k \in Nat /\ board[k].score \in Int /\ NoScore <= board[k].score
      /\ n \in Nat
  BY <1>2, <1>3, CallTypes, AppendEntry, BoardFacts, EntryScore
<1>6. BestSoFar(c)'
  <2>1. CASE call[c].best = NoBest /\ \A k \in DOMAIN board : InError(board[k])
    BY <1>2, <1>3, <1>5, <2>1 DEF BestSoFar
  <2>2. ASSUME ~InError(call[c].best), NEW k \in DOMAIN board, call[c].best = board[k],
               \A l \in DOMAIN board : Before(board, k, l)
        PROVE  BestSoFar(c)'
    <3>1. \A l \in DOMAIN call'[c].board : Before(call'[c].board, k, l)
      BY <1>2, <1>5, <2>2 DEF Before, NoScore
    <3> QED
      BY <1>3, <1>5, <2>2, <3>1 DEF BestSoFar
  <2>3. BestSoFar(c)
    BY <1>1 DEF CallInv, Loop
  <2> QED
    BY <2>1, <2>2, <2>3 DEF BestSoFar
<1>7. Loop(c)' /\ Result(c)' /\ RowsInv(c)'
  BY <1>1, <1>6 DEF Loop, Result, Returned, CallInv, RowsInv, RowsFor
<1>8. Fits(c)'
  <2>1. SUFFICES ASSUME call[c].engine = "enterprise" PROVE Fits(c)'
    BY <1>3 DEF Fits
  <2>2. Its(c) = <<c, Current(c)>>
    BY <1>1, <2>1, CurrentFacts
  <2>3. Remaining(c) \subseteq call[c].left
    BY <1>1, CurrentFacts
  <2>4. \A k \in DOMAIN call'[c].board : InError(call'[c].board[k]) \/ call'[c].board[k].by = c
    <3>1. \A k \in DOMAIN board : InError(board[k]) \/ board[k].by = c
      BY <2>1 DEF CallInv, Fits
    <3> QED
      BY <1>2, <1>5, <3>1
  <2>5. \/ InError(call[c].best)
        \/ /\ fitted'[<<c, call[c].best.model>>] = c
           /\ \A i \in Remaining(c) : call[c].best.model # Registry[i]
    <3>1. SUFFICES ASSUME ~InError(call[c].best)
                   PROVE  /\ fitted'[<<c, call[c].best.model>>] = c
                          /\ \A i \in Remaining(c) : call[c].best.model # Registry[i]
      OBVIOUS
    <3>2. /\ fitted[<<c, call[c].best.model>>] = c
          /\ \A i \in call[c].left : call[c].best.model # Registry[i]
      BY <2>1, <3>1 DEF CallInv, Fits
    <3>3. call[c].best.model # Current(c)
      BY <1>1, <3>2, CurrentFacts
    <3>4. <<c, call[c].best.model>> \in Estimators
      BY CallTypes DEF Entry, Estimators, Owners
    <3>5. fitted'[<<c, call[c].best.model>>] = c
      BY <2>2, <3>2, <3>3, <3>4 DEF CandidateFails, TypeOK
    <3> QED
      BY <2>3, <3>2, <3>5
  <2> QED
    BY <1>1, <1>3, <2>4, <2>5 DEF Fits
<1> QED
  BY <1>4, <1>7, <1>8 DEF CallInv

\* The leaderboard is sorted: the loop's running maximum is its head.
LEMMA RankInv ==
  ASSUME IInv, NEW c \in Calls, Rank(c)
  PROVE  CallInv(c)'
<1> USE DEF IInv
<1> DEFINE board == call[c].board
           best == call[c].best
           D == DOMAIN board
<1>1. /\ pc[c] = "loop" /\ call[c].left = {} /\ best # NoBest
      /\ pc'[c] = "report" /\ fitted' = fitted /\ rows' = rows
  BY DEF Rank, InLoop, Goto, TypeOK
<1>2. PICK cv \in BOOLEAN, order \in Rankings(c) :
        call' = [call EXCEPT ![c].board = Ranked(c, order), ![c].best.cv = cv]
  BY DEF Rank
<1> DEFINE ranked == Ranked(c, order)
<1>3. /\ call'[c].candidates = call[c].candidates
      /\ call'[c].left = {}
      /\ call'[c].board = ranked
      /\ call'[c].best = [best EXCEPT !.cv = cv]
      /\ call'[c].engine = call[c].engine
  BY <1>1, <1>2 DEF TypeOK, Call
<1>4. board \in Seq(Entry) /\ best \in Entry
  BY CallTypes
<1>5. PICK b \in D : best = board[b] /\ ~InError(best) /\ \A l \in D : Before(board, b, l)
  BY <1>1 DEF CallInv, Loop, BestSoFar
<1>6. /\ ranked \in Seq(Entry)
      /\ DOMAIN ranked = D
      /\ \A k \in D : order[k] \in D /\ ranked[k] = board[order[k]]
      /\ \A k, l \in D : order[k] = order[l] => k = l
  BY <1>4, RankedPermutes
<1>7. \A i \in D : \E k \in D : order[k] = i
  BY <1>4, RankedPermutes
<1>8. \A k, l \in D : k < l => Precedes(c, order[k], order[l])
  BY <1>4, RankedPermutes
<1>9. D = 1..Len(board) /\ Len(board) \in Nat /\ \A i \in D : i \in Nat /\ board[i].score \in Int
  BY <1>4, BoardFacts
<1>10. Board(c) /\ (call[c].engine = "enterprise" => Fits(c))
  BY DEF CallInv
<1> HIDE DEF ranked, board, best, D
<1>11. Board(c)'
  <2>1. \A i \in call[c].candidates : \E k \in D : ranked[k].model = Registry[i]
    <3> SUFFICES ASSUME NEW i \in call[c].candidates
                 PROVE  \E k \in D : ranked[k].model = Registry[i]
      OBVIOUS
    <3>1. PICK p \in D : board[p].model = Registry[i]
      BY <1>1, <1>10 DEF Board, board, D
    <3> QED
      BY <1>6, <1>7, <3>1
  <2>2. \A k \in D : /\ \E i \in call[c].candidates : ranked[k].model = Registry[i]
                     /\ InError(ranked[k]) <=> ranked[k].score = NoScore
                     /\ ~ranked[k].cv
    <3>1. \A p \in D : /\ \E i \in call[c].candidates : board[p].model = Registry[i]
                       /\ InError(board[p]) <=> board[p].score = NoScore
                       /\ ~board[p].cv
      BY <1>10 DEF Board, board, D
    <3>2. \A k \in D : \E p \in D : ranked[k] = board[p]
      BY <1>6
    <3> QED
      BY <3>1, <3>2
  <2>3. \A k, l \in D : ranked[k].model = ranked[l].model => k = l
    <3>1. \A p, q \in D : board[p].model = board[q].model => p = q
      BY <1>10 DEF Board, board, D
    <3> QED
      BY <1>6, <3>1
  <2> QED
    BY <1>3, <1>6, <2>1, <2>2, <2>3 DEF Board
<1>12. Loop(c)' /\ RowsInv(c)'
  BY <1>1 DEF Loop, CallInv, RowsInv, RowsFor
<1>13. \A i, j \in D : i < j => ranked[i].score >= ranked[j].score
  <2> SUFFICES ASSUME NEW i \in D, NEW j \in D, i < j
               PROVE  ranked[i].score >= ranked[j].score
    OBVIOUS
  <2>1. Precedes(c, order[i], order[j]) /\ order[i] \in D /\ order[j] \in D
    BY <1>6, <1>8
  <2>2. board[order[i]].score > board[order[j]].score \/ board[order[i]].score = board[order[j]].score
    BY <2>1 DEF Precedes, board
  <2> QED
    BY <1>6, <1>9, <2>1, <2>2
<1>14. 1 \in D /\ \A k \in D : 1 <= k
  BY <1>9
<1>15. ranked[1].score = best.score
  <2>1. best.score >= ranked[1].score
    BY <1>5, <1>6, <1>9, <1>14 DEF Before
  <2>2. PICK k \in D : order[k] = b /\ ranked[k] = best
    BY <1>5, <1>6, <1>7
  <2>3. ranked[1].score >= ranked[k].score
    <3>1. k = 1 \/ 1 < k
      BY <1>9, <1>14
    <3> QED
      BY <1>6, <1>9, <1>13, <1>14, <3>1
  <2> QED
    BY <1>5, <1>6, <1>9, <1>14, <2>1, <2>2, <2>3
<1>16. call[c].engine = "enterprise" => ranked[1] = best
  <2>1. SUFFICES ASSUME call[c].engine = "enterprise", order[1] # b PROVE FALSE
    BY <1>5, <1>6, <1>14
  <2>2. PICK k \in D : order[k] = b
    BY <1>5, <1>7
  <2>3. 1 < k
    BY <1>9, <1>14, <2>1, <2>2
  <2>4. Precedes(c, order[1], b)
    BY <1>14, <1>8, <2>2, <2>3
  <2>5. Before(board, b, order[1]) /\ order[1] \in D
    BY <1>5, <1>6, <1>14
  <2>6. \/ board[order[1]].score > board[b].score
        \/ board[order[1]].score = board[b].score /\ order[1] <= b
    BY <2>1, <2>4 DEF Precedes, board
  <2> QED
    BY <1>5, <1>9, <2>1, <2>5, <2>6 DEF Before
<1>17. Result(c)'
  <2>1. ranked # <<>>
    BY <1>6, <1>14, EmptySeq
  <2>2. [call'[c].best EXCEPT !.cv = FALSE] = best
    <3>1. ~best.cv
      BY <1>5, <1>10 DEF Board, board, D
    <3> QED
      BY <1>3, <1>4, <3>1 DEF Entry
  <2>3. ~InError(call'[c].best)
    BY <1>3, <1>4, <1>5 DEF Entry, InError
  <2>4. \E k \in D : ranked[k] = best
    <3>1. PICK k \in D : order[k] = b
      BY <1>5, <1>7
    <3> QED
      BY <1>5, <1>6, <3>1
  <2> QED
    BY <1>3, <1>6, <1>13, <1>15, <1>16, <2>1, <2>2, <2>3, <2>4 DEF Result
<1>18. Fits(c)'
  <2>1. SUFFICES ASSUME call[c].engine = "enterprise" PROVE Fits(c)'
    BY <1>3 DEF Fits
  <2>2. \A i \in D : InError(board[i]) \/ board[i].by = c
    BY <1>10, <2>1 DEF Fits, board, D
  <2>3. \A k \in D : InError(ranked[k]) \/ ranked[k].by = c
    BY <1>6, <2>2
  <2>4. fitted[<<c, best.model>>] = c
    BY <1>5, <1>10, <2>1 DEF Fits, best
  <2>5. call'[c].best.model = best.model
    BY <1>3, <1>4 DEF Entry
  <2> QED
    BY <1>1, <1>3, <1>6, <2>3, <2>4, <2>5 DEF Fits
<1> QED
  BY <1>11, <1>17, <1>18, <1>12 DEF CallInv

\* The call raises, or reports.
LEMMA ReportInv ==
  ASSUME IInv, NEW c \in Calls, NothingTrained(c) \/ Report(c) \/ ReportRaises(c)
  PROVE  CallInv(c)'
<1> USE DEF IInv
<1>1. /\ pc[c] \in {"loop", "report"} /\ pc'[c] \in {"raised", "done"}
      /\ pc'[c] = "done" => pc[c] = "report"
      /\ call' = call /\ fitted' = fitted /\ rows' = rows
  BY DEF NothingTrained, Report, ReportRaises, Goto, TypeOK
<1>2. Board(c)' /\ RowsInv(c)'
  BY <1>1, SameBoard
<1>3. Loop(c)' /\ Result(c)'
  BY <1>1 DEF CallInv, Loop, Result, Returned
<1>4. Fits(c)'
  BY <1>1 DEF CallInv, Fits
<1> QED
  BY <1>2, <1>3, <1>4 DEF CallInv

\* The successful entries are stored.
LEMMA StoreInv ==
  ASSUME IInv, NEW c \in Calls, Store(c)
  PROVE  CallInv(c)'
<1> USE DEF IInv
<1>1. /\ pc[c] = "done" /\ pc'[c] = "stored" /\ call' = call /\ fitted' = fitted
      /\ rows' = rows \cup {RowOf(c, e) : e \in Stored(c)}
  BY DEF Store, Goto, TypeOK
<1>2. Board(c)' /\ Loop(c)'
  BY <1>1 DEF CallInv, Board, Loop
<1>3. Fits(c)'
  BY <1>1 DEF CallInv, Fits
<1>4. RowsFor(c) = {} /\ \A e : RowOf(c, e).call = c
  BY <1>1 DEF CallInv, RowsInv, RowOf
<1>5. RowsFor(c)' = {RowOf(c, e) : e \in Stored(c)}
  BY <1>1, <1>4 DEF RowsFor
<1>6. \A e : RowOf(c, e)' = RowOf(c, e)
  BY <1>1 DEF RowOf
<1>7. RowsInv(c)'
  BY <1>1, <1>5, <1>6 DEF RowsInv, Stored, RowOf
<1>8. Result(c)'
  BY <1>1 DEF CallInv, Result, Returned
<1> QED
  BY <1>2, <1>3, <1>7, <1>8 DEF CallInv

\* The invariant is inductive.
LEMMA NextIInv == IInv /\ [Next]_vars => IInv'
<1> SUFFICES ASSUME IInv, [Next]_vars PROVE IInv'
  OBVIOUS
<1>1. ASSUME NEW c \in Calls, Step(c) PROVE IInv'
  <2>1. TypeOK /\ TypeOK'
    BY <1>1, StepTypeOK DEF IInv
  <2>2. CallInv(c)'
    BY <1>1, <2>1, SelectInv, FitInv, EvaluateInv, CandidateFailsInv, RankInv, ReportInv, StoreInv
       DEF Step
  <2>3. ASSUME NEW d \in Calls, d # c PROVE CallInv(d)'
    BY <1>1, <2>1, <2>3, StepUntouched, UntouchedInv DEF IInv
  <2> QED
    BY <2>1, <2>2, <2>3 DEF IInv
<1>2. CASE UNCHANGED vars
  <2>1. TypeOK'
    BY <1>2 DEF vars, TypeOK, IInv
  <2>2. ASSUME NEW d \in Calls PROVE CallInv(d)'
    <3>1. Untouched(d)
      BY <1>2 DEF vars, Untouched, RowsFor
    <3> QED
      BY <3>1, UntouchedInv DEF IInv
  <2> QED
    BY <2>1, <2>2 DEF IInv
<1> QED
  BY <1>1, <1>2 DEF Next, Step

\* The inductive invariant holds in every reachable state.
THEOREM Invariance == Spec => []IInv
BY InitIInv, NextIInv, PTL DEF Spec

-----------------------------------------------------------------------------
(* The properties *)

\* The variables keep their types.
THEOREM TypeCorrect == Spec => []TypeOK
<1>1. IInv => TypeOK
  BY DEF IInv
<1> QED
  BY <1>1, Invariance, PTL

\* The winner the loop keeps is the head of the enterprise engine's stably sorted
\* leaderboard, and shares the first place of the legacy engine's, whose sort may
\* put another of equal score before it: for every registry, scores and ties.
THEOREM BestAndLeaderboard == Spec => []BestHeadsLeaderboard
<1>1. ASSUME IInv, NEW c \in Returned
      PROVE  LET best == [call[c].best EXCEPT !.cv = FALSE]
                 board == call[c].board
             IN /\ best \in Range(board) /\ board[1].score = best.score
                /\ call[c].engine = "enterprise" => board[1] = best
  <2>1. c \in Calls /\ Result(c) /\ call[c].best \in Entry
    BY <1>1, CallTypes DEF IInv, CallInv, Returned
  <2>2. [call[c].best EXCEPT !.cv = FALSE].score = call[c].best.score
    BY <2>1 DEF Entry
  <2> QED
    BY <1>1, <2>1, <2>2 DEF Result, Range
<1>2. IInv => BestHeadsLeaderboard
  BY <1>1 DEF BestHeadsLeaderboard
<1> QED
  BY <1>2, Invariance, PTL

\* Every candidate of a training has its one entry, failures come last.
THEOREM CompleteLeaderboard == Spec => []LeaderboardIsComplete
<1>1. ASSUME IInv, NEW c \in Returned
      PROVE  LET board == call[c].board IN
               /\ {Registry[i] : i \in call[c].candidates} = {e.model : e \in Range(board)}
               /\ \A i, j \in DOMAIN board : board[i].model = board[j].model => i = j
               /\ \A i, j \in DOMAIN board : i < j /\ InError(board[i]) => InError(board[j])
               /\ ~InError(call[c].best)
  <2> DEFINE board == call[c].board
             D == DOMAIN board
  <2>1. c \in Calls /\ TypeOK /\ Board(c) /\ Result(c)
    BY <1>1 DEF IInv, CallInv, Returned
  <2>2. board \in Seq(Entry)
    BY <2>1, CallTypes
  <2>3. \A e : e \in Range(board) <=> \E k \in D : e = board[k]
    BY DEF Range
  <2>4. {Registry[i] : i \in call[c].candidates} = {e.model : e \in Range(board)}
    <3>1. \A i \in call[c].candidates : \E e \in Range(board) : e.model = Registry[i]
      BY <1>1, <2>1, <2>3 DEF Board, Result
    <3>2. \A e \in Range(board) : \E i \in call[c].candidates : e.model = Registry[i]
      BY <2>1, <2>3 DEF Board
    <3> QED
      BY <3>1, <3>2
  <2>5. \A i, j \in D : i < j /\ InError(board[i]) => InError(board[j])
    <3> SUFFICES ASSUME NEW i \in D, NEW j \in D, i < j, InError(board[i])
                 PROVE  InError(board[j])
      OBVIOUS
    <3>1. board[i].score = NoScore /\ board[i].score >= board[j].score
      BY <1>1, <2>1 DEF Board, Result
    <3>2. board[j].score \in Int /\ NoScore <= board[j].score /\ NoScore \in Int
      BY <2>2, BoardFacts, EntryScore DEF NoScore
    <3>3. board[j].score = NoScore
      BY <3>1, <3>2
    <3> QED
      BY <2>1, <3>3 DEF Board
  <2>6. ~InError(call[c].best) /\ \A i, j \in D : board[i].model = board[j].model => i = j
    BY <1>1, <2>1 DEF Board, Result
  <2> QED
    BY <2>4, <2>5, <2>6
<1>2. IInv => LeaderboardIsComplete
  BY <1>1 DEF LeaderboardIsComplete
<1> QED
  BY <1>2, Invariance, PTL

\* With the enterprise engine no other training can touch the estimators of a
\* call, however many calls of either engine run at once.
THEOREM OwnFits == Spec => []EnterpriseFitsAreOwn
<1>1. ASSUME IInv, NEW c \in Calls, call[c].engine = "enterprise"
      PROVE  /\ \A e \in Range(call[c].board) : InError(e) \/ e.by = c
             /\ c \in Returned => fitted[Winner(c)] = c
  <2>1. Fits(c) /\ Result(c)
    BY <1>1 DEF IInv, CallInv
  <2>2. Winner(c) = <<c, call[c].best.model>>
    BY <1>1 DEF Winner, Estimator
  <2> QED
    BY <1>1, <2>1, <2>2 DEF Fits, Result, Range
<1>2. IInv => EnterpriseFitsAreOwn
  BY <1>1 DEF EnterpriseFitsAreOwn
<1> QED
  BY <1>2, Invariance, PTL

\* The stored rows of a training have one champion, none is better, and those
\* without metrics are candidates that failed with an empty text.
THEOREM StoredChampion == Spec => []StoredChampionIsBest
<1>1. ASSUME IInv, NEW c \in Calls, pc[c] = "stored"
      PROVE  /\ \A row \in RowsFor(c) : row.score = NoScore =>
                   \E e \in Range(call[c].board) : e.model = row.model /\ e.error = "empty"
             /\ \E champion \in RowsFor(c) :
                  /\ champion.score # NoScore
                  /\ \A row \in RowsFor(c) : /\ row.champion <=> row = champion
                                           /\ row.score <= champion.score
  <2>1. TypeOK /\ Board(c) /\ Result(c) /\ c \in Returned
    BY <1>1 DEF IInv, CallInv, Returned
  <2> DEFINE board == call[c].board
             D == DOMAIN board
  <2>2. board \in Seq(Entry) /\ call[c].best \in Entry
    BY <2>1, CallTypes
  <2>3. PICK b \in D : board[b] = [call[c].best EXCEPT !.cv = FALSE]
    BY <2>1 DEF Result
  <2> DEFINE champion == RowOf(c, board[b])
  <2>4. /\ 1 \in D
        /\ \A k \in D : k \in Nat /\ board[k].score \in Int /\ 1 <= k /\ board[k] \in Entry
    <3>1. board # <<>>
      BY <2>1 DEF Result
    <3>2. Len(board) \in Nat \ {0}
      BY <2>2, <3>1, EmptySeq
    <3> QED
      BY <2>2, <3>1, <3>2, BoardFacts
  <2>5. /\ board[b].model = call[c].best.model /\ ~InError(board[b])
        /\ board[b].score = board[1].score
    BY <2>1, <2>2, <2>3 DEF Result, Entry, InError
  <2>6. RowsFor(c) = {RowOf(c, e) : e \in Stored(c)}
    BY <1>1 DEF IInv, CallInv, RowsInv
  <2>7. \A e : e \in Stored(c) <=> \E k \in D : e = board[k] /\ ~Marked(board[k])
    BY DEF Stored, Range
  <2>8. \A e : /\ RowOf(c, e).score = e.score
               /\ RowOf(c, e).model = e.model
               /\ RowOf(c, e).champion <=> e.model = call[c].best.model
    BY DEF RowOf
  <2>9. champion \in RowsFor(c) /\ champion.score # NoScore
    BY <2>1, <2>3, <2>5, <2>6, <2>7, <2>8 DEF Board, InError, Marked
  <2>10. ASSUME NEW row \in RowsFor(c)
         PROVE  /\ row.score = NoScore =>
                     \E e \in Range(board) : e.model = row.model /\ e.error = "empty"
                /\ row.champion <=> row = champion
                /\ row.score <= champion.score
    <3>1. PICK k \in D : row = RowOf(c, board[k]) /\ ~Marked(board[k])
      BY <2>6, <2>7
    <3>2. row.score = NoScore => board[k].error = "empty"
      BY <2>1, <2>4, <2>8, <3>1 DEF Board, Entry, Errors, InError, Marked
    <3>3. row.champion => k = b
      <4>1. board[k].model = board[b].model => k = b
        BY <2>1 DEF Board
      <4> HIDE DEF board
      <4> QED
        BY <2>5, <2>8, <3>1, <4>1
    <3>4. row = champion => row.champion
      BY <2>5, <2>8
    <3>5. board[k].score <= board[1].score
      <4>1. CASE k = 1
        BY <2>4, <4>1
      <4>2. CASE 1 < k
        BY <2>1, <2>4, <4>2 DEF Result
      <4> QED
        BY <2>4, <4>1, <4>2
    <3>6. board[k] \in Range(board)
      BY DEF Range
    <3> QED
      BY <2>5, <2>8, <3>1, <3>2, <3>3, <3>4, <3>5, <3>6
  <2> HIDE DEF champion
  <2> QED
    BY <2>9, <2>10
<1>2. IInv => StoredChampionIsBest
  BY <1>1 DEF StoredChampionIsBest, RowsFor
<1> QED
  BY <1>2, Invariance, PTL
=============================================================================
