------------------------ MODULE DatasetRegistryProofs ------------------------
(***************************************************************************)
(* Proofs about DatasetRegistry, for every set of requests, users and      *)
(* slugs.  The argument: an open transaction knows a stored version just   *)
(* below the one it inserts (Pending), and the unique key keeps two open   *)
(* or stored rows apart, so a commit extends its line by exactly one.      *)
(***************************************************************************)
EXTENDS DatasetRegistry, SequenceTheorems, TLAPS

VersionsOf(u, s) == {d.version : d \in {e \in datasets : e.user = u /\ e.slug = s}}

\* A transaction knows its user, and then its version.
Numbered == {"insert"} \cup Held
Known    == {"latest"} \cup Numbered

\* What an open transaction relies on.
Pending ==
  \A r \in Requests :
    /\ work[r].newUser => pc[r] \in Known
    /\ pc[r] \in Known => work[r].newUser \/ work[r].user \in users
    /\ pc[r] # "new" /\ work[r].file => r \in files
    /\ pc[r] \in Numbered =>
         /\ work[r].version > 0
         /\ work[r].version = 1 \/ work[r].version - 1 \in VersionsOf(work[r].user, work[r].slug)

\* The unique key: what a transaction has inserted is stored by nobody else
\* and inserted by nobody else.
Exclusive ==
  \A r \in Requests : pc[r] \in Held =>
    /\ work[r].version \notin VersionsOf(work[r].user, work[r].slug)
    /\ \A q \in Requests \ {r} :
         pc[q] \in Held /\ SameLine(q, r) => work[q].version # work[r].version

UniqueRows ==
  \A d, e \in datasets : e.user = d.user /\ e.slug = d.slug /\ e.version = d.version => e = d

\* Each line holds the versions 1..n for some n.
Dense == \A u \in Users, s \in Slugs : \E n \in Nat : VersionsOf(u, s) = 1..n

\* Every row is the one its request asked for.
RowsMatch == \A d \in datasets : d = RowOf(d.request)

\* What the client of r knows, statement by statement.
ToldOf(r) ==
  /\ Stored(r) => pc[r] \in {"answer", "done", "failed"} /\ told[r] # "error"
  /\ pc[r] \in {"answer", "done"} => Stored(r)
  /\ pc[r] \in {"new", "answer"} \cup (Waiting \ {"commit"}) => told[r] = "nothing"
  /\ pc[r] = "send" => AnswersEarly(r)
  /\ pc[r] = "commit" => told[r] # "error"
  /\ told[r] = "success" => Stored(r) \/ (AnswersEarly(r) /\ pc[r] \in {"commit", "failed"})
Bookkeeping == \A r \in Requests : ToldOf(r)

IInv == /\ TypeOK
        /\ Pending
        /\ Exclusive
        /\ UniqueRows
        /\ Dense
        /\ RowsAreAnchored
        /\ RowsMatch
        /\ Bookkeeping

-----------------------------------------------------------------------------
(* Initial states *)

\* Initially there is no row and no open transaction.
LEMMA InitIInv == Init => IInv
<1> SUFFICES ASSUME Init PROVE IInv
  OBVIOUS
<1>1. TypeOK
  <2>1. ASSUME NEW r \in Requests PROVE work[r] \in Work
    <3>1. PICK u \in Users, s \in Slugs, f \in BOOLEAN : work[r] = NewWork(u, s, f)
      BY DEF Init
    <3> QED
      BY <3>1 DEF NewWork, Work
  <2>2. work \in [Requests -> Work]
    BY <2>1 DEF Init
  <2> QED
    BY <2>2 DEF Init, TypeOK, Answers
<1>2. \A r \in Requests : pc[r] = "new" /\ ~work[r].newUser
  BY DEF Init, NewWork
<1>3. Pending /\ Exclusive
  BY <1>2 DEF Pending, Exclusive, Known, Numbered, Held
<1>4. UniqueRows /\ RowsAreAnchored /\ RowsMatch
  BY DEF Init, UniqueRows, RowsAreAnchored, RowsMatch
<1>6. Bookkeeping
  BY <1>2 DEF Init, Bookkeeping, ToldOf, Stored
<1>5. Dense
  <2> SUFFICES ASSUME NEW u \in Users, NEW s \in Slugs
               PROVE  VersionsOf(u, s) = 1..0
    BY DEF Dense
  <2> QED
    BY DEF Init, VersionsOf
<1> QED
  BY <1>1, <1>3, <1>4, <1>5, <1>6 DEF IInv

-----------------------------------------------------------------------------
(* Steps *)

\* Every step keeps the types.
LEMMA NextTypeOK ==
  ASSUME IInv, [Next]_vars
  PROVE  TypeOK'
<1> USE DEF IInv
<1>1. ASSUME NEW r \in Requests, NEW x \in {"new", "answer", "done", "failed"} \cup Waiting, Goto(r, x)
      PROVE  pc' \in [Requests -> {"new", "answer", "done", "failed"} \cup Waiting]
  BY <1>1 DEF TypeOK, Goto
<1>2. ASSUME NEW r \in Requests, Rollback(r) PROVE TypeOK'
  <2>1. pc' \in [Requests -> {"new", "answer", "done", "failed"} \cup Waiting]
    BY <1>1, <1>2 DEF Rollback, End
  <2>2. work' \in [Requests -> Work]
    BY <1>2 DEF Rollback, End, TypeOK, Work
  <2>3. told' \in [Requests -> Answers]
    BY <1>2 DEF Rollback, TypeOK, Answers
  <2> QED
    BY <1>2, <2>1, <2>2, <2>3 DEF Rollback, End, TypeOK
<1>3. ASSUME NEW r \in Requests, WriteFile(r) PROVE TypeOK'
  BY <1>1, <1>3 DEF WriteFile, TypeOK, Waiting
<1>4. ASSUME NEW r \in Requests, FindUser(r) PROVE TypeOK'
  BY <1>1, <1>4 DEF FindUser, TypeOK, Waiting
<1>5. ASSUME NEW r \in Requests, CreateUser(r) PROVE TypeOK'
  <2>1. CASE work[r].user \in users
    BY <1>2, <1>5, <2>1 DEF CreateUser
  <2>2. CASE work[r].user \notin users
    <3>1. work' = [work EXCEPT ![r].newUser = TRUE]
      BY <1>5, <2>2 DEF CreateUser
    <3>2. work' \in [Requests -> Work]
      BY <3>1 DEF TypeOK, Work
    <3> QED
      BY <1>1, <1>5, <2>2, <3>2 DEF CreateUser, TypeOK, Waiting
  <2> QED
    BY <2>1, <2>2
<1>6. ASSUME NEW r \in Requests, ReadLatest(r) PROVE TypeOK'
  <2>1. PICK latest \in Versions(r) \cup {0} :
          work' = [work EXCEPT ![r].version = latest + 1]
    BY <1>6 DEF ReadLatest
  <2>2. latest + 1 \in Nat
    BY <2>1 DEF Versions, TypeOK, Row
  <2> QED
    BY <1>1, <1>6, <2>1, <2>2 DEF ReadLatest, TypeOK, Waiting, Work
<1>7. ASSUME NEW r \in Requests, InsertVersion(r) PROVE TypeOK'
  BY <1>1, <1>2, <1>7 DEF InsertVersion, AfterInsert, TypeOK, Waiting, Held
<1>8. ASSUME NEW r \in Requests, Commit(r) PROVE TypeOK'
  <2>1. work[r] \in Work /\ work[r].version > 0
    BY <1>8 DEF Commit, TypeOK, Pending, Numbered, Held
  <2>2. RowOf(r) \in Row
    BY <2>1 DEF RowOf, Row, Work
  <2>3. work' \in [Requests -> Work]
    BY <1>8 DEF Commit, TypeOK, Work
  <2>4. users' \subseteq Users
    BY <1>8, <2>1 DEF Commit, TypeOK, Work
  <2> QED
    BY <1>1, <1>8, <2>1, <2>2, <2>3, <2>4 DEF Commit, TypeOK
<1>10. ASSUME NEW r \in Requests, Answer(r) PROVE TypeOK'
  <2>1. told' \in [Requests -> Answers]
    BY <1>10 DEF Answer, TypeOK, Answers
  <2> QED
    BY <1>1, <1>10, <2>1 DEF Answer, TypeOK, Waiting, Held
<1>11. ASSUME NEW r \in Requests, Die(r) PROVE TypeOK'
  <2>1. work' \in [Requests -> Work]
    BY <1>11 DEF Die, End, TypeOK, Work
  <2> QED
    BY <1>1, <1>11, <2>1 DEF Die, End, TypeOK
<1>9. ASSUME UNCHANGED vars PROVE TypeOK'
  BY <1>9 DEF vars, TypeOK
<1> QED
  BY <1>2, <1>3, <1>4, <1>5, <1>6, <1>7, <1>8, <1>9, <1>10, <1>11 DEF Next, Statement, Abort

\* A step of r that commits nothing leaves the tables as they were.
LEMMA QuietStep ==
  ASSUME IInv, NEW r \in Requests, ToldOf(r)', Stored(r) => RowOf(r)' = RowOf(r),
         UNCHANGED <<users, datasets>>, files \subseteq files',
         \A q \in Requests \ {r} : pc'[q] = pc[q] /\ work'[q] = work[q] /\ told'[q] = told[q]
  PROVE  UniqueRows' /\ Dense' /\ RowsAreAnchored' /\ RowsMatch' /\ Bookkeeping'
<1> USE DEF IInv
<1>1. UniqueRows' /\ Dense' /\ RowsAreAnchored'
  BY DEF UniqueRows, Dense, VersionsOf, RowsAreAnchored
<1>2. ASSUME NEW d \in datasets' PROVE (d = RowOf(d.request))'
  <2>1. d = RowOf(d.request) /\ d.request \in Requests
    BY DEF RowsMatch, TypeOK, Row
  <2>2. CASE d.request = r
    BY <2>1, <2>2 DEF Stored
  <2>3. CASE d.request # r
    BY <2>1, <2>3 DEF RowOf
  <2> QED
    BY <2>2, <2>3
<1>3. ASSUME NEW q \in Requests, q # r PROVE ToldOf(q)'
  BY <1>3 DEF Bookkeeping, ToldOf, Stored, AnswersEarly
<1> QED
  BY <1>1, <1>2, <1>3 DEF RowsMatch, Bookkeeping

\* What a step of r does not touch for the other requests.
LEMMA OtherRequests ==
  ASSUME TypeOK, NEW r \in Requests,
         \/ WriteFile(r) \/ FindUser(r) \/ CreateUser(r) \/ ReadLatest(r)
         \/ InsertVersion(r) \/ Commit(r) \/ Answer(r) \/ End(r)
  PROVE  /\ \A q \in Requests \ {r} : pc'[q] = pc[q] /\ work'[q] = work[q]
         /\ work'[r].user = work[r].user /\ work'[r].slug = work[r].slug
         /\ work'[r].file = work[r].file
<1>1. ASSUME UNCHANGED work \/ work' = [work EXCEPT ![r].newUser = TRUE]
                            \/ work' = [work EXCEPT ![r].newUser = FALSE]
                            \/ \E n : work' = [work EXCEPT ![r].version = n]
      PROVE  /\ \A q \in Requests \ {r} : work'[q] = work[q]
             /\ work'[r].user = work[r].user /\ work'[r].slug = work[r].slug
             /\ work'[r].file = work[r].file
  BY <1>1 DEF TypeOK, Work
<1>2. ASSUME NEW x, Goto(r, x)
      PROVE  \A q \in Requests \ {r} : pc'[q] = pc[q]
  BY <1>2 DEF TypeOK, Goto
<1>3. CASE WriteFile(r)
  BY <1>1, <1>2, <1>3 DEF WriteFile
<1>4. CASE FindUser(r)
  BY <1>1, <1>2, <1>4 DEF FindUser
<1>5. CASE End(r)
  BY <1>1, <1>2, <1>5 DEF End
<1>6. CASE CreateUser(r)
  BY <1>1, <1>2, <1>6 DEF CreateUser, Rollback, End
<1>7. CASE ReadLatest(r)
  <2>1. \E n : work' = [work EXCEPT ![r].version = n]
    BY <1>7 DEF ReadLatest
  <2> QED
    BY <1>1, <1>2, <1>7, <2>1 DEF ReadLatest
<1>8. CASE InsertVersion(r)
  BY <1>1, <1>2, <1>8 DEF InsertVersion, Rollback, End
<1>9. CASE Commit(r)
  BY <1>1, <1>2, <1>9 DEF Commit
<1>10. CASE Answer(r)
  BY <1>1, <1>2, <1>10 DEF Answer
<1> QED
  BY <1>3, <1>4, <1>5, <1>6, <1>7, <1>8, <1>9, <1>10

\* Nor what their clients have been told.
LEMMA OtherClients ==
  ASSUME TypeOK, NEW r \in Requests,
         \/ WriteFile(r) \/ FindUser(r) \/ CreateUser(r) \/ ReadLatest(r)
         \/ InsertVersion(r) \/ Commit(r) \/ Answer(r) \/ Rollback(r) \/ Die(r)
  PROVE  \A q \in Requests \ {r} : told'[q] = told[q]
<1>1. ASSUME Rollback(r) PROVE \A q \in Requests \ {r} : told'[q] = told[q]
  BY <1>1 DEF Rollback, TypeOK
<1>2. CASE Answer(r)
  BY <1>2 DEF Answer, TypeOK
<1> QED
  BY <1>1, <1>2 DEF WriteFile, FindUser, CreateUser, ReadLatest, InsertVersion, Commit, Die

\* Until a transaction has inserted its row, its steps keep what it relies on
\* and the other transactions notice nothing.
LEMMA QuietPending ==
  ASSUME IInv, NEW r \in Requests, UNCHANGED <<users, datasets>>, files \subseteq files',
         \A q \in Requests \ {r} : pc'[q] = pc[q] /\ work'[q] = work[q],
         work'[r].newUser => pc'[r] \in Known,
         pc'[r] \in Known => work'[r].newUser \/ work'[r].user \in users,
         pc'[r] # "new" /\ work'[r].file => r \in files',
         pc'[r] \in Numbered =>
           /\ work'[r].version > 0
           /\ \/ work'[r].version = 1
              \/ work'[r].version - 1 \in VersionsOf(work'[r].user, work'[r].slug)
  PROVE  Pending'
<1>1. \A u, t : VersionsOf(u, t)' = VersionsOf(u, t)
  BY DEF VersionsOf
<1> QED
  BY <1>1 DEF IInv, Pending

\* The same for the unique key, while r has inserted nothing.
LEMMA QuietExclusive ==
  ASSUME IInv, NEW r \in Requests, UNCHANGED datasets,
         pc'[r] \in Held => pc[r] \in Held /\ work'[r] = work[r],
         \A q \in Requests \ {r} : pc'[q] = pc[q] /\ work'[q] = work[q]
  PROVE  Exclusive'
<1>1. \A u, t : VersionsOf(u, t)' = VersionsOf(u, t)
  BY DEF VersionsOf
<1> QED
  BY <1>1 DEF IInv, Exclusive, SameLine

\* Goto sets the statement of one request.
LEMMA GotoSets ==
  ASSUME TypeOK, NEW r \in Requests, NEW x, Goto(r, x)
  PROVE  pc'[r] = x
BY DEF TypeOK, Goto

\* A rollback, or a lost answer, keeps the invariant.
LEMMA EndIInv ==
  ASSUME IInv, NEW r \in Requests, (Rollback(r) /\ pc[r] \in Waiting) \/ Die(r)
  PROVE  Pending' /\ Exclusive' /\ UniqueRows' /\ Dense' /\ RowsAreAnchored' /\ RowsMatch' /\ Bookkeeping'
<1> USE DEF IInv
<1>0. End(r) /\ pc[r] \in Waiting \cup {"answer"}
  BY DEF Rollback, Die
<1>1. pc'[r] = "failed"
  BY <1>0, GotoSets DEF End
<1>2. ~work'[r].newUser /\ work'[r].version = work[r].version
  BY <1>0 DEF End, TypeOK, Work
<1>3. /\ \A q \in Requests \ {r} : pc'[q] = pc[q] /\ work'[q] = work[q] /\ told'[q] = told[q]
      /\ work'[r].user = work[r].user /\ work'[r].slug = work[r].slug
      /\ work'[r].file = work[r].file
  BY <1>0, OtherRequests, OtherClients
<1>4. UNCHANGED <<users, datasets, files>>
  BY <1>0 DEF End
<1>5. pc[r] # "new"
  BY <1>0 DEF Waiting, Held
<1>6. work'[r].file => r \in files'
  BY <1>3, <1>4, <1>5 DEF Pending
<1>7. Pending'
  BY <1>1, <1>2, <1>3, <1>4, <1>6, QuietPending DEF Known, Numbered, Held
<1>8. ToldOf(r)'
  <2>1. Stored(r)' = Stored(r) /\ AnswersEarly(r)' = AnswersEarly(r)
    BY <1>3, <1>4 DEF Stored, AnswersEarly
  <2>2. ToldOf(r)
    BY DEF Bookkeeping
  <2>3. CASE Rollback(r) /\ pc[r] \in Waiting
    <3>1. told'[r] = IF told[r] = "success" THEN "success" ELSE "error"
      BY <2>3 DEF Rollback, TypeOK
    <3>2. ~Stored(r)
      BY <2>2, <2>3 DEF ToldOf, Waiting, Held
    <3> QED
      BY <1>1, <2>1, <2>2, <3>1, <3>2 DEF ToldOf, Waiting, Held
  <2>4. CASE Die(r)
    <3>1. told'[r] = told[r] /\ pc[r] = "answer"
      BY <2>4 DEF Die
    <3> QED
      BY <1>1, <2>1, <2>2, <3>1 DEF ToldOf, Waiting, Held
  <2> QED
    BY <2>3, <2>4
<1>9. RowOf(r)' = RowOf(r)
  BY <1>2, <1>3 DEF RowOf
<1>10. Exclusive'
  BY <1>1, <1>3, <1>4, QuietExclusive DEF Held
<1> QED
  BY <1>3, <1>4, <1>7, <1>8, <1>9, <1>10, QuietStep

\* The statements before the insert.
LEMMA EarlyIInv ==
  ASSUME IInv, NEW r \in Requests, WriteFile(r) \/ FindUser(r) \/ CreateUser(r) \/ ReadLatest(r)
  PROVE  Pending' /\ Exclusive' /\ UniqueRows' /\ Dense' /\ RowsAreAnchored' /\ RowsMatch' /\ Bookkeeping'
<1> USE DEF IInv
<1>1. /\ \A q \in Requests \ {r} : pc'[q] = pc[q] /\ work'[q] = work[q] /\ told'[q] = told[q]
      /\ work'[r].user = work[r].user /\ work'[r].slug = work[r].slug
      /\ work'[r].file = work[r].file
  BY OtherRequests, OtherClients
<1>6. pc[r] \in {"new", "user", "createUser", "latest"}
  BY DEF WriteFile, FindUser, CreateUser, ReadLatest
<1>7. ToldOf(r) /\ ~Stored(r)
  BY <1>6 DEF Bookkeeping, ToldOf
<1>8. ASSUME UNCHANGED <<datasets, told>>, pc'[r] \in {"user", "createUser", "latest", "insert"}
      PROVE  ToldOf(r)'
  <2>1. told[r] = "nothing"
    BY <1>6, <1>7 DEF ToldOf, Waiting
  <2> QED
    BY <1>7, <1>8, <2>1 DEF ToldOf, Stored, Waiting
<1>2. CASE WriteFile(r)
  <2>1. pc[r] = "new" /\ pc'[r] = "user" /\ UNCHANGED <<users, datasets, work, told>>
    BY <1>2, GotoSets DEF WriteFile
  <2>2. files \subseteq files' /\ (work[r].file => r \in files')
    BY <1>2 DEF WriteFile
  <2>3. ~work'[r].newUser
    BY <2>1 DEF Pending, Known, Numbered, Held
  <2>4. Pending'
    BY <1>1, <2>1, <2>2, <2>3, QuietPending DEF Known, Numbered, Held
  <2> QED
    BY <1>1, <2>1, <2>2, <2>4, <1>7, <1>8, QuietExclusive, QuietStep DEF Held
<1>3. CASE FindUser(r)
  <2>1. pc[r] = "user" /\ UNCHANGED <<users, datasets, files, work, told>>
    BY <1>3 DEF FindUser
  <2>2. \/ pc'[r] = "latest" /\ work[r].user \in users
        \/ pc'[r] = "createUser"
    BY <1>3, GotoSets DEF FindUser
  <2>3. ~work'[r].newUser /\ (work[r].file => r \in files)
    BY <2>1 DEF Pending, Known, Numbered, Held
  <2>4. Pending'
    BY <1>1, <2>1, <2>2, <2>3, QuietPending DEF Known, Numbered, Held
  <2> QED
    BY <1>1, <2>1, <2>2, <2>4, <1>7, <1>8, QuietExclusive, QuietStep DEF Held
<1>4. CASE CreateUser(r)
  <2>1. CASE work[r].user \in users
    BY <1>4, <2>1, EndIInv DEF CreateUser, Waiting
  <2>2. CASE work[r].user \notin users
    <3>1. pc[r] = "createUser" /\ UNCHANGED <<users, datasets, files, told>>
      BY <1>4, <2>2 DEF CreateUser
    <3>2. pc'[r] = "latest"
      BY <1>4, <2>2, GotoSets DEF CreateUser
    <3>3. work'[r].newUser
      BY <1>4, <2>2 DEF CreateUser, TypeOK, Work
    <3>4. work[r].file => r \in files
      BY <3>1 DEF Pending
    <3>5. Pending'
      BY <1>1, <3>1, <3>2, <3>3, <3>4, QuietPending DEF Known, Numbered, Held
    <3> QED
      BY <1>1, <3>1, <3>2, <3>5, <1>7, <1>8, QuietExclusive, QuietStep DEF Held
  <2> QED
    BY <2>1, <2>2
<1>5. CASE ReadLatest(r)
  <2>1. PICK latest \in Versions(r) \cup {0} : work' = [work EXCEPT ![r].version = latest + 1]
    BY <1>5 DEF ReadLatest
  <2>2. Versions(r) = VersionsOf(work[r].user, work[r].slug)
    BY DEF Versions, VersionsOf
  <2>3. latest \in Nat
    BY <2>1 DEF Versions, TypeOK, Row
  <2>4. work'[r].version = latest + 1 /\ work'[r].newUser = work[r].newUser
    BY <2>1 DEF TypeOK, Work
  <2>5. /\ work'[r].version > 0
        /\ work'[r].version = 1 \/ work'[r].version - 1 \in VersionsOf(work'[r].user, work'[r].slug)
    BY <1>1, <2>1, <2>2, <2>3, <2>4
  <2>6. pc[r] = "latest" /\ pc'[r] = "insert" /\ UNCHANGED <<users, datasets, files, told>>
    BY <1>5, GotoSets DEF ReadLatest
  <2>7. (work'[r].newUser \/ work'[r].user \in users) /\ (work'[r].file => r \in files)
    BY <1>1, <2>4, <2>6 DEF Pending, Known
  <2>8. Pending'
    BY <1>1, <2>5, <2>6, <2>7, QuietPending DEF Known, Numbered, Held
  <2> QED
    BY <1>1, <2>6, <2>8, <1>7, <1>8, QuietExclusive, QuietStep DEF Held
<1> QED
  BY <1>2, <1>3, <1>4, <1>5

\* The insert checks the unique key against the table and the other inserts.
LEMMA InsertIInv ==
  ASSUME IInv, NEW r \in Requests, InsertVersion(r)
  PROVE  Pending' /\ Exclusive' /\ UniqueRows' /\ Dense' /\ RowsAreAnchored' /\ RowsMatch' /\ Bookkeeping'
<1> USE DEF IInv
<1>1. CASE work[r].version \in Versions(r)
  BY <1>1, EndIInv DEF InsertVersion, Waiting
<1>2. CASE work[r].version \notin Versions(r)
  <2>1. pc[r] = "insert" /\ pc'[r] \in Held /\ UNCHANGED <<users, datasets, files, work, told>>
    BY <1>2, GotoSets DEF InsertVersion, AfterInsert, Held
  <2>2. \A q \in Requests \ {r} : pc'[q] = pc[q] /\ work'[q] = work[q]
    BY OtherRequests
  <2>3. Pending'
    BY <2>1, <2>2, QuietPending DEF Pending, Known, Numbered, Held
  <2>4. Exclusive'
    <3>1. \A u, t : VersionsOf(u, t)' = VersionsOf(u, t)
      BY <2>1 DEF VersionsOf
    <3>2. Versions(r) = VersionsOf(work[r].user, work[r].slug)
      BY DEF Versions, VersionsOf
    <3>3. \A q \in Requests \ {r} :
            pc[q] \in Held /\ SameLine(q, r) => work[q].version # work[r].version
      BY <1>2 DEF InsertVersion, KeyIsHeld
    <3> QED
      BY <1>2, <2>1, <2>2, <3>1, <3>2, <3>3 DEF Exclusive, SameLine
  <2>5. ToldOf(r)'
    <3>1. pc'[r] = AfterInsert(r)
      BY <1>2, GotoSets DEF InsertVersion
    <3>2. ~Stored(r) /\ told[r] = "nothing"
      BY <2>1 DEF Bookkeeping, ToldOf, Waiting
    <3> QED
      BY <2>1, <3>1, <3>2 DEF ToldOf, Stored, AfterInsert, AnswersEarly, Waiting, Held
  <2>6. RowOf(r)' = RowOf(r)
    BY <2>1 DEF RowOf
  <2> QED
    BY <2>1, <2>2, <2>3, <2>4, <2>5, <2>6, QuietStep
<1> QED
  BY <1>1, <1>2

\* The answer changes nothing in the database.
LEMMA AnswerIInv ==
  ASSUME IInv, NEW r \in Requests, Answer(r)
  PROVE  Pending' /\ Exclusive' /\ UniqueRows' /\ Dense' /\ RowsAreAnchored' /\ RowsMatch' /\ Bookkeeping'
<1> USE DEF IInv
<1>1. /\ pc[r] \in {"send", "answer"} /\ told'[r] = "success"
      /\ pc'[r] = IF pc[r] = "send" THEN "commit" ELSE "done"
      /\ UNCHANGED <<users, datasets, files, work>>
  BY GotoSets DEF Answer, TypeOK
<1>2. \A q \in Requests \ {r} : pc'[q] = pc[q] /\ work'[q] = work[q] /\ told'[q] = told[q]
  BY OtherRequests, OtherClients
<1>3. Pending'
  BY <1>1, <1>2, QuietPending DEF Pending, Known, Numbered, Held
<1>4. Exclusive'
  BY <1>1, <1>2, QuietExclusive DEF Held
<1>5. ToldOf(r)'
  <2>1. ToldOf(r) /\ Stored(r)' = Stored(r) /\ AnswersEarly(r)' = AnswersEarly(r)
    BY <1>1 DEF Bookkeeping, Stored, AnswersEarly
  <2> QED
    BY <1>1, <2>1 DEF ToldOf, Waiting, Held
<1>6. RowOf(r)' = RowOf(r)
  BY <1>1 DEF RowOf
<1> QED
  BY <1>1, <1>2, <1>3, <1>4, <1>5, <1>6, QuietStep

\* A commit adds one row, and its version is the next one of its line.
LEMMA CommitExtends ==
  ASSUME IInv, NEW r \in Requests, Commit(r)
  PROVE  /\ datasets' = datasets \cup {RowOf(r)}
         /\ work[r].user \in Users /\ work[r].slug \in Slugs
         /\ \E n \in Nat : /\ VersionsOf(work[r].user, work[r].slug) = 1..n
                           /\ work[r].version = n + 1
<1> USE DEF IInv
<1>1. datasets' = datasets \cup {RowOf(r)}
  BY DEF Commit, RowOf
<1>2. work[r] \in Work /\ pc[r] = "commit"
  BY DEF TypeOK, Commit
<1>3. work[r].user \in Users /\ work[r].slug \in Slugs /\ work[r].version \in Nat
  BY <1>2 DEF Work
<1>4. PICK n \in Nat : VersionsOf(work[r].user, work[r].slug) = 1..n
  BY <1>3 DEF Dense
<1>5. /\ work[r].version > 0
      /\ work[r].version = 1 \/ work[r].version - 1 \in 1..n
      /\ work[r].version \notin 1..n
  BY <1>2, <1>4 DEF Pending, Exclusive, Numbered, Held
<1>6. work[r].version = n + 1
  BY <1>3, <1>5
<1> QED
  BY <1>1, <1>3, <1>4, <1>6

\* The versions of every line after a commit.
LEMMA CommitVersions ==
  ASSUME IInv, NEW r \in Requests, Commit(r), NEW u, NEW s
  PROVE  VersionsOf(u, s)' = IF u = work[r].user /\ s = work[r].slug
                             THEN VersionsOf(u, s) \cup {work[r].version}
                             ELSE VersionsOf(u, s)
<1>1. datasets' = datasets \cup {RowOf(r)}
  BY CommitExtends
<1>2. \A v : v \in VersionsOf(u, s)' <=>
            v \in VersionsOf(u, s) \/ (RowOf(r).user = u /\ RowOf(r).slug = s /\ RowOf(r).version = v)
  BY <1>1 DEF VersionsOf
<1>3. \A v : v \in VersionsOf(u, s)' <=>
            v \in VersionsOf(u, s) \/ (work[r].user = u /\ work[r].slug = s /\ work[r].version = v)
  BY <1>2 DEF RowOf
<1> QED
  BY <1>3

\* A commit keeps the invariant: it stores the next version of its line.
LEMMA CommitIInv ==
  ASSUME IInv, NEW r \in Requests, Commit(r)
  PROVE  Pending' /\ Exclusive' /\ UniqueRows' /\ Dense' /\ RowsAreAnchored' /\ RowsMatch' /\ Bookkeeping'
<1> USE DEF IInv
<1>1. datasets' = datasets \cup {RowOf(r)}
  BY CommitExtends
<1>2. pc[r] = "commit" /\ pc'[r] \in {"answer", "done"} /\ files' = files /\ users \subseteq users'
  BY GotoSets DEF Commit
<1>3. /\ \A q \in Requests \ {r} : pc'[q] = pc[q] /\ work'[q] = work[q]
      /\ work'[r].user = work[r].user /\ work'[r].slug = work[r].slug
      /\ work'[r].file = work[r].file
  BY OtherRequests
<1>4. ~work'[r].newUser /\ work'[r].version = work[r].version
  BY DEF Commit, TypeOK, Work
<1>5. work[r].user \in users'
  BY <1>2 DEF Commit, Pending, Known, Numbered, Held
<1>6. \A u, s : VersionsOf(u, s) \subseteq VersionsOf(u, s)'
  BY CommitVersions
<1>7. Pending'
  <2> SUFFICES ASSUME NEW q \in Requests \ {r}
               PROVE  /\ pc'[q] \in Known =>
                           work'[q].newUser \/ work'[q].user \in users'
                      /\ work'[q].newUser => pc'[q] \in Known
                      /\ pc'[q] # "new" /\ work'[q].file => q \in files'
                      /\ pc'[q] \in Numbered =>
                           /\ work'[q].version > 0
                           /\ \/ work'[q].version = 1
                              \/ work'[q].version - 1 \in VersionsOf(work[q].user, work[q].slug)'
    BY <1>2, <1>3, <1>4 DEF Pending, Known, Numbered, Held
  <2>1. work'[q] = work[q] /\ pc'[q] = pc[q]
    BY <1>3
  <2> QED
    BY <1>2, <1>6, <2>1 DEF Pending
<1>8. Exclusive'
  <2> SUFFICES ASSUME NEW q \in Requests, pc'[q] \in Held
               PROVE  /\ work'[q].version \notin VersionsOf(work[q].user, work[q].slug)'
                      /\ \A p \in Requests \ {q} :
                           pc'[p] \in Held /\ SameLine(p, q)' => work'[p].version # work'[q].version
    BY DEF Exclusive
  <2>1. q # r /\ pc[q] \in Held /\ work'[q] = work[q]
    BY <1>2, <1>3 DEF Held
  <2>2. work[q].version \notin VersionsOf(work[q].user, work[q].slug)
    BY <2>1 DEF Exclusive
  <2>3. SameLine(r, q) => work[r].version # work[q].version
    BY <1>2, <2>1 DEF Exclusive, Held
  <2>4. work'[q].version \notin VersionsOf(work[q].user, work[q].slug)'
    BY <2>1, <2>2, <2>3, CommitVersions DEF SameLine
  <2>5. \A p \in Requests \ {q} :
          pc'[p] \in Held /\ SameLine(p, q)' => work'[p].version # work'[q].version
    BY <1>2, <1>3, <2>1 DEF Exclusive, SameLine, Held
  <2> QED
    BY <2>4, <2>5
<1>9. UniqueRows'
  <2>1. \A d \in datasets : d.user = work[r].user /\ d.slug = work[r].slug => d.version # work[r].version
    BY <1>2 DEF Exclusive, VersionsOf, Held
  <2> QED
    BY <1>1, <2>1 DEF UniqueRows, RowOf
<1>10. Dense'
  <2> SUFFICES ASSUME NEW u \in Users, NEW s \in Slugs
               PROVE  \E n \in Nat : VersionsOf(u, s)' = 1..n
    BY DEF Dense
  <2>1. PICK n \in Nat : VersionsOf(u, s) = 1..n
    BY DEF Dense
  <2>2. CASE u = work[r].user /\ s = work[r].slug
    <3>1. PICK m \in Nat : VersionsOf(u, s) = 1..m /\ work[r].version = m + 1
      BY <2>2, CommitExtends
    <3>2. VersionsOf(u, s)' = (1..m) \cup {m + 1}
      BY <2>2, <3>1, CommitVersions
    <3>3. (1..m) \cup {m + 1} = 1..(m + 1)
      OBVIOUS
    <3> QED
      BY <3>2, <3>3
  <2>3. CASE ~(u = work[r].user /\ s = work[r].slug)
    BY <2>1, <2>3, CommitVersions
  <2> QED
    BY <2>2, <2>3
<1>11. RowsAreAnchored'
  BY <1>1, <1>2, <1>5 DEF RowsAreAnchored, RowOf, Pending
<1>12. RowOf(r)' = RowOf(r) /\ ~Stored(r)
  BY <1>2, <1>3, <1>4 DEF RowOf, Bookkeeping, ToldOf
<1>13. RowsMatch'
  <2>1. \A d \in datasets : d = RowOf(d.request) /\ d.request \in Requests \ {r}
    BY <1>12 DEF RowsMatch, TypeOK, Row, Stored
  <2>2. \A d \in datasets : d = RowOf(d.request)'
    BY <1>3, <2>1 DEF RowOf
  <2>3. RowOf(r).request = r
    BY DEF RowOf
  <2> QED
    BY <1>1, <1>12, <2>2, <2>3 DEF RowsMatch
<1>14. Bookkeeping'
  <2>1. RowOf(r) \in datasets' /\ RowOf(r).request = r
    BY <1>1 DEF RowOf
  <2>2. Stored(r)'
    BY <2>1 DEF Stored
  <2>3. \A q \in Requests \ {r} : Stored(q)' = Stored(q)
    BY <1>1, <2>1 DEF Stored
  <2>4. told' = told /\ pc'[r] = IF told[r] = "success" THEN "done" ELSE "answer"
    BY GotoSets DEF Commit
  <2>5. ToldOf(r)'
    <3>1. told[r] \in Answers /\ told[r] # "error"
      BY <1>2 DEF TypeOK, Bookkeeping, ToldOf
    <3> QED
      BY <2>2, <2>4, <3>1 DEF ToldOf, Answers, Waiting, Held
  <2>6. \A q \in Requests \ {r} : ToldOf(q)'
    BY <1>3, <2>3, <2>4 DEF Bookkeeping, ToldOf, AnswersEarly
  <2> QED
    BY <2>5, <2>6 DEF Bookkeeping
<1> QED
  BY <1>7, <1>8, <1>9, <1>10, <1>11, <1>13, <1>14

\* The invariant is inductive.
LEMMA NextIInv ==
  ASSUME IInv, [Next]_vars
  PROVE  IInv'
<1>1. TypeOK'
  BY NextTypeOK
<1>2. ASSUME NEW r \in Requests, WriteFile(r) \/ Statement(r) \/ Abort(r) \/ Die(r)
      PROVE  Pending' /\ Exclusive' /\ UniqueRows' /\ Dense' /\ RowsAreAnchored' /\ RowsMatch' /\ Bookkeeping'
  BY <1>2, EarlyIInv, InsertIInv, CommitIInv, AnswerIInv, EndIInv DEF Statement, Abort
<1>3. ASSUME UNCHANGED vars
      PROVE  Pending' /\ Exclusive' /\ UniqueRows' /\ Dense' /\ RowsAreAnchored' /\ RowsMatch' /\ Bookkeeping'
  BY <1>3 DEF vars, IInv, Pending, Exclusive, UniqueRows, Dense, RowsAreAnchored,
              RowsMatch, RowOf, Bookkeeping, ToldOf, Stored, AnswersEarly, VersionsOf, SameLine
<1> QED
  BY <1>1, <1>2, <1>3 DEF IInv, Next

\* The inductive invariant holds in every reachable state.
THEOREM Invariance == Spec => []IInv
BY InitIInv, NextIInv, PTL DEF Spec

-----------------------------------------------------------------------------
(* The properties *)

\* The variables keep their types.
THEOREM TypeCorrect == Spec => []TypeOK
<1>1. IInv => TypeOK
  BY DEF IInv
<1> QED
  BY <1>1, Invariance, PTL

\* The versions of a dataset name are 1, 2, 3... for any number of concurrent
\* registrations (create_version and its unique constraint).
THEOREM Numbering == Spec => []VersionsAreNumbered
<1>1. IInv => VersionsAreNumbered
  <2> SUFFICES ASSUME IInv, NEW d \in datasets
               PROVE  /\ \A e \in datasets : e.user = d.user /\ e.slug = d.slug
                                             /\ e.version = d.version => e = d
                      /\ d.version > 1 => \E e \in datasets :
                            e.user = d.user /\ e.slug = d.slug /\ e.version = d.version - 1
    BY DEF VersionsAreNumbered
  <2>1. d.user \in Users /\ d.slug \in Slugs /\ d.version \in Nat
    BY DEF IInv, TypeOK, Row
  <2>2. PICK n \in Nat : VersionsOf(d.user, d.slug) = 1..n
    BY <2>1 DEF IInv, Dense
  <2>3. d.version \in 1..n
    BY <2>2 DEF VersionsOf
  <2>4. d.version > 1 => d.version - 1 \in VersionsOf(d.user, d.slug)
    BY <2>1, <2>2, <2>3
  <2> QED
    BY <2>4 DEF IInv, UniqueRows, VersionsOf
<1> QED
  BY <1>1, Invariance, PTL

\* A stored dataset has a stored owner and, if uploaded, a file.
THEOREM Anchoring == Spec => []RowsAreAnchored
<1>1. IInv => RowsAreAnchored
  BY DEF IInv
<1> QED
  BY <1>1, Invariance, PTL

\* An error left no row and an answered version is stored; only an answer sent
\* before get_db() commits may name a row that is not there (yet).
THEOREM Answering == Spec => []AnsweredMeansStored
<1>1. IInv => AnsweredMeansStored
  <2> SUFFICES ASSUME IInv PROVE AnsweredMeansStored
    OBVIOUS
  <2>1. ASSUME NEW d \in datasets
        PROVE  d = RowOf(d.request) /\ told[d.request] # "error" /\ (d.file => d.request \in files)
    <3>1. d.request \in Requests
      BY DEF IInv, TypeOK, Row
    <3> QED
      BY <3>1 DEF IInv, RowsMatch, RowsAreAnchored, Bookkeeping, ToldOf, Stored
  <2> QED
    BY <2>1 DEF AnsweredMeansStored, IInv, Bookkeeping, ToldOf
<1> QED
  BY <1>1, Invariance, PTL

-----------------------------------------------------------------------------
(* The refinement *)

\* Appending to a sequence given as a function on 1..n.
LEMMA AppendFunction ==
  \A S, f, x, g : \A n \in Nat :
    /\ f \in [1..n -> S] /\ x \in S
    /\ g = [v \in 1..(n + 1) |-> g[v]]
    /\ \A v \in 1..n : g[v] = f[v]
    /\ g[n + 1] = x
    => g = Append(f, x)
<1> SUFFICES ASSUME NEW S, NEW f, NEW x, NEW g, NEW n \in Nat,
                    f \in [1..n -> S], x \in S,
                    g = [v \in 1..(n + 1) |-> g[v]],
                    \A v \in 1..n : g[v] = f[v],
                    g[n + 1] = x
             PROVE  g = Append(f, x)
  OBVIOUS
<1>1. f \in Seq(S)
  BY SeqDef
<1>2. Len(f) = n
  BY <1>1, LenProperties
<1>3. Append(f, x) \in Seq(S) /\ Len(Append(f, x)) = n + 1
  BY <1>1, <1>2, AppendProperties
<1>4. Append(f, x) \in [1..(n + 1) -> S]
  BY <1>3, LenProperties
<1>5. ASSUME NEW i \in 1..(n + 1) PROVE g[i] = Append(f, x)[i]
  <2>1. CASE i = n + 1
    BY <1>1, <1>2, <2>1, AppendProperties
  <2>2. CASE i # n + 1
    <3>1. i \in 1..Len(f) /\ i \in 1..n
      BY <1>2, <2>2
    <3>2. Append(f, x)[i] = f[i]
      BY <1>1, <3>1, AppendProperties
    <3> QED
      BY <3>1, <3>2
  <2> QED
    BY <2>1, <2>2
<1> QED
  BY <1>4, <1>5

\* The sequence with no element, given as a function.
LEMMA EmptyFunction == [v \in {} |-> v] = <<>>
<1>1. <<>> \in Seq({}) /\ Len(<<>>) = 0
  BY EmptySeq
<1>2. <<>> \in [1..0 -> {}]
  BY <1>1, LenProperties
<1> QED
  BY <1>2

\* In a set of rows with distinct versions a version names its row.
LEMMA ChooseRow ==
  ASSUME NEW D, NEW d \in D, \A a, b \in D : a.version = b.version => a = b
  PROVE  (CHOOSE e \in D : e.version = d.version) = d
OBVIOUS

\* One line of the log in terms of the table.
LineFacts(u, s) ==
  /\ {d.version : d \in Line(<<u, s>>)} = VersionsOf(u, s)
  /\ \A d \in Line(<<u, s>>) : Log[<<u, s>>][d.version] = d.request
  /\ Log[<<u, s>>] = [v \in VersionsOf(u, s) |-> Log[<<u, s>>][v]]
  /\ \A v \in VersionsOf(u, s) : Log[<<u, s>>][v] \in Requests
LogFacts == \A u \in Users, s \in Slugs : LineFacts(u, s)

\* The abstract log is the table's lines, read by version.
LEMMA LogLine == IInv => LogFacts
<1> SUFFICES ASSUME IInv, NEW u \in Users, NEW s \in Slugs PROVE LineFacts(u, s)
  BY DEF LogFacts
<1> DEFINE l == <<u, s>>
<1>1. l \in Lines /\ l[1] = u /\ l[2] = s
  BY DEF Lines
<1>2. {d.version : d \in Line(l)} = VersionsOf(u, s)
  BY <1>1 DEF Line, VersionsOf
<1>3. Log[l] = [v \in VersionsOf(u, s) |-> (CHOOSE d \in Line(l) : d.version = v).request]
  BY <1>1, <1>2 DEF Log
<1>4. \A a, b \in Line(l) : a.version = b.version => a = b
  BY <1>1 DEF IInv, UniqueRows, Line
<1>5. ASSUME NEW d \in Line(l) PROVE Log[l][d.version] = d.request
  <2>1. d.version \in VersionsOf(u, s)
    BY <1>2
  <2>2. (CHOOSE e \in Line(l) : e.version = d.version) = d
    BY <1>4, ChooseRow
  <2> QED
    BY <1>3, <2>1, <2>2
<1>6. ASSUME NEW v \in VersionsOf(u, s) PROVE Log[l][v] \in Requests
  <2>1. PICK d \in Line(l) : d.version = v
    BY <1>2
  <2> QED
    BY <1>5, <2>1 DEF IInv, TypeOK, Row, Line
<1> QED
  BY <1>2, <1>3, <1>5, <1>6 DEF LineFacts

\* A commit appends the request to the log of its line.
LEMMA CommitRegisters ==
  ASSUME IInv, LogFacts, LogFacts', NEW r \in Requests, Commit(r),
         NEW u \in Users, NEW s \in Slugs, u = work[r].user, s = work[r].slug
  PROVE  Versioned!Register(<<u, s>>, r)
<1> DEFINE l == <<u, s>>
<1>1. PICK n \in Nat : VersionsOf(u, s) = 1..n /\ work[r].version = n + 1
  BY CommitExtends
<1>2. datasets' = datasets \cup {RowOf(r)}
  BY CommitExtends
<1>3. VersionsOf(u, s)' = 1..(n + 1)
  <2>1. VersionsOf(u, s)' = VersionsOf(u, s) \cup {work[r].version}
    BY CommitVersions
  <2>2. (1..n) \cup {n + 1} = 1..(n + 1)
    OBVIOUS
  <2> QED
    BY <1>1, <2>1, <2>2
<1>4. Line(l) \subseteq Line(l)' /\ RowOf(r) \in Line(l)'
  BY <1>2 DEF Line, RowOf
<1>5. LineFacts(u, s) /\ LineFacts(u, s)'
  BY DEF LogFacts
<1>6. Log'[l] = [v \in 1..(n + 1) |-> Log'[l][v]]
  BY <1>3, <1>5 DEF LineFacts
<1>7. Log[l] \in [1..n -> Requests]
  BY <1>1, <1>5 DEF LineFacts
<1>8. /\ \A d \in Line(l) : Log[l][d.version] = d.request
      /\ \A d \in Line(l)' : Log'[l][d.version] = d.request
  BY <1>5 DEF LineFacts
<1>9. ASSUME NEW v \in 1..n PROVE Log'[l][v] = Log[l][v]
  <2>1. v \in {d.version : d \in Line(l)}
    BY <1>1, <1>5 DEF LineFacts
  <2>2. PICK d \in Line(l) : d.version = v
    BY <2>1
  <2>3. Log[l][v] = d.request /\ Log'[l][v] = d.request
    BY <1>4, <1>8, <2>2
  <2> QED
    BY <2>3
<1>10. Log'[l][n + 1] = r
  <2>1. RowOf(r).version = n + 1 /\ RowOf(r).request = r
    BY <1>1 DEF RowOf
  <2> QED
    BY <1>4, <1>8, <2>1
<1>11. Log'[l] = Append(Log[l], r)
  <2> DEFINE f == Log[l]
             g == Log'[l]
  <2>1. f \in [1..n -> Requests] /\ g = [v \in 1..(n + 1) |-> g[v]]
    BY <1>6, <1>7
  <2>2. (\A v \in 1..n : g[v] = f[v]) /\ g[n + 1] = r
    BY <1>9, <1>10
  <2> HIDE DEF f, g
  <2>3. g = Append(f, r)
    BY <2>1, <2>2, AppendFunction
  <2> QED
    BY <2>3 DEF f, g
<1>12. ASSUME NEW m \in Lines, m # l PROVE Log'[m] = Log[m]
  <2>1. RowOf(r) \notin Line(m)'
    BY <1>12 DEF Line, RowOf, Lines
  <2>2. Line(m)' = Line(m)
    BY <1>2, <2>1 DEF Line
  <2> QED
    BY <2>2 DEF Log
<1>13. Log' = [Log EXCEPT ![l] = Append(@, r)]
  <2>1. /\ l \in Lines
        /\ Log  = [m \in Lines |-> Log[m]]
        /\ Log' = [m \in Lines |-> Log'[m]]
    BY DEF Log, Lines
  <2> QED
    BY <1>11, <1>12, <2>1
<1> QED
  BY <1>13 DEF Versioned!Register

\* Every step of the registry is a registration in the log or changes nothing.
LEMMA StepRefines ==
  ASSUME IInv, LogFacts, LogFacts', [Next]_vars
  PROVE  [Versioned!Next]_Log
<1>1. ASSUME datasets' = datasets PROVE Log' = Log
  BY <1>1 DEF Log, Line
<1>2. ASSUME NEW r \in Requests, Commit(r) PROVE Versioned!Next
  <2>1. work[r].user \in Users /\ work[r].slug \in Slugs
    BY <1>2, CommitExtends
  <2>2. Versioned!Register(<<work[r].user, work[r].slug>>, r)
    BY <1>2, <2>1, CommitRegisters
  <2> QED
    BY <2>1, <2>2 DEF Versioned!Next, Lines
<1>3. ASSUME NEW r \in Requests, WriteFile(r) \/ Statement(r) \/ Abort(r) \/ Die(r), ~Commit(r)
      PROVE  datasets' = datasets
  BY <1>3 DEF WriteFile, Statement, Abort, FindUser, CreateUser, ReadLatest, InsertVersion, Answer,
              Die, Rollback, End
<1> QED
  BY <1>1, <1>2, <1>3 DEF Next, vars

\* The registry implements an append-only log of versions per dataset name.
THEOREM Refinement == Spec => ImplementsVersionLog
<1>1. Init => Versioned!Init
  <2> SUFFICES ASSUME Init PROVE Log = [l \in Lines |-> <<>>]
    BY DEF Versioned!Init
  <2>1. ASSUME NEW l \in Lines
        PROVE  [v \in {d.version : d \in Line(l)} |-> (CHOOSE d \in Line(l) : d.version = v).request] = <<>>
    <3>1. {d.version : d \in Line(l)} = {}
      BY DEF Init, Line
    <3> QED
      BY <3>1, EmptyFunction
  <2> QED
    BY <2>1 DEF Log
<1>2. IInv /\ IInv' /\ [Next]_vars => [Versioned!Next]_Log
  <2>1. IInv => LogFacts
    BY LogLine
  <2>2. (IInv => LogFacts)'
    BY LogLine, PTL
  <2> QED
    BY <2>1, <2>2, StepRefines
<1> QED
  BY <1>1, <1>2, Invariance, PTL DEF Spec, ImplementsVersionLog, Versioned!Spec
=============================================================================
