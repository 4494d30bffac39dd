--------------------------- MODULE DatasetRegistry ---------------------------
(***************************************************************************)
(* Registration of datasets: POST /upload and register_dataset().  A       *)
(* request runs in a thread of its own, writes the uploaded file, and then *)
(* in one database transaction finds or creates the user, reads the latest *)
(* version of (user, slug) and inserts the next one.                       *)
(*                                                                         *)
(* The database is modelled from how it is used, at the isolation that all *)
(* supported engines give: statements see committed rows and the rows of   *)
(* their own transaction, an INSERT waits while another open transaction   *)
(* holds the same unique key and fails if that key is committed.           *)
(*                                                                         *)
(* slugify() maps many names to one slug; a request is given its slug.     *)
(*                                                                         *)
(* register_dataset() commits before it returns.  POST /upload commits in  *)
(* the exit code of its dependency get_db(), after the handler has built   *)
(* the answer; whether FastAPI runs that code before it sends the answer   *)
(* or afterwards depends on its release, and pyproject.toml asks for 0.111 *)
(* or any later one.                                                       *)
(***************************************************************************)
EXTENDS Naturals, FiniteSets

CONSTANTS Requests,    \* HTTP requests and calls, each made once
          Early,       \* those whose answer FastAPI sends before the exit code runs
          Users,       \* normalised e-mail addresses
          Slugs        \* values of slugify(name)

ASSUME EarlyAssumption == Early \subseteq Requests

VARIABLES
  users,       \* committed rows of the table users (their e-mail)
  datasets,    \* committed rows of the table datasets
  files,       \* requests whose uploaded file is on disk
  pc,          \* the statement a request is about to execute
  work,        \* its arguments, and what its open transaction has written
  told         \* what its client has been told

vars == <<users, datasets, files, pc, work, told>>

Row  == [user : Users, slug : Slugs, version : Nat \ {0}, request : Requests, file : BOOLEAN]
Work == [user    : Users,
         slug    : Slugs,
         file    : BOOLEAN,        \* an upload, with a storage_path
         newUser : BOOLEAN,        \* the transaction has inserted the user
         version : Nat]            \* version of the new row, 0 before it is read

Held    == {"send", "commit"}                  \* the new row is inserted, not committed
Waiting == {"user", "createUser", "latest", "insert"} \cup Held      \* in a transaction
Answers == {"nothing", "success", "error"}

NewWork(u, s, f) == [user |-> u, slug |-> s, file |-> f, newUser |-> FALSE, version |-> 0]

Init ==
  /\ users    = {}
  /\ datasets = {}
  /\ files    = {}
  /\ pc       = [r \in Requests |-> "new"]
  /\ work \in [Requests -> {NewWork(u, s, f) : u \in Users, s \in Slugs, f \in BOOLEAN}]
  /\ told     = [r \in Requests |-> "nothing"]

Goto(r, where) == pc' = [pc EXCEPT ![r] = where]

SameLine(q, r) == work[q].user = work[r].user /\ work[q].slug = work[r].slug
Versions(r)    == {d.version : d \in {e \in datasets : e.user = work[r].user
                                                    /\ e.slug = work[r].slug}}

\* The answer of an upload leaves before its transaction is committed.
AnswersEarly(r) == r \in Early /\ work[r].file

\* The transaction is over, and its rows are gone.
End(r) ==
  /\ Goto(r, "failed")
  /\ work' = [work EXCEPT ![r].newUser = FALSE]
  /\ UNCHANGED <<users, datasets, files>>

\* session.rollback() and close(); the client gets the error unless it has its
\* answer already.
Rollback(r) ==
  /\ End(r)
  /\ told' = [told EXCEPT ![r] = IF @ = "success" THEN @ ELSE "error"]

-----------------------------------------------------------------------------
\* An accepted upload is stored under a name of its own (uuid4) before the
\* database is touched; register_dataset() starts with the transaction.
WriteFile(r) ==
  /\ pc[r] = "new"
  /\ files' = IF work[r].file THEN files \cup {r} ELSE files
  /\ Goto(r, "user")
  /\ UNCHANGED <<users, datasets, work, told>>

FindUser(r) ==
  /\ pc[r] = "user"
  /\ IF work[r].user \in users THEN Goto(r, "latest") ELSE Goto(r, "createUser")
  /\ UNCHANGED <<users, datasets, files, work, told>>

CreateUser(r) ==
  /\ pc[r] = "createUser"
  /\ \A q \in Requests \ {r} : ~(work[q].newUser /\ work[q].user = work[r].user)
  /\ IF work[r].user \in users
     THEN Rollback(r)
     ELSE /\ work' = [work EXCEPT ![r].newUser = TRUE]
          /\ Goto(r, "latest")
          /\ UNCHANGED <<users, datasets, files, told>>

\* Faulty variant: versions are numbered across users.
ReadLatest_AllUsers(r) ==
  /\ pc[r] = "latest"
  /\ \E latest \in {d.version : d \in datasets} \cup {0} :
       /\ \A d \in datasets : d.version <= latest
       /\ work' = [work EXCEPT ![r].version = latest + 1]
  /\ Goto(r, "insert")
  /\ UNCHANGED <<users, datasets, files, told>>

ReadLatest(r) ==
  /\ pc[r] = "latest"
  /\ \E latest \in Versions(r) \cup {0} :
       /\ \A v \in Versions(r) : v <= latest
       /\ work' = [work EXCEPT ![r].version = latest + 1]
  /\ Goto(r, "insert")
  /\ UNCHANGED <<users, datasets, files, told>>

\* After the insert of an upload its answer is built, or sent.
AfterInsert(r) == IF AnswersEarly(r) THEN "send" ELSE "commit"

\* Another open transaction has inserted the same key.
KeyIsHeld(r) ==
  \E q \in Requests \ {r} : pc[q] \in Held /\ SameLine(q, r) /\ work[q].version = work[r].version

\* Faulty variants: no unique constraint; its violation is swallowed.
InsertVersion_Unchecked(r) ==
  /\ pc[r] = "insert"
  /\ Goto(r, AfterInsert(r))
  /\ UNCHANGED <<users, datasets, files, work, told>>
InsertVersion_Swallows(r) ==
  /\ pc[r] = "insert" /\ ~KeyIsHeld(r)
  /\ Goto(r, IF work[r].version \in Versions(r) THEN "answer" ELSE AfterInsert(r))
  /\ UNCHANGED <<users, datasets, files, work, told>>

\* uq_datasets_user_slug_version
InsertVersion(r) ==
  /\ pc[r] = "insert" /\ ~KeyIsHeld(r)
  /\ IF work[r].version \in Versions(r)
     THEN Rollback(r)
     ELSE /\ Goto(r, AfterInsert(r))
          /\ UNCHANGED <<users, datasets, files, work, told>>

RowOf(r) == [user |-> work[r].user, slug |-> work[r].slug, version |-> work[r].version,
             request |-> r, file |-> work[r].file]

Commit(r) ==
  /\ pc[r] = "commit"
  /\ users' = IF work[r].newUser THEN users \cup {work[r].user} ELSE users
  /\ datasets' = datasets \cup {RowOf(r)}
  /\ work' = [work EXCEPT ![r].newUser = FALSE]
  /\ Goto(r, IF told[r] = "success" THEN "done" ELSE "answer")
  /\ UNCHANGED <<files, told>>

\* The version leaves for the client, after the commit or before it.
Answer(r) ==
  /\ pc[r] \in {"send", "answer"}
  /\ told' = [told EXCEPT ![r] = "success"]
  /\ Goto(r, IF pc[r] = "send" THEN "commit" ELSE "done")
  /\ UNCHANGED <<users, datasets, files, work>>

\* Faulty variant: the session is neither rolled back nor closed.
Abort_Leaks(r) ==
  /\ pc[r] \in Waiting
  /\ Goto(r, "failed")
  /\ UNCHANGED <<users, datasets, files, work, told>>

\* A statement or the commit fails, or waits too long for a lock: the
\* transaction is rolled back.  The file stays where it is.  (When the process
\* dies the database rolls back too; no answer promises no more than an error.)
Abort(r) ==
  /\ pc[r] \in Waiting
  /\ Rollback(r)

\* The process dies, or the connection breaks, after the commit: no answer.
Die(r) ==
  /\ pc[r] = "answer"
  /\ End(r)
  /\ UNCHANGED told

-----------------------------------------------------------------------------
Statement(r) ==
  FindUser(r) \/ CreateUser(r) \/ ReadLatest(r) \/ InsertVersion(r) \/ Commit(r) \/ Answer(r)

Next == \E r \in Requests : WriteFile(r) \/ Statement(r) \/ Abort(r) \/ Die(r)

\* A request that has begun goes on; nothing is said about failures.
Fairness == \A r \in Requests : WF_vars(Statement(r))

Spec == Init /\ [][Next]_vars /\ Fairness

-----------------------------------------------------------------------------
(* Properties *)

\* Types of the variables.
TypeOK ==
  /\ users \subseteq Users
  /\ datasets \subseteq Row
  /\ files \subseteq Requests
  /\ pc \in [Requests -> {"new", "answer", "done", "failed"} \cup Waiting]
  /\ work \in [Requests -> Work]
  /\ told \in [Requests -> Answers]

\* The versions of a line are 1, 2, 3... without gap or duplicate, although
\* every request reads the latest version before another may have committed
\* the next one.
VersionsAreNumbered ==
  \A d \in datasets :
    /\ \A e \in datasets : e.user = d.user /\ e.slug = d.slug /\ e.version = d.version => e = d
    /\ d.version > 1 => \E e \in datasets : e.user = d.user /\ e.slug = d.slug
                                            /\ e.version = d.version - 1

\* A stored row belongs to a stored user and an upload's row points to a file
\* on disk, whatever transactions were rolled back around it.
RowsAreAnchored ==
  \A d \in datasets : d.user \in users /\ (d.file => d.request \in files)

Stored(r) == \E d \in datasets : d.request = r

\* What clients are told and what is stored, whatever fails and whenever: a
\* request answered with an error left no row, one that was answered with a
\* version has exactly that row, and its file if it is an upload.  Only an
\* answer that left before the commit may be wrong, until the commit or for
\* ever if that fails.
AnsweredMeansStored ==
  /\ \A d \in datasets : /\ d = RowOf(d.request)
                         /\ told[d.request] # "error"
                         /\ d.file => d.request \in files
  /\ \A r \in Requests : told[r] = "success" =>
       Stored(r) \/ (AnswersEarly(r) /\ pc[r] \in {"commit", "failed"})

\* The table implements an append-only log per line: a version is committed
\* after all earlier ones and never changes.
Lines    == Users \X Slugs
Line(l)  == {d \in datasets : d.user = l[1] /\ d.slug = l[2]}
Log      == [l \in Lines |->
               [v \in {d.version : d \in Line(l)} |->
                  (CHOOSE d \in Line(l) : d.version = v).request]]
Versioned == INSTANCE VersionLog WITH log <- Log
ImplementsVersionLog == Versioned!Spec

\* No request waits for ever: the waits for unique keys form no cycle and
\* every transaction that holds a key is ended.
EveryRequestEnds ==
  \A r \in Requests : pc[r] = "user" ~> pc[r] \in {"done", "failed"}
=============================================================================
