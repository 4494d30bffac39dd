------------------------------ MODULE TrainingApi ------------------------------
(***************************************************************************)
(* POST /train: TrainingAPIService.train() runs in a thread per request,   *)
(* saves the best pipeline as a bundle file and then stores the experiment *)
(* in one database transaction.  File system and database share nothing    *)
(* but the path, so the order of the steps is all that ties them together. *)
(*                                                                         *)
(* save_bundle() names the file after the model and the second in which    *)
(* its card was created, looks whether the file exists, and opens it.      *)
(***************************************************************************)
EXTENDS Naturals, FiniteSets

CONSTANTS TrainRequests,    \* POST /train requests
          Models,      \* names of registered models, one of which wins
          MaxClock     \* bound of the clock, in seconds

ASSUME ClockAssumption == MaxClock \in Nat

\* Requests are finitely many and none is mistaken for a state of a file.
ASSUME RequestAssumption ==
  /\ IsFiniteSet(TrainRequests)
  /\ TrainRequests \cap {"absent", "partial", "mixed"} = {}

VARIABLES
  clock,       \* the wall clock, in seconds
  pc,          \* the statement a request is about to execute
  run,         \* the request's options and the card of its model
  files,       \* contents of each bundle path
  writers,     \* requests that have a bundle path open for writing
  raced,       \* history: paths two requests found absent before either opened them
  rows,        \* committed champion rows
  counter      \* the Prometheus counter iad_training_jobs_total by outcome

trainingVars == <<clock, pc, run, files, writers, raced, rows, counter>>

Paths    == Models \X (0..MaxClock)
Contents == {"absent", "partial", "mixed"} \cup TrainRequests     \* r: the whole bundle of r
NoPath   == <<>>

Run == [save : BOOLEAN, persist : BOOLEAN, path : Paths \cup {NoPath}]
Row == [request : TrainRequests, path : Paths \cup {NoPath}]

InFlight == {"train", "check", "open", "dump", "persist", "respond"}

TrainingInit ==
  /\ clock   = 0
  /\ pc      = [r \in TrainRequests |-> "new"]
  /\ run \in [TrainRequests -> [save : BOOLEAN, persist : BOOLEAN, path : {NoPath}]]
  /\ files   = [p \in Paths |-> "absent"]
  /\ writers = [p \in Paths |-> {}]
  /\ raced   = {}
  /\ rows    = {}
  /\ counter = [started |-> 0, completed |-> 0, failed |-> 0]

MoveTo(r, where) == pc' = [pc EXCEPT ![r] = where]
Count(ending) == counter' = [counter EXCEPT ![ending] = @ + 1]

\* An exception on its way to the client.
RaiseError(r) ==
  /\ MoveTo(r, "failed")
  /\ Count("failed")

\* After the artifact, if any: the database, if asked for.
AfterArtifact(r) == IF run[r].persist THEN "persist" ELSE "respond"

Path(r) == run[r].path

-----------------------------------------------------------------------------
ClockTicks ==
  /\ clock < MaxClock
  /\ clock' = clock + 1
  /\ UNCHANGED <<pc, run, files, writers, raced, rows, counter>>

Start(r) ==
  /\ pc[r] = "new"
  /\ MoveTo(r, "train")
  /\ Count("started")
  /\ UNCHANGED <<clock, run, files, writers, raced, rows>>

\* The data is loaded and trained on; the model card is stamped at its end.
Train(r) ==
  /\ pc[r] = "train"
  /\ \E m \in Models :
       run' = [run EXCEPT ![r].path = IF run[r].save THEN <<m, clock>> ELSE NoPath]
  /\ MoveTo(r, IF run[r].save THEN "check" ELSE AfterArtifact(r))
  /\ UNCHANGED <<clock, files, writers, raced, rows, counter>>

TrainRaises(r) ==
  /\ pc[r] = "train"
  /\ RaiseError(r)
  /\ UNCHANGED <<clock, run, files, writers, raced, rows>>

Rivals(r) == {q \in TrainRequests \ {r} : pc[q] = "open" /\ Path(q) = Path(r)}

FoundAbsent(r) ==
  /\ MoveTo(r, "open")
  /\ raced' = raced \cup {p \in {Path(r)} : Rivals(r) # {}}
  /\ UNCHANGED counter

\* Faulty variant: an existing bundle is replaced.
CheckTarget_Overwrites(r) ==
  /\ pc[r] = "check"
  /\ FoundAbsent(r)
  /\ UNCHANGED <<clock, run, files, writers, rows>>

\* overwrite is False: an existing bundle is an error.
CheckTarget(r) ==
  /\ pc[r] = "check"
  /\ \/ files[Path(r)] = "absent" /\ FoundAbsent(r)
     \/ files[Path(r)] # "absent" /\ RaiseError(r) /\ UNCHANGED raced
  /\ UNCHANGED <<clock, run, files, writers, rows>>

\* open(target, "wb") truncates whatever is there by now; two requests that
\* have the same file open garble it.
OpenTarget(r) ==
  /\ pc[r] = "open"
  /\ files'   = [files EXCEPT ![Path(r)] =
                   IF writers[Path(r)] = {} THEN "partial" ELSE "mixed"]
  /\ writers' = [writers EXCEPT ![Path(r)] = @ \cup {r}]
  /\ MoveTo(r, "dump")
  /\ UNCHANGED <<clock, run, raced, rows, counter>>

OpenRaises(r) ==
  /\ pc[r] = "open"
  /\ RaiseError(r)
  /\ UNCHANGED <<clock, run, files, writers, raced, rows>>

CloseTarget(r) == writers' = [writers EXCEPT ![Path(r)] = @ \ {r}]

Dump(r) ==
  /\ pc[r] = "dump"
  /\ files' = [files EXCEPT ![Path(r)] = IF @ = "partial" THEN r ELSE @]
  /\ CloseTarget(r)
  /\ MoveTo(r, AfterArtifact(r))
  /\ UNCHANGED <<clock, run, raced, rows, counter>>

\* Faulty variant: the exception of the dump is swallowed.
DumpRaises_Swallowed(r) ==
  /\ pc[r] = "dump"
  /\ CloseTarget(r)
  /\ MoveTo(r, AfterArtifact(r))
  /\ UNCHANGED <<clock, run, files, raced, rows, counter>>

\* cloudpickle fails, or the disk is full: what was written stays.
DumpRaises(r) ==
  /\ pc[r] = "dump"
  /\ CloseTarget(r)
  /\ RaiseError(r)
  /\ UNCHANGED <<clock, run, files, raced, rows>>

Persist(r) ==
  /\ pc[r] = "persist"
  /\ rows' = rows \cup {[request |-> r, path |-> Path(r)]}
  /\ MoveTo(r, "respond")
  /\ UNCHANGED <<clock, run, files, writers, raced, counter>>

\* Faulty variant: the rows are committed before the failing statement.
PersistRaises_KeepsRows(r) ==
  /\ pc[r] = "persist"
  /\ rows' = rows \cup {[request |-> r, path |-> Path(r)]}
  /\ RaiseError(r)
  /\ UNCHANGED <<clock, run, files, writers, raced>>

\* DatabaseError: the transaction is rolled back, the bundle stays on disk.
PersistRaises(r) ==
  /\ pc[r] = "persist"
  /\ RaiseError(r)
  /\ UNCHANGED <<clock, run, files, writers, raced, rows>>

Respond(r) ==
  /\ pc[r] = "respond"
  /\ MoveTo(r, "done")
  /\ Count("completed")
  /\ UNCHANGED <<clock, run, files, writers, raced, rows>>

-----------------------------------------------------------------------------
SaveBundle(r) ==
  \/ CheckTarget(r)
  \/ OpenTarget(r)
  \/ OpenRaises(r)
  \/ Dump(r)
  \/ DumpRaises(r)

TrainingNext ==
  \/ ClockTicks
  \/ \E r \in TrainRequests : \/ Start(r)
                         \/ Train(r)
                         \/ TrainRaises(r)
                         \/ SaveBundle(r)
                         \/ Persist(r)
                         \/ PersistRaises(r)
                         \/ Respond(r)

TrainingApiSpec == TrainingInit /\ [][TrainingNext]_trainingVars

-----------------------------------------------------------------------------
(* Properties *)

\* Types of the variables; a file handle is open just as long as its dump.
TrainingTypeOK ==
  /\ clock \in 0..MaxClock
  /\ pc \in [TrainRequests -> {"new", "done", "failed"} \cup InFlight]
  /\ run \in [TrainRequests -> Run]
  /\ files \in [Paths -> Contents]
  /\ writers = [p \in Paths |-> {r \in TrainRequests : pc[r] = "dump" /\ Path(r) = p}]
  /\ raced \subseteq Paths
  /\ rows \subseteq Row
  /\ counter \in [{"started", "completed", "failed"} -> Nat]

Finished(o) == {r \in TrainRequests : pc[r] = o}

\* Whatever raises and wherever, each training is counted once as started and
\* once by its outcome; the difference is what is in flight.
CountersBalance ==
  /\ counter.completed = Cardinality(Finished("done"))
  /\ counter.failed    = Cardinality(Finished("failed"))
  /\ counter.started   = Cardinality({r \in TrainRequests : pc[r] # "new"})

\* A row in the registry belongs to a request that gets (or got) its answer,
\* at the path it answers with; a failed one leaves no row whatever it had
\* written to disk.
RowsBelongToAnswers ==
  /\ \A row \in rows : pc[row.request] \in {"respond", "done"} /\ row.path = Path(row.request)
  /\ \A r \in Finished("done") : run[r].persist => \E row \in rows : row.request = r

\* Every training is accounted for, by the counters and by the registry.
TrainingsAreAccounted == CountersBalance /\ RowsBelongToAnswers

\* Saved and acknowledged by save_bundle(), registered or not.
HasArtifact(r) == run[r].save /\ pc[r] \in {"persist", "respond", "done"}

\* save_bundle() without overwrite: once it has returned, the file is that
\* request's complete bundle and stays so, however requests interleave or fail,
\* unless two requests looked at the path before either of them opened it.
ArtifactIsKeptUnlessRaced ==
  \A r \in TrainRequests : HasArtifact(r) /\ Path(r) \notin raced => files[Path(r)] = r

\* "overwrite: when False and the destination exists, raise": the bundle a
\* champion row names is the one its own training saved.
RegisteredBundleIsOwn ==
  \A row \in rows : row.path # NoPath => files[row.path] = row.request

=============================================================================
