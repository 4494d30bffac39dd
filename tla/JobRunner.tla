------------------------------ MODULE JobRunner ------------------------------
(***************************************************************************)
(* BackgroundJobRunner (iad/performance/jobs.py): a process-wide thread    *)
(* pool.  One step of this module is one statement that another thread can *)
(* observe: submit() publishes the record, hands the wrapper to the pool   *)
(* and registers the future in three separate statements, and the wrapper  *)
(* writes the fields of the record one after the other without a lock,     *)
(* while Streamlit threads read them.                                      *)
(*                                                                         *)
(* The ThreadPoolExecutor itself is not the repository's code: it is       *)
(* modelled from how it is used (FIFO queue, MaxWorkers threads, a future  *)
(* that can be cancelled until a worker picks it).                         *)
(***************************************************************************)
EXTENDS Naturals, Sequences, FiniteSets

CONSTANTS Jobs,        \* job ids (uuid4().hex: each submit uses a new one)
          MaxWorkers   \* PERF_MAX_WORKERS

ASSUME JobsAssumption    == IsFiniteSet(Jobs)
ASSUME WorkersAssumption == MaxWorkers \in Nat \ {0}

VARIABLES
  record,      \* the JobRecord object of each job
  submitter,   \* the last statement of submit() executed for the job
  worker,      \* the statement of _wrapper() the job's thread is about to execute
  future,      \* state of the concurrent.futures.Future
  workQueue,   \* the executor's queue of wrappers not picked yet
  canceller,   \* jobs whose future.cancel() succeeded, status not yet written
  retired      \* jobs that belong to a runner that reset() has discarded

vars == <<record, submitter, worker, future, workQueue, canceller, retired>>

NewRecord == [status |-> "PENDING", result |-> FALSE, error |-> FALSE,
              finished |-> FALSE, completed |-> FALSE]

JobStatus == {"PENDING", "RUNNING", "COMPLETED", "FAILED", "CANCELLED"}
JobRecord == [status    : JobStatus,
              result    : BOOLEAN,     \* record.result is set
              error     : BOOLEAN,     \* record.error is set
              finished  : BOOLEAN,     \* record.progress = 1.0
              completed : BOOLEAN]     \* record.completed_at is set

Terminal == {"COMPLETED", "FAILED", "CANCELLED"}

Init ==
  /\ record    = [j \in Jobs |-> NewRecord]
  /\ submitter = [j \in Jobs |-> "new"]
  /\ worker    = [j \in Jobs |-> "none"]
  /\ future    = [j \in Jobs |-> "none"]
  /\ workQueue = <<>>
  /\ canceller = {}
  /\ retired   = {}

\* The keys of the live runner's _jobs and _futures.
KnownJobs    == {j \in Jobs \ retired : submitter[j] # "new"}
KnownFutures == {j \in Jobs \ retired : submitter[j] = "submitted"}
\* Worker threads of the live pool that are executing a wrapper.
Busy         == {j \in Jobs \ retired : future[j] = "RUNNING"}

-----------------------------------------------------------------------------
(* submit(): _jobs[jid] = record; executor.submit(_wrapper); _futures[jid] = future *)

PublishRecord(j) ==
  /\ submitter[j] = "new"
  /\ submitter' = [submitter EXCEPT ![j] = "recorded"]
  /\ UNCHANGED <<record, worker, future, workQueue, canceller, retired>>

Enqueue(j) ==
  /\ submitter[j] = "recorded"
  /\ j \notin retired
  /\ submitter' = [submitter EXCEPT ![j] = "enqueued"]
  /\ future'    = [future EXCEPT ![j] = "PENDING"]
  /\ workQueue' = Append(workQueue, j)
  /\ UNCHANGED <<record, worker, canceller, retired>>

\* executor.submit raises once the pool is shut down: the record stays
\* PENDING in a dictionary nobody can reach any more.
EnqueueRaises(j) ==
  /\ submitter[j] = "recorded"
  /\ j \in retired
  /\ submitter' = [submitter EXCEPT ![j] = "raised"]
  /\ UNCHANGED <<record, worker, future, workQueue, canceller, retired>>

RegisterFuture(j) ==
  /\ submitter[j] = "enqueued"
  /\ submitter' = [submitter EXCEPT ![j] = "submitted"]
  /\ UNCHANGED <<record, worker, future, workQueue, canceller, retired>>

-----------------------------------------------------------------------------
(* The pool's threads *)

\* A free thread takes the oldest wrapper; a cancelled future is dropped.
PickWork ==
  /\ workQueue # <<>>
  /\ Cardinality(Busy) < MaxWorkers
  /\ workQueue' = Tail(workQueue)
  /\ LET j == Head(workQueue) IN
       IF future[j] = "PENDING"
       THEN /\ future' = [future EXCEPT ![j] = "RUNNING"]
            /\ worker' = [worker EXCEPT ![j] = "start"]
       ELSE UNCHANGED <<future, worker>>
  /\ UNCHANGED <<record, submitter, canceller, retired>>

\* The wrapper of j executes one statement that writes the record.
Write(j, at, rec, next) ==
  /\ worker[j] = at
  /\ record' = [record EXCEPT ![j] = rec]
  /\ worker' = [worker EXCEPT ![j] = next]
  /\ UNCHANGED <<submitter, future, workQueue, canceller, retired>>

\* Faulty variants: the status is published before the result; fn's exception
\* is not caught; completed_at is only set when fn raised.
WriteResult_StatusFirst(j)  == Write(j, "call", [record[j] EXCEPT !.status = "COMPLETED"], "result")
WriteFailed_NotCaught(j)    == Write(j, "call", record[j], "return")
WriteProgress_NoFinally(j)  == Write(j, "progress", [record[j] EXCEPT !.finished = TRUE], "return")

WriteRunning(j)   == Write(j, "start",    [record[j] EXCEPT !.status = "RUNNING"],   "call")
WriteResult(j)    == Write(j, "call",     [record[j] EXCEPT !.result = TRUE],        "result")
WriteCompleted(j) == Write(j, "result",   [record[j] EXCEPT !.status = "COMPLETED"], "progress")
WriteProgress(j)  == Write(j, "progress", [record[j] EXCEPT !.finished = TRUE],      "finally")
WriteFailed(j)    == Write(j, "call",     [record[j] EXCEPT !.status = "FAILED"],    "error")
WriteError(j)     == Write(j, "error",    [record[j] EXCEPT !.error = TRUE],         "finally")
WriteFinally(j)   == Write(j, "finally",  [record[j] EXCEPT !.completed = TRUE],     "return")

\* The wrapper returns or re-raises and the pool resolves the future.
ResolveFuture(j) ==
  /\ worker[j] = "return"
  /\ worker' = [worker EXCEPT ![j] = "done"]
  /\ future' = [future EXCEPT ![j] = "FINISHED"]
  /\ UNCHANGED <<record, submitter, workQueue, canceller, retired>>

WorkerStep(j) ==
  \/ WriteRunning(j)
  \/ WriteResult(j)
  \/ WriteCompleted(j)
  \/ WriteProgress(j)
  \/ WriteFailed(j)
  \/ WriteError(j)
  \/ WriteFinally(j)
  \/ ResolveFuture(j)

-----------------------------------------------------------------------------
(* cancel() and reset() *)

\* Faulty variant: cancel() marks the record whatever future.cancel() answered.
CancelFuture_IgnoresAnswer(j) ==
  /\ j \in KnownFutures
  /\ future'    = [future EXCEPT ![j] = IF @ = "PENDING" THEN "CANCELLED" ELSE @]
  /\ canceller' = canceller \cup {j}
  /\ UNCHANGED <<record, submitter, worker, workQueue, retired>>

\* future.cancel() answers False once a worker has picked the wrapper, and
\* cancel() gives up earlier when submit() has not registered the future yet.
CancelFuture(j) ==
  /\ j \in KnownFutures
  /\ future[j] \in {"PENDING", "CANCELLED"}
  /\ future'    = [future EXCEPT ![j] = "CANCELLED"]
  /\ canceller' = canceller \cup {j}
  /\ UNCHANGED <<record, submitter, worker, workQueue, retired>>

MarkCancelled(j) ==
  /\ j \in canceller
  /\ record'    = [record EXCEPT ![j].status = "CANCELLED"]
  /\ canceller' = canceller \ {j}
  /\ UNCHANGED <<submitter, worker, future, workQueue, retired>>

\* shutdown(wait=False, cancel_futures=True): queued futures are cancelled
\* without touching their records, running wrappers go on.
Reset ==
  /\ KnownJobs # {}
  /\ retired'   = retired \cup KnownJobs
  /\ future'    = [j \in Jobs |-> IF future[j] = "PENDING" THEN "CANCELLED" ELSE future[j]]
  /\ workQueue' = <<>>
  /\ UNCHANGED <<record, submitter, worker, canceller>>

-----------------------------------------------------------------------------
SubmitStep(j) == PublishRecord(j) \/ Enqueue(j) \/ EnqueueRaises(j) \/ RegisterFuture(j)
CancelStep(j) == CancelFuture(j) \/ MarkCancelled(j)

Next ==
  \/ \E j \in Jobs : SubmitStep(j) \/ WorkerStep(j) \/ CancelStep(j)
  \/ PickWork
  \/ Reset

\* Threads keep running: a call to submit() or cancel() that began goes on,
\* the pool picks queued work, and a wrapper executes its next statement.
\* That fn itself returns is an assumption on the training code (it has no
\* unbounded loop).
Fairness ==
  /\ \A j \in Jobs : WF_vars(Enqueue(j) \/ EnqueueRaises(j) \/ RegisterFuture(j))
  /\ \A j \in Jobs : WF_vars(WorkerStep(j))
  /\ \A j \in Jobs : WF_vars(MarkCancelled(j))
  /\ WF_vars(PickWork)

Spec == Init /\ [][Next]_vars /\ Fairness

-----------------------------------------------------------------------------
(* Properties *)

\* Types of the variables.
TypeOK ==
  /\ record    \in [Jobs -> JobRecord]
  /\ submitter \in [Jobs -> {"new", "recorded", "enqueued", "submitted", "raised"}]
  /\ worker    \in [Jobs -> {"none", "start", "call", "result", "progress",
                             "error", "finally", "return", "done"}]
  /\ future    \in [Jobs -> {"none", "PENDING", "RUNNING", "CANCELLED", "FINISHED"}]
  /\ workQueue \in Seq(Jobs)
  /\ canceller \subseteq Jobs
  /\ retired   \subseteq Jobs

\* A thread that reads COMPLETED finds the result, although the two fields are
\* written without a lock, and a record never has both an outcome and an error
\* (poll_active_job unpacks record.result as soon as it reads COMPLETED).
CompletedHasResult ==
  \A j \in Jobs :
    /\ record[j].status = "COMPLETED" => record[j].result /\ ~record[j].error
    /\ record[j].status = "FAILED"    => ~record[j].result

\* Once cancel() has succeeded, or reset() has cancelled the queue, the job's
\* function never runs, whatever the pool does with the wrapper it still queues.
CancelledNeverRuns ==
  \A j \in Jobs :
    future[j] = "CANCELLED" \/ record[j].status = "CANCELLED" =>
      /\ worker[j] = "none"
      /\ ~record[j].result
      /\ future[j] = "CANCELLED"

\* When the future is done the record is settled: every field of the outcome is
\* there and the status is final, so the repair that get() attempts for a
\* finished future with status RUNNING never has anything to repair.
DoneMeansSettled ==
  \A j \in Jobs :
    future[j] = "FINISHED" =>
      /\ record[j].completed
      /\ \/ record[j].status = "COMPLETED" /\ record[j].finished
         \/ record[j].status = "FAILED" /\ record[j].error

\* The queue holds each waiting wrapper once and nothing that already ran, even
\* when cancel() and reset() leave cancelled wrappers behind.
QueueHoldsWaitingJobs ==
  /\ \A j \in Jobs : future[j] = "PENDING" => \E i \in 1..Len(workQueue) : workQueue[i] = j
  /\ \A i \in 1..Len(workQueue) : worker[workQueue[i]] = "none"
  /\ \A i, k \in 1..Len(workQueue) : workQueue[i] = workQueue[k] => i = k

\* The runner implements the life cycle its clients are promised, although the
\* status is written by three different threads.
Seen == [j \in Jobs |-> IF submitter[j] = "new" THEN "absent" ELSE record[j].status]
Lifecycle == INSTANCE JobLifecycle WITH status <- Seen
ImplementsLifecycle == Lifecycle!Spec

\* A job that entered the queue ends with a final status that its reader can
\* see, unless reset() threw the runner away.
QueuedJobEnds ==
  \A j \in Jobs : future[j] = "PENDING" ~> (record[j].status \in Terminal \/ j \in retired)
=============================================================================
