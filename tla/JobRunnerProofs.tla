--------------------------- MODULE JobRunnerProofs ---------------------------
(***************************************************************************)
(* Proofs about the job runner, for every set of jobs and every pool size: *)
(* type correctness, the safety invariants of JobRunner, and that it       *)
(* implements JobLifecycle.  They all follow from one inductive invariant, *)
(* IInv, that ties the record a client reads to the statement of the       *)
(* wrapper its writer has reached and to the state of the future.          *)
(***************************************************************************)
EXTENDS JobRunner, TLAPS

\* The wrapper's statements between the pool's pick and its return.
Executing == {"start", "call", "result", "progress", "error", "finally", "return"}

\* The outcome part of the record: result, error, progress and completed_at.
Fields(j, r, e, f, c) == /\ record[j].result = r
                         /\ record[j].error = e
                         /\ record[j].finished = f
                         /\ record[j].completed = c

\* What the record says at each statement of the wrapper.
RecordFollowsWorker(j) ==
  /\ worker[j] = "none"     => /\ record[j].status \in {"PENDING", "CANCELLED"}
                               /\ Fields(j, FALSE, FALSE, FALSE, FALSE)
  /\ worker[j] = "start"    => /\ record[j].status = "PENDING"
                               /\ Fields(j, FALSE, FALSE, FALSE, FALSE)
  /\ worker[j] = "call"     => /\ record[j].status = "RUNNING"
                               /\ Fields(j, FALSE, FALSE, FALSE, FALSE)
  /\ worker[j] = "result"   => /\ record[j].status = "RUNNING"
                               /\ Fields(j, TRUE, FALSE, FALSE, FALSE)
  /\ worker[j] = "progress" => /\ record[j].status = "COMPLETED"
                               /\ Fields(j, TRUE, FALSE, FALSE, FALSE)
  /\ worker[j] = "error"    => /\ record[j].status = "FAILED"
                               /\ Fields(j, FALSE, FALSE, FALSE, FALSE)
  /\ worker[j] = "finally"  =>
       \/ record[j].status = "COMPLETED" /\ Fields(j, TRUE, FALSE, TRUE, FALSE)
       \/ record[j].status = "FAILED" /\ Fields(j, FALSE, TRUE, FALSE, FALSE)
  /\ worker[j] \in {"return", "done"} =>
       \/ record[j].status = "COMPLETED" /\ Fields(j, TRUE, FALSE, TRUE, TRUE)
       \/ record[j].status = "FAILED" /\ Fields(j, FALSE, TRUE, FALSE, TRUE)

\* The future mirrors the wrapper, exists once submit() has queued the job, and
\* only a cancelled future has a cancelled record.
FutureFollowsWorker(j) ==
  /\ future[j] = "none" <=> submitter[j] \in {"new", "recorded", "raised"}
  /\ future[j] = "RUNNING"  <=> worker[j] \in Executing
  /\ future[j] = "FINISHED" <=> worker[j] = "done"
  /\ j \in canceller \/ record[j].status = "CANCELLED" => future[j] = "CANCELLED"

\* The queue holds every waiting wrapper once, and cancelled ones.
QueueInv ==
  /\ \A i \in 1..Len(workQueue) : future[workQueue[i]] \in {"PENDING", "CANCELLED"}
  /\ \A j \in Jobs : future[j] = "PENDING" => \E i \in 1..Len(workQueue) : workQueue[i] = j
  /\ \A i, k \in 1..Len(workQueue) : workQueue[i] = workQueue[k] => i = k

JobInv == \A j \in Jobs : RecordFollowsWorker(j) /\ FutureFollowsWorker(j)

IInv == TypeOK /\ JobInv /\ QueueInv

-----------------------------------------------------------------------------
\* The initial state satisfies the inductive invariant.
LEMMA InitIInv == Init => IInv
<1> SUFFICES ASSUME Init PROVE IInv
  OBVIOUS
<1>1. TypeOK
  BY DEF Init, TypeOK, NewRecord, JobRecord, JobStatus
<1>2. JobInv
  BY DEF Init, JobInv, RecordFollowsWorker, FutureFollowsWorker, Fields, NewRecord, Executing
<1>3. QueueInv
  BY DEF Init, QueueInv
<1> QED
  BY <1>1, <1>2, <1>3 DEF IInv

\* A statement of the wrapper that writes a well-formed record keeps the types.
LEMMA WriteType ==
  ASSUME TypeOK, NEW j \in Jobs, NEW at, NEW rec \in JobRecord,
         NEW next \in Executing, Write(j, at, rec, next)
  PROVE  TypeOK'
BY DEF TypeOK, Write, Executing

\* A statement of the wrapper leaves the queue's invariant alone.
LEMMA WriteQueue ==
  ASSUME QueueInv, NEW j, NEW at, NEW rec, NEW next, Write(j, at, rec, next)
  PROVE  QueueInv'
BY DEF QueueInv, Write

\* Every step of the runner preserves the types.
LEMMA NextTypeOK ==
  ASSUME IInv, [Next]_vars
  PROVE  TypeOK'
<1> USE DEF IInv
<1>1. CASE UNCHANGED vars
  BY <1>1 DEF TypeOK, vars
<1>2. ASSUME NEW j \in Jobs, SubmitStep(j) PROVE TypeOK'
  <2>1. CASE PublishRecord(j)
    BY <2>1 DEF TypeOK, PublishRecord
  <2>2. CASE Enqueue(j)
    <3>1. Append(workQueue, j) \in Seq(Jobs)
      BY DEF TypeOK
    <3> QED
      BY <2>2, <3>1 DEF TypeOK, Enqueue
  <2>3. CASE EnqueueRaises(j)
    BY <2>3 DEF TypeOK, EnqueueRaises
  <2>4. CASE RegisterFuture(j)
    BY <2>4 DEF TypeOK, RegisterFuture
  <2> QED
    BY <1>2, <2>1, <2>2, <2>3, <2>4 DEF SubmitStep
<1>3. ASSUME NEW j \in Jobs, WorkerStep(j) PROVE TypeOK'
  <2>1. CASE ResolveFuture(j)
    BY <2>1 DEF TypeOK, ResolveFuture
  <2>2. /\ [record[j] EXCEPT !.status = "RUNNING"] \in JobRecord
        /\ [record[j] EXCEPT !.result = TRUE] \in JobRecord
        /\ [record[j] EXCEPT !.status = "COMPLETED"] \in JobRecord
        /\ [record[j] EXCEPT !.finished = TRUE] \in JobRecord
        /\ [record[j] EXCEPT !.status = "FAILED"] \in JobRecord
        /\ [record[j] EXCEPT !.error = TRUE] \in JobRecord
        /\ [record[j] EXCEPT !.completed = TRUE] \in JobRecord
    <3>1. record[j] \in JobRecord
      BY DEF TypeOK
    <3> QED
      BY <3>1 DEF JobRecord, JobStatus
  <2>3. {"call", "result", "progress", "error", "finally", "return"} \subseteq Executing
    BY DEF Executing
  <2>4. CASE WriteRunning(j)
    BY <2>2, <2>3, <2>4, WriteType DEF WriteRunning
  <2>5. CASE WriteResult(j)
    BY <2>2, <2>3, <2>5, WriteType DEF WriteResult
  <2>6. CASE WriteCompleted(j)
    BY <2>2, <2>3, <2>6, WriteType DEF WriteCompleted
  <2>7. CASE WriteProgress(j)
    BY <2>2, <2>3, <2>7, WriteType DEF WriteProgress
  <2>8. CASE WriteFailed(j)
    BY <2>2, <2>3, <2>8, WriteType DEF WriteFailed
  <2>9. CASE WriteError(j)
    BY <2>2, <2>3, <2>9, WriteType DEF WriteError
  <2>10. CASE WriteFinally(j)
    BY <2>2, <2>3, <2>10, WriteType DEF WriteFinally
  <2> QED
    BY <1>3, <2>1, <2>4, <2>5, <2>6, <2>7, <2>8, <2>9, <2>10 DEF WorkerStep
<1>4. ASSUME NEW j \in Jobs, CancelStep(j) PROVE TypeOK'
  <2>1. CASE CancelFuture(j)
    BY <2>1 DEF TypeOK, CancelFuture
  <2>2. CASE MarkCancelled(j)
    <3>1. [record[j] EXCEPT !.status = "CANCELLED"] \in JobRecord
      BY DEF TypeOK, JobRecord, JobStatus
    <3> QED
      BY <2>2, <3>1 DEF TypeOK, MarkCancelled
  <2> QED
    BY <1>4, <2>1, <2>2 DEF CancelStep
<1>5. CASE PickWork
  BY <1>5 DEF TypeOK, PickWork
<1>6. CASE Reset
  BY <1>6 DEF TypeOK, Reset, KnownJobs
<1> QED
  BY <1>1, <1>2, <1>3, <1>4, <1>5, <1>6 DEF Next

-----------------------------------------------------------------------------
\* A statement of j's wrapper preserves the invariant of the other jobs, and
\* j's own when it leaves the record as the next statement expects it.
LEMMA WriteJobInv ==
  ASSUME IInv, NEW j \in Jobs, NEW at \in Executing, NEW rec \in JobRecord,
         NEW next \in Executing, Write(j, at, rec, next),
         RecordFollowsWorker(j)', rec.status # "CANCELLED"
  PROVE  JobInv'
<1> SUFFICES ASSUME NEW i \in Jobs
             PROVE  RecordFollowsWorker(i)' /\ FutureFollowsWorker(i)'
  BY DEF JobInv
<1>1. CASE i = j
  <2>1. /\ record'[j] = rec
        /\ worker'[j] = next
        /\ future'[j] = "RUNNING"
        /\ submitter' = submitter
        /\ canceller' = canceller
    BY DEF IInv, TypeOK, JobInv, FutureFollowsWorker, Write
  <2>2. FutureFollowsWorker(j)'
    BY <2>1 DEF IInv, JobInv, FutureFollowsWorker, Write, Executing
  <2> QED
    BY <1>1, <2>2
<1>2. CASE i # j
  <2>1. /\ record'[i] = record[i]
        /\ worker'[i] = worker[i]
        /\ UNCHANGED <<submitter, future, canceller>>
    BY <1>2 DEF IInv, TypeOK, Write
  <2> QED
    BY <2>1 DEF IInv, JobInv, RecordFollowsWorker, FutureFollowsWorker, Fields
<1> QED
  BY <1>1, <1>2

\* The wrapper's statements and the resolution of the future preserve JobInv.
LEMMA WorkerStepJobInv ==
  ASSUME IInv, NEW j \in Jobs, WorkerStep(j)
  PROVE  JobInv'
<1>1. /\ record[j] \in JobRecord
      /\ RecordFollowsWorker(j)
  BY DEF IInv, TypeOK, JobInv
<1> USE <1>1
<1>2. CASE WriteRunning(j)
  <2> DEFINE rec == [record[j] EXCEPT !.status = "RUNNING"]
  <2>1. rec \in JobRecord
    BY DEF JobRecord, JobStatus
  <2>2. worker[j] = "start" /\ worker'[j] = "call" /\ record'[j] = rec
    BY <1>2 DEF WriteRunning, Write, IInv, TypeOK
  <2>3. RecordFollowsWorker(j)' /\ rec.status # "CANCELLED"
    BY <2>2 DEF RecordFollowsWorker, Fields, JobRecord
  <2> HIDE DEF rec
  <2>4. Write(j, "start", rec, "call")
    BY <1>2 DEF WriteRunning, rec
  <2>5. "start" \in Executing /\ "call" \in Executing
    BY DEF Executing
  <2> QED
    BY <2>1, <2>3, <2>4, <2>5, WriteJobInv
<1>3. CASE WriteResult(j)
  <2> DEFINE rec == [record[j] EXCEPT !.result = TRUE]
  <2>1. rec \in JobRecord
    BY DEF JobRecord, JobStatus
  <2>2. worker[j] = "call" /\ worker'[j] = "result" /\ record'[j] = rec
    BY <1>3 DEF WriteResult, Write, IInv, TypeOK
  <2>3. RecordFollowsWorker(j)' /\ rec.status # "CANCELLED"
    BY <2>2 DEF RecordFollowsWorker, Fields, JobRecord
  <2> HIDE DEF rec
  <2>4. Write(j, "call", rec, "result")
    BY <1>3 DEF WriteResult, rec
  <2>5. "call" \in Executing /\ "result" \in Executing
    BY DEF Executing
  <2> QED
    BY <2>1, <2>3, <2>4, <2>5, WriteJobInv
<1>4. CASE WriteCompleted(j)
  <2> DEFINE rec == [record[j] EXCEPT !.status = "COMPLETED"]
  <2>1. rec \in JobRecord
    BY DEF JobRecord, JobStatus
  <2>2. worker[j] = "result" /\ worker'[j] = "progress" /\ record'[j] = rec
    BY <1>4 DEF WriteCompleted, Write, IInv, TypeOK
  <2>3. RecordFollowsWorker(j)' /\ rec.status # "CANCELLED"
    BY <2>2 DEF RecordFollowsWorker, Fields, JobRecord
  <2> HIDE DEF rec
  <2>4. Write(j, "result", rec, "progress")
    BY <1>4 DEF WriteCompleted, rec
  <2>5. "result" \in Executing /\ "progress" \in Executing
    BY DEF Executing
  <2> QED
    BY <2>1, <2>3, <2>4, <2>5, WriteJobInv
<1>5. CASE WriteProgress(j)
  <2> DEFINE rec == [record[j] EXCEPT !.finished = TRUE]
  <2>1. rec \in JobRecord
    BY DEF JobRecord, JobStatus
  <2>2. worker[j] = "progress" /\ worker'[j] = "finally" /\ record'[j] = rec
    BY <1>5 DEF WriteProgress, Write, IInv, TypeOK
  <2>3. RecordFollowsWorker(j)' /\ rec.status # "CANCELLED"
    BY <2>2 DEF RecordFollowsWorker, Fields, JobRecord
  <2> HIDE DEF rec
  <2>4. Write(j, "progress", rec, "finally")
    BY <1>5 DEF WriteProgress, rec
  <2>5. "progress" \in Executing /\ "finally" \in Executing
    BY DEF Executing
  <2> QED
    BY <2>1, <2>3, <2>4, <2>5, WriteJobInv
<1>6. CASE WriteFailed(j)
  <2> DEFINE rec == [record[j] EXCEPT !.status = "FAILED"]
  <2>1. rec \in JobRecord
    BY DEF JobRecord, JobStatus
  <2>2. worker[j] = "call" /\ worker'[j] = "error" /\ record'[j] = rec
    BY <1>6 DEF WriteFailed, Write, IInv, TypeOK
  <2>3. RecordFollowsWorker(j)' /\ rec.status # "CANCELLED"
    BY <2>2 DEF RecordFollowsWorker, Fields, JobRecord
  <2> HIDE DEF rec
  <2>4. Write(j, "call", rec, "error")
    BY <1>6 DEF WriteFailed, rec
  <2>5. "call" \in Executing /\ "error" \in Executing
    BY DEF Executing
  <2> QED
    BY <2>1, <2>3, <2>4, <2>5, WriteJobInv
<1>7. CASE WriteError(j)
  <2> DEFINE rec == [record[j] EXCEPT !.error = TRUE]
  <2>1. rec \in JobRecord
    BY DEF JobRecord, JobStatus
  <2>2. worker[j] = "error" /\ worker'[j] = "finally" /\ record'[j] = rec
    BY <1>7 DEF WriteError, Write, IInv, TypeOK
  <2>3. RecordFollowsWorker(j)' /\ rec.status # "CANCELLED"
    BY <2>2 DEF RecordFollowsWorker, Fields, JobRecord
  <2> HIDE DEF rec
  <2>4. Write(j, "error", rec, "finally")
    BY <1>7 DEF WriteError, rec
  <2>5. "error" \in Executing /\ "finally" \in Executing
    BY DEF Executing
  <2> QED
    BY <2>1, <2>3, <2>4, <2>5, WriteJobInv
<1>8. CASE WriteFinally(j)
  <2> DEFINE rec == [record[j] EXCEPT !.completed = TRUE]
  <2>1. rec \in JobRecord
    BY DEF JobRecord, JobStatus
  <2>2. worker[j] = "finally" /\ worker'[j] = "return" /\ record'[j] = rec
    BY <1>8 DEF WriteFinally, Write, IInv, TypeOK
  <2>3. RecordFollowsWorker(j)' /\ rec.status # "CANCELLED"
    BY <2>2 DEF RecordFollowsWorker, Fields, JobRecord
  <2> HIDE DEF rec
  <2>4. Write(j, "finally", rec, "return")
    BY <1>8 DEF WriteFinally, rec
  <2>5. "finally" \in Executing /\ "return" \in Executing
    BY DEF Executing
  <2> QED
    BY <2>1, <2>3, <2>4, <2>5, WriteJobInv
<1>9. CASE ResolveFuture(j)
  <2>1. /\ worker[j] = "return" /\ worker'[j] = "done" /\ future'[j] = "FINISHED"
        /\ \A i \in Jobs \ {j} : worker'[i] = worker[i] /\ future'[i] = future[i]
        /\ UNCHANGED <<record, submitter, canceller>>
    BY <1>9 DEF ResolveFuture, IInv, TypeOK
  <2>2. ASSUME NEW i \in Jobs PROVE RecordFollowsWorker(i)' /\ FutureFollowsWorker(i)'
    <3>1. CASE i = j
      BY <2>1, <3>1 DEF IInv, JobInv, RecordFollowsWorker, FutureFollowsWorker, Fields, Executing
    <3>2. CASE i # j
      BY <2>1, <3>2 DEF IInv, JobInv, RecordFollowsWorker, FutureFollowsWorker, Fields
    <3> QED
      BY <3>1, <3>2
  <2> QED
    BY <2>2 DEF JobInv
<1> QED
  BY <1>2, <1>3, <1>4, <1>5, <1>6, <1>7, <1>8, <1>9 DEF WorkerStep

\* Publishing, queueing and registering a job preserve JobInv.
LEMMA SubmitStepJobInv ==
  ASSUME IInv, NEW j \in Jobs, SubmitStep(j)
  PROVE  JobInv'
<1>1. ASSUME NEW i \in Jobs
      PROVE  RecordFollowsWorker(i)' /\ FutureFollowsWorker(i)'
  <2>1. RecordFollowsWorker(i)'
    BY DEF IInv, JobInv, RecordFollowsWorker, Fields, SubmitStep, PublishRecord, Enqueue,
       EnqueueRaises, RegisterFuture
  <2>2. FutureFollowsWorker(i)'
    BY DEF IInv, TypeOK, JobInv, FutureFollowsWorker, SubmitStep, PublishRecord, Enqueue,
       EnqueueRaises, RegisterFuture, Executing
  <2> QED
    BY <2>1, <2>2
<1> QED
  BY <1>1 DEF JobInv

\* cancel() preserves JobInv: it only ever touches jobs that have not started.
LEMMA CancelStepJobInv ==
  ASSUME IInv, NEW j \in Jobs, CancelStep(j)
  PROVE  JobInv'
<1>1. CASE CancelFuture(j)
  <2>1. ASSUME NEW i \in Jobs
        PROVE  RecordFollowsWorker(i)' /\ FutureFollowsWorker(i)'
    BY <1>1 DEF IInv, TypeOK, JobInv, RecordFollowsWorker, FutureFollowsWorker, Fields,
       CancelFuture, Executing
  <2> QED
    BY <2>1 DEF JobInv
<1>2. CASE MarkCancelled(j)
  <2>1. /\ record[j] \in JobRecord
        /\ worker[j] = "none"
        /\ future[j] = "CANCELLED"
        /\ Fields(j, FALSE, FALSE, FALSE, FALSE)
    BY <1>2 DEF IInv, TypeOK, JobInv, RecordFollowsWorker, FutureFollowsWorker, MarkCancelled,
       Executing
  <2>2. /\ record'[j] = [record[j] EXCEPT !.status = "CANCELLED"]
        /\ \A i \in Jobs \ {j} : record'[i] = record[i]
        /\ canceller' = canceller \ {j}
        /\ UNCHANGED <<submitter, worker, future>>
    BY <1>2 DEF IInv, TypeOK, MarkCancelled
  <2>3. record'[j].status = "CANCELLED" /\ Fields(j, FALSE, FALSE, FALSE, FALSE)'
    BY <2>1, <2>2 DEF Fields, JobRecord
  <2>4. ASSUME NEW i \in Jobs
        PROVE  RecordFollowsWorker(i)' /\ FutureFollowsWorker(i)'
    <3>1. CASE i = j
      BY <2>1, <2>2, <2>3, <3>1 DEF IInv, JobInv, RecordFollowsWorker, FutureFollowsWorker
    <3>2. CASE i # j
      BY <2>2, <3>2 DEF IInv, JobInv, RecordFollowsWorker, FutureFollowsWorker, Fields
    <3> QED
      BY <3>1, <3>2
  <2> QED
    BY <2>4 DEF JobInv
<1> QED
  BY <1>1, <1>2 DEF CancelStep

\* The pool starts a wrapper only when its future is pending, and then its
\* record is as submit() left it.
LEMMA PickWorkJobInv ==
  ASSUME IInv, PickWork
  PROVE  JobInv'
<1> DEFINE h == Head(workQueue)
<1>1. h \in Jobs
  BY DEF IInv, TypeOK, PickWork
<1>2. CASE future[h] = "PENDING"
  <2>1. /\ future' = [future EXCEPT ![h] = "RUNNING"]
        /\ worker' = [worker EXCEPT ![h] = "start"]
        /\ UNCHANGED <<record, submitter, canceller>>
    BY <1>2 DEF PickWork
  <2>2. worker[h] = "none" /\ record[h].status = "PENDING"
    BY <1>1, <1>2 DEF IInv, TypeOK, JobInv, RecordFollowsWorker, FutureFollowsWorker, Executing
  <2> HIDE DEF h
  <2>3. ASSUME NEW i \in Jobs
        PROVE  RecordFollowsWorker(i)' /\ FutureFollowsWorker(i)'
    BY <1>1, <1>2, <2>1, <2>2 DEF IInv, TypeOK, JobInv, RecordFollowsWorker,
       FutureFollowsWorker, Fields, Executing
  <2> QED
    BY <2>3 DEF JobInv
<1>3. CASE future[h] # "PENDING"
  BY <1>3 DEF PickWork, IInv, JobInv, RecordFollowsWorker, FutureFollowsWorker, Fields
<1> QED
  BY <1>2, <1>3

\* reset() cancels exactly the futures of wrappers that have not started.
LEMMA ResetJobInv ==
  ASSUME IInv, Reset
  PROVE  JobInv'
<1>1. ASSUME NEW i \in Jobs
      PROVE  RecordFollowsWorker(i)' /\ FutureFollowsWorker(i)'
  BY DEF IInv, TypeOK, JobInv, RecordFollowsWorker, FutureFollowsWorker, Fields, Reset, Executing
<1> QED
  BY <1>1 DEF JobInv

-----------------------------------------------------------------------------
\* Every step preserves the invariant of the queue.
LEMMA NextQueueInv ==
  ASSUME IInv, Next
  PROVE  QueueInv'
<1> USE DEF IInv
<1>1. ASSUME NEW j \in Jobs, SubmitStep(j) PROVE QueueInv'
  <2>1. CASE Enqueue(j)
    <3>1. /\ workQueue \in Seq(Jobs)
          /\ workQueue' = Append(workQueue, j)
          /\ future' = [future EXCEPT ![j] = "PENDING"]
          /\ future[j] = "none"
      BY <2>1 DEF Enqueue, TypeOK, JobInv, FutureFollowsWorker
    <3>2. /\ Len(workQueue') = Len(workQueue) + 1
          /\ workQueue'[Len(workQueue) + 1] = j
          /\ \A i \in 1..Len(workQueue) : workQueue'[i] = workQueue[i] /\ workQueue[i] # j
          /\ Len(workQueue) \in Nat
      BY <3>1 DEF QueueInv
    <3> QED
      BY <3>1, <3>2 DEF QueueInv, TypeOK
  <2>2. CASE PublishRecord(j) \/ EnqueueRaises(j) \/ RegisterFuture(j)
    BY <2>2 DEF QueueInv, PublishRecord, EnqueueRaises, RegisterFuture
  <2> QED
    BY <1>1, <2>1, <2>2 DEF SubmitStep
<1>2. ASSUME NEW j \in Jobs, WorkerStep(j) PROVE QueueInv'
  <2>1. CASE ResolveFuture(j)
    <3>1. future[j] = "RUNNING"
      BY <2>1 DEF ResolveFuture, JobInv, FutureFollowsWorker, Executing
    <3> QED
      BY <2>1, <3>1 DEF QueueInv, ResolveFuture, TypeOK
  <2>2. CASE ~ResolveFuture(j)
    BY <1>2, <2>2, WriteQueue DEF WorkerStep, WriteRunning, WriteResult, WriteCompleted,
       WriteProgress, WriteFailed, WriteError, WriteFinally
  <2> QED
    BY <2>1, <2>2
<1>3. ASSUME NEW j \in Jobs, CancelStep(j) PROVE QueueInv'
  BY <1>3 DEF QueueInv, CancelStep, CancelFuture, MarkCancelled, TypeOK
<1>4. CASE PickWork
  <2> DEFINE h == Head(workQueue)
             n == Len(workQueue)
  <2>1. /\ workQueue \in Seq(Jobs)
        /\ n \in Nat \ {0}
        /\ h \in Jobs
        /\ h = workQueue[1]
        /\ workQueue' = Tail(workQueue)
        /\ future' = [future EXCEPT ![h] = IF @ = "PENDING" THEN "RUNNING" ELSE @]
    BY <1>4 DEF PickWork, TypeOK
  <2>2. /\ Len(workQueue') = n - 1
        /\ \A i \in 1..(n - 1) : workQueue'[i] = workQueue[i + 1]
    BY <2>1
  <2>3. \A i \in 1..(n - 1) : i + 1 \in 1..n /\ workQueue[i + 1] # h
    BY <2>1 DEF QueueInv
  <2> HIDE DEF h, n
  <2>4. \A i \in 1..Len(workQueue') : future'[workQueue'[i]] \in {"PENDING", "CANCELLED"}
    BY <2>1, <2>2, <2>3 DEF QueueInv, TypeOK, n
  <2>5. ASSUME NEW j \in Jobs, future'[j] = "PENDING"
        PROVE  \E i \in 1..Len(workQueue') : workQueue'[i] = j
    <3>1. future[j] = "PENDING" /\ j # h
      BY <2>1, <2>5 DEF TypeOK
    <3>2. PICK i \in 1..n : workQueue[i] = j
      BY <3>1 DEF QueueInv, n
    <3>3. i # 1 /\ i - 1 \in 1..(n - 1)
      BY <2>1, <3>1, <3>2
    <3>4. workQueue'[i - 1] = j
      BY <2>1, <2>2, <3>2, <3>3
    <3>5. 1..Len(workQueue') = 1..(n - 1)
      BY <2>2
    <3> QED
      BY <3>3, <3>4, <3>5
  <2>6. \A i, k \in 1..Len(workQueue') : workQueue'[i] = workQueue'[k] => i = k
    BY <2>1, <2>2, <2>3 DEF QueueInv, n
  <2> QED
    BY <2>4, <2>5, <2>6 DEF QueueInv
<1>5. CASE Reset
  BY <1>5 DEF QueueInv, Reset, TypeOK
<1> QED
  BY <1>1, <1>2, <1>3, <1>4, <1>5 DEF Next

\* The inductive step.
LEMMA NextIInv == IInv /\ [Next]_vars => IInv'
<1> SUFFICES ASSUME IInv, [Next]_vars PROVE IInv'
  OBVIOUS
<1>1. TypeOK'
  BY NextTypeOK
<1>2. CASE UNCHANGED vars
  <2>1. JobInv'
    BY <1>2 DEF IInv, JobInv, RecordFollowsWorker, FutureFollowsWorker, Fields, vars
  <2>2. QueueInv'
    BY <1>2 DEF IInv, QueueInv, vars
  <2> QED
    BY <1>1, <2>1, <2>2 DEF IInv
<1>3. CASE Next
  <2>1. JobInv'
    BY <1>3, SubmitStepJobInv, WorkerStepJobInv, CancelStepJobInv, PickWorkJobInv, ResetJobInv
       DEF Next
  <2>2. QueueInv'
    BY <1>3, NextQueueInv
  <2> QED
    BY <1>1, <2>1, <2>2 DEF IInv
<1> QED
  BY <1>2, <1>3

\* The inductive invariant holds in every reachable state.
THEOREM Invariance == Spec => []IInv
<1>1. Init /\ [][Next]_vars => []IInv
  BY InitIInv, NextIInv, PTL
<1> QED
  BY <1>1 DEF Spec

\* The variables have the types the module declares, in every state.
THEOREM TypeCorrect == Spec => []TypeOK
<1>1. IInv => TypeOK
  BY DEF IInv
<1> QED
  BY <1>1, Invariance, PTL

\* A client that reads COMPLETED finds the result, one that reads FAILED none.
THEOREM CompletedResult == Spec => []CompletedHasResult
<1>1. IInv => CompletedHasResult
  <2> SUFFICES ASSUME IInv, NEW j \in Jobs
               PROVE  /\ record[j].status = "COMPLETED" => record[j].result /\ ~record[j].error
                      /\ record[j].status = "FAILED" => ~record[j].result
    BY DEF CompletedHasResult
  <2>1. RecordFollowsWorker(j) /\ worker[j] \in Executing \cup {"none", "done"}
    BY DEF IInv, TypeOK, JobInv, Executing
  <2> QED
    BY <2>1 DEF RecordFollowsWorker, Fields, Executing
<1> QED
  BY <1>1, Invariance, PTL

\* A job that was cancelled never runs, whatever is still in the pool's queue.
THEOREM CancelledJobs == Spec => []CancelledNeverRuns
<1>1. IInv => CancelledNeverRuns
  <2> SUFFICES ASSUME IInv, NEW j \in Jobs,
                      future[j] = "CANCELLED" \/ record[j].status = "CANCELLED"
               PROVE  worker[j] = "none" /\ ~record[j].result /\ future[j] = "CANCELLED"
    BY DEF CancelledNeverRuns
  <2>1. future[j] = "CANCELLED"
    BY DEF IInv, JobInv, FutureFollowsWorker
  <2>2. worker[j] = "none"
    BY <2>1 DEF IInv, TypeOK, JobInv, FutureFollowsWorker, Executing
  <2> QED
    BY <2>1, <2>2 DEF IInv, JobInv, RecordFollowsWorker, Fields
<1> QED
  BY <1>1, Invariance, PTL

\* A finished future has a settled record: get() never has to repair one.
THEOREM FinishedJobs == Spec => []DoneMeansSettled
<1>1. IInv => DoneMeansSettled
  BY DEF IInv, JobInv, RecordFollowsWorker, FutureFollowsWorker, Fields, DoneMeansSettled
<1> QED
  BY <1>1, Invariance, PTL

\* The queue holds each waiting wrapper exactly once.
THEOREM WaitingJobs == Spec => []QueueHoldsWaitingJobs
<1>1. IInv => QueueHoldsWaitingJobs
  <2> SUFFICES ASSUME IInv, NEW i \in 1..Len(workQueue)
               PROVE  worker[workQueue[i]] = "none"
    BY DEF IInv, QueueInv, QueueHoldsWaitingJobs
  <2>1. workQueue[i] \in Jobs /\ future[workQueue[i]] \in {"PENDING", "CANCELLED"}
    BY DEF IInv, TypeOK, QueueInv
  <2> QED
    BY <2>1 DEF IInv, TypeOK, JobInv, FutureFollowsWorker, Executing
<1> QED
  BY <1>1, Invariance, PTL

-----------------------------------------------------------------------------
(* Refinement of JobLifecycle *)

\* A step that leaves the seen status of every job but j alone, and moves j's
\* from one status to another, is the abstract move.
LEMMA SeenMove ==
  ASSUME NEW j \in Jobs, NEW from, NEW to,
         Seen[j] = from, Seen'[j] = to,
         \A i \in Jobs \ {j} : Seen'[i] = Seen[i]
  PROVE  Lifecycle!Move(j, from, to)
<1>1. Seen' = [Seen EXCEPT ![j] = to]
  BY DEF Seen
<1> QED
  BY <1>1 DEF Lifecycle!Move, Seen

\* Every step of the runner is a step of the life cycle or invisible to clients.
LEMMA StepRefines ==
  ASSUME IInv, [Next]_vars
  PROVE  [Lifecycle!Next]_Seen
<1>1. ASSUME NEW j \in Jobs, SubmitStep(j) PROVE [Lifecycle!Next]_Seen
  <2>1. CASE PublishRecord(j)
    <3>1. /\ Seen[j] = "absent" /\ Seen'[j] = "PENDING"
          /\ \A i \in Jobs \ {j} : Seen'[i] = Seen[i]
      BY <2>1 DEF IInv, TypeOK, JobInv, RecordFollowsWorker, FutureFollowsWorker, Seen,
         PublishRecord, Executing
    <3> QED
      BY <3>1, SeenMove DEF Lifecycle!Next, Lifecycle!Submit, Lifecycle!Absent
  <2>2. CASE Enqueue(j) \/ EnqueueRaises(j) \/ RegisterFuture(j)
    BY <2>2 DEF IInv, TypeOK, Seen, Enqueue, EnqueueRaises, RegisterFuture
  <2> QED
    BY <1>1, <2>1, <2>2 DEF SubmitStep
<1>2. ASSUME NEW j \in Jobs, WorkerStep(j) PROVE [Lifecycle!Next]_Seen
  <2>1. worker[j] \in Executing => submitter[j] # "new"
    BY DEF IInv, JobInv, FutureFollowsWorker, Executing
  <2>2. record[j] \in JobRecord /\ RecordFollowsWorker(j)
    BY DEF IInv, TypeOK, JobInv
  <2>3. ASSUME NEW at \in Executing, NEW rec, NEW next, Write(j, at, rec, next)
        PROVE  /\ Seen[j] = record[j].status /\ Seen'[j] = rec.status
               /\ \A i \in Jobs \ {j} : Seen'[i] = Seen[i]
    BY <2>1, <2>3 DEF IInv, TypeOK, Write, Seen
  <2>4. CASE WriteRunning(j)
    <3>1. /\ Seen[j] = "PENDING" /\ Seen'[j] = "RUNNING"
          /\ \A i \in Jobs \ {j} : Seen'[i] = Seen[i]
      <4>1. worker[j] = "start" /\ "start" \in Executing
        BY <2>4 DEF WriteRunning, Write, Executing
      <4>2. [record[j] EXCEPT !.status = "RUNNING"].status = "RUNNING" /\ record[j].status = "PENDING"
        BY <2>2, <4>1 DEF RecordFollowsWorker, JobRecord
      <4> QED
        BY <2>3, <2>4, <4>1, <4>2 DEF WriteRunning
    <3> QED
      BY <3>1, SeenMove DEF Lifecycle!Next, Lifecycle!Start
  <2>5. CASE WriteCompleted(j)
    <3>1. /\ Seen[j] = "RUNNING" /\ Seen'[j] = "COMPLETED"
          /\ \A i \in Jobs \ {j} : Seen'[i] = Seen[i]
      <4>1. worker[j] = "result" /\ "result" \in Executing
        BY <2>5 DEF WriteCompleted, Write, Executing
      <4>2. [record[j] EXCEPT !.status = "COMPLETED"].status = "COMPLETED" /\ record[j].status = "RUNNING"
        BY <2>2, <4>1 DEF RecordFollowsWorker, JobRecord
      <4> QED
        BY <2>3, <2>5, <4>1, <4>2 DEF WriteCompleted
    <3> QED
      BY <3>1, SeenMove DEF Lifecycle!Next, Lifecycle!Complete
  <2>6. CASE WriteFailed(j)
    <3>1. /\ Seen[j] = "RUNNING" /\ Seen'[j] = "FAILED"
          /\ \A i \in Jobs \ {j} : Seen'[i] = Seen[i]
      <4>1. worker[j] = "call" /\ "call" \in Executing
        BY <2>6 DEF WriteFailed, Write, Executing
      <4>2. [record[j] EXCEPT !.status = "FAILED"].status = "FAILED" /\ record[j].status = "RUNNING"
        BY <2>2, <4>1 DEF RecordFollowsWorker, JobRecord
      <4> QED
        BY <2>3, <2>6, <4>1, <4>2 DEF WriteFailed
    <3> QED
      BY <3>1, SeenMove DEF Lifecycle!Next, Lifecycle!Fail
  <2>7. CASE WriteResult(j) \/ WriteProgress(j) \/ WriteError(j) \/ WriteFinally(j)
    <3>1. \A i \in Jobs : record'[i].status = record[i].status
      BY <2>2, <2>7 DEF IInv, TypeOK, JobRecord, WriteResult, WriteProgress, WriteError,
         WriteFinally, Write
    <3>2. submitter' = submitter
      BY <2>7 DEF WriteResult, WriteProgress, WriteError, WriteFinally, Write
    <3> QED
      BY <3>1, <3>2 DEF Seen
  <2>8. CASE ResolveFuture(j)
    BY <2>8 DEF Seen, ResolveFuture
  <2> QED
    BY <1>2, <2>4, <2>5, <2>6, <2>7, <2>8 DEF WorkerStep
<1>3. ASSUME NEW j \in Jobs, CancelStep(j) PROVE [Lifecycle!Next]_Seen
  <2>1. CASE CancelFuture(j)
    BY <2>1 DEF Seen, CancelFuture
  <2>2. CASE MarkCancelled(j)
    <3>1. /\ record[j] \in JobRecord
          /\ record[j].status \in {"PENDING", "CANCELLED"}
          /\ submitter[j] # "new"
      BY <2>2 DEF IInv, TypeOK, JobInv, RecordFollowsWorker, FutureFollowsWorker, MarkCancelled,
         Executing
    <3>2. /\ record'[j].status = "CANCELLED"
          /\ \A i \in Jobs \ {j} : record'[i] = record[i]
          /\ submitter' = submitter
      BY <2>2, <3>1 DEF IInv, TypeOK, MarkCancelled, JobRecord
    <3>3. CASE record[j].status = "PENDING"
      BY <3>1, <3>2, <3>3, SeenMove DEF Seen, Lifecycle!Next, Lifecycle!Cancel
    <3>4. CASE record[j].status = "CANCELLED"
      BY <3>1, <3>2, <3>4 DEF Seen
    <3> QED
      BY <3>1, <3>3, <3>4
  <2> QED
    BY <1>3, <2>1, <2>2 DEF CancelStep
<1>4. CASE PickWork \/ Reset \/ UNCHANGED vars
  BY <1>4 DEF Seen, PickWork, Reset, vars
<1> QED
  BY <1>1, <1>2, <1>3, <1>4 DEF Next

\* The runner implements the life cycle it promises its clients.
THEOREM Refinement == Spec => ImplementsLifecycle
<1>1. Init => Lifecycle!Init
  BY DEF Init, Lifecycle!Init, Lifecycle!Absent, Seen
<1>2. IInv /\ [Next]_vars => [Lifecycle!Next]_Seen
  BY StepRefines
<1>3. Init /\ [][Next]_vars => Lifecycle!Init /\ [][Lifecycle!Next]_Seen
  <2>1. Init /\ [][Next]_vars => []IInv
    BY InitIInv, NextIInv, PTL
  <2> QED
    BY <1>1, <1>2, <2>1, PTL
<1> QED
  BY <1>3 DEF Spec, ImplementsLifecycle, Lifecycle!Spec
=============================================================================
