----------------------------- MODULE BrowserProofs -----------------------------
(***************************************************************************)
(* Proofs about what browsers see: sessions that train in the background,  *)
(* the pages of one session, and exports, for any number of sessions, jobs *)
(* and threads, any datasets and any files.                                *)
(***************************************************************************)
EXTENDS MCBrowser, JobRunnerProofs, FiniteSetTheorems, SequenceTheorems

-----------------------------------------------------------------------------
(* Sessions: the invariant *)

\* The statements at which a session's script has a job in its hands, and those
\* of poll_active_job() once it knows the job.
WithJob == {"poll", "apply", "report", "bytes", "read57", "snapshot", "forget", "read93", "read99", "read102",
            "read70", "submit"}
Polling == {"poll", "apply", "report", "bytes", "read57", "snapshot", "forget"}

State      == [dataset : Datasets \cup {None}, bundle : Artifacts, report : Jobs \cup {None},
               bytes : Jobs \cup {None}, active : Jobs \cup {None}, jobResult : Snapshot \cup {None}]
Statements == {"rest", "sync", "fragment", "returned", "tracked", "clearBundle", "clearReport"} \cup WithJob
Locals     == [job : Jobs \cup {None}, caller : {"sync", "fragment", "inline"},
               phase : {"idle", "completed", "failed"}, click : {"none", "background", "inline"}]
Views      == {"elsewhere", "form", "running", "failure", "exception"}
Tears      == {"none", "poll", "lost", "inline", "load"}

\* Report and model of one training, or how it came that they are not: a poll
\* that was cut left the job tracked, and the next script begins by polling it.
OfOneTraining(st) == st.report # None => st.bundle \in {st.report, Uploaded}
Matches(st, statement, tear) ==
  \/ OfOneTraining(st)
  \/ statement \in {"report", "clearReport"}
  \/ tear \in {"inline", "load", "lost"}
  \/ /\ tear = "poll" /\ st.bundle \in Jobs /\ st.active = st.bundle
     /\ record[st.bundle].status = "COMPLETED"
     /\ statement \in {"rest", "sync", "fragment", "poll", "apply", "clearBundle"}

\* What a script at a statement knows, although workers write the record
\* meanwhile: with state st, locals lo, and v on screen.
Fits(st, statement, lo, v, tear) ==
  /\ statement \in WithJob => lo.job \in Jobs
  /\ statement \in Polling =>
       \/ lo.caller = "inline" /\ statement \in {"apply", "report", "bytes"}
       \/ lo.caller # "inline" /\ st.active = lo.job
  /\ statement \in {"apply", "report", "bytes"} /\ lo.caller # "inline" => record[lo.job].status = "COMPLETED"
  /\ statement \in {"report", "bytes"} => st.bundle = lo.job
  /\ statement = "bytes" => st.report = lo.job
  /\ statement \in {"snapshot", "forget"} =>
       /\ record[lo.job].status \in Terminal
       /\ record[lo.job].status = "COMPLETED" =>
            st.bundle = lo.job /\ st.report = lo.job /\ st.bytes = lo.job
  /\ statement = "forget" => st.jobResult = [job |-> lo.job, status |-> record[lo.job].status]
  /\ statement # "rest" \/ v # "elsewhere" => st.dataset # None
  /\ Matches(st, statement, tear)

ScriptInv(s) == Fits(session[s], script[s], local[s], view[s], torn[s])

\* The jobs a session has to do with.
Named(st, lo) == {st.active, st.report, st.bytes, st.bundle, lo.job} \cap Jobs
Holds(s) == Named(session[s], local[s])

HeldOnce ==
  /\ \A s, t \in Sessions : s # t => Holds(s) \cap Holds(t) = {}
  /\ \A s \in Sessions : \A j \in Holds(s) : trainedOn[j] # None

SessionInv ==
  /\ IInv
  /\ SessionTypeOK
  /\ \A s \in Sessions : ScriptInv(s)
  /\ HeldOnce

-----------------------------------------------------------------------------
(* Sessions: the steps *)

\* The final status of a job does not change any more, whoever writes.
LEMMA TerminalIsFinal ==
  ASSUME IInv, [Next]_vars, NEW j \in Jobs, record[j].status \in Terminal
  PROVE  record'[j].status = record[j].status
<1>1. /\ record \in [Jobs -> JobRecord] /\ RecordFollowsWorker(j) /\ FutureFollowsWorker(j)
  BY DEF IInv, TypeOK, JobInv
<1>2. ASSUME NEW i \in Jobs, WorkerStep(i) PROVE record'[j].status = record[j].status
  <2>1. CASE WriteRunning(i) \/ WriteCompleted(i) \/ WriteFailed(i)
    <3>1. /\ worker[i] \in {"start", "call", "result"}
          /\ \E status \in JobStatus : record' = [record EXCEPT ![i] = [record[i] EXCEPT !.status = status]]
      BY <2>1 DEF WriteRunning, WriteCompleted, WriteFailed, Write, JobStatus
    <3>2. i # j
      BY <1>1, <3>1 DEF RecordFollowsWorker, Terminal
    <3> QED
      BY <1>1, <3>1, <3>2
  <2>2. CASE WriteResult(i) \/ WriteProgress(i) \/ WriteError(i) \/ WriteFinally(i)
    <3>1. \/ record' = [record EXCEPT ![i] = [record[i] EXCEPT !.result = TRUE]]
          \/ record' = [record EXCEPT ![i] = [record[i] EXCEPT !.finished = TRUE]]
          \/ record' = [record EXCEPT ![i] = [record[i] EXCEPT !.error = TRUE]]
          \/ record' = [record EXCEPT ![i] = [record[i] EXCEPT !.completed = TRUE]]
      BY <2>2 DEF WriteResult, WriteProgress, WriteError, WriteFinally, Write
    <3> QED
      BY <1>1, <3>1 DEF JobRecord
  <2>3. CASE ResolveFuture(i)
    BY <2>3 DEF ResolveFuture
  <2> QED
    BY <1>2, <2>1, <2>2, <2>3 DEF WorkerStep
<1>3. ASSUME NEW i \in Jobs, CancelStep(i) PROVE record'[j].status = record[j].status
  <2>1. j \in canceller => record[j].status \in {"PENDING", "CANCELLED"}
    BY <1>1 DEF FutureFollowsWorker, RecordFollowsWorker, Executing, IInv, TypeOK
  <2> QED
    BY <1>1, <1>3, <2>1 DEF CancelStep, CancelFuture, MarkCancelled, Terminal, JobRecord
<1>4. ASSUME NEW i \in Jobs, SubmitStep(i) PROVE record'[j].status = record[j].status
  BY <1>4 DEF SubmitStep, PublishRecord, Enqueue, EnqueueRaises, RegisterFuture
<1>5. CASE PickWork \/ Reset \/ UNCHANGED vars
  BY <1>5 DEF PickWork, Reset, vars
<1> QED
  BY <1>2, <1>3, <1>4, <1>5 DEF Next

LEMMA SessionInitInv == InitAll => SessionInv
<1> SUFFICES ASSUME InitAll PROVE SessionInv
  OBVIOUS
<1>1. IInv
  BY InitIInv DEF InitAll
<1>2. /\ session = [s \in Sessions |-> NewSession] /\ script = [s \in Sessions |-> "rest"]
      /\ local = [s \in Sessions |-> NoLocals] /\ view = [s \in Sessions |-> "elsewhere"]
      /\ trainedOn = [j \in Jobs |-> None] /\ reported = {} /\ torn = [s \in Sessions |-> "none"]
  BY DEF InitAll, InitSession
<1>3. SessionTypeOK
  BY <1>2 DEF SessionTypeOK, NewSession, NoLocals, Artifacts
<1>4. \A s \in Sessions : ScriptInv(s)
  BY <1>2 DEF ScriptInv, Fits, Matches, OfOneTraining, NewSession, NoLocals, WithJob, Polling
<1>5. \A s \in Sessions : Holds(s) = {}
  BY <1>2, NamesAssumption DEF Holds, Named, NewSession, NoLocals
<1> QED
  BY <1>1, <1>3, <1>4, <1>5 DEF SessionInv, HeldOnce

\* Types under the names the proofs use.
LEMMA SessionTypes ==
  ASSUME SessionInv
  PROVE  /\ session \in [Sessions -> State] /\ script \in [Sessions -> Statements]
         /\ local \in [Sessions -> Locals] /\ view \in [Sessions -> Views] /\ torn \in [Sessions -> Tears]
         /\ trainedOn \in [Jobs -> Datasets \cup {None}] /\ reported \subseteq Jobs
BY DEF SessionInv, SessionTypeOK, State, Statements, Locals, Views, Tears, WithJob

\* A step of one session's script that leaves the jobs alone keeps the invariant
\* if it leaves that session consistent and gives it no job it did not have.
LEMMA SessionMoves ==
  ASSUME SessionInv, NEW s \in Sessions, UNCHANGED <<vars, trainedOn>>, reported' \subseteq Jobs,
         NEW st \in State, NEW statement \in Statements, NEW lo \in Locals, NEW v \in Views, NEW tear \in Tears,
         session' = [session EXCEPT ![s] = st], script' = [script EXCEPT ![s] = statement],
         local' = [local EXCEPT ![s] = lo], view' = [view EXCEPT ![s] = v], torn' = [torn EXCEPT ![s] = tear],
         Fits(st, statement, lo, v, tear), Named(st, lo) \subseteq Holds(s)
  PROVE  SessionInv'
<1>0. /\ session \in [Sessions -> State] /\ script \in [Sessions -> Statements]
      /\ local \in [Sessions -> Locals] /\ view \in [Sessions -> Views] /\ torn \in [Sessions -> Tears]
  BY SessionTypes
<1>1. /\ session'[s] = st /\ script'[s] = statement /\ local'[s] = lo /\ view'[s] = v /\ torn'[s] = tear
      /\ \A t \in Sessions \ {s} : /\ session'[t] = session[t] /\ script'[t] = script[t]
                                   /\ local'[t] = local[t] /\ view'[t] = view[t] /\ torn'[t] = torn[t]
  BY <1>0
<1>2. IInv'
  BY NextIInv DEF SessionInv
<1>3. SessionTypeOK'
  <2>1. /\ session' \in [Sessions -> State] /\ script' \in [Sessions -> Statements]
        /\ local' \in [Sessions -> Locals] /\ view' \in [Sessions -> Views] /\ torn' \in [Sessions -> Tears]
    BY <1>0
  <2> QED
    BY <2>1 DEF SessionInv, SessionTypeOK, State, Statements, Locals, Views, Tears, WithJob
<1>4. \A t \in Sessions : ScriptInv(t)'
  <2>1. record' = record
    BY DEF vars
  <2>2. ScriptInv(s)'
    BY <1>1, <2>1 DEF ScriptInv, Fits, Matches
  <2>3. ASSUME NEW t \in Sessions \ {s} PROVE ScriptInv(t)'
    <3>1. ScriptInv(t)
      BY DEF SessionInv
    <3> QED
      BY <1>1, <2>1, <3>1 DEF ScriptInv, Fits, Matches
  <2> QED
    BY <2>2, <2>3
<1>5. HeldOnce'
  <2>1. Holds(s)' \subseteq Holds(s) /\ \A t \in Sessions \ {s} : Holds(t)' = Holds(t)
    BY <1>1 DEF Holds, Named
  <2> QED
    BY <2>1 DEF SessionInv, HeldOnce
<1> QED
  BY <1>2, <1>3, <1>4, <1>5 DEF SessionInv

\* The values of one session, and what it is to leave them alone.
LEMMA SessionFacts ==
  ASSUME SessionInv, NEW s \in Sessions
  PROVE  /\ session[s] \in State /\ script[s] \in Statements
         /\ local[s] \in Locals /\ view[s] \in Views /\ torn[s] \in Tears
         /\ session = [session EXCEPT ![s] = session[s]]
         /\ local = [local EXCEPT ![s] = local[s]]
         /\ view = [view EXCEPT ![s] = view[s]]
         /\ torn = [torn EXCEPT ![s] = torn[s]]
         /\ reported \subseteq Jobs
         /\ Fits(session[s], script[s], local[s], view[s], torn[s])
<1>1. /\ session \in [Sessions -> State] /\ script \in [Sessions -> Statements]
      /\ local \in [Sessions -> Locals] /\ view \in [Sessions -> Views] /\ torn \in [Sessions -> Tears]
      /\ reported \subseteq Jobs
  BY SessionTypes
<1>2. Fits(session[s], script[s], local[s], view[s], torn[s])
  BY DEF SessionInv, ScriptInv
<1> QED
  BY <1>1, <1>2

\* The script goes on to another statement.
LEMMA ScriptGoes ==
  ASSUME SessionInv, NEW s \in Sessions, NEW statement \in Statements,
         UNCHANGED <<vars, session, local, view, trainedOn, reported, torn>>, Goto(s, statement),
         Fits(session[s], statement, local[s], view[s], torn[s])
  PROVE  SessionInv'
<1>1. /\ session' = [session EXCEPT ![s] = session[s]] /\ torn' = [torn EXCEPT ![s] = torn[s]]
      /\ local' = [local EXCEPT ![s] = local[s]] /\ view' = [view EXCEPT ![s] = view[s]]
  BY SessionFacts
<1>2. script' = [script EXCEPT ![s] = statement] /\ UNCHANGED <<vars, trainedOn>> /\ reported' \subseteq Jobs
  BY SessionFacts DEF Goto
<1>3. session[s] \in State /\ local[s] \in Locals /\ view[s] \in Views /\ torn[s] \in Tears
  BY SessionFacts
<1>4. Named(session[s], local[s]) \subseteq Holds(s)
  BY DEF Holds
<1> QED
  BY <1>1, <1>2, <1>3, <1>4, SessionMoves

\* The script changes the session's state and its locals.
LEMMA ScriptWrites ==
  ASSUME SessionInv, NEW s \in Sessions, NEW st \in State, NEW statement \in Statements, NEW lo \in Locals,
         NEW tear \in Tears, UNCHANGED <<vars, view, trainedOn>>, reported' \subseteq Jobs,
         session' = [session EXCEPT ![s] = st], local' = [local EXCEPT ![s] = lo], Goto(s, statement),
         torn' = [torn EXCEPT ![s] = tear],
         Fits(st, statement, lo, view[s], tear), Named(st, lo) \subseteq Holds(s)
  PROVE  SessionInv'
<1>1. view' = [view EXCEPT ![s] = view[s]] /\ view[s] \in Views
  BY SessionFacts
<1>2. script' = [script EXCEPT ![s] = statement] /\ UNCHANGED <<vars, trainedOn>>
  BY DEF Goto
<1> QED
  BY <1>1, <1>2, SessionMoves

\* The script returns from sync_background_training(), or the page runs from
\* its top, without a job in its hands.
LEMMA ScriptResets ==
  ASSUME SessionInv, NEW s \in Sessions, NEW st \in State, NEW tear \in Tears,
         UNCHANGED <<vars, view, trainedOn>>, reported' \subseteq Jobs,
         session' = [session EXCEPT ![s] = st], torn' = [torn EXCEPT ![s] = tear],
         (\E ph \in {"idle", "completed", "failed"} : Return(s, ph) /\ Matches(st, "returned", tear))
           \/ (\E click \in {"none", "background", "inline"} : RunPage(s, click) /\ Matches(st, "sync", tear)),
         st.dataset # None,
         {st.active, st.report, st.bytes, st.bundle} \cap Jobs \subseteq Holds(s)
  PROVE  SessionInv'
<1>0. local[s] \in Locals
  BY SessionFacts
<1>1. PICK statement \in {"returned", "sync"}, lo \in Locals :
        /\ lo.job = None /\ local' = [local EXCEPT ![s] = lo] /\ Goto(s, statement)
        /\ Matches(st, statement, tear)
  BY <1>0 DEF Return, RunPage, NoLocals, Locals
<1>2. statement \in Statements /\ statement \notin WithJob \cup Polling
  BY DEF Statements, WithJob, Polling
<1>3. Fits(st, statement, lo, view[s], tear)
  BY <1>1, <1>2 DEF Fits
<1>4. Named(st, lo) \subseteq Holds(s)
  BY <1>1, NamesAssumption DEF Named
<1> QED
  BY <1>1, <1>2, <1>3, <1>4, ScriptWrites

\* A page is shown; with a dataset, unless it is another page.
LEMMA PageShown ==
  ASSUME SessionInv, NEW s \in Sessions, NEW st \in State, NEW v \in Views, NEW tear \in Tears,
         UNCHANGED <<vars, trainedOn, reported>>,
         session' = [session EXCEPT ![s] = st], torn' = [torn EXCEPT ![s] = tear], Show(s, v),
         v # "elsewhere" => st.dataset # None,
         Matches(st, "rest", tear),
         {st.active, st.report, st.bytes, st.bundle} \cap Jobs \subseteq Holds(s)
  PROVE  SessionInv'
<1>0. local[s] \in Locals /\ reported \subseteq Jobs
  BY SessionFacts
<1> DEFINE lo == [NoLocals EXCEPT !.caller = IF v = "exception" THEN local[s].caller ELSE @]
<1>1. /\ lo \in Locals /\ lo.job = None
      /\ local' = [local EXCEPT ![s] = lo] /\ view' = [view EXCEPT ![s] = v]
      /\ script' = [script EXCEPT ![s] = "rest"]
  BY <1>0 DEF Show, Locals, NoLocals, Goto
<1>2. "rest" \in Statements /\ "rest" \notin WithJob \cup Polling
  BY DEF Statements, WithJob, Polling
<1>3. Fits(st, "rest", lo, v, tear)
  BY <1>2 DEF Fits
<1>4. Named(st, lo) \subseteq Holds(s)
  BY <1>1, NamesAssumption DEF Named
<1> HIDE DEF lo
<1>5. reported' \subseteq Jobs
  BY <1>0
<1> QED
  BY <1>1, <1>2, <1>3, <1>4, <1>5, SessionMoves

-----------------------------------------------------------------------------
(* Sessions: polling *)

\* What poll_active_job() knows of a session is the same whoever asks, and it
\* is tracked work that the session already holds.
LEMMA SyncStartInv ==
  ASSUME SessionInv, NEW s \in Sessions, SyncStart(s) PROVE SessionInv'
<1>0. /\ session[s] \in State /\ local[s] \in Locals /\ torn[s] \in Tears
      /\ Fits(session[s], "sync", local[s], view[s], torn[s])
      /\ session' = [session EXCEPT ![s] = session[s]] /\ torn' = [torn EXCEPT ![s] = torn[s]]
      /\ reported' \subseteq Jobs /\ UNCHANGED <<vars, view, trainedOn>>
  BY SessionFacts DEF SyncStart
<1>1. CASE session[s].active = None
  <2>1. Return(s, "idle")
    BY <1>1 DEF SyncStart
  <2>2. Matches(session[s], "returned", torn[s]) /\ session[s].dataset # None
    BY <1>0, <1>1, NamesAssumption DEF Fits, Matches
  <2>3. {session[s].active, session[s].report, session[s].bytes, session[s].bundle} \cap Jobs \subseteq Holds(s)
    BY DEF Holds, Named
  <2> QED
    BY <1>0, <2>1, <2>2, <2>3, ScriptResets
<1>2. CASE session[s].active # None
  <2> DEFINE lo == [local[s] EXCEPT !.job = session[s].active, !.caller = "sync"]
  <2>1. local' = [local EXCEPT ![s] = lo] /\ Goto(s, "poll")
    BY <1>0, <1>2 DEF SyncStart
  <2>2. lo \in Locals /\ lo.job = session[s].active /\ lo.caller = "sync" /\ "poll" \in Statements /\ lo.job \in Jobs
    BY <1>0, <1>2 DEF Locals, State, Statements, WithJob
  <2>3. Fits(session[s], "poll", lo, view[s], torn[s]) /\ Named(session[s], lo) \subseteq Holds(s)
    BY <1>0, <2>2 DEF Fits, Matches, Named, Holds
  <2> HIDE DEF lo
  <2> QED
    BY <1>0, <2>1, <2>2, <2>3, ScriptWrites
<1> QED
  BY <1>1, <1>2

\* poll_active_job() returns.
LEMMA PollReturnsInv ==
  ASSUME SessionInv, NEW s \in Sessions, script[s] \in WithJob, NEW st \in State,
         UNCHANGED <<vars, local, view, trainedOn, reported, torn>>, PollReturns(s),
         session' = [session EXCEPT ![s] = st],
         st = session[s] \/ st = [session[s] EXCEPT !.active = None],
         OfOneTraining(session[s]) \/ torn[s] \in {"inline", "load", "lost"}
  PROVE  SessionInv'
<1>0. /\ session[s] \in State /\ local[s] \in Locals /\ torn[s] \in Tears
      /\ Fits(session[s], script[s], local[s], view[s], torn[s])
      /\ local' = [local EXCEPT ![s] = local[s]] /\ torn' = [torn EXCEPT ![s] = torn[s]] /\ reported' \subseteq Jobs
  BY SessionFacts
<1>1. PICK statement \in {"read93", "read70"} : Goto(s, statement)
  BY DEF PollReturns
<1>2. statement \in Statements /\ statement \in WithJob /\ statement \notin Polling
      /\ statement # "returned"
  BY DEF Statements, WithJob, Polling
<1>3. /\ st.report = session[s].report /\ st.bundle = session[s].bundle /\ st.bytes = session[s].bytes
      /\ st.dataset = session[s].dataset /\ st.active \in {session[s].active, None}
  BY <1>0 DEF State
<1>4. Fits(st, statement, local[s], view[s], torn[s])
  <2>1. script[s] # "rest"
    BY DEF WithJob
  <2>2. Matches(st, statement, torn[s])
    BY <1>3 DEF Matches, OfOneTraining
  <2> QED
    BY <1>0, <1>2, <1>3, <2>1, <2>2 DEF Fits, Polling
<1>5. Named(st, local[s]) \subseteq Holds(s)
  BY <1>3, NamesAssumption DEF Holds, Named
<1> QED
  BY <1>0, <1>1, <1>2, <1>4, <1>5, ScriptWrites

\* A job that the runner does not know has no report to come.
LEMMA PollUnknownInv ==
  ASSUME SessionInv, NEW s \in Sessions, PollUnknown(s) PROVE SessionInv'
<1>0. /\ session[s] \in State /\ local[s] \in Locals /\ torn[s] \in Tears
      /\ Fits(session[s], "poll", local[s], view[s], torn[s]) /\ reported' \subseteq Jobs
  BY SessionFacts DEF PollUnknown
<1> DEFINE st   == [session[s] EXCEPT !.active = None]
           tear == IF torn[s] = "poll" THEN "lost" ELSE torn[s]
<1>1. /\ UNCHANGED <<vars, view, trainedOn>> /\ session' = [session EXCEPT ![s] = st]
      /\ torn' = [torn EXCEPT ![s] = tear] /\ tear \in Tears
      /\ Return(s, "idle") \/ RunPage(s, "none")
  BY <1>0 DEF PollUnknown, Put, RunPage, Tears
<1>2. /\ st.report = session[s].report /\ st.bundle = session[s].bundle /\ st.bytes = session[s].bytes
      /\ st.dataset = session[s].dataset /\ st.active = None /\ st \in State
  BY <1>0 DEF State
<1>3. Matches(st, "returned", tear) /\ Matches(st, "sync", tear) /\ st.dataset # None
  BY <1>0, <1>2 DEF Fits, Matches, OfOneTraining
<1>4. {st.active, st.report, st.bytes, st.bundle} \cap Jobs \subseteq Holds(s)
  BY <1>2, NamesAssumption DEF Holds, Named
<1> HIDE DEF st, tear
<1> QED
  BY <1>0, <1>1, <1>2, <1>3, <1>4, ScriptResets

\* The poll reads a status that is final already, or goes on.
LEMMA PollStatusInv ==
  ASSUME SessionInv, NEW s \in Sessions, PollStatus(s) \/ PollOtherStatus(s) PROVE SessionInv'
<1>0. /\ session[s] \in State /\ Fits(session[s], script[s], local[s], view[s], torn[s])
      /\ session = [session EXCEPT ![s] = session[s]]
  BY SessionFacts
<1>1. /\ script[s] \in {"poll", "read57"} /\ script[s] \in WithJob \cap Polling
      /\ UNCHANGED <<vars, session, local, view, trainedOn, reported, torn>>
  BY DEF PollStatus, PollOtherStatus, WithJob, Polling
<1>2. local[s].caller # "inline" /\ session[s].active = local[s].job
  BY <1>0, <1>1 DEF Fits
<1>3. ASSUME NEW statement \in {"apply", "read57", "snapshot"}, Goto(s, statement),
             Matches(session[s], statement, torn[s]),
             statement = "apply" => Polled(s) = "COMPLETED",
             statement = "snapshot" => Polled(s) \in {"FAILED", "CANCELLED"}
      PROVE  SessionInv'
  <2>1. Fits(session[s], statement, local[s], view[s], torn[s])
    BY <1>0, <1>1, <1>2, <1>3 DEF Fits, WithJob, Polling, Polled, Terminal
  <2>2. statement \in Statements
    BY DEF Statements, WithJob
  <2> QED
    BY <1>1, <1>3, <2>1, <2>2, ScriptGoes
<1>4. CASE PollStatus(s)
  <2>1. Matches(session[s], "poll", torn[s])
    BY <1>0, <1>4 DEF PollStatus, Fits
  <2>2. CASE Polled(s) = "COMPLETED"
    <3>1. Matches(session[s], "apply", torn[s])
      BY <2>1 DEF Matches
    <3> QED
      BY <1>3, <1>4, <2>2, <3>1 DEF PollStatus
  <2>3. CASE Polled(s) # "COMPLETED"
    <3>1. Matches(session[s], "read57", torn[s])
      BY <1>2, <2>1, <2>3 DEF Matches, Polled
    <3> QED
      BY <1>3, <1>4, <2>3, <3>1 DEF PollStatus
  <2> QED
    BY <2>2, <2>3
<1>5. CASE PollOtherStatus(s)
  <2>1. Matches(session[s], "read57", torn[s])
    BY <1>0, <1>5 DEF PollOtherStatus, Fits
  <2>2. OfOneTraining(session[s]) \/ torn[s] \in {"inline", "load", "lost"}
    BY <2>1 DEF Matches
  <2>3. CASE Polled(s) \in {"FAILED", "CANCELLED"}
    <3>1. Matches(session[s], "snapshot", torn[s])
      BY <2>2 DEF Matches
    <3> QED
      BY <1>3, <1>5, <2>3, <3>1 DEF PollOtherStatus
  <2>4. CASE Polled(s) \notin {"FAILED", "CANCELLED"}
    <3>1. PollReturns(s)
      BY <1>5, <2>4 DEF PollOtherStatus
    <3> QED
      BY <1>0, <1>1, <2>2, <3>1, PollReturnsInv
  <2> QED
    BY <2>3, <2>4
<1> QED
  BY <1>4, <1>5

\* A script puts one artifact of the job in its hands into the session.
LEMMA ScriptPersists ==
  ASSUME SessionInv, NEW s \in Sessions, script[s] \in {"apply", "report", "bytes"}, NEW st \in State,
         NEW statement \in Statements, NEW tear \in Tears,
         UNCHANGED <<vars, local, view, trainedOn, reported>>,
         session' = [session EXCEPT ![s] = st], torn' = [torn EXCEPT ![s] = tear], Goto(s, statement),
         st.active = session[s].active,
         st.bundle \in {session[s].bundle, local[s].job},
         st.report \in {session[s].report, local[s].job},
         st.bytes \in {session[s].bytes, local[s].job},
         Fits(st, statement, local[s], view[s], tear)
  PROVE  SessionInv'
<1>1. /\ local' = [local EXCEPT ![s] = local[s]] /\ reported' \subseteq Jobs /\ local[s] \in Locals
      /\ UNCHANGED <<vars, view, trainedOn>>
  BY SessionFacts
<1>2. Named(st, local[s]) \subseteq Holds(s)
  BY DEF Named, Holds
<1> QED
  BY <1>1, <1>2, ScriptWrites

\* The result is there when the status says so, and stays what it is.
LEMMA PersistModelInv ==
  ASSUME SessionInv, NEW s \in Sessions, PersistModel(s) PROVE SessionInv'
<1>0. /\ session[s] \in State /\ local[s] \in Locals /\ torn[s] \in Tears
      /\ Fits(session[s], "apply", local[s], view[s], torn[s])
      /\ UNCHANGED <<vars, local, view, trainedOn, reported>> /\ torn' = [torn EXCEPT ![s] = torn[s]]
      /\ script[s] \in {"apply", "report", "bytes"}
  BY SessionFacts DEF PersistModel
<1> DEFINE j  == local[s].job
           st == [session[s] EXCEPT !.bundle = j]
<1>1. /\ j \in Jobs /\ session[s].dataset # None
      /\ local[s].caller = "inline" \/ (session[s].active = j /\ record[j].status = "COMPLETED")
  BY <1>0 DEF Fits, WithJob, Polling
<1>2. local[s].caller = "inline" \/ record[j].result
  BY <1>1 DEF SessionInv, IInv, TypeOK, JobInv, RecordFollowsWorker, Fields, Executing
<1>3. session' = [session EXCEPT ![s] = st] /\ Goto(s, "report")
  BY <1>2 DEF PersistModel, Put
<1>4. /\ st \in State /\ st.report = session[s].report /\ st.bundle = j /\ st.bytes = session[s].bytes
      /\ st.active = session[s].active /\ st.dataset = session[s].dataset
  BY <1>0, <1>1 DEF State, Artifacts
<1>5. "report" \in Statements /\ Fits(st, "report", local[s], view[s], torn[s])
  BY <1>0, <1>1, <1>4 DEF Fits, Matches, Statements, WithJob, Polling
<1> HIDE DEF st
<1> QED
  BY <1>0, <1>3, <1>4, <1>5, ScriptPersists

LEMMA PersistReportInv ==
  ASSUME SessionInv, NEW s \in Sessions, PersistReport(s) PROVE SessionInv'
<1>0. /\ session[s] \in State /\ local[s] \in Locals
      /\ Fits(session[s], "report", local[s], view[s], torn[s])
      /\ UNCHANGED <<vars, local, view, trainedOn, reported>> /\ torn' = [torn EXCEPT ![s] = "none"]
      /\ script[s] \in {"apply", "report", "bytes"} /\ Goto(s, "bytes")
  BY SessionFacts DEF PersistReport
<1> DEFINE j  == local[s].job
           st == [session[s] EXCEPT !.report = j]
<1>1. /\ j \in Jobs /\ session[s].dataset # None /\ session[s].bundle = j
      /\ local[s].caller = "inline" \/ (session[s].active = j /\ record[j].status = "COMPLETED")
  BY <1>0 DEF Fits, WithJob, Polling
<1>2. session' = [session EXCEPT ![s] = st]
  BY DEF PersistReport, Put
<1>3. /\ st \in State /\ st.report = j /\ st.bundle = j /\ st.bytes = session[s].bytes
      /\ st.active = session[s].active /\ st.dataset = session[s].dataset
  BY <1>0, <1>1 DEF State, Artifacts
<1>4. "bytes" \in Statements /\ "none" \in Tears /\ Fits(st, "bytes", local[s], view[s], "none")
  BY <1>0, <1>1, <1>3 DEF Fits, Matches, OfOneTraining, Statements, WithJob, Polling, Tears
<1> HIDE DEF st
<1> QED
  BY <1>0, <1>1, <1>2, <1>3, <1>4, ScriptPersists

\* With the bytes, a training of the script's own thread is done.
LEMMA PersistBytesInv ==
  ASSUME SessionInv, NEW s \in Sessions, PersistBytes(s) PROVE SessionInv'
<1>0. /\ session[s] \in State /\ local[s] \in Locals /\ torn[s] \in Tears
      /\ Fits(session[s], "bytes", local[s], view[s], torn[s])
      /\ UNCHANGED <<vars, trainedOn, reported>> /\ torn' = [torn EXCEPT ![s] = torn[s]]
      /\ script[s] \in {"apply", "report", "bytes"}
  BY SessionFacts DEF PersistBytes
<1> DEFINE j  == local[s].job
           st == [session[s] EXCEPT !.bytes = j]
<1>1. /\ j \in Jobs /\ session[s].dataset # None /\ session[s].bundle = j /\ session[s].report = j
      /\ local[s].caller = "inline" \/ (session[s].active = j /\ record[j].status = "COMPLETED")
  BY <1>0 DEF Fits, WithJob, Polling
<1>2. session' = [session EXCEPT ![s] = st]
  BY DEF PersistBytes, Put
<1>3. /\ st \in State /\ st.report = j /\ st.bundle = j /\ st.bytes = j
      /\ st.active = session[s].active /\ st.dataset = session[s].dataset
  BY <1>0, <1>1 DEF State, Artifacts
<1>4. \A where : Matches(st, where, torn[s])
  BY <1>3 DEF Matches, OfOneTraining
<1>5. CASE local[s].caller = "inline"
  <2>1. Show(s, "form") /\ "form" \in Views
    BY <1>5 DEF PersistBytes, Views
  <2>2. {st.active, st.report, st.bytes, st.bundle} \cap Jobs \subseteq Holds(s)
    BY <1>3 DEF Holds, Named
  <2> HIDE DEF st
  <2> QED
    BY <1>0, <1>1, <1>2, <1>3, <1>4, <2>1, <2>2, PageShown
<1>6. CASE local[s].caller # "inline"
  <2>1. Goto(s, "snapshot") /\ UNCHANGED <<local, view>>
    BY <1>6 DEF PersistBytes
  <2>2. "snapshot" \in Statements /\ Fits(st, "snapshot", local[s], view[s], torn[s])
    BY <1>0, <1>1, <1>3, <1>4, <1>6 DEF Fits, Statements, WithJob, Polling, Terminal
  <2> HIDE DEF st
  <2> QED
    BY <1>0, <1>2, <1>3, <2>1, <2>2, ScriptPersists
<1> QED
  BY <1>5, <1>6

LEMMA TakeSnapshotInv ==
  ASSUME SessionInv, NEW s \in Sessions, TakeSnapshot(s) PROVE SessionInv'
<1>0. /\ session[s] \in State /\ local[s] \in Locals /\ torn[s] \in Tears
      /\ Fits(session[s], "snapshot", local[s], view[s], torn[s])
      /\ local' = [local EXCEPT ![s] = local[s]] /\ torn' = [torn EXCEPT ![s] = torn[s]] /\ reported' \subseteq Jobs
      /\ UNCHANGED <<vars, view, trainedOn>> /\ Goto(s, "forget")
  BY SessionFacts DEF TakeSnapshot
<1> DEFINE snap == [job |-> local[s].job, status |-> Polled(s)]
           st   == [session[s] EXCEPT !.jobResult = snap]
<1>1. snap \in Snapshot /\ snap = [job |-> local[s].job, status |-> record[local[s].job].status]
  BY <1>0 DEF Fits, WithJob, Polled, Snapshot, SessionInv, IInv, TypeOK, JobRecord
<1>2. session' = [session EXCEPT ![s] = st]
  BY DEF TakeSnapshot, Put
<1>3. /\ st \in State /\ st.report = session[s].report /\ st.bundle = session[s].bundle
      /\ st.bytes = session[s].bytes /\ st.active = session[s].active /\ st.dataset = session[s].dataset
      /\ st.jobResult = snap
  BY <1>0, <1>1 DEF State
<1>4. OfOneTraining(session[s]) \/ torn[s] \in {"inline", "load", "lost"}
  BY <1>0 DEF Fits, Matches
<1>5. Matches(st, "forget", torn[s])
  BY <1>3, <1>4 DEF Matches, OfOneTraining
<1> HIDE DEF snap
<1>6. "forget" \in Statements /\ Fits(st, "forget", local[s], view[s], torn[s])
  BY <1>0, <1>1, <1>3, <1>5 DEF Fits, Statements, WithJob, Polling
<1>7. Named(st, local[s]) \subseteq Holds(s)
  BY <1>3 DEF Named, Holds
<1> HIDE DEF st
<1> QED
  BY <1>0, <1>2, <1>3, <1>6, <1>7, ScriptWrites

LEMMA ForgetJobInv ==
  ASSUME SessionInv, NEW s \in Sessions, ForgetJob(s) PROVE SessionInv'
<1>0. /\ session[s] \in State /\ Fits(session[s], "forget", local[s], view[s], torn[s])
  BY SessionFacts DEF ForgetJob
<1>1. [session[s] EXCEPT !.active = None] \in State
  BY <1>0 DEF State
<1>2. /\ UNCHANGED <<vars, local, view, trainedOn, reported, torn>> /\ PollReturns(s) /\ script[s] \in WithJob
      /\ session' = [session EXCEPT ![s] = [session[s] EXCEPT !.active = None]]
  BY DEF ForgetJob, Put, WithJob
<1>3. OfOneTraining(session[s]) \/ torn[s] \in {"inline", "load", "lost"}
  BY <1>0 DEF Fits, Matches
<1> QED
  BY <1>1, <1>2, <1>3, PollReturnsInv

-----------------------------------------------------------------------------
(* Sessions: the page's script and its fragment *)

\* A script that leaves the session's state alone starts a page or returns.
LEMMA ScriptTurns ==
  ASSUME SessionInv, NEW s \in Sessions, session[s].dataset # None,
         OfOneTraining(session[s]) \/ torn[s] \in {"inline", "load", "lost"},
         UNCHANGED <<vars, session, view, trainedOn, torn>>, reported' \subseteq Jobs,
         (\E ph \in {"idle", "completed", "failed"} : Return(s, ph))
           \/ (\E click \in {"none", "background", "inline"} : RunPage(s, click))
  PROVE  SessionInv'
<1>0. /\ session[s] \in State /\ torn[s] \in Tears
      /\ session' = [session EXCEPT ![s] = session[s]] /\ torn' = [torn EXCEPT ![s] = torn[s]]
  BY SessionFacts
<1>1. Matches(session[s], "returned", torn[s]) /\ Matches(session[s], "sync", torn[s])
  BY DEF Matches
<1>2. {session[s].active, session[s].report, session[s].bytes, session[s].bundle} \cap Jobs \subseteq Holds(s)
  BY DEF Holds, Named
<1>3. PICK st \in State, tear \in Tears : st = session[s] /\ tear = torn[s]
  BY <1>0
<1>4. /\ session' = [session EXCEPT ![s] = st] /\ torn' = [torn EXCEPT ![s] = tear]
      /\ UNCHANGED <<vars, view, trainedOn>> /\ st.dataset # None
      /\ {st.active, st.report, st.bytes, st.bundle} \cap Jobs \subseteq Holds(s)
  BY <1>0, <1>2, <1>3
<1>5. \/ \E ph \in {"idle", "completed", "failed"} : Return(s, ph) /\ Matches(st, "returned", tear)
      \/ \E click \in {"none", "background", "inline"} : RunPage(s, click) /\ Matches(st, "sync", tear)
  BY <1>1, <1>3
<1> QED
  BY <1>4, <1>5, ScriptResets

LEMMA SyncReadsInv ==
  ASSUME SessionInv, NEW s \in Sessions,
         SyncReadsRunning(s) \/ SyncReadsCompleted(s) \/ SyncReadsFailed(s)
  PROVE  SessionInv'
<1>0. /\ session[s] \in State /\ Fits(session[s], script[s], local[s], view[s], torn[s]) /\ reported \subseteq Jobs
  BY SessionFacts
<1>1. /\ script[s] \in {"read93", "read99", "read102"}
      /\ UNCHANGED <<vars, session, view, trainedOn, torn>>
  BY DEF SyncReadsRunning, SyncReadsCompleted, SyncReadsFailed
<1>2. /\ local[s].job \in Jobs /\ session[s].dataset # None
      /\ OfOneTraining(session[s]) \/ torn[s] \in {"inline", "load", "lost"}
  BY <1>0, <1>1 DEF Fits, Matches, WithJob
<1>3. ASSUME NEW statement \in {"fragment", "read99", "read102"}, Goto(s, statement), UNCHANGED <<local, reported>>
      PROVE  SessionInv'
  <2>1. Matches(session[s], statement, torn[s])
    BY <1>2 DEF Matches
  <2>2. Fits(session[s], statement, local[s], view[s], torn[s])
    BY <1>2, <2>1 DEF Fits, WithJob, Polling
  <2>3. statement \in Statements
    BY DEF Statements, WithJob
  <2> QED
    BY <1>1, <1>3, <2>2, <2>3, ScriptGoes
<1>4. ASSUME NEW ph \in {"idle", "completed", "failed"}, Return(s, ph), reported' \subseteq Jobs
      PROVE  SessionInv'
  BY <1>1, <1>2, <1>4, ScriptTurns
<1>5. CASE SyncReadsRunning(s)
  BY <1>3, <1>5 DEF SyncReadsRunning
<1>6. CASE SyncReadsCompleted(s)
  BY <1>0, <1>3, <1>4, <1>6 DEF SyncReadsCompleted
<1>7. CASE SyncReadsFailed(s)
  <2>1. reported' \subseteq Jobs
    BY <1>0, <1>2, <1>7 DEF SyncReadsFailed
  <2> QED
    BY <1>4, <1>7, <2>1 DEF SyncReadsFailed
<1> QED
  BY <1>5, <1>6, <1>7

\* The session's state is left alone and a page of the script is shown.
LEMMA ScriptShows ==
  ASSUME SessionInv, NEW s \in Sessions, script[s] \in Statements \ {"rest"}, NEW v \in Views,
         Matches(session[s], "rest", torn[s]),
         UNCHANGED <<vars, session, trainedOn, reported, torn>>, Show(s, v)
  PROVE  SessionInv'
<1>0. /\ session[s] \in State /\ Fits(session[s], script[s], local[s], view[s], torn[s]) /\ torn[s] \in Tears
      /\ session' = [session EXCEPT ![s] = session[s]] /\ torn' = [torn EXCEPT ![s] = torn[s]]
  BY SessionFacts
<1>1. session[s].dataset # None
  BY <1>0 DEF Fits
<1>2. {session[s].active, session[s].report, session[s].bytes, session[s].bundle} \cap Jobs \subseteq Holds(s)
  BY DEF Holds, Named
<1> QED
  BY <1>0, <1>1, <1>2, PageShown

LEMMA FragmentInv ==
  ASSUME SessionInv, NEW s \in Sessions, Fragment(s) PROVE SessionInv'
<1>0. /\ session[s] \in State /\ local[s] \in Locals /\ torn[s] \in Tears
      /\ Fits(session[s], "fragment", local[s], view[s], torn[s])
      /\ session = [session EXCEPT ![s] = session[s]] /\ torn = [torn EXCEPT ![s] = torn[s]] /\ reported \subseteq Jobs
  BY SessionFacts DEF Fragment
<1>1. CASE session[s].active = None
  <2>1. /\ UNCHANGED <<vars, session, trainedOn, reported, torn>> /\ Show(s, "running")
        /\ script[s] \in Statements \ {"rest"} /\ "running" \in Views
    BY <1>1 DEF Fragment, Views, Statements
  <2>2. Matches(session[s], "rest", torn[s])
    BY <1>0 DEF Fits, Matches
  <2> QED
    BY <2>1, <2>2, ScriptShows
<1>2. CASE session[s].active # None
  <2> DEFINE lo == [local[s] EXCEPT !.job = session[s].active, !.caller = "fragment"]
  <2>1. /\ UNCHANGED <<vars, view, trainedOn>> /\ reported' \subseteq Jobs /\ torn' = [torn EXCEPT ![s] = torn[s]]
        /\ session' = [session EXCEPT ![s] = session[s]] /\ local' = [local EXCEPT ![s] = lo] /\ Goto(s, "poll")
    BY <1>0, <1>2 DEF Fragment
  <2>2. lo \in Locals /\ lo.job = session[s].active /\ lo.caller = "fragment" /\ "poll" \in Statements /\ lo.job \in Jobs
    BY <1>0, <1>2 DEF Locals, State, Statements, WithJob
  <2>3. Fits(session[s], "poll", lo, view[s], torn[s]) /\ Named(session[s], lo) \subseteq Holds(s)
    BY <1>0, <2>2 DEF Fits, Matches, Named, Holds
  <2> HIDE DEF lo
  <2> QED
    BY <1>0, <2>1, <2>2, <2>3, ScriptWrites
<1> QED
  BY <1>1, <1>2

LEMMA FragmentReadsStatusInv ==
  ASSUME SessionInv, NEW s \in Sessions, FragmentReadsStatus(s) PROVE SessionInv'
<1>0. Fits(session[s], "read70", local[s], view[s], torn[s]) /\ reported \subseteq Jobs
  BY SessionFacts DEF FragmentReadsStatus
<1>1. /\ session[s].dataset # None /\ script[s] \in Statements \ {"rest"} /\ "running" \in Views
      /\ UNCHANGED <<vars, session, trainedOn, reported, torn>>
      /\ OfOneTraining(session[s]) \/ torn[s] \in {"inline", "load", "lost"}
  BY <1>0 DEF Fits, Matches, FragmentReadsStatus, Views, Statements, WithJob
<1>2. CASE Polled(s) # "RUNNING"
  <2>1. RunPage(s, "none") /\ UNCHANGED view /\ reported' \subseteq Jobs
    BY <1>0, <1>2 DEF FragmentReadsStatus, RunPage
  <2> QED
    BY <1>1, <2>1, ScriptTurns
<1>3. CASE Polled(s) = "RUNNING"
  <2>1. Show(s, "running") /\ Matches(session[s], "rest", torn[s])
    BY <1>1, <1>3 DEF FragmentReadsStatus, Matches
  <2> QED
    BY <1>1, <2>1, ScriptShows
<1> QED
  BY <1>2, <1>3

\* A page that comes to an end has a report that matches, or was torn for good.
LEMMA PageContinuesInv ==
  ASSUME SessionInv, NEW s \in Sessions, PageContinues(s) \/ NoJobLeft(s) PROVE SessionInv'
<1>0. Fits(session[s], "returned", local[s], view[s], torn[s]) /\ local[s] \in Locals /\ reported \subseteq Jobs
  BY SessionFacts DEF PageContinues, NoJobLeft
<1>1. /\ session[s].dataset # None /\ script[s] \in Statements \ {"rest"} /\ {"form", "failure"} \subseteq Views
      /\ UNCHANGED <<vars, session, trainedOn, reported, torn>>
      /\ OfOneTraining(session[s]) \/ torn[s] \in {"inline", "load", "lost"}
  BY <1>0 DEF Fits, Matches, PageContinues, NoJobLeft, Views, Statements
<1>2. CASE Show(s, "form") \/ Show(s, "failure")
  <2>1. Matches(session[s], "rest", torn[s])
    BY <1>1 DEF Matches
  <2> QED
    BY <1>1, <1>2, <2>1, ScriptShows
<1>3. CASE RunPage(s, "none")
  <2>1. UNCHANGED view /\ reported' \subseteq Jobs
    BY <1>0, <1>1, <1>3 DEF RunPage
  <2> QED
    BY <1>1, <1>3, <2>1, ScriptTurns
<1>4. local[s].phase \in {"idle", "completed", "failed"}
  BY <1>0 DEF Locals
<1> QED
  BY <1>2, <1>3, <1>4 DEF PageContinues, NoJobLeft

LEMMA FragmentTickInv ==
  ASSUME SessionInv, NEW s \in Sessions, FragmentTick(s) PROVE SessionInv'
<1>0. Fits(session[s], "rest", local[s], view[s], torn[s])
  BY SessionFacts DEF FragmentTick
<1>1. /\ session[s].dataset # None
      /\ UNCHANGED <<vars, session, local, view, trainedOn, reported, torn>> /\ Goto(s, "fragment")
  BY <1>0 DEF Fits, FragmentTick
<1>2. Fits(session[s], "fragment", local[s], view[s], torn[s]) /\ "fragment" \in Statements
  BY <1>0, <1>1 DEF Fits, Matches, WithJob, Polling, Statements
<1> QED
  BY <1>1, <1>2, ScriptGoes

\* Opening page 4, and a click on it.
LEMMA PageRunsInv ==
  ASSUME SessionInv, NEW s \in Sessions,
         VisitPage4(s) \/ \E how \in {"background", "inline"} : ClickTrain(s, how)
  PROVE  SessionInv'
<1>0. /\ Fits(session[s], "rest", local[s], view[s], torn[s]) /\ session[s] \in State /\ torn[s] \in Tears
      /\ session' = [session EXCEPT ![s] = session[s]] /\ torn' = [torn EXCEPT ![s] = torn[s]]
      /\ reported' \subseteq Jobs
  BY SessionFacts DEF VisitPage4, ClickTrain
<1>1. /\ session[s].dataset # None /\ UNCHANGED <<vars, view, trainedOn>>
      /\ \E click \in {"none", "background", "inline"} : RunPage(s, click)
  BY <1>0 DEF Fits, VisitPage4, ClickTrain, RunPage
<1>2. Matches(session[s], "sync", torn[s])
  BY <1>0 DEF Fits, Matches
<1>3. {session[s].active, session[s].report, session[s].bytes, session[s].bundle} \cap Jobs \subseteq Holds(s)
  BY DEF Holds, Named
<1> QED
  BY <1>0, <1>1, <1>2, <1>3, ScriptResets

\* A submitted job is tracked by the session that submitted it.
LEMMA TrackJobInv ==
  ASSUME SessionInv, NEW s \in Sessions, TrackJob(s) PROVE SessionInv'
<1>0. /\ session[s] \in State /\ local[s] \in Locals /\ torn[s] \in Tears
      /\ Fits(session[s], "submit", local[s], view[s], torn[s])
      /\ local' = [local EXCEPT ![s] = local[s]] /\ torn' = [torn EXCEPT ![s] = torn[s]] /\ reported' \subseteq Jobs
      /\ UNCHANGED <<vars, view, trainedOn>> /\ Goto(s, "tracked")
  BY SessionFacts DEF TrackJob
<1> DEFINE st == [session[s] EXCEPT !.active = local[s].job]
<1>1. session' = [session EXCEPT ![s] = st]
  BY DEF TrackJob, Put
<1>2. local[s].job \in Jobs /\ (OfOneTraining(session[s]) \/ torn[s] \in {"inline", "load", "lost"})
  BY <1>0 DEF Fits, WithJob, Matches
<1>3. /\ st \in State /\ st.report = session[s].report /\ st.bundle = session[s].bundle
      /\ st.bytes = session[s].bytes /\ st.active = local[s].job /\ st.dataset = session[s].dataset
  BY <1>0, <1>2 DEF State
<1>4. Matches(st, "tracked", torn[s])
  BY <1>2, <1>3 DEF Matches, OfOneTraining
<1>5. "tracked" \in Statements /\ Fits(st, "tracked", local[s], view[s], torn[s]) /\ Named(st, local[s]) \subseteq Holds(s)
  BY <1>0, <1>3, <1>4 DEF Fits, Named, Holds, Statements, WithJob, Polling
<1> HIDE DEF st
<1> QED
  BY <1>0, <1>1, <1>3, <1>5, ScriptWrites

LEMMA ClearOutcomeInv ==
  ASSUME SessionInv, NEW s \in Sessions, ClearOutcome(s) PROVE SessionInv'
<1>0. /\ session[s] \in State /\ torn[s] \in Tears /\ Fits(session[s], "tracked", local[s], view[s], torn[s])
      /\ torn' = [torn EXCEPT ![s] = torn[s]] /\ reported' \subseteq Jobs
      /\ UNCHANGED <<vars, view, trainedOn>> /\ RunPage(s, "none")
  BY SessionFacts DEF ClearOutcome, RunPage
<1> DEFINE st == [session[s] EXCEPT !.jobResult = None]
<1>1. session' = [session EXCEPT ![s] = st]
  BY DEF ClearOutcome, Put
<1>2. /\ st \in State /\ st.report = session[s].report /\ st.bundle = session[s].bundle
      /\ st.bytes = session[s].bytes /\ st.active = session[s].active /\ st.dataset = session[s].dataset
  BY <1>0 DEF State
<1>3. Matches(st, "sync", torn[s]) /\ st.dataset # None
  BY <1>0, <1>2 DEF Fits, Matches, OfOneTraining
<1>4. {st.active, st.report, st.bytes, st.bundle} \cap Jobs \subseteq Holds(s)
  BY <1>2 DEF Holds, Named
<1> HIDE DEF st
<1> QED
  BY <1>0, <1>1, <1>2, <1>3, <1>4, ScriptResets

\* submit() or the pickling of the download raised.
LEMMA RaisesInv ==
  ASSUME SessionInv, NEW s \in Sessions, SubmitRaises(s) \/ PersistRaises(s) PROVE SessionInv'
<1>0. Fits(session[s], script[s], local[s], view[s], torn[s])
  BY SessionFacts
<1>1. PICK v \in {"form", "exception"} : Show(s, v)
  BY DEF SubmitRaises, PersistRaises
<1>2. /\ script[s] \in Statements \ {"rest"} /\ {"form", "exception"} \subseteq Views
      /\ UNCHANGED <<vars, session, trainedOn, reported, torn>> /\ script[s] \in {"submit", "bytes"}
  BY DEF SubmitRaises, PersistRaises, Views, Statements, WithJob
<1>3. Matches(session[s], "rest", torn[s])
  BY <1>0, <1>2 DEF Fits, Matches, OfOneTraining
<1> QED
  BY <1>1, <1>2, <1>3, ScriptShows

-----------------------------------------------------------------------------
(* Sessions: pages that change the dataset or the model, and scripts cut *)

LEMMA StoreDatasetInv ==
  ASSUME SessionInv, NEW s \in Sessions, NEW d \in Datasets, StoreDataset(s, d) PROVE SessionInv'
<1>0. /\ session[s] \in State /\ torn[s] \in Tears /\ Fits(session[s], "rest", local[s], view[s], torn[s])
      /\ torn' = [torn EXCEPT ![s] = torn[s]] /\ reported' \subseteq Jobs
      /\ UNCHANGED <<vars, view, trainedOn>> /\ Goto(s, "clearBundle") /\ local' = [local EXCEPT ![s] = NoLocals]
  BY SessionFacts DEF StoreDataset
<1> DEFINE st == [session[s] EXCEPT !.dataset = d]
<1>1. session' = [session EXCEPT ![s] = st]
  BY DEF StoreDataset, Put
<1>2. /\ st \in State /\ st.report = session[s].report /\ st.bundle = session[s].bundle
      /\ st.bytes = session[s].bytes /\ st.active = session[s].active /\ st.dataset = d
  BY <1>0 DEF State
<1>3. NoLocals \in Locals /\ NoLocals.job = None /\ "clearBundle" \in Statements /\ d # None
  BY NamesAssumption DEF NoLocals, Locals, Statements
<1>4. Matches(st, "clearBundle", torn[s])
  BY <1>0, <1>2 DEF Fits, Matches, OfOneTraining
<1>5. Fits(st, "clearBundle", NoLocals, view[s], torn[s])
  BY <1>2, <1>3, <1>4 DEF Fits, WithJob, Polling
<1>6. Named(st, NoLocals) \subseteq Holds(s)
  BY <1>2, <1>3, NamesAssumption DEF Named, Holds
<1> HIDE DEF st
<1> QED
  BY <1>0, <1>1, <1>2, <1>3, <1>5, <1>6, ScriptWrites

LEMMA ClearBundleInv ==
  ASSUME SessionInv, NEW s \in Sessions, ClearBundle(s) PROVE SessionInv'
<1>0. /\ session[s] \in State /\ local[s] \in Locals /\ torn[s] \in Tears
      /\ Fits(session[s], "clearBundle", local[s], view[s], torn[s])
      /\ local' = [local EXCEPT ![s] = local[s]] /\ torn' = [torn EXCEPT ![s] = torn[s]] /\ reported' \subseteq Jobs
      /\ UNCHANGED <<vars, view, trainedOn>> /\ Goto(s, "clearReport")
  BY SessionFacts DEF ClearBundle
<1> DEFINE st == [session[s] EXCEPT !.bundle = None]
<1>1. session' = [session EXCEPT ![s] = st]
  BY DEF ClearBundle, Put
<1>2. /\ st \in State /\ st.report = session[s].report /\ st.bundle = None
      /\ st.bytes = session[s].bytes /\ st.active = session[s].active /\ st.dataset = session[s].dataset
  BY <1>0 DEF State, Artifacts
<1>3. "clearReport" \in Statements /\ Fits(st, "clearReport", local[s], view[s], torn[s])
  BY <1>0, <1>2 DEF Fits, Matches, Statements, WithJob, Polling
<1>4. Named(st, local[s]) \subseteq Holds(s)
  BY <1>2, NamesAssumption DEF Named, Holds
<1> HIDE DEF st
<1> QED
  BY <1>0, <1>1, <1>2, <1>3, <1>4, ScriptWrites

\* The last write of store_dataset(), page 1's cleaning and page 5's upload.
LEMMA OtherPagesInv ==
  ASSUME SessionInv, NEW s \in Sessions,
         ClearReport(s) \/ (\E d \in Datasets : ApplyHygiene(s, d)) \/ UploadModel(s)
  PROVE  SessionInv'
<1>0. /\ session[s] \in State /\ torn[s] \in Tears /\ Fits(session[s], script[s], local[s], view[s], torn[s])
      /\ torn = [torn EXCEPT ![s] = torn[s]]
  BY SessionFacts
<1>1. UNCHANGED <<vars, trainedOn, reported>> /\ Show(s, "elsewhere") /\ "elsewhere" \in Views
  BY DEF ClearReport, ApplyHygiene, UploadModel, Views
<1>2. CASE ClearReport(s)
  <2> DEFINE st == [session[s] EXCEPT !.report = None]
  <2>1. session' = [session EXCEPT ![s] = st] /\ torn' = [torn EXCEPT ![s] = "none"] /\ "none" \in Tears
    BY <1>2 DEF ClearReport, Put, Tears
  <2>2. /\ st \in State /\ st.report = None /\ st.bundle = session[s].bundle
        /\ st.bytes = session[s].bytes /\ st.active = session[s].active
    BY <1>0 DEF State
  <2>3. Matches(st, "rest", "none") /\ {st.active, st.report, st.bytes, st.bundle} \cap Jobs \subseteq Holds(s)
    BY <2>2, NamesAssumption DEF Matches, OfOneTraining, Holds, Named
  <2> HIDE DEF st
  <2> QED
    BY <1>1, <2>1, <2>2, <2>3, PageShown
<1>3. ASSUME NEW d \in Datasets, ApplyHygiene(s, d) PROVE SessionInv'
  <2> DEFINE st == [session[s] EXCEPT !.dataset = d]
  <2>1. session' = [session EXCEPT ![s] = st] /\ torn' = [torn EXCEPT ![s] = torn[s]] /\ script[s] = "rest"
    BY <1>0, <1>3 DEF ApplyHygiene, Put
  <2>2. /\ st \in State /\ st.report = session[s].report /\ st.bundle = session[s].bundle
        /\ st.bytes = session[s].bytes /\ st.active = session[s].active
    BY <1>0 DEF State
  <2>3. Matches(st, "rest", torn[s]) /\ {st.active, st.report, st.bytes, st.bundle} \cap Jobs \subseteq Holds(s)
    BY <1>0, <2>1, <2>2 DEF Fits, Matches, OfOneTraining, Holds, Named
  <2> HIDE DEF st
  <2> QED
    BY <1>0, <1>1, <2>1, <2>2, <2>3, PageShown
<1>4. CASE UploadModel(s)
  <2> DEFINE st == [session[s] EXCEPT !.bundle = Uploaded]
  <2>1. session' = [session EXCEPT ![s] = st] /\ torn' = [torn EXCEPT ![s] = torn[s]]
    BY <1>0, <1>4 DEF UploadModel, Put
  <2>2. /\ st \in State /\ st.report = session[s].report /\ st.bundle = Uploaded
        /\ st.bytes = session[s].bytes /\ st.active = session[s].active
    BY <1>0 DEF State, Artifacts
  <2>3. Matches(st, "rest", torn[s]) /\ {st.active, st.report, st.bytes, st.bundle} \cap Jobs \subseteq Holds(s)
    BY <2>2, NamesAssumption DEF Matches, OfOneTraining, Holds, Named
  <2> HIDE DEF st
  <2> QED
    BY <1>0, <1>1, <2>1, <2>2, <2>3, PageShown
<1> QED
  BY <1>2, <1>3, <1>4

\* A script cut between the writes of model and report leaves a trace of it; a
\* cut anywhere else leaves what matched matching.
LEMMA CutInv ==
  ASSUME SessionInv, NEW s \in Sessions, Cut(s) PROVE SessionInv'
<1>0. /\ session[s] \in State /\ torn[s] \in Tears /\ Fits(session[s], script[s], local[s], view[s], torn[s])
      /\ session' = [session EXCEPT ![s] = session[s]]
      /\ torn \in [Sessions -> Tears]
  BY SessionFacts, SessionTypes DEF Cut
<1> DEFINE tear == CASE script[s] = "clearReport" -> "load"
                     [] script[s] = "report"      -> IF local[s].caller = "inline" THEN "inline" ELSE "poll"
                     [] OTHER                     -> torn[s]
<1>1. /\ UNCHANGED <<vars, trainedOn, reported>> /\ Show(s, "elsewhere") /\ "elsewhere" \in Views
      /\ torn' = [torn EXCEPT ![s] = tear] /\ tear \in Tears
  BY <1>0 DEF Cut, Views, Tears
<1>2. Matches(session[s], "rest", tear)
  <2>1. CASE script[s] = "clearReport"
    BY <2>1 DEF Matches
  <2>2. CASE script[s] = "report"
    <3>1. CASE local[s].caller = "inline"
      BY <2>2, <3>1 DEF Matches
    <3>2. CASE local[s].caller # "inline"
      <4>1. /\ session[s].bundle = local[s].job /\ local[s].job \in Jobs /\ session[s].active = local[s].job
            /\ record[local[s].job].status = "COMPLETED"
        BY <1>0, <2>2, <3>2 DEF Fits, WithJob, Polling
      <4> QED
        BY <2>2, <3>2, <4>1 DEF Matches
    <3> QED
      BY <3>1, <3>2
  <2>3. CASE script[s] \notin {"clearReport", "report"}
    BY <1>0, <2>3 DEF Fits, Matches
  <2> QED
    BY <2>1, <2>2, <2>3
<1>3. {session[s].active, session[s].report, session[s].bytes, session[s].bundle} \cap Jobs \subseteq Holds(s)
  BY DEF Holds, Named
<1> HIDE DEF tear
<1> QED
  BY <1>0, <1>1, <1>2, <1>3, PageShown

-----------------------------------------------------------------------------
(* Sessions: new jobs, and the runner *)

\* The runner moves, for its workers or for a session that submits a job.
LEMMA RunnerMoves ==
  ASSUME SessionInv, [Next]_vars, UNCHANGED sessionVars
  PROVE  SessionInv'
<1>1. IInv'
  BY NextIInv DEF SessionInv
<1>2. /\ session' = session /\ script' = script /\ local' = local /\ view' = view
      /\ trainedOn' = trainedOn /\ reported' = reported /\ torn' = torn
  BY DEF sessionVars
<1>3. SessionTypeOK'
  BY <1>2 DEF SessionInv, SessionTypeOK
<1>4. ASSUME NEW s \in Sessions PROVE ScriptInv(s)'
  <2> DEFINE Final(j) == record[j].status \in Terminal => record'[j].status = record[j].status
  <2>1. Fits(session[s], script[s], local[s], view[s], torn[s])
    BY SessionFacts
  <2>2. \A j \in Jobs : Final(j)
    BY TerminalIsFinal DEF SessionInv
  <2>3. Matches(session[s], script[s], torn[s])'
    BY <1>2, <2>1, <2>2 DEF Fits, Matches, OfOneTraining, Terminal
  <2>4. script[s] \in Polling => local[s].job \in Jobs /\ Final(local[s].job)
    BY <2>1, <2>2 DEF Fits, Polling, WithJob
  <2>5. /\ script[s] \in {"apply", "report", "bytes"} /\ local[s].caller # "inline" =>
             record'[local[s].job].status = "COMPLETED"
        /\ script[s] \in {"snapshot", "forget"} => record'[local[s].job].status = record[local[s].job].status
    BY <2>1, <2>4 DEF Fits, Terminal, Polling
  <2> HIDE DEF Final
  <2> QED
    BY <1>2, <2>1, <2>3, <2>5 DEF ScriptInv, Fits
<1>5. HeldOnce'
  BY <1>2 DEF SessionInv, HeldOnce, Holds, Named
<1> QED
  BY <1>1, <1>3, <1>4, <1>5 DEF SessionInv

LEMMA RunnerStepInv == SessionInv /\ RunnerStep => SessionInv'
<1> SUFFICES ASSUME SessionInv, RunnerStep PROVE SessionInv'
  OBVIOUS
<1>1. [Next]_vars /\ UNCHANGED sessionVars
  BY DEF RunnerStep, Next
<1> QED
  BY <1>1, RunnerMoves

LEMMA SubmitJobInv ==
  ASSUME SessionInv, NEW s \in Sessions, SubmitJob(s) PROVE SessionInv'
<1>1. local[s].job \in Jobs
  BY SessionFacts DEF SubmitJob, Fits, WithJob
<1>2. [Next]_vars /\ UNCHANGED sessionVars
  BY <1>1 DEF SubmitJob, Next
<1> QED
  BY <1>2, RunnerMoves

\* A training that begins has a job that no session has seen.
LEMMA TrainingBegins ==
  ASSUME SessionInv, NEW s \in Sessions, NEW j \in Jobs, trainedOn[j] = None,
         session[s].dataset # None,
         trainedOn' = [trainedOn EXCEPT ![j] = session[s].dataset],
         UNCHANGED <<vars, session, reported, torn>>,
         NEW statement \in {"rest", "submit", "apply"}, NEW lo \in Locals, NEW v \in Views,
         script' = [script EXCEPT ![s] = statement],
         local' = [local EXCEPT ![s] = lo], view' = [view EXCEPT ![s] = v],
         Fits(session[s], statement, lo, v, torn[s]), lo.job \in {j, None}
  PROVE  SessionInv'
<1>0. /\ session \in [Sessions -> State] /\ script \in [Sessions -> Statements]
      /\ local \in [Sessions -> Locals] /\ view \in [Sessions -> Views] /\ torn \in [Sessions -> Tears]
      /\ trainedOn \in [Jobs -> Datasets \cup {None}] /\ reported \subseteq Jobs
  BY SessionTypes
<1>1. /\ session' = session /\ torn' = torn /\ script'[s] = statement /\ local'[s] = lo /\ view'[s] = v
      /\ \A t \in Sessions \ {s} : script'[t] = script[t] /\ local'[t] = local[t] /\ view'[t] = view[t]
  BY <1>0
<1>2. trainedOn'[j] # None /\ \A i \in Jobs \ {j} : trainedOn'[i] = trainedOn[i]
  BY <1>0
<1>3. IInv'
  BY NextIInv DEF SessionInv
<1>4. SessionTypeOK'
  <2>1. /\ session' \in [Sessions -> State] /\ script' \in [Sessions -> Statements]
        /\ local' \in [Sessions -> Locals] /\ view' \in [Sessions -> Views] /\ torn' \in [Sessions -> Tears]
        /\ reported' \subseteq Jobs
    BY <1>0 DEF Statements, WithJob
  <2>2. session[s].dataset \in Datasets \cup {None}
    BY <1>0 DEF State
  <2>3. trainedOn' \in [Jobs -> Datasets \cup {None}]
    BY <1>0, <2>2
  <2> QED
    BY <2>1, <2>3 DEF SessionTypeOK, State, Statements, Locals, Views, Tears, WithJob
<1>5. \A t \in Sessions : ScriptInv(t)'
  <2>1. record' = record
    BY DEF vars
  <2>2. ScriptInv(s)'
    BY <1>1, <2>1 DEF ScriptInv, Fits, Matches
  <2>3. ASSUME NEW t \in Sessions \ {s} PROVE ScriptInv(t)'
    <3>1. ScriptInv(t)
      BY DEF SessionInv
    <3> QED
      BY <1>1, <2>1, <3>1 DEF ScriptInv, Fits, Matches
  <2> QED
    BY <2>2, <2>3
<1>6. HeldOnce'
  <2>1. Holds(s)' \subseteq Holds(s) \cup {j} /\ \A t \in Sessions \ {s} : Holds(t)' = Holds(t)
    BY <1>1, NamesAssumption DEF Holds, Named
  <2>2. \A t \in Sessions : j \notin Holds(t) /\ Holds(t) \subseteq Jobs
    BY DEF SessionInv, HeldOnce, Holds, Named
  <2> QED
    BY <1>2, <2>1, <2>2 DEF SessionInv, HeldOnce
<1> QED
  BY <1>3, <1>4, <1>5, <1>6 DEF SessionInv

LEMMA BeginTrainingInv ==
  ASSUME SessionInv, NEW s \in Sessions, NEW j \in Jobs, BeginTraining(s, j) PROVE SessionInv'
<1>0. /\ session[s] \in State /\ local[s] \in Locals /\ view[s] \in Views
      /\ Fits(session[s], "returned", local[s], view[s], torn[s])
      /\ view = [view EXCEPT ![s] = view[s]] /\ trainedOn[j] = None
      /\ trainedOn' = [trainedOn EXCEPT ![j] = session[s].dataset] /\ UNCHANGED <<vars, session, reported, torn>>
  BY SessionFacts DEF BeginTraining
<1>1. session[s].dataset # None /\ (OfOneTraining(session[s]) \/ torn[s] \in {"inline", "load", "lost"})
  BY <1>0 DEF Fits, Matches
<1>2. ASSUME NEW statement \in {"rest", "submit", "apply"}, NEW lo \in Locals, NEW v \in Views,
             Goto(s, statement), local' = [local EXCEPT ![s] = lo], view' = [view EXCEPT ![s] = v],
             lo.job \in {j, None}, statement # "rest" => lo.job = j,
             statement = "apply" => lo.caller = "inline"
      PROVE  SessionInv'
  <2>1. Matches(session[s], statement, torn[s])
    BY <1>1 DEF Matches
  <2>2. Fits(session[s], statement, lo, v, torn[s])
    BY <1>1, <1>2, <2>1 DEF Fits, WithJob, Polling
  <2> QED
    BY <1>0, <1>1, <1>2, <2>2, TrainingBegins DEF Goto
<1>3. CASE /\ local' = [local EXCEPT ![s] = [NoLocals EXCEPT !.job = j]]
           /\ Goto(s, "submit") /\ UNCHANGED view
  <2>1. [NoLocals EXCEPT !.job = j] \in Locals /\ [NoLocals EXCEPT !.job = j].job = j
    BY DEF NoLocals, Locals
  <2> QED
    BY <1>0, <1>2, <1>3, <2>1
<1>4. CASE /\ local' = [local EXCEPT ![s] = [NoLocals EXCEPT !.job = j, !.caller = "inline"]]
           /\ Goto(s, "apply") /\ UNCHANGED view
  <2> DEFINE lo == [NoLocals EXCEPT !.job = j, !.caller = "inline"]
  <2>1. lo \in Locals /\ lo.job = j /\ lo.caller = "inline"
    BY DEF NoLocals, Locals
  <2> HIDE DEF lo
  <2> QED
    BY <1>0, <1>2, <1>4, <2>1 DEF lo
<1>5. CASE Show(s, "form")
  <2>1. /\ NoLocals \in Locals /\ NoLocals.job = None /\ "form" \in Views
        /\ local' = [local EXCEPT ![s] = NoLocals] /\ view' = [view EXCEPT ![s] = "form"] /\ Goto(s, "rest")
    BY <1>5 DEF Show, NoLocals, Locals, Views
  <2> QED
    BY <1>2, <2>1
<1> QED
  BY <1>3, <1>4, <1>5 DEF BeginTraining

LEMMA SessionStepInv == SessionInv /\ [NextAll]_allVars => SessionInv'
<1> SUFFICES ASSUME SessionInv, [NextAll]_allVars PROVE SessionInv'
  OBVIOUS
<1>1. CASE UNCHANGED allVars
  <2>1. [Next]_vars /\ UNCHANGED sessionVars
    BY <1>1 DEF allVars
  <2> QED
    BY <2>1, RunnerMoves
<1>2. CASE RunnerStep
  BY <1>2, RunnerStepInv
<1>3. ASSUME NEW s \in Sessions, ScriptStep(s) PROVE SessionInv'
  BY <1>3, SyncStartInv, PollUnknownInv, PollStatusInv, PersistModelInv, PersistReportInv, PersistBytesInv,
     TakeSnapshotInv, ForgetJobInv, SyncReadsInv, FragmentInv, FragmentReadsStatusInv, PageContinuesInv,
     BeginTrainingInv, SubmitJobInv, TrackJobInv, ClearOutcomeInv, RaisesInv, ClearBundleInv, OtherPagesInv
     DEF ScriptStep
<1>4. ASSUME NEW s \in Sessions, FragmentTick(s) \/ UserStep(s) PROVE SessionInv'
  BY <1>4, FragmentTickInv, PageRunsInv, StoreDatasetInv, OtherPagesInv, CutInv DEF UserStep
<1> QED
  BY <1>1, <1>2, <1>3, <1>4 DEF NextAll

-----------------------------------------------------------------------------
(* Sessions: theorems *)

LEMMA SessionInvariant == SessionSpec => []SessionInv
BY SessionInitInv, SessionStepInv, PTL DEF SessionSpec

\* The report on page 4 and the model of pages 4, 5 and 8 come from the same
\* training, or the model was uploaded, or a script was cut between the two
\* writes, and if it was a poll the job is there to be polled again: whatever
\* the interleaving of writes, reads, workers and cuts.
THEOREM OneTrainingShown == SessionSpec => []ReportDescribesModel
<1>1. SessionInv => ReportDescribesModel
  <2> SUFFICES ASSUME SessionInv, NEW s \in Sessions, session[s].report # None,
                      session[s].bundle \notin {session[s].report, Uploaded}
               PROVE  \/ script[s] \in {"report", "clearReport"}
                      \/ torn[s] \in {"inline", "load", "lost"}
                      \/ torn[s] = "poll" /\ session[s].active = session[s].bundle
    BY DEF ReportDescribesModel
  <2>1. Matches(session[s], script[s], torn[s])
    BY DEF SessionInv, ScriptInv, Fits
  <2> QED
    BY <2>1 DEF Matches, OfOneTraining
<1> QED
  BY <1>1, SessionInvariant, PTL

\* No session ever tracks the job of another or shows what another trained.
THEOREM SessionsApart == SessionSpec => []SessionsAreIsolated
<1>1. SessionInv => SessionsAreIsolated
  BY DEF SessionInv, HeldOnce, Holds, Named, SessionsAreIsolated
<1> QED
  BY <1>1, SessionInvariant, PTL

\* Sessions use the runner as its clients may: each of their steps is a step of
\* the runner or leaves it alone, so what is proved of the runner holds for them.
LEMMA SessionsUseRunner == SessionInv /\ [NextAll]_allVars => [Next]_vars
<1> SUFFICES ASSUME SessionInv, [NextAll]_allVars PROVE [Next]_vars
  OBVIOUS
<1>1. CASE UNCHANGED allVars
  BY <1>1 DEF allVars
<1>2. CASE RunnerStep
  BY <1>2 DEF RunnerStep, Next
<1>3. ASSUME NEW s \in Sessions, SubmitJob(s) PROVE [Next]_vars
  <2>1. local[s].job \in Jobs
    BY <1>3, SessionFacts DEF SubmitJob, Fits, WithJob
  <2> QED
    BY <1>3, <2>1 DEF SubmitJob, Next
<1>4. ASSUME NEW s \in Sessions, ScriptStep(s), ~ SubmitJob(s) PROVE UNCHANGED vars
  BY <1>4 DEF ScriptStep, SyncStart, PollUnknown, PollStatus, PersistModel, PersistReport, PersistBytes,
     PersistRaises, PollOtherStatus, TakeSnapshot, ForgetJob, SyncReadsRunning, SyncReadsCompleted,
     SyncReadsFailed, Fragment, FragmentReadsStatus, PageContinues, BeginTraining, NoJobLeft, TrackJob,
     ClearOutcome, SubmitRaises, ClearBundle, ClearReport
<1>5. ASSUME NEW s \in Sessions, FragmentTick(s) \/ UserStep(s) PROVE UNCHANGED vars
  BY <1>5 DEF FragmentTick, UserStep, VisitPage4, ClickTrain, StoreDataset, ApplyHygiene, UploadModel, Cut
<1> QED
  BY <1>1, <1>2, <1>3, <1>4, <1>5 DEF NextAll

\* Sessions, scripts, fragments and users together drive the job runner as its own
\* specification says, so what is proved of the runner holds for what they see.
THEOREM SessionsImplementRunner == SessionSpec => Init /\ [][Next]_vars
<1>1. InitAll => Init
  BY DEF InitAll
<1> QED
  BY <1>1, SessionInvariant, SessionsUseRunner, PTL DEF SessionSpec

\* What ForgottenOnlyWithOutcome asks of a step of one session.
Resolves(s) ==
  session[s].active # None /\ session'[s].active = None =>
    LET j == session[s].active IN
      \/ j \notin KnownJobs
      \/ /\ session'[s].jobResult.job = j
         /\ session'[s].jobResult.status \in Terminal
         /\ session'[s].jobResult.status = "COMPLETED" =>
              /\ session'[s].bundle = j
              /\ session'[s].report = j
              /\ session'[s].bytes = j

\* Only a poll that the runner cannot answer, and one that has stored the final
\* record, end the tracking of a job.
LEMMA StepResolves ==
  ASSUME SessionInv, [NextAll]_allVars, NEW s \in Sessions
  PROVE  Resolves(s)
<1>0. /\ session \in [Sessions -> State] /\ session[s] \in State
      /\ Fits(session[s], script[s], local[s], view[s], torn[s])
  BY SessionFacts, SessionTypes
<1>1. CASE RunnerStep \/ UNCHANGED allVars
  BY <1>1 DEF RunnerStep, allVars, sessionVars, Resolves
<1>2. ASSUME NEW t \in Sessions \ {s}, ScriptStep(t) \/ FragmentTick(t) \/ UserStep(t)
      PROVE  Resolves(s)
  <2>1. session' = session \/ \E st : session' = [session EXCEPT ![t] = st]
    BY <1>2 DEF ScriptStep, SyncStart, PollUnknown, PollStatus, PersistModel, PersistReport, PersistBytes,
       PersistRaises, PollOtherStatus, TakeSnapshot, ForgetJob, SyncReadsRunning, SyncReadsCompleted,
       SyncReadsFailed, Fragment, FragmentReadsStatus, PageContinues, BeginTraining, NoJobLeft, SubmitJob,
       TrackJob, ClearOutcome, SubmitRaises, ClearBundle, ClearReport, FragmentTick, UserStep, VisitPage4,
       ClickTrain, StoreDataset, ApplyHygiene, UploadModel, Cut, Put, sessionVars
  <2> QED
    BY <1>0, <2>1 DEF Resolves
<1>3. CASE PollUnknown(s)
  <2>1. session[s].active = local[s].job /\ local[s].job \notin KnownJobs
    BY <1>0, <1>3 DEF PollUnknown, Fits, Polling
  <2> QED
    BY <2>1 DEF Resolves
<1>4. CASE ForgetJob(s)
  <2> DEFINE st == [session[s] EXCEPT !.active = None]
  <2>1. Fits(session[s], "forget", local[s], view[s], torn[s]) /\ session' = [session EXCEPT ![s] = st]
    BY <1>0, <1>4 DEF ForgetJob, Put
  <2>2. /\ session'[s].jobResult = session[s].jobResult /\ session'[s].bundle = session[s].bundle
        /\ session'[s].report = session[s].report /\ session'[s].bytes = session[s].bytes
    BY <1>0, <2>1 DEF State
  <2> DEFINE j == local[s].job
  <2>3. /\ session[s].active = j /\ record[j].status \in Terminal
        /\ session[s].jobResult = [job |-> j, status |-> record[j].status]
        /\ record[j].status = "COMPLETED" =>
             session[s].bundle = j /\ session[s].report = j /\ session[s].bytes = j
    BY <2>1 DEF Fits, Polling
  <2> QED
    BY <2>2, <2>3 DEF Resolves
<1>5. CASE SyncStart(s) \/ PollStatus(s) \/ PollOtherStatus(s) \/ PersistRaises(s) \/ SyncReadsRunning(s)
           \/ SyncReadsCompleted(s) \/ SyncReadsFailed(s) \/ Fragment(s) \/ FragmentReadsStatus(s)
           \/ PageContinues(s) \/ (\E j \in Jobs : BeginTraining(s, j)) \/ NoJobLeft(s) \/ SubmitJob(s)
           \/ SubmitRaises(s) \/ FragmentTick(s) \/ VisitPage4(s) \/ Cut(s)
           \/ \E how \in {"background", "inline"} : ClickTrain(s, how)
  <2>1. session' = session
    BY <1>5 DEF SyncStart, PollStatus, PollOtherStatus, PersistRaises, SyncReadsRunning, SyncReadsCompleted,
       SyncReadsFailed, Fragment, FragmentReadsStatus, PageContinues, BeginTraining, NoJobLeft, SubmitJob,
       SubmitRaises, FragmentTick, VisitPage4, Cut, ClickTrain, sessionVars
  <2> QED
    BY <2>1 DEF Resolves
<1>6. CASE PersistModel(s) \/ PersistReport(s) \/ PersistBytes(s) \/ TakeSnapshot(s)
  <2>1. session'[s].active = session[s].active
    BY <1>0, <1>6 DEF PersistModel, PersistReport, PersistBytes, TakeSnapshot, Put, State
  <2> QED
    BY <2>1 DEF Resolves
<1>7. CASE ClearOutcome(s) \/ ClearBundle(s) \/ ClearReport(s) \/ UploadModel(s)
           \/ \E d \in Datasets : StoreDataset(s, d) \/ ApplyHygiene(s, d)
  <2>1. session'[s].active = session[s].active
    BY <1>0, <1>7 DEF ClearOutcome, ClearBundle, ClearReport, UploadModel, StoreDataset, ApplyHygiene, Put, State
  <2> QED
    BY <2>1 DEF Resolves
<1>8. CASE TrackJob(s)
  <2>1. session'[s].active = local[s].job
    BY <1>0, <1>8 DEF TrackJob, Put, State
  <2>2. local[s].job \in Jobs
    BY <1>0, <1>8 DEF TrackJob, Fits, WithJob
  <2> QED
    BY <2>1, <2>2, NamesAssumption DEF Resolves
<1>9. ASSUME NEW t \in Sessions, ScriptStep(t) \/ FragmentTick(t) \/ UserStep(t) PROVE Resolves(s)
  <2>1. CASE t # s
    BY <1>2, <1>9, <2>1
  <2>2. CASE ScriptStep(s)
    BY <2>2, <1>3, <1>4, <1>5, <1>6, <1>7, <1>8 DEF ScriptStep
  <2>3. CASE FragmentTick(s) \/ UserStep(s)
    BY <2>3, <1>5, <1>7 DEF UserStep
  <2> QED
    BY <1>9, <2>1, <2>2, <2>3
<1> QED
  BY <1>1, <1>9 DEF NextAll

\* A session forgets a job only when the runner does not know it or its outcome
\* is in the session, although workers write the record between any two reads.
THEOREM OutcomesAreKept == SessionSpec => ForgottenOnlyWithOutcome
<1>1. SessionInv /\ [NextAll]_allVars => \A s \in Sessions : Resolves(s)
  BY StepResolves
<1>2. SessionSpec => [][\A s \in Sessions : Resolves(s)]_session
  <2>1. SessionInv /\ [NextAll]_allVars => [\A s \in Sessions : Resolves(s)]_session
    BY <1>1
  <2> QED
    BY <2>1, SessionInvariant, PTL DEF SessionSpec
<1> QED
  BY <1>2 DEF ForgottenOnlyWithOutcome, Resolves

-----------------------------------------------------------------------------
(* Pages: the invariant *)

\* The file in the widget is the one whose signature is remembered.
UploadIsRemembered == uploader # Nil => signature = UploadSignature[uploader]

\* The columns in the session are the model's until page 4 writes others; so are
\* those of the job in the background.
ModelHasItsColumns ==
  /\ bundle # Nil /\ ~ reselected["bundle"] => features = bundle.features
  /\ job # Nil /\ ~ reselected["job"] => features = job.features /\ task = job.task

\* A model trained on the dataset on screen fits it, and so will the job's.
ModelFitsData ==
  /\ bundle # Nil /\ bundle.origin = "trained" /\ since["report"] = "kept" /\ ~ reselected["bundle"] =>
       features \subseteq Cols /\ ~ LoneRow /\ report # "none" /\ bundle.task = task
  /\ job # Nil /\ since["job"] = "kept" /\ ~ reselected["job"] =>
       features \subseteq Cols /\ (job.trainable => ~ LoneRow)

\* So do flags raised on it.
FlagsFitData == anomaly # Nil /\ since["anomaly"] = "kept" => anomaly \subseteq data.rows

\* Page 7 is drawn only with a dataset.
AdvancedHasData == page.name = "advanced" => data # Nil

\* A report of a replaced dataset is gone, unless its job ended later.
ReportIsDropped == report # "none" /\ since["report"] = "replaced" => report = "late"

PagesInv ==
  /\ DashboardTypeOK
  /\ UploadIsRemembered
  /\ DatasetIsLastChosen
  /\ ModelHasItsColumns
  /\ ModelFitsData
  /\ FlagsFitData
  /\ AdvancedHasData
  /\ ReportIsDropped
  /\ PagesFailOnlyOnMixedState

LEMMA PagesInitInv == DashboardInit => PagesInv
<1> SUFFICES ASSUME DashboardInit PROVE PagesInv
  OBVIOUS
<1>1. /\ page.name = "home" /\ page.how = "shown" /\ since \in [Results -> Fates] /\ report = "none"
      /\ reselected \in [Trainings -> BOOLEAN] /\ job = Nil
      /\ bundle = Nil /\ anomaly = Nil /\ data = Nil /\ uploader = Nil
  BY DEF DashboardInit, Results, Fates, Trainings
<1>2. DashboardTypeOK
  BY <1>1 DEF DashboardInit, DashboardTypeOK, Outcomes
<1>3. PagesFailOnlyOnMixedState
  BY <1>1 DEF PagesFailOnlyOnMixedState, PagesRaiseOnlyOnMixedState, PredictionFailsOnlyOnMixedState
<1> QED
  BY <1>1, <1>2, <1>3 DEF PagesInv, UploadIsRemembered, DatasetIsLastChosen, ModelHasItsColumns, ModelFitsData,
     FlagsFitData, AdvancedHasData, ReportIsDropped

-----------------------------------------------------------------------------
(* Pages: the steps *)

Names == {"home", "load", "descriptive", "diagnostic", "model", "apply", "prescriptive", "advanced", "export"}

\* A page that neither raises nor reports a failed prediction.
LEMMA PageIsFine ==
  ASSUME NEW name \in Names, NEW how \in Outcomes, how # "raised", name # "apply" \/ how # "told",
         ShowPage(name, how)
  PROVE  PagesFailOnlyOnMixedState'
BY DEF ShowPage, PagesFailOnlyOnMixedState, PagesRaiseOnlyOnMixedState, PredictionFailsOnlyOnMixedState

\* What a reader makes of a file is a table or nothing.
LEMMA ReadersRead ==
  ASSUME NEW f \in Files
  PROVE  UploadReadings(f) \cup Readings(f) \subseteq Content \cup {Nil}
<1>1. SourceContent[f] \in Content
  BY DashboardAssumption DEF Sources
<1>2. OneColumn(f) \in Content
  <2>1. PICK S \in SUBSET Columns : S # {} /\ SourceContent[f].kinds \in [S -> Kinds]
    BY <1>1 DEF Content
  <2>2. /\ DOMAIN SourceContent[f].kinds = S /\ SourceContent[f].rows \in (SUBSET (0 .. 9)) \ {{}}
        /\ SourceContent[f] = [kinds |-> SourceContent[f].kinds, rows |-> SourceContent[f].rows]
    BY <1>1, <2>1 DEF Content
  <2> DEFINE c == CHOOSE d \in DOMAIN SourceContent[f].kinds : TRUE
  <2>3. c \in S
    <3>1. \E d : d \in DOMAIN SourceContent[f].kinds
      BY <2>1, <2>2
    <3>2. c \in DOMAIN SourceContent[f].kinds
      BY <3>1
    <3> QED
      BY <2>2, <3>2
  <2>4. OneColumn(f) = [kinds |-> [d \in {c} |-> "text"], rows |-> SourceContent[f].rows]
    <3>1. OneColumn(f) = [SourceContent[f] EXCEPT !.kinds = [d \in {c} |-> "text"]]
      BY Zenon DEF OneColumn
    <3> HIDE DEF c
    <3> QED
      BY <2>2, <3>1
  <2> HIDE DEF c
  <2>5. [d \in {c} |-> "text"] \in [{c} -> Kinds] /\ {c} \in (SUBSET Columns) \ {{}}
    BY <2>3 DEF Kinds
  <2> QED
    BY <2>2, <2>4, <2>5 DEF Content
<1>3. AsSeparated(f) \in Content
  BY <1>1, <1>2 DEF AsSeparated
<1>4. Readings(f) \subseteq {SourceContent[f], AsSeparated(f), Nil}
  BY DEF Readings
<1>5. UploadReadings(f) \subseteq {SourceContent[f], AsSeparated(f), Nil}
  BY <1>4 DEF UploadReadings
<1> QED
  BY <1>1, <1>3, <1>4, <1>5

\* What was computed on the dataset before is no longer of it.
LEMMA AgeChanges ==
  ASSUME PagesInv, NEW fate \in Fates \ {"kept"}, Age(fate)
  PROVE  /\ since' \in [Results -> Fates]
         /\ since'["report"] = (IF since["report"] = "replaced" THEN "replaced" ELSE fate)
         /\ since'["anomaly"] = (IF since["anomaly"] = "replaced" THEN "replaced" ELSE fate)
         /\ job # Nil => since'["job"] = (IF since["job"] = "replaced" THEN "replaced" ELSE fate)
<1>1. since \in [Results -> Fates]
  BY DEF PagesInv, DashboardTypeOK
<1> QED
  BY <1>1 DEF Age, Fates, Results

\* A table is stored: the model and its report go, the flags go stale.
LEMMA TableStored ==
  ASSUME PagesInv, NEW source \in Sources, NEW content \in Content,
         StoreTable(source, content), page' = [name |-> "load", how |-> "shown"],
         chosen' \in [from : Sources \cup {Nil}, repeated : BOOLEAN], chosen'.from = source,
         target' \in Columns \cup {Nil}, uploader' \in Files \cup {Nil},
         signature' \in {UploadSignature[f] : f \in Files} \cup {Nil},
         uploader' # Nil => signature' = UploadSignature[uploader']
  PROVE  PagesInv'
<1>1. /\ data'.from = source /\ data'.kinds = content.kinds /\ data'.rows = content.rows
      /\ Age("replaced") /\ bundle' = Nil /\ report' = "none"
      /\ UNCHANGED <<job, task, features, anomaly, reselected>>
  BY DEF StoreTable, Frame
<1>2. [kinds |-> data'.kinds, rows |-> data'.rows] \in Content
  <2>1. content = [kinds |-> content.kinds, rows |-> content.rows]
    BY DEF Content
  <2> QED
    BY <1>1, <2>1
<1>3. /\ since'["report"] = "replaced" /\ since'["anomaly"] = "replaced" /\ since' \in [Results -> Fates]
      /\ job # Nil => since'["job"] = "replaced"
  <2>1. "replaced" \in Fates \ {"kept"}
    BY DEF Fates
  <2> QED
    BY <1>1, <2>1, AgeChanges
<1>4. DashboardTypeOK'
  BY <1>1, <1>2, <1>3 DEF PagesInv, DashboardTypeOK, Outcomes
<1>5. /\ UploadIsRemembered' /\ DatasetIsLastChosen' /\ ModelHasItsColumns' /\ ModelFitsData'
      /\ FlagsFitData' /\ AdvancedHasData' /\ ReportIsDropped'
  BY <1>1, <1>3 DEF PagesInv, UploadIsRemembered, DatasetIsLastChosen, ModelHasItsColumns, ModelFitsData,
     FlagsFitData, AdvancedHasData, ReportIsDropped
<1>6. PagesFailOnlyOnMixedState'
  BY DEF PagesFailOnlyOnMixedState, PagesRaiseOnlyOnMixedState, PredictionFailsOnlyOnMixedState
<1> QED
  BY <1>4, <1>5, <1>6 DEF PagesInv

\* What was chosen last stays.
LEMMA ChosenKept ==
  ASSUME PagesInv, KeepDataset, UNCHANGED chosen
  PROVE  chosen' \in [from : Sources \cup {Nil}, repeated : BOOLEAN] /\ DatasetIsLastChosen'
BY DEF PagesInv, DashboardTypeOK, DatasetIsLastChosen, KeepDataset

\* The dataset and all that follows from it stay.
LEMMA DatasetKept ==
  ASSUME PagesInv, KeepDataset, target' = target,
         chosen' \in [from : Sources \cup {Nil}, repeated : BOOLEAN], DatasetIsLastChosen',
         NEW name \in Names, NEW how \in Outcomes, page' = [name |-> name, how |-> how],
         name = "advanced" => data # Nil,
         uploader' \in Files \cup {Nil}, signature' \in {UploadSignature[f] : f \in Files} \cup {Nil},
         uploader' # Nil => signature' = UploadSignature[uploader'],
         PagesFailOnlyOnMixedState'
  PROVE  PagesInv'
<1>1. UNCHANGED <<data, since, task, features, bundle, report, job, anomaly, reselected, target>>
  BY DEF KeepDataset
<1>2. DashboardTypeOK'
  BY <1>1 DEF PagesInv, DashboardTypeOK, Names
<1>3. /\ UploadIsRemembered' /\ ModelHasItsColumns' /\ FlagsFitData'
      /\ AdvancedHasData' /\ ReportIsDropped'
  BY <1>1 DEF PagesInv, UploadIsRemembered, ModelHasItsColumns,
     FlagsFitData, AdvancedHasData, ReportIsDropped
<1>4. ModelFitsData'
  BY <1>1 DEF PagesInv, ModelFitsData, Cols, LoneRow
<1> QED
  BY <1>2, <1>3, <1>4 DEF PagesInv

\* A page other than page 1 only reads the session.
LEMMA PageReads ==
  ASSUME PagesInv, OnlyRead, NEW name \in Names \ {"load"}, NEW how \in Outcomes, ShowPage(name, how),
         name = "advanced" => data # Nil, PagesFailOnlyOnMixedState'
  PROVE  PagesInv'
<1>1. KeepDataset /\ UNCHANGED <<chosen, target, signature>>
  BY DEF OnlyRead, KeepDataset, modelVars
<1>2. uploader' = Nil /\ page' = [name |-> name, how |-> how]
  BY DEF ShowPage
<1>3. signature' \in {UploadSignature[f] : f \in Files} \cup {Nil}
  BY <1>1 DEF PagesInv, DashboardTypeOK
<1>4. chosen' \in [from : Sources \cup {Nil}, repeated : BOOLEAN] /\ DatasetIsLastChosen'
  BY <1>1, ChosenKept
<1> QED
  BY <1>1, <1>2, <1>3, <1>4, DatasetKept

\* A run of page 1 that reads nothing, or a source that could not be read.
LEMMA NothingLoaded ==
  ASSUME PagesInv, KeepDataset, target' = target,
         chosen' \in [from : Sources \cup {Nil}, repeated : BOOLEAN], DatasetIsLastChosen',
         NEW how \in {"shown", "refused", "raised"}, ShowPage("load", how),
         how = "raised" => Downloaded # {},
         uploader' \in Files \cup {Nil}, signature' \in {UploadSignature[f] : f \in Files} \cup {Nil},
         uploader' # Nil => signature' = UploadSignature[uploader']
  PROVE  PagesInv'
<1>1. "load" \in Names /\ how \in Outcomes /\ page' = [name |-> "load", how |-> how]
  BY DEF Names, Outcomes, ShowPage
<1>2. PagesFailOnlyOnMixedState'
  BY <1>1 DEF PagesFailOnlyOnMixedState, PagesRaiseOnlyOnMixedState, PredictionFailsOnlyOnMixedState
<1> QED
  BY <1>1, <1>2, DatasetKept

\* What is chosen now.
LEMMA ChoiceMade ==
  ASSUME NEW source \in Sources, NEW repeated \in BOOLEAN, Choose(source, repeated)
  PROVE  /\ chosen' \in [from : Sources \cup {Nil}, repeated : BOOLEAN] /\ chosen'.from = source
         /\ repeated = TRUE => chosen'.repeated
BY DEF Choose

LEMMA LoadSampleInv == PagesInv /\ LoadSample => PagesInv'
<1> SUFFICES ASSUME PagesInv, LoadSample PROVE PagesInv'
  OBVIOUS
<1>1. PICK s \in Samples :
        \/ /\ StoreTable(s, SourceContent[s])
           /\ Choose(s, FALSE) /\ target' = SuggestedTarget[s]
           /\ ShowPage("load", "shown")
        \/ /\ s \in Downloaded
           /\ KeepDataset /\ UNCHANGED <<chosen, target>>
           /\ ShowPage("load", "raised")
  BY DEF LoadSample
<1>2. s \in Sources /\ SourceContent[s] \in Content /\ SuggestedTarget[s] \in Columns
  BY DashboardAssumption DEF Sources, Content
<1>3. /\ uploader' = uploader /\ signature' = signature
      /\ uploader \in Files \cup {Nil} /\ signature \in {UploadSignature[f] : f \in Files} \cup {Nil}
      /\ uploader # Nil => signature = UploadSignature[uploader]
  BY DEF LoadSample, PagesInv, DashboardTypeOK, UploadIsRemembered
<1>4. CASE StoreTable(s, SourceContent[s]) /\ Choose(s, FALSE) /\ target' = SuggestedTarget[s] /\ ShowPage("load", "shown")
  <2>1. /\ chosen' \in [from : Sources \cup {Nil}, repeated : BOOLEAN] /\ chosen'.from = s
        /\ page' = [name |-> "load", how |-> "shown"]
    BY <1>2, <1>4, ChoiceMade DEF ShowPage
  <2> QED
    BY <1>2, <1>3, <1>4, <2>1, TableStored
<1>5. CASE s \in Downloaded /\ KeepDataset /\ UNCHANGED <<chosen, target>> /\ ShowPage("load", "raised")
  BY <1>3, <1>5, ChosenKept, NothingLoaded
<1> QED
  BY <1>1, <1>4, <1>5

\* A file dropped into the widget is read if its signature is new.
LEMMA DropFileInv == PagesInv /\ DropFile => PagesInv'
<1> SUFFICES ASSUME PagesInv, DropFile PROVE PagesInv'
  OBVIOUS
<1>1. PICK f \in Files : /\ uploader' = f /\ RunWithUpload(f)
                        /\ IF page'.how = "refused" THEN UNCHANGED chosen
                           ELSE Choose(f, UploadSignature[f] = signature)
  BY DEF DropFile
<1>2. /\ uploader' \in Files \cup {Nil} /\ signature' = UploadSignature[uploader']
      /\ signature' \in {UploadSignature[g] : g \in Files} \cup {Nil}
      /\ target' = target /\ target \in Columns \cup {Nil}
  BY <1>1 DEF RunWithUpload, IsNewUpload, PagesInv, DashboardTypeOK
<1>a. PICK again \in BOOLEAN : again = (UploadSignature[f] = signature)
  OBVIOUS
<1>3. /\ f \in Sources
      /\ page'.how # "refused" =>
           /\ chosen' \in [from : Sources \cup {Nil}, repeated : BOOLEAN] /\ chosen'.from = f
           /\ again = TRUE => chosen'.repeated
  <2>1. f \in Sources
    BY DEF Sources
  <2>2. ASSUME page'.how # "refused" PROVE Choose(f, again)
    BY <1>1, <1>a, <2>2
  <2> QED
    BY <2>1, <2>2, ChoiceMade
<1>4. CASE KeepDataset /\ ShowPage("load", "refused")
  <2>1. UNCHANGED chosen
    BY <1>1, <1>4 DEF ShowPage
  <2> QED
    BY <1>2, <1>4, <2>1, ChosenKept, NothingLoaded
<1>5. CASE KeepDataset /\ ShowPage("load", "shown") /\ UploadSignature[f] = signature
  <2>1. page'.how # "refused"
    BY <1>5 DEF ShowPage
  <2>2. DatasetIsLastChosen'
    BY <1>a, <1>3, <1>5, <2>1 DEF DatasetIsLastChosen
  <2> QED
    BY <1>2, <1>3, <1>5, <2>1, <2>2, NothingLoaded
<1>6. ASSUME NEW c \in Content, StoreTable(f, c), ShowPage("load", "shown") PROVE PagesInv'
  <2>1. page' = [name |-> "load", how |-> "shown"] /\ page'.how # "refused"
    BY <1>6 DEF ShowPage
  <2> QED
    BY <1>2, <1>3, <1>6, <2>1, TableStored
<1>7. \/ KeepDataset /\ ShowPage("load", "refused")
      \/ KeepDataset /\ ShowPage("load", "shown") /\ UploadSignature[f] = signature
      \/ \E c \in Content : StoreTable(f, c) /\ ShowPage("load", "shown")
  <2>1. UploadReadings(f) \subseteq Content \cup {Nil}
    BY ReadersRead
  <2> QED
    BY <1>1, <2>1 DEF RunWithUpload, Take, IsNewUpload
<1> QED
  BY <1>4, <1>5, <1>6, <1>7

\* A file that stays in the widget is not read again.
LEMMA RerunInv == PagesInv /\ Rerun => PagesInv'
<1> SUFFICES ASSUME PagesInv, Rerun PROVE PagesInv'
  OBVIOUS
<1>1. ~ IsNewUpload(uploader)
  BY DEF PagesInv, UploadIsRemembered, Rerun, IsNewUpload
<1>2. /\ KeepDataset /\ UNCHANGED <<chosen, target, uploader, signature>> /\ ShowPage("load", "shown")
      /\ uploader \in Files \cup {Nil} /\ signature \in {UploadSignature[f] : f \in Files} \cup {Nil}
      /\ uploader # Nil => signature = UploadSignature[uploader]
  BY <1>1 DEF Rerun, RunWithUpload, PagesInv, DashboardTypeOK, UploadIsRemembered
<1> QED
  BY <1>2, ChosenKept, NothingLoaded

LEMMA LoadUrlInv == PagesInv /\ LoadUrl => PagesInv'
<1> SUFFICES ASSUME PagesInv, LoadUrl PROVE PagesInv'
  OBVIOUS
<1>0. PICK f \in Files : \E c \in Readings(f) :
        Take(f, c) /\ IF c = Nil THEN UNCHANGED chosen ELSE Choose(f, FALSE)
  BY DEF LoadUrl
<1>1. PICK c \in Readings(f) : Take(f, c) /\ IF c = Nil THEN UNCHANGED chosen ELSE Choose(f, FALSE)
  BY <1>0
<1>2. /\ UNCHANGED <<target, uploader, signature>> /\ target \in Columns \cup {Nil}
      /\ uploader \in Files \cup {Nil} /\ signature \in {UploadSignature[g] : g \in Files} \cup {Nil}
      /\ uploader # Nil => signature = UploadSignature[uploader]
  BY DEF LoadUrl, PagesInv, DashboardTypeOK, UploadIsRemembered
<1>3. CASE c = Nil
  <2>1. KeepDataset /\ ShowPage("load", "refused") /\ UNCHANGED <<chosen, target>>
    BY <1>1, <1>2, <1>3 DEF Take
  <2> QED
    BY <1>2, <2>1, ChosenKept, NothingLoaded
<1>4. CASE c # Nil
  <2>1. c \in Content
    BY <1>4, ReadersRead
  <2>2. /\ StoreTable(f, c) /\ page' = [name |-> "load", how |-> "shown"] /\ f \in Sources
        /\ chosen' \in [from : Sources \cup {Nil}, repeated : BOOLEAN] /\ chosen'.from = f
    <3>1. f \in Sources /\ FALSE \in BOOLEAN /\ Choose(f, FALSE)
      BY <1>1, <1>4 DEF Sources
    <3> QED
      BY <1>1, <1>4, <3>1, ChoiceMade DEF Take, ShowPage
  <2> QED
    BY <1>2, <2>1, <2>2, TableStored
<1> QED
  BY <1>3, <1>4

\* Cleaning keeps at least one column and at most the rows there were.
LEMMA CleanedIsTable ==
  ASSUME PagesInv, data # Nil, NEW form \in HygieneForms, NEW n \in 1 .. Cardinality(data.rows),
         Cols \ form.drop # {}
  PROVE  /\ Cleaned(form, n).from = data.from
         /\ [kinds |-> Cleaned(form, n).kinds, rows |-> Cleaned(form, n).rows] \in Content
         /\ Cleaned(form, n).from \in Sources
<1>1. /\ data.from \in Sources /\ [kinds |-> data.kinds, rows |-> data.rows] \in Content
  BY DEF PagesInv, DashboardTypeOK
<1>2. PICK S \in SUBSET Columns : data.kinds \in [S -> Kinds]
  BY <1>1 DEF Content
<1>3. data.rows \subseteq 0 .. 9 /\ data.rows # {} /\ Cols = S
  BY <1>1, <1>2 DEF Content, Cols
<1>4. Cardinality(data.rows) \in Nat /\ Cardinality(data.rows) <= 10
  <2> DEFINE m == 9
  <2>1. m \in Nat /\ data.rows \subseteq 0 .. m
    BY <1>3
  <2> HIDE DEF m
  <2>2. IsFiniteSet(0 .. m) /\ Cardinality(0 .. m) = m + 1
    BY <2>1, FS_Interval
  <2>3. Cardinality(data.rows) \in Nat /\ Cardinality(data.rows) <= m + 1
    BY <2>1, <2>2, FS_Subset, FS_CardinalityType
  <2> QED
    BY <2>3 DEF m
<1>5. /\ Cleaned(form, n).kinds = [c \in S \ form.drop |-> IF c \in form.parse THEN "date" ELSE data.kinds[c]]
      /\ Cleaned(form, n).rows = (IF n = Cardinality(data.rows) THEN data.rows ELSE 0 .. n - 1)
      /\ Cleaned(form, n).from = data.from
  <2>0. Cleaned(form, n) =
          [data EXCEPT !.kinds = [c \in S \ form.drop |-> IF c \in form.parse THEN "date" ELSE data.kinds[c]],
                       !.rows  = IF n = Cardinality(data.rows) THEN data.rows ELSE 0 .. n - 1]
    BY <1>3 DEF Cleaned
  <2> QED
    BY <2>0
<1>6. Cleaned(form, n).kinds \in [S \ form.drop -> Kinds] /\ S \ form.drop \in (SUBSET Columns) \ {{}}
  BY <1>2, <1>3, <1>5 DEF Kinds
<1>7. Cleaned(form, n).rows \in (SUBSET (0 .. 9)) \ {{}}
  BY <1>3, <1>4, <1>5
<1> QED
  BY <1>1, <1>5, <1>6, <1>7 DEF Content

LEMMA ApplyHygieneFormInv == PagesInv /\ ApplyHygieneForm => PagesInv'
<1> SUFFICES ASSUME PagesInv, ApplyHygieneForm PROVE PagesInv'
  OBVIOUS
<1>1. PICK form \in HygieneForms, n \in 1 .. Cardinality(data.rows) :
        Cols \ form.drop # {} /\ data' = Cleaned(form, n)
  BY DEF ApplyHygieneForm
<1>2. /\ data'.from = data.from /\ data'.from \in Sources
      /\ [kinds |-> data'.kinds, rows |-> data'.rows] \in Content
      /\ data # Nil
  BY <1>1, CleanedIsTable DEF ApplyHygieneForm
<1>3. /\ UNCHANGED <<chosen, uploader, signature, target, task, features, bundle, report, job, anomaly, reselected>>
      /\ page' = [name |-> "load", how |-> "shown"] /\ Age("cleaned")
  BY DEF ApplyHygieneForm, modelVars, ShowPage
<1>4. /\ since' \in [Results -> Fates] /\ since'["report"] # "kept" /\ since'["anomaly"] # "kept"
      /\ since'["report"] = "replaced" => since["report"] = "replaced"
      /\ job # Nil => since'["job"] # "kept"
  <2>1. "cleaned" \in Fates \ {"kept"}
    BY DEF Fates
  <2> QED
    BY <1>3, <2>1, AgeChanges
<1>5. DashboardTypeOK'
  BY <1>2, <1>3, <1>4 DEF PagesInv, DashboardTypeOK, Outcomes
<1>6. /\ UploadIsRemembered' /\ DatasetIsLastChosen' /\ ModelHasItsColumns' /\ ModelFitsData'
      /\ FlagsFitData' /\ AdvancedHasData' /\ ReportIsDropped'
  BY <1>2, <1>3, <1>4 DEF PagesInv, UploadIsRemembered, DatasetIsLastChosen, ModelHasItsColumns, ModelFitsData,
     FlagsFitData, AdvancedHasData, ReportIsDropped
<1>7. PagesFailOnlyOnMixedState'
  BY <1>3 DEF PagesFailOnlyOnMixedState, PagesRaiseOnlyOnMixedState, PredictionFailsOnlyOnMixedState
<1> QED
  BY <1>5, <1>6, <1>7 DEF PagesInv

LEMMA OpenLoadPageInv == PagesInv /\ OpenLoadPage => PagesInv'
<1> SUFFICES ASSUME PagesInv, OpenLoadPage PROVE PagesInv'
  OBVIOUS
<1>1. PICK how \in {"stopped", "shown"} : ShowPage("load", how)
  BY DEF OpenLoadPage
<1>2. /\ KeepDataset /\ UNCHANGED <<chosen, target, signature, uploader>>
      /\ "load" \in Names /\ how \in Outcomes /\ page' = [name |-> "load", how |-> how]
      /\ uploader \in Files \cup {Nil} /\ signature \in {UploadSignature[f] : f \in Files} \cup {Nil}
      /\ uploader # Nil => signature = UploadSignature[uploader]
  BY <1>1 DEF OpenLoadPage, KeepDataset, modelVars, Names, Outcomes, ShowPage, PagesInv, DashboardTypeOK,
     UploadIsRemembered
<1>3. PagesFailOnlyOnMixedState'
  BY <1>1, <1>2, PageIsFine
<1>4. chosen' \in [from : Sources \cup {Nil}, repeated : BOOLEAN] /\ DatasetIsLastChosen'
  BY <1>2, ChosenKept
<1> QED
  BY <1>2, <1>3, <1>4, DatasetKept

\* Pages 2 and 3 offer their functions only what these can take.
LEMMA InspectionWorks == DescriptivePageWorks /\ DiagnosticPageWorks
<1>1. Numeric \subseteq Cols /\ Categorical \subseteq Cols /\ Datetimes \subseteq Cols
  BY DEF Numeric, Categorical, Datetimes, OfKind
<1>2. DescriptivePageWorks
  BY <1>1 DEF DescriptivePageWorks, Known, GroupingWorks, MonthlyWorks
<1>3. ASSUME Cardinality(Categorical) >= 2, NEW a \in Categorical PROVE Categorical \ {a} # {}
  <2>1. SUFFICES ASSUME Categorical = {a} PROVE FALSE
    OBVIOUS
  <2>2. Cardinality(Categorical) = 1
    BY <2>1, FS_Singleton
  <2> QED
    BY <1>3, <2>2
<1>4. DiagnosticPageWorks
  BY <1>1, <1>3 DEF DiagnosticPageWorks, CorrelationWorks, FocusTarget, GroupingWorks, ChiSquareWorks, Known,
     OutlierTabOpen, OutliersOverviewWorks
<1> QED
  BY <1>2, <1>4

LEMMA InspectInv == PagesInv /\ (DescriptivePage \/ DiagnosticPage \/ BuildReport) => PagesInv'
<1> SUFFICES ASSUME PagesInv, DescriptivePage \/ DiagnosticPage \/ BuildReport PROVE PagesInv'
  OBVIOUS
<1>1. PICK name \in {"descriptive", "diagnostic", "export"}, how \in {"stopped", "shown"} : ShowPage(name, how)
  BY InspectionWorks DEF DescriptivePage, DiagnosticPage, Inspect, BuildReport
<1>2. OnlyRead /\ name \in Names \ {"load"} /\ how \in Outcomes /\ name # "advanced"
  BY DEF DescriptivePage, DiagnosticPage, Inspect, BuildReport, Names, Outcomes
<1>3. PagesFailOnlyOnMixedState'
  BY <1>1, <1>2, PageIsFine
<1> QED
  BY <1>1, <1>2, <1>3, PageReads

LEMMA ApplyPageInv == PagesInv /\ ApplyPage => PagesInv'
<1> SUFFICES ASSUME PagesInv, ApplyPage PROVE PagesInv'
  OBVIOUS
<1>0. PICK input \in {"session", "file"} : \E how \in Prediction(input) : ShowPage("apply", how)
  BY DEF ApplyPage
<1>1. PICK how \in Prediction(input) : ShowPage("apply", how)
  BY <1>0
<1>2. /\ OnlyRead /\ "apply" \in Names \ {"load"} /\ how \in Outcomes /\ how # "raised"
      /\ UNCHANGED <<features, bundle, since, reselected>>
  BY <1>1 DEF ApplyPage, OnlyRead, modelVars, Names, Outcomes, Prediction
<1>3. how = "told" => ForeignModel
  <2>1. how = "told" => ~ NoModel /\ (PredictFails \/ ~ FormFits)
    BY <1>1 DEF Prediction
  <2>2. bundle = Nil \/ bundle.origin \in {"trained", "uploaded"}
    BY DEF PagesInv, DashboardTypeOK
  <2> QED
    BY <2>1, <2>2 DEF NoModel, PredictFails, FormFits, ForeignModel, PagesInv, ModelHasItsColumns
<1>4. PagesFailOnlyOnMixedState'
  BY <1>1, <1>2, <1>3 DEF ShowPage, PagesFailOnlyOnMixedState, PagesRaiseOnlyOnMixedState,
     PredictionFailsOnlyOnMixedState, ForeignModel
<1> QED
  BY <1>1, <1>2, <1>4, PageReads

\* Page 6 raises on a model that does not fit, or a single row.
LEMMA PrescriptivePageInv == PagesInv /\ PrescriptivePage => PagesInv'
<1> SUFFICES ASSUME PagesInv, PrescriptivePage PROVE PagesInv'
  OBVIOUS
<1>1. PICK how \in {"stopped", "raised", "shown"} :
        /\ ShowPage("prescriptive", how)
        /\ how = "raised" =>
             ~ NoModel /\ (~ features \subseteq Cols \/ SliderFails \/ SweepFails)
  BY DEF PrescriptivePage, BaselineFails, NumericFeatureListFails
<1>2. /\ OnlyRead /\ "prescriptive" \in Names \ {"load"} /\ how \in Outcomes
      /\ UNCHANGED <<bundle, since, reselected>>
  BY DEF PrescriptivePage, OnlyRead, modelVars, Names, Outcomes
<1>3. how = "raised" => ForeignModel
  <2>1. bundle = Nil \/ bundle.origin \in {"trained", "uploaded"}
    BY DEF PagesInv, DashboardTypeOK
  <2> QED
    BY <1>1, <2>1 DEF NoModel, SliderFails, SweepFails, PredictFails, PagesInv, ModelFitsData, ModelHasItsColumns,
       ForeignModel
<1>4. PagesFailOnlyOnMixedState'
  BY <1>1, <1>2, <1>3 DEF ShowPage, PagesFailOnlyOnMixedState, PagesRaiseOnlyOnMixedState,
     PredictionFailsOnlyOnMixedState, ForeignModel
<1> QED
  BY <1>1, <1>2, <1>4, PageReads

LEMMA AdvancedPageInv == PagesInv /\ AdvancedPage => PagesInv'
<1> SUFFICES ASSUME PagesInv, AdvancedPage PROVE PagesInv'
  OBVIOUS
<1>1. PICK how \in {"stopped", "raised", "shown"} :
        ShowPage("advanced", how) /\ (how = "raised" => FlaggedFails \/ RatingsFail)
  BY DEF AdvancedPage
<1>2. /\ OnlyRead /\ "advanced" \in Names \ {"load"} /\ how \in Outcomes /\ data # Nil
      /\ UNCHANGED <<data, since>>
  BY DEF AdvancedPage, OnlyRead, Names, Outcomes
<1>3. how = "raised" => since["anomaly"] # "kept" \/ LoneRow
  BY <1>1 DEF FlaggedFails, RatingsFail, PagesInv, FlagsFitData
<1>4. PagesFailOnlyOnMixedState'
  BY <1>1, <1>2, <1>3 DEF ShowPage, PagesFailOnlyOnMixedState, PagesRaiseOnlyOnMixedState,
     PredictionFailsOnlyOnMixedState, LoneRow
<1> QED
  BY <1>1, <1>2, <1>4, PageReads

\* The columns just written are those of what is trained now.
LEMMA Reselected ==
  ASSUME PagesInv, NEW fresh, Reselect(fresh)
  PROVE  /\ reselected' \in [Trainings -> BOOLEAN]
         /\ fresh # "bundle" => (~ reselected'["bundle"] => ~ reselected["bundle"] /\ UNCHANGED <<features, task>>)
         /\ fresh # "job" => (~ reselected'["job"] => ~ reselected["job"] /\ (job = Nil \/ UNCHANGED <<features, task>>))
<1>1. reselected \in [Trainings -> BOOLEAN]
  BY DEF PagesInv, DashboardTypeOK
<1> QED
  BY <1>1 DEF Reselect, Rewritten, Trainings

\* Page 4 chooses columns of the dataset, and trains, submits, or does neither.
LEMMA DrawWidgetsInv ==
  ASSUME PagesInv, ModelPage, DrawWidgets
  PROVE  PagesInv'
<1>1. PICK w \in Selections :
        /\ Settable(w) /\ target' = w.target /\ task' = w.task
        /\ \/ w.features = {} /\ UNCHANGED features /\ NoTraining /\ ShowPage("model", "stopped")
           \/ w.features # {} /\ features' = w.features /\ (Train \/ Submit) /\ ShowPage("model", "shown")
           \/ /\ w.features # {} /\ features' = w.features /\ NoTraining
              /\ \E how \in {"shown", "told"} : ShowPage("model", how)
  BY DEF DrawWidgets
<1>2. w.target \in Columns /\ w.task \in Tasks /\ w.features \subseteq Columns /\ w.features \subseteq Cols
  BY <1>1, DashboardAssumption DEF Settable
<1>3. /\ UNCHANGED <<data, chosen, signature, anomaly>> /\ data # Nil
      /\ uploader' = Nil /\ page'.name = "model" /\ page' \in [name : Names, how : Outcomes]
      /\ page'.how # "raised"
  BY <1>1 DEF ModelPage, ShowPage, Names, Outcomes
<1>4. features' = features \/ features' = w.features
  BY <1>1
<1>5. UploadIsRemembered' /\ DatasetIsLastChosen' /\ AdvancedHasData' /\ PagesFailOnlyOnMixedState'
  BY <1>3 DEF PagesInv, UploadIsRemembered, DatasetIsLastChosen, AdvancedHasData, PagesFailOnlyOnMixedState,
     PagesRaiseOnlyOnMixedState, PredictionFailsOnlyOnMixedState
<1>6. DashboardTypeOK
  BY DEF PagesInv
<1>7. since \in [Results -> Fates]
  BY <1>6 DEF DashboardTypeOK
<1>8. CASE NoTraining
  <2>1. UNCHANGED <<bundle, report, job, since>> /\ Reselect("none")
    BY <1>8 DEF NoTraining
  <2>2. /\ reselected' \in [Trainings -> BOOLEAN]
        /\ ~ reselected'["bundle"] => ~ reselected["bundle"] /\ UNCHANGED <<features, task>>
        /\ ~ reselected'["job"] => ~ reselected["job"] /\ (job = Nil \/ UNCHANGED <<features, task>>)
    BY <2>1, Reselected
  <2>3. DashboardTypeOK'
    BY <1>1, <1>2, <1>3, <1>4, <1>6, <2>1, <2>2 DEF DashboardTypeOK, Names
  <2>4. ModelHasItsColumns' /\ FlagsFitData' /\ ReportIsDropped'
    BY <1>3, <2>1, <2>2 DEF PagesInv, ModelHasItsColumns, FlagsFitData, ReportIsDropped
  <2>5. ModelFitsData'
    BY <1>3, <2>1, <2>2 DEF PagesInv, ModelFitsData, Cols, LoneRow
  <2> QED
    BY <1>5, <2>3, <2>4, <2>5 DEF PagesInv
<1>9. CASE features' = w.features /\ Train
  <2>1. /\ bundle' = [origin |-> "trained", features |-> w.features, task |-> w.task]
        /\ report' = "timely" /\ job' = job /\ ~ LoneRow
    BY <1>1, <1>9 DEF Train
  <2>2. since' \in [Results -> Fates] /\ since'["report"] = "kept" /\ since'["anomaly"] = since["anomaly"]
        /\ since'["job"] = since["job"]
    BY <1>7, <1>9 DEF Train, Results, Fates
  <2>3. /\ reselected' \in [Trainings -> BOOLEAN]
        /\ ~ reselected'["job"] => ~ reselected["job"] /\ (job = Nil \/ UNCHANGED <<features, task>>)
    BY <1>9, Reselected DEF Train
  <2>4. bundle' \in [origin : {"trained", "uploaded"}, features : SUBSET Columns, task : Tasks]
    BY <1>2, <2>1
  <2>5. DashboardTypeOK'
    BY <1>1, <1>2, <1>3, <1>9, <1>6, <2>1, <2>2, <2>3, <2>4 DEF DashboardTypeOK, Names
  <2>6. ModelHasItsColumns' /\ FlagsFitData' /\ ReportIsDropped'
    BY <1>3, <1>9, <2>1, <2>2, <2>3 DEF PagesInv, ModelHasItsColumns, FlagsFitData, ReportIsDropped
  <2>7. ModelFitsData'
    BY <1>1, <1>2, <1>3, <1>9, <2>1, <2>2, <2>3 DEF PagesInv, ModelFitsData, Cols, LoneRow
  <2> QED
    BY <1>5, <2>5, <2>6, <2>7 DEF PagesInv
<1>10. CASE features' = w.features /\ Submit
  <2>1. /\ job' = [features |-> w.features, task |-> w.task, trainable |-> ~ LoneRow]
        /\ UNCHANGED <<bundle, report>>
    BY <1>1, <1>10 DEF Submit
  <2>2. since' \in [Results -> Fates] /\ since'["report"] = since["report"] /\ since'["anomaly"] = since["anomaly"]
    BY <1>7, <1>10 DEF Submit, Results, Fates
  <2>3. /\ reselected' \in [Trainings -> BOOLEAN]
        /\ ~ reselected'["bundle"] => ~ reselected["bundle"] /\ UNCHANGED <<features, task>>
    BY <1>10, Reselected DEF Submit
  <2>4. job' \in [features : SUBSET Columns, task : Tasks, trainable : BOOLEAN]
    BY <1>2, <2>1
  <2>5. DashboardTypeOK'
    BY <1>1, <1>2, <1>3, <1>10, <1>6, <2>1, <2>2, <2>3, <2>4 DEF DashboardTypeOK, Names
  <2>6. ModelHasItsColumns' /\ FlagsFitData' /\ ReportIsDropped'
    BY <1>1, <1>3, <1>10, <2>1, <2>2, <2>3 DEF PagesInv, ModelHasItsColumns, FlagsFitData, ReportIsDropped
  <2>7. ModelFitsData'
    BY <1>1, <1>2, <1>3, <1>10, <2>1, <2>2, <2>3 DEF PagesInv, ModelFitsData, Cols, LoneRow
  <2> QED
    BY <1>5, <2>5, <2>6, <2>7 DEF PagesInv
<1> QED
  BY <1>1, <1>8, <1>9, <1>10

\* What a job was trained for is in the session, or was written over since.
LEMMA StoreResultInv ==
  ASSUME PagesInv, StoreResult, UNCHANGED <<data, target, task, features, anomaly>>, job # Nil,
         since'["report"] = since["job"], reselected'["bundle"] = reselected["job"],
         job' = Nil \/ (job' = job /\ since'["job"] = since["job"] /\ reselected'["job"] = reselected["job"])
  PROVE  /\ bundle' \in [origin : {"trained", "uploaded"}, features : SUBSET Columns, task : Tasks]
         /\ report' \in {"timely", "late"}
         /\ ModelHasItsColumns' /\ ModelFitsData' /\ ReportIsDropped'
<1>1. job \in [features : SUBSET Columns, task : Tasks, trainable : BOOLEAN]
  BY DEF PagesInv, DashboardTypeOK
<1>2. /\ job.trainable /\ bundle' = [origin |-> "trained", features |-> job.features, task |-> job.task]
      /\ report' = IF since["job"] = "replaced" THEN "late" ELSE "timely"
  BY DEF StoreResult
<1>3. bundle' \in [origin : {"trained", "uploaded"}, features : SUBSET Columns, task : Tasks]
  BY <1>1, <1>2
<1>4. ModelHasItsColumns' /\ ReportIsDropped'
  BY <1>2 DEF PagesInv, ModelHasItsColumns, ReportIsDropped
<1>5. ModelFitsData'
  BY <1>2 DEF PagesInv, ModelHasItsColumns, ModelFitsData, Cols, LoneRow
<1> QED
  BY <1>2, <1>3, <1>4, <1>5

\* Page 4 finds the job running, ended or failed.
LEMMA FindJobInv ==
  ASSUME PagesInv, ModelPage, FindJob
  PROVE  PagesInv'
<1>1. /\ UNCHANGED <<data, chosen, signature, anomaly, target, task, features>> /\ data # Nil /\ job # Nil
      /\ DashboardTypeOK /\ since \in [Results -> Fates] /\ reselected \in [Trainings -> BOOLEAN]
  BY DEF ModelPage, FindJob, PagesInv, DashboardTypeOK
<1>2. PICK how \in {"stopped", "shown", "raised", "told"} :
        /\ ShowPage("model", how)
        /\ \/ UNCHANGED <<bundle, report, job, since, reselected>> /\ how = "stopped"
           \/ StoreResult /\ JobGoes(TRUE) /\ how = "shown"
           \/ /\ StoreResult /\ job' = job /\ how = "raised"
              /\ since' = [since EXCEPT !["report"] = since["job"]]
              /\ reselected' = [reselected EXCEPT !["bundle"] = reselected["job"]]
           \/ UNCHANGED <<bundle, report>> /\ JobGoes(FALSE) /\ how = "told"
  BY DEF FindJob
<1>3. uploader' = Nil /\ page' = [name |-> "model", how |-> how] /\ (how = "raised" => job' # Nil)
  BY <1>1, <1>2 DEF ShowPage
<1>4. UploadIsRemembered' /\ DatasetIsLastChosen' /\ AdvancedHasData' /\ PagesFailOnlyOnMixedState'
  BY <1>1, <1>3 DEF PagesInv, UploadIsRemembered, DatasetIsLastChosen, AdvancedHasData, PagesFailOnlyOnMixedState,
     PagesRaiseOnlyOnMixedState, PredictionFailsOnlyOnMixedState
<1>5. /\ since' \in [Results -> Fates] /\ reselected' \in [Trainings -> BOOLEAN]
      /\ since'["anomaly"] = since["anomaly"] /\ (job' = Nil \/ job' = job)
  BY <1>1, <1>2 DEF JobGoes, Results, Fates, Trainings
<1>6. /\ bundle' = Nil \/ bundle' \in [origin : {"trained", "uploaded"}, features : SUBSET Columns, task : Tasks]
      /\ report' \in {"none", "timely", "late"}
      /\ ModelHasItsColumns' /\ ModelFitsData' /\ ReportIsDropped'
  <2>1. CASE UNCHANGED <<bundle, report, job, since, reselected>>
    BY <1>1, <2>1 DEF DashboardTypeOK, PagesInv, ModelHasItsColumns, ModelFitsData, ReportIsDropped, Cols, LoneRow
  <2>2. CASE StoreResult /\ JobGoes(TRUE)
    <3>1. job' = Nil /\ since'["report"] = since["job"] /\ reselected'["bundle"] = reselected["job"]
      BY <1>1, <2>2 DEF JobGoes, Results, Trainings
    <3> QED
      BY <1>1, <2>2, <3>1, StoreResultInv
  <2>3. CASE /\ StoreResult /\ job' = job
             /\ since' = [since EXCEPT !["report"] = since["job"]]
             /\ reselected' = [reselected EXCEPT !["bundle"] = reselected["job"]]
    <3>1. /\ since'["report"] = since["job"] /\ reselected'["bundle"] = reselected["job"]
          /\ since'["job"] = since["job"] /\ reselected'["job"] = reselected["job"]
      BY <1>1, <2>3 DEF Results, Trainings
    <3> QED
      BY <1>1, <2>3, <3>1, StoreResultInv
  <2>4. CASE UNCHANGED <<bundle, report>> /\ JobGoes(FALSE)
    <3>1. job' = Nil /\ since'["report"] = since["report"] /\ reselected'["bundle"] = reselected["bundle"]
      BY <1>1, <2>4 DEF JobGoes, Results, Trainings
    <3> QED
      BY <1>1, <2>4, <3>1 DEF DashboardTypeOK, PagesInv, ModelHasItsColumns, ModelFitsData, ReportIsDropped, Cols, LoneRow
  <2> QED
    BY <1>2, <2>1, <2>2, <2>3, <2>4
<1>7. DashboardTypeOK'
  BY <1>1, <1>3, <1>5, <1>6 DEF DashboardTypeOK, Outcomes
<1>8. FlagsFitData'
  BY <1>1, <1>5 DEF PagesInv, FlagsFitData
<1> QED
  BY <1>4, <1>6, <1>7, <1>8 DEF PagesInv

LEMMA ModelPageInv == PagesInv /\ ModelPage => PagesInv'
BY DrawWidgetsInv, FindJobInv DEF ModelPage

LEMMA UploadBundleInv == PagesInv /\ UploadBundle => PagesInv'
<1> SUFFICES ASSUME PagesInv, UploadBundle PROVE PagesInv'
  OBVIOUS
<1>0. CASE UNCHANGED <<bundle, target, task, features, reselected>> /\ ShowPage("apply", "refused")
  <2>1. OnlyRead /\ "apply" \in Names \ {"load"} /\ "refused" \in Outcomes
    BY <1>0 DEF UploadBundle, OnlyRead, modelVars, Names, Outcomes
  <2>2. PagesFailOnlyOnMixedState'
    BY <1>0, <2>1, PageIsFine
  <2> QED
    BY <1>0, <2>1, <2>2, PageReads
<1>1. ASSUME NEW card \in Cards, LoadBundle(card), ShowPage("apply", "shown") PROVE PagesInv'
  <2>1. card.features \subseteq Columns /\ card.task \in Tasks /\ card.target \in Columns
    BY DashboardAssumption
  <2>2. /\ UNCHANGED <<data, chosen, signature, anomaly, since, report, job>>
        /\ bundle' = [origin |-> "uploaded", features |-> card.features, task |-> card.task]
        /\ task' = card.task /\ target' = card.target /\ features' = card.features
        /\ uploader' = Nil /\ page' = [name |-> "apply", how |-> "shown"]
    BY <1>1 DEF UploadBundle, LoadBundle, ShowPage
  <2>3. bundle' \in [origin : {"trained", "uploaded"}, features : SUBSET Columns, task : Tasks]
    BY <2>1, <2>2
  <2>4. /\ reselected' \in [Trainings -> BOOLEAN]
        /\ ~ reselected'["job"] => ~ reselected["job"] /\ (job = Nil \/ UNCHANGED <<features, task>>)
    BY <1>1, Reselected DEF LoadBundle
  <2>5. DashboardTypeOK'
    BY <2>1, <2>2, <2>3, <2>4 DEF PagesInv, DashboardTypeOK, Outcomes
  <2>6. /\ UploadIsRemembered' /\ DatasetIsLastChosen' /\ ModelHasItsColumns'
        /\ FlagsFitData' /\ AdvancedHasData' /\ ReportIsDropped'
    BY <2>2, <2>4 DEF PagesInv, UploadIsRemembered, DatasetIsLastChosen, ModelHasItsColumns,
       FlagsFitData, AdvancedHasData, ReportIsDropped
  <2>7. ModelFitsData'
    BY <2>2, <2>4 DEF PagesInv, ModelFitsData, Cols, LoneRow
  <2>8. PagesFailOnlyOnMixedState'
    BY <2>2 DEF PagesFailOnlyOnMixedState, PagesRaiseOnlyOnMixedState, PredictionFailsOnlyOnMixedState
  <2> QED
    BY <2>5, <2>6, <2>7, <2>8 DEF PagesInv
<1> QED
  BY <1>0, <1>1 DEF UploadBundle

\* Page 7 flags rows of the dataset on screen.
LEMMA DetectAnomaliesInv == PagesInv /\ DetectAnomalies => PagesInv'
<1> SUFFICES ASSUME PagesInv, DetectAnomalies PROVE PagesInv'
  OBVIOUS
<1>1. /\ UNCHANGED <<data, chosen, signature, target, task, features, bundle, report, job, reselected>>
      /\ data # Nil /\ DashboardTypeOK
  BY DEF DetectAnomalies, modelVars, PagesInv, AdvancedHasData
<1>2. CASE /\ UNCHANGED <<anomaly, since>>
           /\ ShowPage("advanced", IF FlaggedFails \/ RatingsFail THEN "raised" ELSE "told")
  <2>1. PICK how \in {"raised", "told"} :
          ShowPage("advanced", how) /\ (how = "raised" => FlaggedFails \/ RatingsFail)
    BY <1>2
  <2>2. OnlyRead /\ "advanced" \in Names \ {"load"} /\ how \in Outcomes
    BY <1>1, <1>2 DEF OnlyRead, modelVars, Names, Outcomes
  <2>3. how = "raised" => since["anomaly"] # "kept" \/ LoneRow
    BY <2>1 DEF FlaggedFails, RatingsFail, PagesInv, FlagsFitData
  <2>4. PagesFailOnlyOnMixedState'
    BY <1>1, <1>2, <2>1, <2>3 DEF ShowPage, PagesFailOnlyOnMixedState, PagesRaiseOnlyOnMixedState,
       PredictionFailsOnlyOnMixedState, LoneRow
  <2> QED
    BY <1>1, <2>1, <2>2, <2>4, PageReads
<1>3. ASSUME NEW kept \in (SUBSET data.rows) \ {{}}, anomaly' = Detected(kept),
             since' = [since EXCEPT !["anomaly"] = "kept"],
             ShowPage("advanced", IF anomaly' \subseteq data.rows THEN "shown" ELSE "raised")
      PROVE  PagesInv'
  <2>1. /\ anomaly' \subseteq data.rows /\ uploader' = Nil
        /\ page' = [name |-> "advanced", how |-> "shown"]
    BY <1>3 DEF Detected, ShowPage
  <2>2. data.rows \subseteq 0 .. 9 /\ since \in [Results -> Fates]
    BY <1>1 DEF DashboardTypeOK, Content
  <2>3. since' \in [Results -> Fates] /\ since'["report"] = since["report"] /\ since'["job"] = since["job"]
    BY <1>3, <2>2 DEF Results, Fates
  <2>4. DashboardTypeOK'
    BY <1>1, <2>1, <2>2, <2>3 DEF DashboardTypeOK, Outcomes
  <2>5. /\ UploadIsRemembered' /\ DatasetIsLastChosen' /\ ModelHasItsColumns' /\ FlagsFitData'
        /\ AdvancedHasData' /\ ReportIsDropped'
    BY <1>1, <2>1, <2>3 DEF PagesInv, UploadIsRemembered, DatasetIsLastChosen, ModelHasItsColumns,
       FlagsFitData, AdvancedHasData, ReportIsDropped
  <2>6. ModelFitsData'
    BY <1>1, <2>3 DEF PagesInv, ModelFitsData, Cols, LoneRow
  <2>7. PagesFailOnlyOnMixedState'
    BY <2>1 DEF PagesFailOnlyOnMixedState, PagesRaiseOnlyOnMixedState, PredictionFailsOnlyOnMixedState
  <2> QED
    BY <2>4, <2>5, <2>6, <2>7 DEF PagesInv
<1> QED
  BY <1>2, <1>3 DEF DetectAnomalies

LEMMA PagesStepInv == PagesInv /\ [DashboardNext]_dashboardVars => PagesInv'
<1> SUFFICES ASSUME PagesInv, [DashboardNext]_dashboardVars PROVE PagesInv'
  OBVIOUS
<1>1. CASE UNCHANGED dashboardVars
  BY <1>1 DEF dashboardVars, modelVars, PagesInv, DashboardTypeOK, UploadIsRemembered, DatasetIsLastChosen,
     ModelHasItsColumns, ModelFitsData, FlagsFitData, AdvancedHasData, ReportIsDropped,
     PagesFailOnlyOnMixedState, PagesRaiseOnlyOnMixedState, PredictionFailsOnlyOnMixedState, ForeignModel, Cols, LoneRow
<1> QED
  BY <1>1, OpenLoadPageInv, LoadSampleInv, DropFileInv, RerunInv, LoadUrlInv, ApplyHygieneFormInv, InspectInv,
     ModelPageInv, UploadBundleInv, ApplyPageInv, PrescriptivePageInv, AdvancedPageInv, DetectAnomaliesInv
     DEF DashboardNext

-----------------------------------------------------------------------------
(* Pages: theorems *)

LEMMA PagesInvariant == DashboardSpec => []PagesInv
BY PagesInitInv, PagesStepInv, PTL DEF DashboardSpec

\* The dataset on screen is the one loaded last: the file that stays in the
\* widget never comes back over a sample or a URL loaded after it.  Only a file
\* with the name and size of the file uploaded before it is ignored.
THEOREM LastChosenShown == DashboardSpec => []DatasetIsLastChosen
<1>1. PagesInv => DatasetIsLastChosen
  BY DEF PagesInv
<1> QED
  BY <1>1, PagesInvariant, PTL

\* In every order of page visits, with trainings ending in the background between
\* any two of them, a page fails only for the network, for a model that cannot
\* be pickled, for a single row, or for values of different moments.
THEOREM OnlyMixedStateFails == DashboardSpec => []PagesFailOnlyOnMixedState
<1>1. PagesInv => PagesFailOnlyOnMixedState
  BY DEF PagesInv
<1> QED
  BY <1>1, PagesInvariant, PTL

\* A report that quotes the metrics of a replaced dataset was stored by a job
\* that ended after the dataset was replaced.
THEOREM ReportsMixOnlyWhenLate == DashboardSpec => []ReportMixesOnlyWhenLate
<1>1. PagesInv => ReportMixesOnlyWhenLate
  BY DEF PagesInv, ReportIsDropped, ReportMixesOnlyWhenLate
<1> QED
  BY <1>1, PagesInvariant, PTL

-----------------------------------------------------------------------------
(* Exports: the invariant *)

FileFormats == {"html", "png", "pdf", "docx", "csv", "json", "zip"}
FileNames   == STRING \cup {"report", "metrics", "chart", "manifest", "package"}
Listable    == [name : FileNames, format : FileFormats] \ {Manifest, Package}
Call        == [kind : ExportKinds \cup {"none"}, todo : Seq(Listable \cup {Manifest, Package}),
                dir : Exports \cup {"none"}, listed : SUBSET Listable,
                state : {"new", "writing", "answered", "failed"}]

InDir(e)       == {d \in disk : d.at.dir = e}
Entry(e, f, content) == [at |-> [dir |-> e, file |-> f], by |-> e, content |-> content]
Own(e)         == {Entry(e, f, {}) : f \in exports[e].listed}
Archive(e)     == [dir |-> e, holds |-> InDir(e)]

\* A call that is to end with manifest and archive has them last in its list.
HasClosing(e)  == \E B \in Seq(Listable) : exports[e].todo = B \o <<Manifest, Package>>
Automated(e)   == exports[e].kind = "automated" /\ exports[e].state \in {"writing", "answered"}

\* A call's directory, and the archive beside it, hold what it wrote so far.
CallInv(e) ==
  /\ exports[e].state = "new" => InDir(e) = {}
  /\ exports[e].state # "new" => exports[e].dir = e
  /\ exports[e].state \in {"answered", "failed"} => exports[e].todo = <<>>
  /\ exports[e].state \in {"writing", "answered"} /\ ~ Automated(e) =>
       exports[e].todo \in Seq(Listable) /\ InDir(e) = Own(e)
  /\ Automated(e) =>
       \/ HasClosing(e) /\ InDir(e) = Own(e)
       \/ exports[e].todo \in {<<Package>>, <<>>} /\ InDir(e) = Own(e) \cup {Entry(e, Manifest, exports[e].listed)}
  /\ Automated(e) /\ exports[e].todo = <<>> => Archive(e) \in archives

\* Files lie where their call wrote them, archives beside finished directories.
FilesInv ==
  /\ \A d \in disk : d.by \in Exports /\ d.at.dir = d.by
  /\ \A a \in archives :
       /\ a.dir \in Exports /\ exports[a.dir].state # "new" /\ exports[a.dir].todo = <<>>
       /\ a.holds \subseteq InDir(a.dir)

ExportInv ==
  /\ renders \in BOOLEAN
  /\ exports \in [Exports -> Call]
  /\ \A e \in Exports : CallInv(e)
  /\ FilesInv

\* Taking the first step of a list of steps that has an end to keep.
LEMMA TailKeepsEnd ==
  ASSUME NEW S, NEW T, NEW B \in Seq(S), NEW C \in Seq(T), B # <<>>
  PROVE  /\ Head(B \o C) = Head(B) /\ Head(B) \in S
         /\ Tail(B \o C) = Tail(B) \o C /\ Tail(B) \in Seq(S)
<1>1. B \in Seq(S \cup T) /\ C \in Seq(S \cup T)
  <2>1. S \subseteq S \cup T /\ T \subseteq S \cup T
    OBVIOUS
  <2> QED
    BY <2>1, SeqMonotonic
<1>2. /\ Len(B) \in Nat /\ Len(C) \in Nat /\ Len(B) > 0
      /\ B \o C \in Seq(S \cup T) /\ Len(B \o C) = Len(B) + Len(C)
      /\ \A i \in 1 .. Len(B) + Len(C) : (B \o C)[i] = IF i <= Len(B) THEN B[i] ELSE C[i - Len(B)]
  BY <1>1, ConcatProperties, LenProperties, EmptySeq
<1>3. /\ Head(B) = B[1] /\ Tail(B) \in Seq(S) /\ Len(Tail(B)) = Len(B) - 1
      /\ \A i \in 1 .. Len(B) - 1 : Tail(B)[i] = B[i + 1]
      /\ B[1] \in S
  BY <1>2, HeadTailProperties, ElementOfSeq
<1>4. B \o C # <<>>
  BY <1>2, EmptySeq
<1>5. /\ Head(B \o C) = (B \o C)[1] /\ Tail(B \o C) \in Seq(S \cup T)
      /\ Len(Tail(B \o C)) = Len(B) + Len(C) - 1
      /\ \A i \in 1 .. Len(B) + Len(C) - 1 : Tail(B \o C)[i] = (B \o C)[i + 1]
  BY <1>2, <1>4, HeadTailProperties
<1>6. Head(B \o C) = B[1]
  BY <1>2, <1>5
<1>7. Tail(B) \in Seq(S \cup T)
  BY <1>3, SeqMonotonic
<1>8. /\ Tail(B) \o C \in Seq(S \cup T) /\ Len(Tail(B) \o C) = Len(B) - 1 + Len(C)
      /\ \A i \in 1 .. Len(B) - 1 + Len(C) :
           (Tail(B) \o C)[i] = IF i <= Len(B) - 1 THEN Tail(B)[i] ELSE C[i - (Len(B) - 1)]
  BY <1>1, <1>3, <1>7, ConcatProperties
<1>9. \A i \in 1 .. Len(B) + Len(C) - 1 : Tail(B \o C)[i] = (Tail(B) \o C)[i]
  <2> SUFFICES ASSUME NEW i \in 1 .. Len(B) + Len(C) - 1 PROVE Tail(B \o C)[i] = (Tail(B) \o C)[i]
    OBVIOUS
  <2>1. Tail(B \o C)[i] = IF i + 1 <= Len(B) THEN B[i + 1] ELSE C[i + 1 - Len(B)]
    BY <1>2, <1>5
  <2>2. (Tail(B) \o C)[i] = IF i <= Len(B) - 1 THEN Tail(B)[i] ELSE C[i - (Len(B) - 1)]
    BY <1>2, <1>8
  <2>3. CASE i <= Len(B) - 1
    BY <1>2, <1>3, <2>1, <2>2, <2>3
  <2>4. CASE ~ i <= Len(B) - 1
    <3>1. i + 1 - Len(B) = i - (Len(B) - 1) /\ ~ i + 1 <= Len(B)
      BY <1>2, <2>4
    <3> QED
      BY <2>1, <2>2, <2>4, <3>1
  <2> QED
    BY <2>3, <2>4
<1>10. Len(Tail(B \o C)) = Len(Tail(B) \o C)
  BY <1>2, <1>5, <1>8
<1> QED
  BY <1>2, <1>3, <1>5, <1>6, <1>8, <1>9, <1>10, SeqEqual

\* The files a call is to write: charts, documents and tables, then what closes
\* an automated package.
LEMMA StepsAre ==
  ASSUME renders \in BOOLEAN, NEW kind \in ExportKinds, NEW columns \in ChartColumns, NEW metrics \in BOOLEAN
  PROVE  IF kind = "automated"
         THEN \E B \in Seq(Listable) : Steps(kind, columns, metrics) = B \o <<Manifest, Package>>
         ELSE Steps(kind, columns, metrics) \in Seq(Listable)
<1>1. ASSUME NEW name \in FileNames, NEW format \in FileFormats, format \notin {"json", "zip"} \/ name = "metrics"
      PROVE  File(name, format) \in Listable
  BY <1>1 DEF Listable, FileFormats, File, Manifest, Package
<1>2. ASSUME NEW i \in {1, 2, 3}, ~ Len(columns) < i
      PROVE  File(columns[i], "html") \in Listable /\ File(columns[i], "png") \in Listable
  <2>1. columns[i] \in FileNames
    BY <1>2, ChartsAssumption DEF FileNames
  <2> QED
    BY <1>1, <2>1 DEF FileFormats
<1>3. Charts(columns) \in Seq(Listable)
  <2> DEFINE image(i) == IF renders THEN <<File(columns[i], "png")>> ELSE <<>>
             chart(i) == IF Len(columns) < i THEN <<>> ELSE <<File(columns[i], "html")>> \o image(i)
  <2>1. ASSUME NEW i \in {1, 2, 3} PROVE chart(i) \in Seq(Listable)
    BY <1>2
  <2>2. Charts(columns) = chart(1) \o chart(2) \o chart(3)
    BY Zenon DEF Charts
  <2> HIDE DEF chart
  <2> QED
    BY <2>1, <2>2
<1>4. /\ File("report", "pdf") \in Listable /\ File("report", "docx") \in Listable
      /\ File("metrics", "csv") \in Listable /\ File("metrics", "json") \in Listable
      /\ File("chart", "html") \in Listable /\ File("chart", "png") \in Listable
  <2>1. "report" \in FileNames /\ "metrics" \in FileNames /\ "chart" \in FileNames
    BY DEF FileNames
  <2>2. {"pdf", "docx", "csv", "json", "html", "png"} \subseteq FileFormats
    BY DEF FileFormats
  <2>3. ASSUME NEW format \in {"pdf", "docx", "csv", "json", "html", "png"} PROVE File("metrics", format) \in Listable
    BY <1>1, <2>1, <2>2
  <2>4. ASSUME NEW name \in {"report", "chart"}, NEW format \in {"pdf", "docx", "html", "png"}
        PROVE  File(name, format) \in Listable
    BY <1>1, <2>1, <2>2
  <2> QED
    BY <2>3, <2>4
<1>5. CASE kind = "automated"
  <2> DEFINE B == Charts(columns) \o <<File("report", "pdf"), File("report", "docx")>>
                    \o (IF metrics THEN <<File("metrics", "csv"), File("metrics", "json")>> ELSE <<>>)
  <2>1. B \in Seq(Listable)
    BY <1>3, <1>4
  <2>2. Steps(kind, columns, metrics) = B \o <<Manifest, Package>>
    BY <1>5 DEF Steps, Documents
  <2> HIDE DEF B
  <2> QED
    BY <1>5, <2>1, <2>2
<1>6. CASE kind # "automated"
  <2>1. \/ Steps(kind, columns, metrics) = <<File("report", "pdf"), File("report", "docx")>>
             \o (IF metrics THEN <<File("metrics", "csv")>> ELSE <<>>)
        \/ \E name \in {"report"}, format \in {"pdf", "docx"} : Steps(kind, columns, metrics) = <<File(name, format)>>
        \/ \E name \in {"chart"}, format \in {"html", "png"} : Steps(kind, columns, metrics) = <<File(name, format)>>
        \/ \E name \in {"metrics"}, format \in {"csv", "json"} : Steps(kind, columns, metrics) = <<File(name, format)>>
    BY <1>6 DEF Steps, ExportKinds, Documents
  <2> QED
    BY <1>4, <1>6, <2>1
<1> QED
  BY <1>5, <1>6

-----------------------------------------------------------------------------
(* Exports: the steps *)

LEMMA ExportInitInv == ExportInit => ExportInv
<1> SUFFICES ASSUME ExportInit PROVE ExportInv
  OBVIOUS
<1>1. Unstarted \in Call
  BY DEF Unstarted, Call
<1>2. /\ renders \in BOOLEAN /\ exports = [e \in Exports |-> Unstarted] /\ disk = {} /\ archives = {}
  BY DEF ExportInit
<1>3. \A e \in Exports : exports[e].state = "new" /\ InDir(e) = {}
  BY <1>2 DEF Unstarted, InDir
<1>4. \A e \in Exports : CallInv(e)
  BY <1>3 DEF CallInv, Automated
<1> QED
  BY <1>1, <1>2, <1>4 DEF ExportInv, FilesInv

\* A call that moves, and writes only to its directory, leaves the others alone.
LEMMA CallMoves ==
  ASSUME ExportInv, renders' = renders, NEW e \in Exports, NEW c \in Call, exports' = [exports EXCEPT ![e] = c],
         \A d : d.at.dir # e => (d \in disk' <=> d \in disk),
         \A d \in disk' : d.at.dir = e => d.by = e,
         \/ archives' = archives /\ \A a \in archives : a.dir # e
         \/ /\ archives' = {a \in archives : a.dir # e} \cup {Archive(e)'}
            /\ c.state # "new" /\ c.todo = <<>>,
         CallInv(e)'
  PROVE  ExportInv'
<1>1. /\ exports \in [Exports -> Call] /\ exports' \in [Exports -> Call] /\ exports'[e] = c
      /\ \A g \in Exports \ {e} : exports'[g] = exports[g]
  BY DEF ExportInv
<1>2. \A g \in Exports \ {e} : InDir(g)' = InDir(g)
  BY DEF InDir
<1>3. ASSUME NEW g \in Exports \ {e} PROVE CallInv(g)'
  <2>1. exports'[g] = exports[g] /\ InDir(g)' = InDir(g) /\ CallInv(g)
    BY <1>1, <1>2 DEF ExportInv
  <2>2. Own(g)' = Own(g) /\ Archive(g)' = Archive(g) /\ (HasClosing(g)' <=> HasClosing(g))
        /\ (Automated(g)' <=> Automated(g))
    BY <2>1 DEF Own, Archive, HasClosing, Automated
  <2>3. Archive(g) \in archives => Archive(g) \in archives'
    BY DEF Archive
  <2> QED
    BY <2>1, <2>2, <2>3 DEF CallInv
<1>4. FilesInv'
  <2>1. \A d \in disk' : d.by \in Exports /\ d.at.dir = d.by
    BY DEF ExportInv, FilesInv
  <2>2. ASSUME NEW a \in archives, a.dir # e
        PROVE  /\ a.dir \in Exports /\ exports'[a.dir].state # "new" /\ exports'[a.dir].todo = <<>>
               /\ a.holds \subseteq InDir(a.dir)'
    BY <1>1, <1>2, <2>2 DEF ExportInv, FilesInv
  <2>3. Archive(e)'.dir = e /\ Archive(e)'.holds = InDir(e)'
    BY DEF Archive
  <2>4. ASSUME NEW a \in archives'
        PROVE  /\ a.dir \in Exports /\ exports'[a.dir].state # "new" /\ exports'[a.dir].todo = <<>>
               /\ a.holds \subseteq InDir(a.dir)'
    BY <1>1, <2>2, <2>3, <2>4
  <2> QED
    BY <2>1, <2>4 DEF FilesInv
<1> QED
  BY <1>1, <1>3, <1>4 DEF ExportInv

\* A list with its closing files is not at its end.
LEMMA ClosingIsNotEmpty ==
  ASSUME NEW B \in Seq(Listable) PROVE B \o <<Manifest, Package>> # <<>>
<1>1. Listable \subseteq Listable \cup {Manifest, Package}
  OBVIOUS
<1>2. B \in Seq(Listable \cup {Manifest, Package}) /\ <<Manifest, Package>> \in Seq(Listable \cup {Manifest, Package})
  BY <1>1, SeqMonotonic
<1>3. Len(B \o <<Manifest, Package>>) = Len(B) + 2 /\ Len(B) \in Nat
  BY <1>2, ConcatProperties, LenProperties
<1> QED
  BY <1>3, EmptySeq

LEMMA BeginExportInv ==
  ASSUME ExportInv, NEW e \in Exports, NEW kind \in ExportKinds, NEW columns \in ChartColumns, NEW metrics \in BOOLEAN,
         BeginExport(e, kind, columns, metrics)
  PROVE  ExportInv'
<1> DEFINE steps == Steps(kind, columns, metrics)
           c == [kind |-> kind, todo |-> steps, dir |-> e, listed |-> {}, state |-> "writing"]
<1>1. /\ exports[e].state = "new" /\ exports' = [exports EXCEPT ![e] = c] /\ UNCHANGED <<renders, disk, archives>>
  BY DEF BeginExport, RunDir
<1>2. /\ renders \in BOOLEAN /\ exports \in [Exports -> Call] /\ CallInv(e) /\ FilesInv
  BY DEF ExportInv
<1>3. /\ steps \in Seq(Listable \cup {Manifest, Package})
      /\ IF kind = "automated" THEN \E B \in Seq(Listable) : steps = B \o <<Manifest, Package>>
         ELSE steps \in Seq(Listable)
  <2>1. IF kind = "automated" THEN \E B \in Seq(Listable) : steps = B \o <<Manifest, Package>>
         ELSE steps \in Seq(Listable)
    BY <1>2, StepsAre
  <2> HIDE DEF steps
  <2>2. ASSUME NEW B \in Seq(Listable) PROVE B \in Seq(Listable \cup {Manifest, Package})
    <3>1. Listable \subseteq Listable \cup {Manifest, Package}
      OBVIOUS
    <3> QED
      BY <3>1, SeqMonotonic
  <2>3. <<Manifest, Package>> \in Seq(Listable \cup {Manifest, Package})
    OBVIOUS
  <2> QED
    BY <2>1, <2>2, <2>3, ConcatProperties
<1> HIDE DEF steps
<1>4. c \in Call /\ c.state = "writing" /\ c.todo = steps /\ c.listed = {} /\ c.kind = kind /\ c.dir = e
  BY <1>3 DEF Call
<1> HIDE DEF c
<1>5. exports'[e] = c
  BY <1>1, <1>2
<1>6. InDir(e)' = {} /\ Own(e)' = {} /\ (Automated(e)' <=> kind = "automated")
  <2>1. InDir(e) = {}
    BY <1>1, <1>2 DEF CallInv
  <2> QED
    BY <1>1, <1>4, <1>5, <2>1 DEF InDir, Own, Automated
<1>7. CallInv(e)'
  <2>1. CASE kind = "automated"
    <3>1. HasClosing(e)' /\ exports'[e].todo # <<>>
      <4>1. PICK B \in Seq(Listable) : steps = B \o <<Manifest, Package>>
        BY <1>3, <2>1
      <4>2. B \o <<Manifest, Package>> # <<>>
        BY ClosingIsNotEmpty
      <4> QED
        BY <1>4, <1>5, <4>1, <4>2 DEF HasClosing
    <3> QED
      BY <1>4, <1>5, <1>6, <2>1, <3>1 DEF CallInv
  <2>2. CASE kind # "automated"
    BY <1>3, <1>4, <1>5, <1>6, <2>2 DEF CallInv
  <2> QED
    BY <2>1, <2>2
<1>8. \A a \in archives : a.dir # e
  BY <1>1, <1>2 DEF FilesInv
<1>9. \A d \in disk' : d.at.dir = e => d.by = e
  BY <1>1, <1>2 DEF FilesInv
<1> QED
  BY <1>1, <1>4, <1>7, <1>8, <1>9, CallMoves

\* What a call that is writing is about to do.
LEMMA NextFile ==
  ASSUME ExportInv, NEW e \in Exports, exports[e].state = "writing", exports[e].todo # <<>>
  PROVE  LET f == Head(exports[e].todo)
             rest == Tail(exports[e].todo)
         IN  /\ rest \in Seq(Listable \cup {Manifest, Package})
             /\ \/ /\ f \in Listable /\ InDir(e) = Own(e)
                   /\ Automated(e) => \E B \in Seq(Listable) : rest = B \o <<Manifest, Package>>
                   /\ ~ Automated(e) => rest \in Seq(Listable)
                \/ Automated(e) /\ f = Manifest /\ rest = <<Package>> /\ InDir(e) = Own(e)
                \/ /\ Automated(e) /\ f = Package /\ rest = <<>>
                   /\ InDir(e) = Own(e) \cup {Entry(e, Manifest, exports[e].listed)}
<1> DEFINE todo == exports[e].todo
<1>1. /\ CallInv(e) /\ todo \in Seq(Listable \cup {Manifest, Package}) /\ todo # <<>>
  BY DEF ExportInv, Call
<1>2. Tail(todo) \in Seq(Listable \cup {Manifest, Package})
  BY <1>1, HeadTailProperties
<1>3. CASE ~ Automated(e)
  <2>1. todo \in Seq(Listable) /\ InDir(e) = Own(e)
    BY <1>1, <1>3 DEF CallInv
  <2>2. Head(todo) \in Listable /\ Tail(todo) \in Seq(Listable)
    BY <1>1, <2>1, HeadTailProperties
  <2> QED
    BY <1>2, <1>3, <2>1, <2>2
<1>4. CASE Automated(e) /\ HasClosing(e) /\ InDir(e) = Own(e)
  <2>1. PICK B \in Seq(Listable) : todo = B \o <<Manifest, Package>>
    BY <1>4 DEF HasClosing
  <2>2. CASE B = <<>>
    <3>1. <<Manifest, Package>> \in Seq({Manifest, Package})
      OBVIOUS
    <3>2. todo = <<Manifest, Package>>
      BY <2>1, <2>2, <3>1, ConcatEmptySeq
    <3>3. Head(todo) = Manifest /\ Tail(todo) = <<Package>>
      BY <3>2
    <3> QED
      BY <1>2, <1>4, <3>3
  <2>3. CASE B # <<>>
    <3>1. <<Manifest, Package>> \in Seq({Manifest, Package})
      OBVIOUS
    <3>2. Head(todo) \in Listable /\ Tail(todo) = Tail(B) \o <<Manifest, Package>> /\ Tail(B) \in Seq(Listable)
      BY <2>1, <2>3, <3>1, TailKeepsEnd
    <3> QED
      BY <1>2, <1>4, <3>2
  <2> QED
    BY <2>2, <2>3
<1>5. CASE Automated(e) /\ todo = <<Package>> /\ InDir(e) = Own(e) \cup {Entry(e, Manifest, exports[e].listed)}
  <2>1. Head(todo) = Package /\ Tail(todo) = <<>>
    BY <1>5
  <2> QED
    BY <1>2, <1>5, <2>1
<1> QED
  BY <1>1, <1>3, <1>4, <1>5 DEF CallInv

\* A file of a call is written, over an older one of the same path if there is one.
LEMMA FileIsPut ==
  ASSUME ExportInv, NEW e \in Exports, exports[e].state # "new", NEW f, NEW content, disk' = PutFile(e, f, content)
  PROVE  /\ InDir(e)' = {d \in InDir(e) : d.at # [dir |-> e, file |-> f]} \cup {Entry(e, f, content)}
         /\ \A d : d.at.dir # e => (d \in disk' <=> d \in disk)
         /\ \A d \in disk' : d.at.dir = e => d.by = e
<1>1. exports[e].dir = e /\ \A d \in disk : d.at.dir = d.by
  BY DEF ExportInv, CallInv, FilesInv
<1>2. disk' = {d \in disk : d.at # [dir |-> e, file |-> f]} \cup {Entry(e, f, content)}
  BY <1>1 DEF PutFile, Entry
<1>3. Entry(e, f, content).at = [dir |-> e, file |-> f] /\ Entry(e, f, content).by = e
      /\ Entry(e, f, content).at.dir = e
  BY DEF Entry
<1>4. \A d : d.at.dir # e => d.at # [dir |-> e, file |-> f] /\ d # Entry(e, f, content)
  BY <1>3
<1> QED
  BY <1>1, <1>2, <1>3, <1>4 DEF InDir

\* A call of an unfinished list has no archive.
LEMMA NoArchiveYet ==
  ASSUME ExportInv, NEW e \in Exports, exports[e].todo # <<>> \/ exports[e].state = "new"
  PROVE  \A a \in archives : a.dir # e
BY DEF ExportInv, FilesInv

LEMMA WriteListedInv ==
  ASSUME ExportInv, NEW e \in Exports, exports[e].state = "writing", exports[e].todo # <<>>,
         UNCHANGED <<renders, archives>>, WriteListed(e), Head(exports[e].todo) \notin {Manifest, Package}
  PROVE  ExportInv'
<1> DEFINE f == Head(exports[e].todo)
           rest == Tail(exports[e].todo)
           c == [exports[e] EXCEPT !.todo = rest, !.listed = exports[e].listed \cup {f}]
<1>1. /\ f \in Listable /\ InDir(e) = Own(e) /\ rest \in Seq(Listable \cup {Manifest, Package})
      /\ Automated(e) => \E B \in Seq(Listable) : rest = B \o <<Manifest, Package>>
      /\ ~ Automated(e) => rest \in Seq(Listable)
  BY NextFile
<1>2. exports[e] \in Call /\ exports \in [Exports -> Call] /\ CallInv(e)
  BY DEF ExportInv
<1> HIDE DEF rest
<1>3. exports' = [exports EXCEPT ![e] = c] /\ disk' = PutFile(e, f, {})
  BY <1>2 DEF WriteListed, rest
<1>4. /\ c \in Call /\ c.state = "writing" /\ c.todo = rest /\ c.listed = exports[e].listed \cup {f}
      /\ c.kind = exports[e].kind /\ c.dir = e
  BY <1>1, <1>2 DEF Call, CallInv
<1>5. exports'[e] = c
  BY <1>2, <1>3
<1> HIDE DEF c
<1>6. InDir(e)' = Own(e)'
  <2>1. InDir(e)' = {d \in Own(e) : d.at # [dir |-> e, file |-> f]} \cup {Entry(e, f, {})}
    BY <1>1, <1>3, FileIsPut
  <2>2. Own(e)' = Own(e) \cup {Entry(e, f, {})}
    BY <1>4, <1>5 DEF Own
  <2>3. \A d \in Own(e) : d.at = [dir |-> e, file |-> f] => d = Entry(e, f, {})
    BY DEF Own, Entry
  <2> QED
    BY <2>1, <2>2, <2>3
<1>7. CallInv(e)'
  <2>1. Automated(e)' <=> Automated(e)
    BY <1>4, <1>5 DEF Automated
  <2>2. CASE Automated(e)
    <3>1. HasClosing(e)' /\ exports'[e].todo # <<>>
      <4>1. PICK B \in Seq(Listable) : rest = B \o <<Manifest, Package>>
        BY <1>1, <2>2
      <4>2. rest # <<>>
        BY <4>1, ClosingIsNotEmpty
      <4> QED
        BY <1>4, <1>5, <4>1, <4>2 DEF HasClosing
    <3> QED
      BY <1>4, <1>5, <1>6, <2>1, <2>2, <3>1 DEF CallInv
  <2>3. CASE ~ Automated(e)
    BY <1>1, <1>4, <1>5, <1>6, <2>1, <2>3 DEF CallInv
  <2> QED
    BY <2>2, <2>3
<1>8. /\ \A d : d.at.dir # e => (d \in disk' <=> d \in disk)
      /\ \A d \in disk' : d.at.dir = e => d.by = e
  BY <1>3, FileIsPut
<1>9. \A a \in archives : a.dir # e
  BY NoArchiveYet
<1> QED
  BY <1>3, <1>4, <1>7, <1>8, <1>9, CallMoves

\* The lists of files near the end of a package.
LEMMA ListsOfFiles ==
  /\ <<>> \in Seq(Listable \cup {Manifest, Package})
  /\ <<Package>> \in Seq(Listable \cup {Manifest, Package})
  /\ <<Package>> # <<>>
<1>1. Package \in Listable \cup {Manifest, Package}
  OBVIOUS
<1> HIDE DEF Package
<1>2. <<Package>> # <<>>
  <2>1. Len(<<Package>>) = 1 /\ Len(<<>>) = 0
    OBVIOUS
  <2> QED
    BY <2>1
<1> QED
  BY <1>1, <1>2

\* An image is skipped, a failure ends the call, or the call answers.
LEMMA NothingWrittenInv ==
  ASSUME ExportInv, NEW e \in Exports, UNCHANGED <<renders, disk, archives>>,
         \/ exports[e].state = "writing" /\ exports[e].todo # <<>> /\ (SkipImage(e) \/ FailExport(e))
         \/ AnswerExport(e)
  PROVE  ExportInv'
<1>1. exports[e] \in Call /\ exports \in [Exports -> Call] /\ CallInv(e) /\ FilesInv
  BY DEF ExportInv
<1>2. ASSUME NEW c \in Call, exports' = [exports EXCEPT ![e] = c], c.dir = exports[e].dir, c.listed = exports[e].listed
      PROVE  exports'[e] = c /\ InDir(e)' = InDir(e) /\ Own(e)' = Own(e) /\ Archive(e)' = Archive(e)
  BY <1>1, <1>2 DEF InDir, Own, Archive
<1>3. CASE exports[e].state = "writing" /\ exports[e].todo # <<>> /\ SkipImage(e)
  <2> DEFINE rest == Tail(exports[e].todo)
             c == [exports[e] EXCEPT !.todo = rest]
  <2>1. /\ Head(exports[e].todo).format = "png" /\ Automated(e)
        /\ exports' = [exports EXCEPT ![e] = c]
    BY <1>1, <1>3 DEF SkipImage, Automated
  <2>2. Head(exports[e].todo) \notin {Manifest, Package}
    BY <2>1 DEF Manifest, Package, File
  <2>3. /\ InDir(e) = Own(e) /\ rest \in Seq(Listable \cup {Manifest, Package})
        /\ \E B \in Seq(Listable) : rest = B \o <<Manifest, Package>>
    BY <1>3, <2>1, <2>2, NextFile
  <2> HIDE DEF rest
  <2>4. /\ c \in Call /\ c.todo = rest /\ c.state = "writing" /\ c.dir = exports[e].dir
        /\ c.listed = exports[e].listed /\ c.kind = exports[e].kind
    BY <1>1, <1>3, <2>3 DEF Call
  <2> HIDE DEF c
  <2>5. HasClosing(e)' /\ rest # <<>> /\ Automated(e)'
    BY <1>2, <1>3, <2>1, <2>3, <2>4, ClosingIsNotEmpty DEF HasClosing, Automated
  <2>6. CallInv(e)'
    BY <1>1, <1>2, <1>3, <2>1, <2>3, <2>4, <2>5 DEF CallInv
  <2> QED
    BY <1>1, <1>3, <2>1, <2>4, <2>6, NoArchiveYet, CallMoves DEF FilesInv
<1>4. CASE exports[e].state = "writing" /\ exports[e].todo # <<>> /\ FailExport(e)
  <2> DEFINE c == [exports[e] EXCEPT !.todo = <<>>, !.state = "failed"]
  <2>1. exports' = [exports EXCEPT ![e] = c]
    BY <1>1, <1>4 DEF FailExport
  <2>2. /\ c \in Call /\ c.todo = <<>> /\ c.state = "failed" /\ c.dir = exports[e].dir
        /\ c.listed = exports[e].listed
    BY <1>1, ListsOfFiles DEF Call
  <2> HIDE DEF c
  <2>3. CallInv(e)'
    BY <1>1, <1>2, <1>4, <2>1, <2>2 DEF CallInv, Automated
  <2> QED
    BY <1>1, <1>4, <2>1, <2>2, <2>3, NoArchiveYet, CallMoves DEF FilesInv
<1>5. CASE AnswerExport(e)
  <2> DEFINE c == [exports[e] EXCEPT !.state = "answered"]
  <2>1. exports' = [exports EXCEPT ![e] = c] /\ exports[e].state = "writing" /\ exports[e].todo = <<>>
    BY <1>1, <1>5 DEF AnswerExport
  <2>2. /\ c \in Call /\ c.todo = <<>> /\ c.state = "answered" /\ c.dir = exports[e].dir
        /\ c.listed = exports[e].listed /\ c.kind = exports[e].kind
    BY <1>1, <2>1 DEF Call
  <2> HIDE DEF c
  <2>3. exports'[e] = c /\ InDir(e)' = InDir(e) /\ Own(e)' = Own(e) /\ Archive(e)' = Archive(e)
        /\ (Automated(e)' <=> Automated(e))
    BY <1>2, <2>1, <2>2 DEF Automated
  <2>4. CallInv(e)'
    BY <1>1, <2>1, <2>2, <2>3 DEF CallInv, HasClosing
  <2>5. ASSUME NEW g \in Exports \ {e} PROVE CallInv(g)' /\ exports'[g] = exports[g]
    <3>1. exports'[g] = exports[g] /\ CallInv(g)
      BY <1>1, <2>1 DEF ExportInv
    <3> QED
      BY <3>1 DEF CallInv, HasClosing, Automated, InDir, Own, Archive
  <2>6. FilesInv'
    BY <1>1, <2>2, <2>3, <2>5 DEF FilesInv, InDir
  <2> QED
    BY <1>1, <2>1, <2>2, <2>4, <2>5, <2>6 DEF ExportInv
<1> QED
  BY <1>3, <1>4, <1>5

\* The manifest lists what was written.
LEMMA WriteManifestInv ==
  ASSUME ExportInv, NEW e \in Exports, exports[e].state = "writing", exports[e].todo # <<>>,
         UNCHANGED <<renders, archives>>, WriteManifest(e)
  PROVE  ExportInv'
<1> DEFINE c == [exports[e] EXCEPT !.todo = <<Package>>]
<1>1. exports[e] \in Call /\ exports \in [Exports -> Call] /\ CallInv(e)
  BY DEF ExportInv
<1>2. Manifest \notin Listable /\ Manifest # Package
  BY DEF Listable, Manifest, Package, File
<1>3. Automated(e) /\ Tail(exports[e].todo) = <<Package>> /\ InDir(e) = Own(e)
  BY <1>2, NextFile DEF WriteManifest
<1>4. exports' = [exports EXCEPT ![e] = c] /\ disk' = PutFile(e, Manifest, exports[e].listed)
  BY <1>1, <1>3 DEF WriteManifest
<1>5. /\ c \in Call /\ c.todo = <<Package>> /\ c.state = "writing" /\ c.dir = exports[e].dir
      /\ c.listed = exports[e].listed /\ c.kind = exports[e].kind
  BY <1>1, ListsOfFiles DEF Call
<1> HIDE DEF c
<1>6. exports'[e] = c
  BY <1>1, <1>4
<1>7. InDir(e)' = Own(e)' \cup {Entry(e, Manifest, exports[e].listed)}
  <2>1. InDir(e)' = {d \in Own(e) : d.at # [dir |-> e, file |-> Manifest]} \cup {Entry(e, Manifest, exports[e].listed)}
    BY <1>3, <1>4, FileIsPut
  <2>2. Own(e)' = Own(e)
    BY <1>5, <1>6 DEF Own
  <2>3. \A d \in Own(e) : d.at # [dir |-> e, file |-> Manifest]
    BY <1>1, <1>2 DEF Own, Entry, Call
  <2> QED
    BY <2>1, <2>2, <2>3
<1>8. CallInv(e)'
  <2>1. Automated(e)' /\ exports'[e].todo # <<>>
    BY <1>3, <1>5, <1>6, ListsOfFiles DEF Automated
  <2> QED
    BY <1>1, <1>5, <1>6, <1>7, <2>1 DEF CallInv
<1>9. /\ \A d : d.at.dir # e => (d \in disk' <=> d \in disk)
      /\ \A d \in disk' : d.at.dir = e => d.by = e
  BY <1>4, FileIsPut
<1> QED
  BY <1>4, <1>5, <1>8, <1>9, NoArchiveYet, CallMoves

\* The archive holds what the directory does.
LEMMA ZipDirectoryInv ==
  ASSUME ExportInv, NEW e \in Exports, exports[e].state = "writing", exports[e].todo # <<>>,
         UNCHANGED renders, ZipDirectory(e)
  PROVE  ExportInv'
<1> DEFINE c == [exports[e] EXCEPT !.todo = <<>>]
<1>1. exports[e] \in Call /\ exports \in [Exports -> Call] /\ CallInv(e) /\ FilesInv /\ exports[e].dir = e
  BY DEF ExportInv, CallInv
<1>2. Package \notin Listable /\ Manifest # Package
  BY DEF Listable, Manifest, Package, File
<1>3. /\ Automated(e) /\ Tail(exports[e].todo) = <<>>
      /\ InDir(e) = Own(e) \cup {Entry(e, Manifest, exports[e].listed)}
  BY <1>2, NextFile DEF ZipDirectory
<1>4. /\ exports' = [exports EXCEPT ![e] = c] /\ disk' = disk
      /\ archives' = {a \in archives : a.dir # e} \cup {Archive(e)}
  BY <1>1, <1>3 DEF ZipDirectory, Archive, InDir
<1>5. /\ c \in Call /\ c.todo = <<>> /\ c.state = "writing" /\ c.dir = exports[e].dir
      /\ c.listed = exports[e].listed /\ c.kind = exports[e].kind
  BY <1>1, ListsOfFiles DEF Call
<1> HIDE DEF c
<1>6. exports'[e] = c /\ InDir(e)' = InDir(e) /\ Own(e)' = Own(e) /\ Archive(e)' = Archive(e)
  BY <1>1, <1>4, <1>5 DEF InDir, Own, Archive
<1>7. CallInv(e)'
  <2>1. Automated(e)' /\ Archive(e)' \in archives'
    BY <1>3, <1>4, <1>5, <1>6 DEF Automated
  <2> QED
    BY <1>1, <1>3, <1>5, <1>6, <2>1 DEF CallInv
<1> QED
  BY <1>1, <1>4, <1>5, <1>6, <1>7, CallMoves DEF FilesInv

LEMMA ExportStepInv == ExportInv /\ [ExportNext]_exportVars => ExportInv'
<1> SUFFICES ASSUME ExportInv, [ExportNext]_exportVars PROVE ExportInv'
  OBVIOUS
<1>1. CASE UNCHANGED exportVars
  BY <1>1 DEF exportVars, ExportInv, CallInv, FilesInv, InDir, Own, Archive, HasClosing, Automated
<1>2. ASSUME NEW e \in Exports, NEW kind \in ExportKinds, NEW columns \in ChartColumns, NEW metrics \in BOOLEAN,
             BeginExport(e, kind, columns, metrics)
      PROVE  ExportInv'
  BY <1>2, BeginExportInv
<1>3. ASSUME NEW e \in Exports, StepOf(e) PROVE ExportInv'
  <2>1. exports[e].state = "writing" /\ exports[e].todo # <<>> /\ UNCHANGED renders
    BY <1>3 DEF StepOf
  <2>2. CASE (WriteChart(e) \/ WritePdf(e) \/ WriteDocx(e) \/ WriteMetrics(e)) /\ UNCHANGED archives
    <3>1. WriteListed(e)
      BY <2>2 DEF WriteChart, WritePdf, WriteDocx, WriteMetrics
    <3>2. Head(exports[e].todo) \notin {Manifest, Package}
      BY <2>2 DEF WriteChart, WritePdf, WriteDocx, WriteMetrics, Manifest, Package, File
    <3> QED
      BY <2>1, <2>2, <3>1, <3>2, WriteListedInv
  <2>3. CASE (SkipImage(e) \/ FailExport(e)) /\ UNCHANGED archives
    <3>1. UNCHANGED <<renders, disk, archives>>
      BY <2>1, <2>3 DEF SkipImage, FailExport
    <3> QED
      BY <2>1, <2>3, <3>1, NothingWrittenInv
  <2> QED
    BY <1>3, <2>1, <2>2, <2>3, WriteManifestInv, ZipDirectoryInv DEF StepOf
<1>4. ASSUME NEW e \in Exports, AnswerExport(e) PROVE ExportInv'
  <2>1. UNCHANGED <<renders, disk, archives>>
    BY <1>4 DEF AnswerExport
  <2> QED
    BY <1>4, <2>1, NothingWrittenInv
<1> QED
  BY <1>1, <1>2, <1>3, <1>4 DEF ExportNext

-----------------------------------------------------------------------------
(* Exports: theorems *)

LEMMA ExportInvariant == ExportSpec => []ExportInv
BY ExportInitInv, ExportStepInv, PTL DEF ExportSpec

\* An answered export is whole whatever other exports write meanwhile: its
\* files are there and are its own, and a package's archive holds exactly the
\* files of its manifest, and the manifest.
THEOREM WholeExports == ExportSpec => []ExportsAreWhole
<1>1. ExportInv => ExportsAreWhole
  <2> SUFFICES ASSUME ExportInv, NEW e \in Exports, exports[e].state = "answered"
               PROVE  /\ Own(e) \subseteq disk
                      /\ exports[e].kind = "automated" =>
                           [dir |-> e, holds |-> Own(e) \cup {Entry(e, Manifest, exports[e].listed)}] \in archives
    <3>1. SUFFICES ASSUME ExportInv, NEW e \in Exports, exports[e].state = "answered"
                   PROVE  LET own(f, content) == [at |-> [dir |-> exports[e].dir, file |-> f], by |-> e, content |-> content]
                              files == {own(f, {}) : f \in exports[e].listed}
                          IN  /\ files \subseteq disk
                              /\ exports[e].kind = "automated" =>
                                   [dir |-> exports[e].dir, holds |-> files \cup {own(Manifest, exports[e].listed)}] \in archives
      BY DEF ExportsAreWhole
    <3>2. exports[e].dir = e
      BY <3>1 DEF ExportInv, CallInv
    <3> QED
      BY <3>1, <3>2 DEF Own, Entry
  <2>1. CallInv(e) /\ exports[e].todo = <<>> /\ InDir(e) \subseteq disk
    BY DEF ExportInv, CallInv, InDir
  <2>2. Own(e) \subseteq InDir(e)
    BY <2>1 DEF CallInv
  <2>3. ASSUME exports[e].kind = "automated"
        PROVE  Archive(e) \in archives /\ InDir(e) = Own(e) \cup {Entry(e, Manifest, exports[e].listed)}
    <3>1. Automated(e)
      BY <2>3 DEF Automated
    <3>2. ~ HasClosing(e)
      BY <2>1, ClosingIsNotEmpty DEF HasClosing
    <3> QED
      BY <2>1, <3>1, <3>2 DEF CallInv
  <2> QED
    BY <2>1, <2>2, <2>3 DEF Archive
<1> QED
  BY <1>1, ExportInvariant, PTL


-----------------------------------------------------------------------------
(* All parts of the browser's world *)

BrowserInv == SessionInv /\ PagesInv /\ ExportInv

LEMMA BrowserInitInv == BrowserInit => BrowserInv
BY SessionInitInv, PagesInitInv, ExportInitInv DEF BrowserInit, BrowserInv

\* A step of one part is a step of its component and leaves the others alone.
LEMMA PartsMove ==
  [BrowserNext]_browserVars =>
    [NextAll]_allVars /\ [DashboardNext]_dashboardVars /\ [ExportNext]_exportVars
BY DEF BrowserNext, browserVars, SessionsStep, PagesStep, ExportsStep

LEMMA BrowserInvariant == BrowserSpec => []BrowserInv
<1>1. BrowserInv /\ [BrowserNext]_browserVars => BrowserInv'
  BY PartsMove, SessionStepInv, PagesStepInv, ExportStepInv DEF BrowserInv
<1> QED
  BY <1>1, BrowserInitInv, PTL DEF BrowserSpec

\* Sessions, the pages of a session and exports run as their modules say when
\* they share the process, so that what is proved of one holds in the process.
THEOREM BrowserImplementsComponents ==
  BrowserSpec => SessionSpec /\ DashboardSpec /\ ExportSpec
<1>1. BrowserInit => InitAll /\ DashboardInit /\ ExportInit
  BY DEF BrowserInit
<1> QED
  BY <1>1, PartsMove, PTL DEF BrowserSpec, SessionSpec, DashboardSpec, ExportSpec

\* Types of every part, and that an archive holds files of the disk: no export
\* overwrites what another one has packed.
THEOREM BrowserTypesCorrect == BrowserSpec => []BrowserTypeOK
<1>1. SessionInv => TypeOK /\ SessionTypeOK
  BY DEF SessionInv, IInv
<1>2. PagesInv => DashboardTypeOK
  BY DEF PagesInv
<1>3. ExportInv => ExportTypeOK
  <2> SUFFICES ASSUME ExportInv PROVE ExportTypeOK
    OBVIOUS
  <2>1. \A e \in Exports : exports[e].state \in {"new", "writing", "answered", "failed"}
    BY DEF ExportInv, Call
  <2>2. \A a \in archives : a.holds \subseteq disk
    BY DEF ExportInv, FilesInv, InDir
  <2> QED
    BY <2>1, <2>2 DEF ExportInv, FilesInv, ExportTypeOK
<1> QED
  BY <1>1, <1>2, <1>3, BrowserInvariant, PTL DEF BrowserInv, BrowserTypeOK
=============================================================================
