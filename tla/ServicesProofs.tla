---------------------------- MODULE ServicesProofs ----------------------------
(***************************************************************************)
(* Proofs about the other services of the API process: trainings over HTTP *)
(* and their bundle files, accounts, experiment tracking, and the types of *)
(* all services together.                                                  *)
(***************************************************************************)
EXTENDS MCServices, ApiRequestsProofs

-----------------------------------------------------------------------------
(* Trainings over HTTP: the invariant *)

TrainingTypes ==
  /\ clock \in 0..MaxClock
  /\ pc \in [TrainRequests -> {"new", "done", "failed"} \cup InFlight]
  /\ run \in [TrainRequests -> Run]
  /\ files \in [Paths -> Contents]
  /\ raced \subseteq Paths
  /\ rows \subseteq Row
  /\ counter \in [{"started", "completed", "failed"} -> Nat]

WritersAreDumping ==
  writers = [p \in Paths |-> {r \in TrainRequests : pc[r] = "dump" /\ Path(r) = p}]

\* What a request has decided, against the statement it is at.
RunFollowsRequest(r) ==
  /\ run[r].save /\ pc[r] \notin {"new", "train", "failed"} => Path(r) \in Paths
  /\ pc[r] \in {"check", "open", "dump"} => run[r].save
  /\ pc[r] = "persist" => run[r].persist
  /\ run[r].persist /\ pc[r] \in {"respond", "done"} => \E row \in rows : row.request = r

\* Who is at a path that no two requests found absent: alone with an absent
\* file, alone with a partial one, or through with a file of its own.
PathInv(p) ==
  \A r \in TrainRequests : Path(r) = p =>
    /\ pc[r] = "open" => /\ files[p] = "absent"
                         /\ \A q \in TrainRequests : Path(q) = p /\ pc[q] = "open" => q = r
    /\ pc[r] = "dump" => /\ files[p] = "partial"
                         /\ \A q \in TrainRequests : Path(q) = p /\ pc[q] = "dump" => q = r
    /\ HasArtifact(r) => files[p] = r

RowsFollowRequests ==
  \A row \in rows : pc[row.request] \in {"respond", "done"} /\ row.path = Path(row.request)

TrainingInv ==
  /\ TrainingTypes
  /\ WritersAreDumping
  /\ \A r \in TrainRequests : RunFollowsRequest(r)
  /\ \A p \in Paths \ raced : PathInv(p)
  /\ RowsFollowRequests
  /\ CountersBalance

-----------------------------------------------------------------------------
(* Trainings over HTTP: the steps *)

\* The sets of requests the counters stand for.
LEMMA FinishedIsFinite ==
  ASSUME NEW S \in SUBSET TrainRequests
  PROVE  IsFiniteSet(S) /\ Cardinality(S) \in Nat
BY RequestAssumption, FS_Subset, FS_CardinalityType

\* A request that is not in a set joins it: one more.
LEMMA OneMore ==
  ASSUME NEW S \in SUBSET TrainRequests, NEW T, NEW r \in TrainRequests, r \notin S,
         T = S \cup {r}
  PROVE  Cardinality(T) = Cardinality(S) + 1
BY FinishedIsFinite, FS_AddElement

\* A step that leaves a request's outcome, and whether it is new, alone leaves
\* the counters balanced if it does not count.
LEMMA NothingCounted ==
  ASSUME TrainingTypes, CountersBalance, UNCHANGED counter,
         NEW r \in TrainRequests, NEW where \in InFlight \cup {"new"},
         pc[r] \notin {"done", "failed"}, pc[r] = "new" <=> where = "new",
         pc' = [pc EXCEPT ![r] = where]
  PROVE  CountersBalance'
<1>1. Finished("done")' = Finished("done") /\ Finished("failed")' = Finished("failed")
  BY DEF Finished, TrainingTypes, InFlight
<1>2. {q \in TrainRequests : pc[q] # "new"}' = {q \in TrainRequests : pc[q] # "new"}
  BY DEF TrainingTypes, InFlight
<1> QED
  BY <1>1, <1>2 DEF CountersBalance

\* An exception is counted once.
LEMMA FailureCounted ==
  ASSUME TrainingTypes, CountersBalance, NEW r \in TrainRequests,
         pc[r] \in InFlight, RaiseError(r)
  PROVE  CountersBalance' /\ counter' \in [{"started", "completed", "failed"} -> Nat]
<1>1. /\ pc' = [pc EXCEPT ![r] = "failed"]
      /\ counter' = [counter EXCEPT !["failed"] = @ + 1]
  BY DEF RaiseError, MoveTo, Count
<1>2. Finished("done")' = Finished("done") /\ Finished("failed")' = Finished("failed") \cup {r}
  BY <1>1 DEF Finished, TrainingTypes, InFlight
<1>3. {q \in TrainRequests : pc[q] # "new"}' = {q \in TrainRequests : pc[q] # "new"}
  BY <1>1 DEF TrainingTypes, InFlight
<1>4. Cardinality(Finished("failed"))' = Cardinality(Finished("failed")) + 1
  BY <1>2, OneMore DEF Finished, InFlight
<1>5. /\ counter'.completed = counter.completed /\ counter'.started = counter.started
      /\ counter'.failed = counter.failed + 1
      /\ counter' \in [{"started", "completed", "failed"} -> Nat]
  BY <1>1 DEF TrainingTypes
<1> QED
  BY <1>2, <1>3, <1>4, <1>5 DEF CountersBalance

\* The invariant holds before the first request.
LEMMA TrainingInitInv == TrainingInit => TrainingInv
<1> SUFFICES ASSUME TrainingInit PROVE TrainingInv
  OBVIOUS
<1>1. TrainingTypes
  BY ClockAssumption DEF TrainingInit, TrainingTypes, Run, Contents, InFlight
<1>2. \A r \in TrainRequests : pc[r] = "new"
  BY DEF TrainingInit
<1>3. WritersAreDumping
  BY <1>2 DEF TrainingInit, WritersAreDumping
<1>4. \A r \in TrainRequests : RunFollowsRequest(r)
  BY <1>2 DEF RunFollowsRequest
<1>5. \A p \in Paths : PathInv(p)
  BY <1>2 DEF PathInv, HasArtifact
<1>6. RowsFollowRequests
  BY DEF TrainingInit, RowsFollowRequests
<1>7. CountersBalance
  <2>1. Finished("done") = {} /\ Finished("failed") = {}
        /\ {r \in TrainRequests : pc[r] # "new"} = {}
    BY <1>2 DEF Finished
  <2> QED
    BY <2>1, FS_EmptySet DEF CountersBalance, TrainingInit
<1> QED
  BY <1>1, <1>3, <1>4, <1>5, <1>6, <1>7 DEF TrainingInv

\* A step that moves one request elsewhere than to "open" or "dump", and not to
\* an artifact it does not have, leaves the paths as they were.
LEMMA PathsKept ==
  ASSUME TrainingInv, NEW r \in TrainRequests, UNCHANGED <<run, files, raced>>,
         NEW where, pc' = [pc EXCEPT ![r] = where], where \notin {"open", "dump"},
         HasArtifact(r)' => HasArtifact(r)
  PROVE  \A p \in Paths \ raced' : PathInv(p)'
<1> SUFFICES ASSUME NEW p \in Paths \ raced PROVE PathInv(p)'
  OBVIOUS
<1>1. PathInv(p) /\ pc \in [TrainRequests -> {"new", "done", "failed"} \cup InFlight]
  BY DEF TrainingInv, TrainingTypes
<1>2. \A q \in TrainRequests : /\ Path(q)' = Path(q)
                               /\ pc[q]' \in {"open", "dump"} => pc[q]' = pc[q]
                               /\ HasArtifact(q)' => HasArtifact(q)
  BY <1>1 DEF Path, HasArtifact
<1> QED
  BY <1>1, <1>2 DEF PathInv

\* A failing request leaves no row and its paths as they are.
LEMMA RaisingKeeps ==
  ASSUME TrainingInv, NEW r \in TrainRequests, pc[r] \in InFlight \ {"respond", "dump"},
         RaiseError(r), UNCHANGED <<clock, run, files, writers, raced, rows>>
  PROVE  TrainingInv'
<1>0. /\ TrainingTypes /\ WritersAreDumping /\ RowsFollowRequests /\ CountersBalance
      /\ \A q \in TrainRequests : RunFollowsRequest(q)
  BY DEF TrainingInv
<1>1. pc' = [pc EXCEPT ![r] = "failed"] /\ pc \in [TrainRequests -> {"new", "done", "failed"} \cup InFlight]
  BY <1>0 DEF RaiseError, MoveTo, TrainingTypes
<1>2. TrainingTypes' /\ CountersBalance'
  BY <1>0, <1>1, FailureCounted DEF TrainingTypes, InFlight
<1>3. WritersAreDumping'
  BY <1>0, <1>1 DEF WritersAreDumping, Path, InFlight
<1>4. \A q \in TrainRequests : RunFollowsRequest(q)'
  BY <1>0, <1>1 DEF RunFollowsRequest, Path
<1>5. \A p \in Paths \ raced' : PathInv(p)'
  <2>1. ~ HasArtifact(r)'
    BY <1>0, <1>1 DEF HasArtifact, TrainingTypes
  <2>2. UNCHANGED <<run, files, raced>> /\ "failed" \notin {"open", "dump"}
    OBVIOUS
  <2> QED
    BY <1>1, <2>1, <2>2, PathsKept
<1>6. RowsFollowRequests'
  BY <1>0, <1>1 DEF RowsFollowRequests, Path, TrainingTypes, Row, InFlight
<1> QED
  BY <1>2, <1>3, <1>4, <1>5, <1>6 DEF TrainingInv

\* Every step keeps the invariant, by the statement it executes.
LEMMA TrainingStepInv == TrainingInv /\ [TrainingNext]_trainingVars => TrainingInv'
<1> SUFFICES ASSUME TrainingInv, [TrainingNext]_trainingVars PROVE TrainingInv'
  OBVIOUS
<1>0. /\ TrainingTypes /\ WritersAreDumping /\ RowsFollowRequests /\ CountersBalance
      /\ \A r \in TrainRequests : RunFollowsRequest(r)
      /\ \A p \in Paths \ raced : PathInv(p)
  BY DEF TrainingInv
<1>a. pc \in [TrainRequests -> {"new", "done", "failed"} \cup InFlight]
      /\ run \in [TrainRequests -> Run]
  BY <1>0 DEF TrainingTypes
<1>1. CASE UNCHANGED trainingVars \/ ClockTicks
  <2>1. UNCHANGED <<pc, run, files, writers, raced, rows, counter>>
    BY <1>1 DEF trainingVars, ClockTicks
  <2>2. TrainingTypes'
    BY <1>0, <1>1, ClockAssumption DEF TrainingTypes, trainingVars, ClockTicks
  <2>3. WritersAreDumping' /\ RowsFollowRequests' /\ CountersBalance'
    BY <1>0, <2>1 DEF WritersAreDumping, RowsFollowRequests, CountersBalance, Finished, Path
  <2>4. \A r \in TrainRequests : RunFollowsRequest(r)'
    BY <1>0, <2>1 DEF RunFollowsRequest, Path
  <2>5. \A p \in Paths \ raced' : PathInv(p)'
    BY <1>0, <2>1 DEF PathInv, Path, HasArtifact
  <2> QED
    BY <2>2, <2>3, <2>4, <2>5 DEF TrainingInv
<1>2. ASSUME NEW r \in TrainRequests, Start(r) PROVE TrainingInv'
  <2>1. /\ pc[r] = "new" /\ pc' = [pc EXCEPT ![r] = "train"]
        /\ counter' = [counter EXCEPT !["started"] = @ + 1]
        /\ UNCHANGED <<clock, run, files, writers, raced, rows>>
    BY <1>2 DEF Start, MoveTo, Count
  <2>2. TrainingTypes'
    BY <1>0, <2>1 DEF TrainingTypes, InFlight
  <2>3. WritersAreDumping' /\ RowsFollowRequests'
    BY <1>0, <1>a, <2>1 DEF WritersAreDumping, RowsFollowRequests, Path, TrainingTypes, Row
  <2>4. CountersBalance'
    <3>1. Finished("done")' = Finished("done") /\ Finished("failed")' = Finished("failed")
      BY <1>a, <2>1 DEF Finished
    <3>2. {q \in TrainRequests : pc[q] # "new"}' = {q \in TrainRequests : pc[q] # "new"} \cup {r}
      BY <1>a, <2>1
    <3>3. Cardinality({q \in TrainRequests : pc[q] # "new"}')
            = Cardinality({q \in TrainRequests : pc[q] # "new"}) + 1
      BY <2>1, <3>2, OneMore
    <3>4. /\ counter'.completed = counter.completed /\ counter'.failed = counter.failed
          /\ counter'.started = counter.started + 1
      BY <1>0, <2>1 DEF TrainingTypes
    <3> QED
      BY <1>0, <3>1, <3>2, <3>3, <3>4 DEF CountersBalance
  <2>5. \A q \in TrainRequests : RunFollowsRequest(q)'
    BY <1>0, <1>a, <2>1 DEF RunFollowsRequest, Path
  <2>6. \A p \in Paths \ raced' : PathInv(p)'
    <3>1. ~ HasArtifact(r)' /\ "train" \notin {"open", "dump"} /\ UNCHANGED <<run, files, raced>>
      BY <1>a, <2>1 DEF HasArtifact
    <3> QED
      BY <2>1, <3>1, PathsKept
  <2> QED
    BY <2>2, <2>3, <2>4, <2>5, <2>6 DEF TrainingInv
<1>3. ASSUME NEW r \in TrainRequests, Train(r) PROVE TrainingInv'
  <2>1. PICK m \in Models :
          run' = [run EXCEPT ![r].path = IF run[r].save THEN <<m, clock>> ELSE NoPath]
    BY <1>3 DEF Train
  <2> DEFINE where == IF run[r].save THEN "check" ELSE AfterArtifact(r)
             path  == IF run[r].save THEN <<m, clock>> ELSE NoPath
  <2>2. /\ pc[r] = "train" /\ pc' = [pc EXCEPT ![r] = where]
        /\ UNCHANGED <<clock, files, writers, raced, rows, counter>>
    BY <1>3 DEF Train, MoveTo
  <2>3. where \in {"check", "persist", "respond"}
        /\ (where = "check" <=> run[r].save)
        /\ (where = "persist" => run[r].persist)
        /\ (where = "respond" => ~ run[r].persist)
    BY <1>a DEF AfterArtifact, Run
  <2>4. path \in Paths \cup {NoPath} /\ (run[r].save => path \in Paths)
    BY <1>0 DEF TrainingTypes, Paths
  <2>5. /\ run' \in [TrainRequests -> Run]
        /\ \A q \in TrainRequests : /\ run'[q].save = run[q].save
                                    /\ run'[q].persist = run[q].persist
                                    /\ q # r => run'[q] = run[q]
        /\ run'[r].path = path
    <3> HIDE DEF path
    <3>1. run' = [run EXCEPT ![r].path = path]
      BY <2>1 DEF path
    <3> QED
      BY <1>a, <2>4, <3>1 DEF Run
  <2> HIDE DEF where, path
  <2>6. TrainingTypes'
    BY <1>0, <2>2, <2>3, <2>5 DEF TrainingTypes, InFlight
  <2>7. WritersAreDumping'
    <3>1. \A p \in Paths : {q \in TrainRequests : pc[q] = "dump" /\ Path(q) = p}' =
                           {q \in TrainRequests : pc[q] = "dump" /\ Path(q) = p}
      BY <1>a, <2>2, <2>3, <2>5 DEF Path
    <3> QED
      BY <1>0, <2>2, <3>1 DEF WritersAreDumping
  <2>8. RowsFollowRequests'
    BY <1>0, <1>a, <2>2, <2>3, <2>5 DEF RowsFollowRequests, Path, TrainingTypes, Row
  <2>9. CountersBalance'
    BY <1>0, <2>2, <2>3, NothingCounted DEF InFlight
  <2>10. \A q \in TrainRequests : RunFollowsRequest(q)'
    BY <1>0, <1>a, <2>2, <2>3, <2>4, <2>5 DEF RunFollowsRequest, Path, Run
  <2>11. ASSUME NEW p \in Paths \ raced' PROVE PathInv(p)'
    <3>1. \A q \in TrainRequests : /\ pc'[q] \in {"open", "dump"} => q # r /\ pc[q] = pc'[q] /\ run'[q] = run[q]
                                   /\ HasArtifact(q)' => q # r /\ HasArtifact(q) /\ run'[q] = run[q]
      BY <1>a, <2>2, <2>3, <2>5 DEF HasArtifact
    <3> QED
      BY <1>0, <2>2, <3>1 DEF PathInv, Path
  <2> QED
    BY <2>6, <2>7, <2>8, <2>9, <2>10, <2>11 DEF TrainingInv
<1>4. ASSUME NEW r \in TrainRequests, TrainRaises(r) \/ OpenRaises(r) \/ PersistRaises(r)
      PROVE  TrainingInv'
  BY <1>4, RaisingKeeps DEF TrainRaises, OpenRaises, PersistRaises, InFlight
<1>5. ASSUME NEW r \in TrainRequests, CheckTarget(r) PROVE TrainingInv'
  <2>1. pc[r] = "check" /\ UNCHANGED <<clock, run, files, writers, rows>>
    BY <1>5 DEF CheckTarget
  <2>2. CASE RaiseError(r) /\ UNCHANGED raced
    BY <2>1, <2>2, RaisingKeeps DEF InFlight
  <2>3. CASE files[Path(r)] = "absent" /\ FoundAbsent(r)
    <3>1. /\ pc' = [pc EXCEPT ![r] = "open"]
          /\ raced' = raced \cup {p \in {Path(r)} : Rivals(r) # {}}
          /\ UNCHANGED counter
      BY <2>3 DEF FoundAbsent, MoveTo
    <3>2. Path(r) \in Paths /\ run[r].save
      BY <1>0, <2>1 DEF RunFollowsRequest
    <3>3. raced \subseteq raced' /\ raced' \subseteq Paths
          /\ (Path(r) \notin raced' => Rivals(r) = {})
      BY <1>0, <3>1, <3>2 DEF TrainingTypes
    <3>4. TrainingTypes'
      BY <1>0, <2>1, <3>1, <3>3 DEF TrainingTypes, InFlight
    <3>5. WritersAreDumping'
      BY <1>0, <1>a, <2>1, <3>1 DEF WritersAreDumping, Path
    <3>6. RowsFollowRequests'
      BY <1>0, <1>a, <2>1, <3>1 DEF RowsFollowRequests, Path, TrainingTypes, Row
    <3>7. CountersBalance'
      BY <1>0, <2>1, <3>1, NothingCounted DEF InFlight
    <3>8. \A q \in TrainRequests : RunFollowsRequest(q)'
      BY <1>0, <1>a, <2>1, <3>1, <3>2 DEF RunFollowsRequest, Path
    <3>9. ASSUME NEW p \in Paths \ raced' PROVE PathInv(p)'
      <4>1. PathInv(p)
        BY <1>0, <3>3, <3>9
      <4>2. \A q \in TrainRequests : /\ Path(q)' = Path(q)
                                     /\ q # r => pc'[q] = pc[q] /\ (HasArtifact(q)' => HasArtifact(q))
        BY <1>a, <2>1, <3>1 DEF Path, HasArtifact
      <4>3. pc'[r] = "open" /\ ~ HasArtifact(r)'
        BY <1>a, <3>1 DEF HasArtifact
      <4>4. Path(r) = p => \A q \in TrainRequests : Path(q) = p /\ pc[q] = "open" => q = r
        BY <3>3 DEF Rivals
      <4>5. Path(r) = p => files[p] = "absent"
        BY <2>3
      <4>6. \A q \in TrainRequests : Path(q) = p /\ pc[q] = "open" /\ Path(r) = p => q = r
        BY <4>4
      <4> QED
        BY <2>1, <4>1, <4>2, <4>3, <4>5, <4>6 DEF PathInv
    <3> QED
      BY <3>4, <3>5, <3>6, <3>7, <3>8, <3>9 DEF TrainingInv
  <2> QED
    BY <1>5, <2>2, <2>3 DEF CheckTarget
<1>6. ASSUME NEW r \in TrainRequests, OpenTarget(r) PROVE TrainingInv'
  <2>1. /\ pc[r] = "open" /\ pc' = [pc EXCEPT ![r] = "dump"]
        /\ files' = [files EXCEPT ![Path(r)] = IF writers[Path(r)] = {} THEN "partial" ELSE "mixed"]
        /\ writers' = [writers EXCEPT ![Path(r)] = @ \cup {r}]
        /\ UNCHANGED <<clock, run, raced, rows, counter>>
    BY <1>6 DEF OpenTarget, MoveTo
  <2>2. Path(r) \in Paths /\ run[r].save
    BY <1>0, <2>1 DEF RunFollowsRequest
  <2>3. TrainingTypes'
    BY <1>0, <2>1, <2>2 DEF TrainingTypes, InFlight, Contents
  <2>4. WritersAreDumping'
    <3>1. \A p \in Paths : {q \in TrainRequests : pc[q] = "dump" /\ Path(q) = p}' =
              {q \in TrainRequests : pc[q] = "dump" /\ Path(q) = p} \cup {q \in {r} : Path(r) = p}
      BY <1>a, <2>1 DEF Path
    <3> QED
      BY <1>0, <2>1, <2>2, <3>1 DEF WritersAreDumping
  <2>5. RowsFollowRequests'
    BY <1>0, <1>a, <2>1 DEF RowsFollowRequests, Path, TrainingTypes, Row
  <2>6. CountersBalance'
    BY <1>0, <2>1, NothingCounted DEF InFlight
  <2>7. \A q \in TrainRequests : RunFollowsRequest(q)'
    BY <1>0, <1>a, <2>1, <2>2 DEF RunFollowsRequest, Path
  <2>8. ASSUME NEW p \in Paths \ raced' PROVE PathInv(p)'
    <3>1. PathInv(p)
      BY <1>0, <2>1, <2>8
    <3>2. \A q \in TrainRequests : /\ Path(q)' = Path(q)
                                   /\ q # r => pc'[q] = pc[q] /\ (HasArtifact(q)' => HasArtifact(q))
      BY <1>a, <2>1 DEF Path, HasArtifact
    <3>3. pc'[r] = "dump" /\ ~ HasArtifact(r)'
      BY <1>a, <2>1 DEF HasArtifact
    <3>4. CASE Path(r) # p
      <4>1. files'[p] = files[p]
        BY <1>0, <2>1, <3>4 DEF TrainingTypes
      <4> QED
        BY <3>1, <3>2, <3>4, <4>1 DEF PathInv
    <3>5. CASE Path(r) = p
      <4>1. /\ files[p] = "absent"
            /\ \A q \in TrainRequests : Path(q) = p /\ pc[q] = "open" => q = r
        BY <2>1, <3>1, <3>5 DEF PathInv
      <4>2. \A q \in TrainRequests : Path(q) = p => pc[q] # "dump" /\ ~ HasArtifact(q)
        BY <3>1, <4>1, RequestAssumption DEF PathInv
      <4>3. writers[p] = {}
        BY <1>0, <2>8, <4>2 DEF WritersAreDumping
      <4>4. files'[p] = "partial"
        BY <1>0, <2>1, <2>8, <3>5, <4>3 DEF TrainingTypes
      <4> QED
        BY <3>2, <3>3, <4>1, <4>2, <4>4 DEF PathInv
    <3> QED
      BY <3>4, <3>5
  <2> QED
    BY <2>3, <2>4, <2>5, <2>6, <2>7, <2>8 DEF TrainingInv
<1>7. ASSUME NEW r \in TrainRequests, Dump(r) \/ DumpRaises(r) PROVE TrainingInv'
  <2>1. /\ pc[r] = "dump"
        /\ writers' = [writers EXCEPT ![Path(r)] = @ \ {r}]
        /\ UNCHANGED <<clock, run, raced, rows>>
    BY <1>7 DEF Dump, DumpRaises, CloseTarget
  <2>2. Path(r) \in Paths /\ run[r].save
    BY <1>0, <2>1 DEF RunFollowsRequest
  <2> DEFINE where == IF Dump(r) THEN AfterArtifact(r) ELSE "failed"
  <2>3. /\ pc' = [pc EXCEPT ![r] = where]
        /\ where \in {"persist", "respond", "failed"}
        /\ where = "persist" => run[r].persist
        /\ where = "respond" => ~ run[r].persist
        /\ where # "failed" => files' = [files EXCEPT ![Path(r)] = IF @ = "partial" THEN r ELSE @]
        /\ where # "failed" => UNCHANGED counter
        /\ where = "failed" => files' = files /\ RaiseError(r)
    BY <1>7 DEF Dump, DumpRaises, MoveTo, RaiseError, AfterArtifact
  <2> HIDE DEF where
  <2>4. CountersBalance' /\ counter' \in [{"started", "completed", "failed"} -> Nat]
    <3>1. CASE where = "failed"
      BY <1>0, <2>1, <2>3, <3>1, FailureCounted DEF InFlight
    <3>2. CASE where # "failed"
      <4>1. counter' \in [{"started", "completed", "failed"} -> Nat]
        BY <1>0, <2>3, <3>2 DEF TrainingTypes
      <4> QED
        BY <1>0, <2>1, <2>3, <3>2, <4>1, NothingCounted DEF InFlight
    <3> QED
      BY <3>1, <3>2
  <2>5. TrainingTypes'
    BY <1>0, <2>1, <2>3, <2>4 DEF TrainingTypes, InFlight, Contents
  <2>6. WritersAreDumping'
    <3>1. \A p \in Paths : {q \in TrainRequests : pc[q] = "dump" /\ Path(q) = p}' =
              {q \in TrainRequests : pc[q] = "dump" /\ Path(q) = p} \ {q \in {r} : Path(r) = p}
      BY <1>a, <2>1, <2>3 DEF Path
    <3> QED
      BY <1>0, <2>1, <2>2, <3>1 DEF WritersAreDumping
  <2>7. RowsFollowRequests'
    BY <1>0, <1>a, <2>1, <2>3 DEF RowsFollowRequests, Path, TrainingTypes, Row
  <2>8. \A q \in TrainRequests : RunFollowsRequest(q)'
    BY <1>0, <1>a, <2>1, <2>2, <2>3 DEF RunFollowsRequest, Path
  <2>9. ASSUME NEW p \in Paths \ raced' PROVE PathInv(p)'
    <3>1. PathInv(p)
      BY <1>0, <2>1, <2>9
    <3>2. \A q \in TrainRequests : /\ Path(q)' = Path(q)
                                   /\ q # r => pc'[q] = pc[q] /\ (HasArtifact(q)' => HasArtifact(q))
      BY <1>a, <2>1, <2>3 DEF Path, HasArtifact
    <3>3. pc'[r] = where
      BY <1>a, <2>3
    <3>4. CASE Path(r) # p
      <4>1. files'[p] = files[p]
        BY <1>0, <2>3, <3>4 DEF TrainingTypes
      <4> QED
        BY <3>1, <3>2, <3>4, <4>1 DEF PathInv
    <3>5. CASE Path(r) = p
      <4>1. /\ files[p] = "partial"
            /\ \A q \in TrainRequests : Path(q) = p /\ pc[q] = "dump" => q = r
        BY <2>1, <3>1, <3>5 DEF PathInv
      <4>2. \A q \in TrainRequests : Path(q) = p /\ q # r => pc[q] \notin {"dump", "open"} /\ ~ HasArtifact(q)
        BY <3>1, <4>1, RequestAssumption DEF PathInv
      <4>3. HasArtifact(r)' => where # "failed"
        BY <3>3 DEF HasArtifact
      <4>4. where # "failed" => files'[p] = r
        BY <1>0, <2>3, <2>9, <3>5, <4>1 DEF TrainingTypes
      <4> QED
        BY <2>3, <3>2, <3>3, <4>2, <4>3, <4>4 DEF PathInv
    <3> QED
      BY <3>4, <3>5
  <2> QED
    BY <2>4, <2>5, <2>6, <2>7, <2>8, <2>9 DEF TrainingInv
<1>8. ASSUME NEW r \in TrainRequests, Persist(r) PROVE TrainingInv'
  <2>1. /\ pc[r] = "persist" /\ pc' = [pc EXCEPT ![r] = "respond"]
        /\ rows' = rows \cup {[request |-> r, path |-> Path(r)]}
        /\ UNCHANGED <<clock, run, files, writers, raced, counter>>
    BY <1>8 DEF Persist, MoveTo
  <2>2. Path(r) \in Paths \cup {NoPath}
    BY <1>a DEF Path, Run
  <2>3. TrainingTypes'
    BY <1>0, <2>1, <2>2 DEF TrainingTypes, InFlight, Row
  <2>4. WritersAreDumping'
    BY <1>0, <1>a, <2>1 DEF WritersAreDumping, Path
  <2>5. RowsFollowRequests'
    BY <1>0, <1>a, <2>1 DEF RowsFollowRequests, Path, TrainingTypes, Row
  <2>6. CountersBalance'
    BY <1>0, <2>1, NothingCounted DEF InFlight
  <2>7. \A q \in TrainRequests : RunFollowsRequest(q)'
    <3> DEFINE mine == [request |-> r, path |-> Path(r)]
    <3>1. mine \in rows' /\ mine.request = r
      BY <2>1
    <3> QED
      BY <1>0, <1>a, <2>1, <3>1 DEF RunFollowsRequest, Path
  <2>8. \A p \in Paths \ raced' : PathInv(p)'
    <3>1. /\ UNCHANGED <<run, files, raced>> /\ "respond" \notin {"open", "dump"}
          /\ HasArtifact(r)' => HasArtifact(r)
      BY <2>1 DEF HasArtifact
    <3> QED
      BY <2>1, <3>1, PathsKept
  <2> QED
    BY <2>3, <2>4, <2>5, <2>6, <2>7, <2>8 DEF TrainingInv
<1>9. ASSUME NEW r \in TrainRequests, Respond(r) PROVE TrainingInv'
  <2>1. /\ pc[r] = "respond" /\ pc' = [pc EXCEPT ![r] = "done"]
        /\ counter' = [counter EXCEPT !["completed"] = @ + 1]
        /\ UNCHANGED <<clock, run, files, writers, raced, rows>>
    BY <1>9 DEF Respond, MoveTo, Count
  <2>2. TrainingTypes'
    BY <1>0, <2>1 DEF TrainingTypes, InFlight
  <2>3. WritersAreDumping'
    BY <1>0, <1>a, <2>1 DEF WritersAreDumping, Path
  <2>4. RowsFollowRequests'
    BY <1>0, <1>a, <2>1 DEF RowsFollowRequests, Path, TrainingTypes, Row
  <2>5. CountersBalance'
    <3>1. Finished("done")' = Finished("done") \cup {r} /\ Finished("failed")' = Finished("failed")
      BY <1>a, <2>1 DEF Finished
    <3>2. {q \in TrainRequests : pc[q] # "new"}' = {q \in TrainRequests : pc[q] # "new"}
      BY <1>a, <2>1
    <3>3. Cardinality(Finished("done"))' = Cardinality(Finished("done")) + 1
      BY <2>1, <3>1, OneMore DEF Finished
    <3>4. /\ counter'.started = counter.started /\ counter'.failed = counter.failed
          /\ counter'.completed = counter.completed + 1
      BY <1>0, <2>1 DEF TrainingTypes
    <3> QED
      BY <1>0, <3>1, <3>2, <3>3, <3>4 DEF CountersBalance
  <2>6. \A q \in TrainRequests : RunFollowsRequest(q)'
    BY <1>0, <1>a, <2>1 DEF RunFollowsRequest, Path
  <2>7. \A p \in Paths \ raced' : PathInv(p)'
    <3>1. /\ UNCHANGED <<run, files, raced>> /\ "done" \notin {"open", "dump"}
          /\ HasArtifact(r)' => HasArtifact(r)
      BY <2>1 DEF HasArtifact
    <3> QED
      BY <2>1, <3>1, PathsKept
  <2> QED
    BY <2>2, <2>3, <2>4, <2>5, <2>6, <2>7 DEF TrainingInv
<1> QED
  BY <1>1, <1>2, <1>3, <1>4, <1>5, <1>6, <1>7, <1>8, <1>9 DEF TrainingNext, SaveBundle

-----------------------------------------------------------------------------
(* Trainings over HTTP: the theorems *)

LEMMA TrainingInvariant == TrainingApiSpec => []TrainingInv
BY TrainingInitInv, TrainingStepInv, PTL DEF TrainingApiSpec

\* What the invariant says of types, answers and bundles.
LEMMA TrainingConsequences ==
  TrainingInv => TrainingTypeOK /\ TrainingsAreAccounted /\ ArtifactIsKeptUnlessRaced
<1> SUFFICES ASSUME TrainingInv
             PROVE  TrainingTypeOK /\ TrainingsAreAccounted /\ ArtifactIsKeptUnlessRaced
  OBVIOUS
<1>1. TrainingTypeOK
  BY DEF TrainingInv, TrainingTypes, WritersAreDumping, TrainingTypeOK
<1>2. TrainingsAreAccounted
  BY DEF TrainingInv, TrainingsAreAccounted, RowsBelongToAnswers, RowsFollowRequests,
         RunFollowsRequest, Finished
<1>3. ASSUME NEW r \in TrainRequests, HasArtifact(r), Path(r) \notin raced
      PROVE  files[Path(r)] = r
  <2>1. Path(r) \in Paths \ raced
    BY <1>3 DEF TrainingInv, RunFollowsRequest, HasArtifact
  <2> QED
    BY <1>3, <2>1 DEF TrainingInv, PathInv
<1> QED
  BY <1>1, <1>2, <1>3 DEF ArtifactIsKeptUnlessRaced

\* POST /train: the counters add up to the requests and to those in flight, and
\* exactly the rows of answered requests are in the registry, at the path the
\* answer names, for any number of concurrent requests and any clock.
THEOREM TrainingsAccountedFor == TrainingApiSpec => []TrainingsAreAccounted
BY TrainingInvariant, TrainingConsequences, PTL

\* save_bundle() without overwrite: whoever came through the check alone keeps a
\* complete bundle of its own, whatever later requests do to the same path.
THEOREM ArtifactKept == TrainingApiSpec => []ArtifactIsKeptUnlessRaced
BY TrainingInvariant, TrainingConsequences, PTL

-----------------------------------------------------------------------------
(* Accounts: the invariant *)

Creates(c) == request[c].kind \in {"register", "own"}
Changes(c) == request[c].kind = "change"

\* The request a call serves, against the statement it is at.
StepFollowsRequest(c) ==
  /\ step[c] = "new" <=> request[c].kind = "none"
  /\ step[c] \in {"lookup", "insert"} => Creates(c)
  /\ step[c] = "verify" => request[c].kind = "login"
  /\ step[c] = "authorize" => request[c].kind \in {"identify", "change"}
  /\ step[c] \in {"current", "update"} => Changes(c)
  /\ step[c] = "commit" => Creates(c) \/ Changes(c)
  /\ raised[c] # "none" => step[c] = "ended"
  /\ request[c].kind = "register" /\ step[c] \in {"insert", "commit"} => request[c].password \in Strong
  /\ Changes(c) /\ step[c] \in {"update", "commit"} => request[c].new \in Strong

\* A row with a password exists that call c has been let in with.
Opened(c) ==
  \E a \in accounts : a.password # NoPassword /\
    IF Changes(c) THEN a.id = request[c].id ELSE a.email = request[c].email

\* The rows a call relies on: rows are never deleted, so what was found free of
\* older rows stays so, and what let a call in is still there.
StepFollowsAccounts(c) ==
  /\ step[c] = "current" => Known(c) /\ (seen[c] # NoPassword => Opened(c))
  /\ step[c] = "insert" \/ raised[c] = "IntegrityError" =>
       Creates(c) /\ \A a \in With(request[c].email) : a.id # Seed
  /\ raised[c] = "IntegrityError" => With(request[c].email) # {}
  /\ step[c] = "commit" /\ Creates(c) => With(request[c].email) = {}
  /\ Changes(c) /\ (step[c] \in {"update", "commit"} \/ Succeeded(c)) => Opened(c)
  /\ request[c].kind = "login" /\ Succeeded(c) => Opened(c)
  /\ request[c].kind = "register" /\ Succeeded(c) => \E a \in accounts : a.id = c

\* Where a row and its password come from.
RowInv(a) ==
  a.id # Seed =>
    /\ Succeeded(a.id) /\ request[a.id].email = a.email
    /\ \/ request[a.id].kind = "own" /\ a.password = NoPassword
       \/ /\ request[a.id].kind = "register"
          /\ \/ a.password = request[a.id].password
             \/ \E d \in Calls : /\ Succeeded(d) /\ Changes(d)
                                 /\ request[d].id = a.id /\ request[d].new = a.password

IdsAreUnique == \A a, b \in accounts : a.id = b.id => a = b

\* The unique index: one uncommitted row per e-mail.
InsertsExclude ==
  \A c, d \in {e \in Calls : step[e] = "commit" /\ Creates(e)} :
    request[c].email = request[d].email => c = d

AccountInv ==
  /\ AccountTypeOK
  /\ \A c \in Calls : StepFollowsRequest(c) /\ StepFollowsAccounts(c)
  /\ \A a \in accounts : RowInv(a)
  /\ IdsAreUnique /\ OneAccountPerEmail /\ InsertsExclude

-----------------------------------------------------------------------------
(* Accounts: the steps *)

\* Before the first call there is at most the one older row.
LEMMA AccountInitInv == AccountInit => AccountInv
<1> SUFFICES ASSUME AccountInit PROVE AccountInv
  OBVIOUS
<1>1. PICK A \in SUBSET [id : {Seed}, email : Emails,
                         password : Strong \cup {NoPassword}, active : BOOLEAN] :
        (\A a, b \in A : a = b) /\ accounts = A
  BY DEF AccountInit
<1>2. /\ step = [c \in Calls |-> "new"] /\ request = [c \in Calls |-> NoCall]
      /\ raised = [c \in Calls |-> "none"] /\ flushed = {}
      /\ answered = {} /\ seen = [c \in Calls |-> NoPassword]
  BY DEF AccountInit
<1>3. \A a \in accounts : a.id = Seed /\ a \in Account
  BY <1>1 DEF Account
<1>4. AccountTypeOK
  BY <1>2, <1>3 DEF AccountTypeOK, Steps
<1>5. ASSUME NEW c \in Calls PROVE StepFollowsRequest(c) /\ StepFollowsAccounts(c)
  <2>1. step[c] = "new" /\ request[c].kind = "none" /\ raised[c] = "none"
    BY <1>2 DEF NoCall
  <2> QED
    BY <2>1 DEF StepFollowsRequest, StepFollowsAccounts, Creates, Changes, Succeeded
<1>6. \A a \in accounts : RowInv(a)
  BY <1>3 DEF RowInv
<1>7. \A a, b \in accounts : a = b
  BY <1>1
<1>8. IdsAreUnique /\ OneAccountPerEmail
  BY <1>7 DEF IdsAreUnique, OneAccountPerEmail
<1>9. InsertsExclude
  BY <1>2 DEF InsertsExclude
<1> QED
  BY <1>4, <1>5, <1>6, <1>8, <1>9 DEF AccountInv

\* A call that leaves the rows alone disturbs neither rows nor other calls.
LEMMA RowsUntouched ==
  ASSUME AccountInv, NEW r \in Calls, step[r] # "ended", accounts' = accounts,
         \A c \in Calls \ {r} : /\ step'[c] = step[c]
                                /\ request'[c] = request[c]
                                /\ raised'[c] = raised[c]
                                /\ seen'[c] = seen[c]
  PROVE  /\ \A c \in Calls \ {r} : StepFollowsRequest(c)' /\ StepFollowsAccounts(c)'
         /\ \A a \in accounts' : RowInv(a)'
         /\ IdsAreUnique' /\ OneAccountPerEmail'
<1>1. ASSUME NEW c \in Calls \ {r} PROVE StepFollowsRequest(c)' /\ StepFollowsAccounts(c)'
  <2>1. /\ StepFollowsRequest(c) /\ StepFollowsAccounts(c)
        /\ step'[c] = step[c] /\ request'[c] = request[c] /\ raised'[c] = raised[c]
        /\ seen'[c] = seen[c]
    BY DEF AccountInv
  <2>2. /\ Creates(c)' = Creates(c) /\ Changes(c)' = Changes(c) /\ Opened(c)' = Opened(c)
        /\ Succeeded(c)' = Succeeded(c) /\ Known(c)' = Known(c)
    BY <2>1 DEF Creates, Changes, Opened, Succeeded, Known
  <2>3. With(request[c].email)' = With(request[c].email)
    BY <2>1 DEF With
  <2>4. StepFollowsRequest(c)'
    BY <2>1, <2>2 DEF StepFollowsRequest
  <2>5. StepFollowsAccounts(c)'
    BY <2>1, <2>2, <2>3 DEF StepFollowsAccounts
  <2> QED
    BY <2>4, <2>5
<1>2. ASSUME NEW a \in accounts PROVE RowInv(a)'
  <2>1. RowInv(a)
    BY DEF AccountInv
  <2>2. CASE a.id # Seed
    <3>1. a.id # r /\ a.id \in Calls
      BY <2>1, <2>2 DEF RowInv, Succeeded, AccountInv, AccountTypeOK, Account
    <3>2. \A d \in Calls : Succeeded(d) => Succeeded(d)' /\ request'[d] = request[d]
                                           /\ Changes(d)' = Changes(d)
      BY DEF Succeeded, Changes
    <3> QED
      BY <2>1, <2>2, <3>1, <3>2 DEF RowInv
  <2> QED
    BY <2>2 DEF RowInv
<1> QED
  BY <1>1, <1>2 DEF AccountInv, IdsAreUnique, OneAccountPerEmail

\* What is left to show of such a call: its own part of the invariant.
LEMMA OwnPartSuffices ==
  ASSUME AccountInv, NEW r \in Calls, step[r] # "ended", UNCHANGED accounts,
         NEW where, NEW exception,
         step' = [step EXCEPT ![r] = where],
         raised' = [raised EXCEPT ![r] = exception],
         UNCHANGED <<request, answered>>,
         NEW hash \in Strong \cup {NoPassword}, seen' = [seen EXCEPT ![r] = hash],
         where \in Steps \ {"new", "commit"},
         exception \in {"none", "ValidationError", "AuthError", "NotFoundError",
                                  "IntegrityError", "OperationalError"},
         flushed' = flushed \ {r},
         StepFollowsRequest(r)', StepFollowsAccounts(r)'
  PROVE  AccountInv'
<1>1. AccountTypeOK
  BY DEF AccountInv
<1>2. \A c \in Calls \ {r} : /\ step'[c] = step[c]
                             /\ request'[c] = request[c]
                             /\ raised'[c] = raised[c]
                             /\ seen'[c] = seen[c]
  BY <1>1 DEF AccountTypeOK
<1>3. /\ \A c \in Calls : StepFollowsRequest(c)' /\ StepFollowsAccounts(c)'
      /\ \A a \in accounts' : RowInv(a)'
      /\ IdsAreUnique' /\ OneAccountPerEmail'
  BY <1>2, RowsUntouched
<1>4. step'[r] = where /\ step \in [Calls -> Steps]
  BY <1>1 DEF AccountTypeOK
<1>5. flushed' = {c \in Calls : step'[c] = "commit"}
  BY <1>1, <1>4 DEF AccountTypeOK, Steps
<1>6. AccountTypeOK'
  BY <1>1, <1>5 DEF AccountTypeOK, Steps
<1>7. InsertsExclude'
  <2>1. \A c \in Calls : step'[c] = "commit" /\ Creates(c)' =>
          /\ step[c] = "commit" /\ Creates(c) /\ request'[c] = request[c]
    BY <1>4, <1>2 DEF Creates
  <2> QED
    BY <2>1 DEF AccountInv, InsertsExclude
<1> QED
  BY <1>3, <1>6, <1>7 DEF AccountInv

\* The row a call stands for, if there is one.
LEMMA SubjectExists ==
  ASSUME NEW c \in Calls, Known(c)
  PROVE  Subject(c) \in accounts /\ Subject(c).id = request[c].id
BY DEF Known, Subject

\* Begin: the request is chosen.
LEMMA BeginInv ==
  ASSUME AccountInv, NEW r \in Calls, Begin(r)
  PROVE  AccountInv'
<1>1. AccountTypeOK /\ step[r] = "new" /\ UNCHANGED <<raised, accounts, flushed, answered, seen>> /\ raised[r] = "none"
  BY DEF AccountInv, Begin, StepFollowsRequest
<1>2. PICK q \in Register \cup Own \cup Login \cup Identify \cup Change,
           where \in {"lookup", "verify", "authorize"} :
        /\ request' = [request EXCEPT ![r] = q] /\ step' = [step EXCEPT ![r] = where]
        /\ where = "lookup" => q \in Register \cup Own
        /\ where = "verify" => q \in Login
        /\ where = "authorize" => q \in Identify \cup Change
        /\ q \in Identify \cup Change => where = "authorize"
  <2>1. CASE \E q \in Register \cup Own : request' = [request EXCEPT ![r] = q] /\ GoOn(r, "lookup")
    BY <2>1 DEF GoOn, Register, Own, Identify, Change
  <2>2. CASE \E q \in Login : request' = [request EXCEPT ![r] = q] /\ GoOn(r, "verify")
    BY <2>2 DEF GoOn, Login, Identify, Change
  <2>3. CASE \E q \in Identify \cup Change :
                request' = [request EXCEPT ![r] = q] /\ GoOn(r, "authorize")
    BY <2>3 DEF GoOn
  <2> QED
    BY <2>1, <2>2, <2>3 DEF Begin
<1>3. /\ step'[r] = where /\ request'[r] = q /\ raised'[r] = "none"
      /\ \A c \in Calls \ {r} : step'[c] = step[c] /\ request'[c] = request[c]
  BY <1>1, <1>2 DEF AccountTypeOK
<1>4. /\ q.kind \in {"register", "own", "login", "identify", "change"}
      /\ where = "lookup" => q.kind \in {"register", "own"}
      /\ where = "verify" => q.kind = "login"
      /\ where = "authorize" => q.kind \in {"identify", "change"}
  BY <1>2 DEF Register, Own, Login, Identify, Change
<1>5. /\ \A c \in Calls \ {r} : StepFollowsRequest(c)' /\ StepFollowsAccounts(c)'
      /\ \A a \in accounts' : RowInv(a)'
      /\ IdsAreUnique' /\ OneAccountPerEmail'
  BY <1>1, <1>3, RowsUntouched
<1>6. StepFollowsRequest(r)'
  BY <1>3, <1>4 DEF StepFollowsRequest, Creates, Changes
<1>7. StepFollowsAccounts(r)'
  <2>1. ~ Succeeded(r)' /\ accounts' = accounts
    BY <1>1, <1>3 DEF Succeeded
  <2> QED
    BY <1>3, <1>4, <2>1 DEF StepFollowsAccounts
<1>8. AccountTypeOK'
  <2>1. flushed' = {c \in Calls : step'[c] = "commit"}
    BY <1>1, <1>2, <1>3 DEF AccountTypeOK
  <2>2. step' \in [Calls -> Steps]
    BY <1>1, <1>2 DEF AccountTypeOK, Steps
  <2>3. request' \in [Calls -> {NoCall} \cup Register \cup Login \cup Own \cup Identify \cup Change]
    BY <1>1, <1>2 DEF AccountTypeOK
  <2> QED
    BY <1>1, <2>1, <2>2, <2>3 DEF AccountTypeOK
<1>9. InsertsExclude'
  BY <1>3 DEF InsertsExclude, Creates, AccountInv
<1> QED
  BY <1>5, <1>6, <1>7, <1>8, <1>9 DEF AccountInv

\* The reads: looking up, signing in, identifying, verifying a password; and
\* an insert that the index refuses.
LEMMA ReadInv ==
  ASSUME AccountInv, NEW r \in Calls,
         \/ LookUp(r) \/ Verify(r) \/ Authorize(r) \/ VerifyCurrent(r)
         \/ Insert(r) /\ With(request[r].email) # {}
  PROVE  AccountInv'
<1>0. /\ AccountTypeOK /\ StepFollowsRequest(r) /\ StepFollowsAccounts(r)
      /\ step \in [Calls -> Steps]
  BY DEF AccountInv, AccountTypeOK
<1>1. /\ step[r] \in {"lookup", "verify", "authorize", "current", "insert"}
      /\ UNCHANGED <<request, accounts, flushed, answered>>
  BY DEF LookUp, Verify, Authorize, VerifyCurrent, Insert
<1>2. flushed' = flushed \ {r}
  BY <1>0, <1>1 DEF AccountTypeOK
<1>3. raised[r] = "none" /\ (UNCHANGED raised => raised' = [raised EXCEPT ![r] = "none"])
  BY <1>0, <1>1 DEF StepFollowsRequest, AccountTypeOK
<1>4. /\ request'[r] = request[r] /\ Creates(r)' = Creates(r) /\ Changes(r)' = Changes(r)
      /\ Opened(r)' = Opened(r) /\ With(request[r].email)' = With(request[r].email)
      /\ Known(r)' = Known(r)
  BY <1>1 DEF Creates, Changes, Opened, With, Known
<1>a. \E hash \in Strong \cup {NoPassword} : seen' = [seen EXCEPT ![r] = hash]
  <2>1. CASE UNCHANGED seen
    <3>1. seen' = [seen EXCEPT ![r] = seen[r]] /\ seen[r] \in Strong \cup {NoPassword}
      BY <1>0, <2>1 DEF AccountTypeOK
    <3> QED
      BY <3>1
  <2>2. CASE Known(r) /\ seen' = [seen EXCEPT ![r] = Subject(r).password]
    <3>1. Subject(r).password \in Strong \cup {NoPassword}
      BY <1>0, <2>2, SubjectExists DEF AccountTypeOK, Account
    <3> QED
      BY <2>2, <3>1
  <2> QED
    BY <2>1, <2>2 DEF LookUp, Verify, Authorize, VerifyCurrent, Insert
<1> DEFINE where == step'[r]  exception == raised'[r]
<1>5. SUFFICES /\ where \in Steps \ {"new", "commit"}
               /\ exception \in {"none", "ValidationError", "AuthError", "NotFoundError", "IntegrityError"}
               /\ step' = [step EXCEPT ![r] = where]
               /\ raised' = [raised EXCEPT ![r] = exception]
               /\ StepFollowsRequest(r)' /\ StepFollowsAccounts(r)'
  BY <1>0, <1>1, <1>2, <1>a, OwnPartSuffices
<1>6. CASE LookUp(r)
  <2>1. /\ step[r] = "lookup" /\ Creates(r) /\ request[r].kind \in {"register", "own"}
        /\ request[r].kind = "register" => request[r].password \in Passwords
    <3>1. step[r] = "lookup" /\ Creates(r) /\ request[r].kind \in {"register", "own"}
      BY <1>0, <1>6 DEF LookUp, StepFollowsRequest, Creates
    <3> QED
      BY <1>0, <3>1 DEF AccountTypeOK, Register, Own, Login, Identify, Change, NoCall
  <2>2. \/ /\ step' = [step EXCEPT ![r] = "ended"] /\ raised' = [raised EXCEPT ![r] = "ValidationError"]
        \/ /\ step' = [step EXCEPT ![r] = "ended"] /\ raised' = [raised EXCEPT ![r] = "none"]
           /\ request[r].kind = "own"
        \/ /\ step' = [step EXCEPT ![r] = "insert"] /\ raised' = [raised EXCEPT ![r] = "none"]
           /\ With(request[r].email) = {}
           /\ request[r].kind = "register" => request[r].password \in Strong
    BY <1>3, <1>6 DEF LookUp, Raise, Return, GoOn, Hashable
  <2>3. /\ where \in {"ended", "insert"} /\ exception \in {"none", "ValidationError"}
        /\ step' = [step EXCEPT ![r] = where] /\ raised' = [raised EXCEPT ![r] = exception]
        /\ where = "insert" => /\ exception = "none" /\ With(request[r].email) = {}
                               /\ request[r].kind = "register" => request[r].password \in Strong
        /\ where = "ended" /\ exception = "none" => request[r].kind = "own"
    BY <1>0, <2>2 DEF AccountTypeOK
  <2> HIDE DEF where, exception
  <2>4. where = step'[r] /\ exception = raised'[r]
    BY DEF where, exception
  <2>5. StepFollowsRequest(r)'
    BY <1>4, <2>1, <2>3, <2>4 DEF StepFollowsRequest, Creates, Changes
  <2>6. StepFollowsAccounts(r)'
    BY <1>4, <2>1, <2>3, <2>4 DEF StepFollowsAccounts, Creates, Changes, Succeeded
  <2> QED
    BY <2>3, <2>4, <2>5, <2>6 DEF Steps
<1>7. CASE Verify(r)
  <2>1. /\ step[r] = "verify" /\ request[r].kind = "login" /\ ~ Changes(r) /\ ~ Creates(r)
    BY <1>0, <1>7 DEF Verify, StepFollowsRequest, Changes, Creates
  <2>2. \/ /\ step' = [step EXCEPT ![r] = "ended"] /\ raised' = [raised EXCEPT ![r] = "AuthError"]
        \/ /\ step' = [step EXCEPT ![r] = "ended"] /\ raised' = [raised EXCEPT ![r] = "none"]
           /\ \E a \in With(request[r].email) : Matches(request[r].password, a.password)
    BY <1>7 DEF Verify, Raise, Return, GoOn
  <2>3. (\E a \in With(request[r].email) : Matches(request[r].password, a.password)) => Opened(r)
    BY <2>1 DEF With, Matches, Opened
  <2>4. /\ where = "ended" /\ exception \in {"none", "AuthError"}
        /\ step' = [step EXCEPT ![r] = where] /\ raised' = [raised EXCEPT ![r] = exception]
        /\ exception = "none" => Opened(r)
    BY <1>0, <2>2, <2>3 DEF AccountTypeOK
  <2> HIDE DEF where, exception
  <2>5. where = step'[r] /\ exception = raised'[r]
    BY DEF where, exception
  <2>6. StepFollowsRequest(r)'
    BY <1>4, <2>1, <2>4, <2>5 DEF StepFollowsRequest
  <2>7. StepFollowsAccounts(r)'
    BY <1>4, <2>1, <2>4, <2>5 DEF StepFollowsAccounts, Succeeded
  <2> QED
    BY <2>4, <2>5, <2>6, <2>7 DEF Steps
<1>8. CASE Authorize(r) \/ VerifyCurrent(r)
  <2>1. /\ step[r] \in {"authorize", "current"} /\ request[r].kind \in {"identify", "change"}
        /\ ~ Creates(r) /\ (Changes(r) <=> request[r].kind = "change")
        /\ step[r] = "current" => Changes(r) /\ Known(r) /\ (seen[r] # NoPassword => Opened(r))
    BY <1>0, <1>8 DEF Authorize, VerifyCurrent, StepFollowsRequest, StepFollowsAccounts, Changes, Creates
  <2>2. Known(r) => Subject(r) \in accounts /\ Subject(r).id = request[r].id
    BY SubjectExists
  <2>3. Known(r) /\ Changes(r) /\ Subject(r).password # NoPassword => Opened(r)
    BY <2>2 DEF Opened
  <2>4. /\ where \in {"ended", "current", "update"}
        /\ exception \in {"none", "AuthError", "ValidationError", "NotFoundError"}
        /\ step' = [step EXCEPT ![r] = where] /\ raised' = [raised EXCEPT ![r] = exception]
        /\ where # "ended" => exception = "none" /\ Changes(r)
        /\ where = "ended" /\ exception = "none" => ~ Changes(r)
        /\ where = "current" => Known(r) /\ (seen'[r] # NoPassword => Opened(r))
        /\ where = "update" => Opened(r) /\ request[r].new \in Strong
    <3>1. CASE Authorize(r)
      <4>1. \/ step' = [step EXCEPT ![r] = "ended"] /\ raised' = [raised EXCEPT ![r] = "NotFoundError"]
            \/ step' = [step EXCEPT ![r] = "ended"] /\ raised' = [raised EXCEPT ![r] = "AuthError"]
            \/ /\ step' = [step EXCEPT ![r] = "ended"] /\ raised' = [raised EXCEPT ![r] = "none"]
               /\ request[r].kind = "identify"
            \/ /\ step' = [step EXCEPT ![r] = "current"] /\ raised' = [raised EXCEPT ![r] = "none"]
               /\ request[r].kind = "change" /\ Known(r)
               /\ seen' = [seen EXCEPT ![r] = Subject(r).password]
        BY <1>3, <3>1 DEF Authorize, Raise, Return, GoOn
      <4>2. seen' = [seen EXCEPT ![r] = Subject(r).password] => seen'[r] = Subject(r).password
        BY <1>0 DEF AccountTypeOK
      <4> QED
        BY <1>0, <2>1, <2>3, <4>1, <4>2 DEF AccountTypeOK
    <3>2. CASE VerifyCurrent(r)
      <4>1. PICK hash \in {seen[r], Subject(r).password} :
              \/ step' = [step EXCEPT ![r] = "ended"] /\ raised' = [raised EXCEPT ![r] = "AuthError"]
              \/ step' = [step EXCEPT ![r] = "ended"] /\ raised' = [raised EXCEPT ![r] = "ValidationError"]
              \/ /\ step' = [step EXCEPT ![r] = "update"] /\ raised' = [raised EXCEPT ![r] = "none"]
                 /\ Matches(request[r].password, hash) /\ request[r].new \in Strong
        BY <1>3, <3>2 DEF VerifyCurrent, Raise, GoOn, Hashable
      <4>2. step[r] = "current"
        BY <3>2 DEF VerifyCurrent
      <4>3. Matches(request[r].password, hash) => Opened(r)
        BY <2>1, <2>3, <4>2 DEF Matches
      <4> QED
        BY <1>0, <2>1, <4>1, <4>2, <4>3 DEF AccountTypeOK
    <3> QED
      BY <1>8, <3>1, <3>2
  <2> HIDE DEF where, exception
  <2>5. where = step'[r] /\ exception = raised'[r]
    BY DEF where, exception
  <2>6. StepFollowsRequest(r)'
    BY <1>4, <2>1, <2>4, <2>5 DEF StepFollowsRequest
  <2>7. StepFollowsAccounts(r)'
    <3>1. request'[r].kind \in {"identify", "change"} /\ (Changes(r) <=> request'[r].kind = "change")
      BY <1>4, <2>1
    <3> QED
      BY <1>4, <2>1, <2>4, <2>5, <3>1 DEF StepFollowsAccounts, Succeeded
  <2> QED
    BY <2>4, <2>5, <2>6, <2>7 DEF Steps
<1>9. CASE Insert(r) /\ With(request[r].email) # {}
  <2>1. /\ step[r] = "insert" /\ Creates(r) /\ ~ Changes(r) /\ request[r].kind \in {"register", "own"}
        /\ \A a \in With(request[r].email) : a.id # Seed
    BY <1>0, <1>9 DEF Insert, StepFollowsRequest, StepFollowsAccounts, Changes, Creates
  <2>2. step' = [step EXCEPT ![r] = "ended"] /\ raised' = [raised EXCEPT ![r] = "IntegrityError"]
    BY <1>9 DEF Insert, Raise, GoOn
  <2>3. where = "ended" /\ exception = "IntegrityError"
    BY <1>0, <2>2 DEF AccountTypeOK
  <2>4. StepFollowsRequest(r)'
    BY <1>4, <2>1, <2>3 DEF StepFollowsRequest
  <2>5. StepFollowsAccounts(r)'
    BY <1>4, <1>9, <2>1, <2>3 DEF StepFollowsAccounts, Succeeded
  <2> QED
    BY <2>2, <2>3, <2>4, <2>5 DEF Steps
<1> QED
  BY <1>6, <1>7, <1>8, <1>9

\* A call writes: nobody else has written the same row or index entry.
LEMMA WriteInv ==
  ASSUME AccountInv, NEW r \in Calls,
         Update(r) \/ (Insert(r) /\ With(request[r].email) = {})
  PROVE  AccountInv'
<1>0. /\ AccountTypeOK /\ StepFollowsRequest(r) /\ StepFollowsAccounts(r)
      /\ step \in [Calls -> Steps]
  BY DEF AccountInv, AccountTypeOK
<1>1. /\ step[r] \in {"update", "insert"} /\ step' = [step EXCEPT ![r] = "commit"]
      /\ flushed' = flushed \cup {r}
      /\ UNCHANGED <<request, raised, accounts, answered, seen>> /\ ~ Locked(r)
      /\ step[r] = "insert" => With(request[r].email) = {}
  BY DEF Update, Insert, GoOn
<1>2. \A c \in Calls \ {r} : /\ step'[c] = step[c]
                             /\ request'[c] = request[c]
                             /\ raised'[c] = raised[c]
                             /\ seen'[c] = seen[c]
  BY <1>0, <1>1
<1>3. /\ \A c \in Calls \ {r} : StepFollowsRequest(c)' /\ StepFollowsAccounts(c)'
      /\ \A a \in accounts' : RowInv(a)'
      /\ IdsAreUnique' /\ OneAccountPerEmail'
  BY <1>1, <1>2, RowsUntouched
<1>4. /\ step'[r] = "commit" /\ raised'[r] = raised[r] /\ raised[r] = "none"
      /\ request'[r] = request[r] /\ Creates(r)' = Creates(r) /\ Changes(r)' = Changes(r)
      /\ Opened(r)' = Opened(r) /\ With(request[r].email)' = With(request[r].email)
  BY <1>0, <1>1 DEF Creates, Changes, Opened, With, StepFollowsRequest
<1>5. /\ step[r] = "insert" => Creates(r) /\ ~ Changes(r)
      /\ step[r] = "update" => Changes(r) /\ ~ Creates(r)
  BY <1>0 DEF StepFollowsRequest, Creates, Changes
<1>6. StepFollowsRequest(r)'
  BY <1>0, <1>1, <1>4, <1>5 DEF StepFollowsRequest, Creates, Changes
<1>7. StepFollowsAccounts(r)'
  BY <1>0, <1>1, <1>4, <1>5 DEF StepFollowsAccounts, Succeeded
<1>8. AccountTypeOK'
  <2>1. flushed' = {c \in Calls : step'[c] = "commit"}
    BY <1>0, <1>1, <1>2, <1>4 DEF AccountTypeOK
  <2> QED
    BY <1>0, <1>1, <2>1 DEF AccountTypeOK, Steps
<1>9. InsertsExclude'
  <2> SUFFICES ASSUME NEW c \in Calls, NEW d \in Calls,
                      step'[c] = "commit", Creates(c)', step'[d] = "commit", Creates(d)',
                      request'[c].email = request'[d].email
               PROVE  c = d
    BY DEF InsertsExclude
  <2>1. Creates(c) /\ Creates(d) /\ request[c].email = request[d].email
    BY <1>1 DEF Creates
  <2>2. \A e \in Calls : e # r /\ step[e] = "commit" /\ Creates(e) /\ Creates(r) => request[e].email # request[r].email
    BY <1>0, <1>1 DEF Locked, AccountTypeOK, Creates
  <2>3. c # r /\ d # r => c = d
    BY <1>2, <2>1 DEF AccountInv, InsertsExclude
  <2> QED
    BY <1>2, <2>1, <2>2, <2>3
<1> QED
  BY <1>3, <1>6, <1>7, <1>8, <1>9 DEF AccountInv

\* What a changed row keeps.
Changed(a, q) == IF a.id = q.id THEN [a EXCEPT !.password = q.new] ELSE a

LEMMA ChangedKeeps ==
  ASSUME NEW a \in Account, NEW q, q.new \in Strong
  PROVE  /\ Changed(a, q) \in Account
         /\ Changed(a, q).id = a.id /\ Changed(a, q).email = a.email
         /\ a.id = q.id => Changed(a, q).password = q.new
         /\ a.id # q.id => Changed(a, q) = a
BY DEF Changed, Account

\* A committed transaction ends its call well.
LEMMA CommitEnds ==
  ASSUME AccountInv, NEW r \in Calls, Commit(r)
  PROVE  /\ step[r] = "commit" /\ step' = [step EXCEPT ![r] = "ended"]
         /\ accounts' = Written(r) /\ UNCHANGED <<request, answered, seen>>
         /\ step'[r] = "ended" /\ raised'[r] = "none" /\ Succeeded(r)'
         /\ \A c \in Calls \ {r} : step'[c] = step[c] /\ raised'[c] = raised[c]
         /\ \A c \in Calls : /\ Succeeded(c) => Succeeded(c)'
                             /\ c # r => Succeeded(c)' = Succeeded(c)
         /\ \A c \in Calls : Creates(c)' = Creates(c) /\ Changes(c)' = Changes(c)
         /\ step' \in [Calls -> Steps] /\ flushed' = {c \in Calls : step'[c] = "commit"}
         /\ raised' \in [Calls -> {"none", "ValidationError", "AuthError", "NotFoundError",
                                  "IntegrityError", "OperationalError"}]
         /\ Creates(r) \/ Changes(r)
         /\ StepFollowsRequest(r)'
         /\ \A c \in Calls \ {r} : StepFollowsRequest(c)'
         /\ InsertsExclude'
<1>1. /\ AccountTypeOK /\ InsertsExclude
      /\ \A c \in Calls : StepFollowsRequest(c)
      /\ step[r] = "commit" /\ step' = [step EXCEPT ![r] = "ended"]
      /\ raised' = [raised EXCEPT ![r] = "none"] /\ flushed' = flushed \ {r}
      /\ accounts' = Written(r) /\ UNCHANGED <<request, answered, seen>>
  BY DEF AccountInv, Commit, Return, Raise, GoOn
<1>2. /\ step'[r] = "ended" /\ raised'[r] = "none"
      /\ \A c \in Calls \ {r} : step'[c] = step[c] /\ raised'[c] = raised[c]
  BY <1>1 DEF AccountTypeOK
<1>3. \A c \in Calls : /\ Succeeded(c) => Succeeded(c)'
                       /\ c # r => Succeeded(c)' = Succeeded(c)
  BY <1>1, <1>2 DEF Succeeded
<1>4. \A c \in Calls : Creates(c)' = Creates(c) /\ Changes(c)' = Changes(c)
  BY <1>1 DEF Creates, Changes
<1>5. /\ step' \in [Calls -> Steps] /\ flushed' = {c \in Calls : step'[c] = "commit"}
      /\ raised' \in [Calls -> {"none", "ValidationError", "AuthError", "NotFoundError",
                                  "IntegrityError", "OperationalError"}]
  BY <1>1, <1>2 DEF AccountTypeOK, Steps
<1>6. Creates(r) \/ Changes(r)
  BY <1>1 DEF StepFollowsRequest
<1>7. \A c \in Calls : StepFollowsRequest(c)'
  BY <1>1, <1>2, <1>4 DEF StepFollowsRequest
<1>8. InsertsExclude'
  BY <1>1, <1>2, <1>4 DEF InsertsExclude
<1> QED
  BY <1>1, <1>2, <1>3, <1>4, <1>5, <1>6, <1>7, <1>8 DEF Succeeded

\* A new row: its e-mail was free, and nobody else is about to use it.
LEMMA CommitCreates ==
  ASSUME AccountInv, NEW r \in Calls, Commit(r), Creates(r)
  PROVE  AccountInv'
<1> DEFINE q == request[r]
           created == [id |-> r, email |-> q.email, active |-> TRUE,
                       password |-> IF q.kind = "own" THEN NoPassword ELSE q.password]
<1>0. /\ AccountTypeOK /\ IdsAreUnique /\ OneAccountPerEmail /\ InsertsExclude
      /\ \A a \in accounts : RowInv(a)
      /\ \A c \in Calls : StepFollowsRequest(c) /\ StepFollowsAccounts(c)
  BY DEF AccountInv
<1>1. /\ step[r] = "commit" /\ UNCHANGED <<request, answered, seen>> /\ accounts' = Written(r)
      /\ step'[r] = "ended" /\ raised'[r] = "none" /\ Succeeded(r)'
      /\ \A c \in Calls \ {r} : step'[c] = step[c] /\ raised'[c] = raised[c]
      /\ \A c \in Calls : /\ Succeeded(c) => Succeeded(c)'
                          /\ c # r => Succeeded(c)' = Succeeded(c)
      /\ \A c \in Calls : Creates(c)' = Creates(c) /\ Changes(c)' = Changes(c)
      /\ \A c \in Calls : StepFollowsRequest(c)'
      /\ InsertsExclude'
  BY CommitEnds
<1>2. /\ q.kind \in {"register", "own"} /\ ~ Changes(r) /\ accounts' = accounts \cup {created}
  BY <1>1 DEF Creates, Changes, Written
<1>3. /\ created.id = r /\ created.email = q.email
      /\ q.kind = "own" => created.password = NoPassword
      /\ q.kind = "register" => created.password = q.password
  BY <1>2
<1>4. created \in Account
  <2>1. q.email \in Emails
    BY <1>0, <1>2 DEF AccountTypeOK, Register, Own, Login, Identify, Change, NoCall
  <2>2. q.kind = "register" => q.password \in Strong
    BY <1>0, <1>1 DEF StepFollowsRequest
  <2> QED
    BY <1>2, <2>1, <2>2 DEF Account
<1>5. With(q.email) = {}
  BY <1>0, <1>1 DEF StepFollowsAccounts
<1>6. \A a \in accounts : a.id # r /\ a.email # q.email
  BY <1>0, <1>1, <1>5, SeedAssumption DEF RowInv, Succeeded, With
<1> HIDE DEF created, q
<1>7. AccountTypeOK'
  <2>1. accounts' \subseteq Account
    BY <1>0, <1>2, <1>4 DEF AccountTypeOK
  <2> QED
    BY <1>0, <1>1, <2>1, CommitEnds DEF AccountTypeOK
<1>8. IdsAreUnique' /\ OneAccountPerEmail'
  BY <1>0, <1>2, <1>3, <1>6 DEF IdsAreUnique, OneAccountPerEmail
<1>9. ASSUME NEW a \in accounts' PROVE RowInv(a)'
  <2>1. CASE a = created
    BY <1>1, <1>2, <1>3, <2>1 DEF RowInv, q
  <2>2. CASE a \in accounts
    <3>1. RowInv(a) /\ (a.id # Seed => a.id \in Calls)
      BY <1>0, <2>2 DEF AccountTypeOK, Account
    <3> QED
      BY <1>1, <3>1 DEF RowInv
  <2> QED
    BY <1>2, <1>9, <2>1, <2>2
<1>10. ASSUME NEW c \in Calls PROVE StepFollowsAccounts(c)'
  <2>1. StepFollowsAccounts(c) /\ request'[c] = request[c]
        /\ Creates(c)' = Creates(c) /\ Changes(c)' = Changes(c)
    BY <1>0, <1>1
  <2>2. Opened(c) => Opened(c)'
    BY <1>2, <2>1 DEF Opened
  <2>3. Known(c) => Known(c)'
    BY <1>2, <2>1 DEF Known
  <2>4. With(request[c].email)' = With(request[c].email) \cup {a \in {created} : a.email = request[c].email}
    BY <1>2, <2>1 DEF With
  <2>5. CASE c = r
    <3>1. /\ \E a \in accounts' : a.id = r
      BY <1>2, <1>3
    <3> QED
      BY <1>1, <1>2, <2>1, <2>5, <3>1 DEF StepFollowsAccounts, q
  <2>6. CASE c # r
    <3>1. /\ step'[c] = step[c] /\ raised'[c] = raised[c] /\ Succeeded(c)' = Succeeded(c)
          /\ seen'[c] = seen[c]
      BY <1>1, <2>6
    <3>2. step[c] = "commit" /\ Creates(c) => request[c].email # created.email
      BY <1>0, <1>1, <1>3, <2>6 DEF InsertsExclude, q
    <3>3. \A a \in {created} : a.id # Seed
      BY <1>3, SeedAssumption
    <3>4. (\E a \in accounts : a.id = c) => \E a \in accounts' : a.id = c
      BY <1>2
    <3> QED
      BY <2>1, <2>2, <2>3, <2>4, <3>1, <3>2, <3>3, <3>4 DEF StepFollowsAccounts
  <2> QED
    BY <2>5, <2>6
<1> QED
  BY <1>1, <1>7, <1>8, <1>9, <1>10 DEF AccountInv

\* A changed password: the rows keep their identities, and the row that is
\* changed had a password already.
LEMMA CommitChanges ==
  ASSUME AccountInv, NEW r \in Calls, Commit(r), Changes(r)
  PROVE  AccountInv'
<1> DEFINE q == request[r]
<1>0. /\ AccountTypeOK /\ IdsAreUnique /\ OneAccountPerEmail /\ InsertsExclude
      /\ \A a \in accounts : RowInv(a)
      /\ \A c \in Calls : StepFollowsRequest(c) /\ StepFollowsAccounts(c)
  BY DEF AccountInv
<1>1. /\ step[r] = "commit" /\ UNCHANGED <<request, answered, seen>> /\ accounts' = Written(r)
      /\ step'[r] = "ended" /\ raised'[r] = "none" /\ Succeeded(r)'
      /\ \A c \in Calls \ {r} : step'[c] = step[c] /\ raised'[c] = raised[c]
      /\ \A c \in Calls : /\ Succeeded(c) => Succeeded(c)'
                          /\ c # r => Succeeded(c)' = Succeeded(c)
      /\ \A c \in Calls : Creates(c)' = Creates(c) /\ Changes(c)' = Changes(c)
      /\ \A c \in Calls : StepFollowsRequest(c)'
      /\ InsertsExclude'
  BY CommitEnds
<1>2. accounts' = {Changed(a, q) : a \in accounts} /\ q.kind = "change" /\ ~ Creates(r)
  BY <1>1 DEF Written, Changes, Changed, Creates
<1>3. q.new \in Strong /\ q.new # NoPassword
  BY <1>0, <1>1, PasswordAssumption DEF StepFollowsRequest
<1>4. PICK subject \in accounts : subject.password # NoPassword /\ subject.id = q.id
  BY <1>0, <1>1 DEF StepFollowsAccounts, Opened
<1> DEFINE new(a) == Changed(a, q)
<1>5. \A a \in accounts : /\ a \in Account /\ new(a) \in accounts' /\ new(a) \in Account
                          /\ new(a).id = a.id /\ new(a).email = a.email
                          /\ a.id = q.id => new(a).password = q.new
                          /\ a.id # q.id => new(a) = a
                          /\ a.password # NoPassword => new(a).password # NoPassword
  <2> SUFFICES ASSUME NEW a \in accounts
               PROVE  /\ a \in Account /\ new(a) \in accounts' /\ new(a) \in Account
                      /\ new(a).id = a.id /\ new(a).email = a.email
                      /\ a.id = q.id => new(a).password = q.new
                      /\ a.id # q.id => new(a) = a
                      /\ a.password # NoPassword => new(a).password # NoPassword
    OBVIOUS
  <2>1. a \in Account /\ new(a) \in accounts'
    BY <1>0, <1>2 DEF AccountTypeOK
  <2>2. /\ new(a) \in Account /\ new(a).id = a.id /\ new(a).email = a.email
        /\ a.id = q.id => new(a).password = q.new
        /\ a.id # q.id => new(a) = a
    BY <1>3, <2>1, ChangedKeeps
  <2> QED
    BY <1>3, <2>1, <2>2
<1>6. \A b \in accounts' : \E a \in accounts : b = new(a)
  BY <1>2
<1> HIDE DEF new
<1>7. AccountTypeOK'
  <2>1. accounts' \subseteq Account
    BY <1>5, <1>6
  <2> QED
    BY <1>0, <1>1, <2>1, CommitEnds DEF AccountTypeOK
<1>8. IdsAreUnique' /\ OneAccountPerEmail'
  BY <1>0, <1>5, <1>6 DEF IdsAreUnique, OneAccountPerEmail
<1>9. ASSUME NEW b \in accounts' PROVE RowInv(b)'
  <2>1. PICK a \in accounts : b = new(a)
    BY <1>6, <1>9
  <2>2. RowInv(a) /\ b.id = a.id /\ b.email = a.email /\ (a.id # Seed => a.id \in Calls)
    BY <1>0, <1>5, <2>1 DEF Account
  <2>3. CASE a.id # q.id
    <3>1. b = a
      BY <1>5, <2>1, <2>3
    <3> QED
      BY <1>1, <2>2, <3>1 DEF RowInv
  <2>4. CASE a.id = q.id
    <3>1. b.password = q.new /\ a.password # NoPassword
      BY <1>0, <1>4, <1>5, <2>1, <2>4 DEF IdsAreUnique
    <3>2. a.id # Seed => request[a.id].kind = "register"
      BY <2>2, <3>1 DEF RowInv
    <3>3. /\ Succeeded(r)' /\ Changes(r)' /\ request'[r].id = b.id /\ request'[r].new = b.password
      BY <1>1, <2>2, <2>4, <3>1
    <3> QED
      BY <1>1, <2>2, <3>2, <3>3 DEF RowInv
  <2> QED
    BY <2>3, <2>4
<1>10. ASSUME NEW c \in Calls PROVE StepFollowsAccounts(c)'
  <2>1. StepFollowsAccounts(c) /\ request'[c] = request[c]
        /\ Creates(c)' = Creates(c) /\ Changes(c)' = Changes(c)
    BY <1>0, <1>1
  <2>2. Opened(c) => Opened(c)'
    BY <1>5, <2>1 DEF Opened
  <2>3. /\ \A id : (\E a \in accounts : a.id = id) => \E a \in accounts' : a.id = id
        /\ Known(c) => Known(c)'
    BY <1>5, <2>1 DEF Known
  <2>4. /\ With(request[c].email) = {} => With(request[c].email)' = {}
        /\ With(request[c].email) # {} => With(request[c].email)' # {}
        /\ (\A a \in With(request[c].email) : a.id # Seed) => \A a \in With(request[c].email)' : a.id # Seed
    BY <1>5, <1>6, <2>1 DEF With
  <2>5. CASE c = r
    <3>1. Opened(r)
      BY <1>0, <1>1 DEF StepFollowsAccounts
    <3> QED
      BY <1>1, <1>2, <2>1, <2>2, <2>3, <2>5, <3>1 DEF StepFollowsAccounts
  <2>6. CASE c # r
    <3>1. /\ step'[c] = step[c] /\ raised'[c] = raised[c] /\ Succeeded(c)' = Succeeded(c)
          /\ seen'[c] = seen[c]
      BY <1>1, <2>6
    <3> QED
      BY <2>1, <2>2, <2>3, <2>4, <3>1 DEF StepFollowsAccounts
  <2> QED
    BY <2>5, <2>6
<1> QED
  BY <1>1, <1>7, <1>8, <1>9, <1>10 DEF AccountInv

\* A failed commit leaves no row.
LEMMA CommitFails ==
  ASSUME AccountInv, NEW r \in Calls, CommitRaises(r)
  PROVE  AccountInv'
<1>0. /\ AccountTypeOK /\ StepFollowsRequest(r) /\ StepFollowsAccounts(r)
  BY DEF AccountInv
<1>1. /\ step[r] = "commit" /\ step' = [step EXCEPT ![r] = "ended"]
      /\ raised' = [raised EXCEPT ![r] = "OperationalError"]
      /\ flushed' = flushed \ {r} /\ UNCHANGED <<request, accounts, answered, seen>>
      /\ seen' = [seen EXCEPT ![r] = seen[r]] /\ seen[r] \in Strong \cup {NoPassword}
  BY <1>0 DEF CommitRaises, Raise, GoOn, AccountTypeOK
<1>2. /\ step'[r] = "ended" /\ raised'[r] = "OperationalError" /\ request'[r] = request[r]
      /\ Creates(r)' = Creates(r) /\ Changes(r)' = Changes(r) /\ ~ Succeeded(r)'
  BY <1>0, <1>1 DEF AccountTypeOK, Creates, Changes, Succeeded
<1>3. StepFollowsRequest(r)'
  BY <1>0, <1>1, <1>2 DEF StepFollowsRequest
<1>4. StepFollowsAccounts(r)'
  BY <1>0, <1>1, <1>2 DEF StepFollowsAccounts
<1>5. "ended" \in Steps \ {"new", "commit"} /\ step[r] # "ended"
  BY <1>1 DEF Steps
<1> QED
  BY <1>1, <1>3, <1>4, <1>5, OwnPartSuffices

\* Every step keeps the invariant.
LEMMA AccountStepInv == AccountInv /\ [AccountNext]_accountVars => AccountInv'
<1> SUFFICES ASSUME AccountInv, [AccountNext]_accountVars PROVE AccountInv'
  OBVIOUS
<1>1. ASSUME UNCHANGED <<step, request, raised, accounts, flushed, seen>>,
             answered' \subseteq Calls
      PROVE  AccountInv'
  <2>1. /\ AccountTypeOK' /\ IdsAreUnique' /\ OneAccountPerEmail' /\ InsertsExclude'
    BY <1>1 DEF AccountInv, AccountTypeOK, IdsAreUnique, OneAccountPerEmail,
                InsertsExclude, Creates
  <2>2. ASSUME NEW c \in Calls PROVE StepFollowsRequest(c)' /\ StepFollowsAccounts(c)'
    BY <1>1 DEF AccountInv, StepFollowsRequest, StepFollowsAccounts, Creates,
                Changes, With, Opened, Succeeded, Known
  <2>3. ASSUME NEW a \in accounts' PROVE RowInv(a)'
    BY <1>1 DEF AccountInv, RowInv, Succeeded, Changes
  <2> QED
    BY <2>1, <2>2, <2>3 DEF AccountInv
<1>2. ASSUME NEW c \in Calls, AccountStep(c) PROVE AccountInv'
  <2>1. CASE Begin(c)
    BY <2>1, BeginInv
  <2>2. CASE LookUp(c) \/ Verify(c) \/ Authorize(c) \/ VerifyCurrent(c)
    BY <2>2, ReadInv
  <2>3. CASE Insert(c)
    BY <2>3, ReadInv, WriteInv
  <2>4. CASE Update(c)
    BY <2>4, WriteInv
  <2>5. CASE Commit(c)
    <3>1. Creates(c) \/ Changes(c)
      BY <2>5, CommitEnds
    <3> QED
      BY <2>5, <3>1, CommitCreates, CommitChanges
  <2>6. CASE CommitRaises(c)
    BY <2>6, CommitFails
  <2>7. CASE Answer(c)
    BY <1>1, <2>7 DEF Answer, AccountInv, AccountTypeOK
  <2> QED
    BY <1>2, <2>1, <2>2, <2>3, <2>4, <2>5, <2>6, <2>7 DEF AccountStep
<1>3. CASE UNCHANGED accountVars
  BY <1>1, <1>3 DEF accountVars, AccountInv, AccountTypeOK
<1> QED
  BY <1>2, <1>3 DEF AccountNext

\* A result that left before the commit, and the tokens that left with it.
PromiseInv ==
  /\ \A c \in answered : step[c] = "commit" \/ Succeeded(c) \/ raised[c] = "OperationalError"
  /\ \A c \in Calls : request[c].kind \in {"identify", "change"} => Known(c) \/ request[c].id \in answered
  /\ UnknownMeansEarly

\* Nothing but a failing commit follows the result, and rows never vanish.
LEMMA PromiseStepInv ==
  AccountInv /\ PromiseInv /\ [AccountNext]_accountVars => PromiseInv'
<1> SUFFICES ASSUME AccountInv, PromiseInv, [AccountNext]_accountVars PROVE PromiseInv'
  OBVIOUS
<1>0. AccountTypeOK /\ \A c \in Calls : StepFollowsRequest(c)
  BY DEF AccountInv
<1>1. CASE UNCHANGED accountVars
  BY <1>1 DEF accountVars, PromiseInv, Succeeded, Known, UnknownMeansEarly
<1>2. ASSUME NEW r \in Calls, AccountStep(r) PROVE PromiseInv'
  <2>1. /\ answered \subseteq answered'
        /\ \A c \in answered' \ answered : c = r /\ step'[c] = "commit"
        /\ \A c \in Calls \ {r} : step'[c] = step[c] /\ raised'[c] = raised[c] /\ request'[c] = request[c]
    BY <1>0, <1>2 DEF AccountStep, AccountTypeOK, Begin, LookUp, Insert, Verify, Authorize, VerifyCurrent,
                      Update, Answer, Commit, CommitRaises, Raise, Return, GoOn
  <2>2. \A id : (\E a \in accounts : a.id = id) => \E a \in accounts' : a.id = id
    <3>1. CASE Commit(r)
      <4>1. accounts' = Written(r)
        BY <3>1 DEF Commit
      <4>2. CASE request[r].kind = "change"
        <5>1. accounts' = {Changed(a, request[r]) : a \in accounts} /\ accounts \subseteq Account
          BY <1>0, <4>1, <4>2 DEF Written, Changed, AccountTypeOK
        <5>2. request[r].new \in Strong
          BY <1>0, <3>1, <4>2 DEF Commit, StepFollowsRequest, Changes
        <5>3. ASSUME NEW a \in accounts PROVE \E b \in accounts' : b.id = a.id
          <6>1. Changed(a, request[r]) \in accounts' /\ Changed(a, request[r]).id = a.id
            BY <5>1, <5>2, ChangedKeeps
          <6> QED
            BY <6>1
        <5> QED
          BY <5>3
      <4>3. CASE request[r].kind # "change"
        BY <4>1, <4>3 DEF Written
      <4> QED
        BY <4>2, <4>3
    <3>2. CASE ~Commit(r)
      BY <1>2, <3>2 DEF AccountStep, Begin, LookUp, Insert, Verify, Authorize, VerifyCurrent,
                        Update, Answer, CommitRaises
    <3> QED
      BY <3>1, <3>2
  <2>3. \A c \in Calls : request'[c] = request[c] /\ Known(c) => Known(c)'
    BY <2>2 DEF Known
  <2>4. ASSUME NEW c \in answered'
        PROVE  step'[c] = "commit" \/ Succeeded(c)' \/ raised'[c] = "OperationalError"
    <3>1. CASE c # r \/ c \notin answered
      BY <2>1, <2>4, <3>1, <1>0 DEF PromiseInv, Succeeded, AccountTypeOK
    <3>2. CASE c = r /\ c \in answered
      <4>1. step[r] \in {"commit", "ended"}
        BY <1>0, <3>2 DEF PromiseInv, Succeeded, StepFollowsRequest
      <4> QED
        BY <1>0, <1>2, <3>2, <4>1
           DEF AccountStep, AccountTypeOK, Succeeded, Begin, LookUp, Insert, Verify, Authorize,
               VerifyCurrent, Update, Answer, Commit, CommitRaises, Raise, Return, GoOn
    <3> QED
      BY <3>1, <3>2
  <2>5. ASSUME NEW c \in Calls, request'[c].kind \in {"identify", "change"}
        PROVE  Known(c)' \/ request'[c].id \in answered'
    <3>1. CASE request'[c] = request[c]
      BY <2>1, <2>3, <2>5, <3>1 DEF PromiseInv
    <3>2. CASE request'[c] # request[c]
      <4>1. c = r /\ Begin(r)
        BY <1>2, <2>1, <3>2 DEF AccountStep, LookUp, Insert, Verify, Authorize, VerifyCurrent,
                                Update, Answer, Commit, CommitRaises
      <4>2. PICK q \in Register \cup Own \cup Login \cup Identify \cup Change :
              /\ request' = [request EXCEPT ![r] = q]
              /\ q \in Identify \cup Change => q.id \in Subjects
        BY <4>1 DEF Begin, Register, Own, Login, Identify, Change
      <4>3. request'[c] = q
        BY <1>0, <4>1, <4>2 DEF AccountTypeOK
      <4>4. q \in Identify \cup Change
        BY <2>5, <4>2, <4>3 DEF Register, Own, Login
      <4>5. accounts' = accounts
        BY <4>1 DEF Begin
      <4> QED
        BY <2>1, <4>2, <4>3, <4>4, <4>5 DEF Subjects, Known
    <3> QED
      BY <3>1, <3>2
  <2>6. ASSUME NEW c \in Calls, raised'[c] = "NotFoundError" PROVE request'[c].id \in answered'
    <3>1. CASE raised[c] = "NotFoundError"
      <4>1. step[c] = "ended" /\ request[c].id \in answered
        BY <1>0, <3>1 DEF StepFollowsRequest, PromiseInv, UnknownMeansEarly
      <4>2. request'[c] = request[c]
        BY <1>2, <2>1, <4>1 DEF AccountStep, Begin, LookUp, Insert, Verify, Authorize, VerifyCurrent,
                                Update, Answer, Commit, CommitRaises
      <4> QED
        BY <2>1, <4>1, <4>2
    <3>2. CASE raised[c] # "NotFoundError"
      <4>1. c = r /\ Authorize(r)
        BY <1>0, <1>2, <2>1, <2>6, <3>2
           DEF AccountStep, AccountTypeOK, Begin, LookUp, Insert, Verify, VerifyCurrent, Update, Answer,
               Commit, CommitRaises, Raise, Return, GoOn
      <4>2. ~Known(r) /\ UNCHANGED <<request, answered>>
        BY <1>0, <2>6, <3>2, <4>1 DEF Authorize, Raise, Return, GoOn, AccountTypeOK
      <4>3. request[r].kind \in {"identify", "change"}
        BY <1>0, <4>1 DEF Authorize, StepFollowsRequest
      <4> QED
        BY <4>1, <4>2, <4>3 DEF PromiseInv
    <3> QED
      BY <3>1, <3>2
  <2> QED
    BY <2>4, <2>5, <2>6 DEF PromiseInv, UnknownMeansEarly
<1> QED
  BY <1>1, <1>2 DEF AccountNext

-----------------------------------------------------------------------------
(* Accounts: the theorems *)

LEMMA AccountInvariant == AccountSpec => []AccountInv
BY AccountInitInv, AccountStepInv, PTL DEF AccountSpec

LEMMA PromiseInvariant == AccountSpec => []PromiseInv
<1>1. AccountInit => PromiseInv
  BY DEF AccountInit, PromiseInv, UnknownMeansEarly, NoCall
<1> QED
  BY <1>1, AccountInvariant, PromiseStepInv, PTL DEF AccountSpec

\* What the invariant says of answers.
LEMMA AnswersFollow == AccountInv /\ PromiseInv => AnswersAreExplained
<1> SUFFICES ASSUME AccountInv, PromiseInv PROVE AnswersMatchAccounts /\ CollisionMeansRace
  BY DEF AnswersAreExplained, PromiseInv
<1>0. /\ AccountTypeOK
      /\ \A c \in Calls : StepFollowsRequest(c) /\ StepFollowsAccounts(c)
      /\ \A a \in accounts : RowInv(a) /\ (a.id # Seed => a.id \in Calls)
  BY DEF AccountInv, AccountTypeOK, Account
<1>1. ASSUME NEW c \in Calls, request[c].kind = "register"
      PROVE  Succeeded(c) <=> \E a \in accounts : a.id = c
  <2>1. Succeeded(c) => \E a \in accounts : a.id = c
    BY <1>0, <1>1 DEF StepFollowsAccounts
  <2>2. \A a \in accounts : a.id = c => Succeeded(c)
    BY <1>0, SeedAssumption DEF RowInv
  <2> QED
    BY <2>1, <2>2
<1>2. AnswersMatchAccounts
  BY <1>0, <1>1 DEF AnswersMatchAccounts, RowInv, Changes, PromiseInv
<1>3. ASSUME NEW c \in Calls, raised[c] = "IntegrityError"
      PROVE  \E a \in accounts : a.email = request[c].email /\ a.id \in Calls \ {c}
  <2>1. PICK a \in accounts : a.email = request[c].email /\ a.id # Seed
    BY <1>0, <1>3 DEF StepFollowsAccounts, With
  <2>2. a.id # c
    BY <1>0, <1>3, <2>1 DEF RowInv, Succeeded
  <2> QED
    BY <1>0, <2>1, <2>2
<1> QED
  BY <1>2, <1>3 DEF CollisionMeansRace

\* What it says of an owner that nobody registered: a call that succeeded with
\* its e-mail or its id would have met a password, or a row of its own.
LEMMA OwnerFollows == AccountInv => OwnerStaysLocked
<1> SUFFICES ASSUME AccountInv, NEW a \in accounts, a.id \in Calls, request[a.id].kind = "own"
             PROVE  /\ a.password = NoPassword
                    /\ \A c \in Calls : Succeeded(c) =>
                         /\ ~(request[c].kind \in {"register", "login"} /\ request[c].email = a.email)
                         /\ ~(request[c].kind = "change" /\ request[c].id = a.id)
  BY DEF OwnerStaysLocked
<1>0. /\ \A c \in Calls : StepFollowsRequest(c) /\ StepFollowsAccounts(c)
      /\ \A b \in accounts : RowInv(b)
      /\ IdsAreUnique /\ OneAccountPerEmail
  BY DEF AccountInv
<1>1. a.password = NoPassword
  BY <1>0, SeedAssumption DEF RowInv
<1>2. ASSUME NEW c \in Calls, Succeeded(c), request[c].kind = "login", request[c].email = a.email
      PROVE  FALSE
  BY <1>0, <1>1, <1>2 DEF StepFollowsAccounts, Opened, Changes, OneAccountPerEmail
<1>3. ASSUME NEW c \in Calls, Succeeded(c), request[c].kind = "register", request[c].email = a.email
      PROVE  FALSE
  <2>1. PICK b \in accounts : b.id = c
    BY <1>0, <1>3 DEF StepFollowsAccounts
  <2>2. b.email = a.email
    BY <1>0, <1>3, <2>1, SeedAssumption DEF RowInv
  <2> QED
    BY <1>0, <1>3, <2>1, <2>2 DEF OneAccountPerEmail
<1>4. ASSUME NEW c \in Calls, Succeeded(c), request[c].kind = "change", request[c].id = a.id
      PROVE  FALSE
  BY <1>0, <1>1, <1>4 DEF StepFollowsAccounts, Opened, Changes, IdsAreUnique
<1> QED
  BY <1>1, <1>2, <1>3, <1>4

\* Two registrations that both found the e-mail free never both create a row,
\* however many calls there are: the index makes the second one fail.
THEOREM EmailsAreUnique == AccountSpec => []OneAccountPerEmail
BY AccountInvariant, PTL DEF AccountInv

\* What callers of AuthService were told agrees with the stored rows and their
\* passwords.  A result that left before get_db() commits is belied by a failing
\* commit alone, only a lost race ends in an internal error, and only a token
\* handed out before the commit can name nobody.
THEOREM AnswersExplained == AccountSpec => []AnswersAreExplained
BY AccountInvariant, PromiseInvariant, AnswersFollow, PTL

\* The owner created for nobody in particular never gets a password.
THEOREM OwnerLocked == AccountSpec => []OwnerStaysLocked
BY AccountInvariant, OwnerFollows, PTL

-----------------------------------------------------------------------------
(* Experiment tracking: the invariant *)

Tracking == {"started", "logging", "logged"}

\* One training of a thread at a time.
OneAtATime ==
  \A t, u \in Trainings :
    ThreadOf[t] = ThreadOf[u] /\ phase[t] \notin {"new", "over"} /\ phase[u] \notin {"new", "over"} => t = u

\* The active run of a thread is one in progress, or was left behind by a fault.
ActiveRunIsAccounted ==
  \A t \in Trainings :
    activeRun[ThreadOf[t]] # NoRun =>
      LET u == activeRun[ThreadOf[t]] IN ThreadOf[u] = ThreadOf[t] /\ (phase[u] \in Tracking \/ u \in faults)

\* A training's run and its tracker.
TrackerInv(t) ==
  /\ phase[t] \in {"new", "set"} => runs[t].status = "absent"
  /\ phase[t] \in Tracking => activeRun[ThreadOf[t]] = t /\ runs[t].status = "running"
  /\ phase[t] \in {"new", "set"} \cup Tracking => t \notin faults
  /\ phase[t] = "logged" => t \in reported
  /\ phase[t] \in {"disabled", "idle", "over"} =>
       /\ runs[t].status = "running" => t \in faults
       /\ t \notin reported => t \in faults \/ activeRun[ThreadOf[t]] \in faults \ {t}
  /\ phase[t] = "set" /\ t \notin overtaken => experiment = WantedBy[t]

TrackingInv ==
  /\ TrackingTypeOK
  /\ OneAtATime /\ ActiveRunIsAccounted
  /\ \A t \in Trainings : TrackerInv(t)
  /\ RunsMixOnlyWhenOvertaken

-----------------------------------------------------------------------------
(* Experiment tracking: the steps *)

LEMMA TrackingInitInv == TrackingInit => TrackingInv
<1> SUFFICES ASSUME TrackingInit PROVE TrackingInv
  OBVIOUS
<1>1. /\ phase = [t \in Trainings |-> "new"] /\ activeRun = [h \in Threads |-> NoRun]
      /\ runs = [t \in Trainings |-> Absent] /\ experiment = NoExperiment
      /\ reported = {} /\ faults = {} /\ overtaken = {}
  BY DEF TrackingInit
<1>2. TrackingTypeOK
  <2>1. Absent \in [experiment : Experiments, status : {"absent", "running", "finished"}]
        /\ NoExperiment \in Experiments
    BY DEF Absent, Experiments
  <2> QED
    BY <1>1, <2>1 DEF TrackingTypeOK
<1>3. \A t \in Trainings : phase[t] = "new" /\ runs[t].status = "absent" /\ ThreadOf[t] \in Threads
  BY <1>1 DEF Absent, Threads
<1>4. OneAtATime /\ ActiveRunIsAccounted /\ RunsMixOnlyWhenOvertaken
  BY <1>1, <1>3 DEF OneAtATime, ActiveRunIsAccounted, RunsMixOnlyWhenOvertaken
<1>5. \A t \in Trainings : TrackerInv(t)
  BY <1>1, <1>3 DEF TrackerInv, Tracking
<1> QED
  BY <1>2, <1>4, <1>5 DEF TrackingInv

\* A step that moves one tracker, away from "new" or among the later phases,
\* keeps the threads' trainings apart.
LEMMA StillOneAtATime ==
  ASSUME TrackingInv, NEW t \in Trainings, NEW where, phase' = [phase EXCEPT ![t] = where],
         \/ phase[t] \notin {"new", "over"}
         \/ \A u \in Trainings : ThreadOf[u] = ThreadOf[t] => phase[u] \in {"new", "over"}
  PROVE  OneAtATime'
<1>1. \A u \in Trainings \ {t} : phase'[u] = phase[u]
  BY DEF TrackingInv, TrackingTypeOK
<1> QED
  BY <1>1 DEF TrackingInv, OneAtATime

\* Every step keeps the invariant.
LEMMA TrackingStepInv == TrackingInv /\ [TrackingNext]_trackingVars => TrackingInv'
<1> SUFFICES ASSUME TrackingInv, [TrackingNext]_trackingVars PROVE TrackingInv'
  OBVIOUS
<1>0. /\ TrackingTypeOK /\ OneAtATime /\ ActiveRunIsAccounted /\ RunsMixOnlyWhenOvertaken
      /\ \A t \in Trainings : TrackerInv(t)
      /\ \A t \in Trainings : ThreadOf[t] \in Threads /\ WantedBy[t] \in Experiments
  BY DEF TrackingInv, Threads, Experiments
<1>1. CASE UNCHANGED trackingVars
  <2>1. TrackingTypeOK' /\ OneAtATime' /\ ActiveRunIsAccounted' /\ RunsMixOnlyWhenOvertaken'
    BY <1>0, <1>1 DEF trackingVars, TrackingTypeOK, OneAtATime, ActiveRunIsAccounted, RunsMixOnlyWhenOvertaken
  <2>2. \A t \in Trainings : TrackerInv(t)'
    BY <1>0, <1>1 DEF trackingVars, TrackerInv
  <2> QED
    BY <2>1, <2>2 DEF TrackingInv
<1>2. ASSUME NEW t \in Trainings, SetExperiment(t) PROVE TrackingInv'
  <2>1. /\ phase[t] = "new" /\ UNCHANGED <<activeRun, runs, reported>>
        /\ \A u \in Trainings : ThreadOf[u] = ThreadOf[t] => phase[u] \in {"new", "over"}
    BY <1>2 DEF SetExperiment
  <2>2. PICK where \in {"set", "disabled"} :
          /\ phase' = [phase EXCEPT ![t] = where]
          /\ where = "set" => /\ experiment' = WantedBy[t] /\ UNCHANGED faults
                              /\ overtaken' = overtaken \cup {u \in Trainings : phase[u] = "set"}
          /\ where = "disabled" => faults' = faults \cup {t} /\ UNCHANGED <<experiment, overtaken>>
    BY <1>2 DEF SetExperiment, Reach, Fault
  <2>3. /\ phase'[t] = where /\ \A u \in Trainings \ {t} : phase'[u] = phase[u]
        /\ faults \subseteq faults' /\ \A u \in faults' : u \in faults \/ u = t
        /\ overtaken \subseteq overtaken'
        /\ where = "disabled" => t \in faults'
        /\ where = "set" => experiment' = WantedBy[t]
        /\ \A u \in Trainings \ {t} : phase[u] = "set" => u \in overtaken' \/ experiment' = experiment
        /\ where = "set" => t \notin faults'
    BY <1>0, <2>1, <2>2 DEF TrackingTypeOK, TrackerInv
  <2>4. TrackingTypeOK'
    BY <1>0, <2>1, <2>2 DEF TrackingTypeOK
  <2>5. OneAtATime'
    BY <2>1, <2>2, StillOneAtATime
  <2>6. ActiveRunIsAccounted'
    <3>1. phase[t] \notin Tracking
      BY <2>1 DEF Tracking
    <3> QED
      BY SMTT(40), <1>0, <2>1, <2>3, <3>1 DEF ActiveRunIsAccounted, TrackingTypeOK
  <2>7. RunsMixOnlyWhenOvertaken'
    BY <1>0, <2>1, <2>3 DEF RunsMixOnlyWhenOvertaken
  <2>8. ASSUME NEW u \in Trainings PROVE TrackerInv(u)'
    <3>1. CASE u = t
      <4>1. runs[t].status = "absent" /\ t \notin faults
        BY <1>0, <2>1 DEF TrackerInv
      <4>2. phase'[t] \notin Tracking /\ phase'[t] \in {"set", "disabled"}
        BY <2>2, <2>3 DEF Tracking
      <4> QED
        BY <2>1, <2>2, <2>3, <3>1, <4>1, <4>2 DEF TrackerInv, Tracking
    <3>2. CASE u # t
      BY <1>0, <2>1, <2>3, <3>2 DEF TrackerInv
    <3> QED
      BY <3>1, <3>2
  <2> QED
    BY <2>4, <2>5, <2>6, <2>7, <2>8 DEF TrackingInv
<1>3. ASSUME NEW t \in Trainings, StartRun(t) PROVE TrackingInv'
  <2>1. /\ phase[t] = "set" /\ UNCHANGED <<experiment, reported, overtaken>>
        /\ t \notin faults /\ runs[t].status = "absent"
        /\ t \notin overtaken => experiment = WantedBy[t]
    BY <1>0, <1>3 DEF StartRun, TrackerInv
  <2>a. \A u \in Trainings : ThreadOf[u] = ThreadOf[t] /\ phase[u] \in Tracking => FALSE
    BY <1>0, <2>1 DEF OneAtATime, Tracking
  <2>2. CASE /\ activeRun[ThreadOf[t]] = NoRun
             /\ activeRun' = [activeRun EXCEPT ![ThreadOf[t]] = t]
             /\ runs' = [runs EXCEPT ![t] = [experiment |-> experiment, status |-> "running"]]
             /\ Reach(t, "started") /\ UNCHANGED faults
    <3>1. phase' = [phase EXCEPT ![t] = "started"]
      BY <2>2 DEF Reach
    <3>2. /\ phase'[t] = "started" /\ \A u \in Trainings \ {t} : phase'[u] = phase[u] /\ runs'[u] = runs[u]
          /\ runs'[t].status = "running" /\ runs'[t].experiment = experiment
          /\ activeRun'[ThreadOf[t]] = t
          /\ \A u \in Trainings : ThreadOf[u] # ThreadOf[t] => activeRun'[ThreadOf[u]] = activeRun[ThreadOf[u]]
      BY <1>0, <2>2, <3>1 DEF TrackingTypeOK
    <3>3. TrackingTypeOK'
      BY <1>0, <2>1, <2>2, <3>1 DEF TrackingTypeOK
    <3>4. OneAtATime'
      BY <2>1, <3>1, StillOneAtATime
    <3>5. ActiveRunIsAccounted'
      BY <1>0, <2>1, <2>2, <3>2 DEF ActiveRunIsAccounted, Tracking, TrackingTypeOK
    <3>6. RunsMixOnlyWhenOvertaken'
      BY <1>0, <2>1, <3>2 DEF RunsMixOnlyWhenOvertaken
    <3>7. ASSUME NEW u \in Trainings PROVE TrackerInv(u)'
      <4>1. CASE u = t
        BY <2>1, <2>2, <3>2, <4>1 DEF TrackerInv, Tracking
      <4>2. CASE u # t /\ ThreadOf[u] # ThreadOf[t]
        BY <1>0, <2>1, <2>2, <3>2, <4>2 DEF TrackerInv
      <4>3. CASE u # t /\ ThreadOf[u] = ThreadOf[t]
        <5>1. phase[u] \notin Tracking
          BY <2>a, <4>3
        <5>2. activeRun[ThreadOf[u]] \notin faults
          BY <1>0, <2>2, <4>3, TrackingAssumption DEF TrackingTypeOK
        <5> QED
          BY <1>0, <2>1, <2>2, <3>2, <4>3, <5>1, <5>2 DEF TrackerInv
      <4> QED
        BY <4>1, <4>2, <4>3
    <3> QED
      BY <3>3, <3>4, <3>5, <3>6, <3>7 DEF TrackingInv
  <2>3. CASE /\ UNCHANGED <<activeRun, runs>> /\ Reach(t, "disabled")
             /\ \/ Fault(t)
                \/ activeRun[ThreadOf[t]] # NoRun /\ UNCHANGED faults
    <3>1. /\ phase' = [phase EXCEPT ![t] = "disabled"]
          /\ faults \subseteq faults' /\ \A u \in faults' : u \in faults \/ u = t
          /\ faults' \subseteq Trainings
      BY <1>0, <2>3 DEF Reach, Fault, TrackingTypeOK
    <3>2. phase'[t] = "disabled" /\ \A u \in Trainings \ {t} : phase'[u] = phase[u]
      BY <1>0, <3>1 DEF TrackingTypeOK
    <3>3. TrackingTypeOK'
      BY <1>0, <2>1, <2>3, <3>1 DEF TrackingTypeOK
    <3>4. OneAtATime'
      BY <2>1, <3>1, StillOneAtATime
    <3>5. ActiveRunIsAccounted'
      BY <1>0, <2>1, <2>3, <3>1, <3>2 DEF ActiveRunIsAccounted, Tracking, TrackingTypeOK
    <3>6. RunsMixOnlyWhenOvertaken'
      BY <1>0, <2>1, <2>3 DEF RunsMixOnlyWhenOvertaken
    <3>7. t \in faults' \/ activeRun[ThreadOf[t]] \in faults \ {t}
      <4>1. CASE Fault(t)
        BY <4>1 DEF Fault
      <4>2. CASE activeRun[ThreadOf[t]] # NoRun
        BY <1>0, <2>1, <2>a, <4>2 DEF ActiveRunIsAccounted, TrackingTypeOK
      <4> QED
        BY <2>3, <4>1, <4>2
    <3>8. ASSUME NEW u \in Trainings PROVE TrackerInv(u)'
      <4>1. CASE u = t
        BY <2>1, <2>3, <3>1, <3>2, <3>7, <4>1 DEF TrackerInv, Tracking
      <4>2. CASE u # t
        BY <1>0, <2>1, <2>3, <3>1, <3>2, <4>2 DEF TrackerInv
      <4> QED
        BY <4>1, <4>2
    <3> QED
      BY <3>3, <3>4, <3>5, <3>6, <3>8 DEF TrackingInv
  <2> QED
    BY <1>3, <2>2, <2>3 DEF StartRun
<1>4. ASSUME NEW t \in Trainings, FinishSetup(t) \/ LogResults(t) \/ LeaveDisabled(t) PROVE TrackingInv'
  <2>1. UNCHANGED <<experiment, activeRun, runs, overtaken>>
        /\ phase[t] \in {"started", "logging", "disabled", "idle"}
    BY <1>4 DEF FinishSetup, LogResults, LeaveDisabled
  <2>2. PICK where \in {"logging", "disabled", "logged", "idle", "over"} :
          /\ phase' = [phase EXCEPT ![t] = where]
          /\ where \in {"logging", "disabled"} => phase[t] = "started" /\ UNCHANGED reported
          /\ where = "logged" => phase[t] = "logging" /\ reported' = reported \cup {t}
          /\ where = "idle" => phase[t] = "disabled" /\ UNCHANGED reported
          /\ where = "over" => phase[t] = "idle" /\ UNCHANGED reported
          /\ where = "disabled" => faults' = faults \cup {t}
          /\ where # "disabled" => UNCHANGED faults
    BY <1>4 DEF FinishSetup, LogResults, LeaveDisabled, Reach, Fault
  <2>3. /\ phase'[t] = where /\ \A u \in Trainings \ {t} : phase'[u] = phase[u]
        /\ faults \subseteq faults' /\ \A u \in faults' : u \in faults \/ u = t
        /\ reported \subseteq reported' /\ \A u \in reported' : u \in reported \/ u = t
        /\ faults' \subseteq Trainings /\ reported' \subseteq Trainings
    BY <1>0, <2>2 DEF TrackingTypeOK
  <2>4. TrackingTypeOK'
    BY <1>0, <2>1, <2>2, <2>3 DEF TrackingTypeOK
  <2>5. OneAtATime'
    BY <2>1, <2>2, StillOneAtATime
  <2>6. ActiveRunIsAccounted'
    <3>1. phase[t] \in Tracking => phase'[t] \in Tracking \/ t \in faults'
      BY <2>2, <2>3 DEF Tracking
    <3> QED
      BY <1>0, <2>1, <2>3, <3>1 DEF ActiveRunIsAccounted, TrackingTypeOK
  <2>7. RunsMixOnlyWhenOvertaken'
    BY <1>0, <2>1 DEF RunsMixOnlyWhenOvertaken
  <2>8. ASSUME NEW u \in Trainings PROVE TrackerInv(u)'
    <3>1. CASE u = t
      BY <1>0, <2>1, <2>2, <2>3, <3>1 DEF TrackerInv, Tracking
    <3>2. CASE u # t
      BY <1>0, <2>1, <2>3, <3>2 DEF TrackerInv
    <3> QED
      BY <3>1, <3>2
  <2> QED
    BY <2>4, <2>5, <2>6, <2>7, <2>8 DEF TrackingInv
<1>5. ASSUME NEW t \in Trainings, EndRun(t) PROVE TrackingInv'
  <2>1. /\ phase[t] = "logged" /\ phase' = [phase EXCEPT ![t] = "over"]
        /\ activeRun' = [activeRun EXCEPT ![ThreadOf[t]] = NoRun]
        /\ \/ runs' = [runs EXCEPT ![t].status = "finished"] /\ UNCHANGED faults
           \/ faults' = faults \cup {t} /\ UNCHANGED runs
        /\ UNCHANGED <<experiment, reported, overtaken>>
    BY <1>5 DEF EndRun, Reach, Fault
  <2>2. /\ phase'[t] = "over" /\ \A u \in Trainings \ {t} : phase'[u] = phase[u] /\ runs'[u] = runs[u]
        /\ faults \subseteq faults' /\ \A u \in faults' : u \in faults \/ u = t
        /\ faults' \subseteq Trainings
        /\ runs'[t].status # "absent" => runs[t].status # "absent" \/ runs'[t].status = "finished"
        /\ runs'[t].experiment = runs[t].experiment
        /\ runs'[t].status = "running" => t \in faults'
        /\ activeRun'[ThreadOf[t]] = NoRun
        /\ \A u \in Trainings : ThreadOf[u] # ThreadOf[t] => activeRun'[ThreadOf[u]] = activeRun[ThreadOf[u]]
    BY <1>0, <2>1 DEF TrackingTypeOK
  <2>3. /\ t \notin faults /\ t \in reported /\ activeRun[ThreadOf[t]] = t
        /\ runs[t].status = "running"
    BY <1>0, <2>1 DEF TrackerInv, Tracking
  <2>4. TrackingTypeOK'
    BY <1>0, <2>1, <2>2 DEF TrackingTypeOK
  <2>5. OneAtATime'
    BY <2>1, StillOneAtATime
  <2>6. ActiveRunIsAccounted'
    BY <1>0, <2>1, <2>2, <2>3 DEF ActiveRunIsAccounted, TrackingTypeOK
  <2>7. RunsMixOnlyWhenOvertaken'
    BY <1>0, <2>1, <2>2, <2>3 DEF RunsMixOnlyWhenOvertaken
  <2>8. ASSUME NEW u \in Trainings PROVE TrackerInv(u)'
    <3>1. CASE u = t
      BY <1>0, <2>1, <2>2, <2>3, <3>1 DEF TrackerInv, Tracking
    <3>2. CASE u # t /\ ThreadOf[u] # ThreadOf[t]
      BY <1>0, <2>1, <2>2, <3>2 DEF TrackerInv
    <3>3. CASE u # t /\ ThreadOf[u] = ThreadOf[t]
      <4>1. activeRun[ThreadOf[u]] \notin faults /\ phase[u] \notin Tracking
        BY <1>0, <2>1, <2>3, <3>3 DEF OneAtATime, Tracking
      <4> QED
        BY <1>0, <2>1, <2>2, <3>3, <4>1 DEF TrackerInv
    <3> QED
      BY <3>1, <3>2, <3>3
  <2> QED
    BY <2>4, <2>5, <2>6, <2>7, <2>8 DEF TrackingInv
<1> QED
  BY <1>1, <1>2, <1>3, <1>4, <1>5 DEF TrackingNext

-----------------------------------------------------------------------------
(* Experiment tracking: the theorem *)

LEMMA TrackingInvariant == TrackingSpec => []TrackingInv
BY TrackingInitInv, TrackingStepInv, PTL DEF TrackingSpec

\* What the invariant says once trackers are over.
LEMMA TrackingFollows == TrackingInv => TrackedRunsAreOwn
BY DEF TrackingInv, TrackerInv, TrackedRunsAreOwn, LostRunsMeanFaults, RunsMixOnlyWhenOvertaken

\* However trainings share threads and the process-wide experiment, a run stays
\* open or a training untracked only through a fault of the server, and a run
\* is in another's experiment only if that one was set in between.
THEOREM RunsAreOwn == TrackingSpec => []TrackedRunsAreOwn
BY TrackingInvariant, TrackingFollows, PTL

-----------------------------------------------------------------------------
(* All services in one process *)

ServicesInv == ApiInv /\ AccountInv /\ TrainingInv /\ TrackingInv

LEMMA ServicesInitInv == ServicesInit => ServicesInv
BY ApiInitInv, AccountInitInv, TrainingInitInv, TrackingInitInv DEF ServicesInit, ServicesInv

\* A step of one service is a step of its component or leaves it alone.
LEMMA StepsOfComponents ==
  [ServicesNext]_servicesVars =>
    /\ [AccountNext]_accountVars
    /\ [TrainingNext]_trainingVars
    /\ [TrackingNext]_trackingVars
    /\ [LimiterNext]_limiterVars
    /\ [ApiNext]_apiVars \/ (LimiterNext /\ UNCHANGED <<stage, outcome, connections, audited, observed>>)
<1> SUFFICES ASSUME [ServicesNext]_servicesVars
             PROVE  /\ [AccountNext]_accountVars
                    /\ [TrainingNext]_trainingVars
                    /\ [TrackingNext]_trackingVars
                    /\ [LimiterNext]_limiterVars
                    /\ \/ [ApiNext]_apiVars
                       \/ LimiterNext /\ UNCHANGED <<stage, outcome, connections, audited, observed>>
  OBVIOUS
<1>1. CASE LimiterStep
  BY <1>1 DEF LimiterStep
<1>2. CASE RequestStep
  BY <1>2, LimiterMoves DEF RequestStep
<1>3. UNCHANGED apiVars => UNCHANGED limiterVars
  BY DEF apiVars
<1>4. CASE AccountsStep
  BY <1>3, <1>4 DEF AccountsStep
<1>5. CASE TrainingStep
  BY <1>3, <1>5 DEF TrainingStep
<1>6. CASE TrackingStep
  BY <1>3, <1>6 DEF TrackingStep
<1>7. CASE UNCHANGED servicesVars
  BY <1>3, <1>7 DEF servicesVars
<1> QED
  BY <1>1, <1>2, <1>4, <1>5, <1>6, <1>7 DEF ServicesNext

\* A limiter that serves nobody disturbs no request.
LEMMA LimiterAlone ==
  ASSUME ApiInv, LimiterNext, UNCHANGED <<stage, outcome, connections, audited, observed>>
  PROVE  ApiInv'
<1>1. LimiterInv'
  BY NextInv DEF ApiInv
<1>2. ApiTypes' /\ \A r \in Requests : AuditInv(r)' /\ PoolInv(r)'
  BY DEF ApiInv, ApiTypes, AuditInv, PoolInv
<1> QED
  BY <1>1, <1>2 DEF ApiInv

LEMMA ServicesStepInv == ServicesInv /\ [ServicesNext]_servicesVars => ServicesInv'
BY StepsOfComponents, LimiterAlone, ApiNextInv, AccountStepInv, TrainingStepInv, TrackingStepInv
   DEF ServicesInv

LEMMA ServicesInvariant == ServicesSpec => []ServicesInv
BY ServicesInitInv, ServicesStepInv, PTL DEF ServicesSpec

\* The API process runs its services as their modules say, each undisturbed by
\* the others, so that what is proved of one holds in the process.
THEOREM ServicesImplementComponents ==
  ServicesSpec => LimiterSpec /\ AccountSpec /\ TrainingApiSpec /\ TrackingSpec
<1>1. ServicesInit => LimiterInit /\ AccountInit /\ TrainingInit /\ TrackingInit
  BY DEF ServicesInit, ApiInit
<1> QED
  BY <1>1, StepsOfComponents, PTL
     DEF ServicesSpec, LimiterSpec, AccountSpec, TrainingApiSpec, TrackingSpec

\* Types of all services, and that a bundle is open for writing just as long as
\* a request dumps into it and a transaction flushed as long as it is to commit.
THEOREM ServicesTypesCorrect == ServicesSpec => []ServicesTypeOK
<1>1. ServicesInv => ApiTypeOK
  BY ApiInvTypes DEF ServicesInv
<1>2. ServicesInv => AccountTypeOK /\ TrainingTypeOK /\ TrackingTypeOK
  BY TrainingConsequences DEF ServicesInv, AccountInv, TrackingInv
<1> QED
  BY <1>1, <1>2, ServicesInvariant, PTL DEF ServicesTypeOK

=============================================================================
