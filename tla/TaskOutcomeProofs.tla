------------------------- MODULE TaskOutcomeProofs -------------------------
(***************************************************************************)
(* Proofs about what a job of TaskRecord leaves behind: its temporary      *)
(* files, the objects that no row names, the columns of its row, the       *)
(* result that they name, and the order of its statuses (JobContract).     *)
(***************************************************************************)
EXTENDS TaskRecordProofs

----------------------------------------------------------------------------
(***************************************************************************)
(* Temporary files.                                                        *)
(***************************************************************************)

LEMMA FilesStep ==
    ASSUME TypeOK, [Next]_vars, NEW j \in Jobs, left'[j] # left[j]
    PROVE  \E w \in Workers : cur[w] = j /\ (temp[w] = {"input"} \/ Die(w))
<1> USE DEF vars, uploadVars, recordVars, sessionVars, outputVars, taskVars
<1>1. ASSUME NEW i \in Jobs PROVE ~Upload(i)
  BY DEF Upload, StartUpload, FinishStoring, InsertJob, AbandonUpload
<1>2. ASSUME NEW w \in Workers, NEW i \in Jobs PROVE ~Receive(w, i)
  BY DEF Receive
<1>3. ~Watchdog
  BY DEF Watchdog, ExpireSelect, ExpireCommit, ExpireDies
<1>4. PICK w \in Workers : Task(w)
  BY <1>1, <1>2, <1>3 DEF Next
<1>5. Cleanup(w) \/ Die(w)
  BY <1>4 DEF Task, ReadJob, ClaimForProcessing, ClaimRefused, BeginFetch, FinishFetch,
       StartPipeline, FinishPipeline, BuildResult, BeginStore, FinishStore, InsertResult,
       InsertConflict, MarkSucceeded, CommitSuccess, EndTry, PipelineFails, WorkerFails,
       SoftLimit, HandlerFails, MarkFailed
<1>6. CASE Die(w)
  <2>1. cur[w] = j
    BY <1>6 DEF Die, Leave, TypeOK
  <2> QED  BY <1>6, <2>1
\* The finally block has no variable for the input before the download returns.
<1>7. CASE Cleanup(w)
  <2>1. cur[w] = j /\ temp[w] \ Named(w) # {}
    BY <1>7 DEF Cleanup, Leave, TypeOK
  <2>2. temp[w] = {"input"}
    BY <2>1 DEF Named, TypeOK
  <2> QED  BY <2>1, <2>2
<1> QED  BY <1>5, <1>6, <1>7

\* A temporary file outlives its task only if the process was killed or the soft limit
\* interrupted its cleanup, or the task ended while the input was being fetched.
THEOREM FilesAreRemoved == Spec => FilesLeftOnlyByFetchOrDeath
<1>1. TypeOK /\ [Next]_vars =>
        [\A j \in Jobs : left'[j] # left[j] =>
           \E w \in Workers : cur[w] = j /\ (temp[w] = {"input"} \/ Die(w))]_vars
  BY FilesStep
<1> QED
  BY <1>1, RecordTypeInvariant, PTL DEF Spec, FilesLeftOnlyByFetchOrDeath

----------------------------------------------------------------------------
(***************************************************************************)
(* Objects without a row, and the inductive invariant OrphanInv.           *)
(***************************************************************************)

\* A job that has not been claimed has no outputs, one that is held has those that its
\* worker has stored and the one being stored, and a SUCCEEDED job is not held.
ClaimedInv ==
    /\ \A j \in Jobs : row[j].status \in {"absent", "queued"} =>
         \A k \in Outputs : object[j][k] = "none"
    /\ \A w \in Workers : pc[w] \in Holding =>
         /\ row[cur[w]].status # "succeeded"
         /\ \A k \in Outputs :
              object[cur[w]][k] # "none" => k \in stored[w] \cup {writing[w]}

OrphanInv == RecordInv /\ ClaimedInv /\ SucceededLeavesNoOrphan


\* What a step of a task does to the outputs of jobs, besides TaskEffect.
OutputEffect(w) ==
    /\ \A j \in Jobs :
         /\ made[j] \subseteq made'[j]
         /\ row'[j].status = "succeeded" =>
              \/ row[j].status = "succeeded"
              \/ /\ j = cur[w] /\ pc[w] = "marked" /\ pc'[w] = "committed"
                 /\ stored[w] \subseteq made'[j]
    /\ pc[w] \in Holding /\ pc'[w] \in Holding =>
         \A k \in Outputs :
           /\ k \in stored[w] \cup {writing[w]} => k \in stored'[w] \cup {writing'[w]}
           /\ object'[cur[w]][k] # object[cur[w]][k] => k \in stored'[w] \cup {writing'[w]}

LEMMA NothingIsNoOutput == "nothing" \notin Outputs
BY ArtifactAssumption DEF Outputs, Optional

LEMMA OutputEffects ==
    ASSUME RecordInv, NEW w \in Workers, Task(w)
    PROVE  OutputEffect(w)
<1> USE DEF recordVars, sessionVars, outputVars, Goto, Leave
<1>1. TypeOK /\ StoredInv
  BY DEF RecordInv
<1>2. pc[w] # "idle" => cur[w] \in Jobs /\ Copy(w) \in Rows /\ row[cur[w]] \in Rows
  BY <1>1, CopyRow DEF TypeOK
<1>3. ASSUME row' = row, made' = made, object' = object, stored' = stored, writing' = writing
      PROVE  OutputEffect(w)
  BY <1>3 DEF OutputEffect
<1>4. CASE \/ ReadJob(w) \/ BeginFetch(w) \/ FinishFetch(w) \/ FinishPipeline(w)
           \/ BuildResult(w) \/ InsertResult(w) \/ MarkSucceeded(w) \/ EndTry(w)
  BY <1>3, <1>4 DEF ReadJob, BeginFetch, FinishFetch, FinishPipeline, BuildResult,
       InsertResult, MarkSucceeded, EndTry
<1>5. CASE ClaimForProcessing(w)
  <2>1. \A j \in Jobs : row'[j].status = "succeeded" => row[j].status = "succeeded"
    BY <1>1, <1>2, <1>5 DEF ClaimForProcessing, TypeOK, Rows
  <2>2. made' = made /\ pc[w] \notin Holding
    BY <1>5 DEF ClaimForProcessing, Holding
  <2> QED  BY <2>1, <2>2 DEF OutputEffect
<1>6. CASE ClaimRefused(w) \/ InsertConflict(w) \/ HandlerFails(w) \/ Cleanup(w) \/ Die(w)
  <2>1. row' = row /\ made' = made /\ pc'[w] \in {"leaving", "idle"}
    BY <1>1, <1>6 DEF ClaimRefused, InsertConflict, HandlerFails, Cleanup, Die, Rollback,
         TypeOK
  <2> QED  BY <2>1 DEF OutputEffect, Holding
\* A commit that does not set SUCCEEDED.
<1>7. ASSUME NEW new \in Rows, Commit(w, new), pc[w] # "idle", object' = object,
             \/ new.status \in {"failed", "timeout"} /\ pc'[w] = "leaving"
             \/ pc[w] = "fetched" /\ new.status = Copy(w).status /\ wrote[w] = {}
      PROVE  OutputEffect(w)
  <2> DEFINE all == wrote[w] \cup Differing(Copy(w), new)
  <2>1. /\ row' = [row EXCEPT ![cur[w]] = Updated(row[cur[w]], all, new)]
        /\ made' = [made EXCEPT ![cur[w]] = @ \cup FlushedRows(w)]
    BY <1>7 DEF Commit
  <2>2. new.status \in {"failed", "timeout"} \/ "status" \notin all
    BY <1>7 DEF Differing
  <2> HIDE DEF all
  <2>3. Updated(row[cur[w]], all, new).status = "succeeded" => row[cur[w]].status = "succeeded"
    BY <1>2, <1>7, <2>2, UpdatedRow
  <2>4. \A j \in Jobs : /\ made[j] \subseteq made'[j]
                        /\ row'[j].status = "succeeded" => row[j].status = "succeeded"
    BY <1>1, <1>2, <1>7, <2>1, <2>3 DEF TypeOK
  <2>5. pc[w] = "fetched" => stored[w] = {} /\ writing[w] = "nothing"
    BY <1>1 DEF StoredInv, RowLocked
  <2> QED  BY <1>7, <2>4, <2>5, NothingIsNoOutput DEF OutputEffect, Holding
<1>8. CASE StartPipeline(w)
  <2>1. /\ [Copy(w) EXCEPT !.progress = 20] \in Rows
        /\ [Copy(w) EXCEPT !.progress = 20].status = Copy(w).status
    BY <1>2, <1>8, ProgressRow DEF StartPipeline
  <2>2. wrote[w] = {}
    BY <1>8 DEF StartPipeline, RecordInv, SessionInv, RowLocked
  <2> QED  BY <1>7, <1>8, <2>1, <2>2 DEF StartPipeline
<1>9. ASSUME NEW s \in {"failed", "timeout"}, NEW e \in ErrorCodes,
             pc[w] # "idle", MarkFailed(w, s, e)
      PROVE  OutputEffect(w)
  <2>1. Failure(Copy(w), s, e) \in Rows /\ Failure(Copy(w), s, e).status = s
    BY <1>2, <1>9, CappedRow
  <2>2. pc'[w] = "leaving"
    BY <1>1, <1>9 DEF MarkFailed, TypeOK
  <2> QED  BY <1>7, <1>9, <2>1, <2>2 DEF MarkFailed
<1>10. CASE PipelineFails(w) \/ WorkerFails(w) \/ SoftLimit(w)
  BY <1>1, <1>9, <1>10, DeploymentAssumption
  DEF PipelineFails, WorkerFails, SoftLimit, PipelineErrors, ErrorCodes, Holding, TypeOK, Modes
<1>11. CASE CommitSuccess(w)
  <2>1. /\ pc[w] = "marked" /\ pc'[w] = "committed"
        /\ \A j \in Jobs : j # cur[w] => row'[j] = row[j] /\ made'[j] = made[j]
        /\ made'[cur[w]] = made[cur[w]] \cup stored[w]
    BY <1>1, <1>2, <1>11 DEF CommitSuccess, Commit, FlushedRows, TypeOK
  <2> QED  BY <2>1 DEF OutputEffect, Holding
<1>12. CASE BeginStore(w)
  <2>1. PICK k \in NextToStore(w) :
           writing' = [writing EXCEPT ![w] = k] /\ OpenObject(cur[w], k)
    BY <1>12 DEF BeginStore
  <2>2. /\ k \in Kinds /\ cur[w] \in Jobs /\ writing[w] = "nothing" /\ writing'[w] = k
        /\ row' = row /\ made' = made /\ stored' = stored
    BY <1>1, <1>2, <1>12, <2>1, KindsApart DEF BeginStore, NextToStore, TypeOK
  <2>3. \A x \in Kinds : object'[cur[w]][x] = object[cur[w]][x] \/ x = k
    BY <1>1, <2>1, <2>2, ObjectEffect
  <2> QED  BY <2>2, <2>3, NothingIsNoOutput, KindsApart DEF OutputEffect
<1>13. CASE FinishStore(w)
  <2>1. /\ writing[w] \in Kinds /\ cur[w] \in Jobs
        /\ row' = row /\ made' = made /\ FillObject(cur[w], writing[w])
        /\ stored'[w] = stored[w] \cup {writing[w]}
    BY <1>1, <1>2, <1>13, KindsApart DEF FinishStore, StoredNow, TypeOK
  <2>2. \A x \in Kinds : object'[cur[w]][x] = object[cur[w]][x] \/ x = writing[w]
    BY <1>1, <2>1, ObjectEffect
  <2> QED  BY <2>1, <2>2, KindsApart DEF OutputEffect
<1> QED
  BY <1>4, <1>5, <1>6, <1>8, <1>10, <1>11, <1>12, <1>13 DEF Task

LEMMA OrphanInit == Init => OrphanInv
<1> SUFFICES ASSUME Init PROVE OrphanInv  OBVIOUS
<1>1. \A w \in Workers : pc[w] \notin Holding
  BY DEF Init, Holding
<1>2. \A j \in Jobs, k \in Outputs : object[j][k] = "none"
  BY KindsApart DEF Init
<1>3. Inserted = {}
  BY DEF Init, Inserted
<1> QED
  BY <1>1, <1>2, <1>3, RecordInit DEF OrphanInv, ClaimedInv, SucceededLeavesNoOrphan

LEMMA OrphanTaskStep ==
    ASSUME OrphanInv, RecordInv', NEW w \in Workers, Task(w)
    PROVE  ClaimedInv' /\ SucceededLeavesNoOrphan'
<1>1. RecordInv /\ TypeOK /\ HoldInv /\ StoredInv /\ ClaimedInv /\ SucceededLeavesNoOrphan
  BY DEF OrphanInv, RecordInv
<1>2. TaskEffect(w) /\ WorkerEffect(w) /\ OutputEffect(w)
  BY <1>1, TaskEffects, OutputEffects
<1>3. cur[w] \in Inserted /\ cur[w] \in Jobs
  BY <1>1, <1>2 DEF HoldInv, WorkerEffect, Inserted
<1>4. \A j \in Jobs, k \in Outputs :
        object'[j][k] = object[j][k] \/ (j = cur[w] /\ pc[w] = "saving" /\ pc'[w] = "saving")
  BY <1>2, KindsApart DEF TaskEffect
<1>5. ASSUME NEW j \in Jobs, row'[j].status \in {"absent", "queued"}, NEW k \in Outputs
      PROVE  object'[j][k] = "none"
  <2>1. row[j].status \in {"absent", "queued"}
    BY <1>2, <1>5 DEF TaskEffect
  <2>2. object[j][k] = "none"
    BY <1>1, <2>1 DEF ClaimedInv
  <2>3. ~(j = cur[w] /\ pc[w] = "saving")
    BY <1>1, <2>1 DEF HoldInv, Holding
  <2> QED  BY <1>4, <2>2, <2>3
\* A job that has succeeded is not held any more.
<1>6. ASSUME NEW v \in Workers, pc'[v] \in Holding
      PROVE  row'[cur'[v]].status # "succeeded"
  <2>1. cur'[v] = cur[v] /\ cur[v] \in Jobs
    BY <1>1, <1>2, <1>3, <1>6 DEF TaskEffect, WorkerEffect, Holding, HoldInv, Inserted
  <2>2. ~(cur[v] = cur[w] /\ pc[w] = "marked" /\ pc'[w] = "committed")
    <3>1. CASE v = w
      BY <1>6, <3>1 DEF Holding
    <3>2. CASE v # w
      BY <1>1, <1>2, <1>6, <3>2 DEF TaskEffect, HoldInv, Holding
    <3> QED  BY <3>1, <3>2
  <2>3. row[cur[v]].status # "succeeded"
    <3>1. CASE pc[v] \in Holding
      BY <1>1, <3>1 DEF ClaimedInv
    <3>2. CASE pc[v] \notin Holding
      <4>1. v = w /\ row[cur[w]].status = "queued"
        BY <1>2, <1>6, <3>2 DEF TaskEffect, WorkerEffect
      <4> QED  BY <4>1
    <3> QED  BY <3>1, <3>2
  <2> QED  BY <1>2, <2>1, <2>2, <2>3 DEF OutputEffect
<1>7. ASSUME NEW v \in Workers, pc'[v] \in Holding, NEW k \in Outputs,
             object'[cur'[v]][k] # "none"
      PROVE  k \in stored'[v] \cup {writing'[v]}
  <2>1. cur'[v] = cur[v] /\ cur[v] \in Jobs
    BY <1>1, <1>2, <1>3, <1>7 DEF TaskEffect, WorkerEffect, Holding, HoldInv, Inserted
  <2>2. CASE v = w /\ pc[w] \in Holding
    BY <1>1, <1>2, <1>7, <2>1, <2>2 DEF ClaimedInv, OutputEffect
  <2>3. CASE v = w /\ pc[w] \notin Holding
    <3>1. row[cur[w]].status = "queued"
      BY <1>2, <1>7, <2>3 DEF WorkerEffect
    <3>2. object[cur[w]][k] = "none" /\ object'[cur[w]][k] = object[cur[w]][k]
      BY <1>1, <1>3, <1>4, <2>3, <3>1 DEF ClaimedInv, Holding
    <3> QED  BY <1>7, <2>1, <2>3, <3>2
  <2>4. CASE v # w
    <3>1. pc[v] \in Holding /\ stored'[v] = stored[v] /\ writing'[v] = writing[v]
      BY <1>2, <1>7, <2>4 DEF TaskEffect
    <3>2. ~(cur[v] = cur[w] /\ pc[w] = "saving")
      BY <1>1, <2>4, <3>1 DEF HoldInv, Holding
    <3>3. object'[cur[v]][k] = object[cur[v]][k]
      BY <1>4, <2>1, <3>2
    <3> QED  BY <1>1, <1>7, <2>1, <3>1, <3>3 DEF ClaimedInv
  <2> QED  BY <2>2, <2>3, <2>4
<1>8. ClaimedInv'
  BY <1>5, <1>6, <1>7 DEF ClaimedInv
<1>9. ASSUME NEW j \in Inserted', row'[j].status = "succeeded",
             NEW k \in Outputs, object'[j][k] # "none"
      PROVE  k \in made'[j]
  <2>1. j \in Jobs
    BY DEF Inserted
  <2>2. CASE row[j].status = "succeeded"
    <3>1. ~(j = cur[w] /\ pc[w] = "saving")
      BY <1>1, <2>2 DEF ClaimedInv, Holding
    <3>2. object'[j][k] = object[j][k] /\ made[j] \subseteq made'[j]
      BY <1>2, <1>4, <2>1, <3>1 DEF OutputEffect
    <3>3. j \in Inserted
      BY <2>1, <2>2, BlankRow DEF Inserted, NoRow
    <3> QED  BY <1>1, <1>9, <2>2, <3>2, <3>3 DEF SucceededLeavesNoOrphan
  <2>3. CASE row[j].status # "succeeded"
    <3>1. /\ j = cur[w] /\ pc[w] = "marked" /\ pc'[w] = "committed"
          /\ stored[w] \subseteq made'[j]
      BY <1>2, <1>9, <2>1, <2>3 DEF OutputEffect
    <3>2. object'[j][k] = object[j][k] /\ writing[w] = "nothing"
      BY <1>1, <1>4, <2>1, <3>1 DEF StoredInv
    <3>3. k \in stored[w]
      BY <1>1, <1>9, <3>1, <3>2, NothingIsNoOutput DEF ClaimedInv, Holding
    <3> QED  BY <3>1, <3>3
  <2> QED  BY <2>2, <2>3
<1> QED  BY <1>8, <1>9 DEF SucceededLeavesNoOrphan

\* What other steps do to a row: an upload inserts one, answered or not, and the watchdog
\* writes its three columns.
LEMMA UploadRow ==
    ASSUME RecordInv, NEW j \in Jobs, Upload(j)
    PROVE  /\ UNCHANGED <<deployment, made, pc, cur, copy, wrote, stored, writing, picked>>
           /\ \A i \in Jobs :
                \/ row'[i] = row[i]
                \/ /\ i = j /\ row[j] = NoRow
                   /\ \/ row'[j] = Blank("queued")
                      \/ \E r \in Jobs :
                           row'[j] = [Blank("succeeded") EXCEPT !.progress = 100, !.result = r]
           /\ \A i \in Jobs, k \in Outputs : object'[i][k] = object[i][k]
<1> USE DEF recordVars, uploadVars, sessionVars, outputVars, taskVars
<1>1. TypeOK /\ ImageInv
  BY DEF RecordInv
<1>2. UNCHANGED <<deployment, made, pc, cur, copy, wrote, stored, writing, picked>>
  BY DEF Upload, StartUpload, FinishStoring, InsertJob, AbandonUpload
<1>3. \A i \in Jobs, k \in Outputs : object'[i][k] = object[i][k]
  <2>1. object' = object \/ OpenObject(j, "image") \/ FillObject(j, "image")
    BY DEF Upload, StartUpload, FinishStoring, InsertJob, AbandonUpload
  <2> QED  BY <1>1, <2>1, ObjectEffect, KindsApart
<1>4. CASE InsertJob(j)
  <2>1. row[j] = NoRow
    BY <1>1, <1>4 DEF InsertJob, ImageInv, Inserted
  <2>2. \/ row' = [row EXCEPT ![j] = Blank("queued")]
        \/ \E r \in Jobs :
             row' = [row EXCEPT ![j] = [Blank("succeeded") EXCEPT !.progress = 100, !.result = r]]
    BY <1>4 DEF InsertJob, Results, Inserted
  <2> QED  BY <1>1, <1>2, <1>3, <2>1, <2>2 DEF TypeOK
<1>5. CASE ~InsertJob(j)
  BY <1>2, <1>3, <1>5 DEF Upload, StartUpload, FinishStoring, AbandonUpload
<1> QED  BY <1>4, <1>5

LEMMA WatchdogRow ==
    ASSUME RecordInv, Watchdog
    PROVE  /\ UNCHANGED <<deployment, made, object, pc, cur, copy, wrote, stored, writing>>
           /\ \A j \in Jobs : \/ row'[j] = row[j]
                              \/ j \in picked /\ row'[j] = TimedOut(row[j])
BY DEF Watchdog, ExpireSelect, ExpireCommit, ExpireDies, recordVars, uploadVars,
       sessionVars, outputVars, taskVars, RecordInv, TypeOK

LEMMA OrphanStep == OrphanInv /\ [Next]_vars => OrphanInv'
<1> SUFFICES ASSUME OrphanInv, [Next]_vars PROVE OrphanInv'
  OBVIOUS
<1>1. RecordInv /\ TypeOK /\ HoldInv /\ ClaimedInv /\ SucceededLeavesNoOrphan
  BY DEF OrphanInv, RecordInv
<1>2. RecordInv'
  BY <1>1, RecordStep
<1>3. NoRow.status = "absent"
  BY BlankRow DEF NoRow
<1>4. ASSUME NEW w \in Workers, Task(w) PROVE OrphanInv'
  BY <1>2, <1>4, OrphanTaskStep DEF OrphanInv
<1>5. ASSUME NEW j \in Jobs, Upload(j) PROVE OrphanInv'
  <2>1. /\ UNCHANGED <<made, pc, cur, stored, writing>>
        /\ \A i \in Jobs, k \in Outputs : object'[i][k] = object[i][k]
        /\ \A i \in Jobs \ {j} : row'[i] = row[i]
        /\ row'[j] = row[j] \/ (row[j] = NoRow /\ row'[j].status \in {"queued", "succeeded"})
    <3>1. Blank("queued").status = "queued"
      BY BlankRow
    <3>2. \A r : [Blank("succeeded") EXCEPT !.progress = 100, !.result = r].status = "succeeded"
      BY DEF Blank
    <3>3. /\ UNCHANGED <<made, pc, cur, stored, writing>>
          /\ \A i \in Jobs, k \in Outputs : object'[i][k] = object[i][k]
          /\ \A i \in Jobs :
                \/ row'[i] = row[i]
                \/ /\ i = j /\ row[j] = NoRow
                   /\ \/ row'[j] = Blank("queued")
                      \/ \E r \in Jobs :
                           row'[j] = [Blank("succeeded") EXCEPT !.progress = 100, !.result = r]
      BY <1>1, <1>5, UploadRow
    <3> QED  BY <3>1, <3>2, <3>3
  <2>2. \A w \in Workers : pc[w] \in Holding => cur[w] \in Jobs /\ row[cur[w]] # NoRow
    BY <1>1 DEF HoldInv, Holding, Inserted
  <2>3. row[j] = NoRow => \A k \in Outputs : object[j][k] = "none"
    BY <1>1, <1>3 DEF ClaimedInv
  <2>4. ClaimedInv'
    BY <1>1, <2>1, <2>2, <2>3 DEF ClaimedInv
  <2>5. SucceededLeavesNoOrphan'
    BY <1>1, <2>1, <2>3 DEF SucceededLeavesNoOrphan, Inserted
  <2> QED  BY <1>2, <2>4, <2>5 DEF OrphanInv
<1>6. ASSUME NEW w \in Workers, NEW j \in Jobs, Receive(w, j) PROVE OrphanInv'
  <2>1. /\ UNCHANGED <<row, made, object, stored, writing>>
        /\ pc'[w] = "received" /\ \A v \in Workers \ {w} : pc'[v] = pc[v] /\ cur'[v] = cur[v]
    BY <1>1, <1>6 DEF Receive, recordVars, outputVars, TypeOK
  <2>2. ClaimedInv'
    BY <1>1, <2>1 DEF ClaimedInv, Holding
  <2>3. SucceededLeavesNoOrphan'
    BY <1>1, <2>1 DEF SucceededLeavesNoOrphan, Inserted
  <2> QED  BY <1>2, <2>2, <2>3 DEF OrphanInv
<1>7. CASE Watchdog
  <2>1. /\ UNCHANGED <<made, object, pc, cur, stored, writing>>
        /\ \A j \in Jobs : row'[j] = row[j] \/ (j \in picked /\ row'[j].status = "timeout")
    BY <1>1, <1>7, WatchdogRow, TimedOutRow DEF TypeOK
  <2>2. \A w \in Workers : pc[w] \in Holding => cur[w] \in Jobs
    BY <1>1 DEF HoldInv, Holding, Inserted
  <2>3. ClaimedInv'
    BY <1>1, <2>1, <2>2 DEF ClaimedInv
  <2>4. \A j \in Inserted' : row'[j].status = "succeeded" => j \in Inserted /\ row'[j] = row[j]
    BY <2>1 DEF Inserted
  <2>5. SucceededLeavesNoOrphan'
    BY <1>1, <2>1, <2>4 DEF SucceededLeavesNoOrphan
  <2> QED  BY <1>2, <2>3, <2>5 DEF OrphanInv
<1>8. CASE UNCHANGED vars
  BY <1>1, <1>2, <1>8 DEF vars, OrphanInv, ClaimedInv, SucceededLeavesNoOrphan, Inserted
<1> QED  BY <1>4, <1>5, <1>6, <1>7, <1>8 DEF Next

\* Every object under the key of a SUCCEEDED job is one that its rows name: a second task
\* of the job, a failed write or a retry of the upload leaves none behind.
THEOREM NoOrphans == Spec => []SucceededLeavesNoOrphan
<1>1. OrphanInv => SucceededLeavesNoOrphan
  BY DEF OrphanInv
<1> QED  BY <1>1, OrphanInit, OrphanStep, PTL DEF Spec

----------------------------------------------------------------------------
(***************************************************************************)
(* The columns of a row, and the inductive invariant ColumnInv.            *)
(***************************************************************************)

\* What ColumnsAgree says of one row.
RowAgrees(r) ==
    /\ r.status \in {"queued", "processing"} =>
         r.error = "none" /\ ~r.finished /\ r.result = NoJob /\ r.progress <= 20
    /\ r.status = "failed" =>
         r.error \notin {"none", "PROCESSING_TIMEOUT"} /\ r.finished /\ r.progress <= 99
    /\ r.status = "timeout" => /\ r.error = "PROCESSING_TIMEOUT" /\ r.finished
                               /\ deployment.overtaking \/ r.progress <= 99
    /\ r.status = "succeeded" => r.progress = 100 /\ r.result # NoJob

\* What the holder of a job may find in its row: its own claim, or that the watchdog or
\* another task of the job, which could not read it, has ended it.
MayFind(r) ==
    /\ r.status \in {"processing", "timeout", "failed"}
    /\ r.result = NoJob /\ r.progress <= 90
    /\ r.status = "processing" => r.error = "none"
    /\ r.status = "timeout" => r.error = "PROCESSING_TIMEOUT"
    /\ r.status = "failed" => r.error = "INTERNAL_ERROR"
    /\ r.finished <=> r.status # "processing"

Reading == {"fetching", "fetched", "loaded", "saving", "inserted"}

\* A row that is held.  By default no job in the watchdog's hands is.
HeldColumns(w) ==
    pc[w] \in Holding =>
      /\ MayFind(row[cur[w]]) /\ row[cur[w]].progress <= 20
      /\ deployment.overtaking \/ cur[w] \notin picked

\* The copy of a holder is what he may have found, and what it says of an end the row
\* says too, though perhaps of another end.  What he flushes goes over the row.
SessionColumns(w) ==
    /\ pc[w] \notin Reading \cup {"read", "marked"} => copy[w] = Expired
    /\ pc[w] \in Reading =>
         /\ MayFind(copy[w])
         /\ copy[w].status # "processing" => row[cur[w]].status # "processing"
    /\ pc[w] \in {"fetching", "fetched", "loaded"} => copy[w].progress <= 20
    /\ pc[w] \in {"saving", "inserted"} => wrote[w] = {"progress"}
    /\ pc[w] = "marked" =>
         /\ copy[w] = Success(w)
         /\ {"status", "progress", "result"} \subseteq wrote[w]
         /\ "finished" \in wrote[w] \/ row[cur[w]].finished

\* By default a job that the watchdog has picked does not succeed any more.
PickedColumns ==
    \A j \in picked : deployment.overtaking \/ row[j].progress <= 99

ColumnInv == /\ RecordInv /\ ColumnsAgree /\ PickedColumns
             /\ \A w \in Workers : HeldColumns(w) /\ SessionColumns(w)

\* The columns that an UPDATE writes.
LEMMA DifferingColumns ==
    ASSUME NEW old, NEW new
    PROVE  /\ "status" \in Differing(old, new) <=> new.status # old.status
           /\ "progress" \in Differing(old, new) <=> new.progress # old.progress
           /\ "error" \in Differing(old, new) <=> new.error # old.error
           /\ "finished" \in Differing(old, new) <=> new.finished # old.finished
           /\ "result" \in Differing(old, new) <=> new.result # old.result
BY DEF Differing, Columns

\* The copy of a holder, of a task that has only read, and of one that has committed.
LEMMA CopyOf ==
    ASSUME ColumnInv, NEW w \in Workers, pc[w] # "idle"
    PROVE  /\ cur[w] \in Jobs /\ cur[w] \in Inserted /\ row[cur[w]] \in Rows
           /\ copy[w] \in Rows /\ RowAgrees(row[cur[w]])
           /\ pc[w] \in Reading \cup {"marked"} => Copy(w) = copy[w]
           /\ pc[w] \notin Reading \cup {"read", "marked"} => Copy(w) = row[cur[w]]
<1>1. cur[w] \in Jobs /\ cur[w] \in Inserted /\ row[cur[w]] \in Rows /\ copy[w] \in Rows
  BY DEF ColumnInv, RecordInv, TypeOK, HoldInv
<1>2. RowAgrees(row[cur[w]])
  BY <1>1 DEF ColumnInv, ColumnsAgree, RowAgrees
<1>3. Expired.status = "expired"
  BY BlankRow DEF Expired
<1>4. SessionColumns(w)
  BY DEF ColumnInv
<1>5. pc[w] \in Reading \cup {"marked"} => copy[w].status # "expired"
  BY <1>4 DEF SessionColumns, MayFind, Success
<1> QED  BY <1>1, <1>2, <1>3, <1>4, <1>5 DEF Copy, SessionColumns

----------------------------------------------------------------------------
\* What a task writes to its row agrees, also with what another holder of the job may
\* find there, and does not complete a row that the watchdog is about to end.
RowWritten(w) ==
    \A j \in Jobs :
      \/ row'[j] = row[j]
      \/ /\ j = cur[w] /\ RowAgrees(row'[j])
         /\ \A v \in Workers \ {w} : pc[v] \in Holding /\ cur[v] = j =>
              MayFind(row'[j]) /\ row'[j].progress <= 20 /\ row'[j].status # "processing"
         /\ deployment.overtaking \/ j \notin picked \/ row'[j].progress <= 99

ColumnEffect(w) ==
    deployment' = deployment /\ RowWritten(w) /\ HeldColumns(w)' /\ SessionColumns(w)'

LEMMA ColumnTaskStep ==
    ASSUME ColumnInv, RecordInv', NEW w \in Workers, TaskEffect(w), WorkerEffect(w),
           ColumnEffect(w)
    PROVE  ColumnInv'
<1> USE DEF ColumnInv
<1>1. TypeOK /\ HoldInv /\ deployment' = deployment /\ picked' = picked /\ picked \subseteq Jobs
  BY DEF RecordInv, TypeOK, TaskEffect, ColumnEffect
<1>2. Inserted' = Inserted
  <2>1. NoRow.status = "absent"  BY BlankRow DEF NoRow
  <2>2. cur[w] \in Inserted  BY <1>1 DEF HoldInv, WorkerEffect
  <2> QED  BY <2>1, <2>2 DEF Inserted, TaskEffect
<1>3. ColumnsAgree'
  <2> SUFFICES ASSUME NEW j \in Inserted PROVE RowAgrees(row'[j])
    BY <1>1, <1>2 DEF ColumnsAgree, RowAgrees
  <2>1. RowAgrees(row[j])
    BY DEF ColumnsAgree, RowAgrees
  <2> QED  BY <2>1 DEF ColumnEffect, RowWritten, Inserted
<1>4. PickedColumns'
  BY <1>1 DEF PickedColumns, ColumnEffect, RowWritten
<1>5. ASSUME NEW v \in Workers, v # w PROVE HeldColumns(v)' /\ SessionColumns(v)'
  <2>1. pc'[v] = pc[v] /\ cur'[v] = cur[v] /\ copy'[v] = copy[v] /\ wrote'[v] = wrote[v]
    BY <1>5 DEF TaskEffect
  <2>2. HeldColumns(v) /\ SessionColumns(v)
    OBVIOUS
  <2>3. CASE pc[v] \in Holding
    <3>1. cur[v] \in Jobs
      BY <1>1, <2>3 DEF HoldInv, Holding, Inserted
    <3>2. CASE row'[cur[v]] = row[cur[v]]
      BY <1>1, <2>1, <2>2, <3>2 DEF HeldColumns, SessionColumns, MayFind, Success
    <3>3. CASE row'[cur[v]] # row[cur[v]]
      <4>1. /\ MayFind(row'[cur[v]]) /\ row'[cur[v]].progress <= 20
            /\ row'[cur[v]].status # "processing"
        BY <1>5, <2>3, <3>1, <3>3 DEF ColumnEffect, RowWritten
      <4>2. HeldColumns(v)'
        BY <1>1, <2>1, <2>2, <4>1 DEF HeldColumns, MayFind
      <4>3. SessionColumns(v)'
        BY <1>1, <2>1, <2>2, <4>1 DEF SessionColumns, MayFind, Success
      <4> QED  BY <4>2, <4>3
    <3> QED  BY <3>2, <3>3
  <2>4. CASE pc[v] \notin Holding
    BY <2>1, <2>2, <2>4 DEF HeldColumns, SessionColumns, Reading, Holding
  <2> QED  BY <2>3, <2>4
<1>6. HeldColumns(w)' /\ SessionColumns(w)'
  BY DEF ColumnEffect
<1> QED  BY <1>3, <1>4, <1>5, <1>6

\* A failure, set on the copy that was seen and written over the row with what was flushed
\* before: what the copy says already is not written.
FailureOver(old, flushed, seen, s, e) ==
    Updated(old, flushed \cup Differing(seen, Failure(seen, s, e)), Failure(seen, s, e))

LEMMA FailureWritten ==
    ASSUME NEW a \in Rows, NEW c \in Rows, NEW cols, NEW s, NEW e
    PROVE  /\ FailureOver(a, cols, c, s, e).status =
                IF "status" \in cols \/ c.status # s THEN s ELSE a.status
           /\ FailureOver(a, cols, c, s, e).error =
                IF "error" \in cols \/ c.error # e THEN e ELSE a.error
           /\ "finished" \in cols \/ ~c.finished \/ a.finished =>
                FailureOver(a, cols, c, s, e).finished
           /\ FailureOver(a, cols, c, s, e).progress =
                IF "progress" \in cols \/ c.progress # Capped(c.progress)
                THEN Capped(c.progress) ELSE a.progress
           /\ FailureOver(a, cols, c, s, e).result \in {c.result, a.result}
<1> DEFINE new == Failure(c, s, e)
           all == cols \cup Differing(c, new)
           now == Updated(a, all, new)
<1>1. /\ new.status = s /\ new.error = e /\ new.finished = TRUE
      /\ new.progress = Capped(c.progress) /\ new.result = c.result
  BY DEF Failure, Rows
<1> HIDE DEF new
<1>2. /\ now.status = IF "status" \in all THEN new.status ELSE a.status
      /\ now.error = IF "error" \in all THEN new.error ELSE a.error
      /\ now.finished = IF "finished" \in all THEN new.finished ELSE a.finished
      /\ now.progress = IF "progress" \in all THEN new.progress ELSE a.progress
      /\ now.result = IF "result" \in all THEN new.result ELSE a.result
  BY DEF Updated, Columns
<1>3. /\ "status" \in all <=> "status" \in cols \/ new.status # c.status
      /\ "error" \in all <=> "error" \in cols \/ new.error # c.error
      /\ "finished" \in all <=> "finished" \in cols \/ new.finished # c.finished
      /\ "progress" \in all <=> "progress" \in cols \/ new.progress # c.progress
  BY DEF Differing, Columns
<1>4. FailureOver(a, cols, c, s, e) = now
  BY DEF FailureOver, new
<1> HIDE DEF all, now
<1> QED  BY <1>1, <1>2, <1>3, <1>4

\* What a handler writes.  It works on the row as it is, or on a copy whose task knows
\* of no other end of the job than a failure to read it or a timeout.
LEMMA HandlerColumns ==
    ASSUME ColumnInv, NEW w \in Workers, pc[w] \notin {"idle", "read", "leaving"},
           NEW s \in {"failed", "timeout"}, NEW e \in ErrorCodes,
           s = "timeout" <=> e = "PROCESSING_TIMEOUT",
           pc[w] \in Reading \/ pc[w] \notin Holding =>
             e \in {"INTERNAL_ERROR", "PROCESSING_TIMEOUT"},
           MarkFailed(w, s, e)
    PROVE  ColumnEffect(w)
<1> DEFINE j == cur[w]
           old == row[j]
           seen == Copy(w)
           flushed == wrote[w]
           now == row'[j]
<1>1. TypeOK /\ HoldInv /\ SessionInv /\ HeldColumns(w) /\ SessionColumns(w)
  BY DEF ColumnInv, RecordInv
<1>2. /\ j \in Jobs /\ old \in Rows /\ seen \in Rows /\ RowAgrees(old)
      /\ pc[w] \in Reading \cup {"marked"} => seen = copy[w]
      /\ pc[w] \notin Reading \cup {"read", "marked"} => seen = old
  BY CopyOf
<1>3. /\ now = FailureOver(old, flushed, seen, s, e)
      /\ \A i \in Jobs \ {j} : row'[i] = row[i]
      /\ pc'[w] = "leaving" /\ cur' = cur /\ copy'[w] = Expired /\ deployment' = deployment
  BY <1>1, <1>2 DEF MarkFailed, Commit, Goto, TypeOK, FailureOver
<1> HIDE DEF seen, old, now, flushed
<1>5. /\ now.status = IF "status" \in flushed \/ seen.status # s THEN s ELSE old.status
      /\ now.error = IF "error" \in flushed \/ seen.error # e THEN e ELSE old.error
      /\ "finished" \in flushed \/ ~seen.finished \/ old.finished => now.finished
      /\ now.progress = IF "progress" \in flushed \/ seen.progress # Capped(seen.progress)
                        THEN Capped(seen.progress) ELSE old.progress
      /\ now.result \in {seen.result, old.result}
  BY <1>2, <1>3, FailureWritten
<1>6. /\ old.progress \in {0, 5, 20, 90, 99, 100} /\ seen.progress \in {0, 5, 20, 90, 99, 100}
      /\ old.finished \in BOOLEAN /\ seen.finished \in BOOLEAN
  BY <1>2 DEF Rows
<1>7. /\ e # "none" /\ (e = "PROCESSING_TIMEOUT" <=> s = "timeout")
      /\ Capped(seen.progress) \in Nat /\ Capped(seen.progress) <= 99
      /\ seen.progress <= 90 => Capped(seen.progress) = seen.progress
  BY <1>6 DEF ErrorCodes, Capped
<1>8. pc[w] \in Holding => MayFind(old) /\ old.progress <= 20
  BY <1>1 DEF HeldColumns, j, old
\* It is enough that the row agrees and, if somebody else holds the job, that it still is
\* what he may find.
<1>9. SUFFICES /\ RowAgrees(now) /\ now.progress <= 99
               /\ \/ pc[w] \in Holding
                  \/ MayFind(old) /\ old.progress <= 20 =>
                       MayFind(now) /\ now.progress <= 20 /\ now.status # "processing"
  <2>1. ASSUME NEW v \in Workers \ {w}, pc[v] \in Holding, cur[v] = j
        PROVE  pc[w] \notin Holding /\ MayFind(old) /\ old.progress <= 20
    <3>1. pc[w] \notin Holding
      BY <1>1, <2>1 DEF HoldInv, j
    <3> QED  BY <2>1, <3>1 DEF ColumnInv, HeldColumns, old
  <2>2. RowWritten(w)
    BY <1>3, <1>9, <2>1 DEF RowWritten, now, j
  <2> QED  BY <1>3, <2>2 DEF ColumnEffect, HeldColumns, SessionColumns, Reading, Holding
\* The task works on the row: it becomes what the handler wants.
<1>10. CASE pc[w] \notin Reading \cup {"marked"}
  <2>1. seen = old /\ flushed = {}
    BY <1>1, <1>2, <1>10 DEF SessionInv, RowLocked, Reading, flushed
  <2>2. /\ now.status = s /\ now.error = e /\ now.finished
        /\ now.result = old.result
        /\ now.progress = Capped(old.progress)
    BY <1>5, <1>6, <2>1
  <2>3. RowAgrees(now) /\ now.progress <= 99
    BY <1>7, <2>1, <2>2 DEF RowAgrees
  <2>4. ASSUME pc[w] \notin Holding, MayFind(old), old.progress <= 20
        PROVE  MayFind(now) /\ now.progress <= 20 /\ now.status # "processing"
    <3>1. e = IF s = "timeout" THEN "PROCESSING_TIMEOUT" ELSE "INTERNAL_ERROR"
      BY <1>7, <2>4
    <3>2. now.progress <= 20 /\ now.progress <= 90
      BY <1>6, <1>7, <2>1, <2>2, <2>4
    <3> QED  BY <2>2, <2>4, <3>1, <3>2 DEF MayFind
  <2> QED  BY <2>3, <2>4
\* The task works on a copy.
<1>11. CASE pc[w] \in Reading
  <2>1. seen = copy[w] /\ pc[w] \in Holding /\ MayFind(old) /\ old.progress <= 20
    BY <1>2, <1>8, <1>11 DEF Reading, Holding
  <2>2. MayFind(seen) /\ (seen.status # "processing" => old.status # "processing")
    BY <1>1, <1>11, <2>1 DEF SessionColumns, old, j
  <2>3. "status" \notin flushed /\ "error" \notin flushed
    BY <1>1, <1>11 DEF SessionColumns, SessionInv, RowLocked, Reading, flushed
  <2>4. e = IF s = "timeout" THEN "PROCESSING_TIMEOUT" ELSE "INTERNAL_ERROR"
    BY <1>7, <1>11
  <2>5. now.progress <= 99
    BY <1>5, <1>6, <1>7, <2>1
  <2>6. now.finished
    BY <1>5, <1>6, <2>1, <2>2 DEF MayFind
  <2>7. \/ now.status = s /\ now.error = e
        \/ now.status = old.status /\ now.error = old.error /\ old.status # "processing"
    BY <1>5, <1>7, <2>2, <2>3, <2>4 DEF MayFind
  <2>8. RowAgrees(now)
    BY <1>7, <2>1, <2>4, <2>5, <2>6, <2>7 DEF RowAgrees, MayFind
  <2> QED  BY <2>1, <2>5, <2>8
\* It had marked the success: every column of that is written over.
<1>12. CASE pc[w] = "marked"
  <2>1. /\ seen.status = "succeeded" /\ seen.error = "none" /\ seen.progress = 100
        /\ "status" \in flushed /\ "progress" \in flushed
        /\ "finished" \in flushed \/ old.finished
    BY <1>1, <1>2, <1>12 DEF SessionColumns, Success, flushed, old, j
  <2>2. now.status = s /\ now.error = e /\ now.finished /\ now.progress <= 99
    BY <1>5, <1>6, <1>7, <2>1
  <2>3. RowAgrees(now)
    BY <1>7, <2>2 DEF RowAgrees
  <2> QED  BY <1>12, <2>2, <2>3 DEF Holding
<1> QED  BY <1>10, <1>11, <1>12

\* What a holder may find agrees, as long as it shows no more progress than the claim.
LEMMA FoundAgrees ==
    ASSUME NEW r \in Rows, MayFind(r), r.progress <= 20
    PROVE  RowAgrees(r) /\ r.progress <= 99
BY DEF MayFind, RowAgrees, Rows

LEMMA ColumnEffects ==
    ASSUME ColumnInv, NEW w \in Workers, Task(w)
    PROVE  ColumnEffect(w)
<1> USE DEF recordVars, sessionVars, Goto
<1>1. TypeOK /\ HoldInv /\ SessionInv /\ HeldColumns(w) /\ SessionColumns(w)
  BY DEF ColumnInv, RecordInv
<1>2. pc[w] # "idle" /\ WorkerEffect(w)
  BY TaskEffects DEF ColumnInv, WorkerEffect
<1>3. /\ cur[w] \in Jobs /\ row[cur[w]] \in Rows /\ copy[w] \in Rows /\ RowAgrees(row[cur[w]])
      /\ pc[w] \in Reading \cup {"marked"} => Copy(w) = copy[w]
      /\ pc[w] \notin Reading \cup {"read", "marked"} => Copy(w) = row[cur[w]]
  BY <1>2, CopyOf
\* Steps that end the transaction and the task's interest in the job.
<1>4. ASSUME row' = row, deployment' = deployment, copy'[w] = Expired,
             pc'[w] \notin Holding \cup {"read"}
      PROVE  ColumnEffect(w)
  BY <1>4 DEF ColumnEffect, RowWritten, HeldColumns, SessionColumns, Reading, Holding
<1>5. CASE ClaimRefused(w) \/ InsertConflict(w) \/ HandlerFails(w) \/ Cleanup(w) \/ Die(w)
  <2>1. row' = row /\ deployment' = deployment /\ copy'[w] = Expired
        /\ pc'[w] \in {"leaving", "idle"}
    BY <1>1, <1>5 DEF ClaimRefused, InsertConflict, HandlerFails, Cleanup, Die, Rollback,
                      Leave, TypeOK
  <2> QED  BY <1>4, <2>1 DEF Holding
<1>6. CASE EndTry(w)
  <2>1. row' = row /\ deployment' = deployment /\ copy' = copy /\ pc[w] = "committed"
        /\ pc'[w] = "leaving"
    BY <1>1, <1>6 DEF EndTry, TypeOK
  <2>2. copy[w] = Expired
    BY <1>1, <2>1 DEF SessionColumns, Reading
  <2> QED  BY <1>4, <2>1, <2>2 DEF Holding
<1>7. CASE ReadJob(w)
  <2>1. row' = row /\ deployment' = deployment /\ pc'[w] = "read"
    BY <1>1, <1>7 DEF ReadJob, TypeOK
  <2> QED
    BY <2>1 DEF ColumnEffect, RowWritten, HeldColumns, SessionColumns, Reading, Holding
\* Steps that hold the job, and leave its row as it is.
<1>8. ASSUME row' = row, deployment' = deployment, picked' = picked, cur' = cur,
             pc[w] \in Holding, SessionColumns(w)'
      PROVE  ColumnEffect(w)
  BY <1>1, <1>8 DEF ColumnEffect, RowWritten, HeldColumns, MayFind
<1>9. CASE BeginFetch(w) \/ FinishPipeline(w)
  <2>1. /\ row' = row /\ deployment' = deployment /\ picked' = picked /\ cur' = cur
        /\ pc[w] \in {"claimed", "running"} /\ pc'[w] \in {"fetching", "loaded"}
        /\ copy'[w] = Copy(w)
    BY <1>1, <1>9 DEF BeginFetch, FinishPipeline, TypeOK
  <2>2. copy'[w] = row[cur[w]] /\ MayFind(row[cur[w]]) /\ row[cur[w]].progress <= 20
    BY <1>1, <1>3, <2>1 DEF HeldColumns, Reading, Holding
  <2>3. SessionColumns(w)'
    BY <2>1, <2>2 DEF SessionColumns, Reading, MayFind
  <2> QED  BY <1>8, <2>1, <2>3 DEF Holding
<1>10. CASE FinishFetch(w)
  <2>1. /\ row' = row /\ deployment' = deployment /\ picked' = picked /\ cur' = cur
        /\ pc[w] = "fetching" /\ pc'[w] = "fetched" /\ copy' = copy
    BY <1>1, <1>10 DEF FinishFetch, TypeOK
  <2>2. SessionColumns(w)'
    BY <1>1, <2>1 DEF SessionColumns, Reading, MayFind
  <2> QED  BY <1>8, <2>1, <2>2 DEF Holding
<1>11. CASE BeginStore(w) \/ FinishStore(w) \/ InsertResult(w)
  <2>1. /\ row' = row /\ deployment' = deployment /\ picked' = picked /\ cur' = cur
        /\ pc[w] = "saving" /\ pc'[w] \in {"saving", "inserted"} /\ copy' = copy
        /\ wrote' = wrote
    BY <1>1, <1>11 DEF BeginStore, FinishStore, InsertResult, TypeOK
  <2>2. SessionColumns(w)'
    BY <1>1, <2>1 DEF SessionColumns, Reading, MayFind
  <2> QED  BY <1>8, <2>1, <2>2 DEF Holding
\* The heartbeat that only flushes, and the success that is marked.
<1>12. CASE BuildResult(w)
  <2>1. /\ row' = row /\ deployment' = deployment /\ picked' = picked /\ cur' = cur
        /\ pc[w] = "loaded" /\ pc'[w] = "saving"
        /\ copy'[w] = [copy[w] EXCEPT !.progress = 90]
        /\ wrote'[w] = wrote[w] \cup Differing(copy[w], copy'[w])
    BY <1>1, <1>3, <1>12 DEF BuildResult, Flush, TypeOK, Reading
  <2>2. /\ MayFind(copy[w]) /\ copy[w].progress <= 20
        /\ copy[w].status # "processing" => row[cur[w]].status # "processing"
    BY <1>1, <2>1 DEF SessionColumns, Reading
  <2>3. /\ copy'[w].progress = 90 /\ copy'[w].status = copy[w].status
        /\ copy'[w].error = copy[w].error /\ copy'[w].finished = copy[w].finished
        /\ copy'[w].result = copy[w].result
    BY <1>3, <2>1 DEF Rows
  <2>4. Differing(copy[w], copy'[w]) = {"progress"}
    BY <2>2, <2>3 DEF Differing, Columns
  <2>5. wrote'[w] = {"progress"}
    BY <1>1, <2>1, <2>4 DEF SessionInv, RowLocked
  <2>6. SessionColumns(w)'
    BY <2>1, <2>2, <2>3, <2>5 DEF SessionColumns, Reading, MayFind
  <2> QED  BY <1>8, <2>1, <2>6 DEF Holding
<1>13. CASE MarkSucceeded(w)
  <2>1. /\ row' = row /\ deployment' = deployment /\ picked' = picked /\ cur' = cur
        /\ pc[w] = "inserted" /\ pc'[w] = "marked" /\ copy'[w] = Success(w)
        /\ wrote'[w] = wrote[w] \cup Differing(copy[w], Success(w))
    BY <1>1, <1>3, <1>13 DEF MarkSucceeded, Flush, TypeOK, Reading
  <2>2. /\ MayFind(copy[w]) /\ wrote[w] = {"progress"} /\ MayFind(row[cur[w]])
        /\ copy[w].status # "processing" => row[cur[w]].status # "processing"
    BY <1>1, <2>1 DEF SessionColumns, HeldColumns, Reading, Holding
  <2>3. /\ Success(w).status = "succeeded" /\ Success(w).finished = TRUE
        /\ Success(w).result = cur[w]
    BY DEF Success
  <2>4. {"status", "progress", "result"} \subseteq wrote'[w]
    BY <1>3, <2>1, <2>2, <2>3, JobAssumption, DifferingColumns DEF MayFind
  <2>5. "finished" \in wrote'[w] \/ row[cur[w]].finished
    BY <1>3, <2>1, <2>2, <2>3, DifferingColumns DEF MayFind, Rows
  <2>6. Success(w)' = Success(w)
    BY <2>1 DEF Success
  <2>7. SessionColumns(w)'
    BY <2>1, <2>4, <2>5, <2>6 DEF SessionColumns, Reading
  <2> QED  BY <1>8, <2>1, <2>7 DEF Holding
\* Steps that write the row.
<1>14. CASE ClaimForProcessing(w)
  <2> DEFINE now == [row[cur[w]] EXCEPT !.status = "processing", !.progress = 5]
  <2>1. /\ row[cur[w]].status = "queued"
        /\ row' = [row EXCEPT ![cur[w]].status = "processing", ![cur[w]].progress = 5]
        /\ deployment' = deployment /\ picked' = picked /\ cur' = cur
        /\ pc[w] = "read" /\ pc'[w] = "claimed" /\ copy'[w] = Expired
    BY <1>1, <1>14 DEF ClaimForProcessing, Claimable, TypeOK
  <2>2. row'[cur[w]] = now /\ \A i \in Jobs \ {cur[w]} : row'[i] = row[i]
    BY <1>1, <1>3, <2>1 DEF TypeOK
  <2>3. /\ now.status = "processing" /\ now.progress = 5 /\ now.error = row[cur[w]].error
        /\ now.finished = row[cur[w]].finished /\ now.result = row[cur[w]].result
    BY <1>3 DEF Rows
  <2>4. now \in Rows
    BY <1>3 DEF Rows
  <2> HIDE DEF now
  <2>5. MayFind(now) /\ RowAgrees(now)
    BY <1>3, <2>1, <2>3 DEF RowAgrees, MayFind
  <2>6. \A v \in Workers \ {w} : ~(pc[v] \in Holding /\ cur[v] = cur[w])
    BY <1>1, <2>1 DEF HoldInv
  <2>7. cur[w] \notin picked
    BY <1>1, <2>1 DEF HoldInv
  <2>8. RowWritten(w)
    BY <2>2, <2>5, <2>6, <2>7 DEF RowWritten
  <2>9. HeldColumns(w)'
    <3>1. cur'[w] = cur[w] /\ picked' = picked /\ row'[cur[w]].progress <= 20
      BY <2>1, <2>2, <2>3
    <3> QED  BY <2>2, <2>5, <2>7, <3>1 DEF HeldColumns
  <2> QED
    BY <2>1, <2>8, <2>9 DEF ColumnEffect, SessionColumns, Reading
<1>15. CASE StartPipeline(w)
  <2> DEFINE old == row[cur[w]]
             new == [copy[w] EXCEPT !.progress = 20]
             now == Updated(old, wrote[w] \cup Differing(copy[w], new), new)
  <2>1. /\ row' = [row EXCEPT ![cur[w]] = now]
        /\ deployment' = deployment /\ picked' = picked /\ cur' = cur
        /\ pc[w] = "fetched" /\ pc'[w] = "running" /\ copy'[w] = Expired
    BY <1>1, <1>3, <1>15 DEF StartPipeline, Commit, TypeOK, Reading
  <2>2. row'[cur[w]] = now /\ \A i \in Jobs \ {cur[w]} : row'[i] = row[i]
    BY <1>1, <1>3, <2>1 DEF TypeOK
  <2>3. /\ now.status = old.status /\ now.error = old.error /\ now.finished = old.finished
        /\ now.result = old.result /\ now.progress \in {20, old.progress}
    <3>1. wrote[w] = {}
      BY <1>1, <2>1 DEF SessionInv, RowLocked
    <3>2. /\ new.status = copy[w].status /\ new.error = copy[w].error
          /\ new.finished = copy[w].finished /\ new.result = copy[w].result
          /\ new.progress = 20
      BY <1>3 DEF Rows
    <3> HIDE DEF new
    <3>3. Differing(copy[w], new) \subseteq {"progress"}
      BY <3>2 DEF Differing, Columns
    <3> QED  BY <3>1, <3>2, <3>3 DEF Updated, Columns
  <2>4. now \in Rows
    BY <1>1, <1>3, <2>1, <2>2, UpdatedRow DEF Rows
  <2> HIDE DEF now
  <2>5. MayFind(old) /\ old.progress <= 20
    BY <1>1, <2>1 DEF HeldColumns, Holding
  <2>6. MayFind(now) /\ now.progress <= 20
    BY <2>3, <2>5 DEF MayFind
  <2>7. RowAgrees(now) /\ now.progress <= 99
    BY <2>4, <2>6, FoundAgrees
  <2>8. \A v \in Workers \ {w} : ~(pc[v] \in Holding /\ cur[v] = cur[w])
    BY <1>1, <2>1 DEF HoldInv, Holding
  <2>9. RowWritten(w)
    BY <2>2, <2>7, <2>8 DEF RowWritten
  <2>10. HeldColumns(w)'
    BY <1>1, <2>1, <2>2, <2>6 DEF HeldColumns, MayFind, Holding
  <2> QED
    BY <2>1, <2>9, <2>10 DEF ColumnEffect, SessionColumns, Reading
<1>16. CASE CommitSuccess(w)
  <2> DEFINE old == row[cur[w]]
             now == Updated(old, wrote[w] \cup Differing(copy[w], copy[w]), copy[w])
  <2>1. /\ row' = [row EXCEPT ![cur[w]] = now]
        /\ deployment' = deployment /\ picked' = picked /\ cur' = cur
        /\ pc[w] = "marked" /\ pc'[w] = "committed" /\ copy'[w] = Expired
    BY <1>1, <1>3, <1>16 DEF CommitSuccess, Commit, TypeOK
  <2>2. row'[cur[w]] = now /\ \A i \in Jobs \ {cur[w]} : row'[i] = row[i]
    BY <1>1, <1>3, <2>1 DEF TypeOK
  <2>3. now.status = "succeeded" /\ now.progress = 100 /\ now.result = cur[w]
    <3>1. copy[w] = Success(w) /\ {"status", "progress", "result"} \subseteq wrote[w]
      BY <1>1, <2>1 DEF SessionColumns
    <3>2. /\ Success(w).status = "succeeded" /\ Success(w).progress = 100
          /\ Success(w).result = cur[w]
      BY DEF Success
    <3> QED  BY <3>1, <3>2 DEF Updated, Columns
  <2> HIDE DEF now
  <2>4. RowAgrees(now)
    BY <1>3, <2>3, JobAssumption DEF RowAgrees
  <2>5. deployment.overtaking \/ cur[w] \notin picked
    BY <1>1, <2>1 DEF HeldColumns, Holding
  <2>6. \A v \in Workers \ {w} : ~(pc[v] \in Holding /\ cur[v] = cur[w])
    BY <1>1, <2>1 DEF HoldInv, Holding
  <2> QED
    BY <2>1, <2>2, <2>4, <2>5, <2>6
    DEF ColumnEffect, RowWritten, HeldColumns, SessionColumns, Reading, Holding
<1>17. CASE PipelineFails(w) \/ WorkerFails(w) \/ SoftLimit(w)
  <2>1. CASE PipelineFails(w)
    <3>1. PICK e \in PipelineErrors : MarkFailed(w, "failed", e)
      BY <2>1 DEF PipelineFails
    <3>2. e \in ErrorCodes /\ e # "PROCESSING_TIMEOUT"
      <4>1. deployment.mode \in Modes
        BY <1>1, DeploymentAssumption DEF TypeOK
      <4> QED  BY <4>1, <3>1 DEF PipelineErrors, Modes, ErrorCodes
    <3>3. pc[w] = "running"
      BY <2>1 DEF PipelineFails
    <3> QED  BY <3>1, <3>2, <3>3, HandlerColumns DEF Reading, Holding
  <2>2. CASE WorkerFails(w)
    BY <2>2, HandlerColumns DEF WorkerFails, ErrorCodes
  <2>3. CASE SoftLimit(w)
    BY <2>3, HandlerColumns DEF SoftLimit, ErrorCodes, Holding
  <2> QED  BY <1>17, <2>1, <2>2, <2>3
<1> QED
  BY <1>5, <1>6, <1>7, <1>9, <1>10, <1>11, <1>12, <1>13, <1>14, <1>15, <1>16, <1>17 DEF Task

LEMMA ColumnInit == Init => ColumnInv
<1> SUFFICES ASSUME Init PROVE ColumnInv  OBVIOUS
<1>1. /\ Inserted = {} /\ picked = {}
      /\ \A w \in Workers : pc[w] = "idle" /\ copy[w] = Expired
  BY DEF Init, Inserted
<1>2. \A w \in Workers : HeldColumns(w) /\ SessionColumns(w)
  BY <1>1 DEF HeldColumns, SessionColumns, Reading, Holding
<1> QED  BY <1>1, <1>2, RecordInit DEF ColumnInv, ColumnsAgree, PickedColumns

\* A new row agrees.
LEMMA UploadAgrees ==
    ASSUME NEW r \in Jobs
    PROVE  /\ RowAgrees(Blank("queued"))
           /\ RowAgrees([Blank("succeeded") EXCEPT !.progress = 100, !.result = r])
BY JobAssumption DEF RowAgrees, Blank

\* Steps that change rows which nobody holds, and none of what a session has.
LEMMA ColumnOtherStep ==
    ASSUME ColumnInv, RecordInv', deployment' = deployment,
           UNCHANGED <<pc, cur, copy, wrote>>,
           \A j \in Inserted' : RowAgrees(row'[j]), PickedColumns',
           \A w \in Workers : pc[w] \in Holding =>
             /\ \/ row'[cur[w]] = row[cur[w]]
                \/ MayFind(row'[cur[w]]) /\ row'[cur[w]].progress <= 20
                   /\ row'[cur[w]].status # "processing"
             /\ deployment.overtaking \/ cur[w] \notin picked'
    PROVE  ColumnInv'
<1>1. ColumnsAgree'
  BY DEF ColumnsAgree, RowAgrees
<1>2. ASSUME NEW w \in Workers PROVE HeldColumns(w)' /\ SessionColumns(w)'
  <2>1. HeldColumns(w) /\ SessionColumns(w)
    BY DEF ColumnInv
  <2>2. HeldColumns(w)'
    BY <2>1 DEF HeldColumns, MayFind
  <2>3. pc[w] \in Reading \cup {"marked"} => pc[w] \in Holding
    BY DEF Reading, Holding
  <2>4. SessionColumns(w)'
    BY <2>1, <2>3 DEF SessionColumns, HeldColumns, MayFind, Success
  <2> QED  BY <2>2, <2>4
<1> QED  BY <1>1, <1>2 DEF ColumnInv

LEMMA ColumnStep == ColumnInv /\ [Next]_vars => ColumnInv'
<1> SUFFICES ASSUME ColumnInv, [Next]_vars PROVE ColumnInv'
  OBVIOUS
<1>1. RecordInv /\ TypeOK /\ HoldInv /\ ColumnsAgree /\ PickedColumns
  BY DEF ColumnInv, RecordInv
<1>2. RecordInv'
  BY <1>1, RecordStep
<1>3. \A j \in Inserted : RowAgrees(row[j])
  BY <1>1 DEF ColumnsAgree, RowAgrees
<1>4. ASSUME NEW w \in Workers, pc[w] \in Holding
      PROVE  /\ cur[w] \in Jobs /\ row[cur[w]] # NoRow /\ MayFind(row[cur[w]])
             /\ row[cur[w]].progress <= 20
             /\ deployment.overtaking \/ cur[w] \notin picked
  BY <1>1, <1>4 DEF ColumnInv, HeldColumns, HoldInv, Inserted, Holding
<1>5. ASSUME NEW w \in Workers, Task(w) PROVE ColumnInv'
  BY <1>1, <1>2, <1>5, ColumnEffects, TaskEffects, ColumnTaskStep
<1>6. ASSUME NEW j \in Jobs, Upload(j) PROVE ColumnInv'
  <2>1. /\ UNCHANGED <<deployment, pc, cur, copy, wrote, picked>>
        /\ \A i \in Jobs :
             \/ row'[i] = row[i]
             \/ /\ i = j /\ row[j] = NoRow
                /\ \/ row'[j] = Blank("queued")
                   \/ \E r \in Jobs :
                        row'[j] = [Blank("succeeded") EXCEPT !.progress = 100, !.result = r]
    BY <1>1, <1>6, UploadRow
  <2>2. \A i \in Inserted' : RowAgrees(row'[i])
    BY <1>3, <2>1, UploadAgrees DEF Inserted
  <2>3. NoRow.status = "absent"
    BY BlankRow DEF NoRow
  <2>4. \A i \in picked : row'[i] = row[i]
    <3>1. \A i \in picked : i \in Jobs /\ row[i].status # "absent"
      BY <1>1 DEF HoldInv, TypeOK
    <3> QED  BY <2>1, <2>3, <3>1
  <2>5. PickedColumns'
    BY <1>1, <2>1, <2>4 DEF PickedColumns
  <2> QED  BY <1>2, <1>4, <2>1, <2>2, <2>5, ColumnOtherStep
<1>7. ASSUME NEW w \in Workers, NEW j \in Jobs, Receive(w, j) PROVE ColumnInv'
  <2>1. /\ UNCHANGED <<deployment, row, copy, wrote, picked>> /\ pc[w] = "idle"
        /\ pc'[w] = "received" /\ \A v \in Workers \ {w} : pc'[v] = pc[v] /\ cur'[v] = cur[v]
    BY <1>1, <1>7 DEF Receive, recordVars, sessionVars, TypeOK
  <2>2. ColumnsAgree' /\ PickedColumns'
    BY <1>1, <2>1 DEF ColumnsAgree, PickedColumns, Inserted
  <2>3. ASSUME NEW v \in Workers PROVE HeldColumns(v)' /\ SessionColumns(v)'
    <3>1. HeldColumns(v) /\ SessionColumns(v)
      BY DEF ColumnInv
    <3>2. CASE v = w
      BY <2>1, <3>1, <3>2 DEF HeldColumns, SessionColumns, Reading, Holding
    <3>3. CASE v # w
      <4>1. /\ pc'[v] = pc[v] /\ cur'[v] = cur[v] /\ copy'[v] = copy[v]
            /\ wrote'[v] = wrote[v] /\ Success(v)' = Success(v)
        BY <2>1, <3>3 DEF Success
      <4>2. HeldColumns(v)'
        BY <2>1, <3>1, <4>1 DEF HeldColumns
      <4>3. SessionColumns(v)'
        BY <2>1, <3>1, <4>1 DEF SessionColumns
      <4> QED  BY <4>2, <4>3
    <3> QED  BY <3>2, <3>3
  <2> QED  BY <1>2, <2>2, <2>3 DEF ColumnInv
<1>8. CASE ExpireSelect
  <2>1. /\ UNCHANGED <<deployment, row, pc, cur, copy, wrote>>
        /\ picked' \subseteq Expirable
    BY <1>8 DEF ExpireSelect, recordVars, sessionVars, taskVars
  <2>2. PickedColumns'
    <3> SUFFICES ASSUME NEW j \in picked' PROVE row[j].progress <= 99
      BY <2>1 DEF PickedColumns
    <3>1. j \in Inserted /\ row[j] \in Rows /\ row[j].status = "processing"
      BY <1>1, <2>1 DEF Expirable, Inserted, TypeOK
    <3>2. row[j].progress <= 20 /\ row[j].progress \in Nat
      BY <1>3, <3>1 DEF RowAgrees, Rows
    <3> QED  BY <3>2
  <2>3. \A w \in Workers : pc[w] \in Holding => deployment.overtaking \/ cur[w] \notin picked'
    BY <2>1 DEF Expirable, Held
  <2>4. \A j \in Inserted' : RowAgrees(row'[j])
    BY <1>3, <2>1 DEF Inserted
  <2> QED  BY <1>2, <2>1, <2>2, <2>3, <2>4, ColumnOtherStep
<1>9. CASE ExpireCommit
  <2>1. /\ UNCHANGED <<deployment, pc, cur, copy, wrote>> /\ picked' = {}
        /\ \A j \in Jobs : row'[j] = IF j \in picked THEN TimedOut(row[j]) ELSE row[j]
    BY <1>9 DEF ExpireCommit, sessionVars, taskVars
  <2>2. ASSUME NEW j \in picked
        PROVE  /\ j \in Inserted /\ row[j] \in Rows
               /\ TimedOut(row[j]).status = "timeout" /\ TimedOut(row[j]).finished
               /\ TimedOut(row[j]).error = "PROCESSING_TIMEOUT"
               /\ TimedOut(row[j]).progress = row[j].progress
               /\ TimedOut(row[j]).result = row[j].result
    <3>1. row[j] \in Rows /\ j \in Jobs /\ row[j].status # "absent"
      BY <1>1, <2>2 DEF TypeOK, HoldInv
    <3>2. j \in Inserted
      BY <3>1, BlankRow DEF Inserted, NoRow
    <3> QED  BY <3>1, <3>2 DEF TimedOut, Rows
  <2>3. ASSUME NEW j \in Inserted' PROVE RowAgrees(row'[j])
    <3>1. j \in Jobs
      BY DEF Inserted
    <3>2. CASE j \in picked
      BY <1>1, <2>1, <2>2, <3>1, <3>2 DEF RowAgrees, PickedColumns
    <3>3. CASE j \notin picked
      BY <1>3, <2>1, <3>1, <3>3 DEF Inserted
    <3> QED  BY <3>2, <3>3
  <2>4. \A w \in Workers : pc[w] \in Holding =>
          \/ row'[cur[w]] = row[cur[w]]
          \/ MayFind(row'[cur[w]]) /\ row'[cur[w]].progress <= 20
             /\ row'[cur[w]].status # "processing"
    BY <1>4, <2>1, <2>2 DEF MayFind
  <2>5. PickedColumns'
    BY <2>1 DEF PickedColumns
  <2> QED  BY <1>2, <2>1, <2>3, <2>4, <2>5, ColumnOtherStep
<1>10. CASE ExpireDies
  <2>1. UNCHANGED <<deployment, row, pc, cur, copy, wrote>> /\ picked' = {}
    BY <1>10 DEF ExpireDies, recordVars, sessionVars, taskVars
  <2>2. \A j \in Inserted' : RowAgrees(row'[j])
    BY <1>3, <2>1 DEF Inserted
  <2> QED  BY <1>2, <2>1, <2>2, ColumnOtherStep DEF PickedColumns
<1>11. CASE UNCHANGED vars
  <2>1. UNCHANGED <<deployment, row, pc, cur, copy, wrote, picked>>
    BY <1>11 DEF vars
  <2>2. \A j \in Inserted' : RowAgrees(row'[j])
    BY <1>3, <2>1 DEF Inserted
  <2>3. PickedColumns'
    BY <1>1, <2>1 DEF PickedColumns
  <2> QED  BY <1>2, <1>4, <2>1, <2>2, <2>3, ColumnOtherStep
<1> QED  BY <1>5, <1>6, <1>7, <1>8, <1>9, <1>10, <1>11 DEF Next, Watchdog

\* Whatever the order in which the sessions of tasks, of their handlers and of the
\* watchdog write their columns of a row, the columns of the outcome agree.
THEOREM OutcomesAgree == Spec => []ColumnsAgree
<1>1. ColumnInv => ColumnsAgree
  BY DEF ColumnInv
<1> QED  BY <1>1, ColumnInit, ColumnStep, PTL DEF Spec

----------------------------------------------------------------------------
(***************************************************************************)
(* The result of a SUCCEEDED job, and the inductive invariant ResultInv.   *)
(***************************************************************************)

\* The JSON of a pipeline's output is to be stored, and has been before the success.
JsonStored(w) ==
    /\ pc[w] = "loaded" => "json" \in todo[w]
    /\ pc[w] = "saving" => "json" \in todo[w] \cup stored[w]
    /\ pc[w] \in {"inserted", "marked"} => "json" \in stored[w]

\* The job that a row names as its result has a result row.
ResultMade == \A j \in Jobs : row[j].result # NoJob => "json" \in made[row[j].result]

ResultInv == ColumnInv /\ ResultMade /\ \A w \in Workers : JsonStored(w)

SucceededCanBeRead ==
    \A j \in Inserted : row[j].status = "succeeded" =>
      object[row[j].result]["json"] = "whole"

\* The result that a task may write to its row is its own, in the commit of the result row.
ResultWritten(w) ==
    \A j \in Jobs : \/ row'[j].result \in {row[j].result, NoJob}
                    \/ row'[j].result = cur[w] /\ "json" \in made'[cur[w]]

LEMMA CommitResult ==
    ASSUME ResultInv, NEW w \in Workers, pc[w] \notin {"idle", "read"},
           NEW new \in Rows, Commit(w, new), new.result = Copy(w).result
    PROVE  ResultWritten(w)
<1> DEFINE all == wrote[w] \cup Differing(Copy(w), new)
           now == Updated(row[cur[w]], all, new)
<1>1. TypeOK /\ SessionColumns(w) /\ JsonStored(w)
  BY DEF ResultInv, ColumnInv, RecordInv
<1>2. /\ cur[w] \in Jobs /\ row[cur[w]] \in Rows
      /\ pc[w] \in Reading \cup {"marked"} => Copy(w) = copy[w]
      /\ pc[w] \notin Reading \cup {"read", "marked"} => Copy(w) = row[cur[w]]
  BY CopyOf DEF ResultInv
<1>3. /\ row' = [row EXCEPT ![cur[w]] = now]
      /\ made'[cur[w]] = made[cur[w]] \cup FlushedRows(w)
  BY <1>1, <1>2 DEF Commit, TypeOK
<1>4. now.result \in {row[cur[w]].result, new.result}
  BY DEF Updated, Columns
<1> HIDE DEF now
<1>5. row'[cur[w]] = now /\ \A j \in Jobs \ {cur[w]} : row'[j] = row[j]
  BY <1>1, <1>2, <1>3 DEF TypeOK
<1>6. CASE pc[w] = "marked"
  <2>1. new.result = cur[w]
    BY <1>1, <1>2, <1>6 DEF SessionColumns, Success
  <2>2. "json" \in made'[cur[w]]
    BY <1>1, <1>3, <1>6 DEF JsonStored, FlushedRows
  <2> QED  BY <1>4, <1>5, <2>1, <2>2 DEF ResultWritten
<1>7. CASE pc[w] # "marked"
  <2>1. new.result \in {row[cur[w]].result, NoJob}
    BY <1>1, <1>2, <1>7 DEF SessionColumns, MayFind
  <2> QED  BY <1>4, <1>5, <2>1 DEF ResultWritten
<1> QED  BY <1>6, <1>7

LEMMA ResultTaskStep ==
    ASSUME ResultInv, NEW w \in Workers, Task(w)
    PROVE  ResultWritten(w) /\ JsonStored(w)'
<1> USE DEF recordVars, sessionVars, outputVars, Goto, Leave
<1>1. TypeOK /\ StoredInv /\ ColumnInv /\ SessionColumns(w) /\ JsonStored(w)
  BY DEF ResultInv, ColumnInv, RecordInv
<1>2. pc[w] # "idle"
  BY <1>1, TaskEffects DEF ColumnInv, WorkerEffect
<1>3. /\ cur[w] \in Jobs /\ row[cur[w]] \in Rows /\ copy[w] \in Rows /\ Copy(w) \in Rows
      /\ pc[w] \in Reading \cup {"marked"} => Copy(w) = copy[w]
  BY <1>1, <1>2, CopyOf, CopyRow
<1>4. ASSUME row' = row PROVE ResultWritten(w)
  BY <1>4 DEF ResultWritten
<1>5. ASSUME pc'[w] \notin {"loaded", "saving", "inserted", "marked"} PROVE JsonStored(w)'
  BY <1>5 DEF JsonStored
<1>6. CASE ReadJob(w) \/ BeginFetch(w) \/ FinishFetch(w) \/ EndTry(w)
  BY <1>1, <1>4, <1>5, <1>6 DEF ReadJob, BeginFetch, FinishFetch, EndTry, TypeOK
<1>7. CASE ClaimRefused(w) \/ InsertConflict(w) \/ HandlerFails(w) \/ Cleanup(w) \/ Die(w)
  BY <1>1, <1>4, <1>5, <1>7
  DEF ClaimRefused, InsertConflict, HandlerFails, Cleanup, Die, Rollback, TypeOK
<1>8. CASE ClaimForProcessing(w)
  <2>1. \A j \in Jobs : row'[j].result = row[j].result
    BY <1>1, <1>3, <1>8 DEF ClaimForProcessing, TypeOK, Rows
  <2> QED  BY <1>1, <1>5, <1>8, <2>1 DEF ResultWritten, ClaimForProcessing, TypeOK
<1>9. CASE FinishPipeline(w)
  <2>1. row' = row /\ pc'[w] = "loaded" /\ "json" \in todo'[w]
    BY <1>1, <1>9 DEF FinishPipeline, TypeOK
  <2> QED  BY <1>4, <2>1 DEF JsonStored
<1>10. CASE BuildResult(w) \/ BeginStore(w)
  <2>1. /\ row' = row /\ todo' = todo /\ stored' = stored
        /\ pc[w] \in {"loaded", "saving"} /\ pc'[w] = "saving"
    BY <1>1, <1>10 DEF BuildResult, BeginStore, TypeOK
  <2> QED  BY <1>1, <1>4, <2>1 DEF JsonStored
<1>11. CASE FinishStore(w)
  <2>1. /\ row' = row /\ pc[w] = "saving" /\ pc'[w] = "saving"
        /\ todo'[w] = todo[w] \ {writing[w]} /\ stored'[w] = stored[w] \cup {writing[w]}
    BY <1>1, <1>11 DEF FinishStore, StoredNow, TypeOK
  <2> QED  BY <1>1, <1>4, <2>1 DEF JsonStored
<1>12. CASE InsertResult(w)
  <2>1. /\ row' = row /\ pc[w] = "saving" /\ pc'[w] = "inserted"
        /\ todo[w] = {} /\ stored' = stored
    BY <1>1, <1>12 DEF InsertResult, TypeOK
  <2> QED  BY <1>1, <1>4, <2>1 DEF JsonStored
<1>13. CASE MarkSucceeded(w)
  <2>1. row' = row /\ pc[w] = "inserted" /\ pc'[w] = "marked" /\ stored' = stored
    BY <1>1, <1>13 DEF MarkSucceeded, TypeOK
  <2> QED  BY <1>1, <1>4, <2>1 DEF JsonStored
<1>14. CASE StartPipeline(w)
  <2> DEFINE new == [Copy(w) EXCEPT !.progress = 20]
  <2>1. new \in Rows /\ new.result = Copy(w).result
    BY <1>3 DEF Rows
  <2>2. pc[w] = "fetched" /\ pc'[w] = "running" /\ Commit(w, new)
    BY <1>1, <1>14 DEF StartPipeline, TypeOK
  <2> HIDE DEF new
  <2> QED  BY <1>5, <2>1, <2>2, CommitResult
<1>15. CASE CommitSuccess(w)
  <2>1. pc[w] = "marked" /\ pc'[w] = "committed" /\ Commit(w, copy[w])
    BY <1>1, <1>15 DEF CommitSuccess, TypeOK
  <2> QED  BY <1>3, <1>5, <2>1, CommitResult
<1>16. ASSUME NEW s \in {"failed", "timeout"}, NEW e \in ErrorCodes, MarkFailed(w, s, e),
              pc[w] # "read"
       PROVE  ResultWritten(w) /\ JsonStored(w)'
  <2>1. Failure(Copy(w), s, e).result = Copy(w).result
    BY <1>3 DEF Failure, Rows
  <2>2. pc'[w] = "leaving" /\ Commit(w, Failure(Copy(w), s, e))
    BY <1>1, <1>16 DEF MarkFailed, TypeOK
  <2>3. Failure(Copy(w), s, e) \in Rows
    BY <1>3, CappedRow
  <2> QED  BY <1>2, <1>5, <1>16, <2>1, <2>2, <2>3, CommitResult
<1>17. CASE PipelineFails(w) \/ WorkerFails(w) \/ SoftLimit(w)
  <2>1. PipelineErrors \subseteq ErrorCodes
    BY <1>1, DeploymentAssumption DEF PipelineErrors, ErrorCodes, Modes, TypeOK
  <2>2. pc[w] # "read"
    BY <1>17 DEF PipelineFails, WorkerFails, SoftLimit, Holding
  <2>3. \E s \in {"failed", "timeout"}, e \in ErrorCodes : MarkFailed(w, s, e)
    BY <1>17, <2>1 DEF PipelineFails, WorkerFails, SoftLimit, ErrorCodes
  <2> QED  BY <1>16, <2>2, <2>3
<1> QED
  BY <1>6, <1>7, <1>8, <1>9, <1>10, <1>11, <1>12, <1>13, <1>14, <1>15, <1>17 DEF Task

LEMMA ResultStep == ResultInv /\ [Next]_vars => ResultInv'
<1> SUFFICES ASSUME ResultInv, [Next]_vars PROVE ResultInv'
  OBVIOUS
<1>1. RecordInv /\ TypeOK /\ ColumnInv /\ ColumnInv' /\ ResultMade
  BY ColumnStep DEF ResultInv, ColumnInv, RecordInv
<1>2. ASSUME NEW w \in Workers, Task(w) PROVE ResultInv'
  <2>1. ResultWritten(w) /\ JsonStored(w)'
    BY <1>2, ResultTaskStep
  <2>2. TaskEffect(w) /\ OutputEffect(w)
    BY <1>1, <1>2, TaskEffects, OutputEffects
  <2>3. \A j \in Jobs : made[j] \subseteq made'[j] /\ row[j] \in Rows
    BY <1>1, <2>2 DEF OutputEffect, TypeOK
  <2>4. ResultMade'
    BY <1>1, <2>1, <2>3 DEF ResultMade, ResultWritten, Rows
  <2>5. \A v \in Workers : JsonStored(v)'
    BY <2>1, <2>2 DEF ResultInv, TaskEffect, JsonStored
  <2> QED  BY <1>1, <2>4, <2>5 DEF ResultInv
<1>3. ASSUME made' = made, todo' = todo, stored' = stored,
             \A w \in Workers : pc'[w] = pc[w] \/ pc'[w] = "received",
             \A j \in Jobs : \/ row'[j].result \in {row[j].result, NoJob}
                             \/ "json" \in made[row'[j].result]
      PROVE  ResultInv'
  BY <1>1, <1>3 DEF ResultInv, ResultMade, JsonStored
<1>4. ASSUME NEW j \in Jobs, InsertJob(j) PROVE ResultInv'
  <2>1. made' = made /\ todo' = todo /\ stored' = stored /\ pc' = pc
    BY <1>4 DEF InsertJob, taskVars, outputVars
  <2>2. \E new : /\ row' = [row EXCEPT ![j] = new]
                 /\ \/ new = Blank("queued")
                    \/ \E r \in Jobs :
                         /\ "json" \in made[r]
                         /\ new = [Blank("succeeded") EXCEPT !.progress = 100, !.result = r]
    BY <1>4 DEF InsertJob, Results, Inserted
  <2>3. /\ Blank("queued").result = NoJob
        /\ \A r : [Blank("succeeded") EXCEPT !.progress = 100, !.result = r].result = r
    BY DEF Blank
  <2>4. PICK new : /\ row' = [row EXCEPT ![j] = new]
                   /\ new.result = NoJob \/ "json" \in made[new.result]
    BY <2>2, <2>3
  <2>5. row'[j] = new /\ \A i \in Jobs \ {j} : row'[i] = row[i]
    BY <1>1, <2>4 DEF TypeOK
  <2>6. \A i \in Jobs : \/ row'[i].result \in {row[i].result, NoJob}
                        \/ "json" \in made[row'[i].result]
    BY <2>4, <2>5
  <2> QED  BY <1>3, <2>1, <2>6
<1>5. ASSUME NEW j \in Jobs, Upload(j), ~InsertJob(j) PROVE ResultInv'
  <2>1. made' = made /\ todo' = todo /\ stored' = stored /\ pc' = pc /\ row' = row
    BY <1>5 DEF Upload, StartUpload, FinishStoring, AbandonUpload, recordVars, taskVars,
                outputVars
  <2> QED  BY <1>3, <2>1
<1>6. ASSUME NEW w \in Workers, NEW j \in Jobs, Receive(w, j) PROVE ResultInv'
  <2>1. /\ made' = made /\ todo' = todo /\ stored' = stored /\ row' = row
        /\ \A v \in Workers : pc'[v] = pc[v] \/ pc'[v] = "received"
    BY <1>1, <1>6 DEF Receive, recordVars, outputVars, TypeOK
  <2> QED  BY <1>3, <2>1
<1>7. CASE Watchdog
  <2>1. made' = made /\ todo' = todo /\ stored' = stored /\ pc' = pc
    BY <1>7 DEF Watchdog, ExpireSelect, ExpireCommit, ExpireDies, recordVars, taskVars,
                outputVars
  <2>2. \A j \in Jobs : row'[j] = row[j] \/ row'[j] = TimedOut(row[j])
    BY <1>1, <1>7, WatchdogRow
  <2>3. \A j \in Jobs : TimedOut(row[j]).result = row[j].result
    BY <1>1 DEF TimedOut, TypeOK, Rows
  <2> QED  BY <1>3, <2>1, <2>2, <2>3
<1>8. CASE UNCHANGED vars
  BY <1>3, <1>8 DEF vars
<1> QED  BY <1>2, <1>4, <1>5, <1>6, <1>7, <1>8 DEF Next

\* A SUCCEEDED job's result can be read: the job that its row names, itself or the one it
\* was answered from, has a result row, and the JSON that the row refers to is whole.
THEOREM ResultsCanBeRead == Spec => []SucceededCanBeRead
<1>1. Init => ResultInv
  <2> SUFFICES ASSUME Init PROVE ResultMade /\ \A w \in Workers : JsonStored(w)
    BY ColumnInit DEF ResultInv
  <2>1. NoRow.result = NoJob
    BY DEF NoRow, Blank
  <2> QED  BY <2>1 DEF Init, ResultMade, JsonStored
<1>2. ASSUME ResultInv PROVE SucceededCanBeRead
  <2>1. RecordInv /\ TypeOK /\ HoldInv /\ ColumnsAgree /\ RowsReferToWholeObjects /\ ResultMade
    BY <1>2 DEF ResultInv, ColumnInv, RecordInv
  <2> SUFFICES ASSUME NEW j \in Inserted, row[j].status = "succeeded"
               PROVE  object[row[j].result]["json"] = "whole"
    BY DEF SucceededCanBeRead
  <2>2. row[j].result \in Jobs /\ "json" \in made[row[j].result]
    BY <2>1 DEF ColumnsAgree, ResultMade, Inserted, TypeOK, Rows
  <2>3. row[row[j].result].status # "absent"
    BY <2>1, <2>2 DEF HoldInv
  <2>4. row[j].result \in Inserted
    BY <2>2, <2>3, BlankRow DEF Inserted, NoRow
  <2> QED  BY <2>1, <2>2, <2>4 DEF RowsReferToWholeObjects
<1> QED  BY <1>1, <1>2, ResultStep, PTL DEF Spec

----------------------------------------------------------------------------
(***************************************************************************)
(* The rows, written column by column, implement JobContract.              *)
(***************************************************************************)

Ended == {"succeeded", "failed", "timeout"}

PhaseOf(j) == CASE row[j].status = "absent" -> "none"
                [] row[j].status = "queued" -> "waiting"
                [] row[j].status = "processing" -> "running"
                [] OTHER -> "ended"

\* All jobs here are of one user.
Contract == INSTANCE JobContract WITH phase <- [j \in Jobs |-> PhaseOf(j)],
                                      Owner <- [j \in Jobs |-> "user"]

\* A step of a task claims a job that waits, ends it, or keeps its status.
StatusWritten(w) ==
    \A j \in Jobs :
      \/ row'[j].status = row[j].status
      \/ /\ j = cur[w] /\ row[j].status # "absent"
         /\ \/ row'[j].status \in Ended
            \/ row[j].status = "queued" /\ row'[j].status = "processing"

LEMMA CommitStatus ==
    ASSUME RecordInv, NEW w \in Workers, pc[w] # "idle", NEW new \in Rows, Commit(w, new),
           \/ new.status \in Ended
           \/ new.status = Copy(w).status /\ wrote[w] = {}
    PROVE  StatusWritten(w)
<1> DEFINE all == wrote[w] \cup Differing(Copy(w), new)
           now == Updated(row[cur[w]], all, new)
<1>1. /\ cur[w] \in Jobs /\ row[cur[w]] \in Rows /\ row[cur[w]].status # "absent"
      /\ row \in [Jobs -> Rows]
  BY DEF RecordInv, TypeOK, HoldInv, ImageInv
<1>2. row' = [row EXCEPT ![cur[w]] = now]
  BY DEF Commit
<1>3. /\ now.status \in {row[cur[w]].status, new.status}
      /\ "status" \notin all => now.status = row[cur[w]].status
  BY <1>1, UpdatedRow
<1>4. new.status \in Ended \/ "status" \notin all
  BY DEF Differing
<1> HIDE DEF all, now
<1>5. row'[cur[w]] = now /\ \A j \in Jobs \ {cur[w]} : row'[j] = row[j]
  BY <1>1, <1>2
<1> QED  BY <1>1, <1>3, <1>4, <1>5 DEF StatusWritten

LEMMA StatusTaskStep ==
    ASSUME RecordInv, NEW w \in Workers, Task(w)
    PROVE  StatusWritten(w)
<1> USE DEF recordVars
<1>1. TypeOK /\ HoldInv /\ ImageInv /\ SessionInv
  BY DEF RecordInv
<1>2. pc[w] # "idle"
  BY TaskEffects DEF WorkerEffect
<1>3. Copy(w) \in Rows /\ cur[w] \in Jobs /\ copy[w] \in Rows
  BY <1>1, <1>2, CopyRow DEF TypeOK
<1>4. ASSUME row' = row PROVE StatusWritten(w)
  BY <1>4 DEF StatusWritten
<1>5. CASE ReadJob(w) \/ BeginFetch(w) \/ FinishFetch(w) \/ EndTry(w) \/ ClaimRefused(w)
           \/ FinishPipeline(w) \/ BuildResult(w) \/ BeginStore(w) \/ FinishStore(w)
           \/ InsertResult(w) \/ InsertConflict(w) \/ MarkSucceeded(w) \/ HandlerFails(w)
           \/ Cleanup(w) \/ Die(w)
  BY <1>4, <1>5
  DEF ReadJob, BeginFetch, FinishFetch, EndTry, ClaimRefused, FinishPipeline, BuildResult,
      BeginStore, FinishStore, InsertResult, InsertConflict, MarkSucceeded, HandlerFails,
      Cleanup, Die, Rollback
<1>6. CASE ClaimForProcessing(w)
  <2>1. /\ row[cur[w]].status = "queued" /\ row'[cur[w]].status = "processing"
        /\ \A j \in Jobs \ {cur[w]} : row'[j] = row[j]
    BY <1>1, <1>3, <1>6 DEF ClaimForProcessing, Claimable, TypeOK, Rows
  <2> QED  BY <2>1 DEF StatusWritten
<1>7. CASE StartPipeline(w)
  <2> DEFINE new == [Copy(w) EXCEPT !.progress = 20]
  <2>1. new \in Rows /\ new.status = Copy(w).status
    BY <1>3 DEF Rows
  <2>2. wrote[w] = {} /\ Commit(w, new)
    BY <1>1, <1>7 DEF StartPipeline, SessionInv, RowLocked
  <2> HIDE DEF new
  <2> QED  BY <1>2, <2>1, <2>2, CommitStatus
<1>8. CASE CommitSuccess(w)
  <2>1. Commit(w, copy[w]) /\ copy[w].status = "succeeded"
    BY <1>1, <1>8 DEF CommitSuccess, SessionInv
  <2> QED  BY <1>2, <1>3, <2>1, CommitStatus DEF Ended
<1>9. ASSUME NEW s \in {"failed", "timeout"}, NEW e \in ErrorCodes, MarkFailed(w, s, e)
      PROVE  StatusWritten(w)
  <2>1. Failure(Copy(w), s, e) \in Rows /\ Failure(Copy(w), s, e).status \in Ended
    BY <1>3, CappedRow DEF Ended
  <2> QED  BY <1>2, <1>9, <2>1, CommitStatus DEF MarkFailed
<1>10. CASE PipelineFails(w) \/ WorkerFails(w) \/ SoftLimit(w)
  <2>1. PipelineErrors \subseteq ErrorCodes
    BY <1>1, DeploymentAssumption DEF PipelineErrors, ErrorCodes, Modes, TypeOK
  <2>2. \E s \in {"failed", "timeout"}, e \in ErrorCodes : MarkFailed(w, s, e)
    BY <1>10, <2>1 DEF PipelineFails, WorkerFails, SoftLimit, ErrorCodes
  <2> QED  BY <1>9, <2>2
<1> QED  BY <1>5, <1>6, <1>7, <1>8, <1>10 DEF Task

LEMMA SamePhases ==
    ASSUME \A j \in Jobs : row'[j].status = row[j].status
    PROVE  UNCHANGED [j \in Jobs |-> PhaseOf(j)]
BY DEF PhaseOf

\* A step that ends the jobs of S.
LEMMA EndingStep ==
    ASSUME NEW S \in SUBSET Jobs,
           \A j \in S : row[j].status # "absent" /\ row'[j].status \in Ended,
           \A j \in Jobs \ S : row'[j].status = row[j].status
    PROVE  Contract!Next
<1> DEFINE p == [j \in Jobs |-> PhaseOf(j)]
<1>1. \A j \in S : PhaseOf(j) # "none" /\ PhaseOf(j)' = "ended"
  BY DEF PhaseOf, Ended
<1>2. \A j \in Jobs \ S : PhaseOf(j)' = PhaseOf(j)
  BY DEF PhaseOf
<1>3. p' = [j \in Jobs |-> IF j \in S THEN "ended" ELSE p[j]]
  BY <1>1, <1>2
<1> QED  BY <1>1, <1>3 DEF Contract!Next, Contract!End

\* A step that changes the phase of one job.
LEMMA MovingStep ==
    ASSUME NEW j \in Jobs, NEW q, PhaseOf(j)' = q,
           \A i \in Jobs \ {j} : row'[i].status = row[i].status
    PROVE  Contract!MoveTo(j, q)
<1>1. \A i \in Jobs \ {j} : PhaseOf(i)' = PhaseOf(i)
  BY DEF PhaseOf
<1> QED  BY <1>1 DEF Contract!MoveTo

LEMMA ContractStep ==
    ASSUME RecordInv, [Next]_vars
    PROVE  Contract!Next \/ UNCHANGED [j \in Jobs |-> PhaseOf(j)]
<1> DEFINE Done == Contract!Next \/ UNCHANGED [j \in Jobs |-> PhaseOf(j)]
<1>1. TypeOK /\ HoldInv /\ ImageInv
  BY DEF RecordInv
<1>2. (\A j \in Jobs : row'[j].status = row[j].status) => Done
  BY SamePhases
<1>3. NoRow.status = "absent" /\ Blank("queued").status = "queued"
  BY BlankRow DEF NoRow
<1>4. ASSUME NEW w \in Workers, Task(w) PROVE Done
  <2>1. StatusWritten(w)
    BY <1>4, StatusTaskStep
  <2>2. cur[w] \in Jobs
    BY <1>1, <1>4, TaskEffects DEF WorkerEffect, HoldInv, Inserted
  <2>3. \A j \in Jobs \ {cur[w]} : row'[j].status = row[j].status
    BY <2>1 DEF StatusWritten
  <2> HIDE DEF Done
  <2>4. CASE row'[cur[w]].status = row[cur[w]].status
    BY <1>2, <2>3, <2>4
  <2>5. CASE row[cur[w]].status # "absent" /\ row'[cur[w]].status \in Ended
    <3>1. {cur[w]} \in SUBSET Jobs
      BY <2>2
    <3>2. \A j \in {cur[w]} : row[j].status # "absent" /\ row'[j].status \in Ended
      BY <2>5
    <3>3. Contract!Next
      BY <2>3, <3>1, <3>2, EndingStep
    <3> QED  BY <3>3 DEF Done
  <2>6. CASE row[cur[w]].status = "queued" /\ row'[cur[w]].status = "processing"
    <3>1. PICK j \in Jobs : j = cur[w]
      BY <2>2
    <3>2. PhaseOf(j) = "waiting" /\ PhaseOf(j)' = "running"
      BY <2>6, <3>1 DEF PhaseOf
    <3>3. Contract!MoveTo(j, "running")
      BY <2>3, <3>1, <3>2, MovingStep
    <3>4. Contract!Next
      BY <3>2, <3>3 DEF Contract!Next, Contract!Begin
    <3> QED  BY <3>4 DEF Done
  <2> QED  BY <2>1, <2>2, <2>4, <2>5, <2>6 DEF StatusWritten
<1>5. ASSUME NEW j \in Jobs, InsertJob(j) PROVE Done
  <2>1. row[j] = NoRow
    BY <1>1, <1>5 DEF InsertJob, ImageInv, Inserted
  <2>2. \E new : /\ row' = [row EXCEPT ![j] = new]
                 /\ new.status \in {"queued", "succeeded"}
    <3>1. \A r : [Blank("succeeded") EXCEPT !.progress = 100, !.result = r].status = "succeeded"
      BY DEF Blank
    <3> QED  BY <1>3, <1>5, <3>1 DEF InsertJob
  <2>3. /\ row'[j].status \in {"queued", "succeeded"}
        /\ \A i \in Jobs \ {j} : row'[i].status = row[i].status
    BY <1>1, <2>2 DEF TypeOK
  <2>4. PhaseOf(j) = "none"
    BY <1>3, <2>1 DEF PhaseOf
  <2>5. CASE row'[j].status = "queued"
    <3>1. PhaseOf(j)' = "waiting"
      BY <2>5 DEF PhaseOf
    <3>2. Contract!MoveTo(j, "waiting")
      BY <2>3, <3>1, MovingStep
    <3>3. \A i \in Jobs : PhaseOf(i) \notin {"waiting", "running"}
      BY <1>3, <1>5 DEF InsertJob, ActiveJobs, Inserted, PhaseOf
    <3> QED
      BY <2>4, <3>2, <3>3 DEF Contract!Next, Contract!Accept, Contract!Unfinished
  <2>6. CASE row'[j].status = "succeeded"
    <3>1. PhaseOf(j)' = "ended"
      BY <2>6 DEF PhaseOf
    <3>2. Contract!MoveTo(j, "ended")
      BY <2>3, <3>1, MovingStep
    <3> QED
      BY <2>4, <3>2 DEF Contract!Next, Contract!AnswerFromCache
  <2> QED  BY <2>3, <2>5, <2>6
<1>6. ASSUME NEW j \in Jobs, Upload(j), ~InsertJob(j) PROVE Done
  <2>1. row' = row
    BY <1>6 DEF Upload, StartUpload, FinishStoring, AbandonUpload, recordVars
  <2> QED  BY <1>2, <2>1
<1>7. ASSUME NEW w \in Workers, NEW j \in Jobs, Receive(w, j) PROVE Done
  BY <1>2, <1>7 DEF Receive, recordVars
<1>8. CASE Watchdog
  <2>1. CASE ExpireCommit
    <3>1. /\ picked \in SUBSET Jobs
          /\ \A j \in picked : row[j].status # "absent" /\ row'[j].status \in Ended
          /\ \A j \in Jobs \ picked : row'[j].status = row[j].status
      BY <1>1, <2>1, TimedOutRow DEF ExpireCommit, TypeOK, HoldInv, Ended
    <3> QED  BY <3>1, EndingStep
  <2>2. CASE ExpireSelect \/ ExpireDies
    BY <1>2, <2>2 DEF ExpireSelect, ExpireDies, recordVars
  <2> QED  BY <1>8, <2>1, <2>2 DEF Watchdog
<1>9. CASE UNCHANGED vars
  BY <1>2, <1>9 DEF vars
<1> QED  BY <1>4, <1>5, <1>6, <1>7, <1>8, <1>9 DEF Next

\* Though a row is written column by column, by sessions whose copies may be stale, a job
\* is begun once, only after it waited, and one that has ended is not opened again.
THEOREM RecordsImplementContract == Spec => Contract!SafeSpec
<1>1. Init => Contract!Init
  <2> SUFFICES ASSUME Init PROVE \A j \in Jobs : PhaseOf(j) = "none"
    BY DEF Contract!Init
  <2> QED  BY BlankRow DEF Init, PhaseOf, NoRow
<1>2. RecordInv /\ [Next]_vars => [Contract!Next]_([j \in Jobs |-> PhaseOf(j)])
  BY ContractStep
<1> QED
  BY <1>1, <1>2, RecordInit, RecordStep, PTL DEF Spec, Contract!SafeSpec

============================================================================
