-------------------------- MODULE TaskRecordProofs --------------------------
(***************************************************************************)
(* Proofs about TaskRecord, for any jobs, workers, artifacts and           *)
(* deployments.                                                            *)
(***************************************************************************)
EXTENDS TaskRecord, TLAPS

----------------------------------------------------------------------------
(***************************************************************************)
(* Rows.                                                                   *)
(***************************************************************************)

LEMMA BlankRow ==
    ASSUME NEW s \in {"absent", "expired", "queued", "processing", "succeeded",
                      "failed", "timeout"}
    PROVE  Blank(s) \in Rows /\ Blank(s).status = s
  BY DEF Blank, Rows

\* What a commit makes of a row: a row, whose status is the old or the new one.
LEMMA UpdatedRow ==
    ASSUME NEW old \in Rows, NEW new \in Rows, NEW cols
    PROVE  /\ Updated(old, cols, new) \in Rows
           /\ Updated(old, cols, new).status \in {old.status, new.status}
           /\ "status" \notin cols => Updated(old, cols, new).status = old.status
  BY DEF Updated, Rows, Columns

LEMMA ProgressRow ==
    ASSUME NEW old \in Rows, NEW p \in {20, 90}
    PROVE  /\ [old EXCEPT !.progress = p] \in Rows
           /\ [old EXCEPT !.progress = p].status = old.status
  BY DEF Rows

LEMMA ClaimedRow ==
    ASSUME NEW old \in Rows
    PROVE  [old EXCEPT !.status = "processing", !.progress = 5] \in Rows
  BY DEF Rows

LEMMA TimedOutRow ==
    ASSUME NEW old \in Rows
    PROVE  TimedOut(old) \in Rows /\ TimedOut(old).status = "timeout"
  BY DEF TimedOut, Rows, ErrorCodes

LEMMA SuccessRow ==
    ASSUME NEW w \in Workers, cur[w] \in Jobs
    PROVE  Success(w) \in Rows /\ Success(w).status = "succeeded"
  BY DEF Success, Rows

LEMMA CappedRow ==
    ASSUME NEW old \in Rows, NEW s \in {"failed", "timeout"}, NEW e \in ErrorCodes
    PROVE  Failure(old, s, e) \in Rows /\ Failure(old, s, e).status = s
  BY DEF Failure, Capped, Rows
\* The copy that a statement of a task works on, and what is flushed with it.
LEMMA CopyRow ==
    ASSUME TypeOK, NEW w \in Workers, pc[w] # "idle"
    PROVE  Copy(w) \in Rows /\ cur[w] \in Jobs
  BY DEF TypeOK, Copy

LEMMA KindsApart ==
    /\ "nothing" \notin {"json", "preview", "image"}
    /\ "image" \notin Outputs /\ Outputs \subseteq Kinds /\ "image" \in Kinds
    /\ Optional \subseteq Outputs /\ Artifacts \subseteq Outputs /\ "json" \in Outputs
  BY ArtifactAssumption DEF Outputs, Kinds, Optional

----------------------------------------------------------------------------
(***************************************************************************)
(* Types.                                                                  *)
(***************************************************************************)

LEMMA RecordTypeInit == Init => TypeOK
  BY BlankRow, JobAssumption DEF Init, TypeOK, NoRow, Expired, Steps

LEMMA CommitType ==
    ASSUME TypeOK, NEW w \in Workers, pc[w] # "idle", NEW new \in Rows, Commit(w, new)
    PROVE  /\ row' \in [Jobs -> Rows]
           /\ made' \in [Jobs -> SUBSET Outputs]
           /\ copy' \in [Workers -> Rows]
           /\ wrote' \in [Workers -> SUBSET Columns]
           /\ writing' \in [Workers -> Outputs \cup {"nothing"}]
           /\ todo' \in [Workers -> SUBSET Outputs]
           /\ stored' \in [Workers -> SUBSET Outputs]
  <1>1. cur[w] \in Jobs /\ row[cur[w]] \in Rows /\ FlushedRows(w) \subseteq Outputs
    BY DEF TypeOK, FlushedRows
  <1>2. \A cols : Updated(row[cur[w]], cols, new) \in Rows
    BY <1>1, UpdatedRow
  <1>3. row' \in [Jobs -> Rows]
    BY <1>1, <1>2 DEF TypeOK, Commit
  <1>4. Expired \in Rows
    BY BlankRow DEF Expired
  <1> QED
    BY <1>1, <1>3, <1>4 DEF TypeOK, Commit

LEMMA FlushType ==
    ASSUME TypeOK, NEW w \in Workers, NEW new \in Rows, Flush(w, new)
    PROVE  copy' \in [Workers -> Rows] /\ wrote' \in [Workers -> SUBSET Columns]
  <1>1. Differing(Copy(w), new) \subseteq Columns
    BY DEF Differing
  <1> QED
    BY <1>1 DEF TypeOK, Flush

LEMMA RollbackType ==
    ASSUME TypeOK, NEW w \in Workers, Rollback(w)
    PROVE  /\ row' = row /\ made' = made
           /\ copy' \in [Workers -> Rows]
           /\ wrote' \in [Workers -> SUBSET Columns]
           /\ writing' \in [Workers -> Outputs \cup {"nothing"}]
           /\ todo' \in [Workers -> SUBSET Outputs]
           /\ stored' \in [Workers -> SUBSET Outputs]
  BY BlankRow DEF TypeOK, Rollback, Expired, recordVars

LEMMA ObjectType ==
    ASSUME TypeOK, NEW j \in Jobs, NEW k \in Kinds, OpenObject(j, k) \/ FillObject(j, k)
    PROVE  object' \in [Jobs -> [Kinds -> {"none", "partial", "whole"}]]
  <1>1. \A s \in {"partial", "whole"} :
          [object EXCEPT ![j][k] = s] \in [Jobs -> [Kinds -> {"none", "partial", "whole"}]]
    <2> TAKE s \in {"partial", "whole"}
    <2>1. [object[j] EXCEPT ![k] = s] \in [Kinds -> {"none", "partial", "whole"}]
      BY DEF TypeOK
    <2> QED
      BY <2>1 DEF TypeOK
  <1> QED
    BY <1>1 DEF TypeOK, OpenObject, FillObject

\* ... and nothing else changes.
LEMMA ObjectEffect ==
    ASSUME TypeOK, NEW j \in Jobs, NEW k \in Kinds, OpenObject(j, k) \/ FillObject(j, k)
    PROVE  /\ \A i \in Jobs, x \in Kinds :
                object'[i][x] = object[i][x] \/ (i = j /\ x = k)
           /\ FillObject(j, k) => object'[j][k] = "whole"
  BY DEF TypeOK, OpenObject, FillObject

LEMMA RecordTypeStep == TypeOK /\ [Next]_vars => TypeOK'
  <1> SUFFICES ASSUME TypeOK, [Next]_vars PROVE TypeOK'
    OBVIOUS
  <1> USE JobAssumption, KindsApart
      DEF uploadVars, recordVars, sessionVars, outputVars, taskVars, Goto, Leave
  <1>1. ASSUME NEW j \in Jobs, Upload(j) PROVE TypeOK'
    <2>1. CASE StartUpload(j)
      BY <1>1, <2>1, ObjectType DEF TypeOK, StartUpload
    <2>2. CASE FinishStoring(j)
      BY <1>1, <2>2, ObjectType DEF TypeOK, FinishStoring
    <2>3. CASE InsertJob(j)
      <3>1. PICK i \in IF ImageRows(Content[j]) # {} THEN ImageRows(Content[j]) ELSE {j} :
              /\ image' = [image EXCEPT ![j] = i]
              /\ IF Results(i) # {}
                 THEN \E r \in Results(i) :
                        row' = [row EXCEPT ![j] = [Blank("succeeded") EXCEPT
                                                     !.progress = 100, !.result = r]]
                 ELSE row' = [row EXCEPT ![j] = Blank("queued")]
        BY <2>3 DEF InsertJob
      <3>2. i \in Jobs \cup {NoJob}
        <4>1. ImageRows(Content[j]) \subseteq Jobs \cup {NoJob}
          BY DEF TypeOK, ImageRows, Inserted
        <4> QED
          BY <3>1, <1>1, <4>1
      <3>3. \A r \in Results(i) :
              [Blank("succeeded") EXCEPT !.progress = 100, !.result = r] \in Rows
        BY DEF Results, Inserted, Blank, Rows
      <3>4. \E r \in Rows : row' = [row EXCEPT ![j] = r]
        BY <3>1, <3>3, BlankRow
      <3>5. row' \in [Jobs -> Rows]
        BY <1>1, <3>4 DEF TypeOK
      <3> QED
        BY <1>1, <2>3, <3>1, <3>2, <3>5 DEF TypeOK, InsertJob
    <2>4. CASE AbandonUpload(j)
      BY <1>1, <2>4 DEF TypeOK, AbandonUpload
    <2> QED
      BY <1>1, <2>1, <2>2, <2>3, <2>4 DEF Upload
  <1>2. ASSUME NEW w \in Workers, NEW j \in Jobs, Receive(w, j) PROVE TypeOK'
    BY <1>2 DEF TypeOK, Receive, Steps
  <1>3. ASSUME NEW w \in Workers, ReadJob(w) \/ BeginFetch(w) \/ FinishFetch(w) PROVE TypeOK'
    <2>1. pc[w] # "idle" /\ Copy(w) \in Rows
      BY <1>3, CopyRow DEF ReadJob, BeginFetch, FinishFetch, TypeOK
    <2>2. copy' \in [Workers -> Rows]
      BY <1>3, <2>1 DEF TypeOK, ReadJob, BeginFetch, FinishFetch
    <2>3. CASE ReadJob(w)
      BY <2>2, <2>3 DEF TypeOK, ReadJob, Steps
    <2>4. CASE BeginFetch(w)
      BY <2>2, <2>4 DEF TypeOK, BeginFetch, Steps, Holding
    <2>5. CASE FinishFetch(w)
      BY <2>2, <2>5 DEF TypeOK, FinishFetch, Steps, Holding
    <2> QED
      BY <1>3, <2>3, <2>4, <2>5
  <1>4. ASSUME NEW w \in Workers, ClaimForProcessing(w) PROVE TypeOK'
    <2>1. row' = [row EXCEPT ![cur[w]] =
                    [row[cur[w]] EXCEPT !.status = "processing", !.progress = 5]]
      BY <1>4 DEF TypeOK, ClaimForProcessing
    <2>2. row' \in [Jobs -> Rows]
      <3>1. cur[w] \in Jobs /\ row[cur[w]] \in Rows
        BY <1>4, CopyRow DEF ClaimForProcessing, TypeOK
      <3> QED
        BY <2>1, <3>1, ClaimedRow DEF TypeOK
    <2> QED
      BY <1>4, <2>2, BlankRow DEF TypeOK, ClaimForProcessing, Steps, Holding, Expired
  <1>5. ASSUME NEW w \in Workers, StartPipeline(w) \/ CommitSuccess(w) PROVE TypeOK'
    <2>1. pc[w] # "idle" /\ [Copy(w) EXCEPT !.progress = 20] \in Rows /\ copy[w] \in Rows
      BY <1>5, CopyRow, ProgressRow DEF TypeOK, StartPipeline, CommitSuccess
    <2> QED
      BY <1>5, <2>1, CommitType DEF TypeOK, StartPipeline, CommitSuccess, Steps, Holding
  <1>6. ASSUME NEW w \in Workers, FinishPipeline(w) PROVE TypeOK'
    BY <1>6, CopyRow DEF TypeOK, FinishPipeline, Steps, Holding
  <1>7. ASSUME NEW w \in Workers, BuildResult(w) \/ MarkSucceeded(w) PROVE TypeOK'
    <2>1. pc[w] # "idle" /\ [Copy(w) EXCEPT !.progress = 90] \in Rows /\ Success(w) \in Rows
      BY <1>7, CopyRow, ProgressRow, SuccessRow DEF TypeOK, BuildResult, MarkSucceeded
    <2>2. \E new \in Rows : Flush(w, new)
      BY <1>7, <2>1 DEF BuildResult, MarkSucceeded
    <2>3. copy' \in [Workers -> Rows] /\ wrote' \in [Workers -> SUBSET Columns]
      BY <2>2, FlushType
    <2> QED
      BY <1>7, <2>1, <2>3 DEF TypeOK, BuildResult, MarkSucceeded, Steps, Holding
  <1>8. ASSUME NEW w \in Workers, BeginStore(w) PROVE TypeOK'
    <2>1. PICK k \in NextToStore(w) :
             writing' = [writing EXCEPT ![w] = k] /\ OpenObject(cur[w], k)
      BY <1>8 DEF BeginStore
    <2>2. k \in Outputs /\ cur[w] \in Jobs
      BY <1>8, <2>1 DEF TypeOK, NextToStore, BeginStore
    <2> QED
      BY <1>8, <2>1, <2>2, ObjectType DEF TypeOK, BeginStore
  <1>9. ASSUME NEW w \in Workers, FinishStore(w) PROVE TypeOK'
    <2>1. writing[w] \in Outputs /\ cur[w] \in Jobs
      BY <1>9 DEF TypeOK, FinishStore
    <2> QED
      BY <1>9, <2>1, ObjectType DEF TypeOK, FinishStore, StoredNow
  <1>10. ASSUME NEW w \in Workers, InsertResult(w) \/ EndTry(w) PROVE TypeOK'
    BY <1>10 DEF TypeOK, InsertResult, EndTry, Steps, Holding
  <1>11. ASSUME NEW w \in Workers, ClaimRefused(w) \/ InsertConflict(w) \/ HandlerFails(w)
        PROVE  TypeOK'
    BY <1>11, RollbackType
    DEF TypeOK, ClaimRefused, InsertConflict, HandlerFails, Steps, Holding
  <1>12. ASSUME NEW w \in Workers, Cleanup(w) \/ Die(w) PROVE TypeOK'
    <2>1. \A removed : [left EXCEPT ![cur[w]] = @ \cup (temp[w] \ removed)]
                         \in [Jobs -> SUBSET {"input", "work"}]
      BY DEF TypeOK
    <2>2. left' \in [Jobs -> SUBSET {"input", "work"}]
      BY <1>12, <2>1 DEF Cleanup, Die
    <2>3. /\ pc' = [pc EXCEPT ![w] = "idle"] /\ cur' = [cur EXCEPT ![w] = NoJob]
          /\ temp' = [temp EXCEPT ![w] = {}] /\ Rollback(w)
          /\ UNCHANGED <<deployment, up, image, object, picked>>
      BY <1>12 DEF Cleanup, Die
    <2> QED
      BY <2>2, <2>3, RollbackType DEF TypeOK, Steps
  <1>13. ASSUME NEW w \in Workers, NEW s \in {"failed", "timeout"}, NEW e \in ErrorCodes,
                pc[w] # "idle", MarkFailed(w, s, e)
         PROVE  TypeOK'
    <2>1. Failure(Copy(w), s, e) \in Rows
      BY <1>13, CopyRow, CappedRow
    <2> QED
      BY <1>13, <2>1, CommitType DEF TypeOK, MarkFailed, Steps, Holding
  <1>14. ASSUME NEW w \in Workers, PipelineFails(w) \/ WorkerFails(w) \/ SoftLimit(w)
         PROVE  TypeOK'
    BY <1>13, <1>14, DeploymentAssumption
    DEF PipelineFails, WorkerFails, SoftLimit, PipelineErrors, ErrorCodes, Holding, TypeOK, Modes
  <1>15. ASSUME ExpireSelect \/ ExpireDies PROVE TypeOK'
    BY <1>15 DEF TypeOK, ExpireSelect, ExpireDies, Expirable, Inserted
  <1>16. ASSUME ExpireCommit PROVE TypeOK'
    <2>1. \A j \in Jobs : TimedOut(row[j]) \in Rows
      BY TimedOutRow DEF TypeOK
    <2> QED
      BY <1>16, <2>1 DEF TypeOK, ExpireCommit
  <1>17. CASE UNCHANGED vars
    BY <1>17 DEF TypeOK, vars
  <1> QED
    BY <1>1, <1>2, <1>3, <1>4, <1>5, <1>6, <1>7, <1>8, <1>9, <1>10, <1>11, <1>12, <1>14,
       <1>15, <1>16, <1>17 DEF Next, Task, Watchdog

\* Every variable keeps its type.
THEOREM RecordTypeInvariant == Spec => []TypeOK
  BY RecordTypeInit, RecordTypeStep, PTL DEF Spec
----------------------------------------------------------------------------
(***************************************************************************)
(* Whole objects: RecordInv.  A step of a task is first reduced to what it *)
(* does to the parts of the state that the invariant is about.             *)
(***************************************************************************)
TaskEffect(w) ==
    /\ up' = up /\ image' = image /\ picked' = picked
    /\ \A v \in Workers \ {w} :
         /\ pc'[v] = pc[v] /\ cur'[v] = cur[v] /\ copy'[v] = copy[v]
         /\ wrote'[v] = wrote[v] /\ writing'[v] = writing[v]
         /\ todo'[v] = todo[v] /\ stored'[v] = stored[v]
    /\ \A j \in Jobs : \/ row'[j] = row[j]
                        \/ /\ j = cur[w] /\ row'[j].status # "absent"
                           /\ row'[j].status = "queued" => row[j].status = "queued"
    /\ \A j \in Jobs : \/ made'[j] = made[j]
                        \/ /\ j = cur[w] /\ pc[w] \in RowLocked /\ pc'[w] \notin Holding
                           /\ made'[j] \subseteq made[j] \cup stored[w]
    /\ \A j \in Jobs, k \in Kinds :
         \/ object'[j][k] = object[j][k]
         \/ j = cur[w] /\ pc[w] = "saving" /\ pc'[w] = "saving" /\ k \in todo[w]

\* ... and to the worker that takes the step.
WorkerEffect(w) ==
    /\ pc[w] # "idle"
    /\ pc'[w] = "idle" \/ cur'[w] = cur[w]
    /\ pc'[w] \in Holding =>
         \/ pc[w] \in Holding
         \/ row[cur[w]].status = "queued" /\ row'[cur[w]].status = "processing"
    /\ pc'[w] \notin RowLocked => wrote'[w] = {} /\ stored'[w] = {}
    /\ pc'[w] = "marked" => copy'[w].status = "succeeded"
    /\ pc'[w] # "saving" => writing'[w] = "nothing"
    /\ writing'[w] # "nothing" => writing'[w] \in todo'[w]
    /\ \A k \in stored'[w] : object'[cur[w]][k] = "whole" /\ k \notin todo'[w]

\* What a commit makes of the row of a task, and of the rows it has flushed.
LEMMA CommitEffect ==
    ASSUME RecordInv, NEW w \in Workers, pc[w] # "idle", NEW new \in Rows, Commit(w, new),
           \/ new.status \in {"succeeded", "failed", "timeout"}
           \/ new.status = Copy(w).status /\ wrote[w] = {},
           pc'[w] \notin Holding \/ pc[w] \notin RowLocked
    PROVE  /\ \A j \in Jobs : \/ row'[j] = row[j]
                               \/ /\ j = cur[w] /\ row'[j].status # "absent"
                                  /\ row'[j].status = "queued" => row[j].status = "queued"
           /\ \A j \in Jobs :
                \/ made'[j] = made[j]
                \/ /\ j = cur[w] /\ pc[w] \in RowLocked /\ pc'[w] \notin Holding
                   /\ made'[j] \subseteq made[j] \cup stored[w]
  <1> DEFINE cols == wrote[w] \cup Differing(Copy(w), new)
  <1>1. /\ cur[w] \in Jobs /\ row[cur[w]] \in Rows /\ row[cur[w]].status # "absent"
        /\ row \in [Jobs -> Rows] /\ made \in [Jobs -> SUBSET Outputs]
    BY DEF RecordInv, TypeOK, HoldInv, ImageInv
  <1>2. /\ row' = [row EXCEPT ![cur[w]] = Updated(row[cur[w]], cols, new)]
        /\ made' = [made EXCEPT ![cur[w]] = @ \cup FlushedRows(w)]
    BY DEF Commit
  <1>3. /\ Updated(row[cur[w]], cols, new).status \in {row[cur[w]].status, new.status}
        /\ "status" \notin cols =>
             Updated(row[cur[w]], cols, new).status = row[cur[w]].status
    BY <1>1, UpdatedRow
  <1>4. new.status \in {"succeeded", "failed", "timeout"} \/ "status" \notin cols
    BY DEF Differing
  <1>5. FlushedRows(w) \subseteq stored[w] /\ (pc[w] \notin RowLocked => stored[w] = {})
    BY DEF FlushedRows, RecordInv, StoredInv
  <1> HIDE DEF cols
  <1>6. /\ row'[cur[w]].status # "absent"
        /\ row'[cur[w]].status = "queued" => row[cur[w]].status = "queued"
    BY <1>1, <1>2, <1>3, <1>4
  <1> QED
    BY <1>1, <1>2, <1>5, <1>6

LEMMA TaskStep ==
    ASSUME RecordInv, TypeOK', NEW w \in Workers, TaskEffect(w), WorkerEffect(w)
    PROVE  RecordInv'
  <1>t. TypeOK /\ ImageInv /\ HoldInv /\ SessionInv /\ StoredInv /\ RowsReferToWholeObjects
    BY DEF RecordInv
  <1>1. cur[w] \in Inserted /\ cur[w] \in Jobs
    BY <1>t DEF HoldInv, WorkerEffect, Inserted
  <1>2. Inserted' = Inserted
    <2>1. NoRow.status = "absent"
      BY BlankRow DEF NoRow
    <2> QED
      BY <1>1, <2>1 DEF Inserted, TaskEffect
  <1>3. \A j \in Jobs : object'[j]["image"] = object[j]["image"]
    BY <1>t, KindsApart DEF TaskEffect, TypeOK
  <1>4. ImageInv'
    <2>1. \A c : ImageRows(c)' = ImageRows(c)
      BY <1>2 DEF ImageRows, TaskEffect
    <2>2. \A j \in Jobs : row[j].status # "absent" => row'[j].status # "absent"
      BY DEF TaskEffect
    <2> QED
      BY <1>t, <1>2, <1>3, <2>1, <2>2 DEF ImageInv, TaskEffect, Inserted
  <1>5. HoldInv'
    <2>1. \A v \in Workers : pc'[v] # "idle" => cur'[v] = cur[v] /\ pc[v] # "idle"
      BY DEF TaskEffect, WorkerEffect
    <2>2. \A j \in Jobs : row'[j].status \in {"absent", "queued"} =>
                             row[j].status = row'[j].status
      BY DEF TaskEffect
    <2>3. \A v \in Workers \ {w} : /\ pc[v] \in Holding /\ cur[v] = cur[w]
                                   => pc[w] \notin Holding /\ row[cur[w]].status # "queued"
      BY <1>t DEF HoldInv
    <2>4. pc'[w] \in Holding => row'[cur[w]].status \notin {"absent", "queued"}
      BY <1>t, <1>1, <2>2 DEF WorkerEffect, HoldInv
    <2>5. \A j \in Jobs : made'[j] = made[j] \/ (j = cur[w] /\ pc[w] \in Holding
                                                  /\ pc'[w] \notin Holding)
      BY DEF TaskEffect, RowLocked, Holding
    <2>6. \A v \in Workers : pc'[v] \in Holding =>
             row'[cur'[v]].status \notin {"absent", "queued"} /\ made'[cur'[v]] = {}
      <3> SUFFICES ASSUME NEW v \in Workers, pc'[v] \in Holding
                   PROVE  row'[cur'[v]].status \notin {"absent", "queued"} /\ made'[cur'[v]] = {}
        OBVIOUS
      <3>1. cur'[v] = cur[v] /\ cur[v] \in Jobs
        BY <1>t, <2>1 DEF Holding, HoldInv, Inserted
      <3>2. CASE v = w
        BY <1>t, <1>1, <2>4, <2>5, <3>1, <3>2 DEF HoldInv, WorkerEffect
      <3>3. CASE v # w
        <4>1. pc[v] \in Holding
          BY <3>3 DEF TaskEffect
        <4> QED
          BY <1>t, <2>2, <2>3, <2>5, <3>1, <3>3, <4>1 DEF HoldInv
      <3> QED
        BY <3>2, <3>3
    <2>7. \A u, v \in Workers :
             pc'[u] \in Holding /\ pc'[v] \in Holding /\ cur'[u] = cur'[v] => u = v
      <3>1. \A v \in Workers \ {w} : pc'[v] = pc[v] /\ cur'[v] = cur[v]
        BY DEF TaskEffect
      <3>2. pc'[w] \in Holding => cur'[w] = cur[w]
        BY DEF WorkerEffect, Holding
      <3>3. \A v \in Workers \ {w} :
              pc'[w] \in Holding /\ pc[v] \in Holding => cur[v] # cur[w]
        BY <2>3 DEF WorkerEffect
      <3> QED
        BY <1>t, <3>1, <3>2, <3>3 DEF HoldInv
    <2>8. \A j \in Jobs : row'[j].status \in {"absent", "queued"} => made'[j] = {}
      BY <1>t, <2>2, <2>5 DEF HoldInv
    <2>9. \A j \in picked' : row'[j].status \notin {"absent", "queued"}
      BY <1>t, <2>2 DEF HoldInv, TaskEffect, TypeOK
    <2>10. \A v \in Workers : pc'[v] # "idle" => cur'[v] \in Inserted'
      BY <1>t, <1>2, <2>1 DEF HoldInv
    <2> QED
      BY <2>6, <2>7, <2>8, <2>9, <2>10 DEF HoldInv
  <1>6. SessionInv'
    BY <1>t DEF SessionInv, TaskEffect, WorkerEffect
  <1>7. \A v \in Workers \ {w} : cur[v] = cur[w] /\ pc[w] = "saving" => stored[v] = {}
    BY <1>t DEF HoldInv, StoredInv, RowLocked, Holding
  <1>8. StoredInv'
    <2> SUFFICES ASSUME NEW v \in Workers
                 PROVE  /\ pc'[v] \notin RowLocked => stored'[v] = {}
                        /\ pc'[v] # "saving" => writing'[v] = "nothing"
                        /\ writing'[v] # "nothing" => writing'[v] \in todo'[v]
                        /\ \A k \in stored'[v] : object'[cur'[v]][k] = "whole" /\ k \notin todo'[v]
      BY DEF StoredInv
    <2>1. CASE v = w
      BY <2>1 DEF WorkerEffect, RowLocked
    <2>2. CASE v # w
      <3>1. /\ pc'[v] = pc[v] /\ cur'[v] = cur[v] /\ writing'[v] = writing[v]
            /\ todo'[v] = todo[v] /\ stored'[v] = stored[v]
        BY <2>2 DEF TaskEffect
      <3>2. \A k \in stored[v] : object'[cur[v]][k] = "whole"
        <4> SUFFICES ASSUME NEW k \in stored[v] PROVE object'[cur[v]][k] = "whole"
          OBVIOUS
        <4>1. pc[v] # "idle" /\ cur[v] \in Jobs /\ k \in Kinds /\ object[cur[v]][k] = "whole"
          BY <1>t, KindsApart DEF StoredInv, RowLocked, HoldInv, Inserted, TypeOK
        <4> QED
          BY <1>7, <2>2, <4>1 DEF TaskEffect
      <3> QED
        BY <1>t, <3>1, <3>2 DEF StoredInv
    <2> QED
      BY <2>1, <2>2
  <1>9. RowsReferToWholeObjects'
    <2>1. \A j \in Inserted : image[j] \in Jobs /\ object'[image[j]]["image"] = "whole"
      BY <1>t, <1>3 DEF ImageInv
    <2>2. ASSUME NEW j \in Inserted, NEW k \in made'[j] PROVE object'[j][k] = "whole"
      <3>1. j \in Jobs /\ k \in Kinds
        BY KindsApart DEF Inserted, TypeOK
      <3>2. CASE k \in made[j]
        <4>1. ~(j = cur[w] /\ pc[w] = "saving")
          BY <1>t, <3>2 DEF HoldInv, Holding
        <4> QED
          BY <1>t, <3>1, <3>2, <4>1 DEF TaskEffect, RowsReferToWholeObjects
      <3>3. CASE k \notin made[j]
        <4>1. j = cur[w] /\ k \in stored[w] /\ pc'[w] \notin Holding
          BY <3>1, <3>3 DEF TaskEffect
        <4>2. object[j][k] = "whole" /\ pc'[w] # "saving"
          BY <1>t, <4>1 DEF StoredInv, Holding
        <4> QED
          BY <3>1, <4>1, <4>2 DEF TaskEffect
      <3> QED
        BY <3>2, <3>3
    <2> QED
      BY <1>2, <2>1, <2>2 DEF RowsReferToWholeObjects, TaskEffect
  <1> QED
    BY <1>4, <1>5, <1>6, <1>8, <1>9 DEF RecordInv
LEMMA TaskEffects ==
    ASSUME RecordInv, NEW w \in Workers, Task(w)
    PROVE  TaskEffect(w) /\ WorkerEffect(w)
  <1>t. TypeOK /\ ImageInv /\ HoldInv /\ SessionInv /\ StoredInv
    BY DEF RecordInv
  <1>c. pc[w] # "idle" =>
          cur[w] \in Jobs /\ Copy(w) \in Rows /\ row[cur[w]].status # "absent"
    BY <1>t, CopyRow DEF HoldInv, ImageInv
  <1> USE KindsApart
      DEF uploadVars, recordVars, sessionVars, outputVars, taskVars, Goto, Leave
  <1>1. ASSUME ReadJob(w) \/ BeginFetch(w) \/ FinishFetch(w) \/ FinishPipeline(w)
        PROVE  TaskEffect(w) /\ WorkerEffect(w)
    BY <1>t, <1>1 DEF ReadJob, BeginFetch, FinishFetch, FinishPipeline, TaskEffect,
       WorkerEffect, TypeOK, SessionInv, StoredInv, RowLocked, Holding
  <1>2. ASSUME InsertResult(w) \/ EndTry(w) PROVE TaskEffect(w) /\ WorkerEffect(w)
    BY <1>t, <1>2 DEF InsertResult, EndTry, TaskEffect, WorkerEffect, TypeOK, SessionInv,
       StoredInv, RowLocked, Holding
  <1>3. ASSUME ClaimForProcessing(w) PROVE TaskEffect(w) /\ WorkerEffect(w)
    <2>1. row' = [row EXCEPT ![cur[w]] =
                    [row[cur[w]] EXCEPT !.status = "processing", !.progress = 5]]
      BY <1>t, <1>3 DEF TypeOK, ClaimForProcessing
    <2>2. /\ row'[cur[w]].status = "processing" /\ row[cur[w]].status = "queued"
          /\ \A j \in Jobs : j # cur[w] => row'[j] = row[j]
      BY <1>t, <1>c, <1>3, <2>1 DEF TypeOK, ClaimForProcessing, Claimable, Rows
    <2>3. pc[w] = "read" /\ pc'[w] = "claimed" /\ cur' = cur
      BY <1>t, <1>3 DEF TypeOK, ClaimForProcessing
    <2>4. /\ wrote' = wrote /\ stored' = stored /\ writing' = writing /\ todo' = todo
          /\ wrote[w] = {} /\ stored[w] = {} /\ writing[w] = "nothing"
      BY <1>t, <1>3, <2>3 DEF ClaimForProcessing, SessionInv, StoredInv, RowLocked
    <2>5. WorkerEffect(w)
      BY <2>2, <2>3, <2>4 DEF WorkerEffect, Holding
    <2>6. TaskEffect(w)
      BY <1>t, <1>3, <2>2 DEF ClaimForProcessing, TaskEffect, TypeOK
    <2> QED
      BY <2>5, <2>6
  <1>4. ASSUME Rollback(w), pc[w] # "idle", pc' = [pc EXCEPT ![w] = pc'[w]],
               \/ pc'[w] = "leaving" /\ cur' = cur
               \/ pc'[w] = "idle" /\ cur' = [cur EXCEPT ![w] = NoJob],
               up' = up, image' = image, picked' = picked, object' = object
        PROVE  TaskEffect(w) /\ WorkerEffect(w)
    BY <1>t, <1>4 DEF Rollback, TaskEffect, WorkerEffect, TypeOK, RowLocked, Holding
  <1>5. ASSUME ClaimRefused(w) \/ InsertConflict(w) \/ HandlerFails(w)
        PROVE  TaskEffect(w) /\ WorkerEffect(w)
    <2>1. /\ Rollback(w) /\ pc[w] # "idle" /\ Goto(w, "leaving")
          /\ up' = up /\ image' = image /\ picked' = picked /\ object' = object
      BY <1>5 DEF ClaimRefused, InsertConflict, HandlerFails
    <2> QED
      BY <1>t, <1>4, <2>1 DEF TypeOK
  <1>6. ASSUME Cleanup(w) \/ Die(w) PROVE TaskEffect(w) /\ WorkerEffect(w)
    <2>1. /\ Rollback(w) /\ pc[w] # "idle" /\ pc' = [pc EXCEPT ![w] = "idle"]
          /\ cur' = [cur EXCEPT ![w] = NoJob]
          /\ up' = up /\ image' = image /\ picked' = picked /\ object' = object
      BY <1>6 DEF Cleanup, Die
    <2> QED
      BY <1>t, <1>4, <2>1 DEF TypeOK
  <1>7. ASSUME NEW new \in Rows, Commit(w, new), pc[w] # "idle",
               \/ new.status \in {"succeeded", "failed", "timeout"}
               \/ new.status = Copy(w).status /\ wrote[w] = {},
               NEW s \in {"leaving", "committed", "running"}, Goto(w, s),
               s = "running" => pc[w] = "fetched",
               up' = up, image' = image, picked' = picked, object' = object
        PROVE  TaskEffect(w) /\ WorkerEffect(w)
    <2>1. pc'[w] = s /\ \A v \in Workers \ {w} : pc'[v] = pc[v]
      BY <1>t, <1>7 DEF TypeOK
    <2>2. pc'[w] \notin Holding \/ pc[w] \notin RowLocked
      BY <1>7, <2>1 DEF Holding, RowLocked
    <2>3. /\ \A j \in Jobs : \/ row'[j] = row[j]
                             \/ /\ j = cur[w] /\ row'[j].status # "absent"
                                /\ row'[j].status = "queued" => row[j].status = "queued"
          /\ \A j \in Jobs :
               \/ made'[j] = made[j]
               \/ /\ j = cur[w] /\ pc[w] \in RowLocked /\ pc'[w] \notin Holding
                  /\ made'[j] \subseteq made[j] \cup stored[w]
      BY <1>7, <2>2, CommitEffect
    <2>4. /\ wrote'[w] = {} /\ writing'[w] = "nothing" /\ stored'[w] = {}
          /\ \A v \in Workers \ {w} :
               /\ copy'[v] = copy[v] /\ wrote'[v] = wrote[v] /\ writing'[v] = writing[v]
               /\ todo'[v] = todo[v] /\ stored'[v] = stored[v]
      BY <1>t, <1>7 DEF Commit, TypeOK
    <2>5. TaskEffect(w)
      BY <1>7, <2>1, <2>3, <2>4 DEF TaskEffect
    <2>6. WorkerEffect(w)
      BY <1>7, <2>1, <2>4 DEF WorkerEffect, Holding, RowLocked
    <2> QED
      BY <2>5, <2>6
  <1>8. ASSUME StartPipeline(w) PROVE TaskEffect(w) /\ WorkerEffect(w)
    <2>1. /\ [Copy(w) EXCEPT !.progress = 20] \in Rows
          /\ [Copy(w) EXCEPT !.progress = 20].status = Copy(w).status
      BY <1>c, <1>8, ProgressRow DEF StartPipeline
    <2>2. wrote[w] = {}
      BY <1>t, <1>8 DEF StartPipeline, SessionInv, RowLocked
    <2> QED
      BY <1>7, <1>8, <2>1, <2>2 DEF StartPipeline
  <1>9. ASSUME CommitSuccess(w) PROVE TaskEffect(w) /\ WorkerEffect(w)
    <2>1. copy[w] \in Rows /\ copy[w].status = "succeeded"
      BY <1>t, <1>9 DEF CommitSuccess, SessionInv, TypeOK
    <2> QED
      BY <1>7, <1>9, <2>1 DEF CommitSuccess
  <1>10. ASSUME NEW s \in {"failed", "timeout"}, NEW e \in ErrorCodes,
                pc[w] # "idle", MarkFailed(w, s, e)
         PROVE  TaskEffect(w) /\ WorkerEffect(w)
    <2>1. Failure(Copy(w), s, e) \in Rows /\ Failure(Copy(w), s, e).status = s
      BY <1>c, <1>10, CappedRow
    <2> QED
      BY <1>7, <1>10, <2>1 DEF MarkFailed
  <1>11. ASSUME PipelineFails(w) \/ WorkerFails(w) \/ SoftLimit(w)
         PROVE  TaskEffect(w) /\ WorkerEffect(w)
    BY <1>t, <1>10, <1>11, DeploymentAssumption
    DEF PipelineFails, WorkerFails, SoftLimit, PipelineErrors, ErrorCodes, Holding, TypeOK, Modes
  <1>12. ASSUME BuildResult(w) PROVE TaskEffect(w) /\ WorkerEffect(w)
    BY <1>t, <1>12 DEF BuildResult, Flush, TaskEffect, WorkerEffect, TypeOK, SessionInv,
       StoredInv, RowLocked, Holding
  <1>13. ASSUME MarkSucceeded(w) PROVE TaskEffect(w) /\ WorkerEffect(w)
    BY <1>t, <1>13, SuccessRow, <1>c DEF MarkSucceeded, Flush, TaskEffect, WorkerEffect, TypeOK,
       SessionInv, StoredInv, RowLocked, Holding
  <1>14. ASSUME BeginStore(w) PROVE TaskEffect(w) /\ WorkerEffect(w)
    <2>1. PICK k \in NextToStore(w) :
             writing' = [writing EXCEPT ![w] = k] /\ OpenObject(cur[w], k)
      BY <1>14 DEF BeginStore
    <2>2. k \in todo[w] /\ k \in Kinds /\ cur[w] \in Jobs
      BY <1>t, <1>c, <1>14, <2>1 DEF TypeOK, NextToStore, BeginStore
    <2>3. \A j \in Jobs, x \in Kinds :
            object'[j][x] = object[j][x] \/ (j = cur[w] /\ x = k)
      BY <1>t, <2>1, <2>2 DEF OpenObject, TypeOK
    <2>4. writing'[w] = k /\ \A v \in Workers \ {w} : writing'[v] = writing[v]
      BY <1>t, <2>1, <2>2 DEF TypeOK
    <2>5. \A x \in stored[w] : x # k /\ x \in Kinds /\ object'[cur[w]][x] = "whole"
      BY <1>t, <2>2, <2>3 DEF StoredInv, TypeOK
    <2> QED
      BY <1>t, <1>14, <2>2, <2>3, <2>4, <2>5
      DEF BeginStore, TaskEffect, WorkerEffect, StoredInv, RowLocked, Holding
  <1>15. ASSUME FinishStore(w) PROVE TaskEffect(w) /\ WorkerEffect(w)
    <2> DEFINE k == writing[w]
    <2>1. k \in todo[w] /\ k \in Kinds /\ cur[w] \in Jobs
      BY <1>t, <1>c, <1>15 DEF TypeOK, FinishStore, StoredInv
    <2>2. /\ object'[cur[w]][writing[w]] = "whole"
          /\ \A j \in Jobs, x \in Kinds :
               object'[j][x] = object[j][x] \/ (j = cur[w] /\ x = writing[w])
      BY <1>t, <1>15, <2>1 DEF FinishStore, FillObject, TypeOK
    <2>3. /\ writing'[w] = "nothing" /\ stored'[w] = stored[w] \cup {writing[w]}
          /\ todo'[w] = todo[w] \ {writing[w]}
          /\ \A v \in Workers \ {w} : /\ writing'[v] = writing[v] /\ todo'[v] = todo[v]
                                     /\ stored'[v] = stored[v]
      BY <1>t, <1>15 DEF FinishStore, StoredNow, TypeOK
    <2>4. \A x \in stored'[w] : object'[cur[w]][x] = "whole" /\ x \notin todo'[w]
      BY <1>t, <2>1, <2>2, <2>3 DEF StoredInv, TypeOK
    <2> QED
      BY <1>t, <1>15, <2>1, <2>2, <2>3, <2>4
      DEF FinishStore, TaskEffect, WorkerEffect, RowLocked, Holding
  <1> QED
    BY <1>1, <1>2, <1>3, <1>5, <1>6, <1>8, <1>9, <1>11, <1>12, <1>13, <1>14,
       <1>15 DEF Task
LEMMA RecordInit == Init => RecordInv
  BY RecordTypeInit, BlankRow
  DEF Init, RecordInv, ImageInv, HoldInv, SessionInv, StoredInv, RowsReferToWholeObjects,
      Inserted, NoRow, Holding, RowLocked

\* Steps outside the tasks leave these alone.
LEMMA UploadStep ==
    ASSUME RecordInv, TypeOK', NEW j \in Jobs, Upload(j)
    PROVE  RecordInv'
  <1>t. TypeOK /\ ImageInv /\ HoldInv /\ SessionInv /\ StoredInv /\ RowsReferToWholeObjects
    BY DEF RecordInv
  <1> USE KindsApart DEF uploadVars, recordVars, sessionVars, outputVars, taskVars
  <1>n. \A i \in Jobs : row[i] = NoRow => row[i].status = "absent" /\ made[i] = {}
    BY <1>t, BlankRow DEF NoRow, HoldInv
  <1>1. UNCHANGED <<pc, cur, copy, wrote, writing, todo, stored, made, picked>>
    BY DEF Upload, StartUpload, FinishStoring, InsertJob, AbandonUpload
  <1>o. \/ object' = object
        \/ up[j] \in {"none", "storing"} /\ (OpenObject(j, "image") \/ FillObject(j, "image"))
    BY DEF Upload, StartUpload, FinishStoring, InsertJob, AbandonUpload
  <1>i. \A i \in Jobs, k \in Kinds :
          \/ object'[i][k] = object[i][k]
          \/ i = j /\ k = "image" /\ up[j] \in {"none", "storing"}
    BY <1>t, <1>o, ObjectEffect
  <1>2. \A i \in Jobs, k \in Outputs : object'[i][k] = object[i][k]
    BY <1>i
  <1>3. SessionInv' /\ StoredInv'
    <2>1. \A w \in Workers : stored[w] # {} => cur[w] \in Jobs
      BY <1>t DEF StoredInv, RowLocked, HoldInv, Inserted
    <2> QED
      BY <1>t, <1>1, <1>2, <2>1 DEF SessionInv, StoredInv, TypeOK
  <1>4. ASSUME row' = row PROVE HoldInv'
    BY <1>t, <1>1, <1>4 DEF HoldInv, Inserted
  <1>5. CASE row' = row /\ image' = image
    <2>1. \A i \in Jobs : up[i] = "over" => up'[i] = "over"
      BY <1>t, <1>5 DEF Upload, StartUpload, FinishStoring, InsertJob, AbandonUpload, TypeOK
    <2>2. \A i \in Jobs : up[i] = "over" => object'[i]["image"] = object[i]["image"]
      BY <1>i
    <2>3. \A c : ImageRows(c)' = ImageRows(c)
      BY <1>5 DEF ImageRows, Inserted
    <2>4. \A i \in Jobs : up'[i] = "stored" =>
            object'[i]["image"] = "whole" \/ ImageRows(Content[i]) # {}
      <3> SUFFICES ASSUME NEW i \in Jobs, up'[i] = "stored", ImageRows(Content[i]) = {}
                   PROVE  object'[i]["image"] = "whole"
        OBVIOUS
      <3>1. CASE StartUpload(j)
        <4>1. i # j /\ up[i] = "stored"
          BY <1>t, <3>1 DEF StartUpload, TypeOK
        <4> QED
          BY <1>t, <1>i, <4>1 DEF ImageInv
      <3>2. CASE FinishStoring(j)
        <4>1. FillObject(j, "image") /\ (i # j => up[i] = "stored")
          BY <1>t, <3>2 DEF FinishStoring, TypeOK
        <4> QED
          BY <1>t, <1>i, <4>1, ObjectEffect DEF ImageInv
      <3>3. CASE InsertJob(j) \/ AbandonUpload(j)
        <4>1. object' = object /\ up[i] = "stored"
          BY <1>t, <3>3 DEF InsertJob, AbandonUpload, TypeOK
        <4> QED
          BY <1>t, <4>1 DEF ImageInv
      <3> QED
        BY <3>1, <3>2, <3>3 DEF Upload
    <2>5. ImageInv'
      BY <1>t, <1>5, <2>1, <2>2, <2>3, <2>4 DEF ImageInv, Inserted
    <2>6. RowsReferToWholeObjects'
      <3>1. \A i \in Inserted : object'[image[i]]["image"] = "whole"
        BY <1>t, <2>2 DEF ImageInv
      <3>2. \A i \in Inserted : \A k \in made[i] : object'[i][k] = "whole"
        BY <1>t, <1>2 DEF RowsReferToWholeObjects, Inserted, TypeOK
      <3> QED
        BY <1>1, <1>5, <3>1, <3>2 DEF RowsReferToWholeObjects, Inserted
    <2> QED
      BY <1>3, <1>4, <1>5, <2>5, <2>6 DEF RecordInv
  <1>6. CASE InsertJob(j)
    <2>1. PICK i \in IF ImageRows(Content[j]) # {} THEN ImageRows(Content[j]) ELSE {j} :
            /\ image' = [image EXCEPT ![j] = i]
            /\ IF Results(i) # {}
               THEN \E r \in Results(i) :
                      row' = [row EXCEPT ![j] = [Blank("succeeded") EXCEPT
                                                   !.progress = 100, !.result = r]]
               ELSE row' = [row EXCEPT ![j] = Blank("queued")]
      BY <1>6 DEF InsertJob
    <2>2. up[j] = "stored" /\ up' = [up EXCEPT ![j] = "over"] /\ object' = object
      BY <1>6 DEF InsertJob
    <2>3. j \notin Inserted /\ row[j] = NoRow
      BY <1>t, <2>2 DEF ImageInv, Inserted
    <2>4. /\ row'[j].status \in {"queued", "succeeded"}
          /\ \A x \in Jobs \ {j} : row'[x] = row[x] /\ image'[x] = image[x]
          /\ image'[j] = i
      <3>1. \A r : [Blank("succeeded") EXCEPT !.progress = 100, !.result = r].status = "succeeded"
        BY DEF Blank
      <3>2. image' = [image EXCEPT ![j] = i] /\ row \in [Jobs -> Rows] /\ DOMAIN image = Jobs
        BY <1>t, <2>1 DEF TypeOK
      <3>3. CASE Results(i) # {}
        <4>1. PICK r \in Results(i) :
                row' = [row EXCEPT ![j] = [Blank("succeeded") EXCEPT
                                             !.progress = 100, !.result = r]]
          BY <2>1, <3>3
        <4> QED
          BY <3>1, <3>2, <4>1
      <3>4. CASE Results(i) = {}
        <4>1. row' = [row EXCEPT ![j] = Blank("queued")]
          BY <2>1, <3>4
        <4> QED
          BY <3>2, <4>1, BlankRow
      <3> QED
        BY <3>3, <3>4
    <2>5. i \in Jobs /\ object[i]["image"] = "whole" /\ up'[i] = "over"
      <3>1. \A x \in Inserted : /\ image[x] \in Jobs /\ up[image[x]] = "over"
                               /\ object[image[x]]["image"] = "whole"
        BY <1>t DEF ImageInv
      <3>2. CASE ImageRows(Content[j]) # {}
        <4>1. PICK x \in Inserted : i = image[x]
          BY <2>1, <3>2 DEF ImageRows
        <4> QED
          BY <1>t, <2>2, <3>1, <4>1 DEF TypeOK
      <3>3. CASE ImageRows(Content[j]) = {}
        <4>1. i = j /\ up'[j] = "over"
          BY <1>t, <2>1, <2>2, <3>3 DEF TypeOK
        <4> QED
          BY <1>t, <2>2, <3>3, <4>1 DEF ImageInv
      <3> QED
        BY <3>2, <3>3
    <2>6. Inserted' = Inserted \cup {j}
      <3>1. NoRow.status = "absent"
        BY BlankRow DEF NoRow
      <3> QED
        BY <2>3, <2>4, <3>1 DEF Inserted
    <2>7. \A c : ImageRows(c) # {} => ImageRows(c)' # {}
      <3> SUFFICES ASSUME NEW c, NEW x \in Inserted, Content[x] = c
                   PROVE  ImageRows(c)' # {}
        BY DEF ImageRows
      <3>1. x \in Inserted' /\ image'[x] \in ImageRows(c)'
        BY <2>6 DEF ImageRows
      <3> QED
        BY <3>1
    <2>8. ImageInv'
      <3>1. \A x \in Inserted' :
              /\ row'[x].status # "absent" /\ up'[x] = "over" /\ image'[x] \in Jobs
              /\ up'[image'[x]] = "over" /\ object'[image'[x]]["image"] = "whole"
        <4>1. \A x \in Inserted : x \in Jobs /\ x # j
          BY <2>3 DEF Inserted
        <4> QED
          BY <1>t, <2>2, <2>4, <2>5, <2>6, <4>1 DEF ImageInv, TypeOK
      <3>2. \A x \in Jobs : up'[x] = "stored" =>
              object'[x]["image"] = "whole" \/ ImageRows(Content[x])' # {}
        <4>1. \A x \in Jobs : up'[x] = "stored" => up[x] = "stored"
          BY <1>t, <2>2 DEF TypeOK
        <4>2. \A x \in Jobs : ImageRows(Content[x]) # {} => ImageRows(Content[x])' # {}
          BY <2>7
        <4> QED
          BY <1>t, <2>2, <4>1, <4>2 DEF ImageInv
      <3> QED
        BY <3>1, <3>2 DEF ImageInv
    <2>9. HoldInv'
      <3>1. \A w \in Workers : pc[w] # "idle" => cur[w] \in Inserted /\ cur[w] # j
        BY <1>t, <2>3 DEF HoldInv
      <3>2. made[j] = {} /\ j \notin picked /\ picked \subseteq Jobs
        BY <1>t, <1>n, <2>3 DEF HoldInv, TypeOK
      <3>3. \A w \in Workers : pc[w] \in Holding =>
              row'[cur[w]].status \notin {"absent", "queued"} /\ made[cur[w]] = {}
        BY <1>t, <2>4, <3>1 DEF HoldInv, Holding, Inserted
      <3> QED
        BY <1>t, <1>1, <2>4, <2>6, <3>1, <3>2, <3>3 DEF HoldInv
    <2>10. RowsReferToWholeObjects'
      <3>1. made[j] = {}
        BY <1>n, <2>3
      <3>2. \A x \in Inserted : x \in Jobs /\ x # j
        BY <2>3 DEF Inserted
      <3> QED
        BY <1>t, <1>1, <2>2, <2>4, <2>5, <2>6, <3>1, <3>2 DEF RowsReferToWholeObjects
    <2> QED
      BY <1>3, <2>8, <2>9, <2>10 DEF RecordInv
  <1>7. (row' = row /\ image' = image) \/ InsertJob(j)
    BY DEF Upload, StartUpload, FinishStoring, AbandonUpload
  <1> QED
    BY <1>5, <1>6, <1>7

LEMMA ReceiveStep ==
    ASSUME RecordInv, TypeOK', NEW w \in Workers, NEW j \in Jobs, Receive(w, j)
    PROVE  RecordInv'
  <1>1. TypeOK /\ ImageInv /\ HoldInv /\ SessionInv /\ StoredInv /\ RowsReferToWholeObjects
    BY DEF RecordInv
  <1> USE <1>1 DEF Receive, uploadVars, recordVars, sessionVars, outputVars, TypeOK
  <1>2. ImageInv' /\ RowsReferToWholeObjects'
    <2>1. Inserted' = Inserted
      BY DEF Inserted
    <2>2. \A c : ImageRows(c)' = ImageRows(c)
      BY <2>1 DEF ImageRows
    <2> QED
      BY <2>1, <2>2 DEF ImageInv, RowsReferToWholeObjects
  <1>3. HoldInv'
    BY DEF HoldInv, Holding, Inserted
  <1>4. SessionInv' /\ StoredInv'
    BY DEF SessionInv, StoredInv, RowLocked
  <1> QED
    BY <1>2, <1>3, <1>4 DEF RecordInv

LEMMA WatchdogStep ==
    ASSUME RecordInv, TypeOK', Watchdog
    PROVE  RecordInv'
  <1>1. TypeOK /\ ImageInv /\ HoldInv /\ SessionInv /\ StoredInv /\ RowsReferToWholeObjects
    BY DEF RecordInv
  <1> USE DEF uploadVars, recordVars, sessionVars, outputVars, taskVars
  <1>2. UNCHANGED <<pc, cur, copy, wrote, writing, todo, stored, made, object, up, image>>
    BY DEF Watchdog, ExpireSelect, ExpireCommit, ExpireDies
  <1>3. \A j \in Jobs : row'[j] = row[j] \/ (row'[j].status = "timeout" /\ j \in picked)
    BY <1>1, TimedOutRow DEF Watchdog, ExpireSelect, ExpireCommit, ExpireDies, TypeOK
  <1>4. Inserted' = Inserted
    <2>1. NoRow.status = "absent" /\ \A j \in picked : row[j] # NoRow
      BY <1>1, BlankRow DEF NoRow, HoldInv
    <2> QED
      BY <1>3, <2>1 DEF Inserted
  <1>5. \A j \in picked' : row'[j].status \notin {"absent", "queued"}
    <2>1. CASE ExpireSelect
      BY <2>1, <1>1 DEF ExpireSelect, Expirable, TypeOK
    <2>2. CASE ExpireCommit \/ ExpireDies
      BY <2>2 DEF ExpireCommit, ExpireDies
    <2> QED
      BY <2>1, <2>2 DEF Watchdog
  <1>6. HoldInv'
    <2>1. \A w \in Workers : pc[w] \in Holding => cur[w] \in Jobs
      BY <1>1 DEF HoldInv, Holding, Inserted
    <2> QED
      BY <1>1, <1>2, <1>3, <1>4, <1>5, <2>1 DEF HoldInv
  <1>7. ImageInv' /\ RowsReferToWholeObjects'
    <2>1. \A j \in Inserted : row'[j].status # "absent"
      BY <1>1, <1>3 DEF ImageInv, Inserted
    <2>2. \A c : ImageRows(c)' = ImageRows(c)
      BY <1>2, <1>4 DEF ImageRows
    <2> QED
      BY <1>1, <1>2, <1>4, <2>1, <2>2 DEF ImageInv, RowsReferToWholeObjects
  <1>8. SessionInv' /\ StoredInv'
    BY <1>1, <1>2 DEF SessionInv, StoredInv
  <1> QED
    BY <1>6, <1>7, <1>8 DEF RecordInv

LEMMA RecordStep == RecordInv /\ [Next]_vars => RecordInv'
  <1> SUFFICES ASSUME RecordInv, [Next]_vars PROVE RecordInv'
    OBVIOUS
  <1>1. TypeOK'
    BY RecordTypeStep DEF RecordInv
  <1>2. ASSUME NEW w \in Workers, Task(w) PROVE RecordInv'
    BY <1>1, <1>2, TaskEffects, TaskStep
  <1>3. CASE UNCHANGED vars
    <2> USE <1>3 DEF vars
    <2>1. Inserted' = Inserted
      BY DEF Inserted
    <2>2. \A c : ImageRows(c)' = ImageRows(c)
      BY <2>1 DEF ImageRows
    <2>3. ImageInv' /\ RowsReferToWholeObjects'
      BY <2>1, <2>2 DEF RecordInv, ImageInv, RowsReferToWholeObjects
    <2>4. HoldInv' /\ SessionInv' /\ StoredInv'
      BY <2>1 DEF RecordInv, HoldInv, SessionInv, StoredInv
    <2> QED
      BY <1>1, <2>3, <2>4 DEF RecordInv
  <1> QED
    BY <1>1, <1>2, <1>3, UploadStep, ReceiveStep, WatchdogStep DEF Next

\* A committed row refers to whole objects, whatever fails and whoever else uploads,
\* stores, commits or dies in the meantime.
THEOREM RowsAreWhole == Spec => []RowsReferToWholeObjects
  BY RecordInit, RecordStep, PTL DEF Spec, RecordInv
=============================================================================
