----------------------------- MODULE TaskRecord -----------------------------
(***************************************************************************)
(* What a job leaves behind: the columns of its avatar_jobs row, the       *)
(* stored objects its rows refer to, and the temporary files of its task.  *)
(*                                                                         *)
(* A SQLAlchemy session works on a copy of the row.  The copy is read when *)
(* the row is first used in a transaction, an UPDATE writes the columns in *)
(* which the copy was changed and no others, and a commit expires it.  So  *)
(* two sessions on one row, a worker's and the watchdog's, overwrite each  *)
(* other column by column.                                                 *)
(*                                                                         *)
(* Objects are not part of any transaction.  They are written before the   *)
(* rows that refer to them, on a local disk by truncating a file and       *)
(* filling it, on S3 at once.                                              *)
(*                                                                         *)
(* Who may claim a job, and that every job ends, is JobLifecycle's subject. *)
(* All jobs here are of one user.                                          *)
(***************************************************************************)
EXTENDS Naturals, FiniteSets

CONSTANTS
    Jobs, NoJob,
    Workers,
    Content,     \* Content[j]: the content (image_hash) of the upload of j
    Artifacts,   \* the artifacts a pipeline may return, of different basenames
    Deployments  \* records: storage backend, algorithm mode, whether the heartbeat
                 \* timeout is shorter than the hard time limit, the workers in
                 \* service and (a bound) the jobs that are uploaded

Modes == {"mock", "faceverse_v4", "unsupported"}

ASSUME JobAssumption == NoJob \notin Jobs /\ DOMAIN Content = Jobs
ASSUME ArtifactAssumption == Artifacts \cap {"image", "json", "preview", "nothing"} = {}
ASSUME DeploymentAssumption ==
    Deployments \subseteq
      [backend : {"local", "s3"}, mode : Modes, overtaking : BOOLEAN,
       workers : SUBSET Workers, uploads : SUBSET Jobs]

VARIABLES
    deployment, \* the settings, fixed
    up,      \* up[j]: where the upload request of j stands
    row,     \* row[j]: the committed avatar_jobs row, NoRow before the insert
    image,   \* image[j]: the upload whose uploaded_images row j refers to
    made,    \* made[j]: the committed rows about outputs of j: "json" (with its
             \* preview) is the result row, the others are artifact rows
    object,  \* object[j][k]: the stored object of kind k under the key of j
    pc, cur, \* per worker: the last completed step of its task, and its job
    copy,    \* copy[w]: the session's copy of the row; Expired after a commit
    wrote,   \* wrote[w]: the columns flushed in the open transaction
    writing, \* writing[w]: the object that is being stored
    todo,    \* todo[w]: the objects of the pipeline's output still to be stored
    stored,  \* stored[w]: those that the task has stored and not yet committed
    temp,    \* temp[w]: temporary files of the task
    left,    \* left[j]: temporary files that outlived a task of j
    picked   \* the stale rows the watchdog has SELECTed

recordVars == <<row, made>>
uploadVars == <<up, image>>
sessionVars == <<copy, wrote>>
outputVars == <<writing, todo, stored>>
taskVars == <<pc, cur, sessionVars, outputVars, temp>>
vars == <<deployment, up, row, image, made, object, pc, cur, copy, wrote,
          writing, todo, stored, temp, left, picked>>

Optional == {"preview"} \cup Artifacts
Outputs == {"json"} \cup Optional
Kinds == {"image"} \cup Outputs

ErrorCodes == {"NOT_FOUND", "INVALID_IMAGE_FORMAT", "NO_FACE_DETECTED",
               "MODEL_INFERENCE_FAILED", "CUDA_OOM", "INTERNAL_ERROR",
               "PROCESSING_TIMEOUT"}
Columns == {"status", "progress", "error", "finished", "result"}
Rows == [status : {"absent", "expired", "queued", "processing",
                  "succeeded", "failed", "timeout"},
         progress : {0, 5, 20, 90, 99, 100},
         error : ErrorCodes \cup {"none"},
         finished : BOOLEAN,
         result : Jobs \cup {NoJob}]
Blank(s) == [status |-> s, progress |-> 0, error |-> "none", finished |-> FALSE,
             result |-> NoJob]
NoRow == Blank("absent")
Expired == Blank("expired")

Holding == {"claimed", "fetching", "fetched", "running", "loaded", "saving",
            "inserted", "marked"}
RowLocked == {"saving", "inserted", "marked"}
Steps == {"idle", "received", "read", "committed", "leaving"} \cup Holding

Held(j) == \E w \in Workers : cur[w] = j /\ pc[w] \in Holding
Locked(j) == \E w \in Workers : cur[w] = j /\ pc[w] \in RowLocked
Inserted == {j \in Jobs : row[j] # NoRow}
ActiveJobs == {j \in Inserted : row[j].status \in {"queued", "processing"}}
\* The image row of a content, and the reusable result of an image row.
ImageRows(c) == {image[j] : j \in {i \in Inserted : Content[i] = c}}
Results(i) == {j \in Inserted : image[j] = i /\ "json" \in made[j]}

Init ==
    /\ deployment \in Deployments
    /\ up = [j \in Jobs |-> "none"]
    /\ row = [j \in Jobs |-> NoRow]
    /\ image = [j \in Jobs |-> NoJob]
    /\ made = [j \in Jobs |-> {}]
    /\ object = [j \in Jobs |-> [k \in Kinds |-> "none"]]
    /\ pc = [w \in Workers |-> "idle"]
    /\ cur = [w \in Workers |-> NoJob]
    /\ copy = [w \in Workers |-> Expired]
    /\ wrote = [w \in Workers |-> {}]
    /\ writing = [w \in Workers |-> "nothing"]
    /\ todo = [w \in Workers |-> {}]
    /\ stored = [w \in Workers |-> {}]
    /\ temp = [w \in Workers |-> {}]
    /\ left = [j \in Jobs |-> {}]
    /\ picked = {}

\* Opening a local file truncates it; a put to S3 shows nothing before its end.
OpenObject(j, k) ==
    object' = IF deployment.backend = "local"
              THEN [object EXCEPT ![j][k] = "partial"] ELSE object
FillObject(j, k) == object' = [object EXCEPT ![j][k] = "whole"]

----------------------------------------------------------------------------
(***************************************************************************)
(* The upload.                                                             *)
(***************************************************************************)

\* No active job, and a readable image.  One that has been uploaded before is
\* not stored again; another is stored under the key of a new image id.
StartUpload(j) ==
    /\ j \in deployment.uploads /\ up[j] = "none" /\ ActiveJobs = {}
    /\ IF ImageRows(Content[j]) # {}
       THEN up' = [up EXCEPT ![j] = "stored"] /\ UNCHANGED object
       ELSE up' = [up EXCEPT ![j] = "storing"] /\ OpenObject(j, "image")
    /\ UNCHANGED <<deployment, recordVars, image, taskVars, left, picked>>

FinishStoring(j) ==
    /\ up[j] = "storing"
    /\ FillObject(j, "image")
    /\ up' = [up EXCEPT ![j] = "stored"]
    /\ UNCHANGED <<deployment, recordVars, image, taskVars, left, picked>>

\* get_or_create_by_hash looks once more, so that another upload's row may win
\* over the object just stored; then the job, answered from a result of the image
\* or QUEUED, and the commit.
InsertJob(j) ==
    /\ up[j] = "stored" /\ ActiveJobs = {}
    /\ \E i \in IF ImageRows(Content[j]) # {} THEN ImageRows(Content[j]) ELSE {j} :
         /\ image' = [image EXCEPT ![j] = i]
         /\ IF Results(i) # {}
            THEN \E r \in Results(i) :
                   row' = [row EXCEPT ![j] = [Blank("succeeded") EXCEPT
                                                !.progress = 100, !.result = r]]
            ELSE row' = [row EXCEPT ![j] = Blank("queued")]
    /\ up' = [up EXCEPT ![j] = "over"]
    /\ UNCHANGED <<deployment, made, object, taskVars, left, picked>>

\* The object cannot be stored, the insert meets a unique index, the API dies.
AbandonUpload(j) ==
    /\ up[j] \in {"storing", "stored"}
    /\ up' = [up EXCEPT ![j] = "over"]
    /\ UNCHANGED <<deployment, recordVars, image, object, taskVars, left, picked>>

----------------------------------------------------------------------------
(***************************************************************************)
(* The session of a task.                                                  *)
(***************************************************************************)

\* The copy a statement of the task works on: read again after a commit.
Copy(w) == IF copy[w] = Expired THEN row[cur[w]] ELSE copy[w]
Differing(old, new) == {c \in Columns : new[c] # old[c]}
\* The row with the columns cols of a copy written into it.
Updated(old, cols, new) == [c \in Columns |-> IF c \in cols THEN new[c] ELSE old[c]]

\* Attributes are set and flushed, not yet committed.
Flush(w, new) ==
    /\ copy' = [copy EXCEPT ![w] = new]
    /\ wrote' = [wrote EXCEPT ![w] = @ \cup Differing(Copy(w), new)]

\* slip: an artifact's row is flushed before its object is stored
FlushedRowsEarly(w) ==
    IF pc[w] \in {"inserted", "marked"} THEN stored[w]
    ELSE (stored[w] \cup {writing[w]}) \cap Artifacts
\* The rows a task has flushed besides its job's: one for each stored artifact,
\* and after the last INSERT the result with its JSON and preview keys.
FlushedRows(w) ==
    IF pc[w] \in {"inserted", "marked"} THEN stored[w] ELSE stored[w] \cap Artifacts

\* Attributes are set, flushed and committed with all that was flushed before.
Commit(w, new) ==
    LET j == cur[w] IN
    /\ row' = [row EXCEPT ![j] =
                 Updated(@, wrote[w] \cup Differing(Copy(w), new), new)]
    /\ made' = [made EXCEPT ![j] = @ \cup FlushedRows(w)]
    /\ copy' = [copy EXCEPT ![w] = Expired]
    /\ wrote' = [wrote EXCEPT ![w] = {}]
    /\ writing' = [writing EXCEPT ![w] = "nothing"]
    /\ todo' = [todo EXCEPT ![w] = {}]
    /\ stored' = [stored EXCEPT ![w] = {}]

\* Everything flushed is lost; the objects stay.
Rollback(w) ==
    /\ copy' = [copy EXCEPT ![w] = Expired]
    /\ wrote' = [wrote EXCEPT ![w] = {}]
    /\ writing' = [writing EXCEPT ![w] = "nothing"]
    /\ todo' = [todo EXCEPT ![w] = {}]
    /\ stored' = [stored EXCEPT ![w] = {}]
    /\ UNCHANGED recordVars

Goto(w, s) == pc' = [pc EXCEPT ![w] = s] /\ cur' = cur
Free(w) == \A v \in Workers \ {w} : ~(cur[v] = cur[w] /\ pc[v] \in RowLocked)

----------------------------------------------------------------------------
(***************************************************************************)
(* The task, as far as it goes well.                                       *)
(***************************************************************************)

Receive(w, j) ==
    /\ w \in deployment.workers /\ pc[w] = "idle"
    /\ j \in Inserted /\ row[j].result \in {NoJob, j}
    /\ pc' = [pc EXCEPT ![w] = "received"]
    /\ cur' = [cur EXCEPT ![w] = j]
    /\ UNCHANGED <<deployment, uploadVars, recordVars, object, sessionVars,
                   outputVars, temp, left, picked>>

ReadJob(w) ==
    /\ pc[w] = "received"
    /\ copy' = [copy EXCEPT ![w] = Copy(w)]
    /\ Goto(w, "read")
    /\ UNCHANGED <<deployment, uploadVars, recordVars, object, wrote, outputVars,
                   temp, left, picked>>

Claimable == {"queued"}
\* An UPDATE of its own, with the status in the WHERE clause, and its commit.
ClaimForProcessing(w) ==
    /\ pc[w] = "read" /\ Free(w)
    /\ row[cur[w]].status \in Claimable
    /\ row' = [row EXCEPT ![cur[w]].status = "processing", ![cur[w]].progress = 5]
    /\ copy' = [copy EXCEPT ![w] = Expired]
    /\ Goto(w, "claimed")
    /\ UNCHANGED <<deployment, uploadVars, made, object, wrote, outputVars, temp,
                   left, picked>>

ClaimRefused(w) ==
    /\ pc[w] = "read" /\ Free(w)
    /\ row[cur[w]].status \notin Claimable
    /\ Rollback(w)
    /\ Goto(w, "leaving")
    /\ UNCHANGED <<deployment, uploadVars, object, temp, left, picked>>

\* get_local_path makes the file, and the download begins.
BeginFetch(w) ==
    /\ pc[w] = "claimed"
    /\ copy' = [copy EXCEPT ![w] = Copy(w)]
    /\ temp' = [temp EXCEPT ![w] = {"input"}]
    /\ Goto(w, "fetching")
    /\ UNCHANGED <<deployment, uploadVars, recordVars, object, wrote, outputVars,
                   left, picked>>

\* It returns, and the work directory is made.
FinishFetch(w) ==
    /\ pc[w] = "fetching"
    /\ object[image[cur[w]]]["image"] # "none"
    /\ temp' = [temp EXCEPT ![w] = {"input", "work"}]
    /\ Goto(w, "fetched")
    /\ UNCHANGED <<deployment, uploadVars, recordVars, object, sessionVars,
                   outputVars, left, picked>>

\* The heartbeat of progress 20 is committed and the pipeline entered.
StartPipeline(w) ==
    /\ pc[w] = "fetched" /\ Free(w)
    /\ Commit(w, [Copy(w) EXCEPT !.progress = 20])
    /\ Goto(w, "running")
    /\ UNCHANGED <<deployment, uploadVars, object, temp, left, picked>>

\* The pipeline returns, with any of the optional outputs that a PipelineResult may
\* name; touch_heartbeat reads the row ...
FinishPipeline(w) ==
    /\ pc[w] = "running"
    /\ \E out \in SUBSET Optional :
         todo' = [todo EXCEPT ![w] = {"json"} \cup out]
    /\ copy' = [copy EXCEPT ![w] = Copy(w)]
    /\ Goto(w, "loaded")
    /\ UNCHANGED <<deployment, uploadVars, recordVars, object, wrote, writing,
                   stored, temp, left, picked>>

\* ... and flushes progress 90, which locks the row.
BuildResult(w) ==
    /\ pc[w] = "loaded" /\ Free(w)
    /\ Flush(w, [Copy(w) EXCEPT !.progress = 90])
    /\ Goto(w, "saving")
    /\ UNCHANGED <<deployment, uploadVars, recordVars, object, outputVars, temp,
                   left, picked>>

\* First the JSON, then the preview, then the artifacts.
NextToStore(w) ==
    IF "json" \in todo[w] THEN {"json"}
    ELSE IF "preview" \in todo[w] THEN {"preview"} ELSE todo[w]

BeginStore(w) ==
    /\ pc[w] = "saving" /\ writing[w] = "nothing"
    /\ \E k \in NextToStore(w) :
         /\ writing' = [writing EXCEPT ![w] = k]
         /\ OpenObject(cur[w], k)
    /\ UNCHANGED <<deployment, uploadVars, recordVars, pc, cur, sessionVars, todo,
                   stored, temp, left, picked>>

StoredUnrecorded(w) == stored[w]   \* slip: no row is made for the object
StoredNow(w) == stored[w] \cup {writing[w]}
FinishStore(w) ==
    /\ pc[w] = "saving" /\ writing[w] # "nothing"
    /\ FillObject(cur[w], writing[w])
    /\ todo' = [todo EXCEPT ![w] = @ \ {writing[w]}]
    /\ stored' = [stored EXCEPT ![w] = StoredNow(w)]
    /\ writing' = [writing EXCEPT ![w] = "nothing"]
    /\ UNCHANGED <<deployment, uploadVars, recordVars, pc, cur, sessionVars, temp,
                   left, picked>>

\* Everything is stored and the result row is inserted, unless the image has a
\* result; a row that another session is about to commit makes the INSERT wait.
InsertResult(w) ==
    /\ pc[w] = "saving" /\ todo[w] = {}
    /\ Results(image[cur[w]]) = {}
    /\ \A v \in Workers : pc[v] \in {"inserted", "marked"} => image[cur[v]] # image[cur[w]]
    /\ Goto(w, "inserted")
    /\ UNCHANGED <<deployment, uploadVars, recordVars, object, sessionVars,
                   outputVars, temp, left, picked>>

\* IntegrityError; the handler's first statement fails on the broken session.
InsertConflict(w) ==
    /\ pc[w] = "saving" /\ todo[w] = {}
    /\ Results(image[cur[w]]) # {}
    /\ Rollback(w)
    /\ Goto(w, "leaving")
    /\ UNCHANGED <<deployment, uploadVars, object, temp, left, picked>>

Success(w) == [status |-> "succeeded", progress |-> 100, error |-> "none",
               finished |-> TRUE, result |-> cur[w]]

MarkSucceeded(w) ==
    /\ pc[w] = "inserted"
    /\ Flush(w, Success(w))
    /\ Goto(w, "marked")
    /\ UNCHANGED <<deployment, uploadVars, recordVars, object, outputVars, temp,
                   left, picked>>

CommitSuccess(w) ==
    /\ pc[w] = "marked"
    /\ Commit(w, copy[w])
    /\ Goto(w, "committed")
    /\ UNCHANGED <<deployment, uploadVars, object, temp, left, picked>>

\* The Redis keys are released: the try block ends.
EndTry(w) ==
    /\ pc[w] = "committed"
    /\ Goto(w, "leaving")
    /\ UNCHANGED <<deployment, uploadVars, recordVars, object, sessionVars,
                   outputVars, temp, left, picked>>

----------------------------------------------------------------------------
(***************************************************************************)
(* The handlers, the finally block and the death of the process.           *)
(***************************************************************************)

Uncapped(p) == p                              \* slip
CappedBelow(p) == IF p >= 98 THEN 98 ELSE p   \* slip: off by one
\* A job that failed does not show 100 percent.
Capped(p) == IF p > 99 THEN 99 ELSE p
\* The columns mark_failed sets.
Failure(old, s, e) == [old EXCEPT !.status = s, !.error = e, !.finished = TRUE,
                                  !.progress = Capped(@)]

MarkFailed(w, s, e) ==
    /\ Free(w)
    /\ Commit(w, Failure(Copy(w), s, e))
    /\ Goto(w, "leaving")
    /\ UNCHANGED <<deployment, uploadVars, object, temp, left, picked>>

\* What the exceptions of the pipeline become, by the algorithm mode.
PipelineErrors ==
    CASE deployment.mode = "mock" -> {"INTERNAL_ERROR"}
      [] deployment.mode = "unsupported" -> {"MODEL_INFERENCE_FAILED"}
      [] deployment.mode = "faceverse_v4" ->
           {"MODEL_INFERENCE_FAILED", "NOT_FOUND", "INVALID_IMAGE_FORMAT",
            "NO_FACE_DETECTED", "CUDA_OOM", "INTERNAL_ERROR"}

PipelineFails(w) ==
    /\ pc[w] = "running"
    /\ \E e \in PipelineErrors : MarkFailed(w, "failed", e)

\* There is no connection for the first statement or after the last commit; the disk,
\* a download or a put fails.  (Where a statement fails in its transaction, so does
\* the handler.)
WorkerFails(w) ==
    /\ pc[w] \in {"received", "claimed", "fetching", "fetched", "saving", "committed"}
    /\ MarkFailed(w, "failed", "INTERNAL_ERROR")

SoftLimit(w) ==
    /\ pc[w] \in Holding \cup {"committed"}
    /\ MarkFailed(w, "timeout", "PROCESSING_TIMEOUT")

\* The handler fails too, with the connection or at the soft limit.
HandlerFails(w) ==
    /\ pc[w] \notin {"idle", "leaving"}
    /\ Rollback(w)
    /\ Goto(w, "leaving")
    /\ UNCHANGED <<deployment, uploadVars, object, temp, left, picked>>

NamedInputOnly(w) == {"input"}   \* slip: the work directory stays
\* The temporary files the task has a variable for: input_image_path is assigned
\* when get_local_path returns.
Named(w) == IF "work" \in temp[w] THEN {"input", "work"} ELSE {}

Leave(w, removed) ==
    /\ left' = [left EXCEPT ![cur[w]] = @ \cup (temp[w] \ removed)]
    /\ temp' = [temp EXCEPT ![w] = {}]
    /\ pc' = [pc EXCEPT ![w] = "idle"]
    /\ cur' = [cur EXCEPT ![w] = NoJob]

\* The finally block, and the end of the task.
Cleanup(w) ==
    /\ pc[w] = "leaving"
    /\ Rollback(w)
    /\ Leave(w, Named(w))
    /\ UNCHANGED <<deployment, uploadVars, object, picked>>

\* The process is killed, or the soft limit is raised in the finally block.
Die(w) ==
    /\ pc[w] # "idle"
    /\ Rollback(w)
    /\ Leave(w, {})
    /\ UNCHANGED <<deployment, uploadVars, object, picked>>

----------------------------------------------------------------------------
(***************************************************************************)
(* The watchdog.  Its SELECT copies rows that are PROCESSING, so that each  *)
(* column it sets differs from the copy and is written.                    *)
(***************************************************************************)

Expirable == {j \in Inserted : row[j].status = "processing"
                               /\ (deployment.overtaking \/ ~Held(j))}

ExpireSelect ==
    /\ picked = {}
    /\ \E S \in SUBSET Expirable \ {{}} : picked' = S
    /\ UNCHANGED <<deployment, uploadVars, recordVars, object, taskVars, left>>

TimedOut(old) ==
    [old EXCEPT !.status = "timeout", !.error = "PROCESSING_TIMEOUT", !.finished = TRUE]

ExpireCommit ==
    /\ picked # {} /\ \A j \in picked : ~Locked(j)
    /\ row' = [j \in Jobs |-> IF j \in picked THEN TimedOut(row[j]) ELSE row[j]]
    /\ picked' = {}
    /\ UNCHANGED <<deployment, uploadVars, made, object, taskVars, left>>

ExpireDies ==
    /\ picked # {}
    /\ picked' = {}
    /\ UNCHANGED <<deployment, uploadVars, recordVars, object, taskVars, left>>

----------------------------------------------------------------------------
Upload(j) == StartUpload(j) \/ FinishStoring(j) \/ InsertJob(j) \/ AbandonUpload(j)

Task(w) == \/ ReadJob(w) \/ ClaimForProcessing(w) \/ ClaimRefused(w) \/ BeginFetch(w)
           \/ FinishFetch(w) \/ StartPipeline(w) \/ FinishPipeline(w) \/ BuildResult(w)
           \/ BeginStore(w) \/ FinishStore(w) \/ InsertResult(w)
           \/ InsertConflict(w) \/ MarkSucceeded(w) \/ CommitSuccess(w)
           \/ EndTry(w) \/ PipelineFails(w) \/ WorkerFails(w) \/ SoftLimit(w)
           \/ HandlerFails(w) \/ Cleanup(w) \/ Die(w)

Watchdog == ExpireSelect \/ ExpireCommit \/ ExpireDies

Next == \/ \E j \in Jobs : Upload(j)
        \/ \E w \in Workers, j \in Jobs : Receive(w, j)
        \/ \E w \in Workers : Task(w)
        \/ Watchdog

Spec == Init /\ [][Next]_vars

----------------------------------------------------------------------------
(***************************************************************************)
(* Properties.                                                             *)
(***************************************************************************)

\* Every variable keeps its type.
TypeOK ==
    /\ deployment \in Deployments
    /\ up \in [Jobs -> {"none", "storing", "stored", "over"}]
    /\ row \in [Jobs -> Rows]
    /\ image \in [Jobs -> Jobs \cup {NoJob}]
    /\ made \in [Jobs -> SUBSET Outputs]
    /\ object \in [Jobs -> [Kinds -> {"none", "partial", "whole"}]]
    /\ pc \in [Workers -> Steps]
    /\ cur \in [Workers -> Jobs \cup {NoJob}]
    /\ \A w \in Workers : cur[w] = NoJob <=> pc[w] = "idle"
    /\ copy \in [Workers -> Rows]
    /\ wrote \in [Workers -> SUBSET Columns]
    /\ writing \in [Workers -> Outputs \cup {"nothing"}]
    /\ todo \in [Workers -> SUBSET Outputs]
    /\ stored \in [Workers -> SUBSET Outputs]
    /\ temp \in [Workers -> SUBSET {"input", "work"}]
    /\ left \in [Jobs -> SUBSET {"input", "work"}]
    /\ picked \in SUBSET Jobs

\* Whatever the order in which workers, handlers and the watchdog write their
\* columns of a row, the columns of an outcome agree.  (The error code of a SUCCEEDED
\* job is not among them: the worker's copy may not know what it has to clear.)
ColumnsAgree ==
    \A j \in Inserted : LET r == row[j] IN
      /\ r.status \in {"queued", "processing"} =>
           r.error = "none" /\ ~r.finished /\ r.result = NoJob /\ r.progress <= 20
      /\ r.status = "failed" =>
           r.error \notin {"none", "PROCESSING_TIMEOUT"} /\ r.finished /\ r.progress <= 99
      /\ r.status = "timeout" => /\ r.error = "PROCESSING_TIMEOUT" /\ r.finished
                                 /\ deployment.overtaking \/ r.progress <= 99
      /\ r.status = "succeeded" => r.progress = 100 /\ r.result # NoJob

\* A committed row refers to whole objects: no crash, failed write or later
\* upload leaves a row whose image, result or artifact is missing or cut short.
RowsReferToWholeObjects ==
    \A j \in Inserted :
      /\ object[image[j]]["image"] = "whole"
      /\ \A k \in made[j] : object[j][k] = "whole"

\* Objects without a row are those of uploads and tasks that failed: every object
\* under the key of a SUCCEEDED job is one its rows name.
SucceededLeavesNoOrphan ==
    \A j \in Inserted : row[j].status = "succeeded" =>
      \A k \in Outputs : object[j][k] # "none" => k \in made[j]

\* A temporary file outlives its task only if the process was killed or the
\* download of the input did not return.
FilesLeftOnlyByFetchOrDeath ==
    [][\A j \in Jobs : left'[j] # left[j] =>
         \E w \in Workers : cur[w] = j /\ (temp[w] = {"input"} \/ Die(w))]_vars

----------------------------------------------------------------------------
(***************************************************************************)
(* The inductive invariant behind RowsReferToWholeObjects.                 *)
(***************************************************************************)

\* Who has inserted a job has a whole image object under the image's own key, which
\* no upload will open again.
ImageInv ==
    /\ \A j \in Inserted : /\ row[j].status # "absent"
                           /\ up[j] = "over" /\ image[j] \in Jobs
                           /\ up[image[j]] = "over"
                           /\ object[image[j]]["image"] = "whole"
    /\ \A j \in Jobs : up[j] = "stored" =>
         object[j]["image"] = "whole" \/ ImageRows(Content[j]) # {}

\* A job is held by one worker, from its claim on, and has made nothing before.
HoldInv ==
    /\ \A w \in Workers : pc[w] # "idle" => cur[w] \in Inserted
    /\ \A w \in Workers : pc[w] \in Holding =>
         row[cur[w]].status \notin {"absent", "queued"} /\ made[cur[w]] = {}
    /\ \A v, w \in Workers :
         pc[v] \in Holding /\ pc[w] \in Holding /\ cur[v] = cur[w] => v = w
    /\ \A j \in Jobs : row[j].status \in {"absent", "queued"} => made[j] = {}
    /\ \A j \in picked : row[j].status \notin {"absent", "queued"}

\* A session keeps the status that it read, until it marks the success.
SessionInv ==
    /\ \A w \in Workers : pc[w] \notin RowLocked => wrote[w] = {}
    /\ \A w \in Workers : pc[w] = "marked" => copy[w].status = "succeeded"

\* What a task has stored is whole, and is not stored again.
StoredInv ==
    \A w \in Workers :
      /\ pc[w] \notin RowLocked => stored[w] = {}
      /\ pc[w] # "saving" => writing[w] = "nothing"
      /\ writing[w] # "nothing" => writing[w] \in todo[w]
      /\ \A k \in stored[w] : object[cur[w]][k] = "whole" /\ k \notin todo[w]

RecordInv == /\ TypeOK /\ ImageInv /\ HoldInv /\ SessionInv /\ StoredInv
             /\ RowsReferToWholeObjects
=============================================================================
