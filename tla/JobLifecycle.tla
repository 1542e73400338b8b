--------------------------- MODULE JobLifecycle ---------------------------
(***************************************************************************)
(* The life of an avatar job in PostgreSQL, from the upload request that   *)
(* inserts it to the terminal status a worker or the watchdog gives it.    *)
(*                                                                         *)
(*   - the upload request (AvatarJobService.create_job): the active-job    *)
(*     check, the lookup of a reusable result, the insert;                 *)
(*   - the workers (process_avatar_job): one step per committed or flushed *)
(*     statement, with the failure handlers and the death of the process;  *)
(*   - the watchdog (expire_stale_jobs): a SELECT, later a COMMIT;         *)
(*   - the result API (delete_result).                                     *)
(*                                                                         *)
(* How a message about a job reaches the broker is the Outbox module's     *)
(* subject.  Here the message of a queued job exists from the commit that   *)
(* inserts the job, and Publish(j) may add any number of copies of it      *)
(* (re-dispatch by another dispatcher, redelivery by the broker).          *)
(*                                                                         *)
(* A worker's statements run in one transaction.  What it has flushed but  *)
(* not committed is read off its pc: at "inserted" its result row, at      *)
(* "marked" that row, the job's result_id and the status SUCCEEDED.        *)
(***************************************************************************)
EXTENDS Naturals, FiniteSets

CONSTANTS
    Jobs,         \* job rows; each is also the request that may insert it
    NoJob,        \* no job, no result
    Workers,      \* pool processes of the GPU workers
    Owner,        \* Owner[j]: the user of job j
    Image,        \* Image[j]: the uploaded image of job j
    Faults,       \* which of AllFaults may happen
    HardLimitBeatsHeartbeat,
                  \* job_timeout_seconds < job_heartbeat_timeout_seconds
    MaxMsgs,      \* bound: copies of one job's message waiting in the broker
    ExpireLimit   \* LIMIT of the watchdog's SELECT

AllFaults ==
    { "soft",     \* SoftTimeLimitExceeded is raised in a task after its claim
      "stall",    \* the statements before the claim take as long as the limit
      "crash",    \* a pool process is killed
      "db",       \* a statement fails in the worker (connection refused or lost)
      "lock" }    \* the Redis active-job lock of a user expires or is lost

ASSUME NoJobAssumption == NoJob \notin Jobs
ASSUME FaultsAssumption == Faults \subseteq AllFaults
ASSUME OwnerAssumption == DOMAIN Owner = Jobs /\ DOMAIN Image = Jobs
ASSUME BoundsAssumption == /\ HardLimitBeatsHeartbeat \in BOOLEAN
                           /\ MaxMsgs \in Nat \ {0}
                           /\ ExpireLimit \in Nat \ {0}

VARIABLES
    req,      \* req[j]: where the upload request of j stands
    found,    \* found[j]: the reusable result it has looked up, or NoJob
    status,   \* status[j]: avatar_jobs.status, "absent" before the insert
    resultId, \* resultId[j]: avatar_jobs.result_id, named by the producing job
    stale,    \* stale[j]: the committed heartbeat_at is older than the cutoff
    result,   \* result[j]: the committed avatar_results row produced by j
    runs,     \* runs[j]: how often the pipeline was started on j (history)
    msgs,     \* msgs[j]: copies of j's message waiting in the broker
    pc,       \* pc[w]: the last step of process_avatar_job that w completed
    cur,      \* cur[w]: the job_id argument of the task w runs
    picked    \* the stale rows the watchdog has SELECTed and not yet committed

reqVars == <<req, found>>
jobVars == <<status, resultId, stale>>
taskVars == <<pc, cur>>
vars == <<req, found, status, resultId, stale, result, runs, msgs, pc, cur, picked>>

Requests == {"none", "checked", "hit", "missed"}
ActiveStatus == {"queued", "processing", "retrying"}
\* (Operators marked "slip" are plausible mistakes in the definition that follows
\* them.  The specification does not use them: each is put in that definition's
\* place to see a property fail.)
ClaimableWhileProcessing == ActiveStatus       \* slip: a redelivery resumes a job
Claimable == {"queued", "retrying"}
Terminal == {"succeeded", "failed", "timeout", "cancelled"}
Statuses == {"absent"} \cup ActiveStatus \cup Terminal

Holding == {"claimed", "running", "saving", "inserted", "marked"}
RowLocked == {"saving", "inserted", "marked"}
InsertPending == {"inserted", "marked"}
Steps == {"idle", "received", "committed"} \cup Holding

\* Two jobs whose results compete for one slot of the unique index on active
\* results (same user, image and versions; the versions are configuration).
SameKey(i, j) == Owner[i] = Owner[j] /\ Image[i] = Image[j]
ActiveResults(j) == {r \in Jobs : result[r] = "active" /\ SameKey(r, j)}
\* Rows of find_active_by_user, and of the unique index on active jobs.
ActiveJobs(j) == {i \in Jobs : Owner[i] = Owner[j] /\ status[i] \in ActiveStatus}

HeldBy(w, j) == cur[w] = j /\ pc[w] \in Holding
Held(j) == \E w \in Workers : HeldBy(w, j)
\* An uncommitted UPDATE keeps the row locked until its transaction ends.
LockedByOther(w, j) ==
    \E v \in Workers \ {w} : cur[v] = j /\ pc[v] \in RowLocked
Locked(j) == \E v \in Workers : cur[v] = j /\ pc[v] \in RowLocked

Init ==
    /\ req = [j \in Jobs |-> "none"]
    /\ found = [j \in Jobs |-> NoJob]
    /\ status = [j \in Jobs |-> "absent"]
    /\ resultId = [j \in Jobs |-> NoJob]
    /\ stale = [j \in Jobs |-> FALSE]
    /\ result = [j \in Jobs |-> "none"]
    /\ runs = [j \in Jobs |-> 0]
    /\ msgs = [j \in Jobs |-> 0]
    /\ pc = [w \in Workers |-> "idle"]
    /\ cur = [w \in Workers |-> NoJob]
    /\ picked = {}

----------------------------------------------------------------------------
(***************************************************************************)
(* The upload request.                                                     *)
(***************************************************************************)

\* slip: the active-job check is left to the unique index
AdmitUnchecked(j) ==
    /\ status[j] = "absent" /\ req[j] = "none"
    /\ \A i \in Jobs : Owner[i] = Owner[j] => req[i] = "none"
    /\ req' = [req EXCEPT ![j] = "checked"]
    /\ UNCHANGED <<found, jobVars, result, runs, msgs, taskVars, picked>>

\* The request holds the user's Redis lock from before the check until it
\* ends or its job is terminal, so two requests of one user overlap only when
\* the lock was lost.  A user with an active job is refused.
Admit(j) ==
    /\ status[j] = "absent" /\ req[j] = "none"
    /\ ActiveJobs(j) = {}
    /\ \/ "lock" \in Faults
       \/ \A i \in Jobs : Owner[i] = Owner[j] => req[i] = "none"
    /\ req' = [req EXCEPT ![j] = "checked"]
    /\ UNCHANGED <<found, jobVars, result, runs, msgs, taskVars, picked>>

\* The image is stored; find_active_by_image_version finds a result ...
LookupHit(j) ==
    /\ req[j] = "checked"
    /\ \E r \in ActiveResults(j) : found' = [found EXCEPT ![j] = r]
    /\ req' = [req EXCEPT ![j] = "hit"]
    /\ UNCHANGED <<jobVars, result, runs, msgs, taskVars, picked>>

\* ... and a SUCCEEDED job that refers to it is inserted and committed, whatever has
\* become of the result.
CommitHit(j) ==
    /\ req[j] = "hit"
    /\ resultId' = [resultId EXCEPT ![j] = found[j]]
    /\ status' = [status EXCEPT ![j] = "succeeded"]
    /\ req' = [req EXCEPT ![j] = "none"]
    /\ found' = [found EXCEPT ![j] = NoJob]
    /\ UNCHANGED <<stale, result, runs, msgs, taskVars, picked>>

LookupMiss(j) ==
    /\ req[j] = "checked"
    /\ ActiveResults(j) = {}
    /\ req' = [req EXCEPT ![j] = "missed"]
    /\ UNCHANGED <<found, jobVars, result, runs, msgs, taskVars, picked>>

\* slip: the unique index on active jobs is missing
InsertQueuedUnchecked(j) ==
    /\ req[j] = "missed"
    /\ status' = [status EXCEPT ![j] = "queued"]
    /\ req' = [req EXCEPT ![j] = "none"]
    /\ msgs' = [msgs EXCEPT ![j] = @ + 1]
    /\ UNCHANGED <<found, resultId, stale, result, runs, taskVars, picked>>
\* The QUEUED row and its outbox event are inserted and committed together.
InsertQueued(j) ==
    /\ req[j] = "missed"
    /\ ActiveJobs(j) = {}
    /\ status' = [status EXCEPT ![j] = "queued"]
    /\ req' = [req EXCEPT ![j] = "none"]
    /\ msgs' = [msgs EXCEPT ![j] = @ + 1]
    /\ UNCHANGED <<found, resultId, stale, result, runs, taskVars, picked>>

\* IntegrityError on the unique index: rollback, 429.
InsertRejected(j) ==
    /\ req[j] = "missed"
    /\ ActiveJobs(j) # {}
    /\ req' = [req EXCEPT ![j] = "none"]
    /\ UNCHANGED <<found, jobVars, result, runs, msgs, taskVars, picked>>

\* A refused upload, a failed save, a disconnect or a crash of the API: nothing
\* is committed and the admission is given back.
AbandonRequest(j) ==
    /\ req[j] # "none"
    /\ req' = [req EXCEPT ![j] = "none"]
    /\ found' = [found EXCEPT ![j] = NoJob]
    /\ UNCHANGED <<jobVars, result, runs, msgs, taskVars, picked>>

\* slip: the row itself is deleted
DeleteResultRow(r) ==
    /\ result[r] = "active"
    /\ result' = [result EXCEPT ![r] = "none"]
    /\ UNCHANGED <<reqVars, jobVars, runs, msgs, taskVars, picked>>
\* DELETE /avatar-results/{id}.
DeleteResult(r) ==
    /\ result[r] = "active"
    /\ result' = [result EXCEPT ![r] = "deleted"]
    /\ UNCHANGED <<reqVars, jobVars, runs, msgs, taskVars, picked>>

----------------------------------------------------------------------------
(***************************************************************************)
(* Delivery.  A cache-hit job (its resultId is another job's) has no       *)
(* message; every other inserted job may have any number of copies.        *)
(***************************************************************************)

Publish(j) ==
    /\ status[j] # "absent" /\ resultId[j] \in {NoJob, j}
    /\ msgs[j] < MaxMsgs
    /\ msgs' = [msgs EXCEPT ![j] = @ + 1]
    /\ UNCHANGED <<reqVars, jobVars, result, runs, taskVars, picked>>

Receive(w, j) ==
    /\ pc[w] = "idle" /\ msgs[j] > 0
    /\ msgs' = [msgs EXCEPT ![j] = @ - 1]
    /\ pc' = [pc EXCEPT ![w] = "received"]
    /\ cur' = [cur EXCEPT ![w] = j]
    /\ UNCHANGED <<reqVars, jobVars, result, runs, picked>>

----------------------------------------------------------------------------
(***************************************************************************)
(* The worker.                                                             *)
(***************************************************************************)

StepTo(w, p) == pc' = [pc EXCEPT ![w] = p] /\ cur' = cur
\* slip: the process keeps the task it has finished
EndTaskKeepsJob(w) == StepTo(w, "idle")
\* The task ends and its message is acknowledged; the session is closed, so
\* whatever was only flushed is rolled back.
EndTask(w) == pc' = [pc EXCEPT ![w] = "idle"] /\ cur' = [cur EXCEPT ![w] = NoJob]

\* claim_for_processing and its commit.  The UPDATE waits for the row lock and
\* then re-evaluates its WHERE clause.
ClaimForProcessing(w) ==
    LET j == cur[w] IN
    /\ pc[w] = "received"
    /\ ~LockedByOther(w, j)
    /\ status[j] \in Claimable
    /\ status' = [status EXCEPT ![j] = "processing"]
    /\ stale' = [stale EXCEPT ![j] = FALSE]
    /\ StepTo(w, "claimed")
    /\ UNCHANGED <<reqVars, resultId, result, runs, msgs, picked>>

\* No row updated (or the CANCELLED early return): rollback, return.
ClaimRefused(w) ==
    LET j == cur[w] IN
    /\ pc[w] = "received"
    /\ ~LockedByOther(w, j)
    /\ status[j] \notin Claimable
    /\ EndTask(w)
    /\ UNCHANGED <<reqVars, jobVars, result, runs, msgs, picked>>

\* The input is downloaded, the heartbeat touched and committed (progress 20),
\* and generate_cartoon_avatar entered.  touch_heartbeat never reads the status.
StartPipeline(w) ==
    LET j == cur[w] IN
    /\ pc[w] = "claimed"
    /\ ~LockedByOther(w, j)
    /\ stale' = [stale EXCEPT ![j] = FALSE]
    /\ runs' = [runs EXCEPT ![j] = @ + 1]
    /\ StepTo(w, "running")
    /\ UNCHANGED <<reqVars, status, resultId, result, msgs, picked>>

\* The pipeline returns and the heartbeat of progress 90 is flushed: from here
\* to the end of the transaction the row of the job is locked.
FinishPipeline(w) ==
    /\ pc[w] = "running"
    /\ ~LockedByOther(w, cur[w])
    /\ StepTo(w, "saving")
    /\ UNCHANGED <<reqVars, jobVars, result, runs, msgs, picked>>

\* The objects are saved and the result row is flushed.  An uncommitted row of
\* another worker with the same key makes the INSERT wait.
CreateResult(w) ==
    /\ pc[w] = "saving"
    /\ ActiveResults(cur[w]) = {}
    /\ \A v \in Workers \ {w} :
         pc[v] \in InsertPending => ~SameKey(cur[v], cur[w])
    /\ StepTo(w, "inserted")
    /\ UNCHANGED <<reqVars, jobVars, result, runs, msgs, picked>>

\* IntegrityError on the unique index of active results.  The handler runs on
\* the broken session: its first statement raises PendingRollbackError, which
\* leaves the task.  Nothing is committed.
InsertConflict(w) ==
    /\ pc[w] = "saving"
    /\ ActiveResults(cur[w]) # {}
    /\ EndTask(w)
    /\ UNCHANGED <<reqVars, jobVars, result, runs, msgs, picked>>

\* mark_succeeded, flushed.
MarkSucceeded(w) ==
    /\ pc[w] = "inserted"
    /\ StepTo(w, "marked")
    /\ UNCHANGED <<reqVars, jobVars, result, runs, msgs, picked>>

CommitSuccess(w) ==
    LET j == cur[w] IN
    /\ pc[w] = "marked"
    /\ status' = [status EXCEPT ![j] = "succeeded"]
    /\ resultId' = [resultId EXCEPT ![j] = j]
    /\ stale' = [stale EXCEPT ![j] = FALSE]
    /\ result' = [result EXCEPT ![j] = "active"]
    /\ StepTo(w, "committed")
    /\ UNCHANGED <<reqVars, runs, msgs, picked>>

\* The Redis keys of the job are released, still inside the try block.
ReleaseAndReturn(w) ==
    /\ pc[w] = "committed"
    /\ EndTask(w)
    /\ UNCHANGED <<reqVars, jobVars, result, runs, msgs, picked>>

----------------------------------------------------------------------------
(***************************************************************************)
(* What can go wrong in a worker.                                          *)
(***************************************************************************)

\* _mark_failed: it gives the job status s whatever the status was, and its
\* commit also commits what the try block had only flushed.
MarkFailed(w, s) ==
    LET j == cur[w] IN
    /\ ~LockedByOther(w, j)
    /\ status' = [status EXCEPT ![j] = s]
    /\ stale' = [stale EXCEPT ![j] = FALSE]
    /\ result' = [result EXCEPT ![j] =
                    IF pc[w] \in InsertPending THEN "active" ELSE @]
    /\ resultId' = [resultId EXCEPT ![j] = IF pc[w] = "marked" THEN j ELSE @]
    /\ EndTask(w)
    /\ UNCHANGED <<reqVars, runs, msgs, picked>>

\* The input cannot be read, the pipeline raises, runs out of memory or its
\* output cannot be saved.
PipelineError(w) ==
    /\ pc[w] \in {"claimed", "running", "saving"}
    /\ MarkFailed(w, "failed")

\* slip: the limit is shorter than the statements before the claim
SoftLimitStrikesAnywhere(w) == "soft" \in Faults /\ pc[w] # "idle"
\* SoftTimeLimitExceeded anywhere in the try block: after the claim, the Redis
\* calls that follow the commit included, or in the statements before it.
SoftLimitStrikes(w) ==
    \/ "soft" \in Faults /\ pc[w] \in Holding \cup {"committed"}
    \/ "stall" \in Faults /\ pc[w] = "received"

SoftLimit(w) ==
    /\ SoftLimitStrikes(w)
    /\ MarkFailed(w, "timeout")

\* The statement before the claim, or the refresh of the job after the commit,
\* fails to get a connection; the handler gets one.
ConnectionRefused(w) ==
    /\ "db" \in Faults
    /\ pc[w] \in {"received", "committed"}
    /\ MarkFailed(w, "failed")

\* The handler itself fails, or the soft limit is raised in it: the exception
\* leaves the task, the transaction is rolled back and the message acknowledged.
HandlerFails(w) ==
    /\ \/ "db" \in Faults /\ pc[w] # "idle"
       \/ SoftLimitStrikes(w)
    /\ EndTask(w)
    /\ UNCHANGED <<reqVars, jobVars, result, runs, msgs, picked>>

\* slip: the message of a killed process is acknowledged
DieAcknowledged(w) ==
    /\ "crash" \in Faults
    /\ pc[w] # "idle"
    /\ EndTask(w)
    /\ UNCHANGED <<reqVars, jobVars, result, runs, msgs, picked>>

\* The pool process is killed: at the hard limit, which acknowledges the
\* message, or otherwise, and then the broker gets the message back.
Die(w) ==
    LET j == cur[w] IN
    /\ "crash" \in Faults
    /\ pc[w] # "idle"
    /\ \/ msgs' = [msgs EXCEPT ![j] = @ + 1]
       \/ pc[w] # "received" /\ msgs' = msgs
    /\ EndTask(w)
    /\ UNCHANGED <<reqVars, jobVars, result, runs, picked>>

----------------------------------------------------------------------------
(***************************************************************************)
(* Time and the watchdog.                                                  *)
(***************************************************************************)

\* heartbeat_at falls behind the cutoff.  The pipeline does not refresh it, so
\* only the hard limit keeps the heartbeat of a live worker fresh.
HeartbeatGoesStale(j) ==
    /\ status[j] = "processing" /\ ~stale[j]
    /\ HardLimitBeatsHeartbeat => ~Held(j)
    /\ stale' = [stale EXCEPT ![j] = TRUE]
    /\ UNCHANGED <<reqVars, status, resultId, result, runs, msgs, taskVars, picked>>

\* slip: the heartbeat is not compared with the cutoff
ProcessingStaleOrNot == {j \in Jobs : status[j] = "processing"}
StaleProcessing == {j \in Jobs : status[j] = "processing" /\ stale[j]}

\* find_stale_processing.
ExpireSelect ==
    /\ picked = {}
    /\ \E S \in SUBSET StaleProcessing :
         /\ S # {}
         /\ S = StaleProcessing \/ Cardinality(S) = ExpireLimit
         /\ picked' = S
    /\ UNCHANGED <<reqVars, jobVars, result, runs, msgs, taskVars>>

\* The UPDATEs by primary key, which wait for row locks and do not look at the
\* status again, and the commit.
ExpireCommit ==
    /\ picked # {}
    /\ \A j \in picked : ~Locked(j)
    /\ status' = [j \in Jobs |-> IF j \in picked THEN "timeout" ELSE status[j]]
    /\ picked' = {}
    /\ UNCHANGED <<reqVars, resultId, stale, result, runs, msgs, taskVars>>

ExpireDies ==
    /\ "crash" \in Faults
    /\ picked # {}
    /\ picked' = {}
    /\ UNCHANGED <<reqVars, jobVars, result, runs, msgs, taskVars>>

----------------------------------------------------------------------------
Request(j) == \/ Admit(j) \/ LookupHit(j) \/ CommitHit(j) \/ LookupMiss(j)
              \/ InsertQueued(j) \/ InsertRejected(j) \/ AbandonRequest(j)

Task(w) == \/ ClaimForProcessing(w) \/ ClaimRefused(w) \/ StartPipeline(w)
           \/ FinishPipeline(w) \/ CreateResult(w) \/ InsertConflict(w)
           \/ MarkSucceeded(w) \/ CommitSuccess(w) \/ ReleaseAndReturn(w)
           \/ PipelineError(w) \/ SoftLimit(w) \/ ConnectionRefused(w)
           \/ HandlerFails(w) \/ Die(w)

Watchdog == ExpireSelect \/ ExpireCommit \/ ExpireDies

Next ==
    \/ \E j \in Jobs : \/ Request(j) \/ DeleteResult(j) \/ Publish(j)
                       \/ HeartbeatGoesStale(j)
    \/ \E w \in Workers, j \in Jobs : Receive(w, j)
    \/ \E w \in Workers : Task(w)
    \/ Watchdog

Spec == Init /\ [][Next]_vars

(***************************************************************************)
(* Fairness.  A task that has started does something (the hard limit sees  *)
(* to that); a delivery is eventually followed by a claim, because a       *)
(* process is not killed in the same few milliseconds for ever; beat keeps *)
(* scheduling the watchdog and it does not die at every run; time passes.  *)
(* Without any promise of deliveries it is WatchdogFairSpec.               *)
(***************************************************************************)
ClaimOf(j) == \E w \in Workers : cur[w] = j /\ ClaimForProcessing(w)
ReceiveOf(j) == \E w \in Workers : Receive(w, j)

WatchdogFairSpec ==
    /\ Spec
    /\ \A w \in Workers : WF_vars(Task(w))
    /\ \A j \in Jobs : WF_vars(HeartbeatGoesStale(j))
    /\ WF_vars(ExpireSelect)
    /\ SF_vars(ExpireCommit)

FairSpec ==
    /\ WatchdogFairSpec
    /\ \A j \in Jobs : SF_vars(ReceiveOf(j)) /\ SF_vars(ClaimOf(j))

----------------------------------------------------------------------------
(***************************************************************************)
(* Properties.                                                             *)
(***************************************************************************)

\* Every variable keeps its type.
TypeOK ==
    /\ req \in [Jobs -> Requests]
    /\ found \in [Jobs -> Jobs \cup {NoJob}]
    /\ status \in [Jobs -> Statuses]
    /\ resultId \in [Jobs -> Jobs \cup {NoJob}]
    /\ stale \in [Jobs -> BOOLEAN]
    /\ result \in [Jobs -> {"none", "active", "deleted"}]
    /\ runs \in [Jobs -> Nat]
    /\ msgs \in [Jobs -> Nat]
    /\ pc \in [Workers -> Steps]
    /\ cur \in [Workers -> Jobs \cup {NoJob}]
    /\ \A w \in Workers : cur[w] = NoJob <=> pc[w] = "idle"
    /\ picked \in SUBSET Jobs

\* However often a job's message is delivered, re-dispatched or redelivered
\* after a crash, the pipeline is started on the job at most once (the promise
\* of claim_for_processing).
PipelineAtMostOnce == \A j \in Jobs : runs[j] <= 1

\* A worker that is past the claim and has not yet committed works on a job
\* that is still PROCESSING: neither the watchdog nor another delivery has
\* given the job an outcome under its feet.
ClaimStillHolds ==
    \A w \in Workers : pc[w] \in Holding => status[cur[w]] = "processing"

\* The watchdog never times out a job whose worker is alive.
WatchdogSparesLiveWorkers == \A j \in picked : ~Held(j)

\* A result that a worker is about to insert has no active predecessor with
\* the same key: a computed avatar is never thrown away on the unique index of
\* active results, which would leave the job PROCESSING until the watchdog.
NoInsertConflict ==
    \A w \in Workers : pc[w] = "saving" => ActiveResults(cur[w]) = {}

\* A SUCCEEDED job has the result it promises: result_id names a row that was committed,
\* of the same user and image.  An answer from the cache holds to it too, although the
\* result may be deleted between its lookup and the commit of the job.
SucceededHasResult ==
    \A j \in Jobs : status[j] = "succeeded" =>
        /\ resultId[j] # NoJob
        /\ result[resultId[j]] # "none"
        /\ SameKey(resultId[j], j)

\* The reusable results of a user's image are never ambiguous.
ActiveResultUnique ==
    \A i, j \in Jobs : (result[i] = "active" /\ result[j] = "active" /\ SameKey(i, j))
                       => i = j

\* A job that ended never becomes active again: no late worker, no duplicate
\* delivery and no stale SELECT of the watchdog re-opens it.
EndedStaysEnded ==
    [][\A j \in Jobs : status[j] \in Terminal => status'[j] \in Terminal]_vars

\* Once a job SUCCEEDED only its own worker, still inside the try block after
\* the commit, can take that back.
SuccessLostOnlyByItsWorker ==
    [][\A j \in Jobs :
         (status[j] = "succeeded" /\ status'[j] # "succeeded")
         => \E w \in Workers : cur[w] = j /\ pc[w] = "committed"]_vars

\* What a client sees of job j: RETRYING would be a job that waits again.
PhaseOf(j) ==
    CASE status[j] = "absent" -> "none"
      [] status[j] \in {"queued", "retrying"} -> "waiting"
      [] status[j] = "processing" -> "running"
      [] status[j] \in Terminal -> "ended"

Contract == INSTANCE JobContract WITH phase <- [j \in Jobs |-> PhaseOf(j)]

\* The rows, messages, workers and the watchdog together keep what the service
\* promises to a client: one unfinished job per user, each job begun at most once
\* and only after it waited, never re-opened, and every accepted job ended.
KeepsContract == Contract!Spec

\* Under every fault the order of the promise and its one unfinished job per user
\* stand, and a job that has begun ends.
KeepsWatchedContract == Contract!WatchedSpec

(***************************************************************************)
(* The inductive invariants behind them (proved in JobLifecycleProofs).    *)
(***************************************************************************)

\* A row that is not there yet is referred to by nothing; only such a row has
\* an upload request in progress.
AbsentUntouched ==
    \A j \in Jobs :
      /\ req[j] # "none" => status[j] = "absent"
      /\ status[j] = "absent" =>
           /\ msgs[j] = 0
           /\ resultId[j] = NoJob
           /\ \A w \in Workers : cur[w] # j

\* A job that can still be claimed has never been started, no worker is past
\* its claim and the watchdog has not picked it.
ClaimableUntouched ==
    \A j \in Jobs : status[j] \in Claimable \cup {"absent"} =>
                     runs[j] = 0 /\ ~Held(j) /\ j \notin picked

\* At most one worker is past the claim of a job.
OneHolder ==
    \A v, w \in Workers :
      pc[v] \in Holding /\ pc[w] \in Holding /\ cur[v] = cur[w] => v = w

ClaimedNotStarted == \A w \in Workers : pc[w] = "claimed" => runs[cur[w]] = 0

\* Every claim is the first and the only one of its job.
ClaimInv == /\ TypeOK /\ AbsentUntouched /\ ClaimableUntouched /\ OneHolder
            /\ ClaimedNotStarted /\ PipelineAtMostOnce

\* Uncommitted result rows have different keys, and no active predecessor.
PendingUnique ==
    /\ \A w \in Workers : pc[w] \in InsertPending => ActiveResults(cur[w]) = {}
    /\ \A v, w \in Workers :
         pc[v] \in InsertPending /\ pc[w] \in InsertPending /\ SameKey(cur[v], cur[w])
         => v = w

\* result_id, or what is to become it, always names a committed row of the same key.
ResultRefersToRow ==
    \A j \in Jobs : /\ req[j] = "hit" => found[j] # NoJob
                    /\ \A r \in {resultId[j], found[j]} \ {NoJob} :
                         result[r] # "none" /\ SameKey(r, j)

ResultInv == /\ PendingUnique /\ ActiveResultUnique
             /\ ResultRefersToRow /\ SucceededHasResult

\* With default settings and no failing connection, what the watchdog picked or
\* may pick is PROCESSING without a worker, and a worker after its commit has an
\* ended job.
WatchdogInv ==
    /\ WatchdogSparesLiveWorkers
    /\ \A j \in picked : status[j] = "processing"
    /\ \A j \in StaleProcessing : ~Held(j)
    /\ \A w \in Workers : pc[w] = "committed" => status[cur[w]] \in Terminal

\* While the Redis lock works, a user has one request or one active job, and
\* an active job or a missed lookup means that no result is there to reuse.
AdmissionInv ==
    /\ \A i, j \in Jobs : Owner[i] = Owner[j] =>
         /\ req[i] # "none" /\ req[j] # "none" => i = j
         /\ status[i] \in ActiveStatus /\ status[j] \in ActiveStatus => i = j
         /\ ~(status[i] \in ActiveStatus /\ req[j] # "none")
    /\ \A j \in Jobs : status[j] \in ActiveStatus \/ req[j] = "missed"
                        => ActiveResults(j) = {}
============================================================================
