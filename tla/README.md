# Avatar backend: TLA+ specifications

The avatar backend turns an uploaded face image into a cartoon avatar. An upload becomes
a *job* in PostgreSQL, a Celery worker with a GPU computes the result, and the client polls.
This directory holds TLA+ models of the parts that several processes share, the TLC
configurations that check them on small instances, and TLAPS proofs of the properties that
matter most. Source paths below are relative to `src/`.

## 1. Inventory

| component | state it keeps | operations | talks to |
|---|---|---|---|
| upload service (`app/services/avatar_job_service.py`) | none of its own; one DB transaction per request | `create_job`: admission, active-job check, image dedupe, reuse of a result, insert of job and outbox event | Redis admission, storage, DB |
| Redis admission (`app/services/rate_limit_service.py`) | per-user active-job lock, global capacity counter, both with a TTL | acquire, bind, remember, release (best effort) | upload service, workers, watchdog |
| outbox (`outbox_event_repository.py`, `dispatch_outbox`, `redispatch_stale_queued_jobs` in `app/workers/avatar_tasks.py`) | `outbox_events` rows: status, retry_count, next_retry_at, locked_at | claim, publish, mark sent / failed, re-dispatch | DB, broker |
| broker (Redis through Celery) | queued messages | deliver, redeliver | outbox, workers |
| generation worker (`process_avatar_job`) | one transaction; the job row: status, heartbeat_at, result_id | claim, heartbeat, pipeline, insert result, success, failure handlers | DB, storage, Redis |
| watchdog (`expire_stale_jobs`) | none | select stale PROCESSING jobs, time them out | DB, Redis |
| result service (`avatar_result_service.py`) | `avatar_results.status` | read, list, soft delete | DB |
| object storage (`storage_service.py`) | objects by key (files or S3) | put, get, delete by prefix | upload service, workers |
| API process (`main.py`, `db/session.py`) | event loop, connection pool | async handlers on a synchronous DB session | all services |
| pipeline (`app/algorithms`) | none shared | one long computation | worker |
| migrations (`migrations/`, `scripts/docker-entrypoint.sh`) | `alembic_version`, the schema | upgrade, downgrade | containers as they start, an operator |

What is hard in this system is not one component but the seams: every message may come
twice, a worker may die between any two statements, two time limits and a heartbeat timeout
race each other, the SELECT of a system task is separated from its UPDATE, and Redis state
with a TTL guards database state without one. `PROJECT.json` lists each hazard at its line.

What makes each component correct:

* worker and watchdog: the pipeline runs once per job; an ended job stays ended; nothing
  takes a job from a live worker; every job ends; SUCCEEDED always has its result.
* outbox: SENT means published; no job has two open events; every event settles for good; every queued job
  is eventually claimed.
* admission: at most one upload in progress per user; the counter never counts fewer than
  the jobs in the system, and drifts by one per fault at most.
* job record: the columns of a row agree, whoever wrote them last; a row refers to whole objects; a
  succeeded job leaves no orphan; temporary files go with their task.
* storage: a `delete_prefix` that returns has removed what was under its prefix, except what S3 refused to delete, and
  only what starts like it; prefixes that end with an identifier take nothing beside them; every deletion ends.
* API: every request is answered; what was answered with success is committed; uploads are bounded.
* migrations: the version tells the schema whoever runs them; one active job per user at the head; every
  container comes up.

## 2. Plan

Done, in the order of importance:

1. `JobLifecycle`: upload request, worker, watchdog, result deletion on the job row; `JobContract`, the
   abstract job that it implements.
2. `Outbox`: from the committed event to the claim.
3. `Admission`: the Redis lock and counter against the request and the releases.
4. `ApiSessions`: the handlers of the API processes, their event loops, sessions and connections.
5. `TaskRecord`: the columns of the job row, the objects and the temporary files.
6. `Storage`: keys, saving and `delete_prefix`, step by step, on either backend.
7. `Migrations`: the revisions, run by several at once.

To do:

* `AvatarSystem`, the composition of `JobLifecycle` and `Outbox` (the `Publish` of the former is the dispatch of
  the latter), and an abstract at-least-once channel that `Outbox` refines;
* an abstract lease (one holder per user, at most the capacity) that `Admission` refines;
* two releases of one job at the same time in `Admission`.

Each module has a type invariant, the invariants and properties the runs check, and, in a `*Proofs` module of
its own, their inductive strengthenings and proofs. No module needs a `RECURSIVE` operator; bounds on counters
are constants in guards.

## 3. The modules

### 3.1 `JobLifecycle`

One variable per column that matters (`status`, `resultId`, `stale` for heartbeat_at older
than the watchdog's cutoff, `result` for the result row), the request's position `req` and the reusable result it has `found`, the
waiting messages `msgs`, each worker's position `pc` and job `cur`, the rows the watchdog has
read (`picked`) and a history counter `runs` of pipeline starts.

A worker's statements run in one transaction between commits, so nothing is visible until
the commit; what it has flushed is read off `pc`. The positions are

| `pc` | last completed step of `process_avatar_job` |
|---|---|
| `received` | message delivered, job loaded |
| `claimed` | `claim_for_processing` committed |
| `running` | progress-20 heartbeat committed, inside `generate_cartoon_avatar` |
| `saving` | progress-90 heartbeat flushed: the row is locked from here on |
| `inserted` | result row flushed |
| `marked` | `mark_succeeded` flushed |
| `committed` | `session.commit()`, the Redis release still to come, inside the try block |

PostgreSQL's row locks are guards (`LockedByOther`): an UPDATE waits for the transaction
that has the row, then evaluates its WHERE clause again. A unique-index conflict with an
uncommitted row waits as well (`CreateResult`).

`MarkFailed(w, s)` is `_mark_failed`: it overwrites the status whatever it is and its commit
takes along the flushed rows. It is reached from `PipelineError`, `SoftLimit` and
`ConnectionRefused`; `HandlerFails` is the handler that fails itself. `Die` is the killed
process: the broker gets the message back (`task_reject_on_worker_lost`), or at the hard limit
the message is acknowledged.

`Faults` says what may happen: `soft` (the soft limit is raised anywhere after the claim),
`stall` (even before it), `crash`, `db` (a statement fails), `lock` (Redis loses a user's
lock; without it at most one request per user is in progress and none while a job is active:
this is the contract of the admission). A request that has found a reusable result (`LookupHit`, remembered in `found`)
commits its SUCCEEDED job in a second step (`CommitHit`), and the result may be deleted in between. `HardLimitBeatsHeartbeat` is
`job_timeout_seconds < job_heartbeat_timeout_seconds`; the defaults are 300 and 420.

### 3.2 `Outbox`

Events have the columns `evStatus`, `evJob`, `evRetries`, `evDue` (next_retry_at is null or
past), `evLock` (locked_at: none, fresh, older than the cutoff). A dispatcher selects
(`ClaimSelect`), updates and commits (`ClaimCommit`), then for each event loads it again
(the commit has expired it), publishes, and settles it (`MarkSent`, `MarkFailed`).
The ORM writes only attributes whose value in memory changed, so a dispatcher that has
read SENDING and assigns SENDING writes no status: `seen*` and `Dirty` model this, and it
matters as soon as two dispatchers have read the same event. A refused publication may
have reached the broker (`SendRefused`). `Consume` is the worker's claim or the ignored
duplicate; `Lose` is a message acknowledged without a claim. The re-dispatch reads the first `RedispatchLimit` of the jobs
that have been QUEUED too long, in the order of `Place` (created_at), and then inserts events for those without an open one.

### 3.3 `Admission`

One variable per Redis key (`lock[u]`: none, pending or a job; `count` and the state `ttl` of its
key), the position `pc[r]` of each upload request, the committed state `job[r]` of the job it may insert,
and the position `rel[r]` of the release after that job ended. Each Redis command and each database
transaction is an action. Request and job have the same name, since a request inserts
at most one job; a request that ended without one may be sent again (`Retry`).

`Acquire` is `acquire_job_admission`, with the flags of `ActiveJobAdmission` read off `pc`; `Upload` the rest
of `create_job`; `Release` is `release_active_job_best_effort`, with the script as one step and its
fallback as two. `Faults` says what may happen: a command fails without effect (`refused`) or after it
(`lost`), the commit of a job takes effect and the API sees an error (`answer`), the process of a request or
a release dies (`crash`), an ended job is released once more (`repeat`), the counter expires between
INCR and EXPIRE (`gap`).

`TTLOutlasts` says that an admission, with its job, ends within `active_job_lock_ttl_seconds`. The default
of 600 s covers the hard limit of 300 s and a short queue, and nothing in the code bounds the queue, so
both cases are checked. The counter's TTL is renewed by every request: it runs out (`CountAges`,
`CountExpires`) only when none has come for that long.

### 3.4 `JobContract`

The job as a client sees it by polling: `none`, `waiting`, `running`, `ended`. A job is accepted when its user has no
unfinished one, or answered at once from a result; it begins once, ends once and stays ended. `PhaseOf` of
`JobLifecycle` maps the seven statuses to the four phases. `SafeSpec` is the safety part, `WatchedSpec` adds that
what has begun ends, `Spec` that every accepted job ends. `KeepsContract` and `KeepsWatchedContract` are the
refinements, `INSTANCE JobContract WITH phase <- [j \in Jobs |-> PhaseOf(j)]`.

### 3.5 `ApiSessions`

FastAPI runs the async handlers of a process on one event loop, and the handlers use a synchronous SQLAlchemy
session: a statement that waits for a row or for a connection stops the whole process. `thread[p]` is the handler that the
loop of process `p` executes; a handler gives the loop to others only while it reads an upload that is too large
for memory (Starlette spools more than one megabyte to disk and reads it in a thread) and between its return and the close of its
session, which a thread of the pool executes (`HandOverClose`, `CloseSession`). `rowOf[d]` is the session whose
uncommitted row of device `d` others wait for. `InUse` counts connections against pool and overflow. The other
endpoints (`GET` of a job or result, `DELETE` of a result) look for no user and are the kind `other`.

### 3.6 `TaskRecord`

The same upload, worker and watchdog as `JobLifecycle`, with what they leave behind instead of who may do what: the columns status,
progress, error_code, finished_at and result_id of the row, the image, result and artifact rows, the objects and
the temporary files. A session works on a copy: `Copy(w)` is the row as read first in the transaction, `Flush` changes the copy and
remembers in `wrote[w]` the columns that differ, `Commit` writes those columns and no others, and expires the copy. So the
watchdog's columns and a worker's mix, as they do in PostgreSQL. A local put opens (truncates) and then fills a file, an S3
put is one step (`OpenObject`, `FillObject`). `deployment`, fixed by `Init`, is the storage backend, the algorithm mode, whether
the heartbeat timeout is shorter than the hard limit, the workers in service and the uploads to come.

A task is assumed to reach its claim within the soft limit; a statement that fails breaks its transaction, so that
the handler fails too (`HandlerFails`). The artifacts of one result have different base names. Today's pipelines return no preview and
no artifact; the worker's code for them is modelled all the same.

### 3.7 `Storage`

A deployment has one backend, chosen by `Init`. A key is the sequence of its segments, and `held[k]` its file or object: none,
cut short or whole. On the local one a save makes the directories, opens (truncates) and fills the file, each step on its own; on S3
it is one step. `delete_prefix` is one call at a time with steps of its own, and other processes save in between, also what is being deleted.
`Begin` finds what the local call will remove (`roots`: the directory or file of that name, else the siblings whose name starts with it)
and `RemoveEntry` removes an entry without entries, as `rmtree` does; on S3 `ListPage` lists at most a page after the continuation
token, in the order of the keys, and `DeleteObjects` deletes what it listed, except any keys that S3 refuses, whose names the code does not read.
At each step the call may raise (`DeletionFails`) and stay half done.

`Starts` says which names begin with which others, so that the string prefix of S3 and of the local fallback
(`child.name.startswith`) is modelled without characters: the prefix `.../mesh` reaches `.../mesh.obj`. All that is assumed of
names is that identifiers are UUIDs, so that none starts with another (`IdAssumption`), and that no key is below another
(`KeyAssumption`: the builders put a fixed name or an artifact's base name at a fixed depth). `kept` is history: the keys that were refused or saved since the call.
`delete_prefix` has no caller in the service yet; it is checked for the prefixes that the builders suggest (a user, a job, a job's artifacts, an object) and
some that are not there, are refused, or are empty.

### 3.8 `Migrations`

The three revisions are sequences of operations (`Upgrade1` ... `Downgrade3`); a command reads the version, executes the operations
between it and its target in one transaction, and commits or rolls back. `Locked`, `MustWait` and `Refuses` are what
PostgreSQL's DDL does to concurrent transactions. `Init` is a fresh database or one of an earlier release; before the index of one active job
per user was added to 0001, a user may have two active jobs. Columns are not part of the state, and a
deployment does not go back to an older release of the code.

### 3.9 How they fit

`JobLifecycle` allows any number of copies of a message at any time, which is more than `Outbox` produces. Its
contract of the admission (`lock` not in `Faults`) is `AdmissionExclusive`, checked and proved in `Admission`
under the conditions named there; without the contract it makes no use of the lock. `Admission`'s
`EndJob` is any of the ways in which `JobLifecycle` ends a job. `TaskRecord` claims and holds jobs as `JobLifecycle` does, and
takes over the unique indexes; `ApiSessions` stops where the others begin, at the admitted upload, whose insert and commit
are one step there. `Migrations`' `VersionTellsSchema` says that the index on which `OneActiveJob` rests is there
at the head; its assumption that active jobs end is part of `KeepsContract`.

## 4. Runs

| run | instance | shows |
|---|---|---|
| `JobDefault` | 2 jobs of one image, 2 workers, soft limit and crashes, fair | one pipeline run per job; claims hold; the watchdog spares live workers; no result is wasted; the abstract contract of a job, so that ended is ended and every accepted job ends |
| `JobFaults` | the same with every fault, the heartbeat timeout below the hard limit, no fair delivery | what survives all of it: results that stay with their jobs, and the contract in which only jobs that have begun must end, which the watchdog alone sees to |
| `OutboxOne` | 2 jobs, 3 events, 1 dispatcher, a re-dispatch that sees 1 job, 2 refusals, 1 death, 1 loss, fair | no job gets a second open event; the jobs are claimed in the end unless a message is lost |
| `OutboxTwo` | 1 job, 2 events, 2 dispatchers, 3 refusals, fair | overlapping dispatchers drop nothing, and every event settles for good though they re-open settled ones |
| `AdmissionCapacity` | 3 uploads, 2 users, capacity 2, 3 refused commands or deaths | never more in the system than the capacity; without faults the counter is exact, each fault leaks one unit at most |
| `AdmissionFaults` | 3 uploads of one user, 2 faults of every kind but `answer`, within the TTL, fair | the lock is exclusive, no lock stays for ever |
| `AdmissionExpiry` | 3 uploads, 2 users, 1 fault of every kind, locks that expire early | one active job per user all the same |
| `ApiSessions` | 5 requests of 2 processes: uploads below, at and above the limit, profile, list; 2 connections per process, fair | sessions end and success is committed; a lost race for the users row is between processes; all are answered unless first requests of a device overlap |
| `ApiBlocked` | violation: 2 first uploads of one device and a request of a known one, 1 process, fair | one event loop and an uncommitted row: nobody is served any more |
| `TaskRecord` | 2 jobs of one content, 1 or 2 workers, both backends, all algorithm modes, every failure | columns agree, rows refer to whole objects, no orphan of a success, no temporary file is forgotten |
| `Storage` | 3 keys of a user, two names of which start alike, 7 prefixes (one refused, one empty), pages of at most 2, 1 local save at a time, a failure at any step, fair | a deletion that returns is complete but for what was saved meanwhile or refused; it takes only what starts like its prefix, and ends |
| `Migrations` | 2 containers, 2 downgrades, 2 users, every initial schema, fair | version and schema agree, the head has one active job per user, containers come up |

`JobDefault` and `JobFaults` also check the refinements `KeepsContract` and `KeepsWatchedContract`: with the default
timing the whole contract holds, and under every fault the one in which a job that was never begun need not end.

The violation is a disagreement between a sentence of the repository and the code; `PROJECT.json` quotes both. Others,
for which no run is kept, are listed in section 7.

Bounds. Two jobs of one user and image are enough for every conflict the code has (active
job, active result). That a reused result has the user and image of its job is proved for any assignment of
users and images (`SuccessHasResult`).
Two workers give every pair of deliveries; a third adds only more idle refusals.
`MaxMsgs = 1` bounds the copies that wait, not those delivered: with `Publish` always enabled the
number of deliveries is unbounded. In `Outbox` the retry limit is 2 rather than 5 (one
retry and one exhaustion), two refusals exhaust one event or delay two, and there is
always one event more than the refusals can exhaust (an `ASSUME` of `MCOutbox`), so that the bound on
events never stops the system. `CHECK_DEADLOCK FALSE` in the outbox runs: once all
jobs are taken and all events settled nothing is left to do; likewise in the admission runs,
once all jobs have ended.

In `ApiSessions` two requests of a device in one process and one in another are all the ways to meet over a users row, two
connections are used up by two suspended uploads, and the sizes (in megabytes, the chunk) are below, at and beyond the limit of 2. In
`TaskRecord` two uploads of one content meet over the image row and over the reusable result, two workers over one
job; the five deployments cover each backend, mode and timing, not their product. In `Storage` three keys under
a prefix make a second page of two; a page may also be shorter, as S3's may. Two of the keys start alike, a save makes an entry in a
directory that is being removed or a key behind or before the token, and one local save at a time (`MaxSaves`) is enough for that. In `Migrations` two runners of upgrades and one of downgrades
interleave operation by operation; each container starts until it serves.
`CHECK_DEADLOCK FALSE` where everything may be over: all requests answered, all jobs ended, all containers serving.

In `Admission` three uploads of one user are an ended job that is released late, the holder of
the lock and the one that would get in by mistake; two users with capacity two make a request that is one
too many. `MaxFaults` bounds the faults of a behaviour, not their kinds; the proofs have no
bound. What the runs claim depends on the kinds: a lost answer of INCR or DECR, a repeated
release, an expired counter or a lock that expires early lets the counter fall below what is in
use, so `CapacityRespected` is stated for refused commands and deaths only; and an unacknowledged commit
deletes the lock of a queued job, so `AdmissionExclusive` is stated without it.

## 5. Fairness

* `WF(Task(w))`: a task that has begun does something; the hard limit kills it otherwise.
* `SF(ReceiveOf(j))`, `SF(ClaimOf(j))`: a broker with a message and idle workers delivers it, and
  a process is not killed in the few milliseconds between delivery and claim every time.
* `WF(HeartbeatGoesStale)`, `LockGoesStale`, `RetryFallsDue`, `JobAges`: time passes.
* `WF(ExpireSelect)`, `SF(ExpireCommit)`: beat schedules the watchdog and it does not die each time
  between SELECT and COMMIT.
* `WF(Acquire(r) /\ pc[r] # "idle")`, `WF(Upload(r))`, `WF(Release(r))`: a request or release that has begun
  goes on; `WF(EndJob(r))`: jobs end, which `KeepsContract` says of `JobLifecycle`. No client
  has to retry. `LockExpires`, `CountAges`, `CountExpires`: time passes.
* `WF(Dispatch(d))`, `WF(Redispatch*)`, `WF(Consume)`: beat schedules them and they run to the end.

* `WF(Handler(r))` in `ApiSessions`: the loop gets to every handler, reads end, PostgreSQL and the pool answer. A handler that waits for a
  row is not enabled: nothing else than its holder makes it go on.
* `WF(Deletion)` in `Storage`: the file system and S3 answer a call in progress, with an error perhaps.
* `WF(StartContainer(c))`, `WF(Step(m) \/ Commit(m) \/ Fail(m))` in `Migrations`: a container that exits is restarted
  and PostgreSQL goes on. Only `docker-compose.autodl.yml:14` says so (`restart: unless-stopped`); the service `api` of `docker-compose.yml` has no
  restart policy, and there it is the operator who starts it again; `SF(EndActiveJob(u))`: active jobs end.
* `JobContract`'s `WF(EndRunning(j))` and `WF(EndAny(j))` are promises: `JobLifecycle` has to imply them.

No fault is fair: faults may happen and need not.

## 6. Proofs

The eight `*Proofs` modules hold for every value of the constants: any number of jobs,
requests, workers, events, dispatchers, processes, keys, containers and operators, any assignment of users and images,
any retry limit and any bound on the faults. Every invariant and every action property that a passing run checks is
proved there, some under a named condition that its run instantiates; what is assumed is said below. No run names
`SettledForGood` (one dispatcher; the run with two checks `EventsSettle` instead), `ReleasesSpareNewerLocks` (within the TTL) and those at the end
of this section.

**JobLifecycle.** Four inductive invariants, each resting on the one before:

* `ClaimInv` (no assumption): a job that can still be claimed was never started, no worker is
  past its claim and the watchdog has not picked it; at most one worker is past the claim of a
  job; so each claim is the first. It gives `PipelineAtMostOnce` and the type invariant.
  `PipelineAtMostOnce` alone is not inductive: it says nothing of a claimed job not yet started.
* `ResultInv` (no assumption): uncommitted result rows differ in their key from each other and from
  every active row, and what a request has found (`found`) is a committed row of its own user and image, be it deleted since: rows are never removed. It gives `ActiveResultUnique` and `SucceededHasResult`.
* `HoldInv` (assumes `DefaultTiming`: the hard limit beats the heartbeat timeout, no failing
  statement, no limit before the claim): a stale PROCESSING job has no worker, what the watchdog has
  picked is still PROCESSING, and a worker past its commit has an ended job. It gives
  `ClaimStillHolds`, `WatchdogSparesLiveWorkers` and `SuccessLostOnlyByItsWorker`.
* `AdmissionInv` (assumes, besides, a working Redis lock): one request or one active job per user, and
  no active result where a job of the same key is on its way. It gives `NoInsertConflict`.

`EndedStaysEnded` follows from `ClaimInv`, since only a claim makes an active status. `ImplementsContract`
(`Spec => Contract!SafeSpec`, no assumption) follows from the type invariant and the first part of `ClaimInv`: initial states map to initial states, and each step
to `Accept`, `AnswerFromCache`, `Begin`, `End` or a stutter.

**Outbox.** `Typed` and `PublishInv` hold with any number of dispatchers: what was published is
in the broker or consumed unless lost. They give `SentMeansPublished` and, with
`MaxLosses = 0`, `QueuedHasCarrier`. With one dispatcher (`OneDispatcher`), `AloneInv` adds that its memory
agrees with the table (`MemoryInv`) and that what is about to be re-dispatched has no open event
(`RedispatchInv`): hence `OpenEventStillClaimable`, `OneOpenEvent`, `SettledStays`.

**Admission.** `RowInv` (no assumption: locks may expire, commands fail): no two requests of a user have a
row the unique index knows, flushed or committed; it gives `OneActiveJob`, whose committed rows alone are
not inductive. `ExclusiveInv` (assumes `LastingAdmissions`: within the TTL, commits acknowledged): a request
past the lock, or on the way back from it, or an active job is the only one of its user and the lock says "pending" or its name; a
fallback that has read its own name still finds it when it deletes. It gives
`AdmissionExclusive` and `ReleaseSparesNewerLock`.

`CapacityInv` (assumes `CrashesAndRefusals`: within the TTL, and of the faults only refused commands and deaths): the
requests and jobs that have been counted and not yet released are finitely many and never more than the counter, and those
past the check against the limit never more than the limit. `CapacityRespected` alone is not inductive, because INCR comes first and the
check after it: what has to be bounded is the number of requests whose INCR was answered with at most the limit, and a DECR takes back only
what its own request has added. Each step adds or removes one request of a finite set, hence the lemmas of
`FiniteSetTheorems`. The other faults are left out because the claim is false with them: a repeated release gives back
twice what was counted once, if the key expired in between; after a lost answer of DECR the request decrements again; an
unacknowledged commit and an expired counter leave jobs that are not counted. `ExactInv` (assumes `TTLOutlasts` only, the claim being about
what happens before the first fault): the counter is the number of those who are counted, and a job to be released
still finds its own lock, so that no release is skipped. It gives `CountExact`. `LeakInv` (assumes `CrashesAndRefusals`) bounds what goes wrong after a
fault. The unit of a job is leaked long after its binding was refused, when its release finds the lock still "pending"; so the invariant counts
such units from the fault on (`Spoilt`): the counter and they are never more than what is counted and the faults. It gives `FaultLeaksOne`.

**ApiSessions.** `LoopInv`: a handler between two statements is what its process executes; `UserInv`: a handler past the lookup has its
own uncommitted row or a committed one, and a device committed while a handler waits to insert it was committed in
another process. Within a process the loop makes lookup and insert atomic, which is why `ConflictOnlyAcrossProcesses`
needs `LoopInv`. They give `OkMeansCommitted` and `ConflictOnlyAcrossProcesses`; `UploadBounded` is inductive with the type invariant.

**TaskRecord.** `RowsReferToWholeObjects` rests on `RecordInv`: an inserted job refers to an image under whose key no upload writes any
more (`ImageInv`), a job is held by one worker and has committed nothing before (`HoldInv`), flushed columns never bring
QUEUED back (`SessionInv`), and what a task has stored is whole and not stored again (`StoredInv`). So no step opens an
object that a row refers to. `TaskOutcomeProofs` builds on it:

* `OrphanInv` adds `ClaimedInv`: a job not yet claimed has no output, and the outputs of one that is held are those its worker has
  stored or is storing; a SUCCEEDED job is not held. It gives `SucceededLeavesNoOrphan`.
* `ColumnInv` says what a stale copy may still know. The holder of a job finds it PROCESSING, or ended by the watchdog or by
  another task that could not read it, never at more than 20 percent, and not picked by the watchdog unless the job's timeout is
  shorter than the hard limit (`HeldColumns`); his copy is one of these too, though not
  always the row's; if the copy is of an ended job so is the row; the only column flushed before the success is the progress, and after it
  status, progress and result are, and finished_at unless the row has it (`SessionColumns`). With the same exception, a job that
  the watchdog has picked is never at 100 percent (`PickedColumns`). `ColumnsAgree` alone is not inductive: it
  does not exclude a copy whose status is a timeout and its error none, of which a handler would write one column and not the other.
  `FailureWritten` is the lemma on what such an UPDATE leaves in the row, column by column.
* `ResultInv`: a row names as its result a job whose result row is committed, since the worker that writes `result_id` has stored the
  JSON and commits its row at the same time. With `RecordInv` it gives `SucceededCanBeRead`: the JSON of every SUCCEEDED job, its
  own or a reused one, is whole.
* `RecordsImplementContract`: `TaskRecord` implements `JobContract!SafeSpec` too, one user owning all jobs. In `JobLifecycle` a handler
  writes the status; here an UPDATE writes it or not, depending on a copy (`StatusWritten`), and no mixture begins a job twice or re-opens it.
* `FilesAreRemoved` needs only the type invariant: it is about which of the ways out of a task know of a file.

**Migrations.** `VersionTellsSchema` speaks of committed state, and a transaction in progress has made half of its operations.
`MigrationInv` says, for each command, that what it has done and what is left of its plan
are together what lies between the version it read and its target (`UpgradeInv`, `DowngradeInv`); a commit succeeds only if the version
is still the one that was read, so that the difference is added to, or taken from, the schema of that version. Besides, a container has made nothing
that is there (or its operation would have failed), no two have made the same (`OneMaker`: the second waits), and the late index, which only newer
databases have, holds for the rows since whoever makes it locks their table (`LateIndexInv`). The lemmas on paths
(`UpgradePath`, `DowngradePath`) say what the concatenated operations of the revisions between two versions make and drop.

**Storage.** `RemovingInv`: what is under the prefix is under a root not yet removed, or was saved since; every root starts like the
prefix, and the prefix is the only one if it was found. `ListingInv`: what is under the prefix comes after the token while there is more to list, or is in
the last response, or was refused or saved since. So a page that others' puts and deletes shift is neither skipped nor listed again, and what is left when the call
returns is accounted for (`ReturnedMeansGone`). They rest on `Order`, `KeyAssumption` and `IdAssumption`; the
last is used for prefixes that end with an identifier only, where string and path prefix agree (`DeletesOnlyUnderPrefix`).

Only model-checked: the liveness properties (the fairness of the two contracts, `QueuedIsTaken`, `EventsSettle`, `LockIsFreed`,
`AnsweredUnlessFirstRequestsOverlap`, `DeletionEnds`, `ContainersComeUp`), since fairness is out of the prover's reach, and
`UsersServed`, which is violated. Conversely, no run names `ResultsCanBeRead`, `RecordsImplementContract` and `ColumnInv`; TLC agreed with each
on the instance of `TaskRecord`. `ActiveResultUnique`, `EndedStaysEnded` and `OpenEventStillClaimable` are
proved and no run names them: `KeepsContract` implies the second, and TLC agreed with each while it was developed.

## 7. Not modelled, and simplifications

* `cancel_by_image`, `mark_retrying`, `update_status` and the outbox-less mode `enqueue_tasks=False` have no
  caller in the service; CANCELLED and RETRYING are in the sets of statuses but unreachable.
* The settings algorithm_version, asset_library_version and schema_version do not change during
  a run, so the result key is the user and the image.
* Time limits presuppose the prefork pool. One watchdog and one re-dispatcher run at a time
  (the system worker has one process in `docker-compose.yml`); `Outbox` also checks two dispatchers,
  without deaths: if one uses up the retries of an event and the other dies with it, the event stays SENDING and
  nothing claims it again.
* One release of a job is in progress at a time (`ReleaseAgain` starts it over); two at once could both pass the
  GET of the fallback, which `AdmissionFaults` and the proof do not cover. Within the TTL no lock is taken between the GET and the DEL of the fallback, which is what
  `ReleasesSpareNewerLocks` proves; with a lock that expires there (`TTLOutlasts = FALSE`) `ReleaseSparesNewerLock` is violated. `release_active_job` and the releases
  without a job ID have no caller in the service.
* One `delete_prefix` goes on at a time. S3's listing is taken to be what the bucket holds at that moment.
* Two steps are merged where nothing can come between them that a property sees: the return of `get_local_path` and `mkdtemp` (`FinishFetch` in `TaskRecord`), and
  a migration that is killed with one whose statement fails (`Fail` in `Migrations`), both rolled back; alembic_version is written at the commit instead of
  after each revision of the one transaction.
* An IntegrityError of `uploaded_images` takes the way of a conflicting job (`EndWithoutJob` in `Admission`); that it needs an overlapping upload of the
  same image is left out there, so that it may always happen.
* In `ApiSessions` Redis calls take no time, and the loop serves finitely many requests.
* The numerical pipeline, schemas, logging, configuration and the operator scripts have no behaviour of this kind; configuration
  enters as constants.

### Known deviations

What the code does and a reader would not expect; the properties are stated around them.

* `_release_active_job_best_effort` is inside the try block and after the commit (`avatar_tasks.py:118`): the soft limit raised
  there turns a committed SUCCEEDED into TIMEOUT, and an exception into FAILED. `SuccessLostOnlyByItsWorker` says that nothing else does.
* `_mark_failed` commits on the session of the try block (`avatar_tasks.py:295-296`): when the soft limit strikes before the
  commit, a TIMEOUT or FAILED job keeps artifact rows or a result row with its `result_id`.
* A SENT event counts as open (`outbox_event_repository.py:50-52`): a job whose message was acknowledged without a claim is not dispatched
  again and stays QUEUED.
* As many jobs as `outbox_dispatch_batch_size` in that state are all that `find_stale_queued` returns (`avatar_job_repository.py:267`), and keep the re-dispatch from the
  jobs behind them.
* A late dispatcher writes its outcome over that of another (`outbox_event_repository.py:94`) and may re-open a settled event, which is then published again.
* A lock that expires before its job ends is not released by it, and the capacity is not given back
  (`rate_limit_service.py:123-124`); every refused upload renews the TTL of the counter.
* `_reject_existing_active_job` binds the lock to a job that may have ended since it was read (`avatar_job_service.py:162-166`): the
  user is turned away until the TTL.
* The error code of a SUCCEEDED job may be that of a watchdog: `mark_succeeded` sets it to None, which is what the worker's copy has
  already, so that the UPDATE leaves it out. This needs a heartbeat timeout below the hard limit.
* A job answered from an earlier result has no finished_at; its image may have no object of its own upload, and the object stored by the
  loser of two uploads of one content stays without a row.
* `get_local_path` creates its file before the download: one that fails leaves it (`storage_service.py:312-315`).
* `delete_objects` reports the keys it could not delete, and the code does not look (`storage_service.py:203`): the call returns although they are there.
* A prefix that ends inside a name takes the siblings that start alike: on S3 always (`storage_service.py:197`), locally only if nothing has the
  prefix's own name (`storage_service.py:104-109`). So `.../mesh` takes `.../mesh.obj` along on S3, and locally the second time it is called.
* A local save goes on filling a file that a deletion has unlinked meanwhile, and returns its key although nothing is there.
* The empty prefix is normalized to "." and passes the guard of `delete_prefix` (`storage_service.py:88-90`): the local backend would delete its
  root, S3 nothing. Nothing calls it so.
* A downgrade below 0001 of a database that never got the late index fails, since 0001 drops it by name.
