---------------------------- MODULE Admission ----------------------------
(***************************************************************************)
(* The admission of an upload in Redis (RateLimitService): the global      *)
(* counter of active jobs and the lock of each user, both with a TTL, from *)
(* the request that takes them (AvatarJobService.create_job) to the worker *)
(* or the watchdog that gives them back when the job has ended.            *)
(*                                                                         *)
(* One action per Redis command or database transaction, since any number  *)
(* of API processes, workers and system tasks run at the same time.  A     *)
(* request that ended without a job may be sent again by its client.       *)
(***************************************************************************)
EXTENDS Integers, FiniteSets

CONSTANTS
    Requests,     \* upload requests; each is also the job it may insert
    Owner,        \* Owner[r]: its user
    NoJob,
    MaxActive,    \* max_global_active_jobs
    TTLOutlasts,  \* every admission ends, with its job, within the TTL
    Faults,       \* which of AllFaults may happen
    MaxFaults     \* bound: how many faults

AllFaults ==
    { "refused",  \* a Redis command fails and has no effect
      "lost",     \* a Redis command takes effect and its answer is lost
      "answer",   \* the commit of a job takes effect and the API sees an error
      "crash",    \* the process of a request or of a release dies
      "repeat",   \* an ended job is released once more
      "gap" }     \* the counter expires between INCR and EXPIRE

ASSUME NamesAssumption ==
    /\ NoJob \notin Requests
    /\ {"none", "pending"} \cap Requests = {}
ASSUME OwnerAssumption == DOMAIN Owner = Requests
ASSUME FaultsAssumption == Faults \subseteq AllFaults /\ MaxFaults \in Nat
ASSUME MaxActiveAssumption == MaxActive \in Nat \ {0} /\ TTLOutlasts \in BOOLEAN

VARIABLES
    pc,     \* pc[r]: the step the request takes next
    seen,   \* seen[r]: the active job it has read from the database
    lock,   \* lock[u]: value of avatar:active_job:{u}
    count,  \* value of avatar:global_active_jobs, 0 when the key is absent
    ttl,    \* the counter's key: "absent", without TTL, "fresh" or "old"
    job,    \* job[r]: committed state of r's job
    rel,    \* rel[r]: where the release of the ended job r stands
    faults  \* faults so far

reqVars == <<pc, seen>>
redisVars == <<lock, count, ttl>>
vars == <<pc, seen, lock, count, ttl, job, rel, faults>>

Users == {Owner[r] : r \in Requests}
Same(i, j) == Owner[i] = Owner[j]

\* Past the INCR, before the decision on its answer.
Counting == {"counted", "overcounted"}
Admitted == {"admitted", "rebind", "checked", "inserted", "bound"}
Releasing == {"unlock", "giveback", "conflictUnlock", "conflictGiveback"}
Remembering == {"remember", "remembering"}
Steps == {"idle", "full", "capacity", "denied", "reporting", "done"}
         \cup Counting \cup Admitted \cup Releasing \cup Remembering

ReleaseSteps == {"due", "fallback", "matched", "decr"}
\* Admitted by the counter: requests in progress and active jobs ...
InSystem == {r \in Requests : \/ pc[r] \in {"capacity", "denied", "reporting"} \cup Admitted \cup Releasing
                              \/ job[r] = "active"}
\* ... and the ended jobs that are being released.
Holders == InSystem \cup {r \in Requests : rel[r] # "none"}
\* A user's lock is in use.
InUse(u) == \E r \in Requests :
              /\ Owner[r] = u
              /\ pc[r] \in Admitted \cup {"unlock", "conflictUnlock"}
                 \/ job[r] = "active" \/ rel[r] # "none"
ActiveJobs(r) == {i \in Requests : Same(i, r) /\ job[i] = "active"}

Init ==
    /\ pc = [r \in Requests |-> "idle"]
    /\ seen = [r \in Requests |-> NoJob]
    /\ lock = [u \in Users |-> "none"]
    /\ count = 0
    /\ ttl = "absent"
    /\ job = [r \in Requests |-> "none"]
    /\ rel = [r \in Requests |-> "none"]
    /\ faults = 0

----------------------------------------------------------------------------
(***************************************************************************)
(* Redis and its failures.                                                 *)
(***************************************************************************)

Step(r, from, to) == pc[r] = from /\ pc' = [pc EXCEPT ![r] = to]
SetLock(u, value) == lock' = [lock EXCEPT ![u] = value]
\* SET NX.
SetLockNX(u, value) == lock' = [lock EXCEPT ![u] = IF @ = "none" THEN value ELSE @]

\* INCR and DECR create the key, then without a TTL.
Add(n) == /\ count' = count + n
          /\ ttl' = IF ttl = "absent" THEN "none" ELSE ttl

Fault(kind) == /\ kind \in Faults
               /\ faults < MaxFaults
               /\ faults' = faults + 1

\* A command that raises RedisError, with its effect or without it.
Fails(effect, none) == \/ Fault("lost") /\ effect
                       \/ Fault("refused") /\ none

----------------------------------------------------------------------------
(***************************************************************************)
(* acquire_job_admission.  Its errors reach the client without a second    *)
(* release: the call is outside the try block of create_job.               *)
(***************************************************************************)

OverCapacityLate(n) == n > MaxActive + 1     \* slip: one job too many
\* (Operators marked "slip" are plausible mistakes in the definition that follows
\* them, or in one they name.  The specification does not use them: each is put
\* in that definition's place to see a property fail.)
OverCapacity(n) == n > MaxActive

Incr(r) ==
    /\ Step(r, "idle", IF OverCapacity(count + 1) THEN "overcounted" ELSE "counted")
    /\ Add(1)
    /\ UNCHANGED <<seen, lock, job, rel, faults>>

\* No flag is set yet, so that nothing is given back.
IncrFails(r) ==
    /\ Step(r, "idle", "done")
    /\ Fails(Add(1), UNCHANGED <<count, ttl>>)
    /\ UNCHANGED <<seen, lock, job, rel>>

\* EXPIRE renews the TTL, also for a request that is about to be refused.
Expire(r) ==
    /\ Step(r, "counted", "capacity") \/ Step(r, "overcounted", "full")
    /\ ttl' = IF ttl = "absent" THEN "absent" ELSE "fresh"
    /\ UNCHANGED <<seen, lock, count, job, rel, faults>>

ExpireFails(r) ==
    /\ Step(r, "counted", "done") \/ Step(r, "overcounted", "done")
    /\ Fails(ttl' = IF ttl = "absent" THEN "absent" ELSE "fresh", ttl' = ttl)
    /\ UNCHANGED <<seen, lock, count, job, rel>>

\* slip: QUEUE_FULL is raised without the DECR
RefuseFullKeeps(r) ==
    /\ Step(r, "full", "done")
    /\ UNCHANGED <<seen, redisVars, job, rel, faults>>
\* QUEUE_FULL.
RefuseFull(r) ==
    /\ Step(r, "full", "done")
    /\ \/ Add(-1) /\ faults' = faults
       \/ Fails(Add(-1), UNCHANGED <<count, ttl>>)
    /\ UNCHANGED <<seen, lock, job, rel>>

\* slip: SET without NX
SetPendingAlways(r) ==
    /\ Step(r, "capacity", "admitted")
    /\ SetLock(Owner[r], "pending")
    /\ UNCHANGED <<seen, count, ttl, job, rel, faults>>
\* SET NX "pending".
SetPending(r) ==
    /\ Step(r, "capacity", IF lock[Owner[r]] = "none" THEN "admitted" ELSE "denied")
    /\ SetLockNX(Owner[r], "pending")
    /\ UNCHANGED <<seen, count, ttl, job, rel, faults>>

\* The capacity is given back, the lock is not known to be taken.
SetPendingFails(r) ==
    /\ Step(r, "capacity", "giveback")
    /\ Fails(SetLockNX(Owner[r], "pending"), lock' = lock)
    /\ UNCHANGED <<seen, count, ttl, job, rel>>

\* ACTIVE_JOB_EXISTS: the capacity is given back; the GET for the message may
\* fail, and its handler then gives back once more what is still flagged.
Deny(r) ==
    /\ \/ Step(r, "denied", "done") /\ Add(-1) /\ faults' = faults
       \/ Step(r, "denied", "reporting") /\ Fails(Add(-1), UNCHANGED <<count, ttl>>)
    /\ UNCHANGED <<seen, lock, job, rel>>

Report(r) ==
    /\ \/ Step(r, "reporting", "done") /\ faults' = faults
       \/ Step(r, "reporting", "giveback") /\ (Fault("refused") \/ Fault("lost"))
    /\ UNCHANGED <<seen, redisVars, job, rel>>

----------------------------------------------------------------------------
(***************************************************************************)
(* create_job, once admitted.                                              *)
(***************************************************************************)

\* _reject_existing_active_job: find_active_by_user.
FindActive(r) ==
    /\ \/ ActiveJobs(r) = {} /\ Step(r, "admitted", "checked") /\ seen' = seen
       \/ \E i \in ActiveJobs(r) : /\ Step(r, "admitted", "rebind")
                                   /\ seen' = [seen EXCEPT ![r] = i]
    /\ UNCHANGED <<redisVars, job, rel, faults>>

KeepSeen(r) == seen' = seen     \* slip: the job stays in memory
Forget(r) == seen' = [seen EXCEPT ![r] = NoJob]

\* The lock is bound to the job that was read, and left to it; if the SET
\* fails, the lock is deleted with the rest of the admission.
Rebind(r) ==
    /\ \/ /\ Step(r, "rebind", "giveback")
          /\ SetLock(Owner[r], seen[r])
          /\ faults' = faults
       \/ /\ Step(r, "rebind", "unlock")
          /\ Fails(SetLock(Owner[r], seen[r]), lock' = lock)
    /\ Forget(r)
    /\ UNCHANGED <<count, ttl, job, rel>>

\* The upload is rejected, its image cannot be stored, the transaction fails
\* and is rolled back, or a reusable result answers it (then the job is
\* committed as SUCCEEDED): the admission is given back.  A row of the same image
\* that appeared meanwhile is taken for a conflicting job.
EndWithoutJob(r) ==
    /\ \/ \E p \in Admitted \ {"rebind"} : Step(r, p, "unlock")
       \/ Step(r, "checked", "conflictUnlock")
    /\ UNCHANGED <<seen, redisVars, job, rel, faults>>

\* The QUEUED row is flushed.  The unique index makes the INSERT wait for an
\* uncommitted row of the user, and rejects it if there is a committed one.
\* slip: without the unique index
InsertUnchecked(r) ==
    /\ Step(r, "checked", "inserted")
    /\ UNCHANGED <<seen, redisVars, job, rel, faults>>
Insert(r) ==
    /\ \A i \in Requests : Same(i, r) => pc[i] \notin {"inserted", "bound"}
    /\ Step(r, "checked", IF ActiveJobs(r) = {} THEN "inserted" ELSE "conflictUnlock")
    /\ UNCHANGED <<seen, redisVars, job, rel, faults>>

\* bind_active_job_best_effort.
Bind(r) ==
    /\ Step(r, "inserted", "bound")
    /\ \/ SetLock(Owner[r], r) /\ faults' = faults
       \/ Fault("refused") /\ lock' = lock
    /\ UNCHANGED <<seen, count, ttl, job, rel>>

Commit(r) ==
    /\ Step(r, "bound", "done")
    /\ job' = [job EXCEPT ![r] = "active"]
    /\ UNCHANGED <<seen, redisVars, rel, faults>>

\* The commit, or the refresh of the job after it, loses its answer: the
\* handler gives back the admission of a job that is QUEUED.
CommitUnacknowledged(r) ==
    /\ Fault("answer")
    /\ Step(r, "bound", "unlock")
    /\ job' = [job EXCEPT ![r] = "active"]
    /\ UNCHANGED <<seen, redisVars, rel>>

\* release_job_admission_best_effort: DEL whatever the value of the lock is,
\* then DECR.
Unlock(r) ==
    /\ Step(r, "unlock", "giveback") \/ Step(r, "conflictUnlock", "conflictGiveback")
    /\ \/ SetLock(Owner[r], "none") /\ faults' = faults
       \/ Fails(SetLock(Owner[r], "none"), lock' = lock)
    /\ UNCHANGED <<seen, count, ttl, job, rel>>

GiveBack(r) ==
    /\ Step(r, "giveback", "done") \/ Step(r, "conflictGiveback", "remember")
    /\ \/ Add(-1) /\ faults' = faults
       \/ Fails(Add(-1), UNCHANGED <<count, ttl>>)
    /\ UNCHANGED <<seen, lock, job, rel>>

\* _raise_active_job_exists: find_active_by_user ...
FindConflicting(r) ==
    /\ \/ ActiveJobs(r) = {} /\ Step(r, "remember", "done") /\ seen' = seen
       \/ \E i \in ActiveJobs(r) : /\ Step(r, "remember", "remembering")
                                   /\ seen' = [seen EXCEPT ![r] = i]
    /\ UNCHANGED <<redisVars, job, rel, faults>>

\* ... and remember_active_job_best_effort.
Remember(r) ==
    /\ Step(r, "remembering", "done")
    /\ \/ SetLockNX(Owner[r], seen[r]) /\ faults' = faults
       \/ Fault("refused") /\ lock' = lock
    /\ Forget(r)
    /\ UNCHANGED <<count, ttl, job, rel>>

\* The client sends the upload again.
Retry(r) ==
    /\ job[r] = "none"
    /\ Step(r, "done", "idle")
    /\ UNCHANGED <<seen, redisVars, job, rel, faults>>

RequestDies(r) ==
    /\ Fault("crash")
    /\ \E p \in Steps \ {"idle", "done"} : Step(r, p, "done")
    /\ Forget(r)
    /\ UNCHANGED <<redisVars, job, rel>>

----------------------------------------------------------------------------
(***************************************************************************)
(* The end of a job, and release_active_job_best_effort by the worker or   *)
(* the watchdog that ended it.                                             *)
(***************************************************************************)

RelStep(r, from, to) == rel[r] = from /\ rel' = [rel EXCEPT ![r] = to]

EndJob(r) ==
    /\ job[r] = "active"
    /\ job' = [job EXCEPT ![r] = "ended"]
    /\ RelStep(r, "none", "due")
    /\ UNCHANGED <<reqVars, redisVars, faults>>

\* slip: the lock is compared with the value of an unbound admission
MatchesPending(r) == lock[Owner[r]] = "pending"
Matches(r) == lock[Owner[r]] = r

\* The script: one atomic step.
CompareAndDelete(r) ==
    /\ RelStep(r, "due", IF Matches(r) THEN "decr" ELSE "none")
    /\ SetLock(Owner[r], IF Matches(r) THEN "none" ELSE lock[Owner[r]])
    /\ UNCHANGED <<reqVars, count, ttl, job, faults>>

\* The script fails: GET and DEL, as two commands.
ScriptFails(r) ==
    /\ RelStep(r, "due", "fallback")
    /\ Fails(SetLock(Owner[r], IF Matches(r) THEN "none" ELSE lock[Owner[r]]),
             lock' = lock)
    /\ UNCHANGED <<reqVars, count, ttl, job>>

FallbackGet(r) ==
    /\ \/ RelStep(r, "fallback", IF Matches(r) THEN "matched" ELSE "none") /\ faults' = faults
       \/ RelStep(r, "fallback", "none") /\ (Fault("refused") \/ Fault("lost"))
    /\ UNCHANGED <<reqVars, redisVars, job>>

FallbackDelete(r) ==
    /\ \/ RelStep(r, "matched", "decr") /\ SetLock(Owner[r], "none") /\ faults' = faults
       \/ RelStep(r, "matched", "none") /\ Fails(SetLock(Owner[r], "none"), lock' = lock)
    /\ UNCHANGED <<reqVars, count, ttl, job>>

DecrReleased(r) ==
    /\ RelStep(r, "decr", "none")
    /\ \/ Add(-1) /\ faults' = faults
       \/ Fails(Add(-1), UNCHANGED <<count, ttl>>)
    /\ UNCHANGED <<reqVars, lock, job>>

\* The soft limit during the release, a failing duplicate delivery, or a late
\* worker after the watchdog: _mark_failed releases the job again.  A release
\* that is still going on is abandoned then.
ReleaseAgain(r) ==
    /\ Fault("repeat")
    /\ job[r] = "ended"
    /\ rel' = [rel EXCEPT ![r] = "due"]
    /\ UNCHANGED <<reqVars, redisVars, job>>

ReleaseDies(r) ==
    /\ Fault("crash")
    /\ \E p \in ReleaseSteps : RelStep(r, p, "none")
    /\ UNCHANGED <<reqVars, redisVars, job>>

----------------------------------------------------------------------------
(***************************************************************************)
(* Time.                                                                   *)
(***************************************************************************)

\* slip: the pending lock is set without a TTL
LockExpiresWhenBound(u) ==
    /\ lock[u] \in Requests
    /\ TTLOutlasts => ~InUse(u)
    /\ SetLock(u, "none")
    /\ UNCHANGED <<reqVars, count, ttl, job, rel, faults>>
LockExpires(u) ==
    /\ lock[u] # "none"
    /\ TTLOutlasts => ~InUse(u)
    /\ SetLock(u, "none")
    /\ UNCHANGED <<reqVars, count, ttl, job, rel, faults>>

\* Every request renews the counter's TTL: it runs out only when none has come
\* for that long.  A request does not take that long to decrement what it found
\* to be too many.
CountAges ==
    /\ ttl = "fresh"
    /\ \A r \in Requests : pc[r] # "full"
    /\ TTLOutlasts => Holders = {}
    /\ ttl' = "old"
    /\ UNCHANGED <<reqVars, lock, count, job, rel, faults>>

CountExpires ==
    /\ ttl = "old"
    /\ IF \E r \in Requests : pc[r] \in Counting THEN Fault("gap") ELSE faults' = faults
    /\ count' = 0
    /\ ttl' = "absent"
    /\ UNCHANGED <<reqVars, lock, job, rel>>

----------------------------------------------------------------------------
Acquire(r) == \/ Incr(r) \/ IncrFails(r) \/ Expire(r) \/ ExpireFails(r) \/ RefuseFull(r)
              \/ SetPending(r) \/ SetPendingFails(r) \/ Deny(r) \/ Report(r)

Upload(r) == \/ FindActive(r) \/ Rebind(r) \/ EndWithoutJob(r) \/ Insert(r) \/ Bind(r)
             \/ Commit(r) \/ CommitUnacknowledged(r) \/ Unlock(r) \/ GiveBack(r)
             \/ FindConflicting(r) \/ Remember(r)

Release(r) == \/ CompareAndDelete(r) \/ ScriptFails(r) \/ FallbackGet(r)
              \/ FallbackDelete(r) \/ DecrReleased(r)

Next ==
    \/ \E r \in Requests : \/ Acquire(r) \/ Upload(r) \/ Retry(r) \/ RequestDies(r)
                           \/ EndJob(r) \/ Release(r) \/ ReleaseAgain(r) \/ ReleaseDies(r)
    \/ \E u \in Users : LockExpires(u)
    \/ CountAges \/ CountExpires

Spec == Init /\ [][Next]_vars

(***************************************************************************)
(* Fairness: a request in progress and a release go on, jobs end (see      *)
(* JobLifecycle), time passes.  No client has to retry.                    *)
(***************************************************************************)
FairSpec ==
    /\ Spec
    /\ \A r \in Requests : /\ WF_vars(Acquire(r) /\ pc[r] # "idle")
                           /\ WF_vars(Upload(r))
                           /\ WF_vars(EndJob(r))
                           /\ WF_vars(Release(r))
    /\ \A u \in Users : WF_vars(LockExpires(u))
    /\ WF_vars(CountAges) /\ WF_vars(CountExpires)

----------------------------------------------------------------------------
(***************************************************************************)
(* Properties.                                                             *)
(***************************************************************************)

\* Every variable keeps its type.
TypeOK ==
    /\ pc \in [Requests -> Steps]
    /\ seen \in [Requests -> Requests \cup {NoJob}]
    /\ \A r \in Requests : seen[r] # NoJob <=> pc[r] \in {"rebind", "remembering"}
    /\ \A r \in Requests : seen[r] # NoJob => Same(seen[r], r)
    /\ lock \in [Users -> {"none", "pending"} \cup Requests]
    /\ count \in Int
    /\ ttl \in {"absent", "none", "fresh", "old"}
    /\ job \in [Requests -> {"none", "active", "ended"}]
    /\ rel \in [Requests -> {"none"} \cup ReleaseSteps]
    /\ faults \in Nat

\* While admissions end within the TTL, a user has one request past the lock
\* or one active job, through failing Redis commands, crashes and repeated
\* releases: what create_job may rely on between its checks.
AdmissionExclusive ==
    \A i, j \in Requests : Same(i, j) =>
      /\ pc[i] \in Admitted /\ pc[j] \in Admitted => i = j
      /\ ~(pc[i] \in Admitted /\ job[j] = "active")

\* PostgreSQL has the last word: whatever happens to Redis, a user never has
\* two active jobs.
OneActiveJob ==
    \A i, j \in Requests :
      (Same(i, j) /\ job[i] = "active" /\ job[j] = "active") => i = j

\* The requests past the counter and the jobs of the system are never more
\* than max_global_active_jobs.
CapacityRespected == Cardinality(InSystem) <= MaxActive

\* What the counter should count: the holders and the requests that it has not yet
\* answered or turned away.
Owed == Cardinality(Holders \cup {r \in Requests : pc[r] \in Counting \cup {"full"}})

\* Without faults the counter is exact, though it is incremented before it is
\* compared and decremented from four places.
CountExact == faults = 0 => count = Owed

\* A fault leaks one unit of capacity at most: a job whose binding failed leaks it
\* once, and not again, when its release finds no lock of its own.
FaultLeaksOne == count <= Owed + faults

\* The release of a job, however late or often it comes, deletes no lock that
\* another request of the user has taken since.
ReleaseSparesNewerLock ==
    [][\A r \in Requests : rel'[r] # rel[r] /\ lock' # lock => lock[Owner[r]] = r]_vars

\* Whatever is lost, no lock shuts its user out for ever.
LockIsFreed == \A u \in Users : (lock[u] # "none") ~> (lock[u] = "none")
============================================================================
