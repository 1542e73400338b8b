------------------------------ MODULE Outbox ------------------------------
(***************************************************************************)
(* The path of a queued job's message: the outbox event committed with the *)
(* job, the dispatchers that publish it (dispatch_outbox), the broker, the *)
(* worker's claim, and the task that creates a new event for a job that    *)
(* stays queued (redispatch_stale_queued_jobs).                            *)
(*                                                                         *)
(* A dispatcher's session reads an event into memory and later writes it   *)
(* back by primary key, and the ORM writes only the columns whose value in *)
(* memory has changed: seen* hold what was read, Dirty is the rule.        *)
(***************************************************************************)
EXTENDS Naturals, FiniteSets, Functions

CONSTANTS
    Jobs,           \* jobs created as QUEUED
    Events,         \* rows outbox_events may have (a bound on their number)
    Dispatchers,    \* processes that may run dispatch_outbox at one time
    NoJob, NoEvent,
    MaxRetries,     \* outbox_events.max_retries
    BatchSize,      \* outbox_dispatch_batch_size
    RedispatchLimit,\* LIMIT of find_stale_queued: the same setting
    Place,          \* Place[j]: the place of j in the order of created_at
    LimitBeatsLock, \* the task's hard limit is not above outbox_lock_timeout
    MaxRefusals,    \* bound: publications the broker refuses
    MaxDeaths,      \* bound: dispatchers killed
    MaxLosses       \* bound: messages acknowledged without their job being claimed

ASSUME NoneAssumption == NoJob \notin Jobs /\ NoEvent \notin Events
ASSUME RetriesAssumption == MaxRetries \in Nat \ {0}
ASSUME BoundsAssumption == /\ BatchSize \in Nat \ {0} /\ LimitBeatsLock \in BOOLEAN
                           /\ RedispatchLimit \in Nat \ {0} /\ Place \in [Jobs -> Nat]
                           /\ MaxRefusals \in Nat /\ MaxDeaths \in Nat /\ MaxLosses \in Nat

VARIABLES
    job,       \* job[j]: "absent", "queued" or "taken" (PROCESSING or later)
    old,       \* old[j]: created_at is before the redispatch cutoff
    evStatus,  \* evStatus[e]: outbox_events.status, "free" before the insert
    evJob,     \* evJob[e]: payload.job_id
    evRetries, \* evRetries[e]: retry_count
    evDue,     \* evDue[e]: next_retry_at is null or past
    evLock,    \* evLock[e]: locked_at, "none", "fresh" or "stale"
    published, \* published[e]: the broker has accepted e's message (history)
    msgs,      \* msgs[j]: copies of j's message in the broker
    dpc,       \* dpc[d]: where dispatcher d stands
    batch,     \* batch[d]: the events d has selected and not yet settled
    cur,       \* cur[d]: the event d is publishing
    seenStatus, seenRetries, seenLocked,   \* the columns d has in memory;
                                           \* a commit expires them
    stalled,   \* stale queued jobs without an open event, not yet committed
    refusals, deaths, losses               \* faults so far

jobVars == <<job, old>>
evVars == <<evStatus, evJob, evRetries, evDue, evLock>>
seenVars == <<seenStatus, seenRetries, seenLocked>>
dispVars == <<dpc, batch, cur, seenStatus, seenRetries, seenLocked>>
faultVars == <<refusals, deaths, losses>>
vars == <<jobVars, evVars, published, msgs, dispVars, stalled, faultVars>>

EventStatus == {"free", "pending", "sending", "sent", "failed"}
Unsettled == {"pending", "sending"}
Open == Unsettled \cup {"sent"}
Publishing == {"loaded", "accepted", "refused"}
Free == {e \in Events : evStatus[e] = "free"}

\* (Operators marked "slip" are plausible mistakes in the definition that follows
\* them.  The specification does not use them: each is put in that definition's
\* place to see a property fail.)

\* slip: an event that is being sent does not count as open
HasOpenEventUnlessSending(j) ==
    \E e \in Events : evJob[e] = j /\ evStatus[e] \in {"pending", "sent"}
\* has_open_avatar_job_event: a SENT event counts as open.
HasOpenEvent(j) == \E e \in Events : evJob[e] = j /\ evStatus[e] \in Open

\* slip: the events of a dead dispatcher are not taken over
ClaimablePending ==
    {e \in Events : evStatus[e] = "pending" /\ evRetries[e] < MaxRetries /\ evDue[e]}
\* The WHERE clause of claim_pending.
Claimable ==
    {e \in Events : /\ evStatus[e] \in Unsettled
                    /\ evRetries[e] < MaxRetries
                    /\ evDue[e]
                    /\ evStatus[e] = "pending" \/ evLock[e] \in {"none", "stale"}}

\* The column's value after an UPDATE that assigns new to an attribute last
\* read as seen: an unchanged attribute is not part of the statement.
Dirty(new, seen, current) == IF new = seen THEN current ELSE new

Init ==
    /\ job = [j \in Jobs |-> "absent"]
    /\ old = [j \in Jobs |-> FALSE]
    /\ evStatus = [e \in Events |-> "free"]
    /\ evJob = [e \in Events |-> NoJob]
    /\ evRetries = [e \in Events |-> 0]
    /\ evDue = [e \in Events |-> TRUE]
    /\ evLock = [e \in Events |-> "none"]
    /\ published = [e \in Events |-> FALSE]
    /\ msgs = [j \in Jobs |-> 0]
    /\ dpc = [d \in Dispatchers |-> "idle"]
    /\ batch = [d \in Dispatchers |-> {}]
    /\ cur = [d \in Dispatchers |-> NoEvent]
    /\ seenStatus = [d \in Dispatchers |-> [e \in Events |-> "free"]]
    /\ seenRetries = [d \in Dispatchers |-> 0]
    /\ seenLocked = [d \in Dispatchers |-> FALSE]
    /\ stalled = {}
    /\ refusals = 0 /\ deaths = 0 /\ losses = 0

----------------------------------------------------------------------------
(***************************************************************************)
(* Jobs and their consumers.                                               *)
(***************************************************************************)

\* create_job commits the QUEUED row and its PENDING event together.
CreateJob(j, e) ==
    /\ job[j] = "absent" /\ e \in Free
    /\ \A i \in Jobs : Place[i] < Place[j] => job[i] # "absent"
    /\ job' = [job EXCEPT ![j] = "queued"]
    /\ evStatus' = [evStatus EXCEPT ![e] = "pending"]
    /\ evJob' = [evJob EXCEPT ![e] = j]
    /\ UNCHANGED <<old, evRetries, evDue, evLock, published, msgs, dispVars,
                   stalled, faultVars>>

JobAges(j) ==
    /\ job[j] = "queued" /\ ~old[j]
    /\ old' = [old EXCEPT ![j] = TRUE]
    /\ UNCHANGED <<job, evVars, published, msgs, dispVars, stalled, faultVars>>

\* A worker takes the message; a QUEUED job is claimed, any other copy ignored.
Consume(j) ==
    /\ msgs[j] > 0
    /\ msgs' = [msgs EXCEPT ![j] = @ - 1]
    /\ job' = [job EXCEPT ![j] = "taken"]
    /\ UNCHANGED <<old, evVars, published, dispVars, stalled, faultVars>>

\* The worker cannot reach the database before its claim, nor in its handler:
\* the exception leaves the task, and the message is acknowledged all the same.
\* (Or Redis restarts without the message.)
Lose(j) ==
    /\ losses < MaxLosses
    /\ msgs[j] > 0
    /\ msgs' = [msgs EXCEPT ![j] = @ - 1]
    /\ losses' = losses + 1
    /\ UNCHANGED <<jobVars, evVars, published, dispVars, stalled, refusals, deaths>>

----------------------------------------------------------------------------
(***************************************************************************)
(* dispatch_outbox.                                                        *)
(***************************************************************************)

\* After a commit, or with the session closed, nothing is in memory.
Expire(d) ==
    /\ seenStatus' = [seenStatus EXCEPT ![d] = [e \in Events |-> "free"]]
    /\ seenRetries' = [seenRetries EXCEPT ![d] = 0]
    /\ seenLocked' = [seenLocked EXCEPT ![d] = FALSE]

\* The SELECT of claim_pending.
ClaimSelect(d) ==
    /\ dpc[d] = "idle"
    /\ \E S \in SUBSET Claimable :
         /\ S # {}
         /\ S = Claimable \/ Cardinality(S) = BatchSize
         /\ batch' = [batch EXCEPT ![d] = S]
    /\ seenStatus' = [seenStatus EXCEPT ![d] =
                        [e \in Events |-> IF e \in batch'[d] THEN evStatus[e] ELSE "free"]]
    /\ dpc' = [dpc EXCEPT ![d] = "selected"]
    /\ UNCHANGED <<jobVars, evVars, published, msgs, cur, seenRetries, seenLocked,
                   stalled, faultVars>>

\* The UPDATEs of claim_pending by primary key, and the commit.
ClaimCommit(d) ==
    /\ dpc[d] = "selected"
    /\ evStatus' = [e \in Events |->
                      IF e \in batch[d] THEN Dirty("sending", seenStatus[d][e], evStatus[e])
                                        ELSE evStatus[e]]
    /\ evLock' = [e \in Events |-> IF e \in batch[d] THEN "fresh" ELSE evLock[e]]
    /\ dpc' = [dpc EXCEPT ![d] = "sending"]
    /\ Expire(d)
    /\ UNCHANGED <<jobVars, evJob, evRetries, evDue, published, msgs, batch, cur,
                   stalled, faultVars>>

\* The commit has expired the attributes: the next event is read again.
LoadEvent(d) ==
    /\ dpc[d] = "sending"
    /\ \E e \in batch[d] :
         /\ cur' = [cur EXCEPT ![d] = e]
         /\ seenStatus' = [seenStatus EXCEPT ![d] = [@ EXCEPT ![e] = evStatus[e]]]
         /\ seenRetries' = [seenRetries EXCEPT ![d] = evRetries[e]]
         /\ seenLocked' = [seenLocked EXCEPT ![d] = evLock[e] # "none"]
    /\ dpc' = [dpc EXCEPT ![d] = "loaded"]
    /\ UNCHANGED <<jobVars, evVars, published, msgs, batch, stalled, faultVars>>

\* The broker accepts the message; apply_async may still report an error when
\* the answer is lost.
Accept(d) ==
    LET e == cur[d] IN
    /\ msgs' = [msgs EXCEPT ![evJob[e]] = @ + 1]
    /\ published' = [published EXCEPT ![e] = TRUE]

Send(d) ==
    /\ dpc[d] = "loaded"
    /\ Accept(d)
    /\ dpc' = [dpc EXCEPT ![d] = "accepted"]
    /\ UNCHANGED <<jobVars, evVars, batch, cur, seenVars, stalled, faultVars>>

\* slip: the error of apply_async is swallowed
SendRefusedIgnored(d) ==
    /\ dpc[d] = "loaded"
    /\ refusals < MaxRefusals
    /\ refusals' = refusals + 1
    /\ dpc' = [dpc EXCEPT ![d] = "accepted"]
    /\ UNCHANGED <<jobVars, evVars, published, msgs, batch, cur, seenVars, stalled,
                   deaths, losses>>
SendRefused(d) ==
    /\ dpc[d] = "loaded"
    /\ refusals < MaxRefusals
    /\ refusals' = refusals + 1
    /\ Accept(d) \/ UNCHANGED <<msgs, published>>
    /\ dpc' = [dpc EXCEPT ![d] = "refused"]
    /\ UNCHANGED <<jobVars, evVars, batch, cur, seenVars, stalled, deaths, losses>>

\* The event is settled for this run: back to the loop.
NextEvent(d) ==
    /\ batch' = [batch EXCEPT ![d] = @ \ {cur[d]}]
    /\ cur' = [cur EXCEPT ![d] = NoEvent]
    /\ dpc' = [dpc EXCEPT ![d] = "sending"]
    /\ Expire(d)

Unlock(d, e) == evLock' = [evLock EXCEPT ![e] = IF seenLocked[d] THEN "none" ELSE @]

\* mark_sent and its commit.
MarkSent(d) ==
    LET e == cur[d] IN
    /\ dpc[d] = "accepted"
    /\ evStatus' = [evStatus EXCEPT ![e] = Dirty("sent", seenStatus[d][e], @)]
    /\ Unlock(d, e)
    /\ NextEvent(d)
    /\ UNCHANGED <<jobVars, evJob, evRetries, evDue, published, msgs, stalled,
                   faultVars>>

SpentLate(retries) == retries > MaxRetries     \* slip: one retry too many
Spent(retries) == retries >= MaxRetries

\* mark_failed and its commit: FAILED when the retries are used up, otherwise
\* PENDING with a delay.
MarkFailed(d) ==
    LET e == cur[d]
        retries == seenRetries[d] + 1
    IN
    /\ dpc[d] = "refused"
    /\ evRetries' = [evRetries EXCEPT ![e] = retries]
    /\ evStatus' = [evStatus EXCEPT ![e] =
                      Dirty(IF Spent(retries) THEN "failed" ELSE "pending", seenStatus[d][e], @)]
    /\ evDue' = [evDue EXCEPT ![e] = Spent(retries)]
    /\ Unlock(d, e)
    /\ NextEvent(d)
    /\ UNCHANGED <<jobVars, evJob, published, msgs, stalled, faultVars>>

\* slip: the batch outlives the run
EndRunKeepsBatch(d) == /\ dpc' = [dpc EXCEPT ![d] = "idle"]
                       /\ UNCHANGED <<batch, cur>>
                       /\ Expire(d)
EndRun(d) == /\ dpc' = [dpc EXCEPT ![d] = "idle"]
             /\ batch' = [batch EXCEPT ![d] = {}]
             /\ cur' = [cur EXCEPT ![d] = NoEvent]
             /\ Expire(d)

Finish(d) ==
    /\ dpc[d] = "sending" /\ batch[d] = {}
    /\ EndRun(d)
    /\ UNCHANGED <<jobVars, evVars, published, msgs, stalled, faultVars>>

\* The process is killed, or a statement outside the inner try fails: whatever
\* it has claimed stays SENDING.
DispatcherDies(d) ==
    /\ deaths < MaxDeaths
    /\ dpc[d] # "idle"
    /\ deaths' = deaths + 1
    /\ EndRun(d)
    /\ UNCHANGED <<jobVars, evVars, published, msgs, stalled, refusals, losses>>

----------------------------------------------------------------------------
(***************************************************************************)
(* Time.                                                                   *)
(***************************************************************************)

\* A dispatcher that holds the claim of e.
Claims(d, e) == e \in batch[d] /\ dpc[d] \notin {"idle", "selected"}

LockGoesStale(e) ==
    /\ evLock[e] = "fresh"
    /\ LimitBeatsLock => \A d \in Dispatchers : ~Claims(d, e)
    /\ evLock' = [evLock EXCEPT ![e] = "stale"]
    /\ UNCHANGED <<jobVars, evStatus, evJob, evRetries, evDue, published, msgs,
                   dispVars, stalled, faultVars>>

RetryFallsDue(e) ==
    /\ ~evDue[e]
    /\ evDue' = [evDue EXCEPT ![e] = TRUE]
    /\ UNCHANGED <<jobVars, evStatus, evJob, evRetries, evLock, published, msgs,
                   dispVars, stalled, faultVars>>

----------------------------------------------------------------------------
(***************************************************************************)
(* redispatch_stale_queued_jobs, one at a time.                            *)
(***************************************************************************)

StaleQueued == {j \in Jobs : job[j] = "queued" /\ old[j]}

\* find_stale_queued takes the oldest, and of those a job with an open event is passed
\* over.
RedispatchSelect ==
    /\ stalled = {}
    /\ \E S \in SUBSET StaleQueued :
         /\ S = StaleQueued \/ Cardinality(S) = RedispatchLimit
         /\ \A i \in S, j \in StaleQueued \ S : Place[i] < Place[j]
         /\ stalled' = {j \in S : ~HasOpenEvent(j)}
    /\ stalled' # {}
    /\ UNCHANGED <<jobVars, evVars, published, msgs, dispVars, faultVars>>

\* A new event for each of them, and the commit.
RedispatchCommit ==
    /\ stalled # {}
    /\ \E new \in Injection(stalled, Free) :
         /\ evStatus' = [e \in Events |->
                           IF e \in Range(new) THEN "pending" ELSE evStatus[e]]
         /\ evJob' = [e \in Events |->
                        IF e \in Range(new) THEN CHOOSE j \in stalled : new[j] = e
                                            ELSE evJob[e]]
    /\ stalled' = {}
    /\ UNCHANGED <<jobVars, evRetries, evDue, evLock, published, msgs, dispVars,
                   faultVars>>

----------------------------------------------------------------------------
Dispatch(d) == \/ ClaimSelect(d) \/ ClaimCommit(d) \/ LoadEvent(d) \/ Send(d)
               \/ SendRefused(d) \/ MarkSent(d) \/ MarkFailed(d) \/ Finish(d)
               \/ DispatcherDies(d)

Next ==
    \/ \E j \in Jobs : \/ \E e \in Events : CreateJob(j, e)
                       \/ JobAges(j) \/ Consume(j) \/ Lose(j)
    \/ \E d \in Dispatchers : Dispatch(d)
    \/ \E e \in Events : LockGoesStale(e) \/ RetryFallsDue(e)
    \/ RedispatchSelect \/ RedispatchCommit

Spec == Init /\ [][Next]_vars

(***************************************************************************)
(* Fairness: beat keeps scheduling both tasks and they run to their end,   *)
(* GPU workers keep consuming, time passes.  Nothing forces a fault.       *)
(***************************************************************************)
FairSpec ==
    /\ Spec
    /\ \A d \in Dispatchers : WF_vars(Dispatch(d))
    /\ \A j \in Jobs : WF_vars(JobAges(j)) /\ WF_vars(Consume(j))
    /\ \A e \in Events : WF_vars(LockGoesStale(e)) /\ WF_vars(RetryFallsDue(e))
    /\ WF_vars(RedispatchSelect) /\ WF_vars(RedispatchCommit)

----------------------------------------------------------------------------
(***************************************************************************)
(* Properties.                                                             *)
(***************************************************************************)

\* Every variable keeps its type.
TypeOK ==
    /\ job \in [Jobs -> {"absent", "queued", "taken"}]
    /\ old \in [Jobs -> BOOLEAN]
    /\ evStatus \in [Events -> EventStatus]
    /\ evJob \in [Events -> Jobs \cup {NoJob}]
    /\ \A e \in Events : evJob[e] = NoJob <=> evStatus[e] = "free"
    /\ evRetries \in [Events -> Nat]
    /\ evDue \in [Events -> BOOLEAN]
    /\ evLock \in [Events -> {"none", "fresh", "stale"}]
    /\ published \in [Events -> BOOLEAN]
    /\ msgs \in [Jobs -> Nat]
    /\ dpc \in [Dispatchers ->
                 {"idle", "selected", "sending"} \cup Publishing]
    /\ batch \in [Dispatchers -> SUBSET Events]
    /\ cur \in [Dispatchers -> Events \cup {NoEvent}]
    /\ \A d \in Dispatchers :
         IF dpc[d] \in Publishing THEN cur[d] \in batch[d] ELSE cur[d] = NoEvent
    /\ seenStatus \in [Dispatchers -> [Events -> EventStatus]]
    /\ seenRetries \in [Dispatchers -> Nat]
    /\ seenLocked \in [Dispatchers -> BOOLEAN]
    /\ stalled \in SUBSET Jobs
    /\ refusals \in Nat /\ deaths \in Nat /\ losses \in Nat

\* An event is SENT only when the broker has accepted its message: a crash
\* between the two repeats the message and never drops it.
SentMeansPublished == \A e \in Events : evStatus[e] = "sent" => published[e]

\* With one dispatcher an event that is not settled can still be claimed, now
\* or when its lock goes stale: no crash leaves it open for ever.
OpenEventStillClaimable ==
    \A e \in Events : evStatus[e] \in Unsettled => evRetries[e] < MaxRetries

\* With one dispatcher a job never has two open events: redispatch adds one
\* only when the earlier ones FAILED for good.
OneOpenEvent ==
    \A e, f \in Events :
      evJob[e] = evJob[f] /\ evStatus[e] \in Open /\ evStatus[f] \in Open => e = f

\* With one dispatcher a settled event (SENT, FAILED) never opens again.
SettledStays ==
    [][\A e \in Events : evStatus[e] \in {"sent", "failed"} => evStatus'[e] = evStatus[e]]_vars

\* Every event is settled in the end, for good: a dispatcher that is late re-opens a
\* settled event no more than for the time of its own run, and while none dies it
\* settles what it has re-opened.
EventsSettle ==
    \A e \in Events : evStatus[e] \in Unsettled ~> [](evStatus[e] \notin Unsettled)

\* While no message is lost, a QUEUED job always has a carrier: a message in
\* the broker, an event that will be dispatched, or no open event, so that it
\* will be dispatched anew.
QueuedHasCarrier ==
    \A j \in Jobs : job[j] = "queued" =>
      \/ msgs[j] > 0
      \/ \E e \in Events : evJob[e] = j /\ evStatus[e] \in Unsettled
      \/ ~HasOpenEvent(j)

\* Unless a message is lost, every QUEUED job is eventually claimed, through
\* refused publications, FAILED events and the death of dispatchers.
QueuedIsTaken ==
    \A j \in Jobs : (job[j] = "queued") ~> (job[j] = "taken" \/ losses > 0)

(***************************************************************************)
(* The inductive invariants behind them (proved in OutboxProofs).          *)
(***************************************************************************)

\* A dispatcher works only on events that exist.
BatchExists == \A d \in Dispatchers : \A e \in batch[d] : evStatus[e] # "free"

\* What was published is still in the broker or has been consumed, unless a
\* message was lost.
PublishInv ==
    /\ SentMeansPublished
    /\ \A d \in Dispatchers : dpc[d] = "accepted" => published[cur[d]]
    /\ \A e \in Events : published[e] =>
         /\ evStatus[e] # "free"
         /\ MaxLosses = 0 => msgs[evJob[e]] > 0 \/ job[evJob[e]] = "taken"

\* What a dispatcher that runs alone has in memory is what is in the table.
MemoryInv ==
    \A d \in Dispatchers :
      /\ \A e \in batch[d] :
           /\ evRetries[e] < MaxRetries
           /\ IF dpc[d] = "selected"
              THEN evStatus[e] \in Unsettled /\ seenStatus[d][e] = evStatus[e]
              ELSE evStatus[e] = "sending"
      /\ dpc[d] \in Publishing =>
           seenStatus[d][cur[d]] = "sending" /\ seenRetries[d] = evRetries[cur[d]]

\* A job about to be dispatched anew exists and has no open event; a row not yet
\* inserted has no retries, and an absent job no event.
RedispatchInv ==
    /\ \A j \in stalled : job[j] # "absent" /\ ~HasOpenEvent(j)
    /\ \A e \in Events :
         /\ evStatus[e] = "free" => evRetries[e] = 0
         /\ evStatus[e] # "free" => job[evJob[e]] # "absent"
============================================================================
