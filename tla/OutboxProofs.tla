--------------------------- MODULE OutboxProofs ---------------------------
(***************************************************************************)
(* Proofs about Outbox, for every value of its constants.  The first part  *)
(* holds for any number of dispatchers, the second for one.                *)
(***************************************************************************)
EXTENDS Outbox, TLAPS

Typed == TypeOK /\ BatchExists

----------------------------------------------------------------------------
(***************************************************************************)
(* Type correctness.                                                       *)
(***************************************************************************)

\* A dispatcher that publishes an event has one at hand, of some job.
LEMMA CurrentEvent ==
    ASSUME Typed, NEW d \in Dispatchers, dpc[d] \in Publishing
    PROVE  cur[d] \in batch[d] /\ cur[d] \in Events /\ evJob[cur[d]] \in Jobs
  BY DEF Typed, TypeOK, BatchExists

LEMMA TypedInit == Init => Typed
  BY NoneAssumption DEF Init, Typed, TypeOK, BatchExists, EventStatus, Publishing

LEMMA TypedStep == Typed /\ [Next]_vars => Typed'
  <1> SUFFICES ASSUME Typed, [Next]_vars PROVE Typed'
    OBVIOUS
  <1> USE DEF Typed, TypeOK, BatchExists, EventStatus, Publishing, jobVars, evVars, seenVars,
              dispVars, faultVars, Expire
  <1>1. ASSUME NEW j \in Jobs, NEW e \in Events, CreateJob(j, e) PROVE Typed'
    BY <1>1, NoneAssumption DEF CreateJob, Free
  <1>2. ASSUME NEW j \in Jobs, JobAges(j) PROVE Typed'
    BY <1>2 DEF JobAges
  <1>3. ASSUME NEW j \in Jobs, Consume(j) PROVE Typed'
    BY <1>3 DEF Consume
  <1>4. ASSUME NEW j \in Jobs, Lose(j) PROVE Typed'
    BY <1>4 DEF Lose
  <1>5. ASSUME NEW d \in Dispatchers, Dispatch(d) PROVE Typed'
    <2>1. CASE ClaimSelect(d)
      <3>1. PICK S \in SUBSET Claimable : batch' = [batch EXCEPT ![d] = S]
        BY <2>1 DEF ClaimSelect
      <3>2. S \subseteq Events /\ \A e \in S : evStatus[e] # "free"
        BY DEF Claimable, Unsettled
      <3>3. batch' \in [Dispatchers -> SUBSET Events]
        BY <3>1, <3>2
      <3>4. seenStatus' \in [Dispatchers -> [Events -> EventStatus]]
        BY <2>1 DEF ClaimSelect
      <3>5. \A c \in Dispatchers :
              IF dpc'[c] \in Publishing THEN cur'[c] \in batch'[c] ELSE cur'[c] = NoEvent
        BY <2>1, <3>1 DEF ClaimSelect
      <3> QED
        BY <2>1, <3>1, <3>2, <3>3, <3>4, <3>5 DEF ClaimSelect
    <2>2. CASE ClaimCommit(d)
      BY <2>2 DEF ClaimCommit, Dirty
    <2>3. CASE LoadEvent(d)
      BY <2>3 DEF LoadEvent
    <2>4. CASE Send(d)
      BY <2>4, CurrentEvent DEF Send, Accept
    <2>5. CASE SendRefused(d)
      <3>1. CASE Accept(d)
        BY <2>5, <3>1, CurrentEvent DEF SendRefused, Accept
      <3>2. CASE UNCHANGED <<msgs, published>>
        BY <2>5, <3>2 DEF SendRefused
      <3> QED
        BY <2>5, <3>1, <3>2 DEF SendRefused
    <2>6. CASE MarkSent(d)
      BY <2>6, CurrentEvent, NoneAssumption DEF MarkSent, Dirty, Unlock, NextEvent
    <2>7. CASE MarkFailed(d)
      BY <2>7, CurrentEvent, NoneAssumption DEF MarkFailed, Dirty, Spent, Unlock, NextEvent
    <2>8. CASE Finish(d)
      BY <2>8, NoneAssumption DEF Finish, EndRun
    <2>9. CASE DispatcherDies(d)
      BY <2>9, NoneAssumption DEF DispatcherDies, EndRun
    <2> QED
      BY <1>5, <2>1, <2>2, <2>3, <2>4, <2>5, <2>6, <2>7, <2>8, <2>9 DEF Dispatch
  <1>6. ASSUME NEW e \in Events, LockGoesStale(e) PROVE Typed'
    BY <1>6 DEF LockGoesStale
  <1>7. ASSUME NEW e \in Events, RetryFallsDue(e) PROVE Typed'
    BY <1>7 DEF RetryFallsDue
  <1>8. CASE RedispatchSelect
    BY <1>8 DEF RedispatchSelect, StaleQueued
  <1>9. CASE RedispatchCommit
    <2>1. PICK new \in Injection(stalled, Free) :
            /\ evStatus' = [e \in Events |->
                              IF e \in Range(new) THEN "pending" ELSE evStatus[e]]
            /\ evJob' = [e \in Events |->
                           IF e \in Range(new) THEN CHOOSE j \in stalled : new[j] = e
                                               ELSE evJob[e]]
      BY <1>9 DEF RedispatchCommit
    <2>2. \A e \in Range(new) : (CHOOSE j \in stalled : new[j] = e) \in Jobs
      BY <2>1 DEF Injection, IsInjective, Range
    <2>3. \A e \in Events : evJob'[e] = NoJob <=> evStatus'[e] = "free"
      BY <2>1, <2>2, NoneAssumption
    <2> QED
      BY <1>9, <2>1, <2>2, <2>3 DEF RedispatchCommit
  <1>10. CASE UNCHANGED vars
    BY <1>10 DEF vars
  <1> QED
    BY <1>1, <1>2, <1>3, <1>4, <1>5, <1>6, <1>7, <1>8, <1>9, <1>10 DEF Next

\* Every variable keeps its type, whatever the instance.
THEOREM OutboxTypeInvariant == Spec => []TypeOK
  <1>1. Typed => TypeOK
    BY DEF Typed
  <1> QED
    BY <1>1, TypedInit, TypedStep, PTL DEF Spec

----------------------------------------------------------------------------
(***************************************************************************)
(* Publication comes before SENT, and what is published arrives.           *)
(***************************************************************************)

LEMMA PublishInit == Init => PublishInv
  BY DEF Init, PublishInv, SentMeansPublished

\* The new events of a redispatch are rows that were free.
LEMMA NewEventsWereFree ==
    ASSUME NEW new \in Injection(stalled, Free) PROVE Range(new) \subseteq Free
  BY DEF Injection, IsInjective, Range

LEMMA PublishStep == Typed /\ PublishInv /\ [Next]_vars => PublishInv'
  <1> SUFFICES ASSUME Typed, PublishInv, [Next]_vars PROVE PublishInv'
    OBVIOUS
  <1>t. TypeOK /\ BatchExists /\ TypeOK'
    BY TypedStep DEF Typed
  <1> USE DEF PublishInv, SentMeansPublished, jobVars, evVars, seenVars, dispVars, faultVars
  <1>1. ASSUME NEW j \in Jobs, NEW e \in Events, CreateJob(j, e) PROVE PublishInv'
    BY <1>t, <1>1 DEF TypeOK, CreateJob, Free, Publishing
  <1>2. ASSUME NEW j \in Jobs, JobAges(j) PROVE PublishInv'
    BY <1>t, <1>2 DEF TypeOK, JobAges
  <1>3. ASSUME NEW j \in Jobs, Consume(j) PROVE PublishInv'
    BY <1>t, <1>3 DEF TypeOK, Consume
  <1>4. ASSUME NEW j \in Jobs, Lose(j) PROVE PublishInv'
    BY <1>t, <1>4 DEF TypeOK, Lose
  <1>5. ASSUME NEW d \in Dispatchers, Dispatch(d) PROVE PublishInv'
    <2>1. CASE ClaimSelect(d)
      BY <1>t, <2>1 DEF TypeOK, ClaimSelect
    <2>2. CASE ClaimCommit(d)
      BY <1>t, <2>2 DEF TypeOK, BatchExists, ClaimCommit, Dirty
    <2>3. CASE LoadEvent(d)
      BY <1>t, <2>3 DEF TypeOK, LoadEvent
    <2>4. ASSUME Accept(d), dpc[d] = "loaded",
                 dpc' = [dpc EXCEPT ![d] = "accepted"] \/ dpc' = [dpc EXCEPT ![d] = "refused"],
                 UNCHANGED <<jobVars, evVars, cur>>
          PROVE  PublishInv'
      <3>1. cur[d] \in Events /\ evStatus[cur[d]] # "free" /\ evJob[cur[d]] \in Jobs
        BY <1>t, <2>4, CurrentEvent DEF BatchExists, Publishing
      <3> QED
        BY <1>t, <2>4, <3>1 DEF TypeOK, Accept
    <2>5. CASE Send(d)
      BY <2>4, <2>5 DEF Send
    <2>6. CASE SendRefused(d)
      <3>1. CASE Accept(d)
        BY <2>4, <2>6, <3>1 DEF SendRefused
      <3>2. CASE UNCHANGED <<msgs, published>>
        BY <1>t, <2>6, <3>2 DEF TypeOK, SendRefused
      <3> QED
        BY <2>6, <3>1, <3>2 DEF SendRefused
    <2>7. CASE MarkSent(d)
      BY <1>t, <2>7, CurrentEvent DEF TypeOK, Publishing, MarkSent, Dirty, NextEvent
    <2>8. CASE MarkFailed(d)
      BY <1>t, <2>8, CurrentEvent DEF TypeOK, Publishing, MarkFailed, Dirty, Spent, NextEvent
    <2>9. CASE Finish(d)
      BY <1>t, <2>9 DEF TypeOK, Finish, EndRun
    <2>10. CASE DispatcherDies(d)
      BY <1>t, <2>10 DEF TypeOK, DispatcherDies, EndRun
    <2> QED
      BY <1>5, <2>1, <2>2, <2>3, <2>5, <2>6, <2>7, <2>8, <2>9, <2>10 DEF Dispatch
  <1>6. ASSUME NEW e \in Events, LockGoesStale(e) \/ RetryFallsDue(e) PROVE PublishInv'
    BY <1>t, <1>6 DEF TypeOK, LockGoesStale, RetryFallsDue
  <1>7. CASE RedispatchSelect
    BY <1>t, <1>7 DEF TypeOK, RedispatchSelect
  <1>8. CASE RedispatchCommit
    <2>1. PICK new \in Injection(stalled, Free) :
            /\ evStatus' = [e \in Events |->
                              IF e \in Range(new) THEN "pending" ELSE evStatus[e]]
            /\ evJob' = [e \in Events |->
                           IF e \in Range(new) THEN CHOOSE j \in stalled : new[j] = e
                                               ELSE evJob[e]]
      BY <1>8 DEF RedispatchCommit
    <2>2. \A e \in Range(new) : ~published[e]
      BY <2>1, NewEventsWereFree DEF Free
    <2>3. \A e \in Events : ~(e \in Range(new)) => evJob'[e] = evJob[e] /\ evStatus'[e] = evStatus[e]
      BY <2>1
    <2>4. \A e \in Range(new) : e \in Events => evStatus'[e] = "pending"
      BY <2>1
    <2>5. UNCHANGED <<job, published, msgs, dpc, cur>>
      BY <1>8 DEF RedispatchCommit
    <2>6. \A e \in Events : evStatus'[e] = "sent" => published'[e]
      BY <2>3, <2>4, <2>5
    <2>7. \A e \in Events : published'[e] => e \notin Range(new)
      BY <2>2, <2>5
    <2> QED
      BY <2>3, <2>5, <2>6, <2>7
  <1>9. CASE UNCHANGED vars
    BY <1>t, <1>9 DEF vars
  <1> QED
    BY <1>1, <1>2, <1>3, <1>4, <1>5, <1>6, <1>7, <1>8, <1>9 DEF Next

\* With any number of dispatchers, whatever they overwrite and whenever they die,
\* an event is SENT only after the broker has accepted its message.
THEOREM SentWasPublished == Spec => []SentMeansPublished
  <1>1. PublishInv => SentMeansPublished
    BY DEF PublishInv
  <1> QED
    BY <1>1, PublishInit, PublishStep, TypedInit, TypedStep, PTL DEF Spec

\* With any number of dispatchers: unless a message is lost, a QUEUED job has a
\* message in the broker, an unsettled event, or no open event at all.
THEOREM QueuedJobHasCarrier == ASSUME MaxLosses = 0 PROVE Spec => []QueuedHasCarrier
  <1>1. TypeOK /\ PublishInv => QueuedHasCarrier
    <2> SUFFICES ASSUME TypeOK, PublishInv, NEW j \in Jobs, job[j] = "queued",
                        HasOpenEvent(j),
                        ~ \E e \in Events : evJob[e] = j /\ evStatus[e] \in Unsettled
                 PROVE  msgs[j] > 0
      BY DEF QueuedHasCarrier
    <2>1. PICK e \in Events : evJob[e] = j /\ evStatus[e] = "sent"
      BY DEF HasOpenEvent, Open
    <2> QED
      BY <2>1, MaxLosses = 0 DEF PublishInv, SentMeansPublished
  <1>2. Typed => TypeOK
    BY DEF Typed
  <1> QED
    BY <1>1, <1>2, PublishInit, PublishStep, TypedInit, TypedStep, PTL DEF Spec

----------------------------------------------------------------------------
(***************************************************************************)
(* One dispatcher: what it has in memory is what is in the table, so each  *)
(* event ends once and every job has one open event at most.               *)
(***************************************************************************)

OneDispatcher == \A c, d \in Dispatchers : c = d

AloneInv == /\ MemoryInv /\ RedispatchInv
            /\ OpenEventStillClaimable /\ OneOpenEvent

LEMMA AloneInit == Init => AloneInv
  BY DEF Init, AloneInv, MemoryInv, RedispatchInv, OpenEventStillClaimable, OneOpenEvent,
         Open, Unsettled, Publishing

LEMMA AloneStep ==
  ASSUME OneDispatcher
  PROVE  Typed /\ AloneInv /\ [Next]_vars => AloneInv'
  <1> SUFFICES ASSUME Typed, AloneInv, [Next]_vars PROVE AloneInv'
    OBVIOUS
  <1>t. TypeOK /\ BatchExists /\ TypeOK' /\ BatchExists'
    BY TypedStep DEF Typed
  <1> USE DEF AloneInv, MemoryInv, RedispatchInv, OpenEventStillClaimable, OneOpenEvent,
              HasOpenEvent, Open, Unsettled, Publishing, jobVars, evVars, seenVars,
              dispVars, faultVars
  <1>1. ASSUME NEW j \in Jobs, NEW e \in Events, CreateJob(j, e) PROVE AloneInv'
    <2>1. /\ job' = [job EXCEPT ![j] = "queued"] /\ job[j] = "absent"
          /\ evStatus' = [evStatus EXCEPT ![e] = "pending"] /\ evStatus[e] = "free"
          /\ evJob' = [evJob EXCEPT ![e] = j]
          /\ UNCHANGED <<evRetries, dispVars, stalled>>
      BY <1>1 DEF CreateJob, Free
    <2>2. MemoryInv'
      BY <1>t, <2>1 DEF TypeOK, BatchExists
    <2>3. RedispatchInv'
      BY <1>t, <2>1 DEF TypeOK
    <2>4. OpenEventStillClaimable'
      BY <1>t, <2>1, RetriesAssumption DEF TypeOK
    <2>5. OneOpenEvent'
      BY <1>t, <2>1 DEF TypeOK
    <2> QED
      BY <2>2, <2>3, <2>4, <2>5
  <1>2. ASSUME NEW j \in Jobs, JobAges(j) PROVE AloneInv'
    BY <1>t, <1>2 DEF JobAges
  <1>3. ASSUME NEW j \in Jobs, Consume(j) PROVE AloneInv'
    BY <1>t, <1>3 DEF TypeOK, Consume
  <1>4. ASSUME NEW j \in Jobs, Lose(j) PROVE AloneInv'
    BY <1>t, <1>4 DEF Lose
  <1>5. ASSUME NEW d \in Dispatchers, Dispatch(d) PROVE AloneInv'
    <2>a. Dispatchers = {d}
      BY OneDispatcher DEF OneDispatcher
    <2>1. CASE ClaimSelect(d)
      <3>1. PICK S \in SUBSET Claimable : batch' = [batch EXCEPT ![d] = S]
        BY <2>1 DEF ClaimSelect
      <3>2. \A e \in S : evStatus[e] \in Unsettled /\ evRetries[e] < MaxRetries /\ e \in Events
        BY DEF Claimable
      <3>3. \A e \in S : seenStatus'[d][e] = evStatus[e]
        BY <1>t, <2>1, <3>1, <3>2 DEF TypeOK, ClaimSelect
      <3>4. MemoryInv'
        BY <1>t, <2>a, <2>1, <3>1, <3>2, <3>3 DEF TypeOK, ClaimSelect
      <3> QED
        BY <2>1, <3>4 DEF ClaimSelect
    <2>2. CASE ClaimCommit(d)
      <3>1. \A e \in Events : evStatus'[e] = IF e \in batch[d] THEN "sending" ELSE evStatus[e]
        BY <1>t, <2>2 DEF TypeOK, ClaimCommit, Dirty
      <3>2. \A e \in Events : evStatus'[e] \in Open <=> evStatus[e] \in Open
        BY <1>t, <2>2, <3>1 DEF TypeOK, ClaimCommit
      <3>3. UNCHANGED <<job, evJob, evRetries, batch, cur, stalled>>
        BY <2>2 DEF ClaimCommit
      <3>4. MemoryInv'
        BY <1>t, <2>a, <2>2, <3>1, <3>3 DEF TypeOK, ClaimCommit
      <3>5. OpenEventStillClaimable' /\ OneOpenEvent'
        BY <1>t, <2>2, <3>1, <3>2, <3>3 DEF TypeOK, ClaimCommit
      <3>6. RedispatchInv'
        BY <1>t, <2>2, <3>1, <3>2, <3>3 DEF TypeOK, BatchExists, ClaimCommit
      <3> QED
        BY <3>4, <3>5, <3>6
    <2>3. CASE LoadEvent(d)
      <3>1. MemoryInv'
        BY <1>t, <2>a, <2>3 DEF TypeOK, LoadEvent
      <3> QED
        BY <2>3, <3>1 DEF LoadEvent
    <2>4. CASE Send(d)
      BY <1>t, <2>a, <2>4 DEF TypeOK, Send
    <2>5. CASE SendRefused(d)
      BY <1>t, <2>a, <2>5 DEF TypeOK, SendRefused
    <2>6. ASSUME NEW s \in {"sent", "failed", "pending"},
                 dpc[d] \in Publishing, NextEvent(d),
                 evStatus' = [evStatus EXCEPT ![cur[d]] = s],
                 s = "pending" => evRetries'[cur[d]] < MaxRetries,
                 \A e \in Events \ {cur[d]} : evRetries'[e] = evRetries[e],
                 UNCHANGED <<job, evJob, stalled>>
          PROVE  AloneInv'
      <3>1. cur[d] \in Events /\ cur[d] \in batch[d] /\ evStatus[cur[d]] = "sending"
        BY <1>t, <2>6 DEF TypeOK
      <3>2. MemoryInv'
        BY <1>t, <2>a, <2>6, <3>1 DEF TypeOK, NextEvent
      <3>3. RedispatchInv' /\ OpenEventStillClaimable' /\ OneOpenEvent'
        BY <1>t, <2>6, <3>1 DEF TypeOK
      <3> QED
        BY <3>2, <3>3
    <2>7. CASE MarkSent(d)
      <3>1. evStatus' = [evStatus EXCEPT ![cur[d]] = "sent"]
        BY <1>t, <2>7 DEF TypeOK, MarkSent, Dirty
      <3> QED
        BY <2>6, <2>7, <3>1 DEF MarkSent
    <2>8. CASE MarkFailed(d)
      <3> DEFINE s == IF Spent(seenRetries[d] + 1) THEN "failed" ELSE "pending"
      <3>1. evStatus' = [evStatus EXCEPT ![cur[d]] = s]
        BY <1>t, <2>8 DEF TypeOK, MarkFailed, Dirty
      <3>2. evRetries' = [evRetries EXCEPT ![cur[d]] = seenRetries[d] + 1] /\ cur[d] \in Events
        BY <1>t, <2>8 DEF TypeOK, MarkFailed
      <3>3. s = "pending" => evRetries'[cur[d]] < MaxRetries
        BY <1>t, <3>2, RetriesAssumption DEF TypeOK, Spent
      <3>4. \A e \in Events \ {cur[d]} : evRetries'[e] = evRetries[e]
        BY <1>t, <3>2 DEF TypeOK
      <3>5. s \in {"sent", "failed", "pending"}
        OBVIOUS
      <3> HIDE DEF s
      <3> QED
        BY <2>6, <2>8, <3>1, <3>3, <3>4, <3>5 DEF MarkFailed
    <2>9. CASE Finish(d)
      BY <1>t, <2>a, <2>9 DEF TypeOK, Finish, EndRun
    <2>10. CASE DispatcherDies(d)
      BY <1>t, <2>a, <2>10 DEF TypeOK, DispatcherDies, EndRun
    <2> QED
      BY <1>5, <2>1, <2>2, <2>3, <2>4, <2>5, <2>7, <2>8, <2>9, <2>10 DEF Dispatch
  <1>6. ASSUME NEW e \in Events, LockGoesStale(e) \/ RetryFallsDue(e) PROVE AloneInv'
    BY <1>t, <1>6 DEF LockGoesStale, RetryFallsDue
  <1>7. CASE RedispatchSelect
    BY <1>t, <1>7 DEF RedispatchSelect, StaleQueued
  <1>8. CASE RedispatchCommit
    <2>1. PICK new \in Injection(stalled, Free) :
            /\ evStatus' = [e \in Events |->
                              IF e \in Range(new) THEN "pending" ELSE evStatus[e]]
            /\ evJob' = [e \in Events |->
                           IF e \in Range(new) THEN CHOOSE j \in stalled : new[j] = e
                                               ELSE evJob[e]]
      BY <1>8 DEF RedispatchCommit
    <2>2. UNCHANGED <<job, evRetries, dispVars>> /\ stalled' = {}
      BY <1>8 DEF RedispatchCommit
    <2>3. \A e \in Range(new) : e \in Events /\ evStatus[e] = "free"
      BY <2>1, NewEventsWereFree DEF Free
    <2>4. \A e \in Range(new) : evStatus'[e] = "pending" /\ evJob'[e] \in stalled
                                /\ new[evJob'[e]] = e
      BY <2>1, <2>3 DEF Injection, IsInjective, Range
    <2>5. \A e \in Events : e \notin Range(new) =>
                              evJob'[e] = evJob[e] /\ evStatus'[e] = evStatus[e]
      BY <2>1
    <2>6. MemoryInv'
      BY <1>t, <2>2, <2>3, <2>5 DEF TypeOK, BatchExists
    <2>7. OpenEventStillClaimable' /\ RedispatchInv'
      BY <1>t, <2>2, <2>3, <2>4, <2>5, RetriesAssumption DEF TypeOK
    <2>8. ASSUME NEW e \in Events, NEW f \in Events, evJob'[e] = evJob'[f],
                 evStatus'[e] \in Open, evStatus'[f] \in Open
          PROVE  e = f
      <3>1. CASE e \in Range(new) /\ f \in Range(new)
        <4>1. new[evJob'[e]] = e /\ new[evJob'[f]] = f
          BY <2>4, <3>1
        <4> QED
          BY <2>8, <4>1
      <3>2. \A g \in Events : g \notin Range(new) /\ evStatus'[g] \in Open
                             => evJob'[g] \notin stalled
        BY <2>5
      <3>3. CASE e \notin Range(new) /\ f \notin Range(new)
        BY <2>5, <2>8, <3>3
      <3> QED
        BY <2>4, <2>8, <3>1, <3>2, <3>3
    <2>9. OneOpenEvent'
      BY <2>8
    <2> QED
      BY <2>6, <2>7, <2>9
  <1>9. CASE UNCHANGED vars
    BY <1>t, <1>9 DEF vars
  <1> QED
    BY <1>1, <1>2, <1>3, <1>4, <1>5, <1>6, <1>7, <1>8, <1>9 DEF Next

\* With one dispatcher no crash leaves an event open and beyond its retries.
THEOREM OpenEventsStayClaimable == ASSUME OneDispatcher PROVE Spec => []OpenEventStillClaimable
  <1>1. AloneInv => OpenEventStillClaimable
    BY DEF AloneInv
  <1> QED
    BY <1>1, AloneInit, AloneStep, TypedInit, TypedStep, PTL DEF Spec

\* With one dispatcher a job never has two open events.
THEOREM OneOpenEventPerJob == ASSUME OneDispatcher PROVE Spec => []OneOpenEvent
  <1>1. AloneInv => OneOpenEvent
    BY DEF AloneInv
  <1> QED
    BY <1>1, AloneInit, AloneStep, TypedInit, TypedStep, PTL DEF Spec

\* With one dispatcher a SENT or FAILED event keeps its status.
THEOREM SettledForGood == ASSUME OneDispatcher PROVE Spec => SettledStays
  <1> DEFINE Stays == \A e \in Events : evStatus[e] \in {"sent", "failed"}
                                        => evStatus'[e] = evStatus[e]
  <1>1. ASSUME Typed, AloneInv, [Next]_vars PROVE Stays
    <2>t. TypeOK /\ MemoryInv
      BY <1>1 DEF Typed, AloneInv
    <2> USE DEF evVars
    <2>1. ASSUME NEW j \in Jobs, NEW e \in Events, CreateJob(j, e) PROVE Stays
      BY <2>1, <2>t DEF TypeOK, CreateJob, Free
    <2>2. ASSUME NEW j \in Jobs, JobAges(j) \/ Consume(j) \/ Lose(j) PROVE Stays
      BY <2>2 DEF JobAges, Consume, Lose
    <2>3. ASSUME NEW d \in Dispatchers, Dispatch(d) PROVE Stays
      <3>1. CASE ClaimCommit(d)
        BY <2>t, <3>1 DEF TypeOK, MemoryInv, Unsettled, ClaimCommit
      <3>2. CASE MarkSent(d) \/ MarkFailed(d)
        <4>1. cur[d] \in Events /\ evStatus[cur[d]] = "sending"
          BY <2>t, <3>2 DEF TypeOK, MemoryInv, Publishing, MarkSent, MarkFailed
        <4>2. \A e \in Events \ {cur[d]} : evStatus'[e] = evStatus[e]
          BY <2>t, <3>2 DEF TypeOK, MarkSent, MarkFailed
        <4> QED
          BY <4>1, <4>2
      <3>3. CASE UNCHANGED evStatus
        BY <3>3
      <3> QED
        BY <2>3, <3>1, <3>2, <3>3
        DEF Dispatch, ClaimSelect, LoadEvent, Send, SendRefused, Finish, DispatcherDies
    <2>4. ASSUME NEW e \in Events, LockGoesStale(e) \/ RetryFallsDue(e) PROVE Stays
      BY <2>4 DEF LockGoesStale, RetryFallsDue
    <2>5. CASE RedispatchSelect
      BY <2>5 DEF RedispatchSelect
    <2>6. CASE RedispatchCommit
      BY <2>6, NewEventsWereFree DEF RedispatchCommit, Free
    <2>7. CASE UNCHANGED vars
      BY <2>7 DEF vars
    <2> QED
      BY <1>1, <2>1, <2>2, <2>3, <2>4, <2>5, <2>6, <2>7 DEF Next
  <1>2. Typed /\ AloneInv /\ [Next]_vars => [Stays]_vars
    BY <1>1
  <1> QED
    BY <1>2, AloneInit, AloneStep, TypedInit, TypedStep, PTL DEF Spec, SettledStays
============================================================================
