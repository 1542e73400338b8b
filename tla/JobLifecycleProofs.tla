------------------------ MODULE JobLifecycleProofs ------------------------
(***************************************************************************)
(* Proofs about JobLifecycle, for every value of its constants.            *)
(***************************************************************************)
EXTENDS JobLifecycle, TLAPS

----------------------------------------------------------------------------
(***************************************************************************)
(* Type correctness.                                                       *)
(***************************************************************************)

\* A worker that runs a task has the job of the task at hand.
LEMMA BusyWorkerHasJob ==
    ASSUME TypeOK, NEW w \in Workers, pc[w] # "idle"
    PROVE  cur[w] \in Jobs
  BY DEF TypeOK

\* The watchdog's SELECT returns job rows.
LEMMA StaleAreJobs == StaleProcessing \subseteq Jobs
  BY DEF StaleProcessing

LEMMA TypeInit == Init => TypeOK
  BY DEF Init, TypeOK, Requests, Statuses, Steps

LEMMA TypeStep == TypeOK /\ [Next]_vars => TypeOK'
  <1> SUFFICES ASSUME TypeOK, [Next]_vars PROVE TypeOK'
    OBVIOUS
  <1> USE DEF TypeOK, Requests, Statuses, ActiveStatus, Terminal, Steps, Holding,
              StepTo, EndTask, reqVars, jobVars, taskVars
  <1>1. ASSUME NEW j \in Jobs, Request(j) PROVE TypeOK'
    BY <1>1 DEF Request, Admit, LookupHit, CommitHit, LookupMiss, InsertQueued, InsertRejected,
                AbandonRequest, ActiveResults
  <1>2. ASSUME NEW j \in Jobs, DeleteResult(j) \/ Publish(j) PROVE TypeOK'
    BY <1>2 DEF DeleteResult, Publish
  <1>7. ASSUME NEW j \in Jobs, HeartbeatGoesStale(j) PROVE TypeOK'
    BY <1>7 DEF HeartbeatGoesStale
  <1>3. ASSUME NEW w \in Workers, NEW j \in Jobs, Receive(w, j) PROVE TypeOK'
    BY <1>3, NoJobAssumption DEF Receive
  <1>4. ASSUME NEW w \in Workers, Task(w) PROVE TypeOK'
    <2>1. CASE ClaimForProcessing(w)
      BY <2>1, BusyWorkerHasJob DEF ClaimForProcessing
    <2>9. CASE ClaimRefused(w)
      BY <2>9, BusyWorkerHasJob DEF ClaimRefused
    <2>2. CASE StartPipeline(w)
      BY <2>2, BusyWorkerHasJob DEF StartPipeline
    <2>10. CASE FinishPipeline(w)
      BY <2>10, BusyWorkerHasJob DEF FinishPipeline
    <2>3. CASE CreateResult(w) \/ InsertConflict(w) \/ MarkSucceeded(w)
      BY <2>3, BusyWorkerHasJob DEF CreateResult, InsertConflict, MarkSucceeded
    <2>4. CASE CommitSuccess(w)
      BY <2>4, BusyWorkerHasJob DEF CommitSuccess
    <2>5. CASE ReleaseAndReturn(w) \/ HandlerFails(w)
      BY <2>5, BusyWorkerHasJob DEF ReleaseAndReturn, HandlerFails
    <2>6. CASE Die(w)
      BY <2>6, BusyWorkerHasJob DEF Die
    <2>7. ASSUME NEW s \in {"failed", "timeout"}, MarkFailed(w, s), pc[w] # "idle"
          PROVE  TypeOK'
      BY <2>7, BusyWorkerHasJob DEF MarkFailed
    <2>8. CASE PipelineError(w) \/ SoftLimit(w) \/ ConnectionRefused(w)
      BY <2>7, <2>8 DEF PipelineError, SoftLimit, SoftLimitStrikes, ConnectionRefused
    <2> QED
      BY <1>4, <2>1, <2>2, <2>3, <2>4, <2>5, <2>6, <2>8, <2>9, <2>10 DEF Task
  <1>5. CASE Watchdog
    BY <1>5, StaleAreJobs DEF Watchdog, ExpireSelect, ExpireCommit, ExpireDies
  <1>6. CASE UNCHANGED vars
    BY <1>6 DEF vars
  <1> QED
    BY <1>1, <1>2, <1>3, <1>4, <1>5, <1>6, <1>7 DEF Next

\* Every variable keeps its type, whatever the instance.
THEOREM TypeInvariant == Spec => []TypeOK
  BY TypeInit, TypeStep, PTL DEF Spec

----------------------------------------------------------------------------
(***************************************************************************)
(* Every claim of a job is its first: ClaimInv.                            *)
(***************************************************************************)

LEMMA ClaimInit == Init => ClaimInv
  <1> SUFFICES ASSUME Init PROVE ClaimInv
    OBVIOUS
  <1> QED
    BY TypeInit, NoJobAssumption DEF Init, ClaimInv, AbsentUntouched, ClaimableUntouched,
       OneHolder, ClaimedNotStarted, PipelineAtMostOnce, Held, HeldBy, Holding

LEMMA ClaimStep == ClaimInv /\ [Next]_vars => ClaimInv'
  <1> SUFFICES ASSUME ClaimInv, [Next]_vars PROVE ClaimInv'
    OBVIOUS
  <1> DEFINE Rest == /\ AbsentUntouched /\ ClaimableUntouched /\ OneHolder
                     /\ ClaimedNotStarted /\ PipelineAtMostOnce
  <1>t. TypeOK /\ Rest /\ TypeOK'
    BY TypeStep DEF ClaimInv
  <1> SUFFICES Rest'
    BY <1>t DEF ClaimInv
  <1> USE DEF AbsentUntouched, ClaimableUntouched, OneHolder, ClaimedNotStarted,
              PipelineAtMostOnce, Held, HeldBy, Holding, Claimable, StepTo, EndTask,
              reqVars, jobVars, taskVars
  <1>1. ASSUME NEW j \in Jobs, Request(j) PROVE Rest'
    <2>1. CASE \/ Admit(j) \/ LookupHit(j) \/ LookupMiss(j)
               \/ InsertRejected(j) \/ AbandonRequest(j)
      BY <1>t, <2>1 DEF TypeOK, Admit, LookupHit, LookupMiss, InsertRejected, AbandonRequest
    <2>2. CASE CommitHit(j)
      BY <1>t, <2>2 DEF TypeOK, CommitHit
    <2>3. CASE InsertQueued(j)
      BY <1>t, <2>3 DEF TypeOK, InsertQueued
    <2> QED
      BY <1>1, <2>1, <2>2, <2>3 DEF Request
  <1>2. ASSUME NEW j \in Jobs, DeleteResult(j) \/ HeartbeatGoesStale(j) PROVE Rest'
    BY <1>t, <1>2 DEF TypeOK, DeleteResult, HeartbeatGoesStale
  <1>3. ASSUME NEW j \in Jobs, Publish(j) PROVE Rest'
    BY <1>t, <1>3 DEF TypeOK, Publish
  <1>4. ASSUME NEW w \in Workers, NEW j \in Jobs, Receive(w, j) PROVE Rest'
    BY <1>t, <1>4 DEF TypeOK, Receive
  <1>5. ASSUME NEW w \in Workers, Task(w) PROVE Rest'
    <2>1. CASE ClaimForProcessing(w)
      BY <1>t, <2>1, BusyWorkerHasJob DEF TypeOK, ClaimForProcessing
    <2>2. CASE StartPipeline(w)
      BY <1>t, <2>2, BusyWorkerHasJob DEF TypeOK, StartPipeline
    <2>3. CASE FinishPipeline(w) \/ CreateResult(w) \/ MarkSucceeded(w)
      BY <1>t, <2>3, BusyWorkerHasJob DEF TypeOK, FinishPipeline, CreateResult, MarkSucceeded
    <2>4. CASE CommitSuccess(w)
      BY <1>t, <2>4, BusyWorkerHasJob DEF TypeOK, CommitSuccess
    <2>5. CASE ClaimRefused(w) \/ InsertConflict(w) \/ ReleaseAndReturn(w) \/ HandlerFails(w)
      BY <1>t, <2>5, NoJobAssumption
      DEF TypeOK, ClaimRefused, InsertConflict, ReleaseAndReturn, HandlerFails
    <2>6. CASE Die(w)
      BY <1>t, <2>6, NoJobAssumption, BusyWorkerHasJob DEF TypeOK, Die
    <2>7. ASSUME NEW s \in {"failed", "timeout"}, MarkFailed(w, s), pc[w] # "idle"
          PROVE  Rest'
      BY <1>t, <2>7, NoJobAssumption, BusyWorkerHasJob DEF TypeOK, MarkFailed
    <2>8. CASE PipelineError(w) \/ SoftLimit(w) \/ ConnectionRefused(w)
      BY <2>7, <2>8 DEF PipelineError, SoftLimit, SoftLimitStrikes, ConnectionRefused
    <2> QED
      BY <1>5, <2>1, <2>2, <2>3, <2>4, <2>5, <2>6, <2>8 DEF Task
  <1>6. CASE Watchdog
    BY <1>t, <1>6 DEF TypeOK, Watchdog, ExpireSelect, ExpireCommit, ExpireDies, StaleProcessing
  <1>7. CASE UNCHANGED vars
    BY <1>t, <1>7 DEF vars
  <1> QED
    BY <1>1, <1>2, <1>3, <1>4, <1>5, <1>6, <1>7 DEF Next

\* However often its message is delivered, a job's pipeline is started at most
\* once: with any number of workers and copies, and under every fault.
THEOREM PipelineRunsAtMostOnce == Spec => []PipelineAtMostOnce
  <1>1. ClaimInv => PipelineAtMostOnce
    BY DEF ClaimInv
  <1> QED
    BY <1>1, ClaimInit, ClaimStep, PTL DEF Spec

----------------------------------------------------------------------------
(***************************************************************************)
(* Results: ResultInv.  The unique index makes a second INSERT of a key    *)
(* wait for the first one's transaction, which is all that keeps two       *)
(* workers of the same image (the first timed out by the watchdog) apart.  *)
(***************************************************************************)

LEMMA ResultInit == Init => ResultInv
  BY DEF Init, ResultInv, PendingUnique, ActiveResultUnique, ResultRefersToRow,
         SucceededHasResult, InsertPending

LEMMA ResultStep == TypeOK /\ ResultInv /\ [Next]_vars => ResultInv'
  <1> SUFFICES ASSUME TypeOK, ResultInv, [Next]_vars PROVE ResultInv'
    OBVIOUS
  <1> USE DEF ResultInv, PendingUnique, ActiveResultUnique, ResultRefersToRow,
              SucceededHasResult, ActiveResults, SameKey, InsertPending,
              StepTo, EndTask, reqVars, jobVars, taskVars
  <1>1. ASSUME NEW j \in Jobs, Request(j) PROVE ResultInv'
    <2>1. CASE Admit(j) \/ LookupMiss(j) \/ InsertRejected(j)
      BY <2>1 DEF TypeOK, Admit, LookupMiss, InsertRejected
    <2>4. CASE AbandonRequest(j)
      BY <2>4 DEF TypeOK, AbandonRequest
    <2>5. CASE LookupHit(j)
      BY <2>5, NoJobAssumption DEF TypeOK, LookupHit
    <2>2. CASE CommitHit(j)
      BY <2>2, NoJobAssumption DEF TypeOK, CommitHit
    <2>3. CASE InsertQueued(j)
      BY <2>3 DEF TypeOK, InsertQueued
    <2> QED
      BY <1>1, <2>1, <2>2, <2>3, <2>4, <2>5 DEF Request
  <1>2. ASSUME NEW j \in Jobs, DeleteResult(j) PROVE ResultInv'
    BY <1>2 DEF TypeOK, DeleteResult
  <1>3. ASSUME NEW j \in Jobs, Publish(j) \/ HeartbeatGoesStale(j) PROVE ResultInv'
    BY <1>3 DEF TypeOK, Publish, HeartbeatGoesStale
  <1>4. ASSUME NEW w \in Workers, NEW j \in Jobs, Receive(w, j) PROVE ResultInv'
    BY <1>4 DEF TypeOK, Receive
  <1>5. ASSUME NEW w \in Workers, Task(w) PROVE ResultInv'
    <2>1. CASE ClaimForProcessing(w) \/ StartPipeline(w) \/ FinishPipeline(w)
      BY <2>1 DEF TypeOK, ClaimForProcessing, StartPipeline, FinishPipeline
    <2>2. CASE CreateResult(w)
      BY <2>2 DEF TypeOK, CreateResult
    <2>3. CASE MarkSucceeded(w)
      BY <2>3 DEF TypeOK, MarkSucceeded
    <2>4. CASE CommitSuccess(w)
      BY <2>4, BusyWorkerHasJob DEF TypeOK, CommitSuccess
    <2>5. CASE \/ ClaimRefused(w) \/ InsertConflict(w) \/ ReleaseAndReturn(w)
               \/ HandlerFails(w) \/ Die(w)
      <3>1. UNCHANGED <<req, found, status, resultId, result>> /\ EndTask(w)
        BY <2>5 DEF ClaimRefused, InsertConflict, ReleaseAndReturn, HandlerFails, Die
      <3>2. \A v \in Workers : pc'[v] \in {"inserted", "marked"} =>
              pc[v] = pc'[v] /\ cur'[v] = cur[v]
        BY <3>1 DEF TypeOK
      <3> QED
        BY <3>1, <3>2
    <2>6. ASSUME NEW s \in {"failed", "timeout"}, MarkFailed(w, s), pc[w] # "idle"
          PROVE  ResultInv'
      BY <2>6, BusyWorkerHasJob DEF TypeOK, MarkFailed
    <2>7. CASE PipelineError(w) \/ SoftLimit(w) \/ ConnectionRefused(w)
      BY <2>6, <2>7 DEF PipelineError, SoftLimit, SoftLimitStrikes, ConnectionRefused, Holding
    <2> QED
      BY <1>5, <2>1, <2>2, <2>3, <2>4, <2>5, <2>7 DEF Task
  <1>6. CASE Watchdog
    BY <1>6 DEF TypeOK, Watchdog, ExpireSelect, ExpireCommit, ExpireDies
  <1>7. CASE UNCHANGED vars
    BY <1>7 DEF vars
  <1> QED
    BY <1>1, <1>2, <1>3, <1>4, <1>5, <1>6, <1>7 DEF Next

\* The reusable result of a user's image is never ambiguous, under every fault.
THEOREM ResultsUnambiguous == Spec => []ActiveResultUnique
  <1>1. ResultInv => ActiveResultUnique
    BY DEF ResultInv
  <1> QED
    BY <1>1, ResultInit, ResultStep, TypeInvariant, PTL DEF Spec

\* A SUCCEEDED job always names a committed result of its own user and image,
\* under every fault.
THEOREM SuccessHasResult == Spec => []SucceededHasResult
  <1>1. ResultInv => SucceededHasResult
    BY DEF ResultInv
  <1> QED
    BY <1>1, ResultInit, ResultStep, TypeInvariant, PTL DEF Spec

----------------------------------------------------------------------------
(***************************************************************************)
(* Ended jobs.                                                             *)
(***************************************************************************)

\* An ended job stays ended, under every fault: only a claim and an insert make
\* a job active, and both look at the status in the statement that writes it.
THEOREM EndedForGood == Spec => EndedStaysEnded
  <1> DEFINE Ended == \A j \in Jobs : status[j] \in Terminal => status'[j] \in Terminal
  <1>1. ASSUME ClaimInv, [Next]_vars PROVE Ended
    <2> USE <1>1 DEF ClaimInv, TypeOK, AbsentUntouched, Terminal, reqVars, jobVars
    <2>1. ASSUME NEW j \in Jobs, Request(j) PROVE Ended
      BY <2>1 DEF Request, Admit, LookupHit, CommitHit, LookupMiss, InsertQueued, InsertRejected,
                  AbandonRequest
    <2>2. ASSUME NEW j \in Jobs, DeleteResult(j) \/ Publish(j) \/ HeartbeatGoesStale(j)
          PROVE  Ended
      BY <2>2 DEF DeleteResult, Publish, HeartbeatGoesStale
    <2>3. ASSUME NEW w \in Workers, NEW j \in Jobs, Receive(w, j) PROVE Ended
      BY <2>3 DEF Receive
    <2>4. ASSUME NEW w \in Workers, Task(w) PROVE Ended
      BY <2>4 DEF Task, ClaimForProcessing, Claimable, ClaimRefused, StartPipeline,
           FinishPipeline, CreateResult, InsertConflict, MarkSucceeded, CommitSuccess,
           ReleaseAndReturn, PipelineError, SoftLimit, ConnectionRefused, MarkFailed,
           HandlerFails, Die
    <2>5. CASE Watchdog
      BY <2>5 DEF Watchdog, ExpireSelect, ExpireCommit, ExpireDies
    <2>6. CASE UNCHANGED vars
      BY <2>6 DEF vars
    <2> QED
      BY <2>1, <2>2, <2>3, <2>4, <2>5, <2>6 DEF Next
  <1>2. ClaimInv /\ [Next]_vars => [Ended]_vars
    BY <1>1
  <1> QED
    BY <1>2, ClaimInit, ClaimStep, PTL DEF Spec, EndedStaysEnded

----------------------------------------------------------------------------
(***************************************************************************)
(* A claim lasts.  This needs the order of two settings that no code       *)
(* enforces, and that the statements outside the claimed part of the task  *)
(* do not fail: their handler marks the job FAILED without asking whether  *)
(* the task holds it.                                                      *)
(***************************************************************************)

DefaultTiming == HardLimitBeatsHeartbeat /\ "db" \notin Faults /\ "stall" \notin Faults

HoldInv == ClaimStillHolds /\ WatchdogInv

LEMMA HoldInit == Init => HoldInv
  BY DEF Init, HoldInv, ClaimStillHolds, WatchdogInv, WatchdogSparesLiveWorkers,
         StaleProcessing, Holding

LEMMA HoldStep ==
  ASSUME DefaultTiming
  PROVE  ClaimInv /\ HoldInv /\ [Next]_vars => HoldInv'
  <1> SUFFICES ASSUME ClaimInv, HoldInv, [Next]_vars PROVE HoldInv'
    OBVIOUS
  <1>t. TypeOK /\ AbsentUntouched /\ ClaimableUntouched /\ OneHolder /\ TypeOK'
    BY TypeStep DEF ClaimInv
  <1> USE DEF HoldInv, ClaimStillHolds, WatchdogInv, WatchdogSparesLiveWorkers,
              StaleProcessing, Held, HeldBy, Holding, Terminal, StepTo, EndTask,
              reqVars, jobVars, taskVars
  <1>1. ASSUME NEW j \in Jobs, Request(j) PROVE HoldInv'
    <2>1. CASE CommitHit(j) \/ InsertQueued(j)
      BY <1>t, <2>1 DEF TypeOK, AbsentUntouched, CommitHit, InsertQueued
    <2>2. CASE UNCHANGED <<status, stale, pc, cur, picked>>
      BY <1>t, <2>2 DEF TypeOK
    <2> QED
      BY <1>1, <2>1, <2>2 DEF Request, Admit, LookupHit, LookupMiss, InsertRejected,
         AbandonRequest
  <1>2. ASSUME NEW j \in Jobs, DeleteResult(j) \/ Publish(j) PROVE HoldInv'
    BY <1>t, <1>2 DEF TypeOK, DeleteResult, Publish
  <1>3. ASSUME NEW j \in Jobs, HeartbeatGoesStale(j) PROVE HoldInv'
    BY <1>t, <1>3, DefaultTiming DEF TypeOK, HeartbeatGoesStale, DefaultTiming
  <1>4. ASSUME NEW w \in Workers, NEW j \in Jobs, Receive(w, j) PROVE HoldInv'
    BY <1>t, <1>4 DEF TypeOK, Receive
  <1>5. ASSUME NEW w \in Workers, Task(w) PROVE HoldInv'
    <2>1. CASE ClaimForProcessing(w)
      BY <1>t, <2>1, BusyWorkerHasJob
      DEF TypeOK, ClaimForProcessing, ClaimableUntouched, Claimable
    <2>2. CASE StartPipeline(w)
      BY <1>t, <2>2, BusyWorkerHasJob DEF TypeOK, StartPipeline
    <2>3. CASE FinishPipeline(w) \/ CreateResult(w) \/ MarkSucceeded(w)
      BY <1>t, <2>3, BusyWorkerHasJob DEF TypeOK, FinishPipeline, CreateResult, MarkSucceeded
    <2>4. CASE CommitSuccess(w)
      BY <1>t, <2>4, BusyWorkerHasJob DEF TypeOK, CommitSuccess, OneHolder
    <2>5. CASE \/ ClaimRefused(w) \/ InsertConflict(w) \/ ReleaseAndReturn(w)
               \/ HandlerFails(w) \/ Die(w)
      BY <1>t, <2>5, NoJobAssumption
      DEF TypeOK, ClaimRefused, InsertConflict, ReleaseAndReturn, HandlerFails, Die
    <2>6. ASSUME NEW s \in {"failed", "timeout"}, MarkFailed(w, s),
                 pc[w] \in Holding \cup {"committed"}
          PROVE  HoldInv'
      BY <1>t, <2>6, NoJobAssumption, BusyWorkerHasJob DEF TypeOK, MarkFailed, OneHolder
    <2>7. CASE PipelineError(w) \/ SoftLimit(w) \/ ConnectionRefused(w)
      BY <2>6, <2>7, DefaultTiming
      DEF DefaultTiming, PipelineError, SoftLimit, SoftLimitStrikes, ConnectionRefused
    <2> QED
      BY <1>5, <2>1, <2>2, <2>3, <2>4, <2>5, <2>7 DEF Task
  <1>6. CASE Watchdog
    BY <1>t, <1>6 DEF TypeOK, Watchdog, ExpireSelect, ExpireCommit, ExpireDies
  <1>7. CASE UNCHANGED vars
    BY <1>t, <1>7 DEF vars
  <1> QED
    BY <1>1, <1>2, <1>3, <1>4, <1>5, <1>6, <1>7 DEF Next

\* With the default order of the time limits and no failing connection, no one
\* gives a job an outcome while a worker is between its claim and its commit.
THEOREM ClaimsLast == ASSUME DefaultTiming PROVE Spec => []ClaimStillHolds
  <1>1. HoldInv => ClaimStillHolds
    BY DEF HoldInv
  <1> QED
    BY <1>1, HoldInit, HoldStep, ClaimInit, ClaimStep, PTL DEF Spec

\* Under the same conditions the watchdog picks only jobs whose worker is gone.
THEOREM WatchdogIsSafe == ASSUME DefaultTiming PROVE Spec => []WatchdogSparesLiveWorkers
  <1>1. HoldInv => WatchdogSparesLiveWorkers
    BY DEF HoldInv, WatchdogInv
  <1> QED
    BY <1>1, HoldInit, HoldStep, ClaimInit, ClaimStep, PTL DEF Spec

\* Under the same conditions only the worker of a SUCCEEDED job, after its own
\* commit, can take the success back: not a duplicate delivery, not the watchdog.
THEOREM SuccessLost ==
  ASSUME DefaultTiming PROVE Spec => SuccessLostOnlyByItsWorker
  <1> DEFINE ByItsWorker ==
        \A j \in Jobs : (status[j] = "succeeded" /\ status'[j] # "succeeded")
                        => \E w \in Workers : cur[w] = j /\ pc[w] = "committed"
  <1>1. ASSUME ClaimInv, HoldInv, [Next]_vars PROVE ByItsWorker
    <2> USE <1>1 DEF ClaimInv, TypeOK, AbsentUntouched, HoldInv, ClaimStillHolds,
                     Holding, reqVars, jobVars
    <2>1. ASSUME NEW j \in Jobs, Request(j) PROVE ByItsWorker
      BY <2>1 DEF Request, Admit, LookupHit, CommitHit, LookupMiss, InsertQueued, InsertRejected,
                  AbandonRequest
    <2>2. ASSUME NEW j \in Jobs, DeleteResult(j) \/ Publish(j) \/ HeartbeatGoesStale(j)
          PROVE  ByItsWorker
      BY <2>2 DEF DeleteResult, Publish, HeartbeatGoesStale
    <2>3. ASSUME NEW w \in Workers, NEW j \in Jobs, Receive(w, j) PROVE ByItsWorker
      BY <2>3 DEF Receive
    <2>4. ASSUME NEW w \in Workers, Task(w) PROVE ByItsWorker
      <3>1. CASE PipelineError(w) \/ SoftLimit(w) \/ ConnectionRefused(w)
        BY <3>1, DefaultTiming DEF DefaultTiming, PipelineError, SoftLimit,
             SoftLimitStrikes, ConnectionRefused, MarkFailed
      <3>2. CASE ClaimForProcessing(w) \/ CommitSuccess(w)
        BY <3>2 DEF ClaimForProcessing, Claimable, CommitSuccess
      <3>3. CASE status' = status
        BY <3>3
      <3> QED
        BY <2>4, <3>1, <3>2, <3>3 DEF Task, ClaimRefused, StartPipeline, FinishPipeline,
             CreateResult, InsertConflict, MarkSucceeded, ReleaseAndReturn, HandlerFails, Die
    <2>5. CASE Watchdog
      <3>1. \A j \in picked : status[j] # "succeeded"
        BY DEF WatchdogInv
      <3> QED
        BY <2>5, <3>1 DEF Watchdog, ExpireSelect, ExpireCommit, ExpireDies
    <2>6. CASE UNCHANGED vars
      BY <2>6 DEF vars
    <2> QED
      BY <2>1, <2>2, <2>3, <2>4, <2>5, <2>6 DEF Next
  <1>2. ClaimInv /\ HoldInv /\ [Next]_vars => [ByItsWorker]_vars
    BY <1>1
  <1> QED
    BY <1>2, HoldInit, HoldStep, ClaimInit, ClaimStep, PTL
    DEF Spec, SuccessLostOnlyByItsWorker

----------------------------------------------------------------------------
(***************************************************************************)
(* No computed result is thrown away.  The unique index on active jobs is  *)
(* not enough: between a missed lookup and the insert another job of the   *)
(* user can come and go.  The Redis lock excludes that.                    *)
(***************************************************************************)

LEMMA AdmissionInit == Init => AdmissionInv
  BY DEF Init, AdmissionInv, ActiveStatus, ActiveResults

LEMMA AdmissionStep ==
  ASSUME DefaultTiming, "lock" \notin Faults
  PROVE  ClaimInv /\ HoldInv /\ AdmissionInv /\ [Next]_vars => AdmissionInv'
  <1> SUFFICES ASSUME ClaimInv, HoldInv, AdmissionInv, [Next]_vars PROVE AdmissionInv'
    OBVIOUS
  <1>t. TypeOK /\ AbsentUntouched /\ ClaimStillHolds /\ TypeOK'
    BY TypeStep DEF ClaimInv, HoldInv
  <1> USE DEF AdmissionInv, ActiveStatus, ActiveJobs, ActiveResults, SameKey,
              StepTo, EndTask, reqVars, jobVars, taskVars
  <1>1. ASSUME NEW j \in Jobs, Request(j) PROVE AdmissionInv'
    <2>1. CASE Admit(j)
      BY <1>t, <2>1, "lock" \notin Faults DEF TypeOK, Admit
    <2>2. CASE CommitHit(j)
      BY <1>t, <2>2 DEF TypeOK, CommitHit
    <2>3. CASE LookupMiss(j)
      BY <1>t, <2>3 DEF TypeOK, LookupMiss
    <2>4. CASE InsertQueued(j)
      BY <1>t, <2>4 DEF TypeOK, InsertQueued
    <2>5. CASE LookupHit(j) \/ InsertRejected(j) \/ AbandonRequest(j)
      BY <1>t, <2>5 DEF TypeOK, LookupHit, InsertRejected, AbandonRequest
    <2> QED
      BY <1>1, <2>1, <2>2, <2>3, <2>4, <2>5 DEF Request
  <1>2. ASSUME NEW j \in Jobs, DeleteResult(j) PROVE AdmissionInv'
    BY <1>t, <1>2 DEF TypeOK, DeleteResult
  <1>3. ASSUME NEW j \in Jobs, Publish(j) \/ HeartbeatGoesStale(j) PROVE AdmissionInv'
    BY <1>t, <1>3 DEF TypeOK, Publish, HeartbeatGoesStale
  <1>4. ASSUME NEW w \in Workers, NEW j \in Jobs, Receive(w, j) PROVE AdmissionInv'
    BY <1>t, <1>4 DEF TypeOK, Receive
  <1>5. ASSUME NEW w \in Workers, Task(w) PROVE AdmissionInv'
    <2>1. CASE ClaimForProcessing(w)
      BY <1>t, <2>1, BusyWorkerHasJob DEF TypeOK, ClaimForProcessing, Claimable
    <2>2. CASE status' = status /\ result' = result /\ req' = req
      BY <1>t, <2>2
    <2>3. CASE CommitSuccess(w)
      BY <1>t, <2>3, BusyWorkerHasJob DEF TypeOK, CommitSuccess, ClaimStillHolds, Holding
    <2>4. ASSUME NEW s \in {"failed", "timeout"}, MarkFailed(w, s), pc[w] # "idle"
          PROVE  AdmissionInv'
      BY <1>t, <2>4, BusyWorkerHasJob
      DEF TypeOK, MarkFailed, InsertPending, ClaimStillHolds, Holding
    <2>5. CASE PipelineError(w) \/ SoftLimit(w) \/ ConnectionRefused(w)
      BY <2>4, <2>5 DEF PipelineError, SoftLimit, SoftLimitStrikes, ConnectionRefused, Holding
    <2> QED
      BY <1>5, <2>1, <2>2, <2>3, <2>5 DEF Task, ClaimRefused, StartPipeline,
         FinishPipeline, CreateResult, InsertConflict, MarkSucceeded, ReleaseAndReturn,
         HandlerFails, Die
  <1>6. CASE Watchdog
    BY <1>t, <1>6 DEF TypeOK, Watchdog, ExpireSelect, ExpireCommit, ExpireDies
  <1>7. CASE UNCHANGED vars
    BY <1>t, <1>7 DEF vars
  <1> QED
    BY <1>1, <1>2, <1>3, <1>4, <1>5, <1>6, <1>7 DEF Next

\* While the Redis lock works and with the conditions above, a worker that is
\* about to insert a result finds no active one with its key.
THEOREM NoResultIsWasted ==
  ASSUME DefaultTiming, "lock" \notin Faults PROVE Spec => []NoInsertConflict
  <1>1. TypeOK /\ HoldInv /\ AdmissionInv => NoInsertConflict
    BY BusyWorkerHasJob DEF HoldInv, ClaimStillHolds, AdmissionInv, NoInsertConflict,
       Holding, ActiveStatus
  <1>2. ClaimInv => TypeOK
    BY DEF ClaimInv
  <1> QED
    BY <1>1, <1>2, AdmissionInit, AdmissionStep, HoldInit, HoldStep, ClaimInit, ClaimStep,
       PTL DEF Spec
----------------------------------------------------------------------------
(***************************************************************************)
(* The rows implement the contract.                                        *)
(***************************************************************************)

\* The phase of a job in terms of its status.
LEMMA PhaseOfStatus ==
    ASSUME TypeOK, NEW j \in Jobs
    PROVE  /\ PhaseOf(j) = "none" <=> status[j] = "absent"
           /\ PhaseOf(j) = "waiting" <=> status[j] \in {"queued", "retrying"}
           /\ PhaseOf(j) = "running" <=> status[j] = "processing"
           /\ PhaseOf(j) = "ended" <=> status[j] \in Terminal
           /\ PhaseOf(j) \in Contract!Phases
  BY DEF TypeOK, PhaseOf, Statuses, ActiveStatus, Terminal, Contract!Phases

\* A step that leaves the statuses alone leaves the phases alone.
LEMMA SameStatusSamePhases ==
    ASSUME status' = status
    PROVE  [j \in Jobs |-> PhaseOf(j)]' = [j \in Jobs |-> PhaseOf(j)]
  BY DEF PhaseOf

\* A step that gives the statuses s[j] to the jobs of S, all of which are there
\* and end, is End(S) of the contract.
LEMMA EndingStep ==
    ASSUME TypeOK, TypeOK', NEW S \in SUBSET Jobs,
           \A j \in S : status[j] # "absent" /\ status'[j] \in Terminal,
           \A j \in Jobs \ S : status'[j] = status[j]
    PROVE  Contract!Next
  <1> DEFINE p == [j \in Jobs |-> PhaseOf(j)]
  <1>1. \A j \in S : PhaseOf(j) # "none" /\ PhaseOf(j)' = "ended"
    BY PhaseOfStatus DEF PhaseOf, Terminal
  <1>2. \A j \in Jobs \ S : PhaseOf(j)' = PhaseOf(j)
    BY DEF PhaseOf
  <1>3. p' = [j \in Jobs |-> IF j \in S THEN "ended" ELSE p[j]]
    BY <1>1, <1>2
  <1> QED
    BY <1>1, <1>3 DEF Contract!Next, Contract!End

\* A step that changes the phase of one job only.
LEMMA MovingStep ==
    ASSUME NEW j \in Jobs, NEW q, PhaseOf(j)' = q,
           \A i \in Jobs \ {j} : status'[i] = status[i]
    PROVE  Contract!MoveTo(j, q)
  <1>1. \A i \in Jobs \ {j} : PhaseOf(i)' = PhaseOf(i)
    BY DEF PhaseOf
  <1> QED
    BY <1>1 DEF Contract!MoveTo

\* Every step of the detailed specification is a step of the contract or leaves
\* the phases alone.
LEMMA ContractStep ==
    ASSUME ClaimInv, ClaimInv', [Next]_vars
    PROVE  Contract!Next \/ UNCHANGED [j \in Jobs |-> PhaseOf(j)]
  <1> DEFINE Done == Contract!Next \/ UNCHANGED [j \in Jobs |-> PhaseOf(j)]
  <1>t. TypeOK /\ TypeOK' /\ AbsentUntouched /\ ClaimableUntouched
    BY DEF ClaimInv
  <1>s. status' = status => Done
    BY SameStatusSamePhases
  <1> USE DEF reqVars, jobVars, taskVars
  <1>1. ASSUME NEW j \in Jobs, Request(j) PROVE Done
    <2>1. CASE CommitHit(j)
      <3>1. PhaseOf(j) = "none" /\ PhaseOf(j)' = "ended"
        BY <1>t, <2>1 DEF CommitHit, AbsentUntouched, PhaseOf, TypeOK, Terminal
      <3>2. Contract!MoveTo(j, "ended")
        BY <1>t, <2>1, <3>1, MovingStep DEF CommitHit, TypeOK
      <3> QED
        BY <3>1, <3>2 DEF Contract!Next, Contract!AnswerFromCache
    <2>2. CASE InsertQueued(j)
      <3>4. status[j] = "absent" /\ status'[j] = "queued"
        BY <1>t, <2>2 DEF InsertQueued, AbsentUntouched, TypeOK
      <3>1. PhaseOf(j) = "none" /\ PhaseOf(j)' = "waiting"
        BY <3>4 DEF PhaseOf, Terminal
      <3>2. Contract!MoveTo(j, "waiting")
        BY <1>t, <2>2, <3>1, MovingStep DEF InsertQueued, TypeOK
      <3>3. \A i \in Jobs : Owner[i] = Owner[j] => PhaseOf(i) \notin {"waiting", "running"}
        BY <1>t, <2>2, PhaseOfStatus DEF InsertQueued, ActiveJobs, ActiveStatus
      <3> QED
        BY <3>1, <3>2, <3>3 DEF Contract!Next, Contract!Accept, Contract!Unfinished
    <2>3. CASE \/ Admit(j) \/ LookupHit(j) \/ LookupMiss(j)
               \/ InsertRejected(j) \/ AbandonRequest(j)
      BY <1>s, <2>3 DEF Admit, LookupHit, LookupMiss, InsertRejected, AbandonRequest
    <2> QED
      BY <1>1, <2>1, <2>2, <2>3 DEF Request
  <1>2. ASSUME NEW j \in Jobs, DeleteResult(j) \/ Publish(j) \/ HeartbeatGoesStale(j)
        PROVE  Done
    BY <1>s, <1>2 DEF DeleteResult, Publish, HeartbeatGoesStale
  <1>3. ASSUME NEW w \in Workers, NEW j \in Jobs, Receive(w, j) PROVE Done
    BY <1>s, <1>3 DEF Receive
  <1>4. ASSUME NEW w \in Workers, Task(w) PROVE Done
    <2>1. CASE ClaimForProcessing(w)
      <3>1. PICK j \in Jobs : j = cur[w]
        BY <1>t, <2>1, BusyWorkerHasJob DEF ClaimForProcessing
      <3>4. status[j] \in Claimable /\ status'[j] = "processing"
        BY <1>t, <2>1, <3>1 DEF ClaimForProcessing, TypeOK
      <3>2. PhaseOf(j) = "waiting" /\ PhaseOf(j)' = "running"
        BY <3>4 DEF PhaseOf, Claimable, Terminal
      <3>5. \A i \in Jobs \ {j} : status'[i] = status[i]
        BY <1>t, <2>1, <3>1 DEF ClaimForProcessing, TypeOK
      <3>3. Contract!MoveTo(j, "running")
        BY <3>2, <3>5, MovingStep
      <3> QED
        BY <3>2, <3>3 DEF Contract!Next, Contract!Begin
    <2>2. ASSUME pc[w] # "idle", NEW s \in Terminal,
                 status' = [status EXCEPT ![cur[w]] = s]
          PROVE  Done
      <3>1. cur[w] \in Jobs /\ status[cur[w]] # "absent"
        BY <1>t, <2>2, BusyWorkerHasJob DEF AbsentUntouched
      <3>2. /\ \A i \in {cur[w]} : status[i] # "absent" /\ status'[i] \in Terminal
            /\ \A i \in Jobs \ {cur[w]} : status'[i] = status[i]
        BY <1>t, <2>2, <3>1 DEF TypeOK
      <3>3. {cur[w]} \in SUBSET Jobs
        BY <3>1
      <3>4. \A i \in Jobs \ {cur[w]} : status'[i] = status[i]
        BY <3>2
      <3> HIDE DEF Done
      <3>5. Contract!Next
        BY <1>t, <3>2, <3>3, <3>4, EndingStep
      <3> QED
        BY <3>5 DEF Done
    <2>3. CASE CommitSuccess(w)
      BY <2>2, <2>3 DEF CommitSuccess, Terminal
    <2>4. CASE PipelineError(w) \/ SoftLimit(w) \/ ConnectionRefused(w)
      BY <2>2, <2>4 DEF PipelineError, SoftLimit, SoftLimitStrikes, ConnectionRefused,
         MarkFailed, Terminal, Holding
    <2> QED
      BY <1>4, <1>s, <2>1, <2>3, <2>4 DEF Task, ClaimRefused, StartPipeline,
         FinishPipeline, CreateResult, InsertConflict, MarkSucceeded, ReleaseAndReturn,
         HandlerFails, Die
  <1>5. CASE ExpireCommit
    <2>1. /\ picked \in SUBSET Jobs
          /\ \A j \in picked : status[j] # "absent" /\ status'[j] \in Terminal
          /\ \A j \in Jobs \ picked : status'[j] = status[j]
      BY <1>t, <1>5 DEF ExpireCommit, TypeOK, ClaimableUntouched, Terminal
    <2> QED
      BY <1>t, <2>1, EndingStep
  <1>6. CASE ExpireSelect \/ ExpireDies \/ UNCHANGED vars
    BY <1>s, <1>6 DEF ExpireSelect, ExpireDies, vars
  <1> QED
    BY <1>1, <1>2, <1>3, <1>4, <1>5, <1>6 DEF Next, Watchdog

\* For any number of jobs, users, workers and messages and under every fault, the
\* rows go through the phases the contract allows, with one unfinished job per user.
THEOREM ImplementsContract == Spec => Contract!SafeSpec
  <1>1. Init => Contract!Init
    <2> SUFFICES ASSUME Init PROVE \A j \in Jobs : PhaseOf(j) = "none"
      BY DEF Contract!Init
    <2> QED
      BY DEF Init, PhaseOf, Terminal
  <1>2. ClaimInv /\ ClaimInv' /\ [Next]_vars
        => [Contract!Next]_([j \in Jobs |-> PhaseOf(j)])
    BY ContractStep
  <1> QED
    BY <1>1, <1>2, ClaimInit, ClaimStep, PTL DEF Spec, Contract!SafeSpec
============================================================================
