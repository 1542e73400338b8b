---------------------------- MODULE JobContract ----------------------------
(***************************************************************************)
(* What the service promises about an avatar job, as a client can tell it  *)
(* by polling: an accepted job waits, runs and ends, each at most once; a   *)
(* user has one unfinished job; an accepted job ends.  There is no message, *)
(* worker, lock, time limit or watchdog here.  JobLifecycle implements it.  *)
(***************************************************************************)
CONSTANTS
    Jobs,    \* jobs a client may submit
    Owner    \* Owner[j]: the user of job j

VARIABLE phase  \* phase[j]: how far the job of the client's upload has come

Phases == {"none", "waiting", "running", "ended"}
Unfinished == {"waiting", "running"}

Init == phase = [j \in Jobs |-> "none"]

MoveTo(j, p) == phase' = [phase EXCEPT ![j] = p]

\* An upload is accepted unless its user has an unfinished job.
Accept(j) ==
    /\ phase[j] = "none"
    /\ \A i \in Jobs : Owner[i] = Owner[j] => phase[i] \notin Unfinished
    /\ MoveTo(j, "waiting")

\* An image that was already processed is answered at once, with an ended job.
AnswerFromCache(j) == phase[j] = "none" /\ MoveTo(j, "ended")

Begin(j) == phase[j] = "waiting" /\ MoveTo(j, "running")

\* Accepted jobs end, several at once when the watchdog ends them; a job may end
\* without having begun, and one that has ended does not change.
End(S) ==
    /\ \A j \in S : phase[j] # "none"
    /\ phase' = [j \in Jobs |-> IF j \in S THEN "ended" ELSE phase[j]]

Next == \/ \E j \in Jobs : Accept(j) \/ AnswerFromCache(j) \/ Begin(j)
        \/ \E S \in SUBSET Jobs : End(S)

\* The safety part of the contract.
SafeSpec == Init /\ [][Next]_phase

EndRunning(j) == phase[j] = "running" /\ MoveTo(j, "ended")
EndAny(j) == phase[j] \in Unfinished /\ MoveTo(j, "ended")

\* A job that has begun ends, whatever happens to its worker.
WatchedSpec == SafeSpec /\ \A j \in Jobs : WF_phase(EndRunning(j))

\* Every accepted job ends.
Spec == SafeSpec /\ \A j \in Jobs : WF_phase(EndAny(j))
============================================================================
