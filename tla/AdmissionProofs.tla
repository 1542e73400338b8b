------------------------- MODULE AdmissionProofs -------------------------
(***************************************************************************)
(* Proofs about Admission, for every value of its constants.               *)
(***************************************************************************)
EXTENDS Admission, FiniteSetTheorems, TLAPS

----------------------------------------------------------------------------
(***************************************************************************)
(* The inductive invariants.                                               *)
(***************************************************************************)

\* r has a row that the unique index knows: flushed or committed.
HasRow(r) == pc[r] \in {"inserted", "bound"} \/ job[r] = "active"
RowInv == \A i, j \in Requests : Same(i, j) /\ HasRow(i) /\ HasRow(j) => i = j

\* The admissions that last, and whose commits are acknowledged.
LastingAdmissions == TTLOutlasts /\ "answer" \notin Faults

\* r holds the lock of its user.
Held(r) == pc[r] \in Admitted \cup {"unlock", "conflictUnlock"} \/ job[r] = "active"

\* A request past the lock never finds an active job of its user, ...
NoRebind == \A r \in Requests : pc[r] # "rebind"
\* ... has its job to itself ...
JobEndsRequest == \A r \in Requests : /\ job[r] # "none" => pc[r] = "done"
                                      /\ rel[r] # "none" => job[r] = "ended"
\* ... and its user's lock, ...
HolderHasLock == \A r \in Requests : Held(r) => lock[Owner[r]] \in {"pending", r}
OneHolder == \A i, j \in Requests : Same(i, j) /\ Held(i) /\ Held(j) => i = j
\* ... which stays between the two commands of the release that is not atomic.
MatchLasts == \A r \in Requests : rel[r] = "matched" => lock[Owner[r]] = r

ExclusiveInv == NoRebind /\ JobEndsRequest /\ HolderHasLock /\ OneHolder /\ MatchLasts

\* r has been counted and not yet given back: it waits for its answer or to be turned
\* away, is in the system, or is released.
InCount(r) == \/ pc[r] \in Counting \cup {"full", "capacity", "denied", "reporting"}
                           \cup Admitted \cup Releasing
              \/ job[r] = "active" \/ rel[r] # "none"
Counted == {r \in Requests : InCount(r)}
\* What may join the system without being counted again.
Passed == InSystem \cup {r \in Requests : pc[r] = "counted"}

\* A counter that is about to expire counts nobody but those who may renew it.
OldIsUnused ==
    ttl = "old" => \A r \in Requests : InCount(r) => pc[r] \in Counting

\* With refused commands and deaths only, the counter may be too high, never too low.
CrashesAndRefusals == TTLOutlasts /\ Faults \subseteq {"refused", "crash"}
CapacityInv ==
    /\ ExclusiveInv /\ OldIsUnused
    /\ IsFiniteSet(Counted) /\ Cardinality(Counted) <= count
    /\ Cardinality(Passed) <= MaxActive

\* As long as nothing has failed, a job that is to be released finds its lock, and each
\* way out of the count is a DECR.
ExactInv == faults = 0 =>
    /\ ExclusiveInv /\ OldIsUnused
    /\ \A r \in Requests : pc[r] # "reporting" /\ rel[r] \notin {"fallback", "matched"}
    /\ \A r \in Requests : pc[r] = "bound" \/ job[r] = "active" \/ rel[r] = "due"
                            => lock[Owner[r]] = r
    /\ IsFiniteSet(Counted) /\ Cardinality(Counted) = count

----------------------------------------------------------------------------
(***************************************************************************)
(* Type correctness.                                                       *)
(***************************************************************************)

LEMMA TypeInit == Init => TypeOK
  BY NamesAssumption, FaultsAssumption DEF Init, TypeOK, Steps, ReleaseSteps

LEMMA TypeStep == TypeOK /\ [Next]_vars => TypeOK'
  <1> SUFFICES ASSUME TypeOK, [Next]_vars PROVE TypeOK'
    OBVIOUS
  <1> USE DEF TypeOK, Steps, Counting, Admitted, Releasing, Remembering, ReleaseSteps, Users, Same, vars, reqVars, redisVars, Step, RelStep
  <1>1. ASSUME NEW r \in Requests, Acquire(r) PROVE TypeOK'
    <2>1. CASE Incr(r)
      BY <2>1, NamesAssumption, FaultsAssumption DEF Incr, Add, OverCapacity
    <2>2. CASE IncrFails(r)
      BY <2>2, NamesAssumption, FaultsAssumption DEF IncrFails, Add, Fails, Fault
    <2>3. CASE Expire(r)
      BY <2>3, NamesAssumption, FaultsAssumption DEF Expire
    <2>4. CASE ExpireFails(r)
      BY <2>4, NamesAssumption, FaultsAssumption DEF ExpireFails, Fails, Fault
    <2>5. CASE RefuseFull(r)
      BY <2>5, NamesAssumption, FaultsAssumption DEF RefuseFull, Add, Fails, Fault
    <2>6. CASE SetPending(r)
      BY <2>6, NamesAssumption, FaultsAssumption DEF SetPending, SetLockNX
    <2>7. CASE SetPendingFails(r)
      BY <2>7, NamesAssumption, FaultsAssumption DEF SetPendingFails, SetLockNX, Fails, Fault
    <2>8. CASE Deny(r)
      BY <2>8, NamesAssumption, FaultsAssumption DEF Deny, Add, Fails, Fault
    <2>9. CASE Report(r)
      BY <2>9, NamesAssumption, FaultsAssumption DEF Report, Fault
    <2> QED
      BY <1>1, <2>1, <2>2, <2>3, <2>4, <2>5, <2>6, <2>7, <2>8, <2>9 DEF Acquire
  <1>2. ASSUME NEW r \in Requests, Upload(r) PROVE TypeOK'
    <2>1. CASE FindActive(r)
      BY <2>1, NamesAssumption, FaultsAssumption DEF FindActive, ActiveJobs, Same
    <2>2. CASE Rebind(r)
      BY <2>2, NamesAssumption, FaultsAssumption DEF Rebind, SetLock, Fails, Fault, Forget
    <2>3. CASE EndWithoutJob(r)
      BY <2>3, NamesAssumption, FaultsAssumption DEF EndWithoutJob
    <2>4. CASE Insert(r)
      BY <2>4, NamesAssumption, FaultsAssumption DEF Insert, ActiveJobs
    <2>5. CASE Bind(r)
      BY <2>5, NamesAssumption, FaultsAssumption DEF Bind, SetLock, Fault
    <2>6. CASE Commit(r)
      BY <2>6, NamesAssumption, FaultsAssumption DEF Commit
    <2>7. CASE CommitUnacknowledged(r)
      BY <2>7, NamesAssumption, FaultsAssumption DEF CommitUnacknowledged, Fault
    <2>8. CASE Unlock(r)
      BY <2>8, NamesAssumption, FaultsAssumption DEF Unlock, SetLock, Fails, Fault
    <2>9. CASE GiveBack(r)
      BY <2>9, NamesAssumption, FaultsAssumption DEF GiveBack, Add, Fails, Fault
    <2>10. CASE FindConflicting(r)
      BY <2>10, NamesAssumption, FaultsAssumption DEF FindConflicting, ActiveJobs, Same
    <2>11. CASE Remember(r)
      BY <2>11, NamesAssumption, FaultsAssumption DEF Remember, SetLockNX, Fault, Forget
    <2> QED
      BY <1>2, <2>1, <2>2, <2>3, <2>4, <2>5, <2>6, <2>7, <2>8, <2>9, <2>10, <2>11 DEF Upload
  <1>3. ASSUME NEW r \in Requests, Retry(r) PROVE TypeOK'
    BY <1>3, NamesAssumption, FaultsAssumption DEF Retry
  <1>4. ASSUME NEW r \in Requests, RequestDies(r) PROVE TypeOK'
    BY <1>4, NamesAssumption, FaultsAssumption DEF RequestDies, Fault, Forget
  <1>5. ASSUME NEW r \in Requests, EndJob(r) PROVE TypeOK'
    BY <1>5, NamesAssumption, FaultsAssumption DEF EndJob
  <1>6. ASSUME NEW r \in Requests, Release(r) PROVE TypeOK'
    <2>1. CASE CompareAndDelete(r)
      BY <2>1, NamesAssumption, FaultsAssumption DEF CompareAndDelete, SetLock, Matches
    <2>2. CASE ScriptFails(r)
      BY <2>2, NamesAssumption, FaultsAssumption DEF ScriptFails, SetLock, Matches, Fails, Fault
    <2>3. CASE FallbackGet(r)
      BY <2>3, NamesAssumption, FaultsAssumption DEF FallbackGet, Matches, Fault
    <2>4. CASE FallbackDelete(r)
      BY <2>4, NamesAssumption, FaultsAssumption DEF FallbackDelete, SetLock, Fails, Fault
    <2>5. CASE DecrReleased(r)
      BY <2>5, NamesAssumption, FaultsAssumption DEF DecrReleased, Add, Fails, Fault
    <2> QED
      BY <1>6, <2>1, <2>2, <2>3, <2>4, <2>5 DEF Release
  <1>7. ASSUME NEW r \in Requests, ReleaseAgain(r) PROVE TypeOK'
    BY <1>7, NamesAssumption, FaultsAssumption DEF ReleaseAgain, Fault
  <1>8. ASSUME NEW r \in Requests, ReleaseDies(r) PROVE TypeOK'
    BY <1>8, NamesAssumption, FaultsAssumption DEF ReleaseDies, Fault
  <1>9. ASSUME NEW u \in Users, LockExpires(u) PROVE TypeOK'
    BY <1>9, NamesAssumption, FaultsAssumption DEF LockExpires, SetLock
  <1>10. CASE CountAges
    BY <1>10, NamesAssumption, FaultsAssumption DEF CountAges
  <1>11. CASE CountExpires
    BY <1>11, NamesAssumption, FaultsAssumption DEF CountExpires, Fault
  <1>12. CASE UNCHANGED vars
    BY <1>12
  <1> QED
    BY <1>1, <1>2, <1>3, <1>4, <1>5, <1>6, <1>7, <1>8, <1>9, <1>10, <1>11, <1>12 DEF Next

\* Every variable keeps its type, for any number of requests and users, any
\* capacity and any faults.
THEOREM AdmissionTypeInvariant == Spec => []TypeOK
  <1>1. Init => TypeOK
    BY TypeInit
  <1>2. TypeOK /\ [Next]_vars => TypeOK'
    BY TypeStep
  <1> QED
    BY <1>1, <1>2, PTL DEF Spec

----------------------------------------------------------------------------
(***************************************************************************)
(* One active job of a user.                                               *)
(***************************************************************************)

LEMMA RowInit == Init => RowInv
  BY DEF Init, RowInv, HasRow

LEMMA RowStep == TypeOK /\ RowInv /\ [Next]_vars => RowInv'
  <1> SUFFICES ASSUME TypeOK /\ RowInv, [Next]_vars PROVE RowInv'
    OBVIOUS
  <1> USE DEF TypeOK, RowInv, HasRow, Same, Counting, Admitted, Releasing, Remembering, vars, reqVars, redisVars, Step, RelStep
  <1>1. ASSUME NEW r \in Requests, Acquire(r) PROVE RowInv'
    <2>1. CASE Incr(r)
      BY <2>1 DEF Incr, Add, OverCapacity
    <2>2. CASE IncrFails(r)
      BY <2>2 DEF IncrFails, Add, Fails, Fault
    <2>3. CASE Expire(r)
      BY <2>3 DEF Expire
    <2>4. CASE ExpireFails(r)
      BY <2>4 DEF ExpireFails, Fails, Fault
    <2>5. CASE RefuseFull(r)
      BY <2>5 DEF RefuseFull, Add, Fails, Fault
    <2>6. CASE SetPending(r)
      BY <2>6 DEF SetPending, SetLockNX
    <2>7. CASE SetPendingFails(r)
      BY <2>7 DEF SetPendingFails, SetLockNX, Fails, Fault
    <2>8. CASE Deny(r)
      BY <2>8 DEF Deny, Add, Fails, Fault
    <2>9. CASE Report(r)
      BY <2>9 DEF Report, Fault
    <2> QED
      BY <1>1, <2>1, <2>2, <2>3, <2>4, <2>5, <2>6, <2>7, <2>8, <2>9 DEF Acquire
  <1>2. ASSUME NEW r \in Requests, Upload(r) PROVE RowInv'
    <2>1. CASE FindActive(r)
      BY <2>1 DEF FindActive, ActiveJobs, Same
    <2>2. CASE Rebind(r)
      BY <2>2 DEF Rebind, SetLock, Fails, Fault, Forget
    <2>3. CASE EndWithoutJob(r)
      BY <2>3 DEF EndWithoutJob
    <2>4. CASE Insert(r)
      BY <2>4 DEF Insert, ActiveJobs
    <2>5. CASE Bind(r)
      BY <2>5 DEF Bind, SetLock, Fault
    <2>6. CASE Commit(r)
      BY <2>6 DEF Commit
    <2>7. CASE CommitUnacknowledged(r)
      BY <2>7 DEF CommitUnacknowledged, Fault
    <2>8. CASE Unlock(r)
      BY <2>8 DEF Unlock, SetLock, Fails, Fault
    <2>9. CASE GiveBack(r)
      BY <2>9 DEF GiveBack, Add, Fails, Fault
    <2>10. CASE FindConflicting(r)
      BY <2>10 DEF FindConflicting, ActiveJobs, Same
    <2>11. CASE Remember(r)
      BY <2>11 DEF Remember, SetLockNX, Fault, Forget
    <2> QED
      BY <1>2, <2>1, <2>2, <2>3, <2>4, <2>5, <2>6, <2>7, <2>8, <2>9, <2>10, <2>11 DEF Upload
  <1>3. ASSUME NEW r \in Requests, Retry(r) PROVE RowInv'
    BY <1>3 DEF Retry
  <1>4. ASSUME NEW r \in Requests, RequestDies(r) PROVE RowInv'
    BY <1>4 DEF RequestDies, Fault, Forget
  <1>5. ASSUME NEW r \in Requests, EndJob(r) PROVE RowInv'
    BY <1>5 DEF EndJob
  <1>6. ASSUME NEW r \in Requests, Release(r) PROVE RowInv'
    <2>1. CASE CompareAndDelete(r)
      BY <2>1 DEF CompareAndDelete, SetLock, Matches
    <2>2. CASE ScriptFails(r)
      BY <2>2 DEF ScriptFails, SetLock, Matches, Fails, Fault
    <2>3. CASE FallbackGet(r)
      BY <2>3 DEF FallbackGet, Matches, Fault
    <2>4. CASE FallbackDelete(r)
      BY <2>4 DEF FallbackDelete, SetLock, Fails, Fault
    <2>5. CASE DecrReleased(r)
      BY <2>5 DEF DecrReleased, Add, Fails, Fault
    <2> QED
      BY <1>6, <2>1, <2>2, <2>3, <2>4, <2>5 DEF Release
  <1>7. ASSUME NEW r \in Requests, ReleaseAgain(r) PROVE RowInv'
    BY <1>7 DEF ReleaseAgain, Fault
  <1>8. ASSUME NEW r \in Requests, ReleaseDies(r) PROVE RowInv'
    BY <1>8 DEF ReleaseDies, Fault
  <1>9. ASSUME NEW u \in Users, LockExpires(u) PROVE RowInv'
    BY <1>9 DEF LockExpires, SetLock
  <1>10. CASE CountAges
    BY <1>10 DEF CountAges
  <1>11. CASE CountExpires
    BY <1>11 DEF CountExpires, Fault
  <1>12. CASE UNCHANGED vars
    BY <1>12
  <1> QED
    BY <1>1, <1>2, <1>3, <1>4, <1>5, <1>6, <1>7, <1>8, <1>9, <1>10, <1>11, <1>12 DEF Next

\* Whatever happens to Redis, a user never has two active jobs.
THEOREM OneActiveJobPerUser == Spec => []OneActiveJob
  <1>1. Init => TypeOK /\ RowInv
    BY TypeInit, RowInit
  <1>2. TypeOK /\ RowInv /\ [Next]_vars => (TypeOK /\ RowInv)'
    BY TypeStep, RowStep
  <1>3. RowInv => OneActiveJob
    BY DEF RowInv, HasRow, OneActiveJob
  <1> QED
    BY <1>1, <1>2, <1>3, PTL DEF Spec

----------------------------------------------------------------------------
(***************************************************************************)
(* While admissions last, the lock is exclusive.                           *)
(***************************************************************************)

LEMMA ExclusiveInit == Init => ExclusiveInv
  BY DEF Init, ExclusiveInv, NoRebind, JobEndsRequest, HolderHasLock, OneHolder, MatchLasts,
         Held, Admitted

\* Commits are acknowledged, or at least nothing has failed yet.
LEMMA ExclusiveStep ==
    ASSUME TTLOutlasts, "answer" \notin Faults \/ faults' = 0,
           TypeOK, ExclusiveInv, [Next]_vars
    PROVE  ExclusiveInv'
  <1> USE DEF TypeOK, ExclusiveInv, NoRebind, JobEndsRequest, HolderHasLock, OneHolder, MatchLasts, Held,
             Users, Same, Counting, Admitted, Releasing, Remembering, ReleaseSteps, vars, reqVars, redisVars, Step, RelStep
  <1>1. ASSUME NEW r \in Requests, Acquire(r) PROVE ExclusiveInv'
    <2>1. CASE Incr(r)
      BY <2>1, NamesAssumption DEF Incr, Add, OverCapacity
    <2>2. CASE IncrFails(r)
      BY <2>2, NamesAssumption DEF IncrFails, Add, Fails, Fault
    <2>3. CASE Expire(r)
      BY <2>3, NamesAssumption DEF Expire
    <2>4. CASE ExpireFails(r)
      BY <2>4, NamesAssumption DEF ExpireFails, Fails, Fault
    <2>5. CASE RefuseFull(r)
      BY <2>5, NamesAssumption DEF RefuseFull, Add, Fails, Fault
    <2>6. CASE SetPending(r)
      BY <2>6, NamesAssumption DEF SetPending, SetLockNX
    <2>7. CASE SetPendingFails(r)
      BY <2>7, NamesAssumption DEF SetPendingFails, SetLockNX, Fails, Fault
    <2>8. CASE Deny(r)
      BY <2>8, NamesAssumption DEF Deny, Add, Fails, Fault
    <2>9. CASE Report(r)
      BY <2>9, NamesAssumption DEF Report, Fault
    <2> QED
      BY <1>1, <2>1, <2>2, <2>3, <2>4, <2>5, <2>6, <2>7, <2>8, <2>9 DEF Acquire
  <1>2. ASSUME NEW r \in Requests, Upload(r) PROVE ExclusiveInv'
    <2>1. CASE FindActive(r)
      BY <2>1, NamesAssumption DEF FindActive, ActiveJobs, Same
    <2>2. CASE Rebind(r)
      BY <2>2, NamesAssumption DEF Rebind, SetLock, Fails, Fault, Forget
    <2>3. CASE EndWithoutJob(r)
      BY <2>3, NamesAssumption DEF EndWithoutJob
    <2>4. CASE Insert(r)
      BY <2>4, NamesAssumption DEF Insert, ActiveJobs
    <2>5. CASE Bind(r)
      BY <2>5, NamesAssumption DEF Bind, SetLock, Fault
    <2>6. CASE Commit(r)
      BY <2>6, NamesAssumption DEF Commit
    <2>7. CASE CommitUnacknowledged(r)
      BY <2>7, NamesAssumption DEF CommitUnacknowledged, Fault
    <2>8. CASE Unlock(r)
      BY <2>8, NamesAssumption DEF Unlock, SetLock, Fails, Fault
    <2>9. CASE GiveBack(r)
      BY <2>9, NamesAssumption DEF GiveBack, Add, Fails, Fault
    <2>10. CASE FindConflicting(r)
      BY <2>10, NamesAssumption DEF FindConflicting, ActiveJobs, Same
    <2>11. CASE Remember(r)
      BY <2>11, NamesAssumption DEF Remember, SetLockNX, Fault, Forget
    <2> QED
      BY <1>2, <2>1, <2>2, <2>3, <2>4, <2>5, <2>6, <2>7, <2>8, <2>9, <2>10, <2>11 DEF Upload
  <1>3. ASSUME NEW r \in Requests, Retry(r) PROVE ExclusiveInv'
    BY <1>3, NamesAssumption DEF Retry
  <1>4. ASSUME NEW r \in Requests, RequestDies(r) PROVE ExclusiveInv'
    BY <1>4, NamesAssumption DEF RequestDies, Fault, Forget
  <1>5. ASSUME NEW r \in Requests, EndJob(r) PROVE ExclusiveInv'
    BY <1>5, NamesAssumption DEF EndJob
  <1>6. ASSUME NEW r \in Requests, Release(r) PROVE ExclusiveInv'
    <2>1. CASE CompareAndDelete(r)
      BY <2>1, NamesAssumption DEF CompareAndDelete, SetLock, Matches
    <2>2. CASE ScriptFails(r)
      BY <2>2, NamesAssumption DEF ScriptFails, SetLock, Matches, Fails, Fault
    <2>3. CASE FallbackGet(r)
      BY <2>3, NamesAssumption DEF FallbackGet, Matches, Fault
    <2>4. CASE FallbackDelete(r)
      BY <2>4, NamesAssumption DEF FallbackDelete, SetLock, Fails, Fault
    <2>5. CASE DecrReleased(r)
      BY <2>5, NamesAssumption DEF DecrReleased, Add, Fails, Fault
    <2> QED
      BY <1>6, <2>1, <2>2, <2>3, <2>4, <2>5 DEF Release
  <1>7. ASSUME NEW r \in Requests, ReleaseAgain(r) PROVE ExclusiveInv'
    BY <1>7, NamesAssumption DEF ReleaseAgain, Fault
  <1>8. ASSUME NEW r \in Requests, ReleaseDies(r) PROVE ExclusiveInv'
    BY <1>8, NamesAssumption DEF ReleaseDies, Fault
  <1>9. ASSUME NEW u \in Users, LockExpires(u) PROVE ExclusiveInv'
    BY <1>9, NamesAssumption DEF LockExpires, SetLock, InUse
  <1>10. CASE CountAges
    BY <1>10, NamesAssumption DEF CountAges
  <1>11. CASE CountExpires
    BY <1>11, NamesAssumption DEF CountExpires, Fault
  <1>12. CASE UNCHANGED vars
    BY <1>12
  <1> QED
    BY <1>1, <1>2, <1>3, <1>4, <1>5, <1>6, <1>7, <1>8, <1>9, <1>10, <1>11, <1>12 DEF Next

\* While admissions end within the TTL and commits are acknowledged, a user has
\* one request past the lock or one active job, through failing Redis commands,
\* crashes and repeated releases.
THEOREM AdmissionIsExclusive == ASSUME LastingAdmissions PROVE Spec => []AdmissionExclusive
  <1>1. ExclusiveInv => AdmissionExclusive
    BY DEF ExclusiveInv, JobEndsRequest, OneHolder, Held, Admitted, AdmissionExclusive
  <1>2. TypeOK /\ ExclusiveInv /\ [Next]_vars => ExclusiveInv'
    BY ExclusiveStep DEF LastingAdmissions
  <1> QED
    BY <1>1, <1>2, TypeInit, TypeStep, ExclusiveInit, PTL DEF Spec

\* Under the same conditions no release deletes the lock of a later request.
THEOREM ReleasesSpareNewerLocks == ASSUME LastingAdmissions PROVE Spec => ReleaseSparesNewerLock
  <1> DEFINE Spared == \A r \in Requests : rel'[r] # rel[r] /\ lock' # lock => lock[Owner[r]] = r
  <1>1. TypeOK /\ ExclusiveInv /\ [Next]_vars => [Spared]_vars
    <2> SUFFICES ASSUME TypeOK, ExclusiveInv, Next, NEW r \in Requests,
                        rel'[r] # rel[r], lock' # lock
                 PROVE  lock[Owner[r]] = r
      BY DEF vars
    <2>1. PICK q \in Requests : CompareAndDelete(q) \/ ScriptFails(q) \/ FallbackDelete(q)
      <3>1. \A q \in Requests : ~Acquire(q)
        BY DEF Acquire, Incr, IncrFails, Expire, ExpireFails, RefuseFull, SetPending,
               SetPendingFails, Deny, Report, redisVars
      <3>2. \A q \in Requests : ~Upload(q)
        BY DEF Upload, FindActive, Rebind, EndWithoutJob, Insert, Bind, Commit,
               CommitUnacknowledged, Unlock, GiveBack, FindConflicting, Remember, redisVars
      <3>3. PICK q \in Requests : Release(q)
        BY <3>1, <3>2 DEF Next, Retry, RequestDies, EndJob, ReleaseAgain, ReleaseDies,
               LockExpires, CountAges, CountExpires, redisVars
      <3> QED
        BY <3>3 DEF Release, FallbackGet, DecrReleased, redisVars
    <2>2. q = r
      BY <2>1 DEF CompareAndDelete, ScriptFails, FallbackDelete, RelStep, TypeOK
    <2>3. CASE CompareAndDelete(q)
      BY <2>2, <2>3 DEF CompareAndDelete, Matches, SetLock, TypeOK
    <2>4. CASE ScriptFails(q)
      BY <2>2, <2>4 DEF ScriptFails, Fails, Matches, SetLock, TypeOK
    <2>5. CASE FallbackDelete(q)
      BY <2>2, <2>5 DEF FallbackDelete, RelStep, ExclusiveInv, MatchLasts
    <2> QED
      BY <2>1, <2>3, <2>4, <2>5
  <1>2. TypeOK /\ ExclusiveInv /\ [Next]_vars => ExclusiveInv'
    BY ExclusiveStep DEF LastingAdmissions
  <1> QED
    BY <1>1, <1>2, TypeInit, TypeStep, ExclusiveInit, PTL DEF Spec, ReleaseSparesNewerLock
----------------------------------------------------------------------------
(***************************************************************************)
(* The counter.                                                            *)
(***************************************************************************)

Bit(b) == IF b THEN 1 ELSE 0

\* Two sets that differ in r at most.
LEMMA OneMember ==
    ASSUME NEW S, NEW T, NEW r, IsFiniteSet(S), S \ {r} = T \ {r}
    PROVE  /\ IsFiniteSet(T) /\ Cardinality(S) \in Nat /\ Cardinality(T) \in Nat
           /\ Cardinality(T) + Bit(r \in S) = Cardinality(S) + Bit(r \in T)
  <1> DEFINE U == S \ {r}
  <1>1. IsFiniteSet(U) /\ Cardinality(S) \in Nat /\ Cardinality(U) \in Nat
    BY FS_RemoveElement, FS_CardinalityType
  <1>2. Cardinality(S) = Cardinality(U) + Bit(r \in S)
    BY <1>1, FS_RemoveElement DEF Bit
  <1>3. CASE r \in T
    <2>1. T = U \cup {r} /\ r \notin U
      BY <1>3
    <2>2. IsFiniteSet(U \cup {r}) /\ Cardinality(U \cup {r}) = Cardinality(U) + 1
      BY <1>1, <2>1, FS_AddElement
    <2> QED
      BY <1>1, <1>2, <1>3, <2>1, <2>2 DEF Bit
  <1>4. CASE r \notin T
    <2>1. T = U
      BY <1>4
    <2> QED
      BY <1>1, <1>2, <1>4, <2>1 DEF Bit
  <1> QED
    BY <1>3, <1>4

\* What a step of a request or of its release does to the count: r alone joins or
\* leaves, with an INCR or a DECR of its own, unless something fails.
CountedStep(r) ==
    /\ \A q \in Requests \ {r} : /\ pc'[q] = pc[q]
                                 /\ InCount(q)' <=> InCount(q)
                                 /\ (q \in Passed)' <=> q \in Passed
    /\ count' \in {count - 1, count, count + 1}
    /\ count + Bit(InCount(r)') <= count' + Bit(InCount(r))
    /\ faults' = 0 /\ ExactInv => count + Bit(InCount(r)') = count' + Bit(InCount(r))
    /\ (r \in Passed)' => r \in Passed \/ (count' = count + 1 /\ count' <= MaxActive)
    /\ ttl' = "old" => ttl = "old"
    /\ faults' \in {faults, faults + 1}
    /\ ttl' = "old" /\ InCount(r)' => pc'[r] \in Counting \/ (InCount(r) /\ pc[r] \notin Counting)

LEMMA CountEffect ==
    ASSUME TypeOK, JobEndsRequest, NEW r \in Requests,
           \/ Acquire(r) \/ Upload(r) \/ Retry(r) \/ RequestDies(r)
           \/ EndJob(r) \/ Release(r) \/ ReleaseAgain(r) \/ ReleaseDies(r),
           Faults \subseteq {"refused", "crash"} \/ faults' = 0
    PROVE  CountedStep(r)
  <1> USE MaxActiveAssumption DEF TypeOK, JobEndsRequest, CountedStep, InCount, Bit, Passed, InSystem, Step, RelStep,
             Steps, ReleaseSteps, Counting, Admitted, Releasing, Remembering, reqVars, redisVars, ExactInv
  <1>1. ASSUME Acquire(r) PROVE CountedStep(r)
    <2>1. CASE Incr(r)
      BY <2>1 DEF Incr, Add, OverCapacity
    <2>2. CASE IncrFails(r)
      BY <2>2 DEF IncrFails, Add, Fails, Fault
    <2>3. CASE Expire(r)
      BY <2>3 DEF Expire
    <2>4. CASE ExpireFails(r)
      BY <2>4 DEF ExpireFails, Fails, Fault
    <2>5. CASE RefuseFull(r)
      BY <2>5 DEF RefuseFull, Add, Fails, Fault
    <2>6. CASE SetPending(r)
      BY <2>6 DEF SetPending
    <2>7. CASE SetPendingFails(r)
      BY <2>7 DEF SetPendingFails, Fails, Fault
    <2>8. CASE Deny(r)
      BY <2>8 DEF Deny, Add, Fails, Fault
    <2>9. CASE Report(r)
      BY <2>9 DEF Report, Fault
    <2> QED
      BY <1>1, <2>1, <2>2, <2>3, <2>4, <2>5, <2>6, <2>7, <2>8, <2>9 DEF Acquire
  <1>2. ASSUME Upload(r) PROVE CountedStep(r)
    <2>1. CASE FindActive(r)
      BY <2>1 DEF FindActive
    <2>2. CASE Rebind(r)
      BY <2>2 DEF Rebind, Fails, Fault
    <2>3. CASE EndWithoutJob(r)
      BY <2>3 DEF EndWithoutJob
    <2>4. CASE Insert(r)
      BY <2>4 DEF Insert
    <2>5. CASE Bind(r)
      BY <2>5 DEF Bind, Fault
    <2>6. CASE Commit(r)
      BY <2>6 DEF Commit
    <2>7. CASE CommitUnacknowledged(r)
      BY <2>7 DEF CommitUnacknowledged, Fault
    <2>8. CASE Unlock(r)
      BY <2>8 DEF Unlock, Fails, Fault
    <2>9. CASE GiveBack(r)
      BY <2>9 DEF GiveBack, Add, Fails, Fault
    <2>10. CASE FindConflicting(r)
      BY <2>10 DEF FindConflicting
    <2>11. CASE Remember(r)
      BY <2>11 DEF Remember, Fault
    <2> QED
      BY <1>2, <2>1, <2>2, <2>3, <2>4, <2>5, <2>6, <2>7, <2>8, <2>9, <2>10, <2>11 DEF Upload
  <1>3. ASSUME Release(r) PROVE CountedStep(r)
    <2>1. CASE CompareAndDelete(r)
      BY <2>1 DEF CompareAndDelete, Matches
    <2>2. CASE ScriptFails(r)
      BY <2>2 DEF ScriptFails, Fails, Fault
    <2>3. CASE FallbackGet(r)
      BY <2>3 DEF FallbackGet, Fault, Matches
    <2>4. CASE FallbackDelete(r)
      BY <2>4 DEF FallbackDelete, Fails, Fault
    <2>5. CASE DecrReleased(r)
      BY <2>5 DEF DecrReleased, Add, Fails, Fault
    <2> QED
      BY <1>3, <2>1, <2>2, <2>3, <2>4, <2>5 DEF Release
  <1>4. CASE Retry(r)
    BY <1>4 DEF Retry
  <1>5. CASE RequestDies(r)
    BY <1>5 DEF RequestDies, Fault
  <1>6. CASE EndJob(r)
    BY <1>6 DEF EndJob
  <1>7. CASE ReleaseAgain(r)
    BY <1>7 DEF ReleaseAgain, Fault
  <1>8. CASE ReleaseDies(r)
    BY <1>8 DEF ReleaseDies, Fault
  <1> QED
    BY <1>1, <1>2, <1>3, <1>4, <1>5, <1>6, <1>7, <1>8

\* The count moves with the counter.
LEMMA Balance ==
    ASSUME NEW c \in Int, NEW d \in Int, NEW x \in Int, NEW y \in Int, NEW a \in Int, NEW b \in Int,
           y + a = x + b, c + b <= d + a
    PROVE  /\ x <= c => y <= d
           /\ x = c /\ c + b = d + a => y = d
  OBVIOUS

\* The part of the invariants that is about every request alike.
LEMMA CountersStep ==
    ASSUME TypeOK, TypeOK', OldIsUnused, IsFiniteSet(Counted), NEW r \in Requests, CountedStep(r)
    PROVE  /\ OldIsUnused' /\ IsFiniteSet(Counted') /\ Cardinality(Counted') \in Nat
           /\ Cardinality(Counted) <= count => Cardinality(Counted') <= count'
           /\ faults' = 0 /\ ExactInv /\ Cardinality(Counted) = count
                => Cardinality(Counted') = count'
  <1> DEFINE S == Counted
             T == Counted'
  <1>1. S \ {r} = T \ {r} /\ (r \in S <=> InCount(r)) /\ (r \in T <=> InCount(r)')
    BY DEF Counted, CountedStep
  <1>2. /\ IsFiniteSet(T) /\ Cardinality(S) \in Nat /\ Cardinality(T) \in Nat
        /\ Cardinality(T) + Bit(InCount(r)) = Cardinality(S) + Bit(InCount(r)')
    <2> HIDE DEF S, T
    <2>1. IsFiniteSet(S)
      BY DEF S
    <2>2. /\ IsFiniteSet(T) /\ Cardinality(S) \in Nat /\ Cardinality(T) \in Nat
          /\ Cardinality(T) + Bit(r \in S) = Cardinality(S) + Bit(r \in T)
      BY <1>1, <2>1, OneMember
    <2> QED
      BY <1>1, <2>2 DEF Bit
  <1>3. OldIsUnused'
    BY DEF OldIsUnused, CountedStep
  <1>4. /\ Cardinality(S) <= count => Cardinality(T) <= count'
        /\ faults' = 0 /\ ExactInv /\ Cardinality(S) = count => Cardinality(T) = count'
    <2>1. /\ count \in Int /\ count' \in Int /\ Bit(InCount(r)) \in Int /\ Bit(InCount(r)') \in Int
          /\ count + Bit(InCount(r)') <= count' + Bit(InCount(r))
      <3>1. count \in Int /\ count' \in Int
        BY DEF TypeOK
      <3>2. Bit(InCount(r)) \in Int /\ Bit(InCount(r)') \in Int
        BY DEF Bit
      <3> QED
        BY <3>1, <3>2 DEF CountedStep
    <2>2. Cardinality(S) <= count => Cardinality(T) <= count'
      <3> HIDE DEF S, T
      <3> QED
        BY <1>2, <2>1, Balance
    <2>3. ASSUME faults' = 0, ExactInv, Cardinality(S) = count PROVE Cardinality(T) = count'
      <3>1. count + Bit(InCount(r)') = count' + Bit(InCount(r))
        BY <2>3 DEF CountedStep
      <3> HIDE DEF S, T
      <3> QED
        BY <1>2, <2>1, <2>3, <3>1, Balance
    <2> QED
      BY <2>2, <2>3
  <1> QED
    BY <1>2, <1>3, <1>4

LEMMA CapacityInit == Init => CapacityInv
  <1> SUFFICES ASSUME Init PROVE CapacityInv
    OBVIOUS
  <1>1. Counted = {} /\ Passed = {} /\ OldIsUnused
    BY DEF Init, Counted, Passed, InSystem, InCount, OldIsUnused, Counting, Admitted, Releasing
  <1> QED
    BY <1>1, ExclusiveInit, FS_EmptySet, MaxActiveAssumption DEF CapacityInv, Init

LEMMA OwedIsCounted == Owed = Cardinality(Counted)
  <1>1. Counted = Holders \cup {r \in Requests : pc[r] \in Counting \cup {"full"}}
    BY DEF Counted, Holders, InSystem, InCount
  <1> QED
    BY <1>1 DEF Owed

LEMMA PassedCounted == IsFiniteSet(Counted) => /\ IsFiniteSet(Passed) /\ Cardinality(Passed) \in Nat
                                               /\ Cardinality(Passed) <= Cardinality(Counted)
  <1>1. Passed \subseteq Counted
    BY DEF Passed, Counted, InSystem, InCount, Counting
  <1> QED
    BY <1>1, FS_Subset, FS_CardinalityType

LEMMA CapacityStep ==
    ASSUME CrashesAndRefusals, TypeOK, TypeOK', CapacityInv, [Next]_vars
    PROVE  CapacityInv'
  <1> USE DEF CapacityInv
  <1>1. ExclusiveInv' /\ JobEndsRequest
    BY ExclusiveStep DEF CrashesAndRefusals, ExclusiveInv
  <1>2. ASSUME NEW r \in Requests,
               \/ Acquire(r) \/ Upload(r) \/ Retry(r) \/ RequestDies(r)
               \/ EndJob(r) \/ Release(r) \/ ReleaseAgain(r) \/ ReleaseDies(r)
        PROVE  CapacityInv'
    <2>1. CountedStep(r)
      BY <1>1, <1>2, CountEffect DEF CrashesAndRefusals
    <2>2. /\ OldIsUnused' /\ IsFiniteSet(Counted') /\ Cardinality(Counted') \in Nat
          /\ Cardinality(Counted') <= count'
      BY <2>1, CountersStep
    <2>3. IsFiniteSet(Passed) /\ Cardinality(Passed) \in Nat
      BY PassedCounted
    <2>4. /\ IsFiniteSet(Passed') /\ Cardinality(Passed') \in Nat
          /\ Cardinality(Passed') <= Cardinality(Counted')
      <3>1. Passed' \subseteq Counted'
        BY DEF Passed, Counted, InSystem, InCount, Counting
      <3> QED
        BY <2>2, <3>1, FS_Subset, FS_CardinalityType
    <2>5. CASE Passed' \subseteq Passed
      <3>1. Cardinality(Passed') <= Cardinality(Passed)
        BY <2>3, <2>5, FS_Subset
      <3> QED
        BY <1>1, <2>2, <2>3, <2>4, <3>1, MaxActiveAssumption
    <2>6. CASE count' <= MaxActive
      BY <1>1, <2>2, <2>4, <2>6, MaxActiveAssumption DEF TypeOK
    <2>7. Passed' \subseteq Passed \/ count' <= MaxActive
      <3>1. Passed' \subseteq Requests
        BY DEF Passed, InSystem
      <3> QED
        BY <2>1, <3>1 DEF CountedStep
    <2> QED
      BY <2>5, <2>6, <2>7
  <1>3. CASE UNCHANGED <<pc, job, rel, count>> /\ (ttl' = "old" => OldIsUnused')
    <2>1. Counted' = Counted /\ Passed' = Passed
      BY <1>3 DEF Counted, Passed, InCount, InSystem
    <2> QED
      BY <1>1, <1>3, <2>1 DEF OldIsUnused
  <1>4. CASE \E u \in Users : LockExpires(u)
    <2>1. UNCHANGED <<pc, job, rel, count, ttl>>
      BY <1>4 DEF LockExpires, reqVars
    <2> QED
      BY <1>3, <2>1 DEF OldIsUnused, InCount
  <1>5. CASE CountAges
    <2>1. UNCHANGED <<pc, job, rel, count>> /\ Holders = {} /\ \A r \in Requests : pc[r] # "full"
      BY <1>5 DEF CountAges, reqVars, CrashesAndRefusals
    <2> QED
      BY <1>3, <2>1 DEF OldIsUnused, InCount, Holders, InSystem
  <1>6. CASE CountExpires
    <2>1. /\ UNCHANGED <<pc, job, rel>> /\ count' = 0 /\ ttl' = "absent" /\ ttl = "old"
          /\ \A r \in Requests : pc[r] \notin Counting
      BY <1>6 DEF CountExpires, reqVars, Fault, CrashesAndRefusals
    <2>2. Counted' = {} /\ Passed' = {}
      BY <2>1 DEF OldIsUnused, Counted, Passed, InCount, InSystem, Counting
    <2> QED
      BY <1>1, <2>1, <2>2, FS_EmptySet, MaxActiveAssumption DEF OldIsUnused
  <1>7. CASE UNCHANGED vars
    BY <1>3, <1>7 DEF vars, OldIsUnused, InCount
  <1> QED
    BY <1>2, <1>4, <1>5, <1>6, <1>7 DEF Next

\* Refused Redis commands and killed processes, as many as may be, never let more
\* requests past the counter, and more jobs, than max_global_active_jobs.
THEOREM CapacityIsRespected ==
    ASSUME CrashesAndRefusals
    PROVE  Spec => []CapacityRespected
  <1>1. Init => TypeOK /\ CapacityInv
    BY TypeInit, CapacityInit
  <1>2. TypeOK /\ CapacityInv /\ [Next]_vars => TypeOK' /\ CapacityInv'
    BY TypeStep, CapacityStep
  <1>3. CapacityInv => CapacityRespected
    <2> SUFFICES ASSUME CapacityInv PROVE CapacityRespected
      OBVIOUS
    <2>1. InSystem \subseteq Passed /\ IsFiniteSet(Passed)
      BY PassedCounted DEF Passed, CapacityInv
    <2>2. /\ Cardinality(InSystem) \in Nat /\ Cardinality(Passed) \in Nat
          /\ Cardinality(InSystem) <= Cardinality(Passed)
      BY <2>1, FS_Subset, FS_CardinalityType
    <2> QED
      BY <2>2, MaxActiveAssumption DEF CapacityInv, CapacityRespected
  <1> QED
    BY <1>1, <1>2, <1>3, PTL DEF Spec

\* Without faults: the release finds its lock.
LEMMA LockFoundStep ==
    ASSUME TTLOutlasts, TypeOK, ExactInv, faults = 0, faults' = 0, [Next]_vars
    PROVE  \A q \in Requests :
             /\ pc'[q] # "reporting" /\ rel'[q] \notin {"fallback", "matched"}
             /\ pc'[q] = "bound" \/ job'[q] = "active" \/ rel'[q] = "due"
                  => lock'[Owner[q]] = q
  <1> DEFINE Goal == \A q \in Requests :
             /\ pc'[q] # "reporting" /\ rel'[q] \notin {"fallback", "matched"}
             /\ pc'[q] = "bound" \/ job'[q] = "active" \/ rel'[q] = "due"
                  => lock'[Owner[q]] = q
  <1> USE NamesAssumption
      DEF TypeOK, ExactInv, ExclusiveInv, NoRebind, JobEndsRequest, HolderHasLock, OneHolder, Held,
          Users, Same, Counting, Admitted, Releasing, reqVars, redisVars, Step, RelStep
  <1>1. ASSUME NEW r \in Requests, Acquire(r) PROVE Goal
    <2>1. CASE Incr(r)
      BY <2>1 DEF Incr, Add
    <2>2. CASE IncrFails(r)
      BY <2>2 DEF IncrFails, Add, Fails, Fault
    <2>3. CASE Expire(r)
      BY <2>3 DEF Expire
    <2>4. CASE ExpireFails(r)
      BY <2>4 DEF ExpireFails, Fails, Fault
    <2>5. CASE RefuseFull(r)
      BY <2>5 DEF RefuseFull, Add, Fails, Fault
    <2>6. CASE SetPending(r)
      BY <2>6 DEF SetPending, SetLockNX
    <2>7. CASE SetPendingFails(r)
      BY <2>7 DEF SetPendingFails, SetLockNX, Fails, Fault
    <2>8. CASE Deny(r)
      BY <2>8 DEF Deny, Add, Fails, Fault
    <2>9. CASE Report(r)
      BY <2>9 DEF Report, Fault
    <2> QED
      BY <1>1, <2>1, <2>2, <2>3, <2>4, <2>5, <2>6, <2>7, <2>8, <2>9 DEF Acquire
  <1>2. ASSUME NEW r \in Requests, Upload(r) PROVE Goal
    <2>1. CASE FindActive(r)
      BY <2>1 DEF FindActive, ActiveJobs
    <2>2. CASE Rebind(r)
      BY <2>2 DEF Rebind, SetLock, Fails, Fault
    <2>3. CASE EndWithoutJob(r)
      BY <2>3 DEF EndWithoutJob
    <2>4. CASE Insert(r)
      BY <2>4 DEF Insert, ActiveJobs
    <2>5. CASE Bind(r)
      BY <2>5 DEF Bind, SetLock, Fault
    <2>6. CASE Commit(r)
      BY <2>6 DEF Commit
    <2>7. CASE CommitUnacknowledged(r)
      BY <2>7 DEF CommitUnacknowledged, Fault
    <2>8. CASE Unlock(r)
      BY <2>8 DEF Unlock, SetLock, Fails, Fault
    <2>9. CASE GiveBack(r)
      BY <2>9 DEF GiveBack, Add, Fails, Fault
    <2>10. CASE FindConflicting(r)
      BY <2>10 DEF FindConflicting, ActiveJobs
    <2>11. CASE Remember(r)
      BY <2>11 DEF Remember, SetLockNX, Fault
    <2> QED
      BY <1>2, <2>1, <2>2, <2>3, <2>4, <2>5, <2>6, <2>7, <2>8, <2>9, <2>10, <2>11 DEF Upload
  <1>3. ASSUME NEW r \in Requests, Release(r) PROVE Goal
    <2>1. CASE CompareAndDelete(r)
      BY <2>1 DEF CompareAndDelete, SetLock, Matches
    <2>2. CASE ScriptFails(r)
      BY <2>2 DEF ScriptFails, SetLock, Matches, Fails, Fault
    <2>3. CASE FallbackGet(r)
      BY <2>3 DEF FallbackGet, Fault, Matches
    <2>4. CASE FallbackDelete(r)
      BY <2>4 DEF FallbackDelete, SetLock, Fails, Fault
    <2>5. CASE DecrReleased(r)
      BY <2>5 DEF DecrReleased, Add, Fails, Fault
    <2> QED
      BY <1>3, <2>1, <2>2, <2>3, <2>4, <2>5 DEF Release
  <1>4. ASSUME NEW r \in Requests, Retry(r) \/ RequestDies(r) \/ ReleaseAgain(r) \/ ReleaseDies(r)
        PROVE  Goal
    BY <1>4 DEF Retry, RequestDies, ReleaseAgain, ReleaseDies, Fault
  <1>5. ASSUME NEW r \in Requests, EndJob(r) PROVE Goal
    BY <1>5 DEF EndJob
  <1>6. ASSUME NEW u \in Users, LockExpires(u) PROVE Goal
    BY <1>6 DEF LockExpires, SetLock, InUse
  <1>7. CASE CountAges \/ CountExpires \/ UNCHANGED vars
    BY <1>7 DEF CountAges, CountExpires, vars
  <1> QED
    BY <1>1, <1>2, <1>3, <1>4, <1>5, <1>6, <1>7 DEF Next

LEMMA ExactStep ==
    ASSUME TTLOutlasts, TypeOK, TypeOK', ExactInv, [Next]_vars
    PROVE  ExactInv'
  <1> SUFFICES ASSUME faults' = 0 PROVE ExactInv'
    BY DEF ExactInv
  <1>1. CASE faults = 0
    <2>1. /\ ExclusiveInv /\ JobEndsRequest /\ OldIsUnused
          /\ IsFiniteSet(Counted) /\ Cardinality(Counted) = count
      BY <1>1 DEF ExactInv, ExclusiveInv
    <2>2. ExclusiveInv'
      BY <2>1, ExclusiveStep
    <2>3. \A q \in Requests :
             /\ pc'[q] # "reporting" /\ rel'[q] \notin {"fallback", "matched"}
             /\ pc'[q] = "bound" \/ job'[q] = "active" \/ rel'[q] = "due"
                  => lock'[Owner[q]] = q
      BY <1>1, LockFoundStep
    <2>4. SUFFICES OldIsUnused' /\ IsFiniteSet(Counted') /\ Cardinality(Counted') = count'
      BY <2>2, <2>3, <2>4 DEF ExactInv
    <2>5. ASSUME NEW r \in Requests,
                 \/ Acquire(r) \/ Upload(r) \/ Retry(r) \/ RequestDies(r)
                 \/ EndJob(r) \/ Release(r) \/ ReleaseAgain(r) \/ ReleaseDies(r)
          PROVE  OldIsUnused' /\ IsFiniteSet(Counted') /\ Cardinality(Counted') = count'
      <3>1. CountedStep(r)
        BY <2>1, <2>5, CountEffect
      <3> QED
        BY <2>1, <3>1, CountersStep
    <2>6. CASE UNCHANGED <<pc, job, rel, count>> /\ (ttl' = "old" => OldIsUnused')
      <3>1. Counted' = Counted
        BY <2>6 DEF Counted, InCount
      <3> QED
        BY <2>1, <2>6, <3>1 DEF OldIsUnused
    <2>7. CASE \E u \in Users : LockExpires(u)
      <3>1. UNCHANGED <<pc, job, rel, count, ttl>>
        BY <2>7 DEF LockExpires, reqVars
      <3> QED
        BY <2>1, <2>6, <3>1 DEF OldIsUnused, InCount
    <2>8. CASE CountAges
      <3>1. UNCHANGED <<pc, job, rel, count>> /\ Holders = {} /\ \A r \in Requests : pc[r] # "full"
        BY <2>8 DEF CountAges, reqVars
      <3> QED
        BY <2>6, <3>1 DEF OldIsUnused, InCount, Holders, InSystem
    <2>9. CASE CountExpires
      <3>1. /\ UNCHANGED <<pc, job, rel>> /\ count' = 0 /\ ttl' = "absent" /\ ttl = "old"
            /\ \A r \in Requests : pc[r] \notin Counting
        BY <1>1, <2>9 DEF CountExpires, reqVars, Fault
      <3>2. Counted' = {}
        BY <2>1, <3>1 DEF OldIsUnused, Counted, InCount
      <3> QED
        BY <3>1, <3>2, FS_EmptySet DEF OldIsUnused
    <2>10. CASE UNCHANGED vars
      BY <2>1, <2>6, <2>10 DEF vars, OldIsUnused, InCount
    <2> QED
      BY <2>5, <2>7, <2>8, <2>9, <2>10 DEF Next
  <1>2. CASE faults # 0
    <2>1. faults' \in {faults, faults + 1}
      BY DEF Next, Acquire, Upload, Release, Incr, IncrFails, Expire, ExpireFails, RefuseFull,
             SetPending, SetPendingFails, Deny, Report, FindActive, Rebind, EndWithoutJob,
             Insert, Bind, Commit, CommitUnacknowledged, Unlock, GiveBack, FindConflicting,
             Remember, Retry, RequestDies, EndJob, CompareAndDelete, ScriptFails, FallbackGet,
             FallbackDelete, DecrReleased, ReleaseAgain, ReleaseDies, LockExpires, CountAges,
             CountExpires, Fails, Fault, vars
    <2> QED
      BY <1>2, <2>1 DEF TypeOK
  <1> QED
    BY <1>1, <1>2

\* As long as nothing has failed, the counter is exact: it counts the holders and the
\* requests that it has not yet answered or turned away.
THEOREM CountIsExact == ASSUME TTLOutlasts PROVE Spec => []CountExact
  <1>1. Init => TypeOK /\ ExactInv
    <2>1. Init => \A r \in Requests : pc[r] = "idle" /\ job[r] = "none" /\ rel[r] = "none"
      BY DEF Init
    <2>2. Init => count = 0 /\ Counted = {} /\ OldIsUnused
      BY DEF Init, Counted, InCount, OldIsUnused, Counting, Admitted, Releasing
    <2> QED
      BY <2>1, <2>2, TypeInit, ExclusiveInit, FS_EmptySet DEF ExactInv
  <1>2. TypeOK /\ ExactInv /\ [Next]_vars => TypeOK' /\ ExactInv'
    BY TypeStep, ExactStep
  <1>3. ExactInv => CountExact
    <2>1. Owed = Cardinality(Counted)
      BY OwedIsCounted
    <2> QED
      BY <2>1 DEF ExactInv, CountExact
  <1> QED
    BY <1>1, <1>2, <1>3, PTL DEF Spec

\* A fault has already cost q's unit of capacity: its DECR was refused, or the binding of
\* its job, so that the release will not find the lock.
Spoilt(q) == \/ pc[q] = "reporting"
             \/ /\ pc[q] = "bound" \/ job[q] = "active" \/ rel[q] \in {"due", "fallback"}
                /\ lock[Owner[q]] # q
Leaking == {q \in Requests : Spoilt(q)}

\* The units leaked already and the ones that will be.
LeakInv == count + Cardinality(Leaking) <= Cardinality(Counted) + faults

\* A step of r spoils no other unit, and every unit that is leaked, or will be,
\* is paid for with a fault.
LeakingStep(r) ==
    /\ \A q \in Requests \ {r} : Spoilt(q)' => Spoilt(q)
    /\ count' + Bit(Spoilt(r)') + Bit(InCount(r)) + faults
         <= count + Bit(Spoilt(r)) + Bit(InCount(r)') + faults'

LEMMA LeakEffect ==
    ASSUME CrashesAndRefusals, TypeOK, ExclusiveInv, NEW r \in Requests,
           \/ Acquire(r) \/ Upload(r) \/ Retry(r) \/ RequestDies(r)
           \/ EndJob(r) \/ Release(r) \/ ReleaseAgain(r) \/ ReleaseDies(r)
    PROVE  LeakingStep(r)
  <1> USE NamesAssumption
      DEF CrashesAndRefusals, TypeOK, ExclusiveInv, NoRebind, JobEndsRequest, HolderHasLock, OneHolder, MatchLasts,
          Held, LeakingStep, Spoilt, InCount, Bit, Users, Same, Step, RelStep, Steps, ReleaseSteps,
          Counting, Admitted, Releasing, Remembering, reqVars, redisVars
  <1>1. ASSUME Acquire(r) PROVE LeakingStep(r)
    <2>1. CASE Incr(r)
      BY <2>1 DEF Incr, Add
    <2>2. CASE IncrFails(r)
      BY <2>2 DEF IncrFails, Add, Fails, Fault
    <2>3. CASE Expire(r)
      BY <2>3 DEF Expire
    <2>4. CASE ExpireFails(r)
      BY <2>4 DEF ExpireFails, Fails, Fault
    <2>5. CASE RefuseFull(r)
      BY <2>5 DEF RefuseFull, Add, Fails, Fault
    <2>6. CASE SetPending(r)
      BY <2>6 DEF SetPending, SetLockNX
    <2>7. CASE SetPendingFails(r)
      BY <2>7 DEF SetPendingFails, SetLockNX, Fails, Fault
    <2>8. CASE Deny(r)
      BY <2>8 DEF Deny, Add, Fails, Fault
    <2>9. CASE Report(r)
      BY <2>9 DEF Report, Fault
    <2> QED
      BY <1>1, <2>1, <2>2, <2>3, <2>4, <2>5, <2>6, <2>7, <2>8, <2>9 DEF Acquire
  <1>2. ASSUME Upload(r) PROVE LeakingStep(r)
    <2>1. CASE FindActive(r)
      BY <2>1 DEF FindActive, ActiveJobs
    <2>2. CASE Rebind(r)
      BY <2>2 DEF Rebind
    <2>3. CASE EndWithoutJob(r)
      BY <2>3 DEF EndWithoutJob
    <2>4. CASE Insert(r)
      BY <2>4 DEF Insert
    <2>5. CASE Bind(r)
      BY <2>5 DEF Bind, SetLock, Fault
    <2>6. CASE Commit(r)
      BY <2>6 DEF Commit
    <2>7. CASE CommitUnacknowledged(r)
      BY <2>7 DEF CommitUnacknowledged, Fault
    <2>8. CASE Unlock(r)
      BY <2>8 DEF Unlock, SetLock, Fails, Fault
    <2>9. CASE GiveBack(r)
      BY <2>9 DEF GiveBack, Add, Fails, Fault
    <2>10. CASE FindConflicting(r)
      BY <2>10 DEF FindConflicting
    <2>11. CASE Remember(r)
      BY <2>11 DEF Remember, SetLockNX, Fault
    <2> QED
      BY <1>2, <2>1, <2>2, <2>3, <2>4, <2>5, <2>6, <2>7, <2>8, <2>9, <2>10, <2>11 DEF Upload
  <1>3. ASSUME Release(r) PROVE LeakingStep(r)
    <2>1. CASE CompareAndDelete(r)
      BY <2>1 DEF CompareAndDelete, SetLock, Matches
    <2>2. CASE ScriptFails(r)
      BY <2>2 DEF ScriptFails, SetLock, Matches, Fails, Fault
    <2>3. CASE FallbackGet(r)
      BY <2>3 DEF FallbackGet, Fault, Matches
    <2>4. CASE FallbackDelete(r)
      BY <2>4 DEF FallbackDelete, SetLock, Fails, Fault
    <2>5. CASE DecrReleased(r)
      BY <2>5 DEF DecrReleased, Add, Fails, Fault
    <2> QED
      BY <1>3, <2>1, <2>2, <2>3, <2>4, <2>5 DEF Release
  <1>4. CASE Retry(r)
    BY <1>4 DEF Retry
  <1>5. CASE RequestDies(r)
    BY <1>5 DEF RequestDies, Fault
  <1>6. CASE EndJob(r)
    BY <1>6 DEF EndJob
  <1>7. CASE ReleaseAgain(r)
    BY <1>7 DEF ReleaseAgain, Fault
  <1>8. CASE ReleaseDies(r)
    BY <1>8 DEF ReleaseDies, Fault
  <1> QED
    BY <1>1, <1>2, <1>3, <1>4, <1>5, <1>6, <1>7, <1>8

\* A set that r alone may join.
LEMMA AtMostOneJoins ==
    ASSUME NEW S, NEW T, NEW r, IsFiniteSet(S), T \ {r} \subseteq S \ {r}
    PROVE  /\ Cardinality(S) \in Nat /\ Cardinality(T) \in Nat
           /\ Cardinality(T) + Bit(r \in S) <= Cardinality(S) + Bit(r \in T)
  <1> DEFINE U == (S \ {r}) \cup (T \cap {r})
  <1>1. S \ {r} = U \ {r} /\ T \subseteq U /\ (r \in U <=> r \in T)
    OBVIOUS
  <1> HIDE DEF U
  <1>2. /\ IsFiniteSet(U) /\ Cardinality(S) \in Nat /\ Cardinality(U) \in Nat
        /\ Cardinality(U) + Bit(r \in S) = Cardinality(S) + Bit(r \in U)
    BY <1>1, OneMember
  <1>3. Cardinality(T) \in Nat /\ Cardinality(T) <= Cardinality(U)
    BY <1>1, <1>2, FS_Subset, FS_CardinalityType
  <1> QED
    BY <1>1, <1>2, <1>3 DEF Bit

LEMMA LeakSum ==
    ASSUME NEW c \in Int, NEW d \in Int, NEW f \in Int, NEW g \in Int,
           NEW k \in Int, NEW l \in Int, NEW m \in Int, NEW n \in Int,
           NEW a \in Int, NEW b \in Int, NEW x \in Int, NEW y \in Int,
           c + k <= m + f, n + a = m + b, l + x <= k + y, d + y + a + f <= c + x + b + g
    PROVE  d + l <= n + g
  OBVIOUS

LEMMA LeakStep ==
    ASSUME CrashesAndRefusals, TypeOK, TypeOK', CapacityInv, LeakInv, [Next]_vars
    PROVE  LeakInv'
  <1>1. IsFiniteSet(Counted) /\ Cardinality(Counted) \in Nat
    BY FS_CardinalityType DEF CapacityInv
  <1>2. IsFiniteSet(Leaking) /\ Cardinality(Leaking) \in Nat
    <2>1. Leaking \subseteq Counted
      BY DEF Leaking, Counted, Spoilt, InCount, Admitted
    <2> QED
      BY <1>1, <2>1, FS_Subset, FS_CardinalityType
  <1>3. ASSUME NEW r \in Requests,
               \/ Acquire(r) \/ Upload(r) \/ Retry(r) \/ RequestDies(r)
               \/ EndJob(r) \/ Release(r) \/ ReleaseAgain(r) \/ ReleaseDies(r)
        PROVE  LeakInv'
    <2>1. CountedStep(r) /\ LeakingStep(r)
      BY <1>3, CountEffect, LeakEffect DEF CrashesAndRefusals, CapacityInv, ExclusiveInv
    <2>2. /\ Cardinality(Counted') \in Nat
          /\ Cardinality(Counted') + Bit(InCount(r)) = Cardinality(Counted) + Bit(InCount(r)')
      <3> DEFINE S == Counted
                 T == Counted'
      <3>1. S \ {r} = T \ {r} /\ (r \in S <=> InCount(r)) /\ (r \in T <=> InCount(r)')
        BY <2>1 DEF Counted, CountedStep
      <3> HIDE DEF S, T
      <3>2. IsFiniteSet(S)
        BY <1>1 DEF S
      <3>3. Cardinality(T) \in Nat /\ Cardinality(T) + Bit(r \in S) = Cardinality(S) + Bit(r \in T)
        BY <3>1, <3>2, OneMember
      <3> QED
        BY <3>1, <3>3 DEF S, T, Bit
    <2>3. /\ Cardinality(Leaking') \in Nat
          /\ Cardinality(Leaking') + Bit(Spoilt(r)) <= Cardinality(Leaking) + Bit(Spoilt(r)')
      <3> DEFINE S == Leaking
                 T == Leaking'
      <3>1. T \ {r} \subseteq S \ {r} /\ (r \in S <=> Spoilt(r)) /\ (r \in T <=> Spoilt(r)')
        BY <2>1 DEF Leaking, LeakingStep
      <3> HIDE DEF S, T
      <3>2. IsFiniteSet(S)
        BY <1>2 DEF S
      <3>3. Cardinality(T) \in Nat /\ Cardinality(T) + Bit(r \in S) <= Cardinality(S) + Bit(r \in T)
        BY <3>1, <3>2, AtMostOneJoins
      <3> QED
        BY <3>1, <3>3 DEF S, T, Bit
    <2>4. /\ count \in Int /\ count' \in Int /\ faults \in Int /\ faults' \in Int
          /\ Bit(InCount(r)) \in Int /\ Bit(InCount(r)') \in Int
          /\ Bit(Spoilt(r)) \in Int /\ Bit(Spoilt(r)') \in Int
      BY DEF TypeOK, Bit
    <2>5. /\ count + Cardinality(Leaking) <= Cardinality(Counted) + faults
          /\ count' + Bit(Spoilt(r)') + Bit(InCount(r)) + faults
               <= count + Bit(Spoilt(r)) + Bit(InCount(r)') + faults'
      BY <2>1 DEF LeakInv, LeakingStep
    <2>6. count' + Cardinality(Leaking') <= Cardinality(Counted') + faults'
      BY <1>1, <1>2, <2>2, <2>3, <2>4, <2>5, LeakSum
    <2> QED
      BY <2>6 DEF LeakInv
  <1>4. CASE UNCHANGED <<pc, lock, job, rel, count, faults>>
    <2>1. Counted' = Counted /\ Leaking' = Leaking
      BY <1>4 DEF Counted, Leaking, InCount, Spoilt
    <2> QED
      BY <1>4, <2>1 DEF LeakInv
  <1>5. CASE \E u \in Users : LockExpires(u)
    <2>1. PICK u \in Users : LockExpires(u)
      BY <1>5
    <2>2. UNCHANGED <<pc, job, rel, count, faults>> /\ ~InUse(u)
          /\ \A v \in Users \ {u} : lock'[v] = lock[v]
      BY <2>1 DEF LockExpires, SetLock, reqVars, CrashesAndRefusals, TypeOK
    <2>3. \A q \in Requests : Spoilt(q)' <=> Spoilt(q)
      BY <2>2 DEF Spoilt, InUse, Users, Admitted
    <2>4. Counted' = Counted /\ Leaking' = Leaking
      BY <2>2, <2>3 DEF Counted, Leaking, InCount
    <2> QED
      BY <2>2, <2>4 DEF LeakInv
  <1>6. CASE CountExpires
    <2>1. UNCHANGED <<pc, lock, job, rel, faults>> /\ count' = 0 /\ ttl = "old"
          /\ \A r \in Requests : pc[r] \notin Counting
      BY <1>6 DEF CountExpires, reqVars, Fault, CrashesAndRefusals
    <2>2. Counted' = {}
      BY <2>1 DEF CapacityInv, OldIsUnused, Counted, InCount
    <2>3. Leaking' = {}
      BY <2>2 DEF Leaking, Counted, Spoilt, InCount, Admitted
    <2> QED
      BY <2>1, <2>2, <2>3, FS_EmptySet DEF LeakInv, TypeOK
  <1> QED
    BY <1>3, <1>4, <1>5, <1>6 DEF Next, CountAges, vars, reqVars

\* Each refused Redis command and each killed process leaks one unit of capacity at
\* most, and nothing else does: neither the release that fails to find the lock of a
\* job whose binding was refused, nor one that is turned away meanwhile.
THEOREM FaultsLeakOneEach ==
    ASSUME CrashesAndRefusals
    PROVE  Spec => []FaultLeaksOne
  <1>1. Init => TypeOK /\ CapacityInv /\ LeakInv
    <2> SUFFICES ASSUME Init PROVE LeakInv
      BY TypeInit, CapacityInit
    <2>1. Counted = {} /\ Leaking = {}
      BY DEF Init, Counted, Leaking, InCount, Spoilt, Counting, Admitted, Releasing
    <2> QED
      BY <2>1, FS_EmptySet DEF Init, LeakInv
  <1>2. TypeOK /\ CapacityInv /\ LeakInv /\ [Next]_vars => TypeOK' /\ CapacityInv' /\ LeakInv'
    BY TypeStep, CapacityStep, LeakStep
  <1>3. TypeOK /\ CapacityInv /\ LeakInv => FaultLeaksOne
    <2> SUFFICES ASSUME TypeOK, CapacityInv, LeakInv PROVE FaultLeaksOne
      OBVIOUS
    <2>1. Leaking \subseteq Counted /\ IsFiniteSet(Counted)
      BY DEF Leaking, Counted, Spoilt, InCount, Admitted, CapacityInv
    <2>2. Cardinality(Leaking) \in Nat /\ Cardinality(Counted) \in Nat
      BY <2>1, FS_Subset, FS_CardinalityType
    <2> QED
      BY <2>2, OwedIsCounted DEF LeakInv, FaultLeaksOne, TypeOK
  <1> QED
    BY <1>1, <1>2, <1>3, PTL DEF Spec
==========================================================================
