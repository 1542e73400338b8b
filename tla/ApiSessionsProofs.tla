------------------------- MODULE ApiSessionsProofs -------------------------
(***************************************************************************)
(* Proofs about ApiSessions, for any number of processes, requests and     *)
(* devices and any limits.                                                 *)
(***************************************************************************)
EXTENDS ApiSessions, TLAPS

LEMMA DeviceKnown == \A r \in Requests : Device[r] \in Devices /\ Process[r] \in Processes
  BY DEF Devices, Processes

LEMMA SessionTypeInit == Init => TypeOK
  BY DEF Init, TypeOK, Steps, Answers, Devices

LEMMA SessionTypeStep == TypeOK /\ [Next]_vars => TypeOK'
  <1> SUFFICES ASSUME TypeOK, [Next]_vars PROVE TypeOK'
    OBVIOUS
  <1> USE DeviceKnown, RequestAssumption
      DEF TypeOK, Steps, Answers, Goto, Take, Yield, Leave
  <1>1. ASSUME NEW r \in Requests, Start(r) \/ FindUser(r) \/ PoolTimeout(r) PROVE TypeOK'
    BY <1>1 DEF Start, FindUser, PoolTimeout
  <1>2. ASSUME NEW r \in Requests, InsertUser(r) \/ InsertConflict(r) PROVE TypeOK'
    BY <1>2 DEF InsertUser, InsertConflict
  <1>3. ASSUME NEW r \in Requests, AnswerRead(r) PROVE TypeOK'
    BY <1>3 DEF AnswerRead, Commit
  <1>4. ASSUME NEW r \in Requests, RefuseUpload(r) \/ AdmitUpload(r) PROVE TypeOK'
    BY <1>4 DEF RefuseUpload, AdmitUpload
  <1>5. ASSUME NEW r \in Requests, ReadChunk(r) \/ RejectUpload(r) PROVE TypeOK'
    BY <1>5 DEF ReadChunk, RejectUpload
  <1>6. ASSUME NEW r \in Requests, AcceptUpload(r) PROVE TypeOK'
    BY <1>6 DEF AcceptUpload, Commit
  <1>7. ASSUME NEW r \in Requests, HandOverClose(r) \/ CloseSession(r) PROVE TypeOK'
    BY <1>7 DEF HandOverClose, CloseSession
  <1>8. CASE UNCHANGED vars
    BY <1>8 DEF vars
  <1> QED
    BY <1>1, <1>2, <1>3, <1>4, <1>5, <1>6, <1>7, <1>8 DEF Next, Handler

\* Every variable keeps its type, and who has ended has answered.
THEOREM SessionTypeInvariant == Spec => []TypeOK
  BY SessionTypeInit, SessionTypeStep, PTL DEF Spec

----------------------------------------------------------------------------
(***************************************************************************)
(* Users: SessionInv.                                                      *)
(***************************************************************************)

LEMMA SessionInit == Init => SessionInv
  BY SessionTypeInit
  DEF Init, SessionInv, LoopInv, UserInv, OkMeansCommitted, ConflictOnlyAcrossProcesses

\* A committed device stays committed, and an answer is given once.
LEMMA OnlyGrows ==
    ASSUME TypeOK, [Next]_vars
    PROVE  /\ known \subseteq known'
           /\ \A r \in Requests : answer[r] # "none" => answer'[r] = answer[r]
  <1> USE DeviceKnown, RequestAssumption DEF TypeOK, Goto, Take, Yield, Leave
  <1>1. ASSUME NEW r \in Requests, Handler(r)
        PROVE  /\ known \subseteq known'
               /\ \A s \in Requests : answer[s] # "none" => answer'[s] = answer[s]
    BY <1>1 DEF Handler, Start, FindUser, PoolTimeout, InsertUser, InsertConflict, AnswerRead,
       RefuseUpload, AdmitUpload, ReadChunk, RejectUpload, AcceptUpload, Commit,
       HandOverClose, CloseSession
  <1> QED
    BY <1>1 DEF Next, vars

LEMMA LoopStep == TypeOK /\ LoopInv /\ [Next]_vars => LoopInv'
  <1> SUFFICES ASSUME TypeOK, LoopInv, [Next]_vars PROVE LoopInv'
    OBVIOUS
  <1> USE DeviceKnown, RequestAssumption
      DEF TypeOK, LoopInv, OnLoop, LoopFree, Goto, Take, Yield, Leave
  <1>1. ASSUME NEW r \in Requests, Start(r) \/ FindUser(r) \/ PoolTimeout(r) PROVE LoopInv'
    BY <1>1 DEF Start, FindUser, PoolTimeout
  <1>2. ASSUME NEW r \in Requests, InsertUser(r) \/ InsertConflict(r) PROVE LoopInv'
    BY <1>2 DEF InsertUser, InsertConflict
  <1>3. ASSUME NEW r \in Requests, AnswerRead(r) \/ RefuseUpload(r) \/ AdmitUpload(r)
        PROVE  LoopInv'
    BY <1>3 DEF AnswerRead, RefuseUpload, AdmitUpload
  <1>4. ASSUME NEW r \in Requests, ReadChunk(r) \/ RejectUpload(r) \/ AcceptUpload(r)
        PROVE  LoopInv'
    BY <1>4 DEF ReadChunk, RejectUpload, AcceptUpload
  <1>5. ASSUME NEW r \in Requests, HandOverClose(r) \/ CloseSession(r) PROVE LoopInv'
    BY <1>5 DEF HandOverClose, CloseSession
  <1>6. CASE UNCHANGED vars
    BY <1>6 DEF vars
  <1> QED
    BY <1>1, <1>2, <1>3, <1>4, <1>5, <1>6 DEF Next, Handler

LEMMA SessionStep == SessionInv /\ [Next]_vars => SessionInv'
  <1> SUFFICES ASSUME SessionInv, [Next]_vars PROVE SessionInv'
    OBVIOUS
  <1> DEFINE Rest == UserInv /\ OkMeansCommitted /\ ConflictOnlyAcrossProcesses
  <1>t. TypeOK /\ LoopInv /\ Rest /\ TypeOK' /\ LoopInv'
    BY SessionTypeStep, LoopStep DEF SessionInv
  <1>g. /\ known \subseteq known'
        /\ \A r \in Requests : answer[r] # "none" => answer'[r] = answer[r]
    BY <1>t, OnlyGrows
  <1> SUFFICES Rest'
    BY <1>t DEF SessionInv
  <1> USE DeviceKnown, RequestAssumption
      DEF UserInv, OkMeansCommitted, ConflictOnlyAcrossProcesses, Goto, Take, Yield, Leave
  <1>1. ASSUME NEW r \in Requests, Start(r) \/ FindUser(r) \/ PoolTimeout(r) PROVE Rest'
    BY <1>t, <1>g, <1>1 DEF TypeOK, Start, FindUser, PoolTimeout
  <1>2. ASSUME NEW r \in Requests, InsertUser(r) PROVE Rest'
    BY <1>t, <1>g, <1>2 DEF TypeOK, InsertUser
  <1>3. ASSUME NEW r \in Requests, InsertConflict(r) PROVE Rest'
    BY <1>t, <1>g, <1>3 DEF TypeOK, InsertConflict
  <1>4. ASSUME NEW r \in Requests, RefuseUpload(r) \/ AdmitUpload(r) \/ ReadChunk(r)
               \/ RejectUpload(r) \/ HandOverClose(r)
        PROVE  Rest'
    BY <1>t, <1>g, <1>4 DEF TypeOK, RefuseUpload, AdmitUpload, ReadChunk, RejectUpload, HandOverClose
  <1>5. ASSUME NEW r \in Requests, CloseSession(r) PROVE Rest'
    BY <1>t, <1>g, <1>5 DEF TypeOK, CloseSession
  <1>6. ASSUME NEW r \in Requests, pc[r] \in {"found", "reading"}, OnLoop(r) \/ LoopFree(r),
               Commit(r), Leave(r, "ok")
        PROVE  Rest'
    <2>1. \A s \in Requests : pc[s] = "inserting" /\ Process[s] = Process[r] => s = r
      BY <1>t, <1>6 DEF LoopInv, OnLoop, LoopFree, TypeOK
    <2>2. pc'[r] = "leaving" /\ answer'[r] = "ok" /\ Device[r] \in known'
      BY <1>t, <1>6 DEF TypeOK, Commit
    <2>3. \A s \in Requests \ {r} : pc'[s] = pc[s] /\ answer'[s] = answer[s]
      BY <1>t, <1>6 DEF TypeOK
    <2>4. \A s \in Requests : Device[s] # Device[r] =>
            /\ Device[s] \in known' <=> Device[s] \in known
            /\ rowOf'[Device[s]] = rowOf[Device[s]]
      BY <1>t, <1>6 DEF TypeOK, Commit
    <2>5. ASSUME NEW s \in Requests, pc'[s] \in {"found", "reading"}
          PROVE  Device[s] \in known' \/ rowOf'[Device[s]] = s
      BY <1>t, <1>g, <2>2, <2>3, <2>4, <2>5
    <2>6. ASSUME NEW s \in Requests, pc'[s] = "inserting", Device[s] \in known'
          PROVE  \E q \in Requests : /\ Device[q] = Device[s] /\ Process[q] # Process[s]
                                    /\ answer'[q] = "ok"
      <3>1. s # r /\ pc[s] = "inserting"
        BY <2>2, <2>3, <2>6
      <3>2. CASE Device[s] = Device[r]
        BY <2>1, <2>2, <3>1, <3>2
      <3>3. CASE Device[s] # Device[r]
        BY <1>t, <1>g, <2>4, <2>6, <3>1, <3>3
      <3> QED
        BY <3>2, <3>3
    <2>7. UserInv'
      BY <2>5, <2>6
    <2> QED
      BY <1>t, <1>g, <2>2, <2>3, <2>7
  <1>7. ASSUME NEW r \in Requests, AcceptUpload(r) PROVE Rest'
    BY <1>6, <1>7 DEF AcceptUpload
  <1>8. ASSUME NEW r \in Requests, AnswerRead(r) PROVE Rest'
    <2>1. CASE Kind[r] = "profile"
      BY <1>t, <1>6, <1>8, <2>1 DEF AnswerRead, LoopInv
    <2>2. CASE Kind[r] = "list"
      BY <1>t, <1>g, <1>8, <2>2 DEF TypeOK, AnswerRead
    <2> QED
      BY <1>8, <2>1, <2>2 DEF AnswerRead
  <1>9. CASE UNCHANGED vars
    BY <1>t, <1>9 DEF vars
  <1> QED
    BY <1>1, <1>2, <1>3, <1>4, <1>5, <1>7, <1>8, <1>9 DEF Next, Handler

\* A successful upload or profile leaves a committed user: the row that its handler
\* found or inserted outlives the upload's suspensions and other handlers' rollbacks.
THEOREM OkIsCommitted == Spec => []OkMeansCommitted
  <1>1. SessionInv => OkMeansCommitted
    BY DEF SessionInv
  <1> QED
    BY <1>1, SessionInit, SessionStep, PTL DEF Spec

\* Within one process a lost race for a users row is never answered with an error:
\* whoever waits for the row keeps the loop that its holder needs.
THEOREM ConflictsCrossProcesses == Spec => []ConflictOnlyAcrossProcesses
  <1>1. SessionInv => ConflictOnlyAcrossProcesses
    BY DEF SessionInv
  <1> QED
    BY <1>1, SessionInit, SessionStep, PTL DEF Spec

----------------------------------------------------------------------------
(***************************************************************************)
(* Uploads.                                                                *)
(***************************************************************************)

\* Whatever the size of an upload, at most one chunk beyond the limit is read.
THEOREM UploadsBounded == Spec => []UploadBounded
  <1>1. Init => UploadInv
    BY SessionTypeInit, LimitAssumption DEF Init, UploadInv, UploadBounded
  <1>2. UploadInv /\ [Next]_vars => UploadInv'
    <2> SUFFICES ASSUME UploadInv, [Next]_vars PROVE UploadBounded'
      BY SessionTypeStep DEF UploadInv
    <2> USE DeviceKnown, RequestAssumption, LimitAssumption
        DEF UploadInv, TypeOK, UploadBounded, Goto, Take, Yield, Leave, WithinLimit
    <2>1. ASSUME NEW r \in Requests, ReadChunk(r) PROVE UploadBounded'
      BY <2>1 DEF ReadChunk
    <2>2. ASSUME NEW r \in Requests, Handler(r), ~ReadChunk(r) PROVE UploadBounded'
      BY <2>2 DEF Handler, Start, FindUser, PoolTimeout, InsertUser, InsertConflict, AnswerRead,
         RefuseUpload, AdmitUpload, RejectUpload, AcceptUpload, HandOverClose, CloseSession
    <2>3. CASE UNCHANGED vars
      BY <2>3 DEF vars
    <2> QED
      BY <2>1, <2>2, <2>3 DEF Next
  <1>3. UploadInv => UploadBounded
    BY DEF UploadInv
  <1> QED
    BY <1>1, <1>2, <1>3, PTL DEF Spec
============================================================================
