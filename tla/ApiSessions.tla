---------------------------- MODULE ApiSessions ----------------------------
(***************************************************************************)
(* The request handlers of the API processes and their database sessions.  *)
(*                                                                         *)
(* Handlers are async functions on the one event loop of their process, but *)
(* they use a synchronous session: a statement that waits for a row or for *)
(* a connection keeps the whole process waiting.  A handler gives the loop *)
(* to others only while it reads an upload that is too large for memory,   *)
(* and between its return and the close of its session.  The first request *)
(* of a device inserts its users row, which stays uncommitted over both.   *)
(***************************************************************************)
EXTENDS Naturals, FiniteSets

CONSTANTS
    Requests, NoRequest,
    Process,    \* Process[r]: the API process that serves request r
    Device,     \* Device[r]: X-Device-Id, or the default device
    Kind,       \* Kind[r]: the endpoint; "other" ones look for no user
    Size,       \* Size[r]: megabytes of the uploaded image
    KnownFirst, \* the devices that have a users row from the start
    MaxSize,    \* max_image_size_mb
    PoolSize    \* connections a process may use at a time

Kinds == {"upload", "profile", "list", "other"}

ASSUME RequestAssumption == /\ NoRequest \notin Requests
                            /\ DOMAIN Process = Requests /\ DOMAIN Device = Requests
                            /\ Kind \in [Requests -> Kinds]
                            /\ Size \in [Requests -> Nat \ {0}]
ASSUME LimitAssumption == MaxSize \in Nat \ {0} /\ PoolSize \in Nat \ {0}

Processes == {Process[r] : r \in Requests}
Devices == {Device[r] : r \in Requests} \cup KnownFirst

VARIABLES
    pc,      \* pc[r]: where the handler of r stands
    thread,  \* thread[p]: the handler that p's event loop is executing
    known,   \* devices with a committed users row
    rowOf,   \* rowOf[d]: the request whose session inserted d's row, uncommitted
    got,     \* got[r]: megabytes of the upload read so far
    answer   \* answer[r]: how the handler of r ended

vars == <<pc, thread, known, rowOf, got, answer>>

Steps == {"sent", "connecting", "inserting", "found", "reading",
          "leaving", "closing", "done"}
InSession == {"inserting", "found", "reading", "leaving", "closing"}
InProgress == InSession \cup {"connecting"}
Answers == {"none", "ok", "refused", "conflict", "exhausted"}

Init == /\ pc = [r \in Requests |-> "sent"]
        /\ thread = [p \in Processes |-> NoRequest]
        /\ known = KnownFirst
        /\ rowOf = [d \in Devices |-> NoRequest]
        /\ got = [r \in Requests |-> 0]
        /\ answer = [r \in Requests |-> "none"]

OnLoop(r) == thread[Process[r]] = r
LoopFree(r) == thread[Process[r]] = NoRequest
\* Sessions that have a connection: one that timed out in the pool has none.
InUse(p) == {r \in Requests : /\ Process[r] = p /\ pc[r] \in InSession
                              /\ answer[r] # "exhausted"}

Goto(r, s) == pc' = [pc EXCEPT ![r] = s]
Take(r) == thread' = [thread EXCEPT ![Process[r]] = r]
Yield(r) == thread' = [thread EXCEPT ![Process[r]] = NoRequest]
\* slip: an exception that no handler turns into an answer
LeaveSilently(r, a) == /\ Goto(r, "leaving") /\ Yield(r)
                       /\ answer' = IF a = "conflict" THEN answer
                                    ELSE [answer EXCEPT ![r] = a]
\* The handler returns or raises; its session is still open.
Leave(r, a) == /\ Goto(r, "leaving") /\ Yield(r)
               /\ answer' = [answer EXCEPT ![r] = a]

----------------------------------------------------------------------------
Start(r) ==
    /\ pc[r] = "sent" /\ LoopFree(r)
    /\ Goto(r, "connecting") /\ Take(r)
    /\ UNCHANGED <<known, rowOf, got, answer>>

\* slip: the row is not looked up first
FindNothing(r) ==
    /\ pc[r] = "connecting"
    /\ Cardinality(InUse(Process[r])) < PoolSize
    /\ Goto(r, "inserting") /\ UNCHANGED <<thread, answer>>
    /\ UNCHANGED <<known, rowOf, got>>
\* The first statement takes a connection: SELECT of the user by device_id, or of
\* the job or result an endpoint without a user is about.
FindUser(r) ==
    /\ pc[r] = "connecting"
    /\ Cardinality(InUse(Process[r])) < PoolSize
    /\ IF Kind[r] = "other"
       THEN Leave(r, "ok")
       ELSE /\ Goto(r, IF Device[r] \in known THEN "found" ELSE "inserting")
            /\ UNCHANGED <<thread, answer>>
    /\ UNCHANGED <<known, rowOf, got>>

\* The pool gives up after its timeout.
PoolTimeout(r) ==
    /\ pc[r] = "connecting"
    /\ Cardinality(InUse(Process[r])) >= PoolSize
    /\ Leave(r, "exhausted")
    /\ UNCHANGED <<known, rowOf, got>>

\* INSERT of the users row, flushed: it waits while another session has inserted
\* the device and is not committed.
InsertUser(r) ==
    /\ pc[r] = "inserting"
    /\ rowOf[Device[r]] = NoRequest /\ Device[r] \notin known
    /\ rowOf' = [rowOf EXCEPT ![Device[r]] = r]
    /\ Goto(r, "found")
    /\ UNCHANGED <<thread, known, got, answer>>

\* That session committed: IntegrityError outside the try block of create_job.
InsertConflict(r) ==
    /\ pc[r] = "inserting"
    /\ rowOf[Device[r]] = NoRequest /\ Device[r] \in known
    /\ Leave(r, "conflict")
    /\ UNCHANGED <<known, rowOf, got>>

\* What the session of r has inserted: the row is committed, or there was none.
Commit(r) ==
    /\ known' = IF rowOf[Device[r]] = r THEN known \cup {Device[r]} ELSE known
    /\ rowOf' = [rowOf EXCEPT ![Device[r]] = IF @ = r THEN NoRequest ELSE @]

\* GET /users/me commits; GET /avatar-results does not.
AnswerRead(r) ==
    /\ pc[r] = "found" /\ Kind[r] \in {"profile", "list"}
    /\ Leave(r, "ok")
    /\ IF Kind[r] = "profile" THEN Commit(r) ELSE UNCHANGED <<known, rowOf>>
    /\ UNCHANGED got

\* Refused before the upload is read: no admission, an active job, the extension.
RefuseUpload(r) ==
    /\ pc[r] = "found" /\ Kind[r] = "upload"
    /\ Leave(r, "refused")
    /\ UNCHANGED <<known, rowOf, got>>

\* Of a user's uploads one at a time is admitted.
AdmitUpload(r) ==
    /\ pc[r] = "found" /\ Kind[r] = "upload"
    /\ \A s \in Requests : pc[s] = "reading" => Device[s] # Device[r]
    /\ Goto(r, "reading")
    /\ IF Size[r] > 1 THEN Yield(r) ELSE UNCHANGED thread
    /\ UNCHANGED <<known, rowOf, got, answer>>

\* slip: the size is compared with the limit after the loop
WithinLimitSoFar(r) == got[r] < Size[r]
WithinLimit(r) == got[r] <= MaxSize

\* A chunk of an upload is read and spooled.  Uploads of one megabyte are in
\* memory, so that their handler keeps the loop.
ReadChunk(r) ==
    /\ pc[r] = "reading" /\ (OnLoop(r) \/ LoopFree(r))
    /\ got[r] < Size[r] /\ WithinLimit(r)
    /\ got' = [got EXCEPT ![r] = @ + 1]
    /\ UNCHANGED <<pc, thread, known, rowOf, answer>>

\* Too large, unreadable, its dimensions too high, or it cannot be stored.
RejectUpload(r) ==
    /\ pc[r] = "reading" /\ (OnLoop(r) \/ LoopFree(r))
    /\ ~WithinLimit(r) \/ got[r] = Size[r]
    /\ Leave(r, "refused")
    /\ UNCHANGED <<known, rowOf, got>>

\* Validated, stored, inserted and committed without leaving the loop.
AcceptUpload(r) ==
    /\ pc[r] = "reading" /\ (OnLoop(r) \/ LoopFree(r))
    /\ WithinLimit(r) /\ got[r] = Size[r]
    /\ Leave(r, "ok")
    /\ Commit(r)
    /\ UNCHANGED got

\* The exit of get_db_session is handed to a thread by the event loop ...
HandOverClose(r) ==
    /\ pc[r] = "leaving" /\ LoopFree(r)
    /\ Goto(r, "closing")
    /\ UNCHANGED <<thread, known, rowOf, got, answer>>

\* slip: the session goes back to no pool and is never rolled back
CloseNothing(r) ==
    /\ pc[r] = "closing"
    /\ Goto(r, "done")
    /\ UNCHANGED <<thread, known, rowOf, got, answer>>
\* slip: the handlers of a process share a session
CloseSharedSession(r) ==
    /\ pc[r] = "closing"
    /\ Goto(r, "done")
    /\ rowOf' = [d \in Devices |->
                   IF rowOf[d] \in {s \in Requests : Process[s] = Process[r]}
                   THEN NoRequest ELSE rowOf[d]]
    /\ UNCHANGED <<thread, known, got, answer>>
\* ... which needs no loop: what was not committed is rolled back.
CloseSession(r) ==
    /\ pc[r] = "closing"
    /\ Goto(r, "done")
    /\ rowOf' = [rowOf EXCEPT ![Device[r]] = IF @ = r THEN NoRequest ELSE @]
    /\ UNCHANGED <<thread, known, got, answer>>

Handler(r) == \/ Start(r) \/ FindUser(r) \/ PoolTimeout(r)
              \/ InsertUser(r) \/ InsertConflict(r)
              \/ AnswerRead(r) \/ RefuseUpload(r) \/ AdmitUpload(r)
              \/ ReadChunk(r) \/ RejectUpload(r) \/ AcceptUpload(r)
              \/ HandOverClose(r) \/ CloseSession(r)

Next == \E r \in Requests : Handler(r)

Spec == Init /\ [][Next]_vars
\* The loop runs what is ready, reads end, PostgreSQL and the pool answer.  The loop
\* may serve others first; there are finitely many.
FairSpec == Spec /\ \A r \in Requests : WF_vars(Handler(r))

----------------------------------------------------------------------------
\* Every variable keeps its type, and a handler that has ended has answered.
TypeOK ==
    /\ pc \in [Requests -> Steps]
    /\ thread \in [Processes -> Requests \cup {NoRequest}]
    /\ known \in SUBSET Devices
    /\ rowOf \in [Devices -> Requests \cup {NoRequest}]
    /\ got \in [Requests -> Nat]
    /\ answer \in [Requests -> Answers]
    /\ \A r \in Requests :
         answer[r] # "none" <=> pc[r] \in {"leaving", "closing", "done"}

\* A handler that answered an upload or a profile with success has left a committed
\* user: the row it found was committed, or the one it inserted before it read the
\* upload was still its own at its commit, whichever handlers have returned, been
\* rolled back and closed meanwhile.
OkMeansCommitted ==
    \A r \in Requests : answer[r] = "ok" /\ Kind[r] \in {"upload", "profile"}
                        => Device[r] \in known

\* The error 500 of a lost race for a device's row is caused by a request in
\* another process that made the user: within one process the loser blocks the
\* winner instead (get_or_create_by_device_id on one event loop).
ConflictOnlyAcrossProcesses ==
    \A r \in Requests : answer[r] = "conflict" =>
        \E s \in Requests : /\ Device[s] = Device[r] /\ Process[s] # Process[r]
                            /\ answer[s] = "ok"

\* However large an upload, at most one chunk beyond the limit is read and
\* spooled, and nothing above the limit is accepted.
UploadBounded ==
    \A r \in Requests : /\ got[r] <= MaxSize + 1
                        /\ answer[r] = "ok" /\ Kind[r] = "upload" => got[r] <= MaxSize

\* Two requests in progress need the users row of a device that has none.
FirstRequestsOverlap ==
    \E r, s \in Requests : /\ r # s /\ Device[r] = Device[s]
                           /\ Device[r] \notin known
                           /\ pc[r] \in InProgress /\ pc[s] \in InProgress
                           /\ Kind[r] # "other" /\ Kind[s] # "other"

\* As long as the first requests of a device do not overlap, every request is
\* answered and its session closed: full pools, suspended uploads, rejected users and
\* other processes delay it, no more.
AnsweredUnlessFirstRequestsOverlap ==
    [](~FirstRequestsOverlap) => \A r \in Requests : <>(pc[r] = "done")

(***************************************************************************)
(* The inductive invariants behind them (proved in ApiSessionsProofs).     *)
(***************************************************************************)

\* A handler in the middle of its statements is what its process executes.
LoopInv == \A r \in Requests : pc[r] \in {"connecting", "inserting", "found"} => OnLoop(r)

\* The user of a handler that is past the lookup is its own uncommitted row or
\* a committed one; a device that was committed while r waited to insert it was
\* committed in another process.
UserInv ==
    \A r \in Requests :
      /\ pc[r] \in {"found", "reading"} => Device[r] \in known \/ rowOf[Device[r]] = r
      /\ pc[r] = "inserting" /\ Device[r] \in known =>
           \E s \in Requests : /\ Device[s] = Device[r] /\ Process[s] # Process[r]
                              /\ answer[s] = "ok"

SessionInv == TypeOK /\ LoopInv /\ UserInv /\ OkMeansCommitted
              /\ ConflictOnlyAcrossProcesses

UploadInv == TypeOK /\ UploadBounded

\* README.md, concurrency: "different users can submit jobs concurrently": the
\* request of a user is answered whatever other users send.
UsersServed == \A r \in Requests : <>(pc[r] = "done")
============================================================================
