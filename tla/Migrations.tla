----------------------------- MODULE Migrations -----------------------------
(***************************************************************************)
(* Alembic migrations run by API containers as they start, by an operator, *)
(* and by several of them at the same time, over databases of any age.     *)
(*                                                                         *)
(* A command runs the revisions between the version it reads and its       *)
(* target in one transaction: PostgreSQL rolls back DDL.  The index of one *)
(* active job per user was added to revision 0001 after databases had been *)
(* made with it, and revision 0003 catches up: those databases may have a  *)
(* user with two active jobs, and then its CREATE UNIQUE INDEX fails.      *)
(***************************************************************************)
EXTENDS Naturals, Sequences, FiniteSets

CONSTANTS
    Containers,   \* API containers with RUN_MIGRATIONS=1
    Operator,     \* someone who downgrades by hand
    Users,
    MaxDowngrades \* bound: how often

ASSUME RunnerAssumption == Operator \notin Containers
ASSUME BoundAssumption == MaxDowngrades \in Nat

Runners == Containers \cup {Operator}

VARIABLES
    version,    \* the row of alembic_version: 0 for none, 1 to 3
    schema,     \* names of the committed tables, indexes and foreign keys
    active,     \* active[u]: active jobs of user u
    plan,       \* plan[m]: the operations that m still has to execute
    from, to,   \* from[m], to[m]: the version m has read, and its target
    running,    \* runners inside a transaction
    created,    \* created[m]: what m has created and not committed
    dropped,    \* dropped[m]: what m has dropped and not committed
    serving,    \* containers that have gone on to the API
    downgrades  \* commands given by the operator

runnerVars == <<plan, from, to, running, created, dropped>>
vars == <<version, schema, active, plan, from, to, running, created, dropped,
          serving, downgrades>>

----------------------------------------------------------------------------
(***************************************************************************)
(* The revisions, as sequences of operations.  A table comes and goes with *)
(* its indexes.                                                            *)
(***************************************************************************)
OneActive == "uq_avatar_jobs_one_active_per_user"
JobsResult == "fk_avatar_jobs_result"

\* The indexes of a table, but for OneActive.
Indexes ==
  [ users |-> {},
    avatar_assets |-> {"ix_avatar_assets_type"},
    uploaded_images |->
      {"ix_uploaded_images_image_hash", "ix_uploaded_images_status",
       "ix_uploaded_images_user_id", "uq_uploaded_images_active_hash"},
    avatar_jobs |->
      {"ix_avatar_jobs_celery_task_id", "ix_avatar_jobs_heartbeat_at",
       "ix_avatar_jobs_image_id", "ix_avatar_jobs_status",
       "ix_avatar_jobs_user_id", "ix_avatar_jobs_worker_id"},
    avatar_results |->
      {"ix_avatar_results_image_id", "ix_avatar_results_job_id",
       "ix_avatar_results_status", "ix_avatar_results_user_id",
       "uq_avatar_results_active_version", "ix_avatar_results_result_json_gin"},
    avatar_artifacts |->
      {"ix_avatar_artifacts_artifact_type", "ix_avatar_artifacts_expires_at",
       "ix_avatar_artifacts_job_id"},
    outbox_events |->
      {"ix_outbox_events_event_type", "ix_outbox_events_locked_by",
       "ix_outbox_events_next_retry_at", "ix_outbox_events_status",
       "ix_outbox_events_dispatch"} ]

\* The tables that a table refers to, a foreign key ties or an index is on.
References ==
  [ x \in DOMAIN Indexes \cup {JobsResult, OneActive} |->
      CASE x = "uploaded_images" -> {"users"}
        [] x = "avatar_jobs" -> {"users", "uploaded_images"}
        [] x = "avatar_results" -> {"users", "uploaded_images", "avatar_jobs"}
        [] x = "avatar_artifacts" -> {"avatar_jobs"}
        [] x = JobsResult -> {"avatar_jobs", "avatar_results"}
        [] x = OneActive -> {"avatar_jobs"}
        [] OTHER -> {} ]

Op(kind, name, items) == [kind |-> kind, name |-> name, items |-> items]
Create(t) == Op("create", t, Indexes[t])
Drop(t) == Op("drop", t, Indexes[t])
\* 0001, whose avatar_jobs has the index since it was added there.
CreateJobs == Op("create", "avatar_jobs", Indexes["avatar_jobs"] \cup {OneActive})
DropJobs == Op("drop", "avatar_jobs", Indexes["avatar_jobs"] \cup {OneActive})

Upgrade1 == << Create("users"), Create("avatar_assets"), Create("uploaded_images"),
               CreateJobs, Create("avatar_results"), Op("create", JobsResult, {}),
               Create("avatar_artifacts") >>
Downgrade1 == << Drop("avatar_artifacts"), Op("drop", JobsResult, {}),
                 Drop("avatar_results"), DropJobs, Drop("uploaded_images"),
                 Drop("avatar_assets"), Drop("users") >>
Upgrade2 == << Create("outbox_events") >>
DowngradeNothing == <<>>   \* slip
Downgrade2 == << Drop("outbox_events") >>
UpgradeIndexAgain == << Op("create", OneActive, {}) >>   \* slip: without IF NOT EXISTS
Upgrade3 == << Op("create if not exists", OneActive, {}) >>
Downgrade3 == <<>>

Upgrades == << Upgrade1, Upgrade2, Upgrade3 >>
Downgrades == << Downgrade1, Downgrade2, Downgrade3 >>

\* The operations from version v to version n.
Path(v, n) ==
    LET Up(i) == IF v < i /\ i <= n THEN Upgrades[i] ELSE <<>>
        Down(i) == IF n < i /\ i <= v THEN Downgrades[i] ELSE <<>>
    IN  Up(1) \o Up(2) \o Up(3) \o Down(3) \o Down(2) \o Down(1)

\* The schema that the revisions up to v are meant to make.
Tables(v) == {t \in DOMAIN Indexes : IF t = "outbox_events" THEN v >= 2 ELSE v >= 1}
Schema(v) == (UNION {{t} \cup Indexes[t] : t \in Tables(v)})
               \cup (IF v >= 1 THEN {OneActive, JobsResult} ELSE {})

----------------------------------------------------------------------------
Duplicates == \E u \in Users : active[u] > 1

\* A fresh database, or one of an earlier release, with or without the index.
Init ==
    /\ version \in 0..2
    /\ \/ schema = Schema(version)
       \/ version > 0 /\ schema = Schema(version) \ {OneActive}
    /\ active \in [Users -> IF version = 0 THEN {0} ELSE 0..2]
    /\ OneActive \in schema => ~Duplicates
    /\ plan = [m \in Runners |-> <<>>]
    /\ from = [m \in Runners |-> 0] /\ to = [m \in Runners |-> 0]
    /\ running = {}
    /\ created = [m \in Runners |-> {}] /\ dropped = [m \in Runners |-> {}]
    /\ serving = {} /\ downgrades = 0

\* The transaction of m begins; it reads the version.
Begin(m, n) ==
    /\ m \notin running
    /\ running' = running \cup {m}
    /\ from' = [from EXCEPT ![m] = version] /\ to' = [to EXCEPT ![m] = n]
    /\ plan' = [plan EXCEPT ![m] = Path(version, n)]
    /\ UNCHANGED <<version, schema, active, created, dropped>>

\* alembic upgrade head, in the entrypoint of a container.
StartContainer(c) ==
    /\ c \notin serving /\ Begin(c, 3)
    /\ UNCHANGED <<serving, downgrades>>

\* alembic downgrade.
Downgrade ==
    /\ downgrades < MaxDowngrades
    /\ \E n \in 0..2 : n < version /\ Begin(Operator, n)
    /\ downgrades' = downgrades + 1
    /\ UNCHANGED serving

Visible(m) == (schema \ dropped[m]) \cup created[m]

\* What m has locked until its transaction ends: what it made or dropped, and the
\* tables at the other end.
Locked(m) ==
    LET changed == created[m] \cup dropped[m]
    IN  changed \cup UNION {References[x] : x \in changed \cap DOMAIN References}

\* An operation waits for the locks of another transaction on the tables it sees, and
\* a name that is being made for its maker.
MustWait(m, o) ==
    \E n \in running \ {m} :
        \/ o.kind = "drop" /\ o.name \in Visible(m) \cap Locked(n)
        \/ References[o.name] \cap Visible(m) \cap Locked(n) # {}
        \/ /\ o.kind # "drop" /\ o.name \in created[n] \ Visible(m)
           /\ References[o.name] \subseteq Visible(m)

\* What PostgreSQL refuses: a name that is taken, a table that is not there or is
\* referred to, an index that the rows do not satisfy.
Refuses(m, o) ==
    \/ o.kind = "create" /\ o.name \in Visible(m)
    \/ o.kind # "drop" /\ ~(References[o.name] \subseteq Visible(m))
    \/ /\ o.kind = "drop"
       /\ \/ ~({o.name} \cup o.items \subseteq Visible(m))
          \/ \E x \in (DOMAIN References \ {OneActive}) \cap Visible(m) : o.name \in References[x]
    \/ o.name = OneActive /\ OneActive \notin Visible(m) /\ Duplicates

Step(m) ==
    LET o == Head(plan[m])
        all == {o.name} \cup o.items
    IN
    /\ m \in running /\ plan[m] # <<>>
    /\ ~MustWait(m, o) /\ ~Refuses(m, o)
    /\ plan' = [plan EXCEPT ![m] = Tail(@)]
    /\ IF o.kind = "drop"
       THEN /\ dropped' = [dropped EXCEPT ![m] = @ \cup (all \cap schema)]
            /\ created' = [created EXCEPT ![m] = @ \ all]
       ELSE /\ created' = [created EXCEPT ![m] = @ \cup (all \ Visible(m))]
            /\ UNCHANGED dropped
    /\ UNCHANGED <<version, schema, active, from, to, running, serving, downgrades>>

EndWithoutRollback(m) ==   \* slip: one transaction per operation
    /\ running' = running \ {m}
    /\ plan' = [plan EXCEPT ![m] = <<>>]
    /\ from' = [from EXCEPT ![m] = 0] /\ to' = [to EXCEPT ![m] = 0]
    /\ UNCHANGED <<created, dropped>>
End(m) ==
    /\ running' = running \ {m}
    /\ plan' = [plan EXCEPT ![m] = <<>>]
    /\ created' = [created EXCEPT ![m] = {}]
    /\ dropped' = [dropped EXCEPT ![m] = {}]
    /\ from' = [from EXCEPT ![m] = 0] /\ to' = [to EXCEPT ![m] = 0]

\* The row of alembic_version is still the one that was read, or nothing is to be
\* done: the command commits, and a container serves.
Commit(m) ==
    /\ m \in running /\ plan[m] = <<>>
    /\ from[m] = version \/ from[m] = to[m]
    /\ IF from[m] = to[m]
       THEN UNCHANGED <<version, schema, active>>
       ELSE /\ version' = to[m]
            /\ schema' = Visible(m)
            /\ active' = [u \in Users |->
                            IF "avatar_jobs" \in Visible(m) THEN active[u] ELSE 0]
    /\ serving' = serving \cup ({m} \cap Containers)
    /\ End(m)
    /\ UNCHANGED downgrades

\* An operation or the update of alembic_version fails: rollback, and the container
\* exits and is restarted.
Fail(m) ==
    /\ m \in running
    /\ IF plan[m] = <<>> THEN from[m] # version /\ from[m] # to[m]
       ELSE ~MustWait(m, Head(plan[m])) /\ Refuses(m, Head(plan[m]))
    /\ End(m)
    /\ UNCHANGED <<version, schema, active, serving, downgrades>>

\* The API inserts an active job.  The locks of a migration hold writers off.
InsertActiveJob(u) ==
    /\ serving # {} /\ "avatar_jobs" \in schema
    /\ \A m \in running : "avatar_jobs" \notin Locked(m)
    /\ active[u] < IF OneActive \in schema THEN 1 ELSE 2
    /\ active' = [active EXCEPT ![u] = @ + 1]
    /\ UNCHANGED <<version, schema, runnerVars, serving, downgrades>>

\* A job ends, by its worker or by the watchdog.
EndActiveJob(u) ==
    /\ active[u] > 0
    /\ \A m \in running : "avatar_jobs" \notin Locked(m)
    /\ active' = [active EXCEPT ![u] = @ - 1]
    /\ UNCHANGED <<version, schema, runnerVars, serving, downgrades>>

Next == \/ \E c \in Containers : StartContainer(c)
        \/ Downgrade
        \/ \E m \in Runners : Step(m) \/ Commit(m) \/ Fail(m)
        \/ \E u \in Users : InsertActiveJob(u) \/ EndActiveJob(u)

Spec == Init /\ [][Next]_vars
\* Containers are restarted, commands go on, and active jobs end (JobLifecycle).
FairSpec ==
    /\ Spec
    /\ \A c \in Containers : WF_vars(StartContainer(c))
    /\ \A m \in Runners : WF_vars(Step(m) \/ Commit(m) \/ Fail(m))
    /\ \A u \in Users : SF_vars(EndActiveJob(u))

----------------------------------------------------------------------------
\* Every variable keeps its type, and a transaction that has ended left nothing.
TypeOK ==
    /\ version \in 0..3
    /\ schema \subseteq Schema(3)
    /\ active \in [Users -> 0..2]
    /\ from \in [Runners -> 0..3] /\ to \in [Runners -> 0..3]
    /\ running \subseteq Runners
    /\ created \in [Runners -> SUBSET Schema(3)]
    /\ dropped \in [Runners -> SUBSET Schema(3)]
    /\ \A m \in Runners : /\ created[m] \cap schema \subseteq dropped[m]
                          /\ m \notin running => created[m] \cup dropped[m] = {}
    /\ serving \subseteq Containers
    /\ downgrades \in 0..MaxDowngrades

\* The version says what is in the database, whoever migrated it up or down at the
\* same time and whatever failed: all that its revisions make and nothing else.
\* Only the late index may be missing, and not at the head, where a user has one
\* active job, also in a database that had more.
VersionTellsSchema ==
    /\ schema \cup {OneActive} = Schema(version) \cup {OneActive}
    /\ version = 3 => OneActive \in schema /\ ~Duplicates

\* Every container comes up: the one whose command lost a race, and one that finds a
\* database with two active jobs of a user, fail until it is their turn or the jobs
\* have ended.
ContainersComeUp == \A c \in Containers : <>(c \in serving)
=============================================================================
