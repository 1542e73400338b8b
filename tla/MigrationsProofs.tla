-------------------------- MODULE MigrationsProofs --------------------------
(***************************************************************************)
(* Proofs about Migrations, for any containers, users and number of        *)
(* downgrades: whoever runs the revisions at the same time, the version    *)
(* tells the schema.                                                       *)
(***************************************************************************)
EXTENDS Migrations, TLAPS

----------------------------------------------------------------------------
(***************************************************************************)
(* The revisions: what their operations make or drop, and what a path of   *)
(* them comes to.                                                          *)
(***************************************************************************)

\* What an operation, and the operations of a plan, make or drop.
All(o) == {o.name} \cup o.items
Items(s) == UNION {All(s[i]) : i \in DOMAIN s}
\* Equal but for the late index.
Alike(S, T) == S \cup {OneActive} = T \cup {OneActive}
\* No index is there without its table.
Closed(S) == \A t \in DOMAIN Indexes : \A x \in Indexes[t] : x \in S => t \in S

\* The operations of the revisions.
UpgradeOps == {Create(t) : t \in DOMAIN Indexes \ {"avatar_jobs"}}
                 \cup {CreateJobs, Op("create", JobsResult, {}),
                       Op("create if not exists", OneActive, {})}
DowngradeOps == {Drop(t) : t \in DOMAIN Indexes \ {"avatar_jobs"}}
                 \cup {DropJobs, Op("drop", JobsResult, {})}

\* An index is on one table, and nothing else has its name.
LEMMA IndexNames ==
    /\ DOMAIN Indexes = {"users", "avatar_assets", "uploaded_images", "avatar_jobs",
                         "avatar_results", "avatar_artifacts", "outbox_events"}
    /\ \A t \in DOMAIN Indexes : \A x \in Indexes[t] :
         /\ x \notin DOMAIN Indexes \cup {OneActive, JobsResult}
         /\ \A s \in DOMAIN Indexes : x \in Indexes[s] => s = t
    /\ {OneActive, JobsResult} \cap DOMAIN Indexes = {} /\ OneActive # JobsResult
BY DEF Indexes, OneActive, JobsResult

LEMMA NamesApart ==
    /\ \A t \in DOMAIN Indexes : \A x \in Indexes[t] :
         /\ x \notin DOMAIN Indexes /\ x # OneActive /\ x # JobsResult
         /\ \A s \in DOMAIN Indexes : x \in Indexes[s] => s = t
    /\ OneActive \notin DOMAIN Indexes /\ JobsResult \notin DOMAIN Indexes
    /\ OneActive # JobsResult
BY IndexNames

\* The operations of a plan are that of its head and those of its tail.
LEMMA ItemsOfTail ==
    ASSUME NEW S, NEW s \in Seq(S), s # <<>>
    PROVE  /\ Head(s) \in S /\ Tail(s) \in Seq(S)
           /\ Items(s) = All(Head(s)) \cup Items(Tail(s))
<1>1. Head(s) \in S /\ Tail(s) \in Seq(S)  OBVIOUS
<1>2. s[1] = Head(s) /\ 1 \in DOMAIN s  OBVIOUS
<1>3. \A i \in DOMAIN Tail(s) : i + 1 \in DOMAIN s /\ Tail(s)[i] = s[i + 1]  OBVIOUS
<1>4. \A i \in DOMAIN s \ {1} : i - 1 \in DOMAIN Tail(s) /\ Tail(s)[i - 1] = s[i]  OBVIOUS
<1>5. ASSUME NEW x PROVE x \in Items(s) <=> x \in All(Head(s)) \cup Items(Tail(s))
  BY <1>2, <1>3, <1>4 DEF Items
<1> QED  BY <1>1, <1>5

LEMMA ItemsOfConcat ==
    ASSUME NEW S, NEW a \in Seq(S), NEW b \in Seq(S)
    PROVE  a \o b \in Seq(S) /\ Items(a \o b) = Items(a) \cup Items(b)
<1>1. a \o b \in Seq(S)  OBVIOUS
<1>2. \A i \in DOMAIN a : i \in DOMAIN (a \o b) /\ (a \o b)[i] = a[i]  OBVIOUS
<1>3. \A i \in DOMAIN b : i + Len(a) \in DOMAIN (a \o b) /\ (a \o b)[i + Len(a)] = b[i]
  OBVIOUS
<1>4. \A i \in DOMAIN (a \o b) :
         \/ i \in DOMAIN a /\ (a \o b)[i] = a[i]
         \/ i - Len(a) \in DOMAIN b /\ (a \o b)[i] = b[i - Len(a)]
  OBVIOUS
<1>5. ASSUME NEW x PROVE x \in Items(a \o b) <=> x \in Items(a) \cup Items(b)
  BY <1>2, <1>3, <1>4 DEF Items
<1> QED  BY <1>1, <1>5

LEMMA ItemsOfNothing == Items(<<>>) = {}
BY DEF Items

\* What the first revision makes is what it drops.
LEMMA FirstRevision ==
    /\ Upgrade1 \in Seq(UpgradeOps) /\ Downgrade1 \in Seq(DowngradeOps)
    /\ Items(Upgrade1) = Schema(1) /\ Items(Downgrade1) = Schema(1)
<1>1. Upgrade1 \in Seq(UpgradeOps)
  <2>1. /\ {Create("users"), Create("avatar_assets"), Create("uploaded_images"),
            Create("avatar_results"), Create("avatar_artifacts")} \subseteq UpgradeOps
        /\ CreateJobs \in UpgradeOps /\ Op("create", JobsResult, {}) \in UpgradeOps
    BY IndexNames DEF UpgradeOps
  <2> QED  BY <2>1 DEF Upgrade1
<1>2. Downgrade1 \in Seq(DowngradeOps)
  BY IndexNames DEF Downgrade1, DowngradeOps
<1>3. Tables(1) = DOMAIN Indexes \ {"outbox_events"}
  BY DEF Tables
<1>4. Schema(1) = (UNION {{t} \cup Indexes[t] : t \in DOMAIN Indexes \ {"outbox_events"}})
                    \cup {OneActive, JobsResult}
  BY <1>3 DEF Schema
<1> DEFINE N(t) == {t} \cup Indexes[t]
           All6 == UNION {N(t) : t \in DOMAIN Indexes \ {"outbox_events"}}
<1>5. Schema(1) = N("users") \cup N("avatar_assets") \cup N("uploaded_images")
                    \cup N("avatar_jobs") \cup N("avatar_results")
                    \cup N("avatar_artifacts") \cup {OneActive, JobsResult}
  <2>1. DOMAIN Indexes \ {"outbox_events"} =
          {"users", "avatar_assets", "uploaded_images", "avatar_jobs",
           "avatar_results", "avatar_artifacts"}
    BY IndexNames
  <2>2. Schema(1) = All6 \cup {OneActive, JobsResult}
    BY <1>4
  <2> HIDE DEF N
  <2>3. All6 = N("users") \cup N("avatar_assets") \cup N("uploaded_images")
              \cup N("avatar_jobs") \cup N("avatar_results") \cup N("avatar_artifacts")
    BY <2>1
  <2> HIDE DEF All6
  <2> QED  BY <2>2, <2>3
<1>6. Items(Upgrade1) = All(Create("users")) \cup All(Create("avatar_assets"))
                    \cup All(Create("uploaded_images"))
                    \cup All(CreateJobs) \cup All(Create("avatar_results"))
                    \cup All(Op("create", JobsResult, {}))
                    \cup All(Create("avatar_artifacts"))
  <2>1. DOMAIN Upgrade1 = {1, 2, 3, 4, 5, 6, 7}  BY DEF Upgrade1
  <2> QED  BY <2>1 DEF Items, Upgrade1
<1>7. Items(Downgrade1) = All(Drop("users")) \cup All(Drop("avatar_assets"))
                    \cup All(Drop("uploaded_images"))
                    \cup All(DropJobs) \cup All(Drop("avatar_results"))
                    \cup All(Op("drop", JobsResult, {}))
                    \cup All(Drop("avatar_artifacts"))
  <2>1. DOMAIN Downgrade1 = {1, 2, 3, 4, 5, 6, 7}  BY DEF Downgrade1
  <2> QED  BY <2>1 DEF Items, Downgrade1
<1>8. Items(Upgrade1) = Schema(1)
  BY <1>5, <1>6 DEF All, Create, CreateJobs, Op
<1>9. Items(Downgrade1) = Schema(1)
  BY <1>5, <1>7 DEF All, Drop, DropJobs, Op
<1> QED  BY <1>1, <1>2, <1>8, <1>9

\* The second has the outbox, the third the late index.
LEMMA LaterRevisions ==
    /\ Upgrade2 \in Seq(UpgradeOps) /\ Upgrade3 \in Seq(UpgradeOps)
    /\ Downgrade2 \in Seq(DowngradeOps) /\ Downgrade3 \in Seq(DowngradeOps)
    /\ Items(Upgrade2) = {"outbox_events"} \cup Indexes["outbox_events"]
    /\ Items(Downgrade2) = Items(Upgrade2)
    /\ Items(Upgrade3) = {OneActive} /\ Items(Downgrade3) = {}
<1>1. Upgrade2 \in Seq(UpgradeOps) /\ Upgrade3 \in Seq(UpgradeOps)
  <2>1. /\ Create("outbox_events") \in UpgradeOps
        /\ Op("create if not exists", OneActive, {}) \in UpgradeOps
    BY IndexNames DEF UpgradeOps
  <2>2. \A o \in UpgradeOps : <<o>> \in Seq(UpgradeOps)  OBVIOUS
  <2> QED  BY <2>1, <2>2 DEF Upgrade2, Upgrade3
<1>2. Downgrade2 \in Seq(DowngradeOps) /\ Downgrade3 \in Seq(DowngradeOps)
  BY IndexNames DEF Downgrade2, Downgrade3, DowngradeOps
<1>3. Items(Upgrade2) = {"outbox_events"} \cup Indexes["outbox_events"]
  BY DEF Items, All, Upgrade2, Create, Op
<1>4. Items(Downgrade2) = {"outbox_events"} \cup Indexes["outbox_events"]
  BY DEF Items, All, Downgrade2, Drop, Op
<1>5. Items(Upgrade3) = {OneActive}
  <2>1. All(Op("create if not exists", OneActive, {})) = {OneActive}  BY DEF All, Op
  <2>2. \A o : Items(<<o>>) = All(o)  BY DEF Items
  <2> QED  BY <2>1, <2>2 DEF Upgrade3
<1>6. Items(Downgrade3) = {}
  BY DEF Items, Downgrade3
<1> QED  BY <1>1, <1>2, <1>3, <1>4, <1>5, <1>6

\* The schemas of the versions: nothing, the base, and the base with the outbox.
LEMMA Schemas ==
    /\ Schema(0) = {}
    /\ Schema(2) = Schema(1) \cup Items(Upgrade2) /\ Schema(3) = Schema(2)
    /\ Schema(1) \cap Items(Upgrade2) = {}
    /\ {"avatar_jobs", OneActive, JobsResult} \subseteq Schema(1)
    /\ \A v \in 0..3 : /\ Closed(Schema(v)) /\ Schema(v) \subseteq Schema(3)
                       /\ Closed(Schema(v) \ {OneActive})
<1>1. Tables(0) = {} /\ Tables(1) = DOMAIN Indexes \ {"outbox_events"}
        /\ Tables(2) = DOMAIN Indexes /\ Tables(3) = DOMAIN Indexes
  BY DEF Tables
<1>2. Schema(0) = {}
  BY <1>1 DEF Schema
<1>3. Schema(3) = Schema(2)
  BY <1>1 DEF Schema
<1>4. \A v \in 0..3 : \A x : x \in Schema(v) <=>
         \/ x \in Tables(v)
         \/ \E t \in Tables(v) : x \in Indexes[t]
         \/ v >= 1 /\ x \in {OneActive, JobsResult}
  BY DEF Schema
<1>5. "outbox_events" \in DOMAIN Indexes /\ "avatar_jobs" \in DOMAIN Indexes
  BY IndexNames
<1>6. Schema(2) = Schema(1) \cup {"outbox_events"} \cup Indexes["outbox_events"]
  <2>1. ASSUME NEW x
        PROVE  x \in Schema(2) <=>
                 x \in Schema(1) \cup {"outbox_events"} \cup Indexes["outbox_events"]
    BY <1>1, <1>4, <1>5
  <2> QED  BY <2>1
<1>7. Schema(1) \cap ({"outbox_events"} \cup Indexes["outbox_events"]) = {}
  BY <1>1, <1>4, <1>5, NamesApart
<1>8. {"avatar_jobs", OneActive, JobsResult} \subseteq Schema(1)
  BY <1>1, <1>4, <1>5
<1>9. ASSUME NEW v \in 0..3
      PROVE  Closed(Schema(v)) /\ Closed(Schema(v) \ {OneActive})
  <2>1. Tables(v) \subseteq DOMAIN Indexes  BY DEF Tables
  <2>2. ASSUME NEW t \in DOMAIN Indexes, NEW x \in Indexes[t], x \in Schema(v)
        PROVE  t \in Schema(v) \ {OneActive}
    <3>1. \E s \in Tables(v) : x \in Indexes[s]
      BY <1>4, <2>1, <2>2, NamesApart
    <3>2. t \in Tables(v) /\ t # OneActive
      BY <3>1, <2>1, NamesApart
    <3> QED  BY <3>2, <1>4
  <2> QED  BY <2>2 DEF Closed
<1>10. \A v \in 0..3 : Schema(v) \subseteq Schema(3)
  BY <1>2, <1>3, <1>6
<1> QED  BY <1>2, <1>3, <1>6, <1>7, <1>8, <1>9, <1>10, LaterRevisions

LEMMA ItemsOfSix ==
    ASSUME NEW S, NEW a \in Seq(S), NEW b \in Seq(S), NEW c \in Seq(S),
           NEW d \in Seq(S), NEW e \in Seq(S), NEW g \in Seq(S)
    PROVE  /\ a \o b \o c \o d \o e \o g \in Seq(S)
           /\ Items(a \o b \o c \o d \o e \o g)
                = Items(a) \cup Items(b) \cup Items(c) \cup Items(d) \cup Items(e) \cup Items(g)
<1> DEFINE p == a \o b
           q == p \o c
           r == q \o d
           t == r \o e
<1>1. p \in Seq(S) /\ Items(p) = Items(a) \cup Items(b)
  BY ItemsOfConcat
<1> HIDE DEF p
<1>2. q \in Seq(S) /\ Items(q) = Items(p) \cup Items(c)
  BY <1>1, ItemsOfConcat
<1> HIDE DEF q
<1>3. r \in Seq(S) /\ Items(r) = Items(q) \cup Items(d)
  BY <1>2, ItemsOfConcat
<1> HIDE DEF r
<1>4. t \in Seq(S) /\ Items(t) = Items(r) \cup Items(e)
  BY <1>3, ItemsOfConcat
<1> HIDE DEF t
<1>5. t \o g \in Seq(S) /\ Items(t \o g) = Items(t) \cup Items(g)
  BY <1>4, ItemsOfConcat
<1>6. /\ t \o g \in Seq(S)
      /\ Items(t \o g) = Items(a) \cup Items(b) \cup Items(c) \cup Items(d)
                           \cup Items(e) \cup Items(g)
  BY <1>1, <1>2, <1>3, <1>4, <1>5
<1> USE DEF p, q, r, t
<1> QED  BY <1>6

\* An upgrade makes what the version it starts from lacks, and the late index is among
\* that where a database with the base may be without it.
LEMMA UpgradePath ==
    ASSUME NEW v \in 0..3
    PROVE  /\ Path(v, 3) \in Seq(UpgradeOps)
           /\ Alike(Items(Path(v, 3)), Schema(3) \ Schema(v))
           /\ v = 3 => Path(v, 3) = <<>>
           /\ v \in 1..2 => OneActive \in Items(Path(v, 3))
<1> DEFINE Up(i) == IF v < i /\ i <= 3 THEN Upgrades[i] ELSE <<>>
           Down(i) == IF 3 < i /\ i <= v THEN Downgrades[i] ELSE <<>>
<1>1. /\ Upgrades[1] = Upgrade1 /\ Upgrades[2] = Upgrade2 /\ Upgrades[3] = Upgrade3
      /\ <<>> \in Seq(UpgradeOps)
  BY DEF Upgrades
<1>2. /\ Up(1) \in Seq(UpgradeOps) /\ Up(2) \in Seq(UpgradeOps) /\ Up(3) \in Seq(UpgradeOps)
      /\ Down(1) = <<>> /\ Down(2) = <<>> /\ Down(3) = <<>>
  BY <1>1, FirstRevision, LaterRevisions
<1>3. /\ Up(1) = IF v < 1 THEN Upgrade1 ELSE <<>>
      /\ Up(2) = IF v < 2 THEN Upgrade2 ELSE <<>>
      /\ Up(3) = IF v < 3 THEN Upgrade3 ELSE <<>>
  BY <1>1
<1>4. Path(v, 3) = Up(1) \o Up(2) \o Up(3) \o Down(3) \o Down(2) \o Down(1)
  BY DEF Path
<1> HIDE DEF Up, Down
<1>5. /\ Items(Up(1)) = IF v < 1 THEN Schema(1) ELSE {}
      /\ Items(Up(2)) = IF v < 2 THEN Items(Upgrade2) ELSE {}
      /\ Items(Up(3)) = IF v < 3 THEN {OneActive} ELSE {}
  BY <1>3, FirstRevision, LaterRevisions, ItemsOfNothing
<1>6. /\ Path(v, 3) \in Seq(UpgradeOps)
      /\ Items(Path(v, 3)) = Items(Up(1)) \cup Items(Up(2)) \cup Items(Up(3))
  <2>1. /\ Path(v, 3) \in Seq(UpgradeOps)
        /\ Items(Path(v, 3)) = Items(Up(1)) \cup Items(Up(2)) \cup Items(Up(3))
                   \cup Items(Down(3)) \cup Items(Down(2)) \cup Items(Down(1))
    <3>1. Down(1) \in Seq(UpgradeOps) /\ Down(2) \in Seq(UpgradeOps)
            /\ Down(3) \in Seq(UpgradeOps)
      BY <1>1, <1>2
    <3>2. Up(1) \in Seq(UpgradeOps) /\ Up(2) \in Seq(UpgradeOps)
            /\ Up(3) \in Seq(UpgradeOps)
      BY <1>2
    <3> DEFINE P == Up(1) \o Up(2) \o Up(3) \o Down(3) \o Down(2) \o Down(1)
    <3>3. /\ P \in Seq(UpgradeOps)
          /\ Items(P) = Items(Up(1)) \cup Items(Up(2)) \cup Items(Up(3))
                          \cup Items(Down(3)) \cup Items(Down(2)) \cup Items(Down(1))
      BY <3>1, <3>2, ItemsOfSix, SMTT(60)
    <3>4. Path(v, 3) = P  BY <1>4
    <3> HIDE DEF P
    <3> QED  BY <3>3, <3>4
  <2> QED  BY <2>1, <1>2, ItemsOfNothing
<1>7. v = 3 => Path(v, 3) = <<>>
  BY <1>2, <1>3, <1>4
<1>8. Alike(Items(Path(v, 3)), Schema(3) \ Schema(v))
  <2>1. CASE v = 0  BY <2>1, <1>5, <1>6, Schemas DEF Alike
  <2>2. CASE v = 1  BY <2>2, <1>5, <1>6, Schemas DEF Alike
  <2>3. CASE v = 2  BY <2>3, <1>5, <1>6, Schemas DEF Alike
  <2>4. CASE v = 3  BY <2>4, <1>5, <1>6, Schemas DEF Alike
  <2> QED  BY <2>1, <2>2, <2>3, <2>4
<1>9. v \in 1..2 => OneActive \in Items(Path(v, 3))
  BY <1>5, <1>6
<1> QED  BY <1>6, <1>7, <1>8, <1>9

\* A downgrade drops what its target lacks.
LEMMA DowngradePath ==
    ASSUME NEW v \in 0..3, NEW n \in 0..2, n < v
    PROVE  /\ Path(v, n) \in Seq(DowngradeOps)
           /\ Alike(Items(Path(v, n)), Schema(v) \ Schema(n))
<1> DEFINE Up(i) == IF v < i /\ i <= n THEN Upgrades[i] ELSE <<>>
           Down(i) == IF n < i /\ i <= v THEN Downgrades[i] ELSE <<>>
<1>1. /\ Downgrades[1] = Downgrade1 /\ Downgrades[2] = Downgrade2
      /\ Downgrades[3] = Downgrade3 /\ <<>> \in Seq(DowngradeOps)
  BY DEF Downgrades
<1>2. /\ Down(1) \in Seq(DowngradeOps) /\ Down(2) \in Seq(DowngradeOps)
      /\ Down(3) \in Seq(DowngradeOps)
      /\ Up(1) = <<>> /\ Up(2) = <<>> /\ Up(3) = <<>>
  BY <1>1, FirstRevision, LaterRevisions
<1>3. /\ Down(1) = IF n < 1 THEN Downgrade1 ELSE <<>>
      /\ Down(2) = IF n < 2 /\ 2 <= v THEN Downgrade2 ELSE <<>>
      /\ Down(3) = IF 3 <= v THEN Downgrade3 ELSE <<>>
  BY <1>1
<1>4. Path(v, n) = Up(1) \o Up(2) \o Up(3) \o Down(3) \o Down(2) \o Down(1)
  BY DEF Path
<1> HIDE DEF Up, Down
<1>5. /\ Items(Down(1)) = IF n < 1 THEN Schema(1) ELSE {}
      /\ Items(Down(2)) = IF n < 2 /\ 2 <= v THEN Items(Upgrade2) ELSE {}
      /\ Items(Down(3)) = {}
  BY <1>3, FirstRevision, LaterRevisions, ItemsOfNothing
<1>6. /\ Path(v, n) \in Seq(DowngradeOps)
      /\ Items(Path(v, n)) = Items(Down(1)) \cup Items(Down(2))
  <2>1. /\ Path(v, n) \in Seq(DowngradeOps)
        /\ Items(Path(v, n)) = Items(Up(1)) \cup Items(Up(2)) \cup Items(Up(3))
                   \cup Items(Down(3)) \cup Items(Down(2)) \cup Items(Down(1))
    <3>1. Up(1) \in Seq(DowngradeOps) /\ Up(2) \in Seq(DowngradeOps)
            /\ Up(3) \in Seq(DowngradeOps)
      BY <1>1, <1>2
    <3> QED  BY <3>1, <1>2, <1>4, ItemsOfSix
  <2> QED  BY <2>1, <1>2, <1>5, ItemsOfNothing
<1>7. Alike(Items(Path(v, n)), Schema(v) \ Schema(n))
  <2>1. CASE n = 0 /\ v = 1  BY <2>1, <1>5, <1>6, Schemas DEF Alike
  <2>2. CASE n = 0 /\ v \in 2..3  BY <2>2, <1>5, <1>6, Schemas DEF Alike
  <2>3. CASE n = 1  BY <2>3, <1>5, <1>6, Schemas DEF Alike
  <2>4. CASE n = 2  BY <2>4, <1>5, <1>6, Schemas DEF Alike
  <2> QED  BY <2>1, <2>2, <2>3, <2>4
<1> QED  BY <1>6, <1>7

\* The names an index or a foreign key needs.
LEMMA ReferencesOf ==
    /\ DOMAIN References = DOMAIN Indexes \cup {JobsResult, OneActive}
    /\ References[OneActive] = {"avatar_jobs"}
BY IndexNames DEF References, OneActive, JobsResult

\* An operation makes one table with its indexes, and the late index with avatar_jobs;
\* or something that has no indexes.
LEMMA UpgradeOpsMake ==
    ASSUME NEW o \in UpgradeOps
    PROVE  /\ o.kind # "drop" /\ o.name \in DOMAIN References
           /\ All(o) \subseteq Schema(3)
           /\ o.kind = "create" \/ All(o) = {OneActive}
           /\ o.name = OneActive => All(o) = {OneActive}
           /\ o.name = "avatar_jobs" => OneActive \in All(o)
           /\ \A t \in DOMAIN Indexes : o.name \notin Indexes[t]
           /\ \A x \in o.items :
                \/ o.name \in DOMAIN Indexes /\ x \in Indexes[o.name]
                \/ x = OneActive /\ o.name = "avatar_jobs"
<1>1. "avatar_jobs" \in DOMAIN Indexes /\ "avatar_jobs" # OneActive
  BY IndexNames
<1>2. \A t \in DOMAIN Indexes : {t} \cup Indexes[t] \subseteq Schema(3)
  BY DEF Schema, Tables
<1>3. OneActive \in Schema(3) /\ JobsResult \in Schema(3)
  BY DEF Schema
<1>4. CASE \E t \in DOMAIN Indexes \ {"avatar_jobs"} : o = Create(t)
  <2> PICK t \in DOMAIN Indexes \ {"avatar_jobs"} : o = Create(t)  BY <1>4
  <2>1. o.kind = "create" /\ o.name = t /\ o.items = Indexes[t]  BY DEF Create, Op
  <2> QED  BY <2>1, <1>1, <1>2, NamesApart, ReferencesOf DEF All
<1>5. CASE o = CreateJobs
  <2>1. /\ o.kind = "create" /\ o.name = "avatar_jobs"
        /\ o.items = Indexes["avatar_jobs"] \cup {OneActive}
    BY <1>5 DEF CreateJobs, Op
  <2> QED  BY <2>1, <1>1, <1>2, <1>3, NamesApart, ReferencesOf DEF All
<1>6. CASE o = Op("create", JobsResult, {})
  <2>1. o.kind = "create" /\ o.name = JobsResult /\ o.items = {}  BY <1>6 DEF Op
  <2> QED  BY <2>1, <1>1, <1>3, NamesApart, ReferencesOf DEF All
<1>7. CASE o = Op("create if not exists", OneActive, {})
  <2>1. o.kind = "create if not exists" /\ o.name = OneActive /\ o.items = {}
    BY <1>7 DEF Op
  <2> QED  BY <2>1, <1>1, <1>3, NamesApart, ReferencesOf DEF All
<1> QED  BY <1>4, <1>5, <1>6, <1>7 DEF UpgradeOps

\* An operation drops avatar_jobs and the late index, or neither.
LEMMA DowngradeOpsDrop ==
    ASSUME NEW o \in DowngradeOps
    PROVE  /\ o.kind = "drop"
           /\ "avatar_jobs" \in All(o) <=> OneActive \in All(o)
           /\ "avatar_jobs" \in All(o) <=> o.name = "avatar_jobs"
<1>1. "avatar_jobs" \in DOMAIN Indexes /\ "avatar_jobs" # OneActive
        /\ "avatar_jobs" # JobsResult
  BY IndexNames
<1>2. CASE \E t \in DOMAIN Indexes \ {"avatar_jobs"} : o = Drop(t)
  <2> PICK t \in DOMAIN Indexes \ {"avatar_jobs"} : o = Drop(t)  BY <1>2
  <2>1. o.kind = "drop" /\ o.name = t /\ o.items = Indexes[t]  BY DEF Drop, Op
  <2> QED  BY <2>1, <1>1, NamesApart DEF All
<1>3. CASE o = DropJobs
  <2>1. /\ o.kind = "drop" /\ o.name = "avatar_jobs"
        /\ o.items = Indexes["avatar_jobs"] \cup {OneActive}
    BY <1>3 DEF DropJobs, Op
  <2> QED  BY <2>1, <1>1, NamesApart DEF All
<1>4. CASE o = Op("drop", JobsResult, {})
  <2>1. o.kind = "drop" /\ o.name = JobsResult /\ o.items = {}  BY <1>4 DEF Op
  <2> QED  BY <2>1, <1>1, NamesApart DEF All
<1> QED  BY <1>2, <1>3, <1>4 DEF DowngradeOps

----------------------------------------------------------------------------
(***************************************************************************)
(* The inductive invariant.  The order of the operations does not matter   *)
(* to it: what an operation needs of the schema, PostgreSQL checks.        *)
(***************************************************************************)


\* The committed database: the late index is not there without the base, nor is there
\* an active job without the table.
DatabaseInv ==
    /\ VersionTellsSchema
    /\ OneActive \in schema => version # 0 /\ ~Duplicates
    /\ version = 0 => \A u \in Users : active[u] = 0

\* What a container has made and what is left of its plan is what its version lacked.
\* The late index is made, or is there, or is part of the base, which is to be made.
MakesTheRest(c) ==
    /\ from[c] \in 0..3 /\ to[c] = 3
    /\ plan[c] \in Seq(UpgradeOps)
    /\ Alike(created[c] \cup Items(plan[c]), Schema(3) \ Schema(from[c]))
    /\ from[c] = 3 => plan[c] = <<>>
    /\ \/ OneActive \in Items(plan[c]) \cup created[c] \cup schema
       \/ version = 0 \/ from[c] = 3

\* A container drops nothing, and makes what is not there, a table before its indexes.
UpgradeInv(c) ==
    /\ dropped[c] = {} /\ created[c] \cap schema = {}
    /\ Closed(created[c])
    /\ "avatar_jobs" \in created[c] => OneActive \in created[c]
    /\ c \in running => MakesTheRest(c)

\* The late index that a container has made holds for the rows, and its table stays:
\* the lock of the one keeps writers and the operator away.
LateIndexInv(c) ==
    OneActive \in created[c] => /\ ~Duplicates
                                /\ "avatar_jobs" \in schema \cup created[c]
                                /\ "avatar_jobs" \notin dropped[Operator]

\* No two containers have made the same.
OneMaker == \A b, c \in Containers : b # c => created[b] \cap created[c] = {}

\* The operator makes nothing, and what he has dropped and what is left of his plan is
\* what his target lacks; the late index goes with avatar_jobs.
DropsTheRest ==
    /\ from[Operator] \in 1..3 /\ to[Operator] \in 0..2
    /\ to[Operator] < from[Operator]
    /\ plan[Operator] \in Seq(DowngradeOps)
    /\ Alike(dropped[Operator] \cup Items(plan[Operator]),
             Schema(from[Operator]) \ Schema(to[Operator]))

DowngradeInv ==
    /\ created[Operator] = {} /\ dropped[Operator] \subseteq schema
    /\ "avatar_jobs" \in dropped[Operator] <=> OneActive \in dropped[Operator]
    /\ Operator \in running => DropsTheRest

PlanType == plan \in [Runners -> Seq(UpgradeOps \cup DowngradeOps)]

MigrationInv ==
    /\ TypeOK /\ PlanType
    /\ DatabaseInv /\ DowngradeInv
    /\ \A c \in Containers : UpgradeInv(c) /\ LateIndexInv(c)
    /\ OneMaker

----------------------------------------------------------------------------
(***************************************************************************)
(* The initial states, and the steps, one lemma for each action.           *)
(***************************************************************************)
LEMMA MigrationInit == Init => MigrationInv
<1> SUFFICES ASSUME Init PROVE MigrationInv  OBVIOUS
<1>1. /\ version \in 0..2 /\ running = {} /\ serving = {} /\ downgrades = 0
      /\ \A m \in Runners : created[m] = {} /\ dropped[m] = {}
      /\ Operator \in Runners /\ Containers \subseteq Runners
  BY DEF Init, Runners
<1>2. schema \subseteq Schema(3) /\ schema \cup {OneActive} = Schema(version) \cup {OneActive}
  BY <1>1, Schemas DEF Init
<1>3. TypeOK
  <2>1. active \in [Users -> 0..2]
    BY DEF Init
  <2> QED  BY <1>1, <1>2, <2>1, BoundAssumption DEF Init, TypeOK
<1>4. PlanType
  BY DEF Init, PlanType
<1>5. DatabaseInv
  <2>1. OneActive \in schema => version # 0 /\ ~Duplicates
    BY <1>1, Schemas DEF Init
  <2>2. version = 0 => \A u \in Users : active[u] = 0
    BY DEF Init
  <2> QED  BY <1>1, <1>2, <2>1, <2>2 DEF DatabaseInv, VersionTellsSchema
<1>6. DowngradeInv
  BY <1>1 DEF DowngradeInv
<1>7. \A c \in Containers : UpgradeInv(c) /\ LateIndexInv(c)
  BY <1>1 DEF UpgradeInv, LateIndexInv, Closed
<1>8. OneMaker
  BY <1>1 DEF OneMaker
<1> QED  BY <1>3, <1>4, <1>5, <1>6, <1>7, <1>8 DEF MigrationInv

\* Nothing has been made or dropped when a transaction begins.
LEMMA StartContainerStep ==
    ASSUME MigrationInv, NEW c \in Containers, StartContainer(c)
    PROVE  MigrationInv'
<1> USE DEF MigrationInv
<1>1. /\ c \in Runners /\ Operator \in Runners /\ c # Operator
      /\ Containers \subseteq Runners
  BY RunnerAssumption DEF Runners
<1>2. /\ UNCHANGED <<version, schema, active, created, dropped, serving, downgrades>>
      /\ c \notin running /\ running' = running \cup {c}
      /\ plan' = [plan EXCEPT ![c] = Path(version, 3)]
      /\ from' = [from EXCEPT ![c] = version] /\ to' = [to EXCEPT ![c] = 3]
  BY DEF StartContainer, Begin
<1>3. version \in 0..3 /\ created[c] = {}
  BY <1>1, <1>2 DEF TypeOK
<1>4. Path(version, 3) \in Seq(UpgradeOps)
  BY <1>3, UpgradePath
<1>5. /\ plan'[c] = Path(version, 3) /\ from'[c] = version /\ to'[c] = 3
      /\ \A m \in Runners \ {c} : plan'[m] = plan[m] /\ from'[m] = from[m] /\ to'[m] = to[m]
  BY <1>1, <1>2 DEF TypeOK, PlanType
<1>6. TypeOK'
  BY <1>1, <1>2, <1>3 DEF TypeOK
<1>7. PlanType'
  BY <1>1, <1>2, <1>4 DEF PlanType
<1>8. DatabaseInv' /\ OneMaker'
  BY <1>2 DEF DatabaseInv, VersionTellsSchema, Duplicates, OneMaker
<1>9. DowngradeInv'
  BY <1>1, <1>2, <1>5 DEF DowngradeInv, DropsTheRest
<1>10. ASSUME NEW b \in Containers PROVE UpgradeInv(b)' /\ LateIndexInv(b)'
  <2>1. LateIndexInv(b)'
    BY <1>2 DEF LateIndexInv, Duplicates
  <2>2. CASE b # c
    BY <1>1, <1>2, <1>5, <2>1, <2>2 DEF UpgradeInv, MakesTheRest
  <2>3. CASE b = c
    <3>1. Alike(Items(Path(version, 3)), Schema(3) \ Schema(version))
      BY <1>3, UpgradePath
    <3>2. \/ OneActive \in Items(Path(version, 3))
          \/ version = 0 \/ version = 3
      BY <1>3, UpgradePath
    <3>3. version = 3 => Path(version, 3) = <<>>
      BY <1>3, UpgradePath
    <3>4. MakesTheRest(c)'
      BY <1>2, <1>3, <1>4, <1>5, <3>1, <3>2, <3>3 DEF MakesTheRest
    <3> QED  BY <1>2, <2>1, <2>3, <3>4 DEF UpgradeInv
  <2> QED  BY <2>2, <2>3
<1> QED  BY <1>6, <1>7, <1>8, <1>9, <1>10

LEMMA BeginDowngradeStep ==
    ASSUME MigrationInv, Downgrade
    PROVE  MigrationInv'
<1> USE DEF MigrationInv
<1>1. Operator \in Runners /\ Operator \notin Containers /\ Containers \subseteq Runners
  BY RunnerAssumption DEF Runners
<1> PICK n \in 0..2 : n < version /\ Begin(Operator, n)
  BY DEF Downgrade
<1>2. /\ UNCHANGED <<version, schema, active, created, dropped, serving>>
      /\ downgrades < MaxDowngrades /\ downgrades' = downgrades + 1
      /\ Operator \notin running /\ running' = running \cup {Operator}
      /\ plan' = [plan EXCEPT ![Operator] = Path(version, n)]
      /\ from' = [from EXCEPT ![Operator] = version] /\ to' = [to EXCEPT ![Operator] = n]
  BY DEF Downgrade, Begin
<1>3. version \in 0..3 /\ version \in 1..3 /\ dropped[Operator] = {}
  BY <1>1, <1>2 DEF TypeOK
<1>4. /\ Path(version, n) \in Seq(DowngradeOps)
      /\ Alike(Items(Path(version, n)), Schema(version) \ Schema(n))
  BY <1>3, DowngradePath
<1>5. /\ plan'[Operator] = Path(version, n) /\ from'[Operator] = version
      /\ to'[Operator] = n
      /\ \A c \in Containers : plan'[c] = plan[c] /\ from'[c] = from[c] /\ to'[c] = to[c]
  BY <1>1, <1>2 DEF TypeOK, PlanType
<1>6. TypeOK'
  BY <1>1, <1>2, <1>3, BoundAssumption DEF TypeOK
<1>7. PlanType'
  BY <1>1, <1>2, <1>4 DEF PlanType
<1>8. DatabaseInv' /\ OneMaker'
  BY <1>2 DEF DatabaseInv, VersionTellsSchema, Duplicates, OneMaker
<1>9. DowngradeInv'
  <2>1. DropsTheRest'
    BY <1>2, <1>3, <1>4, <1>5 DEF DropsTheRest
  <2> QED  BY <1>2, <2>1 DEF DowngradeInv
<1>10. ASSUME NEW b \in Containers PROVE UpgradeInv(b)' /\ LateIndexInv(b)'
  <2>1. LateIndexInv(b)'
    BY <1>2 DEF LateIndexInv, Duplicates
  <2> QED  BY <1>1, <1>2, <1>5, <2>1 DEF UpgradeInv, MakesTheRest
<1> QED  BY <1>6, <1>7, <1>8, <1>9, <1>10

\* What a container makes was not there and is being made by nobody else: a table is
\* refused or waited for, and an index is where its table is.
LEMMA UpgradeOperationStep ==
    ASSUME MigrationInv, NEW c \in Containers, Step(c)
    PROVE  MigrationInv'
<1> USE DEF MigrationInv
<1> DEFINE o == Head(plan[c])
           new == All(o) \ Visible(c)
<1>1. /\ c \in Runners /\ Operator \in Runners /\ c # Operator
      /\ Containers \subseteq Runners
  BY RunnerAssumption DEF Runners
<1>2. /\ c \in running /\ plan[c] # <<>> /\ ~MustWait(c, o) /\ ~Refuses(c, o)
      /\ plan' = [plan EXCEPT ![c] = Tail(@)]
      /\ UNCHANGED <<version, schema, active, from, to, running, serving, downgrades>>
  BY DEF Step
<1>3. MakesTheRest(c) /\ dropped[c] = {}
  BY <1>2 DEF UpgradeInv
<1>4. Visible(c) = schema \cup created[c]
  BY <1>3 DEF Visible
<1>5. /\ o \in UpgradeOps /\ Tail(plan[c]) \in Seq(UpgradeOps)
      /\ Items(plan[c]) = All(o) \cup Items(Tail(plan[c]))
  BY <1>2, <1>3, ItemsOfTail DEF MakesTheRest
<1>6. /\ o.kind # "drop" /\ All(o) \subseteq Schema(3)
      /\ o.name \in DOMAIN References /\ o.name \in All(o)
  BY <1>5, UpgradeOpsMake DEF All
<1>7. created' = [created EXCEPT ![c] = @ \cup new] /\ dropped' = dropped
  BY <1>2, <1>6 DEF Step, All
<1> HIDE DEF o, new
<1>8. /\ plan'[c] = Tail(plan[c]) /\ created'[c] = created[c] \cup new
      /\ \A m \in Runners \ {c} : plan'[m] = plan[m] /\ created'[m] = created[m]
  BY <1>1, <1>2, <1>7 DEF TypeOK, PlanType
\* An index is made with its table.
<1>9. ASSUME NEW x \in new
      PROVE  \/ x = o.name
             \/ o.name \in DOMAIN Indexes /\ x \in Indexes[o.name] /\ o.name \in new
             \/ x = OneActive /\ o.name = "avatar_jobs" /\ o.name \in new
  <2>1. x \in All(o)  BY DEF new
  <2>2. CASE x # o.name
    <3>1. x \in o.items  BY <2>1, <2>2 DEF All
    <3>2. All(o) # {OneActive}
      BY <1>6, <2>1, <2>2
    <3>3. o.kind = "create"
      BY <1>5, <3>2, UpgradeOpsMake
    <3>4. o.name \in new
      BY <1>2, <1>6, <3>3 DEF Refuses, new
    <3> QED  BY <1>5, <3>1, <3>4, UpgradeOpsMake
  <2> QED  BY <2>2
<1>10. new \cap schema = {} /\ new \subseteq Schema(3)
  BY <1>4, <1>6 DEF new
<1>11. TypeOK'
  <2>1. created' \in [Runners -> SUBSET Schema(3)]
    BY <1>1, <1>7, <1>10 DEF TypeOK
  <2>2. \A m \in Runners : /\ created'[m] \cap schema \subseteq dropped[m]
                           /\ m \notin running => created'[m] \cup dropped[m] = {}
    BY <1>2, <1>8, <1>10 DEF TypeOK
  <2> QED  BY <1>2, <1>7, <2>1, <2>2 DEF TypeOK
<1>12. PlanType'
  BY <1>1, <1>2, <1>5 DEF PlanType
<1>13. DatabaseInv'
  BY <1>2 DEF DatabaseInv, VersionTellsSchema, Duplicates
<1>14. DowngradeInv'
  BY <1>1, <1>2, <1>7, <1>8 DEF DowngradeInv, DropsTheRest
\* A name that another container has made is waited for.
<1>15. ASSUME NEW b \in Containers, b # c PROVE o.name \notin new \cap created[b]
  <2> SUFFICES ASSUME o.name \in new \cap created[b] PROVE FALSE  OBVIOUS
  <2>1. b \in running \ {c}
    BY <1>1, <1>15 DEF TypeOK
  <2>2. References[o.name] \subseteq Visible(c)
    BY <1>2, <1>6 DEF Refuses
  <2>3. o.name \in created[b] \ Visible(c)
    BY DEF new
  <2> QED  BY <1>2, <1>6, <2>1, <2>2, <2>3 DEF MustWait
<1>16. ASSUME NEW b \in Containers, b # c PROVE new \cap created[b] = {}
  <2> SUFFICES ASSUME NEW x \in new, x \in created[b] PROVE FALSE  OBVIOUS
  <2>1. CASE x = o.name
    BY <1>15, <1>16, <2>1
  <2>2. CASE o.name \in DOMAIN Indexes /\ x \in Indexes[o.name] /\ o.name \in new
    <3>1. o.name \in created[b]
      BY <2>2 DEF UpgradeInv, Closed
    <3> QED  BY <1>15, <1>16, <2>2, <3>1
  <2>3. CASE x = OneActive /\ o.name = "avatar_jobs" /\ o.name \in new
    <3>1. "avatar_jobs" \in schema \cup created[b]
      BY <2>3 DEF LateIndexInv
    <3>2. o.name \in created[b]
      BY <1>10, <2>3, <3>1
    <3> QED  BY <1>15, <1>16, <2>3, <3>2
  <2> QED  BY <1>9, <2>1, <2>2, <2>3
<1>17. OneMaker'
  BY <1>1, <1>8, <1>16 DEF OneMaker
<1>18. UpgradeInv(c)'
  <2>1. created'[c] \cap schema = {}
    BY <1>8, <1>10 DEF UpgradeInv
  <2>2. Closed(created'[c])
    <3> SUFFICES ASSUME NEW t \in DOMAIN Indexes, NEW x \in Indexes[t], x \in created'[c]
                 PROVE  t \in created'[c]
      BY DEF Closed
    <3>1. CASE x \in created[c]
      BY <1>8, <3>1 DEF UpgradeInv, Closed
    <3>2. CASE x \in new
      <4>1. x # o.name /\ x # OneActive
        BY <1>5, UpgradeOpsMake, NamesApart
      <4>2. o.name \in new /\ o.name \in DOMAIN Indexes /\ x \in Indexes[o.name]
        BY <1>9, <3>2, <4>1
      <4>3. o.name = t
        BY <4>2, NamesApart
      <4> QED  BY <1>8, <4>2, <4>3
    <3> QED  BY <1>8, <3>1, <3>2
  <2>3. "avatar_jobs" \in created'[c] => OneActive \in created'[c]
    <3>1. CASE "avatar_jobs" \in created[c]
      BY <1>8, <3>1 DEF UpgradeInv
    <3>2. CASE "avatar_jobs" \in new
      <4>1. "avatar_jobs" \in DOMAIN Indexes /\ "avatar_jobs" # OneActive  BY IndexNames
      <4>2. o.name = "avatar_jobs"
        BY <1>9, <3>2, <4>1, NamesApart
      <4>3. OneActive \in All(o)
        BY <1>5, <4>2, UpgradeOpsMake
      <4>4. OneActive \notin schema
        <5>1. "avatar_jobs" \notin schema
          BY <1>10, <3>2
        <5>2. version # 0 => "avatar_jobs" \in schema
          BY <4>1, Schemas DEF DatabaseInv, VersionTellsSchema, TypeOK
        <5> QED  BY <5>1, <5>2 DEF DatabaseInv
      <4>5. OneActive \in created[c] \/ OneActive \in new
        BY <1>4, <4>3, <4>4 DEF new
      <4> QED  BY <1>8, <4>5
    <3> QED  BY <1>8, <3>1, <3>2
  <2>4. MakesTheRest(c)'
    <3> DEFINE was == created[c] \cup Items(plan[c])
               is == created'[c] \cup Items(plan'[c])
    <3>1. is \subseteq was
      BY <1>5, <1>8 DEF new
    \* All that is in the schema already is the late index.
    <3>3. ASSUME NEW x \in was, x \notin is PROVE x = OneActive
      <4>1. x \in All(o) \cap schema
        BY <1>4, <1>5, <1>8, <3>3 DEF new
      <4>2. CASE o.kind = "create"
        <5>1. o.name \notin schema
          BY <1>2, <1>4, <4>2 DEF Refuses
        <5>2. CASE x \in o.items /\ o.name \in DOMAIN Indexes /\ x \in Indexes[o.name]
          <6>1. Closed(Schema(version)) /\ o.name # OneActive /\ x # OneActive
            BY <5>2, Schemas, NamesApart DEF TypeOK
          <6>2. x \in Schema(version)
            BY <4>1, <6>1 DEF DatabaseInv, VersionTellsSchema
          <6>3. o.name \in Schema(version)
            BY <5>2, <6>1, <6>2 DEF Closed
          <6>4. o.name \in schema
            BY <6>1, <6>3 DEF DatabaseInv, VersionTellsSchema
          <6> QED  BY <5>1, <6>4
        <5> QED  BY <1>5, <4>1, <5>1, <5>2, UpgradeOpsMake DEF All
      <4>3. CASE o.kind # "create"
        BY <1>5, <4>1, <4>3, UpgradeOpsMake
      <4> QED  BY <4>2, <4>3
    <3>4. Alike(is, Schema(3) \ Schema(from[c]))
      <4>1. is \cup {OneActive} = was \cup {OneActive}
        BY <3>1, <3>3
      <4> QED  BY <1>3, <4>1 DEF MakesTheRest, Alike
    <3>5. \/ OneActive \in Items(plan'[c]) \cup created'[c] \cup schema
          \/ version = 0 \/ from[c] = 3
      BY <1>3, <1>4, <1>5, <1>8 DEF MakesTheRest, new
    <3>6. from[c] # 3
      BY <1>2, <1>3 DEF MakesTheRest
    <3> QED  BY <1>2, <1>3, <1>5, <1>8, <3>4, <3>5, <3>6 DEF MakesTheRest
  <2> QED  BY <1>3, <1>2, <1>7, <2>1, <2>2, <2>3, <2>4 DEF UpgradeInv
\* The late index comes with the base, or is refused or waits.
<1>19. LateIndexInv(c)'
  <2> SUFFICES ASSUME OneActive \in created'[c]
               PROVE  /\ ~Duplicates /\ "avatar_jobs" \in schema \cup created'[c]
                      /\ "avatar_jobs" \notin dropped[Operator]
    BY <1>2, <1>7 DEF LateIndexInv, Duplicates
  <2>1. CASE OneActive \in created[c]
    BY <1>8, <2>1 DEF LateIndexInv
  <2>2. CASE OneActive \in new
    <3>1. CASE o.name = "avatar_jobs" /\ o.name \in new
      <4>1. "avatar_jobs" \notin schema
        BY <1>10, <3>1
      <4>2. version = 0
        <5>1. "avatar_jobs" # OneActive  BY IndexNames
        <5> QED  BY <4>1, <5>1, Schemas DEF DatabaseInv, VersionTellsSchema, TypeOK
      <4>3. ~Duplicates
        BY <4>2 DEF DatabaseInv, Duplicates
      <4> QED  BY <1>8, <3>1, <4>1, <4>3 DEF DowngradeInv
    <3>2. CASE o.name = OneActive
      <4>1. ~Duplicates
        BY <1>2, <2>2, <3>2 DEF Refuses, new
      <4>2. "avatar_jobs" \in Visible(c)
        BY <1>2, <1>6, <3>2, ReferencesOf DEF Refuses
      <4>3. "avatar_jobs" \notin dropped[Operator]
        <5> SUFFICES ASSUME "avatar_jobs" \in dropped[Operator] PROVE FALSE  OBVIOUS
        <5>1. Operator \in running \ {c}
          BY <1>1 DEF TypeOK
        <5>2. "avatar_jobs" \in Locked(Operator)
          BY DEF Locked
        <5> QED  BY <1>2, <3>2, <4>2, <5>1, <5>2, ReferencesOf DEF MustWait
      <4> QED  BY <1>4, <1>8, <4>1, <4>2, <4>3
    <3> QED  BY <1>9, <2>2, <3>1, <3>2, NamesApart
  <2> QED  BY <1>8, <2>1, <2>2
<1>20. ASSUME NEW b \in Containers, b # c PROVE UpgradeInv(b)' /\ LateIndexInv(b)'
  BY <1>1, <1>2, <1>7, <1>8, <1>20
     DEF UpgradeInv, LateIndexInv, MakesTheRest, Duplicates
<1> QED  BY <1>11, <1>12, <1>13, <1>14, <1>17, <1>18, <1>19, <1>20

\* An operation of the operator drops what is there; avatar_jobs waits for a container
\* that has made the late index on it.
LEMMA DowngradeOperationStep ==
    ASSUME MigrationInv, Step(Operator)
    PROVE  MigrationInv'
<1> USE DEF MigrationInv
<1> DEFINE o == Head(plan[Operator])
<1>1. Operator \in Runners /\ Operator \notin Containers /\ Containers \subseteq Runners
  BY RunnerAssumption DEF Runners
<1>2. /\ Operator \in running /\ plan[Operator] # <<>>
      /\ ~MustWait(Operator, o) /\ ~Refuses(Operator, o)
      /\ plan' = [plan EXCEPT ![Operator] = Tail(@)]
      /\ UNCHANGED <<version, schema, active, from, to, running, serving, downgrades>>
  BY DEF Step
<1>3. DropsTheRest /\ created[Operator] = {}
  BY <1>2 DEF DowngradeInv
<1>4. /\ o \in DowngradeOps /\ Tail(plan[Operator]) \in Seq(DowngradeOps)
      /\ Items(plan[Operator]) = All(o) \cup Items(Tail(plan[Operator]))
  BY <1>2, <1>3, ItemsOfTail DEF DropsTheRest
<1>5. o.kind = "drop"
  BY <1>4, DowngradeOpsDrop
<1>6. Visible(Operator) = schema \ dropped[Operator]
  BY <1>3 DEF Visible
<1>7. All(o) \subseteq schema \ dropped[Operator] /\ o.name \in All(o)
  BY <1>2, <1>5, <1>6 DEF Refuses, All
<1>8. /\ dropped' = [dropped EXCEPT ![Operator] = @ \cup (All(o) \cap schema)]
      /\ created' = [created EXCEPT ![Operator] = @ \ All(o)]
  BY <1>2, <1>5 DEF Step, All
<1> HIDE DEF o
<1>9. /\ dropped'[Operator] = dropped[Operator] \cup All(o) /\ created'[Operator] = {}
      /\ plan'[Operator] = Tail(plan[Operator])
      /\ \A c \in Containers : /\ plan'[c] = plan[c]
                               /\ created'[c] = created[c] /\ dropped'[c] = dropped[c]
  BY <1>1, <1>2, <1>3, <1>7, <1>8 DEF TypeOK, PlanType
<1>10. TypeOK'
  <2>1. /\ dropped' \in [Runners -> SUBSET Schema(3)]
        /\ created' \in [Runners -> SUBSET Schema(3)]
    BY <1>1, <1>8 DEF TypeOK
  <2>2. \A m \in Runners : m = Operator \/ m \in Containers
    BY DEF Runners
  <2>3. \A m \in Runners : /\ created'[m] \cap schema \subseteq dropped'[m]
                           /\ m \notin running => created'[m] \cup dropped'[m] = {}
    BY <1>1, <1>2, <1>9, <2>2 DEF TypeOK
  <2> QED  BY <1>2, <2>1, <2>3 DEF TypeOK
<1>11. PlanType'
  BY <1>1, <1>2, <1>4 DEF PlanType
<1>12. DatabaseInv' /\ OneMaker'
  BY <1>2, <1>9 DEF DatabaseInv, VersionTellsSchema, Duplicates, OneMaker
<1>13. DowngradeInv'
  <2>1. DropsTheRest'
    BY <1>2, <1>3, <1>4, <1>9 DEF DropsTheRest
  <2>2. "avatar_jobs" \in dropped'[Operator] <=> OneActive \in dropped'[Operator]
    BY <1>4, <1>9, DowngradeOpsDrop DEF DowngradeInv
  <2> QED  BY <1>2, <1>7, <1>9, <2>1, <2>2 DEF DowngradeInv
<1>14. ASSUME NEW c \in Containers PROVE UpgradeInv(c)' /\ LateIndexInv(c)'
  <2>1. UpgradeInv(c)'
    BY <1>2, <1>9 DEF UpgradeInv, MakesTheRest
  <2>2. CASE OneActive \in created[c]
    <3>1. c \in running \ {Operator}
      BY <1>1, <2>2 DEF TypeOK
    <3>2. "avatar_jobs" \in Locked(c)
      BY <2>2, ReferencesOf DEF Locked
    <3>3. "avatar_jobs" \notin All(o)
      BY <1>2, <1>4, <1>5, <1>6, <1>7, <3>1, <3>2, DowngradeOpsDrop DEF MustWait
    <3> QED  BY <1>2, <1>9, <2>1, <3>3 DEF LateIndexInv, Duplicates
  <2>3. CASE OneActive \notin created[c]
    BY <1>9, <2>1, <2>3 DEF LateIndexInv
  <2> QED  BY <2>2, <2>3
<1> QED  BY <1>10, <1>11, <1>12, <1>13, <1>14

\* What the end of a transaction leaves to the others.
LEMMA EndLeaves ==
    ASSUME TypeOK, PlanType, NEW m \in Runners, End(m)
    PROVE  /\ running' = running \ {m} /\ created'[m] = {} /\ dropped'[m] = {}
           /\ created' \in [Runners -> SUBSET Schema(3)]
           /\ dropped' \in [Runners -> SUBSET Schema(3)]
           /\ from' \in [Runners -> 0..3] /\ to' \in [Runners -> 0..3] /\ PlanType'
           /\ \A n \in Runners \ {m} :
                /\ plan'[n] = plan[n] /\ from'[n] = from[n] /\ to'[n] = to[n]
                /\ created'[n] = created[n] /\ dropped'[n] = dropped[n]
BY DEF TypeOK, PlanType, End

\* A transaction that leaves the database as it was: it failed, or had nothing to do.
LEMMA NothingCommitted ==
    ASSUME MigrationInv, NEW m \in Runners, End(m), serving' \subseteq Containers,
           UNCHANGED <<version, schema, active, downgrades>>
    PROVE  MigrationInv'
<1> USE DEF MigrationInv
<1>1. /\ Operator \in Runners /\ Operator \notin Containers /\ Containers \subseteq Runners
      /\ \A n \in Runners : n = Operator \/ n \in Containers
  BY RunnerAssumption DEF Runners
<1>2. End(m) /\ UNCHANGED <<version, schema, active, downgrades>>
  OBVIOUS
<1>3. /\ running' = running \ {m} /\ created'[m] = {} /\ dropped'[m] = {}
      /\ created' \in [Runners -> SUBSET Schema(3)]
      /\ dropped' \in [Runners -> SUBSET Schema(3)]
      /\ from' \in [Runners -> 0..3] /\ to' \in [Runners -> 0..3] /\ PlanType'
      /\ \A n \in Runners \ {m} :
           /\ plan'[n] = plan[n] /\ from'[n] = from[n] /\ to'[n] = to[n]
           /\ created'[n] = created[n] /\ dropped'[n] = dropped[n]
  BY <1>2, EndLeaves
<1>4. TypeOK'
  <2>1. \A n \in Runners : /\ created'[n] \cap schema \subseteq dropped'[n]
                           /\ n \notin running' => created'[n] \cup dropped'[n] = {}
    BY <1>3 DEF TypeOK
  <2> QED  BY <1>2, <1>3, <2>1 DEF TypeOK
<1>5. DatabaseInv'
  BY <1>2 DEF DatabaseInv, VersionTellsSchema, Duplicates
<1>6. OneMaker'
  BY <1>1, <1>3 DEF OneMaker
<1>7. DowngradeInv'
  <2>1. CASE m = Operator
    BY <1>3, <2>1 DEF DowngradeInv
  <2>2. CASE m # Operator
    BY <1>1, <1>2, <1>3, <2>2 DEF DowngradeInv, DropsTheRest
  <2> QED  BY <2>1, <2>2
<1>8. ASSUME NEW c \in Containers PROVE UpgradeInv(c)' /\ LateIndexInv(c)'
  <2>1. CASE c = m
    BY <1>3, <2>1 DEF UpgradeInv, LateIndexInv, Closed
  <2>2. CASE c # m
    <3>1. /\ created'[c] = created[c] /\ dropped'[c] = dropped[c]
          /\ plan'[c] = plan[c] /\ from'[c] = from[c] /\ to'[c] = to[c]
          /\ c \in running' => c \in running
          /\ dropped'[Operator] \subseteq dropped[Operator]
      BY <1>1, <1>3, <2>2
    <3>2. UpgradeInv(c)'
      BY <1>2, <3>1 DEF UpgradeInv, MakesTheRest
    <3>3. LateIndexInv(c)'
      BY <1>2, <3>1 DEF LateIndexInv, Duplicates
    <3> QED  BY <3>2, <3>3
  <2> QED  BY <2>1, <2>2
<1> QED  BY <1>3, <1>4, <1>5, <1>6, <1>7, <1>8

\* An upgrade commits all that the version it has read lacks, the late index with it.
LEMMA CommitUpgradeStep ==
    ASSUME MigrationInv, NEW c \in Containers, Commit(c), from[c] # to[c]
    PROVE  MigrationInv'
<1> USE DEF MigrationInv
<1>1. /\ Operator \in Runners /\ Operator \notin Containers /\ Containers \subseteq Runners
      /\ c \in Runners /\ \A n \in Runners : n = Operator \/ n \in Containers
  BY RunnerAssumption DEF Runners
<1>2. /\ c \in running /\ plan[c] = <<>> /\ from[c] = version
      /\ version' = to[c] /\ schema' = Visible(c)
      /\ active' = [u \in Users |-> IF "avatar_jobs" \in Visible(c) THEN active[u] ELSE 0]
      /\ serving' = serving \cup {c} /\ End(c) /\ downgrades' = downgrades
  BY DEF Commit
<1>3. MakesTheRest(c) /\ dropped[c] = {}
  BY <1>2 DEF UpgradeInv
<1>4. version' = 3 /\ schema' = schema \cup created[c] /\ version # 3
  BY <1>2, <1>3 DEF Visible, MakesTheRest
<1>5. Alike(created[c], Schema(3) \ Schema(version))
  BY <1>2, <1>3, ItemsOfNothing DEF MakesTheRest
<1>6. Alike(schema', Schema(3))
  BY <1>4, <1>5, Schemas DEF Alike, DatabaseInv, VersionTellsSchema, TypeOK
<1>7. OneActive \in schema'
  <2>1. CASE version = 0
    <3>1. "avatar_jobs" \in Schema(3) \ Schema(version) /\ "avatar_jobs" # OneActive
      BY <2>1, Schemas, IndexNames
    <3>2. "avatar_jobs" \in created[c]
      BY <1>5, <3>1 DEF Alike
    <3> QED  BY <1>4, <3>2 DEF UpgradeInv
  <2>2. CASE version # 0
    BY <1>2, <1>3, <1>4, <2>2, ItemsOfNothing DEF MakesTheRest
  <2> QED  BY <2>1, <2>2
<1>8. ~Duplicates
  BY <1>4, <1>7 DEF DatabaseInv, LateIndexInv
<1>9. active' = active
  <2>1. "avatar_jobs" \in schema'
    <3>1. "avatar_jobs" \in Schema(3) /\ "avatar_jobs" # OneActive
      BY Schemas, IndexNames
    <3> QED  BY <1>6, <3>1 DEF Alike
  <2> QED  BY <1>2, <2>1 DEF TypeOK
<1>10. /\ running' = running \ {c} /\ created'[c] = {} /\ dropped'[c] = {}
       /\ created' \in [Runners -> SUBSET Schema(3)]
       /\ dropped' \in [Runners -> SUBSET Schema(3)]
       /\ from' \in [Runners -> 0..3] /\ to' \in [Runners -> 0..3] /\ PlanType'
       /\ \A n \in Runners \ {c} :
            /\ plan'[n] = plan[n] /\ from'[n] = from[n] /\ to'[n] = to[n]
            /\ created'[n] = created[n] /\ dropped'[n] = dropped[n]
  BY <1>1, <1>2, EndLeaves
<1>11. ASSUME NEW b \in Containers PROVE created'[b] \cap schema' = {}
  BY <1>1, <1>4, <1>10, <1>11 DEF OneMaker, UpgradeInv
<1>12. TypeOK'
  <2>1. schema' \subseteq Schema(3)
    BY <1>1, <1>4 DEF TypeOK
  <2>2. \A n \in Runners : /\ created'[n] \cap schema' \subseteq dropped'[n]
                           /\ n \notin running' => created'[n] \cup dropped'[n] = {}
    BY <1>1, <1>10, <1>11 DEF TypeOK, DowngradeInv
  <2> QED  BY <1>2, <1>4, <1>9, <1>10, <2>1, <2>2 DEF TypeOK
<1>13. DatabaseInv'
  BY <1>4, <1>6, <1>7, <1>8, <1>9
     DEF DatabaseInv, VersionTellsSchema, Duplicates, Alike
<1>14. OneMaker'
  BY <1>1, <1>10 DEF OneMaker
<1>15. DowngradeInv'
  BY <1>1, <1>4, <1>10 DEF DowngradeInv, DropsTheRest
<1>16. ASSUME NEW b \in Containers PROVE UpgradeInv(b)' /\ LateIndexInv(b)'
  <2>1. CASE b = c
    BY <1>10, <2>1 DEF UpgradeInv, LateIndexInv, Closed
  <2>2. CASE b # c
    <3>1. /\ created'[b] = created[b] /\ dropped'[b] = dropped[b]
          /\ plan'[b] = plan[b] /\ from'[b] = from[b] /\ to'[b] = to[b]
          /\ b \in running' => b \in running
          /\ dropped'[Operator] = dropped[Operator] /\ schema \subseteq schema'
      BY <1>1, <1>4, <1>10, <2>2
    <3>2. UpgradeInv(b)'
      BY <1>7, <1>11, <3>1 DEF UpgradeInv, MakesTheRest
    <3>3. LateIndexInv(b)'
      BY <1>8, <1>9, <3>1 DEF LateIndexInv, Duplicates
    <3> QED  BY <3>2, <3>3
  <2> QED  BY <2>1, <2>2
<1> QED  BY <1>10, <1>12, <1>13, <1>14, <1>15, <1>16

\* A downgrade commits; the late index stays where its table does.
LEMMA CommitDowngradeStep ==
    ASSUME MigrationInv, Commit(Operator)
    PROVE  MigrationInv'
<1> USE DEF MigrationInv
<1>1. /\ Operator \in Runners /\ Operator \notin Containers /\ Containers \subseteq Runners
      /\ \A n \in Runners : n = Operator \/ n \in Containers
  BY RunnerAssumption DEF Runners
<1>2. Operator \in running /\ plan[Operator] = <<>> /\ End(Operator)
        /\ (from[Operator] = version \/ from[Operator] = to[Operator])
  BY DEF Commit
<1>3. DropsTheRest /\ created[Operator] = {}
  BY <1>2 DEF DowngradeInv
<1>4. from[Operator] = version /\ from[Operator] # to[Operator]
  BY <1>2, <1>3 DEF DropsTheRest
<1> DEFINE n == to[Operator]
<1>5. /\ version' = n /\ schema' = schema \ dropped[Operator]
      /\ active' = [u \in Users |-> IF "avatar_jobs" \in schema' THEN active[u] ELSE 0]
      /\ serving' = serving /\ downgrades' = downgrades
  BY <1>1, <1>3, <1>4 DEF Commit, Visible, TypeOK
<1>6. n \in 0..2 /\ n < version /\ version \in 1..3
        /\ Alike(dropped[Operator], Schema(version) \ Schema(n))
  BY <1>2, <1>3, <1>4, ItemsOfNothing DEF DropsTheRest
<1> HIDE DEF n
<1>7. "avatar_jobs" # OneActive /\ "avatar_jobs" \in Schema(version)
        /\ (n > 0 => "avatar_jobs" \in Schema(n)) /\ Schema(n) \subseteq Schema(version)
  <2>1. "avatar_jobs" # OneActive  BY IndexNames
  <2>2. CASE n = 0  BY <1>6, <2>1, <2>2, Schemas
  <2>3. CASE n = 1  BY <1>6, <2>1, <2>3, Schemas
  <2>4. CASE n = 2  BY <1>6, <2>1, <2>4, Schemas
  <2> QED  BY <1>6, <2>2, <2>3, <2>4
<1>8. "avatar_jobs" \in dropped[Operator] <=> n = 0
  BY <1>6, <1>7, Schemas DEF Alike
<1>9. OneActive \in dropped[Operator] <=> n = 0
  BY <1>8 DEF DowngradeInv
<1>10. Alike(schema', Schema(n))
  BY <1>5, <1>6, <1>7 DEF Alike, DatabaseInv, VersionTellsSchema
<1>11. \A u \in Users : active'[u] = active[u] \/ active'[u] = 0
  BY <1>5
<1>12. ~Duplicates => ~Duplicates'
  BY <1>11 DEF Duplicates, TypeOK
<1>13. n = 0 => \A u \in Users : active'[u] = 0
  BY <1>5, <1>8
<1>14. DatabaseInv'
  BY <1>5, <1>6, <1>9, <1>10, <1>12, <1>13 DEF DatabaseInv, VersionTellsSchema, Alike
<1>15. /\ running' = running \ {Operator}
       /\ created'[Operator] = {} /\ dropped'[Operator] = {}
       /\ created' \in [Runners -> SUBSET Schema(3)]
       /\ dropped' \in [Runners -> SUBSET Schema(3)]
       /\ from' \in [Runners -> 0..3] /\ to' \in [Runners -> 0..3] /\ PlanType'
       /\ \A m \in Runners \ {Operator} :
            /\ plan'[m] = plan[m] /\ from'[m] = from[m] /\ to'[m] = to[m]
            /\ created'[m] = created[m] /\ dropped'[m] = dropped[m]
  BY <1>1, <1>2, EndLeaves
<1>16. TypeOK'
  <2>1. schema' \subseteq Schema(3) /\ active' \in [Users -> 0..2] /\ version' \in 0..3
    BY <1>5, <1>6 DEF TypeOK
  <2>2. \A m \in Runners : /\ created'[m] \cap schema' \subseteq dropped'[m]
                           /\ m \notin running' => created'[m] \cup dropped'[m] = {}
    BY <1>1, <1>5, <1>15 DEF TypeOK
  <2> QED  BY <1>5, <1>15, <2>1, <2>2 DEF TypeOK
<1>17. OneMaker' /\ DowngradeInv'
  BY <1>1, <1>15 DEF OneMaker, DowngradeInv
<1>18. ASSUME NEW c \in Containers PROVE UpgradeInv(c)' /\ LateIndexInv(c)'
  <2>1. /\ created'[c] = created[c] /\ dropped'[c] = dropped[c]
        /\ plan'[c] = plan[c] /\ from'[c] = from[c] /\ to'[c] = to[c]
        /\ c \in running' => c \in running
    BY <1>1, <1>15
  <2>2. n = 0 \/ (OneActive \in schema => OneActive \in schema')
    BY <1>5, <1>9
  <2>3. UpgradeInv(c)'
    <3>1. CASE c \in running'
      <4>1. MakesTheRest(c)
        BY <2>1, <3>1 DEF UpgradeInv
      <4>2. \/ OneActive \in Items(plan[c]) \cup created[c] \cup schema'
            \/ version' = 0 \/ from[c] = 3
        BY <1>5, <1>6, <2>2, <4>1 DEF MakesTheRest
      <4>3. MakesTheRest(c)'
        BY <2>1, <4>1, <4>2 DEF MakesTheRest
      <4> QED  BY <1>5, <2>1, <4>3 DEF UpgradeInv
    <3>2. CASE c \notin running'
      BY <1>5, <2>1, <3>2 DEF UpgradeInv
    <3> QED  BY <3>1, <3>2
  <2>4. LateIndexInv(c)'
    BY <1>5, <1>12, <1>15, <2>1 DEF LateIndexInv
  <2> QED  BY <2>3, <2>4
<1> QED  BY <1>14, <1>15, <1>16, <1>17, <1>18

\* Jobs begin and end in a database whose migrations leave avatar_jobs alone.
LEMMA ActiveJobStep ==
    ASSUME MigrationInv, NEW u \in Users, InsertActiveJob(u) \/ EndActiveJob(u)
    PROVE  MigrationInv'
<1> USE DEF MigrationInv
<1>1. /\ UNCHANGED <<version, schema, plan, from, to, running, created, dropped,
                     serving, downgrades>>
      /\ \A m \in running : "avatar_jobs" \notin Locked(m)
  BY DEF InsertActiveJob, EndActiveJob, runnerVars
<1>2. /\ active' \in [Users -> 0..2] /\ \A w \in Users \ {u} : active'[w] = active[w]
      /\ (OneActive \in schema => active'[u] <= 1)
      /\ version = 0 => active'[u] = 0
  <2>1. version = 0 => "avatar_jobs" \notin schema /\ active[u] = 0
    <3>1. "avatar_jobs" # OneActive  BY IndexNames
    <3> QED  BY <3>1, Schemas DEF DatabaseInv, VersionTellsSchema
  <2>2. CASE InsertActiveJob(u)
    BY <2>1, <2>2 DEF InsertActiveJob, TypeOK
  <2>3. CASE EndActiveJob(u)
    BY <2>1, <2>3 DEF EndActiveJob, TypeOK
  <2> QED  BY <2>2, <2>3
<1>3. TypeOK' /\ PlanType' /\ DowngradeInv' /\ OneMaker'
  BY <1>1, <1>2 DEF TypeOK, PlanType, DowngradeInv, DropsTheRest, OneMaker
<1>4. OneActive \in schema => ~Duplicates'
  BY <1>2 DEF DatabaseInv, Duplicates
<1>5. DatabaseInv'
  BY <1>1, <1>2, <1>4 DEF DatabaseInv, VersionTellsSchema
<1>6. ASSUME NEW c \in Containers PROVE UpgradeInv(c)' /\ LateIndexInv(c)'
  <2>1. UpgradeInv(c)'
    BY <1>1 DEF UpgradeInv, MakesTheRest
  <2>2. OneActive \notin created[c]
    <3> SUFFICES ASSUME OneActive \in created[c] PROVE FALSE  OBVIOUS
    <3>1. c \in running  BY DEF TypeOK, Runners
    <3>2. "avatar_jobs" \in Locked(c)  BY ReferencesOf DEF Locked
    <3> QED  BY <1>1, <3>1, <3>2
  <2> QED  BY <1>1, <2>1, <2>2 DEF LateIndexInv
<1> QED  BY <1>3, <1>5, <1>6

LEMMA MigrationStep == MigrationInv /\ [Next]_vars => MigrationInv'
<1> SUFFICES ASSUME MigrationInv, [Next]_vars PROVE MigrationInv'
  OBVIOUS
<1>1. ASSUME NEW c \in Containers, StartContainer(c) PROVE MigrationInv'
  BY <1>1, StartContainerStep
<1>2. CASE Downgrade
  BY <1>2, BeginDowngradeStep
<1>3. ASSUME NEW m \in Runners, Step(m) PROVE MigrationInv'
  BY <1>3, UpgradeOperationStep, DowngradeOperationStep DEF Runners
<1>4. ASSUME NEW m \in Runners, Commit(m) PROVE MigrationInv'
  <2>1. CASE from[m] = to[m]
    <3>1. /\ End(m) /\ UNCHANGED <<version, schema, active, downgrades>>
          /\ serving' \subseteq Containers
      BY <1>4, <2>1 DEF Commit, MigrationInv, TypeOK
    <3> QED  BY <1>4, <3>1, NothingCommitted
  <2>2. CASE from[m] # to[m] /\ m \in Containers
    BY <1>4, <2>2, CommitUpgradeStep
  <2>3. CASE m = Operator
    BY <1>4, <2>3, CommitDowngradeStep
  <2> QED  BY <2>1, <2>2, <2>3 DEF Runners
<1>5. ASSUME NEW m \in Runners, Fail(m) PROVE MigrationInv'
  <2>1. /\ End(m) /\ UNCHANGED <<version, schema, active, downgrades>>
        /\ serving' \subseteq Containers
    BY <1>5 DEF Fail, MigrationInv, TypeOK
  <2> QED  BY <1>5, <2>1, NothingCommitted
<1>6. ASSUME NEW u \in Users, InsertActiveJob(u) \/ EndActiveJob(u) PROVE MigrationInv'
  BY <1>6, ActiveJobStep
<1>7. CASE UNCHANGED vars
  BY <1>7 DEF vars, MigrationInv, TypeOK, PlanType, DatabaseInv, VersionTellsSchema,
              Duplicates, DowngradeInv, DropsTheRest, UpgradeInv, MakesTheRest,
              LateIndexInv, OneMaker
<1> QED  BY <1>1, <1>2, <1>3, <1>4, <1>5, <1>6, <1>7 DEF Next

----------------------------------------------------------------------------
LEMMA MigrationInvariant == Spec => []MigrationInv
BY MigrationInit, MigrationStep, PTL DEF Spec

\* What a transaction has made or dropped is its own until it commits, whether the
\* entrypoint of a container or an operator runs it, and nothing is left of one that
\* has ended.
THEOREM MigrationsTypeInvariant == Spec => []TypeOK
<1>1. MigrationInv => TypeOK
  BY DEF MigrationInv
<1> QED  BY <1>1, MigrationInvariant, PTL

\* However many containers and however often an operator run alembic at the same time,
\* on a database of whatever age: alembic_version names the tables and indexes that are
\* there.  The index of one active job per user may be missing below the head only, in
\* a database that was made before it.
THEOREM VersionTells == Spec => []VersionTellsSchema
<1>1. MigrationInv => VersionTellsSchema
  BY DEF MigrationInv, DatabaseInv
<1> QED  BY <1>1, MigrationInvariant, PTL

=============================================================================
