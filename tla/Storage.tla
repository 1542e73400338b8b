------------------------------- MODULE Storage -------------------------------
(***************************************************************************)
(* The object storage behind StorageService: a directory tree or an S3     *)
(* bucket, whichever the deployment has.  The contract (ObjectStorage) is  *)
(* one: what is saved under a key is there, and delete_prefix removes what *)
(* is under a prefix.  The implementations are not alike: the local one    *)
(* makes the directory, truncates the file and fills it, and deletes a     *)
(* directory, a file or else the siblings whose name starts with the       *)
(* prefix, one entry after another; S3 saves in one step, and lists and    *)
(* deletes page by page the keys whose string starts with the prefix.      *)
(* Other processes go on saving, also what is being deleted, and any step  *)
(* of a deletion may fail.                                                 *)
(*                                                                         *)
(* A key or prefix as a caller writes it is the sequence of its segments   *)
(* between slashes (a backslash is one), "", "." and ".." among them.      *)
(***************************************************************************)
EXTENDS Naturals, Sequences, FiniteSets

CONSTANTS
    Keys,      \* the keys in use, normalized: those the build_*_key functions make
    Prefixes,  \* the arguments of delete_prefix
    Starts,    \* <<m, n>>: the name m starts with the name n, and is longer
    Ids,       \* the names that are identifiers: of users, images, jobs
    Order,     \* Order[k]: the place of k in the order in which S3 lists
    PageSize,  \* keys in a response of list_objects_v2
    MaxSaves   \* bound: files being saved at one time

VARIABLES
    backend,   \* settings.storage_backend: "local" or "s3"
    held,      \* held[k]: the file or object of key k: "none", "cut" short or "whole"
    dirs,      \* the directories below the local root, and the root
    save,      \* save[k]: the local save of k: "no", "parent" made, file "open"
    call,      \* delete_prefix: "idle", "removing" (local), "listing", "deleting",
               \* "returning" (S3); "raised" is idle after an exception
    prefix,    \* its normalized argument
    roots,     \* what the local one found to remove
    gone,      \* the files and directories it has removed
    batch,     \* the keys in S3's last response
    after,     \* NextContinuationToken: the place of its last key, 0 at first
    more,      \* IsTruncated
    kept       \* keys that S3 refused to delete, or saved since the call (history)

localVars == <<roots, gone>>
s3Vars == <<batch, after, more>>
vars == <<backend, held, dirs, save, call, prefix, localVars, s3Vars, kept>>

----------------------------------------------------------------------------
(***************************************************************************)
(* Keys.                                                                   *)
(***************************************************************************)

\* normalize_object_key, for a key that it accepts.
Normalize(raw) == SelectSeq(raw, LAMBDA s : s \notin {"", "."})
Refused(raw) == \E i \in 1..Len(raw) : raw[i] = ".."

\* The builders of StorageService; name is a filename's last segment.
UploadedImageKey(user, image, suffix) == <<"users", user, "images", image, suffix>>
ResultJsonKey(user, job) == <<"users", user, "jobs", job, "HumanInfo.json">>
ArtifactKey(user, job, name) == <<"users", user, "jobs", job, "artifacts", name>>

\* k is p or below it.
Under(k, p) == Len(p) <= Len(k) /\ \A i \in 1..Len(p) : k[i] = p[i]

\* The string of k starts with the string of p, which may end inside a name.  The
\* empty prefix is normalized to ".", with which no key in use starts.
StringUnder(k, p) ==
    /\ p # <<>> /\ Len(p) <= Len(k)
    /\ \A i \in 1..Len(p) - 1 : k[i] = p[i]
    /\ k[Len(p)] = p[Len(p)] \/ <<k[Len(p)], p[Len(p)]>> \in Starts

AncestorsOrSelf(k) == {SubSeq(k, 1, n) : n \in 0..Len(k)}   \* slip
\* (Operators marked "slip" are plausible mistakes in the definition that follows
\* them.  The specification does not use them: each is put in that definition's
\* place to see a property fail.)
Ancestors(k) == {SubSeq(k, 1, n) : n \in 0..Len(k) - 1}
Parent(k) == SubSeq(k, 1, Len(k) - 1)

\* Keys are sequences of names, and none is a directory of another.
ASSUME KeyAssumption ==
    /\ IsFiniteSet(Keys)
    /\ \A k \in Keys : k \in Seq(STRING) /\ k # <<>>
    /\ \A k, l \in Keys : Under(k, l) => k = l
    /\ \A raw \in Prefixes : raw \in Seq(STRING) /\ Normalize(raw) \in Seq(STRING)
\* Identifiers are UUIDs: they have one length.
ASSUME IdAssumption == \A pair \in Starts : pair[2] \notin Ids
ASSUME OrderAssumption == /\ Order \in [Keys -> Nat \ {0}]
                          /\ \A k, l \in Keys : Order[k] = Order[l] => k = l
ASSUME BoundsAssumption == PageSize \in Nat \ {0} /\ MaxSaves \in Nat \ {0}

\* k starts like p, in one of the two ways.
Below(k, p) == Under(k, p) \/ StringUnder(k, p)
Held == {k \in Keys : held[k] # "none"}
Paths == dirs \cup Held
AllPaths == {<<>>} \cup Keys \cup UNION {Ancestors(k) : k \in Keys}
InProgress == call \notin {"idle", "raised"}

----------------------------------------------------------------------------
Init ==
    /\ backend \in {"local", "s3"}
    /\ held = [k \in Keys |-> "none"]
    /\ dirs = {<<>>}
    /\ save = [k \in Keys |-> "no"]
    /\ call = "idle" /\ prefix = <<>>
    /\ roots = {} /\ gone = {}
    /\ batch = {} /\ after = 0 /\ more = FALSE
    /\ kept = {}

(***************************************************************************)
(* Saving: put_stream, put_bytes, put_json.                                *)
(***************************************************************************)

\* An object that is there anew, perhaps under a prefix that is being deleted.
Store(k, content) ==
    /\ held' = [held EXCEPT ![k] = content]
    /\ kept' = IF InProgress /\ Below(k, prefix) THEN kept \cup {k} ELSE kept
SaveStep(k, from, to) == save[k] = from /\ save' = [save EXCEPT ![k] = to]

MakeParent(k) ==
    /\ backend = "local"
    /\ Cardinality({l \in Keys : save[l] # "no"}) < MaxSaves
    /\ SaveStep(k, "no", "parent")
    /\ dirs' = dirs \cup Ancestors(k)
    /\ UNCHANGED <<backend, held, call, prefix, localVars, s3Vars, kept>>

\* Opened, which truncates it ...
OpenFile(k) ==
    /\ Parent(k) \in dirs
    /\ SaveStep(k, "parent", "open")
    /\ Store(k, "cut")
    /\ UNCHANGED <<backend, dirs, call, prefix, localVars, s3Vars>>

\* ... and filled, even if the file has been unlinked.
FillFile(k) ==
    /\ SaveStep(k, "open", "no")
    /\ held' = [held EXCEPT ![k] = IF @ = "cut" THEN "whole" ELSE @]
    /\ UNCHANGED <<backend, dirs, call, prefix, localVars, s3Vars, kept>>

\* The directory is gone again, the disk is full, the stream raises.
SaveFails(k) ==
    /\ SaveStep(k, "parent", "no") \/ SaveStep(k, "open", "no")
    /\ UNCHANGED <<backend, held, dirs, call, prefix, localVars, s3Vars, kept>>

\* S3 has the old object or the new one.
PutObject(k) ==
    /\ backend = "s3"
    /\ Store(k, "whole")
    /\ UNCHANGED <<backend, dirs, save, call, prefix, localVars, s3Vars>>

----------------------------------------------------------------------------
(***************************************************************************)
(* delete_prefix, one call at a time.                                      *)
(***************************************************************************)

SameParent(p) == {c \in Paths : Len(c) = Len(p) /\ Under(c, Parent(p))}   \* slip: any name
\* The children of the parent whose name starts with the prefix's.
StartAlike(p) == {c \in Paths : Len(c) = Len(p) /\ StringUnder(c, p)}
\* The directory or file of that name, or else those.  The guard against an empty
\* prefix lets "." through, which is the root.
Found(p) == IF p \in Paths THEN {p} ELSE StartAlike(p)

Begin(raw) ==
    /\ ~InProgress /\ ~Refused(raw)
    /\ prefix' = Normalize(raw)
    /\ IF backend = "local"
       THEN call' = "removing" /\ roots' = Found(Normalize(raw))
       ELSE call' = "listing" /\ roots' = {}
    /\ UNCHANGED <<backend, held, dirs, save, gone, s3Vars, kept>>

\* The call is over, and what it remembered with it.
End(outcome) ==
    /\ call' = outcome /\ prefix' = <<>>
    /\ roots' = {} /\ gone' = {}
    /\ batch' = {} /\ after' = 0 /\ more' = FALSE
    /\ kept' = {}
    /\ UNCHANGED <<backend, held, dirs, save>>

\* rmtree and unlink: an entry without entries is removed, each once.
RemoveEntry ==
    /\ call = "removing"
    /\ \E x \in Paths \ gone :
         /\ \E root \in roots : Under(x, root)
         /\ \A y \in Paths : Under(y, x) => y = x
         /\ held' = [k \in Keys |-> IF k = x THEN "none" ELSE held[k]]
         /\ dirs' = dirs \ {x}
         /\ gone' = gone \cup {x}
    /\ UNCHANGED <<backend, save, call, prefix, roots, s3Vars, kept>>

\* slip: the token is not passed on, each page is listed from the start
ListedAgain == {k \in Held : StringUnder(k, prefix)}
\* What list_objects_v2 has for the prefix after the token.
Listed == {k \in Held : StringUnder(k, prefix) /\ Order[k] > after}

\* list_objects_v2: the first keys, no more than a page and perhaps fewer.
ListPage ==
    /\ call = "listing" /\ Listed # {}
    /\ \E last \in Listed :
         /\ batch' = {k \in Listed : Order[k] <= Order[last]}
         /\ after' = Order[last]
    /\ Cardinality(batch') <= PageSize
    /\ more' = (batch' # Listed)
    /\ call' = "deleting"
    /\ UNCHANGED <<backend, held, dirs, save, prefix, localVars, kept>>

ListNothing ==
    /\ call = "listing" /\ Listed = {}
    /\ call' = "returning"
    /\ UNCHANGED <<backend, held, dirs, save, prefix, localVars, s3Vars, kept>>

NoMorePages == FALSE   \* slip: one response is taken for all
IsTruncated == more

\* delete_objects.  The response names the keys that were not deleted, and is not
\* looked at.
DeleteObjects ==
    /\ call = "deleting"
    /\ \E refused \in SUBSET batch :
         /\ held' = [k \in Keys |-> IF k \in batch \ refused THEN "none" ELSE held[k]]
         /\ kept' = kept \cup refused
    /\ batch' = {}
    /\ call' = IF IsTruncated THEN "listing" ELSE "returning"
    /\ UNCHANGED <<backend, dirs, save, prefix, localVars, after, more>>

Return ==
    /\ call = "returning" \/ (call = "removing" /\ roots \subseteq gone)
    /\ End("idle")

\* An OSError: a file may not be removed, or a directory has got an entry since it
\* was listed.  No response, or an error, from S3.
DeletionFails ==
    /\ InProgress
    /\ End("raised")

Save(k) == \/ MakeParent(k) \/ OpenFile(k) \/ FillFile(k) \/ SaveFails(k)
           \/ PutObject(k)
Deletion == \/ RemoveEntry \/ ListPage \/ ListNothing \/ DeleteObjects
            \/ Return \/ DeletionFails

Next == \/ \E k \in Keys : Save(k)
        \/ \E raw \in Prefixes : Begin(raw)
        \/ Deletion

Spec == Init /\ [][Next]_vars
\* The file system and S3 answer a call in progress, with an error perhaps.
FairSpec == Spec /\ WF_vars(Deletion)

----------------------------------------------------------------------------
\* Every variable keeps its type; the directories are those of a tree.
TypeOK ==
    /\ backend \in {"local", "s3"}
    /\ held \in [Keys -> {"none", "cut", "whole"}]
    /\ save \in [Keys -> {"no", "parent", "open"}]
    /\ call \in {"idle", "removing", "listing", "deleting", "returning", "raised"}
    /\ prefix \in {<<>>} \cup {Normalize(raw) : raw \in Prefixes}
    /\ dirs \cup roots \cup gone \subseteq AllPaths
    /\ batch \subseteq Keys /\ kept \subseteq Keys
    /\ after \in Nat /\ more \in BOOLEAN
    /\ dirs \cap Keys = {}
    /\ backend = "local" => \A x \in Paths : Ancestors(x) \subseteq dirs

\* When delete_prefix returns, what is left under its prefix was saved since the call
\* or S3 refused to delete it: no page of the listing is missed while keys come and go,
\* no file is forgotten, and a call that raised can be repeated.  (S3 takes the empty
\* prefix for ".", under which it finds nothing.)
ReturnedMeansGone ==
    [][InProgress /\ call' = "idle" =>
         \A k \in Held : Under(k, prefix) =>
           k \in kept \/ (backend = "s3" /\ prefix = <<>>)]_vars

\* A deletion takes only what starts like its prefix.  What has the prefix's name is
\* all it takes if the local backend found it, and on both backends if the prefix ends
\* with an identifier: a user's or a job's deletion leaves the others' objects alone.
DeletesOnlyUnderPrefix ==
    [][\A k \in Held \ Held' :
         /\ Below(k, prefix)
         /\ prefix \in roots => Under(k, prefix)
         /\ prefix # <<>> /\ prefix[Len(prefix)] \in Ids => Under(k, prefix)]_vars

\* A deletion ends, whatever S3 refuses to delete and others save.
DeletionEnds == []<>~InProgress

----------------------------------------------------------------------------
(***************************************************************************)
(* The inductive invariants behind them (proved in StorageProofs).         *)
(***************************************************************************)

\* What is still to be removed is under a root that has not been, every root starts
\* like the prefix, and the prefix itself is the only one if it is one.
RemovingInv ==
    call = "removing" =>
      /\ backend = "local"
      /\ \A k \in Held : Under(k, prefix) =>
           k \in kept \/ \E root \in roots \ gone : Under(k, root)
      /\ IF prefix \in roots THEN roots = {prefix}
         ELSE \A root \in roots : Len(root) = Len(prefix) /\ StringUnder(root, prefix)

\* What is still to be listed comes after the token, or is in the response.
ListingInv ==
    call \in {"listing", "deleting", "returning"} =>
      /\ backend = "s3" /\ roots = {}
      /\ \A k \in batch : StringUnder(k, prefix)
      /\ \A k \in Held : StringUnder(k, prefix) =>
           \/ k \in kept
           \/ Order[k] > after /\ (call = "deleting" => more) /\ call # "returning"
           \/ call = "deleting" /\ k \in batch

\* Nothing is remembered from one call to the next.
IdleInv == ~InProgress => gone = {} /\ batch = {} /\ after = 0

StorageInv == TypeOK /\ RemovingInv /\ ListingInv /\ IdleInv
=============================================================================
