---------------------------- MODULE StorageProofs ----------------------------
(***************************************************************************)
(* Proofs about Storage, for any keys, prefixes, names that start alike    *)
(* and page size.                                                          *)
(***************************************************************************)
EXTENDS Storage, SequenceTheorems, TLAPS

----------------------------------------------------------------------------
(***************************************************************************)
(* Keys, prefixes and directories.                                         *)
(***************************************************************************)
LEMMA KeyIsSeq == \A k \in Keys : k \in Seq(STRING)
  BY KeyAssumption

LEMMA PrefixIsSeq ==
    ASSUME TypeOK PROVE prefix \in Seq(STRING)
  <1>1. <<>> \in Seq(STRING)
    OBVIOUS
  <1>2. CASE prefix = <<>>
    BY <1>1, <1>2
  <1>3. CASE \E raw \in Prefixes : prefix = Normalize(raw)
    BY <1>3, KeyAssumption
  <1> QED
    BY <1>2, <1>3 DEF TypeOK

LEMMA UnderItself == ASSUME NEW k \in Seq(STRING) PROVE Under(k, k)
  BY DEF Under

\* The beginning of a sequence of names.
LEMMA Beginning ==
    ASSUME NEW k \in Seq(STRING), NEW n \in 0..Len(k)
    PROVE  /\ SubSeq(k, 1, n) \in Seq(STRING) /\ Len(SubSeq(k, 1, n)) = n
           /\ \A i \in 1..n : SubSeq(k, 1, n)[i] = k[i]
  <1>1. Len(k) \in Nat /\ n \in Int /\ 1 \in Int
    OBVIOUS
  <1>2. \A i \in 1..n : k[i] \in STRING
    BY <1>1
  <1>3. /\ SubSeq(k, 1, n) \in Seq(STRING)
        /\ Len(SubSeq(k, 1, n)) = IF 1 <= n THEN n - 1 + 1 ELSE 0
        /\ \A i \in 1..n - 1 + 1 : SubSeq(k, 1, n)[i] = k[1 + i - 1]
    BY <1>1, <1>2, SubSeqProperties
  <1> QED
    BY <1>1, <1>3

LEMMA PathIsSeq == \A x \in AllPaths : x \in Seq(STRING)
  <1>1. ASSUME NEW k \in Keys, NEW x \in Ancestors(k) PROVE x \in Seq(STRING)
    <2>1. k \in Seq(STRING) /\ Len(k) \in Nat
      BY KeyIsSeq
    <2>2. PICK n \in 0..Len(k) - 1 : x = SubSeq(k, 1, n)
      BY DEF Ancestors
    <2>3. n \in 0..Len(k)
      BY <2>1
    <2> QED
      BY <2>1, <2>2, <2>3, Beginning
  <1>2. <<>> \in Seq(STRING)
    OBVIOUS
  <1> QED
    BY <1>1, <1>2, KeyIsSeq DEF AllPaths

\* An ancestor is above.
LEMMA AncestorIsAbove ==
    ASSUME NEW k \in Seq(STRING), NEW d \in Ancestors(k)
    PROVE  Under(k, d) /\ d # k
  <1>1. Len(k) \in Nat
    OBVIOUS
  <1>2. PICK n \in 0..Len(k) - 1 : d = SubSeq(k, 1, n)
    BY DEF Ancestors
  <1>3. n \in 0..Len(k)
    BY <1>1
  <1>4. Len(d) = n /\ \A i \in 1..n : d[i] = k[i]
    BY <1>2, <1>3, Beginning
  <1> QED
    BY <1>1, <1>3, <1>4 DEF Under

\* What is above is an ancestor.
LEMMA AboveIsAncestor ==
    ASSUME NEW k \in Seq(STRING), NEW p \in Seq(STRING), Under(k, p), p # k
    PROVE  p \in Ancestors(k)
  <1>1. Len(k) \in Nat /\ Len(p) \in 0..Len(k) /\ \A i \in 1..Len(p) : k[i] = p[i]
    BY DEF Under
  <1> DEFINE d == SubSeq(k, 1, Len(p))
  <1>2. d \in Seq(STRING) /\ Len(d) = Len(p) /\ \A i \in 1..Len(p) : d[i] = k[i]
    BY <1>1, Beginning
  <1> HIDE DEF d
  <1>3. d = p
    <2>1. \A i \in 1..Len(d) : d[i] = p[i]
      BY <1>1, <1>2
    <2> QED
      BY <1>2, <2>1, SeqEqual
  <1>4. Len(p) # Len(k)
    <2>1. SUFFICES ASSUME Len(p) = Len(k) PROVE FALSE
      OBVIOUS
    <2>2. \A i \in 1..Len(k) : k[i] = p[i]
      BY <1>1, <2>1
    <2>3. k = p
      BY <2>1, <2>2, SeqEqual
    <2> QED
      BY <2>3
  <1>5. Len(p) \in 0..Len(k) - 1
    BY <1>1, <1>4
  <1> QED
    BY <1>3, <1>5 DEF d, Ancestors

\* The ancestors of a key's directory, and the directory, are the key's.
LEMMA AncestorsOfParent ==
    ASSUME NEW k \in Seq(STRING), k # <<>>
    PROVE  Ancestors(k) \subseteq {Parent(k)} \cup Ancestors(Parent(k))
  <1>1. Len(k) \in Nat /\ Len(k) # 0 /\ Len(k) - 1 \in 0..Len(k)
    OBVIOUS
  <1>2. /\ Parent(k) \in Seq(STRING) /\ Len(Parent(k)) = Len(k) - 1
        /\ \A i \in 1..Len(k) - 1 : Parent(k)[i] = k[i]
    BY <1>1, Beginning DEF Parent
  <1> SUFFICES ASSUME NEW n \in 0..Len(k) - 1, SubSeq(k, 1, n) # Parent(k)
               PROVE  SubSeq(k, 1, n) \in Ancestors(Parent(k))
    BY DEF Ancestors
  <1> DEFINE d == SubSeq(k, 1, n)
  <1>3. n \in 0..Len(k) /\ n \in Nat
    BY <1>1
  <1>4. d \in Seq(STRING) /\ Len(d) = n /\ \A i \in 1..n : d[i] = k[i]
    BY <1>3, Beginning
  <1>5. d # Parent(k)
    OBVIOUS
  <1> HIDE DEF d
  <1>6. Under(Parent(k), d)
    BY <1>1, <1>2, <1>3, <1>4 DEF Under
  <1>7. d \in Ancestors(Parent(k))
    BY <1>2, <1>4, <1>5, <1>6, AboveIsAncestor
  <1> QED
    BY <1>7 DEF d

LEMMA AncestorsOfKey ==
    ASSUME NEW k \in Keys
    PROVE  Ancestors(k) \cap Keys = {}
  BY KeyIsSeq, AncestorIsAbove, KeyAssumption

\* An ancestor's ancestors are ancestors.
LEMMA AncestorsOfAncestor ==
    ASSUME NEW k \in Seq(STRING), NEW d \in Ancestors(k)
    PROVE  Ancestors(d) \subseteq Ancestors(k)
  <1>1. Len(k) \in Nat
    OBVIOUS
  <1>2. PICK n \in 0..Len(k) - 1 : d = SubSeq(k, 1, n)
    BY DEF Ancestors
  <1>3. n \in 0..Len(k)
    BY <1>1
  <1>4. d \in Seq(STRING) /\ Len(d) = n /\ \A i \in 1..n : d[i] = k[i]
    BY <1>2, <1>3, Beginning
  <1> SUFFICES ASSUME NEW m \in 0..Len(d) - 1 PROVE SubSeq(d, 1, m) \in Ancestors(k)
    BY DEF Ancestors
  <1> DEFINE e == SubSeq(d, 1, m)
  <1>5. m \in Nat /\ m < n /\ m \in 0..Len(d)
    BY <1>3, <1>4
  <1>6. e \in Seq(STRING) /\ Len(e) = m /\ \A i \in 1..m : e[i] = d[i]
    BY <1>4, <1>5, Beginning
  <1> HIDE DEF e
  <1>7. Under(k, e) /\ e # k
    BY <1>1, <1>3, <1>4, <1>5, <1>6 DEF Under
  <1>8. e \in Ancestors(k)
    BY <1>6, <1>7, AboveIsAncestor
  <1> QED
    BY <1>8 DEF e

\* What is under a path starts with its string, unless that is empty.
LEMMA PathIsString ==
    ASSUME NEW p \in Seq(STRING), NEW k \in Seq(STRING), Under(k, p), p # <<>>
    PROVE  StringUnder(k, p)
  <1>1. Len(p) \in Nat /\ Len(p) # 0
    OBVIOUS
  <1> QED
    BY <1>1 DEF Under, StringUnder

\* What is under a path that starts with a string starts with it.
LEMMA UnderStartsAlike ==
    ASSUME NEW k \in Seq(STRING), NEW r \in Seq(STRING), NEW p \in Seq(STRING),
           Under(k, r), Len(r) = Len(p), StringUnder(r, p)
    PROVE  StringUnder(k, p)
  <1>1. Len(p) \in Nat /\ Len(p) # 0 /\ Len(k) \in Nat
    BY DEF StringUnder
  <1>2. Len(p) <= Len(k) /\ \A i \in 1..Len(p) : k[i] = r[i]
    BY DEF Under
  <1>3. /\ p # <<>> /\ \A i \in 1..Len(p) - 1 : r[i] = p[i]
        /\ r[Len(p)] = p[Len(p)] \/ <<r[Len(p)], p[Len(p)]>> \in Starts
    BY DEF StringUnder
  <1>4. k[Len(p)] = r[Len(p)]
    BY <1>1, <1>2
  <1>5. \A i \in 1..Len(p) - 1 : k[i] = p[i]
    BY <1>1, <1>2, <1>3
  <1> QED
    BY <1>2, <1>3, <1>4, <1>5 DEF StringUnder

\* Under a prefix that ends with an identifier there is nothing but what has it as a
\* directory.
LEMMA IdIsWhole ==
    ASSUME NEW k \in Seq(STRING), NEW p \in Seq(STRING), StringUnder(k, p),
           p[Len(p)] \in Ids
    PROVE  Under(k, p)
  <1>1. Len(p) \in Nat /\ Len(p) # 0 /\ Len(p) <= Len(k)
    BY DEF StringUnder
  <1>2. k[Len(p)] = p[Len(p)]
    <2>1. ASSUME <<k[Len(p)], p[Len(p)]>> \in Starts PROVE FALSE
      BY <2>1, IdAssumption
    <2> QED
      BY <2>1 DEF StringUnder
  <1>3. ASSUME NEW i \in 1..Len(p) PROVE k[i] = p[i]
    <2>1. CASE i = Len(p)
      BY <1>2, <2>1
    <2>2. CASE i # Len(p)
      <3>1. i \in 1..Len(p) - 1
        BY <1>1, <2>2
      <3> QED
        BY <3>1 DEF StringUnder
    <2> QED
      BY <2>1, <2>2
  <1> QED
    BY <1>1, <1>3 DEF Under

----------------------------------------------------------------------------
(***************************************************************************)
(* Types.                                                                  *)
(***************************************************************************)
LEMMA StorageTypeInit == Init => TypeOK
  <1> SUFFICES ASSUME Init PROVE TypeOK
    OBVIOUS
  <1>1. Held = {} /\ Paths = {<<>>} /\ <<>> \notin Keys
    BY KeyAssumption DEF Init, Held, Paths
  <1>2. Ancestors(<<>>) = {}
    BY DEF Ancestors
  <1> QED
    BY <1>1, <1>2 DEF Init, TypeOK, AllPaths

LEMMA PathsAreTyped == TypeOK => Paths \subseteq AllPaths
  BY DEF TypeOK, Paths, Held, AllPaths

\* A step that keeps the directories, and adds no file but one whose directory is
\* there, keeps the tree.
LEMMA TreeGrows ==
    ASSUME TypeOK, backend' = backend, dirs \subseteq dirs',
           \A x \in Paths' \ Paths : backend = "local" => Ancestors(x) \subseteq dirs'
    PROVE  backend' = "local" => \A x \in Paths' : Ancestors(x)' \subseteq dirs'
  BY DEF TypeOK, Ancestors

LEMMA StorageTypeStep == TypeOK /\ [Next]_vars => TypeOK'
  <1> SUFFICES ASSUME TypeOK, [Next]_vars PROVE TypeOK'
    OBVIOUS
  <1> USE DEF localVars, s3Vars
  <1>1. ASSUME NEW k \in Keys, MakeParent(k) PROVE TypeOK'
    <2>1. dirs' = dirs \cup Ancestors(k) /\ held' = held /\ backend' = backend
      BY <1>1 DEF MakeParent
    <2>2. Paths' \ Paths \subseteq Ancestors(k)
      BY <2>1 DEF Paths, Held
    <2>3. \A x \in Ancestors(k) : Ancestors(x) \subseteq Ancestors(k)
      BY KeyIsSeq, AncestorsOfAncestor
    <2>4. backend' = "local" => \A x \in Paths' : Ancestors(x)' \subseteq dirs'
      BY <2>1, <2>2, <2>3, TreeGrows
    <2>5. Ancestors(k) \cap Keys = {} /\ Ancestors(k) \subseteq AllPaths
      BY AncestorsOfKey DEF AllPaths
    <2>6. save' \in [Keys -> {"no", "parent", "open"}]
      BY <1>1 DEF MakeParent, SaveStep, TypeOK
    <2> HIDE DEF Ancestors
    <2>7. AllPaths' = AllPaths
      BY DEF AllPaths, Ancestors
    <2>8. (dirs \cup roots \cup gone)' \subseteq AllPaths'
      BY <1>1, <2>1, <2>5, <2>7 DEF MakeParent, TypeOK
    <2> QED
      BY <1>1, <2>1, <2>4, <2>5, <2>6, <2>8 DEF MakeParent, TypeOK
  <1>2. ASSUME NEW k \in Keys, OpenFile(k) PROVE TypeOK'
    <2>1. /\ dirs' = dirs /\ backend' = backend /\ Parent(k) \in dirs
          /\ held' = [held EXCEPT ![k] = "cut"]
      BY <1>2 DEF OpenFile, Store
    <2>2. Paths' \subseteq Paths \cup {k}
      BY <2>1 DEF Paths, Held, TypeOK
    <2>3. backend = "local" => Ancestors(k) \subseteq dirs
      BY <2>1, KeyAssumption, AncestorsOfParent DEF TypeOK, Paths
    <2>4. backend' = "local" => \A x \in Paths' : Ancestors(x)' \subseteq dirs'
      BY <2>1, <2>2, <2>3, TreeGrows
    <2>5. save' \in [Keys -> {"no", "parent", "open"}] /\ kept' \subseteq Keys
      BY <1>2 DEF OpenFile, SaveStep, Store, TypeOK
    <2>6. held' \in [Keys -> {"none", "cut", "whole"}]
      BY <2>1 DEF TypeOK
    <2>7. (dirs \cup roots \cup gone)' \subseteq AllPaths'
      BY <1>2, <2>1 DEF OpenFile, TypeOK, AllPaths, Ancestors
    <2> QED
      BY <1>2, <2>1, <2>4, <2>5, <2>6, <2>7 DEF OpenFile, TypeOK
  <1>3. ASSUME NEW k \in Keys, FillFile(k) \/ SaveFails(k) PROVE TypeOK'
    <2>1. /\ dirs' = dirs /\ backend' = backend
          /\ save' \in [Keys -> {"no", "parent", "open"}]
          /\ held' \in [Keys -> {"none", "cut", "whole"}]
      BY <1>3 DEF FillFile, SaveFails, SaveStep, TypeOK
    <2>2. Held' = Held /\ Paths' = Paths
      BY <1>3 DEF FillFile, SaveFails, TypeOK, Held, Paths
    <2>3. backend' = "local" => \A x \in Paths' : Ancestors(x)' \subseteq dirs'
      BY <2>1, <2>2, TreeGrows
    <2>4. (dirs \cup roots \cup gone)' \subseteq AllPaths'
      BY <1>3 DEF FillFile, SaveFails, TypeOK, AllPaths, Ancestors
    <2> QED
      BY <1>3, <2>1, <2>3, <2>4 DEF FillFile, SaveFails, TypeOK
  <1>4. ASSUME NEW k \in Keys, PutObject(k) PROVE TypeOK'
    <2>1. /\ held' \in [Keys -> {"none", "cut", "whole"}] /\ kept' \subseteq Keys
          /\ (dirs \cup roots \cup gone)' \subseteq AllPaths'
      BY <1>4 DEF PutObject, Store, TypeOK, AllPaths, Ancestors
    <2> QED
      BY <1>4, <2>1 DEF PutObject, TypeOK
  <1>5. ASSUME NEW raw \in Prefixes, Begin(raw) PROVE TypeOK'
    <2>1. Found(Normalize(raw)) \subseteq AllPaths
      BY PathsAreTyped DEF Found, StartAlike
    <2>2. Paths' = Paths
      BY <1>5 DEF Begin, Paths, Held
    <2>3. backend' = "local" => \A x \in Paths' : Ancestors(x)' \subseteq dirs'
      BY <1>5, <2>2, TreeGrows DEF Begin
    <2>4. (dirs \cup roots \cup gone)' \subseteq AllPaths'
      BY <1>5, <2>1 DEF Begin, TypeOK, AllPaths, Ancestors
    <2>5. prefix' \in {<<>>} \cup {Normalize(x) : x \in Prefixes}
      BY <1>5 DEF Begin
    <2> QED
      BY <1>5, <2>3, <2>4, <2>5 DEF Begin, TypeOK
  <1>6. CASE RemoveEntry
    <2>1. PICK x \in Paths \ gone :
            /\ \A y \in Paths : Under(y, x) => y = x
            /\ held' = [k \in Keys |-> IF k = x THEN "none" ELSE held[k]]
            /\ dirs' = dirs \ {x} /\ gone' = gone \cup {x}
      BY <1>6 DEF RemoveEntry
    <2>2. Paths' \subseteq Paths \ {x}
      BY <2>1 DEF Paths, Held
    <2>3. \A y \in Paths' : x \notin Ancestors(y)
      BY <2>1, <2>2, PathsAreTyped, PathIsSeq, AncestorIsAbove
    <2>4. backend' = "local" => \A y \in Paths' : Ancestors(y) \subseteq dirs'
      BY <1>6, <2>1, <2>2, <2>3 DEF TypeOK, RemoveEntry
    <2>5. (dirs \cup roots \cup gone)' \subseteq AllPaths'
      BY <1>6, <2>1, PathsAreTyped DEF RemoveEntry, TypeOK, AllPaths, Ancestors
    <2>6. held' \in [Keys -> {"none", "cut", "whole"}] /\ dirs' \cap Keys = {}
      BY <2>1 DEF TypeOK
    <2>7. backend' = "local" => \A y \in Paths' : Ancestors(y)' \subseteq dirs'
      BY <2>4 DEF Ancestors
    <2> QED
      BY <1>6, <2>5, <2>6, <2>7 DEF RemoveEntry, TypeOK
  <1>7. CASE ListPage
    <2>1. batch' \subseteq Keys /\ after' \in Nat /\ more' \in BOOLEAN
      BY <1>7, OrderAssumption DEF ListPage, Listed, Held
    <2>2. Paths' = Paths
      BY <1>7 DEF ListPage, Paths, Held
    <2>3. backend' = "local" => \A x \in Paths' : Ancestors(x)' \subseteq dirs'
      BY <1>7, <2>2, TreeGrows DEF ListPage
    <2>4. (dirs \cup roots \cup gone)' \subseteq AllPaths'
      BY <1>7 DEF ListPage, TypeOK, AllPaths, Ancestors
    <2> QED
      BY <1>7, <2>1, <2>3, <2>4 DEF ListPage, TypeOK
  <1>8. CASE DeleteObjects
    <2>1. PICK refused \in SUBSET batch :
            /\ held' = [k \in Keys |-> IF k \in batch \ refused THEN "none" ELSE held[k]]
            /\ kept' = kept \cup refused
      BY <1>8 DEF DeleteObjects
    <2>2. held' \in [Keys -> {"none", "cut", "whole"}] /\ kept' \subseteq Keys
      BY <2>1 DEF TypeOK
    <2>3. Paths' \subseteq Paths
      BY <1>8, <2>1 DEF DeleteObjects, Paths, Held
    <2>4. backend' = "local" => \A x \in Paths' : Ancestors(x)' \subseteq dirs'
      BY <1>8, <2>3, TreeGrows DEF DeleteObjects
    <2>5. (dirs \cup roots \cup gone)' \subseteq AllPaths'
      BY <1>8 DEF DeleteObjects, TypeOK, AllPaths, Ancestors
    <2> QED
      BY <1>8, <2>2, <2>4, <2>5 DEF DeleteObjects, TypeOK
  <1>9. CASE ListNothing \/ Return \/ DeletionFails \/ UNCHANGED vars
    <2>1. Paths' = Paths /\ dirs' = dirs /\ backend' = backend
      BY <1>9 DEF ListNothing, Return, DeletionFails, End, vars, Paths, Held
    <2>2. backend' = "local" => \A x \in Paths' : Ancestors(x)' \subseteq dirs'
      BY <2>1, TreeGrows
    <2>3. (dirs \cup roots \cup gone)' \subseteq AllPaths'
      BY <1>9, <2>1 DEF ListNothing, Return, DeletionFails, End, vars, TypeOK, AllPaths,
                        Ancestors
    <2>4. CASE ListNothing \/ UNCHANGED vars
      BY <2>2, <2>3, <2>4 DEF ListNothing, vars, TypeOK
    <2>5. ASSUME NEW outcome \in {"idle", "raised"}, End(outcome) PROVE TypeOK'
      BY <2>2, <2>3, <2>5 DEF End, TypeOK
    <2> QED
      BY <1>9, <2>4, <2>5 DEF Return, DeletionFails
  <1> QED
    BY <1>1, <1>2, <1>3, <1>4, <1>5, <1>6, <1>7, <1>8, <1>9 DEF Next, Save, Deletion

----------------------------------------------------------------------------
(***************************************************************************)
(* Deletions.                                                              *)
(***************************************************************************)
LEMMA StorageInit == Init => StorageInv
  BY StorageTypeInit DEF Init, StorageInv, RemovingInv, ListingInv, IdleInv, InProgress

\* The local backend finds the prefix, or what starts like it, and nothing under the
\* prefix is elsewhere.
LEMMA FoundIsAll ==
    ASSUME TypeOK, backend = "local", NEW p \in Seq(STRING),
           NEW k \in Held, Under(k, p)
    PROVE  p \in Paths /\ Found(p) = {p}
  <1>1. k \in Seq(STRING) /\ k \in Paths
    BY KeyIsSeq DEF Held, Paths
  <1>2. p \in Paths
    BY <1>1, AboveIsAncestor DEF TypeOK, Paths
  <1> QED
    BY <1>2 DEF Found

\* A save meanwhile.
LEMMA SavePreserves ==
    ASSUME StorageInv, NEW k \in Keys, Save(k) PROVE RemovingInv' /\ ListingInv' /\ IdleInv'
  <1> USE DEF localVars, s3Vars
  <1>1. /\ backend' = backend /\ call' = call /\ prefix' = prefix /\ roots' = roots
        /\ gone' = gone /\ batch' = batch /\ after' = after /\ more' = more
    BY DEF Save, MakeParent, OpenFile, FillFile, SaveFails, PutObject
  <1>2. /\ kept \subseteq kept'
        /\ \A l \in Held' \ Held : InProgress /\ Below(l, prefix) => l \in kept'
    BY DEF Save, MakeParent, OpenFile, FillFile, SaveFails, PutObject, Store, StorageInv,
           TypeOK, Held
  <1>3. RemovingInv'
    BY <1>1, <1>2 DEF StorageInv, RemovingInv, InProgress, Below, Under, StringUnder
  <1>4. ListingInv'
    BY <1>1, <1>2 DEF StorageInv, ListingInv, InProgress, Below, Under, StringUnder
  <1> QED
    BY <1>1, <1>3, <1>4 DEF StorageInv, IdleInv, InProgress

LEMMA BeginPreserves ==
    ASSUME StorageInv, NEW raw \in Prefixes, Begin(raw)
    PROVE  RemovingInv' /\ ListingInv' /\ IdleInv'
  <1> USE DEF localVars, s3Vars
  <1> DEFINE p == Normalize(raw)
  <1>1. /\ p \in Seq(STRING) /\ prefix' = p /\ Held' = Held /\ backend' = backend
        /\ gone' = {} /\ batch' = {} /\ after' = 0 /\ kept' = kept
    BY KeyAssumption DEF Begin, StorageInv, IdleInv, Held
  <1>2. CASE backend = "local"
    <2>1. call' = "removing" /\ roots' = Found(p)
      BY <1>2 DEF Begin
    <2>2. \A k \in Held : Under(k, p) => Found(p) = {p}
      BY <1>1, <1>2, FoundIsAll DEF StorageInv
    <2>3. IF p \in Found(p) THEN Found(p) = {p}
          ELSE \A root \in Found(p) : Len(root) = Len(p) /\ StringUnder(root, p)
      BY DEF Found, StartAlike
    <2> HIDE DEF p
    <2>4. RemovingInv'
      BY <1>1, <1>2, <2>1, <2>2, <2>3 DEF RemovingInv, Under, StringUnder
    <2> QED
      BY <2>1, <2>4 DEF ListingInv, IdleInv, InProgress
  <1>3. CASE backend # "local"
    <2>1. call' = "listing" /\ roots' = {} /\ backend = "s3"
      BY <1>3 DEF Begin, StorageInv, TypeOK
    <2>2. \A k \in Held : Order[k] > 0
      BY OrderAssumption DEF Held
    <2> HIDE DEF p
    <2>3. ListingInv'
      BY <1>1, <2>1, <2>2 DEF ListingInv
    <2> QED
      BY <2>1, <2>3 DEF RemovingInv, IdleInv, InProgress
  <1> QED
    BY <1>2, <1>3

\* An entry without entries: what is left under a root that is removed is nothing.
LEMMA RemoveEntryPreserves ==
    ASSUME StorageInv, RemoveEntry PROVE RemovingInv' /\ ListingInv' /\ IdleInv'
  <1> USE DEF localVars, s3Vars
  <1>1. PICK x \in Paths \ gone :
          /\ \A y \in Paths : Under(y, x) => y = x
          /\ held' = [k \in Keys |-> IF k = x THEN "none" ELSE held[k]]
          /\ gone' = gone \cup {x}
    BY DEF RemoveEntry
  <1>2. /\ backend' = backend /\ call = "removing" /\ call' = call /\ prefix' = prefix
        /\ roots' = roots /\ kept' = kept
    BY DEF RemoveEntry
  <1>3. Held' = Held \ {x}
    BY <1>1 DEF Held
  <1>4. \A k \in Held' : Under(k, prefix) =>
          k \in kept' \/ \E root \in roots' \ gone' : Under(k, root)
    <2> SUFFICES ASSUME NEW k \in Held', Under(k, prefix), k \notin kept
                 PROVE  \E root \in roots \ gone' : Under(k, root)
      BY <1>2
    <2>1. PICK root \in roots \ gone : Under(k, root)
      BY <1>2, <1>3 DEF StorageInv, RemovingInv
    <2>2. root # x
      BY <1>1, <1>3, <2>1 DEF Paths
    <2> QED
      BY <1>1, <2>1, <2>2
  <1>5. RemovingInv'
    BY <1>2, <1>4 DEF StorageInv, RemovingInv, Under, StringUnder
  <1> QED
    BY <1>2, <1>5 DEF ListingInv, IdleInv, InProgress

LEMMA ListPagePreserves ==
    ASSUME StorageInv, ListPage PROVE RemovingInv' /\ ListingInv' /\ IdleInv'
  <1> USE DEF localVars, s3Vars
  <1>1. PICK last \in Listed :
          batch' = {k \in Listed : Order[k] <= Order[last]} /\ after' = Order[last]
    BY DEF ListPage
  <1>2. /\ call = "listing" /\ call' = "deleting" /\ more' = (batch' # Listed)
        /\ backend' = backend /\ prefix' = prefix /\ roots' = roots /\ kept' = kept
        /\ held' = held /\ Held' = Held
    BY DEF ListPage, Held
  <1>3. \A k \in Held : StringUnder(k, prefix) => k \in kept \/ k \in Listed
    BY <1>2 DEF StorageInv, ListingInv, Listed
  <1>4. \A k \in Listed : Order[k] \in Nat /\ StringUnder(k, prefix)
    BY OrderAssumption DEF Listed, Held
  <1>5. \A k \in Held : StringUnder(k, prefix) =>
          k \in kept \/ (Order[k] > after' /\ more') \/ k \in batch'
    <2>1. ASSUME NEW k \in Listed, k \notin batch' PROVE Order[k] > after' /\ more'
      <3>1. ~(Order[k] <= Order[last])
        BY <1>1, <2>1
      <3>2. Order[k] > Order[last]
        BY <1>4, <3>1
      <3> QED
        BY <1>1, <1>2, <2>1, <3>2
    <2> QED
      BY <1>3, <2>1
  <1>6. ListingInv'
    BY <1>1, <1>2, <1>4, <1>5 DEF StorageInv, ListingInv, StringUnder
  <1> QED
    BY <1>2, <1>6 DEF RemovingInv, IdleInv, InProgress

LEMMA DeleteObjectsPreserves ==
    ASSUME StorageInv, DeleteObjects PROVE RemovingInv' /\ ListingInv' /\ IdleInv'
  <1> USE DEF localVars, s3Vars
  <1>1. PICK refused \in SUBSET batch :
          /\ held' = [k \in Keys |-> IF k \in batch \ refused THEN "none" ELSE held[k]]
          /\ kept' = kept \cup refused
    BY DEF DeleteObjects
  <1>2. /\ call = "deleting" /\ call' = (IF more THEN "listing" ELSE "returning")
        /\ batch' = {} /\ backend' = backend /\ prefix' = prefix /\ roots' = roots
        /\ after' = after
    BY DEF DeleteObjects, IsTruncated
  <1>3. \A k \in Held' : k \in Held /\ (k \in batch => k \in kept')
    BY <1>1 DEF Held
  <1>4. \A k \in Held' : StringUnder(k, prefix) =>
          k \in kept' \/ (Order[k] > after /\ call' = "listing")
    BY <1>1, <1>2, <1>3 DEF StorageInv, ListingInv
  <1>5. ListingInv'
    BY <1>2, <1>4 DEF StorageInv, ListingInv, StringUnder
  <1> QED
    BY <1>2, <1>5 DEF RemovingInv, IdleInv, InProgress

LEMMA StorageStep == StorageInv /\ [Next]_vars => StorageInv'
  <1> SUFFICES ASSUME StorageInv, [Next]_vars PROVE StorageInv'
    OBVIOUS
  <1>t. TypeOK'
    BY StorageTypeStep DEF StorageInv
  <1>1. CASE ListNothing
    <2>1. Held' = Held
      BY <1>1 DEF ListNothing, Held
    <2> QED
      BY <1>t, <1>1, <2>1 DEF ListNothing, localVars, s3Vars, Listed, StorageInv,
                              RemovingInv, ListingInv, IdleInv, InProgress
  <1>2. ASSUME NEW outcome \in {"idle", "raised"}, End(outcome) PROVE StorageInv'
    BY <1>t, <1>2 DEF End, StorageInv, RemovingInv, ListingInv, IdleInv, InProgress
  <1>3. CASE UNCHANGED vars
    BY <1>t, <1>3 DEF vars, localVars, s3Vars, StorageInv, RemovingInv, ListingInv, IdleInv,
                      InProgress, Held, Under, StringUnder
  <1> QED
    BY <1>t, <1>1, <1>2, <1>3, SavePreserves, BeginPreserves, RemoveEntryPreserves,
       ListPagePreserves, DeleteObjectsPreserves
       DEF Next, Deletion, Return, DeletionFails, StorageInv

\* A call that returns has nothing left to do.
LEMMA ReturnIsComplete ==
    ASSUME StorageInv, [Next]_vars, InProgress, call' = "idle",
           NEW k \in Held, Under(k, prefix)
    PROVE  k \in kept \/ (backend = "s3" /\ prefix = <<>>)
  <1>1. Return
    BY DEF Next, Save, Deletion, MakeParent, OpenFile, FillFile, SaveFails, PutObject, Begin,
           RemoveEntry, ListPage, ListNothing, DeleteObjects, DeletionFails, End, vars,
           InProgress
  <1>2. CASE call = "removing"
    <2>1. roots \ gone = {}
      BY <1>1, <1>2 DEF Return
    <2> QED
      BY <1>2, <2>1 DEF StorageInv, RemovingInv
  <1>3. CASE call = "returning"
    <2>1. prefix # <<>> => StringUnder(k, prefix)
      BY KeyIsSeq, PrefixIsSeq, PathIsString DEF Held, StorageInv
    <2> QED
      BY <1>3, <2>1 DEF StorageInv, ListingInv
  <1> QED
    BY <1>1, <1>2, <1>3 DEF Return

\* What a step takes away.
LEMMA TakenIsBelow ==
    ASSUME StorageInv, [Next]_vars, NEW k \in Held \ Held'
    PROVE  /\ Below(k, prefix)
           /\ prefix \in roots => Under(k, prefix)
           /\ prefix # <<>> /\ prefix[Len(prefix)] \in Ids => Under(k, prefix)
  <1>0. k \in Keys /\ k \in Seq(STRING) /\ prefix \in Seq(STRING)
    BY KeyIsSeq, PrefixIsSeq DEF Held, StorageInv
  <1>1. RemoveEntry \/ DeleteObjects
    BY DEF Next, Save, Deletion, MakeParent, OpenFile, FillFile, SaveFails, PutObject, Begin,
           ListPage, ListNothing, Return, DeletionFails, End, Store, vars, Held, StorageInv,
           TypeOK
  <1>2. ASSUME StringUnder(k, prefix), prefix \notin roots
        PROVE  /\ Below(k, prefix)
               /\ prefix[Len(prefix)] \in Ids => Under(k, prefix)
    BY <1>0, <1>2, IdIsWhole DEF Below
  <1>3. CASE RemoveEntry
    <2>1. PICK x \in Paths \ gone :
            /\ \E root \in roots : Under(x, root)
            /\ held' = [l \in Keys |-> IF l = x THEN "none" ELSE held[l]]
      BY <1>3 DEF RemoveEntry
    <2>2. x = k
      BY <2>1 DEF Held
    <2>3. PICK root \in roots : Under(k, root)
      BY <2>1, <2>2
    <2>4. root \in Seq(STRING)
      BY PathIsSeq DEF StorageInv, TypeOK
    <2>5. CASE prefix \in roots
      BY <1>3, <2>3, <2>5 DEF RemoveEntry, StorageInv, RemovingInv, Below
    <2>6. CASE prefix \notin roots
      <3>1. Len(root) = Len(prefix) /\ StringUnder(root, prefix)
        BY <1>3, <2>6 DEF RemoveEntry, StorageInv, RemovingInv
      <3>2. StringUnder(k, prefix)
        BY <1>0, <2>3, <2>4, <3>1, UnderStartsAlike
      <3> QED
        BY <1>2, <2>6, <3>2
    <2> QED
      BY <2>5, <2>6
  <1>4. CASE DeleteObjects
    <2>1. k \in batch
      BY <1>4 DEF DeleteObjects, Held
    <2>2. StringUnder(k, prefix) /\ prefix \notin roots
      BY <1>4, <2>1 DEF DeleteObjects, StorageInv, ListingInv
    <2> QED
      BY <1>2, <2>2
  <1> QED
    BY <1>1, <1>3, <1>4

\* Every variable keeps its type, and the directories and files are those of a tree.
THEOREM StorageTypeInvariant == Spec => []TypeOK
  BY StorageTypeInit, StorageTypeStep, PTL DEF Spec

\* A delete_prefix that returns has left under its prefix only what was saved since the
\* call or what S3 refused to delete: the page by page loop misses no key that stays,
\* the local removal no file, whatever other processes save between their steps and
\* wherever earlier calls raised.
THEOREM ReturnedCallsAreComplete == Spec => ReturnedMeansGone
  <1>1. StorageInv /\ [Next]_vars =>
          [InProgress /\ call' = "idle" =>
             \A k \in Held : Under(k, prefix) =>
               k \in kept \/ (backend = "s3" /\ prefix = <<>>)]_vars
    BY ReturnIsComplete
  <1> QED
    BY <1>1, StorageInit, StorageStep, PTL DEF Spec, ReturnedMeansGone

\* A deletion takes only what starts like its prefix; where the prefix was found as a
\* file or directory, or ends with an identifier, it takes nothing beside it.
THEOREM DeletionsStayUnderPrefix == Spec => DeletesOnlyUnderPrefix
  <1>1. StorageInv /\ [Next]_vars =>
          [\A k \in Held \ Held' :
             /\ Below(k, prefix)
             /\ prefix \in roots => Under(k, prefix)
             /\ prefix # <<>> /\ prefix[Len(prefix)] \in Ids => Under(k, prefix)]_vars
    BY TakenIsBelow
  <1> QED
    BY <1>1, StorageInit, StorageStep, PTL DEF Spec, DeletesOnlyUnderPrefix
=============================================================================
