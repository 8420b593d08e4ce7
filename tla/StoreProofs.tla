---------------------------- MODULE StoreProofs ----------------------------
(***************************************************************************)
(* Proofs about Store for every set of keys, file names, hashes and        *)
(* processes. HealInv holds with every fault; IndInv when no import        *)
(* overlaps another operation on its key, no put is torn over a live       *)
(* generation and no file is lost.                                         *)
(***************************************************************************)
EXTENDS Store, FiniteSetTheorems, TLAPS

NoFaults == ~OverlappingImport /\ ~TornPublish /\ Damage = {}

-----------------------------------------------------------------------------
(* Counting references.                                                    *)

\* The references of one key, and all references on a blob, can be counted.
LEMMA RefsFinite ==
    ASSUME NEW m \in [Key -> Content \cup {None}], NEW h \in Hash,
           NEW k \in Key, NEW c \in Content \cup {None}
    PROVE  /\ IsFiniteSet(RefsOn(m, h))
           /\ IsFiniteSet(Owned(k, c, h))
           /\ Cardinality(RefsOn(m, h)) \in Nat
           /\ Cardinality(Owned(k, c, h)) \in Nat
<1>1. IsFiniteSet(Key \X Name)
  BY FS_Product, StoreAssumption
<1>2. RefsOn(m, h) \in SUBSET (Key \X Name)
  BY DEF RefsOn
<1>3. Owned(k, c, h) \in SUBSET (Key \X Name)
  BY DEF Owned, FilesOn
<1> QED
  BY <1>1, <1>2, <1>3, FS_Subset, FS_CardinalityType

\* Replacing the file list of one key exchanges exactly that key's references.
LEMMA RefsExchange ==
    ASSUME NEW m \in [Key -> Content \cup {None}], NEW h \in Hash,
           NEW k \in Key, NEW c \in Content \cup {None}
    PROVE  Cardinality(RefsOn([m EXCEPT ![k] = c], h)) =
               Cardinality(RefsOn(m, h)) - Cardinality(Owned(k, m[k], h))
                                         + Cardinality(Owned(k, c, h))
<1> DEFINE all == RefsOn(m, h)
           old == Owned(k, m[k], h)
           new == Owned(k, c, h)
           rest == all \ old
<1>1. m[k] \in Content \cup {None}
  OBVIOUS
<1>2. old \subseteq all
  BY <1>1 DEF Owned, RefsOn, FilesOn
<1>3. RefsOn([m EXCEPT ![k] = c], h) = rest \cup new
  BY <1>1 DEF Owned, RefsOn, FilesOn
<1>4. rest \cap new = {}
  BY <1>1 DEF Owned, RefsOn, FilesOn
<1>5. IsFiniteSet(all) /\ IsFiniteSet(old) /\ IsFiniteSet(new)
  BY <1>1, RefsFinite
<1>6. /\ IsFiniteSet(rest)
      /\ Cardinality(rest) = Cardinality(all) - Cardinality(old)
  <2>1. all \cap old = old
    BY <1>2
  <2> HIDE DEF all, old, rest
  <2>2. /\ IsFiniteSet(all \ old)
        /\ Cardinality(all \ old) = Cardinality(all) - Cardinality(all \cap old)
    BY <1>5, FS_Difference
  <2> QED
    BY <2>1, <2>2 DEF rest
<1>7. Cardinality(rest \cup new) = Cardinality(rest) + Cardinality(new)
  <2> HIDE DEF new, rest
  <2>1. Cardinality(rest \cup new) =
            Cardinality(rest) + Cardinality(new) - Cardinality(rest \cap new)
    BY <1>5, <1>6, FS_Union
  <2>2. Cardinality(rest \cap new) = 0
    BY <1>4, FS_EmptySet
  <2>3. Cardinality(rest) \in Nat /\ Cardinality(new) \in Nat
    BY <1>5, <1>6, FS_CardinalityType
  <2> QED
    BY <2>1, <2>2, <2>3
<1> HIDE DEF all, old, new, rest
<1> QED
  BY <1>3, <1>6, <1>7 DEF all, old, new

\* Every count the SQL statements compute is a natural number.
LEMMA CountTypes ==
    ASSUME TypeOK, NEW k \in Key, NEW c \in Content \cup {None}
    PROVE  /\ Taken(Released(k), k, c) \in [Hash -> Nat]
           /\ Spent(k, c) \in [Hash -> Nat]
<1>1. ASSUME NEW h \in Hash
      PROVE  /\ Cardinality(RefsOn(map, h)) \in Nat
             /\ Cardinality(Owned(k, map[k], h)) \in Nat
             /\ Cardinality(Owned(k, c, h)) \in Nat
             /\ refs[h] \in Nat
  BY RefsFinite DEF TypeOK
<1>2. ASSUME NEW h \in Hash PROVE Floor(k, h) \in Nat
  BY <1>1 DEF Floor, Larger
<1>3. Released(k) \in [Hash -> Nat]
  BY <1>1, <1>2 DEF Released, Larger
<1> QED
  BY <1>1, <1>2, <1>3 DEF Taken, Spent, Larger

\* A registration leaves every blob counted at least as often as it is owned.
LEMMA RegisterCovers ==
    ASSUME TypeOK, RefcountCovers, NEW k \in Key, NEW c \in Content, Register(k, c)
    PROVE  RefcountCovers'
<1> SUFFICES ASSUME NEW h \in Hash
             PROVE  refs'[h] >= Cardinality(RefsOn(map', h))
  BY DEF RefcountCovers
<1>1. /\ map \in [Key -> Content \cup {None}] /\ map[k] \in Content \cup {None}
      /\ refs[h] \in Nat
  BY DEF TypeOK
<1>2. /\ Cardinality(RefsOn(map, h)) \in Nat
      /\ Cardinality(Owned(k, map[k], h)) \in Nat
      /\ Cardinality(Owned(k, c, h)) \in Nat
  BY <1>1, RefsFinite
<1>3. Cardinality(RefsOn(map', h)) =
          Cardinality(RefsOn(map, h)) - Cardinality(Owned(k, map[k], h))
                                      + Cardinality(Owned(k, c, h))
  BY <1>1, RefsExchange DEF Register
<1>4. refs[h] >= Cardinality(RefsOn(map, h))
  BY DEF RefcountCovers
<1>5. refs'[h] = Larger(0, Floor(k, h) - Cardinality(Owned(k, map[k], h)))
                     + Cardinality(Owned(k, c, h))
  BY DEF Register, Taken, Released
<1> QED
  BY <1>1, <1>2, <1>3, <1>4, <1>5 DEF Floor, Larger

\* A removal gives back exactly what the removed key owned.
LEMMA RemovalCovers ==
    ASSUME TypeOK, RefcountCovers, NEW k \in Key,
           map' = [map EXCEPT ![k] = None], refs' = Spent(k, map[k])
    PROVE  RefcountCovers'
<1> SUFFICES ASSUME NEW h \in Hash
             PROVE  refs'[h] >= Cardinality(RefsOn(map', h))
  BY DEF RefcountCovers
<1>1. /\ map \in [Key -> Content \cup {None}] /\ map[k] \in Content \cup {None}
      /\ refs[h] \in Nat
  BY DEF TypeOK
<1>2. /\ Cardinality(RefsOn(map, h)) \in Nat
      /\ Cardinality(Owned(k, map[k], h)) \in Nat
  BY <1>1, RefsFinite
<1>3. Cardinality(Owned(k, None, h)) = 0
  <2>1. Owned(k, None, h) = {}
    BY DEF Owned, FilesOn
  <2> QED
    BY <2>1, FS_EmptySet
<1>4. Cardinality(RefsOn(map', h)) =
          Cardinality(RefsOn(map, h)) - Cardinality(Owned(k, map[k], h))
                                      + Cardinality(Owned(k, None, h))
  BY <1>1, RefsExchange
<1>5. refs[h] >= Cardinality(RefsOn(map, h))
  BY DEF RefcountCovers
<1> QED
  BY <1>1, <1>2, <1>3, <1>4, <1>5 DEF Spent, Floor, Larger

\* An uncounted blob is owned by no entry.
LEMMA UncountedIsDead ==
    ASSUME TypeOK, RefcountCovers, NEW h \in Hash, refs[h] = 0, NEW k \in Key
    PROVE  h \notin HashesOf(map[k])
<1>1. map \in [Key -> Content \cup {None}]
  BY DEF TypeOK
<1>2. IsFiniteSet(RefsOn(map, h)) /\ Cardinality(RefsOn(map, h)) \in Nat
  BY <1>1, RefsFinite
<1>3. Cardinality(RefsOn(map, h)) = 0
  BY <1>2 DEF RefcountCovers
<1>4. RefsOn(map, h) = {}
  BY <1>2, <1>3, FS_EmptySet
<1>5. FilesOn(map[k], h) = {}
  <2> SUFFICES ASSUME NEW n \in FilesOn(map[k], h) PROVE FALSE
    OBVIOUS
  <2>1. n \in Name
    BY DEF FilesOn
  <2>2. <<k, n>> \in RefsOn(map, h)
    BY <2>1 DEF RefsOn
  <2> QED
    BY <2>2, <1>4
<1> QED
  BY <1>5 DEF HashesOf

\* An absent row or meta.json refers to nothing.
LEMMA NoFilesNoHashes == HashesOf(None) = {}
  BY DEF HashesOf, FilesOn

-----------------------------------------------------------------------------
(* The type invariant, one step per action.                                *)

\* Staging, publishing and registering an entry keep the types.
LEMMA PutType ==
    ASSUME TypeOK, Working, NEW p \in Proc, Put(p)
    PROVE  TypeOK'
<1> USE StoreAssumption DEF TypeOK, Goto, PCs, Content, Fault, hist
<1>1. CASE \E k \in Key, c \in Outputs : PutStage(p, k, c)
  BY <1>1 DEF PutStage, HashesOf, db, disk
<1>2. CASE \E h \in Hash : PutPublish(p, h)
  BY <1>2 DEF PutPublish, db
<1>3. CASE PutRegister(p)
  BY <1>3 DEF PutRegister, HashesOf, db
<1>4. CASE PutMismatch(p)
  BY <1>4 DEF PutMismatch, Idle, HashesOf, db
<1>5. CASE PutMeta(p)
  BY <1>5 DEF PutMeta, Working, db
<1>6. CASE PutCommit(p)
  <2> USE <1>6 DEF PutCommit
  <2>1. key[p] \in Key /\ files[p] \in Content
    BY DEF Working
  <2>2. Taken(Released(key[p]), key[p], files[p]) \in [Hash -> Nat]
    BY <2>1, CountTypes
  <2> QED
    BY <2>1, <2>2 DEF Register, Idle, disk
<1> QED
  BY <1>1, <1>2, <1>3, <1>4, <1>5, <1>6 DEF Put

\* Both transactions of a removal keep the types.
LEMMA RemoveType ==
    ASSUME TypeOK, Working, NEW p \in Proc, Remove(p)
    PROVE  TypeOK'
<1> USE StoreAssumption DEF TypeOK, Goto, PCs, Fault, hist
<1>1. CASE \E k \in Key : RemoveCall(p, k)
  BY <1>1 DEF RemoveCall, db, disk
<1>2. CASE RemoveRead(p)
  BY <1>2 DEF RemoveRead, Working, db, disk
<1>3. CASE RemoveSettle(p)
  BY <1>3 DEF RemoveSettle, Idle, db, disk
<1>4. CASE RemoveSkip(p)
  BY <1>4 DEF RemoveSkip, Idle, db, disk
<1>5. CASE RemoveTx(p)
  <2> DEFINE k == key[p]
             c == files[p]
  <2>1. key[p] \in Key /\ files[p] \in Content
    BY <1>5 DEF RemoveTx, Working
  <2>2. Spent(key[p], files[p]) \in [Hash -> Nat]
    BY <2>1, CountTypes
  <2>3. CASE row[k] = None \/ meta[k] # c
    BY <1>5, <2>3 DEF RemoveTx, Idle, db, disk
  <2>4. CASE ~(row[k] = None \/ meta[k] # c)
    <3>1. {h \in HashesOf(c) : Floor(k, h) > 0 /\ Spent(k, c)[h] = 0} \subseteq Hash
      BY DEF HashesOf
    <3> QED
      BY <1>5, <2>1, <2>2, <2>4, <3>1 DEF RemoveTx, disk
  <2> QED
    BY <2>3, <2>4
<1>6. CASE RemoveDir(p)
  <2>1. NoArt \in Content
    BY DEF NoArt, Content
  <2> QED
    BY <1>6, <2>1 DEF RemoveDir, db
<1>7. CASE \E h \in Hash : RemoveUnlink(p, h)
  BY <1>7 DEF RemoveUnlink, db
<1>8. CASE RemoveDone(p)
  BY <1>8 DEF RemoveDone, Idle, db, disk
<1> QED
  BY <1>1, <1>2, <1>3, <1>4, <1>5, <1>6, <1>7, <1>8 DEF Remove

\* The orphan sweep keeps the types.
LEMMA SweepType ==
    ASSUME TypeOK, NEW p \in Proc, Sweep(p)
    PROVE  TypeOK'
<1> USE StoreAssumption DEF TypeOK, Goto, PCs, Fault, hist
<1>1. CASE SweepScan(p)
  BY <1>1 DEF SweepScan, db, disk
<1>2. CASE SweepUnlink(p)
  BY <1>2 DEF SweepUnlink, Idle, db
<1> QED
  BY <1>1, <1>2 DEF Sweep

\* Extraction, import and its clean-up keep the types.
LEMMA ImportType ==
    ASSUME TypeOK, Working, NEW p \in Proc, Import(p)
    PROVE  TypeOK'
<1> USE StoreAssumption DEF TypeOK, Goto, PCs, Fault, hist
<1>1. NoArt \in Content
  BY DEF NoArt, Content
<1>2. CASE \E k \in Key : Download(p, k)
  BY <1>2 DEF Download, db, disk
<1>3. CASE ExtractClear(p)
  BY <1>1, <1>3 DEF ExtractClear, db
<1>4. CASE \E c \in Outputs : ExtractRename(p, c)
  <2>1. PICK c \in Outputs : ExtractRename(p, c)
    BY <1>4
  <2>2. key[p] \in Key
    BY <2>1 DEF ExtractRename, Working
  <2>3. /\ c \in Content
        /\ [n \in Name |-> IF c[n] = None THEN art[key[p]][n] ELSE c[n]] \in Content
    BY <2>2 DEF Content
  <2> QED
    BY <2>1, <2>2, <2>3 DEF ExtractRename, db
<1>5. CASE ImportVerify(p)
  <2>1. key[p] \in Key
    BY <1>5 DEF ImportVerify, Working
  <2> QED
    BY <1>5, <2>1 DEF ImportVerify, db, disk
<1>6. ASSUME NEW M \in Movable(p), MoveBlobs(p, M), key[p] \in Key
      PROVE  blob' \in SUBSET Hash /\ art' \in [Key -> Content]
  <2>1. [n \in Name |-> IF n \in M THEN None ELSE art[key[p]][n]] \in Content
    BY <1>6 DEF Content
  <2> QED
    BY <1>6, <2>1 DEF MoveBlobs, Movable
<1>7. CASE ImportMove(p)
  <2>1. key[p] \in Key
    BY <1>7 DEF ImportMove, Working
  <2>2. blob' \in SUBSET Hash /\ art' \in [Key -> Content]
    BY <1>6, <1>7, <2>1 DEF ImportMove
  <2> QED
    BY <1>7, <2>2 DEF ImportMove, db
<1>8. CASE ImportVanished(p)
  <2>1. key[p] \in Key
    BY <1>8 DEF ImportVanished, Working
  <2>2. blob' \in SUBSET Hash /\ art' \in [Key -> Content]
    BY <1>6, <1>8, <2>1 DEF ImportVanished
  <2> QED
    BY <1>8, <2>2 DEF ImportVanished, db
<1>9. CASE ImportCommit(p)
  <2>1. key[p] \in Key /\ files[p] \in Content
    BY <1>9 DEF ImportCommit, Working
  <2>2. Taken(Released(key[p]), key[p], files[p]) \in [Hash -> Nat]
    BY <2>1, CountTypes
  <2> QED
    BY <1>9, <2>1, <2>2 DEF ImportCommit, Register, disk
<1>10. CASE ImportRollback(p)
  BY <1>10 DEF ImportRollback, db, disk
<1>11. CASE ImportTidy(p)
  <2>1. key[p] \in Key /\ files[p] \in Content
    BY <1>11 DEF ImportTidy, Working
  <2>2. [n \in Name |-> IF files[p][n] # None THEN None ELSE art[key[p]][n]] \in Content
    BY <2>1 DEF Content
  <2> QED
    BY <1>11, <2>1, <2>2 DEF ImportTidy, Idle, db
<1>12. CASE ImportDiscard(p)
  <2>1. meta' \in [Key -> Content \cup {None}] /\ art' \in [Key -> Content]
    BY <1>1, <1>12 DEF ImportDiscard
  <2> QED
    BY <1>12, <2>1 DEF ImportDiscard, Idle, db
<1> QED
  BY <1>2, <1>3, <1>4, <1>5, <1>7, <1>8, <1>9, <1>10, <1>11, <1>12 DEF Import

-----------------------------------------------------------------------------
(* The general invariant, one lemma per operation: its types, its lock, the *)
(* operations under way, and the index.                                     *)

\* A sound index pairs every committed entry with its meta.json, except inside
\* the transaction of the put that is replacing it.
LEMMA SettledPairs ==
    ASSUME IndexSound, NEW k \in Key, row[k] # None,
           lock = None \/ \E p \in Proc : lock = p /\ pc[p] # "putCommit"
    PROVE  map[k] = meta[k] /\ meta[k] # None
  BY StoreAssumption DEF IndexSound

\* A put keeps the general invariant: what it publishes is complete,
\* re-materialized under the writer lock, and paired with its own meta.json.
LEMMA PutStep ==
    ASSUME HealInv, NEW p \in Proc, Put(p)
    PROVE  HealInv'
<1> USE StoreAssumption, NoFilesNoHashes
<1> USE DEF HealInv, TypeOK, Goto, Idle, ImportPCs, Importing, Fault, db, disk, hist
<1> USE DEF Put, PutStage, PutPublish, PutRegister, PutMismatch, PutMeta, PutCommit,
            Register
<1>1. TypeOK'
  <2> HIDE DEF TypeOK, Put
  <2> QED
    BY PutType
<1>2. Working'
  BY DEF Working
<1>3. LockHeld'
  BY DEF LockHeld
<1>4. ASSUME phase' # "broken" PROVE Ready' /\ NewMeta' /\ Alone' /\ Scanned'
  <2>1. phase # "broken" /\ phase' = phase
    BY <1>4
  <2>2. Ready'
    BY <1>4, <2>1 DEF Ready, LockHeld
  <2>3. NewMeta'
    BY <1>4, <2>1 DEF NewMeta, LockHeld, Alone, Working
  <2>4. Alone'
    BY <1>4, <2>1 DEF Alone, Working
  <2>5. Scanned'
    BY <2>1 DEF Scanned, LockHeld
  <2> QED
    BY <2>2, <2>3, <2>4, <2>5
<1>5. ASSUME phase' = "sound" PROVE IndexSound'
  <2>1. phase = "sound" /\ IndexSound /\ Ready /\ NewMeta /\ Alone
    BY <1>5 DEF SelfHeals
  <2>2. RefcountCovers'
    <3>1. CASE PutCommit(p)
      <4>1. key[p] \in Key /\ files[p] \in Content /\ Register(key[p], files[p])
        BY <3>1 DEF Working
      <4> HIDE DEF Register, TypeOK
      <4> QED
        BY <2>1, <4>1, RegisterCovers DEF IndexSound
    <3>2. CASE refs' = refs /\ map' = map
      BY <2>1, <3>2 DEF IndexSound, RefcountCovers
    <3> QED
      BY <3>1, <3>2
  <2>3. \A k \in Key : row'[k] = None => map'[k] = None
    BY <2>1 DEF IndexSound
  <2>4. \A k \in Key : HashesOf(map'[k]) \subseteq blob'
    BY <2>1 DEF IndexSound, Ready, Working
  <2>5. \A k \in Key :
           row'[k] # None =>
               \/ map'[k] = meta'[k] /\ meta'[k] # None
               \/ \E q \in Proc : lock' = q /\ key'[q] = k /\ pc'[q] = "putCommit"
    <3>1. CASE PutMeta(p)
      BY <2>1, <3>1 DEF IndexSound, LockHeld
    <3>2. CASE PutCommit(p)
      BY <2>1, <3>2 DEF IndexSound, LockHeld, NewMeta, Working
    <3>3. CASE ~PutMeta(p) /\ ~PutCommit(p)
      BY <2>1, <3>3 DEF IndexSound, LockHeld
    <3> QED
      BY <3>1, <3>2, <3>3
  <2> HIDE DEF TypeOK, Put
  <2> QED
    BY <2>2, <2>3, <2>4, <2>5 DEF IndexSound
<1> HIDE DEF TypeOK, Put
<1> QED
  BY <1>1, <1>2, <1>3, <1>4, <1>5 DEF SelfHeals

\* A removal keeps it: it gives back only what its key owns, and unlinks only
\* blobs that are uncounted while it holds the writer lock.
LEMMA RemoveStep ==
    ASSUME HealInv, NEW p \in Proc, Remove(p)
    PROVE  HealInv'
<1> USE StoreAssumption, NoFilesNoHashes
<1> USE DEF HealInv, TypeOK, Goto, Idle, ImportPCs, Importing, Fault, db, disk, hist
<1> USE DEF Remove, RemoveCall, RemoveRead, RemoveSettle, RemoveSkip, RemoveTx, RemoveDir,
            RemoveUnlink, RemoveDone
<1>1. TypeOK'
  <2> HIDE DEF TypeOK, Remove
  <2> QED
    BY RemoveType
<1>2. Working'
  BY DEF Working
<1>3. LockHeld'
  BY DEF LockHeld
<1>4. ASSUME phase' # "broken" PROVE Ready' /\ NewMeta' /\ Alone' /\ Scanned'
  <2>1. phase # "broken" /\ phase' = phase
    BY <1>4
  <2>2. Ready'
    BY <1>4, <2>1 DEF Ready, LockHeld
  <2>3. NewMeta'
    BY <1>4, <2>1 DEF NewMeta, LockHeld, Alone, Working
  <2>4. Alone'
    BY <1>4, <2>1 DEF Alone, Working
  <2>5. Scanned'
    BY <2>1 DEF Scanned, LockHeld
  <2> QED
    BY <2>2, <2>3, <2>4, <2>5
<1>5. ASSUME phase' = "sound" PROVE IndexSound'
  <2>1. phase = "sound" /\ IndexSound
    BY <1>5 DEF SelfHeals
  <2>2. CASE RemoveTx(p) /\ ~UNCHANGED db
    <3>1. /\ key[p] \in Key /\ lock = None /\ row[key[p]] # None /\ meta[key[p]] = files[p]
          /\ map' = [map EXCEPT ![key[p]] = None] /\ refs' = Spent(key[p], files[p])
          /\ row' = [row EXCEPT ![key[p]] = None] /\ UNCHANGED <<lock, blob, meta>>
          /\ pc' = [pc EXCEPT ![p] = "cleanup"]
      BY <2>2 DEF Working
    <3>2. files[p] = map[key[p]]
      BY <2>1, <3>1, SettledPairs
    <3>3. RefcountCovers'
      <4> HIDE DEF TypeOK, Remove
      <4> QED
        BY <2>1, <3>1, <3>2, RemovalCovers DEF IndexSound
    <3>4. \A k \in Key : row[k] # None => map[k] = meta[k] /\ meta[k] # None
      BY <2>1, <3>1, SettledPairs
    <3> HIDE DEF Remove
    <3> QED
      BY <2>1, <3>1, <3>3, <3>4 DEF IndexSound
  <2>3. CASE UNCHANGED db
    <3>1. RefcountCovers'
      BY <2>1, <2>3 DEF IndexSound, RefcountCovers
    <3>2. \A k \in Key : HashesOf(map'[k]) \subseteq blob'
      <4>1. CASE \E h \in Hash : RemoveUnlink(p, h)
        <5>1. PICK h \in Hash : RemoveUnlink(p, h)
          BY <4>1
        <5>2. refs[h] = 0 => \A k \in Key : h \notin HashesOf(map[k])
          BY <2>1, UncountedIsDead DEF IndexSound
        <5> QED
          BY <2>1, <2>3, <5>1, <5>2 DEF IndexSound
      <4>2. CASE blob' = blob
        BY <2>1, <2>3, <4>2 DEF IndexSound
      <4> QED
        BY <4>1, <4>2
    <3>3. \A k \in Key :
             row'[k] # None =>
                 \/ map'[k] = meta'[k] /\ meta'[k] # None
                 \/ \E q \in Proc : lock' = q /\ key'[q] = k /\ pc'[q] = "putCommit"
      <4>1. CASE RemoveDir(p)
        BY <2>1, <2>3, <4>1 DEF IndexSound, LockHeld, Working
      <4>2. CASE ~RemoveDir(p)
        <5>1. meta' = meta
          BY <4>2
        <5>2. \A q \in Proc : lock = q /\ pc[q] = "putCommit" =>
                 lock' = q /\ pc'[q] = "putCommit" /\ key'[q] = key[q]
          BY <4>2 DEF LockHeld
        <5> HIDE DEF Remove
        <5> QED
          BY <2>1, <2>3, <5>1, <5>2 DEF IndexSound
      <4> QED
        BY <4>1, <4>2
    <3> HIDE DEF Remove
    <3> QED
      BY <2>1, <2>3, <3>1, <3>2, <3>3 DEF IndexSound
  <2> QED
    BY <2>2, <2>3
<1> HIDE DEF TypeOK, Remove
<1> QED
  BY <1>1, <1>2, <1>3, <1>4, <1>5 DEF SelfHeals

\* The orphan sweep keeps it: it re-reads the counts under the lock.
LEMMA SweepStep ==
    ASSUME HealInv, NEW p \in Proc, Sweep(p)
    PROVE  HealInv'
<1> USE StoreAssumption, NoFilesNoHashes
<1> USE DEF HealInv, TypeOK, Goto, Idle, ImportPCs, db, disk, hist
<1> USE DEF Sweep, SweepScan, SweepUnlink
<1>1. TypeOK'
  <2> HIDE DEF TypeOK, Sweep
  <2> QED
    BY SweepType
<1>2. Working'
  BY DEF Working
<1>3. LockHeld'
  BY DEF LockHeld
<1>4. ASSUME phase' # "broken" PROVE Ready' /\ NewMeta' /\ Alone' /\ Scanned'
  <2>1. phase # "broken" /\ phase' = phase
    BY <1>4
  <2>2. Ready' /\ NewMeta' /\ Alone'
    BY <1>4, <2>1 DEF Ready, NewMeta, Alone, LockHeld, Working
  <2>3. Scanned'
    BY <2>1 DEF Scanned, LockHeld
  <2> QED
    BY <2>2, <2>3
<1>5. ASSUME phase' = "sound" PROVE IndexSound'
  <2>1. phase = "sound" /\ IndexSound
    BY <1>5 DEF SelfHeals
  <2>2. \A h \in Hash : refs[h] = 0 => \A k \in Key : h \notin HashesOf(map[k])
    BY <2>1, UncountedIsDead DEF IndexSound
  <2>3. \A k \in Key : HashesOf(map'[k]) \subseteq blob'
    BY <2>1, <2>2 DEF IndexSound
  <2> QED
    BY <2>1, <2>3 DEF IndexSound, LockHeld, RefcountCovers
<1> HIDE DEF TypeOK, Sweep
<1> QED
  BY <1>1, <1>2, <1>3, <1>4, <1>5 DEF SelfHeals

\* A download and its import keep it: until it has been repaired, an import that
\* shares its key with another operation leaves the index unsound.
LEMMA ImportStep ==
    ASSUME HealInv, NEW p \in Proc, Import(p)
    PROVE  HealInv'
<1> USE StoreAssumption, NoFilesNoHashes
<1> USE DEF HealInv, TypeOK, Goto, Idle, ImportPCs, InUse, Fault, db, disk, hist
<1> USE DEF Import, Download, ExtractClear, ExtractRename, ImportVerify, ImportMove,
            ImportVanished, ImportCommit, ImportRollback, ImportTidy,
            ImportDiscard, MoveBlobs, Movable, Register
<1>1. TypeOK'
  <2> HIDE DEF TypeOK, Import
  <2> QED
    BY ImportType
<1>2. Working'
  BY DEF Working
<1>3. LockHeld'
  BY DEF LockHeld
<1>4. ASSUME phase' # "broken" PROVE Ready' /\ NewMeta' /\ Alone' /\ Scanned'
  <2>1. phase # "broken" /\ phase' = phase
    BY <1>4
  <2>2. Ready'
    BY <1>4, <2>1 DEF Ready, LockHeld
  <2>3. NewMeta'
    BY <1>4, <2>1 DEF NewMeta, LockHeld, Alone, Working
  <2>4. Alone'
    BY <1>4, <2>1 DEF Alone, Working
  <2>5. Scanned'
    <3>1. CASE lock = None
      BY <2>1, <3>1 DEF Scanned, LockHeld
    <3>2. CASE ImportCommit(p) \/ ImportRollback(p)
      BY <2>1, <3>2 DEF Scanned, LockHeld
    <3>3. CASE \/ \E k \in Key : Download(p, k)
               \/ ExtractClear(p)
               \/ \E c \in Outputs : ExtractRename(p, c)
               \/ ImportVerify(p) \/ ImportTidy(p)
      <4>1. \A k \in Key : row[k] # None => meta'[k] = meta[k]
        BY <2>1, <3>3 DEF Alone, Working
      <4>2. blob' = blob /\ row' = row
        BY <3>3
      <4> HIDE DEF Import
      <4> QED
        BY <2>1, <3>3, <4>1, <4>2 DEF Scanned
    <3> QED
      BY <3>1, <3>2, <3>3
  <2> QED
    BY <2>2, <2>3, <2>4, <2>5
<1>5. ASSUME phase' = "sound" PROVE IndexSound'
  <2>1. phase = "sound" /\ IndexSound /\ Ready /\ NewMeta /\ Alone
    BY <1>5 DEF SelfHeals
  <2>2. RefcountCovers'
    <3>1. CASE ImportCommit(p)
      <4>1. key[p] \in Key /\ files[p] \in Content /\ Register(key[p], files[p])
        BY <3>1 DEF Working
      <4> HIDE DEF Register, TypeOK
      <4> QED
        BY <2>1, <4>1, RegisterCovers DEF IndexSound
    <3>2. CASE refs' = refs /\ map' = map
      BY <2>1, <3>2 DEF IndexSound, RefcountCovers
    <3> QED
      BY <3>1, <3>2
  <2>3. \A k \in Key : row'[k] = None => map'[k] = None
    BY <2>1 DEF IndexSound
  <2>4. \A k \in Key : HashesOf(map'[k]) \subseteq blob'
    BY <2>1 DEF IndexSound, Ready, Working
  <2>5. \A k \in Key :
           row'[k] # None =>
               \/ map'[k] = meta'[k] /\ meta'[k] # None
               \/ \E q \in Proc : lock' = q /\ key'[q] = k /\ pc'[q] = "putCommit"
    <3>1. CASE ImportCommit(p)
      BY <2>1, <3>1 DEF IndexSound, LockHeld, NewMeta, Working
    <3>2. CASE ~ImportCommit(p)
      <4>1. \A k \in Key : row[k] # None => meta'[k] = meta[k]
        BY <2>1, <3>2 DEF Alone, Working
      <4>2. row' = row /\ map' = map
        BY <3>2
      <4>3. \A q \in Proc : lock = q /\ pc[q] = "putCommit" =>
               lock' = q /\ pc'[q] = "putCommit" /\ key'[q] = key[q]
        BY <3>2 DEF LockHeld
      <4> HIDE DEF Import
      <4> QED
        BY <2>1, <4>1, <4>2, <4>3 DEF IndexSound
    <3> QED
      BY <3>1, <3>2
  <2> HIDE DEF TypeOK, Import
  <2> QED
    BY <2>2, <2>3, <2>4, <2>5 DEF IndexSound
<1> HIDE DEF TypeOK, Import
<1> QED
  BY <1>1, <1>2, <1>3, <1>4, <1>5 DEF SelfHeals

\* A process that stops anywhere keeps it: inside a replacing publication, or
\* inside a reconcile that was repairing the index, it leaves the index broken.
LEMMA StopStep ==
    ASSUME HealInv, NEW p \in Proc, Stop(p)
    PROVE  HealInv'
<1> USE StoreAssumption
<1> USE DEF HealInv, TypeOK, Goto, Idle, ImportPCs, Fault, db, disk, Stop
<1>1. TypeOK'
  BY DEF PCs, NoPlan
<1>2. Working' /\ LockHeld'
  BY DEF Working, LockHeld
<1>3. ASSUME phase' # "broken" PROVE Ready' /\ NewMeta' /\ Alone' /\ Scanned'
  <2>1. phase # "broken" /\ phase' = phase
    BY <1>3
  <2>2. Ready' /\ NewMeta' /\ Alone'
    BY <2>1 DEF Ready, NewMeta, Alone, Working
  <2>3. Scanned'
    BY <2>1 DEF Scanned, LockHeld
  <2> QED
    BY <2>2, <2>3
<1>4. ASSUME phase' = "sound" PROVE IndexSound'
  <2>1. phase = "sound" /\ IndexSound /\ ~(pc[p] = "putCommit" /\ row[key[p]] # None)
    BY <1>4 DEF SelfHeals
  <2>2. RefcountCovers'
    BY <2>1 DEF IndexSound, RefcountCovers
  <2> QED
    BY <2>1, <2>2 DEF IndexSound, LockHeld, Working
<1> HIDE DEF TypeOK, Stop
<1> QED
  BY <1>1, <1>2, <1>3, <1>4 DEF SelfHeals

\* A migration keeps it: it only adds blobs and references.
LEMMA MigrateStep ==
    ASSUME HealInv, NEW k \in Key, Migrate(k)
    PROVE  HealInv'
<1> USE StoreAssumption DEF HealInv
<1> DEFINE more(A, h) == refs[h] + Cardinality({n \in A : meta[k][n] = h})
<1>1. PICK A \in SUBSET Name :
         /\ blob' = blob \cup {meta[k][n] : n \in A}
         /\ \A n \in A : meta[k][n] # None
         /\ art' = [art EXCEPT ![k] =
                [n \in Name |-> IF n \in A THEN None ELSE art[k][n]]]
         /\ refs' \in {refs, [h \in Hash |-> more(A, h)]}
         /\ meta[k] # None
         /\ UNCHANGED <<row, map, meta, lock, pc, key, files, todo, hist>>
  BY DEF Migrate
<1>2. \A h \in Hash : Cardinality({n \in A : meta[k][n] = h}) \in Nat
  <2> TAKE h \in Hash
  <2>1. {n \in A : meta[k][n] = h} \in SUBSET Name
    OBVIOUS
  <2> QED
    BY <2>1, FS_Subset, FS_CardinalityType
<1>3. refs' \in [Hash -> Nat] /\ \A h \in Hash : refs'[h] >= refs[h]
  <2>1. refs \in [Hash -> Nat]
    BY DEF TypeOK
  <2>2. CASE refs' = refs
    BY <2>1, <2>2
  <2>3. CASE refs' = [h \in Hash |-> more(A, h)]
    <3> DEFINE d(h) == Cardinality({n \in A : meta[k][n] = h})
    <3>1. \A h \in Hash : d(h) \in Nat
      BY <1>2
    <3>2. refs' = [h \in Hash |-> refs[h] + d(h)]
      BY <2>3
    <3> HIDE DEF d
    <3> QED
      BY <2>1, <3>1, <3>2
  <2> QED
    BY <1>1, <2>2, <2>3
<1>4. art' \in [Key -> Content]
  <2>1. [n \in Name |-> IF n \in A THEN None ELSE art[k][n]] \in Content
    BY DEF TypeOK, Content
  <2> QED
    BY <1>1, <2>1 DEF TypeOK
<1>5. blob \subseteq blob' /\ blob' \in SUBSET Hash
  BY <1>1 DEF TypeOK, Content
<1>6. TypeOK'
  BY <1>1, <1>3, <1>4, <1>5 DEF TypeOK, hist
<1>7. ASSUME RefcountCovers PROVE RefcountCovers'
  <2> SUFFICES ASSUME NEW h \in Hash
               PROVE  refs'[h] >= Cardinality(RefsOn(map, h))
    BY <1>1 DEF RefcountCovers
  <2>1. Cardinality(RefsOn(map, h)) \in Nat /\ refs[h] \in Nat /\ refs'[h] \in Nat
    BY <1>3, RefsFinite DEF TypeOK
  <2> QED
    BY <1>3, <1>7, <2>1 DEF RefcountCovers
<1>8. Working' /\ LockHeld'
  BY <1>1 DEF Working, LockHeld
<1>9. phase' # "broken" => Ready' /\ NewMeta' /\ Alone' /\ Scanned'
  BY <1>1, <1>5 DEF Ready, NewMeta, Alone, Scanned, hist
<1>10. phase' = "sound" => IndexSound'
  BY <1>1, <1>5, <1>7 DEF SelfHeals, IndexSound, hist
<1> QED
  BY <1>6, <1>8, <1>9, <1>10 DEF SelfHeals

\* Lost files leave the index broken.
LEMMA LossStep ==
    ASSUME HealInv, (\E k \in Key : LoseEntry(k)) \/ \E h \in Hash : LoseBlob(h)
    PROVE  HealInv'
<1> USE DEF HealInv, LoseEntry, LoseBlob, Fault, db
<1>1. phase' = "broken"
  OBVIOUS
<1>2. NoArt \in Content
  BY DEF NoArt, Content
<1>3. TypeOK'
  BY <1>2 DEF TypeOK
<1>4. Working' /\ LockHeld'
  BY DEF Working, LockHeld
<1> QED
  BY <1>1, <1>3, <1>4 DEF SelfHeals

\* The opening of a reconcile keeps it: nothing is imported, and nobody else
\* holds the lock, so every operation under way is as after a repair.
LEMMA ReconcileBeginStep ==
    ASSUME HealInv, NEW p \in Proc, ReconcileBegin(p)
    PROVE  HealInv'
<1> USE StoreAssumption
<1> USE DEF HealInv, ReconcileBegin, Goto, Importing, ImportPCs, db, disk
<1>1. TypeOK'
  BY DEF TypeOK, PCs, NoPlan
<1>2. Working' /\ LockHeld'
  BY DEF TypeOK, Working, LockHeld
<1>3. ASSUME phase' # "broken" PROVE Ready' /\ NewMeta' /\ Alone' /\ Scanned'
  <2>1. \A q \in Proc : pc[q] \notin {"putMeta", "putCommit", "importing", "unlink", "scan", "drop"}
    BY DEF LockHeld
  <2>2. phase = "broken" => \A q \in Proc : pc[q] \notin ImportPCs
    BY <1>3 DEF Working, TypeOK
  <2>3. Ready' /\ NewMeta' /\ Alone'
    BY <1>3, <2>1, <2>2 DEF TypeOK, Ready, NewMeta, Alone
  <2>4. Scanned'
    BY <2>1 DEF TypeOK, Scanned, NoPlan
  <2> QED
    BY <2>3, <2>4
<1>4. ASSUME phase' = "sound" PROVE IndexSound'
  <2>1. phase = "sound" /\ IndexSound
    BY <1>4 DEF SelfHeals, TypeOK
  <2> QED
    BY <2>1 DEF IndexSound, RefcountCovers
<1> HIDE DEF ReconcileBegin
<1> QED
  BY <1>1, <1>2, <1>3, <1>4 DEF SelfHeals

\* Reading one meta.json after another keeps it.
LEMMA ReconcileScanStep ==
    ASSUME HealInv, NEW p \in Proc,
           (\E k \in Key : ReconcileRead(p, k)) \/ ReconcileScanned(p)
    PROVE  HealInv'
<1> USE StoreAssumption
<1> USE DEF HealInv, ReconcileRead, ReconcileScanned, Goto, db, disk
<1>1. TypeOK'
  BY DEF TypeOK, PCs
<1>2. Working' /\ LockHeld'
  BY DEF TypeOK, Working, LockHeld
<1>3. ASSUME phase' # "broken" PROVE Ready' /\ NewMeta' /\ Alone' /\ Scanned'
  <2>1. Ready' /\ NewMeta' /\ Alone'
    BY <1>3 DEF TypeOK, Ready, NewMeta, Alone, ImportPCs
  <2>2. \A q \in Proc : pc[q] \in {"scan", "drop"} => q = p
    BY DEF LockHeld
  <2>3. \A q \in Proc : pc'[q] \in {"scan", "drop"} => q = p
    BY <2>2 DEF TypeOK
  <2>4. lock = p
    BY DEF LockHeld
  <2>5. CASE \E k \in Key : ReconcileRead(p, k)
    <3>1. PICK k \in Key : ReconcileRead(p, k)
      BY <2>5
    <3>2. row[k] # None /\ plan[k] = None
      BY <1>3, <3>1 DEF Scanned
    <3>3. phase = "sound" => Verifiable(k)
      <4>1. ASSUME phase = "sound" PROVE map[k] = meta[k] /\ meta[k] # None
        BY <2>4, <3>1, <3>2, <4>1, SettledPairs DEF SelfHeals
      <4> QED
        BY <4>1 DEF SelfHeals, IndexSound, Verifiable
    <3>4. /\ plan' = [plan EXCEPT ![k] = IF Verifiable(k) THEN meta[k] ELSE None]
          /\ work' = work \ {k} /\ pc' = pc /\ pc[p] = "scan"
          /\ UNCHANGED <<row, meta, blob, phase>>
      BY <3>1
    <3>5. \A j \in Key : plan'[j] # None =>
             row[j] # None /\ meta[j] = plan'[j] /\ HashesOf(plan'[j]) \subseteq blob
      BY <1>3, <3>2, <3>4 DEF Scanned, Verifiable, TypeOK
    <3>6. \A j \in work' : row[j] # None /\ plan'[j] = None
      BY <1>3, <3>4 DEF Scanned, TypeOK
    <3>7. phase = "sound" => \A j \in Key : row[j] # None => plan'[j] # None \/ j \in work'
      BY <1>3, <3>3, <3>4 DEF Scanned, Verifiable, TypeOK
    <3> HIDE DEF ReconcileRead, ReconcileScanned
    <3> QED
      BY <2>1, <2>3, <3>4, <3>5, <3>6, <3>7 DEF Scanned
  <2>6. CASE ReconcileScanned(p)
    BY <1>3, <2>1, <2>3, <2>6 DEF Scanned, TypeOK
  <2> QED
    BY <2>5, <2>6
<1>4. ASSUME phase' = "sound" PROVE IndexSound'
  <2>1. phase = "sound" /\ IndexSound
    BY <1>4 DEF SelfHeals
  <2> QED
    BY <2>1 DEF IndexSound, RefcountCovers, TypeOK
<1> HIDE DEF ReconcileRead, ReconcileScanned
<1> QED
  BY <1>1, <1>2, <1>3, <1>4 DEF SelfHeals

\* Dropping the directory of a failed entry keeps it: a sound index has none.
LEMMA ReconcileDropStep ==
    ASSUME HealInv, NEW p \in Proc, NEW k \in Key, ReconcileDrop(p, k)
    PROVE  HealInv'
<1> USE StoreAssumption
<1> USE DEF HealInv, ReconcileDrop, db
<1>1. NoArt \in Content
  BY DEF NoArt, Content
<1>2. TypeOK'
  BY <1>1 DEF TypeOK
<1>3. Working' /\ LockHeld'
  BY DEF Working, LockHeld
<1>4. ASSUME phase # "broken"
      PROVE  row[k] # None /\ plan[k] = None /\ phase # "sound"
  BY <1>4 DEF Scanned
<1>5. ASSUME phase' # "broken" PROVE Ready' /\ NewMeta' /\ Alone' /\ Scanned'
  <2>1. \A q \in Proc : pc[q] # "putCommit"
    BY DEF LockHeld
  <2>2. Ready' /\ NewMeta' /\ Alone'
    BY <1>4, <1>5, <2>1 DEF Ready, NewMeta, Alone, ImportPCs, TypeOK, Working
  <2>3. Scanned'
    BY <1>4, <1>5 DEF Scanned, TypeOK
  <2> QED
    BY <2>2, <2>3
<1> QED
  BY <1>2, <1>3, <1>4, <1>5 DEF SelfHeals

\* A natural number of references is counted, whatever lists hold them.
LEMMA RefsCounted ==
    ASSUME NEW m, NEW h
    PROVE  Cardinality(RefsOn(m, h)) \in Nat
<1>1. IsFiniteSet(Key \X Name) /\ RefsOn(m, h) \in SUBSET (Key \X Name)
  BY FS_Product, StoreAssumption DEF RefsOn
<1> QED
  BY <1>1, FS_Subset, FS_CardinalityType

\* The commit of a reconcile that no fault has disturbed makes the index sound.
LEMMA ReconcileCommitStep ==
    ASSUME HealInv, NEW p \in Proc, ReconcileCommit(p)
    PROVE  HealInv'
<1> USE StoreAssumption
<1> USE DEF HealInv, ReconcileCommit, Idle, Goto, disk
<1>1. refs' \in [Hash -> Nat] /\ \A h \in Hash : refs'[h] = Cardinality(RefsOn(map', h))
  BY RefsCounted
<1>2. TypeOK'
  BY <1>1 DEF TypeOK, PCs, NoPlan
<1>3. Working' /\ LockHeld'
  BY DEF TypeOK, Working, LockHeld
<1>4. ASSUME phase' # "broken" PROVE phase # "broken" /\ phase' = "sound"
  BY <1>4 DEF TypeOK
<1>5. ASSUME phase' # "broken" PROVE Ready' /\ NewMeta' /\ Alone' /\ Scanned'
  <2>1. phase # "broken" /\ pc'[p] = "idle"
    BY <1>4, <1>5 DEF TypeOK
  <2>2. \A q \in Proc :
           pc'[q] # "idle" => pc'[q] = pc[q] /\ key'[q] = key[q] /\ files'[q] = files[q]
    BY DEF TypeOK
  <2>3. Ready' /\ NewMeta'
    BY <2>1, <2>2 DEF Ready, NewMeta
  <2>4. Alone'
    <3> SUFFICES ASSUME NEW q \in Proc, pc'[q] \in ImportPCs
                 PROVE  row'[key'[q]] = None /\ \A o \in Proc : key'[o] = key'[q] => o = q
      BY DEF Alone
    <3>1. pc[q] \in ImportPCs /\ key'[q] = key[q] /\ key[q] \in Key
      BY <2>2 DEF ImportPCs, Working, TypeOK
    <3>2. row[key[q]] = None /\ \A o \in Proc : key[o] = key[q] => o = q
      BY <2>1, <3>1 DEF Alone
    <3>3. \A o \in Proc : key'[o] \in {key[o], None}
      BY DEF TypeOK
    <3> QED
      BY <3>1, <3>2, <3>3
  <2>5. Scanned'
    BY <2>2 DEF TypeOK, Scanned, LockHeld
  <2> QED
    BY <2>3, <2>4, <2>5
<1>6. ASSUME phase' = "sound" PROVE IndexSound'
  <2>1. \A k \in Key :
           plan[k] # None =>
               row[k] # None /\ meta[k] = plan[k] /\ HashesOf(plan[k]) \subseteq blob
    BY <1>4, <1>6 DEF Scanned
  <2>2. RefcountCovers'
    BY <1>1, RefsCounted DEF RefcountCovers
  <2> QED
    BY <2>1, <2>2, NoFilesNoHashes DEF IndexSound, TypeOK
<1> HIDE DEF ReconcileCommit
<1> QED
  BY <1>2, <1>3, <1>5, <1>6 DEF SelfHeals

\* The empty store satisfies both invariants.
LEMMA Initially == Init => IndInv
<1> SUFFICES ASSUME Init PROVE IndInv
  OBVIOUS
<1> USE StoreAssumption DEF Init
<1>1. TypeOK
  BY DEF TypeOK, PCs, NoArt, NoPlan, Content
<1>2. RefcountCovers
  <2> SUFFICES ASSUME NEW h \in Hash PROVE refs[h] >= Cardinality(RefsOn(map, h))
    BY DEF RefcountCovers
  <2>1. RefsOn(map, h) = {}
    BY DEF RefsOn, FilesOn
  <2>2. Cardinality(RefsOn(map, h)) = 0
    BY <2>1, FS_EmptySet
  <2>3. refs[h] = 0
    OBVIOUS
  <2> QED
    BY <2>2, <2>3
<1>3. IndexSound
  BY <1>2, NoFilesNoHashes DEF IndexSound
<1> QED
  BY <1>1, <1>3
     DEF IndInv, HealInv, SelfHeals, Working, LockHeld, Mapped, Ready, NewMeta, Alone, Scanned,
         ImportPCs

\* Every step keeps the general invariant, whatever faults are allowed.
LEMMA HealInductive ==
    ASSUME HealInv, [Next]_vars
    PROVE  HealInv'
<1>1. CASE UNCHANGED vars
  BY <1>1 DEF vars, HealInv, TypeOK, Working, LockHeld, Ready, NewMeta, Alone, Scanned,
              SelfHeals, IndexSound, RefcountCovers
<1>2. CASE \E p \in Proc : Put(p) \/ Remove(p) \/ Sweep(p) \/ Import(p) \/ Stop(p)
  BY <1>2, PutStep, RemoveStep, SweepStep, ImportStep, StopStep
<1>3. CASE \E p \in Proc : Reconcile(p)
  BY <1>3, ReconcileBeginStep, ReconcileScanStep, ReconcileDropStep, ReconcileCommitStep
     DEF Reconcile
<1>4. CASE \E k \in Key : Migrate(k)
  BY <1>4, MigrateStep
<1>5. CASE (\E k \in Key : LoseEntry(k)) \/ \E h \in Hash : LoseBlob(h)
  BY <1>5, LossStep
<1> QED
  BY <1>1, <1>2, <1>3, <1>4, <1>5 DEF Next

\* What the invariant without faults says of counts, blobs and meta.json files.
LEMMA Consequences ==
    ASSUME IndInv
    PROVE  TypeOK /\ IndexSound /\ RefcountCovers /\ NoDanglingRow /\ PairedMeta
  BY DEF IndInv, HealInv, SelfHeals, IndexSound, Mapped, NoDanglingRow, PairedMeta

\* Where faults are ruled out no operation is one, and row and mapping go together.
LEMMA Faultless ==
    ASSUME NoFaults, IndInv, [Next]_vars
    PROVE  phase' = "sound" /\ Mapped'
<1> USE StoreAssumption DEF IndInv, HealInv, NoFaults, Mapped, TypeOK, hist, db
<1>1. CASE UNCHANGED vars
  BY <1>1 DEF vars
<1>2. CASE \E p \in Proc : Put(p)
  BY <1>2 DEF Put, PutStage, PutPublish, PutRegister, PutMismatch, PutMeta, PutCommit, Register,
              Fault, MayStart, disk
<1>3. CASE \E p \in Proc : Remove(p)
  BY <1>3 DEF Remove, RemoveCall, RemoveRead, RemoveSettle, RemoveSkip, RemoveTx, RemoveDir,
              RemoveUnlink, RemoveDone, Fault, MayStart, disk
<1>4. CASE \E p \in Proc : Sweep(p)
  BY <1>4 DEF Sweep, SweepScan, SweepUnlink
<1>5. CASE \E p \in Proc : Import(p)
  <2>1. PICK p \in Proc : Import(p)
    BY <1>5
  <2>2. CASE \E k \in Key : Download(p, k)
    <3>1. PICK k \in Key : Download(p, k)
      BY <2>2
    <3>2. ~InUse(k) /\ ~Contains(k)
      BY <3>1 DEF Download, MayImport
    <3>3. row[k] = None
      BY <3>2, Consequences DEF PairedMeta, Contains, InUse
    <3> QED
      BY <3>1, <3>2, <3>3 DEF Download, Fault, disk
  <2>3. CASE ~(\E k \in Key : Download(p, k))
    BY <2>1, <2>3 DEF Import, ExtractClear, ExtractRename, ImportVerify, ImportMove,
                      ImportVanished, ImportCommit, ImportRollback, ImportTidy, ImportDiscard,
                      Register, disk
  <2> QED
    BY <2>2, <2>3
<1>6. CASE \E p \in Proc : Stop(p)
  BY <1>6 DEF Stop, Fault
<1>7. CASE \E k \in Key : Migrate(k)
  BY <1>7 DEF Migrate
<1>8. CASE (\E k \in Key : LoseEntry(k)) \/ \E h \in Hash : LoseBlob(h)
  BY <1>8 DEF LoseEntry, LoseBlob
<1>9. CASE \E p \in Proc : Reconcile(p)
  <2>1. PICK p \in Proc : Reconcile(p)
    BY <1>9
  <2>2. CASE ReconcileCommit(p)
    <3>1. phase' = "sound" /\ lock = p /\ pc[p] = "drop" /\ work = {}
      BY <2>2 DEF ReconcileCommit, LockHeld
    <3>2. \A k \in Key : row[k] # None => map[k] = meta[k]
      BY <3>1, SettledPairs, Consequences
    <3>3. \A k \in Key : IF row[k] = None THEN plan[k] = None ELSE plan[k] = meta[k]
      BY <3>1 DEF Scanned
    <3> QED
      BY <2>2, <3>1, <3>2, <3>3 DEF ReconcileCommit
  <2>3. CASE ~ReconcileCommit(p)
    BY <2>1, <2>3 DEF Reconcile, ReconcileBegin, ReconcileRead, ReconcileScanned, ReconcileDrop
  <2> QED
    BY <2>2, <2>3
<1> QED
  BY <1>1, <1>2, <1>3, <1>4, <1>5, <1>6, <1>7, <1>8, <1>9 DEF Next

\* Every step preserves the invariant without faults.
LEMMA Inductive ==
    ASSUME NoFaults, IndInv, [Next]_vars
    PROVE  IndInv'
<1>1. HealInv'
  BY HealInductive DEF IndInv
<1> QED
  BY <1>1, Faultless DEF IndInv

-----------------------------------------------------------------------------
(* The theorems.                                                           *)

\* Whatever publications are torn, imports overlap, reconciles are killed and
\* files are lost, the general invariant holds.
THEOREM StoreHealInvariant == Spec => []HealInv
<1>1. Init => HealInv
  BY Initially DEF IndInv
<1>2. HealInv /\ [Next]_vars => HealInv'
  BY HealInductive
<1> QED
  BY <1>1, <1>2, PTL DEF Spec

\* A reconcile that begins after the last fault and commits leaves an index that
\* agrees with the meta.json files, although it reads them one by one while
\* extractions, which take no lock, write others; and it stays so.
THEOREM StoreSelfHeals == Spec => []SelfHeals
<1>1. HealInv => SelfHeals
  BY DEF HealInv
<1> QED
  BY StoreHealInvariant, <1>1, PTL

\* The inductive invariant holds in every behaviour without faults.
THEOREM StoreInvariant ==
    ASSUME NoFaults
    PROVE  Spec => []IndInv
<1>1. IndInv /\ [Next]_vars => IndInv'
  BY Inductive
<1> QED
  BY Initially, <1>1, PTL DEF Spec

\* Tables, directories and processes keep their types, whatever goes wrong.
THEOREM StoreTypes == Spec => []TypeOK
<1>1. HealInv => TypeOK
  BY DEF HealInv
<1> QED
  BY StoreHealInvariant, <1>1, PTL

\* No removal, overwrite, import or sweep ever takes a reference another entry
\* holds: a blob is counted at least as often as entry_blobs says it is owned.
THEOREM StoreCounts ==
    ASSUME NoFaults
    PROVE  Spec => []RefcountCovers
<1>1. IndInv => RefcountCovers
  BY Consequences
<1> QED
  BY StoreInvariant, <1>1, PTL

\* No committed entry ever loses a blob to a removal, a sweep or a failed put.
THEOREM StoreServable ==
    ASSUME NoFaults
    PROVE  Spec => []NoDanglingRow
<1>1. IndInv => NoDanglingRow
  BY Consequences
<1> QED
  BY StoreInvariant, <1>1, PTL

\* No committed entry is stranded without its own meta.json.
THEOREM StorePaired ==
    ASSUME NoFaults
    PROVE  Spec => []PairedMeta
<1>1. IndInv => PairedMeta
  BY Consequences
<1> QED
  BY StoreInvariant, <1>1, PTL

-----------------------------------------------------------------------------
(* No drift: the references nobody owns never become more.                 *)

\* How far the count of a blob exceeds its owners.
Drift(h) == refs[h] - Cardinality(RefsOn(map, h))

\* The references of one key are among all references on a blob.
LEMMA OwnedAmongRefs ==
    ASSUME NEW m \in [Key -> Content \cup {None}], NEW h \in Hash, NEW k \in Key
    PROVE  Cardinality(Owned(k, m[k], h)) <= Cardinality(RefsOn(m, h))
<1>1. m[k] \in Content \cup {None}
  OBVIOUS
<1>2. Owned(k, m[k], h) \in SUBSET RefsOn(m, h)
  BY <1>1 DEF Owned, RefsOn, FilesOn
<1>3. IsFiniteSet(RefsOn(m, h))
  BY <1>1, RefsFinite
<1> QED
  BY <1>2, <1>3, FS_Subset

\* A registration gives back exactly what the old generation held and takes
\* exactly what the new one holds: the drift of no blob changes.
LEMMA RegisterKeepsDrift ==
    ASSUME TypeOK, RefcountCovers, NEW k \in Key, NEW c \in Content, Register(k, c),
           NEW h \in Hash
    PROVE  Drift(h)' <= Drift(h)
<1>1. /\ map \in [Key -> Content \cup {None}] /\ map[k] \in Content \cup {None}
      /\ refs[h] \in Nat
  BY DEF TypeOK
<1>2. /\ Cardinality(RefsOn(map, h)) \in Nat
      /\ Cardinality(Owned(k, map[k], h)) \in Nat
      /\ Cardinality(Owned(k, c, h)) \in Nat
  BY <1>1, RefsFinite
<1>3. Cardinality(RefsOn(map', h)) =
          Cardinality(RefsOn(map, h)) - Cardinality(Owned(k, map[k], h))
                                      + Cardinality(Owned(k, c, h))
  BY <1>1, RefsExchange DEF Register
<1>4. /\ refs[h] >= Cardinality(RefsOn(map, h))
      /\ Cardinality(Owned(k, map[k], h)) <= Cardinality(RefsOn(map, h))
  BY <1>1, OwnedAmongRefs DEF RefcountCovers
<1>5. refs'[h] = Larger(0, Floor(k, h) - Cardinality(Owned(k, map[k], h)))
                     + Cardinality(Owned(k, c, h))
  BY DEF Register, Taken, Released
<1> QED
  BY <1>1, <1>2, <1>3, <1>4, <1>5 DEF Floor, Larger, Drift

\* A removal gives back every reference its key held, and no fewer.
LEMMA RemovalKeepsDrift ==
    ASSUME TypeOK, RefcountCovers, NEW k \in Key,
           map' = [map EXCEPT ![k] = None], refs' = Spent(k, map[k]), NEW h \in Hash
    PROVE  Drift(h)' <= Drift(h)
<1>1. /\ map \in [Key -> Content \cup {None}] /\ map[k] \in Content \cup {None}
      /\ refs[h] \in Nat
  BY DEF TypeOK
<1>2. /\ Cardinality(RefsOn(map, h)) \in Nat
      /\ Cardinality(Owned(k, map[k], h)) \in Nat
  BY <1>1, RefsFinite
<1>3. Cardinality(Owned(k, None, h)) = 0
  <2>1. Owned(k, None, h) = {}
    BY DEF Owned, FilesOn
  <2> QED
    BY <2>1, FS_EmptySet
<1>4. Cardinality(RefsOn(map', h)) =
          Cardinality(RefsOn(map, h)) - Cardinality(Owned(k, map[k], h))
                                      + Cardinality(Owned(k, None, h))
  BY <1>1, RefsExchange
<1>5. /\ refs[h] >= Cardinality(RefsOn(map, h))
      /\ Cardinality(Owned(k, map[k], h)) <= Cardinality(RefsOn(map, h))
  BY <1>1, OwnedAmongRefs DEF RefcountCovers
<1> QED
  BY <1>1, <1>2, <1>3, <1>4, <1>5 DEF Spent, Floor, Larger, Drift

\* A reconcile makes every count exact.
LEMMA ReconcileKeepsDrift ==
    ASSUME TypeOK, RefcountCovers, NEW p \in Proc, ReconcileCommit(p), NEW h \in Hash
    PROVE  Drift(h)' <= Drift(h)
<1>1. refs[h] \in Nat /\ Cardinality(RefsOn(map, h)) \in Nat /\ Cardinality(RefsOn(plan, h)) \in Nat
  BY RefsCounted DEF TypeOK
<1>2. refs'[h] = Cardinality(RefsOn(plan, h)) /\ map' = plan
  BY DEF ReconcileCommit
<1>3. refs[h] >= Cardinality(RefsOn(map, h))
  BY DEF RefcountCovers
<1> QED
  BY <1>1, <1>2, <1>3 DEF Drift

\* Only a migration may count references that nobody owns.
LEMMA DriftStep ==
    ASSUME NoFaults, IndInv, [Next]_vars, NEW h \in Hash, Drift(h)' > Drift(h)
    PROVE  \E k \in Key : Migrate(k)
<1>1. /\ Cardinality(RefsOn(map, h)) \in Nat /\ refs[h] \in Nat
      /\ TypeOK /\ RefcountCovers
  BY Consequences, RefsCounted DEF TypeOK
<1>2. ASSUME refs' = refs, map' = map PROVE FALSE
  <2>1. Drift(h)' = Drift(h)
    BY <1>2 DEF Drift
  <2> QED
    BY <1>1, <2>1 DEF Drift
<1>3. ASSUME Drift(h)' <= Drift(h), IndInv' PROVE FALSE
  <2>1. Cardinality(RefsOn(map', h)) \in Nat /\ refs'[h] \in Nat
    BY <1>3, RefsCounted DEF IndInv, HealInv, TypeOK
  <2> QED
    BY <1>1, <1>3, <2>1 DEF Drift
<1>4. IndInv'
  BY Inductive
<1>5. CASE UNCHANGED vars
  BY <1>2, <1>5 DEF vars
<1>6. CASE \E p \in Proc : Put(p)
  <2>1. PICK p \in Proc : Put(p)
    BY <1>6
  <2>2. CASE PutCommit(p)
    <3>1. key[p] \in Key /\ files[p] \in Content /\ Register(key[p], files[p])
      BY <2>2 DEF PutCommit, IndInv, HealInv, Working, TypeOK
    <3> QED
      BY <1>1, <1>3, <1>4, <3>1, RegisterKeepsDrift
  <2>3. CASE ~PutCommit(p)
    BY <1>2, <2>1, <2>3
       DEF Put, PutStage, PutPublish, PutRegister, PutMismatch, PutMeta, db, disk
  <2> QED
    BY <2>2, <2>3
<1>7. CASE \E p \in Proc : Remove(p)
  <2>1. PICK p \in Proc : Remove(p)
    BY <1>7
  <2>2. CASE RemoveTx(p) /\ ~UNCHANGED <<refs, map>>
    <3>1. key[p] \in Key
      BY <2>2 DEF RemoveTx, IndInv, HealInv, Working, TypeOK
    <3>2. /\ row[key[p]] # None /\ meta[key[p]] = files[p] /\ lock = None
          /\ map' = [map EXCEPT ![key[p]] = None] /\ refs' = Spent(key[p], files[p])
      BY <2>2 DEF RemoveTx, db
    <3>3. files[p] = map[key[p]]
      BY <3>1, <3>2, SettledPairs, Consequences DEF IndInv, HealInv
    <3> QED
      BY <1>1, <1>3, <1>4, <3>1, <3>2, <3>3, RemovalKeepsDrift
  <2>3. CASE ~RemoveTx(p)
    BY <1>2, <2>1, <2>3
       DEF Remove, RemoveCall, RemoveRead, RemoveSettle, RemoveSkip, RemoveDir,
           RemoveUnlink, RemoveDone, db, disk
  <2> QED
    BY <1>2, <2>2, <2>3
<1>8. CASE \E p \in Proc : Sweep(p) \/ Stop(p)
  BY <1>2, <1>8 DEF Sweep, SweepScan, SweepUnlink, Stop, db
<1>9. CASE \E p \in Proc : Import(p)
  <2>1. PICK p \in Proc : Import(p)
    BY <1>9
  <2>2. CASE ImportCommit(p)
    <3>1. key[p] \in Key /\ files[p] \in Content /\ Register(key[p], files[p])
      BY <2>2 DEF ImportCommit, IndInv, HealInv, Working, TypeOK
    <3> QED
      BY <1>1, <1>3, <1>4, <3>1, RegisterKeepsDrift
  <2>3. CASE ~ImportCommit(p)
    BY <1>2, <2>1, <2>3
       DEF Import, Download, ExtractClear, ExtractRename, ImportVerify, ImportMove,
           ImportVanished, ImportRollback, ImportTidy, ImportDiscard, db
  <2> QED
    BY <2>2, <2>3
<1>10. CASE \E p \in Proc : Reconcile(p)
  <2>1. PICK p \in Proc : Reconcile(p)
    BY <1>10
  <2>2. CASE ReconcileCommit(p)
    BY <1>1, <1>3, <1>4, <2>2, ReconcileKeepsDrift
  <2>3. CASE ~ReconcileCommit(p)
    BY <1>2, <2>1, <2>3
       DEF Reconcile, ReconcileBegin, ReconcileRead, ReconcileScanned, ReconcileDrop, db
  <2> QED
    BY <2>2, <2>3
<1>11. CASE (\E k \in Key : LoseEntry(k)) \/ \E j \in Hash : LoseBlob(j)
  BY <1>11 DEF NoFaults, LoseEntry, LoseBlob
<1> QED
  BY <1>5, <1>6, <1>7, <1>8, <1>9, <1>10, <1>11 DEF Next

\* put, import, removal, sweep and reconcile never leave a count that no entry
\* owns: a blob can only be kept alive for nothing by a migration.
THEOREM StoreNoDrift ==
    ASSUME NoFaults
    PROVE  Spec => NoDrift
<1>1. IndInv /\ [Next]_vars =>
         [\A h \in Hash :
             refs'[h] - Cardinality(RefsOn(map', h)) > refs[h] - Cardinality(RefsOn(map, h)) =>
                 \E k \in Key : Migrate(k)]_vars
  BY DriftStep DEF Drift
<1> QED
  BY StoreInvariant, <1>1, PTL DEF Spec, NoDrift

-----------------------------------------------------------------------------
(* The refinement.                                                         *)

\* A step that leaves the rows alone and only adds blobs, or only removes blobs
\* of no entry, is a step of CacheSpec.
LEMMA BlobStep ==
    ASSUME TypeOK', NoDanglingRow', row' = row, blob \subseteq blob' \/ blob' \subseteq blob
    PROVE  Cache!Next
<1>1. CASE blob \subseteq blob'
  BY <1>1 DEF TypeOK, Cache!Next, Cache!Materialize
<1>2. CASE blob' \subseteq blob
  BY <1>2 DEF NoDanglingRow, Cache!Next, Cache!Reclaim
<1> QED
  BY <1>1, <1>2

\* Every step of the store is a step of CacheSpec or changes nothing it sees.
LEMMA CacheStep ==
    ASSUME NoFaults, IndInv, IndInv', [Next]_vars
    PROVE  [Cache!Next]_<<row, blob>>
<1>0. TypeOK' /\ NoDanglingRow'
  BY DEF IndInv, HealInv, SelfHeals, IndexSound, Mapped, NoDanglingRow
<1> USE DEF IndInv, HealInv
<1>1. CASE UNCHANGED vars
  BY <1>1 DEF vars
<1>2. CASE \E p \in Proc : Put(p)
  <2>1. PICK p \in Proc : Put(p)
    BY <1>2
  <2>2. CASE PutCommit(p)
    <3>1. /\ key[p] \in Key /\ files[p] \in Content
          /\ HashesOf(files[p]) \subseteq blob
      BY <2>2 DEF PutCommit, Working, TypeOK, Ready
    <3> QED
      BY <2>2, <3>1 DEF PutCommit, Register, disk, Cache!Next, Cache!Publish
  <2>3. CASE ~PutCommit(p)
    <3>1. row' = row /\ blob \subseteq blob'
      BY <2>1, <2>3 DEF Put, PutStage, PutPublish, PutRegister, PutMismatch, PutMeta, db, disk
    <3> QED
      BY <3>1, <1>0, BlobStep
  <2> QED
    BY <2>2, <2>3
<1>3. CASE \E p \in Proc : Remove(p)
  <2>1. PICK p \in Proc : Remove(p)
    BY <1>3
  <2>2. CASE RemoveTx(p)
    <3>1. key[p] \in Key
      BY <2>2 DEF RemoveTx, Working, TypeOK
    <3>2. blob' = blob /\ (row' = row \/ row' = [row EXCEPT ![key[p]] = None])
      BY <2>2 DEF RemoveTx, db, disk
    <3> QED
      BY <3>1, <3>2 DEF Cache!Next, Cache!Drop
  <2>3. CASE ~RemoveTx(p)
    <3>1. row' = row /\ blob' \subseteq blob
      BY <2>1, <2>3 DEF Remove, RemoveCall, RemoveRead, RemoveSettle, RemoveSkip, RemoveDir,
                        RemoveUnlink, RemoveDone, db, disk
    <3> QED
      BY <3>1, <1>0, BlobStep
  <2> QED
    BY <2>2, <2>3
<1>4. CASE \E p \in Proc : Sweep(p) \/ Stop(p)
  <2>1. row' = row /\ blob' \subseteq blob
    BY <1>4 DEF Sweep, SweepScan, SweepUnlink, Stop, db, disk
  <2> QED
    BY <2>1, <1>0, BlobStep
<1>5. CASE \E p \in Proc : Import(p)
  <2>1. PICK p \in Proc : Import(p)
    BY <1>5
  <2>2. CASE ImportCommit(p)
    <3>1. /\ key[p] \in Key /\ files[p] \in Content
          /\ HashesOf(files[p]) \subseteq blob
      BY <2>2 DEF ImportCommit, Working, TypeOK, Ready
    <3> QED
      BY <2>2, <3>1 DEF ImportCommit, Register, disk, Cache!Next, Cache!Publish
  <2>3. CASE ~ImportCommit(p)
    <3>1. row' = row /\ blob \subseteq blob'
      BY <2>1, <2>3 DEF Import, Download, ExtractClear, ExtractRename, ImportVerify,
                        ImportMove, ImportVanished, ImportRollback, ImportTidy,
                        ImportDiscard, MoveBlobs, db, disk
    <3> QED
      BY <3>1, <1>0, BlobStep
  <2> QED
    BY <2>2, <2>3
<1>6. CASE \E k \in Key : Migrate(k)
  <2>1. row' = row /\ blob \subseteq blob'
    BY <1>6 DEF Migrate
  <2> QED
    BY <2>1, <1>0, BlobStep
<1>7. CASE \E p \in Proc : Reconcile(p)
  <2>1. PICK p \in Proc : Reconcile(p)
    BY <1>7
  <2>2. blob' = blob
    BY <2>1 DEF Reconcile, ReconcileBegin, ReconcileRead, ReconcileScanned, ReconcileDrop,
                ReconcileCommit, disk
  <2>3. CASE ReconcileCommit(p)
    <3>1. \A k \in Key : row[k] # None => plan[k] # None
      BY <2>3 DEF ReconcileCommit, Scanned
    <3> QED
      BY <2>2, <2>3, <3>1 DEF ReconcileCommit, TypeOK
  <2>4. CASE ~ReconcileCommit(p)
    BY <2>1, <2>2, <2>4
       DEF Reconcile, ReconcileBegin, ReconcileRead, ReconcileScanned, ReconcileDrop, db
  <2> QED
    BY <2>3, <2>4
<1>8. CASE (\E k \in Key : LoseEntry(k)) \/ \E h \in Hash : LoseBlob(h)
  BY <1>8 DEF NoFaults, LoseEntry, LoseBlob
<1> QED
  BY <1>1, <1>2, <1>3, <1>4, <1>5, <1>6, <1>7, <1>8 DEF Next

\* The store implements CacheSpec: counts, writer lock and the two-transaction
\* removal keep every blob a committed entry reaches, for any number of writers.
THEOREM StoreImplementsCache ==
    ASSUME NoFaults
    PROVE  Spec => ImplementsCache
<1>1. Init => Cache!Init
  BY DEF Init, Cache!Init
<1>2. IndInv /\ IndInv' /\ [Next]_vars => [Cache!Next]_<<row, blob>>
  BY CacheStep
<1> QED
  BY StoreInvariant, <1>1, <1>2, PTL DEF Spec, ImplementsCache, Cache!Spec
=============================================================================
