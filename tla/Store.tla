------------------------------- MODULE Store -------------------------------
(***************************************************************************)
(* The artifact store of kache-store: a SQLite index (entries, entry_blobs *)
(* and blobs tables), one directory per cache key holding meta.json, and a *)
(* content-addressed blob directory, shared by build wrappers, the daemon  *)
(* and the CLI, each of which is a process here.                           *)
(*                                                                         *)
(* A SQLite transaction changes the tables in one step, when it commits.   *)
(* What it does to files happens earlier, is seen by everybody at once and *)
(* is not undone by a rollback; a transaction that writes files is split   *)
(* there, and `lock' is SQLite's writer lock while it is open.             *)
(***************************************************************************)
EXTENDS Integers, FiniteSets

CONSTANTS
    Key,                \* cache keys
    Name,               \* names of the output files of one entry
    Hash,               \* content addresses
    Proc,               \* processes with the store open
    Importers,          \* the processes that download entries
    Outputs,            \* what a compilation may produce: file name -> hash
    None,               \* absent row, meta.json, file, key or lock holder
    MaxRefs,            \* bound on a refcount: nothing counts beyond it
    OverlappingImport,  \* may an import share its key with other operations?
    TornPublish,        \* may a put end between meta.json and its commit
                        \* while an older generation is committed?
    Damage              \* the phases in which files may disappear behind the
                        \* store's back

ASSUME StoreAssumption ==
    /\ IsFiniteSet(Key) /\ IsFiniteSet(Name)
    /\ Importers \subseteq Proc
    /\ None \notin Key \cup Hash \cup Proc
    /\ Outputs \subseteq [Name -> Hash \cup {None}]
    /\ None \notin [Name -> Hash \cup {None}]
    /\ MaxRefs \in Nat
    /\ OverlappingImport \in BOOLEAN /\ TornPublish \in BOOLEAN
    /\ Damage \subseteq {"broken", "healing", "sound"}

VARIABLES
    row,    \* entries: the content_hash of the committed row of a key
    map,    \* entry_blobs: the references the key's generation holds
    refs,   \* blobs: refcount of a hash, 0 when the table has no row for it
    meta,   \* meta.json of a key's entry directory
    art,    \* artifact files still beside meta.json: name -> hash of the bytes
    blob,   \* the hashes whose file is in the blob directory
    lock,   \* the process whose transaction has written files, or None
    pc,     \* where each process is
    key,    \* the key it works on
    files,  \* the file list it staged, or read from a meta.json
    todo,   \* hashes it still has to publish, unlink or sweep
    plan,   \* the lists an open reconcile has read and verified
    work,   \* the keys it has still to read, or to drop
    phase   \* history: "broken" by a fault, "healing" while a reconcile that began
            \* after the last fault is open, "sound" once it has committed

db   == <<row, map, refs>>
disk == <<meta, art, blob>>
hist == <<plan, work, phase>>
vars == <<row, map, refs, meta, art, blob, lock, pc, key, files, todo, plan, work, phase>>

Content == [Name -> Hash \cup {None}]
NoArt   == [n \in Name |-> None]
NoPlan  == [k \in Key |-> None]

-----------------------------------------------------------------------------
(* What a file list refers to, and the SQL statements over it.             *)

FilesOn(c, h) == IF c = None THEN {} ELSE {n \in Name : c[n] = h}

HashesOf(c) == {h \in Hash : FilesOn(c, h) # {}}

\* One reference per file, not per distinct hash.
Owned(k, c, h) == {k} \X FilesOn(c, h)

RefsOn(m, h) == {r \in Key \X Name : r[2] \in FilesOn(m[r[1]], h)}

Larger(a, b) == IF a >= b THEN a ELSE b

\* floor_blob_refs_at_mappings: raise, never create, the counted rows of k.
Floor(k, h) ==
    IF refs[h] > 0 /\ FilesOn(map[k], h) # {}
    THEN Larger(refs[h], Cardinality(RefsOn(map, h)))
    ELSE refs[h]

\* Mutant: gives back one reference per distinct hash of the mapping.
ReleasedOnce(k) ==
    [h \in Hash |-> Larger(0, Floor(k, h) - (IF FilesOn(map[k], h) = {} THEN 0 ELSE 1))]

\* release_entry_blob_refs: give back what k's mapping holds.
Released(k) ==
    [h \in Hash |-> Larger(0, Floor(k, h) - Cardinality(Owned(k, map[k], h)))]

\* Mutant: counts a hash once however many files of the list have it.
TakenOnce(r, k, c) == [h \in Hash |-> r[h] + (IF Owned(k, c, h) = {} THEN 0 ELSE 1)]

\* The INSERT OR IGNORE / UPDATE refcount + 1 loop over a file list.
Taken(r, k, c) == [h \in Hash |-> r[h] + Cardinality(Owned(k, c, h))]

\* The removal's decrement loop, over the file list of the meta.json it read.
Spent(k, c) ==
    [h \in Hash |-> Larger(0, Floor(k, h) - Cardinality(Owned(k, c, h)))]

\* The bound on the counts, checked where a registration opens.
Countable(k, c) == \A h \in Hash : Taken(Released(k), k, c)[h] <= MaxRefs

\* Release the old generation, take the new one's references, record mapping
\* and row: what the registration transactions of put and import commit.
Register(k, c) ==
    /\ refs' = Taken(Released(k), k, c)
    /\ map' = [map EXCEPT ![k] = c]
    /\ row' = [row EXCEPT ![k] = c]

-----------------------------------------------------------------------------
Goto(p, l) == pc' = [pc EXCEPT ![p] = l]

Idle(p) ==
    /\ Goto(p, "idle")
    /\ key' = [key EXCEPT ![p] = None]
    /\ files' = [files EXCEPT ![p] = None]
    /\ todo' = [todo EXCEPT ![p] = {}]

Contains(k) == meta[k] # None /\ row[k] # None

\* An import is exposed from the decision to download to its commit.
ImportPCs == {"download", "extract", "verify", "import", "importing"}

Importing(k) == \E q \in Proc : key[q] = k /\ pc[q] \in ImportPCs
InUse(k) == \E q \in Proc : key[q] = k

MayStart(k) == OverlappingImport \/ ~Importing(k)
MayImport(k) == ~Contains(k) /\ (OverlappingImport \/ ~InUse(k))

\* History: the step is a fault if cond holds.
Fault(cond) == phase' = IF cond THEN "broken" ELSE phase

Init ==
    /\ row = [k \in Key |-> None]
    /\ map = [k \in Key |-> None]
    /\ refs = [h \in Hash |-> 0]
    /\ meta = [k \in Key |-> None]
    /\ art = [k \in Key |-> NoArt]
    /\ blob = {}
    /\ lock = None
    /\ pc = [p \in Proc |-> "idle"]
    /\ key = [p \in Proc |-> None]
    /\ files = [p \in Proc |-> None]
    /\ todo = [p \in Proc |-> {}]
    /\ plan = NoPlan /\ work = {} /\ phase = "sound"

-----------------------------------------------------------------------------
(* put: stage and publish blobs, then register the entry.                  *)

PutStage(p, k, c) ==
    /\ pc[p] = "idle" /\ MayStart(k)
    /\ Goto(p, "publish")
    /\ key' = [key EXCEPT ![p] = k]
    /\ files' = [files EXCEPT ![p] = c]
    /\ todo' = [todo EXCEPT ![p] = HashesOf(c)]
    /\ Fault(Importing(k))
    /\ UNCHANGED <<db, disk, lock, plan, work>>

\* publish_staged_blob: an existing blob wins; otherwise the snapshot is
\* renamed into place under the writer lock, or the publish is deferred.
PutPublish(p, h) ==
    /\ pc[p] = "publish" /\ h \in todo[p]
    /\ \/ h \in blob /\ UNCHANGED blob
       \/ h \notin blob /\ lock = None /\ blob' \in {blob, blob \cup {h}}
    /\ todo' = [todo EXCEPT ![p] = @ \ {h}]
    /\ UNCHANGED <<db, meta, art, lock, pc, key, files, hist>>

\* Mutant: trusts that a blob published before the transaction is still there.
PutRegisterTrusting(p) ==
    /\ pc[p] = "publish" /\ todo[p] = {} /\ lock = None
    /\ Countable(key[p], files[p])
    /\ lock' = p
    /\ Goto(p, "putMeta")
    /\ UNCHANGED <<db, disk, key, files, todo, hist>>

\* The transaction opens and re-materializes what a remove unlinked meanwhile.
PutRegister(p) ==
    /\ pc[p] = "publish" /\ todo[p] = {} /\ lock = None
    /\ Countable(key[p], files[p])
    /\ lock' = p
    /\ blob' = blob \cup HashesOf(files[p])
    /\ Goto(p, "putMeta")
    /\ UNCHANGED <<db, meta, art, key, files, todo, hist>>

\* rematerialize_and_verify: the live source changed since it was hashed; the
\* transaction rolls back, what it wrote to the blob directory stays.
PutMismatch(p) ==
    /\ pc[p] = "publish" /\ todo[p] = {} /\ lock = None
    /\ \E s \in SUBSET (HashesOf(files[p]) \ blob) :
          s # {} /\ blob' = blob \cup s
    /\ Idle(p)
    /\ UNCHANGED <<db, meta, art, lock, hist>>

PutMeta(p) ==
    /\ pc[p] = "putMeta"
    /\ meta' = [meta EXCEPT ![key[p]] = files[p]]
    /\ Goto(p, "putCommit")
    /\ UNCHANGED <<db, art, blob, lock, key, files, todo, hist>>

PutCommit(p) ==
    /\ pc[p] = "putCommit"
    /\ Register(key[p], files[p])
    /\ lock' = None
    /\ Idle(p)
    /\ UNCHANGED <<disk, hist>>

-----------------------------------------------------------------------------
(* remove_entry: called by an eviction, a purge, the doctor, or a lookup   *)
(* that found a missing or corrupt blob.                                   *)

RemoveCall(p, k) ==
    /\ pc[p] = "idle" /\ MayStart(k)
    /\ Goto(p, "remove")
    /\ key' = [key EXCEPT ![p] = k]
    /\ Fault(Importing(k))
    /\ UNCHANGED <<db, disk, lock, files, todo, plan, work>>

\* The file list is read before any lock is taken.
RemoveRead(p) ==
    /\ pc[p] = "remove"
    /\ files' = [files EXCEPT ![p] = meta[key[p]]]
    /\ Goto(p, IF meta[key[p]] = None THEN "settle" ELSE "removeTx")
    /\ UNCHANGED <<db, disk, lock, key, todo, hist>>

\* No meta.json: wait out the current writer and judge the settled state.
\* Either somebody else removed the row, or it is back with its meta.json and
\* the removal starts again, or the entry is stranded and removal is refused.
RemoveSettle(p) ==
    /\ pc[p] = "settle" /\ lock = None
    /\ IF row[key[p]] # None /\ meta[key[p]] # None
       THEN Goto(p, "remove") /\ UNCHANGED <<key, files, todo>>
       ELSE Idle(p)
    /\ UNCHANGED <<db, disk, lock, hist>>

\* An eviction gives up on a recently used or externally retained entry.
RemoveSkip(p) ==
    /\ pc[p] = "removeTx" /\ lock = None
    /\ Idle(p)
    /\ UNCHANGED <<db, disk, lock, hist>>

\* Mutant: spends the file list it read although meta.json was replaced since.
RemoveTxStale(p) ==
    LET k == key[p]
        c == files[p]
    IN  /\ pc[p] = "removeTx" /\ lock = None
        /\ IF row[k] = None
           THEN Idle(p) /\ UNCHANGED db
           ELSE /\ row' = [row EXCEPT ![k] = None]
                /\ map' = [map EXCEPT ![k] = None]
                /\ refs' = Spent(k, c)
                /\ todo' = [todo EXCEPT ![p] =
                       {h \in HashesOf(c) : Floor(k, h) > 0 /\ Spent(k, c)[h] = 0}]
                /\ Goto(p, "cleanup")
                /\ UNCHANGED <<key, files>>
        /\ UNCHANGED <<disk, lock, hist>>

\* The removal transaction: nothing happens without a row or when meta.json is
\* no longer the one read; otherwise the row goes, the references of the file
\* list are given back, and the hashes that lost their row are remembered.
RemoveTx(p) ==
    LET k == key[p]
        c == files[p]
    IN  /\ pc[p] = "removeTx" /\ lock = None
        /\ IF row[k] = None \/ meta[k] # c
           THEN Idle(p) /\ UNCHANGED db
           ELSE /\ row' = [row EXCEPT ![k] = None]
                /\ map' = [map EXCEPT ![k] = None]
                /\ refs' = Spent(k, c)
                /\ todo' = [todo EXCEPT ![p] =
                       {h \in HashesOf(c) : Floor(k, h) > 0 /\ Spent(k, c)[h] = 0}]
                /\ Goto(p, "cleanup")
                /\ UNCHANGED <<key, files>>
        /\ UNCHANGED <<disk, lock, hist>>

\* Mutant: removes the directory whether or not the key was published again.
RemoveDirAlways(p) ==
    /\ pc[p] = "cleanup" /\ lock = None
    /\ lock' = p
    /\ meta' = [meta EXCEPT ![key[p]] = None]
    /\ art' = [art EXCEPT ![key[p]] = NoArt]
    /\ Goto(p, "unlink")
    /\ UNCHANGED <<db, blob, key, files, todo, hist>>

\* The cleanup transaction only takes the lock. The directory belongs to the
\* new generation if the key was published again in between.
RemoveDir(p) ==
    /\ pc[p] = "cleanup" /\ lock = None
    /\ lock' = p
    /\ IF row[key[p]] = None
       THEN /\ meta' = [meta EXCEPT ![key[p]] = None]
            /\ art' = [art EXCEPT ![key[p]] = NoArt]
       ELSE UNCHANGED <<meta, art>>
    /\ Goto(p, "unlink")
    /\ UNCHANGED <<db, blob, key, files, todo, hist>>

\* Mutant: unlinks what was dead in the first transaction without looking again.
RemoveUnlinkAlways(p, h) ==
    /\ pc[p] = "unlink" /\ h \in todo[p]
    /\ blob' = blob \ {h}
    /\ todo' = [todo EXCEPT ![p] = @ \ {h}]
    /\ UNCHANGED <<db, meta, art, lock, pc, key, files, hist>>

\* A dead blob whose row was inserted again is left alone.
RemoveUnlink(p, h) ==
    /\ pc[p] = "unlink" /\ h \in todo[p]
    /\ blob' = IF refs[h] = 0 THEN blob \ {h} ELSE blob
    /\ todo' = [todo EXCEPT ![p] = @ \ {h}]
    /\ UNCHANGED <<db, meta, art, lock, pc, key, files, hist>>

RemoveDone(p) ==
    /\ pc[p] = "unlink" /\ todo[p] = {}
    /\ lock' = None
    /\ Idle(p)
    /\ UNCHANGED <<db, disk, hist>>

-----------------------------------------------------------------------------
(* sweep_orphan_blobs: list old blob files without the lock, then unlink   *)
(* those that have no row.                                                 *)

SweepScan(p) ==
    /\ pc[p] = "idle"
    /\ \E s \in SUBSET blob : s # {} /\ todo' = [todo EXCEPT ![p] = s]
    /\ Goto(p, "sweep")
    /\ UNCHANGED <<db, disk, lock, key, files, hist>>

\* Mutant: unlinks everything the scan listed.
SweepUnlinkScanned(p) ==
    /\ pc[p] = "sweep" /\ lock = None
    /\ blob' = blob \ todo[p]
    /\ Idle(p)
    /\ UNCHANGED <<db, meta, art, lock, hist>>

SweepUnlink(p) ==
    /\ pc[p] = "sweep" /\ lock = None
    /\ blob' = blob \ {h \in todo[p] : refs[h] = 0}
    /\ Idle(p)
    /\ UNCHANGED <<db, meta, art, lock, hist>>

-----------------------------------------------------------------------------
(* A download: extract into the entry directory, then                      *)
(* import_restored_entry.                                                  *)

\* The daemon downloads a key it does not have; nothing holds the key while
\* the bytes travel.
Download(p, k) ==
    /\ pc[p] = "idle" /\ p \in Importers /\ MayImport(k)
    /\ Goto(p, "download")
    /\ key' = [key EXCEPT ![p] = k]
    /\ Fault(row[k] # None \/ InUse(k))
    /\ UNCHANGED <<db, disk, lock, files, todo, plan, work>>

\* extract_entry_pack_until first removes an existing entry directory ...
ExtractClear(p) ==
    /\ pc[p] = "download"
    /\ meta' = [meta EXCEPT ![key[p]] = None]
    /\ art' = [art EXCEPT ![key[p]] = NoArt]
    /\ Goto(p, "extract")
    /\ UNCHANGED <<db, blob, lock, key, files, todo, hist>>

\* ... and renames the verified one onto its path, or copies it file by file
\* when the path is taken again.
ExtractRename(p, c) ==
    LET k == key[p]
    IN  /\ pc[p] = "extract"
        /\ meta' = [meta EXCEPT ![k] = c]
        /\ art' = [art EXCEPT ![k] =
               [n \in Name |-> IF c[n] = None THEN art[k][n] ELSE c[n]]]
        /\ Goto(p, "verify")
        /\ UNCHANGED <<db, blob, lock, key, files, todo, hist>>

\* import_downloaded_entry reads meta.json and re-hashes every artifact.
ImportVerify(p) ==
    LET k == key[p]
        ok == meta[k] # None /\ \A n \in Name : meta[k][n] \in {None, art[k][n]}
    IN  /\ pc[p] = "verify"
        /\ files' = [files EXCEPT ![p] = IF ok THEN meta[k] ELSE None]
        /\ Goto(p, IF ok THEN "import" ELSE "discard")
        /\ UNCHANGED <<db, disk, lock, key, todo, hist>>

\* move_verified_blob, once per missing blob.
MoveBlobs(p, M) ==
    /\ blob' = blob \cup {files[p][n] : n \in M}
    /\ art' = [art EXCEPT ![key[p]] =
           [n \in Name |-> IF n \in M THEN None ELSE art[key[p]][n]]]

Movable(p) ==
    {M \in SUBSET {n \in Name : files[p][n] \in Hash \ blob /\ art[key[p]][n] # None} :
        \A m, n \in M : files[p][m] = files[p][n] => m = n}

ImportMove(p) ==
    /\ pc[p] = "import" /\ lock = None
    /\ Countable(key[p], files[p])
    /\ lock' = p
    /\ \E M \in Movable(p) :
          /\ HashesOf(files[p]) \subseteq blob \cup {files[p][n] : n \in M}
          /\ MoveBlobs(p, M)
    /\ Goto(p, "importing")
    /\ UNCHANGED <<db, meta, key, files, todo, hist>>

\* A blob and its artifact are both gone: the transaction rolls back, the
\* artifacts already moved stay in the blob directory.
ImportVanished(p) ==
    /\ pc[p] = "import" /\ lock = None
    /\ \E n \in Name : files[p][n] \in Hash \ blob /\ art[key[p]][n] = None
    /\ \E M \in Movable(p) : MoveBlobs(p, M)
    /\ Goto(p, "discard")
    /\ UNCHANGED <<db, meta, lock, key, files, todo, hist>>

ImportCommit(p) ==
    /\ pc[p] = "importing"
    /\ Register(key[p], files[p])
    /\ lock' = None
    /\ Goto(p, "tidy")
    /\ UNCHANGED <<disk, key, files, todo, hist>>

ImportRollback(p) ==
    /\ pc[p] = "importing"
    /\ lock' = None
    /\ Goto(p, "discard")
    /\ UNCHANGED <<db, disk, key, files, todo, hist>>

\* Remove the artifacts whose blob already existed.
ImportTidy(p) ==
    LET k == key[p]
    IN  /\ pc[p] = "tidy"
        /\ art' = [art EXCEPT ![k] =
               [n \in Name |-> IF files[p][n] # None THEN None ELSE art[k][n]]]
        /\ Idle(p)
        /\ UNCHANGED <<db, meta, blob, lock, hist>>

\* discard_uncommitted_restored_entry after a failed import.
ImportDiscard(p) ==
    LET k == key[p]
    IN  /\ pc[p] = "discard" /\ lock = None
        /\ IF row[k] = None
           THEN /\ meta' = [meta EXCEPT ![k] = None]
                /\ art' = [art EXCEPT ![k] = NoArt]
           ELSE UNCHANGED <<meta, art>>
        /\ Idle(p)
        /\ UNCHANGED <<db, blob, lock, hist>>

-----------------------------------------------------------------------------
(* migrate_entry_to_blobs: a lookup that finds artifacts beside the        *)
(* meta.json of a committed entry moves them into the blob store and       *)
(* counts one reference for each. Stopping half way keeps the moved files  *)
(* without (a kill) or with (an I/O error) their references.               *)

Migrate(k) ==
    LET present == {n \in Name : meta[k][n] # None /\ art[k][n] # None}
        more(A, h) == refs[h] + Cardinality({n \in A : meta[k][n] = h})
    IN  /\ lock = None /\ row[k] # None /\ meta[k] # None
        /\ \A n \in present : meta[k][n] \in blob \cup {art[k][n]}
        /\ \E A \in SUBSET present :
              /\ A # {}
              /\ \A h \in Hash : more(A, h) <= MaxRefs
              /\ blob' = blob \cup {meta[k][n] : n \in A}
              /\ art' = [art EXCEPT ![k] =
                     [n \in Name |-> IF n \in A THEN None ELSE art[k][n]]]
              /\ refs' \in {refs, [h \in Hash |-> more(A, h)]}
        /\ UNCHANGED <<row, map, meta, lock, pc, key, files, todo, hist>>

-----------------------------------------------------------------------------
(* reconcile_blob_index_dropping_unverifiable: rebuild both derived tables *)
(* from the meta.json of every committed entry. It reads them one after    *)
(* another under the writer lock, which an extraction does not take.       *)

Verifiable(k) == meta[k] # None /\ HashesOf(meta[k]) \subseteq blob

\* Mutant: reads the meta.json files before the transaction is open.
ReconcileBeginUnlocked(p) ==
    /\ pc[p] = "idle" /\ lock = None
    /\ Goto(p, "scan")
    /\ plan' = NoPlan
    /\ work' = {k \in Key : row[k] # None}
    /\ phase' = IF phase = "broken" /\ ~ (\E k \in Key : Importing(k)) THEN "healing" ELSE phase
    /\ UNCHANGED <<db, disk, lock, key, files, todo>>

ReconcileBegin(p) ==
    /\ pc[p] = "idle" /\ lock = None
    /\ lock' = p
    /\ Goto(p, "scan")
    /\ plan' = NoPlan
    /\ work' = {k \in Key : row[k] # None}
    /\ phase' = IF phase = "broken" /\ ~ (\E k \in Key : Importing(k)) THEN "healing" ELSE phase
    /\ UNCHANGED <<db, disk, key, files, todo>>

\* Mutant: an entry with a meta.json is kept, whatever blobs it has lost.
ReconcileReadTrusting(p, k) ==
    /\ pc[p] = "scan" /\ k \in work
    /\ plan' = [plan EXCEPT ![k] = meta[k]]
    /\ work' = work \ {k}
    /\ UNCHANGED <<db, disk, lock, pc, key, files, todo, phase>>

\* verified_entry_files.
ReconcileRead(p, k) ==
    /\ pc[p] = "scan" /\ k \in work
    /\ plan' = [plan EXCEPT ![k] = IF Verifiable(k) THEN meta[k] ELSE None]
    /\ work' = work \ {k}
    /\ UNCHANGED <<db, disk, lock, pc, key, files, todo, phase>>

ReconcileScanned(p) ==
    /\ pc[p] = "scan" /\ work = {}
    /\ work' = {k \in Key : row[k] # None /\ plan[k] = None}
    /\ Goto(p, "drop")
    /\ UNCHANGED <<db, disk, lock, key, files, todo, plan, phase>>

\* The directory of an entry that failed goes before the transaction commits.
ReconcileDrop(p, k) ==
    /\ pc[p] = "drop" /\ k \in work
    /\ meta' = [meta EXCEPT ![k] = None]
    /\ art' = [art EXCEPT ![k] = NoArt]
    /\ work' = work \ {k}
    /\ UNCHANGED <<db, blob, lock, pc, key, files, todo, plan, phase>>

ReconcileCommit(p) ==
    /\ pc[p] = "drop" /\ work = {}
    /\ row' = [k \in Key |-> IF plan[k] = None THEN None ELSE row[k]]
    /\ map' = plan
    /\ refs' = [h \in Hash |-> Cardinality(RefsOn(plan, h))]
    /\ lock' = None
    /\ plan' = NoPlan
    /\ phase' = IF phase = "healing" THEN "sound" ELSE phase
    /\ Idle(p)
    /\ UNCHANGED <<disk, work>>

-----------------------------------------------------------------------------
(* A process fails, is cancelled or is killed: its open transaction rolls  *)
(* back, its files stay.                                                   *)

Stop(p) ==
    /\ pc[p] # "idle"
    /\ pc[p] = "putCommit" => TornPublish \/ row[key[p]] = None
    /\ lock' = IF lock = p THEN None ELSE lock
    /\ plan' = IF lock = p THEN NoPlan ELSE plan
    /\ work' = IF lock = p THEN {} ELSE work
    /\ Fault(\/ pc[p] = "putCommit" /\ row[key[p]] # None
             \/ pc[p] \in {"scan", "drop"} /\ phase = "healing")
    /\ Idle(p)
    /\ UNCHANGED <<db, disk>>

LoseBlob(h) ==
    /\ phase \in Damage /\ h \in blob
    /\ blob' = blob \ {h}
    /\ Fault(TRUE)
    /\ UNCHANGED <<db, meta, art, lock, pc, key, files, todo, plan, work>>

LoseEntry(k) ==
    /\ phase \in Damage /\ meta[k] # None
    /\ meta' = [meta EXCEPT ![k] = None]
    /\ art' = [art EXCEPT ![k] = NoArt]
    /\ Fault(TRUE)
    /\ UNCHANGED <<db, blob, lock, pc, key, files, todo, plan, work>>

-----------------------------------------------------------------------------
Put(p) ==
    \/ \E k \in Key, c \in Outputs : PutStage(p, k, c)
    \/ \E h \in Hash : PutPublish(p, h)
    \/ PutRegister(p) \/ PutMismatch(p) \/ PutMeta(p) \/ PutCommit(p)

Remove(p) ==
    \/ \E k \in Key : RemoveCall(p, k)
    \/ RemoveRead(p) \/ RemoveSettle(p) \/ RemoveSkip(p) \/ RemoveTx(p) \/ RemoveDir(p)
    \/ \E h \in Hash : RemoveUnlink(p, h)
    \/ RemoveDone(p)

Sweep(p) == SweepScan(p) \/ SweepUnlink(p)

Import(p) ==
    \/ \E k \in Key : Download(p, k)
    \/ ExtractClear(p)
    \/ \E c \in Outputs : ExtractRename(p, c)
    \/ ImportVerify(p) \/ ImportMove(p) \/ ImportVanished(p)
    \/ ImportCommit(p) \/ ImportRollback(p) \/ ImportTidy(p) \/ ImportDiscard(p)

Reconcile(p) ==
    \/ ReconcileBegin(p) \/ ReconcileScanned(p) \/ ReconcileCommit(p)
    \/ \E k \in Key : ReconcileRead(p, k) \/ ReconcileDrop(p, k)

Next ==
    \/ \E p \in Proc :
          Put(p) \/ Remove(p) \/ Sweep(p) \/ Import(p) \/ Reconcile(p) \/ Stop(p)
    \/ \E k \in Key : Migrate(k) \/ LoseEntry(k)
    \/ \E h \in Hash : LoseBlob(h)

Spec == Init /\ [][Next]_vars

-----------------------------------------------------------------------------
(* Properties.                                                             *)

PCs == {"idle", "publish", "putMeta", "putCommit", "remove", "settle", "removeTx",
        "cleanup", "unlink", "sweep", "download", "extract", "verify", "import", "importing",
        "tidy", "discard", "scan", "drop"}

\* The tables, the directories and the processes' local state keep their types.
TypeOK ==
    /\ row \in [Key -> Content \cup {None}]
    /\ map \in [Key -> Content \cup {None}]
    /\ refs \in [Hash -> Nat]
    /\ meta \in [Key -> Content \cup {None}]
    /\ art \in [Key -> Content]
    /\ blob \in SUBSET Hash
    /\ lock \in Proc \cup {None}
    /\ pc \in [Proc -> PCs]
    /\ key \in [Proc -> Key \cup {None}]
    /\ files \in [Proc -> Content \cup {None}]
    /\ todo \in [Proc -> SUBSET Hash]
    /\ plan \in [Key -> Content \cup {None}]
    /\ work \in SUBSET Key
    /\ phase \in {"broken", "healing", "sound"}

\* release_entry_blob_refs, the registration loops and the removal's decrement
\* loop never leave a blob counted below the references its owners hold: no
\* removal spends a reference that belongs to another entry.
RefcountCovers ==
    \A h \in Hash : refs[h] >= Cardinality(RefsOn(map, h))

\* put Phase 2: "no refcount drift". Only migrate_entry_to_blobs, which counts
\* files its entry's registration has counted already, adds references that
\* nobody owns and that would keep a blob alive for ever.
NoDrift ==
    [][\A h \in Hash :
          refs'[h] - Cardinality(RefsOn(map', h)) > refs[h] - Cardinality(RefsOn(map, h)) =>
              \E k \in Key : Migrate(k)]_vars

\* Every file of a committed entry is in the blob directory, whatever removals,
\* sweeps and failed publishers of other entries do meanwhile.
NoDanglingRow ==
    \A k \in Key : HashesOf(row[k]) \subseteq blob

\* A committed row is never without its own generation's meta.json, except
\* inside the transaction of the put that is replacing it.
PairedMeta ==
    \A k \in Key :
        row[k] # None =>
            \/ meta[k] = row[k]
            \/ \E p \in Proc : lock = p /\ key[p] = k /\ pc[p] = "putCommit"

\* Both tables say what the meta.json files of the committed entries say, all
\* their blobs exist, and every reference is counted.
IndexSound ==
    /\ \A k \in Key : row[k] = None => map[k] = None
    /\ \A k \in Key :
          row[k] # None =>
              \/ map[k] = meta[k] /\ meta[k] # None
              \/ \E p \in Proc : lock = p /\ key[p] = k /\ pc[p] = "putCommit"
    /\ \A k \in Key : HashesOf(map[k]) \subseteq blob
    /\ RefcountCovers

\* Whatever torn publications, overlapping imports, lost files and half-done
\* reconciles have done to the index, a reconcile that begins after the last of
\* them and commits repairs it, and the operations that were under way meanwhile,
\* or come later, keep it repaired.
SelfHeals == phase = "sound" => IndexSound

\* The store implements the promise of CacheSpec: reference counts, the writer
\* lock and the two-transaction removal amount to tracking reachability.
Cache == INSTANCE CacheSpec WITH live <- row, disk <- blob
ImplementsCache == Cache!Spec

-----------------------------------------------------------------------------
(* The inductive invariant.                                                *)

\* A process outside an operation has no key, a publisher or remover that got
\* past its first read has a file list.
Working ==
    \A p \in Proc :
        /\ pc[p] \in {"idle", "sweep", "scan", "drop"} <=> key[p] = None
        /\ pc[p] \in {"publish", "putMeta", "putCommit", "removeTx", "import",
                      "importing", "tidy"} => files[p] # None

\* The writer lock is held exactly by a transaction that has written files.
LockHeld ==
    \A p \in Proc :
        lock = p <=> pc[p] \in {"putMeta", "putCommit", "importing", "unlink", "scan", "drop"}

\* Row and mapping describe the same generation.
Mapped == \A k \in Key : map[k] = row[k]

\* A registration that is about to commit has all its blobs ...
Ready ==
    \A p \in Proc :
        pc[p] \in {"putMeta", "putCommit", "importing"} =>
            HashesOf(files[p]) \subseteq blob

\* ... and its meta.json.
NewMeta ==
    \A p \in Proc :
        pc[p] \in {"putCommit", "import", "importing"} => meta[key[p]] = files[p]

\* An import has its key, which is not committed, to itself.
Alone ==
    \A p \in Proc :
        pc[p] \in ImportPCs =>
            row[key[p]] = None /\ \A q \in Proc : key[q] = key[p] => q = p

\* What a reconcile has read of a committed entry is still its meta.json, with
\* all its blobs; it drops only entries that failed, and a sound index has none.
Scanned ==
    \A p \in Proc :
        pc[p] \in {"scan", "drop"} =>
            /\ \A k \in Key :
                  plan[k] # None =>
                      row[k] # None /\ meta[k] = plan[k] /\ HashesOf(plan[k]) \subseteq blob
            /\ \A k \in work : row[k] # None /\ plan[k] = None
            /\ phase = "sound" =>
                  \A k \in Key :
                      row[k] # None => plan[k] # None \/ (pc[p] = "scan" /\ k \in work)

\* The inductive invariant of every behaviour, faults included.
HealInv ==
    /\ TypeOK /\ Working /\ LockHeld
    /\ phase # "broken" => Ready /\ NewMeta /\ Alone /\ Scanned
    /\ SelfHeals

\* The inductive invariant of the behaviours without faults: it implies
\* RefcountCovers, NoDanglingRow and PairedMeta.
IndInv == HealInv /\ phase = "sound" /\ Mapped
=============================================================================
