----------------------------- MODULE Durability -----------------------------
(***************************************************************************)
(* Deferred durability: a put returns before its bytes are on disk and     *)
(* leaves its entry pending; a flusher verifies and syncs the bytes later  *)
(* and marks the entry durable. A lookup re-hashes the blobs of a pending  *)
(* entry and trusts those of a durable one.                                *)
(*                                                                         *)
(* What Store proves is taken over here: a blob's row exists exactly while *)
(* an entry refers to it. What is added is whether the bytes at a blob's   *)
(* path are the ones its address promises, what of the files would survive *)
(* a power loss, and which file an open handle refers to.                  *)
(***************************************************************************)
CONSTANTS
    Key,            \* cache keys
    Hash,           \* content addresses
    Proc,           \* processes with the store open
    Outputs,        \* the sets of blobs a compilation may produce
    None,           \* absent row or meta.json, no key, no lock holder
    Setups          \* keys and processes in play, and the faults to expect

ASSUME DurabilityAssumption ==
    /\ None \notin Key \cup Proc /\ \A c \in SUBSET Hash : c # None
    /\ Outputs \subseteq SUBSET Hash
    /\ Setups \subseteq [keys : SUBSET Key, procs : SUBSET Proc,
                         torn : BOOLEAN, lost : BOOLEAN]

VARIABLES
    row,        \* entries: the blobs of a key's committed generation, or None
    durable,    \* the keys whose row has durable = 1
    saved,      \* the index as of the last checkpoint of SQLite's log
    meta,       \* meta.json as a process reads it
    metaDisk,   \* meta.json as it would be after a power loss
    blob,       \* the bytes at a blob's path: "absent", "good" or "bad"
    synced,     \* the blobs whose bytes and name are on disk
    lock,       \* the process whose transaction has written files, or None
    pc,         \* where each process is
    key,        \* the key it works on
    files,      \* the blobs it stages, or read from a meta.json
    held,       \* the blobs it verified and has open, while the path names them
    trust,      \* has this lookup read durable = 1?
    quiet,      \* history: the lookup read the committed meta.json, and nobody has
                \* replaced or removed the entry since
    setup       \* who takes part and what may go wrong, chosen once

index == <<row, durable, saved>>
store == <<meta, metaDisk, blob, synced>>
lookup == <<trust, quiet>>
local == <<pc, key, files, held, lookup>>
vars  == <<index, store, lock, local, setup>>

\* May a put end between meta.json and its commit while an older generation is
\* committed? May a power loss take back committed transactions?
TornPublish == setup.torn
LostCommits == setup.lost
NoFaults == ~TornPublish /\ ~LostCommits

-----------------------------------------------------------------------------
Goto(p, l) == pc' = [pc EXCEPT ![p] = l]

Idle(p) ==
    /\ Goto(p, "idle")
    /\ key' = [key EXCEPT ![p] = None]
    /\ files' = [files EXCEPT ![p] = {}]
    /\ held' = [held EXCEPT ![p] = {}]
    /\ trust' = [trust EXCEPT ![p] = FALSE]

Start(p, l, k, c) ==
    /\ pc[p] = "idle" /\ p \in setup.procs /\ k \in setup.keys
    /\ Goto(p, l)
    /\ key' = [key EXCEPT ![p] = k]
    /\ files' = [files EXCEPT ![p] = c]

\* No lookup of k in progress is quiet from here on.
Disturb(k) == quiet' = [q \in Proc |-> quiet[q] /\ key[q] # k]

Referenced(h) == \E k \in Key : row[k] # None /\ h \in row[k]

Absent(c) == {h \in c : blob[h] = "absent"}

\* New bytes appear at the path of every h in c.
Write(c, bytes) ==
    /\ blob' = [h \in Hash |-> IF h \in c THEN bytes ELSE blob[h]]
    /\ synced' = synced \ c

Init ==
    /\ setup \in Setups
    /\ row = [k \in Key |-> None] /\ durable = {}
    /\ saved = [row |-> row, durable |-> durable]
    /\ meta = [k \in Key |-> None] /\ metaDisk = meta
    /\ blob = [h \in Hash |-> "absent"] /\ synced = {}
    /\ lock = None
    /\ pc = [p \in Proc |-> "idle"]
    /\ key = [p \in Proc |-> None]
    /\ files = [p \in Proc |-> {}]
    /\ held = [p \in Proc |-> {}]
    /\ trust = [p \in Proc |-> FALSE] /\ quiet = [p \in Proc |-> FALSE]

-----------------------------------------------------------------------------
(* put. Bytes are published without an fsync; a file that is already at    *)
(* the blob's path wins, whatever it contains.                             *)

PutStage(p, k, c) ==
    /\ Start(p, "publish", k, c)
    /\ UNCHANGED <<index, store, lock, held, lookup, setup>>

PutPublish(p) ==
    /\ pc[p] = "publish" /\ lock = None
    /\ Write(Absent(files[p]), "good")
    /\ Goto(p, "register")
    /\ UNCHANGED <<index, meta, metaDisk, lock, key, files, held, lookup, setup>>

\* The transaction opens; missing blobs are written again from the live output.
PutRegister(p) ==
    /\ pc[p] = "register" /\ lock = None
    /\ lock' = p
    /\ Write(Absent(files[p]), "good")
    /\ Goto(p, "putMeta")
    /\ UNCHANGED <<index, meta, metaDisk, key, files, held, lookup, setup>>

\* ... unless it changed since: the transaction rolls back and leaves the
\* wrong bytes at the path.
PutMismatch(p) ==
    /\ pc[p] = "register" /\ lock = None
    /\ \E h \in Absent(files[p]) : Write({h}, "bad")
    /\ Idle(p)
    /\ UNCHANGED <<index, meta, metaDisk, lock, quiet, setup>>

PutMeta(p) ==
    /\ pc[p] = "putMeta"
    /\ meta' = [meta EXCEPT ![key[p]] = files[p]]
    /\ Goto(p, "putCommit")
    /\ UNCHANGED <<index, metaDisk, blob, synced, lock, key, files, held, lookup, setup>>

PutCommit(p) ==
    /\ pc[p] = "putCommit"
    /\ row' = [row EXCEPT ![key[p]] = files[p]]
    /\ durable' = durable \ {key[p]}
    /\ lock' = None
    /\ Disturb(key[p])
    /\ Idle(p)
    /\ UNCHANGED <<saved, store, setup>>

-----------------------------------------------------------------------------
(* remove_entry, and the unlink of what nobody refers to any more.         *)

RemoveRow(p, k) ==
    /\ lock = None /\ row[k] # None /\ meta[k] # None
    /\ Start(p, "cleanup", k, row[k])
    /\ row' = [row EXCEPT ![k] = None]
    /\ durable' = durable \ {k}
    /\ Disturb(k)
    /\ UNCHANGED <<saved, store, lock, held, trust, setup>>

\* An unlinked file takes its identity with it: no handle refers to the path. The
\* removal is taken to be on disk at once: a file a power loss brings back is one
\* that no row refers to, as PutMismatch leaves them.
Unlink(c) ==
    /\ blob' = [h \in Hash |-> IF h \in c THEN "absent" ELSE blob[h]]
    /\ synced' = synced \ c
    /\ held' = [p \in Proc |-> held[p] \ c]

RemoveFiles(p) ==
    LET k == key[p]
    IN  /\ pc[p] = "cleanup" /\ lock = None
        /\ meta' = IF row[k] = None THEN [meta EXCEPT ![k] = None] ELSE meta
        /\ metaDisk' = IF row[k] = None THEN [metaDisk EXCEPT ![k] = None] ELSE metaDisk
        /\ Unlink({h \in files[p] : ~Referenced(h)})
        /\ Goto(p, "idle")
        /\ key' = [key EXCEPT ![p] = None]
        /\ files' = [files EXCEPT ![p] = {}]
        /\ UNCHANGED <<index, lock, lookup, setup>>

\* sweep_orphan_blobs.
SweepOrphan(h) ==
    /\ lock = None /\ blob[h] # "absent" /\ ~Referenced(h)
    /\ Unlink({h})
    /\ UNCHANGED <<index, meta, metaDisk, lock, pc, key, files, lookup, setup>>

-----------------------------------------------------------------------------
(* flush_entry_durability_with.                                            *)

FlushRead(p, k) ==
    /\ row[k] # None /\ k \notin durable /\ meta[k] = row[k]
    /\ Start(p, "verify", k, meta[k])
    /\ UNCHANGED <<index, store, lock, held, lookup, setup>>

\* Mutant: syncs what it finds at the path and leaves verification to lookups.
FlushVerifySize(p, h) ==
    /\ pc[p] = "verify" /\ h \in files[p] \ held[p] /\ blob[h] # "absent"
    /\ held' = [held EXCEPT ![p] = @ \cup {h}]
    /\ synced' = synced \cup {h}
    /\ UNCHANGED <<index, meta, metaDisk, blob, lock, pc, key, files, lookup, setup>>

\* verify_pending_blob, without the writer lock: open, hash, sync the bytes,
\* sync the directory.
FlushVerify(p, h) ==
    /\ pc[p] = "verify" /\ h \in files[p] \ held[p] /\ blob[h] = "good"
    /\ held' = [held EXCEPT ![p] = @ \cup {h}]
    /\ synced' = synced \cup {h}
    /\ UNCHANGED <<index, meta, metaDisk, blob, lock, pc, key, files, lookup, setup>>

FlushGiveUp(p) ==
    /\ pc[p] = "verify"
    /\ \E h \in files[p] \ held[p] : blob[h] # "good"
    /\ Idle(p)
    /\ UNCHANGED <<index, store, lock, quiet, setup>>

\* Everything was verified before the writer lock was taken.
FlushReady(p) ==
    /\ pc[p] = "verify" /\ files[p] \subseteq held[p]
    /\ Goto(p, "promote")
    /\ UNCHANGED <<index, store, lock, key, files, held, lookup, setup>>

\* Mutant: promotes the generation although a verified file was replaced since.
FlushPromoteReplaced(p) ==
    LET k == key[p]
        same == row[k] = files[p] /\ k \notin durable /\ meta[k] = files[p]
    IN  /\ pc[p] = "promote" /\ lock = None
        /\ IF same
           THEN /\ durable' = durable \cup {k}
                /\ metaDisk' = [metaDisk EXCEPT ![k] = meta[k]]
           ELSE UNCHANGED <<durable, metaDisk>>
        /\ Idle(p)
        /\ UNCHANGED <<row, saved, meta, blob, synced, lock, quiet, setup>>

\* Mutant: promotes without syncing meta.json.
FlushPromoteUnsynced(p) ==
    LET k == key[p]
        same == /\ row[k] = files[p] /\ k \notin durable
                /\ meta[k] = files[p]
                /\ files[p] \subseteq held[p]
    IN  /\ pc[p] = "promote" /\ lock = None
        /\ durable' = IF same THEN durable \cup {k} ELSE durable
        /\ Idle(p)
        /\ UNCHANGED <<row, saved, store, lock, quiet, setup>>

\* The promotion transaction: same pending generation, same meta.json, and every
\* blob path still names the file that was verified.
FlushPromote(p) ==
    LET k == key[p]
        same == /\ row[k] = files[p] /\ k \notin durable
                /\ meta[k] = files[p]
                /\ files[p] \subseteq held[p]
    IN  /\ pc[p] = "promote" /\ lock = None
        /\ IF same
           THEN /\ durable' = durable \cup {k}
                /\ metaDisk' = [metaDisk EXCEPT ![k] = meta[k]]
           ELSE UNCHANGED <<durable, metaDisk>>
        /\ Idle(p)
        /\ UNCHANGED <<row, saved, meta, blob, synced, lock, quiet, setup>>

-----------------------------------------------------------------------------
(* get: meta.json, then the durable flag, then the blobs.                  *)

GetMeta(p, k) ==
    /\ row[k] # None /\ meta[k] # None
    /\ Start(p, "flag", k, meta[k])
    /\ quiet' = [quiet EXCEPT ![p] = meta[k] = row[k]]
    /\ UNCHANGED <<index, store, lock, held, trust, setup>>

\* Mutant: re-hashes nothing, pending or not.
GetFlagTrusting(p) ==
    /\ pc[p] = "flag"
    /\ trust' = [trust EXCEPT ![p] = TRUE]
    /\ Goto(p, "blobs")
    /\ UNCHANGED <<index, store, lock, key, files, held, quiet, setup>>

\* entry_is_durable: "Unknown rows read as durable".
GetFlag(p) ==
    /\ pc[p] = "flag"
    /\ trust' = [trust EXCEPT ![p] = row[key[p]] = None \/ key[p] \in durable]
    /\ Goto(p, "blobs")
    /\ UNCHANGED <<index, store, lock, key, files, held, quiet, setup>>

\* A missing blob, or wrong bytes where they are checked, evict the entry.
Accepts(p) ==
    \A h \in files[p] : blob[h] = "good" \/ (trust[p] /\ blob[h] = "bad")

GetServe(p) ==
    /\ pc[p] = "blobs" /\ Accepts(p)
    /\ quiet' = [quiet EXCEPT ![p] = FALSE]
    /\ Idle(p)
    /\ UNCHANGED <<index, store, lock, setup>>

GetEvict(p) ==
    /\ pc[p] = "blobs" /\ ~Accepts(p) /\ lock = None
    /\ trust' = [trust EXCEPT ![p] = FALSE]
    /\ IF row[key[p]] # None /\ meta[key[p]] # None
       THEN /\ row' = [row EXCEPT ![key[p]] = None]
            /\ durable' = durable \ {key[p]}
            /\ files' = [files EXCEPT ![p] = row[key[p]]]
            /\ Disturb(key[p])
            /\ Goto(p, "cleanup")
            /\ UNCHANGED <<key, held>>
       ELSE /\ quiet' = [quiet EXCEPT ![p] = FALSE]
            /\ Goto(p, "idle")
            /\ key' = [key EXCEPT ![p] = None]
            /\ files' = [files EXCEPT ![p] = {}]
            /\ UNCHANGED <<row, durable, held>>
    /\ UNCHANGED <<saved, store, lock, setup>>

-----------------------------------------------------------------------------
(* Failures.                                                               *)

\* A put may end after it wrote meta.json only where TornPublish allows it.
Tearable(p) == pc[p] = "putCommit" => TornPublish \/ row[key[p]] = None

\* A process fails, is cancelled or is killed: its open transaction rolls back.
Stop(p) ==
    /\ pc[p] # "idle" /\ Tearable(p)
    /\ lock' = IF lock = p THEN None ELSE lock
    /\ quiet' = [quiet EXCEPT ![p] = FALSE]
    /\ Idle(p)
    /\ UNCHANGED <<index, store, setup>>

\* SQLite moves its log into the database file and syncs it.
Checkpoint ==
    /\ LostCommits
    /\ saved' = [row |-> row, durable |-> durable]
    /\ UNCHANGED <<row, durable, store, lock, local, setup>>

\* Unsynced bytes survive, vanish, or are damaged under the right name and size;
\* an unsynced meta.json survives, vanishes or is the previous one. The index
\* runs with synchronous = NORMAL: its latest commits may be undone.
Survivors(h) ==
    IF h \in synced \/ blob[h] = "absent" THEN {blob[h]} ELSE {"absent", "bad", blob[h]}

SurvivingMeta(k) ==
    IF metaDisk[k] = meta[k] THEN {meta[k]} ELSE {metaDisk[k], meta[k], None}

PowerLoss ==
    /\ \A p \in Proc : Tearable(p)
    /\ blob' \in [Hash -> UNION {Survivors(h) : h \in Hash}]
    /\ \A h \in Hash : blob'[h] \in Survivors(h)
    /\ synced' = {h \in Hash : blob'[h] # "absent"}
    /\ meta' \in [Key -> UNION {SurvivingMeta(k) : k \in Key}]
    /\ \A k \in Key : meta'[k] \in SurvivingMeta(k)
    /\ metaDisk' = meta'
    /\ \/ UNCHANGED index
       \/ /\ LostCommits
          /\ row' = saved.row /\ durable' = saved.durable
          /\ UNCHANGED saved
    /\ lock' = None
    /\ pc' = [p \in Proc |-> "idle"]
    /\ key' = [p \in Proc |-> None]
    /\ files' = [p \in Proc |-> {}]
    /\ held' = [p \in Proc |-> {}]
    /\ trust' = [p \in Proc |-> FALSE]
    /\ quiet' = [p \in Proc |-> FALSE]
    /\ UNCHANGED setup

-----------------------------------------------------------------------------
Put(p) ==
    \/ \E k \in Key, c \in Outputs : PutStage(p, k, c)
    \/ PutPublish(p) \/ PutRegister(p) \/ PutMismatch(p) \/ PutMeta(p) \/ PutCommit(p)

Remove(p) == (\E k \in Key : RemoveRow(p, k)) \/ RemoveFiles(p)

Flush(p) ==
    \/ \E k \in Key : FlushRead(p, k)
    \/ \E h \in Hash : FlushVerify(p, h)
    \/ FlushGiveUp(p) \/ FlushReady(p) \/ FlushPromote(p)

Get(p) ==
    \/ \E k \in Key : GetMeta(p, k)
    \/ GetFlag(p) \/ GetServe(p) \/ GetEvict(p)

Next ==
    \/ \E p \in Proc : Put(p) \/ Remove(p) \/ Flush(p) \/ Get(p) \/ Stop(p)
    \/ \E h \in Hash : SweepOrphan(h)
    \/ Checkpoint \/ PowerLoss

Spec == Init /\ [][Next]_vars

-----------------------------------------------------------------------------
(* Properties.                                                             *)

PCs == {"idle", "publish", "register", "putMeta", "putCommit", "cleanup", "verify",
        "promote", "flag", "blobs"}

\* The index, the files and the processes' local state keep their types.
TypeOK ==
    /\ row \in [Key -> {None} \cup SUBSET Hash]
    /\ durable \in SUBSET Key
    /\ saved \in [row : [Key -> {None} \cup SUBSET Hash], durable : SUBSET Key]
    /\ meta \in [Key -> {None} \cup SUBSET Hash]
    /\ metaDisk \in [Key -> {None} \cup SUBSET Hash]
    /\ blob \in [Hash -> {"absent", "good", "bad"}]
    /\ synced \in SUBSET Hash
    /\ lock \in Proc \cup {None}
    /\ pc \in [Proc -> PCs]
    /\ key \in [Proc -> Key \cup {None}]
    /\ files \in [Proc -> SUBSET Hash]
    /\ held \in [Proc -> SUBSET Hash]
    /\ trust \in [Proc -> BOOLEAN]
    /\ quiet \in [Proc -> BOOLEAN]
    /\ setup \in Setups

\* The blobs of every entry marked durable are right and on disk.
Intact ==
    \A k \in durable :
        row[k] # None /\ \A h \in row[k] : blob[h] = "good" /\ h \in synced

\* Its meta.json, on disk too, is that same generation's, except inside the
\* transaction of a put that is replacing it.
Paired ==
    \A k \in durable :
        /\ metaDisk[k] = row[k]
        /\ \/ meta[k] = row[k]
           \/ \E p \in Proc : lock = p /\ key[p] = k /\ pc[p] = "putCommit"

\* Without those two faults neither a lookup that trusts the durable flag nor
\* the next power loss can meet wrong bytes.
DurableIntact == NoFaults => Intact

\* ... and what such a lookup reads is the meta.json of the durable generation.
DurableMeta == NoFaults => Paired

\* Whatever torn publications and lost commits have left behind, a flush marks
\* only what is right, on disk and described by its meta.json: "Changed,
\* unreadable or corrupt entries remain pending".
FlushCertifies ==
    [][\A k \in durable' \ durable, p \in Proc :
          FlushPromote(p) =>
              /\ metaDisk'[k] = row[k] /\ meta[k] = row[k]
              /\ \A h \in row[k] : blob[h] = "good" /\ h \in synced]_vars

\* "verified byte for byte until the flush lands": whatever other processes store,
\* flush, remove and sweep beside it, and whatever a power loss damaged before it, a
\* lookup whose entry nobody removes or replaces under it serves right bytes.
HitsIntact ==
    [][NoFaults =>
          \A p \in Proc :
              GetServe(p) /\ quiet[p] => \A h \in files[p] : blob[h] = "good"]_vars

-----------------------------------------------------------------------------
(* The inductive invariant.                                                *)

\* A process outside an operation has no key.
Working == \A p \in Proc : pc[p] = "idle" <=> key[p] = None

\* The writer lock is held exactly by a put that has written files.
LockHeld == \A p \in Proc : lock = p <=> pc[p] \in {"putMeta", "putCommit"}

\* A file that was verified and is still at its path is right and on disk.
HeldIntact ==
    \A p \in Proc : \A h \in held[p] : blob[h] = "good" /\ h \in synced

\* A lookup that nobody disturbs has the file list of the committed generation; if
\* it trusts the durable flag, the bytes are right and stay so, because its row
\* keeps every sweep and removal off the blobs.
Undisturbed ==
    \A p \in Proc :
        quiet[p] =>
            /\ pc[p] \in {"flag", "blobs"} => row[key[p]] = files[p]
            /\ pc[p] = "blobs" /\ trust[p] => \A h \in files[p] : blob[h] = "good"

QuietLookups == NoFaults => Undisturbed

DurabilityInv ==
    /\ TypeOK /\ Working /\ LockHeld /\ HeldIntact
    /\ DurableIntact /\ DurableMeta /\ QuietLookups
=============================================================================
