-------------------------- MODULE RemoteKnowledge --------------------------
(***************************************************************************)
(* What the daemon believes about the remote cache: the negative-result    *)
(* cache with its epochs, and the index of keys a LIST returned, as they   *)
(* are changed by restores, uploads and periodic listings that overlap.    *)
(*                                                                         *)
(* Each lock section is a step of its own; the remote is read or written   *)
(* at one moment between the start of a request and its answer. Ages are   *)
(* not kept: an eviction takes any entry, and an entry may expire anytime. *)
(***************************************************************************)
EXTENDS Integers, FiniteSets, Functions

CONSTANTS
    Key,            \* cache keys
    Reader,         \* demand leaders and prefetch items
    Uploader,       \* upload jobs and items of packed batches
    Lister,         \* key index refreshes
    MaxEntries,     \* NEGATIVE_CACHE_MAX_ENTRIES
    Setups          \* the keys in play, the listers at work, whether objects are
                    \* deleted, and the bound on next_epoch and on the revision

ASSUME KnowledgeAssumption ==
    /\ MaxEntries \in Nat
    /\ IsFiniteSet(Key)
    /\ Setups \subseteq [keys : SUBSET Key, listers : SUBSET Lister, deletes : BOOLEAN,
                         bound : Nat]

VARIABLES
    remote,     \* keys the remote holds
    entries,    \* negative cache: epoch of the miss, 0 for no entry
    epochs,     \* latest epoch of a key, 0 when it is not remembered
    next_epoch, \* epochs given out so far
    index,      \* keys of the index
    populated,  \* the index was filled once
    revision,   \* point updates of the index so far
    rd, up, ls, \* local state of readers, uploaders and listers
    noted,      \* keys this daemon stored and noted, and nobody deleted since
    deleted,    \* keys that were deleted from the remote at some time
    between,    \* epochs of misses that fell between the two reads of a listing
    setup       \* who takes part, chosen once

vars == <<remote, entries, epochs, next_epoch, index, populated, revision, rd, up, ls, noted,
          deleted, between, setup>>

\* The bound on epochs and revisions.
MaxEpoch == setup.bound

negative == <<entries, epochs, next_epoch>>
positive == <<index, populated, revision>>
fixed    == <<deleted, between, setup>>

-----------------------------------------------------------------------------
Idle == [pc |-> "idle"]

Init ==
    /\ setup \in Setups
    /\ remote = {} /\ noted = {} /\ deleted = {} /\ between = {}
    /\ entries = [k \in Key |-> 0]
    /\ epochs = [k \in Key |-> 0]
    /\ next_epoch = 0
    /\ index = {} /\ populated = FALSE /\ revision = 0
    /\ rd = [r \in Reader |-> Idle]
    /\ up = [u \in Uploader |-> Idle]
    /\ ls = [l \in Lister |-> Idle]

-----------------------------------------------------------------------------
(* Helpers of the negative cache, run under its lock.                      *)

Remembered(f) == {k \in Key : f[k] # 0}

\* n of the remembered keys are forgotten.
Forget(f, n) ==
    {[k \in Key |-> IF k \in out THEN 0 ELSE f[k]] :
        out \in {o \in SUBSET Remembered(f) : Cardinality(o) = n}}

\* Mutant: a cache one over its limit is not trimmed.
RoomLate(f, limit, k) ==
    IF Cardinality(Remembered(f)) > limit /\ f[k] = 0 THEN Forget(f, 1) ELSE {f}

\* Room for one more key: at the limit another key is forgotten.
Room(f, limit, k) ==
    IF Cardinality(Remembered(f)) >= limit /\ f[k] = 0 /\ limit > 0
    THEN Forget(f, 1)
    ELSE {f}

\* advance_epoch, remember_epoch: at most two epochs per entry are kept.
NewEpoch(k) ==
    /\ next_epoch < MaxEpoch
    /\ next_epoch' = next_epoch + 1
    /\ IF MaxEntries = 0
       THEN UNCHANGED epochs
       ELSE \E f \in Room(epochs, 2 * MaxEntries, k) :
               epochs' = [f EXCEPT ![k] = next_epoch + 1]

IsLatest(k, e) == epochs[k] = e

-----------------------------------------------------------------------------
(* Restores: a demand leader or a prefetch item.                           *)

\* A remembered miss answers a demand at once; otherwise begin_observation.
Demand(r, k) ==
    /\ rd[r] = Idle /\ entries[k] = 0
    /\ NewEpoch(k)
    /\ rd' = [rd EXCEPT ![r] = [pc |-> "get", key |-> k, epoch |-> next_epoch']]
    /\ UNCHANGED <<remote, entries, index, populated, revision, up, ls, noted, fixed>>

\* A prefetch does not ask the negative cache.
Prefetch(r, k) ==
    /\ rd[r] = Idle
    /\ NewEpoch(k)
    /\ rd' = [rd EXCEPT ![r] = [pc |-> "get", key |-> k, epoch |-> next_epoch']]
    /\ UNCHANGED <<remote, entries, index, populated, revision, up, ls, noted, fixed>>

\* The remote answers the GET: the pack, or a definitive 404.
Get(r) ==
    /\ rd[r].pc = "get"
    /\ rd' = [rd EXCEPT ![r] = [pc |-> IF rd[r].key \in remote THEN "found" ELSE "missing",
                                key |-> rd[r].key, epoch |-> rd[r].epoch]]
    /\ UNCHANGED <<remote, negative, positive, up, ls, noted, fixed>>

\* An index answer, a suppressed or failed request, a deadline: nothing is
\* recorded.
GiveUp(r) ==
    /\ rd[r].pc \in {"get", "found", "missing"}
    /\ rd' = [rd EXCEPT ![r] = Idle]
    /\ UNCHANGED <<remote, negative, positive, up, ls, noted, fixed>>

\* Mutant: records the miss however old the observation is.
record_miss_stale(r) ==
    /\ rd[r].pc = "missing"
    /\ \E f \in Room(entries, MaxEntries, rd[r].key) :
          entries' = [f EXCEPT ![rd[r].key] = rd[r].epoch]
    /\ rd' = [rd EXCEPT ![r].pc = "evict"]
    /\ UNCHANGED <<remote, epochs, next_epoch, positive, up, ls, noted, fixed>>

record_miss(r) ==
    /\ rd[r].pc = "missing"
    /\ IF IsLatest(rd[r].key, rd[r].epoch)
       THEN /\ \E f \in Room(entries, MaxEntries, rd[r].key) :
                  entries' = [f EXCEPT ![rd[r].key] = rd[r].epoch]
            /\ rd' = [rd EXCEPT ![r].pc = "evict"]
       ELSE rd' = [rd EXCEPT ![r] = Idle] /\ UNCHANGED entries
    /\ UNCHANGED <<remote, epochs, next_epoch, positive, up, ls, noted, fixed>>

record_present(r) ==
    /\ rd[r].pc = "found"
    /\ IF IsLatest(rd[r].key, rd[r].epoch)
       THEN /\ entries' = [entries EXCEPT ![rd[r].key] = 0]
            /\ rd' = [rd EXCEPT ![r].pc = "insert"]
       ELSE rd' = [rd EXCEPT ![r] = Idle] /\ UNCHANGED entries
    /\ UNCHANGED <<remote, epochs, next_epoch, positive, up, ls, noted, fixed>>

-----------------------------------------------------------------------------
(* The index. It learns nothing before the first listing, but every point  *)
(* update counts.                                                          *)

insert(k) ==
    /\ revision < MaxEpoch
    /\ index' = IF populated THEN index \cup {k} ELSE index
    /\ revision' = revision + 1
    /\ UNCHANGED populated

remove(k) ==
    /\ revision < MaxEpoch
    /\ index' = index \ {k}
    /\ revision' = revision + 1
    /\ UNCHANGED populated

\* What a reader does to the index once its record was accepted.
ReaderInsert(r) ==
    /\ rd[r].pc = "insert"
    /\ insert(rd[r].key)
    /\ rd' = [rd EXCEPT ![r] = Idle]
    /\ UNCHANGED <<remote, negative, up, ls, noted, fixed>>

\* Mutant: leaves the index alone after a recorded miss.
ReaderRemoveSkipped(r) ==
    /\ rd[r].pc = "evict"
    /\ rd' = [rd EXCEPT ![r] = Idle]
    /\ UNCHANGED <<remote, negative, positive, up, ls, noted, fixed>>

ReaderRemove(r) ==
    /\ rd[r].pc = "evict"
    /\ remove(rd[r].key)
    /\ rd' = [rd EXCEPT ![r] = Idle]
    /\ UNCHANGED <<remote, negative, up, ls, noted, fixed>>

-----------------------------------------------------------------------------
(* Uploads.                                                                *)

\* That the spool has one job per key at a time makes no difference here.
begin_write(u, k) ==
    /\ up[u] = Idle
    /\ NewEpoch(k)
    /\ entries' = [entries EXCEPT ![k] = 0]
    /\ up' = [up EXCEPT ![u] = [pc |-> "put", key |-> k]]
    /\ UNCHANGED <<remote, positive, rd, ls, noted, fixed>>

\* The HEAD finds the object, or the PUT stores it.
Put(u) ==
    /\ up[u].pc = "put"
    /\ remote' = remote \cup {up[u].key}
    /\ up' = [up EXCEPT ![u].pc = "confirm"]
    /\ UNCHANGED <<negative, positive, rd, ls, noted, fixed>>

\* An item of a packed batch goes on to note_key_present without a begin_write.
\* A pack is taken to hold objects the remote also holds one by one.
PackedImport(u, k) ==
    /\ up[u] = Idle /\ k \in remote
    /\ up' = [up EXCEPT ![u] = [pc |-> "confirm", key |-> k]]
    /\ UNCHANGED <<remote, negative, positive, rd, ls, noted, fixed>>

UploadFails(u) ==
    /\ up[u].pc = "put"
    /\ up' = [up EXCEPT ![u] = Idle]
    /\ UNCHANGED <<remote, negative, positive, rd, ls, noted, fixed>>

\* Mutant: clears the miss and leaves older observations valid.
confirm_present_quiet(u) ==
    /\ up[u].pc = "confirm"
    /\ entries' = [entries EXCEPT ![up[u].key] = 0]
    /\ up' = [up EXCEPT ![u].pc = "insert"]
    /\ noted' = noted \cup ({up[u].key} \cap remote)
    /\ UNCHANGED <<remote, epochs, next_epoch, positive, rd, ls, fixed>>

\* note_key_present, first half: a completed write is authoritative.
confirm_present(u) ==
    /\ up[u].pc = "confirm"
    /\ NewEpoch(up[u].key)
    /\ entries' = [entries EXCEPT ![up[u].key] = 0]
    /\ up' = [up EXCEPT ![u].pc = "insert"]
    /\ noted' = noted \cup ({up[u].key} \cap remote)
    /\ UNCHANGED <<remote, positive, rd, ls, fixed>>

\* note_key_present, second half.
UploadInsert(u) ==
    /\ up[u].pc = "insert"
    /\ insert(up[u].key)
    /\ up' = [up EXCEPT ![u] = Idle]
    /\ UNCHANGED <<remote, negative, rd, ls, noted, fixed>>

-----------------------------------------------------------------------------
(* populate_key_cache.                                                     *)

\* listing_epoch, under the lock of the negative cache.
ListBegin(l) ==
    /\ ls[l] = Idle
    /\ ls' = [ls EXCEPT ![l] = [pc |-> "epoch", epoch |-> next_epoch]]
    /\ UNCHANGED <<remote, negative, positive, rd, up, noted, fixed>>

\* A miss of the key was recorded and is yet to be taken out of the index.
Evicting(k) == \E r \in Reader : rd[r].pc = "evict" /\ rd[r].key = k

\* The misses that were observed, recorded and taken out of the index after the
\* listing's epoch was read: neither its epoch nor its revision tells of them.
Unnoticed(l) == {k \in Key : entries[k] > ls[l].epoch /\ ~Evicting(k)}

\* refresh_revision, read on its own and before the LIST. What is remembered in
\* `between` is for the properties alone.
ListRevision(l) ==
    /\ ls[l].pc = "epoch"
    /\ ls' = [ls EXCEPT ![l] = [pc |-> "list", epoch |-> ls[l].epoch, revision |-> revision]]
    /\ between' = between \cup {entries[k] : k \in Unnoticed(l)}
    /\ UNCHANGED <<remote, negative, positive, rd, up, noted, deleted, setup>>

List(l) ==
    /\ ls[l].pc = "list"
    /\ ls' = [ls EXCEPT ![l] = [pc |-> "listed", epoch |-> ls[l].epoch,
                                revision |-> ls[l].revision, keys |-> remote]]
    /\ UNCHANGED <<remote, negative, positive, rd, up, noted, fixed>>

ListFails(l) ==
    /\ ls[l].pc = "list"
    /\ ls' = [ls EXCEPT ![l] = Idle]
    /\ UNCHANGED <<remote, negative, positive, rd, up, noted, fixed>>

\* The misses a listing disproves: those whose observation began before it.
Disproved(l) == {k \in ls[l].keys : entries[k] # 0 /\ entries[k] <= ls[l].epoch}

\* remove_present_in takes the keys one after the other: each gets an epoch.
remove_present_in(l) ==
    LET gone == Disproved(l)
        last == next_epoch + Cardinality(gone)
    IN
    /\ ls[l].pc = "listed"
    /\ last <= MaxEpoch
    /\ next_epoch' = last
    /\ entries' = [k \in Key |-> IF k \in gone THEN 0 ELSE entries[k]]
    /\ \E new \in {f \in [gone -> (next_epoch + 1) .. last] : IsInjective(f)} :
          LET all  == [k \in Key |-> IF k \in gone THEN new[k] ELSE epochs[k]]
              over == Cardinality(Remembered(all)) - 2 * MaxEntries
          IN epochs' \in Forget(all, IF over > 0 THEN over ELSE 0)
    /\ ls' = [ls EXCEPT ![l].pc = "swap"]
    /\ UNCHANGED <<remote, positive, rd, up, noted, fixed>>

\* Mutant: installs the listing over whatever happened meanwhile.
populate_always(l) ==
    /\ ls[l].pc = "swap"
    /\ index' = ls[l].keys /\ populated' = TRUE
    /\ ls' = [ls EXCEPT ![l] = Idle]
    /\ UNCHANGED <<remote, negative, revision, rd, up, noted, fixed>>

populate_if_unchanged(l) ==
    /\ ls[l].pc = "swap"
    /\ IF revision = ls[l].revision
       THEN index' = ls[l].keys /\ populated' = TRUE
       ELSE UNCHANGED <<index, populated>>
    /\ ls' = [ls EXCEPT ![l] = Idle]
    /\ UNCHANGED <<remote, negative, revision, rd, up, noted, fixed>>

-----------------------------------------------------------------------------
(* The environment.                                                        *)

\* remote_negative_ttl_secs have passed: check and record_miss drop the entry.
Expire(k) ==
    /\ entries[k] # 0
    /\ entries' = [entries EXCEPT ![k] = 0]
    /\ UNCHANGED <<remote, epochs, next_epoch, positive, rd, up, ls, noted, fixed>>

\* Another machine stores an object.
StoreElsewhere(k) ==
    /\ k \notin remote
    /\ remote' = remote \cup {k}
    /\ UNCHANGED <<negative, positive, rd, up, ls, noted, fixed>>

\* A lifecycle rule or another machine deletes an object.
Delete(k) ==
    /\ setup.deletes /\ k \in remote
    /\ remote' = remote \ {k}
    /\ noted' = noted \ {k}
    /\ deleted' = deleted \cup {k}
    /\ UNCHANGED <<negative, positive, rd, up, ls, between, setup>>

\* The bounds are used up: nothing more is observed.
Exhausted ==
    /\ next_epoch = MaxEpoch \/ revision = MaxEpoch
    /\ UNCHANGED vars

Next ==
    \/ \E r \in Reader, k \in setup.keys : Demand(r, k) \/ Prefetch(r, k)
    \/ \E r \in Reader :
          \/ Get(r) \/ GiveUp(r) \/ record_miss(r) \/ record_present(r)
          \/ ReaderInsert(r) \/ ReaderRemove(r)
    \/ \E u \in Uploader, k \in setup.keys : begin_write(u, k) \/ PackedImport(u, k)
    \/ \E u \in Uploader : Put(u) \/ UploadFails(u) \/ confirm_present(u) \/ UploadInsert(u)
    \/ \E l \in setup.listers :
          \/ ListBegin(l) \/ ListRevision(l) \/ List(l) \/ ListFails(l)
          \/ remove_present_in(l) \/ populate_if_unchanged(l)
    \/ \E k \in setup.keys : Expire(k) \/ StoreElsewhere(k) \/ Delete(k)
    \/ Exhausted

Spec == Init /\ [][Next]_vars

-----------------------------------------------------------------------------
(* Properties.                                                             *)

ReaderState ==
    {Idle} \cup [pc : {"get", "found", "missing", "evict", "insert"},
                 key : Key, epoch : 1 .. MaxEpoch]
UploaderState == {Idle} \cup [pc : {"put", "confirm", "insert"}, key : Key]
ListerState ==
    {Idle} \cup [pc : {"epoch"}, epoch : 0 .. MaxEpoch]
    \cup [pc : {"list"}, epoch : 0 .. MaxEpoch, revision : 0 .. MaxEpoch]
    \cup [pc : {"listed", "swap"}, epoch : 0 .. MaxEpoch, revision : 0 .. MaxEpoch,
          keys : SUBSET Key]

TypeOK ==
    /\ setup \in Setups
    /\ remote \subseteq Key /\ noted \subseteq remote /\ index \subseteq Key
    /\ entries \in [Key -> 0 .. MaxEpoch]
    /\ epochs \in [Key -> 0 .. MaxEpoch]
    /\ next_epoch \in 0 .. MaxEpoch /\ revision \in 0 .. MaxEpoch
    /\ populated \in BOOLEAN
    /\ rd \in [Reader -> ReaderState]
    /\ up \in [Uploader -> UploaderState]
    /\ ls \in [Lister -> ListerState]

\* "A successful upload of the key clears its entry, so this can only delay
\* visibility of another machine's upload": what this daemon uploaded is never
\* answered as a remembered miss, whichever restores were in flight.
UploadNeverNegative == \A k \in noted : entries[k] = 0

\* The caches stay within their limits.
Limits ==
    /\ Cardinality(Remembered(entries)) <= MaxEntries
    /\ Cardinality(Remembered(epochs)) <= 2 * MaxEntries

\* A listing that has read both the epoch and the revision.
Begun(l) == ls[l].pc \in {"list", "listed", "swap"}

\* An epoch is given out once, so that no two observations carry the same one.
Fresh ==
    /\ \A k \in Key : entries[k] <= next_epoch /\ epochs[k] <= next_epoch
    /\ \A r \in Reader : rd[r] # Idle => rd[r].epoch <= next_epoch
    /\ \A r, s \in Reader :
          rd[r] # Idle /\ rd[s] # Idle /\ rd[r].epoch = rd[s].epoch => r = s
    /\ \A l \in Lister :
          /\ ls[l] # Idle => ls[l].epoch <= next_epoch
          /\ Begun(l) => ls[l].revision <= revision

\* What a restore found and an upload stored is there until it is deleted.
Seen ==
    /\ \A r \in Reader : rd[r].pc \in {"found", "insert"} => rd[r].key \in remote \cup deleted
    /\ \A u \in Uploader :
          /\ up[u].pc = "confirm" => up[u].key \in remote \cup deleted
          /\ up[u].pc = "insert" => up[u].key \in noted \cup deleted

\* This daemon knows that the remote has the key.
Known(k) ==
    \/ k \in noted
    \/ k \notin deleted /\ \E r \in Reader : rd[r].pc = "insert" /\ rd[r].key = k

\* No observation that missed a known key can still be recorded.
Outdated ==
    \A k \in Key : Known(k) =>
        /\ entries[k] = 0
        /\ \A r \in Reader : rd[r].pc = "missing" /\ rd[r].key = k => ~IsLatest(k, rd[r].epoch)

\* A miss is remembered that no listing failed to notice.
Missed(k) == entries[k] # 0 /\ entries[k] \notin between

\* The views differ only on the way from the one to the other.
Apart == \A k \in Key \ deleted : Missed(k) /\ k \in index => Evicting(k)

\* A listing that can still be installed knows of every miss and every upload
\* that is through with the index.
Current(l) == Begun(l) /\ ls[l].revision = revision
Listings ==
    \A l \in Lister, k \in Key : Current(l) =>
        /\ Missed(k) /\ ~Evicting(k) =>
              IF ls[l].pc = "swap" THEN k \notin ls[l].keys ELSE entries[k] <= ls[l].epoch
        /\ ls[l].pc \in {"listed", "swap"} /\ k \in noted \ ls[l].keys =>
              \E u \in Uploader : up[u].pc = "insert" /\ up[u].key = k

\* The caches keep their limits, with what it takes to see that neither this
\* nor the properties around it are ever broken.
KnowledgeInv == TypeOK /\ Limits /\ Fresh /\ Seen /\ Outdated /\ Apart /\ Listings

\* No restore or upload of the key is in flight.
Settled(k) ==
    /\ \A r \in Reader : rd[r] # Idle => rd[r].key # k
    /\ \A u \in Uploader : up[u] # Idle => up[u].key # k

\* A listing that is installed drops no key this daemon had stored and noted
\* in the index: it is discarded "rather than erasing a successful upload".
ListingKeepsUploads ==
    [][\A l \in Lister, k \in noted :
          populate_if_unchanged(l) /\ k \in index /\ Settled(k) => k \in index']_vars

\* "so the two views cannot contradict each other (#564)": once the restores
\* and uploads of a key are over, a remembered miss is not also in the index,
\* with two exceptions. The object was deleted: then a restore that found it may
\* add it to the index after a later one has recorded its miss. Or the miss was
\* observed, recorded and removed from the index between the reads of the epoch
\* and of the revision by one listing, which then installs the key beside it.
ViewsAgree ==
    \A k \in Key \ deleted : Settled(k) /\ Missed(k) => k \notin index
=============================================================================
