-------------------------- MODULE DurabilityProofs --------------------------
(***************************************************************************)
(* Proofs about Durability for any keys, hashes, processes and outputs.    *)
(***************************************************************************)
EXTENDS Durability, TLAPS

\* The part of the invariant that needs no assumption about faults.
Basic == TypeOK /\ Working /\ LockHeld /\ HeldIntact

-----------------------------------------------------------------------------
(* Types and handles, with every fault allowed.                            *)

\* Who is quiet after a step that removes or replaces the entry of k.
LEMMA Disturbed ==
    ASSUME NEW k, Disturb(k)
    PROVE  /\ quiet' \in [Proc -> BOOLEAN]
           /\ \A q \in Proc : quiet'[q] => quiet[q] /\ key[q] # k
<1>1. quiet' = [q \in Proc |-> quiet[q] /\ key[q] # k]
  BY DEF Disturb
<1> QED
  BY <1>1, Zenon

\* An empty store has no handle and no operation in progress.
LEMMA BasicInit == Init => Basic
<1> SUFFICES ASSUME Init PROVE Basic
  OBVIOUS
<1> USE DurabilityAssumption DEF Init
<1>1. TypeOK
  BY DEF TypeOK, PCs
<1>2. Working /\ LockHeld /\ HeldIntact
  BY DEF Working, LockHeld, HeldIntact
<1> QED
  BY <1>1, <1>2 DEF Basic

\* A put writes only where no file is, hence never under an open handle.
LEMMA PutBasic ==
    ASSUME Basic, NEW p \in Proc, Put(p)
    PROVE  Basic'
<1> USE DurabilityAssumption
<1> USE DEF Basic, TypeOK, PCs, Working, LockHeld, HeldIntact, Goto, Idle, index, store, lookup
<1>1. CASE \E k \in Key, c \in Outputs : PutStage(p, k, c)
  BY <1>1 DEF PutStage, Start
<1>2. CASE PutPublish(p)
  BY <1>2 DEF PutPublish, Write, Absent
<1>3. CASE PutRegister(p)
  BY <1>3 DEF PutRegister, Write, Absent
<1>4. CASE PutMismatch(p)
  BY <1>4 DEF PutMismatch, Write, Absent
<1>5. CASE PutMeta(p)
  BY <1>5 DEF PutMeta
<1>6. CASE PutCommit(p)
  BY <1>6, Disturbed DEF PutCommit
<1> QED
  BY <1>1, <1>2, <1>3, <1>4, <1>5, <1>6 DEF Put

\* A removal or a sweep takes a file and its identity away together.
LEMMA RemoveBasic ==
    ASSUME Basic, (\E p \in Proc : Remove(p)) \/ \E h \in Hash : SweepOrphan(h)
    PROVE  Basic'
<1> USE DurabilityAssumption
<1> USE DEF Basic, TypeOK, PCs, Working, LockHeld, HeldIntact, Goto, index, store, lookup
<1>1. CASE \E p \in Proc, k \in Key : RemoveRow(p, k)
  BY <1>1, Disturbed DEF RemoveRow, Start
<1>2. CASE \E p \in Proc : RemoveFiles(p)
  <2>1. PICK p \in Proc : RemoveFiles(p)
    BY <1>2
  <2>2. key[p] \in Key
    BY <2>1 DEF RemoveFiles
  <2> QED
    BY <2>1, <2>2 DEF RemoveFiles, Unlink
<1>3. CASE \E h \in Hash : SweepOrphan(h)
  BY <1>3 DEF SweepOrphan, Unlink
<1> QED
  BY <1>1, <1>2, <1>3 DEF Remove

\* A flusher opens only what it verified, and syncs it.
LEMMA FlushBasic ==
    ASSUME Basic, NEW p \in Proc, Flush(p)
    PROVE  Basic'
<1> USE DurabilityAssumption
<1> USE DEF Basic, TypeOK, PCs, Working, LockHeld, HeldIntact, Goto, Idle, index, store, lookup
<1>1. CASE \E k \in Key : FlushRead(p, k)
  BY <1>1 DEF FlushRead, Start
<1>2. CASE \E h \in Hash : FlushVerify(p, h)
  BY <1>2 DEF FlushVerify
<1>3. CASE FlushGiveUp(p)
  BY <1>3 DEF FlushGiveUp
<1>4. CASE FlushReady(p)
  BY <1>4 DEF FlushReady
<1>5. CASE FlushPromote(p)
  BY <1>5 DEF FlushPromote
<1> QED
  BY <1>1, <1>2, <1>3, <1>4, <1>5 DEF Flush

\* Lookups change no file.
LEMMA GetBasic ==
    ASSUME Basic, NEW p \in Proc, Get(p)
    PROVE  Basic'
<1> USE DurabilityAssumption
<1> USE DEF Basic, TypeOK, PCs, Working, LockHeld, HeldIntact, Goto, Idle, index, store, lookup
<1>1. CASE \E k \in Key : GetMeta(p, k)
  BY <1>1 DEF GetMeta, Start
<1>2. CASE GetFlag(p)
  BY <1>2 DEF GetFlag
<1>3. CASE GetServe(p)
  BY <1>3 DEF GetServe
<1>4. CASE GetEvict(p)
  <2>1. quiet' \in [Proc -> BOOLEAN]
    <3>1. Disturb(key[p]) \/ quiet' = [quiet EXCEPT ![p] = FALSE]
      BY <1>4 DEF GetEvict
    <3>2. CASE Disturb(key[p])
      BY <3>2, Disturbed, Zenon
    <3>3. CASE quiet' = [quiet EXCEPT ![p] = FALSE]
      BY <3>3
    <3> QED
      BY <3>1, <3>2, <3>3
  <2>2. trust' \in [Proc -> BOOLEAN]
    BY <1>4 DEF GetEvict
  <2> QED
    BY <1>4, <2>1, <2>2 DEF GetEvict
<1> QED
  BY <1>1, <1>2, <1>3, <1>4 DEF Get

\* A stopped process, a checkpoint and a power loss leave no dangling handle.
LEMMA FaultBasic ==
    ASSUME Basic, (\E p \in Proc : Stop(p)) \/ Checkpoint \/ PowerLoss
    PROVE  Basic'
<1> USE DurabilityAssumption
<1> USE DEF Basic, TypeOK, PCs, Working, LockHeld, HeldIntact, Goto, Idle, index, store, lookup,
            local
<1>1. CASE \E p \in Proc : Stop(p)
  BY <1>1 DEF Stop
<1>2. CASE Checkpoint
  BY <1>2 DEF Checkpoint
<1>3. CASE PowerLoss
  <2>1. blob' \in [Hash -> {"absent", "good", "bad"}]
    BY <1>3 DEF PowerLoss, Survivors
  <2>2. meta' \in [Key -> {None} \cup SUBSET Hash]
    BY <1>3 DEF PowerLoss, SurvivingMeta
  <2> QED
    BY <1>3, <2>1, <2>2 DEF PowerLoss
<1> QED
  BY <1>1, <1>2, <1>3

\* Every step preserves types and handles.
LEMMA BasicInductive ==
    ASSUME Basic, [Next]_vars
    PROVE  Basic'
<1>1. CASE UNCHANGED vars
  BY <1>1 DEF vars, index, store, lookup, local, Basic, TypeOK, Working, LockHeld, HeldIntact
<1>2. CASE Next
  BY <1>2, PutBasic, RemoveBasic, FlushBasic, GetBasic, FaultBasic DEF Next
<1> QED
  BY <1>1, <1>2

\* Types and handles are right in every behaviour.
THEOREM BasicInvariant == Spec => []Basic
<1>1. Basic /\ [Next]_vars => Basic'
  BY BasicInductive
<1> QED
  BY BasicInit, <1>1, PTL DEF Spec

\* A flush certifies only right bytes that are on disk, whatever faults there were.
THEOREM FlushSound == Spec => FlushCertifies
<1>1. ASSUME Basic, NEW k \in durable' \ durable, NEW p \in Proc, FlushPromote(p)
      PROVE  /\ metaDisk'[k] = row[k] /\ meta[k] = row[k]
             /\ \A h \in row[k] : blob[h] = "good" /\ h \in synced
  <2>1. /\ k = key[p] /\ row[k] = files[p] /\ meta[k] = files[p]
        /\ files[p] \subseteq held[p]
        /\ metaDisk' = [metaDisk EXCEPT ![k] = meta[k]]
    BY <1>1 DEF FlushPromote
  <2>2. k \in Key
    BY <1>1, <2>1 DEF FlushPromote, Basic, TypeOK, Working
  <2> QED
    BY <1>1, <2>1, <2>2 DEF Basic, TypeOK, HeldIntact
<1>2. Basic => \A k \in durable' \ durable, p \in Proc :
          FlushPromote(p) =>
              /\ metaDisk'[k] = row[k] /\ meta[k] = row[k]
              /\ \A h \in row[k] : blob[h] = "good" /\ h \in synced
  BY <1>1
<1> QED
  BY BasicInvariant, <1>2, PTL DEF FlushCertifies

-----------------------------------------------------------------------------
(* Durable entries, when no commit is lost and no put is torn over a live  *)
(* generation.                                                             *)

\* What the steps preserve as long as neither fault is to be expected.
Sound == Basic /\ Intact /\ Paired

\* No step changes who takes part and what may go wrong.
LEMMA SetupFixed ==
    ASSUME [Next]_vars
    PROVE  setup' = setup
<1>1. CASE UNCHANGED vars
  BY <1>1 DEF vars
<1>2. CASE \E p \in Proc : Put(p) \/ Remove(p)
  BY <1>2 DEF Put, PutStage, PutPublish, PutRegister, PutMismatch, PutMeta, PutCommit,
              Remove, RemoveRow, RemoveFiles
<1>3. CASE \E p \in Proc : Flush(p) \/ Get(p)
  BY <1>3 DEF Flush, FlushRead, FlushVerify, FlushGiveUp, FlushReady, FlushPromote,
              Get, GetMeta, GetFlag, GetServe, GetEvict
<1>4. CASE (\E p \in Proc : Stop(p)) \/ (\E h \in Hash : SweepOrphan(h)) \/ Checkpoint \/ PowerLoss
  BY <1>4 DEF Stop, SweepOrphan, Checkpoint, PowerLoss
<1> QED
  BY <1>1, <1>2, <1>3, <1>4 DEF Next

\* The empty store satisfies the invariant.
LEMMA DurabilityInit == Init => Sound
<1> SUFFICES ASSUME Init PROVE Sound
  OBVIOUS
<1>1. Basic
  BY BasicInit
<1>2. Intact /\ Paired
  BY DurabilityAssumption DEF Init, Intact, Paired
<1> QED
  BY <1>1, <1>2 DEF Sound

\* A put preserves it: the new generation is pending when it becomes visible.
LEMMA PutDurable ==
    ASSUME Sound, NEW p \in Proc, Put(p), Basic'
    PROVE  Sound'
<1> USE DurabilityAssumption
<1> USE DEF Sound, Basic, TypeOK, Working, Goto, Idle, index, store, lookup
<1> USE DEF Put, PutStage, Start, PutPublish, PutRegister, PutMismatch, PutMeta, PutCommit
<1>1. Intact'
  BY DEF Intact, Write, Absent
<1>2. Paired'
  BY DEF Paired, LockHeld
<1> QED
  BY <1>1, <1>2

\* Removals and sweeps preserve it: they unlink only what no entry refers to.
LEMMA RemoveDurable ==
    ASSUME Sound, (\E p \in Proc : Remove(p)) \/ \E h \in Hash : SweepOrphan(h),
           Basic'
    PROVE  Sound'
<1> USE DurabilityAssumption
<1> USE DEF Sound, Basic, TypeOK, Working, Goto, Idle, index, store, lookup
<1> USE DEF Remove, RemoveRow, Start, RemoveFiles, SweepOrphan
<1>1. CASE \E p \in Proc : Remove(p)
  <2>1. PICK p \in Proc : Remove(p)
    BY <1>1
  <2>2. Intact'
    BY <2>1 DEF Intact, Unlink, Referenced
  <2>3. Paired'
    BY <2>1 DEF Paired, Intact, LockHeld
  <2> QED
    BY <2>2, <2>3
<1>2. CASE \E h \in Hash : SweepOrphan(h)
  <2>1. Paired'
    BY <1>2 DEF Paired
  <2>2. Intact'
    BY <1>2 DEF Intact, Unlink, Referenced
  <2> QED
    BY <2>1, <2>2
<1> QED
  BY <1>1, <1>2

\* A flush preserves it: what it promotes is held, hence right and on disk.
LEMMA FlushDurable ==
    ASSUME Sound, NEW p \in Proc, Flush(p), Basic'
    PROVE  Sound'
<1> USE DurabilityAssumption
<1> USE DEF Sound, Basic, TypeOK, Working, Goto, Idle, index, store, lookup
<1> USE DEF Flush, FlushRead, Start, FlushVerify, FlushGiveUp, FlushReady, FlushPromote
<1>1. Intact'
  BY DEF Intact, HeldIntact
<1>2. Paired'
  BY DEF Paired, LockHeld
<1> QED
  BY <1>1, <1>2

\* A lookup preserves it: it removes a row and its mark together.
LEMMA GetDurable ==
    ASSUME Sound, NEW p \in Proc, Get(p), Basic'
    PROVE  Sound'
<1> USE DurabilityAssumption
<1> USE DEF Sound, Basic, TypeOK, Working, Goto, Idle, index, store, lookup
<1> USE DEF Get, GetMeta, Start, GetFlag, GetServe, GetEvict
<1>1. Intact'
  BY DEF Intact
<1>2. Paired'
  BY DEF Paired, LockHeld
<1> QED
  BY <1>1, <1>2

\* A process that dies and a power loss preserve it: what is marked survives.
LEMMA FaultDurable ==
    ASSUME NoFaults, Sound, (\E p \in Proc : Stop(p)) \/ Checkpoint \/ PowerLoss, Basic'
    PROVE  Sound'
<1> USE DurabilityAssumption
<1> USE DEF NoFaults, TornPublish, LostCommits, Sound, Basic, TypeOK, Working, Goto, Idle,
            index, store, lookup, local
<1>1. CASE \E p \in Proc : Stop(p)
  <2>1. Intact'
    BY <1>1 DEF Stop, Intact
  <2>2. Paired'
    BY <1>1 DEF Stop, Tearable, LockHeld, Intact, Paired
  <2> QED
    BY <2>1, <2>2
<1>2. CASE Checkpoint
  BY <1>2 DEF Checkpoint
<1>3. CASE PowerLoss
  <2>1. row' = row /\ durable' = durable
    BY <1>3 DEF PowerLoss
  <2>2. Intact'
    BY <1>3, <2>1 DEF PowerLoss, Survivors, Intact
  <2>3. \A k \in durable : meta[k] = row[k] /\ metaDisk[k] = row[k]
    BY <1>3 DEF PowerLoss, Tearable, Intact, Paired
  <2>4. Paired'
    BY <1>3, <2>1, <2>3 DEF PowerLoss, SurvivingMeta, Paired
  <2> QED
    BY <2>2, <2>4
<1> QED
  BY <1>1, <1>2, <1>3

-----------------------------------------------------------------------------
(* Lookups that nobody disturbs.                                           *)

\* A publication writes only where no file is, and only its commit changes a row.
LEMMA PutQuiet ==
    ASSUME Sound, Undisturbed, NEW p \in Proc, Put(p)
    PROVE  Undisturbed'
<1> USE DurabilityAssumption
<1> USE DEF Sound, Basic, TypeOK, Working, Goto, Idle, index, store, lookup, Undisturbed
<1>1. CASE \E k \in Key, c \in Outputs : PutStage(p, k, c)
  BY <1>1 DEF PutStage, Start
<1>2. CASE PutPublish(p) \/ PutRegister(p)
  BY <1>2 DEF PutPublish, PutRegister, Write, Absent
<1>3. CASE PutMismatch(p)
  BY <1>3 DEF PutMismatch, Write, Absent
<1>4. CASE PutMeta(p)
  BY <1>4 DEF PutMeta
<1>5. CASE PutCommit(p)
  <2>1. \A q \in Proc : quiet'[q] => quiet[q] /\ key[q] # key[p]
    BY <1>5, Disturbed DEF PutCommit
  <2> QED
    BY <1>5, <2>1 DEF PutCommit
<1> QED
  BY <1>1, <1>2, <1>3, <1>4, <1>5 DEF Put

\* A removal disturbs the lookups of its key; no other blob that they read goes,
\* because their rows refer to it.
LEMMA RemoveQuiet ==
    ASSUME Sound, Undisturbed, (\E p \in Proc : Remove(p)) \/ \E h \in Hash : SweepOrphan(h)
    PROVE  Undisturbed'
<1> USE DurabilityAssumption
<1> USE DEF Sound, Basic, TypeOK, Working, Goto, Idle, index, store, lookup, Undisturbed
<1>1. CASE \E p \in Proc, k \in Key : RemoveRow(p, k)
  BY <1>1, Disturbed DEF RemoveRow, Start
<1>2. CASE \E p \in Proc : RemoveFiles(p)
  BY <1>2 DEF RemoveFiles, Unlink, Referenced
<1>3. CASE \E h \in Hash : SweepOrphan(h)
  BY <1>3 DEF SweepOrphan, Unlink, Referenced
<1> QED
  BY <1>1, <1>2, <1>3 DEF Remove

\* A flush changes neither rows nor bytes.
LEMMA FlushQuiet ==
    ASSUME Sound, Undisturbed, NEW p \in Proc, Flush(p)
    PROVE  Undisturbed'
  BY DurabilityAssumption
  DEF Sound, Basic, TypeOK, Working, Goto, Idle, index, store, lookup, Undisturbed,
      Flush, FlushRead, Start, FlushVerify, FlushGiveUp, FlushReady, FlushPromote

\* A lookup that finds the flag finds it on the row whose files it has.
LEMMA GetQuiet ==
    ASSUME Sound, Undisturbed, NEW p \in Proc, Get(p)
    PROVE  Undisturbed'
<1> USE DurabilityAssumption
<1> USE DEF Sound, Basic, TypeOK, Working, Goto, Idle, index, store, lookup, Undisturbed
<1>1. CASE \E k \in Key : GetMeta(p, k)
  <2>1. PICK k \in Key : GetMeta(p, k)
    BY <1>1
  <2>2. /\ key'[p] = k /\ files'[p] = meta[k] /\ pc'[p] = "flag" /\ row' = row
        /\ \A q \in Proc \ {p} : pc'[q] = pc[q] /\ key'[q] = key[q] /\ files'[q] = files[q]
        /\ blob' = blob /\ trust' = trust
    BY <2>1 DEF GetMeta, Start
  <2>3. quiet' = [quiet EXCEPT ![p] = (meta[k] = row[k])]
    BY <2>1 DEF GetMeta
  <2>4. quiet'[p] => meta[k] = row[k]
    BY <2>3, Zenon
  <2>5. \A q \in Proc \ {p} : quiet'[q] = quiet[q]
    BY <2>3
  <2> QED
    BY <2>2, <2>4, <2>5
<1>2. CASE GetFlag(p)
  <2>1. ASSUME quiet[p], trust'[p] PROVE \A h \in files[p] : blob[h] = "good"
    <3>1. row[key[p]] = files[p] /\ files[p] # None
      BY <1>2, <2>1 DEF GetFlag
    <3>2. key[p] \in durable
      BY <1>2, <2>1, <3>1 DEF GetFlag
    <3> QED
      BY <3>1, <3>2 DEF Intact
  <2> QED
    BY <1>2, <2>1 DEF GetFlag
<1>3. CASE GetServe(p)
  BY <1>3 DEF GetServe
<1>4. CASE GetEvict(p)
  <2>1. \A q \in Proc : quiet'[q] => quiet[q] /\ q # p /\ (row' # row => key[q] # key[p])
    BY <1>4, Disturbed DEF GetEvict
  <2> QED
    BY <1>4, <2>1 DEF GetEvict
<1> QED
  BY <1>1, <1>2, <1>3, <1>4 DEF Get

\* Between the reads of a lookup nothing but a removal or a replacement of its
\* entry touches what it reads: a power loss ends the lookup.
LEMMA QuietStep ==
    ASSUME Sound, Undisturbed, [Next]_vars
    PROVE  Undisturbed'
<1>1. CASE UNCHANGED vars
  BY <1>1 DEF vars, index, store, lookup, local, Undisturbed
<1>2. CASE (\E p \in Proc : Stop(p)) \/ Checkpoint \/ PowerLoss
  BY <1>2 DEF Stop, Checkpoint, PowerLoss, Goto, Idle, index, store, lookup, local, Undisturbed,
              Sound, Basic, TypeOK
<1> QED
  BY <1>1, <1>2, PutQuiet, RemoveQuiet, FlushQuiet, GetQuiet DEF Next

\* The inductive invariant holds in every behaviour.
THEOREM DurabilityInvariant == Spec => []DurabilityInv
<1>1. ASSUME DurabilityInv, [Next]_vars PROVE DurabilityInv'
  <2>1. Basic /\ Basic'
    BY <1>1, BasicInductive DEF DurabilityInv, Basic
  <2>2. NoFaults' <=> NoFaults
    BY <1>1, SetupFixed DEF NoFaults, TornPublish, LostCommits
  <2>3. CASE ~NoFaults
    BY <2>1, <2>2, <2>3 DEF DurabilityInv, DurableIntact, DurableMeta, QuietLookups, Basic
  <2>4. CASE NoFaults
    <3>1. Sound
      BY <1>1, <2>1, <2>4 DEF DurabilityInv, DurableIntact, DurableMeta, Sound
    <3>2. ASSUME UNCHANGED vars PROVE Sound'
      BY <2>1, <3>1, <3>2 DEF vars, index, store, lookup, local, Sound, Intact, Paired
    <3>3. ASSUME Next PROVE Sound'
      BY <2>1, <2>4, <3>1, <3>3, PutDurable, RemoveDurable, FlushDurable, GetDurable,
         FaultDurable DEF Next
    <3>4. Sound'
      BY <1>1, <3>2, <3>3
    <3>5. QuietLookups'
      BY <1>1, <2>4, <3>1, QuietStep DEF DurabilityInv, QuietLookups
    <3> QED
      BY <2>1, <3>4, <3>5 DEF DurabilityInv, DurableIntact, DurableMeta, Basic, Sound
  <2> QED
    BY <2>3, <2>4
<1>2. Init => DurabilityInv
  <2>1. Init => Undisturbed
    BY DEF Init, Undisturbed
  <2> QED
    BY <2>1, BasicInit, DurabilityInit
       DEF DurabilityInv, DurableIntact, DurableMeta, QuietLookups, Basic, Sound
<1> QED
  BY <1>1, <1>2, PTL DEF Spec

\* A lookup whose entry nobody removes or replaces under it serves only right
\* bytes, whatever goes on beside it: what it re-hashed, or what the flag vouches for.
THEOREM QuietHitsIntact == Spec => HitsIntact
<1>1. ASSUME DurabilityInv, NoFaults, NEW p \in Proc, GetServe(p), quiet[p], NEW h \in files[p]
      PROVE  blob[h] = "good"
  <2>1. CASE trust[p]
    BY <1>1, <2>1 DEF GetServe, DurabilityInv, QuietLookups, Undisturbed
  <2>2. CASE ~trust[p]
    BY <1>1, <2>2 DEF GetServe, Accepts
  <2> QED
    BY <2>1, <2>2
<1>2. DurabilityInv =>
         [NoFaults =>
             \A p \in Proc :
                 GetServe(p) /\ quiet[p] => \A h \in files[p] : blob[h] = "good"]_vars
  BY <1>1
<1> QED
  BY DurabilityInvariant, <1>2, PTL DEF HitsIntact

\* The blobs of a durable entry are right and on disk, in every state of a
\* behaviour without torn publications and lost commits.
THEOREM DurableEntriesIntact == Spec => []DurableIntact
<1>1. DurabilityInv => DurableIntact
  BY DEF DurabilityInv
<1> QED
  BY DurabilityInvariant, <1>1, PTL

\* Outside a replacing put, a trusting lookup reads the meta.json of the durable
\* generation, before and after a power loss.
THEOREM DurableEntriesPaired == Spec => []DurableMeta
<1>1. DurabilityInv => DurableMeta
  BY DEF DurabilityInv
<1> QED
  BY DurabilityInvariant, <1>1, PTL
=============================================================================
