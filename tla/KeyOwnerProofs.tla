--------------------------- MODULE KeyOwnerProofs ---------------------------
(***************************************************************************)
(* Who owns a key. Between processes it is the holder of the key's lock    *)
(* file (module BuildLock), inside the daemon the task that has the        *)
(* download claim (module DownloadClaim). Each has one owner, for any      *)
(* number of processes, tasks, inodes and attempts. The two modules share  *)
(* no variable; their theorems stand side by side.                         *)
(***************************************************************************)
EXTENDS BuildLock, DownloadClaim, FiniteSetTheorems, TLAPS

-----------------------------------------------------------------------------
(* The lock file of the key. Nothing is assumed about when files age.      *)

\* With no lock file and no handle nothing is claimed.
LEMMA LockInitially == LockInit => LockInv
<1> SUFFICES ASSUME LockInit PROVE LockInv
  OBVIOUS
<1> USE LockAssumption DEF LockInit
<1>1. \A p \in Proc : at[p] = (IF p \in Builder THEN "lookup" ELSE "rest")
  OBVIOUS
<1>2. at \in [Proc -> BuilderPCs \cup SweeperPCs]
  BY DEF BuilderPCs, SweeperPCs
<1>3. \A p \in Proc : at[p] \in BuilderPCs <=> p \in Builder
  BY <1>1 DEF BuilderPCs
<1>4. tries \in [Builder -> 0 .. Attempts] /\ goal \in [Builder -> {"claim", "probe"}]
  OBVIOUS
<1>5. LockTypeOK
  BY <1>2, <1>3, <1>4 DEF LockTypeOK
<1>6. Opened /\ Attempting /\ Locked /\ AtPath /\ Unbuilt
  BY <1>1 DEF Opened, Attempting, Locked, AtPath, Unbuilt, Proc
<1> QED
  BY <1>5, <1>6 DEF LockInv

\* Opening, locking and comparing preserve the invariant: a claim is granted
\* only for the inode that is at the path while its OS lock is held.
LEMMA AcquireStep ==
    ASSUME LockInv, NEW p \in Builder, Acquire(p) \/ AcquireError(p)
    PROVE  LockInv'
<1> USE LockAssumption
<1> USE DEF LockInv, LockTypeOK, Opened, Attempting, Locked, AtPath, Unbuilt, Proc, BuilderPCs,
            SweeperPCs, Move
<1>1. CASE Open(p)
  <2>1. LockTypeOK' /\ Unbuilt'
    BY <1>1 DEF Open, Unused
  <2>2. Opened' /\ Attempting' /\ Locked'
    BY <1>1 DEF Open, Unused
  <2>3. AtPath'
    BY <1>1 DEF Open, Unused
  <2> QED
    BY <2>1, <2>2, <2>3
<1>2. CASE TryLock(p)
  <2>1. LockTypeOK' /\ Unbuilt'
    BY <1>2 DEF TryLock, Close
  <2>2. Opened' /\ Attempting' /\ Locked'
    BY <1>2 DEF TryLock, Close
  <2>3. AtPath'
    BY <1>2 DEF TryLock, Close
  <2> QED
    BY <2>1, <2>2, <2>3
<1>3. CASE Current(p)
  BY <1>3 DEF Current
<1>4. CASE Replaced(p)
  <2>1. LockTypeOK' /\ Unbuilt'
    BY <1>4 DEF Replaced, Close
  <2>2. Opened' /\ Attempting' /\ Locked' /\ AtPath'
    BY <1>4 DEF Replaced, Close
  <2> QED
    BY <2>1, <2>2
<1>5. CASE AcquireError(p)
  <2>1. LockTypeOK' /\ Unbuilt'
    BY <1>5 DEF AcquireError, Close
  <2>2. Opened' /\ Attempting' /\ Locked' /\ AtPath'
    BY <1>5 DEF AcquireError, Close
  <2> QED
    BY <2>1, <2>2
<1> QED
  BY <1>1, <1>2, <1>3, <1>4, <1>5 DEF Acquire

\* What a wrapper does with the key, and while it waits for it, preserves the
\* invariant: nobody else stores the entry between its re-check and its put.
LEMMA MissStep ==
    ASSUME LockInv, NEW p \in Builder,
           \/ Lookup(p) \/ Recheck(p) \/ Compile(p) \/ Publish(p) \/ Unlock(p)
           \/ Contended(p) \/ Poll(p) \/ Timeout(p) \/ Probed(p) \/ Waited(p)
           \/ CompileUnlocked(p) \/ BuildAgain(p)
    PROVE  LockInv'
<1> USE LockAssumption
<1> USE DEF LockInv, LockTypeOK, Opened, Attempting, Locked, AtPath, Unbuilt, Proc, BuilderPCs,
            SweeperPCs, Move, Begin, committed
<1>1. CASE Lookup(p) \/ Contended(p) \/ Poll(p)
  BY <1>1 DEF Lookup, Contended, Poll
<1>2. CASE Recheck(p) \/ Compile(p)
  BY <1>2 DEF Recheck, Compile
<1>3. CASE Publish(p)
  BY <1>3 DEF Publish
<1>4. CASE Unlock(p) \/ Probed(p)
  <2>1. LockTypeOK' /\ Unbuilt'
    BY <1>4 DEF Unlock, Probed, Close
  <2>2. Opened' /\ Attempting' /\ Locked' /\ AtPath'
    BY <1>4 DEF Unlock, Probed, Close
  <2> QED
    BY <2>1, <2>2
<1>5. CASE Timeout(p) \/ Waited(p) \/ CompileUnlocked(p) \/ BuildAgain(p)
  BY <1>5 DEF Timeout, Waited, CompileUnlocked, BuildAgain
<1> QED
  BY <1>1, <1>2, <1>3, <1>4, <1>5

\* A sweep preserves the invariant: the name it unlinks is that of the inode it
\* has locked, which therefore no holder has.
LEMMA SweepStep ==
    ASSUME LockInv, NEW p \in Sweeper, Sweep(p)
    PROVE  LockInv'
<1> USE LockAssumption
<1> USE DEF LockInv, LockTypeOK, Opened, Attempting, Locked, AtPath, Unbuilt, Proc, BuilderPCs,
            SweeperPCs, Move
<1>1. CASE SweepList(p) \/ SweepOpen(p)
  BY <1>1 DEF SweepList, SweepOpen
<1>2. CASE SweepLock(p)
  <2>1. LockTypeOK' /\ Unbuilt'
    BY <1>2 DEF SweepLock, Close
  <2>2. Opened' /\ Attempting' /\ Locked' /\ AtPath'
    BY <1>2 DEF SweepLock, Close
  <2> QED
    BY <2>1, <2>2
<1>3. CASE SweepCheck(p)
  <2>1. LockTypeOK' /\ Unbuilt'
    BY <1>3 DEF SweepCheck, Close
  <2>2. Opened' /\ Attempting' /\ Locked' /\ AtPath'
    BY <1>3 DEF SweepCheck, Close
  <2> QED
    BY <2>1, <2>2
<1>4. CASE SweepUnlink(p)
  <2>1. LockTypeOK' /\ Unbuilt'
    BY <1>4 DEF SweepUnlink, Close
  <2>2. Opened' /\ Attempting' /\ Locked'
    BY <1>4 DEF SweepUnlink, Close
  <2>3. AtPath'
    BY <1>4 DEF SweepUnlink, Close
  <2> QED
    BY <2>1, <2>2, <2>3
<1> QED
  BY <1>1, <1>2, <1>3, <1>4 DEF Sweep

\* Aging files, evictions, imports and dying processes preserve the invariant.
LEMMA OutsideStep ==
    ASSUME LockInv,
           (\E p \in Proc : Crash(p)) \/ (\E i \in Inode : Age(i)) \/ EvictStored \/ ImportStored
    PROVE  LockInv'
<1> USE LockAssumption
<1> USE DEF LockInv, LockTypeOK, Opened, Attempting, Locked, AtPath, Unbuilt, Proc, BuilderPCs,
            SweeperPCs, Move
<1>1. CASE \E p \in Proc : Crash(p)
  <2>1. LockTypeOK' /\ Unbuilt'
    BY <1>1 DEF Crash, Close
  <2>2. Opened' /\ Attempting' /\ Locked' /\ AtPath'
    BY <1>1 DEF Crash, Close
  <2> QED
    BY <2>1, <2>2
<1>2. CASE (\E i \in Inode : Age(i)) \/ EvictStored \/ ImportStored
  BY <1>2 DEF Age, EvictStored, ImportStored
<1> QED
  BY <1>1, <1>2

\* Every step preserves the invariant.
LEMMA LockInductive ==
    ASSUME LockInv, [LockNext]_lockVars
    PROVE  LockInv'
<1>1. CASE UNCHANGED lockVars
  BY <1>1 DEF lockVars, LockInv, LockTypeOK, Opened, Attempting, Locked, AtPath, Unbuilt
<1>2. CASE \E p \in Builder : Build(p) \/ BuildAgain(p)
  BY <1>2, AcquireStep, MissStep DEF Build
<1>3. CASE \E p \in Sweeper : Sweep(p)
  BY <1>3, SweepStep
<1>4. CASE \/ (\E p \in Proc : Crash(p)) \/ (\E i \in Inode : Age(i))
           \/ EvictStored \/ ImportStored
  BY <1>4, OutsideStep
<1> QED
  BY <1>1, <1>2, <1>3, <1>4 DEF LockNext

-----------------------------------------------------------------------------
(* The theorems.                                                           *)

\* The inductive invariant holds in every behaviour.
THEOREM LockInvariant == LockSpec => []LockInv
<1>1. LockInv /\ [LockNext]_lockVars => LockInv'
  BY LockInductive
<1> QED
  BY LockInitially, <1>1, PTL DEF LockSpec

\* At most one process is ever handed the key: a holder's inode is at the path
\* and locked by it, and a path names one inode with one owner.
THEOREM KeyMutex == LockSpec => []MutualExclusion
<1>1. LockInv => MutualExclusion
  BY LockAssumption DEF LockInv, Locked, AtPath, MutualExclusion, LockHolders, Proc
<1> QED
  BY LockInvariant, <1>1, PTL

\* No sweep unlinks the lock file of a key somebody holds.
THEOREM SweepsSpareHolders == LockSpec => HolderSafe
<1>1. LockInv /\ [LockNext]_lockVars =>
         [path' = Nil /\ path # Nil => LockHolders = {}]_lockVars
  <2> SUFFICES ASSUME LockInv, LockNext, path' = Nil, path # Nil
               PROVE  LockHolders = {}
    BY DEF lockVars
  <2>1. PICK p \in Sweeper : SweepUnlink(p)
    BY LockAssumption
       DEF LockNext, Build, Acquire, Sweep, Open, TryLock, Current, Replaced, AcquireError,
           Lookup, Recheck, Compile, Publish, Unlock, Contended, Poll, Timeout, Probed,
           Waited, CompileUnlocked, BuildAgain, SweepList, SweepOpen, SweepLock, SweepCheck,
           Crash, Age, EvictStored, ImportStored, Unused
  <2>2. p \in Proc /\ at[p] = "sweepUnlink"
    BY <2>1 DEF SweepUnlink, Proc
  <2>3. path = ino[p] /\ owner[ino[p]] = p
    BY <2>2 DEF LockInv, Locked, AtPath
  <2> SUFFICES ASSUME NEW q \in LockHolders PROVE FALSE
    OBVIOUS
  <2>4. path = ino[q] /\ owner[ino[q]] = q /\ q # p
    BY <2>2 DEF LockHolders, LockInv, Locked, AtPath, Proc
  <2> QED
    BY <2>3, <2>4
<1> QED
  BY LockInvariant, <1>1, PTL DEF LockSpec, HolderSafe

\* No builder stores the key over what another builder stored.
THEOREM BuildersPublishOnce == LockSpec => PublishOnce
<1>1. LockInv => \A p \in Builder : Publish(p) => stored # "built"
  BY DEF LockInv, Unbuilt, Publish
<1>2. LockInv /\ [LockNext]_lockVars =>
         [\A p \in Builder : Publish(p) => stored # "built"]_lockVars
  BY <1>1
<1> QED
  BY LockInvariant, <1>2, PTL DEF LockSpec, PublishOnce

-----------------------------------------------------------------------------
(* The download claim.                                                     *)

\* The claim has one owner, and so has a removal that is still to be run.
Owned ==
    /\ \A p, q \in Holders : p = q
    /\ \A p \in Holders : claim = gen[p] /\ claim # None /\ spawned = None
    /\ spawned # None => claim = spawned

\* A key has one leading request.
OneLeader == \A p, q \in Request : pc[p] \in Leading /\ pc[q] \in Leading => p = q

\* There is always a Flight that nobody holds.
LEMMA NewFlightType ==
  ASSUME TypeOK, flight = None
  PROVE  NewFlight \in Flight
<1> SUFFICES ASSUME \A f \in Flight : \E r \in Request : mine[r] = f
             PROVE  FALSE
  BY ClaimAssumption DEF ClaimAssumption, NewFlight
<1> DEFINE of == [f \in Flight |-> CHOOSE r \in Request : mine[r] = f]
<1>1. of \in [Flight -> Request] /\ \A f \in Flight : mine[of[f]] = f
  OBVIOUS
<1>2. /\ IsFiniteSet(Flight) /\ IsFiniteSet(Request)
      /\ Cardinality(Request) < Cardinality(Flight)
  <2>1. IsFiniteSet(Task) /\ Request \in SUBSET Task /\ IsFiniteSet(Flight)
    BY ClaimAssumption DEF ClaimAssumption, Task
  <2>2. IsFiniteSet(Request)
    BY <2>1, FS_Subset
  <2>3. Cardinality(Request) \in Nat /\ Cardinality(Flight) \in Nat
    BY <2>1, <2>2, FS_CardinalityType
  <2> QED BY <2>1, <2>2, <2>3, ClaimAssumption DEF ClaimAssumption
<1> HIDE DEF of
<1>3. \E f, g \in Flight : f # g /\ of[f] = of[g]
  BY <1>1, <1>2, FS_PigeonHole
<1> QED BY <1>1, <1>3

\* There is always a Notify that nobody holds.
LEMMA NewGenType ==
  ASSUME TypeOK, claim = None
  PROVE  NewGen \in Gen
<1> SUFFICES ASSUME \A g \in Gen \ {spawned, waking} : \E p \in Task : gen[p] = g
             PROVE  FALSE
  BY ClaimAssumption DEF ClaimAssumption, NewGen
<1> DEFINE Free == (Gen \ {spawned}) \ {waking}
           of == [g \in Free |-> CHOOSE p \in Task : gen[p] = g]
<1>1. of \in [Free -> Task] /\ \A g \in Free : gen[of[g]] = g
  OBVIOUS
<1>2. IsFiniteSet(Free) /\ IsFiniteSet(Task) /\ Cardinality(Task) < Cardinality(Free)
  <2>1. IsFiniteSet(Task) /\ IsFiniteSet(Gen) /\ Cardinality(Gen) > Cardinality(Task) + 2
    BY ClaimAssumption DEF ClaimAssumption
  <2>2. Cardinality(Task) \in Nat /\ Cardinality(Gen) \in Nat
    BY <2>1, FS_CardinalityType
  <2>3. /\ IsFiniteSet(Gen \ {spawned})
        /\ Cardinality(Gen \ {spawned}) \in {Cardinality(Gen), Cardinality(Gen) - 1}
    BY <2>1, FS_RemoveElement
  <2>4. /\ IsFiniteSet(Free)
        /\ Cardinality(Free) \in {Cardinality(Gen \ {spawned}), Cardinality(Gen \ {spawned}) - 1}
    BY <2>3, FS_RemoveElement
  <2> QED BY <2>1, <2>2, <2>3, <2>4
<1> HIDE DEF of, Free
<1>3. \E g, h \in Free : g # h /\ of[g] = of[h]
  BY <1>1, <1>2, FS_PigeonHole
<1> QED BY <1>1, <1>3

\* Every step keeps the types.
LEMMA TypeStep ==
  ASSUME TypeOK, Placed, [Next]_vars
  PROVE  TypeOK'
<1> USE DEF flights, claims, entry, TypeOK, PCs, Holding, Placed
<1>s. setup.tasks \subseteq Task /\ Request \subseteq Task
  BY ClaimAssumption DEF ClaimAssumption, TypeOK, Task
<1>1. ASSUME NEW p \in Request, Ask(p) PROVE TypeOK'
  BY <1>1, <1>s, NewFlightType DEF Ask, Goto
<1>2. ASSUME NEW p \in Request, FollowerEnable(p) PROVE TypeOK'
  BY <1>2, <1>s DEF FollowerEnable, Goto
<1>3. ASSUME NEW p \in Request, FollowerCheck(p) PROVE TypeOK'
  BY <1>3, <1>s DEF FollowerCheck, Goto, Follow
<1>4. ASSUME NEW p \in Request, FollowerWoken(p) PROVE TypeOK'
  BY <1>4, <1>s DEF FollowerWoken, Goto, Follow
<1>5. ASSUME NEW p \in Request, FollowerTimeout(p) PROVE TypeOK'
  BY <1>5, <1>s DEF FollowerTimeout, Goto
<1>6. ASSUME NEW p \in Request, Complete(p) PROVE TypeOK'
  BY <1>6, <1>s DEF Complete, Goto
<1>7. ASSUME NEW p \in Request, Unlist(p) PROVE TypeOK'
  BY <1>7, <1>s DEF Unlist, Goto
<1>8. ASSUME NEW p \in Request, Wake(p) PROVE TypeOK'
  BY <1>8, <1>s DEF Wake, Goto, Broadcast
<1>9. ASSUME NEW p \in Request, Claim(p) PROVE TypeOK'
  BY <1>9, <1>s, NewGenType DEF Claim, Goto, Claimed
<1>10. ASSUME NEW p \in Request, AnswerEarly(p) PROVE TypeOK'
  BY <1>10, <1>s DEF AnswerEarly, Goto
<1>11. ASSUME NEW p \in Request, Register(p) PROVE TypeOK'
  BY <1>11, <1>s DEF Register, Goto
<1>12. ASSUME NEW p \in Request, SameCheck(p) PROVE TypeOK'
  <2>1. gen' \in [Task -> Gen \cup {None}]
    BY <1>12, <1>s DEF SameCheck
  <2>2. pc' \in [Task -> PCs] /\ reg' \in [Request -> Flight \cup Gen \cup {None}]
    BY <1>12, <1>s DEF SameCheck, Goto
  <2>3. late' = late \/ late' = [late EXCEPT ![p] = TRUE]
    BY <1>12 DEF SameCheck
  <2>4. late' \in [Request -> BOOLEAN]
    BY <2>3
  <2> QED BY <1>12, <2>1, <2>2, <2>4 DEF SameCheck
<1>13. ASSUME NEW p \in Request, WaitEnds(p) PROVE TypeOK'
  BY <1>13, <1>s DEF WaitEnds, Goto
<1>14. ASSUME NEW p \in Request, MetaCheck(p) PROVE TypeOK'
  BY <1>14, <1>s DEF MetaCheck, Goto
<1>15. ASSUME NEW p \in Request, CommittedCheck(p) PROVE TypeOK'
  BY <1>15, <1>s DEF CommittedCheck, Goto
<1>16. ASSUME NEW p \in Request, Reclaim(p) PROVE TypeOK'
  <2>1. gen' \in [Task -> Gen \cup {None}] /\ claim' \in Gen \cup {None}
    BY <1>16, <1>s, NewGenType DEF Reclaim, Claimed
  <2>2. pc' \in [Task -> PCs]
    BY <1>16, <1>s DEF Reclaim, Claimed, Goto
  <2>3. re' \in [Task -> BOOLEAN] /\ ans' \in [Request -> {"none", "found", "miss"}]
    BY <1>16, <1>s DEF Reclaim, Claimed
  <2> QED BY <1>16, <2>1, <2>2, <2>3 DEF Reclaim
<1>17. ASSUME NEW p \in Request, Again(p) PROVE TypeOK'
  BY <1>17, <1>s DEF Again, Goto
<1>18. ASSUME NEW p \in Task, Look(p) PROVE TypeOK'
  BY <1>18, <1>s DEF Look, Goto
<1>w. ASSUME NEW p \in Task, PrefetchClaim(p) PROVE TypeOK'
  BY <1>w, <1>s, NewGenType DEF PrefetchClaim, Goto, Claimed
<1>19. ASSUME NEW p \in Task, Peek(p) PROVE TypeOK'
  BY <1>19, <1>s DEF Peek, Goto
<1>20. ASSUME NEW p \in Task, PackedClaim(p) PROVE TypeOK'
  BY <1>20, <1>s, NewGenType DEF PackedClaim, Goto, Claimed
<1>21. ASSUME NEW p \in Task, Held(p) PROVE TypeOK'
  BY <1>21, <1>s DEF Held, Goto, Answer
<1>22. ASSUME NEW p \in Task, Clear(p) PROVE TypeOK'
  BY <1>22, <1>s DEF Clear, Goto
<1>23. ASSUME NEW p \in Task, Rename(p) PROVE TypeOK'
  BY <1>23, <1>s DEF Rename, Goto, Answer
<1>24. ASSUME NEW p \in Task, Import(p) PROVE TypeOK'
  BY <1>24, <1>s DEF Import, Goto, Answer
<1>25. ASSUME NEW p \in Task, Release(p) PROVE TypeOK'
  BY <1>25, <1>s DEF Release, Goto, AfterRelease
<1>26. ASSUME NEW p \in Task, NotifyWaiters(p) PROVE TypeOK'
  BY <1>26, <1>s DEF NotifyWaiters, Goto, Broadcast, AfterRelease
<1>27. ASSUME NEW p \in Task, Cancel(p) PROVE TypeOK'
  BY <1>27, <1>s DEF Cancel, Goto
<1>c. ASSUME NEW p \in Request, CancelLate(p) PROVE TypeOK'
  BY <1>c, <1>s DEF CancelLate
<1>28. CASE SpawnedRemove
  BY <1>28, <1>s DEF SpawnedRemove, Goto
<1>29. CASE SpawnedNotify
  BY <1>29, <1>s DEF SpawnedNotify, Goto, Broadcast
<1>30. CASE Evict
  BY <1>30, <1>s DEF Evict, Goto
<1>31. CASE UNCHANGED vars
  BY <1>31 DEF vars
<1> QED
  BY <1>s, <1>1, <1>2, <1>3, <1>4, <1>5, <1>6, <1>7, <1>8, <1>9, <1>10, <1>11, <1>12, <1>13,
     <1>14, <1>15, <1>16, <1>17, <1>18, <1>19, <1>20, <1>21, <1>22, <1>23, <1>24, <1>25,
     <1>26, <1>27, <1>28, <1>29, <1>30, <1>31, <1>w, <1>c
  DEF Next, Step

\* Every task stays where its kind goes.
LEMMA PlacedStep ==
  ASSUME TypeOK, Placed, [Next]_vars
  PROVE  Placed'
<1> USE DEF flights, claims, entry, TypeOK, Holding, Placed
<1>s. setup.tasks \subseteq Task /\ Request \subseteq Task
  BY ClaimAssumption DEF ClaimAssumption, TypeOK, Task
<1>d. Request \cap Prefetch = {} /\ Request \cap Packed = {} /\ Prefetch \cap Packed = {}
  BY ClaimAssumption DEF ClaimAssumption
<1> USE <1>d
<1>1. ASSUME NEW p \in Request, Ask(p) PROVE Placed'
  BY <1>1, <1>s DEF Ask, Goto
<1>2. ASSUME NEW p \in Request, FollowerEnable(p) PROVE Placed'
  BY <1>2, <1>s DEF FollowerEnable, Goto
<1>3. ASSUME NEW p \in Request, FollowerCheck(p) PROVE Placed'
  BY <1>3, <1>s DEF FollowerCheck, Goto, Follow
<1>4. ASSUME NEW p \in Request, FollowerWoken(p) PROVE Placed'
  BY <1>4, <1>s DEF FollowerWoken, Goto, Follow
<1>5. ASSUME NEW p \in Request, FollowerTimeout(p) PROVE Placed'
  BY <1>5, <1>s DEF FollowerTimeout, Goto
<1>6. ASSUME NEW p \in Request, Complete(p) PROVE Placed'
  BY <1>6, <1>s DEF Complete, Goto
<1>7. ASSUME NEW p \in Request, Unlist(p) PROVE Placed'
  BY <1>7, <1>s DEF Unlist, Goto
<1>8. ASSUME NEW p \in Request, Wake(p) PROVE Placed'
  BY <1>8, <1>s DEF Wake, Goto, Broadcast
<1>9. ASSUME NEW p \in Request, Claim(p) PROVE Placed'
  BY <1>9, <1>s DEF Claim, Goto, Claimed
<1>10. ASSUME NEW p \in Request, AnswerEarly(p) PROVE Placed'
  BY <1>10, <1>s DEF AnswerEarly, Goto
<1>11. ASSUME NEW p \in Request, Register(p) PROVE Placed'
  BY <1>11, <1>s DEF Register, Goto
<1>12. ASSUME NEW p \in Request, SameCheck(p) PROVE Placed'
  BY <1>12, <1>s DEF SameCheck, Goto
<1>13. ASSUME NEW p \in Request, WaitEnds(p) PROVE Placed'
  BY <1>13, <1>s DEF WaitEnds, Goto
<1>14. ASSUME NEW p \in Request, MetaCheck(p) PROVE Placed'
  BY <1>14, <1>s DEF MetaCheck, Goto
<1>15. ASSUME NEW p \in Request, CommittedCheck(p) PROVE Placed'
  BY <1>15, <1>s DEF CommittedCheck, Goto
<1>16. ASSUME NEW p \in Request, Reclaim(p) PROVE Placed'
  BY <1>16, <1>s DEF Reclaim, Goto, Claimed
<1>17. ASSUME NEW p \in Request, Again(p) PROVE Placed'
  BY <1>17, <1>s DEF Again, Goto
<1>18. ASSUME NEW p \in Task, Look(p) PROVE Placed'
  BY <1>18, <1>s DEF Look, Goto
<1>w. ASSUME NEW p \in Task, PrefetchClaim(p) PROVE Placed'
  BY <1>w, <1>s DEF PrefetchClaim, Goto, Claimed
<1>19. ASSUME NEW p \in Task, Peek(p) PROVE Placed'
  BY <1>19, <1>s DEF Peek, Goto
<1>20. ASSUME NEW p \in Task, PackedClaim(p) PROVE Placed'
  BY <1>20, <1>s DEF PackedClaim, Goto, Claimed
<1>21. ASSUME NEW p \in Task, Held(p) PROVE Placed'
  BY <1>21, <1>s DEF Held, Goto, Answer
<1>22. ASSUME NEW p \in Task, Clear(p) PROVE Placed'
  BY <1>22, <1>s DEF Clear, Goto
<1>23. ASSUME NEW p \in Task, Rename(p) PROVE Placed'
  BY <1>23, <1>s DEF Rename, Goto, Answer
<1>24. ASSUME NEW p \in Task, Import(p) PROVE Placed'
  BY <1>24, <1>s DEF Import, Goto, Answer
<1>25. ASSUME NEW p \in Task, Release(p) PROVE Placed'
  BY <1>25, <1>s DEF Release, Goto, AfterRelease
<1>26. ASSUME NEW p \in Task, NotifyWaiters(p) PROVE Placed'
  BY <1>26, <1>s DEF NotifyWaiters, Goto, Broadcast, AfterRelease
<1>27. ASSUME NEW p \in Task, Cancel(p) PROVE Placed'
  BY <1>27, <1>s DEF Cancel, Goto
<1>c. ASSUME NEW p \in Request, CancelLate(p) PROVE Placed'
  BY <1>c, <1>s DEF CancelLate
<1>28. CASE SpawnedRemove
  BY <1>28, <1>s DEF SpawnedRemove, Goto
<1>29. CASE SpawnedNotify
  BY <1>29, <1>s DEF SpawnedNotify, Goto, Broadcast
<1>30. CASE Evict
  BY <1>30, <1>s DEF Evict, Goto
<1>31. CASE UNCHANGED vars
  BY <1>31 DEF vars
<1> QED
  BY <1>s, <1>1, <1>2, <1>3, <1>4, <1>5, <1>6, <1>7, <1>8, <1>9, <1>10, <1>11, <1>12, <1>13,
     <1>14, <1>15, <1>16, <1>17, <1>18, <1>19, <1>20, <1>21, <1>22, <1>23, <1>24, <1>25,
     <1>26, <1>27, <1>28, <1>29, <1>30, <1>31, <1>w, <1>c
  DEF Next, Step

\* A leader leads the flight in the map, and is alone.
LEMMA FlyingStep ==
  ASSUME TypeOK, Placed, Flying, OneLeader, [Next]_vars
  PROVE  (Flying /\ OneLeader)'
<1> USE DEF flights, claims, entry, TypeOK, Holding, Placed, Flying, OneLeader, Leading
<1>s. setup.tasks \subseteq Task /\ Request \subseteq Task
  BY ClaimAssumption DEF ClaimAssumption, TypeOK, Task
<1>d. None \notin Flight
  BY ClaimAssumption DEF ClaimAssumption
<1> USE <1>d
<1>1. ASSUME NEW p \in Request, Ask(p) PROVE (Flying /\ OneLeader)'
  BY <1>1, <1>s, NewFlightType DEF Ask, Goto
<1>2. ASSUME NEW p \in Request, FollowerEnable(p) PROVE (Flying /\ OneLeader)'
  BY <1>2, <1>s DEF FollowerEnable, Goto
<1>3. ASSUME NEW p \in Request, FollowerCheck(p) PROVE (Flying /\ OneLeader)'
  BY <1>3, <1>s DEF FollowerCheck, Goto, Follow
<1>4. ASSUME NEW p \in Request, FollowerWoken(p) PROVE (Flying /\ OneLeader)'
  BY <1>4, <1>s DEF FollowerWoken, Goto, Follow
<1>5. ASSUME NEW p \in Request, FollowerTimeout(p) PROVE (Flying /\ OneLeader)'
  BY <1>5, <1>s DEF FollowerTimeout, Goto
<1>6. ASSUME NEW p \in Request, Complete(p) PROVE (Flying /\ OneLeader)'
  BY <1>6, <1>s DEF Complete, Goto
<1>7. ASSUME NEW p \in Request, Unlist(p) PROVE (Flying /\ OneLeader)'
  BY <1>7, <1>s DEF Unlist, Goto
<1>8. ASSUME NEW p \in Request, Wake(p) PROVE (Flying /\ OneLeader)'
  BY <1>8, <1>s DEF Wake, Goto, Broadcast
<1>9. ASSUME NEW p \in Request, Claim(p) PROVE (Flying /\ OneLeader)'
  BY <1>9, <1>s DEF Claim, Goto, Claimed
<1>10. ASSUME NEW p \in Request, AnswerEarly(p) PROVE (Flying /\ OneLeader)'
  BY <1>10, <1>s DEF AnswerEarly, Goto
<1>11. ASSUME NEW p \in Request, Register(p) PROVE (Flying /\ OneLeader)'
  BY <1>11, <1>s DEF Register, Goto
<1>12. ASSUME NEW p \in Request, SameCheck(p) PROVE (Flying /\ OneLeader)'
  BY <1>12, <1>s DEF SameCheck, Goto
<1>13. ASSUME NEW p \in Request, WaitEnds(p) PROVE (Flying /\ OneLeader)'
  BY <1>13, <1>s DEF WaitEnds, Goto
<1>14. ASSUME NEW p \in Request, MetaCheck(p) PROVE (Flying /\ OneLeader)'
  BY <1>14, <1>s DEF MetaCheck, Goto
<1>15. ASSUME NEW p \in Request, CommittedCheck(p) PROVE (Flying /\ OneLeader)'
  BY <1>15, <1>s DEF CommittedCheck, Goto
<1>16. ASSUME NEW p \in Request, Reclaim(p) PROVE (Flying /\ OneLeader)'
  BY <1>16, <1>s DEF Reclaim, Goto, Claimed
<1>17. ASSUME NEW p \in Request, Again(p) PROVE (Flying /\ OneLeader)'
  BY <1>17, <1>s DEF Again, Goto
<1>18. ASSUME NEW p \in Task, Look(p) PROVE (Flying /\ OneLeader)'
  BY <1>18, <1>s DEF Look, Goto
<1>w. ASSUME NEW p \in Task, PrefetchClaim(p) PROVE (Flying /\ OneLeader)'
  BY <1>w, <1>s DEF PrefetchClaim, Goto, Claimed
<1>19. ASSUME NEW p \in Task, Peek(p) PROVE (Flying /\ OneLeader)'
  BY <1>19, <1>s DEF Peek, Goto
<1>20. ASSUME NEW p \in Task, PackedClaim(p) PROVE (Flying /\ OneLeader)'
  BY <1>20, <1>s DEF PackedClaim, Goto, Claimed
<1>21. ASSUME NEW p \in Task, Held(p) PROVE (Flying /\ OneLeader)'
  BY <1>21, <1>s DEF Held, Goto, Answer
<1>22. ASSUME NEW p \in Task, Clear(p) PROVE (Flying /\ OneLeader)'
  BY <1>22, <1>s DEF Clear, Goto
<1>23. ASSUME NEW p \in Task, Rename(p) PROVE (Flying /\ OneLeader)'
  BY <1>23, <1>s DEF Rename, Goto, Answer
<1>24. ASSUME NEW p \in Task, Import(p) PROVE (Flying /\ OneLeader)'
  BY <1>24, <1>s DEF Import, Goto, Answer
<1>25. ASSUME NEW p \in Task, Release(p) PROVE (Flying /\ OneLeader)'
  BY <1>25, <1>s DEF Release, Goto, AfterRelease
<1>26. ASSUME NEW p \in Task, NotifyWaiters(p) PROVE (Flying /\ OneLeader)'
  BY <1>26, <1>s DEF NotifyWaiters, Goto, Broadcast, AfterRelease
<1>27. ASSUME NEW p \in Task, Cancel(p) PROVE (Flying /\ OneLeader)'
  BY <1>27, <1>s DEF Cancel, Goto
<1>c. ASSUME NEW p \in Request, CancelLate(p) PROVE (Flying /\ OneLeader)'
  BY <1>c, <1>s DEF CancelLate
<1>28. CASE SpawnedRemove
  BY <1>28, <1>s DEF SpawnedRemove, Goto
<1>29. CASE SpawnedNotify
  BY <1>29, <1>s DEF SpawnedNotify, Goto, Broadcast
<1>30. CASE Evict
  BY <1>30, <1>s DEF Evict, Goto
<1>31. CASE UNCHANGED vars
  BY <1>31 DEF vars
<1> QED
  BY <1>s, <1>1, <1>2, <1>3, <1>4, <1>5, <1>6, <1>7, <1>8, <1>9, <1>10, <1>11, <1>12, <1>13,
     <1>14, <1>15, <1>16, <1>17, <1>18, <1>19, <1>20, <1>21, <1>22, <1>23, <1>24, <1>25,
     <1>26, <1>27, <1>28, <1>29, <1>30, <1>31, <1>w, <1>c
  DEF Next, Step

\* The claim keeps its one owner until it is released.
LEMMA OwnedStep ==
  ASSUME TypeOK, Placed, Owned, [Next]_vars
  PROVE  Owned'
<1> USE DEF flights, claims, entry, TypeOK, Holding, Holders, Placed, Owned
<1>s. setup.tasks \subseteq Task /\ Request \subseteq Task
  BY ClaimAssumption DEF ClaimAssumption, TypeOK, Task
<1>d. None \notin Gen
  BY ClaimAssumption DEF ClaimAssumption
<1> USE <1>d
<1>1. ASSUME NEW p \in Request, Ask(p) PROVE Owned'
  BY <1>1, <1>s DEF Ask, Goto
<1>2. ASSUME NEW p \in Request, FollowerEnable(p) PROVE Owned'
  BY <1>2, <1>s DEF FollowerEnable, Goto
<1>3. ASSUME NEW p \in Request, FollowerCheck(p) PROVE Owned'
  BY <1>3, <1>s DEF FollowerCheck, Goto, Follow
<1>4. ASSUME NEW p \in Request, FollowerWoken(p) PROVE Owned'
  BY <1>4, <1>s DEF FollowerWoken, Goto, Follow
<1>5. ASSUME NEW p \in Request, FollowerTimeout(p) PROVE Owned'
  BY <1>5, <1>s DEF FollowerTimeout, Goto
<1>6. ASSUME NEW p \in Request, Complete(p) PROVE Owned'
  BY <1>6, <1>s DEF Complete, Goto
<1>7. ASSUME NEW p \in Request, Unlist(p) PROVE Owned'
  BY <1>7, <1>s DEF Unlist, Goto
<1>8. ASSUME NEW p \in Request, Wake(p) PROVE Owned'
  BY <1>8, <1>s DEF Wake, Goto, Broadcast
<1>9. ASSUME NEW p \in Request, Claim(p) PROVE Owned'
  BY <1>9, <1>s, NewGenType DEF Claim, Goto, Claimed
<1>10. ASSUME NEW p \in Request, AnswerEarly(p) PROVE Owned'
  BY <1>10, <1>s DEF AnswerEarly, Goto
<1>11. ASSUME NEW p \in Request, Register(p) PROVE Owned'
  BY <1>11, <1>s DEF Register, Goto
<1>12. ASSUME NEW p \in Request, SameCheck(p) PROVE Owned'
  BY <1>12, <1>s DEF SameCheck, Goto
<1>13. ASSUME NEW p \in Request, WaitEnds(p) PROVE Owned'
  BY <1>13, <1>s DEF WaitEnds, Goto
<1>14. ASSUME NEW p \in Request, MetaCheck(p) PROVE Owned'
  BY <1>14, <1>s DEF MetaCheck, Goto
<1>15. ASSUME NEW p \in Request, CommittedCheck(p) PROVE Owned'
  BY <1>15, <1>s DEF CommittedCheck, Goto
<1>16. ASSUME NEW p \in Request, Reclaim(p) PROVE Owned'
  BY <1>16, <1>s, NewGenType DEF Reclaim, Goto, Claimed
<1>17. ASSUME NEW p \in Request, Again(p) PROVE Owned'
  BY <1>17, <1>s DEF Again, Goto
<1>18. ASSUME NEW p \in Task, Look(p) PROVE Owned'
  BY <1>18, <1>s DEF Look, Goto
<1>w. ASSUME NEW p \in Task, PrefetchClaim(p) PROVE Owned'
  BY <1>w, <1>s, NewGenType DEF PrefetchClaim, Goto, Claimed
<1>19. ASSUME NEW p \in Task, Peek(p) PROVE Owned'
  BY <1>19, <1>s DEF Peek, Goto
<1>20. ASSUME NEW p \in Task, PackedClaim(p) PROVE Owned'
  BY <1>20, <1>s, NewGenType DEF PackedClaim, Goto, Claimed
<1>21. ASSUME NEW p \in Task, Held(p) PROVE Owned'
  BY <1>21, <1>s DEF Held, Goto, Answer
<1>22. ASSUME NEW p \in Task, Clear(p) PROVE Owned'
  BY <1>22, <1>s DEF Clear, Goto
<1>23. ASSUME NEW p \in Task, Rename(p) PROVE Owned'
  BY <1>23, <1>s DEF Rename, Goto, Answer
<1>24. ASSUME NEW p \in Task, Import(p) PROVE Owned'
  BY <1>24, <1>s DEF Import, Goto, Answer
<1>25. ASSUME NEW p \in Task, Release(p) PROVE Owned'
  BY <1>25, <1>s DEF Release, Goto, AfterRelease
<1>26. ASSUME NEW p \in Task, NotifyWaiters(p) PROVE Owned'
  BY <1>26, <1>s DEF NotifyWaiters, Goto, Broadcast, AfterRelease
<1>27. ASSUME NEW p \in Task, Cancel(p) PROVE Owned'
  BY <1>27, <1>s DEF Cancel, Goto
<1>c. ASSUME NEW p \in Request, CancelLate(p) PROVE Owned'
  BY <1>c, <1>s DEF CancelLate
<1>28. CASE SpawnedRemove
  BY <1>28, <1>s DEF SpawnedRemove, Goto
<1>29. CASE SpawnedNotify
  BY <1>29, <1>s DEF SpawnedNotify, Goto, Broadcast
<1>30. CASE Evict
  BY <1>30, <1>s DEF Evict, Goto
<1>31. CASE UNCHANGED vars
  BY <1>31 DEF vars
<1> QED
  BY <1>s, <1>1, <1>2, <1>3, <1>4, <1>5, <1>6, <1>7, <1>8, <1>9, <1>10, <1>11, <1>12, <1>13,
     <1>14, <1>15, <1>16, <1>17, <1>18, <1>19, <1>20, <1>21, <1>22, <1>23, <1>24, <1>25,
     <1>26, <1>27, <1>28, <1>29, <1>30, <1>31, <1>w, <1>c
  DEF Next, Step

\* What its owner looked for under the claim stays away.
LEMMA LookedStep ==
  ASSUME TypeOK, Placed, Owned, Looked, [Next]_vars
  PROVE  Looked'
<1> USE DEF flights, claims, entry, TypeOK, Holding, Holders, Placed, Owned, Looked
<1>s. setup.tasks \subseteq Task /\ Request \subseteq Task
  BY ClaimAssumption DEF ClaimAssumption, TypeOK, Task
<1>1. ASSUME NEW p \in Request, Ask(p) PROVE Looked'
  BY <1>1, <1>s DEF Ask, Goto
<1>2. ASSUME NEW p \in Request, FollowerEnable(p) PROVE Looked'
  BY <1>2, <1>s DEF FollowerEnable, Goto
<1>3. ASSUME NEW p \in Request, FollowerCheck(p) PROVE Looked'
  BY <1>3, <1>s DEF FollowerCheck, Goto, Follow
<1>4. ASSUME NEW p \in Request, FollowerWoken(p) PROVE Looked'
  BY <1>4, <1>s DEF FollowerWoken, Goto, Follow
<1>5. ASSUME NEW p \in Request, FollowerTimeout(p) PROVE Looked'
  BY <1>5, <1>s DEF FollowerTimeout, Goto
<1>6. ASSUME NEW p \in Request, Complete(p) PROVE Looked'
  BY <1>6, <1>s DEF Complete, Goto
<1>7. ASSUME NEW p \in Request, Unlist(p) PROVE Looked'
  BY <1>7, <1>s DEF Unlist, Goto
<1>8. ASSUME NEW p \in Request, Wake(p) PROVE Looked'
  BY <1>8, <1>s DEF Wake, Goto, Broadcast
<1>9. ASSUME NEW p \in Request, Claim(p) PROVE Looked'
  BY <1>9, <1>s DEF Claim, Goto, Claimed
<1>10. ASSUME NEW p \in Request, AnswerEarly(p) PROVE Looked'
  BY <1>10, <1>s DEF AnswerEarly, Goto
<1>11. ASSUME NEW p \in Request, Register(p) PROVE Looked'
  BY <1>11, <1>s DEF Register, Goto
<1>12. ASSUME NEW p \in Request, SameCheck(p) PROVE Looked'
  BY <1>12, <1>s DEF SameCheck, Goto
<1>13. ASSUME NEW p \in Request, WaitEnds(p) PROVE Looked'
  BY <1>13, <1>s DEF WaitEnds, Goto
<1>14. ASSUME NEW p \in Request, MetaCheck(p) PROVE Looked'
  BY <1>14, <1>s DEF MetaCheck, Goto
<1>15. ASSUME NEW p \in Request, CommittedCheck(p) PROVE Looked'
  BY <1>15, <1>s DEF CommittedCheck, Goto
<1>16. ASSUME NEW p \in Request, Reclaim(p) PROVE Looked'
  BY <1>16, <1>s DEF Reclaim, Goto, Claimed
<1>17. ASSUME NEW p \in Request, Again(p) PROVE Looked'
  BY <1>17, <1>s DEF Again, Goto
<1>18. ASSUME NEW p \in Task, Look(p) PROVE Looked'
  BY <1>18, <1>s DEF Look, Goto
<1>w. ASSUME NEW p \in Task, PrefetchClaim(p) PROVE Looked'
  BY <1>w, <1>s DEF PrefetchClaim, Goto, Claimed
<1>19. ASSUME NEW p \in Task, Peek(p) PROVE Looked'
  BY <1>19, <1>s DEF Peek, Goto
<1>20. ASSUME NEW p \in Task, PackedClaim(p) PROVE Looked'
  BY <1>20, <1>s DEF PackedClaim, Goto, Claimed
<1>21. ASSUME NEW p \in Task, Held(p) PROVE Looked'
  BY <1>21, <1>s DEF Held, Goto, Answer
<1>22. ASSUME NEW p \in Task, Clear(p) PROVE Looked'
  BY <1>22, <1>s DEF Clear, Goto
<1>23. ASSUME NEW p \in Task, Rename(p) PROVE Looked'
  BY <1>23, <1>s DEF Rename, Goto, Answer
<1>24. ASSUME NEW p \in Task, Import(p) PROVE Looked'
  BY <1>24, <1>s DEF Import, Goto, Answer
<1>25. ASSUME NEW p \in Task, Release(p) PROVE Looked'
  BY <1>25, <1>s DEF Release, Goto, AfterRelease
<1>26. ASSUME NEW p \in Task, NotifyWaiters(p) PROVE Looked'
  BY <1>26, <1>s DEF NotifyWaiters, Goto, Broadcast, AfterRelease
<1>27. ASSUME NEW p \in Task, Cancel(p) PROVE Looked'
  BY <1>27, <1>s DEF Cancel, Goto
<1>c. ASSUME NEW p \in Request, CancelLate(p) PROVE Looked'
  BY <1>c, <1>s DEF CancelLate
<1>28. CASE SpawnedRemove
  BY <1>28, <1>s DEF SpawnedRemove, Goto
<1>29. CASE SpawnedNotify
  BY <1>29, <1>s DEF SpawnedNotify, Goto, Broadcast
<1>30. CASE Evict
  BY <1>30, <1>s DEF Evict, Goto
<1>31. CASE UNCHANGED vars
  BY <1>31 DEF vars
<1> QED
  BY <1>s, <1>1, <1>2, <1>3, <1>4, <1>5, <1>6, <1>7, <1>8, <1>9, <1>10, <1>11, <1>12, <1>13,
     <1>14, <1>15, <1>16, <1>17, <1>18, <1>19, <1>20, <1>21, <1>22, <1>23, <1>24, <1>25,
     <1>26, <1>27, <1>28, <1>29, <1>30, <1>31, <1>w, <1>c
  DEF Next, Step

-----------------------------------------------------------------------------
\* No key is claimed and no request leads when the daemon starts.
LEMMA ClaimInitially == Init => OneWriter
<1> SUFFICES ASSUME Init PROVE OneWriter
  OBVIOUS
<1>1. \A p \in Task : pc[p] \in {"ask", "look", "peek"} /\ ~re[p]
  BY DEF Init, Idle
<1>2. \A p \in Task : /\ p \in Request => pc[p] = "ask"
                      /\ p \in Prefetch => pc[p] = "look"
                      /\ p \in Packed => pc[p] = "peek"
  BY ClaimAssumption DEF Init, Idle, ClaimAssumption
<1>3. TypeOK
  <2>1. pc \in [Task -> PCs]
    BY <1>1 DEF Init, PCs
  <2> QED BY <2>1 DEF Init, TypeOK
<1>4. Request \subseteq Task
  BY DEF Task
<1> QED BY <1>1, <1>2, <1>3, <1>4
        DEF Init, OneWriter, Placed, Flying, Looked, Holders, Holding, Leading

\* Every step preserves the invariant.
LEMMA ClaimStep == OneWriter /\ [Next]_vars => OneWriter'
<1> SUFFICES ASSUME OneWriter, [Next]_vars PROVE OneWriter'
  OBVIOUS
<1>1. TypeOK /\ Placed /\ Flying /\ Looked /\ Owned /\ OneLeader
  BY DEF OneWriter, Owned, OneLeader
<1>2. TypeOK' /\ Placed' /\ (Flying /\ OneLeader)' /\ Owned' /\ Looked'
  BY <1>1, TypeStep, PlacedStep, FlyingStep, OwnedStep, LookedStep
<1> QED BY <1>2 DEF OneWriter, Owned, OneLeader

\* A key has one downloading task and one leading request, through cancellation,
\* a removal the runtime runs late, and a claim that is won again.
THEOREM ClaimOneWriter == Spec => []OneWriter
  BY ClaimInitially, ClaimStep, PTL DEF Spec

\* A prefetch, or a request that wins the claim after a wait, goes on to download
\* only when the entry it looked for under the claim is not there.
THEOREM ClaimRechecked == Spec => RecheckedClear
<1>1. OneWriter /\ [Next]_vars =>
        [\A p \in Task : (p \in Prefetch \/ re[p]) /\ pc[p] = "clear" /\ pc'[p] = "rename" =>
            ~(row /\ meta)]_vars
  BY DEF OneWriter, Looked
<1> QED BY <1>1, ClaimOneWriter, PTL DEF Spec, RecheckedClear
=============================================================================
