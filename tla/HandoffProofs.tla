--------------------------- MODULE HandoffProofs ---------------------------
(***************************************************************************)
(* Proofs about Handoff for any number of wrappers, any queue capacity and *)
(* every combination of troubles.                                          *)
(***************************************************************************)
EXTENDS Handoff, FiniteSetTheorems, TLAPS

-----------------------------------------------------------------------------
(* The holders of the key.                                                 *)

\* Holders are told apart, and none of them is "nobody".
LEMMA HolderNames ==
    ASSUME NEW v \in Wrapper, NEW w \in Wrapper
    PROVE  /\ W(v) \in Holder /\ D(v) \in Holder
           /\ W(v) # None /\ D(v) # None /\ W(v) # D(w)
           /\ W(v) = W(w) => v = w
           /\ D(v) = D(w) => v = w
  BY HandoffAssumption DEF Holder, W, D

-----------------------------------------------------------------------------
(* Types.                                                                  *)

LEMMA TypeInitially == Init => TypeOK
<1> SUFFICES ASSUME Init PROVE TypeOK
  OBVIOUS
<1>1. IsFiniteSet(slots) /\ Cardinality(slots) <= Capacity /\ slots \subseteq Wrapper
  BY FS_EmptySet, HandoffAssumption DEF Init
<1>2. /\ files \in [Wrapper -> BOOLEAN] /\ owns \in [Wrapper -> BOOLEAN]
      /\ committed \in BOOLEAN
  BY DEF Init
<1>3. /\ events \in [Wrapper -> Nat] /\ puts \in Nat
  BY DEF Init
<1> QED
  BY <1>1, <1>2, <1>3 DEF Init, TypeOK

\* A reservation finds a free place, and a release can only free one.
LEMMA SlotsStep ==
    ASSUME TypeOK, NEW w \in Wrapper
    PROVE  /\ LET s == slots \ {w}
              IN  s \subseteq Wrapper /\ IsFiniteSet(s) /\ Cardinality(s) <= Capacity
           /\ Cardinality(slots) < Capacity =>
                LET s == slots \cup {w}
                IN  s \subseteq Wrapper /\ IsFiniteSet(s) /\ Cardinality(s) <= Capacity
<1>1. slots \subseteq Wrapper /\ IsFiniteSet(slots) /\ Cardinality(slots) <= Capacity
  BY DEF TypeOK
<1>2. Cardinality(slots) \in Nat
  BY <1>1, FS_CardinalityType
<1>3. /\ IsFiniteSet(slots \ {w})
      /\ Cardinality(slots \ {w}) = IF w \in slots THEN Cardinality(slots) - 1 ELSE Cardinality(slots)
  BY <1>1, FS_RemoveElement
<1>4. /\ IsFiniteSet(slots \cup {w})
      /\ Cardinality(slots \cup {w}) = IF w \in slots THEN Cardinality(slots) ELSE Cardinality(slots) + 1
  BY <1>1, FS_AddElement
<1> QED
  BY <1>1, <1>2, <1>3, <1>4, HandoffAssumption

\* A publication keeps the types of what it assigns, and so does a failed one.
LEMMA PutTypes ==
    ASSUME TypeOK, Put \/ (PutErrors /\ UNCHANGED entry)
    PROVE  committed' \in BOOLEAN /\ puts' \in Nat
<1>1. committed' \in BOOLEAN
  BY DEF Put, entry, TypeOK
<1>2. puts' \in Nat
  BY DEF Put, entry, TypeOK
<1> QED
  BY <1>1, <1>2

\* Every step keeps the types and the queue within its capacity.
LEMMA TypeStep == TypeOK /\ [Next]_vars => TypeOK'
<1> SUFFICES ASSUME TypeOK, [Next]_vars PROVE TypeOK'
  OBVIOUS
<1> USE DEF Goto, HGoto, Unlock, Acquired, Committed, Contended, entry
<1>1. ASSUME NEW w \in Wrapper, Compile(w) PROVE TypeOK'
  BY <1>1, HolderNames DEF Compile, TypeOK
<1>2. ASSUME NEW w \in Wrapper, Offer(w) PROVE TypeOK'
  BY <1>2, HolderNames DEF Offer, TypeOK
<1>3. ASSUME NEW w \in Wrapper, NoDaemon(w) PROVE TypeOK'
  BY <1>3, HolderNames DEF NoDaemon, TypeOK
<1>4. ASSUME NEW w \in Wrapper, KeepLock(w) PROVE TypeOK'
  BY <1>4, HolderNames DEF KeepLock, TypeOK
<1>5. ASSUME NEW w \in Wrapper, Finish(w) PROVE TypeOK'
  BY <1>5, HolderNames DEF Finish, TypeOK
<1>6. ASSUME NEW w \in Wrapper, FinishUnsure(w) PROVE TypeOK'
  BY <1>6, HolderNames DEF FinishUnsure, TypeOK
<1>7. ASSUME NEW w \in Wrapper, RemoveFiles(w) PROVE TypeOK'
  BY <1>7, HolderNames DEF RemoveFiles, TypeOK
<1>8. ASSUME NEW w \in Wrapper, Reclaim(w) PROVE TypeOK'
  BY <1>8, HolderNames DEF Reclaim, TypeOK
<1>9. ASSUME NEW w \in Wrapper, HolderGone(w) PROVE TypeOK'
  BY <1>9, HolderNames DEF HolderGone, TypeOK
<1>10. ASSUME NEW w \in Wrapper, WrapperPut(w) PROVE TypeOK'
  BY <1>10, PutTypes DEF WrapperPut, TypeOK
<1>11. ASSUME NEW w \in Wrapper, Log(w) PROVE TypeOK'
  BY <1>11, HolderNames DEF Log, TypeOK
<1>12. ASSUME NEW w \in Wrapper, Reserve(w) PROVE TypeOK'
  BY <1>12, HolderNames, SlotsStep DEF Reserve, Refuse, TypeOK
<1>13. ASSUME NEW w \in Wrapper, Claim(w) PROVE TypeOK'
  BY <1>13, HolderNames, SlotsStep DEF Claim, Refuse, TypeOK
<1>14. ASSUME NEW w \in Wrapper, Snapshot(w) PROVE TypeOK'
  BY <1>14, HolderNames, SlotsStep DEF Snapshot, Refuse, TypeOK
<1>15. ASSUME NEW w \in Wrapper, Accept(w) PROVE TypeOK'
  BY <1>15, HolderNames DEF Accept, TypeOK
<1>16. ASSUME NEW w \in Wrapper, AcceptFails(w) PROVE TypeOK'
  BY <1>16, HolderNames, SlotsStep DEF AcceptFails, Refuse, TypeOK
<1>17. ASSUME NEW w \in Wrapper, Enqueue(w) PROVE TypeOK'
  BY <1>17, HolderNames DEF Enqueue, TypeOK
<1>18. ASSUME NEW w \in Wrapper, Abort(w) PROVE TypeOK'
  BY <1>18, HolderNames, SlotsStep DEF Abort, Refuse, TypeOK
<1>19. ASSUME NEW w \in Wrapper, Receive(w) PROVE TypeOK'
  BY <1>19, HolderNames, SlotsStep DEF Receive, TypeOK
<1>20. ASSUME NEW w \in Wrapper, Store(w) PROVE TypeOK'
  BY <1>20, PutTypes DEF Store, TypeOK
<1>21. ASSUME NEW w \in Wrapper, WriteEvent(w) PROVE TypeOK'
  BY <1>21, HolderNames DEF WriteEvent, TypeOK
<1>22. ASSUME NEW w \in Wrapper, DropLock(w) PROVE TypeOK'
  BY <1>22, HolderNames DEF DropLock, TypeOK
<1>23. CASE Drain
  BY <1>23 DEF Drain, TypeOK
<1>24. CASE Die
  <2>1. IsFiniteSet({}) /\ Cardinality({}) <= Capacity
    BY FS_EmptySet, HandoffAssumption
  <2> QED
    BY <1>24, <2>1 DEF Die, TypeOK
<1>25. CASE UNCHANGED vars
  BY <1>25 DEF vars, TypeOK
<1>26. ASSUME NEW w \in Wrapper, AbortClaim(w) PROVE TypeOK'
  BY <1>26, HolderNames, SlotsStep DEF AbortClaim, TypeOK
<1>27. ASSUME NEW w \in Wrapper, ClaimLate(w) PROVE TypeOK'
  BY <1>27, HolderNames DEF ClaimLate, TypeOK
<1>28. ASSUME NEW w \in Wrapper, DropClaim(w) PROVE TypeOK'
  BY <1>28, HolderNames DEF DropClaim, TypeOK
<1>29. ASSUME NEW w \in Wrapper, Discard(w) PROVE TypeOK'
  BY <1>29, HolderNames, SlotsStep DEF Discard, Refuse, TypeOK
<1>30. CASE OpenFails
  BY <1>30 DEF OpenFails, TypeOK
<1> QED
  BY <1>1, <1>2, <1>3, <1>4, <1>5, <1>6, <1>7, <1>8, <1>9, <1>10, <1>11, <1>12, <1>13, <1>14,
     <1>15, <1>16, <1>17, <1>18, <1>19, <1>20, <1>21, <1>22, <1>23, <1>24, <1>25,
     <1>26, <1>27, <1>28, <1>29, <1>30
  DEF Next, Wrap, Handle, Work

-----------------------------------------------------------------------------
(* Events.                                                                 *)

\* What the receipt decides stays decided, whoever comes late.
LEMMA EventStep ==
    TypeOK /\ EventOnce /\ Receipts /\ Counted /\ [Next]_vars
        => EventOnce' /\ Receipts' /\ Counted'
<1> SUFFICES ASSUME TypeOK, EventOnce, Receipts, Counted, [Next]_vars
             PROVE  EventOnce' /\ Receipts' /\ Counted'
  OBVIOUS
<1> USE DEF TypeOK, EventOnce, Receipts, Counted, Goto, HGoto
<1>1. ASSUME NEW w \in Wrapper, Compile(w) PROVE EventOnce' /\ Receipts' /\ Counted'
  BY <1>1 DEF Compile
<1>2. ASSUME NEW w \in Wrapper, Offer(w) PROVE EventOnce' /\ Receipts' /\ Counted'
  BY <1>2 DEF Offer
<1>3. ASSUME NEW w \in Wrapper, NoDaemon(w) PROVE EventOnce' /\ Receipts' /\ Counted'
  BY <1>3 DEF NoDaemon
<1>4. ASSUME NEW w \in Wrapper, KeepLock(w) PROVE EventOnce' /\ Receipts' /\ Counted'
  BY <1>4 DEF KeepLock
<1>5. ASSUME NEW w \in Wrapper, Finish(w) PROVE EventOnce' /\ Receipts' /\ Counted'
  BY <1>5 DEF Finish
<1>6. ASSUME NEW w \in Wrapper, FinishUnsure(w) PROVE EventOnce' /\ Receipts' /\ Counted'
  BY <1>6 DEF FinishUnsure
<1>7. ASSUME NEW w \in Wrapper, RemoveFiles(w) PROVE EventOnce' /\ Receipts' /\ Counted'
  BY <1>7 DEF RemoveFiles
<1>8. ASSUME NEW w \in Wrapper, Reclaim(w) PROVE EventOnce' /\ Receipts' /\ Counted'
  BY <1>8 DEF Reclaim
<1>9. ASSUME NEW w \in Wrapper, HolderGone(w) PROVE EventOnce' /\ Receipts' /\ Counted'
  BY <1>9 DEF HolderGone
<1>10. ASSUME NEW w \in Wrapper, WrapperPut(w) PROVE EventOnce' /\ Receipts' /\ Counted'
  BY <1>10 DEF WrapperPut
<1>11. ASSUME NEW w \in Wrapper, Log(w) PROVE EventOnce' /\ Receipts' /\ Counted'
  BY <1>11 DEF Log
<1>12. ASSUME NEW w \in Wrapper, Reserve(w) PROVE EventOnce' /\ Receipts' /\ Counted'
  BY <1>12 DEF Reserve, Refuse
<1>13. ASSUME NEW w \in Wrapper, Claim(w) PROVE EventOnce' /\ Receipts' /\ Counted'
  BY <1>13 DEF Claim, Refuse
<1>14. ASSUME NEW w \in Wrapper, Snapshot(w) PROVE EventOnce' /\ Receipts' /\ Counted'
  BY <1>14 DEF Snapshot, Refuse
<1>15. ASSUME NEW w \in Wrapper, Accept(w) PROVE EventOnce' /\ Receipts' /\ Counted'
  BY <1>15 DEF Accept
<1>16. ASSUME NEW w \in Wrapper, AcceptFails(w) PROVE EventOnce' /\ Receipts' /\ Counted'
  BY <1>16 DEF AcceptFails, Refuse
<1>17. ASSUME NEW w \in Wrapper, Enqueue(w) PROVE EventOnce' /\ Receipts' /\ Counted'
  BY <1>17 DEF Enqueue
<1>18. ASSUME NEW w \in Wrapper, Abort(w) PROVE EventOnce' /\ Receipts' /\ Counted'
  BY <1>18 DEF Abort, Refuse
<1>19. ASSUME NEW w \in Wrapper, Receive(w) PROVE EventOnce' /\ Receipts' /\ Counted'
  BY <1>19 DEF Receive
<1>20. ASSUME NEW w \in Wrapper, Store(w) PROVE EventOnce' /\ Receipts' /\ Counted'
  BY <1>20 DEF Store
<1>21. ASSUME NEW w \in Wrapper, WriteEvent(w) PROVE EventOnce' /\ Receipts' /\ Counted'
  BY <1>21 DEF WriteEvent
<1>22. ASSUME NEW w \in Wrapper, DropLock(w) PROVE EventOnce' /\ Receipts' /\ Counted'
  BY <1>22 DEF DropLock
<1>23. CASE Drain
  BY <1>23 DEF Drain
<1>24. CASE Die
  BY <1>24 DEF Die
<1>25. CASE UNCHANGED vars
  BY <1>25 DEF vars
<1>26. ASSUME NEW w \in Wrapper, AbortClaim(w) PROVE EventOnce' /\ Receipts' /\ Counted'
  BY <1>26 DEF AbortClaim
<1>27. ASSUME NEW w \in Wrapper, ClaimLate(w) PROVE EventOnce' /\ Receipts' /\ Counted'
  BY <1>27 DEF ClaimLate
<1>28. ASSUME NEW w \in Wrapper, DropClaim(w) PROVE EventOnce' /\ Receipts' /\ Counted'
  BY <1>28 DEF DropClaim
<1>29. ASSUME NEW w \in Wrapper, Discard(w) PROVE EventOnce' /\ Receipts' /\ Counted'
  BY <1>29 DEF Discard, Refuse
<1>30. CASE OpenFails
  BY <1>30 DEF OpenFails
<1> QED
  BY <1>1, <1>2, <1>3, <1>4, <1>5, <1>6, <1>7, <1>8, <1>9, <1>10, <1>11, <1>12, <1>13, <1>14,
     <1>15, <1>16, <1>17, <1>18, <1>19, <1>20, <1>21, <1>22, <1>23, <1>24, <1>25,
     <1>26, <1>27, <1>28, <1>29, <1>30
  DEF Next, Wrap, Handle, Work

-----------------------------------------------------------------------------
(* The key.                                                                *)

\* What may go wrong is settled at the start.
LEMMA SetupStep == [Next]_vars => UNCHANGED setup
  BY DEF Next, Wrap, Handle, Work, Compile, Offer, NoDaemon, KeepLock, Finish, FinishUnsure,
         RemoveFiles, Reclaim, HolderGone, WrapperPut, Log, Reserve, Claim, Snapshot, Accept,
         AcceptFails, Enqueue, Abort, AbortClaim, ClaimLate, DropClaim, OpenFails, Discard,
         Receive, Store, WriteEvent, DropLock, Drain, Die, vars

\* While files and claims do not fail, only the holder of the key stores, and
\* only what is not stored yet.
LEMMA KeyStep == TypeOK /\ KeyHeld /\ [Next]_vars => KeyHeld'
<1> SUFFICES ASSUME TypeOK, KeyHeld, [Next]_vars, ~IoErrors PROVE KeyHeld'
  BY SetupStep DEF KeyHeld, IoErrors
<1> USE HolderNames
<1> USE DEF TypeOK, KeyHeld, WrapperHolds, JobHolds, JobStores, Goto, HGoto, Unlock, Acquired,
            Committed, Contended, Put, entry
<1>1. ASSUME NEW w \in Wrapper, Compile(w) PROVE KeyHeld'
  BY <1>1 DEF Compile
<1>2. ASSUME NEW w \in Wrapper, Offer(w) PROVE KeyHeld'
  BY <1>2 DEF Offer
<1>3. ASSUME NEW w \in Wrapper, NoDaemon(w) PROVE KeyHeld'
  BY <1>3 DEF NoDaemon
<1>4. ASSUME NEW w \in Wrapper, KeepLock(w) PROVE KeyHeld'
  BY <1>4 DEF KeepLock
<1>5. ASSUME NEW w \in Wrapper, Finish(w) PROVE KeyHeld'
  BY <1>5 DEF Finish
<1>6. ASSUME NEW w \in Wrapper, FinishUnsure(w) PROVE KeyHeld'
  BY <1>6 DEF FinishUnsure
<1>7. ASSUME NEW w \in Wrapper, RemoveFiles(w) PROVE KeyHeld'
  BY <1>7 DEF RemoveFiles
<1>8. ASSUME NEW w \in Wrapper, Reclaim(w) PROVE KeyHeld'
  BY <1>8 DEF Reclaim
<1>9. ASSUME NEW w \in Wrapper, HolderGone(w) PROVE KeyHeld'
  BY <1>9 DEF HolderGone
<1>10. ASSUME NEW w \in Wrapper, WrapperPut(w) PROVE KeyHeld'
  BY <1>10 DEF WrapperPut
<1>11. ASSUME NEW w \in Wrapper, Log(w) PROVE KeyHeld'
  BY <1>11 DEF Log
<1>12. ASSUME NEW w \in Wrapper, Reserve(w) PROVE KeyHeld'
  BY <1>12 DEF Reserve, Refuse
<1>13. ASSUME NEW w \in Wrapper, Claim(w) PROVE KeyHeld'
  BY <1>13 DEF Claim, Refuse
<1>14. ASSUME NEW w \in Wrapper, Snapshot(w) PROVE KeyHeld'
  BY <1>14 DEF Snapshot, Refuse
<1>15. ASSUME NEW w \in Wrapper, Accept(w) PROVE KeyHeld'
  BY <1>15 DEF Accept
<1>16. ASSUME NEW w \in Wrapper, AcceptFails(w) PROVE KeyHeld'
  BY <1>16 DEF AcceptFails, Refuse
<1>17. ASSUME NEW w \in Wrapper, Enqueue(w) PROVE KeyHeld'
  BY <1>17 DEF Enqueue
<1>18. ASSUME NEW w \in Wrapper, Abort(w) PROVE KeyHeld'
  BY <1>18 DEF Abort, Refuse
<1>19. ASSUME NEW w \in Wrapper, Receive(w) PROVE KeyHeld'
  BY <1>19 DEF Receive
<1>20. ASSUME NEW w \in Wrapper, Store(w) PROVE KeyHeld'
  BY <1>20 DEF Store
<1>21. ASSUME NEW w \in Wrapper, WriteEvent(w) PROVE KeyHeld'
  BY <1>21 DEF WriteEvent
<1>22. ASSUME NEW w \in Wrapper, DropLock(w) PROVE KeyHeld'
  BY <1>22 DEF DropLock
<1>23. CASE Drain
  BY <1>23 DEF Drain
<1>24. CASE Die
  BY <1>24 DEF Die
<1>25. CASE UNCHANGED vars
  BY <1>25 DEF vars
<1>26. ASSUME NEW w \in Wrapper, AbortClaim(w) PROVE KeyHeld'
  BY <1>26 DEF AbortClaim
<1>27. ASSUME NEW w \in Wrapper, ClaimLate(w) PROVE KeyHeld'
  BY <1>27 DEF ClaimLate
<1>28. ASSUME NEW w \in Wrapper, DropClaim(w) PROVE KeyHeld'
  BY <1>28 DEF DropClaim
<1>29. ASSUME NEW w \in Wrapper, Discard(w) PROVE KeyHeld'
  BY <1>29 DEF Discard, Refuse
<1>30. CASE OpenFails
  BY <1>30 DEF OpenFails
<1> QED
  BY <1>1, <1>2, <1>3, <1>4, <1>5, <1>6, <1>7, <1>8, <1>9, <1>10, <1>11, <1>12, <1>13, <1>14,
     <1>15, <1>16, <1>17, <1>18, <1>19, <1>20, <1>21, <1>22, <1>23, <1>24, <1>25,
     <1>26, <1>27, <1>28, <1>29, <1>30
  DEF Next, Wrap, Handle, Work

-----------------------------------------------------------------------------
(* The results.                                                            *)

\* Before anything happens nobody is counted and nobody holds the key.
LEMMA HandoffInitially == Init => HandoffInv
<1> SUFFICES ASSUME Init PROVE HandoffInv
  OBVIOUS
<1>1. TypeOK
  BY TypeInitially
<1>2. EventOnce /\ Receipts /\ Counted
  BY DEF Init, EventOnce, Receipts, Counted
<1>3. KeyHeld
  BY DEF Init, KeyHeld, WrapperHolds, JobHolds, JobStores
<1> QED
  BY <1>1, <1>2, <1>3 DEF HandoffInv

LEMMA HandoffStep == HandoffInv /\ [Next]_vars => HandoffInv'
  BY TypeStep, EventStep, KeyStep DEF HandoffInv

\* However wrappers, handlers, the publish worker and the daemon's end
\* interleave, the publish queue keeps its capacity, and each compile's event
\* is written by at most one of wrapper and daemon.
THEOREM HandoffSafe == Spec => []HandoffInv
  BY HandoffInitially, HandoffStep, PTL DEF Spec

\* Unless files fail, wrapper and daemon never both publish: whoever stores
\* holds the key and has seen, holding it, that the entry was absent.
THEOREM HandoffPublishesOnce == Spec => []PublishedOnce
<1>1. HandoffInv => PublishedOnce
  BY DEF HandoffInv, KeyHeld, TypeOK, PublishedOnce
<1> QED
  BY <1>1, HandoffSafe, PTL
=============================================================================
