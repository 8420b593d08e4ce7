--------------------------- MODULE SchedulerProofs ---------------------------
(***************************************************************************)
(* Proofs about Scheduler for any number of wrappers, tests and keys, any  *)
(* pool, weights and floors, and every combination of circumstances.       *)
(***************************************************************************)
EXTENDS Scheduler, FiniteSetTheorems, TLAPS

-----------------------------------------------------------------------------
(* The pool and its users.                                                 *)

\* Wrappers are not tests, and nobody is "nobody".
LEMMA Sorts ==
    /\ \A c \in Compile : c \in Proc /\ c \notin Test /\ c # None
    /\ \A t \in Test : t \in Proc /\ t \notin Compile /\ t # None
    /\ \A p \in Proc : p \in Compile \/ p \in Test
    /\ \A k \in Key : k # None
    /\ \A n \in Nat : n # None
  BY SchedulerAssumption DEF Proc

\* The pool is chosen once.
LEMMA SetupKept ==
    ASSUME [Next]_vars
    PROVE  /\ setup' = setup
           /\ Pool' = Pool /\ Slot' = Slot /\ KeyOf' = KeyOf /\ reserve_for' = reserve_for
<1>1. setup' = setup
   BY DEF Next, Work, Lease, Acquire, vars, Start, Join, AwaitFlight, DropPeek, Recheck,
     Admit, Claim, Contend, Built, DropPermit, Notify, DropFlight, JoinError, FlightTimeout,
     ClaimError, ContendTimeout, StartTest, TakeFree, TookFree, Mark, TestExit, DropMarkers, DropSlots, MarkBusy, Ask,
     Scan, ScanShort, Snapshot, Park, ScanStop, Kill
<1> QED
  BY <1>1 DEF Pool, Slot, KeyOf, reserve_for

\* What the parameters of a setup are, and the size of the reserve.
LEMMA Quantities ==
    ASSUME Placed
    PROVE  /\ Pool \in Nat \ {0} /\ Slot = 0..(Pool - 1)
           /\ KeyOf \in [Compile -> Key \cup {None}]
           /\ reserve_for \in 1..Pool
<1>1. setup \in Setups
  BY DEF Placed
<1>2. Pool \in Nat \ {0} /\ KeyOf \in [Compile -> Key \cup {None}]
  BY <1>1, SchedulerAssumption DEF Pool, KeyOf
<1>3. reserve_for \in 1..Pool
  BY <1>2 DEF reserve_for, AtLeast
<1> QED
  BY <1>2, <1>3 DEF Slot

\* What a process asks for never exceeds the pool.
LEMMA NeedTypes ==
    ASSUME TypeOK, Placed, NEW p \in Proc, NEW n \in Needs(p)
    PROVE  AtLeast(n, 1) \in 0..Pool
<1>1. setup \in Setups
  BY DEF Placed
<1>2. /\ Pool \in Nat \ {0} /\ reserve_for \in 1..Pool
      /\ Weight \in [Compile -> Nat] /\ Floor \in [Test -> Nat \ {0}]
  BY <1>1, Quantities, SchedulerAssumption DEF Weight, Floor
<1>3. CASE p \in Test
  <2>1. n = test_need(p) /\ Floor[p] \in Nat
    BY <1>2, <1>3 DEF Needs
  <2> QED
    BY <1>2, <2>1 DEF test_need, AtMost, AtLeast
<1>4. CASE p \notin Test
  <2>1. PICK w \in pressure_weight(p), m \in tests_held : n = compile_need(w, p \in waited, m)
    BY <1>4 DEF Needs
  <2>2. w \in Nat
    BY <1>2, <1>4, <2>1, Sorts DEF pressure_weight
  <2>3. m \in Nat
    <3>1. IsFiniteSet(0..(Pool - 1))
      BY <1>2, FS_Interval
    <3>2. IsFiniteSet({i \in Slot : marker[i] # None})
      BY <3>1, FS_Subset DEF Slot
    <3>3. Cardinality({i \in Slot : marker[i] # None}) \in Nat
      BY <3>2, FS_CardinalityType
    <3> QED
      BY <1>2, <2>1, <3>3 DEF tests_held
  <2> DEFINE need == AtMost(AtLeast(w, 1), Pool)
  <2>4. need \in 1..Pool
    BY <1>2, <2>2 DEF AtMost, AtLeast
  <2>5. AtLeast(AtLeast(Pool - m, 0), reserve_for) \in Nat \ {0}
    BY <1>2, <2>3 DEF AtLeast
  <2> HIDE DEF need
  <2>6. AtMost(need, AtLeast(AtLeast(Pool - m, 0), reserve_for)) \in 1..Pool
    BY <1>2, <2>4, <2>5 DEF AtMost
  <2>7. n \in 1..Pool
    BY <2>1, <2>4, <2>6 DEF compile_need, need
  <2> QED
    BY <1>2, <2>7 DEF AtLeast
<1> QED
  BY <1>3, <1>4

-----------------------------------------------------------------------------
(* The outcomes of a step.                                                 *)

\* Nobody is in the key's flight, or somebody is.
Fly(c) ==
    /\ pc[c] = "join" /\ flight[KeyOf[c]] = None
    /\ flight' = [flight EXCEPT ![KeyOf[c]] = c]
    /\ Goto(c, "admit")
    /\ UNCHANGED <<slot, marker, keylock, stored, wake, scan, lease, setup>>
Await(c) ==
    /\ pc[c] = "join"
    /\ Goto(c, "await")
    /\ UNCHANGED <<locks, stored, wake, scan, lease, setup>>

\* The key is taken or stored, or the claim wins it.
Pass(c) ==
    /\ pc[c] = "claim"
    /\ Goto(c, "contend") \/ Goto(c, "release")
    /\ UNCHANGED <<locks, stored, wake, scan, lease, setup>>
Take(c) ==
    /\ pc[c] = "claim"
    /\ keylock' = [keylock EXCEPT ![KeyOf[c]] = c]
    /\ Goto(c, "compile")
    /\ UNCHANGED <<slot, marker, flight, stored, wake, scan, lease, setup>>

\* A slot on the way, and the one that makes the number full.
ScanOn(p) ==
    /\ pc[p] \in {"scan", "rescan"} /\ idx[p] < Pool
    /\ slot' = [slot EXCEPT ![idx[p]] = IF @ = None THEN p ELSE @]
    /\ idx' = [idx EXCEPT ![p] = @ + 1]
    /\ UNCHANGED <<marker, flight, keylock, stored, wake, pc, ask, waited, seen, lease, setup>>
ScanFull(p) ==
    /\ pc[p] \in {"scan", "rescan"} /\ idx[p] < Pool
    /\ slot[idx[p]] = None
    /\ slot' = [slot EXCEPT ![idx[p]] = p]
    /\ Goto(p, Ready(p)) /\ Forget(p)
    /\ UNCHANGED <<marker, flight, keylock, stored, wake, lease, setup>>

\* The marker of a slot that has none, the last one or not.
MarkOne(t) ==
    /\ pc[t] = "mark"
    /\ \E i \in Slot :
          /\ slot[i] = t /\ marker[i] = None
          /\ marker' = [marker EXCEPT ![i] = t]
          /\ \/ /\ \A j \in Slot : slot[j] = t /\ j # i => marker[j] = t
                /\ Goto(t, "running") /\ lease' \in [Test -> Slot \cup {None}]
             \/ /\ \E j \in Slot : slot[j] = t /\ j # i /\ marker[j] # t
                /\ UNCHANGED <<lease, pc>>
    /\ UNCHANGED <<slot, flight, keylock, stored, wake, scan, setup>>

\* A set of slots has a least one.
LEMMA LeastIn ==
    ASSUME NEW S \in SUBSET Nat, S # {}
    PROVE  Least(S) \in S
<1>1. PICK i \in S : \A j \in S : ~ (<<j, i>> \in OpToRel(<, Nat))
  BY NatLessThanWellFounded, WFMin
<1>2. \A j \in S : ~ (j < i)
  BY <1>1 DEF OpToRel
<1>3. \A j \in S : i <= j
  BY <1>2
<1> QED
  BY <1>3 DEF Least

LEMMA MarkChoice ==
    ASSUME TypeOK, Placed, Sitting, NEW t \in Test, Mark(t)
    PROVE  MarkOne(t)
<1> DEFINE S == Held(t) \ Marked(t)
           i == Least(S)
<1>1. S \in SUBSET Nat /\ Held(t) \in SUBSET Nat /\ S \subseteq Held(t) /\ Held(t) \subseteq Slot
  BY Quantities DEF Held
<1>2. pc[t] = "mark" /\ S # {}
  BY DEF Mark, Sitting, Held, Marked
<1>3. i \in S
  BY <1>1, <1>2, LeastIn
<1>4. i \in Slot /\ slot[i] = t /\ marker[i] # t
  BY <1>3 DEF Held, Marked
<1>5. marker[i] = None /\ marker' = [marker EXCEPT ![i] = t]
  BY DEF Mark
<1>6. UNCHANGED <<slot, flight, keylock, stored, wake, scan, setup>>
  BY DEF Mark
<1>7. CASE S = {i}
  <2>1. lease' = [lease EXCEPT ![t] = Least(Held(t))] /\ Goto(t, "running")
    BY <1>7 DEF Mark
  <2>2. Least(Held(t)) \in Slot
    BY <1>1, <1>3, LeastIn
  <2>3. lease' \in [Test -> Slot \cup {None}]
    BY <2>1, <2>2 DEF TypeOK
  <2>4. \A j \in Slot : slot[j] = t /\ j # i => marker[j] = t
    BY <1>7 DEF Held, Marked
  <2> QED
    BY <1>2, <1>4, <1>5, <1>6, <2>1, <2>3, <2>4 DEF MarkOne
<1>8. CASE S # {i}
  <2>1. UNCHANGED <<lease, pc>>
    BY <1>8 DEF Mark
  <2>2. \E j \in Slot : slot[j] = t /\ j # i /\ marker[j] # t
    BY <1>3, <1>8 DEF Held, Marked
  <2> QED
    BY <1>2, <1>4, <1>5, <1>6, <2>1, <2>2 DEF MarkOne
<1> QED
  BY <1>7, <1>8

LEMMA Choices ==
    ASSUME TypeOK, Placed, Sitting
    PROVE  /\ \A c \in Compile : Join(c) => Fly(c) \/ Await(c)
           /\ \A c \in Compile : Claim(c) => Pass(c) \/ Take(c)
           /\ \A p \in Proc : Scan(p) => ScanOn(p) \/ ScanFull(p)
           /\ \A t \in Test : Mark(t) => MarkOne(t)
<1>1. \A c \in Compile : Join(c) => Fly(c) \/ Await(c)
  BY DEF Join, Fly, Await, locks
<1>2. \A c \in Compile : Claim(c) => Pass(c) \/ Take(c)
  BY DEF Claim, Pass, Take, locks
<1>3. ASSUME NEW p \in Proc, Scan(p) PROVE ScanOn(p) \/ ScanFull(p)
  <2>1. CASE slot[idx[p]] = None /\ Cardinality(Held(p)) + 1 = ask[p]
    <3>1. idx[p] \in Slot
      <4>1. idx[p] \in 0..Pool /\ idx[p] < Pool
        BY <1>3 DEF Scan, TypeOK
      <4> QED
        BY <4>1, Quantities
    <3>2. slot' = [slot EXCEPT ![idx[p]] = p]
      BY <1>3, <2>1, <3>1 DEF Scan, TypeOK
    <3> QED
      BY <1>3, <2>1, <3>2 DEF Scan, ScanFull
  <2>2. CASE ~ (slot[idx[p]] = None /\ Cardinality(Held(p)) + 1 = ask[p])
    BY <1>3, <2>2 DEF Scan, ScanOn
  <2> QED
    BY <2>1, <2>2
<1> QED
  BY <1>1, <1>2, <1>3, MarkChoice

\* Who is elsewhere has no slot, and no marker.
LEMMA NoSlot ==
    ASSUME Sitting, NEW p \in Proc,
           pc[p] \notin {"scan", "rescan", "claim", "contend", "compile", "release", "extra",
                         "mark", "running", "abandon", "exit"}
    PROVE  \A i \in Slot : slot[i] # p
  BY Sorts DEF Sitting

LEMMA NoMarker ==
    ASSUME Sitting, NEW p \in Proc, pc[p] \notin {"mark", "running", "abandon", "exit"}
    PROVE  \A i \in Slot : marker[i] # p
  BY Sorts DEF Sitting

-----------------------------------------------------------------------------
(* The parts of the invariant.                                             *)

\* Every step keeps the types.
LEMMA TypeStep ==
    ASSUME TypeOK, Placed, Sitting, [Next]_vars
    PROVE  TypeOK'
<1> USE Sorts, SetupKept, Quantities
<1> USE DEF TypeOK, Placed, Label, Goto, Freed, locks, scan
<1>1. ASSUME NEW c \in Compile, Start(c) PROVE TypeOK'
  BY <1>1 DEF Start
<1>2. ASSUME NEW c \in Compile, Fly(c) PROVE TypeOK'
  BY <1>2 DEF Fly
<1>3. ASSUME NEW c \in Compile, Await(c) PROVE TypeOK'
  BY <1>3 DEF Await
<1>4. ASSUME NEW c \in Compile, AwaitFlight(c) PROVE TypeOK'
  BY <1>4 DEF AwaitFlight
<1>5. ASSUME NEW c \in Compile, DropPeek(c) PROVE TypeOK'
  BY <1>5 DEF DropPeek
<1>6. ASSUME NEW c \in Compile, Recheck(c) PROVE TypeOK'
  BY <1>6 DEF Recheck
<1>7. ASSUME NEW c \in Compile, Admit(c) PROVE TypeOK'
  BY <1>7 DEF Admit, Without
<1>8. ASSUME NEW c \in Compile, Pass(c) PROVE TypeOK'
  BY <1>8 DEF Pass
<1>9. ASSUME NEW c \in Compile, Take(c) PROVE TypeOK'
  BY <1>9 DEF Take
<1>10. ASSUME NEW c \in Compile, Contend(c) PROVE TypeOK'
  BY <1>10 DEF Contend
<1>11. ASSUME NEW c \in Compile, Built(c) PROVE TypeOK'
  BY <1>11 DEF Built
<1>12. ASSUME NEW c \in Compile, DropPermit(c) PROVE TypeOK'
  BY <1>12 DEF DropPermit
<1>13. ASSUME NEW c \in Compile, Notify(c) PROVE TypeOK'
  BY <1>13 DEF Notify
<1>14. ASSUME NEW c \in Compile, DropFlight(c) PROVE TypeOK'
  BY <1>14 DEF DropFlight
<1>15. ASSUME NEW c \in Compile, JoinError(c) PROVE TypeOK'
  BY <1>15 DEF JoinError
<1>16. ASSUME NEW c \in Compile, FlightTimeout(c) PROVE TypeOK'
  BY <1>16 DEF FlightTimeout
<1>17. ASSUME NEW c \in Compile, ClaimError(c) PROVE TypeOK'
  BY <1>17 DEF ClaimError
<1>18. ASSUME NEW t \in Test, StartTest(t) PROVE TypeOK'
  BY <1>18 DEF StartTest
<1>19. ASSUME NEW t \in Test, TakeFree(t) PROVE TypeOK'
  <2> DEFINE i == AtLeast(idx[t], reserve_for)
  <2>1. i \in Slot /\ i + 1 \in 0..Pool
    BY <1>19 DEF TakeFree, AtLeast
  <2>2. slot' \in [Slot -> Proc \cup {None}]
    BY <1>19, <2>1 DEF TakeFree
  <2>3. idx' \in [Proc -> 0..Pool]
    BY <1>19, <2>1 DEF TakeFree
  <2> HIDE DEF i
  <2> QED
    BY <1>19, <2>2, <2>3 DEF TakeFree
<1>20. ASSUME NEW t \in Test, MarkOne(t) PROVE TypeOK'
  <2>1. PICK i \in Slot : marker' = [marker EXCEPT ![i] = t]
    BY <1>20 DEF MarkOne
  <2>2. marker' \in [Slot -> Test \cup {None}]
    BY <2>1
  <2>3. pc' \in [Proc -> Label] /\ lease' \in [Test -> Slot \cup {None}]
    <3>1. CASE UNCHANGED <<lease, pc>>
      BY <3>1
    <3>2. CASE Goto(t, "running") /\ lease' \in [Test -> Slot \cup {None}]
      BY <3>2
    <3> QED
      BY <1>20, <3>1, <3>2 DEF MarkOne
  <2>4. UNCHANGED <<slot, flight, keylock, stored, wake, scan, setup>>
    BY <1>20 DEF MarkOne
  <2> QED
    BY <2>2, <2>3, <2>4
<1>21. ASSUME NEW t \in Test, TestExit(t) PROVE TypeOK'
  BY <1>21 DEF TestExit
<1>22. ASSUME NEW t \in Test, DropMarkers(t) PROVE TypeOK'
  BY <1>22 DEF DropMarkers
<1>23. ASSUME NEW t \in Test, DropSlots(t) PROVE TypeOK'
  BY <1>23 DEF DropSlots
<1>24. ASSUME NEW t \in Test, MarkBusy(t) PROVE TypeOK'
  BY <1>24 DEF MarkBusy
<1>25. ASSUME NEW p \in Proc, Ask(p) PROVE TypeOK'
  <2>1. PICK n \in Needs(p) : ask' = [ask EXCEPT ![p] = AtLeast(n, 1)]
    BY <1>25 DEF Ask
  <2>2. ask' \in [Proc -> 0..Pool]
    BY <2>1, NeedTypes
  <2>3. idx' \in [Proc -> 0..Pool]
    BY <1>25 DEF Ask, First
  <2> QED
    BY <1>25, <2>2, <2>3 DEF Ask
<1>26. ASSUME NEW p \in Proc, ScanOn(p) PROVE TypeOK'
  BY <1>26 DEF ScanOn
<1>27. ASSUME NEW p \in Proc, ScanFull(p) PROVE TypeOK'
  BY <1>27 DEF ScanFull, Ready, Forget
<1>28. ASSUME NEW p \in Proc, ScanShort(p) PROVE TypeOK'
  BY <1>28 DEF ScanShort
<1>29. ASSUME NEW p \in Proc, Snapshot(p) PROVE TypeOK'
  BY <1>29 DEF Snapshot, First
<1>30. ASSUME NEW p \in Proc, Park(p) PROVE TypeOK'
  BY <1>30 DEF Park
<1>31. ASSUME NEW p \in Proc, ScanStop(p) PROVE TypeOK'
  BY <1>31 DEF ScanStop, Without, Forget
<1>32. ASSUME NEW p \in Proc, Kill(p) PROVE TypeOK'
  BY <1>32 DEF Kill, Forget
<1>33. CASE UNCHANGED vars
  BY <1>33 DEF vars
<1>34. ASSUME NEW c \in Compile, ContendTimeout(c) PROVE TypeOK'
  BY <1>34 DEF ContendTimeout
<1>35. ASSUME NEW t \in Test, TookFree(t) PROVE TypeOK'
  BY <1>35 DEF TookFree, Forget
<1> QED
   BY Choices, <1>1, <1>2, <1>3, <1>4, <1>5, <1>6, <1>7, <1>8, <1>9, <1>10, <1>11, <1>12,
     <1>13, <1>14, <1>15, <1>16, <1>17, <1>18, <1>19, <1>20, <1>21, <1>22, <1>23, <1>24,
     <1>25, <1>26, <1>27, <1>28, <1>29, <1>30, <1>31, <1>32, <1>33, <1>34, <1>35
  DEF Next, Work, Lease, Acquire

\* Processes stay in their roles.
LEMMA PlacedStep ==
    ASSUME TypeOK, Placed, Sitting, [Next]_vars
    PROVE  Placed'
<1> USE Sorts, SetupKept, Quantities
<1> USE DEF TypeOK, Placed, Goto, Freed, locks, scan
<1>1. ASSUME NEW c \in Compile, Start(c) PROVE Placed'
  BY <1>1 DEF Start
<1>2. ASSUME NEW c \in Compile, Fly(c) PROVE Placed'
  BY <1>2 DEF Fly
<1>3. ASSUME NEW c \in Compile, Await(c) PROVE Placed'
  BY <1>3 DEF Await
<1>4. ASSUME NEW c \in Compile, AwaitFlight(c) PROVE Placed'
  BY <1>4 DEF AwaitFlight
<1>5. ASSUME NEW c \in Compile, DropPeek(c) PROVE Placed'
  BY <1>5 DEF DropPeek
<1>6. ASSUME NEW c \in Compile, Recheck(c) PROVE Placed'
  BY <1>6 DEF Recheck
<1>7. ASSUME NEW c \in Compile, Admit(c) PROVE Placed'
  BY <1>7 DEF Admit, Without
<1>8. ASSUME NEW c \in Compile, Pass(c) PROVE Placed'
  BY <1>8 DEF Pass
<1>9. ASSUME NEW c \in Compile, Take(c) PROVE Placed'
  BY <1>9 DEF Take
<1>10. ASSUME NEW c \in Compile, Contend(c) PROVE Placed'
  BY <1>10 DEF Contend
<1>11. ASSUME NEW c \in Compile, Built(c) PROVE Placed'
  BY <1>11 DEF Built
<1>12. ASSUME NEW c \in Compile, DropPermit(c) PROVE Placed'
  BY <1>12 DEF DropPermit
<1>13. ASSUME NEW c \in Compile, Notify(c) PROVE Placed'
  BY <1>13 DEF Notify
<1>14. ASSUME NEW c \in Compile, DropFlight(c) PROVE Placed'
  BY <1>14 DEF DropFlight
<1>15. ASSUME NEW c \in Compile, JoinError(c) PROVE Placed'
  BY <1>15 DEF JoinError
<1>16. ASSUME NEW c \in Compile, FlightTimeout(c) PROVE Placed'
  BY <1>16 DEF FlightTimeout
<1>17. ASSUME NEW c \in Compile, ClaimError(c) PROVE Placed'
  BY <1>17 DEF ClaimError
<1>18. ASSUME NEW t \in Test, StartTest(t) PROVE Placed'
  BY <1>18 DEF StartTest
<1>19. ASSUME NEW t \in Test, TakeFree(t) PROVE Placed'
  BY <1>19 DEF TakeFree
<1>20. ASSUME NEW t \in Test, MarkOne(t) PROVE Placed'
  <2>1. UNCHANGED pc \/ pc' = [pc EXCEPT ![t] = "running"]
    BY <1>20 DEF MarkOne
  <2>2. UNCHANGED <<idx, setup>>
    BY <1>20 DEF MarkOne
  <2>3. CASE UNCHANGED pc
    BY <2>2, <2>3
  <2>4. CASE pc' = [pc EXCEPT ![t] = "running"]
    BY <2>2, <2>4
  <2> QED
    BY <2>1, <2>3, <2>4
<1>21. ASSUME NEW t \in Test, TestExit(t) PROVE Placed'
  BY <1>21 DEF TestExit
<1>22. ASSUME NEW t \in Test, DropMarkers(t) PROVE Placed'
  BY <1>22 DEF DropMarkers
<1>23. ASSUME NEW t \in Test, DropSlots(t) PROVE Placed'
  BY <1>23 DEF DropSlots
<1>24. ASSUME NEW t \in Test, MarkBusy(t) PROVE Placed'
  BY <1>24 DEF MarkBusy
<1>25. ASSUME NEW p \in Proc, Ask(p) PROVE Placed'
  BY <1>25 DEF Ask, First
<1>26. ASSUME NEW p \in Proc, ScanOn(p) PROVE Placed'
  BY <1>26 DEF ScanOn
<1>27. ASSUME NEW p \in Proc, ScanFull(p) PROVE Placed'
  BY <1>27 DEF ScanFull, Ready, Forget
<1>28. ASSUME NEW p \in Proc, ScanShort(p) PROVE Placed'
  BY <1>28 DEF ScanShort
<1>29. ASSUME NEW p \in Proc, Snapshot(p) PROVE Placed'
  BY <1>29 DEF Snapshot, First
<1>30. ASSUME NEW p \in Proc, Park(p) PROVE Placed'
  BY <1>30 DEF Park
<1>31. ASSUME NEW p \in Proc, ScanStop(p) PROVE Placed'
  BY <1>31 DEF ScanStop, Without, Forget
<1>32. ASSUME NEW p \in Proc, Kill(p) PROVE Placed'
  BY <1>32 DEF Kill, Forget
<1>33. CASE UNCHANGED vars
  BY <1>33 DEF vars
<1>34. ASSUME NEW c \in Compile, ContendTimeout(c) PROVE Placed'
  BY <1>34 DEF ContendTimeout
<1>35. ASSUME NEW t \in Test, TookFree(t) PROVE Placed'
  BY <1>35 DEF TookFree, Forget
<1> QED
   BY Choices, <1>1, <1>2, <1>3, <1>4, <1>5, <1>6, <1>7, <1>8, <1>9, <1>10, <1>11, <1>12,
     <1>13, <1>14, <1>15, <1>16, <1>17, <1>18, <1>19, <1>20, <1>21, <1>22, <1>23, <1>24,
     <1>25, <1>26, <1>27, <1>28, <1>29, <1>30, <1>31, <1>32, <1>33, <1>34, <1>35
  DEF Next, Work, Lease, Acquire

\* A marker goes before its slot.
LEMMA BackedStep ==
    ASSUME TypeOK, Placed, Sitting, MarkerBacked, [Next]_vars
    PROVE  MarkerBacked'
<1> USE Sorts, SetupKept, Quantities
<1> USE DEF TypeOK, Placed, Sitting, MarkerBacked, Marked, Goto, Freed, locks, scan
<1>1. ASSUME NEW c \in Compile, Start(c) PROVE MarkerBacked'
  BY <1>1 DEF Start
<1>2. ASSUME NEW c \in Compile, Fly(c) PROVE MarkerBacked'
  BY <1>2 DEF Fly
<1>3. ASSUME NEW c \in Compile, Await(c) PROVE MarkerBacked'
  BY <1>3 DEF Await
<1>4. ASSUME NEW c \in Compile, AwaitFlight(c) PROVE MarkerBacked'
  BY <1>4 DEF AwaitFlight
<1>5. ASSUME NEW c \in Compile, DropPeek(c) PROVE MarkerBacked'
  BY <1>5 DEF DropPeek
<1>6. ASSUME NEW c \in Compile, Recheck(c) PROVE MarkerBacked'
  BY <1>6 DEF Recheck
<1>7. ASSUME NEW c \in Compile, Admit(c) PROVE MarkerBacked'
  BY <1>7 DEF Admit, Without
<1>8. ASSUME NEW c \in Compile, Pass(c) PROVE MarkerBacked'
  BY <1>8 DEF Pass
<1>9. ASSUME NEW c \in Compile, Take(c) PROVE MarkerBacked'
  BY <1>9 DEF Take
<1>10. ASSUME NEW c \in Compile, Contend(c) PROVE MarkerBacked'
  BY <1>10 DEF Contend
<1>11. ASSUME NEW c \in Compile, Built(c) PROVE MarkerBacked'
  BY <1>11 DEF Built
<1>12. ASSUME NEW c \in Compile, DropPermit(c) PROVE MarkerBacked'
  BY <1>12 DEF DropPermit
<1>13. ASSUME NEW c \in Compile, Notify(c) PROVE MarkerBacked'
  BY <1>13 DEF Notify
<1>14. ASSUME NEW c \in Compile, DropFlight(c) PROVE MarkerBacked'
  BY <1>14 DEF DropFlight
<1>15. ASSUME NEW c \in Compile, JoinError(c) PROVE MarkerBacked'
  BY <1>15 DEF JoinError
<1>16. ASSUME NEW c \in Compile, FlightTimeout(c) PROVE MarkerBacked'
  BY <1>16 DEF FlightTimeout
<1>17. ASSUME NEW c \in Compile, ClaimError(c) PROVE MarkerBacked'
  BY <1>17 DEF ClaimError
<1>18. ASSUME NEW t \in Test, StartTest(t) PROVE MarkerBacked'
  BY <1>18 DEF StartTest
<1>19. ASSUME NEW t \in Test, TakeFree(t) PROVE MarkerBacked'
  BY <1>19 DEF TakeFree
<1>20. ASSUME NEW t \in Test, MarkOne(t) PROVE MarkerBacked'
  BY <1>20 DEF MarkOne
<1>21. ASSUME NEW t \in Test, TestExit(t) PROVE MarkerBacked'
  BY <1>21 DEF TestExit
<1>22. ASSUME NEW t \in Test, DropMarkers(t) PROVE MarkerBacked'
  BY <1>22 DEF DropMarkers
<1>23. ASSUME NEW t \in Test, DropSlots(t) PROVE MarkerBacked'
  BY <1>23 DEF DropSlots
<1>24. ASSUME NEW t \in Test, MarkBusy(t) PROVE MarkerBacked'
  BY <1>24 DEF MarkBusy
<1>25. ASSUME NEW p \in Proc, Ask(p) PROVE MarkerBacked'
  BY <1>25 DEF Ask, First
<1>26. ASSUME NEW p \in Proc, ScanOn(p) PROVE MarkerBacked'
  BY <1>26 DEF ScanOn
<1>27. ASSUME NEW p \in Proc, ScanFull(p) PROVE MarkerBacked'
  BY <1>27 DEF ScanFull, Ready, Forget
<1>28. ASSUME NEW p \in Proc, ScanShort(p) PROVE MarkerBacked'
  BY <1>28 DEF ScanShort
<1>29. ASSUME NEW p \in Proc, Snapshot(p) PROVE MarkerBacked'
  BY <1>29 DEF Snapshot, First
<1>30. ASSUME NEW p \in Proc, Park(p) PROVE MarkerBacked'
  BY <1>30 DEF Park
<1>31. ASSUME NEW p \in Proc, ScanStop(p) PROVE MarkerBacked'
  BY <1>31 DEF ScanStop, Without, Forget
<1>32. ASSUME NEW p \in Proc, Kill(p) PROVE MarkerBacked'
  BY <1>32 DEF Kill, Forget
<1>33. CASE UNCHANGED vars
  BY <1>33 DEF vars
<1>34. ASSUME NEW c \in Compile, ContendTimeout(c) PROVE MarkerBacked'
  BY <1>34 DEF ContendTimeout
<1>35. ASSUME NEW t \in Test, TookFree(t) PROVE MarkerBacked'
  BY <1>35 DEF TookFree, Forget
<1> QED
   BY Choices, <1>1, <1>2, <1>3, <1>4, <1>5, <1>6, <1>7, <1>8, <1>9, <1>10, <1>11, <1>12,
     <1>13, <1>14, <1>15, <1>16, <1>17, <1>18, <1>19, <1>20, <1>21, <1>22, <1>23, <1>24,
     <1>25, <1>26, <1>27, <1>28, <1>29, <1>30, <1>31, <1>32, <1>33, <1>34, <1>35
  DEF Next, Work, Lease, Acquire

\* Slots and markers are held between acquisition and release.
LEMMA SittingStep ==
    ASSUME TypeOK, Placed, Sitting, MarkerBacked, [Next]_vars
    PROVE  Sitting'
<1> USE Sorts, SetupKept, Quantities
<1> USE DEF TypeOK, Placed, Sitting, MarkerBacked, Held, Marked, Goto, Freed, locks, scan
<1>1. ASSUME NEW c \in Compile, Start(c) PROVE Sitting'
  BY <1>1 DEF Start
<1>2. ASSUME NEW c \in Compile, Fly(c) PROVE Sitting'
  BY <1>2 DEF Fly
<1>3. ASSUME NEW c \in Compile, Await(c) PROVE Sitting'
  BY <1>3 DEF Await
<1>4. ASSUME NEW c \in Compile, AwaitFlight(c) PROVE Sitting'
  BY <1>4 DEF AwaitFlight
<1>5. ASSUME NEW c \in Compile, DropPeek(c) PROVE Sitting'
  BY <1>5 DEF DropPeek
<1>6. ASSUME NEW c \in Compile, Recheck(c) PROVE Sitting'
  BY <1>6 DEF Recheck
<1>7. ASSUME NEW c \in Compile, Admit(c) PROVE Sitting'
  BY <1>7 DEF Admit, Without
<1>8. ASSUME NEW c \in Compile, Pass(c) PROVE Sitting'
  <2>1. UNCHANGED <<slot, marker>>
    BY <1>8 DEF Pass
  <2>2. CASE Goto(c, "contend")
    BY <1>8, <2>1, <2>2 DEF Pass
  <2>3. CASE Goto(c, "release")
    BY <1>8, <2>1, <2>3 DEF Pass
  <2> QED
    BY <1>8, <2>2, <2>3 DEF Pass
<1>9. ASSUME NEW c \in Compile, Take(c) PROVE Sitting'
  BY <1>9 DEF Take
<1>10. ASSUME NEW c \in Compile, Contend(c) PROVE Sitting'
  BY <1>10 DEF Contend
<1>11. ASSUME NEW c \in Compile, Built(c) PROVE Sitting'
  BY <1>11 DEF Built
<1>12. ASSUME NEW c \in Compile, DropPermit(c) PROVE Sitting'
  BY <1>12 DEF DropPermit
<1>13. ASSUME NEW c \in Compile, Notify(c) PROVE Sitting'
  BY <1>13 DEF Notify
<1>14. ASSUME NEW c \in Compile, DropFlight(c) PROVE Sitting'
  BY <1>14 DEF DropFlight
<1>15. ASSUME NEW c \in Compile, JoinError(c) PROVE Sitting'
  BY <1>15 DEF JoinError
<1>16. ASSUME NEW c \in Compile, FlightTimeout(c) PROVE Sitting'
  BY <1>16 DEF FlightTimeout
<1>17. ASSUME NEW c \in Compile, ClaimError(c) PROVE Sitting'
  BY <1>17 DEF ClaimError
<1>18. ASSUME NEW t \in Test, StartTest(t) PROVE Sitting'
  <2>1. \A i \in Slot : slot[i] # t /\ marker[i] # t
    BY <1>18, NoSlot, NoMarker DEF StartTest
  <2>2. UNCHANGED <<slot, marker>>
    BY <1>18 DEF StartTest
  <2>3. pc' = [pc EXCEPT ![t] = "running"] \/ pc' = [pc EXCEPT ![t] = "ask"]
    BY <1>18 DEF StartTest
  <2>4. CASE pc' = [pc EXCEPT ![t] = "running"]
    BY <2>1, <2>2, <2>4
  <2>5. CASE pc' = [pc EXCEPT ![t] = "ask"]
    BY <2>1, <2>2, <2>5
  <2> QED
    BY <2>3, <2>4, <2>5
<1>19. ASSUME NEW t \in Test, TakeFree(t) PROVE Sitting'
  <2>1. pc[t] = "extra" /\ pc' = pc /\ UNCHANGED marker
    BY <1>19 DEF TakeFree
  <2>2. \A i \in Slot : 
          slot'[i] = slot[i] \/ (slot[i] = None /\ slot'[i] = t /\ i >= reserve_for)
    BY <1>19 DEF TakeFree, AtLeast
  <2>3. \A i \in Slot : marker[i] # t
    BY <2>1, NoMarker
  <2>4. \E i \in Slot : slot'[i] = t /\ marker'[i] # t
    <3>1. PICK i \in Slot : slot[i] = t
      BY <2>1
    <3>2. slot'[i] = t
      BY <2>2, <3>1
    <3> QED
      BY <2>1, <2>3, <3>2
  <2>5. ASSUME NEW i \in Slot
        PROVE  /\ slot'[i] # None =>
                    pc'[slot'[i]] \in {"scan", "rescan", "claim", "contend", "compile", "release",
                                       "extra", "mark", "running", "abandon", "exit"}
               /\ slot'[i] \in Test =>
                    i >= reserve_for /\ (pc'[slot'[i]] = "running" => marker'[i] = slot'[i])
    <3>1. CASE slot'[i] = t
      BY <2>1, <2>2, <3>1
    <3>2. CASE slot'[i] # t
      BY <2>1, <2>2, <3>2
    <3> QED
      BY <3>1, <3>2
  <2>6. ASSUME NEW i \in Slot, marker'[i] # None
        PROVE  pc'[marker'[i]] \in {"mark", "running", "abandon", "exit"}
    BY <2>1, <2>3, <2>6
  <2>7. ASSUME NEW d \in Test
        PROVE  /\ pc'[d] = "extra" => \E i \in Slot : slot'[i] = d
               /\ pc'[d] = "mark" => \E i \in Slot : slot'[i] = d /\ marker'[i] # d
    <3>1. CASE d = t
      BY <2>1, <2>4, <3>1
    <3>2. CASE d # t
      <4>1. \A i \in Slot : slot[i] = d => slot'[i] = d
        BY <2>2
      <4>2. pc'[d] = pc[d] /\ UNCHANGED marker
        BY <2>1, <3>2
      <4> QED
        BY <4>1, <4>2
    <3> QED
      BY <3>1, <3>2
  <2> QED
    BY <2>5, <2>6, <2>7
<1>20. ASSUME NEW t \in Test, MarkOne(t) PROVE Sitting'
  <2>1. pc[t] = "mark" /\ UNCHANGED slot
    BY <1>20 DEF MarkOne
  <2>2. PICK i \in Slot :
          /\ slot[i] = t /\ marker' = [marker EXCEPT ![i] = t]
          /\ \/ /\ \A j \in Slot : slot[j] = t /\ j # i => marker[j] = t
                /\ pc' = [pc EXCEPT ![t] = "running"]
             \/ /\ \E j \in Slot : slot[j] = t /\ j # i /\ marker[j] # t
                /\ UNCHANGED pc
    BY <1>20 DEF MarkOne
  <2>3. marker'[i] = t /\ \A j \in Slot \ {i} : marker'[j] = marker[j]
    BY <2>2
  <2>4. CASE pc' = [pc EXCEPT ![t] = "running"] /\ \A j \in Slot : slot[j] = t => marker'[j] = t
    BY <2>1, <2>2, <2>3, <2>4
  <2>5. CASE pc' = pc /\ \E j \in Slot : slot[j] = t /\ marker'[j] # t
    BY <2>1, <2>2, <2>3, <2>5
  <2> QED
    BY <2>2, <2>3, <2>4, <2>5
<1>21. ASSUME NEW t \in Test, TestExit(t) PROVE Sitting'
  BY <1>21 DEF TestExit
<1>22. ASSUME NEW t \in Test, DropMarkers(t) PROVE Sitting'
  BY <1>22 DEF DropMarkers
<1>23. ASSUME NEW t \in Test, DropSlots(t) PROVE Sitting'
  BY <1>23 DEF DropSlots
<1>24. ASSUME NEW t \in Test, MarkBusy(t) PROVE Sitting'
  BY <1>24 DEF MarkBusy
<1>25. ASSUME NEW p \in Proc, Ask(p) PROVE Sitting'
  BY <1>25 DEF Ask, First
<1>26. ASSUME NEW p \in Proc, ScanOn(p) PROVE Sitting'
  BY <1>26 DEF ScanOn
<1>27. ASSUME NEW p \in Proc, ScanFull(p) PROVE Sitting'
  BY <1>27 DEF ScanFull, Ready, Forget
<1>28. ASSUME NEW p \in Proc, ScanShort(p) PROVE Sitting'
  BY <1>28 DEF ScanShort
<1>29. ASSUME NEW p \in Proc, Snapshot(p) PROVE Sitting'
  BY <1>29 DEF Snapshot, First
<1>30. ASSUME NEW p \in Proc, Park(p) PROVE Sitting'
  BY <1>30 DEF Park
<1>31. ASSUME NEW p \in Proc, ScanStop(p) PROVE Sitting'
  BY <1>31 DEF ScanStop, Without, Forget
<1>32. ASSUME NEW p \in Proc, Kill(p) PROVE Sitting'
  BY <1>32 DEF Kill, Forget
<1>33. CASE UNCHANGED vars
  BY <1>33 DEF vars
<1>34. ASSUME NEW c \in Compile, ContendTimeout(c) PROVE Sitting'
  BY <1>34 DEF ContendTimeout
<1>35. ASSUME NEW t \in Test, TookFree(t) PROVE Sitting'
  <2>1. pc[t] = "extra" /\ pc' = [pc EXCEPT ![t] = "mark"] /\ UNCHANGED <<slot, marker>>
    BY <1>35 DEF TookFree
  <2>2. \A i \in Slot : marker[i] # t
    BY <2>1, NoMarker
  <2> QED
    BY <2>1, <2>2
<1> QED
   BY Choices, <1>1, <1>2, <1>3, <1>4, <1>5, <1>6, <1>7, <1>8, <1>9, <1>10, <1>11, <1>12,
     <1>13, <1>14, <1>15, <1>16, <1>17, <1>18, <1>19, <1>20, <1>21, <1>22, <1>23, <1>24,
     <1>25, <1>26, <1>27, <1>28, <1>29, <1>30, <1>31, <1>32, <1>33, <1>34, <1>35
  DEF Next, Work, Lease, Acquire

\* A permit lives inside its flight.
LEMMA FlightStep ==
    ASSUME TypeOK, Placed, Sitting, InFlight, [Next]_vars
    PROVE  InFlight'
<1> USE Sorts, SetupKept, Quantities
<1> USE DEF TypeOK, Placed, Sitting, InFlight, Goto, Freed, locks, scan
<1>1. ASSUME NEW c \in Compile, Start(c) PROVE InFlight'
  BY <1>1 DEF Start
<1>2. ASSUME NEW c \in Compile, Fly(c) PROVE InFlight'
  BY <1>2 DEF Fly
<1>3. ASSUME NEW c \in Compile, Await(c) PROVE InFlight'
  BY <1>3 DEF Await
<1>4. ASSUME NEW c \in Compile, AwaitFlight(c) PROVE InFlight'
  BY <1>4 DEF AwaitFlight
<1>5. ASSUME NEW c \in Compile, DropPeek(c) PROVE InFlight'
  <2>1. \A k \in Key : flight'[k] = IF flight[k] = c THEN None ELSE flight[k]
    BY <1>5 DEF DropPeek
  <2>2. \A i \in Slot : slot[i] # c
    BY <1>5, NoSlot DEF DropPeek
  <2>3. UNCHANGED slot /\ pc' = [pc EXCEPT ![c] = "recheck"]
    BY <1>5 DEF DropPeek
  <2> QED
    BY <2>1, <2>2, <2>3
<1>6. ASSUME NEW c \in Compile, Recheck(c) PROVE InFlight'
  BY <1>6 DEF Recheck
<1>7. ASSUME NEW c \in Compile, Admit(c) PROVE InFlight'
  BY <1>7 DEF Admit, Without
<1>8. ASSUME NEW c \in Compile, Pass(c) PROVE InFlight'
  BY <1>8 DEF Pass
<1>9. ASSUME NEW c \in Compile, Take(c) PROVE InFlight'
  BY <1>9 DEF Take
<1>10. ASSUME NEW c \in Compile, Contend(c) PROVE InFlight'
  BY <1>10 DEF Contend
<1>11. ASSUME NEW c \in Compile, Built(c) PROVE InFlight'
  BY <1>11 DEF Built
<1>12. ASSUME NEW c \in Compile, DropPermit(c) PROVE InFlight'
  BY <1>12 DEF DropPermit
<1>13. ASSUME NEW c \in Compile, Notify(c) PROVE InFlight'
  BY <1>13 DEF Notify
<1>14. ASSUME NEW c \in Compile, DropFlight(c) PROVE InFlight'
  <2>1. \A k \in Key : flight'[k] = IF flight[k] = c THEN None ELSE flight[k]
    BY <1>14 DEF DropFlight
  <2>2. \A i \in Slot : slot[i] # c
    BY <1>14, NoSlot DEF DropFlight
  <2>3. UNCHANGED slot /\ pc' = [pc EXCEPT ![c] = "done"]
    BY <1>14 DEF DropFlight
  <2> QED
    BY <2>1, <2>2, <2>3
<1>15. ASSUME NEW c \in Compile, JoinError(c) PROVE InFlight'
  BY <1>15 DEF JoinError
<1>16. ASSUME NEW c \in Compile, FlightTimeout(c) PROVE InFlight'
  BY <1>16 DEF FlightTimeout
<1>17. ASSUME NEW c \in Compile, ClaimError(c) PROVE InFlight'
  BY <1>17 DEF ClaimError
<1>18. ASSUME NEW t \in Test, StartTest(t) PROVE InFlight'
  BY <1>18 DEF StartTest
<1>19. ASSUME NEW t \in Test, TakeFree(t) PROVE InFlight'
  BY <1>19 DEF TakeFree
<1>20. ASSUME NEW t \in Test, MarkOne(t) PROVE InFlight'
  BY <1>20 DEF MarkOne
<1>21. ASSUME NEW t \in Test, TestExit(t) PROVE InFlight'
  BY <1>21 DEF TestExit
<1>22. ASSUME NEW t \in Test, DropMarkers(t) PROVE InFlight'
  BY <1>22 DEF DropMarkers
<1>23. ASSUME NEW t \in Test, DropSlots(t) PROVE InFlight'
  BY <1>23 DEF DropSlots
<1>24. ASSUME NEW t \in Test, MarkBusy(t) PROVE InFlight'
  BY <1>24 DEF MarkBusy
<1>25. ASSUME NEW p \in Proc, Ask(p) PROVE InFlight'
  BY <1>25 DEF Ask, First
<1>26. ASSUME NEW p \in Proc, ScanOn(p) PROVE InFlight'
  <2>1. UNCHANGED <<flight, pc>>
    BY <1>26 DEF ScanOn
  <2>2. \A i \in Slot : slot'[i] = slot[i] \/ slot'[i] = p
    BY <1>26 DEF ScanOn
  <2>3. p \in Compile /\ KeyOf[p] # None => flight[KeyOf[p]] = p
    BY <1>26 DEF ScanOn
  <2>4. ASSUME NEW i \in Slot, slot'[i] \in Compile, KeyOf[slot'[i]] # None
        PROVE  flight[KeyOf[slot'[i]]] = slot'[i]
    <3>1. CASE slot'[i] = slot[i]
      BY <2>4, <3>1
    <3>2. CASE slot'[i] = p
      BY <2>3, <2>4, <3>2
    <3> QED
      BY <2>2, <3>1, <3>2
  <2> QED
    BY <2>1, <2>4
<1>27. ASSUME NEW p \in Proc, ScanFull(p) PROVE InFlight'
  BY <1>27 DEF ScanFull, Ready, Forget
<1>28. ASSUME NEW p \in Proc, ScanShort(p) PROVE InFlight'
  BY <1>28 DEF ScanShort
<1>29. ASSUME NEW p \in Proc, Snapshot(p) PROVE InFlight'
  BY <1>29 DEF Snapshot, First
<1>30. ASSUME NEW p \in Proc, Park(p) PROVE InFlight'
  BY <1>30 DEF Park
<1>31. ASSUME NEW p \in Proc, ScanStop(p) PROVE InFlight'
  BY <1>31 DEF ScanStop, Without, Forget
<1>32. ASSUME NEW p \in Proc, Kill(p) PROVE InFlight'
  BY <1>32 DEF Kill, Forget
<1>33. CASE UNCHANGED vars
  BY <1>33 DEF vars
<1>34. ASSUME NEW c \in Compile, ContendTimeout(c) PROVE InFlight'
  BY <1>34 DEF ContendTimeout
<1>35. ASSUME NEW t \in Test, TookFree(t) PROVE InFlight'
  BY <1>35 DEF TookFree, Forget
<1> HIDE DEF InFlight
<1> QED
   BY Choices, <1>1, <1>2, <1>3, <1>4, <1>5, <1>6, <1>7, <1>8, <1>9, <1>10, <1>11, <1>12,
     <1>13, <1>14, <1>15, <1>16, <1>17, <1>18, <1>19, <1>20, <1>21, <1>22, <1>23, <1>24,
     <1>25, <1>26, <1>27, <1>28, <1>29, <1>30, <1>31, <1>32, <1>33, <1>34, <1>35
  DEF Next, Work, Lease, Acquire

\* Pointwise, a running test has its slots marked.
LEMMA LeaseFromSitting ==
    ASSUME TypeOK, Sitting, MarkerBacked
    PROVE  LeaseCounted
  BY Sorts DEF TypeOK, Sitting, MarkerBacked, LeaseCounted, Held, Marked

-----------------------------------------------------------------------------
(* The theorems.                                                           *)

LEMMA SchedulerInitially == Init => SchedulerInv
<1> SUFFICES ASSUME Init PROVE SchedulerInv
  OBVIOUS
<1>1. Placed
  <2>1. setup \in Setups /\ pc = [p \in Proc |-> "idle"]
    BY DEF Init
  <2> QED
    BY <2>1, Sorts DEF Placed
<1>2. TypeOK
  BY <1>1, Quantities DEF Init, TypeOK, Label
<1>3. Sitting /\ MarkerBacked /\ InFlight
  BY Sorts DEF Init, Sitting, MarkerBacked, InFlight
<1> QED
  BY <1>1, <1>2, <1>3, LeaseFromSitting DEF SchedulerInv

LEMMA SchedulerStep ==
    ASSUME SchedulerInv, [Next]_vars
    PROVE  SchedulerInv'
<1> USE DEF SchedulerInv
<1>1. TypeOK' /\ Placed'
  BY TypeStep, PlacedStep
<1>2. Sitting' /\ MarkerBacked'
  BY SittingStep, BackedStep
<1>3. InFlight'
  BY FlightStep
<1>4. LeaseCounted'
  <2>1. TypeOK /\ Sitting /\ MarkerBacked => LeaseCounted
    BY LeaseFromSitting
  <2> QED
    BY <1>1, <1>2, <2>1, LeaseFromSitting, PTL
<1> QED
  BY <1>1, <1>2, <1>3, <1>4

\* Whatever the pool, the weights and the order of scans, leases, failures and
\* kills: a marker is backed by its slot, a running test has all its slots
\* counted and none of the reserve, nobody asks for more than the pool, and a
\* keyed wrapper holds slots only inside its flight.
THEOREM SchedulerSafe == Spec => []SchedulerInv
<1>1. Init => SchedulerInv
  BY SchedulerInitially
<1>2. SchedulerInv /\ [Next]_vars => SchedulerInv'
  BY SchedulerStep
<1> QED
  BY <1>1, <1>2, PTL DEF Spec

LEMMA AdmissionFromFlight ==
    ASSUME SchedulerInv
    PROVE  OneAdmittedPerKey
  BY DEF SchedulerInv, InFlight, OneAdmittedPerKey, Held

\* Two wrappers of one key never sit on slots at the same time.
THEOREM SchedulerOneAdmitted == Spec => []OneAdmittedPerKey
<1>1. SchedulerInv => OneAdmittedPerKey
  BY AdmissionFromFlight
<1> QED
  BY <1>1, SchedulerSafe, PTL
=============================================================================
