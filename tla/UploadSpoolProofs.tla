-------------------------- MODULE UploadSpoolProofs --------------------------
(***************************************************************************)
(* Proofs about UploadSpool for any number of keys, wrappers, handlers and *)
(* workers, any bound of the spool and every combination of troubles.      *)
(***************************************************************************)
EXTENDS UploadSpool, FiniteSetTheorems, TLAPS

-----------------------------------------------------------------------------
(* Processes.                                                              *)

\* Every process is of one kind.
LEMMA Kinds ==
    /\ \A p \in Wrapper : p \in Publisher /\ p \notin Handler
    /\ \A p \in Handler : p \in Publisher /\ p \notin Wrapper
    /\ \A p \in Publisher :
          (p \in Wrapper \/ p \in Handler) /\ p \in Proc /\ p \notin Worker /\ p # Gc /\ p # None
    /\ \A u \in Worker :
          u \in Proc /\ u \notin Publisher /\ u \notin Wrapper /\ u \notin Handler /\ u # Gc
    /\ Gc \in Proc /\ Gc \notin Publisher /\ Gc \notin Worker /\ Gc # None
    /\ Gc \notin Wrapper /\ Gc \notin Handler
  BY SpoolAssumption DEF Publisher, Proc

\* A publisher stops looking, checking or flushing: its intent is on disk, or
\* it gives up.
Leave(p) ==
    /\ pc[p] \in {"look", "check", "sync"}
    /\ \E l \in {"send", "done", "enqueue", "idle"} :
          /\ Goto(p, l)
          /\ p \in Wrapper => l \in {"send", "done"}
          /\ p \in Handler => l \in {"enqueue", "idle"}
    /\ tx' \in [Handler -> BOOLEAN]
    /\ durable' \in {durable, intents}
    /\ \/ owed' = owed
       \/ /\ owed' = owed \cup {key[p]} /\ durable' = intents
          /\ pc[p] # "sync" => key[p] \in intents
    /\ gcLock' = IF pc[p] = "look" THEN gcLock ELSE None
    /\ UNCHANGED <<entry, intents, litter, pins, remote, daemon, inbox, pending, queue, key,
                   past, setup>>

\* It finds no intent and waits for the lock.
Queue(p) ==
    /\ pc[p] = "look"
    /\ Goto(p, "lock")
    /\ UNCHANGED <<entry, spool, gcVars, remote, server, key, owed, past, setup>>

\* It finds the entry, and room for one more file.
Fill(p) ==
    /\ pc[p] = "check" /\ Contains(key[p]) /\ HasCapacity
    /\ Goto(p, "write")
    /\ UNCHANGED <<entry, spool, gcVars, remote, server, key, owed, past, setup>>

\* What is left of a step once its answer is known.
LEMMA Answered ==
    ASSUME TypeOK, NEW p \in Publisher, Reuse(p) \/ (Failed(p) /\ UNCHANGED durable)
    PROVE  /\ \E l \in {"send", "done", "enqueue", "idle"} :
                /\ Goto(p, l)
                /\ p \in Wrapper => l \in {"send", "done"}
                /\ p \in Handler => l \in {"enqueue", "idle"}
           /\ tx' \in [Handler -> BOOLEAN]
           /\ durable' \in {durable, intents}
           /\ owed' = owed \/ (owed' = owed \cup {key[p]} /\ durable' = intents)
<1>1. tx \in [Handler -> BOOLEAN]
  BY DEF TypeOK
<1>2. CASE Failed(p) /\ durable' \in {durable, intents}
  BY <1>1, <1>2, Kinds DEF Failed
<1>3. CASE Persisted(p) /\ durable' = intents
  <2>1. CASE p \in Wrapper
    BY <1>1, <1>3, <2>1, Kinds DEF Persisted
  <2>2. CASE p \in Handler
    <3>1. owed' = owed
      BY <1>3, <2>2, Kinds DEF Persisted
    <3>2. tx' \in [Handler -> BOOLEAN]
      BY <1>1, <1>3, <2>2, Kinds DEF Persisted
    <3>3. Goto(p, "enqueue") \/ Goto(p, "idle")
      BY <1>3, <2>2, Kinds DEF Persisted
    <3> QED
      BY <1>3, <2>2, <3>1, <3>2, <3>3, Kinds
  <2> QED
    BY <2>1, <2>2, Kinds
<1> QED
  BY <1>2, <1>3 DEF Reuse

LEMMA PersistCases ==
    ASSUME TypeOK, NEW p \in Publisher, Persist(p)
    PROVE  Leave(p) \/ Queue(p) \/ Lock(p) \/ Fill(p) \/ Publish(p)
<1>1. CASE Look(p)
  <2>1. CASE key[p] \in intents
    <3>1. Reuse(p) /\ pc[p] = "look" /\ UNCHANGED gcLock
      BY <1>1, <2>1 DEF Look, gcVars
    <3>2. UNCHANGED <<entry, intents, litter, pins, remote, daemon, inbox, pending, queue, key,
                      past, setup>>
      BY <1>1 DEF Look, gcVars
    <3> QED
      BY <2>1, <3>1, <3>2, Answered DEF Leave
  <2>2. CASE key[p] \notin intents
    BY <1>1, <2>2 DEF Look, Queue, spool, server, gcVars
  <2> QED
    BY <2>1, <2>2
<1>2. CASE Check(p)
  <2>1. CASE key[p] \in intents
    <3>1. Reuse(p) /\ pc[p] = "check" /\ gcLock' = None
      BY <1>2, <2>1 DEF Check
    <3>2. UNCHANGED <<entry, intents, litter, pins, remote, daemon, inbox, pending, queue, key,
                      past, setup>>
      BY <1>2 DEF Check
    <3> QED
      BY <2>1, <3>1, <3>2, Answered DEF Leave
  <2>2. CASE key[p] \notin intents /\ ~ (Contains(key[p]) /\ HasCapacity)
    <3>1. Failed(p) /\ UNCHANGED durable /\ pc[p] = "check" /\ gcLock' = None
      BY <1>2, <2>2 DEF Check
    <3>2. UNCHANGED <<entry, intents, litter, pins, remote, daemon, inbox, pending, queue, key,
                      past, setup>>
      BY <1>2 DEF Check
    <3>3. owed' = owed
      BY <3>1 DEF Failed
    <3> QED
      BY <3>1, <3>2, <3>3, Answered DEF Leave
  <2>3. CASE key[p] \notin intents /\ Contains(key[p]) /\ HasCapacity
    BY <1>2, <2>3 DEF Check, Fill, spool, server, gcVars
  <2> QED
    BY <2>1, <2>2, <2>3
<1>3. CASE Sync(p)
  <2>1. Reuse(p) /\ pc[p] = "sync" /\ gcLock' = None
    BY <1>3 DEF Sync
  <2>2. UNCHANGED <<entry, intents, litter, pins, remote, daemon, inbox, pending, queue, key,
                    past, setup>>
    BY <1>3 DEF Sync
  <2> QED
    BY <2>1, <2>2, Answered DEF Leave
<1> QED
  BY <1>1, <1>2, <1>3 DEF Persist

-----------------------------------------------------------------------------
(* Types.                                                                  *)

\* At most one publisher writes a temporary file: the one that has the lock.
LEMMA Writers ==
    ASSUME Locked
    PROVE  /\ Writing \subseteq {gcLock}
           /\ \A S : IsFiniteSet(S \cap Writing) /\ Cardinality(S \cap Writing) \in Nat
<1>1. Writing \subseteq {gcLock}
  BY DEF Locked, Writing
<1>2. ASSUME NEW S PROVE IsFiniteSet(S \cap Writing) /\ Cardinality(S \cap Writing) \in Nat
  <2>1. IsFiniteSet({gcLock}) /\ S \cap Writing \in SUBSET {gcLock}
    BY <1>1, FS_Singleton
  <2>2. IsFiniteSet(S \cap Writing)
    BY <2>1, FS_Subset
  <2> QED
    BY <2>2, FS_CardinalityType
<1> QED
  BY <1>1, <1>2

LEMMA TypeInitially == Init => TypeOK /\ Roles
<1> SUFFICES ASSUME Init PROVE TypeOK /\ Roles
  OBVIOUS
<1>1. tx \in [Handler -> BOOLEAN]
  BY DEF Init
<1>2. litter \in Nat /\ stops \in Nat /\ queue \in [Key -> Nat]
  BY DEF Init
<1>3. key \in [Proc -> Key \cup {None}] /\ pc \in [Proc -> {"idle"}]
  BY DEF Init
<1>4. Roles
  BY <1>3, Kinds DEF Init, Roles
<1> QED
  BY <1>1, <1>2, <1>3, <1>4 DEF Init, TypeOK

\* Processes that die release the lock and leave their files.
LEMMA DieTypes ==
    ASSUME TypeOK, Locked, NEW procs, Die(procs)
    PROVE  /\ litter' \in Nat
           /\ gcLock' \in Publisher \cup {Gc, None}
           /\ pc' \in [Proc -> {"idle", "look", "lock", "check", "write", "sync", "send", "done",
                                "enqueue", "try", "head", "put", "unlink", "retire", "flush",
                                "pins", "evict"}]
<1>1. litter' \in Nat
  <2>1. litter \in Nat /\ Cardinality(procs \cap Writing) \in Nat
    BY Writers DEF TypeOK
  <2> QED
    BY <2>1 DEF Die
<1>2. gcLock' \in Publisher \cup {Gc, None}
  BY DEF Die, TypeOK
<1> QED
  BY <1>1, <1>2 DEF Die, TypeOK

\* Every step keeps the types.
LEMMA TypeStep ==
    ASSUME TypeOK, Roles, Locked, [Next]_vars
    PROVE  TypeOK'
<1> USE Kinds, SpoolAssumption
<1> USE DEF TypeOK, Roles, Goto, spool, gcVars, server, past
<1>1. ASSUME NEW w \in Wrapper, NEW k \in Key, Compile(w, k) PROVE TypeOK'
  BY <1>1 DEF Compile
<1>2. ASSUME NEW p \in Publisher, Leave(p) PROVE TypeOK'
  BY <1>2 DEF Leave
<1>3. ASSUME NEW p \in Publisher, Queue(p) PROVE TypeOK'
  BY <1>3 DEF Queue
<1>4. ASSUME NEW p \in Publisher, Lock(p) PROVE TypeOK'
  BY <1>4 DEF Lock
<1>5. ASSUME NEW p \in Publisher, Fill(p) PROVE TypeOK'
  BY <1>5 DEF Fill
<1>6. ASSUME NEW p \in Publisher, Publish(p) PROVE TypeOK'
  BY <1>6 DEF Publish
<1>7. ASSUME NEW w \in Wrapper, Send(w) PROVE TypeOK'
  BY <1>7 DEF Send
<1>8. ASSUME NEW w \in Wrapper, GiveUp(w) PROVE TypeOK'
  BY <1>8 DEF GiveUp
<1>9. ASSUME NEW w \in Wrapper, Killed(w) PROVE TypeOK'
  <2>1. UNCHANGED <<entry, intents, durable, pins, remote, daemon, inbox, pending, queue, tx,
                    key, owed, past, setup>>
    BY <1>9 DEF Killed
  <2>2. Die({w})
    BY <1>9 DEF Killed
  <2> QED
    BY <2>1, <2>2, DieTypes
<1>10. ASSUME NEW h \in Handler, NEW k \in Key, Deliver(h, k) PROVE TypeOK'
  BY <1>10 DEF Deliver
<1>11. ASSUME NEW h \in Handler, Enqueue(h) PROVE TypeOK'
  BY <1>11 DEF Enqueue
<1>12. ASSUME NEW u \in Worker, NEW k \in Key, Take(u, k) PROVE TypeOK'
  BY <1>12 DEF Take
<1>13. ASSUME NEW u \in Worker, Attempt(u) PROVE TypeOK'
  BY <1>13 DEF Attempt
<1>14. ASSUME NEW u \in Worker, Refuse(u) PROVE TypeOK'
  BY <1>14 DEF Refuse
<1>15. ASSUME NEW u \in Worker, Head(u) PROVE TypeOK'
  BY <1>15 DEF Head
<1>16. ASSUME NEW u \in Worker, Put(u) PROVE TypeOK'
  BY <1>16 DEF Put
<1>17. ASSUME NEW u \in Worker, Unlink(u) PROVE TypeOK'
  BY <1>17 DEF Unlink
<1>18. ASSUME NEW u \in Worker, Retire(u) PROVE TypeOK'
  BY <1>18 DEF Retire
<1>19. ASSUME NEW u \in Worker, Flush(u) PROVE TypeOK'
  BY <1>19 DEF Flush
<1>20. ASSUME NEW u \in Worker, Retry(u) PROVE TypeOK'
  BY <1>20 DEF Retry
<1>21. CASE Bind
  BY <1>21 DEF Bind
<1>22. CASE Scan
  BY <1>22 DEF Scan
<1>33. CASE ScanFails
  BY <1>33 DEF ScanFails
<1>23. CASE Serve
  BY <1>23 DEF Serve
<1>24. CASE Drain
  BY <1>24 DEF Drain
<1>25. CASE Exit
  <2>1. /\ UNCHANGED <<entry, intents, durable, pins, remote, key, tx, owed, undone, missed,
                       setup>>
        /\ inbox' = {} /\ pending' = {} /\ daemon' = "down"
        /\ queue' \in [Key -> Nat] /\ stops' \in Nat
    BY <1>25 DEF Exit
  <2>2. Die(Handler \cup Worker)
    BY <1>25 DEF Exit
  <2> QED
    BY <2>1, <2>2, DieTypes
<1>26. CASE LosePower
  <2>1. /\ UNCHANGED <<pins, remote, key, tx, owed, missed, setup>>
        /\ entry' \subseteq Key /\ undone' \subseteq Key
        /\ intents' \subseteq Key /\ durable' \subseteq Key
        /\ inbox' = {} /\ pending' = {} /\ daemon' = "down"
        /\ queue' \in [Key -> Nat] /\ stops' \in Nat
    BY <1>26 DEF LosePower
  <2>2. Die(Proc)
    BY <1>26 DEF LosePower
  <2> QED
    BY <2>1, <2>2, DieTypes
<1>27. CASE SweepStart
  BY <1>27 DEF SweepStart
<1>28. CASE SweepPins
  BY <1>28 DEF SweepPins
<1>29. CASE SweepEnd
  BY <1>29 DEF SweepEnd
<1>30. ASSUME NEW k \in Key, Evict(k) PROVE TypeOK'
  BY <1>30 DEF Evict
<1>31. ASSUME NEW k \in Key, RemoveEntry(k) PROVE TypeOK'
  BY <1>31 DEF RemoveEntry
<1>32. CASE UNCHANGED vars
  BY <1>32 DEF vars
<1> QED
   BY PersistCases, <1>1, <1>2, <1>3, <1>4, <1>5, <1>6, <1>7, <1>8, <1>9, <1>10, <1>11, <1>12,
     <1>13, <1>14, <1>15, <1>16, <1>17, <1>18, <1>19, <1>20, <1>21, <1>22, <1>23, <1>24,
     <1>25, <1>26, <1>27, <1>28, <1>29, <1>30, <1>31, <1>32, <1>33
  DEF Next, Upload, Sweep

\* Processes stay in their roles and their keys are keys.
LEMMA RolesStep ==
    ASSUME TypeOK, Roles, Jobs, [Next]_vars
    PROVE  Roles'
<1> USE Kinds, SpoolAssumption
<1> USE DEF TypeOK, Roles, Goto, spool, gcVars, server, past
<1>1. ASSUME NEW w \in Wrapper, NEW k \in Key, Compile(w, k) PROVE Roles'
  BY <1>1 DEF Compile
<1>2. ASSUME NEW p \in Publisher, Leave(p) PROVE Roles'
  BY <1>2 DEF Leave
<1>3. ASSUME NEW p \in Publisher, Queue(p) PROVE Roles'
  BY <1>3 DEF Queue
<1>4. ASSUME NEW p \in Publisher, Lock(p) PROVE Roles'
  BY <1>4 DEF Lock
<1>5. ASSUME NEW p \in Publisher, Fill(p) PROVE Roles'
  BY <1>5 DEF Fill
<1>6. ASSUME NEW p \in Publisher, Publish(p) PROVE Roles'
  BY <1>6 DEF Publish
<1>7. ASSUME NEW w \in Wrapper, Send(w) PROVE Roles'
  BY <1>7 DEF Send
<1>8. ASSUME NEW w \in Wrapper, GiveUp(w) PROVE Roles'
  BY <1>8 DEF GiveUp
<1>9. ASSUME NEW w \in Wrapper, Killed(w) PROVE Roles'
  BY <1>9 DEF Killed, Die
<1>10. ASSUME NEW h \in Handler, NEW k \in Key, Deliver(h, k) PROVE Roles'
  BY <1>10 DEF Deliver
<1>11. ASSUME NEW h \in Handler, Enqueue(h) PROVE Roles'
  BY <1>11 DEF Enqueue
<1>12. ASSUME NEW u \in Worker, NEW k \in Key, Take(u, k) PROVE Roles'
  BY <1>12 DEF Take
<1>13. ASSUME NEW u \in Worker, Attempt(u) PROVE Roles'
  BY <1>13 DEF Attempt
<1>14. ASSUME NEW u \in Worker, Refuse(u) PROVE Roles'
  BY <1>14 DEF Refuse
<1>15. ASSUME NEW u \in Worker, Head(u) PROVE Roles'
  BY <1>15 DEF Head
<1>16. ASSUME NEW u \in Worker, Put(u) PROVE Roles'
  BY <1>16 DEF Put
<1>17. ASSUME NEW u \in Worker, Unlink(u) PROVE Roles'
  BY <1>17 DEF Unlink
<1>18. ASSUME NEW u \in Worker, Retire(u) PROVE Roles'
  BY <1>18 DEF Retire
<1>19. ASSUME NEW u \in Worker, Flush(u) PROVE Roles'
  BY <1>19 DEF Flush
<1>20. ASSUME NEW u \in Worker, Retry(u) PROVE Roles'
  BY <1>20 DEF Retry
<1>21. CASE Bind
  BY <1>21 DEF Bind
<1>22. CASE Scan
  BY <1>22 DEF Scan
<1>33. CASE ScanFails
  BY <1>33 DEF ScanFails
<1>23. CASE Serve
  BY <1>23 DEF Serve
<1>24. CASE Drain
  BY <1>24 DEF Drain
<1>25. CASE Exit
  BY <1>25 DEF Exit, Die
<1>26. CASE LosePower
  BY <1>26 DEF LosePower, Die
<1>27. CASE SweepStart
  BY <1>27 DEF SweepStart
<1>28. CASE SweepPins
  BY <1>28 DEF SweepPins
<1>29. CASE SweepEnd
  BY <1>29 DEF SweepEnd
<1>30. ASSUME NEW k \in Key, Evict(k) PROVE Roles'
  BY <1>30 DEF Evict
<1>31. ASSUME NEW k \in Key, RemoveEntry(k) PROVE Roles'
  BY <1>31 DEF RemoveEntry
<1>32. CASE UNCHANGED vars
  BY <1>32 DEF vars
<1> QED
   BY PersistCases, <1>1, <1>2, <1>3, <1>4, <1>5, <1>6, <1>7, <1>8, <1>9, <1>10, <1>11, <1>12,
     <1>13, <1>14, <1>15, <1>16, <1>17, <1>18, <1>19, <1>20, <1>21, <1>22, <1>23, <1>24,
     <1>25, <1>26, <1>27, <1>28, <1>29, <1>30, <1>31, <1>32, <1>33
  DEF Next, Upload, Sweep

\* The lock is taken when it is free and kept to the end.
LEMMA LockedStep ==
    ASSUME TypeOK, Roles, Locked, [Next]_vars
    PROVE  Locked'
<1> USE Kinds, SpoolAssumption
<1> USE DEF TypeOK, Roles, Locked, Goto, spool, gcVars, server, past
<1>1. ASSUME NEW w \in Wrapper, NEW k \in Key, Compile(w, k) PROVE Locked'
  BY <1>1 DEF Compile
<1>2. ASSUME NEW p \in Publisher, Leave(p) PROVE Locked'
  BY <1>2 DEF Leave
<1>3. ASSUME NEW p \in Publisher, Queue(p) PROVE Locked'
  BY <1>3 DEF Queue
<1>4. ASSUME NEW p \in Publisher, Lock(p) PROVE Locked'
  BY <1>4 DEF Lock
<1>5. ASSUME NEW p \in Publisher, Fill(p) PROVE Locked'
  BY <1>5 DEF Fill
<1>6. ASSUME NEW p \in Publisher, Publish(p) PROVE Locked'
  BY <1>6 DEF Publish
<1>7. ASSUME NEW w \in Wrapper, Send(w) PROVE Locked'
  BY <1>7 DEF Send
<1>8. ASSUME NEW w \in Wrapper, GiveUp(w) PROVE Locked'
  BY <1>8 DEF GiveUp
<1>9. ASSUME NEW w \in Wrapper, Killed(w) PROVE Locked'
  BY <1>9 DEF Killed, Die
<1>10. ASSUME NEW h \in Handler, NEW k \in Key, Deliver(h, k) PROVE Locked'
  BY <1>10 DEF Deliver
<1>11. ASSUME NEW h \in Handler, Enqueue(h) PROVE Locked'
  BY <1>11 DEF Enqueue
<1>12. ASSUME NEW u \in Worker, NEW k \in Key, Take(u, k) PROVE Locked'
  BY <1>12 DEF Take
<1>13. ASSUME NEW u \in Worker, Attempt(u) PROVE Locked'
  BY <1>13 DEF Attempt
<1>14. ASSUME NEW u \in Worker, Refuse(u) PROVE Locked'
  BY <1>14 DEF Refuse
<1>15. ASSUME NEW u \in Worker, Head(u) PROVE Locked'
  BY <1>15 DEF Head
<1>16. ASSUME NEW u \in Worker, Put(u) PROVE Locked'
  BY <1>16 DEF Put
<1>17. ASSUME NEW u \in Worker, Unlink(u) PROVE Locked'
  BY <1>17 DEF Unlink
<1>18. ASSUME NEW u \in Worker, Retire(u) PROVE Locked'
  BY <1>18 DEF Retire
<1>19. ASSUME NEW u \in Worker, Flush(u) PROVE Locked'
  BY <1>19 DEF Flush
<1>20. ASSUME NEW u \in Worker, Retry(u) PROVE Locked'
  BY <1>20 DEF Retry
<1>21. CASE Bind
  BY <1>21 DEF Bind
<1>22. CASE Scan
  BY <1>22 DEF Scan
<1>33. CASE ScanFails
  BY <1>33 DEF ScanFails
<1>23. CASE Serve
  BY <1>23 DEF Serve
<1>24. CASE Drain
  BY <1>24 DEF Drain
<1>25. CASE Exit
  BY <1>25 DEF Exit, Die
<1>26. CASE LosePower
  BY <1>26 DEF LosePower, Die
<1>27. CASE SweepStart
  BY <1>27 DEF SweepStart
<1>28. CASE SweepPins
  BY <1>28 DEF SweepPins
<1>29. CASE SweepEnd
  BY <1>29 DEF SweepEnd
<1>30. ASSUME NEW k \in Key, Evict(k) PROVE Locked'
  BY <1>30 DEF Evict
<1>31. ASSUME NEW k \in Key, RemoveEntry(k) PROVE Locked'
  BY <1>31 DEF RemoveEntry
<1>32. CASE UNCHANGED vars
  BY <1>32 DEF vars
<1> QED
   BY PersistCases, <1>1, <1>2, <1>3, <1>4, <1>5, <1>6, <1>7, <1>8, <1>9, <1>10, <1>11, <1>12,
     <1>13, <1>14, <1>15, <1>16, <1>17, <1>18, <1>19, <1>20, <1>21, <1>22, <1>23, <1>24,
     <1>25, <1>26, <1>27, <1>28, <1>29, <1>30, <1>31, <1>32, <1>33
  DEF Next, Upload, Sweep

-----------------------------------------------------------------------------
(* Jobs, intents and entries.                                              *)

\* A key has one job while it is pending.
LEMMA JobsStep ==
    ASSUME TypeOK, Roles, Jobs, [Next]_vars
    PROVE  Jobs'
<1> USE Kinds, SpoolAssumption
<1> USE DEF TypeOK, Roles, Jobs, Job, Queued, Active, Goto, spool, gcVars, server, past
<1>1. ASSUME NEW w \in Wrapper, NEW k \in Key, Compile(w, k) PROVE Jobs'
  BY <1>1 DEF Compile
<1>2. ASSUME NEW p \in Publisher, Leave(p) PROVE Jobs'
  BY <1>2 DEF Leave
<1>3. ASSUME NEW p \in Publisher, Queue(p) PROVE Jobs'
  BY <1>3 DEF Queue
<1>4. ASSUME NEW p \in Publisher, Lock(p) PROVE Jobs'
  BY <1>4 DEF Lock
<1>5. ASSUME NEW p \in Publisher, Fill(p) PROVE Jobs'
  BY <1>5 DEF Fill
<1>6. ASSUME NEW p \in Publisher, Publish(p) PROVE Jobs'
  BY <1>6 DEF Publish
<1>7. ASSUME NEW w \in Wrapper, Send(w) PROVE Jobs'
  BY <1>7 DEF Send
<1>8. ASSUME NEW w \in Wrapper, GiveUp(w) PROVE Jobs'
  BY <1>8 DEF GiveUp
<1>9. ASSUME NEW w \in Wrapper, Killed(w) PROVE Jobs'
  BY <1>9 DEF Killed, Die
<1>10. ASSUME NEW h \in Handler, NEW k \in Key, Deliver(h, k) PROVE Jobs'
  BY <1>10 DEF Deliver
<1>11. ASSUME NEW h \in Handler, Enqueue(h) PROVE Jobs'
  BY <1>11 DEF Enqueue
<1>12. ASSUME NEW u \in Worker, NEW k \in Key, Take(u, k) PROVE Jobs'
  BY <1>12 DEF Take
<1>13. ASSUME NEW u \in Worker, Attempt(u) PROVE Jobs'
  BY <1>13 DEF Attempt
<1>14. ASSUME NEW u \in Worker, Refuse(u) PROVE Jobs'
  BY <1>14 DEF Refuse
<1>15. ASSUME NEW u \in Worker, Head(u) PROVE Jobs'
  BY <1>15 DEF Head
<1>16. ASSUME NEW u \in Worker, Put(u) PROVE Jobs'
  BY <1>16 DEF Put
<1>17. ASSUME NEW u \in Worker, Unlink(u) PROVE Jobs'
  BY <1>17 DEF Unlink
<1>18. ASSUME NEW u \in Worker, Retire(u) PROVE Jobs'
  BY <1>18 DEF Retire
<1>19. ASSUME NEW u \in Worker, Flush(u) PROVE Jobs'
  BY <1>19 DEF Flush
<1>20. ASSUME NEW u \in Worker, Retry(u) PROVE Jobs'
  BY <1>20 DEF Retry
<1>21. CASE Bind
  BY <1>21 DEF Bind
<1>22. CASE Scan
  BY <1>22 DEF Scan
<1>33. CASE ScanFails
  BY <1>33 DEF ScanFails
<1>23. CASE Serve
  BY <1>23 DEF Serve
<1>24. CASE Drain
  BY <1>24 DEF Drain
<1>25. CASE Exit
  BY <1>25 DEF Exit, Die
<1>26. CASE LosePower
  BY <1>26 DEF LosePower, Die
<1>27. CASE SweepStart
  BY <1>27 DEF SweepStart
<1>28. CASE SweepPins
  BY <1>28 DEF SweepPins
<1>29. CASE SweepEnd
  BY <1>29 DEF SweepEnd
<1>30. ASSUME NEW k \in Key, Evict(k) PROVE Jobs'
  BY <1>30 DEF Evict
<1>31. ASSUME NEW k \in Key, RemoveEntry(k) PROVE Jobs'
  BY <1>31 DEF RemoveEntry
<1>32. CASE UNCHANGED vars
  BY <1>32 DEF vars
<1> QED
   BY PersistCases, <1>1, <1>2, <1>3, <1>4, <1>5, <1>6, <1>7, <1>8, <1>9, <1>10, <1>11, <1>12,
     <1>13, <1>14, <1>15, <1>16, <1>17, <1>18, <1>19, <1>20, <1>21, <1>22, <1>23, <1>24,
     <1>25, <1>26, <1>27, <1>28, <1>29, <1>30, <1>31, <1>32, <1>33
  DEF Next, Upload, Sweep

\* An intent goes when its upload is over.
LEMMA RetiredStep ==
    ASSUME TypeOK, Roles, Jobs, Retired, IntentHasEntry, [Next]_vars
    PROVE  Retired'
<1> USE Kinds, SpoolAssumption
<1> USE DEF TypeOK, Roles, Jobs, Job, Active, Retired, Settled, Refusals, Removals,
            IntentHasEntry, Goto, spool, gcVars, server, past
<1>1. ASSUME NEW w \in Wrapper, NEW k \in Key, Compile(w, k) PROVE Retired'
  BY <1>1 DEF Compile
<1>2. ASSUME NEW p \in Publisher, Leave(p) PROVE Retired'
  BY <1>2 DEF Leave
<1>3. ASSUME NEW p \in Publisher, Queue(p) PROVE Retired'
  BY <1>3 DEF Queue
<1>4. ASSUME NEW p \in Publisher, Lock(p) PROVE Retired'
  BY <1>4 DEF Lock
<1>5. ASSUME NEW p \in Publisher, Fill(p) PROVE Retired'
  BY <1>5 DEF Fill
<1>6. ASSUME NEW p \in Publisher, Publish(p) PROVE Retired'
  BY <1>6 DEF Publish
<1>7. ASSUME NEW w \in Wrapper, Send(w) PROVE Retired'
  BY <1>7 DEF Send
<1>8. ASSUME NEW w \in Wrapper, GiveUp(w) PROVE Retired'
  BY <1>8 DEF GiveUp
<1>9. ASSUME NEW w \in Wrapper, Killed(w) PROVE Retired'
  BY <1>9 DEF Killed, Die
<1>10. ASSUME NEW h \in Handler, NEW k \in Key, Deliver(h, k) PROVE Retired'
  BY <1>10 DEF Deliver
<1>11. ASSUME NEW h \in Handler, Enqueue(h) PROVE Retired'
  BY <1>11 DEF Enqueue
<1>12. ASSUME NEW u \in Worker, NEW k \in Key, Take(u, k) PROVE Retired'
  BY <1>12 DEF Take
<1>13. ASSUME NEW u \in Worker, Attempt(u) PROVE Retired'
  BY <1>13 DEF Attempt
<1>14. ASSUME NEW u \in Worker, Refuse(u) PROVE Retired'
  BY <1>14 DEF Refuse
<1>15. ASSUME NEW u \in Worker, Head(u) PROVE Retired'
  BY <1>15 DEF Head
<1>16. ASSUME NEW u \in Worker, Put(u) PROVE Retired'
  BY <1>16 DEF Put
<1>17. ASSUME NEW u \in Worker, Unlink(u) PROVE Retired'
  BY <1>17 DEF Unlink
<1>18. ASSUME NEW u \in Worker, Retire(u) PROVE Retired'
  BY <1>18 DEF Retire
<1>19. ASSUME NEW u \in Worker, Flush(u) PROVE Retired'
  BY <1>19 DEF Flush
<1>20. ASSUME NEW u \in Worker, Retry(u) PROVE Retired'
  BY <1>20 DEF Retry
<1>21. CASE Bind
  BY <1>21 DEF Bind
<1>22. CASE Scan
  BY <1>22 DEF Scan
<1>33. CASE ScanFails
  BY <1>33 DEF ScanFails
<1>23. CASE Serve
  BY <1>23 DEF Serve
<1>24. CASE Drain
  BY <1>24 DEF Drain
<1>25. CASE Exit
  BY <1>25 DEF Exit, Die
<1>26. CASE LosePower
  BY <1>26 DEF LosePower, Die
<1>27. CASE SweepStart
  BY <1>27 DEF SweepStart
<1>28. CASE SweepPins
  BY <1>28 DEF SweepPins
<1>29. CASE SweepEnd
  BY <1>29 DEF SweepEnd
<1>30. ASSUME NEW k \in Key, Evict(k) PROVE Retired'
  BY <1>30 DEF Evict
<1>31. ASSUME NEW k \in Key, RemoveEntry(k) PROVE Retired'
  BY <1>31 DEF RemoveEntry
<1>32. CASE UNCHANGED vars
  BY <1>32 DEF vars
<1> QED
   BY PersistCases, <1>1, <1>2, <1>3, <1>4, <1>5, <1>6, <1>7, <1>8, <1>9, <1>10, <1>11, <1>12,
     <1>13, <1>14, <1>15, <1>16, <1>17, <1>18, <1>19, <1>20, <1>21, <1>22, <1>23, <1>24,
     <1>25, <1>26, <1>27, <1>28, <1>29, <1>30, <1>31, <1>32, <1>33
  DEF Next, Upload, Sweep

\* A recorded upload is over or on disk.
LEMMA NotLostStep ==
    ASSUME TypeOK, Roles, Jobs, Retired, NotLost, [Next]_vars
    PROVE  NotLost'
<1> USE Kinds, SpoolAssumption
<1> USE DEF TypeOK, Roles, Jobs, Job, Active, Retired, NotLost, Settled, Refusals, Removals,
            Goto, spool, gcVars, server, past
<1>1. ASSUME NEW w \in Wrapper, NEW k \in Key, Compile(w, k) PROVE NotLost'
  BY <1>1 DEF Compile
<1>2. ASSUME NEW p \in Publisher, Leave(p) PROVE NotLost'
  BY <1>2 DEF Leave
<1>3. ASSUME NEW p \in Publisher, Queue(p) PROVE NotLost'
  BY <1>3 DEF Queue
<1>4. ASSUME NEW p \in Publisher, Lock(p) PROVE NotLost'
  BY <1>4 DEF Lock
<1>5. ASSUME NEW p \in Publisher, Fill(p) PROVE NotLost'
  BY <1>5 DEF Fill
<1>6. ASSUME NEW p \in Publisher, Publish(p) PROVE NotLost'
  BY <1>6 DEF Publish
<1>7. ASSUME NEW w \in Wrapper, Send(w) PROVE NotLost'
  BY <1>7 DEF Send
<1>8. ASSUME NEW w \in Wrapper, GiveUp(w) PROVE NotLost'
  BY <1>8 DEF GiveUp
<1>9. ASSUME NEW w \in Wrapper, Killed(w) PROVE NotLost'
  BY <1>9 DEF Killed, Die
<1>10. ASSUME NEW h \in Handler, NEW k \in Key, Deliver(h, k) PROVE NotLost'
  BY <1>10 DEF Deliver
<1>11. ASSUME NEW h \in Handler, Enqueue(h) PROVE NotLost'
  BY <1>11 DEF Enqueue
<1>12. ASSUME NEW u \in Worker, NEW k \in Key, Take(u, k) PROVE NotLost'
  BY <1>12 DEF Take
<1>13. ASSUME NEW u \in Worker, Attempt(u) PROVE NotLost'
  BY <1>13 DEF Attempt
<1>14. ASSUME NEW u \in Worker, Refuse(u) PROVE NotLost'
  BY <1>14 DEF Refuse
<1>15. ASSUME NEW u \in Worker, Head(u) PROVE NotLost'
  BY <1>15 DEF Head
<1>16. ASSUME NEW u \in Worker, Put(u) PROVE NotLost'
  BY <1>16 DEF Put
<1>17. ASSUME NEW u \in Worker, Unlink(u) PROVE NotLost'
  BY <1>17 DEF Unlink
<1>18. ASSUME NEW u \in Worker, Retire(u) PROVE NotLost'
  BY <1>18 DEF Retire
<1>19. ASSUME NEW u \in Worker, Flush(u) PROVE NotLost'
  BY <1>19 DEF Flush
<1>20. ASSUME NEW u \in Worker, Retry(u) PROVE NotLost'
  BY <1>20 DEF Retry
<1>21. CASE Bind
  BY <1>21 DEF Bind
<1>22. CASE Scan
  BY <1>22 DEF Scan
<1>33. CASE ScanFails
  BY <1>33 DEF ScanFails
<1>23. CASE Serve
  BY <1>23 DEF Serve
<1>24. CASE Drain
  BY <1>24 DEF Drain
<1>25. CASE Exit
  BY <1>25 DEF Exit, Die
<1>26. CASE LosePower
  BY <1>26 DEF LosePower, Die
<1>27. CASE SweepStart
  BY <1>27 DEF SweepStart
<1>28. CASE SweepPins
  BY <1>28 DEF SweepPins
<1>29. CASE SweepEnd
  BY <1>29 DEF SweepEnd
<1>30. ASSUME NEW k \in Key, Evict(k) PROVE NotLost'
  BY <1>30 DEF Evict
<1>31. ASSUME NEW k \in Key, RemoveEntry(k) PROVE NotLost'
  BY <1>31 DEF RemoveEntry
<1>32. CASE UNCHANGED vars
  BY <1>32 DEF vars
<1> QED
   BY PersistCases, <1>1, <1>2, <1>3, <1>4, <1>5, <1>6, <1>7, <1>8, <1>9, <1>10, <1>11, <1>12,
     <1>13, <1>14, <1>15, <1>16, <1>17, <1>18, <1>19, <1>20, <1>21, <1>22, <1>23, <1>24,
     <1>25, <1>26, <1>27, <1>28, <1>29, <1>30, <1>31, <1>32, <1>33
  DEF Next, Upload, Sweep

\* Publication and sweep do not meet.
LEMMA SparedStep ==
    ASSUME TypeOK, Roles, Locked, Spared, [Next]_vars
    PROVE  Spared'
<1> USE Kinds, SpoolAssumption
<1> USE DEF TypeOK, Roles, Locked, Spared, Contains, Removals, Goto, spool, gcVars, server, past
<1>1. ASSUME NEW w \in Wrapper, NEW k \in Key, Compile(w, k) PROVE Spared'
  BY <1>1 DEF Compile
<1>2. ASSUME NEW p \in Publisher, Leave(p) PROVE Spared'
  BY <1>2 DEF Leave
<1>3. ASSUME NEW p \in Publisher, Queue(p) PROVE Spared'
  BY <1>3 DEF Queue
<1>4. ASSUME NEW p \in Publisher, Lock(p) PROVE Spared'
  BY <1>4 DEF Lock
<1>5. ASSUME NEW p \in Publisher, Fill(p) PROVE Spared'
  BY <1>5 DEF Fill
<1>6. ASSUME NEW p \in Publisher, Publish(p) PROVE Spared'
  BY <1>6 DEF Publish
<1>7. ASSUME NEW w \in Wrapper, Send(w) PROVE Spared'
  BY <1>7 DEF Send
<1>8. ASSUME NEW w \in Wrapper, GiveUp(w) PROVE Spared'
  BY <1>8 DEF GiveUp
<1>9. ASSUME NEW w \in Wrapper, Killed(w) PROVE Spared'
  BY <1>9 DEF Killed, Die
<1>10. ASSUME NEW h \in Handler, NEW k \in Key, Deliver(h, k) PROVE Spared'
  BY <1>10 DEF Deliver
<1>11. ASSUME NEW h \in Handler, Enqueue(h) PROVE Spared'
  BY <1>11 DEF Enqueue
<1>12. ASSUME NEW u \in Worker, NEW k \in Key, Take(u, k) PROVE Spared'
  BY <1>12 DEF Take
<1>13. ASSUME NEW u \in Worker, Attempt(u) PROVE Spared'
  BY <1>13 DEF Attempt
<1>14. ASSUME NEW u \in Worker, Refuse(u) PROVE Spared'
  BY <1>14 DEF Refuse
<1>15. ASSUME NEW u \in Worker, Head(u) PROVE Spared'
  BY <1>15 DEF Head
<1>16. ASSUME NEW u \in Worker, Put(u) PROVE Spared'
  BY <1>16 DEF Put
<1>17. ASSUME NEW u \in Worker, Unlink(u) PROVE Spared'
  BY <1>17 DEF Unlink
<1>18. ASSUME NEW u \in Worker, Retire(u) PROVE Spared'
  BY <1>18 DEF Retire
<1>19. ASSUME NEW u \in Worker, Flush(u) PROVE Spared'
  BY <1>19 DEF Flush
<1>20. ASSUME NEW u \in Worker, Retry(u) PROVE Spared'
  BY <1>20 DEF Retry
<1>21. CASE Bind
  BY <1>21 DEF Bind
<1>22. CASE Scan
  BY <1>22 DEF Scan
<1>33. CASE ScanFails
  BY <1>33 DEF ScanFails
<1>23. CASE Serve
  BY <1>23 DEF Serve
<1>24. CASE Drain
  BY <1>24 DEF Drain
<1>25. CASE Exit
  BY <1>25 DEF Exit, Die
<1>26. CASE LosePower
  BY <1>26 DEF LosePower, Die
<1>27. CASE SweepStart
  BY <1>27 DEF SweepStart
<1>28. CASE SweepPins
  BY <1>28 DEF SweepPins
<1>29. CASE SweepEnd
  BY <1>29 DEF SweepEnd
<1>30. ASSUME NEW k \in Key, Evict(k) PROVE Spared'
  BY <1>30 DEF Evict
<1>31. ASSUME NEW k \in Key, RemoveEntry(k) PROVE Spared'
  BY <1>31 DEF RemoveEntry
<1>32. CASE UNCHANGED vars
  BY <1>32 DEF vars
<1> QED
   BY PersistCases, <1>1, <1>2, <1>3, <1>4, <1>5, <1>6, <1>7, <1>8, <1>9, <1>10, <1>11, <1>12,
     <1>13, <1>14, <1>15, <1>16, <1>17, <1>18, <1>19, <1>20, <1>21, <1>22, <1>23, <1>24,
     <1>25, <1>26, <1>27, <1>28, <1>29, <1>30, <1>31, <1>32, <1>33
  DEF Next, Upload, Sweep

\* Only a power loss brings an intent back, or takes its entry.
LEMMA IntentStep ==
    ASSUME TypeOK, Roles, Retired, Spared, IntentHasEntry, [Next]_vars
    PROVE  IntentHasEntry'
<1> USE Kinds, SpoolAssumption
<1> USE DEF TypeOK, Retired, Spared, IntentHasEntry, Settled, Refusals, Removals, PowerLoss,
            Goto, spool, gcVars, server, past
<1>1. ASSUME NEW w \in Wrapper, NEW k \in Key, Compile(w, k) PROVE IntentHasEntry'
  BY <1>1 DEF Compile
<1>2. ASSUME NEW p \in Publisher, Leave(p) PROVE IntentHasEntry'
  BY <1>2 DEF Leave
<1>3. ASSUME NEW p \in Publisher, Queue(p) PROVE IntentHasEntry'
  BY <1>3 DEF Queue
<1>4. ASSUME NEW p \in Publisher, Lock(p) PROVE IntentHasEntry'
  BY <1>4 DEF Lock
<1>5. ASSUME NEW p \in Publisher, Fill(p) PROVE IntentHasEntry'
  BY <1>5 DEF Fill
<1>6. ASSUME NEW p \in Publisher, Publish(p) PROVE IntentHasEntry'
  BY <1>6 DEF Publish
<1>7. ASSUME NEW w \in Wrapper, Send(w) PROVE IntentHasEntry'
  BY <1>7 DEF Send
<1>8. ASSUME NEW w \in Wrapper, GiveUp(w) PROVE IntentHasEntry'
  BY <1>8 DEF GiveUp
<1>9. ASSUME NEW w \in Wrapper, Killed(w) PROVE IntentHasEntry'
  BY <1>9 DEF Killed, Die
<1>10. ASSUME NEW h \in Handler, NEW k \in Key, Deliver(h, k) PROVE IntentHasEntry'
  BY <1>10 DEF Deliver
<1>11. ASSUME NEW h \in Handler, Enqueue(h) PROVE IntentHasEntry'
  BY <1>11 DEF Enqueue
<1>12. ASSUME NEW u \in Worker, NEW k \in Key, Take(u, k) PROVE IntentHasEntry'
  BY <1>12 DEF Take
<1>13. ASSUME NEW u \in Worker, Attempt(u) PROVE IntentHasEntry'
  BY <1>13 DEF Attempt
<1>14. ASSUME NEW u \in Worker, Refuse(u) PROVE IntentHasEntry'
  BY <1>14 DEF Refuse
<1>15. ASSUME NEW u \in Worker, Head(u) PROVE IntentHasEntry'
  BY <1>15 DEF Head
<1>16. ASSUME NEW u \in Worker, Put(u) PROVE IntentHasEntry'
  BY <1>16 DEF Put
<1>17. ASSUME NEW u \in Worker, Unlink(u) PROVE IntentHasEntry'
  BY <1>17 DEF Unlink
<1>18. ASSUME NEW u \in Worker, Retire(u) PROVE IntentHasEntry'
  BY <1>18 DEF Retire
<1>19. ASSUME NEW u \in Worker, Flush(u) PROVE IntentHasEntry'
  BY <1>19 DEF Flush
<1>20. ASSUME NEW u \in Worker, Retry(u) PROVE IntentHasEntry'
  BY <1>20 DEF Retry
<1>21. CASE Bind
  BY <1>21 DEF Bind
<1>22. CASE Scan
  BY <1>22 DEF Scan
<1>33. CASE ScanFails
  BY <1>33 DEF ScanFails
<1>23. CASE Serve
  BY <1>23 DEF Serve
<1>24. CASE Drain
  BY <1>24 DEF Drain
<1>25. CASE Exit
  BY <1>25 DEF Exit, Die
<1>26. CASE LosePower
  BY <1>26 DEF LosePower, Die
<1>27. CASE SweepStart
  BY <1>27 DEF SweepStart
<1>28. CASE SweepPins
  BY <1>28 DEF SweepPins
<1>29. CASE SweepEnd
  BY <1>29 DEF SweepEnd
<1>30. ASSUME NEW k \in Key, Evict(k) PROVE IntentHasEntry'
  BY <1>30 DEF Evict
<1>31. ASSUME NEW k \in Key, RemoveEntry(k) PROVE IntentHasEntry'
  BY <1>31 DEF RemoveEntry
<1>32. CASE UNCHANGED vars
  BY <1>32 DEF vars
<1> QED
   BY PersistCases, <1>1, <1>2, <1>3, <1>4, <1>5, <1>6, <1>7, <1>8, <1>9, <1>10, <1>11, <1>12,
     <1>13, <1>14, <1>15, <1>16, <1>17, <1>18, <1>19, <1>20, <1>21, <1>22, <1>23, <1>24,
     <1>25, <1>26, <1>27, <1>28, <1>29, <1>30, <1>31, <1>32, <1>33
  DEF Next, Upload, Sweep

-----------------------------------------------------------------------------
(* The bound of the spool.                                                 *)

\* The parts of the count are numbers.
LEMMA FileCounts ==
    ASSUME TypeOK, Roles, Locked, SpoolBounded
    PROVE  /\ litter \in Nat /\ MaxJobs \in Nat
           /\ Cardinality(intents) \in Nat /\ Cardinality(Writing) \in Nat
           /\ IsFiniteSet(intents) /\ IsFiniteSet(durable) /\ IsFiniteSet(Writing)
<1>1. IsFiniteSet(intents) /\ IsFiniteSet(durable)
  BY DEF SpoolBounded
<1>2. Proc \cap Writing = Writing
  BY DEF Writing, Publisher, Proc
<1>3. MaxJobs \in Nat
  BY SpoolAssumption DEF Roles, MaxJobs
<1>4. litter \in Nat
  BY DEF TypeOK
<1> QED
  BY <1>1, <1>2, <1>3, <1>4, FS_CardinalityType, Writers

\* A step that adds no file keeps the bound.
LEMMA NoNewFile ==
    ASSUME TypeOK, Roles, Locked, SpoolBounded, UNCHANGED <<setup, litter>>,
           intents' \subseteq intents, durable' \in {durable, intents, intents'},
           Writing' = Writing
    PROVE  SpoolBounded'
<1>1. IsFiniteSet(intents') /\ Cardinality(intents') <= Cardinality(intents)
  BY FileCounts, FS_Subset
<1>2. Cardinality(intents') \in Nat
  BY <1>1, FS_CardinalityType
<1>3. IsFiniteSet(durable')
  BY <1>1, FileCounts
<1>4. Files' <= Files
  BY <1>1, <1>2, FileCounts DEF Files
<1>5. Files \in Nat /\ Files' \in Nat
  BY <1>2, FileCounts DEF Files
<1> QED
  BY <1>1, <1>3, <1>4, <1>5, FileCounts DEF SpoolBounded, PowerLoss, MaxJobs

\* The files of publishers that die stay as litter.
LEMMA DieFiles ==
    ASSUME TypeOK, Roles, Locked, SpoolBounded, NEW procs, Die(procs),
           UNCHANGED <<setup, intents, durable>>
    PROVE  SpoolBounded'
<1>1. Writing' = Writing \ procs
  BY Kinds DEF Die, Writing, TypeOK
<1>2. litter' = litter + Cardinality(procs \cap Writing)
  BY DEF Die
<1>3. CASE procs \cap Writing = {}
  <2>1. Writing' = Writing
    BY <1>1, <1>3
  <2>2. litter' = litter
    BY <1>2, <1>3, FS_EmptySet, FileCounts
  <2> QED
    BY <2>1, <2>2, NoNewFile
<1>4. CASE procs \cap Writing # {}
  <2>1. Writing' = {} /\ procs \cap Writing = Writing
    BY <1>1, <1>4, Writers
  <2>2. Cardinality(Writing') = 0
    BY <2>1, FS_EmptySet
  <2>3. litter' = litter + Cardinality(Writing)
    BY <1>2, <2>1
  <2>4. Files' = Files
    BY <2>2, <2>3, FileCounts DEF Files
  <2> QED
    BY <2>4 DEF SpoolBounded, PowerLoss, MaxJobs
<1> QED
  BY <1>3, <1>4

\* No step takes the spool past its bound.
LEMMA BoundedStep ==
    ASSUME TypeOK, Roles, Locked, SpoolBounded, [Next]_vars
    PROVE  SpoolBounded'
<1> USE Kinds, SpoolAssumption
<1> USE DEF TypeOK, Roles, Goto, spool, gcVars, server, past
<1>1. ASSUME NEW w \in Wrapper, NEW k \in Key, Compile(w, k) PROVE SpoolBounded'
  <2>1. /\ UNCHANGED <<setup, litter>> /\ intents' \subseteq intents
        /\ durable' \in {durable, intents, intents'}
    BY <1>1 DEF Compile
  <2>2. Writing' = Writing
    BY <1>1 DEF Compile, Writing
  <2> QED
    BY <2>1, <2>2, NoNewFile
<1>2. ASSUME NEW p \in Publisher, Leave(p) PROVE SpoolBounded'
  <2>1. /\ UNCHANGED <<setup, litter>> /\ intents' \subseteq intents
        /\ durable' \in {durable, intents, intents'}
    BY <1>2 DEF Leave
  <2>2. Writing' = Writing
    BY <1>2 DEF Leave, Writing
  <2> QED
    BY <2>1, <2>2, NoNewFile
<1>3. ASSUME NEW p \in Publisher, Queue(p) PROVE SpoolBounded'
  <2>1. /\ UNCHANGED <<setup, litter>> /\ intents' \subseteq intents
        /\ durable' \in {durable, intents, intents'}
    BY <1>3 DEF Queue
  <2>2. Writing' = Writing
    BY <1>3 DEF Queue, Writing
  <2> QED
    BY <2>1, <2>2, NoNewFile
<1>4. ASSUME NEW p \in Publisher, Lock(p) PROVE SpoolBounded'
  <2>1. /\ UNCHANGED <<setup, litter>> /\ intents' \subseteq intents
        /\ durable' \in {durable, intents, intents'}
    BY <1>4 DEF Lock
  <2>2. Writing' = Writing
    BY <1>4 DEF Lock, Writing
  <2> QED
    BY <2>1, <2>2, NoNewFile
<1>5. ASSUME NEW p \in Publisher, Fill(p) PROVE SpoolBounded'
  <2>1. UNCHANGED <<setup, intents, durable, litter>> /\ Files < MaxJobs
    BY <1>5 DEF Fill, HasCapacity
  <2>2. Writing' = Writing \cup {p} /\ p \notin Writing
    BY <1>5 DEF Fill, Writing
  <2>3. IsFiniteSet(Writing) => Cardinality(Writing') = Cardinality(Writing) + 1
    BY <2>2, FS_AddElement
  <2>4. Files' = Files + 1 /\ Files \in Nat
    BY <2>1, <2>3, FileCounts DEF Files
  <2> QED
    BY <2>1, <2>4, FileCounts DEF SpoolBounded, MaxJobs
<1>6. ASSUME NEW p \in Publisher, Publish(p) PROVE SpoolBounded'
  <2>1. UNCHANGED <<setup, durable, litter>> /\ intents' = intents \cup {key[p]}
    BY <1>6 DEF Publish
  <2>2. Writing' = Writing \ {p} /\ p \in Writing
    BY <1>6 DEF Publish, Writing
  <2>3. Cardinality(Writing') = Cardinality(Writing) - 1 /\ IsFiniteSet(Writing')
    BY <2>2, FileCounts, FS_RemoveElement
  <2>4. /\ IsFiniteSet(intents')
        /\ Cardinality(intents') \in {Cardinality(intents), Cardinality(intents) + 1}
    BY <2>1, FileCounts, FS_AddElement
  <2>5. Cardinality(Writing') \in Nat
    BY <2>3, FS_CardinalityType
  <2>6. Files' <= Files /\ Files' \in Nat /\ Files \in Nat
    BY <2>1, <2>3, <2>4, <2>5, FileCounts DEF Files
  <2> QED
    BY <2>1, <2>4, <2>6, FileCounts DEF SpoolBounded, PowerLoss, MaxJobs
<1>7. ASSUME NEW w \in Wrapper, Send(w) PROVE SpoolBounded'
  <2>1. /\ UNCHANGED <<setup, litter>> /\ intents' \subseteq intents
        /\ durable' \in {durable, intents, intents'}
    BY <1>7 DEF Send
  <2>2. Writing' = Writing
    BY <1>7 DEF Send, Writing
  <2> QED
    BY <2>1, <2>2, NoNewFile
<1>8. ASSUME NEW w \in Wrapper, GiveUp(w) PROVE SpoolBounded'
  <2>1. /\ UNCHANGED <<setup, litter>> /\ intents' \subseteq intents
        /\ durable' \in {durable, intents, intents'}
    BY <1>8 DEF GiveUp
  <2>2. Writing' = Writing
    BY <1>8 DEF GiveUp, Writing
  <2> QED
    BY <2>1, <2>2, NoNewFile
<1>9. ASSUME NEW w \in Wrapper, Killed(w) PROVE SpoolBounded'
  BY <1>9, DieFiles DEF Killed
<1>10. ASSUME NEW h \in Handler, NEW k \in Key, Deliver(h, k) PROVE SpoolBounded'
  <2>1. /\ UNCHANGED <<setup, litter>> /\ intents' \subseteq intents
        /\ durable' \in {durable, intents, intents'}
    BY <1>10 DEF Deliver
  <2>2. Writing' = Writing
    BY <1>10 DEF Deliver, Writing
  <2> QED
    BY <2>1, <2>2, NoNewFile
<1>11. ASSUME NEW h \in Handler, Enqueue(h) PROVE SpoolBounded'
  <2>1. /\ UNCHANGED <<setup, litter>> /\ intents' \subseteq intents
        /\ durable' \in {durable, intents, intents'}
    BY <1>11 DEF Enqueue
  <2>2. Writing' = Writing
    BY <1>11 DEF Enqueue, Writing
  <2> QED
    BY <2>1, <2>2, NoNewFile
<1>12. ASSUME NEW u \in Worker, NEW k \in Key, Take(u, k) PROVE SpoolBounded'
  <2>1. /\ UNCHANGED <<setup, litter>> /\ intents' \subseteq intents
        /\ durable' \in {durable, intents, intents'}
    BY <1>12 DEF Take
  <2>2. Writing' = Writing
    BY <1>12 DEF Take, Writing
  <2> QED
    BY <2>1, <2>2, NoNewFile
<1>13. ASSUME NEW u \in Worker, Attempt(u) PROVE SpoolBounded'
  <2>1. /\ UNCHANGED <<setup, litter>> /\ intents' \subseteq intents
        /\ durable' \in {durable, intents, intents'}
    BY <1>13 DEF Attempt
  <2>2. Writing' = Writing
    BY <1>13 DEF Attempt, Writing
  <2> QED
    BY <2>1, <2>2, NoNewFile
<1>14. ASSUME NEW u \in Worker, Refuse(u) PROVE SpoolBounded'
  <2>1. /\ UNCHANGED <<setup, litter>> /\ intents' \subseteq intents
        /\ durable' \in {durable, intents, intents'}
    BY <1>14 DEF Refuse
  <2>2. Writing' = Writing
    BY <1>14 DEF Refuse, Writing
  <2> QED
    BY <2>1, <2>2, NoNewFile
<1>15. ASSUME NEW u \in Worker, Head(u) PROVE SpoolBounded'
  <2>1. /\ UNCHANGED <<setup, litter>> /\ intents' \subseteq intents
        /\ durable' \in {durable, intents, intents'}
    BY <1>15 DEF Head
  <2>2. Writing' = Writing
    BY <1>15 DEF Head, Writing
  <2> QED
    BY <2>1, <2>2, NoNewFile
<1>16. ASSUME NEW u \in Worker, Put(u) PROVE SpoolBounded'
  <2>1. /\ UNCHANGED <<setup, litter>> /\ intents' \subseteq intents
        /\ durable' \in {durable, intents, intents'}
    BY <1>16 DEF Put
  <2>2. Writing' = Writing
    BY <1>16 DEF Put, Writing
  <2> QED
    BY <2>1, <2>2, NoNewFile
<1>17. ASSUME NEW u \in Worker, Unlink(u) PROVE SpoolBounded'
  <2>1. /\ UNCHANGED <<setup, litter>> /\ intents' \subseteq intents
        /\ durable' \in {durable, intents, intents'}
    BY <1>17 DEF Unlink
  <2>2. Writing' = Writing
    BY <1>17 DEF Unlink, Writing
  <2> QED
    BY <2>1, <2>2, NoNewFile
<1>18. ASSUME NEW u \in Worker, Retire(u) PROVE SpoolBounded'
  <2>1. /\ UNCHANGED <<setup, litter>> /\ intents' \subseteq intents
        /\ durable' \in {durable, intents, intents'}
    BY <1>18 DEF Retire
  <2>2. Writing' = Writing
    BY <1>18 DEF Retire, Writing
  <2> QED
    BY <2>1, <2>2, NoNewFile
<1>19. ASSUME NEW u \in Worker, Flush(u) PROVE SpoolBounded'
  <2>1. /\ UNCHANGED <<setup, litter>> /\ intents' \subseteq intents
        /\ durable' \in {durable, intents, intents'}
    BY <1>19 DEF Flush
  <2>2. Writing' = Writing
    BY <1>19 DEF Flush, Writing
  <2> QED
    BY <2>1, <2>2, NoNewFile
<1>20. ASSUME NEW u \in Worker, Retry(u) PROVE SpoolBounded'
  <2>1. /\ UNCHANGED <<setup, litter>> /\ intents' \subseteq intents
        /\ durable' \in {durable, intents, intents'}
    BY <1>20 DEF Retry
  <2>2. Writing' = Writing
    BY <1>20 DEF Retry, Writing
  <2> QED
    BY <2>1, <2>2, NoNewFile
<1>21. CASE Bind
  <2>1. /\ UNCHANGED <<setup, litter>> /\ intents' \subseteq intents
        /\ durable' \in {durable, intents, intents'}
    BY <1>21 DEF Bind
  <2>2. Writing' = Writing
    BY <1>21 DEF Bind, Writing
  <2> QED
    BY <2>1, <2>2, NoNewFile
<1>22. CASE Scan
  <2>1. /\ UNCHANGED <<setup, litter>> /\ intents' \subseteq intents
        /\ durable' \in {durable, intents, intents'}
    BY <1>22 DEF Scan
  <2>2. Writing' = Writing
    BY <1>22 DEF Scan, Writing
  <2> QED
    BY <2>1, <2>2, NoNewFile
<1>33. CASE ScanFails
  <2>1. /\ UNCHANGED <<setup, litter>> /\ intents' \subseteq intents
        /\ durable' \in {durable, intents, intents'}
    BY <1>33 DEF ScanFails
  <2>2. Writing' = Writing
    BY <1>33 DEF ScanFails, Writing
  <2> QED
    BY <2>1, <2>2, NoNewFile
<1>23. CASE Serve
  <2>1. /\ UNCHANGED <<setup, litter>> /\ intents' \subseteq intents
        /\ durable' \in {durable, intents, intents'}
    BY <1>23 DEF Serve
  <2>2. Writing' = Writing
    BY <1>23 DEF Serve, Writing
  <2> QED
    BY <2>1, <2>2, NoNewFile
<1>24. CASE Drain
  <2>1. /\ UNCHANGED <<setup, litter>> /\ intents' \subseteq intents
        /\ durable' \in {durable, intents, intents'}
    BY <1>24 DEF Drain
  <2>2. Writing' = Writing
    BY <1>24 DEF Drain, Writing
  <2> QED
    BY <2>1, <2>2, NoNewFile
<1>25. CASE Exit
  BY <1>25, DieFiles DEF Exit
<1>26. CASE LosePower
  <2>1. PowerLoss' /\ durable' = intents' /\ intents' \subseteq intents \cup durable
    BY <1>26 DEF LosePower, PowerLoss
  <2>2. IsFiniteSet(intents \cup durable)
    BY FileCounts, FS_Union
  <2>3. IsFiniteSet(intents')
    BY <2>1, <2>2, FS_Subset
  <2> QED
    BY <2>1, <2>3 DEF SpoolBounded
<1>27. CASE SweepStart
  <2>1. /\ UNCHANGED <<setup, litter>> /\ intents' \subseteq intents
        /\ durable' \in {durable, intents, intents'}
    BY <1>27 DEF SweepStart
  <2>2. Writing' = Writing
    BY <1>27 DEF SweepStart, Writing
  <2> QED
    BY <2>1, <2>2, NoNewFile
<1>28. CASE SweepPins
  <2>1. /\ UNCHANGED <<setup, litter>> /\ intents' \subseteq intents
        /\ durable' \in {durable, intents, intents'}
    BY <1>28 DEF SweepPins
  <2>2. Writing' = Writing
    BY <1>28 DEF SweepPins, Writing
  <2> QED
    BY <2>1, <2>2, NoNewFile
<1>29. CASE SweepEnd
  <2>1. /\ UNCHANGED <<setup, litter>> /\ intents' \subseteq intents
        /\ durable' \in {durable, intents, intents'}
    BY <1>29 DEF SweepEnd
  <2>2. Writing' = Writing
    BY <1>29 DEF SweepEnd, Writing
  <2> QED
    BY <2>1, <2>2, NoNewFile
<1>30. ASSUME NEW k \in Key, Evict(k) PROVE SpoolBounded'
  <2>1. /\ UNCHANGED <<setup, litter>> /\ intents' \subseteq intents
        /\ durable' \in {durable, intents, intents'}
    BY <1>30 DEF Evict
  <2>2. Writing' = Writing
    BY <1>30 DEF Evict, Writing
  <2> QED
    BY <2>1, <2>2, NoNewFile
<1>31. ASSUME NEW k \in Key, RemoveEntry(k) PROVE SpoolBounded'
  <2>1. /\ UNCHANGED <<setup, litter>> /\ intents' \subseteq intents
        /\ durable' \in {durable, intents, intents'}
    BY <1>31 DEF RemoveEntry
  <2>2. Writing' = Writing
    BY <1>31 DEF RemoveEntry, Writing
  <2> QED
    BY <2>1, <2>2, NoNewFile
<1>32. CASE UNCHANGED vars
  BY <1>32 DEF vars, SpoolBounded, Files, Writing, PowerLoss, MaxJobs
<1> QED
   BY PersistCases, <1>1, <1>2, <1>3, <1>4, <1>5, <1>6, <1>7, <1>8, <1>9, <1>10, <1>11, <1>12,
     <1>13, <1>14, <1>15, <1>16, <1>17, <1>18, <1>19, <1>20, <1>21, <1>22, <1>23, <1>24,
     <1>25, <1>26, <1>27, <1>28, <1>29, <1>30, <1>31, <1>32, <1>33
  DEF Next, Upload, Sweep

-----------------------------------------------------------------------------
(* The theorems.                                                           *)

\* What is inductive: the invariant of the spool with the two promises.
SpoolSafety == SpoolInv /\ IntentHasEntry /\ NotLost

LEMMA SpoolInitially == Init => SpoolSafety
<1> SUFFICES ASSUME Init PROVE SpoolSafety
  OBVIOUS
<1>1. TypeOK /\ Roles
  BY TypeInitially
<1>2. pc = [p \in Proc |-> "idle"]
  BY DEF Init
<1>3. Locked /\ Retired /\ Spared
  BY <1>2, Kinds DEF Init, Locked, Retired, Spared
<1>4. Jobs
  BY <1>2, Kinds DEF Init, Jobs, Job, Queued, Active
<1>5. IntentHasEntry /\ NotLost
  BY DEF Init, IntentHasEntry, NotLost
<1>6. Writing = {} /\ intents = {} /\ durable = {} /\ litter = 0
  BY <1>2, Kinds DEF Init, Writing
<1>7. SpoolBounded
  BY <1>6, FS_EmptySet, SpoolAssumption DEF Init, SpoolBounded, Files, MaxJobs
<1> QED
  BY <1>1, <1>3, <1>4, <1>5, <1>7 DEF SpoolSafety, SpoolInv

LEMMA SpoolStep ==
    ASSUME SpoolSafety, [Next]_vars
    PROVE  SpoolSafety'
<1> USE DEF SpoolSafety, SpoolInv
<1>1. TypeOK' /\ Roles' /\ Locked'
  BY TypeStep, RolesStep, LockedStep
<1>2. Jobs' /\ Retired' /\ NotLost'
  BY JobsStep, RetiredStep, NotLostStep
<1>3. Spared' /\ IntentHasEntry'
  BY SparedStep, IntentStep
<1>4. SpoolBounded'
  BY BoundedStep
<1> QED
  BY <1>1, <1>2, <1>3, <1>4

LEMMA SpoolAlways == Spec => []SpoolSafety
<1>1. Init => SpoolSafety
  BY SpoolInitially
<1>2. SpoolSafety /\ [Next]_vars => SpoolSafety'
  BY SpoolStep
<1> QED
  BY <1>1, <1>2, PTL DEF Spec

\* The spool never outgrows what a sweep and a replay read, whoever dies while
\* it writes; gc.lock keeps publishers and sweep apart; a pending key has one
\* job, and an intent goes only with an upload that is over.
THEOREM SpoolSafe == Spec => []SpoolInv
<1>1. SpoolSafety => SpoolInv
  BY DEF SpoolSafety
<1> QED
  BY <1>1, SpoolAlways, PTL

\* An intent has the entry it uploads, except one that a power loss brought back,
\* and one whose entry the power loss undid.
THEOREM SpoolIntentsBacked == Spec => []IntentHasEntry
<1>1. SpoolSafety => IntentHasEntry
  BY DEF SpoolSafety
<1> QED
  BY <1>1, SpoolAlways, PTL

\* A recorded upload is in the remote or on disk, through retries, duplicate
\* requests, daemon stops and power loss, as long as no power loss undoes the
\* commit of its entry.
THEOREM SpoolNothingLost == Spec => []NotLost
<1>1. SpoolSafety => NotLost
  BY DEF SpoolSafety
<1> QED
  BY <1>1, SpoolAlways, PTL

LEMMA OneJob ==
    ASSUME SpoolInv
    PROVE  JobsDurable
<1> SUFFICES ASSUME NEW k \in Key
             PROVE  /\ queue[k] + Cardinality({u \in Worker : key[u] = k /\ pc[u] \in Active}) <= 1
                    /\ queue[k] > 0 => k \in intents
  BY DEF JobsDurable
<1> DEFINE U == {u \in Worker : key[u] = k /\ pc[u] \in Active}
<1>1. queue[k] \in Nat /\ (queue[k] > 0 => queue[k] = 1 /\ k \in intents)
  BY DEF SpoolInv, TypeOK, Jobs, Queued
<1>2. CASE U = {}
  BY <1>1, <1>2, FS_EmptySet
<1>3. CASE U # {}
  <2>1. PICK u \in Worker : key[u] = k /\ pc[u] \in Active
    BY <1>3
  <2>2. queue[k] = 0 /\ U = {u}
    BY <2>1 DEF SpoolInv, Jobs, Job
  <2>3. Cardinality(U) = 1
    BY <2>2, FS_Singleton
  <2> QED
    BY <1>1, <2>2, <2>3
<1> QED
  BY <1>2, <1>3

\* A key never has two jobs, in the queue or with workers, and a queued one has
\* its intent on disk.
THEOREM SpoolJobsDurable == Spec => []JobsDurable
<1>1. SpoolInv => JobsDurable
  BY OneJob
<1> QED
  BY <1>1, SpoolSafe, PTL
=============================================================================
