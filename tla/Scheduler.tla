----------------------------- MODULE Scheduler -----------------------------
(***************************************************************************)
(* The machine-wide scheduler: wrappers that missed join the flight of     *)
(* their key, take permits from a pool of slot locks, then claim the key;  *)
(* test runners take a lease on slots above the compile reserve, and the   *)
(* builds a test starts may run inside that lease or outside it.           *)
(*                                                                         *)
(* Every slot, marker and flight is an OS lock on a file, gone when its    *)
(* holder dies. A waiter that found slots taken samples a wake counter,    *)
(* scans once more and sleeps until the counter moves or a slice elapses.  *)
(***************************************************************************)
EXTENDS Integers, FiniteSets

CONSTANTS
    Compile,    \* wrapper processes
    Test,       \* test runner processes
    Key,        \* cache keys
    None,       \* no lock owner, no key, no parent, no lease
    Setups      \* pools, the processes that share them, and what may go wrong

Proc == Compile \cup Test

\* Memory pressure is reported; waits reach WAIT_TIMEOUT; lock files fail to
\* open and compilers fail; processes are killed; and, which is no trouble but
\* spares one, a sleeping waiter wakes after SATURATED_SLICE.
Circumstances == {"pressure", "timeout", "fault", "kill", "slice"}

ASSUME SchedulerAssumption ==
    /\ Compile \cap Test = {}
    /\ None \notin Proc \cup Key \cup Nat
    /\ \A s \in Setups :
          /\ s.pool \in Nat \ {0}
          /\ s.procs \subseteq Proc
          /\ s.key \in [Compile -> Key \cup {None}]
          /\ s.weight \in [Compile -> Nat]
          /\ s.parent \in [Compile -> Test \cup {None}]
          /\ s.inherits \subseteq Compile
          /\ s.floor \in [Test -> Nat \ {0}]
          /\ s.elastic \subseteq Test
          /\ s.with \subseteq Circumstances

VARIABLES
    slot,       \* who holds each permit slot's lock
    marker,     \* who holds each test slot's marker lock
    flight,     \* who holds each key's flight lock
    keylock,    \* who holds each key's build lock
    stored,     \* keys with a committed entry
    wake,       \* the wake counter
    pc,         \* where each process is
    idx,        \* next slot of a scan
    ask,        \* slots the scan needs
    waited,     \* processes past their first scan
    seen,       \* the wake counter a waiter sampled
    lease,      \* the marker a test names to its children, or None
    setup       \* the pool, its users and their circumstances, chosen once

vars == <<slot, marker, flight, keylock, stored, wake, pc, idx, ask, waited, seen, lease,
          setup>>
locks == <<slot, marker, flight, keylock>>
scan == <<idx, ask, waited, seen>>

Pool == setup.pool
Slot == 0..(Pool - 1)
KeyOf == setup.key          \* a compile's key; None for one that runs before it has a key
Weight == setup.weight      \* a compile's recorded weight in slots
Parent == setup.parent      \* the test that starts a compile, or None
Inherits == setup.inherits  \* compiles that got their parent's TEST_LEASE_ENV
Floor == setup.floor        \* slots a test asks for
Elastic == setup.elastic    \* tests that also take every other free test slot
Pressure == "pressure" \in setup.with
Timeouts == "timeout" \in setup.with
Faults == "fault" \in setup.with
Kills == "kill" \in setup.with
Slice == "slice" \in setup.with

-----------------------------------------------------------------------------
Least(S) == CHOOSE i \in S : \A j \in S : i <= j
AtMost(m, n) == IF m <= n THEN m ELSE n
AtLeast(m, n) == IF m >= n THEN m ELSE n

Held(p) == {i \in Slot : slot[i] = p}
Marked(p) == {i \in Slot : marker[i] = p}
Goto(p, l) == pc' = [pc EXCEPT ![p] = l]
Freed(lock, p) == [x \in DOMAIN lock |-> IF lock[x] = p THEN None ELSE lock[x]]

\* The bottom quarter of the pool, at least one slot, never goes to a test.
reserve_for == AtLeast(Pool \div 4, 1)

\* Wrong: a test's floor is not clamped to the slots above the reserve.
test_need_unclamped(t) == Floor[t]

test_need(t) == AtMost(Floor[t], AtLeast(Pool - reserve_for, 0))

\* Wrong: a compile that waited keeps asking for its whole weight.
compile_need_whole(weight, late, tests) == AtMost(AtLeast(weight, 1), Pool)

\* The first try asks for the whole weight, later ones for no more than tests leave.
compile_need(weight, late, tests) ==
    LET need == AtMost(AtLeast(weight, 1), Pool)
    IN  IF late /\ need > reserve_for
        THEN AtMost(need, AtLeast(AtLeast(Pool - tests, 0), reserve_for))
        ELSE need

\* The held markers; one that cannot be probed counts as every slot.
tests_held ==
    {Cardinality({i \in Slot : marker[i] # None})} \cup (IF Faults THEN {Pool} ELSE {})

\* Under pressure a compile is admitted as if it weighed the whole pool.
pressure_weight(c) == {Weight[c]} \cup (IF Pressure THEN {Pool} ELSE {})

\* The compile runs inside a test whose marker somebody holds.
lease_covers(c) ==
    /\ c \in Inherits
    /\ Parent[c] # None
    /\ lease[Parent[c]] # None
    /\ marker[lease[Parent[c]]] # None

Needs(p) ==
    IF p \in Test THEN {test_need(p)}
    ELSE {compile_need(w, p \in waited, n) : w \in pressure_weight(p), n \in tests_held}

\* The locals of wait_for_permit are gone when it returns.
Forget(p) ==
    /\ idx' = [idx EXCEPT ![p] = 0]
    /\ ask' = [ask EXCEPT ![p] = 0]
    /\ seen' = [seen EXCEPT ![p] = 0]
    /\ waited' = waited \ {p}

First(p) == IF p \in Test THEN reserve_for ELSE 0

\* Where a process goes with its slots, and where it goes without any.
Ready(p) ==
    IF p \in Test THEN IF p \in Elastic THEN "extra" ELSE "mark"
    ELSE IF KeyOf[p] = None THEN "compile" ELSE "claim"
Without(p) ==
    IF p \in Test THEN "running" ELSE IF KeyOf[p] = None THEN "compile" ELSE "claim"

Init ==
    /\ setup \in Setups
    /\ slot = [i \in Slot |-> None]
    /\ marker = [i \in Slot |-> None]
    /\ flight = [k \in Key |-> None]
    /\ keylock = [k \in Key |-> None]
    /\ stored = {}
    /\ wake = 0
    /\ pc = [p \in Proc |-> "idle"]
    /\ idx = [p \in Proc |-> 0]
    /\ ask = [p \in Proc |-> 0]
    /\ waited = {}
    /\ seen = [p \in Proc |-> 0]
    /\ lease = [t \in Test |-> None]

-----------------------------------------------------------------------------
(* The flight *)

\* A wrapper looks its key up. A nested one exists while its test runs.
Start(c) ==
    /\ pc[c] = "idle" /\ c \in setup.procs
    /\ Parent[c] # None => pc[Parent[c]] = "running"
    /\ Goto(c, IF KeyOf[c] = None THEN "admit" ELSE IF KeyOf[c] \in stored THEN "done" ELSE "join")
    /\ UNCHANGED <<locks, stored, wake, scan, lease, setup>>

\* join_flight: own the flight, or wait for the process that does.
Join(c) ==
    /\ pc[c] = "join"
    /\ IF flight[KeyOf[c]] = None
       THEN flight' = [flight EXCEPT ![KeyOf[c]] = c] /\ Goto(c, "admit")
       ELSE UNCHANGED flight /\ Goto(c, "await")
    /\ UNCHANGED <<slot, marker, keylock, stored, wake, scan, lease, setup>>

\* The flight lock failed: compile without flight or permit.
JoinError(c) ==
    /\ Faults /\ pc[c] \in {"join", "await"}
    /\ Goto(c, "claim")
    /\ UNCHANGED <<locks, stored, wake, scan, lease, setup>>

\* wait_for_lock takes the lock to learn that it is free,
AwaitFlight(c) ==
    /\ pc[c] = "await" /\ flight[KeyOf[c]] = None
    /\ flight' = [flight EXCEPT ![KeyOf[c]] = c]
    /\ Goto(c, "peek")
    /\ UNCHANGED <<slot, marker, keylock, stored, wake, scan, lease, setup>>

\* drops it again,
DropPeek(c) ==
    /\ pc[c] = "peek"
    /\ flight' = Freed(flight, c)
    /\ Goto(c, "recheck")
    /\ UNCHANGED <<slot, marker, keylock, stored, wake, scan, lease, setup>>

\* and the caller looks the key up again before it asks for the flight.
Recheck(c) ==
    /\ pc[c] = "recheck"
    /\ Goto(c, IF KeyOf[c] \in stored THEN "done" ELSE "join")
    /\ UNCHANGED <<locks, stored, wake, scan, lease, setup>>

\* The flight stayed busy for the whole wait: fail open.
FlightTimeout(c) ==
    /\ Timeouts /\ pc[c] = "await" /\ flight[KeyOf[c]] # None
    /\ Goto(c, "claim")
    /\ UNCHANGED <<locks, stored, wake, scan, lease, setup>>

-----------------------------------------------------------------------------
(* Permits *)

\* A compile inside a held lease takes no permit.
Admit(c) ==
    /\ pc[c] = "admit"
    /\ Goto(c, IF lease_covers(c) THEN Without(c) ELSE "ask")
    /\ UNCHANGED <<locks, stored, wake, scan, lease, setup>>

\* A test runner asks for a lease, or runs without when no slot is above the reserve.
StartTest(t) ==
    /\ pc[t] = "idle" /\ t \in setup.procs
    /\ Goto(t, IF test_need(t) = 0 THEN "running" ELSE "ask")
    /\ UNCHANGED <<locks, stored, wake, scan, lease, setup>>

Ask(p) ==
    /\ pc[p] = "ask"
    /\ \E n \in Needs(p) : ask' = [ask EXCEPT ![p] = AtLeast(n, 1)]
    /\ idx' = [idx EXCEPT ![p] = First(p)]
    /\ Goto(p, "scan")
    /\ UNCHANGED <<locks, stored, wake, waited, seen, lease, setup>>

\* try_collect_slots: one slot file after the other, until there are enough.
Scan(p) ==
    /\ pc[p] \in {"scan", "rescan"} /\ idx[p] < Pool
    /\ slot' = [slot EXCEPT ![idx[p]] = IF @ = None THEN p ELSE @]
    /\ IF slot[idx[p]] = None /\ Cardinality(Held(p)) + 1 = ask[p]
       THEN Goto(p, Ready(p)) /\ Forget(p)
       ELSE idx' = [idx EXCEPT ![p] = @ + 1] /\ UNCHANGED <<pc, ask, waited, seen>>
    /\ UNCHANGED <<marker, flight, keylock, stored, wake, lease, setup>>

\* Wrong: the counter is sampled after the second scan.
ScanShortLate(p) ==
    /\ pc[p] \in {"scan", "rescan"} /\ idx[p] = Pool
    /\ slot' = Freed(slot, p)
    /\ Goto(p, IF pc[p] = "scan" THEN "snapshot" ELSE "park")
    /\ seen' = [seen EXCEPT ![p] = wake]
    /\ UNCHANGED <<marker, flight, keylock, stored, wake, idx, ask, waited, lease, setup>>

\* Too few: the slots it did lock go back, and nobody is told. (Slots nobody
\* holds are always enough, so a failed scan has seen a held one.)
ScanShort(p) ==
    /\ pc[p] \in {"scan", "rescan"} /\ idx[p] = Pool
    /\ slot' = Freed(slot, p)
    /\ Goto(p, IF pc[p] = "scan" THEN "snapshot" ELSE "park")
    /\ UNCHANGED <<marker, flight, keylock, stored, wake, scan, lease, setup>>

\* Wrong: the clock of the wait starts again with every scan.
ScanStopRestarted(p) ==
    /\ pc[p] \in {"scan", "rescan"} /\ Faults
    /\ slot' = Freed(slot, p)
    /\ Goto(p, Without(p)) /\ Forget(p)
    /\ UNCHANGED <<marker, flight, keylock, stored, wake, lease, setup>>

\* The wait timed out or a lock file failed: go on without.
ScanStop(p) ==
    /\ pc[p] \in {"scan", "rescan"}
    /\ (Timeouts /\ idx[p] = Pool) \/ Faults
    /\ slot' = Freed(slot, p)
    /\ Goto(p, Without(p)) /\ Forget(p)
    /\ UNCHANGED <<marker, flight, keylock, stored, wake, lease, setup>>

\* The counter is sampled before the second scan.
Snapshot(p) ==
    /\ pc[p] = "snapshot"
    /\ seen' = [seen EXCEPT ![p] = wake]
    /\ idx' = [idx EXCEPT ![p] = First(p)]
    /\ Goto(p, "rescan")
    /\ UNCHANGED <<locks, stored, wake, ask, waited, lease, setup>>

\* Sleep until the counter moved or the slice elapsed, then ask again.
Park(p) ==
    /\ pc[p] = "park"
    /\ wake # seen[p] \/ Slice
    /\ waited' = waited \cup {p}
    /\ idx' = [idx EXCEPT ![p] = 0]
    /\ ask' = [ask EXCEPT ![p] = 0]
    /\ seen' = [seen EXCEPT ![p] = 0]
    /\ Goto(p, "ask")
    /\ UNCHANGED <<locks, stored, wake, lease, setup>>

-----------------------------------------------------------------------------
(* The compile *)

\* claim_build: re-check and take the key's lock, or wait for its holder.
Claim(c) ==
    /\ pc[c] = "claim"
    /\ IF keylock[KeyOf[c]] # None
       THEN UNCHANGED keylock /\ Goto(c, "contend")
       ELSE IF KeyOf[c] \in stored
       THEN UNCHANGED keylock /\ Goto(c, "release")
       ELSE keylock' = [keylock EXCEPT ![KeyOf[c]] = c] /\ Goto(c, "compile")
    /\ UNCHANGED <<slot, marker, flight, stored, wake, scan, lease, setup>>

\* The claim failed: compile without the key's lock.
ClaimError(c) ==
    /\ Faults /\ pc[c] = "claim"
    /\ Goto(c, "compile")
    /\ UNCHANGED <<locks, stored, wake, scan, lease, setup>>

\* The holder is done: use its entry, or compile without the lock.
Contend(c) ==
    /\ pc[c] = "contend" /\ keylock[KeyOf[c]] = None
    /\ Goto(c, IF KeyOf[c] \in stored THEN "release" ELSE "compile")
    /\ UNCHANGED <<locks, stored, wake, scan, lease, setup>>

\* The holder outlives BUILD_LOCK_TIMEOUT: compile without the lock.
ContendTimeout(c) ==
    /\ Timeouts /\ pc[c] = "contend" /\ keylock[KeyOf[c]] # None
    /\ Goto(c, "compile")
    /\ UNCHANGED <<locks, stored, wake, scan, lease, setup>>

\* The compiler ran; a keyed success is stored, and the key's lock goes first.
Built(c) ==
    /\ pc[c] = "compile"
    /\ \/ stored' = stored \cup ({KeyOf[c]} \ {None})
       \/ Faults /\ UNCHANGED stored
    /\ keylock' = Freed(keylock, c)
    /\ Goto(c, "release")
    /\ UNCHANGED <<slot, marker, flight, wake, scan, lease, setup>>

\* Wrong: the guard's fields are swapped, so the flight goes before the permit.
DropPermitLast(c) ==
    /\ pc[c] = "release"
    /\ IF \E k \in Key : flight[k] = c
       THEN flight' = Freed(flight, c) /\ UNCHANGED <<slot, pc>>
       ELSE /\ slot' = Freed(slot, c) /\ UNCHANGED flight
            /\ Goto(c, IF Held(c) = {} THEN "land" ELSE "notify")
    /\ UNCHANGED <<marker, keylock, stored, wake, scan, lease, setup>>

\* MissGuard drops its permit first: the slots are unlocked,
DropPermit(c) ==
    /\ pc[c] = "release"
    /\ slot' = Freed(slot, c)
    /\ Goto(c, IF Held(c) = {} THEN "land" ELSE "notify")
    /\ UNCHANGED <<marker, flight, keylock, stored, wake, scan, lease, setup>>

\* then the counter moves,
Notify(c) ==
    /\ pc[c] = "notify"
    /\ wake' = wake + 1
    /\ Goto(c, "land")
    /\ UNCHANGED <<locks, stored, scan, lease, setup>>

\* then the flight is released.
DropFlight(c) ==
    /\ pc[c] = "land"
    /\ flight' = Freed(flight, c)
    /\ Goto(c, "done")
    /\ UNCHANGED <<slot, marker, keylock, stored, wake, scan, lease, setup>>

-----------------------------------------------------------------------------
(* The test lease *)

\* Wrong: an elastic want takes free slots of the whole pool.
TakeFreeAny(t) ==
    /\ pc[t] = "extra" /\ idx[t] < Pool
    /\ slot' = [slot EXCEPT ![idx[t]] = IF @ = None THEN t ELSE @]
    /\ idx' = [idx EXCEPT ![t] = @ + 1]
    /\ UNCHANGED <<marker, flight, keylock, stored, wake, pc, ask, waited, seen, lease, setup>>

\* An elastic want takes the other free test slots, one after the other and
\* without waiting; one that is held, or whose file fails, is skipped.
TakeFree(t) ==
    LET i == AtLeast(idx[t], reserve_for)
    IN  /\ pc[t] = "extra" /\ i < Pool
        /\ \/ slot' = [slot EXCEPT ![i] = IF @ = None THEN t ELSE @]
           \/ Faults /\ UNCHANGED slot
        /\ idx' = [idx EXCEPT ![t] = i + 1]
        /\ UNCHANGED <<marker, flight, keylock, stored, wake, pc, ask, waited, seen, lease, setup>>

TookFree(t) ==
    /\ pc[t] = "extra" /\ idx[t] = Pool
    /\ Goto(t, "mark") /\ Forget(t)
    /\ UNCHANGED <<locks, stored, wake, lease, setup>>

\* One marker per slot; then the test starts, naming its lowest marker.
Mark(t) ==
    /\ pc[t] = "mark"
    /\ LET i == Least(Held(t) \ Marked(t))
       IN  /\ marker[i] = None
           /\ marker' = [marker EXCEPT ![i] = t]
    /\ IF Held(t) \ Marked(t) = {Least(Held(t) \ Marked(t))}
       THEN lease' = [lease EXCEPT ![t] = Least(Held(t))] /\ Goto(t, "running")
       ELSE UNCHANGED <<lease, pc>>
    /\ UNCHANGED <<slot, flight, keylock, stored, wake, scan, setup>>

\* A marker stayed busy under a counting compile: run without the lease.
MarkBusy(t) ==
    /\ Faults /\ pc[t] = "mark"
    /\ Goto(t, "abandon")
    /\ UNCHANGED <<locks, stored, wake, scan, lease, setup>>

\* The test ends once the builds it started have.
TestExit(t) ==
    /\ pc[t] = "running"
    /\ \A c \in setup.procs \cap Compile : Parent[c] = t => pc[c] \in {"done", "dead"}
    /\ Goto(t, "exit")
    /\ UNCHANGED <<locks, stored, wake, scan, lease, setup>>

\* A lease drops its markers before its slots, and moves no counter.
DropMarkers(t) ==
    /\ pc[t] \in {"abandon", "exit"} /\ Marked(t) # {}
    /\ marker' = Freed(marker, t)
    /\ UNCHANGED <<slot, flight, keylock, stored, wake, pc, scan, lease, setup>>

\* Wrong: a lease may drop its slots before its markers.
DropSlotsFirst(t) ==
    /\ pc[t] \in {"abandon", "exit"}
    /\ slot' = Freed(slot, t)
    /\ Goto(t, IF pc[t] = "abandon" THEN "running" ELSE "done")
    /\ UNCHANGED <<marker, flight, keylock, stored, wake, scan, lease, setup>>

DropSlots(t) ==
    /\ pc[t] \in {"abandon", "exit"} /\ Marked(t) = {}
    /\ slot' = Freed(slot, t)
    /\ Goto(t, IF pc[t] = "abandon" THEN "running" ELSE "done")
    /\ UNCHANGED <<marker, flight, keylock, stored, wake, scan, lease, setup>>

\* The OS drops every lock of a killed process; the counter does not move.
Kill(p) ==
    /\ Kills /\ pc[p] \notin {"idle", "done", "dead"}
    /\ slot' = Freed(slot, p)
    /\ marker' = Freed(marker, p)
    /\ flight' = Freed(flight, p)
    /\ keylock' = Freed(keylock, p)
    /\ Goto(p, "dead") /\ Forget(p)
    /\ UNCHANGED <<stored, wake, lease, setup>>

-----------------------------------------------------------------------------
Work(c) ==
    \/ Start(c) \/ Join(c) \/ AwaitFlight(c) \/ DropPeek(c) \/ Recheck(c) \/ Admit(c)
    \/ Claim(c) \/ Contend(c) \/ Built(c) \/ DropPermit(c) \/ Notify(c) \/ DropFlight(c)

Lease(t) ==
    \/ StartTest(t) \/ TakeFree(t) \/ TookFree(t) \/ Mark(t)
    \/ TestExit(t) \/ DropMarkers(t) \/ DropSlots(t)

Acquire(p) == Ask(p) \/ Scan(p) \/ ScanShort(p) \/ Snapshot(p) \/ Park(p)

Next ==
    \/ \E c \in Compile : Work(c) \/ JoinError(c) \/ FlightTimeout(c) \/ ClaimError(c)
                          \/ ContendTimeout(c)
    \/ \E t \in Test : Lease(t) \/ MarkBusy(t)
    \/ \E p \in Proc : Acquire(p) \/ ScanStop(p) \/ Kill(p)

Spec == Init /\ [][Next]_vars

\* A living process keeps running its own code, and the clock of a wait that
\* is retried for ever does reach its limit.
FairSpec ==
    /\ Spec
    /\ \A c \in Compile : WF_vars(Work(c)) /\ WF_vars(Acquire(c))
    /\ \A t \in Test : WF_vars(Lease(t)) /\ WF_vars(Acquire(t))
    /\ \A p \in Proc : SF_vars(Timeouts /\ ScanStop(p))

-----------------------------------------------------------------------------
Label == {"idle", "join", "await", "peek", "recheck", "admit", "ask", "scan", "snapshot",
          "rescan", "park", "claim", "contend", "compile", "release", "notify", "land",
          "extra", "mark", "running", "abandon", "exit", "done", "dead"}

\* Every variable has its type.
TypeOK ==
    /\ slot \in [Slot -> Proc \cup {None}]
    /\ marker \in [Slot -> Test \cup {None}]
    /\ flight \in [Key -> Compile \cup {None}]
    /\ keylock \in [Key -> Compile \cup {None}]
    /\ stored \subseteq Key
    /\ wake \in Nat
    /\ pc \in [Proc -> Label]
    /\ idx \in [Proc -> 0..Pool]
    /\ ask \in [Proc -> 0..Pool]
    /\ waited \subseteq Proc
    /\ seen \in [Proc -> Nat]
    /\ lease \in [Test -> Slot \cup {None}]

\* Only the holder of a test slot has its marker, through acquisition, an
\* abandoned lease, release and kills: whoever takes a slot next can always
\* lock its marker, and a compile never counts a slot no test holds.
MarkerBacked == \A i \in Slot : marker[i] # None => slot[i] = marker[i]

\* A test that runs under a lease has every one of its slots counted and
\* leaves the reserve to compiles.
LeaseCounted ==
    \A t \in Test : pc[t] = "running" =>
        /\ Held(t) = Marked(t)
        /\ \A i \in Held(t) : i >= reserve_for

\* Every process is where its kind goes, and a compile without a key neither
\* flies nor claims. A test scans above the reserve.
Placed ==
    /\ setup \in Setups
    /\ \A c \in Compile :
          /\ pc[c] \notin {"extra", "mark", "running", "abandon", "exit"}
          /\ KeyOf[c] = None =>
                pc[c] \notin {"join", "await", "peek", "recheck", "claim", "contend"}
    /\ \A t \in Test :
          /\ pc[t] \in {"idle", "ask", "scan", "snapshot", "rescan", "park", "extra", "mark",
                        "running", "abandon", "exit", "done", "dead"}
          /\ pc[t] \in {"scan", "rescan"} => idx[t] >= reserve_for

\* Slots are held from the scan that collects them to the release, by a test
\* above the reserve only, and all marked while it runs; markers are held from
\* the lease on. A lease that is being taken has a slot to mark.
Sitting ==
    /\ \A i \in Slot : slot[i] # None =>
          pc[slot[i]] \in {"scan", "rescan", "claim", "contend", "compile", "release", "extra",
                           "mark", "running", "abandon", "exit"}
    /\ \A i \in Slot : slot[i] \in Test =>
          i >= reserve_for /\ (pc[slot[i]] = "running" => marker[i] = slot[i])
    /\ \A i \in Slot : marker[i] # None => pc[marker[i]] \in {"mark", "running", "abandon", "exit"}
    /\ \A t \in Test :
          /\ pc[t] = "extra" => \E i \in Slot : slot[i] = t
          /\ pc[t] = "mark" => \E i \in Slot : slot[i] = t /\ marker[i] # t

\* A keyed wrapper asks for slots, and holds them, inside its flight.
InFlight ==
    /\ \A c \in Compile :
          KeyOf[c] # None /\ pc[c] \in {"admit", "ask", "scan", "snapshot", "rescan", "park"}
          => flight[KeyOf[c]] = c
    /\ \A i \in Slot :
          slot[i] \in Compile /\ KeyOf[slot[i]] # None => flight[KeyOf[slot[i]]] = slot[i]

\* Types, markers and leases agree in every state: what a compile counts as
\* held by tests is what tests hold.
SchedulerInv == TypeOK /\ MarkerBacked /\ LeaseCounted /\ Placed /\ Sitting /\ InFlight

\* Two wrappers of one key never sit on slots at the same time, the second
\* waiting for what the first compiles: the permit lives inside the flight.
OneAdmittedPerKey ==
    \A c, d \in Compile :
        c # d /\ KeyOf[c] # None /\ KeyOf[c] = KeyOf[d] => Held(c) = {} \/ Held(d) = {}

\* Every wrapper and every test runner that starts comes to an end.
EveryoneEnds == []<>(\A p \in Proc : pc[p] \in {"idle", "done", "dead"})
=============================================================================
