----------------------------- MODULE BuildLock -----------------------------
(***************************************************************************)
(* The lock file of one cache key (StoreLock) and the miss path that uses  *)
(* it: build wrappers look the key up, claim it, re-check, compile, store  *)
(* and release, or wait for the process that holds it; maintenance sweeps  *)
(* unlink lock files nobody used for a while.                              *)
(*                                                                         *)
(* The lock is an advisory OS lock on an open file, so it belongs to an    *)
(* inode. The path may name another inode by the time the lock is granted. *)
(***************************************************************************)
EXTENDS Naturals

CONSTANTS
    Builder,    \* wrapper processes that want the key
    Sweeper,    \* daemons and CLI commands that sweep stale lock files
    Inode,      \* files the path may name; reused once nobody has them open
    Nil,        \* no file at the path, no open handle, no lock owner
    Attempts    \* LOCK_OPEN_ATTEMPTS

Proc == Builder \cup Sweeper

ASSUME LockAssumption ==
    /\ Builder \cap Sweeper = {}
    /\ Nil \notin Proc \cup Inode
    /\ Attempts \in Nat \ {0}

VARIABLES
    path,       \* the inode at <key>.lock, or Nil
    old,        \* inodes whose modification time is past the sweep's grace
    owner,      \* the process that has the OS lock on an inode
    ino,        \* the inode a process has open
    at,         \* where each process is
    goal,       \* what an acquisition is for: to claim the key or to probe it
    tries,      \* opens left in this acquisition
    stored      \* the key's committed entry: "none", "built" or "imported"

lockVars == <<path, old, owner, ino, at, goal, tries, stored>>

-----------------------------------------------------------------------------
committed == stored # "none"

Move(p, l) == at' = [at EXCEPT ![p] = l]

\* Dropping the handle closes the file, which gives up its OS lock.
Close(p) ==
    /\ ino' = [ino EXCEPT ![p] = Nil]
    /\ owner' = [i \in Inode |-> IF owner[i] = p THEN Nil ELSE owner[i]]

\* The OS reuses the inode number of a file with neither name nor handle.
Unused == {i \in Inode : i # path /\ \A p \in Proc : ino[p] # i}

\* Processes that were handed the key.
LockHolders == {p \in Builder : at[p] \in {"recheck", "build", "publish", "release"}}

LockInit ==
    /\ path = Nil /\ old = {} /\ stored = "none"
    /\ owner = [i \in Inode |-> Nil]
    /\ ino = [p \in Proc |-> Nil]
    /\ at = [p \in Proc |-> IF p \in Builder THEN "lookup" ELSE "rest"]
    /\ goal = [p \in Builder |-> "claim"]
    /\ tries = [p \in Builder |-> Attempts]

-----------------------------------------------------------------------------
(* acquire_current: open, lock, compare with the path, start over.         *)

Begin(p, g) ==
    /\ goal' = [goal EXCEPT ![p] = g]
    /\ tries' = [tries EXCEPT ![p] = Attempts]
    /\ Move(p, "open")

Open(p) ==
    /\ at[p] = "open"
    /\ \/ /\ path # Nil
          /\ ino' = [ino EXCEPT ![p] = path]
          /\ UNCHANGED <<path, old>>
       \/ \E i \in Unused :
             /\ path = Nil
             /\ path' = i
             /\ old' = old \ {i}
             /\ ino' = [ino EXCEPT ![p] = i]
    /\ Move(p, "lock")
    /\ UNCHANGED <<owner, goal, tries, stored>>

\* try_lock_file: a busy claim is Contended, a busy probe polls again. The
\* wait looks for a committed entry once more before it starts polling.
TryLock(p) ==
    /\ at[p] = "lock"
    /\ IF owner[ino[p]] = Nil
       THEN /\ owner' = [owner EXCEPT ![ino[p]] = p]
            /\ Move(p, "check")
            /\ UNCHANGED ino
       ELSE /\ Close(p)
            /\ Move(p, IF goal[p] = "claim" THEN "contended" ELSE "wait")
    /\ UNCHANGED <<path, old, goal, tries, stored>>

\* Mutant: takes the key with whatever file it managed to lock.
CurrentAlways(p) ==
    /\ at[p] = "check"
    /\ old' = old \ {ino[p]}
    /\ Move(p, IF goal[p] = "claim" THEN "recheck" ELSE "probed")
    /\ UNCHANGED <<path, owner, ino, goal, tries, stored>>

\* lock_is_current, then finish, which writes the pid into the file.
Current(p) ==
    /\ at[p] = "check" /\ path = ino[p]
    /\ old' = old \ {ino[p]}
    /\ Move(p, IF goal[p] = "claim" THEN "recheck" ELSE "probed")
    /\ UNCHANGED <<path, owner, ino, goal, tries, stored>>

\* The path names another file: try again, or fail and compile unlocked.
Replaced(p) ==
    /\ at[p] = "check" /\ path # ino[p]
    /\ Close(p)
    /\ tries' = [tries EXCEPT ![p] = @ - 1]
    /\ Move(p, IF tries[p] > 1 THEN "open" ELSE "unlocked")
    /\ UNCHANGED <<path, old, goal, stored>>

\* An I/O error, the second lookup's included, or the cancellation of a wait
\* fails the claim or the wait.
AcquireError(p) ==
    /\ at[p] \in {"open", "lock", "check", "recheck", "wait"}
    /\ Close(p)
    /\ Move(p, "unlocked")
    /\ UNCHANGED <<path, old, goal, tries, stored>>

-----------------------------------------------------------------------------
(* The miss path of a wrapper.                                             *)

Lookup(p) ==
    /\ at[p] = "lookup"
    /\ IF committed
       THEN Move(p, "done") /\ UNCHANGED <<goal, tries>>
       ELSE Begin(p, "claim")
    /\ UNCHANGED <<path, old, owner, ino, stored>>

\* Mutant: trusts the lookup made before the key was locked.
RecheckSkipped(p) ==
    /\ at[p] = "recheck"
    /\ Move(p, "build")
    /\ UNCHANGED <<path, old, owner, ino, goal, tries, stored>>

\* claim_build looks the key up again under its lock.
Recheck(p) ==
    /\ at[p] = "recheck"
    /\ Move(p, IF committed THEN "release" ELSE "build")
    /\ UNCHANGED <<path, old, owner, ino, goal, tries, stored>>

\* The compilation; a failed one is not stored.
Compile(p) ==
    /\ at[p] = "build"
    /\ \/ Move(p, "publish")
       \/ Move(p, "release")
    /\ UNCHANGED <<path, old, owner, ino, goal, tries, stored>>

\* put, which may fail.
Publish(p) ==
    /\ at[p] = "publish"
    /\ stored' \in {stored, "built"}
    /\ Move(p, "release")
    /\ UNCHANGED <<path, old, owner, ino, goal, tries>>

Unlock(p) ==
    /\ at[p] = "release"
    /\ Close(p)
    /\ Move(p, "done")
    /\ UNCHANGED <<path, old, goal, tries, stored>>

\* Contended: serve what the peer committed, or poll its lock.
Contended(p) ==
    /\ at[p] = "contended"
    /\ IF committed
       THEN Move(p, "done") /\ UNCHANGED <<goal, tries>>
       ELSE Begin(p, "probe")
    /\ UNCHANGED <<path, old, owner, ino, stored>>

Poll(p) ==
    /\ at[p] = "wait"
    /\ Begin(p, "probe")
    /\ UNCHANGED <<path, old, owner, ino, stored>>

\* Mutant: the wait only ends with a committed entry.
TimeoutServed(p) ==
    /\ at[p] = "wait" /\ committed
    /\ Move(p, "waited")
    /\ UNCHANGED <<path, old, owner, ino, goal, tries, stored>>

\* BUILD_LOCK_TIMEOUT ends the wait.
Timeout(p) ==
    /\ at[p] = "wait"
    /\ Move(p, "waited")
    /\ UNCHANGED <<path, old, owner, ino, goal, tries, stored>>

\* A successful probe drops the lock at once.
Probed(p) ==
    /\ at[p] = "probed"
    /\ Close(p)
    /\ Move(p, "waited")
    /\ UNCHANGED <<path, old, goal, tries, stored>>

\* After the wait: the peer's entry, or a compilation of one's own ...
Waited(p) ==
    /\ at[p] = "waited"
    /\ Move(p, IF committed THEN "done" ELSE "unlocked")
    /\ UNCHANGED <<path, old, owner, ino, goal, tries, stored>>

\* ... whose result is not stored: publication requires the key.
CompileUnlocked(p) ==
    /\ at[p] = "unlocked"
    /\ Move(p, "done")
    /\ UNCHANGED <<path, old, owner, ino, goal, tries, stored>>

\* The next invocation of the compiler for this key.
BuildAgain(p) ==
    /\ at[p] = "done"
    /\ Move(p, "lookup")
    /\ UNCHANGED <<path, old, owner, ino, goal, tries, stored>>

-----------------------------------------------------------------------------
(* remove_stale_lock_file, called for keys that had no entry when the      *)
(* sweep began.                                                            *)

SweepList(p) ==
    /\ at[p] = "rest" /\ ~committed
    /\ path # Nil /\ path \in old
    /\ Move(p, "reopen")
    /\ UNCHANGED <<path, old, owner, ino, goal, tries, stored>>

SweepOpen(p) ==
    /\ at[p] = "reopen"
    /\ IF path = Nil
       THEN Move(p, "rest") /\ UNCHANGED ino
       ELSE Move(p, "sweepLock") /\ ino' = [ino EXCEPT ![p] = path]
    /\ UNCHANGED <<path, old, owner, goal, tries, stored>>

\* Mutant: goes on although somebody has the file locked.
SweepLockIgnored(p) ==
    /\ at[p] = "sweepLock"
    /\ Move(p, "sweepCheck")
    /\ UNCHANGED <<path, old, owner, ino, goal, tries, stored>>

SweepLock(p) ==
    /\ at[p] = "sweepLock"
    /\ IF owner[ino[p]] = Nil
       THEN /\ owner' = [owner EXCEPT ![ino[p]] = p]
            /\ Move(p, "sweepCheck")
            /\ UNCHANGED ino
       ELSE Close(p) /\ Move(p, "rest")
    /\ UNCHANGED <<path, old, goal, tries, stored>>

SweepCheck(p) ==
    /\ at[p] = "sweepCheck"
    /\ IF ino[p] \in old /\ path = ino[p]
       THEN Move(p, "sweepUnlink") /\ UNCHANGED <<ino, owner>>
       ELSE Close(p) /\ Move(p, "rest")
    /\ UNCHANGED <<path, old, goal, tries, stored>>

\* The unlink goes by name: it removes whatever the path names now.
SweepUnlink(p) ==
    /\ at[p] = "sweepUnlink"
    /\ path' = Nil
    /\ Close(p)
    /\ Move(p, "rest")
    /\ UNCHANGED <<old, goal, tries, stored>>

-----------------------------------------------------------------------------
(* The environment.                                                        *)

\* Time passes: nobody has touched the file for the grace period.
Age(i) ==
    /\ i = path /\ i \notin old
    /\ old' = old \cup {i}
    /\ UNCHANGED <<path, owner, ino, at, goal, tries, stored>>

\* An eviction and an import from the remote cache do not take the key's lock.
EvictStored ==
    /\ committed
    /\ stored' = "none"
    /\ UNCHANGED <<path, old, owner, ino, at, goal, tries>>

ImportStored ==
    /\ ~committed
    /\ stored' = "imported"
    /\ UNCHANGED <<path, old, owner, ino, at, goal, tries>>

\* A process dies; the OS closes its files.
Crash(p) ==
    /\ at[p] \notin {"lookup", "done", "rest"}
    /\ Close(p)
    /\ Move(p, IF p \in Builder THEN "done" ELSE "rest")
    /\ UNCHANGED <<path, old, goal, tries, stored>>

-----------------------------------------------------------------------------
Acquire(p) == Open(p) \/ TryLock(p) \/ Current(p) \/ Replaced(p)

Build(p) ==
    \/ Acquire(p) \/ AcquireError(p)
    \/ Lookup(p) \/ Recheck(p) \/ Compile(p) \/ Publish(p) \/ Unlock(p)
    \/ Contended(p) \/ Poll(p) \/ Timeout(p) \/ Probed(p) \/ Waited(p)
    \/ CompileUnlocked(p)

Sweep(p) ==
    \/ SweepList(p) \/ SweepOpen(p) \/ SweepLock(p) \/ SweepCheck(p) \/ SweepUnlink(p)

LockNext ==
    \/ \E p \in Builder : Build(p) \/ BuildAgain(p)
    \/ \E p \in Sweeper : Sweep(p)
    \/ \E p \in Proc : Crash(p)
    \/ \E i \in Inode : Age(i)
    \/ EvictStored \/ ImportStored

LockSpec == LockInit /\ [][LockNext]_lockVars

\* The scheduler runs every process, compilations end, and a wait times out.
LockFairness ==
    \A p \in Builder : WF_lockVars(Build(p)) /\ SF_lockVars(Timeout(p))

LockFairSpec == LockSpec /\ LockFairness

-----------------------------------------------------------------------------
(* Properties.                                                             *)

BuilderPCs == {"lookup", "open", "lock", "check", "recheck", "build", "publish", "release",
               "contended", "wait", "probed", "waited", "unlocked", "done"}
SweeperPCs == {"rest", "reopen", "sweepLock", "sweepCheck", "sweepUnlink"}

\* The lock file, its inodes and the processes' local state keep their types.
LockTypeOK ==
    /\ path \in Inode \cup {Nil}
    /\ old \in SUBSET Inode
    /\ owner \in [Inode -> Proc \cup {Nil}]
    /\ ino \in [Proc -> Inode \cup {Nil}]
    /\ at \in [Proc -> BuilderPCs \cup SweeperPCs]
    /\ \A p \in Proc : at[p] \in BuilderPCs <=> p \in Builder
    /\ goal \in [Builder -> {"claim", "probe"}]
    /\ tries \in [Builder -> 0 .. Attempts]
    /\ stored \in {"none", "built", "imported"}

\* Never are two processes handed the key at once, however sweeps unlink and
\* claims re-create its lock file ("two processes to both believe they hold
\* the same lock" is what acquire_current and the sweep must prevent).
MutualExclusion == \A p, q \in LockHolders : p = q

\* A lock file disappears only while nobody holds the key: the grace "only
\* decides how eagerly idle files go, never whether a holder is safe".
HolderSafe == [][path' = Nil /\ path # Nil => LockHolders = {}]_lockVars

\* The re-check "closes the window where a peer can commit and release its lock":
\* a builder never stores a key over what another builder stored.
PublishOnce == [][\A p \in Builder : Publish(p) => stored # "built"]_lockVars

\* Every compiler invocation ends, whoever holds, sweeps or dies.
Finishes == \A p \in Builder : at[p] = "lookup" ~> at[p] = "done"

-----------------------------------------------------------------------------
(* The inductive invariant.                                                *)

\* A process past its try_lock owns the inode it has open.
Locked ==
    \A p \in Proc :
        at[p] \in {"check", "recheck", "build", "publish", "release", "probed",
                   "sweepCheck", "sweepUnlink"} =>
            ino[p] # Nil /\ owner[ino[p]] = p

\* A process between open and lock has a file open ...
Opened == \A p \in Proc : at[p] \in {"lock", "sweepLock"} => ino[p] # Nil

\* ... and an acquisition in progress has an attempt left.
Attempting ==
    \A p \in Builder : at[p] \in {"open", "lock", "check"} => tries[p] > 0

\* The inode of a holder, and of a sweep about to unlink, is still at the path.
AtPath ==
    \A p \in Proc :
        at[p] \in {"recheck", "build", "publish", "release", "probed", "sweepUnlink"} =>
            path = ino[p]

\* A builder past its re-check is not overtaken by another builder's store.
Unbuilt == \A p \in Builder : at[p] \in {"build", "publish"} => stored # "built"

LockInv == LockTypeOK /\ Opened /\ Attempting /\ Locked /\ AtPath /\ Unbuilt
=============================================================================
