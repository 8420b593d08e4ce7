------------------------------ MODULE Handoff ------------------------------
(***************************************************************************)
(* The hand-off of a finished C compile from its wrapper to the daemon.    *)
(* The wrapper drops its key lock, leaves a "pending" receipt beside its   *)
(* snapshots and asks. The daemon reserves a place in the publish queue,   *)
(* claims the key, copies the snapshots and renames the receipt; the       *)
(* wrapper, when its budget is over, removes it. Who wins the receipt owns *)
(* the build event; who holds the key publishes.                           *)
(*                                                                         *)
(* One key. A peer that finds the key held waits (module BuildLock); here  *)
(* a wrapper starts only when it can claim it.                             *)
(***************************************************************************)
EXTENDS Naturals, FiniteSets

CONSTANTS
    Wrapper,
    None,
    Capacity,   \* PUBLISH_QUEUE_CAPACITY
    Setups      \* which wrappers build, and what may go wrong

\* A holder outlives HANDOFF_HOLDER_WAIT; a put fails; receipts, snapshots and
\* claims fail; the daemon drains and dies; its worker cannot open the store.
Troubles == {"slow", "put", "io", "stop", "open"}

\* Who may hold the key: a wrapper, or the daemon's job for one.
Holder == {"wrapper", "daemon"} \X Wrapper

ASSUME HandoffAssumption ==
    /\ None \notin Holder
    /\ Capacity \in Nat \ {0}
    /\ Setups \subseteq [builds : SUBSET Wrapper, trouble : SUBSET Troubles]

VARIABLES
    lock,       \* the key lock: None, <<"wrapper", w>> or <<"daemon", w>>
    committed,  \* the entry is in the store
    puts,       \* publications of the entry
    daemon,     \* "up", "shut" (the queue is closed), "drain" or "dead"
    pc,         \* where each wrapper is
    files,      \* the wrapper's snapshots exist
    receipt,    \* "none", "pending" or "accepted"
    hpc,        \* where the daemon is with each wrapper's request
    slots,      \* requests that hold a place in the queue
    owns,       \* the daemon's job owns the event
    events,     \* build events written for each wrapper's compile
    setup       \* the wrappers that build and the troubles they meet, chosen once

vars == <<lock, committed, puts, daemon, pc, files, receipt, hpc, slots, owns, events,
          setup>>

entry == <<committed, puts>>

Slow == "slow" \in setup.trouble
PutErrors == "put" \in setup.trouble
IoErrors == "io" \in setup.trouble
Stops == "stop" \in setup.trouble
NoStore == "open" \in setup.trouble

-----------------------------------------------------------------------------
W(w) == <<"wrapper", w>>
D(w) == <<"daemon", w>>

Goto(w, l) == pc' = [pc EXCEPT ![w] = l]
HGoto(w, l) == hpc' = [hpc EXCEPT ![w] = l]

Unlock(h) == lock' = IF lock = h THEN None ELSE lock

Put == committed' = TRUE /\ puts' = puts + 1

\* Store::claim_build, by its outcome.
Acquired(h) == lock = None /\ ~committed /\ lock' = h
Committed == committed /\ UNCHANGED lock
Contended == lock # None /\ ~committed /\ UNCHANGED lock

-----------------------------------------------------------------------------
(* The wrapper.                                                            *)

\* A miss: the wrapper claims the key and compiles.
Compile(w) ==
    /\ pc[w] = "idle" /\ w \in setup.builds
    /\ Acquired(W(w))
    /\ Goto(w, "compiled")
    /\ UNCHANGED <<entry, daemon, files, receipt, hpc, slots, owns, events, setup>>

\* hand_off_cc_store: snapshot, drop the lock, leave the receipt, send.
Offer(w) ==
    /\ pc[w] = "compiled"
    /\ Unlock(W(w))
    /\ files' = [files EXCEPT ![w] = TRUE]
    /\ receipt' = [receipt EXCEPT ![w] = "pending"]
    /\ HGoto(w, "sent")
    /\ Goto(w, "wait")
    /\ UNCHANGED <<entry, daemon, slots, owns, events, setup>>

\* No socket, or no receipt: declined before anything is sent.
NoDaemon(w) ==
    /\ pc[w] = "compiled"
    /\ daemon = "dead" \/ IoErrors
    /\ Unlock(W(w))
    /\ Goto(w, "reclaim")
    /\ UNCHANGED <<entry, daemon, files, receipt, hpc, slots, owns, events, setup>>

\* The outputs cannot be snapshotted: store here, with the lock still held.
KeepLock(w) ==
    /\ pc[w] = "compiled"
    /\ IoErrors
    /\ Goto(w, "put")
    /\ UNCHANGED <<lock, entry, daemon, files, receipt, hpc, slots, owns, events, setup>>

\* finish_handoff, after a reply, an error or the end of the budget.
Finish(w) ==
    /\ pc[w] = "wait"
    /\ Goto(w, IF receipt[w] = "pending" THEN "declined" ELSE "done")
    /\ receipt' = [receipt EXCEPT ![w] = "none"]
    /\ UNCHANGED <<lock, entry, daemon, files, hpc, slots, owns, events, setup>>

\* The receipt cannot be removed: leave the put to the daemon.
FinishUnsure(w) ==
    /\ pc[w] = "wait"
    /\ IoErrors /\ receipt[w] = "pending"
    /\ Goto(w, "done")
    /\ UNCHANGED <<lock, entry, daemon, files, receipt, hpc, slots, owns, events, setup>>

RemoveFiles(w) ==
    /\ pc[w] = "declined"
    /\ files' = [files EXCEPT ![w] = FALSE]
    /\ Goto(w, "reclaim")
    /\ UNCHANGED <<lock, entry, daemon, receipt, hpc, slots, owns, events, setup>>

\* Mutant: the wrapper stores although it could not take the key back.
ReclaimNever(w) ==
    /\ pc[w] \in {"reclaim", "again"}
    /\ Goto(w, "put")
    /\ UNCHANGED <<lock, entry, daemon, files, receipt, hpc, slots, owns, events, setup>>

\* reclaim_after_declined_handoff: claim, wait for a holder once, claim again.
Reclaim(w) ==
    /\ pc[w] \in {"reclaim", "again"}
    /\ \/ Acquired(W(w)) /\ Goto(w, "put")
       \/ Committed /\ Goto(w, "log")
       \/ Contended /\ Goto(w, IF pc[w] = "reclaim" THEN "hold" ELSE "log")
       \/ IoErrors /\ UNCHANGED lock /\ Goto(w, "put")
    /\ UNCHANGED <<entry, daemon, files, receipt, hpc, slots, owns, events, setup>>

HolderGone(w) ==
    /\ pc[w] = "hold"
    /\ Slow \/ lock = None
    /\ Goto(w, "again")
    /\ UNCHANGED <<lock, entry, daemon, files, receipt, hpc, slots, owns, events, setup>>

WrapperPut(w) ==
    /\ pc[w] = "put"
    /\ Put \/ (PutErrors /\ UNCHANGED entry)
    /\ Goto(w, "log")
    /\ UNCHANGED <<lock, daemon, files, receipt, hpc, slots, owns, events, setup>>

\* The event is written before the lock is dropped.
Log(w) ==
    /\ pc[w] = "log"
    /\ events' = [events EXCEPT ![w] = @ + 1]
    /\ Unlock(W(w))
    /\ Goto(w, "done")
    /\ UNCHANGED <<entry, daemon, files, receipt, hpc, slots, owns, setup>>

-----------------------------------------------------------------------------
(* The daemon's handler of the request of w: handle_publish_cc.            *)

Refuse(w) ==
    /\ slots' = slots \ {w}
    /\ Unlock(D(w))
    /\ HGoto(w, "done")

\* Mutant: a full queue is not noticed.
ReserveAlways(w) ==
    /\ hpc[w] = "sent"
    /\ IF daemon = "up"
       THEN slots' = slots \cup {w} /\ HGoto(w, "reserved") /\ UNCHANGED lock
       ELSE Refuse(w)
    /\ UNCHANGED <<entry, daemon, pc, files, receipt, owns, events, setup>>

Reserve(w) ==
    /\ hpc[w] = "sent"
    /\ IF daemon = "up" /\ Cardinality(slots) < Capacity
       THEN slots' = slots \cup {w} /\ HGoto(w, "reserved") /\ UNCHANGED lock
       ELSE Refuse(w)
    /\ UNCHANGED <<entry, daemon, pc, files, receipt, owns, events, setup>>

Claim(w) ==
    /\ hpc[w] = "reserved"
    /\ \/ Acquired(D(w)) /\ HGoto(w, "claimed") /\ UNCHANGED slots
       \/ committed /\ Refuse(w)
       \/ lock # None /\ ~committed /\ Refuse(w)
       \/ IoErrors /\ Refuse(w)
    /\ UNCHANGED <<entry, daemon, pc, files, receipt, owns, events, setup>>

\* A snapshot that a cancelled wrapper has removed is refused, like one that fails.
Snapshot(w) ==
    /\ hpc[w] = "claimed"
    /\ \/ files[w] /\ HGoto(w, "snapped") /\ UNCHANGED <<lock, slots>>
       \/ (IoErrors \/ ~files[w]) /\ Refuse(w)
    /\ UNCHANGED <<entry, daemon, pc, files, receipt, owns, events, setup>>

\* Mutant: a cancelled receipt is taken for an accepted one.
AcceptAnyway(w) ==
    /\ hpc[w] = "snapped"
    /\ owns' = [owns EXCEPT ![w] = TRUE]
    /\ receipt' = [receipt EXCEPT ![w] = IF @ = "pending" THEN "accepted" ELSE @]
    /\ files' = [files EXCEPT ![w] = FALSE]
    /\ HGoto(w, "accepted")
    /\ UNCHANGED <<lock, entry, daemon, pc, slots, events, setup>>

\* Mutant: the daemon publishes and leaves the event to the wrapper.
AcceptSilently(w) ==
    /\ hpc[w] = "snapped"
    /\ receipt' = [receipt EXCEPT ![w] = IF @ = "pending" THEN "accepted" ELSE @]
    /\ files' = [files EXCEPT ![w] = FALSE]
    /\ HGoto(w, "accepted")
    /\ UNCHANGED <<lock, entry, daemon, pc, slots, owns, events, setup>>

\* The rename races the wrapper's removal; without the receipt the job goes on,
\* without the event.
Accept(w) ==
    /\ hpc[w] = "snapped"
    /\ owns' = [owns EXCEPT ![w] = receipt[w] = "pending"]
    /\ receipt' = [receipt EXCEPT ![w] = IF @ = "pending" THEN "accepted" ELSE @]
    /\ files' = [files EXCEPT ![w] = FALSE]
    /\ HGoto(w, "accepted")
    /\ UNCHANGED <<lock, entry, daemon, pc, slots, events, setup>>

\* The rename fails and the receipt stays: the daemon lets go of the key.
AcceptFails(w) ==
    /\ hpc[w] = "snapped"
    /\ IoErrors /\ receipt[w] = "pending"
    /\ Refuse(w)
    /\ UNCHANGED <<entry, daemon, pc, files, receipt, owns, events, setup>>

Enqueue(w) ==
    /\ hpc[w] = "accepted"
    /\ HGoto(w, "queued")
    /\ UNCHANGED <<lock, entry, daemon, pc, files, receipt, slots, owns, events, setup>>

\* A handler that outlives the drain is aborted; its blocking work still ends.
Abort(w) ==
    /\ daemon = "drain"
    /\ hpc[w] \in {"sent", "accepted"}
    /\ Refuse(w)
    /\ UNCHANGED <<entry, daemon, pc, files, receipt, owns, events, setup>>

\* Aborted while its claim is under way, it leaves the claim to end by itself ...
AbortClaim(w) ==
    /\ daemon = "drain"
    /\ hpc[w] = "reserved"
    /\ slots' = slots \ {w}
    /\ HGoto(w, "late")
    /\ UNCHANGED <<lock, entry, daemon, pc, files, receipt, owns, events, setup>>

\* ... which may take the key, only for its result to be dropped.
ClaimLate(w) ==
    /\ hpc[w] = "late"
    /\ \/ Acquired(D(w)) /\ HGoto(w, "orphan")
       \/ (Committed \/ Contended) /\ HGoto(w, "done")
       \/ IoErrors /\ UNCHANGED lock /\ HGoto(w, "done")
    /\ UNCHANGED <<entry, daemon, pc, files, receipt, slots, owns, events, setup>>

DropClaim(w) ==
    /\ hpc[w] = "orphan"
    /\ Unlock(D(w))
    /\ HGoto(w, "done")
    /\ UNCHANGED <<entry, daemon, pc, files, receipt, slots, owns, events, setup>>

-----------------------------------------------------------------------------
(* The publish worker, one job at a time: publish_one.                     *)

\* Without a store it closes the queue and lets go of the jobs it holds.
OpenFails ==
    /\ NoStore /\ daemon = "up"
    /\ daemon' = "shut"
    /\ UNCHANGED <<lock, entry, pc, files, receipt, hpc, slots, owns, events, setup>>

Discard(w) ==
    /\ NoStore /\ daemon # "up" /\ hpc[w] = "queued"
    /\ Refuse(w)
    /\ UNCHANGED <<entry, daemon, pc, files, receipt, owns, events, setup>>

Receive(w) ==
    /\ ~NoStore /\ hpc[w] = "queued"
    /\ \A v \in Wrapper : hpc[v] \notin {"storing", "stored", "logged"}
    /\ slots' = slots \ {w}
    /\ HGoto(w, "storing")
    /\ UNCHANGED <<lock, entry, daemon, pc, files, receipt, owns, events, setup>>

Store(w) ==
    /\ hpc[w] = "storing"
    /\ Put \/ (PutErrors /\ UNCHANGED entry)
    /\ HGoto(w, "stored")
    /\ UNCHANGED <<lock, daemon, pc, files, receipt, slots, owns, events, setup>>

WriteEvent(w) ==
    /\ hpc[w] = "stored"
    /\ events' = [events EXCEPT ![w] = IF owns[w] THEN @ + 1 ELSE @]
    /\ HGoto(w, "logged")
    /\ UNCHANGED <<lock, entry, daemon, pc, files, receipt, slots, owns, setup>>

\* Mutant: the job ends and its lock is never given back.
KeepKey(w) ==
    /\ hpc[w] = "logged"
    /\ HGoto(w, "done")
    /\ UNCHANGED <<lock, entry, daemon, pc, files, receipt, slots, owns, events, setup>>

DropLock(w) ==
    /\ hpc[w] = "logged"
    /\ Unlock(D(w))
    /\ HGoto(w, "done")
    /\ UNCHANGED <<entry, daemon, pc, files, receipt, slots, owns, events, setup>>

Drain ==
    /\ Stops /\ daemon \in {"up", "shut"}
    /\ daemon' = "drain"
    /\ UNCHANGED <<lock, entry, pc, files, receipt, hpc, slots, owns, events, setup>>

\* A crash, or a drain that gives up on a worker without progress.
Die ==
    /\ Stops /\ daemon # "dead"
    /\ daemon' = "dead"
    /\ hpc' = [w \in Wrapper |-> IF hpc[w] = "none" THEN "none" ELSE "done"]
    /\ slots' = {}
    /\ lock' = IF \E w \in Wrapper : lock = D(w) THEN None ELSE lock
    /\ UNCHANGED <<entry, pc, files, receipt, owns, events, setup>>

-----------------------------------------------------------------------------
Init ==
    /\ setup \in Setups
    /\ lock = None /\ committed = FALSE /\ puts = 0 /\ daemon = "up" /\ slots = {}
    /\ pc = [w \in Wrapper |-> "idle"]
    /\ hpc = [w \in Wrapper |-> "none"]
    /\ receipt = [w \in Wrapper |-> "none"]
    /\ files = [w \in Wrapper |-> FALSE]
    /\ owns = [w \in Wrapper |-> FALSE]
    /\ events = [w \in Wrapper |-> 0]

Wrap(w) ==
    Offer(w) \/ NoDaemon(w) \/ KeepLock(w) \/ Finish(w) \/ FinishUnsure(w) \/ RemoveFiles(w)
    \/ Reclaim(w) \/ HolderGone(w) \/ WrapperPut(w) \/ Log(w)

Handle(w) ==
    Reserve(w) \/ Claim(w) \/ Snapshot(w) \/ Accept(w) \/ AcceptFails(w) \/ Enqueue(w)
    \/ Abort(w) \/ AbortClaim(w) \/ ClaimLate(w) \/ DropClaim(w)

Work(w) == Discard(w) \/ Receive(w) \/ Store(w) \/ WriteEvent(w) \/ DropLock(w)

Next ==
    \/ \E w \in Wrapper : Compile(w) \/ Wrap(w) \/ Handle(w) \/ Work(w)
    \/ OpenFails \/ Drain \/ Die

Spec == Init /\ [][Next]_vars

(* Wrappers, handlers and the worker run; whether a build starts is open.  *)
FairSpec ==
    /\ Spec /\ WF_vars(OpenFails)
    /\ \A w \in Wrapper : WF_vars(Wrap(w)) /\ WF_vars(Handle(w)) /\ WF_vars(Work(w))

-----------------------------------------------------------------------------
\* The variables have their types and the queue its capacity.
TypeOK ==
    /\ lock \in {None} \cup Holder
    /\ committed \in BOOLEAN /\ puts \in Nat
    /\ daemon \in {"up", "shut", "drain", "dead"}
    /\ pc \in [Wrapper -> {"idle", "compiled", "wait", "declined", "reclaim", "hold", "again",
                           "put", "log", "done"}]
    /\ hpc \in [Wrapper -> {"none", "sent", "reserved", "claimed", "snapped", "accepted",
                            "queued", "storing", "stored", "logged", "late", "orphan", "done"}]
    /\ receipt \in [Wrapper -> {"none", "pending", "accepted"}]
    /\ slots \subseteq Wrapper /\ IsFiniteSet(slots) /\ Cardinality(slots) <= Capacity
    /\ files \in [Wrapper -> BOOLEAN] /\ owns \in [Wrapper -> BOOLEAN]
    /\ events \in [Wrapper -> Nat]

(* The receipt decides once who writes the event: no compile is counted    *)
(* twice, however reply, budget, rename and removal interleave and         *)
(* whatever fails or dies.                                                 *)
EventOnce == \A w \in Wrapper : events[w] <= 1

\* Until it has compiled, a wrapper is unknown to the daemon; once it gave up
\* on the daemon there is no receipt left to accept.
Receipts ==
    \A w \in Wrapper :
        /\ pc[w] \in {"idle", "compiled"} => hpc[w] = "none"
        /\ pc[w] \notin {"wait", "done"} => receipt[w] = "none" /\ events[w] = 0 /\ ~owns[w]

\* A job that owns the event took the receipt from a wrapper that does not
\* write it; an event was written by the owner, and the other never follows.
Counted ==
    \A w \in Wrapper :
        /\ owns[w] =>
              /\ hpc[w] \in {"accepted", "queued", "storing", "stored", "logged", "done"}
              /\ pc[w] = "wait" => receipt[w] = "accepted"
        /\ events[w] > 0 =>
              IF owns[w] THEN hpc[w] \in {"logged", "done"}
                         ELSE pc[w] = "done" /\ receipt[w] = "none"

\* Where a wrapper and the daemon's job rely on the key, and where they rely
\* on the entry being absent.
WrapperHolds == {"compiled", "put"}
JobHolds ==
    {"claimed", "snapped", "accepted", "queued", "storing", "stored", "logged", "orphan"}
JobStores == JobHolds \ {"stored", "logged"}

\* Who is to store the entry has the key, and the entry is not there yet.
KeyHeld ==
    IoErrors \/
        /\ puts = IF committed THEN 1 ELSE 0
        /\ \A w \in Wrapper :
              /\ pc[w] \in WrapperHolds => lock = W(w) /\ ~committed
              /\ hpc[w] \in JobHolds => lock = D(w)
              /\ hpc[w] \in JobStores => ~committed

\* The queue stays within its capacity and no compile is counted twice, with
\* what it takes to see that no step breaks it.
HandoffInv == TypeOK /\ EventOnce /\ Receipts /\ Counted /\ KeyHeld

(* When every claim is answered, the entry is published once: a wrapper    *)
(* whose offer was declined does not publish what the daemon or a peer     *)
(* publishes, and a late handler does not publish after the wrapper.       *)
PublishedOnce == IoErrors \/ puts <= 1

(* A key the daemon claimed is given back: whether the request is refused, *)
(* cancelled, aborted or published, and when the daemon dies.              *)
KeyFreed == []<>(\A w \in Wrapper : lock # D(w))

(* Every compile ends with its event, unless the daemon dies with it, its  *)
(* worker has no store or the receipt cannot be removed.                   *)
EventWritten ==
    IoErrors \/ Stops \/ NoStore \/ []<>(\A w \in Wrapper : pc[w] # "idle" => events[w] = 1)
=============================================================================
