---------------------------- MODULE UploadSpool ----------------------------
(***************************************************************************)
(* The durable upload queue. A wrapper that stored an entry publishes an   *)
(* intent file in the spool, under gc.lock, and only then tells the daemon.*)
(* The daemon publishes the intent again if it has to, queues the key once *)
(* (pending_uploads) and its workers upload, retry and retire the intent.  *)
(* A daemon that starts replays the spool. Garbage collection keeps every  *)
(* entry whose intent it finds.                                            *)
(*                                                                         *)
(* Invalid keys, read-only mode and a missing remote are refused before    *)
(* anything changes and are left out.                                      *)
(***************************************************************************)
EXTENDS Naturals, FiniteSets

CONSTANTS
    Key,
    Wrapper,    \* compiles that store an entry and ask for its upload
    Handler,    \* connection handlers of the daemon
    Worker,     \* upload workers of the daemon
    Gc,         \* the process that sweeps
    None,
    Setups      \* which keys and processes take part, what may go wrong, and the bounds

Publisher == Wrapper \cup Handler
Proc == Publisher \cup Worker \cup {Gc}

\* The remote refuses uploads for good; entries are removed by others than a
\* sweep; fsync and unlink fail; builds are interrupted; power is lost.
Troubles == {"refuse", "remove", "io", "kill", "power"}

ASSUME SpoolAssumption ==
    /\ Wrapper \cap Handler = {} /\ Publisher \cap Worker = {} /\ Gc \notin Publisher \cup Worker
    /\ None \notin Key \cup Proc
    /\ \A s \in Setups :
          /\ s.keys \subseteq Key /\ s.procs \subseteq Proc
          /\ s.trouble \subseteq Troubles
          /\ s.stops \in Nat
          /\ s.jobs \in Nat \ {0}

VARIABLES
    entry,      \* keys committed in the local store
    intents,    \* keys with an intent file in the spool
    durable,    \* intents the spool directory has on disk
    litter,     \* temporary files that killed publishers left in the spool
    gcLock,     \* the holder of gc.lock, or None
    pins,       \* the intents a sweep has read
    remote,     \* keys in the remote
    daemon,     \* "down", "bound", "scanned", "up", "drain" or "closed"
    inbox,      \* upload requests written to the socket, not yet handled
    pending,    \* pending_uploads
    queue,      \* jobs of each key between enqueue and worker
    pc, key,    \* where each process is, and on which key
    tx,         \* the handler holds a clone of the queue's sender
    owed,       \* keys whose upload a wrapper has recorded
    stops,      \* daemon stops and power losses so far
    undone,     \* history: keys whose entry a power loss took back
    missed,     \* history: intents there when the last scan of the spool failed
    setup       \* keys, processes, troubles and bounds, chosen once

vars == <<entry, intents, durable, litter, gcLock, pins, remote, daemon, inbox, pending,
          queue, pc, key, tx, owed, stops, undone, missed, setup>>

spool == <<intents, durable, litter>>
gcVars == <<gcLock, pins>>
server == <<daemon, inbox, pending, queue, tx>>
past == <<stops, undone, missed>>

Refusals == "refuse" \in setup.trouble
Removals == "remove" \in setup.trouble
IoErrors == "io" \in setup.trouble
Kills == "kill" \in setup.trouble
PowerLoss == "power" \in setup.trouble
MaxStops == setup.stops
MaxJobs == setup.jobs    \* UPLOAD_SPOOL_MAX_JOBS

-----------------------------------------------------------------------------
Goto(p, l) == pc' = [pc EXCEPT ![p] = l]

Writing == {p \in Publisher : pc[p] = "write"}
Files == Cardinality(intents) + litter + Cardinality(Writing)

\* Mutant: nobody listens before the spool was scanned.
ListeningLate == daemon \notin {"down", "bound", "scanned"}

\* The listener is bound before the spool is scanned.
Listening == daemon # "down"

\* The intent is on disk: the wrapper goes on to send, the handler to enqueue.
\* A handler that has no sender yet takes one, and gives up on a closed queue.
Persisted(p) ==
    \/ /\ p \in Wrapper
       /\ owed' = owed \cup {key[p]}
       /\ Goto(p, "send")
       /\ UNCHANGED tx
    \/ /\ p \in Handler
       /\ IF tx[p] \/ daemon # "closed"
          THEN tx' = [tx EXCEPT ![p] = TRUE] /\ Goto(p, "enqueue")
          ELSE UNCHANGED tx /\ Goto(p, "idle")
       /\ UNCHANGED owed

Failed(p) ==
    /\ Goto(p, IF p \in Wrapper THEN "done" ELSE "idle")
    /\ UNCHANGED <<tx, owed>>

-----------------------------------------------------------------------------
(* Publishing an intent: persist_upload_job, by wrappers and by handlers.  *)

Compile(w, k) ==
    /\ pc[w] = "idle" /\ w \in setup.procs /\ k \in setup.keys
    /\ entry' = entry \cup {k}
    /\ key' = [key EXCEPT ![w] = k]
    /\ Goto(w, "look")
    /\ UNCHANGED <<spool, gcVars, remote, server, owed, past, setup>>

\* Mutant: trusts the intent another publisher wrote.
ReuseUnflushed(p) == UNCHANGED durable /\ Persisted(p)

\* existing_upload_job flushes the directory again before it is relied on.
Reuse(p) ==
    \/ durable' = intents /\ Persisted(p)
    \/ IoErrors /\ UNCHANGED durable /\ Failed(p)

Look(p) ==
    /\ pc[p] = "look"
    /\ IF key[p] \in intents
       THEN Reuse(p)
       ELSE Goto(p, "lock") /\ UNCHANGED <<durable, tx, owed>>
    /\ UNCHANGED <<entry, intents, litter, gcVars, remote, daemon, inbox, pending, queue, key,
                   past, setup>>

Lock(p) ==
    /\ pc[p] = "lock"
    /\ gcLock = None
    /\ gcLock' = p
    /\ Goto(p, "check")
    /\ UNCHANGED <<entry, spool, pins, remote, server, key, owed, past, setup>>

\* Mutant: one file too many.
HasCapacityOrMore == Files <= MaxJobs
HasCapacity == Files < MaxJobs

\* Mutant: does not look whether the entry is still there.
ContainsUnchecked(k) == TRUE
Contains(k) == k \in entry

\* Under the lock: another publisher's intent, a swept entry, a full spool.
Check(p) ==
    /\ pc[p] = "check"
    /\ \/ /\ key[p] \in intents
          /\ Reuse(p)
          /\ gcLock' = None
       \/ /\ key[p] \notin intents
          /\ ~ (Contains(key[p]) /\ HasCapacity)
          /\ Failed(p)
          /\ gcLock' = None
          /\ UNCHANGED durable
       \/ /\ key[p] \notin intents
          /\ Contains(key[p]) /\ HasCapacity
          /\ Goto(p, "write")
          /\ UNCHANGED <<durable, gcLock, tx, owed>>
    /\ UNCHANGED <<entry, intents, litter, pins, remote, daemon, inbox, pending, queue, key,
                   past, setup>>

\* The temporary file is renamed to the intent.
Publish(p) ==
    /\ pc[p] = "write"
    /\ intents' = intents \cup {key[p]}
    /\ Goto(p, "sync")
    /\ UNCHANGED <<entry, durable, litter, gcVars, remote, server, key, owed, past, setup>>

Sync(p) ==
    /\ pc[p] = "sync"
    /\ gcLock' = None
    /\ Reuse(p)
    /\ UNCHANGED <<entry, intents, litter, pins, remote, daemon, inbox, pending, queue, key,
                   past, setup>>

-----------------------------------------------------------------------------
(* The request: fire and forget. It is lost with the daemon that has it.   *)

Send(w) ==
    /\ pc[w] = "send"
    /\ Listening
    /\ inbox' = inbox \cup {key[w]}
    /\ Goto(w, "done")
    /\ UNCHANGED <<entry, spool, gcVars, remote, daemon, pending, queue, key, tx, owed, past,
                   setup>>

\* The daemon cannot be started, or does not listen for three retries.
GiveUp(w) ==
    /\ pc[w] = "send"
    /\ ~ Listening
    /\ Goto(w, "done")
    /\ UNCHANGED <<entry, spool, gcVars, remote, server, key, owed, past, setup>>

Deliver(h, k) ==
    /\ daemon = "up"
    /\ pc[h] = "idle" /\ h \in setup.procs
    /\ k \in inbox
    /\ inbox' = inbox \ {k}
    /\ key' = [key EXCEPT ![h] = k]
    /\ tx' = [tx EXCEPT ![h] = FALSE]
    /\ Goto(h, "look")
    /\ UNCHANGED <<entry, spool, gcVars, remote, daemon, pending, queue, owed, past, setup>>

\* Mutant: does not look whether the intent is still there.
EnqueueUnchecked(h) ==
    /\ pc[h] = "enqueue"
    /\ Goto(h, "idle")
    /\ IF key[h] \in pending
       THEN UNCHANGED <<pending, queue>>
       ELSE /\ pending' = pending \cup {key[h]}
            /\ queue' = [queue EXCEPT ![key[h]] = @ + 1]
    /\ UNCHANGED <<entry, spool, gcVars, remote, daemon, inbox, key, tx, owed, past, setup>>

\* Under the pending lock. An intent that was retired meanwhile is published again.
Enqueue(h) ==
    /\ pc[h] = "enqueue"
    /\ IF key[h] \in pending
       THEN Goto(h, "idle") /\ UNCHANGED <<pending, queue>>
       ELSE IF key[h] \notin intents
       THEN Goto(h, "look") /\ UNCHANGED <<pending, queue>>
       ELSE /\ pending' = pending \cup {key[h]}
            /\ queue' = [queue EXCEPT ![key[h]] = @ + 1]
            /\ Goto(h, "idle")
    /\ UNCHANGED <<entry, spool, gcVars, remote, daemon, inbox, key, tx, owed, past, setup>>

-----------------------------------------------------------------------------
(* Workers: run_upload_job around do_upload.                               *)

\* Mutant: takes a job that may not be there.
TakeAny(u, k) ==
    /\ daemon \in {"up", "drain", "closed"}
    /\ pc[u] = "idle" /\ u \in setup.procs
    /\ queue' = [queue EXCEPT ![k] = @ - 1]
    /\ key' = [key EXCEPT ![u] = k]
    /\ Goto(u, "try")
    /\ UNCHANGED <<entry, spool, gcVars, remote, daemon, inbox, pending, tx, owed, past, setup>>

Take(u, k) ==
    /\ daemon \in {"up", "drain", "closed"}
    /\ pc[u] = "idle" /\ u \in setup.procs
    /\ queue[k] > 0
    /\ queue' = [queue EXCEPT ![k] = @ - 1]
    /\ key' = [key EXCEPT ![u] = k]
    /\ Goto(u, "try")
    /\ UNCHANGED <<entry, spool, gcVars, remote, daemon, inbox, pending, tx, owed, past, setup>>

Attempt(u) ==
    /\ pc[u] = "try"
    /\ Goto(u, "head")
    /\ UNCHANGED <<entry, spool, gcVars, remote, server, key, owed, past, setup>>

\* The breaker is open, a transient error or the deadline: the loop tries again.
Retry(u) ==
    /\ pc[u] \in {"head", "put"}
    /\ Goto(u, "try")
    /\ UNCHANGED <<entry, spool, gcVars, remote, server, key, owed, past, setup>>

\* A permanent error, or at the PUT a local entry that is gone.
Refuse(u) ==
    /\ \/ Refusals /\ pc[u] \in {"head", "put"}
       \/ pc[u] = "put" /\ key[u] \notin entry
    /\ Goto(u, "retire")
    /\ UNCHANGED <<entry, spool, gcVars, remote, server, key, owed, past, setup>>

Head(u) ==
    /\ pc[u] = "head"
    /\ Goto(u, IF key[u] \in remote THEN "unlink" ELSE "put")
    /\ UNCHANGED <<entry, spool, gcVars, remote, server, key, owed, past, setup>>

Put(u) ==
    /\ pc[u] = "put"
    /\ key[u] \in entry
    /\ remote' = remote \cup {key[u]}
    /\ Goto(u, "unlink")
    /\ UNCHANGED <<entry, spool, gcVars, server, key, owed, past, setup>>

\* remove_upload_job, without the pending lock: unlink, then flush the directory.
\* The error of either is only logged.
Unlink(u) ==
    /\ pc[u] = "unlink"
    /\ \/ intents' = intents \ {key[u]} /\ durable' = intents'
       \/ IoErrors /\ intents' = intents \ {key[u]} /\ UNCHANGED durable
       \/ IoErrors /\ UNCHANGED <<intents, durable>>
    /\ Goto(u, "retire")
    /\ UNCHANGED <<entry, litter, gcVars, remote, server, key, owed, past, setup>>

\* retire_upload_job_with: the unlink and the removal from pending are one step.
Retire(u) ==
    /\ pc[u] = "retire"
    /\ \/ intents' = intents \ {key[u]}
       \/ IoErrors /\ UNCHANGED intents
    /\ pending' = pending \ {key[u]}
    /\ Goto(u, "flush")
    /\ UNCHANGED <<entry, durable, litter, gcVars, remote, daemon, inbox, queue, tx, key, owed,
                   past, setup>>

Flush(u) ==
    /\ pc[u] = "flush"
    /\ \/ durable' = intents
       \/ IoErrors /\ UNCHANGED durable
    /\ Goto(u, "idle")
    /\ UNCHANGED <<entry, intents, litter, gcVars, remote, server, key, owed, past, setup>>

-----------------------------------------------------------------------------
(* The daemon's life: bind, scan, serve; drain and close; or just die.     *)

Bind ==
    /\ daemon = "down"
    /\ daemon' = "bound"
    /\ UNCHANGED <<entry, spool, gcVars, remote, inbox, pending, queue, tx, pc, key, owed,
                   past, setup>>

Scan ==
    /\ daemon = "bound"
    /\ daemon' = "scanned"
    /\ pending' = intents
    /\ queue' = [k \in Key |-> IF k \in intents THEN 1 ELSE 0]
    /\ missed' = {}
    /\ UNCHANGED <<entry, spool, gcVars, remote, inbox, tx, pc, key, owed, stops, undone, setup>>

\* load_upload_jobs ends at the first file it cannot read, also at a temporary file
\* that its publisher renames in between. Then nothing is replayed; the daemon serves.
ScanFails ==
    /\ daemon = "bound"
    /\ IoErrors \/ Writing # {}
    /\ daemon' = "scanned"
    /\ missed' = intents
    /\ UNCHANGED <<entry, spool, gcVars, remote, inbox, pending, queue, tx, pc, key, owed, stops,
                   undone, setup>>

Serve ==
    /\ daemon = "scanned"
    /\ daemon' = "up"
    /\ UNCHANGED <<entry, spool, gcVars, remote, inbox, pending, queue, tx, pc, key, owed,
                   past, setup>>

Drain ==
    /\ \/ daemon = "up" /\ stops < MaxStops /\ daemon' = "drain"
       \/ daemon = "drain" /\ daemon' = "closed"
    /\ UNCHANGED <<entry, spool, gcVars, remote, inbox, pending, queue, tx, pc, key, owed,
                   past, setup>>

\* The processes die where they are: locks are released, temporary files stay.
Die(procs) ==
    /\ pc' = [p \in Proc |-> IF p \notin procs THEN pc[p]
                             ELSE IF p \in Wrapper THEN "done" ELSE "idle"]
    /\ gcLock' = IF gcLock \in procs THEN None ELSE gcLock
    /\ litter' = litter + Cardinality(procs \cap Writing)

\* The end of a drain or a crash; either loses the requests and the queue.
Exit ==
    /\ Listening /\ stops < MaxStops
    /\ stops' = stops + 1
    /\ daemon' = "down"
    /\ inbox' = {} /\ pending' = {}
    /\ queue' = [k \in Key |-> 0]
    /\ Die(Handler \cup Worker)
    /\ UNCHANGED <<entry, intents, durable, pins, remote, key, tx, owed, undone, missed, setup>>

\* A build that is interrupted; an intent that nobody announces waits for the next scan.
Killed(w) ==
    /\ Kills
    /\ pc[w] \notin {"idle", "done"}
    /\ Die({w})
    /\ UNCHANGED <<entry, intents, durable, pins, remote, server, key, owed, past, setup>>

\* The spool directory comes back with some of the changes made since its last flush.
\* The index is written ahead with synchronous=NORMAL: commits may be undone, and a
\* durable intent comes back without its entry.
LosePower ==
    /\ PowerLoss /\ stops < MaxStops
    /\ stops' = stops + 1
    /\ \E kept \in SUBSET ((intents \cup durable) \ (intents \cap durable)) :
           intents' = (intents \cap durable) \cup kept
    /\ durable' = intents'
    /\ \E lost \in SUBSET entry : entry' = entry \ lost /\ undone' = undone \cup lost
    /\ daemon' = "down"
    /\ inbox' = {} /\ pending' = {}
    /\ queue' = [k \in Key |-> 0]
    /\ Die(Proc)
    /\ UNCHANGED <<pins, remote, key, tx, owed, missed, setup>>

-----------------------------------------------------------------------------
(* A sweep, under gc.lock. It refuses to run on a spool it cannot bound.   *)

SweepStart ==
    /\ pc[Gc] = "idle" /\ Gc \in setup.procs /\ gcLock = None
    /\ gcLock' = Gc
    /\ Goto(Gc, "pins")
    /\ UNCHANGED <<entry, spool, pins, remote, server, key, owed, past, setup>>

SweepPins ==
    /\ pc[Gc] = "pins"
    /\ IF Files > MaxJobs
       THEN gcLock' = None /\ Goto(Gc, "idle") /\ UNCHANGED pins
       ELSE pins' = intents /\ Goto(Gc, "evict") /\ UNCHANGED gcLock
    /\ UNCHANGED <<entry, spool, remote, server, key, owed, past, setup>>

Evict(k) ==
    /\ pc[Gc] = "evict"
    /\ k \in entry \ pins
    /\ entry' = entry \ {k}
    /\ UNCHANGED <<spool, gcVars, remote, server, pc, key, owed, past, setup>>

SweepEnd ==
    /\ pc[Gc] = "evict"
    /\ gcLock' = None
    /\ Goto(Gc, "idle")
    /\ UNCHANGED <<entry, spool, pins, remote, server, key, owed, past, setup>>

\* A reader that finds the entry corrupt, or a purge: neither looks at the spool.
RemoveEntry(k) ==
    /\ Removals
    /\ k \in entry
    /\ entry' = entry \ {k}
    /\ UNCHANGED <<spool, gcVars, remote, server, pc, key, owed, past, setup>>

-----------------------------------------------------------------------------
Init ==
    /\ setup \in Setups
    /\ entry = {} /\ intents = {} /\ durable = {} /\ litter = 0
    /\ gcLock = None /\ pins = {} /\ remote = {}
    /\ daemon = "down" /\ inbox = {} /\ pending = {}
    /\ queue = [k \in Key |-> 0]
    /\ pc = [p \in Proc |-> "idle"]
    /\ key = [p \in Proc |-> None]
    /\ tx = [h \in Handler |-> FALSE]
    /\ owed = {}
    /\ stops = 0 /\ undone = {} /\ missed = {}

Persist(p) == Look(p) \/ Lock(p) \/ Check(p) \/ Publish(p) \/ Sync(p)

Upload(u) == Attempt(u) \/ Refuse(u) \/ Head(u) \/ Put(u) \/ Unlink(u) \/ Retire(u) \/ Flush(u)

Sweep == SweepStart \/ SweepPins \/ SweepEnd \/ (\E k \in Key : Evict(k) \/ RemoveEntry(k))

Next ==
    \/ \E w \in Wrapper, k \in Key : Compile(w, k)
    \/ \E p \in Publisher : Persist(p)
    \/ \E w \in Wrapper : Send(w) \/ GiveUp(w) \/ Killed(w)
    \/ \E h \in Handler, k \in Key : Deliver(h, k)
    \/ \E h \in Handler : Enqueue(h)
    \/ \E u \in Worker, k \in Key : Take(u, k)
    \/ \E u \in Worker : Upload(u) \/ Retry(u)
    \/ Bind \/ Scan \/ ScanFails \/ Serve \/ Drain \/ Exit \/ LosePower
    \/ Sweep

Spec == Init /\ [][Next]_vars

(* The next build starts the daemon; its tasks and the sweep run; a remote *)
(* that answers often enough answers; a daemon that drains ends.           *)
FairSpec ==
    /\ Spec
    /\ WF_vars(Bind) /\ WF_vars(Scan \/ ScanFails) /\ WF_vars(Serve)
    /\ WF_vars(daemon \in {"drain", "closed"} /\ (Drain \/ Exit))
    /\ WF_vars(SweepPins) /\ WF_vars(SweepEnd)
    /\ \A p \in Publisher : WF_vars(Persist(p)) /\ SF_vars(Lock(p))
    /\ \A h \in Handler : WF_vars(Enqueue(h)) /\ WF_vars(\E k \in Key : Deliver(h, k))
    /\ \A w \in Wrapper : WF_vars(Send(w) \/ GiveUp(w))
    /\ \A u \in Worker :
        /\ WF_vars(Attempt(u)) /\ SF_vars(Head(u)) /\ SF_vars(Put(u))
        /\ WF_vars(Unlink(u)) /\ WF_vars(Retire(u)) /\ WF_vars(Flush(u))
        /\ WF_vars(\E k \in Key : Take(u, k))

-----------------------------------------------------------------------------
(* Properties.                                                             *)

\* The variables have their types; no queue holds less than nothing.
TypeOK ==
    /\ entry \subseteq Key /\ intents \subseteq Key /\ durable \subseteq Key
    /\ remote \subseteq Key /\ inbox \subseteq Key /\ pending \subseteq Key /\ pins \subseteq Key
    /\ litter \in Nat /\ stops \in Nat /\ undone \subseteq Key /\ missed \subseteq Key
    /\ gcLock \in Publisher \cup {Gc, None}
    /\ daemon \in {"down", "bound", "scanned", "up", "drain", "closed"}
    /\ queue \in [Key -> Nat]
    /\ key \in [Proc -> Key \cup {None}]
    /\ tx \in [Handler -> BOOLEAN]
    /\ owed \subseteq Key
    /\ pc \in [Proc -> {"idle", "look", "lock", "check", "write", "sync", "send", "done",
                        "enqueue", "try", "head", "put", "unlink", "retire", "flush",
                        "pins", "evict"}]

\* Every process is where its kind goes, and works on a key.
Roles ==
    /\ setup \in Setups
    /\ \A w \in Wrapper :
          pc[w] \in {"idle", "look", "lock", "check", "write", "sync", "send", "done"}
    /\ \A h \in Handler :
          pc[h] \in {"idle", "look", "lock", "check", "write", "sync", "enqueue"}
    /\ \A u \in Worker : pc[u] \in {"idle", "try", "head", "put", "unlink", "retire", "flush"}
    /\ pc[Gc] \in {"idle", "pins", "evict"}
    /\ \A p \in Publisher \cup Worker : pc[p] \notin {"idle", "done"} => key[p] \in Key

\* Publishers and the sweep exclude each other by gc.lock.
Locked ==
    /\ \A p \in Publisher : pc[p] \in {"check", "write", "sync"} => gcLock = p
    /\ pc[Gc] \in {"pins", "evict"} => gcLock = Gc

\* A key is pending while it is queued or with its one worker, whose intent
\* stays until the worker itself removes it. A daemon that is not up has no jobs.
Active == {"try", "head", "put", "unlink", "retire"}
Queued(k) == queue[k] > 0 => queue[k] = 1 /\ k \in pending /\ k \in intents
Job(u) ==
    pc[u] \in Active =>
        /\ key[u] \in pending /\ queue[key[u]] = 0
        /\ pc[u] # "retire" => key[u] \in intents
        /\ \A v \in Worker : pc[v] \in Active /\ key[v] = key[u] => v = u
Jobs ==
    /\ \A k \in Key : Queued(k)
    /\ \A u \in Worker : Job(u)
    /\ daemon \in {"down", "bound"} =>
          /\ \A k \in Key : queue[k] = 0
          /\ \A p \in Handler \cup Worker : pc[p] = "idle"

\* The upload of k is over, or promised no more: what a power loss took back is
\* refused at the PUT, and its intent retired.
Settled(k) == Refusals \/ Removals \/ k \in remote \cup undone

\* Intents go, from the spool and from what a flush will bring to the disk, only
\* when the upload is over.
Retired ==
    /\ \A u \in Worker : pc[u] \in {"unlink", "retire"} => Settled(key[u])
    /\ \A p \in Publisher : pc[p] = "sync" => key[p] \in intents \/ Settled(key[p])
    /\ \A k \in durable \ intents : Settled(k)

\* What is written has its entry, and a sweep has read every intent.
Spared ==
    /\ \A p \in Publisher : pc[p] = "write" => Removals \/ key[p] \in entry
    /\ pc[Gc] = "evict" => intents \subseteq pins

(* An intent is never left without the entry it uploads: publication and   *)
(* sweep exclude each other by gc.lock, and the sweep spares what it reads.*)
(* (Readers that find an entry corrupt, and purges, do not look. And after *)
(* a power loss there may be the intent of an upload that is over, whose   *)
(* entry was swept before the removal of the intent was flushed, or of an  *)
(* entry whose commit the power loss undid.)                               *)
IntentHasEntry ==
    Removals \/ \A k \in intents : k \in entry \/ (PowerLoss /\ Settled(k))

(* A wrapper whose upload was recorded keeps it, through retries, daemon   *)
(* stops, duplicate requests and power loss: unless uploads are refused or *)
(* entries removed, the key is in the remote or its intent is on disk,     *)
(* where the next daemon finds it. The promise of an entry that a power    *)
(* loss undid goes with the entry.                                         *)
NotLost == \A k \in owed : Settled(k) \/ k \in intents \cap durable

(* Whatever order handlers and workers take the pending lock in, at most   *)
(* one job of a key exists, and a job that waits has its intent: a daemon  *)
(* that stops with it queued does not lose it.                             *)
JobsDurable ==
    \A k \in Key :
        /\ queue[k] + Cardinality({u \in Worker : key[u] = k /\ pc[u] \in Active}) <= 1
        /\ queue[k] > 0 => k \in intents

(* The spool never grows past what a sweep and a replay read, temporary    *)
(* files of killed publishers included: no sweep is refused. Only a power  *)
(* loss that brings a removed intent back can push it past the bound.      *)
SpoolBounded ==
    /\ IsFiniteSet(intents) /\ IsFiniteSet(durable)
    /\ PowerLoss \/ Files <= MaxJobs

(* The spool keeps its bound, with what it takes to see that neither it,   *)
(* nor the properties above, are ever broken.                              *)
SpoolInv ==
    /\ TypeOK /\ Roles /\ Locked /\ Jobs /\ Retired /\ Spared
    /\ SpoolBounded

(* Every recorded upload reaches the remote, when the remote does not      *)
(* refuse it: a request that is lost with a daemon, or was never sent, is  *)
(* found by the next scan, and none falls between the scan and the socket. *)
(* Only the intents there when a scan failed wait for the next start.      *)
Uploaded ==
    setup.trouble = {} => []<>(owed \subseteq remote \cup missed)
=============================================================================
