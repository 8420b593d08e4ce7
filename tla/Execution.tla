----------------------------- MODULE Execution -----------------------------
(***************************************************************************)
(* Compiler hand-over from a client to the daemon: Request, Ready or       *)
(* Declined, descriptors, Prepared, Commit, Accepted, then Complete or     *)
(* Failed. Until its first Commit write the client may try again and       *)
(* finally compile locally; from then on it may not. The daemon's worker   *)
(* runs the cache pipeline and asks the client, through a broker channel,  *)
(* to spawn the compiler as the client's own child.                        *)
(*                                                                         *)
(* Every try is a connection of its own, <<client, try>>, with its own     *)
(* handler in the daemon, which may outlive the client's interest in it.   *)
(***************************************************************************)
EXTENDS Naturals, Sequences, FiniteSets

CONSTANTS
    Client,     \* compiler invocations
    Tries,      \* bound on the hand-overs of one client
    Setups,     \* hand-overs each client attempts, clients with endless compilers
    Cap,        \* permits of execution_workers
    Faults,     \* deadlines pass, requests are refused, writes fail
    Drains,     \* the daemon may drain and abort what outlasts the drain
    Crashes,    \* the daemon may die
    Dies        \* clients may be killed

Conn == Client \X (1..Tries)

ASSUME ExecutionAssumption ==
    /\ Tries \in Nat \ {0}
    /\ Setups \subseteq [budget : [Client -> 0..Tries], endless : SUBSET Client]
    /\ Cap \in Nat
    /\ {Faults, Drains, Crashes, Dies} \subseteq BOOLEAN

VARIABLES
    cpc,        \* where each client is
    try,        \* its current try
    cOpen,      \* connections whose client end is open
    hOpen,      \* connections whose daemon end is open
    down,       \* replies on their way to the client
    fds,        \* connections whose descriptors were sent
    commit,     \* what of Commit was written: "none", "torn" or "sent"
    hpc,        \* where each handler is
    wpc,        \* where its blocking worker is
    outcome,    \* the reply a worker's result calls for
    permits,    \* free permits of execution_workers
    cancelled,  \* connections whose cancellation token is set
    registry,   \* connections whose child registry is locked by the worker
    ask,        \* broker request: "none", "asked", "served", "refused" or "stale"
    child,      \* the compiler child: "none", "running", "exited", "killed"
    starts,     \* compilers started for a client, by itself or for the daemon
    daemon,     \* "up", "drain" or "down"
    budget,     \* hand-overs each client attempts before it compiles locally
    endless     \* clients whose compilers may run for ever

client == <<cpc, try, cOpen, fds, commit>>
handler == <<hpc, hOpen>>
worker == <<wpc, outcome, registry>>
broker == <<ask, child, starts>>
setup == <<budget, endless>>
vars == <<client, down, handler, worker, permits, cancelled, broker, daemon, setup>>

-----------------------------------------------------------------------------
Cur(c) == <<c, try[c]>>
Over == {"exit", "built", "error", "dead"}

Goto(c, l) == cpc' = [cpc EXCEPT ![c] = l]
HGoto(x, l) == hpc' = [hpc EXCEPT ![x] = l]
WGoto(x, l) == wpc' = [wpc EXCEPT ![x] = l]

Head1(x, m) == down[x] # << >> /\ Head(down[x]) = m
Eof(x) == down[x] = << >> /\ x \notin hOpen
Pop(x) == down' = [down EXCEPT ![x] = Tail(@)]
Push(x, m) == down' = [down EXCEPT ![x] = Append(@, m)]

\* Wrong: the client goes without a look at its children.
CloseOnly(x) ==
    /\ cOpen' = cOpen \ {x}
    /\ UNCHANGED child

\* Dropping the client side kills and reaps its compiler child.
Close(x) ==
    /\ cOpen' = cOpen \ {x}
    /\ child' = [child EXCEPT ![x] = IF @ = "running" THEN "killed" ELSE @]

\* The next try, or the local compile once there is none.
Fallback(c) ==
    IF try[c] < budget[c]
    THEN try' = [try EXCEPT ![c] = @ + 1] /\ Goto(c, "try")
    ELSE UNCHANGED try /\ Goto(c, "local")

\* A handler that has its permit and has not given it to a worker.
HasPermit(x) == hpc[x] \in {"fds", "commit", "accept"}

Init ==
    /\ \E s \in Setups : budget = s.budget /\ endless = s.endless
    /\ cpc = [c \in Client |-> IF budget[c] = 0 THEN "local" ELSE "try"]
    /\ try = [c \in Client |-> 1]
    /\ cOpen = {} /\ hOpen = {}
    /\ down = [x \in Conn |-> << >>]
    /\ fds = {}
    /\ commit = [x \in Conn |-> "none"]
    /\ hpc = [x \in Conn |-> "none"]
    /\ wpc = [x \in Conn |-> "none"]
    /\ outcome = [x \in Conn |-> "Failed"]
    /\ permits = Cap
    /\ cancelled = {} /\ registry = {}
    /\ ask = [x \in Conn |-> "none"]
    /\ child = [x \in Conn |-> "none"]
    /\ starts = [c \in Client |-> 0]
    /\ daemon = "up"

-----------------------------------------------------------------------------
(* The client *)

\* Connect and send the request; nobody listens while the daemon drains.
Connect(c) ==
    /\ cpc[c] = "try"
    /\ IF daemon = "up"
       THEN /\ cOpen' = cOpen \cup {Cur(c)} /\ hOpen' = hOpen \cup {Cur(c)}
            /\ HGoto(Cur(c), "begin") /\ Goto(c, "ready") /\ UNCHANGED try
       ELSE Fallback(c) /\ UNCHANGED <<cOpen, handler>>
    /\ UNCHANGED <<fds, commit, down, worker, permits, cancelled, broker, daemon, setup>>

\* Ready names the endpoint the descriptors go to.
GetReady(c) ==
    /\ cpc[c] = "ready" /\ Head1(Cur(c), "Ready")
    /\ Pop(Cur(c))
    /\ fds' = fds \cup {Cur(c)}
    /\ Goto(c, "prepared")
    /\ UNCHANGED <<try, cOpen, commit, handler, worker, permits, cancelled, broker, daemon,
                   setup>>

GetPrepared(c) ==
    /\ cpc[c] = "prepared" /\ Head1(Cur(c), "Prepared")
    /\ Pop(Cur(c))
    /\ Goto(c, "commit")
    /\ UNCHANGED <<try, cOpen, fds, commit, handler, worker, permits, cancelled, broker,
                   daemon, setup>>

\* Before Commit every refusal, disconnect, deadline or error permits a fallback.
GiveUp(c) ==
    /\ cpc[c] \in {"ready", "prepared", "commit"}
    /\ Head1(Cur(c), "Declined") \/ (Eof(Cur(c)) /\ cpc[c] # "commit") \/ Faults
    /\ Fallback(c)
    /\ Close(Cur(c))
    /\ UNCHANGED <<fds, commit, down, handler, worker, permits, cancelled, ask, starts, daemon,
                   setup>>

WriteCommit(c) ==
    /\ cpc[c] = "commit"
    /\ commit' = [commit EXCEPT ![Cur(c)] = "sent"]
    /\ Goto(c, "accepted")
    /\ UNCHANGED <<try, cOpen, fds, down, handler, worker, permits, cancelled, broker, daemon,
                   setup>>

\* The write failed, after none, some or all of the frame: no fallback any more.
CommitError(c) ==
    /\ cpc[c] = "commit"
    /\ Faults \/ Cur(c) \notin hOpen
    /\ \E w \in {"none", "torn", "sent"} : commit' = [commit EXCEPT ![Cur(c)] = w]
    /\ Goto(c, "error")
    /\ Close(Cur(c))
    /\ UNCHANGED <<try, fds, down, handler, worker, permits, cancelled, ask, starts, daemon,
                   setup>>

GetAccepted(c) ==
    /\ cpc[c] = "accepted" /\ Head1(Cur(c), "Accepted")
    /\ Pop(Cur(c))
    /\ Goto(c, "complete")
    /\ UNCHANGED <<try, cOpen, fds, commit, handler, worker, permits, cancelled, broker,
                   daemon, setup>>

\* The compiler cannot be started: the request is answered with that error and
\* the channel stays open.
Refuse(c) ==
    /\ Faults
    /\ cpc[c] = "complete" /\ down[Cur(c)] = << >> /\ Cur(c) \in hOpen
    /\ ask[Cur(c)] = "asked"
    /\ ask' = [ask EXCEPT ![Cur(c)] = "refused"]
    /\ UNCHANGED <<client, down, handler, worker, permits, cancelled, child, starts, daemon,
                   setup>>

\* The daemon's spawn request; a reply on the main connection comes first. One
\* the worker has given up on is found out when the answer cannot be written.
Serve(c) ==
    /\ cpc[c] = "complete" /\ down[Cur(c)] = << >> /\ Cur(c) \in hOpen
    /\ ask[Cur(c)] \in {"asked", "stale"}
    /\ starts' = [starts EXCEPT ![c] = @ + 1]
    /\ IF ask[Cur(c)] = "asked"
       THEN /\ ask' = [ask EXCEPT ![Cur(c)] = "served"]
            /\ child' = [child EXCEPT ![Cur(c)] = "running"]
            /\ UNCHANGED <<cpc, cOpen>>
       ELSE /\ child' = [child EXCEPT ![Cur(c)] = "killed"]
            /\ cOpen' = cOpen \ {Cur(c)}
            /\ Goto(c, "error")
            /\ UNCHANGED ask
    /\ UNCHANGED <<try, fds, commit, down, handler, worker, permits, cancelled, daemon, setup>>

GetComplete(c) ==
    /\ cpc[c] = "complete" /\ Head1(Cur(c), "Complete")
    /\ Pop(Cur(c))
    /\ Goto(c, "exit")
    /\ Close(Cur(c))
    /\ UNCHANGED <<try, fds, commit, handler, worker, permits, cancelled, ask, starts, daemon,
                   setup>>

\* Wrong: after Commit the client waits for a reply whatever becomes of the connection.
LostUnnoticed(c) ==
    /\ cpc[c] \in {"accepted", "complete"}
    /\ Head1(Cur(c), "Failed")
    /\ Goto(c, "error")
    /\ Close(Cur(c))
    /\ UNCHANGED <<try, fds, commit, down, handler, worker, permits, cancelled, ask, starts,
                   daemon, setup>>

\* After Commit a failure or a lost connection is an error of the build.
Lost(c) ==
    /\ cpc[c] \in {"accepted", "complete"}
    /\ Eof(Cur(c)) \/ Head1(Cur(c), "Failed")
    /\ Goto(c, "error")
    /\ Close(Cur(c))
    /\ UNCHANGED <<try, fds, commit, down, handler, worker, permits, cancelled, ask, starts,
                   daemon, setup>>

CompileLocally(c) ==
    /\ cpc[c] = "local"
    /\ starts' = [starts EXCEPT ![c] = @ + 1]
    /\ Goto(c, "built")
    /\ UNCHANGED <<try, cOpen, fds, commit, down, handler, worker, permits, cancelled, ask,
                   child, daemon, setup>>

\* A killed client takes its children along.
Die(c) ==
    /\ Dies /\ cpc[c] \notin Over
    /\ Goto(c, "dead")
    /\ Close(Cur(c))
    /\ UNCHANGED <<try, fds, commit, down, handler, worker, permits, cancelled, ask, starts,
                   daemon, setup>>

ChildExit(x) ==
    /\ child[x] = "running"
    /\ child' = [child EXCEPT ![x] = "exited"]
    /\ UNCHANGED <<client, down, handler, worker, permits, cancelled, ask, starts, daemon, setup>>

-----------------------------------------------------------------------------
(* The connection handler *)

\* The peer may not delegate, the request does not decode, or no permit is free.
Decline(x) ==
    /\ hpc[x] = "begin" /\ (Faults \/ permits = 0)
    /\ Push(x, "Declined")
    /\ HGoto(x, "gone") /\ hOpen' = hOpen \ {x}
    /\ UNCHANGED <<client, worker, permits, cancelled, broker, daemon, setup>>

Begin(x) ==
    /\ hpc[x] = "begin" /\ permits > 0
    /\ permits' = permits - 1
    /\ Push(x, "Ready")
    /\ HGoto(x, "fds")
    /\ UNCHANGED <<client, hOpen, worker, cancelled, broker, daemon, setup>>

\* Wrong: the worker is started with Prepared, before Commit was read.
GetFdsStarts(x) ==
    /\ hpc[x] = "fds" /\ x \in fds
    /\ Push(x, "Prepared")
    /\ HGoto(x, "run") /\ WGoto(x, "enter")
    /\ UNCHANGED <<client, hOpen, outcome, registry, permits, cancelled, broker, daemon, setup>>

GetFds(x) ==
    /\ hpc[x] = "fds" /\ x \in fds
    /\ Push(x, "Prepared")
    /\ HGoto(x, "commit")
    /\ UNCHANGED <<client, hOpen, worker, permits, cancelled, broker, daemon, setup>>

\* A whole line, or what came before the end of a closed stream.
GetCommit(x) ==
    /\ hpc[x] = "commit"
    /\ commit[x] = "sent" \/ (commit[x] = "torn" /\ x \notin cOpen)
    /\ HGoto(x, "accept")
    /\ UNCHANGED <<client, down, hOpen, worker, permits, cancelled, broker, daemon, setup>>

\* Wrong: a handler that leaves after Commit drops its permit twice.
HandlerLeavesTwice(x) ==
    /\ hpc[x] \in {"begin", "fds", "commit", "accept"}
    /\ daemon = "drain" \/ x \notin cOpen \/ Faults
    /\ permits' = IF HasPermit(x) THEN permits + (IF hpc[x] = "accept" THEN 2 ELSE 1) ELSE permits
    /\ HGoto(x, "gone") /\ hOpen' = hOpen \ {x}
    /\ UNCHANGED <<client, down, worker, cancelled, broker, daemon, setup>>

\* A drain, a disconnect, a deadline or an error ends a handler without a worker.
HandlerLeaves(x) ==
    /\ hpc[x] \in {"begin", "fds", "commit", "accept"}
    /\ daemon = "drain" \/ x \notin cOpen \/ Faults
    /\ permits' = IF HasPermit(x) THEN permits + 1 ELSE permits
    /\ HGoto(x, "gone") /\ hOpen' = hOpen \ {x}
    /\ UNCHANGED <<client, down, worker, cancelled, broker, daemon, setup>>

\* Accepted is written, then the worker gets the permit.
Accept(x) ==
    /\ hpc[x] = "accept"
    /\ Push(x, "Accepted")
    /\ HGoto(x, "run") /\ WGoto(x, "enter")
    /\ UNCHANGED <<client, hOpen, outcome, registry, permits, cancelled, broker, daemon, setup>>

Finish(x) ==
    /\ hpc[x] = "run" /\ wpc[x] = "ended"
    /\ Push(x, outcome[x])
    /\ HGoto(x, "gone") /\ hOpen' = hOpen \ {x}
    /\ UNCHANGED <<client, worker, permits, cancelled, broker, daemon, setup>>

\* The client is gone, or the drain's deadline aborts the handler: the flag
\* is set before anything else.
Cancel(x) ==
    /\ hpc[x] = "run"
    /\ x \notin cOpen \/ daemon = "drain"
    /\ cancelled' = cancelled \cup {x}
    /\ HGoto(x, "cancel")
    /\ UNCHANGED <<client, down, hOpen, worker, permits, broker, daemon, setup>>

\* Then, under the registry's lock, the client is asked to kill every child
\* the worker still has.
KillChildren(x) ==
    /\ hpc[x] = "cancel" /\ x \notin registry
    /\ child' = [child EXCEPT ![x] =
          IF @ = "running" /\ x \in cOpen /\ wpc[x] = "waiting" THEN "killed" ELSE @]
    /\ HGoto(x, "reap")
    /\ UNCHANGED <<client, down, hOpen, worker, permits, cancelled, ask, starts, daemon, setup>>

\* The handler of a disconnected client waits for the worker; an aborted one is dropped.
Reaped(x) ==
    /\ hpc[x] = "reap"
    /\ wpc[x] = "ended" \/ daemon = "drain"
    /\ HGoto(x, "gone") /\ hOpen' = hOpen \ {x}
    /\ UNCHANGED <<client, down, worker, permits, cancelled, broker, daemon, setup>>

-----------------------------------------------------------------------------
(* The blocking worker *)

\* The permit goes when the worker's closure ends; a cancelled result is an error.
End(x, r) ==
    /\ WGoto(x, "ended")
    /\ outcome' = [outcome EXCEPT ![x] = IF x \in cancelled THEN "Failed" ELSE r]
    /\ permits' = permits + 1

Enter(x) ==
    /\ wpc[x] = "enter"
    /\ IF x \in cancelled THEN End(x, "Failed")
                          ELSE WGoto(x, "spawn") /\ UNCHANGED <<outcome, permits>>
    /\ UNCHANGED <<client, down, handler, registry, cancelled, broker, daemon, setup>>

\* The pipeline serves the invocation from the cache, fails or panics; no
\* compiler runs.
Hit(x) ==
    /\ wpc[x] = "spawn"
    /\ \E r \in {"Complete", "Failed"} : End(x, r)
    /\ UNCHANGED <<client, down, handler, registry, cancelled, broker, daemon, setup>>

\* spawn: the flag is read under the registry's lock, which is kept for the call.
Spawn(x) ==
    /\ wpc[x] = "spawn" /\ x \notin registry
    /\ IF x \in cancelled
       THEN End(x, "Failed") /\ UNCHANGED <<registry, ask>>
       ELSE /\ WGoto(x, "asking")
            /\ registry' = registry \cup {x}
            /\ ask' = [ask EXCEPT ![x] = "asked"]
            /\ UNCHANGED <<outcome, permits>>
    /\ UNCHANGED <<client, down, handler, cancelled, child, starts, daemon, setup>>

\* The client's answer; the child is registered and the lock released.
Spawned(x) ==
    /\ wpc[x] = "asking" /\ ask[x] = "served"
    /\ registry' = registry \ {x}
    /\ WGoto(x, "waiting")
    /\ UNCHANGED <<client, down, handler, outcome, permits, cancelled, broker, daemon, setup>>

\* Wrong: after a deadline the channel, with the request in it, is used again.
SpawnFailsReuses(x) ==
    /\ wpc[x] = "asking" /\ ask[x] = "asked"
    /\ Faults \/ x \notin cOpen
    /\ registry' = registry \ {x}
    /\ WGoto(x, "spawn")
    /\ UNCHANGED <<client, down, handler, outcome, permits, cancelled, broker, daemon, setup>>

\* No answer within the channel's deadline, a closed channel, or the client's
\* refusal.
SpawnFails(x) ==
    /\ wpc[x] = "asking" /\ ask[x] \in {"asked", "refused"}
    /\ Faults \/ x \notin cOpen
    /\ ask' = [ask EXCEPT ![x] = IF @ = "asked" THEN "stale" ELSE @]
    /\ registry' = registry \ {x}
    /\ End(x, "Failed")
    /\ UNCHANGED <<client, down, handler, cancelled, child, starts, daemon, setup>>

\* The compiler was started, but its answer or its pipes do not arrive: it runs
\* on unregistered.
SpawnLost(x) ==
    /\ Faults
    /\ wpc[x] = "asking" /\ ask[x] = "served"
    /\ registry' = registry \ {x}
    /\ End(x, "Failed")
    /\ UNCHANGED <<client, down, handler, cancelled, broker, daemon, setup>>

\* The worker asks for the child's status until there is one or nobody answers.
Waited(x) ==
    /\ wpc[x] = "waiting"
    /\ child[x] \in {"exited", "killed"} \/ x \notin cOpen
    /\ End(x, IF child[x] = "exited" THEN "Complete" ELSE "Failed")
    /\ UNCHANGED <<client, down, handler, registry, cancelled, broker, daemon, setup>>

\* A living client does not answer the status request in time.
WaitLost(x) ==
    /\ Faults
    /\ wpc[x] = "waiting"
    /\ End(x, "Failed")
    /\ UNCHANGED <<client, down, handler, registry, cancelled, broker, daemon, setup>>

-----------------------------------------------------------------------------
(* The daemon *)

Drain ==
    /\ Drains /\ daemon = "up"
    /\ daemon' = "drain"
    /\ UNCHANGED <<client, down, handler, worker, permits, cancelled, broker, setup>>

\* A crash, or the exit that ends a drain once no handler is left, takes the
\* workers along and closes every connection.
Stop ==
    /\ \/ Crashes /\ daemon # "down"
       \/ daemon = "drain" /\ \A x \in Conn : hpc[x] \in {"none", "gone"}
    /\ daemon' = "down"
    /\ hpc' = [x \in Conn |-> IF hpc[x] = "none" THEN "none" ELSE "gone"]
    /\ hOpen' = {}
    /\ wpc' = [x \in Conn |-> IF wpc[x] = "none" THEN "none" ELSE "ended"]
    /\ registry' = {}
    /\ permits' = 0
    /\ UNCHANGED <<client, down, outcome, cancelled, broker, setup>>

\* A client's daemon start, or the service manager, brings up a new daemon.
StartDaemon ==
    /\ daemon = "down"
    /\ daemon' = "up"
    /\ permits' = Cap
    /\ UNCHANGED <<client, down, handler, worker, cancelled, broker, setup>>

-----------------------------------------------------------------------------
ClientStep(c) ==
    \/ Connect(c) \/ GetReady(c) \/ GetPrepared(c) \/ WriteCommit(c) \/ GetAccepted(c)
    \/ Serve(c) \/ Refuse(c) \/ GetComplete(c) \/ Lost(c) \/ GiveUp(c) \/ CommitError(c)
    \/ CompileLocally(c)

HandlerStep(x) ==
    \/ Decline(x) \/ Begin(x) \/ GetFds(x) \/ GetCommit(x) \/ HandlerLeaves(x)
    \/ Accept(x) \/ Finish(x) \/ Cancel(x) \/ KillChildren(x) \/ Reaped(x)

WorkerStep(x) == Enter(x) \/ Hit(x) \/ Spawn(x) \/ Spawned(x) \/ SpawnFails(x) \/ Waited(x)

Next ==
    \/ \E c \in Client : ClientStep(c) \/ Die(c)
    \/ \E x \in Conn :
          HandlerStep(x) \/ WorkerStep(x) \/ SpawnLost(x) \/ WaitLost(x) \/ ChildExit(x)
    \/ Drain \/ Stop \/ StartDaemon

Spec == Init /\ [][Next]_vars

\* Clients, handlers and workers run; compilers end by themselves, except the
\* endless ones.
FairSpec ==
    /\ Spec
    /\ \A c \in Client : WF_vars(ClientStep(c))
    /\ \A x \in Conn :
          /\ WF_vars(HandlerStep(x)) /\ WF_vars(WorkerStep(x))
          /\ WF_vars(x[1] \notin endless /\ ChildExit(x))

-----------------------------------------------------------------------------
Reply == {"Ready", "Prepared", "Accepted", "Declined", "Complete", "Failed"}

\* Every variable has its type, and no permit is created.
TypeOK ==
    /\ cpc \in [Client -> {"try", "ready", "prepared", "commit", "accepted", "complete",
                           "local"} \cup Over]
    /\ try \in [Client -> 1..Tries]
    /\ cOpen \subseteq Conn /\ hOpen \subseteq Conn /\ fds \subseteq Conn
    /\ down \in [Conn -> Seq(Reply)]
    /\ commit \in [Conn -> {"none", "torn", "sent"}]
    /\ hpc \in [Conn -> {"none", "begin", "fds", "commit", "accept", "run", "cancel", "reap",
                         "gone"}]
    /\ wpc \in [Conn -> {"none", "enter", "spawn", "asking", "waiting", "ended"}]
    /\ outcome \in [Conn -> {"Complete", "Failed"}]
    /\ permits \in 0..Cap
    /\ cancelled \subseteq Conn /\ registry \subseteq Conn
    /\ ask \in [Conn -> {"none", "asked", "served", "refused", "stale"}]
    /\ child \in [Conn -> {"none", "running", "exited", "killed"}]
    /\ starts \in [Client -> Nat]
    /\ daemon \in {"up", "drain", "down"}
    /\ budget \in [Client -> 0..Tries] /\ endless \subseteq Client

\* One invocation never runs its compiler twice: not locally after a Commit
\* that may have reached the daemon, not for a handler of an earlier try, not
\* for a worker that has given up.
RunsOnce == \A c \in Client : starts[c] <= 1

\* The connection of a try that has not begun is unused.
Unused ==
    \A c \in Client, a \in 1..Tries :
        a > try[c] \/ (a = try[c] /\ cpc[c] = "try") => hpc[<<c, a>>] = "none"

\* Each reply answers what the client did after the one before: no more than
\* two are ever on their way. Commit is written once Prepared was read.
InTurn(x) ==
    /\ hpc[x] \in {"none", "begin"} => down[x] = << >> /\ x \notin fds
    /\ hpc[x] = "fds" => down[x] = IF x \in fds THEN << >> ELSE <<"Ready">>
    /\ hpc[x] = "commit" => down[x] \in {<< >>, <<"Prepared">>}
    /\ hpc[x] = "accept" => down[x] = << >>
    /\ hpc[x] \in {"run", "cancel", "reap"} => down[x] \in {<< >>, <<"Accepted">>}
    /\ commit[x] # "none" =>
          hpc[x] \notin {"none", "begin", "fds"} /\ (hpc[x] = "commit" => down[x] = << >>)
    /\ Len(down[x]) <= 2
Replies == \A x \in Conn : InTurn(x)

\* A client that is about to write Commit has read Prepared.
Prepared ==
    \A c \in Client : cpc[c] = "commit" =>
        /\ hpc[Cur(c)] \notin {"none", "begin", "fds"}
        /\ hpc[Cur(c)] = "commit" => down[Cur(c)] = << >>

\* Commit is written on the client's current connection, and from then on the
\* client does not compile locally.
Committed == {"accepted", "complete", "exit", "error", "dead"}
Commits ==
    \A c \in Client, a \in 1..Tries :
        commit[<<c, a>>] # "none" => a = try[c] /\ cpc[c] \in Committed

\* A worker runs behind a Commit that was read, and asks for a compiler once.
Workers ==
    \A x \in Conn :
        /\ hpc[x] \in {"accept", "run", "cancel", "reap"} \/ wpc[x] # "none" => commit[x] # "none"
        /\ hpc[x] \in {"none", "begin", "fds", "commit", "accept"} => wpc[x] = "none"
        /\ wpc[x] \in {"none", "enter", "spawn"} => ask[x] = "none"

\* What a client that is not done has started.
StartedFor(c) ==
    /\ cpc[c] \notin {"complete"} \cup Over =>
          starts[c] = 0 /\ \A a \in 1..Tries : ask[<<c, a>>] # "served"
    /\ cpc[c] = "complete" => starts[c] = IF ask[Cur(c)] = "served" THEN 1 ELSE 0
Started == \A c \in Client : StartedFor(c)

\* Handlers and workers hold the permits that are not free, each at most one.
Holding(x) == HasPermit(x) \/ wpc[x] \in {"enter", "spawn", "asking", "waiting"}
Holders == {x \in Conn : Holding(x)}
Permits == IsFiniteSet(Holders) /\ permits + Cardinality(Holders) <= Cap

\* A daemon that is down has neither handlers nor workers.
Quiet ==
    daemon = "down" =>
        \A x \in Conn : hpc[x] \in {"none", "gone"} /\ wpc[x] \in {"none", "ended"}

\* No permit is given back twice and no invocation runs its compiler twice,
\* with what it takes to see that no step breaks it.
ExecutionInv ==
    /\ TypeOK /\ RunsOnce
    /\ Unused /\ Replies /\ Prepared /\ Commits /\ Workers /\ Started
    /\ Permits /\ Quiet

\* The outputs have one owner: while a client may still fall back, and when it
\* has compiled locally, no pipeline works for it, and never do two of them.
OneOwner ==
    \A c \in Client :
        /\ cpc[c] \in {"try", "ready", "prepared", "commit", "local", "built"} =>
              \A a \in 1..Tries : wpc[<<c, a>>] = "none"
        /\ \A a, b \in 1..Tries :
              wpc[<<c, a>>] # "none" /\ wpc[<<c, b>>] # "none" => a = b

\* Every invocation ends, through drains, crashes and lost connections.
\* The one client that may wait for ever is one whose compiler never ends.
EveryClientEnds == <>(\A c \in Client \ endless : cpc[c] \in Over)

\* A cancelled request frees its worker and leaves no compiler behind, also
\* when the compiler would never end and the cancellation met it in spawn.
CancelReaps == []<>(\A x \in cancelled : wpc[x] = "ended" /\ child[x] # "running")
=============================================================================
