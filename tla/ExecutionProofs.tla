--------------------------- MODULE ExecutionProofs ---------------------------
(***************************************************************************)
(* Proofs about Execution for any number of clients, tries and permits,    *)
(* whatever requests, descriptors, daemons and clients are lost.           *)
(***************************************************************************)
EXTENDS Execution, FiniteSetTheorems, TLAPS

-----------------------------------------------------------------------------
(* Types.                                                                  *)

\* A client's current connection is one of its own.
LEMMA Current ==
    ASSUME TypeOK, NEW c \in Client
    PROVE  Cur(c) \in Conn /\ try[c] \in 1..Tries
  BY DEF TypeOK, Cur, Conn

LEMMA TypeInitially == Init => TypeOK
<1> SUFFICES ASSUME Init PROVE TypeOK
  OBVIOUS
<1>1. PICK s \in Setups : budget = s.budget /\ endless = s.endless
  BY DEF Init
<1>2. budget \in [Client -> 0..Tries] /\ endless \subseteq Client
  BY <1>1, ExecutionAssumption
<1>3. try \in [Client -> 1..Tries] /\ starts \in [Client -> Nat] /\ permits \in 0..Cap
  BY ExecutionAssumption DEF Init
<1>4. down \in [Conn -> Seq(Reply)]
  BY DEF Init
<1>5. cpc \in [Client -> {"try", "local"}]
  BY DEF Init
<1> QED
  BY <1>2, <1>3, <1>4, <1>5 DEF Init, TypeOK

\* Falling back keeps the client within its budget.
LEMMA FallbackTypes ==
    ASSUME TypeOK, NEW c \in Client, Fallback(c)
    PROVE  /\ try' \in [Client -> 1..Tries]
           /\ \/ cpc' = [cpc EXCEPT ![c] = "try"]
              \/ cpc' = [cpc EXCEPT ![c] = "local"]
<1>1. try[c] \in 1..Tries /\ budget[c] \in 0..Tries
  BY DEF TypeOK
<1>2. try[c] < budget[c] => try[c] + 1 \in 1..Tries
  BY <1>1, ExecutionAssumption
<1> QED
  BY <1>1, <1>2 DEF TypeOK, Fallback, Goto

\* Every step keeps the types, apart from the count of the permits.
LEMMA TypeStep ==
    ASSUME TypeOK, [Next]_vars, permits' \in 0..Cap
    PROVE  TypeOK'
<1> USE ExecutionAssumption
<1> USE DEF TypeOK, Goto, HGoto, WGoto, Push, Pop, Head1, Over, Reply,
            client, handler, worker, broker, setup
<1>1. ASSUME NEW c \in Client, Connect(c) PROVE TypeOK'
  <2>1. CASE daemon = "up"
    <3>1. cOpen' \subseteq Conn /\ hOpen' \subseteq Conn
      BY <1>1, <2>1, Current DEF Connect
    <3>2. /\ hpc' = [hpc EXCEPT ![Cur(c)] = "begin"]
          /\ cpc' = [cpc EXCEPT ![c] = "ready"] /\ UNCHANGED try
      BY <1>1, <2>1 DEF Connect
    <3> QED
      BY <1>1, <3>1, <3>2, Current DEF Connect
  <2>2. CASE daemon # "up"
    BY <1>1, <2>2, FallbackTypes DEF Connect
  <2> QED
    BY <2>1, <2>2
<1>2. ASSUME NEW c \in Client, GetReady(c) PROVE TypeOK'
  BY <1>2, Current DEF GetReady
<1>3. ASSUME NEW c \in Client, GetPrepared(c) PROVE TypeOK'
  BY <1>3, Current DEF GetPrepared
<1>4. ASSUME NEW c \in Client, WriteCommit(c) PROVE TypeOK'
  BY <1>4, Current DEF WriteCommit
<1>5. ASSUME NEW c \in Client, GetAccepted(c) PROVE TypeOK'
  BY <1>5, Current DEF GetAccepted
<1>6. ASSUME NEW c \in Client, Serve(c) PROVE TypeOK'
  <2>1. starts' \in [Client -> Nat]
    BY <1>6 DEF Serve
  <2>2. CASE ask[Cur(c)] = "asked"
    BY <1>6, <2>1, <2>2, Current DEF Serve
  <2>3. CASE ask[Cur(c)] # "asked"
    BY <1>6, <2>1, <2>3, Current DEF Serve
  <2> QED
    BY <2>2, <2>3
<1>7. ASSUME NEW c \in Client, GetComplete(c) PROVE TypeOK'
  BY <1>7, Current DEF GetComplete, Close
<1>8. ASSUME NEW c \in Client, Lost(c) PROVE TypeOK'
  BY <1>8, Current DEF Lost, Close
<1>9. ASSUME NEW c \in Client, GiveUp(c) PROVE TypeOK'
  BY <1>9, Current, FallbackTypes DEF GiveUp, Close
<1>10. ASSUME NEW c \in Client, CommitError(c) PROVE TypeOK'
  BY <1>10, Current DEF CommitError, Close
<1>11. ASSUME NEW c \in Client, CompileLocally(c) PROVE TypeOK'
  BY <1>11, Current DEF CompileLocally
<1>12. ASSUME NEW c \in Client, Die(c) PROVE TypeOK'
  BY <1>12, Current DEF Die, Close
<1>13. ASSUME NEW x \in Conn, Decline(x) PROVE TypeOK'
  BY <1>13 DEF Decline
<1>14. ASSUME NEW x \in Conn, Begin(x) PROVE TypeOK'
  BY <1>14 DEF Begin
<1>15. ASSUME NEW x \in Conn, GetFds(x) PROVE TypeOK'
  BY <1>15 DEF GetFds
<1>16. ASSUME NEW x \in Conn, GetCommit(x) PROVE TypeOK'
  BY <1>16 DEF GetCommit
<1>17. ASSUME NEW x \in Conn, HandlerLeaves(x) PROVE TypeOK'
  BY <1>17 DEF HandlerLeaves
<1>18. ASSUME NEW x \in Conn, Accept(x) PROVE TypeOK'
  BY <1>18 DEF Accept
<1>19. ASSUME NEW x \in Conn, Finish(x) PROVE TypeOK'
  BY <1>19 DEF Finish
<1>20. ASSUME NEW x \in Conn, Cancel(x) PROVE TypeOK'
  BY <1>20 DEF Cancel
<1>21. ASSUME NEW x \in Conn, KillChildren(x) PROVE TypeOK'
  BY <1>21 DEF KillChildren
<1>22. ASSUME NEW x \in Conn, Reaped(x) PROVE TypeOK'
  BY <1>22 DEF Reaped
<1>23. ASSUME NEW x \in Conn, Enter(x) PROVE TypeOK'
  BY <1>23 DEF Enter, End
<1>24. ASSUME NEW x \in Conn, Hit(x) PROVE TypeOK'
  BY <1>24 DEF Hit, End
<1>25. ASSUME NEW x \in Conn, Spawn(x) PROVE TypeOK'
  <2>1. CASE x \in cancelled
    BY <1>25, <2>1 DEF Spawn, End
  <2>2. CASE x \notin cancelled
    <3>1. /\ wpc' = [wpc EXCEPT ![x] = "asking"] /\ registry' = registry \cup {x}
          /\ ask' = [ask EXCEPT ![x] = "asked"] /\ UNCHANGED <<outcome, permits>>
      BY <1>25, <2>2 DEF Spawn
    <3> QED
      BY <1>25, <3>1 DEF Spawn
  <2> QED
    BY <2>1, <2>2
<1>26. ASSUME NEW x \in Conn, Spawned(x) PROVE TypeOK'
  BY <1>26 DEF Spawned
<1>27. ASSUME NEW x \in Conn, SpawnFails(x) PROVE TypeOK'
  BY <1>27 DEF SpawnFails, End
<1>28. ASSUME NEW x \in Conn, Waited(x) PROVE TypeOK'
  BY <1>28 DEF Waited, End
<1>29. ASSUME NEW x \in Conn, ChildExit(x) PROVE TypeOK'
  BY <1>29 DEF ChildExit
<1>30. CASE Drain
  BY <1>30 DEF Drain
<1>31. CASE Stop
  BY <1>31 DEF Stop
<1>32. CASE StartDaemon
  BY <1>32 DEF StartDaemon
<1>33. CASE UNCHANGED vars
  BY <1>33 DEF vars, client, handler, worker, broker, setup
<1>34. ASSUME NEW c \in Client, Refuse(c) PROVE TypeOK'
  BY <1>34, Current DEF Refuse
<1>35. ASSUME NEW x \in Conn, SpawnLost(x) PROVE TypeOK'
  BY <1>35 DEF SpawnLost, End
<1>36. ASSUME NEW x \in Conn, WaitLost(x) PROVE TypeOK'
  BY <1>36 DEF WaitLost, End
<1> QED
  BY <1>1, <1>2, <1>3, <1>4, <1>5, <1>6, <1>7, <1>8, <1>9, <1>10, <1>11, <1>12, <1>13, <1>14,
     <1>15, <1>16, <1>17, <1>18, <1>19, <1>20, <1>21, <1>22, <1>23, <1>24, <1>25, <1>26, <1>27,
     <1>28, <1>29, <1>30, <1>31, <1>32, <1>33, <1>34, <1>35, <1>36
  DEF Next, ClientStep, HandlerStep, WorkerStep

-----------------------------------------------------------------------------
(* The protocol.                                                           *)

\* Queues of replies, when they are short.
LEMMA ReplyQueue ==
    /\ \A m : /\ Append(<< >>, m) = <<m>> /\ <<m>> # << >>
             /\ Head(<<m>>) = m /\ Tail(<<m>>) = << >> /\ Len(<<m>>) = 1
    /\ Len(<< >>) = 0
    /\ \A s \in Seq(Reply) : \A m \in Reply : Len(Append(s, m)) = Len(s) + 1
    /\ \A s \in Seq(Reply) : s # << >> => Len(Tail(s)) = Len(s) - 1
    /\ \A s \in Seq(Reply) : Len(s) \in Nat
  OBVIOUS

\* A connection is used from its Connect on, and tries are taken in order.
LEMMA UnusedStep ==
    ASSUME TypeOK, Unused, [Next]_vars
    PROVE  Unused'
<1> USE DEF TypeOK, Unused, Conn, Cur, Goto, HGoto,
            client, handler, worker, broker, setup
<1>1. ASSUME NEW c \in Client, Connect(c) PROVE Unused'
  <2>1. CASE daemon = "up"
    <3>1. /\ hpc' = [hpc EXCEPT ![<<c, try[c]>>] = "begin"] /\ UNCHANGED try
          /\ cpc[c] = "try" /\ cpc' = [cpc EXCEPT ![c] = "ready"]
      BY <1>1, <2>1 DEF Connect
    <3> QED
      BY <3>1
  <2>2. CASE daemon # "up"
    BY <1>1, <2>2 DEF Connect, Fallback
  <2> QED
    BY <2>1, <2>2
<1>2. ASSUME NEW c \in Client, GetReady(c) PROVE Unused'
  BY <1>2 DEF GetReady
<1>3. ASSUME NEW c \in Client, GetPrepared(c) PROVE Unused'
  BY <1>3 DEF GetPrepared
<1>4. ASSUME NEW c \in Client, WriteCommit(c) PROVE Unused'
  BY <1>4 DEF WriteCommit
<1>5. ASSUME NEW c \in Client, GetAccepted(c) PROVE Unused'
  BY <1>5 DEF GetAccepted
<1>6. ASSUME NEW c \in Client, Serve(c) PROVE Unused'
  BY <1>6 DEF Serve
<1>7. ASSUME NEW c \in Client, GetComplete(c) PROVE Unused'
  BY <1>7 DEF GetComplete, Close
<1>8. ASSUME NEW c \in Client, Lost(c) PROVE Unused'
  BY <1>8 DEF Lost, Close
<1>9. ASSUME NEW c \in Client, GiveUp(c) PROVE Unused'
  BY <1>9 DEF GiveUp, Fallback, Close
<1>10. ASSUME NEW c \in Client, CommitError(c) PROVE Unused'
  BY <1>10 DEF CommitError, Close
<1>11. ASSUME NEW c \in Client, CompileLocally(c) PROVE Unused'
  BY <1>11 DEF CompileLocally
<1>12. ASSUME NEW c \in Client, Die(c) PROVE Unused'
  BY <1>12 DEF Die, Close
<1>13. ASSUME NEW x \in Conn, Decline(x) PROVE Unused'
  BY <1>13 DEF Decline
<1>14. ASSUME NEW x \in Conn, Begin(x) PROVE Unused'
  BY <1>14 DEF Begin
<1>15. ASSUME NEW x \in Conn, GetFds(x) PROVE Unused'
  BY <1>15 DEF GetFds
<1>16. ASSUME NEW x \in Conn, GetCommit(x) PROVE Unused'
  BY <1>16 DEF GetCommit
<1>17. ASSUME NEW x \in Conn, HandlerLeaves(x) PROVE Unused'
  BY <1>17 DEF HandlerLeaves
<1>18. ASSUME NEW x \in Conn, Accept(x) PROVE Unused'
  BY <1>18 DEF Accept
<1>19. ASSUME NEW x \in Conn, Finish(x) PROVE Unused'
  BY <1>19 DEF Finish
<1>20. ASSUME NEW x \in Conn, Cancel(x) PROVE Unused'
  BY <1>20 DEF Cancel
<1>21. ASSUME NEW x \in Conn, KillChildren(x) PROVE Unused'
  BY <1>21 DEF KillChildren
<1>22. ASSUME NEW x \in Conn, Reaped(x) PROVE Unused'
  BY <1>22 DEF Reaped
<1>23. ASSUME NEW x \in Conn, Enter(x) PROVE Unused'
  BY <1>23 DEF Enter, End
<1>24. ASSUME NEW x \in Conn, Hit(x) PROVE Unused'
  BY <1>24 DEF Hit, End
<1>25. ASSUME NEW x \in Conn, Spawn(x) PROVE Unused'
  BY <1>25 DEF Spawn, End
<1>26. ASSUME NEW x \in Conn, Spawned(x) PROVE Unused'
  BY <1>26 DEF Spawned
<1>27. ASSUME NEW x \in Conn, SpawnFails(x) PROVE Unused'
  BY <1>27 DEF SpawnFails, End
<1>28. ASSUME NEW x \in Conn, Waited(x) PROVE Unused'
  BY <1>28 DEF Waited, End
<1>29. ASSUME NEW x \in Conn, ChildExit(x) PROVE Unused'
  BY <1>29 DEF ChildExit
<1>30. CASE Drain
  BY <1>30 DEF Drain
<1>31. CASE Stop
  BY <1>31 DEF Stop
<1>32. CASE StartDaemon
  BY <1>32 DEF StartDaemon
<1>33. CASE UNCHANGED vars
  BY <1>33 DEF vars, client, handler, worker, broker, setup
<1>34. ASSUME NEW c \in Client, Refuse(c) PROVE Unused'
  BY <1>34, Current DEF Refuse
<1>35. ASSUME NEW x \in Conn, SpawnLost(x) PROVE Unused'
  BY <1>35 DEF SpawnLost, End
<1>36. ASSUME NEW x \in Conn, WaitLost(x) PROVE Unused'
  BY <1>36 DEF WaitLost, End
<1> QED
  BY <1>1, <1>2, <1>3, <1>4, <1>5, <1>6, <1>7, <1>8, <1>9, <1>10, <1>11, <1>12, <1>13, <1>14,
     <1>15, <1>16, <1>17, <1>18, <1>19, <1>20, <1>21, <1>22, <1>23, <1>24, <1>25, <1>26, <1>27,
     <1>28, <1>29, <1>30, <1>31, <1>32, <1>33, <1>34, <1>35, <1>36
  DEF Next, ClientStep, HandlerStep, WorkerStep

\* Commit is written where the client is, and keeps it from falling back.
LEMMA CommitsStep ==
    ASSUME TypeOK, Commits, [Next]_vars
    PROVE  Commits'
<1> USE DEF TypeOK, Commits, Committed, Conn, Cur, Goto,
            client, handler, worker, broker, setup
<1>1. ASSUME NEW c \in Client, Connect(c) PROVE Commits'
  <2>1. \A a \in 1..Tries : commit[<<c, a>>] = "none"
    BY <1>1 DEF Connect
  <2>2. \A d \in Client \ {c} : try'[d] = try[d] /\ cpc'[d] = cpc[d]
    BY <1>1, FallbackTypes DEF Connect, Fallback
  <2>3. UNCHANGED commit
    BY <1>1 DEF Connect
  <2> QED
    BY <2>1, <2>2, <2>3
<1>2. ASSUME NEW c \in Client, GetReady(c) PROVE Commits'
  BY <1>2 DEF GetReady
<1>3. ASSUME NEW c \in Client, GetPrepared(c) PROVE Commits'
  BY <1>3 DEF GetPrepared
<1>4. ASSUME NEW c \in Client, WriteCommit(c) PROVE Commits'
  BY <1>4 DEF WriteCommit
<1>5. ASSUME NEW c \in Client, GetAccepted(c) PROVE Commits'
  BY <1>5 DEF GetAccepted
<1>6. ASSUME NEW c \in Client, Serve(c) PROVE Commits'
  BY <1>6 DEF Serve
<1>7. ASSUME NEW c \in Client, GetComplete(c) PROVE Commits'
  BY <1>7 DEF GetComplete, Close
<1>8. ASSUME NEW c \in Client, Lost(c) PROVE Commits'
  BY <1>8 DEF Lost, Close
<1>9. ASSUME NEW c \in Client, GiveUp(c) PROVE Commits'
  <2>1. \A a \in 1..Tries : commit[<<c, a>>] = "none"
    BY <1>9 DEF GiveUp
  <2>2. \A d \in Client \ {c} : try'[d] = try[d] /\ cpc'[d] = cpc[d]
    BY <1>9, FallbackTypes DEF GiveUp, Fallback
  <2>3. UNCHANGED commit
    BY <1>9 DEF GiveUp
  <2> QED
    BY <2>1, <2>2, <2>3
<1>10. ASSUME NEW c \in Client, CommitError(c) PROVE Commits'
  BY <1>10 DEF CommitError, Close
<1>11. ASSUME NEW c \in Client, CompileLocally(c) PROVE Commits'
  BY <1>11 DEF CompileLocally
<1>12. ASSUME NEW c \in Client, Die(c) PROVE Commits'
  BY <1>12 DEF Die, Close
<1>13. ASSUME NEW x \in Conn, Decline(x) PROVE Commits'
  BY <1>13 DEF Decline
<1>14. ASSUME NEW x \in Conn, Begin(x) PROVE Commits'
  BY <1>14 DEF Begin
<1>15. ASSUME NEW x \in Conn, GetFds(x) PROVE Commits'
  BY <1>15 DEF GetFds
<1>16. ASSUME NEW x \in Conn, GetCommit(x) PROVE Commits'
  BY <1>16 DEF GetCommit
<1>17. ASSUME NEW x \in Conn, HandlerLeaves(x) PROVE Commits'
  BY <1>17 DEF HandlerLeaves
<1>18. ASSUME NEW x \in Conn, Accept(x) PROVE Commits'
  BY <1>18 DEF Accept
<1>19. ASSUME NEW x \in Conn, Finish(x) PROVE Commits'
  BY <1>19 DEF Finish
<1>20. ASSUME NEW x \in Conn, Cancel(x) PROVE Commits'
  BY <1>20 DEF Cancel
<1>21. ASSUME NEW x \in Conn, KillChildren(x) PROVE Commits'
  BY <1>21 DEF KillChildren
<1>22. ASSUME NEW x \in Conn, Reaped(x) PROVE Commits'
  BY <1>22 DEF Reaped
<1>23. ASSUME NEW x \in Conn, Enter(x) PROVE Commits'
  BY <1>23 DEF Enter, End
<1>24. ASSUME NEW x \in Conn, Hit(x) PROVE Commits'
  BY <1>24 DEF Hit, End
<1>25. ASSUME NEW x \in Conn, Spawn(x) PROVE Commits'
  BY <1>25 DEF Spawn, End
<1>26. ASSUME NEW x \in Conn, Spawned(x) PROVE Commits'
  BY <1>26 DEF Spawned
<1>27. ASSUME NEW x \in Conn, SpawnFails(x) PROVE Commits'
  BY <1>27 DEF SpawnFails, End
<1>28. ASSUME NEW x \in Conn, Waited(x) PROVE Commits'
  BY <1>28 DEF Waited, End
<1>29. ASSUME NEW x \in Conn, ChildExit(x) PROVE Commits'
  BY <1>29 DEF ChildExit
<1>30. CASE Drain
  BY <1>30 DEF Drain
<1>31. CASE Stop
  BY <1>31 DEF Stop
<1>32. CASE StartDaemon
  BY <1>32 DEF StartDaemon
<1>33. CASE UNCHANGED vars
  BY <1>33 DEF vars, client, handler, worker, broker, setup
<1>34. ASSUME NEW c \in Client, Refuse(c) PROVE Commits'
  BY <1>34, Current DEF Refuse
<1>35. ASSUME NEW x \in Conn, SpawnLost(x) PROVE Commits'
  BY <1>35 DEF SpawnLost, End
<1>36. ASSUME NEW x \in Conn, WaitLost(x) PROVE Commits'
  BY <1>36 DEF WaitLost, End
<1> QED
  BY <1>1, <1>2, <1>3, <1>4, <1>5, <1>6, <1>7, <1>8, <1>9, <1>10, <1>11, <1>12, <1>13, <1>14,
     <1>15, <1>16, <1>17, <1>18, <1>19, <1>20, <1>21, <1>22, <1>23, <1>24, <1>25, <1>26, <1>27,
     <1>28, <1>29, <1>30, <1>31, <1>32, <1>33, <1>34, <1>35, <1>36
  DEF Next, ClientStep, HandlerStep, WorkerStep

\* What the client waits for before Commit is not sent twice.
LEMMA PreparedStep ==
    ASSUME TypeOK, Replies, Prepared, [Next]_vars
    PROVE  Prepared'
<1> USE DEF TypeOK, Replies, InTurn, Prepared, Cur, Goto, HGoto, Push, Pop, Head1,
            client, handler, worker, broker, setup
<1>1. ASSUME NEW c \in Client, Connect(c) PROVE Prepared'
  BY <1>1, Current, ReplyQueue DEF Connect, Fallback
<1>2. ASSUME NEW c \in Client, GetReady(c) PROVE Prepared'
  BY <1>2, Current, ReplyQueue DEF GetReady
<1>3. ASSUME NEW c \in Client, GetPrepared(c) PROVE Prepared'
  <2>1. hpc[Cur(c)] \notin {"none", "begin", "fds"}
    BY <1>3, Current, ReplyQueue DEF GetPrepared
  <2>2. hpc[Cur(c)] = "commit" => down'[Cur(c)] = << >>
    <3>1. hpc[Cur(c)] = "commit" => down[Cur(c)] = <<"Prepared">>
      BY <1>3, Current DEF GetPrepared
    <3>2. down'[Cur(c)] = Tail(down[Cur(c)])
      BY <1>3, Current DEF GetPrepared
    <3>3. Tail(<<"Prepared">>) = << >>
      BY ReplyQueue
    <3> QED
      BY <3>1, <3>2, <3>3
  <2>3. \A d \in Client \ {c} : Cur(d) # Cur(c) /\ down'[Cur(d)] = down[Cur(d)]
    BY <1>3, Current DEF GetPrepared
  <2>4. cpc' = [cpc EXCEPT ![c] = "commit"] /\ UNCHANGED <<try, hpc>>
    BY <1>3 DEF GetPrepared
  <2> QED
    BY <2>1, <2>2, <2>3, <2>4
<1>4. ASSUME NEW c \in Client, WriteCommit(c) PROVE Prepared'
  BY <1>4, Current, ReplyQueue DEF WriteCommit
<1>5. ASSUME NEW c \in Client, GetAccepted(c) PROVE Prepared'
  BY <1>5, Current, ReplyQueue DEF GetAccepted
<1>6. ASSUME NEW c \in Client, Serve(c) PROVE Prepared'
  BY <1>6, Current, ReplyQueue DEF Serve
<1>7. ASSUME NEW c \in Client, GetComplete(c) PROVE Prepared'
  BY <1>7, Current, ReplyQueue DEF GetComplete, Close
<1>8. ASSUME NEW c \in Client, Lost(c) PROVE Prepared'
  BY <1>8, Current, ReplyQueue DEF Lost, Close
<1>9. ASSUME NEW c \in Client, GiveUp(c) PROVE Prepared'
  BY <1>9, Current, ReplyQueue DEF GiveUp, Fallback, Close
<1>10. ASSUME NEW c \in Client, CommitError(c) PROVE Prepared'
  BY <1>10, Current, ReplyQueue DEF CommitError, Close
<1>11. ASSUME NEW c \in Client, CompileLocally(c) PROVE Prepared'
  BY <1>11, Current, ReplyQueue DEF CompileLocally
<1>12. ASSUME NEW c \in Client, Die(c) PROVE Prepared'
  BY <1>12, Current, ReplyQueue DEF Die, Close
<1>13. ASSUME NEW x \in Conn, Decline(x) PROVE Prepared'
  BY <1>13, Current, ReplyQueue DEF Decline
<1>14. ASSUME NEW x \in Conn, Begin(x) PROVE Prepared'
  BY <1>14, Current, ReplyQueue DEF Begin
<1>15. ASSUME NEW x \in Conn, GetFds(x) PROVE Prepared'
  BY <1>15, Current, ReplyQueue DEF GetFds
<1>16. ASSUME NEW x \in Conn, GetCommit(x) PROVE Prepared'
  BY <1>16, Current, ReplyQueue DEF GetCommit
<1>17. ASSUME NEW x \in Conn, HandlerLeaves(x) PROVE Prepared'
  BY <1>17, Current, ReplyQueue DEF HandlerLeaves
<1>18. ASSUME NEW x \in Conn, Accept(x) PROVE Prepared'
  BY <1>18, Current, ReplyQueue DEF Accept
<1>19. ASSUME NEW x \in Conn, Finish(x) PROVE Prepared'
  BY <1>19, Current, ReplyQueue DEF Finish
<1>20. ASSUME NEW x \in Conn, Cancel(x) PROVE Prepared'
  BY <1>20, Current, ReplyQueue DEF Cancel
<1>21. ASSUME NEW x \in Conn, KillChildren(x) PROVE Prepared'
  BY <1>21, Current, ReplyQueue DEF KillChildren
<1>22. ASSUME NEW x \in Conn, Reaped(x) PROVE Prepared'
  BY <1>22, Current, ReplyQueue DEF Reaped
<1>23. ASSUME NEW x \in Conn, Enter(x) PROVE Prepared'
  BY <1>23, Current, ReplyQueue DEF Enter, End
<1>24. ASSUME NEW x \in Conn, Hit(x) PROVE Prepared'
  BY <1>24, Current, ReplyQueue DEF Hit, End
<1>25. ASSUME NEW x \in Conn, Spawn(x) PROVE Prepared'
  BY <1>25, Current, ReplyQueue DEF Spawn, End
<1>26. ASSUME NEW x \in Conn, Spawned(x) PROVE Prepared'
  BY <1>26, Current, ReplyQueue DEF Spawned
<1>27. ASSUME NEW x \in Conn, SpawnFails(x) PROVE Prepared'
  BY <1>27, Current, ReplyQueue DEF SpawnFails, End
<1>28. ASSUME NEW x \in Conn, Waited(x) PROVE Prepared'
  BY <1>28, Current, ReplyQueue DEF Waited, End
<1>29. ASSUME NEW x \in Conn, ChildExit(x) PROVE Prepared'
  BY <1>29, Current, ReplyQueue DEF ChildExit
<1>30. CASE Drain
  BY <1>30, Current DEF Drain
<1>31. CASE Stop
  BY <1>31, Current DEF Stop
<1>32. CASE StartDaemon
  BY <1>32, Current DEF StartDaemon
<1>33. CASE UNCHANGED vars
  BY <1>33 DEF vars, client, handler, worker, broker, setup
<1>34. ASSUME NEW c \in Client, Refuse(c) PROVE Prepared'
  BY <1>34, Current, ReplyQueue DEF Refuse
<1>35. ASSUME NEW x \in Conn, SpawnLost(x) PROVE Prepared'
  BY <1>35, Current, ReplyQueue DEF SpawnLost, End
<1>36. ASSUME NEW x \in Conn, WaitLost(x) PROVE Prepared'
  BY <1>36, Current, ReplyQueue DEF WaitLost, End
<1> QED
  BY <1>1, <1>2, <1>3, <1>4, <1>5, <1>6, <1>7, <1>8, <1>9, <1>10, <1>11, <1>12, <1>13, <1>14,
     <1>15, <1>16, <1>17, <1>18, <1>19, <1>20, <1>21, <1>22, <1>23, <1>24, <1>25, <1>26, <1>27,
     <1>28, <1>29, <1>30, <1>31, <1>32, <1>33, <1>34, <1>35, <1>36
  DEF Next, ClientStep, HandlerStep, WorkerStep

LEMMA AppendToAccepted ==
    ASSUME NEW s \in {<< >>, <<"Accepted">>}, NEW m \in Reply
    PROVE  Len(Append(s, m)) <= 2
<1>1. CASE s = << >>
  BY <1>1
<1>2. CASE s = <<"Accepted">>
  BY <1>2
<1> QED
  BY <1>1, <1>2

\* A step that leaves a connection alone leaves it in turn.
LEMMA InTurnElsewhere ==
    ASSUME NEW y, InTurn(y), hpc'[y] = hpc[y], down'[y] = down[y], commit'[y] = commit[y],
           y \in fds' <=> y \in fds
    PROVE  InTurn(y)'
  BY DEF InTurn

\* Once the handler is gone, the queue is all that counts.
LEMMA InTurnGone ==
    ASSUME NEW y, hpc'[y] = "gone", Len(down'[y]) <= 2
    PROVE  InTurn(y)'
  BY DEF InTurn

\* Replies and what the client does take turns.
LEMMA RepliesStep ==
    ASSUME TypeOK, Unused, Replies, Prepared, [Next]_vars
    PROVE  Replies'
<1> USE DEF TypeOK, Replies, Goto, HGoto, Push, Pop, Head1,
            client, handler, worker, broker, setup
<1>1. ASSUME NEW c \in Client, Connect(c) PROVE Replies'
  <2>1. CASE daemon = "up"
    <3> SUFFICES ASSUME NEW y \in Conn PROVE InTurn(y)'
      BY DEF Replies
    <3>1. InTurn(y) /\ hpc[Cur(c)] = "none"
      BY <1>1, Current DEF Replies, Connect, Unused, Cur
    <3>2. CASE y # Cur(c)
      BY <1>1, <2>1, <3>1, <3>2, Current, InTurnElsewhere DEF Connect
    <3>3. CASE y = Cur(c)
      <4>1. hpc'[y] = "begin" /\ UNCHANGED <<down, commit, fds>>
        BY <1>1, <2>1, <3>3, Current DEF Connect
      <4> QED
        BY <3>1, <3>3, <4>1 DEF InTurn
    <3> QED
      BY <3>2, <3>3
  <2>2. CASE daemon # "up"
    BY <1>1, <2>2 DEF Connect, InTurn
  <2> QED
    BY <2>1, <2>2
<1>2. ASSUME NEW c \in Client, GetReady(c) PROVE Replies'
  <2> SUFFICES ASSUME NEW y \in Conn PROVE InTurn(y)'
    BY DEF Replies
  <2>1. InTurn(y)
    BY DEF Replies
  <2>2. CASE y # Cur(c)
    BY <1>2, <2>1, <2>2, InTurnElsewhere, Current DEF GetReady
  <2>3. CASE y = Cur(c)
    <3>1. (hpc[y] = "fds" /\ down[y] = <<"Ready">>) \/ hpc[y] = "gone"
      BY <1>2, <2>1, <2>3, ReplyQueue DEF GetReady, InTurn
    <3>2. /\ down'[y] = Tail(down[y]) /\ down[y] # << >> /\ y \in fds'
          /\ UNCHANGED <<hpc, commit>>
      BY <1>2, <2>3 DEF GetReady
    <3>3. Len(down'[y]) <= 2
      <4>1. down[y] \in Seq(Reply) /\ Len(down[y]) <= 2
        BY <2>1 DEF InTurn
      <4> QED
        BY <3>2, <4>1, ReplyQueue
    <3>4. CASE hpc[y] = "gone"
      BY <3>2, <3>3, <3>4, InTurnGone
    <3>5. CASE hpc[y] # "gone"
      <4>1. down'[y] = << >>
        BY <3>1, <3>2, <3>5, ReplyQueue
      <4> QED
        BY <2>1, <3>1, <3>2, <3>3, <3>5, <4>1 DEF InTurn
    <3> QED
      BY <3>4, <3>5
  <2> QED
    BY <2>2, <2>3
<1>3. ASSUME NEW c \in Client, GetPrepared(c) PROVE Replies'
  <2> SUFFICES ASSUME NEW y \in Conn PROVE InTurn(y)'
    BY DEF Replies
  <2>1. InTurn(y)
    BY DEF Replies
  <2>2. CASE y # Cur(c)
    BY <1>3, <2>1, <2>2, InTurnElsewhere, Current DEF GetPrepared
  <2>3. CASE y = Cur(c)
    <3>1. (hpc[y] = "commit" /\ down[y] = <<"Prepared">>) \/ hpc[y] = "gone"
      BY <1>3, <2>1, <2>3, ReplyQueue DEF GetPrepared, InTurn
    <3>2. /\ down'[y] = Tail(down[y]) /\ down[y] # << >>
          /\ UNCHANGED <<hpc, commit>>
      BY <1>3, <2>3 DEF GetPrepared
    <3>3. Len(down'[y]) <= 2
      <4>1. down[y] \in Seq(Reply) /\ Len(down[y]) <= 2
        BY <2>1 DEF InTurn
      <4> QED
        BY <3>2, <4>1, ReplyQueue
    <3>4. CASE hpc[y] = "gone"
      BY <3>2, <3>3, <3>4, InTurnGone
    <3>5. CASE hpc[y] # "gone"
      <4>1. down'[y] = << >>
        BY <3>1, <3>2, <3>5, ReplyQueue
      <4> QED
        BY <2>1, <3>1, <3>2, <3>3, <3>5, <4>1 DEF InTurn
    <3> QED
      BY <3>4, <3>5
  <2> QED
    BY <2>2, <2>3
<1>4. ASSUME NEW c \in Client, WriteCommit(c) PROVE Replies'
  <2> SUFFICES ASSUME NEW y \in Conn PROVE InTurn(y)'
    BY DEF Replies
  <2>1. InTurn(y)
    BY DEF Replies
  <2>2. CASE y # Cur(c)
    BY <1>4, <2>1, <2>2, InTurnElsewhere, Current DEF WriteCommit
  <2>3. CASE y = Cur(c)
    <3>1. /\ hpc[Cur(c)] \notin {"none", "begin", "fds"}
          /\ hpc[Cur(c)] = "commit" => down[Cur(c)] = << >>
      BY <1>4, <2>1, <2>3, ReplyQueue, Current DEF WriteCommit, Prepared
    <3>2. UNCHANGED <<hpc, down, fds>>
      BY <1>4, <3>1, ReplyQueue, Current DEF WriteCommit
    <3> QED
      BY <2>1, <2>3, <3>1, <3>2, ReplyQueue DEF InTurn
  <2> QED
    BY <2>2, <2>3
<1>5. ASSUME NEW c \in Client, GetAccepted(c) PROVE Replies'
  <2> SUFFICES ASSUME NEW y \in Conn PROVE InTurn(y)'
    BY DEF Replies
  <2>1. InTurn(y)
    BY DEF Replies
  <2>2. CASE y # Cur(c)
    BY <1>5, <2>1, <2>2, InTurnElsewhere, Current DEF GetAccepted
  <2>3. CASE y = Cur(c)
    <3>1. (hpc[y] \in {"run", "cancel", "reap"} /\ down[y] = <<"Accepted">>) \/ hpc[y] = "gone"
      BY <1>5, <2>1, <2>3, ReplyQueue DEF GetAccepted, InTurn
    <3>2. /\ down'[y] = Tail(down[y]) /\ down[y] # << >>
          /\ UNCHANGED <<hpc, commit>>
      BY <1>5, <2>3 DEF GetAccepted
    <3>3. Len(down'[y]) <= 2
      <4>1. down[y] \in Seq(Reply) /\ Len(down[y]) <= 2
        BY <2>1 DEF InTurn
      <4> QED
        BY <3>2, <4>1, ReplyQueue
    <3>4. CASE hpc[y] = "gone"
      BY <3>2, <3>3, <3>4, InTurnGone
    <3>5. CASE hpc[y] # "gone"
      <4>1. down'[y] = << >>
        BY <3>1, <3>2, <3>5, ReplyQueue
      <4> QED
        BY <2>1, <3>1, <3>2, <3>3, <3>5, <4>1 DEF InTurn
    <3> QED
      BY <3>4, <3>5
  <2> QED
    BY <2>2, <2>3
<1>6. ASSUME NEW c \in Client, Serve(c) PROVE Replies'
  BY <1>6, Current, InTurnElsewhere DEF Serve
<1>7. ASSUME NEW c \in Client, GetComplete(c) PROVE Replies'
  <2> SUFFICES ASSUME NEW y \in Conn PROVE InTurn(y)'
    BY DEF Replies
  <2>1. InTurn(y)
    BY DEF Replies
  <2>2. CASE y # Cur(c)
    BY <1>7, <2>1, <2>2, InTurnElsewhere, Current DEF GetComplete, Close
  <2>3. CASE y = Cur(c)
    <3>1. hpc[y] = "gone"
      BY <1>7, <2>1, <2>3, ReplyQueue DEF GetComplete, InTurn
    <3>2. /\ down'[y] = Tail(down[y]) /\ down[y] # << >>
          /\ UNCHANGED <<hpc, commit>>
      BY <1>7, <2>3 DEF GetComplete
    <3>3. Len(down'[y]) <= 2
      <4>1. down[y] \in Seq(Reply) /\ Len(down[y]) <= 2
        BY <2>1 DEF InTurn
      <4> QED
        BY <3>2, <4>1, ReplyQueue
    <3> QED
      BY <3>1, <3>2, <3>3, InTurnGone
  <2> QED
    BY <2>2, <2>3
<1>8. ASSUME NEW c \in Client, Lost(c) PROVE Replies'
  BY <1>8, Current, InTurnElsewhere DEF Lost, Close
<1>9. ASSUME NEW c \in Client, GiveUp(c) PROVE Replies'
  BY <1>9, Current, InTurnElsewhere DEF GiveUp, Fallback, Close
<1>10. ASSUME NEW c \in Client, CommitError(c) PROVE Replies'
  <2> SUFFICES ASSUME NEW y \in Conn PROVE InTurn(y)'
    BY DEF Replies
  <2>1. InTurn(y)
    BY DEF Replies
  <2>2. CASE y # Cur(c)
    BY <1>10, <2>1, <2>2, InTurnElsewhere, Current DEF CommitError
  <2>3. CASE y = Cur(c)
    <3>1. /\ hpc[Cur(c)] \notin {"none", "begin", "fds"}
          /\ hpc[Cur(c)] = "commit" => down[Cur(c)] = << >>
      BY <1>10, <2>1, <2>3, ReplyQueue, Current DEF CommitError, Prepared
    <3>2. UNCHANGED <<hpc, down, fds>>
      BY <1>10, <3>1, ReplyQueue, Current DEF CommitError
    <3> QED
      BY <2>1, <2>3, <3>1, <3>2, ReplyQueue DEF InTurn
  <2> QED
    BY <2>2, <2>3
<1>11. ASSUME NEW c \in Client, CompileLocally(c) PROVE Replies'
  BY <1>11, Current, InTurnElsewhere DEF CompileLocally
<1>12. ASSUME NEW c \in Client, Die(c) PROVE Replies'
  BY <1>12, Current, InTurnElsewhere DEF Die, Close
<1>13. ASSUME NEW x \in Conn, Decline(x) PROVE Replies'
  <2> SUFFICES ASSUME NEW y \in Conn PROVE InTurn(y)'
    BY DEF Replies
  <2>1. InTurn(y)
    BY DEF Replies
  <2>2. CASE y # x
    BY <1>13, <2>1, <2>2, InTurnElsewhere DEF Decline
  <2>3. CASE y = x
    <3>1. down[x] = << >>
      BY <1>13, <2>1, <2>3, ReplyQueue DEF Decline, InTurn
    <3>2. hpc'[x] = "gone" /\ Len(down'[x]) <= 2
      BY <1>13, <3>1, ReplyQueue DEF Decline
    <3> QED
      BY <2>1, <2>3, <3>1, <3>2, InTurnGone
  <2> QED
    BY <2>2, <2>3
<1>14. ASSUME NEW x \in Conn, Begin(x) PROVE Replies'
  <2> SUFFICES ASSUME NEW y \in Conn PROVE InTurn(y)'
    BY DEF Replies
  <2>1. InTurn(y)
    BY DEF Replies
  <2>2. CASE y # x
    BY <1>14, <2>1, <2>2, InTurnElsewhere DEF Begin
  <2>3. CASE y = x
    <3>1. down[x] = << >> /\ x \notin fds /\ commit[x] = "none"
      BY <1>14, <2>1, <2>3, ReplyQueue DEF Begin, InTurn
    <3>2. hpc'[x] = "fds" /\ down'[x] = <<"Ready">> /\ UNCHANGED <<fds, commit>>
      BY <1>14, <3>1, ReplyQueue DEF Begin
    <3> QED
      BY <2>1, <2>3, <3>1, <3>2, ReplyQueue DEF InTurn
  <2> QED
    BY <2>2, <2>3
<1>15. ASSUME NEW x \in Conn, GetFds(x) PROVE Replies'
  <2> SUFFICES ASSUME NEW y \in Conn PROVE InTurn(y)'
    BY DEF Replies
  <2>1. InTurn(y)
    BY DEF Replies
  <2>2. CASE y # x
    BY <1>15, <2>1, <2>2, InTurnElsewhere DEF GetFds
  <2>3. CASE y = x
    <3>1. down[x] = << >> /\ commit[x] = "none"
      BY <1>15, <2>1, <2>3, ReplyQueue DEF GetFds, InTurn
    <3>2. hpc'[x] = "commit" /\ down'[x] = <<"Prepared">> /\ UNCHANGED <<fds, commit>>
      BY <1>15, <3>1, ReplyQueue DEF GetFds
    <3> QED
      BY <2>1, <2>3, <3>1, <3>2, ReplyQueue DEF InTurn
  <2> QED
    BY <2>2, <2>3
<1>16. ASSUME NEW x \in Conn, GetCommit(x) PROVE Replies'
  <2> SUFFICES ASSUME NEW y \in Conn PROVE InTurn(y)'
    BY DEF Replies
  <2>1. InTurn(y)
    BY DEF Replies
  <2>2. CASE y # x
    BY <1>16, <2>1, <2>2, InTurnElsewhere DEF GetCommit
  <2>3. CASE y = x
    <3>1. down[x] = << >> /\ commit[x] # "none"
      BY <1>16, <2>1, <2>3, ReplyQueue DEF GetCommit, InTurn
    <3>2. hpc'[x] = "accept" /\ UNCHANGED <<down, fds, commit>>
      BY <1>16, <3>1, ReplyQueue DEF GetCommit
    <3> QED
      BY <2>1, <2>3, <3>1, <3>2, ReplyQueue DEF InTurn
  <2> QED
    BY <2>2, <2>3
<1>17. ASSUME NEW x \in Conn, HandlerLeaves(x) PROVE Replies'
  <2> SUFFICES ASSUME NEW y \in Conn PROVE InTurn(y)'
    BY DEF Replies
  <2>1. InTurn(y)
    BY DEF Replies
  <2>2. CASE y # x
    BY <1>17, <2>1, <2>2, InTurnElsewhere DEF HandlerLeaves
  <2>3. CASE y = x
    <3>1. Len(down[x]) <= 2
      BY <1>17, <2>1, <2>3, ReplyQueue DEF HandlerLeaves, InTurn
    <3>2. hpc'[x] = "gone" /\ UNCHANGED down
      BY <1>17, <3>1, ReplyQueue DEF HandlerLeaves
    <3> QED
      BY <2>1, <2>3, <3>1, <3>2, InTurnGone
  <2> QED
    BY <2>2, <2>3
<1>18. ASSUME NEW x \in Conn, Accept(x) PROVE Replies'
  <2> SUFFICES ASSUME NEW y \in Conn PROVE InTurn(y)'
    BY DEF Replies
  <2>1. InTurn(y)
    BY DEF Replies
  <2>2. CASE y # x
    BY <1>18, <2>1, <2>2, InTurnElsewhere DEF Accept
  <2>3. CASE y = x
    <3>1. down[x] = << >>
      BY <1>18, <2>1, <2>3, ReplyQueue DEF Accept, InTurn
    <3>2. hpc'[x] = "run" /\ down'[x] = <<"Accepted">> /\ UNCHANGED <<fds, commit>>
      BY <1>18, <3>1, ReplyQueue DEF Accept
    <3> QED
      BY <2>1, <2>3, <3>1, <3>2, ReplyQueue DEF InTurn
  <2> QED
    BY <2>2, <2>3
<1>19. ASSUME NEW x \in Conn, Finish(x) PROVE Replies'
  <2> SUFFICES ASSUME NEW y \in Conn PROVE InTurn(y)'
    BY DEF Replies
  <2>1. InTurn(y)
    BY DEF Replies
  <2>2. CASE y # x
    BY <1>19, <2>1, <2>2, InTurnElsewhere DEF Finish
  <2>3. CASE y = x
    <3>1. down[x] \in {<< >>, <<"Accepted">>} /\ outcome[x] \in Reply
      BY <1>19, <2>1, <2>3, ReplyQueue DEF Finish, InTurn, Reply
    <3>2. hpc'[x] = "gone" /\ Len(down'[x]) <= 2
      <4>1. hpc'[x] = "gone" /\ down'[x] = Append(down[x], outcome[x])
        BY <1>19 DEF Finish
      <4>2. down[x] \in Seq(Reply)
        OBVIOUS
      <4>3. Len(Append(down[x], outcome[x])) <= 2
        BY <3>1, <4>2, AppendToAccepted
      <4> QED
        BY <4>1, <4>3
    <3> QED
      BY <2>1, <2>3, <3>1, <3>2, InTurnGone
  <2> QED
    BY <2>2, <2>3
<1>20. ASSUME NEW x \in Conn, Cancel(x) PROVE Replies'
  <2> SUFFICES ASSUME NEW y \in Conn PROVE InTurn(y)'
    BY DEF Replies
  <2>1. InTurn(y)
    BY DEF Replies
  <2>2. CASE y # x
    BY <1>20, <2>1, <2>2, InTurnElsewhere DEF Cancel
  <2>3. CASE y = x
    <3>1. hpc[x] = "run"
      BY <1>20, <2>1, <2>3, ReplyQueue DEF Cancel, InTurn
    <3>2. hpc'[x] = "cancel" /\ UNCHANGED <<down, fds, commit>>
      BY <1>20, <3>1, ReplyQueue DEF Cancel
    <3> QED
      BY <2>1, <2>3, <3>1, <3>2, ReplyQueue DEF InTurn
  <2> QED
    BY <2>2, <2>3
<1>21. ASSUME NEW x \in Conn, KillChildren(x) PROVE Replies'
  <2> SUFFICES ASSUME NEW y \in Conn PROVE InTurn(y)'
    BY DEF Replies
  <2>1. InTurn(y)
    BY DEF Replies
  <2>2. CASE y # x
    BY <1>21, <2>1, <2>2, InTurnElsewhere DEF KillChildren
  <2>3. CASE y = x
    <3>1. hpc[x] = "cancel"
      BY <1>21, <2>1, <2>3, ReplyQueue DEF KillChildren, InTurn
    <3>2. hpc'[x] = "reap" /\ UNCHANGED <<down, fds, commit>>
      BY <1>21, <3>1, ReplyQueue DEF KillChildren
    <3> QED
      BY <2>1, <2>3, <3>1, <3>2, ReplyQueue DEF InTurn
  <2> QED
    BY <2>2, <2>3
<1>22. ASSUME NEW x \in Conn, Reaped(x) PROVE Replies'
  <2> SUFFICES ASSUME NEW y \in Conn PROVE InTurn(y)'
    BY DEF Replies
  <2>1. InTurn(y)
    BY DEF Replies
  <2>2. CASE y # x
    BY <1>22, <2>1, <2>2, InTurnElsewhere DEF Reaped
  <2>3. CASE y = x
    <3>1. Len(down[x]) <= 2
      BY <1>22, <2>1, <2>3, ReplyQueue DEF Reaped, InTurn
    <3>2. hpc'[x] = "gone" /\ UNCHANGED down
      BY <1>22, <3>1, ReplyQueue DEF Reaped
    <3> QED
      BY <2>1, <2>3, <3>1, <3>2, InTurnGone
  <2> QED
    BY <2>2, <2>3
<1>23. ASSUME NEW x \in Conn, Enter(x) PROVE Replies'
  BY <1>23, InTurnElsewhere, ReplyQueue DEF Enter, End
<1>24. ASSUME NEW x \in Conn, Hit(x) PROVE Replies'
  BY <1>24, InTurnElsewhere, ReplyQueue DEF Hit, End
<1>25. ASSUME NEW x \in Conn, Spawn(x) PROVE Replies'
  BY <1>25, InTurnElsewhere, ReplyQueue DEF Spawn, End
<1>26. ASSUME NEW x \in Conn, Spawned(x) PROVE Replies'
  BY <1>26, InTurnElsewhere, ReplyQueue DEF Spawned
<1>27. ASSUME NEW x \in Conn, SpawnFails(x) PROVE Replies'
  BY <1>27, InTurnElsewhere, ReplyQueue DEF SpawnFails, End
<1>28. ASSUME NEW x \in Conn, Waited(x) PROVE Replies'
  BY <1>28, InTurnElsewhere, ReplyQueue DEF Waited, End
<1>29. ASSUME NEW x \in Conn, ChildExit(x) PROVE Replies'
  BY <1>29, InTurnElsewhere, ReplyQueue DEF ChildExit
<1>30. CASE Drain
  BY <1>30, InTurnElsewhere DEF Drain
<1>31. CASE Stop
  <2> SUFFICES ASSUME NEW y \in Conn PROVE InTurn(y)'
    BY DEF Replies
  <2>1. InTurn(y) /\ UNCHANGED <<down, commit, fds>>
    BY <1>31 DEF Replies, Stop
  <2>2. CASE hpc[y] = "none"
    BY <1>31, <2>1, <2>2, InTurnElsewhere DEF Stop
  <2>3. CASE hpc[y] # "none"
    <3>1. hpc'[y] = "gone" /\ Len(down'[y]) <= 2
      BY <1>31, <2>1, <2>3 DEF Stop, InTurn
    <3> QED
      BY <3>1, InTurnGone
  <2> QED
    BY <2>2, <2>3
<1>32. CASE StartDaemon
  BY <1>32, InTurnElsewhere DEF StartDaemon
<1>33. CASE UNCHANGED vars
  BY <1>33 DEF vars, client, handler, worker, broker, setup, InTurn
<1>34. ASSUME NEW c \in Client, Refuse(c) PROVE Replies'
  BY <1>34, Current, InTurnElsewhere, ReplyQueue DEF Refuse
<1>35. ASSUME NEW x \in Conn, SpawnLost(x) PROVE Replies'
  BY <1>35, InTurnElsewhere, ReplyQueue DEF SpawnLost, End
<1>36. ASSUME NEW x \in Conn, WaitLost(x) PROVE Replies'
  BY <1>36, InTurnElsewhere, ReplyQueue DEF WaitLost, End
<1> QED
  BY <1>1, <1>2, <1>3, <1>4, <1>5, <1>6, <1>7, <1>8, <1>9, <1>10, <1>11, <1>12, <1>13, <1>14,
     <1>15, <1>16, <1>17, <1>18, <1>19, <1>20, <1>21, <1>22, <1>23, <1>24, <1>25, <1>26, <1>27,
     <1>28, <1>29, <1>30, <1>31, <1>32, <1>33, <1>34, <1>35, <1>36
  DEF Next, ClientStep, HandlerStep, WorkerStep

\* A worker is behind a Commit that was read, and is asked for once.
LEMMA WorkersStep ==
    ASSUME TypeOK, Workers, Replies, Unused, Commits, [Next]_vars
    PROVE  Workers'
<1> USE DEF TypeOK, Workers, Goto, HGoto, WGoto,
            client, handler, worker, broker, setup
<1>1. ASSUME NEW c \in Client, Connect(c) PROVE Workers'
  <2>1. CASE daemon = "up"
    <3>1. hpc[Cur(c)] = "none"
      BY <1>1, Current DEF Connect, Unused, Cur
    <3>2. hpc' = [hpc EXCEPT ![Cur(c)] = "begin"] /\ UNCHANGED <<wpc, commit, ask>>
      BY <1>1, <2>1 DEF Connect
    <3> QED
      BY <3>1, <3>2, Current
  <2>2. CASE daemon # "up"
    BY <1>1, <2>2 DEF Connect
  <2> QED
    BY <2>1, <2>2
<1>2. ASSUME NEW c \in Client, GetReady(c) PROVE Workers'
  BY <1>2, Current DEF GetReady
<1>3. ASSUME NEW c \in Client, GetPrepared(c) PROVE Workers'
  BY <1>3, Current DEF GetPrepared
<1>4. ASSUME NEW c \in Client, WriteCommit(c) PROVE Workers'
  BY <1>4, Current DEF WriteCommit
<1>5. ASSUME NEW c \in Client, GetAccepted(c) PROVE Workers'
  BY <1>5, Current DEF GetAccepted
<1>6. ASSUME NEW c \in Client, Serve(c) PROVE Workers'
  BY <1>6, Current DEF Serve
<1>7. ASSUME NEW c \in Client, GetComplete(c) PROVE Workers'
  BY <1>7, Current DEF GetComplete, Close
<1>8. ASSUME NEW c \in Client, Lost(c) PROVE Workers'
  BY <1>8, Current DEF Lost, Close
<1>9. ASSUME NEW c \in Client, GiveUp(c) PROVE Workers'
  BY <1>9, Current DEF GiveUp, Fallback, Close
<1>10. ASSUME NEW c \in Client, CommitError(c) PROVE Workers'
  <2>1. commit[Cur(c)] = "none"
    BY <1>10, Current DEF CommitError, Commits, Committed, Cur
  <2>2. PICK w \in {"none", "torn", "sent"} : commit' = [commit EXCEPT ![Cur(c)] = w]
    BY <1>10 DEF CommitError
  <2>3. UNCHANGED <<hpc, wpc, ask>>
    BY <1>10 DEF CommitError
  <2> QED
    BY <2>1, <2>2, <2>3, Current
<1>11. ASSUME NEW c \in Client, CompileLocally(c) PROVE Workers'
  BY <1>11, Current DEF CompileLocally
<1>12. ASSUME NEW c \in Client, Die(c) PROVE Workers'
  BY <1>12, Current DEF Die, Close
<1>13. ASSUME NEW x \in Conn, Decline(x) PROVE Workers'
  BY <1>13 DEF Decline
<1>14. ASSUME NEW x \in Conn, Begin(x) PROVE Workers'
  BY <1>14 DEF Begin
<1>15. ASSUME NEW x \in Conn, GetFds(x) PROVE Workers'
  BY <1>15 DEF GetFds
<1>16. ASSUME NEW x \in Conn, GetCommit(x) PROVE Workers'
  BY <1>16 DEF GetCommit
<1>17. ASSUME NEW x \in Conn, HandlerLeaves(x) PROVE Workers'
  BY <1>17 DEF HandlerLeaves
<1>18. ASSUME NEW x \in Conn, Accept(x) PROVE Workers'
  BY <1>18 DEF Accept
<1>19. ASSUME NEW x \in Conn, Finish(x) PROVE Workers'
  BY <1>19 DEF Finish
<1>20. ASSUME NEW x \in Conn, Cancel(x) PROVE Workers'
  BY <1>20 DEF Cancel
<1>21. ASSUME NEW x \in Conn, KillChildren(x) PROVE Workers'
  BY <1>21 DEF KillChildren
<1>22. ASSUME NEW x \in Conn, Reaped(x) PROVE Workers'
  BY <1>22 DEF Reaped
<1>23. ASSUME NEW x \in Conn, Enter(x) PROVE Workers'
  BY <1>23 DEF Enter, End
<1>24. ASSUME NEW x \in Conn, Hit(x) PROVE Workers'
  BY <1>24 DEF Hit, End
<1>25. ASSUME NEW x \in Conn, Spawn(x) PROVE Workers'
  BY <1>25 DEF Spawn, End
<1>26. ASSUME NEW x \in Conn, Spawned(x) PROVE Workers'
  BY <1>26 DEF Spawned
<1>27. ASSUME NEW x \in Conn, SpawnFails(x) PROVE Workers'
  BY <1>27 DEF SpawnFails, End
<1>28. ASSUME NEW x \in Conn, Waited(x) PROVE Workers'
  BY <1>28 DEF Waited, End
<1>29. ASSUME NEW x \in Conn, ChildExit(x) PROVE Workers'
  BY <1>29 DEF ChildExit
<1>30. CASE Drain
  BY <1>30 DEF Drain
<1>31. CASE Stop
  BY <1>31 DEF Stop
<1>32. CASE StartDaemon
  BY <1>32 DEF StartDaemon
<1>33. CASE UNCHANGED vars
  BY <1>33 DEF vars, client, handler, worker, broker, setup
<1>34. ASSUME NEW c \in Client, Refuse(c) PROVE Workers'
  BY <1>34, Current DEF Refuse
<1>35. ASSUME NEW x \in Conn, SpawnLost(x) PROVE Workers'
  BY <1>35 DEF SpawnLost, End
<1>36. ASSUME NEW x \in Conn, WaitLost(x) PROVE Workers'
  BY <1>36 DEF WaitLost, End
<1> QED
  BY <1>1, <1>2, <1>3, <1>4, <1>5, <1>6, <1>7, <1>8, <1>9, <1>10, <1>11, <1>12, <1>13, <1>14,
     <1>15, <1>16, <1>17, <1>18, <1>19, <1>20, <1>21, <1>22, <1>23, <1>24, <1>25, <1>26, <1>27,
     <1>28, <1>29, <1>30, <1>31, <1>32, <1>33, <1>34, <1>35, <1>36
  DEF Next, ClientStep, HandlerStep, WorkerStep

\* A compiler is started locally by a client that never committed, or for the
\* one request of its worker.
LEMMA StartedStep ==
    ASSUME TypeOK, RunsOnce, Started, Workers, [Next]_vars
    PROVE  RunsOnce' /\ Started'
<1> USE DEF TypeOK, RunsOnce, Started, StartedFor, Workers, Over, Conn, Cur, Goto, WGoto,
            client, handler, worker, broker, setup
<1>1. ASSUME NEW c \in Client, Connect(c) PROVE RunsOnce' /\ Started'
  <2>1. \A d \in Client \ {c} : try'[d] = try[d] /\ cpc'[d] = cpc[d]
    BY <1>1 DEF Connect, Fallback
  <2>2. cpc'[c] \in {"try", "ready", "local"}
    BY <1>1 DEF Connect, Fallback
  <2>3. UNCHANGED <<ask, starts>>
    BY <1>1 DEF Connect
  <2>4. cpc[c] \notin {"complete"} \cup Over
    BY <1>1 DEF Connect
  <2>5. RunsOnce'
    BY <2>3
  <2>6. ASSUME NEW d \in Client PROVE StartedFor(d)'
    <3>1. CASE d = c
      BY <2>2, <2>3, <2>4, <3>1
    <3>2. CASE d # c
      BY <2>1, <2>3, <3>2
    <3> QED
      BY <3>1, <3>2
  <2> QED
    BY <2>5, <2>6
<1>2. ASSUME NEW c \in Client, GetReady(c) PROVE RunsOnce' /\ Started'
  BY <1>2 DEF GetReady
<1>3. ASSUME NEW c \in Client, GetPrepared(c) PROVE RunsOnce' /\ Started'
  BY <1>3 DEF GetPrepared
<1>4. ASSUME NEW c \in Client, WriteCommit(c) PROVE RunsOnce' /\ Started'
  BY <1>4 DEF WriteCommit
<1>5. ASSUME NEW c \in Client, GetAccepted(c) PROVE RunsOnce' /\ Started'
  BY <1>5 DEF GetAccepted
<1>6. ASSUME NEW c \in Client, Serve(c) PROVE RunsOnce' /\ Started'
  <2>1. starts[c] = 0 /\ cpc[c] = "complete"
    BY <1>6 DEF Serve
  <2>2. starts' = [starts EXCEPT ![c] = starts[c] + 1] /\ UNCHANGED try
    BY <1>6 DEF Serve
  <2>3. CASE ask[Cur(c)] = "asked"
    <3>1. ask' = [ask EXCEPT ![Cur(c)] = "served"] /\ UNCHANGED cpc
      BY <1>6, <2>3 DEF Serve
    <3>2. ask'[Cur(c)] = "served"
      BY <3>1, Current
    <3>3. ASSUME NEW d \in Client PROVE StartedFor(d)' /\ starts'[d] <= 1
      <4>1. CASE d = c
        BY <2>1, <2>2, <3>1, <3>2, <4>1
      <4>2. CASE d # c
        BY <2>2, <3>1, <4>2
      <4> QED
        BY <4>1, <4>2
    <3> QED
      BY <3>3
  <2>4. CASE ask[Cur(c)] # "asked"
    <3>1. cpc' = [cpc EXCEPT ![c] = "error"] /\ UNCHANGED ask
      BY <1>6, <2>4 DEF Serve
    <3>2. ASSUME NEW d \in Client PROVE StartedFor(d)' /\ starts'[d] <= 1
      <4>1. CASE d = c
        BY <2>1, <2>2, <3>1, <4>1
      <4>2. CASE d # c
        BY <2>2, <3>1, <4>2
      <4> QED
        BY <4>1, <4>2
    <3> QED
      BY <3>2
  <2> QED
    BY <2>3, <2>4
<1>7. ASSUME NEW c \in Client, GetComplete(c) PROVE RunsOnce' /\ Started'
  BY <1>7 DEF GetComplete, Close
<1>8. ASSUME NEW c \in Client, Lost(c) PROVE RunsOnce' /\ Started'
  BY <1>8 DEF Lost, Close
<1>9. ASSUME NEW c \in Client, GiveUp(c) PROVE RunsOnce' /\ Started'
  <2>1. \A d \in Client \ {c} : try'[d] = try[d] /\ cpc'[d] = cpc[d]
    BY <1>9 DEF GiveUp, Fallback
  <2>2. cpc'[c] \in {"try", "ready", "local"}
    BY <1>9 DEF GiveUp, Fallback
  <2>3. UNCHANGED <<ask, starts>>
    BY <1>9 DEF GiveUp
  <2>4. cpc[c] \notin {"complete"} \cup Over
    BY <1>9 DEF GiveUp
  <2>5. RunsOnce'
    BY <2>3
  <2>6. ASSUME NEW d \in Client PROVE StartedFor(d)'
    <3>1. CASE d = c
      BY <2>2, <2>3, <2>4, <3>1
    <3>2. CASE d # c
      BY <2>1, <2>3, <3>2
    <3> QED
      BY <3>1, <3>2
  <2> QED
    BY <2>5, <2>6
<1>10. ASSUME NEW c \in Client, CommitError(c) PROVE RunsOnce' /\ Started'
  BY <1>10 DEF CommitError, Close
<1>11. ASSUME NEW c \in Client, CompileLocally(c) PROVE RunsOnce' /\ Started'
  <2>1. starts[c] = 0
    BY <1>11 DEF CompileLocally
  <2>2. starts' = [starts EXCEPT ![c] = starts[c] + 1]
    BY <1>11 DEF CompileLocally
  <2>3. cpc'[c] = "built" /\ (\A d \in Client \ {c} : cpc'[d] = cpc[d]) /\ UNCHANGED <<try, ask>>
    BY <1>11 DEF CompileLocally
  <2>4. ASSUME NEW d \in Client PROVE StartedFor(d)' /\ starts'[d] <= 1
    <3>1. CASE d = c
      BY <2>1, <2>2, <2>3, <3>1
    <3>2. CASE d # c
      BY <2>2, <2>3, <3>2
    <3> QED
      BY <3>1, <3>2
  <2> QED
    BY <2>4
<1>12. ASSUME NEW c \in Client, Die(c) PROVE RunsOnce' /\ Started'
  BY <1>12 DEF Die, Close
<1>13. ASSUME NEW x \in Conn, Decline(x) PROVE RunsOnce' /\ Started'
  BY <1>13 DEF Decline
<1>14. ASSUME NEW x \in Conn, Begin(x) PROVE RunsOnce' /\ Started'
  BY <1>14 DEF Begin
<1>15. ASSUME NEW x \in Conn, GetFds(x) PROVE RunsOnce' /\ Started'
  BY <1>15 DEF GetFds
<1>16. ASSUME NEW x \in Conn, GetCommit(x) PROVE RunsOnce' /\ Started'
  BY <1>16 DEF GetCommit
<1>17. ASSUME NEW x \in Conn, HandlerLeaves(x) PROVE RunsOnce' /\ Started'
  BY <1>17 DEF HandlerLeaves
<1>18. ASSUME NEW x \in Conn, Accept(x) PROVE RunsOnce' /\ Started'
  BY <1>18 DEF Accept
<1>19. ASSUME NEW x \in Conn, Finish(x) PROVE RunsOnce' /\ Started'
  BY <1>19 DEF Finish
<1>20. ASSUME NEW x \in Conn, Cancel(x) PROVE RunsOnce' /\ Started'
  BY <1>20 DEF Cancel
<1>21. ASSUME NEW x \in Conn, KillChildren(x) PROVE RunsOnce' /\ Started'
  BY <1>21 DEF KillChildren
<1>22. ASSUME NEW x \in Conn, Reaped(x) PROVE RunsOnce' /\ Started'
  BY <1>22 DEF Reaped
<1>23. ASSUME NEW x \in Conn, Enter(x) PROVE RunsOnce' /\ Started'
  BY <1>23 DEF Enter, End
<1>24. ASSUME NEW x \in Conn, Hit(x) PROVE RunsOnce' /\ Started'
  BY <1>24 DEF Hit, End
<1>25. ASSUME NEW x \in Conn, Spawn(x) PROVE RunsOnce' /\ Started'
  BY <1>25 DEF Spawn, End
<1>26. ASSUME NEW x \in Conn, Spawned(x) PROVE RunsOnce' /\ Started'
  BY <1>26 DEF Spawned
<1>27. ASSUME NEW x \in Conn, SpawnFails(x) PROVE RunsOnce' /\ Started'
  BY <1>27 DEF SpawnFails, End
<1>28. ASSUME NEW x \in Conn, Waited(x) PROVE RunsOnce' /\ Started'
  BY <1>28 DEF Waited, End
<1>29. ASSUME NEW x \in Conn, ChildExit(x) PROVE RunsOnce' /\ Started'
  BY <1>29 DEF ChildExit
<1>30. CASE Drain
  BY <1>30 DEF Drain
<1>31. CASE Stop
  BY <1>31 DEF Stop
<1>32. CASE StartDaemon
  BY <1>32 DEF StartDaemon
<1>33. CASE UNCHANGED vars
  BY <1>33 DEF vars, client, handler, worker, broker, setup
<1>34. ASSUME NEW c \in Client, Refuse(c) PROVE RunsOnce' /\ Started'
  <2>1. ask' = [ask EXCEPT ![Cur(c)] = "refused"] /\ UNCHANGED <<cpc, try, starts>>
    BY <1>34 DEF Refuse
  <2>2. cpc[c] = "complete" /\ ask[Cur(c)] = "asked" /\ ask'[Cur(c)] = "refused"
    BY <1>34, <2>1, Current DEF Refuse
  <2>3. ASSUME NEW d \in Client PROVE StartedFor(d)' /\ starts'[d] <= 1
    <3>1. CASE d = c
      BY <2>1, <2>2, <3>1
    <3>2. CASE d # c
      BY <2>1, <3>2
    <3> QED
      BY <3>1, <3>2
  <2> QED
    BY <2>3
<1>35. ASSUME NEW x \in Conn, SpawnLost(x) PROVE RunsOnce' /\ Started'
  BY <1>35 DEF SpawnLost, End
<1>36. ASSUME NEW x \in Conn, WaitLost(x) PROVE RunsOnce' /\ Started'
  BY <1>36 DEF WaitLost, End
<1> QED
  BY <1>1, <1>2, <1>3, <1>4, <1>5, <1>6, <1>7, <1>8, <1>9, <1>10, <1>11, <1>12, <1>13, <1>14,
     <1>15, <1>16, <1>17, <1>18, <1>19, <1>20, <1>21, <1>22, <1>23, <1>24, <1>25, <1>26, <1>27,
     <1>28, <1>29, <1>30, <1>31, <1>32, <1>33, <1>34, <1>35, <1>36
  DEF Next, ClientStep, HandlerStep, WorkerStep

\* What stops the daemon stops its handlers and workers.
LEMMA QuietStep ==
    ASSUME TypeOK, Quiet, [Next]_vars
    PROVE  Quiet'
<1> USE DEF TypeOK, Quiet, HGoto, WGoto,
            client, handler, worker, broker, setup
<1>1. ASSUME NEW c \in Client, Connect(c) PROVE Quiet'
  BY <1>1, Current DEF Connect, Fallback
<1>2. ASSUME NEW c \in Client, GetReady(c) PROVE Quiet'
  BY <1>2, Current DEF GetReady
<1>3. ASSUME NEW c \in Client, GetPrepared(c) PROVE Quiet'
  BY <1>3, Current DEF GetPrepared
<1>4. ASSUME NEW c \in Client, WriteCommit(c) PROVE Quiet'
  BY <1>4, Current DEF WriteCommit
<1>5. ASSUME NEW c \in Client, GetAccepted(c) PROVE Quiet'
  BY <1>5, Current DEF GetAccepted
<1>6. ASSUME NEW c \in Client, Serve(c) PROVE Quiet'
  BY <1>6, Current DEF Serve
<1>7. ASSUME NEW c \in Client, GetComplete(c) PROVE Quiet'
  BY <1>7, Current DEF GetComplete, Close
<1>8. ASSUME NEW c \in Client, Lost(c) PROVE Quiet'
  BY <1>8, Current DEF Lost, Close
<1>9. ASSUME NEW c \in Client, GiveUp(c) PROVE Quiet'
  BY <1>9, Current DEF GiveUp, Fallback, Close
<1>10. ASSUME NEW c \in Client, CommitError(c) PROVE Quiet'
  BY <1>10, Current DEF CommitError, Close
<1>11. ASSUME NEW c \in Client, CompileLocally(c) PROVE Quiet'
  BY <1>11, Current DEF CompileLocally
<1>12. ASSUME NEW c \in Client, Die(c) PROVE Quiet'
  BY <1>12, Current DEF Die, Close
<1>13. ASSUME NEW x \in Conn, Decline(x) PROVE Quiet'
  BY <1>13 DEF Decline
<1>14. ASSUME NEW x \in Conn, Begin(x) PROVE Quiet'
  BY <1>14 DEF Begin
<1>15. ASSUME NEW x \in Conn, GetFds(x) PROVE Quiet'
  BY <1>15 DEF GetFds
<1>16. ASSUME NEW x \in Conn, GetCommit(x) PROVE Quiet'
  BY <1>16 DEF GetCommit
<1>17. ASSUME NEW x \in Conn, HandlerLeaves(x) PROVE Quiet'
  BY <1>17 DEF HandlerLeaves
<1>18. ASSUME NEW x \in Conn, Accept(x) PROVE Quiet'
  BY <1>18 DEF Accept
<1>19. ASSUME NEW x \in Conn, Finish(x) PROVE Quiet'
  BY <1>19 DEF Finish
<1>20. ASSUME NEW x \in Conn, Cancel(x) PROVE Quiet'
  BY <1>20 DEF Cancel
<1>21. ASSUME NEW x \in Conn, KillChildren(x) PROVE Quiet'
  BY <1>21 DEF KillChildren
<1>22. ASSUME NEW x \in Conn, Reaped(x) PROVE Quiet'
  BY <1>22 DEF Reaped
<1>23. ASSUME NEW x \in Conn, Enter(x) PROVE Quiet'
  BY <1>23 DEF Enter, End
<1>24. ASSUME NEW x \in Conn, Hit(x) PROVE Quiet'
  BY <1>24 DEF Hit, End
<1>25. ASSUME NEW x \in Conn, Spawn(x) PROVE Quiet'
  BY <1>25 DEF Spawn, End
<1>26. ASSUME NEW x \in Conn, Spawned(x) PROVE Quiet'
  BY <1>26 DEF Spawned
<1>27. ASSUME NEW x \in Conn, SpawnFails(x) PROVE Quiet'
  BY <1>27 DEF SpawnFails, End
<1>28. ASSUME NEW x \in Conn, Waited(x) PROVE Quiet'
  BY <1>28 DEF Waited, End
<1>29. ASSUME NEW x \in Conn, ChildExit(x) PROVE Quiet'
  BY <1>29 DEF ChildExit
<1>30. CASE Drain
  BY <1>30 DEF Drain
<1>31. CASE Stop
  BY <1>31 DEF Stop
<1>32. CASE StartDaemon
  BY <1>32 DEF StartDaemon
<1>33. CASE UNCHANGED vars
  BY <1>33 DEF vars, client, handler, worker, broker, setup
<1>34. ASSUME NEW c \in Client, Refuse(c) PROVE Quiet'
  BY <1>34, Current DEF Refuse
<1>35. ASSUME NEW x \in Conn, SpawnLost(x) PROVE Quiet'
  BY <1>35 DEF SpawnLost, End
<1>36. ASSUME NEW x \in Conn, WaitLost(x) PROVE Quiet'
  BY <1>36 DEF WaitLost, End
<1> QED
  BY <1>1, <1>2, <1>3, <1>4, <1>5, <1>6, <1>7, <1>8, <1>9, <1>10, <1>11, <1>12, <1>13, <1>14,
     <1>15, <1>16, <1>17, <1>18, <1>19, <1>20, <1>21, <1>22, <1>23, <1>24, <1>25, <1>26, <1>27,
     <1>28, <1>29, <1>30, <1>31, <1>32, <1>33, <1>34, <1>35, <1>36
  DEF Next, ClientStep, HandlerStep, WorkerStep

\* One permit changes hands, or none.
LEMMA PermitMoves ==
    ASSUME TypeOK, Permits,
           \/ Holders' = Holders /\ permits' = permits
           \/ \E x \in Conn \ Holders :
                 Holders' = Holders \cup {x} /\ permits > 0 /\ permits' = permits - 1
           \/ \E x \in Holders : Holders' = Holders \ {x} /\ permits' = permits + 1
    PROVE  Permits' /\ permits' \in 0..Cap
<1> USE ExecutionAssumption
<1>1. Cardinality(Holders) \in Nat /\ permits \in 0..Cap
  BY FS_CardinalityType DEF Permits, TypeOK
<1>2. CASE Holders' = Holders /\ permits' = permits
  BY <1>1, <1>2 DEF Permits
<1>3. ASSUME NEW x \in Conn \ Holders, Holders' = Holders \cup {x}, permits > 0,
             permits' = permits - 1
      PROVE  Permits' /\ permits' \in 0..Cap
  <2>1. IsFiniteSet(Holders') /\ Cardinality(Holders') = Cardinality(Holders) + 1
    BY <1>3, FS_AddElement DEF Permits
  <2> QED
    BY <1>1, <1>3, <2>1 DEF Permits
<1>4. ASSUME NEW x \in Holders, Holders' = Holders \ {x}, permits' = permits + 1
      PROVE  Permits' /\ permits' \in 0..Cap
  <2>1. IsFiniteSet(Holders') /\ Cardinality(Holders') = Cardinality(Holders) - 1
    BY <1>4, FS_RemoveElement DEF Permits
  <2>2. Cardinality(Holders') \in Nat
    BY <2>1, FS_CardinalityType
  <2> QED
    BY <1>1, <1>4, <2>1, <2>2 DEF Permits
<1> QED
  BY <1>2, <1>3, <1>4

\* A permit is taken for a handler, goes to its worker and comes back once.
LEMMA PermitsStep ==
    ASSUME TypeOK, Unused, Workers, Quiet, Permits, [Next]_vars
    PROVE  Permits' /\ permits' \in 0..Cap
<1> USE DEF TypeOK, Workers, Holders, Holding, HasPermit, HGoto, WGoto,
            client, handler, worker, broker, setup
<1>1. ASSUME NEW c \in Client, Connect(c) PROVE Permits' /\ permits' \in 0..Cap
  <2>1. CASE daemon = "up"
    <3>1. hpc[Cur(c)] = "none"
      BY <1>1, Current DEF Connect, Unused, Cur
    <3>2. Holders' = Holders /\ permits' = permits
      BY <1>1, <2>1, <3>1, Current DEF Connect
    <3> QED
      BY <3>2, PermitMoves
  <2>2. CASE daemon # "up"
    <3>1. Holders' = Holders /\ permits' = permits
      BY <1>1, <2>2 DEF Connect
    <3> QED
      BY <3>1, PermitMoves
  <2> QED
    BY <2>1, <2>2
<1>2. ASSUME NEW c \in Client, GetReady(c) PROVE Permits' /\ permits' \in 0..Cap
  <2>1. Holders' = Holders /\ permits' = permits
    BY <1>2, Current DEF GetReady
  <2> QED
    BY <2>1, PermitMoves
<1>3. ASSUME NEW c \in Client, GetPrepared(c) PROVE Permits' /\ permits' \in 0..Cap
  <2>1. Holders' = Holders /\ permits' = permits
    BY <1>3, Current DEF GetPrepared
  <2> QED
    BY <2>1, PermitMoves
<1>4. ASSUME NEW c \in Client, WriteCommit(c) PROVE Permits' /\ permits' \in 0..Cap
  <2>1. Holders' = Holders /\ permits' = permits
    BY <1>4, Current DEF WriteCommit
  <2> QED
    BY <2>1, PermitMoves
<1>5. ASSUME NEW c \in Client, GetAccepted(c) PROVE Permits' /\ permits' \in 0..Cap
  <2>1. Holders' = Holders /\ permits' = permits
    BY <1>5, Current DEF GetAccepted
  <2> QED
    BY <2>1, PermitMoves
<1>6. ASSUME NEW c \in Client, Serve(c) PROVE Permits' /\ permits' \in 0..Cap
  <2>1. Holders' = Holders /\ permits' = permits
    BY <1>6, Current DEF Serve
  <2> QED
    BY <2>1, PermitMoves
<1>7. ASSUME NEW c \in Client, GetComplete(c) PROVE Permits' /\ permits' \in 0..Cap
  <2>1. Holders' = Holders /\ permits' = permits
    BY <1>7, Current DEF GetComplete
  <2> QED
    BY <2>1, PermitMoves
<1>8. ASSUME NEW c \in Client, Lost(c) PROVE Permits' /\ permits' \in 0..Cap
  <2>1. Holders' = Holders /\ permits' = permits
    BY <1>8, Current DEF Lost
  <2> QED
    BY <2>1, PermitMoves
<1>9. ASSUME NEW c \in Client, GiveUp(c) PROVE Permits' /\ permits' \in 0..Cap
  <2>1. Holders' = Holders /\ permits' = permits
    BY <1>9, Current DEF GiveUp
  <2> QED
    BY <2>1, PermitMoves
<1>10. ASSUME NEW c \in Client, CommitError(c) PROVE Permits' /\ permits' \in 0..Cap
  <2>1. Holders' = Holders /\ permits' = permits
    BY <1>10, Current DEF CommitError
  <2> QED
    BY <2>1, PermitMoves
<1>11. ASSUME NEW c \in Client, CompileLocally(c) PROVE Permits' /\ permits' \in 0..Cap
  <2>1. Holders' = Holders /\ permits' = permits
    BY <1>11, Current DEF CompileLocally
  <2> QED
    BY <2>1, PermitMoves
<1>12. ASSUME NEW c \in Client, Die(c) PROVE Permits' /\ permits' \in 0..Cap
  <2>1. Holders' = Holders /\ permits' = permits
    BY <1>12, Current DEF Die
  <2> QED
    BY <2>1, PermitMoves
<1>13. ASSUME NEW x \in Conn, Decline(x) PROVE Permits' /\ permits' \in 0..Cap
  <2>1. Holders' = Holders /\ permits' = permits
    BY <1>13 DEF Decline
  <2> QED
    BY <2>1, PermitMoves
<1>14. ASSUME NEW x \in Conn, Begin(x) PROVE Permits' /\ permits' \in 0..Cap
  <2>1. x \notin Holders /\ Holders' = Holders \cup {x} /\ permits > 0 /\ permits' = permits - 1
    BY <1>14 DEF Begin
  <2> QED
    BY <2>1, PermitMoves
<1>15. ASSUME NEW x \in Conn, GetFds(x) PROVE Permits' /\ permits' \in 0..Cap
  <2>1. Holders' = Holders /\ permits' = permits
    BY <1>15 DEF GetFds
  <2> QED
    BY <2>1, PermitMoves
<1>16. ASSUME NEW x \in Conn, GetCommit(x) PROVE Permits' /\ permits' \in 0..Cap
  <2>1. Holders' = Holders /\ permits' = permits
    BY <1>16 DEF GetCommit
  <2> QED
    BY <2>1, PermitMoves
<1>17. ASSUME NEW x \in Conn, HandlerLeaves(x) PROVE Permits' /\ permits' \in 0..Cap
  <2>1. CASE HasPermit(x)
    <3>1. x \in Holders /\ Holders' = Holders \ {x} /\ permits' = permits + 1
      BY <1>17, <2>1 DEF HandlerLeaves
    <3> QED
      BY <3>1, PermitMoves
  <2>2. CASE ~HasPermit(x)
    <3>1. Holders' = Holders /\ permits' = permits
      BY <1>17, <2>2 DEF HandlerLeaves
    <3> QED
      BY <3>1, PermitMoves
  <2> QED
    BY <2>1, <2>2
<1>18. ASSUME NEW x \in Conn, Accept(x) PROVE Permits' /\ permits' \in 0..Cap
  <2>1. Holders' = Holders /\ permits' = permits
    BY <1>18 DEF Accept
  <2> QED
    BY <2>1, PermitMoves
<1>19. ASSUME NEW x \in Conn, Finish(x) PROVE Permits' /\ permits' \in 0..Cap
  <2>1. Holders' = Holders /\ permits' = permits
    BY <1>19 DEF Finish
  <2> QED
    BY <2>1, PermitMoves
<1>20. ASSUME NEW x \in Conn, Cancel(x) PROVE Permits' /\ permits' \in 0..Cap
  <2>1. Holders' = Holders /\ permits' = permits
    BY <1>20 DEF Cancel
  <2> QED
    BY <2>1, PermitMoves
<1>21. ASSUME NEW x \in Conn, KillChildren(x) PROVE Permits' /\ permits' \in 0..Cap
  <2>1. Holders' = Holders /\ permits' = permits
    BY <1>21 DEF KillChildren
  <2> QED
    BY <2>1, PermitMoves
<1>22. ASSUME NEW x \in Conn, Reaped(x) PROVE Permits' /\ permits' \in 0..Cap
  <2>1. Holders' = Holders /\ permits' = permits
    BY <1>22 DEF Reaped
  <2> QED
    BY <2>1, PermitMoves
<1>23. ASSUME NEW x \in Conn, Enter(x) PROVE Permits' /\ permits' \in 0..Cap
  <2>1. CASE x \in cancelled
    <3>1. x \in Holders /\ Holders' = Holders \ {x} /\ permits' = permits + 1
      BY <1>23, <2>1 DEF Enter, End
    <3> QED
      BY <3>1, PermitMoves
  <2>2. CASE x \notin cancelled
    <3>1. Holders' = Holders /\ permits' = permits
      BY <1>23, <2>2 DEF Enter, End
    <3> QED
      BY <3>1, PermitMoves
  <2> QED
    BY <2>1, <2>2
<1>24. ASSUME NEW x \in Conn, Hit(x) PROVE Permits' /\ permits' \in 0..Cap
  <2>1. x \in Holders /\ Holders' = Holders \ {x} /\ permits' = permits + 1
    BY <1>24 DEF Hit, End
  <2> QED
    BY <2>1, PermitMoves
<1>25. ASSUME NEW x \in Conn, Spawn(x) PROVE Permits' /\ permits' \in 0..Cap
  <2>1. CASE x \in cancelled
    <3>1. x \in Holders /\ Holders' = Holders \ {x} /\ permits' = permits + 1
      BY <1>25, <2>1 DEF Spawn, End
    <3> QED
      BY <3>1, PermitMoves
  <2>2. CASE x \notin cancelled
    <3>1. Holders' = Holders /\ permits' = permits
      BY <1>25, <2>2 DEF Spawn, End
    <3> QED
      BY <3>1, PermitMoves
  <2> QED
    BY <2>1, <2>2
<1>26. ASSUME NEW x \in Conn, Spawned(x) PROVE Permits' /\ permits' \in 0..Cap
  <2>1. Holders' = Holders /\ permits' = permits
    BY <1>26 DEF Spawned
  <2> QED
    BY <2>1, PermitMoves
<1>27. ASSUME NEW x \in Conn, SpawnFails(x) PROVE Permits' /\ permits' \in 0..Cap
  <2>1. x \in Holders /\ Holders' = Holders \ {x} /\ permits' = permits + 1
    BY <1>27 DEF SpawnFails, End
  <2> QED
    BY <2>1, PermitMoves
<1>28. ASSUME NEW x \in Conn, Waited(x) PROVE Permits' /\ permits' \in 0..Cap
  <2>1. x \in Holders /\ Holders' = Holders \ {x} /\ permits' = permits + 1
    BY <1>28 DEF Waited, End
  <2> QED
    BY <2>1, PermitMoves
<1>29. ASSUME NEW x \in Conn, ChildExit(x) PROVE Permits' /\ permits' \in 0..Cap
  <2>1. Holders' = Holders /\ permits' = permits
    BY <1>29 DEF ChildExit
  <2> QED
    BY <2>1, PermitMoves
<1>30. CASE Drain
  <2>1. Holders' = Holders /\ permits' = permits
    BY <1>30 DEF Drain
  <2> QED
    BY <2>1, PermitMoves
<1>31. CASE Stop
  <2>1. Holders' = {} /\ permits' = 0
    BY <1>31 DEF Stop
  <2> QED
    <3>1. IsFiniteSet(Holders') /\ Cardinality(Holders') = 0
      BY <2>1, FS_EmptySet
    <3> HIDE DEF Holders
    <3> QED
      BY <2>1, <3>1, ExecutionAssumption DEF Permits
<1>32. CASE StartDaemon
  <2>1. Holders' = {} /\ permits' = Cap
    BY <1>32 DEF StartDaemon, Quiet
  <2> QED
    <3>1. IsFiniteSet(Holders') /\ Cardinality(Holders') = 0
      BY <2>1, FS_EmptySet
    <3> HIDE DEF Holders
    <3> QED
      BY <2>1, <3>1, ExecutionAssumption DEF Permits
<1>33. CASE UNCHANGED vars
  BY <1>33 DEF vars, client, handler, worker, broker, setup, Permits
<1>34. ASSUME NEW c \in Client, Refuse(c) PROVE Permits' /\ permits' \in 0..Cap
  <2>1. Holders' = Holders /\ permits' = permits
    BY <1>34 DEF Refuse
  <2> QED
    BY <2>1, PermitMoves
<1>35. ASSUME NEW x \in Conn, SpawnLost(x) PROVE Permits' /\ permits' \in 0..Cap
  <2>1. x \in Holders /\ Holders' = Holders \ {x} /\ permits' = permits + 1
    BY <1>35 DEF SpawnLost, End
  <2> QED
    BY <2>1, PermitMoves
<1>36. ASSUME NEW x \in Conn, WaitLost(x) PROVE Permits' /\ permits' \in 0..Cap
  <2>1. x \in Holders /\ Holders' = Holders \ {x} /\ permits' = permits + 1
    BY <1>36 DEF WaitLost, End
  <2> QED
    BY <2>1, PermitMoves
<1> QED
  BY <1>1, <1>2, <1>3, <1>4, <1>5, <1>6, <1>7, <1>8, <1>9, <1>10, <1>11, <1>12, <1>13, <1>14,
     <1>15, <1>16, <1>17, <1>18, <1>19, <1>20, <1>21, <1>22, <1>23, <1>24, <1>25, <1>26, <1>27,
     <1>28, <1>29, <1>30, <1>31, <1>32, <1>33, <1>34, <1>35, <1>36
  DEF Next, ClientStep, HandlerStep, WorkerStep

-----------------------------------------------------------------------------
(* The theorems.                                                           *)

LEMMA ExecutionInitially == Init => ExecutionInv
<1> SUFFICES ASSUME Init PROVE ExecutionInv
  OBVIOUS
<1>1. TypeOK
  BY TypeInitially
<1>2. RunsOnce /\ Started
  BY DEF Init, RunsOnce, Started, StartedFor, Conn, Over, Cur
<1>3. Unused /\ Commits
  BY DEF Init, Unused, Commits, Conn
<1>4. Replies
  BY ReplyQueue DEF Init, Replies, InTurn
<1>5. Prepared /\ Workers /\ Quiet
  BY DEF Init, Prepared, Workers, Quiet
<1>6. Holders = {}
  BY DEF Init, Holders, Holding, HasPermit
<1>7. Permits
  BY <1>6, FS_EmptySet, ExecutionAssumption DEF Init, Permits
<1> QED
  BY <1>1, <1>2, <1>3, <1>4, <1>5, <1>7 DEF ExecutionInv

LEMMA ExecutionStep ==
    ASSUME ExecutionInv, [Next]_vars
    PROVE  ExecutionInv'
<1> USE DEF ExecutionInv
<1>1. Permits' /\ permits' \in 0..Cap
  BY PermitsStep
<1>2. TypeOK'
  BY <1>1, TypeStep
<1>3. RunsOnce' /\ Started'
  BY StartedStep
<1>4. Replies' /\ Prepared'
  BY RepliesStep, PreparedStep
<1>5. Unused' /\ Commits' /\ Workers' /\ Quiet'
  BY UnusedStep, CommitsStep, WorkersStep, QuietStep
<1> QED
  BY <1>1, <1>2, <1>3, <1>4, <1>5

\* The inductive invariant of the hand-over: with any number of clients and
\* tries, and whatever is lost, refused, cancelled or restarted, no permit of
\* execution_workers is given back twice, replies are read in turn, and one
\* invocation never starts its compiler twice.
THEOREM ExecutionSafe == Spec => []ExecutionInv
<1>1. Init => ExecutionInv
  BY ExecutionInitially
<1>2. ExecutionInv /\ [Next]_vars => ExecutionInv'
  BY ExecutionStep
<1> QED
  BY <1>1, <1>2, PTL DEF Spec

LEMMA OwnerFromInvariant ==
    ASSUME ExecutionInv
    PROVE  OneOwner
<1>1. \A c \in Client, a \in 1..Tries :
         wpc[<<c, a>>] # "none" => a = try[c] /\ cpc[c] \in Committed
  BY DEF ExecutionInv, Workers, Commits, Conn
<1> QED
  BY <1>1 DEF OneOwner, Committed

\* While an invocation may still fall back to its own compile, and when it has,
\* no worker of the daemon runs its pipeline, and two workers never do.
THEOREM ExecutionOneOwner == Spec => []OneOwner
<1>1. ExecutionInv => OneOwner
  BY OwnerFromInvariant
<1> QED
  BY <1>1, ExecutionSafe, PTL
=============================================================================
