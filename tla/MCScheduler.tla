---------------------------- MODULE MCScheduler ----------------------------
EXTENDS Scheduler, TLC

CONSTANTS c1, c2, c3, t1, t2, k1

\* A pool of three slots, light keyless compiles outside of tests.
Plain ==
    [pool |-> 3, procs |-> Proc,
     key |-> [c \in Compile |-> None], weight |-> [c \in Compile |-> 1],
     parent |-> [c \in Compile |-> None], inherits |-> {},
     floor |-> [t \in Test |-> 2], elastic |-> {}, with |-> {}]

\* Two tests, one elastic and one wanting more than there is, and a nested
\* compile inside the lease of the first, under every circumstance.
Leases ==
    [Plain EXCEPT !.procs = {t1, t2, c1}, !.key[c1] = k1, !.weight[c1] = 2,
                  !.parent[c1] = t1, !.inherits = {c1},
                  !.floor = t1 :> 1 @@ t2 :> 4, !.elastic = {t1}, !.with = Circumstances]

\* Two wrappers of one key and a keyless one, under every circumstance.
Flights ==
    [Plain EXCEPT !.pool = 2, !.procs = {c1, c2, c3}, !.key = c1 :> k1 @@ c2 :> k1 @@ c3 :> None,
                  !.weight[c1] = 2, !.with = Circumstances]

\* A test holds every test slot and waits for a compile heavier than the
\* reserve, with a rival outside the test and no timeout.
Standoff ==
    [Plain EXCEPT !.procs = {t1, c1, c2}, !.key[c2] = k1, !.weight = [c \in Compile |-> 2],
                  !.parent[c1] = t1, !.with = {"slice"}]

\* More light compiles than slots, with neither slice nor timeout.
Wake == [Plain EXCEPT !.pool = 2, !.procs = Compile]

\* Every compile wants the whole pool, and waits time out.
Heavy ==
    [Plain EXCEPT !.pool = 2, !.procs = Compile, !.weight = [c \in Compile |-> 2],
                  !.key = c1 :> k1 @@ c2 :> k1 @@ c3 :> None, !.with = {"slice", "timeout"}]

MCSetups == {Leases, Flights, Standoff, Wake, Heavy}
=============================================================================
