---------------------------- MODULE MCExecution ----------------------------
EXTENDS Execution, TLC

CONSTANTS c1, c2

\* One client with two hand-overs, whose compiler ends or does not, and two
\* clients that compete for the permit.
MCSetups ==
    {[budget |-> c1 :> 2 @@ c2 :> 0, endless |-> {}],
     [budget |-> c1 :> 2 @@ c2 :> 0, endless |-> {c1}],
     [budget |-> c1 :> 1 @@ c2 :> 1, endless |-> {}]}
=============================================================================
