----------------------------- MODULE MCHandoff -----------------------------
EXTENDS Handoff, TLC

CONSTANTS w1, w2, w3

\* Two builds that meet every trouble or every one but failing files, two whose
\* daemon cannot store, and three with a daemon that stays up.
MCSetups ==
    {[builds |-> {w1, w2}, trouble |-> Troubles \ {"open"}],
     [builds |-> {w1, w2}, trouble |-> Troubles \ {"io", "open"}],
     [builds |-> {w1, w2}, trouble |-> {"slow", "stop", "open"}],
     [builds |-> {w1, w2, w3}, trouble |-> {"put"}]}
=============================================================================
