------------------------------ MODULE MCStore ------------------------------
EXTENDS Store, TLC

CONSTANTS k1, k2, a, b, h1, h2, p1, p2, p3

Out(x, y) == (a :> x) @@ (b :> y)

\* Two lists that share a blob, one that lists a blob twice.
MCOutputs == {Out(h1, h2), Out(h2, None), Out(h1, h1)}
MCTwice   == {Out(h1, h2), Out(h2, h2)}

\* One blob, shared by two entries or listed twice by one.
MCShared  == {Out(h1, None), Out(h1, h1)}

MCSymmetry == Permutations({k1, k2})
MCPeers    == Permutations({k1, k2}) \cup Permutations(Proc)
=============================================================================
