------------------------- MODULE MCRemoteKnowledge -------------------------
EXTENDS RemoteKnowledge, TLC

CONSTANTS k1, k2, k3, l1

\* Restores, an upload and a listing of one key, which may be deleted.
Overlap == [keys |-> {k1}, listers |-> {l1}, deletes |-> TRUE, bound |-> 4]

\* Three keys in caches with room for one.
Crowded == [keys |-> {k1, k2, k3}, listers |-> {}, deletes |-> FALSE, bound |-> 3]

MCSetups == {Overlap, Crowded}
MCSymmetry == Permutations({k2, k3}) \cup Permutations(Reader)
=============================================================================
