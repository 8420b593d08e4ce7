---------------------------- MODULE MCDurability ----------------------------
EXTENDS Durability, TLC

CONSTANTS k1, k2, h1, h2, p1, p2

\* One output, or two of which one is shared.
MCOutputs == {{h1}, {h1, h2}}

\* Two processes race over two keys; and over one key, with both faults.
MCSetups ==
    {[keys |-> {k1, k2}, procs |-> {p1, p2}, torn |-> FALSE, lost |-> FALSE]}
    \cup [keys : {{k1}, {k2}}, procs : {{p1, p2}}, torn : {TRUE}, lost : {TRUE}]

MCSymmetry == Permutations({k1, k2}) \cup Permutations(Proc)
=============================================================================
