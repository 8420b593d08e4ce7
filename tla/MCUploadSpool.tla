--------------------------- MODULE MCUploadSpool ---------------------------
EXTENDS UploadSpool, TLC

CONSTANTS k1, k2, w1, w2, h1, h2, u1, u2

Setup(keys, procs, trouble, n, jobs) ==
    [keys |-> keys, procs |-> procs, trouble |-> trouble, stops |-> n, jobs |-> jobs]

MCSetups ==
    \* Nothing fails but the daemon, which stops once.
    {Setup({k1}, {w1, w2, h1, u1, Gc}, {}, 1, 1),
    \* A replay meets the file that a second build is writing.
     Setup({k1, k2}, {w1, w2, h1, u1}, {}, 0, 2),
    \* Two handlers and two workers meet refusals, failing files and removals.
     Setup({k1}, {w1, w2, h1, h2, u1, u2}, {"refuse", "io", "remove"}, 0, 1),
    \* Two keys compete for the spool beside a sweep; builds are interrupted.
     Setup({k1, k2}, {w1, w2, h1, Gc}, {"kill"}, 0, 1),
    \* The machine loses power, beside a sweep.
     Setup({k1}, {w1, w2, h1, u1, Gc}, {"io", "power"}, 1, 1)}
=============================================================================
