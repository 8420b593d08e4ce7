-------------------------- MODULE MCDownloadClaim --------------------------
EXTENDS DownloadClaim, TLC

CONSTANTS r1, r2, p1, p2, b1

\* A request behind the downloads of two prefetch items.
Behind == [tasks |-> {r1, p1, p2}, deadlines |-> FALSE]

\* Two requests that share flights.
Shared == [tasks |-> {r1, r2}, deadlines |-> FALSE]

\* A request with a deadline, a prefetch item and a packed batch.
Batch == [tasks |-> {r1, p1, b1}, deadlines |-> TRUE]

MCSetups == {Behind, Shared, Batch}
=============================================================================
