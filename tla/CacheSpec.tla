----------------------------- MODULE CacheSpec -----------------------------
(***************************************************************************)
(* What the artifact store promises, without tables, counts, locks or      *)
(* processes: a key is bound to a file list only while all its blobs are   *)
(* on disk, and a blob leaves the disk only when no bound key needs it.    *)
(***************************************************************************)
CONSTANTS Key, Hash, Content, None, HashesOf(_)

VARIABLES live, disk

Init == live = [k \in Key |-> None] /\ disk = {}

\* Blobs arrive: a publication, a re-materialization, a moved artifact.
Materialize ==
    /\ disk' \in SUBSET Hash /\ disk \subseteq disk'
    /\ UNCHANGED live

\* One entry becomes visible, replacing the key's older generation.
Publish ==
    /\ \E k \in Key, c \in Content :
          HashesOf(c) \subseteq disk /\ live' = [live EXCEPT ![k] = c]
    /\ UNCHANGED disk

\* One entry is forgotten.
Drop ==
    /\ \E k \in Key : live' = [live EXCEPT ![k] = None]
    /\ UNCHANGED disk

\* Blobs nobody needs are reclaimed.
Reclaim ==
    /\ disk' \in SUBSET disk
    /\ \A k \in Key : HashesOf(live[k]) \subseteq disk'
    /\ UNCHANGED live

Next == Materialize \/ Publish \/ Drop \/ Reclaim

Spec == Init /\ [][Next]_<<live, disk>>
=============================================================================
