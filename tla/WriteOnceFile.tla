--------------------------- MODULE WriteOnceFile ---------------------------
(***************************************************************************)
(* What an output path promises to the readers of the cache: it is empty   *)
(* or it holds one complete artifact, and an artifact that is there is     *)
(* never exchanged for another.  Only the host, which owns eviction, may   *)
(* empty the path again.                                                   *)
(***************************************************************************)
CONSTANTS Contents,   \* the complete artifacts a publisher may ask for
          Absent      \* the value of an empty path

VARIABLE cell

Init == cell = Absent

Publish(c) == cell = Absent /\ cell' = c

Evict == cell # Absent /\ cell' = Absent

Next == Evict \/ \E c \in Contents : Publish(c)

Spec == Init /\ [][Next]_cell
=============================================================================
