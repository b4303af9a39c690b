-------------------------- MODULE MCMarkerAnalysis --------------------------
(* Files for TLC: all of one duration, so that an entry fits whichever file is
   there and only the stamps tell them apart.  Calls are interchangeable, and
   so are the files but for the placeholder NoVersion: one begins at the path. *)
EXTENDS MarkerAnalysis, TLC

CONSTANTS a, b

MCDuration == [i \in Inodes |-> 1]
Symmetry == Permutations(Calls)

MCInit == Init /\ path = a
MCSpec == MCInit /\ [][Next]_vars
=============================================================================
