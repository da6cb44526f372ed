--------------------------- MODULE MCSocketRooms ---------------------------
(* SocketRooms for TLC: publishers are alike, and so are calls. *)
EXTENDS SocketRooms, TLC

Symmetry == Permutations(Publishers) \cup Permutations(Calls)
=============================================================================
