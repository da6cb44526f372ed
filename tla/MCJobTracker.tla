---------------------------- MODULE MCJobTracker ----------------------------
(* JobTracker for TLC: two clients race on one job, a third call is needed   *)
(* for nothing the properties tell apart.  Clients and prompts are           *)
(* interchangeable.                                                          *)
EXTENDS JobTracker, TLC

Symmetry == Permutations(Clients) \cup Permutations(Prompts)
=============================================================================
