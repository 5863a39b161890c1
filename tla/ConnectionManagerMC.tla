------------------------- MODULE ConnectionManagerMC -------------------------
(* Instances of ConnectionManager for TLC. *)
EXTENDS ConnectionManager, TLC

\* Sockets, admin ids and submissions are interchangeable.
Symmetry ==
  Permutations(Sockets) \cup Permutations(Admins) \cup Permutations(Submissions)
=============================================================================
