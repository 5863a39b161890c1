-------------------------- MODULE RefundSubmissionMC --------------------------
(* Instances of RefundSubmission for TLC. *)
EXTENDS RefundSubmission, TLC

\* Turns, orders and processes are interchangeable in the safety run.
Symmetry == Permutations(Turns) \cup Permutations(Orders) \cup Permutations(Processes)
=============================================================================
