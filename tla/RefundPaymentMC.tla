--------------------------- MODULE RefundPaymentMC ---------------------------
(* Instances of RefundPayment for TLC. *)
EXTENDS RefundPayment, TLC

\* Refunds, and workers, are interchangeable in the safety runs.
Symmetry == Permutations(Refunds) \cup Permutations(Workers)
=============================================================================
