---------------------------- MODULE AdminReviewMC ----------------------------
(* An instance of AdminReview for TLC. *)
EXTENDS AdminReview, TLC

\* One of the refunds has a second audit row.
OneToolRow == {<<CHOOSE r \in Refunds : TRUE, "call">>}
=============================================================================
