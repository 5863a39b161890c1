------------------------------ MODULE RefundCase ------------------------------
(***************************************************************************)
(* What submitting a refund promises, with no turn, process, cache or      *)
(* transaction in sight: an order has at most one refund, which comes with *)
(* its case for review, is decided once, and is only spoken of when it     *)
(* exists.  RefundSubmission implements it.                                *)
(***************************************************************************)
CONSTANT Orders

VARIABLES case,      \* case[o]: the refund of order o and its review, as one
          told       \* orders of which a user was told that they have a refund

vars == <<case, told>>

Status == {"NONE", "PENDING", "APPROVED", "REJECTED"}

Init == case = [o \in Orders |-> "NONE"] /\ told = {}

File(o) == /\ case[o] = "NONE"
           /\ case' = [case EXCEPT ![o] = "PENDING"]
           /\ UNCHANGED told

Tell(o) == /\ case[o] # "NONE"
           /\ told' = told \cup {o}
           /\ UNCHANGED case

Decide(o, verdict) == /\ case[o] = "PENDING"
                      /\ case' = [case EXCEPT ![o] = verdict]
                      /\ UNCHANGED told

Next == \E o \in Orders : \/ File(o) \/ Tell(o)
                          \/ \E v \in {"APPROVED", "REJECTED"} : Decide(o, v)

Spec == Init /\ [][Next]_vars
=============================================================================
