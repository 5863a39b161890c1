--------------------------- MODULE RefundLifecycle ---------------------------
(***************************************************************************)
(* What the back office promises about refund applications, with no        *)
(* worker, queue, lock or retry in sight: the status graph of a refund and *)
(* when money may leave.  RefundPayment implements it.                     *)
(***************************************************************************)
EXTENDS Naturals

CONSTANT Refunds          \* the refund applications

VARIABLES status,         \* status[r]: RefundApplication.status
          payments        \* payments[r]: times the gateway was told to pay r

vars == <<status, payments>>

RefundStatus == {"PENDING", "APPROVED", "PROCESSING", "REJECTED",
                 "COMPLETED", "CANCELLED"}

\* The statuses an approved refund can be in.
Granted == {"APPROVED", "PROCESSING", "COMPLETED"}

Init == /\ status = [r \in Refunds |-> "PENDING"]
        /\ payments = [r \in Refunds |-> 0]

Move(r, from, to) == /\ status[r] = from
                     /\ status' = [status EXCEPT ![r] = to]
                     /\ UNCHANGED payments

Decide(r) == Move(r, "PENDING", "APPROVED") \/ Move(r, "PENDING", "REJECTED")
Start(r)  == Move(r, "APPROVED", "PROCESSING")
Finish(r) == payments[r] > 0 /\ Move(r, "PROCESSING", "COMPLETED")

\* Payments that stopped half-way go back to the queue together.
Release(rs) == /\ \A r \in rs : status[r] = "PROCESSING"
               /\ status' = [r \in Refunds |->
                               IF r \in rs THEN "APPROVED" ELSE status[r]]
               /\ UNCHANGED payments

Pay(r) == /\ status[r] \in Granted
          /\ payments' = [payments EXCEPT ![r] = @ + 1]
          /\ UNCHANGED status

Next == \/ \E r \in Refunds : Decide(r) \/ Start(r) \/ Finish(r) \/ Pay(r)
        \/ \E rs \in SUBSET Refunds : Release(rs)

Spec == Init /\ [][Next]_vars
=============================================================================
