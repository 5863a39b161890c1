----------------------------- MODULE ToolRegistry -----------------------------
(***************************************************************************)
(* The tools of the refund and order workflows and the guard in front of   *)
(* them: what a call must bring along before its handler runs, and with    *)
(* which code it is refused otherwise.  A call is what the guard reads of  *)
(* the state it is given: the domain (active_domain, else the intent), the *)
(* workflow stage, the slots that are filled, whether the last result is a *)
(* passed eligibility check, and the confirmation of the user.             *)
(*                                                                         *)
(* The idempotency cache behind the guard is modelled in RefundSubmission. *)
(***************************************************************************)
Domains == {"ORDER", "POLICY", "REFUND"}

Stages == {"IDLE", "IDENTIFY_ORDER", "COLLECT_REASON", "ELIGIBILITY_CHECKED",
           "WAITING_CONFIRMATION", "SUBMITTED", "DONE", "REJECTED"}

Unset == "unset"

\* ToolCode, and "OK" for a call that reaches its handler.
Code == {"OK", "SUCCESS", "ELIGIBILITY_PASSED", "ELIGIBILITY_REJECTED",
         "REFUND_SUBMITTED", "ALREADY_EXISTS", "MISSING_SLOT", "NOT_AUTHORIZED",
         "INVALID_STAGE", "NOT_CONFIRMED", "BUSINESS_REJECTED",
         "TEMPORARY_FAILURE", "SYSTEM_ERROR"}

\* _REFUND_CAPABILITIES; "*" admits every stage.
RefundCapabilities ==
  [check_refund_eligibility |->
     [domain |-> "REFUND", stages |-> {"ELIGIBILITY_CHECKED"},
      slots |-> {"active_order_sn", "user_id"},
      eligibility |-> FALSE, confirmation |-> FALSE],
   submit_refund_application |->
     [domain |-> "REFUND", stages |-> {"SUBMITTED", "WAITING_CONFIRMATION"},
      slots |-> {"active_order_id", "active_order_sn", "refund_reason",
                 "refund_reason_category"},
      eligibility |-> TRUE, confirmation |-> TRUE],
   query_refund_status |->
     [domain |-> "REFUND", stages |-> Stages, slots |-> {"user_id"},
      eligibility |-> FALSE, confirmation |-> FALSE]]

OrderCapabilities ==
  [query_order_tool |->
     [domain |-> "ORDER", stages |-> {"*"}, slots |-> {"user_id"},
      eligibility |-> FALSE, confirmation |-> FALSE]]

\* The guards in their order: the first that fails names the code.
Guard(capability, call) ==
  IF call.domain \notin {Unset, capability.domain} THEN "INVALID_STAGE"
  ELSE IF {"*", call.stage} \cap capability.stages = {} THEN "INVALID_STAGE"
  ELSE IF ~(capability.slots \subseteq call.slots) THEN "MISSING_SLOT"
  ELSE IF capability.eligibility /\ ~call.eligible THEN "BUSINESS_REJECTED"
  ELSE IF capability.confirmation /\ ~call.confirmed THEN "NOT_CONFIRMED"
  ELSE "OK"

\* What the handlers answer, given whether the order number belongs to the
\* user, whether the rules let the order pass, and whether it has a refund.
CheckAnswers(owned, eligible) ==
  {"SYSTEM_ERROR", IF ~owned THEN "NOT_AUTHORIZED"
                   ELSE IF eligible THEN "ELIGIBILITY_PASSED"
                   ELSE "ELIGIBILITY_REJECTED"}

SubmitAnswers(owned, exists, eligible) ==
  {"SYSTEM_ERROR", IF ~owned THEN "NOT_AUTHORIZED"
                   ELSE IF exists THEN "ALREADY_EXISTS"
                   ELSE IF eligible THEN "REFUND_SUBMITTED"
                   ELSE "BUSINESS_REJECTED"}
=============================================================================
