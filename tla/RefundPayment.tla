---------------------------- MODULE RefundPayment ----------------------------
(***************************************************************************)
(* The payment side of a refund: the decision of the admin API hands the   *)
(* refund to Celery, a worker claims it, pays, completes it or restores it *)
(* and retries; a periodic sweep picks up refunds a worker left behind.    *)
(*                                                                         *)
(* Each database transaction is one step, and so is each call of the       *)
(* broker and of the payment gateway.  Whatever can fail between two steps *)
(* (a lost connection, a killed process, an unreachable broker) is a step  *)
(* of its own that spends one unit of a fault budget.                      *)
(***************************************************************************)
EXTENDS Naturals

CONSTANTS
  Refunds,        \* the refund applications
  NoRefund,       \* what an idle worker works on
  Workers,        \* the processes of the Celery worker pool
  MaxRetries,     \* max_retries of refund.process_payment
  MaxFaults,      \* bound: how many faults a behaviour may contain
  HardTimeLimit,  \* the pool kills a task at task_time_limit (prefork)
  Redelivery      \* the broker may deliver a message more than once

ASSUME PaymentAssumption ==
  /\ NoRefund \notin Refunds
  /\ MaxRetries \in Nat
  /\ MaxFaults \in Nat
  /\ HardTimeLimit \in BOOLEAN
  /\ Redelivery \in BOOLEAN

VARIABLES
  status,         \* status[r]: RefundApplication.status
  stale,          \* stale[r]: updated_at is older than the sweep's cutoff
  payments,       \* payments[r]: times the gateway was told to pay r
  undispatched,   \* approved, but the API has not called .delay() yet
  queue,          \* queue[r][k]: queued process_payment(r) on retry k
  task,           \* task[w]: what worker w is executing
  todo,           \* todo[w]: recovered_ids that w's sweep must still requeue
  faults          \* faults so far

vars == <<status, stale, payments, undispatched, queue, task, todo, faults>>

Retries == 0..MaxRetries

RefundStatus == {"PENDING", "APPROVED", "PROCESSING", "REJECTED",
                 "COMPLETED", "CANCELLED"}

Granted == {"APPROVED", "PROCESSING", "COMPLETED"}

\* Where a worker stands: before _claim, past it and before the gateway
\* call, past the call, in the except branch after a claim of its own
\* ("failed") or without one ("unclaimed"), before self.retry, or in the
\* requeue loop of the sweep.
Phase == {"idle", "claiming", "paying", "completing", "failed", "unclaimed",
          "retrying", "requeueing"}

Task == [phase : Phase, refund : Refunds \cup {NoRefund}, retries : Retries]

Idle == [phase |-> "idle", refund |-> NoRefund, retries |-> 0]

\* w executes process_refund_payment(r).
On(w, r) == task[w].refund = r

Enter(w, phase) == task' = [task EXCEPT ![w].phase = phase]
Leave(w) == task' = [task EXCEPT ![w] = Idle]

SetStatus(r, s) == /\ status' = [status EXCEPT ![r] = s]
                   /\ stale' = [stale EXCEPT ![r] = FALSE]

Publish(r, k) == queue' = [queue EXCEPT ![r][k] = @ + 1]

Fault == faults < MaxFaults /\ faults' = faults + 1

-----------------------------------------------------------------------------
(* The admin API.  AdminReview models the locks behind the decision.       *)

Approve(r) ==
  /\ status[r] = "PENDING"
  /\ SetStatus(r, "APPROVED")
  /\ undispatched' = undispatched \cup {r}
  /\ UNCHANGED <<payments, queue, task, todo, faults>>

\* Mutant of Reject: the dispatch is not limited to approvals.
RejectDispatches(r) ==
  /\ status[r] = "PENDING"
  /\ SetStatus(r, "REJECTED")
  /\ undispatched' = undispatched \cup {r}
  /\ UNCHANGED <<payments, queue, task, todo, faults>>

\* Mutant of Reject: the audit verdict is stored as the refund's status.
RejectWritesVerdict(r) ==
  /\ status[r] = "PENDING"
  /\ SetStatus(r, "REJECT")
  /\ UNCHANGED <<payments, undispatched, queue, task, todo, faults>>

Reject(r) ==
  /\ status[r] = "PENDING"
  /\ SetStatus(r, "REJECTED")
  /\ UNCHANGED <<payments, undispatched, queue, task, todo, faults>>

Dispatch(r) ==
  /\ r \in undispatched
  /\ undispatched' = undispatched \ {r}
  /\ Publish(r, 0)
  /\ UNCHANGED <<status, stale, payments, task, todo, faults>>

\* .delay() raises and is noted in decision_metadata, or the API process
\* ends between the commit and the call: nothing is queued.
DispatchFails(r) ==
  /\ r \in undispatched
  /\ Fault
  /\ undispatched' = undispatched \ {r}
  /\ UNCHANGED <<status, stale, payments, queue, task, todo>>

-----------------------------------------------------------------------------
(* refund.process_payment                                                  *)

Deliver(w, r, k) ==
  /\ task[w].phase = "idle"
  /\ queue[r][k] > 0
  /\ queue' = [queue EXCEPT ![r][k] = @ - 1]
  /\ task' = [task EXCEPT ![w] =
                [phase |-> "claiming", refund |-> r, retries |-> k]]
  /\ UNCHANGED <<status, stale, payments, undispatched, todo, faults>>

\* An unacknowledged message comes again after the visibility timeout.
Redeliver(r, k) ==
  /\ Redelivery
  /\ queue[r][k] > 0
  /\ Fault
  /\ Publish(r, k)
  /\ UNCHANGED <<status, stale, payments, undispatched, task, todo>>

\* _claim: the conditional UPDATE finds the refund APPROVED; otherwise the
\* task ends as a no-op or as rejected.
Claim(w) ==
  /\ task[w].phase = "claiming"
  /\ LET r == task[w].refund IN
       \/ /\ status[r] = "APPROVED"
          /\ SetStatus(r, "PROCESSING")
          /\ Enter(w, "paying")
       \/ /\ status[r] # "APPROVED"
          /\ Leave(w)
          /\ UNCHANGED <<status, stale>>
  /\ UNCHANGED <<payments, undispatched, queue, todo, faults>>

\* _claim raises: the UPDATE was rolled back, or its commit was not confirmed.
ClaimFails(w) ==
  /\ task[w].phase = "claiming"
  /\ Fault
  /\ LET r == task[w].refund IN
       \/ /\ Enter(w, "unclaimed")
          /\ UNCHANGED <<status, stale>>
       \/ /\ status[r] = "APPROVED"
          /\ SetStatus(r, "PROCESSING")
          /\ Enter(w, "failed")
  /\ UNCHANGED <<payments, undispatched, queue, todo>>

\* Mutant of Pay: an error of the gateway call is swallowed.
PaySwallowsError(w) ==
  /\ task[w].phase = "paying"
  /\ Enter(w, "completing")
  /\ UNCHANGED <<status, stale, payments, undispatched, queue, todo, faults>>

Pay(w) ==
  /\ task[w].phase = "paying"
  /\ payments' = [payments EXCEPT ![task[w].refund] = @ + 1]
  /\ Enter(w, "completing")
  /\ UNCHANGED <<status, stale, undispatched, queue, todo, faults>>

\* Mutant of Complete: the UPDATE does not ask for PROCESSING.
CompleteAnyStatus(w) ==
  /\ task[w].phase = "completing"
  /\ SetStatus(task[w].refund, "COMPLETED")
  /\ Leave(w)
  /\ UNCHANGED <<payments, undispatched, queue, todo, faults>>

\* _complete; RuntimeError when the refund is not PROCESSING any more.
Complete(w) ==
  /\ task[w].phase = "completing"
  /\ LET r == task[w].refund IN
       \/ /\ status[r] = "PROCESSING"
          /\ SetStatus(r, "COMPLETED")
          /\ Leave(w)
       \/ /\ status[r] # "PROCESSING"
          /\ Enter(w, "failed")
          /\ UNCHANGED <<status, stale>>
  /\ UNCHANGED <<payments, undispatched, queue, todo, faults>>

\* The soft time limit or the database raises around the gateway call; the
\* commit of _complete may have gone through unconfirmed.
WorkFails(w) ==
  /\ task[w].phase \in {"paying", "completing"}
  /\ Fault
  /\ Enter(w, "failed")
  /\ LET r == task[w].refund IN
       \/ UNCHANGED <<status, stale>>
       \/ /\ task[w].phase = "completing"
          /\ status[r] = "PROCESSING"
          /\ SetStatus(r, "COMPLETED")
  /\ UNCHANGED <<payments, undispatched, queue, todo>>

\* Mutant of Restore: the UPDATE does not ask for PROCESSING.
RestoreAnyStatus(w) ==
  /\ task[w].phase \in {"failed", "unclaimed"}
  /\ SetStatus(task[w].refund, "APPROVED")
  /\ Enter(w, "retrying")
  /\ UNCHANGED <<payments, undispatched, queue, todo, faults>>

\* _restore_after_failure: PROCESSING goes back to APPROVED, whoever set it.
Restore(w) ==
  /\ task[w].phase \in {"failed", "unclaimed"}
  /\ LET r == task[w].refund IN
       IF status[r] = "PROCESSING" THEN SetStatus(r, "APPROVED")
                                   ELSE UNCHANGED <<status, stale>>
  /\ Enter(w, "retrying")
  /\ UNCHANGED <<payments, undispatched, queue, todo, faults>>

\* self.retry: a new message while retries remain, else the task fails.
Retry(w) ==
  /\ task[w].phase = "retrying"
  /\ LET k == task[w].retries IN
       IF k < MaxRetries THEN Publish(task[w].refund, k + 1)
                         ELSE UNCHANGED queue
  /\ Leave(w)
  /\ UNCHANGED <<status, stale, payments, undispatched, todo, faults>>

\* The process dies, is killed at the hard time limit, or raises outside the
\* try block.  The message was acknowledged on delivery: it is gone.
Crash(w) ==
  /\ task[w].phase # "idle"
  /\ Fault
  /\ Leave(w)
  /\ todo' = [todo EXCEPT ![w] = {}]
  /\ UNCHANGED <<status, stale, payments, undispatched, queue>>

-----------------------------------------------------------------------------
(* refund.recover_stalled, started by beat every minute                    *)

Past(w) == task[w].phase \in {"paying", "completing", "failed"}

\* Ten minutes pass since updated_at.  A pool with a hard time limit has by
\* then killed whoever claimed r; without one the claimant may just be slow,
\* which counts as a fault.
Age(r) ==
  /\ status[r] = "PROCESSING"
  /\ ~stale[r]
  /\ IF \E w \in Workers : On(w, r) /\ Past(w)
     THEN ~HardTimeLimit /\ Fault
     ELSE UNCHANGED faults
  /\ stale' = [stale EXCEPT ![r] = TRUE]
  /\ UNCHANGED <<status, payments, undispatched, queue, task, todo>>

\* Mutant of Stalled: the cutoff on updated_at is missing.
StalledWithoutCutoff == {r \in Refunds : status[r] = "PROCESSING"}

Stalled == {r \in Refunds : status[r] = "PROCESSING" /\ stale[r]}

\* Mutant of Sweep: the refund is requeued but stays PROCESSING.
SweepKeepsStatus(w) ==
  /\ task[w].phase = "idle"
  /\ Stalled # {}
  /\ stale' = [r \in Refunds |-> r \notin Stalled /\ stale[r]]
  /\ todo' = [todo EXCEPT ![w] = Stalled]
  /\ Enter(w, "requeueing")
  /\ UNCHANGED <<status, payments, undispatched, queue, faults>>

Sweep(w) ==
  /\ task[w].phase = "idle"
  /\ Stalled # {}
  /\ status' = [r \in Refunds |-> IF r \in Stalled THEN "APPROVED" ELSE status[r]]
  /\ stale' = [r \in Refunds |-> r \notin Stalled /\ stale[r]]
  /\ todo' = [todo EXCEPT ![w] = Stalled]
  /\ Enter(w, "requeueing")
  /\ UNCHANGED <<payments, undispatched, queue, faults>>

\* One turn of the requeue loop; a failed .delay() is noted and passed over.
Requeue(w, r) ==
  /\ r \in todo[w]
  /\ todo' = [todo EXCEPT ![w] = @ \ {r}]
  /\ IF todo[w] = {r} THEN Leave(w) ELSE UNCHANGED task
  /\ \/ Publish(r, 0) /\ UNCHANGED faults
     \/ Fault /\ UNCHANGED queue
  /\ UNCHANGED <<status, stale, payments, undispatched>>

-----------------------------------------------------------------------------
Init ==
  /\ status = [r \in Refunds |-> "PENDING"]
  /\ stale = [r \in Refunds |-> FALSE]
  /\ payments = [r \in Refunds |-> 0]
  /\ undispatched = {}
  /\ queue = [r \in Refunds |-> [k \in Retries |-> 0]]
  /\ task = [w \in Workers |-> Idle]
  /\ todo = [w \in Workers |-> {}]
  /\ faults = 0

Api(r) == Approve(r) \/ Reject(r) \/ Dispatch(r) \/ DispatchFails(r)

Payment(w) == \/ Claim(w) \/ ClaimFails(w)
              \/ Pay(w) \/ Complete(w) \/ WorkFails(w)
              \/ Restore(w) \/ Retry(w) \/ Crash(w)

Next ==
  \/ \E r \in Refunds : Api(r) \/ Age(r)
  \/ \E r \in Refunds, k \in Retries : Redeliver(r, k)
  \/ \E w \in Workers : Payment(w) \/ Sweep(w)
  \/ \E w \in Workers, r \in Refunds : Requeue(w, r)
  \/ \E w \in Workers, r \in Refunds, k \in Retries : Deliver(w, r, k)

Spec == Init /\ [][Next]_vars

\* The API, the pool and beat keep running: whatever is under way goes on,
\* time passes, and the sweep gets its turn.  Nobody has to decide, and no
\* fault has to happen.
Fairness ==
  /\ \A r \in Refunds : WF_vars(Dispatch(r)) /\ WF_vars(Age(r) /\ UNCHANGED faults)
  /\ \A w \in Workers :
       /\ WF_vars(Claim(w) \/ Pay(w) \/ Complete(w) \/ Restore(w) \/ Retry(w))
       /\ WF_vars(\E r \in Refunds : Requeue(w, r) /\ UNCHANGED faults)
  /\ WF_vars(\E w \in Workers : Sweep(w))
  /\ \A r \in Refunds, k \in Retries : WF_vars(\E w \in Workers : Deliver(w, r, k))

FairSpec == Spec /\ Fairness

-----------------------------------------------------------------------------
(* What must hold                                                          *)

TypeOK ==
  /\ status \in [Refunds -> RefundStatus]
  /\ stale \in [Refunds -> BOOLEAN]
  /\ payments \in [Refunds -> Nat]
  /\ undispatched \subseteq Refunds
  /\ queue \in [Refunds -> [Retries -> Nat]]
  /\ task \in [Workers -> Task]
  /\ todo \in [Workers -> SUBSET Refunds]
  /\ faults \in Nat

\* A reference to r by which somebody may still start or finish its payment.
InFlight(r) == \/ r \in undispatched
               \/ \E k \in Retries : queue[r][k] > 0
               \/ \E w \in Workers : On(w, r) \/ r \in todo[w]

\* Nothing reaches the queue, a worker or the gateway for a refund no admin
\* approved, however late a retry or a sweep touches it (refund_tasks.py
\* trusts its caller: process_refund_payment does not look at the audit).
PaymentNeedsApproval ==
  \A r \in Refunds : InFlight(r) \/ payments[r] > 0 => status[r] \in Granted

\* A refund is COMPLETED only when the gateway was told to pay it, even when
\* the worker that completes it is not the one whose claim stands.
CompletedWasPaid ==
  \A r \in Refunds : status[r] = "COMPLETED" => payments[r] > 0

\* COMPLETED and REJECTED are final: no retry, restore or sweep reopens them.
FinalStaysFinal ==
  [][\A r \in Refunds :
       status[r] \in {"COMPLETED", "REJECTED"} => status'[r] = status[r]]_vars

\* At most one worker stands between claiming a refund and completing it.
\* Holds when a message is delivered once and the pool enforces its limits.
SinglePayer ==
  \A r \in Refunds : \A v, w \in Workers :
    On(v, r) /\ Past(v) /\ On(w, r) /\ Past(w) => v = w

\* Under the same conditions a refund is paid again only because something
\* failed after the gateway call: one fault per extra payment.
RepaymentNeedsFault == \A r \in Refunds : payments[r] <= 1 + faults

\* No refund stays PROCESSING: its worker completes or restores it, or the
\* sweep takes it back.
StalledIsRecovered ==
  \A r \in Refunds : status[r] = "PROCESSING" ~> status[r] # "PROCESSING"

\* README: payment tasks are executed idempotently.
PaidAtMostOnce == \A r \in Refunds : payments[r] <= 1

\* refund_tasks.py: a refund whose requeue failed stays APPROVED so that the
\* next scheduled sweep dispatches it again.
OrphanIsRequeued ==
  \A r \in Refunds : status[r] = "APPROVED" /\ ~InFlight(r) ~> InFlight(r)

Lifecycle == INSTANCE RefundLifecycle
               WITH Refunds <- Refunds, status <- status, payments <- payments
\* The payment pipeline implements the status graph of a refund application.
ImplementsLifecycle == Lifecycle!Spec
=============================================================================
