------------------------- MODULE RefundPaymentProofs -------------------------
(***************************************************************************)
(* Theorems about RefundPayment for any set of refunds and workers and any *)
(* retry and fault budget.                                                 *)
(***************************************************************************)
EXTENDS RefundPayment, TLAPS

USE PaymentAssumption DEF PaymentAssumption, Retries

-----------------------------------------------------------------------------
(* Type correctness                                                        *)

\* What the actions of a worker need to know of its record.
LEMMA TaskFields ==
  ASSUME TypeOK, NEW w \in Workers
  PROVE  /\ task[w].phase \in Phase
         /\ task[w].refund \in Refunds \cup {NoRefund}
         /\ task[w].retries \in Retries
BY DEF TypeOK, Task

\* The updates of task that the actions are built from keep its type.
LEMMA TaskUpdates ==
  ASSUME TypeOK, NEW w \in Workers
  PROVE  /\ \A p \in Phase : Enter(w, p) => task' \in [Workers -> Task]
         /\ Leave(w) => task' \in [Workers -> Task]
<1>1. ASSUME NEW p \in Phase, Enter(w, p) PROVE task' \in [Workers -> Task]
  <2>1. [task[w] EXCEPT !.phase = p] \in Task
    BY DEF TypeOK, Task
  <2> QED BY <1>1, <2>1 DEF TypeOK, Enter
<1>2. Idle \in Task
  BY DEF Idle, Task, Phase
<1>3. Leave(w) => task' \in [Workers -> Task]
  BY <1>2 DEF TypeOK, Leave
<1> QED BY <1>1, <1>3

\* A status that is set is one of the enum.
LEMMA StatusUpdates ==
  ASSUME TypeOK, NEW r, NEW s \in RefundStatus, SetStatus(r, s)
  PROVE  status' \in [Refunds -> RefundStatus] /\ stale' \in [Refunds -> BOOLEAN]
BY DEF TypeOK, SetStatus

\* One more message keeps the queue a table of counts.
LEMMA PublishType ==
  ASSUME TypeOK, NEW r, NEW k, Publish(r, k)
  PROVE  queue' \in [Refunds -> [Retries -> Nat]]
<1>1. CASE r \in Refunds /\ k \in Retries
  BY <1>1 DEF TypeOK, Publish
<1>2. CASE r \notin Refunds
  BY <1>2 DEF TypeOK, Publish
<1>3. CASE r \in Refunds /\ k \notin Retries
  BY <1>3 DEF TypeOK, Publish
<1> QED BY <1>1, <1>2, <1>3

\* Every variable keeps its type.
THEOREM TypeCorrect == Spec => []TypeOK
<1>1. Init => TypeOK
  BY DEF Init, TypeOK, Idle, Task, Phase, RefundStatus
<1>2. TypeOK /\ [Next]_vars => TypeOK'
  <2> SUFFICES ASSUME TypeOK, [Next]_vars PROVE TypeOK'
    OBVIOUS
  <2>1. ASSUME NEW r \in Refunds, Api(r) PROVE TypeOK'
    <3>1. CASE Approve(r)
      BY <3>1, StatusUpdates DEF Approve, TypeOK, RefundStatus
    <3>2. CASE Reject(r)
      BY <3>2, StatusUpdates DEF Reject, TypeOK, RefundStatus
    <3>3. CASE Dispatch(r)
      BY <3>3, PublishType DEF Dispatch, TypeOK
    <3>4. CASE DispatchFails(r)
      BY <3>4 DEF DispatchFails, Fault, TypeOK
    <3> QED BY <2>1, <3>1, <3>2, <3>3, <3>4 DEF Api
  <2>2. ASSUME NEW r \in Refunds, Age(r) PROVE TypeOK'
    BY <2>2 DEF Age, Fault, TypeOK
  <2>3. ASSUME NEW r \in Refunds, NEW k \in Retries, Redeliver(r, k) PROVE TypeOK'
    BY <2>3, PublishType DEF Redeliver, Fault, TypeOK
  <2>4. ASSUME NEW w \in Workers, Payment(w) PROVE TypeOK'
    <3> USE <2>4 DEF Payment, Claim, ClaimFails, Pay, Complete, WorkFails,
                     Restore, Retry, Crash
    <3>1. task' \in [Workers -> Task]
      BY TaskUpdates DEF Phase
    <3>2. status' \in [Refunds -> RefundStatus] /\ stale' \in [Refunds -> BOOLEAN]
      <4>1. \/ \E s \in RefundStatus : SetStatus(task[w].refund, s)
            \/ UNCHANGED <<status, stale>>
        BY DEF RefundStatus
      <4> QED BY <4>1, StatusUpdates DEF TypeOK
    <3>3. payments' \in [Refunds -> Nat]
      BY DEF TypeOK
    <3>4. queue' \in [Refunds -> [Retries -> Nat]]
      <4>1. (\E r, k : Publish(r, k)) \/ UNCHANGED queue
        OBVIOUS
      <4> QED BY <4>1, PublishType DEF TypeOK
    <3>5. undispatched' \subseteq Refunds /\ todo' \in [Workers -> SUBSET Refunds]
      BY DEF TypeOK
    <3>6. faults' \in Nat
      BY DEF Fault, TypeOK
    <3> QED BY <3>1, <3>2, <3>3, <3>4, <3>5, <3>6 DEF TypeOK
  <2>5. ASSUME NEW w \in Workers, Sweep(w) PROVE TypeOK'
    <3>1. task' \in [Workers -> Task]
      BY <2>5, TaskUpdates DEF Sweep, Phase
    <3>2. status' \in [Refunds -> RefundStatus] /\ stale' \in [Refunds -> BOOLEAN]
      BY <2>5 DEF Sweep, Stalled, TypeOK, RefundStatus
    <3>3. todo' \in [Workers -> SUBSET Refunds]
      BY <2>5 DEF Sweep, Stalled, TypeOK
    <3> QED BY <2>5, <3>1, <3>2, <3>3 DEF Sweep, TypeOK
  <2>6. ASSUME NEW w \in Workers, NEW r \in Refunds, Requeue(w, r) PROVE TypeOK'
    <3>1. task' \in [Workers -> Task]
      BY <2>6, TaskUpdates DEF Requeue, TypeOK
    <3>2. queue' \in [Refunds -> [Retries -> Nat]]
      BY <2>6, PublishType DEF Requeue, TypeOK
    <3>3. todo' \in [Workers -> SUBSET Refunds] /\ faults' \in Nat
      BY <2>6 DEF Requeue, Fault, TypeOK
    <3> QED BY <2>6, <3>1, <3>2, <3>3 DEF Requeue, TypeOK
  <2>7. ASSUME NEW w \in Workers, NEW r \in Refunds, NEW k \in Retries,
               Deliver(w, r, k)
        PROVE  TypeOK'
    <3>1. queue' \in [Refunds -> [Retries -> Nat]]
      BY <2>7 DEF Deliver, TypeOK
    <3>2. task' \in [Workers -> Task]
      BY <2>7 DEF Deliver, TypeOK, Task, Phase
    <3> QED BY <2>7, <3>1, <3>2 DEF Deliver, TypeOK
  <2>8. CASE UNCHANGED vars
    BY <2>8 DEF vars, TypeOK
  <2> QED BY <2>1, <2>2, <2>3, <2>4, <2>5, <2>6, <2>7, <2>8 DEF Next
<1> QED BY <1>1, <1>2, PTL DEF Spec
-----------------------------------------------------------------------------
(* Money leaves only for approved refunds                                  *)

\* A worker has a refund exactly while it executes process_refund_payment.
BusyHasRefund ==
  \A w \in Workers :
    task[w].refund \in Refunds <=> task[w].phase \notin {"idle", "requeueing"}

\* PaymentNeedsApproval, one conjunct per place a refund can be referred to
\* from.
GrantedWhereUsed ==
  /\ \A r \in undispatched : status[r] \in Granted
  /\ \A r \in Refunds, k \in Retries : queue[r][k] > 0 => status[r] \in Granted
  /\ \A w \in Workers, r \in Refunds : On(w, r) => status[r] \in Granted
  /\ \A w \in Workers : \A r \in todo[w] : status[r] \in Granted
  /\ \A r \in Refunds : payments[r] > 0 => status[r] \in Granted

\* A worker that is about to complete a refund has paid it.
PaidBeforeComplete ==
  \A w \in Workers, r \in Refunds :
    On(w, r) /\ task[w].phase = "completing" => payments[r] > 0

ApprovalInv == /\ TypeOK
               /\ BusyHasRefund
               /\ GrantedWhereUsed
               /\ PaidBeforeComplete
               /\ CompletedWasPaid

\* The invariant holds before the first decision.
LEMMA InitApproval == Init => ApprovalInv
BY DEF Init, ApprovalInv, BusyHasRefund, GrantedWhereUsed, PaidBeforeComplete,
       CompletedWasPaid, TypeOK, Idle, Task, Phase, RefundStatus, On

\* The edges of the status graph, and who walks the one to COMPLETED.
LEMMA StatusMoves ==
  ASSUME TypeOK, [Next]_vars, NEW r \in Refunds
  PROVE  \/ status'[r] = status[r]
         \/ status[r] = "PENDING" /\ status'[r] \in {"APPROVED", "REJECTED"}
         \/ status[r] = "APPROVED" /\ status'[r] = "PROCESSING"
         \/ status[r] = "PROCESSING" /\ status'[r] = "APPROVED"
         \/ /\ status[r] = "PROCESSING" /\ status'[r] = "COMPLETED"
            /\ \E w \in Workers : On(w, r) /\ task[w].phase = "completing"
<1> DEFINE Goal ==
      \/ status'[r] = status[r]
      \/ status[r] = "PENDING" /\ status'[r] \in {"APPROVED", "REJECTED"}
      \/ status[r] = "APPROVED" /\ status'[r] = "PROCESSING"
      \/ status[r] = "PROCESSING" /\ status'[r] = "APPROVED"
      \/ /\ status[r] = "PROCESSING" /\ status'[r] = "COMPLETED"
         /\ \E w \in Workers : On(w, r) /\ task[w].phase = "completing"
<1> USE DEF TypeOK, SetStatus
<1>1. ASSUME NEW q \in Refunds, Api(q) PROVE Goal
  BY <1>1 DEF Api, Approve, Reject, Dispatch, DispatchFails
<1>2. ASSUME NEW q \in Refunds, Age(q) PROVE Goal
  BY <1>2 DEF Age
<1>3. ASSUME NEW w \in Workers, Payment(w) PROVE Goal
  <2>1. CASE Claim(w) \/ ClaimFails(w)
    BY <2>1 DEF Claim, ClaimFails
  <2>2. CASE Complete(w) \/ WorkFails(w)
    BY <2>2 DEF Complete, WorkFails, On
  <2>3. CASE Restore(w)
    BY <2>3 DEF Restore
  <2>4. CASE Pay(w) \/ Retry(w) \/ Crash(w)
    BY <2>4 DEF Pay, Retry, Crash
  <2> QED BY <1>3, <2>1, <2>2, <2>3, <2>4 DEF Payment
<1>4. ASSUME NEW w \in Workers, Sweep(w) PROVE Goal
  BY <1>4 DEF Sweep, Stalled
<1>5. CASE \/ UNCHANGED vars
           \/ \E q \in Refunds, k \in Retries : Redeliver(q, k)
           \/ \E w \in Workers, q \in Refunds : Requeue(w, q)
           \/ \E w \in Workers, q \in Refunds, k \in Retries : Deliver(w, q, k)
  BY <1>5 DEF vars, Redeliver, Requeue, Deliver
<1> QED BY <1>1, <1>2, <1>3, <1>4, <1>5 DEF Next

\* An approved refund stays granted, whatever happens to it.
LEMMA GrantedStays ==
  ASSUME TypeOK, [Next]_vars, NEW r \in Refunds, status[r] \in Granted
  PROVE  status'[r] \in Granted
BY StatusMoves DEF Granted

\* Only the gateway call of a worker that stands before it pays.
LEMMA PaymentMoves ==
  ASSUME TypeOK, [Next]_vars
  PROVE  UNCHANGED payments \/ \E w \in Workers : Pay(w)
BY DEF Next, vars, Api, Approve, Reject, Dispatch, DispatchFails, Age, Redeliver,
       Payment, Claim, ClaimFails, Complete, WorkFails, Restore, Retry, Crash,
       Sweep, Requeue, Deliver

\* How a step may change what the workers execute.
LEMMA TaskMoves ==
  ASSUME [Next]_vars
  PROVE  \/ UNCHANGED task
         \/ \E w \in Workers : Leave(w)
         \/ \E w \in Workers, p \in Phase \ {"idle", "requeueing"} :
              task[w].phase \notin {"idle", "requeueing"} /\ Enter(w, p)
         \/ \E w \in Workers : Sweep(w)
         \/ \E w \in Workers, r \in Refunds, k \in Retries : Deliver(w, r, k)
<1>1. ASSUME NEW w \in Workers, Payment(w)
      PROVE  \/ Leave(w)
             \/ \E p \in Phase \ {"idle", "requeueing"} :
                  task[w].phase \notin {"idle", "requeueing"} /\ Enter(w, p)
  BY <1>1 DEF Payment, Claim, ClaimFails, Pay, Complete, WorkFails, Restore,
              Retry, Crash, Phase
<1>2. ASSUME NEW w \in Workers, NEW r \in Refunds, Requeue(w, r)
      PROVE  UNCHANGED task \/ Leave(w)
  BY <1>2 DEF Requeue
<1>3. ASSUME NEW r \in Refunds, Api(r) \/ Age(r) PROVE UNCHANGED task
  BY <1>3 DEF Api, Approve, Reject, Dispatch, DispatchFails, Age
<1>4. ASSUME NEW r \in Refunds, NEW k \in Retries, Redeliver(r, k)
      PROVE  UNCHANGED task
  BY <1>4 DEF Redeliver
<1> QED BY <1>1, <1>2, <1>3, <1>4 DEF Next, vars

\* The record of a worker is tied to its refund by every action.
LEMMA BusyStep == ApprovalInv /\ [Next]_vars => BusyHasRefund'
<1> SUFFICES ASSUME ApprovalInv, [Next]_vars, NEW v \in Workers
             PROVE  task'[v].refund \in Refunds
                      <=> task'[v].phase \notin {"idle", "requeueing"}
  BY DEF BusyHasRefund
<1>t. task \in [Workers -> Task]
  BY DEF ApprovalInv, TypeOK
<1>v. task[v].refund \in Refunds <=> task[v].phase \notin {"idle", "requeueing"}
  BY DEF ApprovalInv, BusyHasRefund
<1>1. CASE UNCHANGED task
  BY <1>1, <1>v
<1>2. ASSUME NEW w \in Workers, Leave(w)
      PROVE  task'[v] = task[v] \/ task'[v] = Idle
  BY <1>2, <1>t DEF Leave
<1>3. ASSUME NEW w \in Workers, NEW p \in Phase \ {"idle", "requeueing"},
             task[w].phase \notin {"idle", "requeueing"}, Enter(w, p)
      PROVE  \/ task'[v] = task[v]
             \/ /\ task[v].phase \notin {"idle", "requeueing"}
                /\ task'[v] = [task[v] EXCEPT !.phase = p]
  BY <1>3, <1>t DEF Enter
<1>4. ASSUME NEW w \in Workers, Sweep(w)
      PROVE  \/ task'[v] = task[v]
             \/ /\ task[v].phase = "idle"
                /\ task'[v] = [task[v] EXCEPT !.phase = "requeueing"]
  BY <1>4, <1>t DEF Sweep, Enter
<1>5. ASSUME NEW w \in Workers, NEW r \in Refunds, NEW k \in Retries,
             Deliver(w, r, k)
      PROVE  \/ task'[v] = task[v]
             \/ task'[v] = [phase |-> "claiming", refund |-> r, retries |-> k]
  BY <1>5, <1>t DEF Deliver
<1>6. \/ task'[v] = task[v]
      \/ task'[v] = Idle
      \/ /\ task[v].phase \notin {"idle", "requeueing"}
         /\ \E p \in Phase \ {"idle", "requeueing"} :
              task'[v] = [task[v] EXCEPT !.phase = p]
      \/ /\ task[v].phase = "idle"
         /\ task'[v] = [task[v] EXCEPT !.phase = "requeueing"]
      \/ \E r \in Refunds, k \in Retries :
           task'[v] = [phase |-> "claiming", refund |-> r, retries |-> k]
  <2>1. CASE \E w \in Workers, p \in Phase \ {"idle", "requeueing"} :
               task[w].phase \notin {"idle", "requeueing"} /\ Enter(w, p)
    BY <1>3, <2>1
  <2> QED BY <1>1, <1>2, <1>4, <1>5, <2>1, TaskMoves
<1>7. task[v] \in Task
  BY <1>t
<1>8. CASE task'[v] = Idle
  BY <1>8 DEF Idle
<1>9. ASSUME NEW p \in Phase, task'[v] = [task[v] EXCEPT !.phase = p]
      PROVE  task'[v].phase = p /\ task'[v].refund = task[v].refund
  BY <1>7, <1>9 DEF Task
<1>10. CASE \E r \in Refunds, k \in Retries :
              task'[v] = [phase |-> "claiming", refund |-> r, retries |-> k]
  BY <1>10
<1>11. CASE /\ task[v].phase = "idle"
            /\ task'[v] = [task[v] EXCEPT !.phase = "requeueing"]
  BY <1>v, <1>9, <1>11 DEF Phase
<1>12. CASE /\ task[v].phase \notin {"idle", "requeueing"}
            /\ \E p \in Phase \ {"idle", "requeueing"} :
                 task'[v] = [task[v] EXCEPT !.phase = p]
  BY <1>v, <1>9, <1>12
<1> QED BY <1>v, <1>6, <1>8, <1>10, <1>11, <1>12

\* Nothing but an approval, a message or a worker brings a refund to a new
\* place, and each of them finds it granted.
LEMMA UseStep == ApprovalInv /\ [Next]_vars => GrantedWhereUsed'
<1> SUFFICES ASSUME ApprovalInv, [Next]_vars PROVE GrantedWhereUsed'
  OBVIOUS
<1> USE DEF ApprovalInv, TypeOK
<1>g. \A r \in Refunds : status[r] \in Granted => status'[r] \in Granted
  BY GrantedStays
<1>w. ASSUME NEW w \in Workers
      PROVE  task[w].phase \notin {"idle", "requeueing"} =>
               task[w].refund \in Refunds /\ status[task[w].refund] \in Granted
  BY DEF BusyHasRefund, GrantedWhereUsed, On
<1>1. ASSUME NEW r \in undispatched' PROVE status'[r] \in Granted
  <2>1. r \in undispatched \/ (r \in Refunds /\ Approve(r))
    BY <1>1 DEF Next, vars, Api, Approve, Reject, Dispatch, DispatchFails, Age,
         Redeliver, Payment, Claim, ClaimFails, Pay, Complete, WorkFails, Restore,
         Retry, Crash, Sweep, Requeue, Deliver
  <2> QED BY <1>g, <2>1 DEF GrantedWhereUsed, Approve, SetStatus, Granted
<1>2. ASSUME NEW r \in Refunds, NEW k \in Retries, queue'[r][k] > 0
      PROVE  status'[r] \in Granted
  <2>1. queue[r][k] > 0 => status'[r] \in Granted
    BY <1>g DEF GrantedWhereUsed
  <2>2. ASSUME NEW q \in Refunds, NEW j, Publish(q, j), status[q] \in Granted
        PROVE  status'[r] \in Granted
    <3>1. r = q \/ queue[r][k] > 0
      BY <1>2, <2>2 DEF Publish
    <3> QED BY <1>g, <2>1, <2>2, <3>1
  <2>3. CASE UNCHANGED queue
    BY <1>2, <2>1, <2>3
  <2>4. ASSUME NEW q \in Refunds, Api(q) \/ Age(q) PROVE status'[r] \in Granted
    <3>1. UNCHANGED queue \/ Dispatch(q)
      BY <2>4 DEF Api, Approve, Reject, DispatchFails, Age
    <3>2. Dispatch(q) => Publish(q, 0) /\ status[q] \in Granted
      BY DEF Dispatch, GrantedWhereUsed
    <3> QED BY <2>2, <2>3, <3>1, <3>2
  <2>5. ASSUME NEW q \in Refunds, NEW j \in Retries, Redeliver(q, j)
        PROVE  status'[r] \in Granted
    BY <2>2, <2>5 DEF Redeliver, GrantedWhereUsed
  <2>6. ASSUME NEW w \in Workers, Payment(w) \/ Sweep(w)
        PROVE  status'[r] \in Granted
    <3>1. UNCHANGED queue \/ Retry(w)
      BY <2>6 DEF Payment, Claim, ClaimFails, Pay, Complete, WorkFails, Restore,
                  Crash, Sweep
    <3>2. CASE Retry(w)
      <4>1. UNCHANGED queue \/ Publish(task[w].refund, task[w].retries + 1)
        BY <3>2 DEF Retry
      <4>2. task[w].refund \in Refunds /\ status[task[w].refund] \in Granted
        BY <1>w, <3>2 DEF Retry
      <4> QED BY <2>2, <2>3, <4>1, <4>2
    <3> QED BY <2>3, <3>1, <3>2
  <2>7. ASSUME NEW w \in Workers, NEW q \in Refunds, Requeue(w, q)
        PROVE  status'[r] \in Granted
    BY <2>2, <2>3, <2>7 DEF Requeue, GrantedWhereUsed
  <2>8. ASSUME NEW w \in Workers, NEW q \in Refunds, NEW j \in Retries,
               Deliver(w, q, j)
        PROVE  status'[r] \in Granted
    <3>1. queue[r][k] > 0
      BY <1>2, <2>8 DEF Deliver
    <3> QED BY <2>1, <3>1
  <2> QED BY <2>3, <2>4, <2>5, <2>6, <2>7, <2>8 DEF Next, vars
<1>3. ASSUME NEW w \in Workers, NEW r \in Refunds, On(w, r)'
      PROVE  status'[r] \in Granted
  <2>t. task \in [Workers -> Task] /\ task'[w].refund = r /\ NoRefund # r
    BY <1>3 DEF On
  <2>1. CASE On(w, r)
    BY <1>g, <2>1 DEF GrantedWhereUsed
  <2>2. ASSUME NEW v \in Workers, Leave(v) PROVE On(w, r)
    BY <2>2, <2>t DEF Leave, Idle, On
  <2>3. ASSUME NEW v \in Workers, NEW p, Enter(v, p) PROVE On(w, r)
    BY <2>3, <2>t DEF Enter, On, Task
  <2>4. ASSUME NEW v \in Workers, NEW q \in Refunds, NEW k \in Retries,
               Deliver(v, q, k)
        PROVE  status'[r] \in Granted
    <3>1. On(w, r) \/ q = r
      BY <2>4, <2>t DEF Deliver, On
    <3>2. status[q] \in Granted
      BY <2>4 DEF Deliver, GrantedWhereUsed
    <3> QED BY <1>g, <2>1, <3>1, <3>2
  <2> QED BY <2>t, <2>1, <2>2, <2>3, <2>4, TaskMoves DEF Sweep, On
<1>4. ASSUME NEW w \in Workers, NEW r \in todo'[w] PROVE status'[r] \in Granted
  <2>1. CASE r \in todo[w]
    BY <1>g, <2>1 DEF GrantedWhereUsed
  <2>2. CASE r \in Stalled
    BY <1>g, <2>2 DEF Stalled, Granted
  <2>3. ASSUME NEW v \in Workers, Payment(v) PROVE r \in todo[w]
    BY <1>4, <2>3 DEF Payment, Claim, ClaimFails, Pay, Complete, WorkFails,
                      Restore, Retry, Crash
  <2>4. ASSUME NEW v \in Workers, Sweep(v) PROVE r \in todo[w] \/ r \in Stalled
    BY <1>4, <2>4 DEF Sweep
  <2>5. ASSUME NEW v \in Workers, NEW q \in Refunds, Requeue(v, q)
        PROVE  r \in todo[w]
    BY <1>4, <2>5 DEF Requeue
  <2>6. CASE UNCHANGED todo
    BY <1>4, <2>1, <2>6
  <2>7. ASSUME NEW q \in Refunds,
               \/ Api(q) \/ Age(q)
               \/ \E k \in Retries : Redeliver(q, k)
               \/ \E v \in Workers, k \in Retries : Deliver(v, q, k)
        PROVE  UNCHANGED todo
    BY <2>7 DEF Api, Approve, Reject, Dispatch, DispatchFails, Age, Redeliver, Deliver
  <2> QED BY <2>1, <2>2, <2>3, <2>4, <2>5, <2>6, <2>7 DEF Next, vars
<1>5. ASSUME NEW r \in Refunds, payments'[r] > 0 PROVE status'[r] \in Granted
  <2>1. payments[r] > 0 \/ \E w \in Workers : Pay(w) /\ On(w, r)
    BY <1>5 DEF On, Next, vars, Api, Approve, Reject, Dispatch, DispatchFails,
         Age, Redeliver, Payment, Claim, ClaimFails, Pay, Complete, WorkFails,
         Restore, Retry, Crash, Sweep, Requeue, Deliver
  <2> QED BY <1>g, <2>1 DEF GrantedWhereUsed
<1> QED BY <1>1, <1>2, <1>3, <1>4, <1>5 DEF GrantedWhereUsed

\* A payment is never taken back.
LEMMA PaidStays ==
  ASSUME TypeOK, [Next]_vars, NEW r \in Refunds, payments[r] > 0
  PROVE  payments'[r] > 0
<1>1. CASE UNCHANGED payments
  BY <1>1
<1>2. ASSUME NEW w \in Workers, Pay(w) PROVE payments'[r] > 0
  <2>1. payments \in [Refunds -> Nat] /\ payments[r] \in Nat
    BY DEF TypeOK
  <2>2. payments' = [payments EXCEPT ![task[w].refund] = @ + 1]
    BY <1>2 DEF Pay
  <2> QED BY <2>1, <2>2
<1> QED BY <1>1, <1>2, PaymentMoves

\* The step to "completing" is the gateway call itself.
LEMMA PaidStep == ApprovalInv /\ [Next]_vars => PaidBeforeComplete'
<1> SUFFICES ASSUME ApprovalInv, [Next]_vars, NEW v \in Workers, NEW r \in Refunds,
                    task'[v].refund = r, task'[v].phase = "completing"
             PROVE  payments'[r] > 0
  BY DEF PaidBeforeComplete, On
<1>t. TypeOK /\ task \in [Workers -> Task] /\ task[v] \in Task
  BY DEF ApprovalInv, TypeOK
<1>1. CASE task'[v] = task[v]
  BY <1>1, <1>t, PaidStays DEF ApprovalInv, PaidBeforeComplete, On
<1>2. CASE \E w \in Workers : Pay(w)
  <2> PICK w \in Workers : Pay(w)
    BY <1>2
  <2>1. CASE w = v
    <3>1. task[v].refund = r
      BY <1>t, <2>1 DEF Pay, Enter, Task
    <3> QED BY <1>t, <2>1, <3>1 DEF Pay, TypeOK
  <2>2. CASE w # v
    BY <1>1, <1>t, <2>2 DEF Pay, Enter
  <2> QED BY <2>1, <2>2
<1>3. ASSUME NEW w \in Workers, Leave(w) PROVE task'[v] = task[v]
  BY <1>3, <1>t DEF Leave, Idle
<1>4. ASSUME NEW w \in Workers, NEW p \in Phase \ {"completing"}, Enter(w, p)
      PROVE  task'[v] = task[v]
  BY <1>4, <1>t DEF Enter, Task
<1>5. ASSUME NEW w \in Workers, NEW q \in Refunds, NEW k \in Retries,
             Deliver(w, q, k)
      PROVE  task'[v] = task[v]
  BY <1>5, <1>t DEF Deliver
<1>6. ASSUME NEW w \in Workers, Payment(w), ~Pay(w)
      PROVE  Leave(w) \/ \E p \in Phase \ {"completing"} : Enter(w, p)
  BY <1>6 DEF Payment, Claim, ClaimFails, Complete, WorkFails, Restore, Retry,
              Crash, Phase
<1>7. ASSUME NEW w \in Workers, Sweep(w) \/ \E q \in Refunds : Requeue(w, q)
      PROVE  \/ UNCHANGED task \/ Leave(w)
             \/ \E p \in Phase \ {"completing"} : Enter(w, p)
  BY <1>7 DEF Sweep, Requeue, Phase
<1>8. ASSUME NEW q \in Refunds, \/ Api(q) \/ Age(q)
                               \/ \E k \in Retries : Redeliver(q, k)
      PROVE  UNCHANGED task
  BY <1>8 DEF Api, Approve, Reject, Dispatch, DispatchFails, Age, Redeliver
<1> QED BY <1>1, <1>2, <1>3, <1>4, <1>5, <1>6, <1>7, <1>8 DEF Next, vars

\* The invariant, and with it both properties about money.
THEOREM ApprovalHolds == Spec => []ApprovalInv
<1>1. ApprovalInv /\ [Next]_vars => CompletedWasPaid'
  <2> SUFFICES ASSUME ApprovalInv, [Next]_vars, NEW r \in Refunds,
                      status'[r] = "COMPLETED"
               PROVE  payments'[r] > 0
    BY DEF CompletedWasPaid
  <2>1. payments[r] > 0
    BY StatusMoves DEF ApprovalInv, CompletedWasPaid, PaidBeforeComplete
  <2> QED BY <2>1, PaidStays DEF ApprovalInv
<1>2. ApprovalInv /\ TypeOK' /\ [Next]_vars => ApprovalInv'
  BY <1>1, BusyStep, UseStep, PaidStep DEF ApprovalInv
<1> QED BY <1>2, InitApproval, TypeCorrect, PTL DEF Spec

\* Nothing is queued, worked on or paid for a refund no admin approved.
THEOREM NeedsApproval == Spec => []PaymentNeedsApproval
<1>1. ApprovalInv => PaymentNeedsApproval
  BY DEF ApprovalInv, PaymentNeedsApproval, GrantedWhereUsed, InFlight
<1> QED BY <1>1, ApprovalHolds, PTL

\* A completed refund was paid.
THEOREM CompletedPaid == Spec => []CompletedWasPaid
<1>1. ApprovalInv => CompletedWasPaid
  BY DEF ApprovalInv
<1> QED BY <1>1, ApprovalHolds, PTL

\* No step reopens a completed or a rejected refund.
THEOREM FinalForGood == Spec => FinalStaysFinal
<1>1. TypeOK /\ [Next]_vars =>
        [\A r \in Refunds : status[r] \in {"COMPLETED", "REJECTED"}
                              => status'[r] = status[r]]_vars
  BY StatusMoves
<1> QED BY <1>1, TypeCorrect, PTL DEF Spec, FinalStaysFinal

-----------------------------------------------------------------------------
(* RefundPayment implements RefundLifecycle                                *)

\* One step of the pipeline is one step of the status graph, or none.
LEMMA LifecycleStep ==
  ApprovalInv /\ [Next]_vars => [Lifecycle!Next]_Lifecycle!vars
<1> SUFFICES ASSUME ApprovalInv, [Next]_vars
             PROVE  [Lifecycle!Next]_Lifecycle!vars
  OBVIOUS
<1> USE DEF ApprovalInv, TypeOK
<1>s. UNCHANGED <<status, payments>> => UNCHANGED Lifecycle!vars
  BY DEF Lifecycle!vars
<1>m. ASSUME NEW r \in Refunds, NEW s, SetStatus(r, s), UNCHANGED payments,
             \/ status[r] = "PENDING" /\ s \in {"APPROVED", "REJECTED"}
             \/ status[r] = "APPROVED" /\ s = "PROCESSING"
             \/ status[r] = "PROCESSING" /\ s = "COMPLETED" /\ payments[r] > 0
             \/ status[r] = "PROCESSING" /\ s = "APPROVED"
      PROVE  Lifecycle!Next
  <2>1. CASE s # "APPROVED" \/ status[r] = "PENDING"
    BY <1>m, <2>1 DEF SetStatus, Lifecycle!Next, Lifecycle!Decide,
                      Lifecycle!Start, Lifecycle!Finish, Lifecycle!Move
  <2>2. CASE status[r] = "PROCESSING" /\ s = "APPROVED"
    <3>1. status' = [q \in Refunds |-> IF q \in {r} THEN "APPROVED" ELSE status[q]]
      BY <1>m, <2>2 DEF SetStatus
    <3>2. Lifecycle!Release({r})
      BY <1>m, <2>2, <3>1 DEF Lifecycle!Release
    <3> QED BY <3>2 DEF Lifecycle!Next
  <2> QED BY <1>m, <2>1, <2>2
<1>w. ASSUME NEW w \in Workers, task[w].phase \notin {"idle", "requeueing"}
      PROVE  task[w].refund \in Refunds /\ On(w, task[w].refund)
  BY <1>w DEF BusyHasRefund, On
<1>1. ASSUME NEW r \in Refunds, Api(r) PROVE [Lifecycle!Next]_Lifecycle!vars
  BY <1>1, <1>m, <1>s DEF Api, Approve, Reject, Dispatch, DispatchFails
<1>2. ASSUME NEW w \in Workers, Payment(w)
      PROVE  [Lifecycle!Next]_Lifecycle!vars
  <2>1. CASE Claim(w) \/ ClaimFails(w)
    BY <1>m, <1>s, <1>w, <2>1 DEF Claim, ClaimFails
  <2>2. CASE Pay(w)
    <3>1. status[task[w].refund] \in Granted
      BY <1>w, <2>2 DEF GrantedWhereUsed, Pay
    <3>2. Lifecycle!Pay(task[w].refund)
      BY <2>2, <3>1 DEF Pay, Lifecycle!Pay, Granted, Lifecycle!Granted
    <3> QED BY <1>w, <2>2, <3>2 DEF Pay, Lifecycle!Next
  <2>3. CASE Complete(w) \/ WorkFails(w)
    <3>1. task[w].phase = "completing" => payments[task[w].refund] > 0
      BY <1>w DEF PaidBeforeComplete
    <3> QED BY <1>m, <1>s, <1>w, <2>3, <3>1 DEF Complete, WorkFails
  <2>4. CASE Restore(w)
    BY <1>m, <1>s, <1>w, <2>4 DEF Restore
  <2>5. CASE Retry(w) \/ Crash(w)
    BY <1>s, <2>5 DEF Retry, Crash
  <2> QED BY <1>2, <2>1, <2>2, <2>3, <2>4, <2>5 DEF Payment
<1>3. ASSUME NEW w \in Workers, Sweep(w) PROVE Lifecycle!Next
  <2>1. Lifecycle!Release(Stalled)
    BY <1>3 DEF Sweep, Stalled, Lifecycle!Release
  <2> QED BY <2>1 DEF Lifecycle!Next, Stalled
<1>4. CASE \/ UNCHANGED vars
           \/ \E r \in Refunds : Age(r)
           \/ \E r \in Refunds, k \in Retries : Redeliver(r, k)
           \/ \E w \in Workers, r \in Refunds : Requeue(w, r)
           \/ \E w \in Workers, r \in Refunds, k \in Retries : Deliver(w, r, k)
  BY <1>4, <1>s DEF vars, Age, Redeliver, Requeue, Deliver
<1> QED BY <1>1, <1>2, <1>3, <1>4 DEF Next

\* The payment pipeline implements the lifecycle of a refund application.
THEOREM Implements == Spec => ImplementsLifecycle
<1>1. Init => Lifecycle!Init
  BY DEF Init, Lifecycle!Init
<1> QED BY <1>1, LifecycleStep, ApprovalHolds, PTL
     DEF Spec, ImplementsLifecycle, Lifecycle!Spec

-----------------------------------------------------------------------------
(* Prefork workers.  When a message is delivered once and the pool         *)
(* enforces its hard time limit, there is one payer at a time, and a       *)
(* payment is repeated only for a fault.                                   *)
(*                                                                         *)
(* The argument is that a refund is referred to from one place at most: it *)
(* waits for its dispatch, or one message asks for it, or one worker       *)
(* executes it, or one sweep is about to requeue it (OneReference).  Every *)
(* step moves that reference or loses it, and a sweep makes a new one only *)
(* for a refund whose reference is lost.                                   *)

-----------------------------------------------------------------------------
(* Where a refund is referred to from                                      *)

Unqueued(r) == \A k \in Retries : queue[r][k] = 0
Unserved(r) == \A w \in Workers : ~On(w, r)
Unswept(r) == \A w \in Workers : r \notin todo[w]

Nowhere(r) == r \notin undispatched /\ Unqueued(r) /\ Unserved(r) /\ Unswept(r)

AtApi(r) == r \in undispatched /\ Unqueued(r) /\ Unserved(r) /\ Unswept(r)

InQueue(r, k) ==
  /\ queue[r][k] = 1 /\ \A j \in Retries \ {k} : queue[r][j] = 0
  /\ r \notin undispatched /\ Unserved(r) /\ Unswept(r)

AtWorker(r, w) ==
  /\ On(w, r) /\ \A v \in Workers \ {w} : ~On(v, r)
  /\ r \notin undispatched /\ Unqueued(r) /\ Unswept(r)

InSweep(r, w) ==
  /\ r \in todo[w] /\ \A v \in Workers \ {w} : r \notin todo[v]
  /\ r \notin undispatched /\ Unqueued(r) /\ Unserved(r)

OneReference ==
  \A r \in Refunds :
    \/ Nowhere(r) \/ AtApi(r)
    \/ \E k \in Retries : InQueue(r, k)
    \/ \E w \in Workers : AtWorker(r, w) \/ InSweep(r, w)

\* A refund that is PROCESSING is being paid, or its worker is lost.
ClaimedOrLost ==
  \A r \in Refunds : status[r] = "PROCESSING" =>
    Nowhere(r) \/ \E w \in Workers : AtWorker(r, w) /\ Past(w)

\* Who is about to pay or to complete works on a refund that is PROCESSING.
PayersHaveClaims ==
  \A w \in Workers, r \in Refunds :
    On(w, r) /\ task[w].phase \in {"paying", "completing"} => status[r] = "PROCESSING"

\* A refund the sweep takes back is lost.
StaleIsLost ==
  \A r \in Refunds : stale[r] => status[r] = "PROCESSING" /\ Nowhere(r)

SweepersSweep == \A w \in Workers : todo[w] # {} => task[w].phase = "requeueing"

\* A payment beyond the number of faults is the one that completes the refund.
FaultsPay ==
  \A r \in Refunds :
    \/ payments[r] <= faults
    \/ /\ payments[r] <= 1 + faults
       /\ \/ status[r] = "COMPLETED"
          \/ \E w \in Workers : On(w, r) /\ task[w].phase = "completing"

SoloInv ==
  /\ TypeOK /\ ApprovalInv
  /\ OneReference /\ ClaimedOrLost /\ PayersHaveClaims /\ StaleIsLost
  /\ SweepersSweep /\ FaultsPay

-----------------------------------------------------------------------------
(* How a reference moves                                                   *)

\* Nothing refers to r that did not before, and the other way round.
Same(r) ==
  /\ r \in undispatched' <=> r \in undispatched
  /\ queue'[r] = queue[r]
  /\ \A w \in Workers : On(w, r)' <=> On(w, r)
  /\ \A w \in Workers : r \in todo'[w] <=> r \in todo[w]

LEMMA SameReference ==
  ASSUME NEW r \in Refunds, Same(r)
  PROVE  /\ Nowhere(r) <=> Nowhere(r)'
         /\ AtApi(r) <=> AtApi(r)'
         /\ \A k \in Retries : InQueue(r, k) <=> InQueue(r, k)'
         /\ \A w \in Workers : AtWorker(r, w) <=> AtWorker(r, w)'
         /\ \A w \in Workers : InSweep(r, w) <=> InSweep(r, w)'
BY DEF Same, Nowhere, AtApi, InQueue, AtWorker, InSweep, Unqueued, Unserved, Unswept

LEMMA EnterKeeps ==
  ASSUME TypeOK, NEW w \in Workers, NEW p, Enter(w, p)
  PROVE  /\ \A v \in Workers, r \in Refunds : On(v, r)' <=> On(v, r)
         /\ task'[w].phase = p
         /\ \A v \in Workers \ {w} : task'[v] = task[v]
BY DEF Enter, On, TypeOK, Task

LEMMA LeaveDrops ==
  ASSUME TypeOK, NEW w \in Workers, Leave(w)
  PROVE  /\ task'[w] = Idle
         /\ \A r \in Refunds : ~On(w, r)'
         /\ \A v \in Workers \ {w} : task'[v] = task[v]
         /\ \A v \in Workers \ {w}, r \in Refunds : On(v, r)' <=> On(v, r)
BY DEF Leave, On, TypeOK, Task, Idle

\* Where each refund is referred to from after a step.
Moves(r) ==
  \/ Same(r)
  \/ Nowhere(r)'
  \/ AtApi(r)' /\ status[r] = "PENDING"
  \/ /\ status'[r] = status[r] /\ status[r] # "PROCESSING" /\ stale'[r] = stale[r]
     /\ \/ \E k \in Retries : InQueue(r, k)'
        \/ \E w \in Workers : AtWorker(r, w)'
  \/ (\E w \in Workers : InSweep(r, w)') /\ r \in Stalled /\ status'[r] = "APPROVED"

\* A refund nobody decided is referred to from nowhere.
LEMMA PendingIsNowhere ==
  ASSUME SoloInv, NEW r \in Refunds, status[r] \notin Granted
  PROVE  Nowhere(r)
<1>1. r \notin undispatched /\ Unserved(r) /\ Unswept(r)
  BY DEF SoloInv, ApprovalInv, GrantedWhereUsed, Unserved, Unswept
<1>2. \A k \in Retries : queue[r][k] = 0
  BY DEF SoloInv, ApprovalInv, GrantedWhereUsed, TypeOK
<1> QED BY <1>1, <1>2 DEF Nowhere, Unqueued

\* Only one case applies.
LEMMA ReferenceAt ==
  ASSUME SoloInv, NEW r \in Refunds
  PROVE  /\ r \in undispatched => AtApi(r)
         /\ \A k \in Retries : queue[r][k] > 0 => InQueue(r, k)
         /\ \A w \in Workers : On(w, r) => AtWorker(r, w)
         /\ \A w \in Workers : r \in todo[w] => InSweep(r, w)
BY DEF SoloInv, OneReference, Nowhere, AtApi, InQueue, AtWorker, InSweep, Unqueued,
       Unserved, Unswept

\* Whoever is not on a refund that is PROCESSING as its payer is not on one.
LEMMA WaitingNotProcessing ==
  ASSUME SoloInv, NEW r \in Refunds,
         \/ r \in undispatched \/ \E k \in Retries : queue[r][k] > 0
         \/ \E w \in Workers : r \in todo[w] \/ (On(w, r) /\ ~Past(w))
  PROVE  status[r] # "PROCESSING" /\ ~stale[r]
<1>1. ~Nowhere(r)
  BY DEF Nowhere, Unqueued, Unserved, Unswept
<1>2. ASSUME NEW w \in Workers, AtWorker(r, w) PROVE ~Past(w)
  BY <1>2 DEF AtWorker, Unqueued, Unswept
<1> QED BY <1>1, <1>2 DEF SoloInv, ClaimedOrLost, StaleIsLost

\* One more message, or one less.
LEMMA PublishForms ==
  ASSUME TypeOK, NEW q \in Refunds, NEW k \in Retries, Publish(q, k)
  PROVE  /\ \A r \in Refunds \ {q} : queue'[r] = queue[r]
         /\ queue'[q][k] = queue[q][k] + 1
         /\ \A j \in Retries \ {k} : queue'[q][j] = queue[q][j]
BY DEF Publish, TypeOK

LEMMA ApiMoves ==
  ASSUME SoloInv, NEW q \in Refunds, Api(q), NEW r \in Refunds
  PROVE  Moves(r)
<1>0. TypeOK
  BY DEF SoloInv
<1>1. CASE Approve(q)
  <2>1. CASE r = q
    <3>1. Nowhere(r)
      BY <1>1, <2>1, PendingIsNowhere DEF Approve, Granted
    <3> QED BY <1>1, <2>1, <3>1 DEF Approve, Moves, Nowhere, AtApi, Unqueued, Unserved,
               Unswept, On
  <2>2. CASE r # q
    BY <1>1, <2>2 DEF Approve, Moves, Same, On
  <2> QED BY <2>1, <2>2
<1>2. CASE Reject(q)
  BY <1>2 DEF Reject, Moves, Same, On
<1>3. CASE Dispatch(q)
  <2>1. CASE r = q
    <3>1. AtApi(r) /\ status[r] # "PROCESSING"
      BY <1>3, <2>1, ReferenceAt, WaitingNotProcessing DEF Dispatch
    <3>2. queue'[r][0] = queue[r][0] + 1 /\ \A j \in Retries \ {0} : queue'[r][j] = queue[r][j]
      BY <1>0, <1>3, <2>1, PublishForms DEF Dispatch
    <3>3. InQueue(r, 0)'
      BY <1>3, <2>1, <3>1, <3>2 DEF Dispatch, AtApi, InQueue, Unqueued, Unserved, Unswept, On
    <3> QED BY <1>3, <3>1, <3>3 DEF Dispatch, Moves
  <2>2. CASE r # q
    BY <1>0, <1>3, <2>2, PublishForms DEF Dispatch, Moves, Same, On
  <2> QED BY <2>1, <2>2
<1>4. CASE DispatchFails(q)
  <2>1. CASE r = q
    <3>1. AtApi(r)
      BY <1>4, <2>1, ReferenceAt DEF DispatchFails
    <3> QED BY <1>4, <2>1, <3>1 DEF DispatchFails, Moves, Nowhere, AtApi, Unqueued, Unserved,
               Unswept, On
  <2>2. CASE r # q
    BY <1>4, <2>2 DEF DispatchFails, Moves, Same, On
  <2> QED BY <2>1, <2>2
<1> QED BY <1>1, <1>2, <1>3, <1>4 DEF Api

\* A worker that goes on stays where it is; one that leaves drops its refund.
LEMMA EnterMoves ==
  ASSUME TypeOK, NEW w \in Workers, NEW p, Enter(w, p),
         UNCHANGED <<undispatched, queue, todo>>, NEW r \in Refunds
  PROVE  Same(r)
BY EnterKeeps DEF Same

LEMMA LeaveMoves ==
  ASSUME SoloInv, NEW w \in Workers, Leave(w),
         UNCHANGED <<undispatched, queue, todo>>, NEW r \in Refunds
  PROVE  Same(r) \/ Nowhere(r)'
<1>0. TypeOK
  BY DEF SoloInv
<1>1. CASE On(w, r)
  <2>1. AtWorker(r, w)
    BY <1>1, ReferenceAt
  <2> QED BY <1>0, <2>1, LeaveDrops DEF AtWorker, Nowhere, Unqueued, Unserved, Unswept
<1>2. CASE ~On(w, r)
  BY <1>0, <1>2, LeaveDrops DEF Same
<1> QED BY <1>1, <1>2

LEMMA RetryMoves ==
  ASSUME SoloInv, NEW w \in Workers, Retry(w), NEW r \in Refunds
  PROVE  Moves(r)
<1>0. TypeOK /\ Leave(w) /\ task[w].phase = "retrying"
  BY DEF SoloInv, Retry
<1>1. CASE UNCHANGED queue
  BY <1>0, <1>1, LeaveMoves DEF Retry, Moves
<1>2. CASE ~UNCHANGED queue
  <2>1. PICK q, k : q = task[w].refund /\ k = task[w].retries + 1
    OBVIOUS
  <2>2. q \in Refunds /\ k \in Retries /\ Publish(q, k) /\ On(w, q)
    <3>1. q \in Refunds
      BY <1>0, <2>1 DEF SoloInv, ApprovalInv, BusyHasRefund
    <3>2. task[w].retries \in Retries /\ task[w].retries < MaxRetries
      BY <1>0, <1>2, TaskFields DEF Retry
    <3> QED BY <1>2, <2>1, <3>1, <3>2 DEF Retry, On
  <2>3. AtWorker(q, w) /\ status[q] # "PROCESSING"
    BY <1>0, <2>2, ReferenceAt, WaitingNotProcessing DEF Past
  <2>4. UNCHANGED <<status, stale, undispatched, todo>>
    BY DEF Retry
  <2>5. CASE r = q
    <3>1. queue'[q][k] = queue[q][k] + 1 /\ \A j \in Retries \ {k} : queue'[q][j] = queue[q][j]
      BY <1>0, <2>2, PublishForms
    <3>2. Unserved(q)'
      BY <1>0, <2>2, <2>3, LeaveDrops DEF AtWorker, Unserved
    <3>3. InQueue(q, k)'
      BY <2>2, <2>3, <2>4, <3>1, <3>2 DEF InQueue, AtWorker, Unqueued, Unswept
    <3> QED BY <2>2, <2>3, <2>4, <2>5, <3>3 DEF Moves
  <2>6. CASE r # q
    <3>1. queue'[r] = queue[r]
      BY <1>0, <2>2, <2>6, PublishForms
    <3>2. ~On(w, r)
      BY <2>1, <2>6 DEF On
    <3> QED BY <1>0, <2>4, <3>1, <3>2, LeaveDrops DEF Moves, Same
  <2> QED BY <2>5, <2>6
<1> QED BY <1>1, <1>2

LEMMA PaymentMovesOn ==
  ASSUME SoloInv, NEW w \in Workers, Payment(w), NEW r \in Refunds
  PROVE  Moves(r)
<1>0. TypeOK
  BY DEF SoloInv
<1>1. CASE Crash(w)
  <2>1. Leave(w) /\ UNCHANGED <<undispatched, queue>> /\ todo' = [todo EXCEPT ![w] = {}]
    BY <1>1 DEF Crash
  <2>2. CASE r \in todo[w]
    <3>1. InSweep(r, w)
      BY <2>2, ReferenceAt
    <3> QED BY <1>0, <2>1, <3>1, LeaveDrops
            DEF Moves, Nowhere, InSweep, Unqueued, Unserved, Unswept, TypeOK
  <2>3. CASE r \notin todo[w] /\ On(w, r)
    <3>1. AtWorker(r, w)
      BY <2>3, ReferenceAt
    <3> QED BY <1>0, <2>1, <3>1, LeaveDrops
            DEF Moves, Nowhere, AtWorker, Unqueued, Unserved, Unswept, TypeOK
  <2>4. CASE r \notin todo[w] /\ ~On(w, r)
    BY <1>0, <2>1, <2>4, LeaveDrops DEF Moves, Same, TypeOK
  <2> QED BY <2>2, <2>3, <2>4
<1>2. CASE Retry(w)
  BY <1>2, RetryMoves
<1>3. CASE Claim(w) \/ ClaimFails(w) \/ Pay(w) \/ Complete(w) \/ WorkFails(w) \/ Restore(w)
  <2>1. /\ UNCHANGED <<undispatched, queue, todo>>
        /\ Leave(w) \/ \E p : Enter(w, p)
    BY <1>3 DEF Claim, ClaimFails, Pay, Complete, WorkFails, Restore
  <2> QED BY <1>0, <2>1, EnterMoves, LeaveMoves DEF Moves
<1> QED BY <1>1, <1>2, <1>3 DEF Payment

LEMMA SweepMoves ==
  ASSUME SoloInv, NEW w \in Workers, Sweep(w), NEW r \in Refunds
  PROVE  Moves(r)
<1>0. TypeOK
  BY DEF SoloInv
<1>1. /\ UNCHANGED <<undispatched, queue>> /\ Enter(w, "requeueing")
      /\ todo' = [todo EXCEPT ![w] = Stalled]
  BY DEF Sweep
<1>2. todo[w] = {}
  BY DEF Sweep, SoloInv, SweepersSweep
<1>3. CASE r \in Stalled
  <2>1. Nowhere(r)
    BY <1>3 DEF Stalled, SoloInv, StaleIsLost
  <2>2. InSweep(r, w)'
    BY <1>0, <1>1, <1>3, <2>1, EnterKeeps
       DEF InSweep, Nowhere, Unqueued, Unserved, Unswept, TypeOK
  <2>3. status'[r] = "APPROVED"
    BY <1>3 DEF Sweep
  <2> QED BY <1>3, <2>2, <2>3 DEF Moves
<1>4. CASE r \notin Stalled
  BY <1>0, <1>1, <1>2, <1>4, EnterKeeps DEF Moves, Same, TypeOK
<1> QED BY <1>3, <1>4

LEMMA RequeueMoves ==
  ASSUME SoloInv, NEW w \in Workers, NEW q \in Refunds, Requeue(w, q), NEW r \in Refunds
  PROVE  Moves(r)
<1>0. TypeOK /\ q \in todo[w]
  BY DEF SoloInv, Requeue
<1>1. /\ todo' = [todo EXCEPT ![w] = @ \ {q}]
      /\ UNCHANGED <<status, stale, undispatched>>
  BY DEF Requeue
<1>2. InSweep(q, w) /\ status[q] # "PROCESSING" /\ task[w].phase = "requeueing"
  BY <1>0, ReferenceAt, WaitingNotProcessing DEF SoloInv, SweepersSweep
<1>3. task[w].refund \notin Refunds
  BY <1>2 DEF SoloInv, ApprovalInv, BusyHasRefund
<1>4. \A v \in Workers, x \in Refunds : On(v, x)' <=> On(v, x)
  <2>1. UNCHANGED task \/ Leave(w)
    BY DEF Requeue
  <2>2. \A x \in Refunds : ~On(w, x)
    BY <1>3 DEF On
  <2>3. CASE UNCHANGED task
    BY <2>3 DEF On
  <2>4. CASE Leave(w)
    BY <1>0, <2>2, <2>4, LeaveDrops
  <2> QED BY <2>1, <2>3, <2>4
<1>5. Publish(q, 0) \/ UNCHANGED queue
  BY DEF Requeue
<1>6. CASE r = q
  <2>1. r \notin undispatched' /\ Unserved(r)' /\ Unswept(r)'
    BY <1>0, <1>1, <1>2, <1>4, <1>6 DEF InSweep, Unserved, Unswept, TypeOK
  <2>2. CASE UNCHANGED queue
    BY <1>2, <1>6, <2>1, <2>2 DEF Moves, Nowhere, InSweep, Unqueued
  <2>3. CASE Publish(q, 0)
    <3>1. queue'[q][0] = queue[q][0] + 1 /\ \A j \in Retries \ {0} : queue'[q][j] = queue[q][j]
      BY <1>0, <2>3, PublishForms
    <3>2. InQueue(q, 0)'
      BY <1>2, <1>6, <2>1, <3>1 DEF InQueue, InSweep, Unqueued
    <3> QED BY <1>1, <1>2, <1>6, <3>2 DEF Moves
  <2> QED BY <1>5, <2>2, <2>3
<1>7. CASE r # q
  <2>1. queue'[r] = queue[r]
    BY <1>0, <1>5, <1>7, PublishForms
  <2> QED BY <1>0, <1>1, <1>4, <1>7, <2>1 DEF Moves, Same, TypeOK
<1> QED BY <1>6, <1>7

LEMMA DeliverMoves ==
  ASSUME SoloInv, NEW w \in Workers, NEW q \in Refunds, NEW k \in Retries,
         Deliver(w, q, k), NEW r \in Refunds
  PROVE  Moves(r)
<1>0. TypeOK /\ queue[q][k] > 0 /\ task[w].phase = "idle"
  BY DEF SoloInv, Deliver
<1>1. InQueue(q, k) /\ status[q] # "PROCESSING"
  BY <1>0, ReferenceAt, WaitingNotProcessing
<1>2. UNCHANGED <<status, stale, undispatched, todo>>
  BY DEF Deliver
<1>3. /\ \A v \in Workers \ {w} : task'[v] = task[v]
      /\ task'[w].refund = q
      /\ \A x \in Refunds : ~On(w, x)
  BY <1>0 DEF Deliver, TypeOK, On, SoloInv, ApprovalInv, BusyHasRefund
<1>4. /\ \A x \in Refunds \ {q} : queue'[x] = queue[x]
      /\ queue'[q][k] = queue[q][k] - 1
      /\ \A j \in Retries \ {k} : queue'[q][j] = queue[q][j]
  BY <1>0 DEF Deliver, TypeOK
<1>5. CASE r = q
  <2>1. AtWorker(q, w)'
    BY <1>1, <1>2, <1>3, <1>4 DEF AtWorker, InQueue, Unqueued, Unserved, Unswept, On
  <2> QED BY <1>1, <1>2, <1>5, <2>1 DEF Moves
<1>6. CASE r # q
  BY <1>2, <1>3, <1>4, <1>6 DEF Moves, Same, On
<1> QED BY <1>5, <1>6

LEMMA AllMoves ==
  ASSUME ~Redelivery, SoloInv, [Next]_vars, NEW r \in Refunds
  PROVE  Moves(r)
<1>1. CASE UNCHANGED vars
  BY <1>1 DEF vars, Moves, Same, On
<1>2. ASSUME NEW q \in Refunds, Age(q) PROVE Moves(r)
  BY <1>2 DEF Age, Moves, Same, On
<1>3. ASSUME NEW q \in Refunds, NEW k \in Retries, Redeliver(q, k) PROVE FALSE
  BY <1>3 DEF Redeliver
<1> QED BY <1>1, <1>2, <1>3, ApiMoves, PaymentMovesOn, SweepMoves, RequeueMoves, DeliverMoves
        DEF Next
-----------------------------------------------------------------------------
(* The invariant is kept                                                   *)

LEMMA ReferenceStep ==
  ASSUME ~Redelivery, SoloInv, [Next]_vars
  PROVE  OneReference'
<1> SUFFICES ASSUME NEW r \in Refunds
             PROVE  \/ Nowhere(r)' \/ AtApi(r)'
                    \/ \E k \in Retries : InQueue(r, k)'
                    \/ \E w \in Workers : AtWorker(r, w)' \/ InSweep(r, w)'
  BY DEF OneReference
<1>1. CASE Same(r)
  BY <1>1, SameReference DEF SoloInv, OneReference
<1>2. CASE ~Same(r)
  BY <1>2, AllMoves DEF Moves
<1> QED BY <1>1, <1>2

\* How the record of a worker changes: only by its own doing.
LEMMA WorkerSteps ==
  ASSUME SoloInv, [Next]_vars, NEW w \in Workers
  PROVE  \/ task'[w] = task[w]
         \/ Payment(w) \/ Sweep(w)
         \/ \E r \in Refunds : Requeue(w, r)
         \/ \E r \in Refunds, k \in Retries : Deliver(w, r, k)
<1>0. TypeOK
  BY DEF SoloInv
<1>1. ASSUME NEW v \in Workers \ {w}, Payment(v) \/ Sweep(v) PROVE task'[w] = task[w]
  <2>1. (\E p : Enter(v, p)) \/ Leave(v)
    BY <1>1 DEF Payment, Claim, ClaimFails, Pay, Complete, WorkFails, Restore, Retry,
                Crash, Sweep
  <2> QED BY <1>0, <2>1, EnterKeeps, LeaveDrops
<1>2. ASSUME NEW v \in Workers \ {w}, NEW r \in Refunds, Requeue(v, r)
      PROVE  task'[w] = task[w]
  BY <1>0, <1>2, LeaveDrops DEF Requeue
<1>3. ASSUME NEW v \in Workers \ {w}, NEW r \in Refunds, NEW k \in Retries, Deliver(v, r, k)
      PROVE  task'[w] = task[w]
  BY <1>0, <1>3 DEF Deliver, TypeOK
<1>4. ASSUME NEW r \in Refunds, Api(r) \/ Age(r) PROVE task'[w] = task[w]
  BY <1>4 DEF Api, Approve, Reject, Dispatch, DispatchFails, Age
<1>5. ASSUME NEW r \in Refunds, NEW k \in Retries, Redeliver(r, k) PROVE task'[w] = task[w]
  BY <1>5 DEF Redeliver
<1> QED BY <1>1, <1>2, <1>3, <1>4, <1>5 DEF Next, vars

\* Where a worker that has r stands next.
LEMMA OnSteps ==
  ASSUME SoloInv, [Next]_vars, NEW w \in Workers, NEW r \in Refunds, On(w, r)'
  PROVE  \/ task'[w] = task[w]
         \/ On(w, r) /\ Payment(w) /\ ~Leave(w)
         \/ \E k \in Retries : Deliver(w, r, k) /\ task'[w].phase = "claiming"
<1>0. TypeOK /\ r # NoRefund
  BY DEF SoloInv
<1>1. ASSUME NEW p, Enter(w, p) PROVE On(w, r)
  BY <1>0, <1>1, EnterKeeps
<1>2. ~Leave(w)
  BY <1>0, LeaveDrops
<1>3. Payment(w) => \E p : Enter(w, p)
  BY <1>2 DEF Payment, Claim, ClaimFails, Pay, Complete, WorkFails, Restore, Retry, Crash
<1>4. ASSUME Sweep(w) PROVE FALSE
  <2>1. On(w, r) /\ task[w].phase = "idle"
    BY <1>1, <1>4 DEF Sweep
  <2> QED BY <2>1 DEF SoloInv, ApprovalInv, BusyHasRefund, On
<1>5. ASSUME NEW q \in Refunds, Requeue(w, q) PROVE task'[w] = task[w]
  BY <1>2, <1>5 DEF Requeue
<1>6. ASSUME NEW q \in Refunds, NEW k \in Retries, Deliver(w, q, k)
      PROVE  q = r /\ task'[w].phase = "claiming"
  BY <1>0, <1>6 DEF Deliver, TypeOK, On
<1> QED BY <1>1, <1>2, <1>3, <1>4, <1>5, <1>6, WorkerSteps

\* Who takes a refund out of PROCESSING.
LEMMA ProcessingEnds ==
  ASSUME SoloInv, [Next]_vars, NEW r \in Refunds,
         status[r] = "PROCESSING", status'[r] # "PROCESSING"
  PROVE  \/ stale[r]
         \/ \E w \in Workers : On(w, r) /\ (Restore(w) \/ Complete(w) \/ WorkFails(w))
<1> USE DEF TypeOK, SetStatus
<1>0. TypeOK
  BY DEF SoloInv
<1>1. ASSUME NEW q \in Refunds, Api(q) \/ Age(q) PROVE FALSE
  BY <1>0, <1>1 DEF Api, Approve, Reject, Dispatch, DispatchFails, Age
<1>2. ASSUME NEW w \in Workers, Payment(w)
      PROVE  On(w, r) /\ (Restore(w) \/ Complete(w) \/ WorkFails(w))
  BY <1>0, <1>2 DEF Payment, Claim, ClaimFails, Pay, Complete, WorkFails, Restore, Retry,
                    Crash, On
<1>3. ASSUME NEW w \in Workers, Sweep(w) PROVE stale[r]
  BY <1>0, <1>3 DEF Sweep, Stalled
<1>4. ~(\/ UNCHANGED vars
        \/ \E q \in Refunds, k \in Retries : Redeliver(q, k)
        \/ \E w \in Workers, q \in Refunds : Requeue(w, q)
        \/ \E w \in Workers, q \in Refunds, k \in Retries : Deliver(w, q, k))
  BY DEF vars, Redeliver, Requeue, Deliver
<1> QED BY <1>1, <1>2, <1>3, <1>4 DEF Next

\* Who takes a refund into PROCESSING.
LEMMA ProcessingBegins ==
  ASSUME SoloInv, [Next]_vars, NEW r \in Refunds,
         status[r] # "PROCESSING", status'[r] = "PROCESSING"
  PROVE  \E w \in Workers : /\ On(w, r) /\ (Claim(w) \/ ClaimFails(w))
                            /\ On(w, r)' /\ Past(w)'
<1> USE DEF TypeOK, SetStatus
<1>0. TypeOK
  BY DEF SoloInv
<1>1. ASSUME NEW q \in Refunds, Api(q) \/ Age(q) PROVE FALSE
  BY <1>0, <1>1 DEF Api, Approve, Reject, Dispatch, DispatchFails, Age
<1>2. ASSUME NEW w \in Workers, Payment(w)
      PROVE  /\ On(w, r) /\ (Claim(w) \/ ClaimFails(w))
             /\ Enter(w, "paying") \/ Enter(w, "failed")
  <2>1. On(w, r) /\ (Claim(w) \/ ClaimFails(w))
    BY <1>0, <1>2 DEF Payment, Claim, ClaimFails, Pay, Complete, WorkFails, Restore, Retry,
                      Crash, On
  <2>2. Enter(w, "paying") \/ Enter(w, "failed")
    BY <1>0, <2>1 DEF Claim, ClaimFails
  <2> QED BY <2>1, <2>2
<1>3. ASSUME NEW w \in Workers, Sweep(w) PROVE FALSE
  BY <1>0, <1>3 DEF Sweep, Stalled
<1>4. ~(\/ UNCHANGED vars
        \/ \E q \in Refunds, k \in Retries : Redeliver(q, k)
        \/ \E w \in Workers, q \in Refunds : Requeue(w, q)
        \/ \E w \in Workers, q \in Refunds, k \in Retries : Deliver(w, q, k))
  BY DEF vars, Redeliver, Requeue, Deliver
<1>5. PICK w \in Workers : /\ On(w, r) /\ (Claim(w) \/ ClaimFails(w))
                           /\ Enter(w, "paying") \/ Enter(w, "failed")
  BY <1>1, <1>2, <1>3, <1>4 DEF Next
<1> QED BY <1>0, <1>5, EnterKeeps DEF Past

LEMMA ClaimedStep ==
  ASSUME ~Redelivery, SoloInv, [Next]_vars
  PROVE  ClaimedOrLost'
<1> SUFFICES ASSUME NEW r \in Refunds, status'[r] = "PROCESSING", ~Nowhere(r)'
             PROVE  \E w \in Workers : AtWorker(r, w)' /\ Past(w)'
  BY DEF ClaimedOrLost
<1>0. TypeOK
  BY DEF SoloInv
<1>1. CASE status[r] = "PROCESSING"
  <2>1. Same(r)
    BY <1>1, AllMoves DEF Moves
  <2>2. PICK w \in Workers : AtWorker(r, w) /\ Past(w)
    BY <1>1, <2>1, SameReference DEF SoloInv, ClaimedOrLost
  <2>3. AtWorker(r, w)' /\ On(w, r) /\ On(w, r)'
    BY <2>1, <2>2, SameReference DEF AtWorker, Same
  <2>4. Past(w)'
    <3>1. CASE task'[w] = task[w]
      BY <2>2, <3>1 DEF Past
    <3>2. CASE Payment(w) /\ ~Leave(w)
      <4>1. ~Restore(w)
        BY <1>0, <1>1, <2>3 DEF Restore, SetStatus, On, TypeOK
      <4>2. Enter(w, "completing") \/ Enter(w, "failed")
        BY <2>2, <3>2, <4>1 DEF Payment, Past, Claim, ClaimFails, Pay, Complete, WorkFails,
                                Retry, Crash
      <4> QED BY <1>0, <4>2, EnterKeeps DEF Past
    <3>3. ~\E k \in Retries : Deliver(w, r, k)
      BY <2>2 DEF Deliver, Past
    <3> QED BY <2>3, <3>1, <3>2, <3>3, OnSteps
  <2> QED BY <2>3, <2>4
<1>2. CASE status[r] # "PROCESSING"
  <2>1. PICK w \in Workers : On(w, r) /\ On(w, r)' /\ Past(w)'
    BY <1>2, ProcessingBegins
  <2>2. AtWorker(r, w)
    BY <2>1, ReferenceAt
  <2>3. CASE Same(r)
    BY <2>1, <2>2, <2>3, SameReference
  <2>4. CASE ~Same(r)
    <3>1. status[r] = "PENDING" => Nowhere(r)
      BY PendingIsNowhere DEF Granted
    <3>2. ~Nowhere(r)
      BY <2>1 DEF Nowhere, Unserved
    <3> QED BY <1>2, <2>4, <3>1, <3>2, AllMoves DEF Moves
  <2> QED BY <2>3, <2>4
<1> QED BY <1>1, <1>2

LEMMA ClaimsStep ==
  ASSUME SoloInv, [Next]_vars
  PROVE  PayersHaveClaims'
<1> SUFFICES ASSUME NEW w \in Workers, NEW r \in Refunds, On(w, r)',
                    task'[w].phase \in {"paying", "completing"}
             PROVE  status'[r] = "PROCESSING"
  BY DEF PayersHaveClaims
<1>0. TypeOK
  BY DEF SoloInv
<1>1. CASE task'[w] = task[w]
  <2>1. On(w, r) /\ status[r] = "PROCESSING"
    BY <1>1 DEF On, SoloInv, PayersHaveClaims
  <2>2. ~stale[r]
    BY <2>1 DEF SoloInv, StaleIsLost, Nowhere, Unserved
  <2>3. \A v \in Workers : On(v, r) => v = w
    BY <2>1, ReferenceAt DEF AtWorker
  <2>4. ~(Restore(w) \/ Complete(w) \/ WorkFails(w))
    <3>1. ~Leave(w) /\ ~Enter(w, "failed") /\ ~Enter(w, "retrying")
      <4>1. ~Leave(w)
        BY <1>0, LeaveDrops
      <4>2. ASSUME Enter(w, "failed") \/ Enter(w, "retrying") PROVE FALSE
        BY <1>0, <4>2, EnterKeeps
      <4> QED BY <4>1, <4>2
    <3> QED BY <3>1 DEF Restore, Complete, WorkFails
  <2> QED BY <2>1, <2>2, <2>3, <2>4, ProcessingEnds
<1>2. CASE On(w, r) /\ Payment(w) /\ ~Leave(w)
  <2>1. ~(Enter(w, "failed") \/ Enter(w, "retrying") \/ Enter(w, "unclaimed"))
    <3>1. ASSUME NEW p, Enter(w, p) PROVE task'[w].phase = p
      BY <1>0, <3>1, EnterKeeps
    <3> QED BY <3>1
  <2>2. Claim(w) \/ Pay(w)
    BY <1>2, <2>1 DEF Payment, ClaimFails, Complete, WorkFails, Restore, Retry, Crash
  <2>3. CASE Claim(w)
    BY <1>0, <1>2, <2>3 DEF Claim, SetStatus, On, TypeOK
  <2>4. CASE Pay(w)
    BY <1>2, <2>4 DEF Pay, SoloInv, PayersHaveClaims
  <2> QED BY <2>2, <2>3, <2>4
<1>3. CASE \E k \in Retries : Deliver(w, r, k) /\ task'[w].phase = "claiming"
  BY <1>3
<1> QED BY <1>1, <1>2, <1>3, OnSteps

LEMMA StaleStep ==
  ASSUME HardTimeLimit, ~Redelivery, SoloInv, [Next]_vars
  PROVE  StaleIsLost'
<1> SUFFICES ASSUME NEW r \in Refunds, stale'[r]
             PROVE  status'[r] = "PROCESSING" /\ Nowhere(r)'
  BY DEF StaleIsLost
<1>0. TypeOK
  BY DEF SoloInv
<1>1. (stale[r] /\ status'[r] = status[r]) \/ Age(r)
  <2> USE DEF TypeOK, SetStatus
  <2>1. ASSUME NEW q \in Refunds, Api(q) \/ Age(q) PROVE <1>1!:
    BY <1>0, <2>1 DEF Api, Approve, Reject, Dispatch, DispatchFails, Age
  <2>2. ASSUME NEW w \in Workers, Payment(w) PROVE <1>1!:
    BY <1>0, <2>2 DEF Payment, Claim, ClaimFails, Pay, Complete, WorkFails, Restore, Retry,
                      Crash
  <2>3. ASSUME NEW w \in Workers, Sweep(w) PROVE <1>1!:
    BY <1>0, <2>3 DEF Sweep, Stalled
  <2>4. CASE \/ UNCHANGED vars
             \/ \E q \in Refunds, k \in Retries : Redeliver(q, k)
             \/ \E w \in Workers, q \in Refunds : Requeue(w, q)
             \/ \E w \in Workers, q \in Refunds, k \in Retries : Deliver(w, q, k)
    BY <2>4 DEF vars, Redeliver, Requeue, Deliver
  <2> QED BY <2>1, <2>2, <2>3, <2>4 DEF Next
<1>2. CASE stale[r] /\ status'[r] = status[r]
  <2>1. status[r] = "PROCESSING" /\ Nowhere(r)
    BY <1>2 DEF SoloInv, StaleIsLost
  <2> QED BY <1>2, <2>1, AllMoves, SameReference DEF Moves
<1>3. CASE Age(r)
  <2>1. status[r] = "PROCESSING" /\ Nowhere(r)
    BY <1>3 DEF Age, SoloInv, ClaimedOrLost, AtWorker
  <2>2. Same(r) /\ status' = status
    BY <1>3 DEF Age, Same, On
  <2> QED BY <2>1, <2>2, SameReference
<1> QED BY <1>1, <1>2, <1>3

LEMMA SweepersStep ==
  ASSUME SoloInv, [Next]_vars
  PROVE  SweepersSweep'
<1> SUFFICES ASSUME NEW w \in Workers, todo'[w] # {}
             PROVE  task'[w].phase = "requeueing"
  BY DEF SweepersSweep
<1>0. TypeOK /\ (todo[w] # {} => task[w].phase = "requeueing")
  BY DEF SoloInv, SweepersSweep
<1>1. ASSUME NEW v \in Workers, Sweep(v) PROVE v = w \/ todo'[w] = todo[w]
  BY <1>0, <1>1 DEF Sweep, TypeOK
<1>2. CASE Sweep(w)
  BY <1>0, <1>2, EnterKeeps DEF Sweep
<1>3. CASE Payment(w)
  <2>1. todo'[w] = todo[w] /\ todo[w] = {}
    BY <1>0, <1>3 DEF Payment, Claim, ClaimFails, Pay, Complete, WorkFails, Restore, Retry,
                      Crash, TypeOK
  <2> QED BY <2>1
<1>4. ASSUME NEW r \in Refunds, Requeue(w, r) PROVE task'[w].phase = "requeueing"
  BY <1>0, <1>4 DEF Requeue, TypeOK
<1>5. ASSUME NEW r \in Refunds, NEW k \in Retries, Deliver(w, r, k) PROVE FALSE
  BY <1>0, <1>5 DEF Deliver
<1>6. ASSUME NEW v \in Workers \ {w}, \/ Payment(v) \/ Sweep(v)
                                     \/ \E r \in Refunds : Requeue(v, r)
      PROVE  todo'[w] = todo[w]
  BY <1>0, <1>6 DEF Payment, Claim, ClaimFails, Pay, Complete, WorkFails, Restore, Retry,
                    Crash, Sweep, Requeue, TypeOK
<1>7. CASE \/ UNCHANGED vars
           \/ \E r \in Refunds : Api(r) \/ Age(r)
           \/ \E r \in Refunds, k \in Retries : Redeliver(r, k)
           \/ \E v \in Workers, r \in Refunds, k \in Retries : Deliver(v, r, k)
  <2>1. UNCHANGED todo
    BY <1>7 DEF vars, Api, Approve, Reject, Dispatch, DispatchFails, Age, Redeliver, Deliver
  <2> QED BY <1>0, <1>5, <2>1, <1>2, <1>3, <1>4, WorkerSteps
<1>8. ASSUME todo'[w] = todo[w] PROVE task'[w].phase = "requeueing"
  BY <1>0, <1>2, <1>3, <1>4, <1>5, <1>8, WorkerSteps
<1> QED BY <1>2, <1>3, <1>4, <1>6, <1>7, <1>8 DEF Next

\* Who pays twice has failed in between.
LEMMA FaultsStep ==
  ASSUME SoloInv, [Next]_vars
  PROVE  FaultsPay'
<1> SUFFICES ASSUME NEW r \in Refunds
             PROVE  \/ payments'[r] <= faults'
                    \/ /\ payments'[r] <= 1 + faults'
                       /\ \/ status'[r] = "COMPLETED"
                          \/ \E w \in Workers : On(w, r)' /\ task'[w].phase = "completing"
  BY DEF FaultsPay
<1>0. TypeOK /\ payments[r] \in Nat /\ faults \in Nat
  BY DEF SoloInv, TypeOK
<1>1. faults' = faults \/ faults' = faults + 1
  BY DEF Next, vars, Api, Approve, Reject, Dispatch, DispatchFails, Age, Redeliver,
         Payment, Claim, ClaimFails, Pay, Complete, WorkFails, Restore, Retry, Crash,
         Sweep, Requeue, Deliver, Fault
<1>2. ASSUME NEW w \in Workers, Pay(w), On(w, r)
      PROVE  /\ payments'[r] <= 1 + faults'
             /\ On(w, r)' /\ task'[w].phase = "completing"
  <2>1. task[w].phase = "paying" /\ Enter(w, "completing") /\ faults' = faults
    BY <1>2 DEF Pay
  <2>2. status[r] # "COMPLETED"
    BY <1>2, <2>1 DEF SoloInv, PayersHaveClaims
  <2>3. \A v \in Workers : On(v, r) => task[v].phase = "paying"
    BY <1>2, <2>1, ReferenceAt DEF AtWorker
  <2>4. payments[r] <= faults
    BY <2>2, <2>3 DEF SoloInv, FaultsPay
  <2>5. payments'[r] = payments[r] + 1
    BY <1>0, <1>2 DEF Pay, On, TypeOK
  <2> QED BY <1>0, <1>2, <2>1, <2>4, <2>5, EnterKeeps
<1>3. ASSUME NEW w \in Workers, Pay(w), ~On(w, r) PROVE payments'[r] = payments[r]
  BY <1>0, <1>3 DEF Pay, On, TypeOK
<1>4. CASE payments'[r] = payments[r]
  <2>1. CASE payments[r] <= faults
    BY <1>0, <1>1, <1>4, <2>1
  <2>2. CASE payments[r] <= 1 + faults /\ status[r] = "COMPLETED"
    <3>1. status'[r] = "COMPLETED"
      BY <1>0, <2>2, StatusMoves
    <3> QED BY <1>0, <1>1, <1>4, <2>2, <3>1
  <2>3. ASSUME payments[r] <= 1 + faults, NEW w \in Workers, On(w, r),
               task[w].phase = "completing"
        PROVE  \/ task'[w] = task[w] \/ status'[r] = "COMPLETED"
               \/ faults' = faults + 1
    <3>1. status[r] = "PROCESSING" /\ r = task[w].refund
      BY <2>3 DEF SoloInv, PayersHaveClaims, On
    <3>2. ~Sweep(w) /\ \A q \in Refunds, k \in Retries : ~Deliver(w, q, k)
      BY <2>3 DEF Sweep, Deliver
    <3>3. \A q \in Refunds : ~Requeue(w, q)
      BY <2>3 DEF Requeue, SoloInv, SweepersSweep
    <3>4. CASE Payment(w)
      <4>1. Complete(w) \/ WorkFails(w) \/ Crash(w)
        BY <2>3, <3>4 DEF Payment, Claim, ClaimFails, Pay, Restore, Retry
      <4>2. Complete(w) => status'[r] = "COMPLETED"
        BY <1>0, <3>1 DEF Complete, SetStatus, TypeOK
      <4>3. WorkFails(w) \/ Crash(w) => faults' = faults + 1
        BY DEF WorkFails, Crash, Fault
      <4> QED BY <4>1, <4>2, <4>3
    <3> QED BY <3>2, <3>3, <3>4, WorkerSteps
  <2>4. ASSUME payments[r] <= 1 + faults, NEW w \in Workers, On(w, r),
               task[w].phase = "completing"
        PROVE  \/ payments'[r] <= faults'
               \/ /\ payments'[r] <= 1 + faults'
                  /\ \/ status'[r] = "COMPLETED"
                     \/ On(w, r)' /\ task'[w].phase = "completing"
    <3>1. task'[w] = task[w] => On(w, r)' /\ task'[w].phase = "completing"
      BY <2>4 DEF On
    <3> QED BY <1>0, <1>1, <1>4, <2>3, <2>4, <3>1
  <2> QED BY <2>1, <2>2, <2>4 DEF SoloInv, FaultsPay
<1> QED BY <1>0, <1>2, <1>3, <1>4, PaymentMoves

LEMMA SoloInvariant ==
  ASSUME HardTimeLimit, ~Redelivery
  PROVE  Spec => []SoloInv
<1>1. Init => SoloInv
  <2>1. Init => ApprovalInv
    BY InitApproval
  <2>2. Init => OneReference /\ ClaimedOrLost /\ PayersHaveClaims /\ StaleIsLost
    BY DEF Init, OneReference, ClaimedOrLost, PayersHaveClaims, StaleIsLost, Nowhere,
           Unqueued, Unserved, Unswept, On, Idle
  <2>3. Init => SweepersSweep /\ FaultsPay
    BY DEF Init, SweepersSweep, FaultsPay
  <2> QED BY <2>1, <2>2, <2>3 DEF SoloInv, ApprovalInv
<1>2. SoloInv /\ ApprovalInv' /\ [Next]_vars => SoloInv'
  BY ReferenceStep, ClaimedStep, ClaimsStep, StaleStep, SweepersStep, FaultsStep
     DEF SoloInv, ApprovalInv
<1> QED BY <1>1, <1>2, ApprovalHolds, PTL DEF Spec

-----------------------------------------------------------------------------
(* The theorems                                                            *)

\* With one delivery per message and an enforced hard time limit, a refund has
\* one payer at a time, whoever crashes and whenever the sweep runs.
THEOREM OnePayer ==
  ASSUME HardTimeLimit, ~Redelivery
  PROVE  Spec => []SinglePayer
<1>1. SoloInv => SinglePayer
  BY ReferenceAt DEF SinglePayer, AtWorker
<1> QED BY <1>1, SoloInvariant, PTL

\* And every payment after the first was made because of a fault.
THEOREM RepaidForFaults ==
  ASSUME HardTimeLimit, ~Redelivery
  PROVE  Spec => []RepaymentNeedsFault
<1>1. SoloInv => RepaymentNeedsFault
  <2> SUFFICES ASSUME SoloInv, NEW r \in Refunds PROVE payments[r] <= 1 + faults
    BY DEF RepaymentNeedsFault
  <2>1. payments[r] \in Nat /\ faults \in Nat
    BY DEF SoloInv, TypeOK
  <2> QED BY <2>1 DEF SoloInv, FaultsPay
<1> QED BY <1>1, SoloInvariant, PTL
=============================================================================
