-------------------------- MODULE AdminReviewProofs --------------------------
(***************************************************************************)
(* Theorems about AdminReview for any number of refunds, audit rows,       *)
(* admins and transactions of the payment side.                            *)
(***************************************************************************)
EXTENDS AdminReview, TLAPS

USE ReviewAssumption DEF ReviewAssumption

-----------------------------------------------------------------------------
(* Type correctness                                                        *)

LEMMA RowHasRefund == \A row \in Rows : Refund(row) \in Refunds
BY DEF Rows, Refund

\* What a request that is not idle consists of.
LEMMA RequestFields ==
  ASSUME TypeOK, NEW a \in Admins, request[a].phase # "idle"
  PROVE  /\ request[a] \in [phase : Phase \ {"idle"}, row : Rows, verdict : Verdicts]
         /\ request[a].row \in Rows
         /\ Refund(request[a].row) \in Refunds
         /\ request[a].verdict \in Verdicts
BY RowHasRefund DEF TypeOK, Request, Idle

LEMMA RequestUpdates ==
  ASSUME TypeOK, NEW a \in Admins
  PROVE  /\ Answer(a) => request' \in [Admins -> Request]
         /\ request[a].phase # "idle" =>
              \A p \in Phase \ {"idle"} : Enter(a, p) => request' \in [Admins -> Request]
<1>1. Answer(a) => request' \in [Admins -> Request]
  BY DEF TypeOK, Answer, Request
<1>2. ASSUME request[a].phase # "idle", NEW p \in Phase \ {"idle"}, Enter(a, p)
      PROVE  request' \in [Admins -> Request]
  <2>1. [request[a] EXCEPT !.phase = p] \in Request
    BY <1>2, RequestFields DEF Request
  <2> QED BY <1>2, <2>1 DEF TypeOK, Enter
<1> QED BY <1>1, <1>2

LEMMA LockUpdates ==
  ASSUME TypeOK, NEW p \in Admins \cup Workers
  PROVE  /\ Unlock(p) => lock' \in [Refunds \cup Rows -> Admins \cup Workers \cup {Nobody}]
         /\ \A x : Take(x, p) =>
              lock' \in [Refunds \cup Rows -> Admins \cup Workers \cup {Nobody}]
BY DEF TypeOK, Unlock, Take

\* The endings a request and a transaction share keep every variable's type.
LEMMA AbortType ==
  /\ \A a \in Admins : TypeOK /\ Abort(a) => TypeOK'
  /\ \A w \in Workers : TypeOK /\ AbortRestore(w) => TypeOK'
<1>1. ASSUME NEW a \in Admins, TypeOK, Abort(a) PROVE TypeOK'
  BY <1>1, RequestUpdates, LockUpdates DEF Abort, TypeOK
<1>2. ASSUME NEW w \in Workers, TypeOK, AbortRestore(w) PROVE TypeOK'
  BY <1>2, LockUpdates DEF AbortRestore, TypeOK, NoTxn
<1> QED BY <1>1, <1>2

\* The variables keep their types.
THEOREM TypeCorrect == Spec => []TypeOK
<1>1. Init => TypeOK
  BY DEF Init, TypeOK, Actions, RefundStatus, Request, NoTxn
<1>2. TypeOK /\ [Next]_vars => TypeOK'
  <2> SUFFICES ASSUME TypeOK, [Next]_vars PROVE TypeOK'
    OBVIOUS
  <2>1. ASSUME NEW row \in Rows, RecordToolCall(row) PROVE TypeOK'
    BY <2>1 DEF RecordToolCall, TypeOK, Actions
  <2>2. ASSUME NEW a \in Admins, NEW row \in Rows, NEW v \in Verdicts, Open(a, row, v)
        PROVE  TypeOK'
    <3>1. [phase |-> "audit", row |-> row, verdict |-> v] \in Request
      BY DEF Request, Phase
    <3> QED BY <2>2, <3>1 DEF Open, TypeOK
  <2>3. ASSUME NEW a \in Admins, Admin(a) PROVE TypeOK'
    <3>1. CASE LockAudit(a)
      BY <3>1, RequestUpdates, LockUpdates DEF LockAudit, TypeOK, Phase
    <3>2. CASE LockRefund(a)
      BY <3>2, RequestUpdates, LockUpdates DEF LockRefund, TypeOK, Phase
    <3>3. CASE Decide(a)
      <4>1. request[a].verdict \in Actions
        BY <3>3, RequestFields DEF Decide, Actions, Verdicts
      <4> QED BY <3>3, <4>1, RequestUpdates, LockUpdates
              DEF Decide, TypeOK, Phase, RefundStatus
    <3>4. CASE Abort(a)
      BY <3>4, AbortType
    <3>5. CASE Dispatch(a)
      BY <3>5, RequestUpdates DEF Dispatch, TypeOK
    <3> QED BY <2>3, <3>1, <3>2, <3>3, <3>4, <3>5 DEF Admin
  <2>4. ASSUME NEW r \in Refunds, Claim(r) \/ Complete(r) PROVE TypeOK'
    BY <2>4 DEF Claim, Complete, TypeOK, RefundStatus
  <2>5. ASSUME NEW w \in Workers, Worker(w) PROVE TypeOK'
    <3>1. CASE BeginRestore(w)
      BY <3>1 DEF BeginRestore, TypeOK
    <3>2. CASE CommitRestore(w)
      BY <3>2, LockUpdates DEF CommitRestore, TypeOK, NoTxn, RefundStatus
    <3>3. CASE AbortRestore(w)
      BY <3>3, AbortType
    <3>4. ASSUME NEW row \in Rows, LockMetadata(w, row) PROVE TypeOK'
      BY <3>4, LockUpdates DEF LockMetadata, TypeOK
    <3> QED BY <2>5, <3>1, <3>2, <3>3, <3>4 DEF Worker
  <2>6. ASSUME NEW a \in Admins, NEW w \in Workers, BreakDeadlock(a, w) PROVE TypeOK'
    BY <2>6, AbortType DEF BreakDeadlock
  <2>7. CASE UNCHANGED vars
    BY <2>7 DEF vars, TypeOK
  <2> QED BY <2>1, <2>2, <2>3, <2>4, <2>5, <2>6, <2>7 DEF Next
<1> QED BY <1>1, <1>2, PTL DEF Spec

-----------------------------------------------------------------------------
(* The locks guard what they were taken for                                *)

\* A request that is past a lock still has it, and what it read under the lock
\* is still so; likewise for the refunds of a transaction of the payment side.
Locks ==
  /\ \A a \in Admins : request[a].phase \in {"refund", "deciding"} =>
       /\ lock[request[a].row] = a
       /\ action[request[a].row] = "PENDING"
  /\ \A a \in Admins : request[a].phase = "deciding" =>
       /\ lock[Refund(request[a].row)] = a
       /\ status[Refund(request[a].row)] = "PENDING"
  /\ \A w \in Workers : \A r \in txn[w].refunds :
       lock[r] = w /\ status[r] = "PROCESSING"

LEMMA AbortLocks ==
  /\ \A a \in Admins : TypeOK /\ Locks /\ Abort(a) => Locks'
  /\ \A w \in Workers : TypeOK /\ Locks /\ AbortRestore(w) => Locks'
<1>1. ASSUME NEW a \in Admins, TypeOK, Locks, Abort(a) PROVE Locks'
  BY <1>1, RequestFields DEF Abort, Answer, Unlock, Idle, Locks, TypeOK
<1>2. ASSUME NEW w \in Workers, TypeOK, Locks, AbortRestore(w) PROVE Locks'
  BY <1>2, RequestFields DEF AbortRestore, Unlock, NoTxn, Locks, TypeOK
<1> QED BY <1>1, <1>2

\* Every step keeps the locks and what they guard.
LEMMA LocksStep == TypeOK /\ Locks /\ [Next]_vars => Locks'
<1> SUFFICES ASSUME TypeOK, Locks, [Next]_vars PROVE Locks'
  OBVIOUS
<1>1. ASSUME NEW row \in Rows, RecordToolCall(row) PROVE Locks'
  BY <1>1, RequestFields DEF RecordToolCall, Locks, TypeOK
<1>2. ASSUME NEW a \in Admins, NEW row \in Rows, NEW v \in Verdicts, Open(a, row, v)
      PROVE  Locks'
  BY <1>2 DEF Open, Locks, TypeOK
<1>3. ASSUME NEW a \in Admins, Admin(a) PROVE Locks'
  <2>1. CASE LockAudit(a)
    BY <2>1, RequestFields, SMTT(30) DEF LockAudit, Free, Take, Enter, Answer, Idle, Locks, TypeOK
  <2>2. CASE LockRefund(a)
    BY <2>2, RequestFields, SMTT(30)
       DEF LockRefund, Free, Take, Enter, Answer, Unlock, Idle, Locks, TypeOK
  <2>3. CASE Decide(a)
    BY <2>3, RequestFields, SMTT(30) DEF Decide, Enter, Answer, Unlock, Idle, Locks, TypeOK
  <2>4. CASE Abort(a)
    BY <2>4, AbortLocks
  <2>5. CASE Dispatch(a)
    BY <2>5, RequestFields DEF Dispatch, Answer, Idle, Locks, TypeOK
  <2> QED BY <1>3, <2>1, <2>2, <2>3, <2>4, <2>5 DEF Admin
<1>4. ASSUME NEW r \in Refunds, Claim(r) \/ Complete(r) PROVE Locks'
  BY <1>4, RequestFields DEF Claim, Complete, Free, Locks, TypeOK
<1>5. ASSUME NEW w \in Workers, Worker(w) PROVE Locks'
  <2>1. CASE BeginRestore(w)
    BY <2>1, RequestFields DEF BeginRestore, Free, NoTxn, Locks, TypeOK
  <2>2. CASE CommitRestore(w)
    BY <2>2, RequestFields DEF CommitRestore, Unlock, NoTxn, Locks, TypeOK
  <2>3. CASE AbortRestore(w)
    BY <2>3, AbortLocks
  <2>4. ASSUME NEW row \in Rows, LockMetadata(w, row) PROVE Locks'
    BY <2>4, RequestFields DEF LockMetadata, Free, Take, Locks, TypeOK
  <2> QED BY <1>5, <2>1, <2>2, <2>3, <2>4 DEF Worker
<1>6. ASSUME NEW a \in Admins, NEW w \in Workers, BreakDeadlock(a, w) PROVE Locks'
  BY <1>6, AbortLocks DEF BreakDeadlock
<1>7. CASE UNCHANGED vars
  BY <1>7 DEF vars, Locks
<1> QED BY <1>1, <1>2, <1>3, <1>4, <1>5, <1>6, <1>7 DEF Next

-----------------------------------------------------------------------------
(* One decision stands                                                     *)

\* A decided row carries its verdict; an approval not yet dispatched is known by
\* its one reviewer, who has dispatched nothing.
Decisions ==
  /\ \A row \in Rows : reviewer[row] # Nobody => action[row] \in Verdicts
  /\ \A a \in Admins : request[a].phase = "dispatching" =>
       /\ reviewer[request[a].row] = a
       /\ action[request[a].row] = "APPROVE"
       /\ dispatched[Refund(request[a].row)] = 0
  /\ OneDecisionStands

\* The decisions stay as they are in a step that writes none of them, leaves
\* granted refunds granted, and starts no dispatch.
LEMMA DecisionsKept ==
  ASSUME TypeOK, Decisions, TypeOK',
         UNCHANGED <<reviewer, dispatched>>,
         \A row \in Rows : reviewer[row] # Nobody \/ action[row] # "ABSENT" =>
           action'[row] = action[row],
         \A r \in Refunds : \/ status'[r] = status[r]
                            \/ status[r] \in Granted /\ status'[r] \in Granted,
         \A a \in Admins : request'[a].phase = "dispatching" => request'[a] = request[a]
  PROVE  Decisions'
<1>1. \A r \in Refunds : Decided(r)' = Decided(r)
  BY DEF Decided
<1>2. \A a \in Admins : request'[a].phase = "dispatching" =>
        request'[a].row \in Rows /\ request'[a] = request[a]
  BY RequestFields
<1>3. OneDecisionStands'
  BY <1>1 DEF Decisions, OneDecisionStands, Decided, Granted, Verdicts
<1> QED BY <1>2, <1>3 DEF Decisions, Verdicts

\* No request begins to dispatch but by a decision.
LEMMA OthersDispatch ==
  ASSUME TypeOK, NEW a \in Admins,
         Answer(a) \/ \E p \in Phase \ {"dispatching"} : Enter(a, p)
  PROVE  \A b \in Admins : request'[b].phase = "dispatching" => request'[b] = request[b]
<1>1. CASE Answer(a)
  BY <1>1 DEF Answer, Idle, TypeOK
<1>2. ASSUME NEW p \in Phase \ {"dispatching"}, Enter(a, p)
      PROVE  \A b \in Admins : request'[b].phase = "dispatching" => request'[b] = request[b]
  <2>1. \A b \in Admins : b # a => request'[b] = request[b]
    BY <1>2 DEF Enter, TypeOK
  <2>2. CASE request[a] = Idle
    BY <1>2, <2>1, <2>2 DEF Enter, Idle, TypeOK
  <2>3. CASE request[a] # Idle
    BY <1>2, <2>1, <2>3 DEF Enter, Request, TypeOK
  <2> QED BY <2>2, <2>3
<1> QED BY <1>1, <1>2

LEMMA DecisionsStep ==
  TypeOK /\ TypeOK' /\ Locks /\ Decisions /\ [Next]_vars => Decisions'
<1> SUFFICES ASSUME TypeOK, TypeOK', Locks, Decisions, [Next]_vars PROVE Decisions'
  OBVIOUS
<1> USE DecisionsKept
<1>0. /\ \A a \in Admins : Abort(a) => Decisions'
      /\ \A w \in Workers : AbortRestore(w) => Decisions'
  BY DEF Abort, AbortRestore, Answer, Idle, TypeOK
<1>1. ASSUME NEW row \in Rows, RecordToolCall(row) PROVE Decisions'
  <2>1. /\ UNCHANGED <<reviewer, status, request, dispatched>>
        /\ \A x \in Rows : x # row => action'[x] = action[x]
        /\ reviewer[row] = Nobody /\ action[row] = "ABSENT"
    BY <1>1 DEF RecordToolCall, TypeOK, Decisions, Verdicts
  <2> QED BY <2>1
<1>2. ASSUME NEW a \in Admins, NEW row \in Rows, NEW v \in Verdicts, Open(a, row, v)
      PROVE  Decisions'
  <2>1. \A b \in Admins : request'[b].phase = "dispatching" => request'[b] = request[b]
    BY <1>2 DEF Open, TypeOK
  <2>2. UNCHANGED <<action, reviewer, status, dispatched>>
    BY <1>2 DEF Open
  <2> QED BY <2>1, <2>2
<1>3. ASSUME NEW a \in Admins, Admin(a) PROVE Decisions'
  <2>1. CASE LockAudit(a)
    BY <2>1, OthersDispatch DEF LockAudit, Phase
  <2>2. CASE LockRefund(a)
    BY <2>2, OthersDispatch DEF LockRefund, Phase
  <2>3. CASE Decide(a)
    <3> DEFINE row == request[a].row
               approve == request[a].verdict = "APPROVE"
    <3>1. /\ row \in Rows /\ Refund(row) \in Refunds
          /\ request[a].verdict \in Verdicts
      BY <2>3, RequestFields DEF Decide
    <3>2. Decided(Refund(row)) = {} /\ action[row] = "PENDING"
      BY <2>3, <3>1 DEF Decide, Locks, Decisions, OneDecisionStands
    <3>3. \A r \in Refunds :
            Decided(r)' = IF r = Refund(row) THEN {row} ELSE Decided(r)
      <4>1. reviewer'[row] = a /\ \A x \in Rows \ {row} : reviewer'[x] = reviewer[x]
        BY <2>3, <3>1 DEF Decide, TypeOK
      <4>2. \A x \in Rows : reviewer'[x] # Nobody <=> x = row \/ reviewer[x] # Nobody
        BY <4>1
      <4>3. \A r \in Refunds : \A x : x \in Decided(r)' <=>
              x \in Decided(r) \/ (x = row /\ r = Refund(row))
        BY <3>1, <4>2 DEF Decided
      <4> HIDE DEF row
      <4> QED BY <3>1, <3>2, <4>3
    <3>4. dispatched[Refund(row)] = 0
      BY <2>3, <3>1 DEF Decide, Locks, Decisions, OneDecisionStands, Granted, TypeOK
    <3>5. OneDecisionStands'
      <4> SUFFICES ASSUME NEW r \in Refunds
                   PROVE  /\ status'[r] = "PENDING" <=> Decided(r)' = {}
                          /\ \A x, y \in Decided(r)' : x = y
                          /\ \A x \in Decided(r)' :
                               /\ action'[x] = "APPROVE" <=> status'[r] \in Granted
                               /\ action'[x] = "REJECT" <=> status'[r] = "REJECTED"
                          /\ dispatched'[r] <= IF status'[r] \in Granted THEN 1 ELSE 0
        BY DEF OneDecisionStands
      <4>1. CASE r = Refund(row)
        <5>1. /\ status'[r] = IF approve THEN "APPROVED" ELSE "REJECTED"
              /\ action'[row] = request[a].verdict
              /\ UNCHANGED dispatched
          BY <2>3, <3>1, <4>1 DEF Decide, TypeOK
        <5>2. Decided(r)' = {row}
          BY <3>3, <4>1
        <5> QED BY <3>1, <3>4, <4>1, <5>1, <5>2 DEF Granted, Verdicts
      <4>2. CASE r # Refund(row)
        BY <2>3, <3>1, <3>3, <4>2
           DEF Decide, Decided, Decisions, OneDecisionStands, TypeOK
      <4> QED BY <4>1, <4>2
    <3>6. ASSUME NEW b \in Admins, request'[b].phase = "dispatching"
          PROVE  /\ reviewer'[request'[b].row] = b
                 /\ action'[request'[b].row] = "APPROVE"
                 /\ dispatched'[Refund(request'[b].row)] = 0
      <4>1. CASE b = a
        <5>1. request'[a].phase = "dispatching" => Enter(a, "dispatching") /\ approve
          BY <2>3 DEF Decide, Answer, Idle, TypeOK
        <5>2. request[a] \in [phase : Phase \ {"idle"}, row : Rows, verdict : Verdicts]
          BY <2>3, RequestFields DEF Decide
        <5>3. approve /\ request'[a].row = row
          BY <3>6, <4>1, <5>1, <5>2 DEF Enter, TypeOK
        <5>4. reviewer'[row] = a /\ action'[row] = "APPROVE" /\ UNCHANGED dispatched
          BY <2>3, <3>1, <5>3 DEF Decide, TypeOK
        <5> QED BY <3>4, <4>1, <5>3, <5>4
      <4>2. CASE b # a
        <5>1. request'[b] = request[b]
          BY <2>3, <4>2 DEF Decide, Enter, Answer, TypeOK
        <5>2. reviewer[request[b].row] = b /\ request[b].row # row
          BY <3>1, <3>2, <3>6, <5>1 DEF Decisions
        <5> QED BY <2>3, <3>6, <5>1, <5>2 DEF Decide, Decisions, TypeOK
      <4> QED BY <4>1, <4>2
    <3>7. \A x \in Rows : reviewer'[x] # Nobody => action'[x] \in Verdicts
      BY <2>3, <3>1 DEF Decide, Decisions, TypeOK
    <3> QED BY <3>5, <3>6, <3>7 DEF Decisions
  <2>4. CASE Abort(a)
    BY <1>0, <2>4
  <2>5. CASE Dispatch(a)
    <3> DEFINE row == request[a].row
    <3>1. row \in Rows /\ Refund(row) \in Refunds
      BY <2>5, RequestFields DEF Dispatch
    <3>2. row \in Decided(Refund(row)) /\ status[Refund(row)] \in Granted
      BY <2>5, <3>1 DEF Dispatch, Decisions, OneDecisionStands, Decided
    <3>3. OneDecisionStands'
      BY <2>5, <3>1, <3>2
         DEF Dispatch, Decisions, OneDecisionStands, Decided, TypeOK
    <3>4. ASSUME NEW b \in Admins, request'[b].phase = "dispatching"
          PROVE  /\ reviewer'[request'[b].row] = b
                 /\ action'[request'[b].row] = "APPROVE"
                 /\ dispatched'[Refund(request'[b].row)] = 0
      <4>1. b # a /\ request'[b] = request[b]
        BY <2>5, <3>4 DEF Dispatch, Answer, Idle, TypeOK
      <4>2. request[b].row \in Rows /\ request[b].row # row
        BY <2>5, <3>4, <4>1, RequestFields DEF Dispatch, Decisions
      <4>3. Refund(request[b].row) # Refund(row)
        BY <3>1, <3>2, <3>4, <4>1, <4>2 DEF Decisions, OneDecisionStands, Decided
      <4>4. dispatched'[Refund(request[b].row)] = dispatched[Refund(request[b].row)]
        BY <2>5, <3>1, <4>2, <4>3, RowHasRefund DEF Dispatch, TypeOK
      <4> QED BY <2>5, <3>4, <4>1, <4>4 DEF Dispatch, Decisions
    <3> QED BY <2>5, <3>3, <3>4 DEF Dispatch, Decisions
  <2> QED BY <1>3, <2>1, <2>2, <2>3, <2>4, <2>5 DEF Admin
<1>4. ASSUME NEW r \in Refunds, Claim(r) \/ Complete(r) PROVE Decisions'
  BY <1>4 DEF Claim, Complete, TypeOK, Granted
<1>5. ASSUME NEW w \in Workers, Worker(w) PROVE Decisions'
  <2>1. CASE BeginRestore(w)
    BY <2>1 DEF BeginRestore
  <2>2. CASE CommitRestore(w)
    BY <2>2 DEF CommitRestore, Locks, Granted
  <2>3. CASE AbortRestore(w)
    BY <1>0, <2>3
  <2>4. ASSUME NEW row \in Rows, LockMetadata(w, row) PROVE Decisions'
    BY <2>4 DEF LockMetadata
  <2> QED BY <1>5, <2>1, <2>2, <2>3, <2>4 DEF Worker
<1>6. ASSUME NEW a \in Admins, NEW w \in Workers, BreakDeadlock(a, w) PROVE Decisions'
  BY <1>0, <1>6 DEF BreakDeadlock
<1>7. CASE UNCHANGED vars
  BY <1>7 DEF vars
<1> QED BY <1>1, <1>2, <1>3, <1>4, <1>5, <1>6, <1>7 DEF Next

\* The inductive invariant of the review.
ReviewInv == TypeOK /\ Locks /\ Decisions

LEMMA ReviewInvariant == Spec => []ReviewInv
<1>1. ASSUME Init PROVE Locks /\ Decisions
  <2>1. Locks
    BY <1>1 DEF Init, Idle, NoTxn, Locks
  <2>2. \A r \in Refunds : Decided(r) = {}
    BY <1>1 DEF Init, Decided
  <2>3. OneDecisionStands
    BY <1>1, <2>2 DEF Init, OneDecisionStands, Granted
  <2> QED BY <1>1, <2>1, <2>3 DEF Init, Idle, Decisions
<1>2. TypeOK /\ TypeOK' /\ Locks /\ Decisions /\ [Next]_vars => (Locks /\ Decisions)'
  BY LocksStep, DecisionsStep
<1> QED BY <1>1, <1>2, TypeCorrect, PTL DEF Spec, ReviewInv

\* However many audit rows a refund has and however many requests, claims,
\* restores and deadlocks meet on them, one decision stands, and it starts at
\* most one payment (admin_decision of admin.py).
THEOREM DecisionStands == Spec => []OneDecisionStands
<1>1. ReviewInv => OneDecisionStands
  BY DEF ReviewInv, Decisions
<1> QED BY <1>1, ReviewInvariant, PTL

\* A row that carries a verdict keeps it and its reviewer for good, since a
\* request decides only over a row that it read as PENDING under its lock.
THEOREM VerdictsStay == Spec => VerdictsAreKept
<1> DEFINE Kept == \A row \in Rows :
             action[row] \in Verdicts => /\ action'[row] = action[row]
                                         /\ reviewer'[row] = reviewer[row]
<1>1. ReviewInv /\ [Next]_vars => [Kept]_vars
  <2> SUFFICES ASSUME ReviewInv, [Next]_vars PROVE Kept
    OBVIOUS
  <2>1. ASSUME NEW a \in Admins, Decide(a) PROVE Kept
    <3>1. request[a].row \in Rows /\ action[request[a].row] = "PENDING"
      BY <2>1, RequestFields DEF Decide, ReviewInv, Locks
    <3> QED BY <2>1, <3>1 DEF Decide, Verdicts, ReviewInv, TypeOK
  <2>2. ASSUME NEW row \in Rows, RecordToolCall(row) PROVE Kept
    BY <2>2 DEF RecordToolCall, Verdicts, ReviewInv, TypeOK
  <2>3. CASE UNCHANGED <<action, reviewer>>
    BY <2>3
  <2> QED BY <2>1, <2>2, <2>3
          DEF Next, Admin, Worker, Open, LockAudit, LockRefund, Abort, Dispatch, Claim,
              Complete, BeginRestore, LockMetadata, CommitRestore, AbortRestore,
              BreakDeadlock, vars
<1> QED BY <1>1, ReviewInvariant, PTL DEF Spec, VerdictsAreKept
=============================================================================
