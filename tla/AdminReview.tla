----------------------------- MODULE AdminReview -----------------------------
(***************************************************************************)
(* The human review of refunds under row locks.  A refund has an audit row *)
(* written with it (its case) and further rows recorded for calls of the   *)
(* submit tool; admins decide over any of them that is PENDING, while the  *)
(* payment worker and the sweep update the same refund and audit rows in   *)
(* transactions of their own.                                              *)
(*                                                                         *)
(* A SELECT ... FOR UPDATE that waits is one step taken when the lock is   *)
(* free; writes become visible at the commit.  A step that only reads or   *)
(* that updates a single row (claim, completion) is one step.              *)
(***************************************************************************)
EXTENDS FiniteSets, Naturals

CONSTANTS
  Refunds,     \* refund applications
  CaseRow,     \* the audit row inserted together with the refund
  ToolRows,    \* further rows, <<refund, call>>, that write_tool_audit_log may add
  Admins,      \* concurrent requests of the admin API
  Workers,     \* transactions of the payment worker and of the sweep
  Nobody

Rows == {<<r, CaseRow>> : r \in Refunds} \cup ToolRows
Refund(row) == row[1]

ASSUME ReviewAssumption ==
  /\ \A row \in ToolRows : Refund(row) \in Refunds /\ row[2] # CaseRow
  /\ Nobody \notin Admins \cup Workers
  /\ Admins \cap Workers = {}
  /\ Refunds \cap Rows = {}

VARIABLES
  action,      \* action[row]: AuditLog.action, ABSENT before the insert
  reviewer,    \* reviewer[row]: AuditLog.admin_id
  status,      \* status[r]: RefundApplication.status
  lock,        \* lock[x]: who holds the row lock of refund or audit row x
  request,     \* request[a]: the admin_decision that a executes
  txn,         \* txn[w]: what w's transaction holds and still has to write
  dispatched   \* dispatched[r]: calls of process_refund_payment.delay

vars == <<action, reviewer, status, lock, request, txn, dispatched>>

Actions == {"ABSENT", "PENDING", "APPROVE", "REJECT"}
Verdicts == {"APPROVE", "REJECT"}
RefundStatus == {"PENDING", "APPROVED", "PROCESSING", "REJECTED", "COMPLETED"}
Granted == {"APPROVED", "PROCESSING", "COMPLETED"}

\* Between requests, before the lock of the audit row, before the lock of the
\* refund, with both, and after the commit.
Phase == {"idle", "audit", "refund", "deciding", "dispatching"}

Idle == [phase |-> "idle"]
Request == {Idle} \cup
  [phase : Phase \ {"idle"}, row : Rows, verdict : Verdicts]

Free(x) == lock[x] = Nobody
Take(x, p) == lock' = [lock EXCEPT ![x] = p]

\* Commit or rollback ends p's locks.
Unlock(p) == lock' = [x \in Refunds \cup Rows |-> IF lock[x] = p THEN Nobody ELSE lock[x]]

Enter(a, phase) == request' = [request EXCEPT ![a].phase = phase]
Answer(a) == request' = [request EXCEPT ![a] = Idle]

NoTxn == [refunds |-> {}, rows |-> {}]

-----------------------------------------------------------------------------
(* The submit tool                                                         *)

\* write_tool_audit_log, in a transaction of its own: PENDING for an outcome
\* that is ok (also one replayed from the cache), REJECT for ALREADY_EXISTS.
RecordToolCall(row) ==
  /\ action[row] = "ABSENT"
  /\ \E act \in {"PENDING", "REJECT"} : action' = [action EXCEPT ![row] = act]
  /\ UNCHANGED <<reviewer, status, lock, request, txn, dispatched>>

-----------------------------------------------------------------------------
(* admin_decision                                                          *)

\* An admin sends a verdict over a row the task list once showed.
Open(a, row, verdict) ==
  /\ request[a].phase = "idle"
  /\ action[row] # "ABSENT"
  /\ request' = [request EXCEPT ![a] =
                   [phase |-> "audit", row |-> row, verdict |-> verdict]]
  /\ UNCHANGED <<action, reviewer, status, lock, txn, dispatched>>

\* Mutant of LockAudit: the action of the row is not looked at.
LockAuditAnyAction(a) ==
  /\ request[a].phase = "audit"
  /\ Free(request[a].row)
  /\ Take(request[a].row, a)
  /\ Enter(a, "refund")
  /\ UNCHANGED <<action, reviewer, status, txn, dispatched>>

\* 409 when the row is no longer PENDING.
LockAudit(a) ==
  /\ request[a].phase = "audit"
  /\ Free(request[a].row)
  /\ \/ /\ action[request[a].row] = "PENDING"
        /\ Take(request[a].row, a)
        /\ Enter(a, "refund")
     \/ /\ action[request[a].row] # "PENDING"
        /\ Answer(a)
        /\ UNCHANGED lock
  /\ UNCHANGED <<action, reviewer, status, txn, dispatched>>

\* Mutant of LockRefund: the refund is read without FOR UPDATE.
LockRefundUnlocked(a) ==
  /\ request[a].phase = "refund"
  /\ \/ /\ status[Refund(request[a].row)] = "PENDING"
        /\ Enter(a, "deciding")
        /\ UNCHANGED lock
     \/ /\ status[Refund(request[a].row)] # "PENDING"
        /\ Answer(a)
        /\ Unlock(a)
  /\ UNCHANGED <<action, reviewer, status, txn, dispatched>>

\* Mutant of LockRefund: the 409 leaves the audit row locked.
LockRefundKeepsAudit(a) ==
  LET r == Refund(request[a].row) IN
  /\ request[a].phase = "refund"
  /\ Free(r)
  /\ \/ status[r] = "PENDING" /\ Take(r, a) /\ Enter(a, "deciding")
     \/ status[r] # "PENDING" /\ Answer(a) /\ UNCHANGED lock
  /\ UNCHANGED <<action, reviewer, status, txn, dispatched>>

\* 409 when another row of the same refund has been decided.
LockRefund(a) ==
  LET r == Refund(request[a].row) IN
  /\ request[a].phase = "refund"
  /\ Free(r)
  /\ \/ status[r] = "PENDING" /\ Take(r, a) /\ Enter(a, "deciding")
     \/ status[r] # "PENDING" /\ Answer(a) /\ Unlock(a)
  /\ UNCHANGED <<action, reviewer, status, txn, dispatched>>

\* Mutant of Decide: the refund gets the verdict of the row as its status.
DecideWritesVerdict(a) ==
  LET row == request[a].row IN
  /\ request[a].phase = "deciding"
  /\ action' = [action EXCEPT ![row] = request[a].verdict]
  /\ reviewer' = [reviewer EXCEPT ![row] = a]
  /\ status' = [status EXCEPT ![Refund(row)] = request[a].verdict]
  /\ Unlock(a)
  /\ Answer(a)
  /\ UNCHANGED <<txn, dispatched>>

\* The decision on row and refund, committed together.
Decide(a) ==
  LET row == request[a].row
      approve == request[a].verdict = "APPROVE" IN
  /\ request[a].phase = "deciding"
  /\ action' = [action EXCEPT ![row] = request[a].verdict]
  /\ reviewer' = [reviewer EXCEPT ![row] = a]
  /\ status' = [status EXCEPT ![Refund(row)] =
                  IF approve THEN "APPROVED" ELSE "REJECTED"]
  /\ Unlock(a)
  /\ IF approve THEN Enter(a, "dispatching") ELSE Answer(a)
  /\ UNCHANGED <<txn, dispatched>>

\* The transaction fails before its commit: nothing was written.
Abort(a) ==
  /\ request[a].phase \in {"audit", "refund", "deciding"}
  /\ Answer(a)
  /\ Unlock(a)
  /\ UNCHANGED <<action, reviewer, status, txn, dispatched>>

\* .delay() once; when it fails the error is noted and the request is over.
Dispatch(a) ==
  /\ request[a].phase = "dispatching"
  /\ Answer(a)
  /\ \/ dispatched' = [dispatched EXCEPT ![Refund(request[a].row)] = @ + 1]
     \/ UNCHANGED dispatched
  /\ UNCHANGED <<action, reviewer, status, lock, txn>>

-----------------------------------------------------------------------------
(* The payment side                                                        *)

\* _claim and _complete: single UPDATEs that wait for the refund's lock.
Claim(r) ==
  /\ Free(r) /\ status[r] = "APPROVED" /\ dispatched[r] > 0
  /\ status' = [status EXCEPT ![r] = "PROCESSING"]
  /\ UNCHANGED <<action, reviewer, lock, request, txn, dispatched>>

Complete(r) ==
  /\ Free(r) /\ status[r] = "PROCESSING"
  /\ status' = [status EXCEPT ![r] = "COMPLETED"]
  /\ UNCHANGED <<action, reviewer, lock, request, txn, dispatched>>

\* _restore_after_failure locks one PROCESSING refund, the sweep all those
\* that nobody has locked.  Either then picks an audit row of each refund:
\* the first the database returns, in no order the code asks for.
BeginRestore(w) ==
  /\ txn[w] = NoTxn
  /\ \E rs \in SUBSET {r \in Refunds : Free(r) /\ status[r] = "PROCESSING"} \ {{}} :
       \E first \in [rs -> Rows] :
         /\ \A r \in rs : Refund(first[r]) = r /\ action[first[r]] # "ABSENT"
         /\ txn' = [txn EXCEPT ![w] =
                      [refunds |-> rs, rows |-> {first[r] : r \in rs}]]
         /\ lock' = [x \in Refunds \cup Rows |-> IF x \in rs THEN w ELSE lock[x]]
  /\ UNCHANGED <<action, reviewer, status, request, dispatched>>

\* Writing decision_metadata locks the audit row.
LockMetadata(w, row) ==
  /\ row \in txn[w].rows /\ Free(row)
  /\ Take(row, w)
  /\ txn' = [txn EXCEPT ![w].rows = @ \ {row}]
  /\ UNCHANGED <<action, reviewer, status, request, dispatched>>

CommitRestore(w) ==
  /\ txn[w].refunds # {} /\ txn[w].rows = {}
  /\ status' = [r \in Refunds |->
                  IF r \in txn[w].refunds THEN "APPROVED" ELSE status[r]]
  /\ txn' = [txn EXCEPT ![w] = NoTxn]
  /\ Unlock(w)
  /\ UNCHANGED <<action, reviewer, request, dispatched>>

AbortRestore(w) ==
  /\ txn[w].refunds # {}
  /\ txn' = [txn EXCEPT ![w] = NoTxn]
  /\ Unlock(w)
  /\ UNCHANGED <<action, reviewer, status, request, dispatched>>

-----------------------------------------------------------------------------
(* The deadlock detector of the database.                                  *)

\* a holds an audit row that w is about to write and waits for its refund,
\* which w holds.  (Longer cycles cannot form: the rows w writes belong to
\* the refunds it holds.)
Blocked(a, w) ==
  /\ request[a].phase = "refund"
  /\ lock[Refund(request[a].row)] = w
  /\ request[a].row \in txn[w].rows

\* It aborts one of the two transactions.
BreakDeadlock(a, w) ==
  /\ Blocked(a, w)
  /\ \/ Abort(a)
     \/ AbortRestore(w)

-----------------------------------------------------------------------------
Init ==
  /\ action = [row \in Rows |-> IF row[2] = CaseRow THEN "PENDING" ELSE "ABSENT"]
  /\ reviewer = [row \in Rows |-> Nobody]
  /\ status = [r \in Refunds |-> "PENDING"]
  /\ lock = [x \in Refunds \cup Rows |-> Nobody]
  /\ request = [a \in Admins |-> Idle]
  /\ txn = [w \in Workers |-> NoTxn]
  /\ dispatched = [r \in Refunds |-> 0]

Admin(a) == LockAudit(a) \/ LockRefund(a) \/ Decide(a) \/ Abort(a) \/ Dispatch(a)

Worker(w) == \/ BeginRestore(w) \/ CommitRestore(w) \/ AbortRestore(w)
             \/ \E row \in Rows : LockMetadata(w, row)

Next ==
  \/ \E row \in Rows : RecordToolCall(row)
  \/ \E a \in Admins, row \in Rows, verdict \in Verdicts : Open(a, row, verdict)
  \/ \E a \in Admins : Admin(a)
  \/ \E r \in Refunds : Claim(r) \/ Complete(r)
  \/ \E w \in Workers : Worker(w)
  \/ \E a \in Admins, w \in Workers : BreakDeadlock(a, w)

Spec == Init /\ [][Next]_vars

\* The API and the workers run on.  The database serves lock requests in the
\* order of their arrival, so that who waits for a lock which is freed again
\* and again gets it: strong fairness.  No one has to send a request.
Fairness ==
  /\ \A a \in Admins : SF_vars(LockAudit(a) \/ LockRefund(a) \/ Decide(a) \/ Dispatch(a))
  /\ \A w \in Workers : /\ SF_vars(\E row \in Rows : LockMetadata(w, row))
                        /\ WF_vars(CommitRestore(w))
                        /\ WF_vars(\E a \in Admins : BreakDeadlock(a, w))

FairSpec == Spec /\ Fairness

-----------------------------------------------------------------------------
(* What must hold                                                          *)

TypeOK ==
  /\ action \in [Rows -> Actions]
  /\ reviewer \in [Rows -> Admins \cup {Nobody}]
  /\ status \in [Refunds -> RefundStatus]
  /\ lock \in [Refunds \cup Rows -> Admins \cup Workers \cup {Nobody}]
  /\ request \in [Admins -> Request]
  /\ txn \in [Workers -> [refunds : SUBSET Refunds, rows : SUBSET Rows]]
  /\ dispatched \in [Refunds -> Nat]

\* The rows of r on which an admin has decided.
Decided(r) == {row \in Rows : Refund(row) = r /\ reviewer[row] # Nobody}

\* However many audit rows a refund has and whoever decides over them at the
\* same time, one decision stands: it is the only one, the refund is where it
\* sent it (admin.py checks the row and the refund under their locks), and its
\* payment is started at most once, when it is approved.
OneDecisionStands ==
  \A r \in Refunds :
    /\ status[r] = "PENDING" <=> Decided(r) = {}
    /\ \A row, other \in Decided(r) : row = other
    /\ \A row \in Decided(r) :
         /\ action[row] = "APPROVE" <=> status[r] \in Granted
         /\ action[row] = "REJECT" <=> status[r] = "REJECTED"
    /\ dispatched[r] <= IF status[r] \in Granted THEN 1 ELSE 0

\* An audit row that carries a verdict keeps it: neither a second request nor
\* one over the record of a failed tool call rewrites it.
VerdictsAreKept ==
  [][\A row \in Rows :
       action[row] \in Verdicts => /\ action'[row] = action[row]
                                   /\ reviewer'[row] = reviewer[row]]_vars

\* Every request gets its answer, through lock waits and deadlocks with the
\* payment side.
RequestsAreAnswered ==
  \A a \in Admins : request[a] # Idle ~> request[a] = Idle
=============================================================================
