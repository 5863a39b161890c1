--------------------------- MODULE RefundSubmission ---------------------------
(***************************************************************************)
(* Submitting a refund: the conversation turns of one user that have passed*)
(* the workflow's gates and reach node_submit, possibly several at a time  *)
(* and in several API processes, down to the rows of refund_applications   *)
(* and audit_logs and what the status endpoint makes of them.              *)
(*                                                                         *)
(* A turn is one step per query, so that other turns come in between; the  *)
(* database runs at READ COMMITTED and a unique index on order_id makes an *)
(* insert wait for another transaction's uncommitted row.                  *)
(***************************************************************************)
EXTENDS Naturals, Sequences, SequencesExt

CONSTANTS
  Turns,       \* turns; the refund a turn inserts is known by its turn
  Orders,      \* the user's orders
  Processes,   \* API processes, each with its own idempotency cache
  None,
  MaxFaults    \* bound: how many faults a behaviour may contain

ASSUME SubmissionAssumption == None \notin Turns \cup Orders \cup Processes
                               /\ MaxFaults \in Nat

VARIABLES
  turn,        \* turn[t]: where turn t stands, for which order, in which process
  outcome,     \* outcome[t]: the ToolOutcome t ended with
  eligible,    \* the orders that pass the rules on status, time and category
  flushed,     \* refund rows inserted by transactions that are still open
  refunds,     \* committed rows of refund_applications, with their status
  audit,       \* committed rows of audit_logs of the thread, oldest first
  cache,       \* cache[p][o]: the refund cached for the order in process p
  faults       \* faults so far

vars == <<turn, outcome, eligible, flushed, refunds, audit, cache, faults>>

\* Before the short-circuit query of node_submit, at the registry's cache, at
\* the two queries for an existing refund, at the insert, at the commit, past
\* it, at write_tool_audit_log, and at the end.
Phase == {"idle", "route", "guard", "existing", "eligible", "insert", "commit",
          "notify", "audit", "done"}

Code == {"NO_OUTCOME", "SHORT_CIRCUIT", "REFUND_SUBMITTED", "ALREADY_EXISTS",
         "BUSINESS_REJECTED", "SYSTEM_ERROR"}

Row(t, o) == [id |-> t, order |-> o]
AuditRow(kind, id, o, action) ==
  [kind |-> kind, refund |-> id, order |-> o, action |-> action]

At(t, phase) == turn[t].phase = phase
Order(t) == turn[t].order
Enter(t, phase) == turn' = [turn EXCEPT ![t].phase = phase]

\* The committed and the uncommitted refunds of t's order.
Existing(t) == {r \in DOMAIN refunds : refunds[r].order = Order(t)}
Uncommitted(t) == {r \in flushed : r.order = Order(t)}

\* t's call ends with an outcome and goes on to phase.
End(t, code, id, phase) ==
  /\ outcome' = [outcome EXCEPT ![t] = [code |-> code, refund |-> id]]
  /\ Enter(t, phase)

Fault == faults < MaxFaults /\ faults' = faults + 1

-----------------------------------------------------------------------------
(* node_submit and the registry                                            *)

Begin(t, o, p) ==
  /\ At(t, "idle")
  /\ turn' = [turn EXCEPT ![t] = [phase |-> "route", order |-> o, process |-> p]]
  /\ UNCHANGED <<outcome, eligible, flushed, refunds, audit, cache, faults>>

\* The order has a refund: answer with it and skip the tool.
Route(t) ==
  /\ At(t, "route")
  /\ \/ \E r \in Existing(t) : End(t, "SHORT_CIRCUIT", r, "done")
     \/ Existing(t) = {} /\ Enter(t, "guard") /\ UNCHANGED outcome
  /\ UNCHANGED <<eligible, flushed, refunds, audit, cache, faults>>

\* Mutant of Guard: the idempotency key leaves the order out.
GuardAnyOrder(t) ==
  LET cached == {cache[turn[t].process][o] : o \in Orders} \ {None} IN
  /\ At(t, "guard")
  /\ \/ \E r \in cached : End(t, "REFUND_SUBMITTED", r, "audit")
     \/ cached = {} /\ Enter(t, "existing") /\ UNCHANGED outcome
  /\ UNCHANGED <<eligible, flushed, refunds, audit, cache, faults>>

\* A cached success is replayed; the call is recorded once more.
Guard(t) ==
  LET cached == cache[turn[t].process][Order(t)] IN
  /\ At(t, "guard")
  /\ \/ cached # None /\ End(t, "REFUND_SUBMITTED", cached, "audit")
     \/ cached = None /\ Enter(t, "existing") /\ UNCHANGED outcome
  /\ UNCHANGED <<eligible, flushed, refunds, audit, cache, faults>>

-----------------------------------------------------------------------------
(* create_refund_application, with the audit row and the commit of the tool *)

CheckExisting(t) ==
  /\ At(t, "existing")
  /\ \/ \E r \in Existing(t) : End(t, "ALREADY_EXISTS", r, "audit")
     \/ Existing(t) = {} /\ Enter(t, "eligible") /\ UNCHANGED outcome
  /\ UNCHANGED <<eligible, flushed, refunds, audit, cache, faults>>

\* check_eligibility asks for an existing refund once more, and rejects.
CheckEligible(t) ==
  LET ok == Order(t) \in eligible /\ Existing(t) = {} IN
  /\ At(t, "eligible")
  /\ \/ ok /\ Enter(t, "insert") /\ UNCHANGED outcome
     \/ ~ok /\ End(t, "BUSINESS_REJECTED", None, "audit")
  /\ UNCHANGED <<eligible, flushed, refunds, audit, cache, faults>>

\* A query fails: the registry turns the exception into an outcome.
LookupFails(t) ==
  /\ At(t, "existing") \/ At(t, "eligible")
  /\ Fault
  /\ End(t, "SYSTEM_ERROR", None, "audit")
  /\ UNCHANGED <<eligible, flushed, refunds, audit, cache>>

\* Mutant of Insert: no unique index on order_id.
InsertNotUnique(t) ==
  /\ At(t, "insert")
  /\ flushed' = flushed \cup {Row(t, Order(t))}
  /\ Enter(t, "commit")
  /\ UNCHANGED <<outcome, eligible, refunds, audit, cache, faults>>

\* The flush waits for an uncommitted row of the order.  When there is a
\* committed one it raises IntegrityError, and the refund is looked up again.
Insert(t) ==
  /\ At(t, "insert")
  /\ Uncommitted(t) = {}
  /\ \/ /\ Existing(t) = {}
        /\ flushed' = flushed \cup {Row(t, Order(t))}
        /\ Enter(t, "commit")
        /\ UNCHANGED outcome
     \/ /\ \E r \in Existing(t) : End(t, "ALREADY_EXISTS", r, "audit")
        /\ UNCHANGED flushed
  /\ UNCHANGED <<eligible, refunds, audit, cache, faults>>

\* Any other error of the flush is rolled back and reads as a rejection.
InsertFails(t) ==
  /\ At(t, "insert")
  /\ Fault
  /\ End(t, "BUSINESS_REJECTED", None, "audit")
  /\ UNCHANGED <<eligible, flushed, refunds, audit, cache>>

\* Mutant of Store: the refund is committed without its audit row.
StoreRefundOnly(t) ==
  /\ flushed' = flushed \ {Row(t, Order(t))}
  /\ refunds' = [r \in DOMAIN refunds \cup {t} |->
                   IF r = t THEN [order |-> Order(t), status |-> "PENDING"]
                            ELSE refunds[r]]
  /\ UNCHANGED audit

\* The refund and its case become visible together.
Store(t) ==
  /\ flushed' = flushed \ {Row(t, Order(t))}
  /\ refunds' = [r \in DOMAIN refunds \cup {t} |->
                   IF r = t THEN [order |-> Order(t), status |-> "PENDING"]
                            ELSE refunds[r]]
  /\ audit' = Append(audit, AuditRow("case", t, Order(t), "PENDING"))

Commit(t) ==
  /\ At(t, "commit")
  /\ Store(t)
  /\ Enter(t, "notify")
  /\ UNCHANGED <<outcome, eligible, cache, faults>>

\* The commit, or the refresh after it, raises: the row may be there or not.
CommitFails(t) ==
  /\ At(t, "commit")
  /\ Fault
  /\ End(t, "SYSTEM_ERROR", None, "audit")
  /\ \/ Store(t)
     \/ flushed' = flushed \ {Row(t, Order(t))} /\ UNCHANGED <<refunds, audit>>
  /\ UNCHANGED <<eligible, cache>>

\* Notifications are sent, failures swallowed; the registry caches the success.
Remember(t) ==
  /\ At(t, "notify")
  /\ cache' = [cache EXCEPT ![turn[t].process][Order(t)] = t]
  /\ End(t, "REFUND_SUBMITTED", t, "audit")
  /\ UNCHANGED <<eligible, flushed, refunds, audit, faults>>

\* Mutant of RecordCall: every outcome is filed as a case to review.
RecordCallPending(t) ==
  /\ At(t, "audit")
  /\ audit' = Append(audit, AuditRow("tool", outcome[t].refund, Order(t), "PENDING"))
  /\ Enter(t, "done")
  /\ UNCHANGED <<outcome, eligible, flushed, refunds, cache, faults>>

\* write_tool_audit_log; its failure is swallowed.
RecordCall(t) ==
  LET ok == outcome[t].code = "REFUND_SUBMITTED" IN
  /\ At(t, "audit")
  /\ Enter(t, "done")
  /\ \/ /\ audit' = Append(audit, AuditRow("tool", outcome[t].refund, Order(t),
                                           IF ok THEN "PENDING" ELSE "REJECT"))
        /\ UNCHANGED faults
     \/ Fault /\ UNCHANGED audit
  /\ UNCHANGED <<outcome, eligible, flushed, refunds, cache>>

\* The client goes away and the turn is cancelled at its next await.
Disconnect(t) ==
  /\ turn[t].phase \notin {"idle", "done"}
  /\ Fault
  /\ Enter(t, "done")
  /\ flushed' = {r \in flushed : r.id # t}
  /\ UNCHANGED <<outcome, eligible, refunds, audit, cache>>

\* The process ends: its turns, their open transactions and its cache are gone.
Crash(p) ==
  LET lost == {t \in Turns : turn[t].process = p /\ turn[t].phase # "done"} IN
  /\ Fault
  /\ turn' = [t \in Turns |-> IF t \in lost THEN [turn[t] EXCEPT !.phase = "done"]
                                            ELSE turn[t]]
  /\ flushed' = {r \in flushed : r.id \notin lost}
  /\ cache' = [cache EXCEPT ![p] = [o \in Orders |-> None]]
  /\ UNCHANGED <<outcome, eligible, refunds, audit>>

-----------------------------------------------------------------------------
(* Around it                                                               *)

\* Mutant of Review: the refund gets the verdict of the row as its status.
ReviewWritesVerdict(i, verdict) ==
  LET r == audit[i].refund IN
  /\ audit[i].action = "PENDING"
  /\ r \in DOMAIN refunds /\ refunds[r].status = "PENDING"
  /\ refunds' = [refunds EXCEPT ![r].status = verdict]
  /\ audit' = [audit EXCEPT ![i].action = verdict]
  /\ UNCHANGED <<turn, outcome, eligible, flushed, cache, faults>>

\* Mutant of Review: the second 409, over the status of the refund, is missing.
ReviewTwice(i, verdict) ==
  LET r == audit[i].refund IN
  /\ audit[i].action = "PENDING"
  /\ r \in DOMAIN refunds
  /\ refunds' = [refunds EXCEPT ![r].status =
                   IF verdict = "APPROVE" THEN "APPROVED" ELSE "REJECTED"]
  /\ audit' = [audit EXCEPT ![i].action = verdict]
  /\ UNCHANGED <<turn, outcome, eligible, flushed, cache, faults>>

\* admin_decision over row i; AdminReview models its locks.
Review(i, verdict) ==
  LET r == audit[i].refund IN
  /\ audit[i].action = "PENDING"
  /\ r \in DOMAIN refunds /\ refunds[r].status = "PENDING"
  /\ refunds' = [refunds EXCEPT ![r].status =
                   IF verdict = "APPROVE" THEN "APPROVED" ELSE "REJECTED"]
  /\ audit' = [audit EXCEPT ![i].action = verdict]
  /\ UNCHANGED <<turn, outcome, eligible, flushed, cache, faults>>

\* get_thread_status: what the latest audit row of the thread says.
Shown ==
  IF audit = <<>> THEN "IDLE"
  ELSE CASE Last(audit).action = "PENDING" -> "WAITING_ADMIN"
         [] Last(audit).action = "APPROVE" -> "APPROVED"
         [] Last(audit).action = "REJECT"  -> "REJECTED"

-----------------------------------------------------------------------------
Init ==
  /\ turn = [t \in Turns |-> [phase |-> "idle", order |-> None, process |-> None]]
  /\ outcome = [t \in Turns |-> [code |-> "NO_OUTCOME", refund |-> None]]
  /\ eligible \in SUBSET Orders
  /\ flushed = {}
  /\ refunds = <<>>
  /\ audit = <<>>
  /\ cache = [p \in Processes |-> [o \in Orders |-> None]]
  /\ faults = 0

Submit(t) == \/ Route(t) \/ Guard(t) \/ CheckExisting(t) \/ CheckEligible(t)
             \/ Insert(t) \/ Commit(t) \/ Remember(t) \/ RecordCall(t)

Next ==
  \/ \E t \in Turns, o \in Orders, p \in Processes : Begin(t, o, p)
  \/ \E t \in Turns : \/ Submit(t) \/ Disconnect(t)
                      \/ LookupFails(t) \/ InsertFails(t) \/ CommitFails(t)
  \/ \E p \in Processes : Crash(p)
  \/ \E i \in DOMAIN audit, verdict \in {"APPROVE", "REJECT"} : Review(i, verdict)

Spec == Init /\ [][Next]_vars

-----------------------------------------------------------------------------
(* What must hold                                                          *)

TypeOK ==
  /\ turn \in [Turns -> [phase : Phase, order : Orders \cup {None},
                         process : Processes \cup {None}]]
  /\ outcome \in [Turns -> [code : Code, refund : Turns \cup {None}]]
  /\ eligible \subseteq Orders
  /\ flushed \subseteq [id : Turns, order : Orders]
  /\ DOMAIN refunds \subseteq Turns
  /\ \A r \in DOMAIN refunds :
       refunds[r] \in [order : Orders, status : {"PENDING", "APPROVED", "REJECTED"}]
  /\ audit \in Seq([kind : {"case", "tool"}, refund : Turns \cup {None},
                    order : Orders, action : {"PENDING", "APPROVE", "REJECT"}])
  /\ cache \in [Processes -> [Orders -> Turns \cup {None}]]
  /\ faults \in 0..MaxFaults

\* An order never has two refunds, whatever turns race in however many
\* processes and whichever commit goes unconfirmed (README.md: one refund per
\* order, no duplicate submission).
OneRefundPerOrder ==
  \A r, s \in DOMAIN refunds : refunds[r].order = refunds[s].order => r = s

\* The review queue and the refunds match: a refund has exactly one case row
\* from the moment it exists, also when the turn that wrote it failed or died,
\* and every task still open belongs to a refund, so that admin_decision never
\* meets one it has to turn away as unrelated.
QueueMatchesRefunds ==
  /\ \A r \in DOMAIN refunds :
       \E i \in DOMAIN audit : \A j \in DOMAIN audit :
         audit[j].kind = "case" /\ audit[j].refund = r <=> i = j
  /\ \A i \in DOMAIN audit :
       audit[i].action = "PENDING" => audit[i].refund \in DOMAIN refunds

\* Whoever is told a refund number is told that of a refund of the order they
\* asked about, be it fresh, looked up, or replayed from a cache.
AnswersNameTheRefund ==
  \A t \in Turns : outcome[t].refund # None =>
    /\ outcome[t].refund \in DOMAIN refunds
    /\ refunds[outcome[t].refund].order = Order(t)

\* The endpoint says APPROVED only of a refund that is approved, although the
\* row it shows is merely the newest of several rows over the same refund, each
\* of which an admin may have been looking at (status.py, admin.py).
ShownApprovalIsReal ==
  Shown = "APPROVED" =>
    \A r \in DOMAIN refunds :
      refunds[r].order = Last(audit).order => refunds[r].status = "APPROVED"

\* The refund of an order together with its case, as RefundCase sees them.
CaseOf(o) ==
  LET filed == {r \in DOMAIN refunds :
                  /\ refunds[r].order = o
                  /\ \E i \in DOMAIN audit : /\ audit[i].kind = "case"
                                             /\ audit[i].refund = r}
  IN IF filed = {} THEN "NONE" ELSE refunds[CHOOSE r \in filed : TRUE].status

ToldOrders == {Order(t) : t \in {u \in Turns : outcome[u].refund # None}}

\* Turns, caches, the unique index and unconfirmed commits together look like
\* one case per order: filed at once with its review, decided once, and never
\* spoken of before it is there (README.md:40, no application twice).
Case == INSTANCE RefundCase WITH Orders <- Orders,
          case <- [o \in Orders |-> CaseOf(o)], told <- ToldOrders

ImplementsRefundCase == Case!Spec
=============================================================================
