------------------------ MODULE RefundSubmissionProofs ------------------------
(***************************************************************************)
(* Theorems about RefundSubmission for any number of turns, orders and API *)
(* processes and any fault budget.                                         *)
(***************************************************************************)
EXTENDS RefundSubmission, TLAPS

USE SubmissionAssumption DEF SubmissionAssumption

-----------------------------------------------------------------------------
(* Type correctness                                                        *)

TurnRecord == [phase : Phase, order : Orders \cup {None}, process : Processes \cup {None}]
Outcome == [code : Code, refund : Turns \cup {None}]
Refund == [order : Orders, status : {"PENDING", "APPROVED", "REJECTED"}]
AuditRecord == [kind : {"case", "tool"}, refund : Turns \cup {None},
                order : Orders, action : {"PENDING", "APPROVE", "REJECT"}]

\* A turn that has begun knows its order and runs in a process.
Bound ==
  \A t \in Turns :
    /\ turn[t].phase = "idle" => turn[t].process = None
    /\ turn[t].phase # "idle" => turn[t].order \in Orders /\ turn[t].process \in Processes

LEMMA TurnFields ==
  ASSUME TypeOK, NEW t \in Turns
  PROVE  turn[t] \in TurnRecord /\ outcome[t] \in Outcome
BY DEF TypeOK, TurnRecord, Outcome

LEMMA EnterType ==
  ASSUME TypeOK, Bound, NEW t \in Turns, turn[t].phase # "idle",
         NEW phase \in Phase \ {"idle"}, Enter(t, phase)
  PROVE  /\ turn' \in [Turns -> TurnRecord] /\ Bound'
         /\ turn'[t].phase = phase
         /\ \A u \in Turns : /\ u # t => turn'[u] = turn[u]
                             /\ turn'[u].order = turn[u].order
                             /\ turn'[u].process = turn[u].process
<1> DEFINE r == [turn[t] EXCEPT !.phase = phase]
<1>1. /\ r \in TurnRecord /\ r.phase = phase
      /\ r.order = turn[t].order /\ r.process = turn[t].process
  BY TurnFields DEF TurnRecord
<1>2. turn' = [turn EXCEPT ![t] = r] /\ turn \in [Turns -> TurnRecord]
  BY DEF Enter, TypeOK, TurnRecord
<1> HIDE DEF r
<1> QED BY <1>1, <1>2 DEF Bound

\* A call that ends keeps the types and says which refund it ends with.
LEMMA EndType ==
  ASSUME TypeOK, NEW t \in Turns, NEW code \in Code, NEW id \in Turns \cup {None},
         NEW phase, End(t, code, id, phase)
  PROVE  /\ outcome' \in [Turns -> Outcome]
         /\ outcome'[t].code = code /\ outcome'[t].refund = id
         /\ \A u \in Turns \ {t} : outcome'[u] = outcome[u]
BY DEF End, TypeOK, Outcome

LEMMA StoreType ==
  ASSUME TypeOK, NEW t \in Turns, Order(t) \in Orders, Store(t)
  PROVE  /\ flushed' \subseteq flushed
         /\ DOMAIN refunds' = DOMAIN refunds \cup {t}
         /\ refunds'[t] = [order |-> Order(t), status |-> "PENDING"]
         /\ \A r \in DOMAIN refunds \ {t} : refunds'[r] = refunds[r]
         /\ \A r \in DOMAIN refunds' : refunds'[r] \in Refund
         /\ audit' \in Seq(AuditRecord)
         /\ Len(audit') = Len(audit) + 1
         /\ audit'[Len(audit')] = AuditRow("case", t, Order(t), "PENDING")
         /\ \A i \in 1 .. Len(audit) : audit'[i] = audit[i]
<1>1. AuditRow("case", t, Order(t), "PENDING") \in AuditRecord
  BY DEF AuditRow, AuditRecord
<1>2. audit \in Seq(AuditRecord)
  BY DEF TypeOK, AuditRecord
<1>3. /\ audit' \in Seq(AuditRecord)
      /\ Len(audit') = Len(audit) + 1
      /\ audit'[Len(audit')] = AuditRow("case", t, Order(t), "PENDING")
      /\ \A i \in 1 .. Len(audit) : audit'[i] = audit[i]
  BY <1>1, <1>2 DEF Store
<1>4. /\ flushed' \subseteq flushed
      /\ DOMAIN refunds' = DOMAIN refunds \cup {t}
      /\ refunds'[t] = [order |-> Order(t), status |-> "PENDING"]
      /\ \A r \in DOMAIN refunds \ {t} : refunds'[r] = refunds[r]
  BY DEF Store
<1>5. \A r \in DOMAIN refunds' : refunds'[r] \in Refund
  BY <1>4 DEF TypeOK, Refund
<1> QED BY <1>3, <1>4, <1>5

LEMMA AppendType ==
  ASSUME TypeOK, NEW row \in AuditRecord, audit' = Append(audit, row)
  PROVE  /\ audit' \in Seq(AuditRecord)
         /\ Len(audit') = Len(audit) + 1
         /\ audit'[Len(audit')] = row
         /\ \A i \in 1 .. Len(audit) : audit'[i] = audit[i]
BY DEF TypeOK, AuditRecord

LEMMA FaultType == TypeOK /\ Fault => faults' \in 0 .. MaxFaults
BY DEF TypeOK, Fault

\* A step of a turn's call, what it does to the variables that are sorted here.
LEMMA CallType ==
  ASSUME TypeOK, Bound, NEW t \in Turns, Submit(t)
  PROVE  TypeOK' /\ Bound'
<1> USE DEF Phase
<1>1. turn[t].phase # "idle" /\ Order(t) \in Orders /\ turn[t].process \in Processes
  BY DEF Submit, Route, Guard, CheckExisting, CheckEligible, Insert, Commit, Remember,
         RecordCall, At, Bound, Order
<1>2. \A r \in Existing(t) : r \in Turns
  BY DEF Existing, TypeOK
<1>3. ASSUME NEW phase \in Phase \ {"idle"}, NEW code \in Code, NEW id \in Turns \cup {None},
             End(t, code, id, phase)
      PROVE  /\ turn' \in [Turns -> TurnRecord] /\ Bound'
             /\ outcome' \in [Turns -> Outcome]
  BY <1>1, <1>3, EnterType, EndType DEF End
<1>4. CASE Route(t)
  <2>1. CASE \E r \in Existing(t) : End(t, "SHORT_CIRCUIT", r, "done")
    BY <1>2, <1>3, <1>4, <2>1 DEF Route, TypeOK, Code, TurnRecord, Outcome
  <2>2. CASE Enter(t, "guard") /\ UNCHANGED outcome
    BY <1>1, <1>4, <2>2, EnterType DEF Route, TypeOK, TurnRecord
  <2> QED BY <1>4, <2>1, <2>2 DEF Route
<1>5. CASE Guard(t)
  <2> DEFINE cached == cache[turn[t].process][Order(t)]
  <2>1. cached \in Turns \cup {None}
    BY <1>1 DEF TypeOK
  <2>2. CASE End(t, "REFUND_SUBMITTED", cached, "audit")
    BY <1>3, <1>5, <2>1, <2>2 DEF Guard, TypeOK, Code, TurnRecord, Outcome
  <2>3. CASE Enter(t, "existing") /\ UNCHANGED outcome
    BY <1>1, <1>5, <2>3, EnterType DEF Guard, TypeOK, TurnRecord
  <2> QED BY <1>5, <2>2, <2>3 DEF Guard
<1>6. CASE CheckExisting(t)
  <2>1. CASE \E r \in Existing(t) : End(t, "ALREADY_EXISTS", r, "audit")
    BY <1>2, <1>3, <1>6, <2>1 DEF CheckExisting, TypeOK, Code, TurnRecord, Outcome
  <2>2. CASE Enter(t, "eligible") /\ UNCHANGED outcome
    BY <1>1, <1>6, <2>2, EnterType DEF CheckExisting, TypeOK, TurnRecord
  <2> QED BY <1>6, <2>1, <2>2 DEF CheckExisting
<1>7. CASE CheckEligible(t)
  <2>1. CASE End(t, "BUSINESS_REJECTED", None, "audit")
    BY <1>3, <1>7, <2>1 DEF CheckEligible, TypeOK, Code, TurnRecord, Outcome
  <2>2. CASE Enter(t, "insert") /\ UNCHANGED outcome
    BY <1>1, <1>7, <2>2, EnterType DEF CheckEligible, TypeOK, TurnRecord
  <2> QED BY <1>7, <2>1, <2>2 DEF CheckEligible
<1>8. CASE Insert(t)
  <2>1. CASE /\ flushed' = flushed \cup {Row(t, Order(t))}
             /\ Enter(t, "commit") /\ UNCHANGED outcome
    BY <1>1, <1>8, <2>1, EnterType DEF Insert, TypeOK, TurnRecord, Row
  <2>2. CASE /\ \E r \in Existing(t) : End(t, "ALREADY_EXISTS", r, "audit")
             /\ UNCHANGED flushed
    BY <1>2, <1>3, <1>8, <2>2 DEF Insert, TypeOK, Code, TurnRecord, Outcome
  <2> QED BY <1>8, <2>1, <2>2 DEF Insert
<1>9. CASE Commit(t)
  <2>1. turn' \in [Turns -> TurnRecord] /\ Bound'
    BY <1>1, <1>9, EnterType DEF Commit
  <2>2. /\ flushed' \subseteq flushed /\ DOMAIN refunds' = DOMAIN refunds \cup {t}
        /\ audit' \in Seq(AuditRecord) /\ \A r \in DOMAIN refunds' : refunds'[r] \in Refund
    BY <1>1, <1>9, StoreType DEF Commit
  <2> QED BY <1>9, <2>1, <2>2 DEF Commit, TypeOK, TurnRecord, AuditRecord, Refund
<1>10. CASE Remember(t)
  <2>1. cache' \in [Processes -> [Orders -> Turns \cup {None}]]
    BY <1>1, <1>10 DEF Remember, TypeOK
  <2>2. turn' \in [Turns -> TurnRecord] /\ Bound' /\ outcome' \in [Turns -> Outcome]
    BY <1>3, <1>10 DEF Remember, Code
  <2> QED BY <1>10, <2>1, <2>2 DEF Remember, TypeOK, TurnRecord, Outcome
<1>11. CASE RecordCall(t)
  <2>1. turn' \in [Turns -> TurnRecord] /\ Bound'
    BY <1>1, <1>11, EnterType DEF RecordCall
  <2>2. audit' \in Seq(AuditRecord)
    <3>1. AuditRow("tool", outcome[t].refund, Order(t),
            IF outcome[t].code = "REFUND_SUBMITTED" THEN "PENDING" ELSE "REJECT")
            \in AuditRecord
      BY <1>1, TurnFields DEF AuditRow, AuditRecord, Outcome
    <3> QED BY <1>11, <3>1, AppendType DEF RecordCall, TypeOK, AuditRecord
  <2>3. faults' \in 0 .. MaxFaults
    BY <1>11, FaultType DEF RecordCall, TypeOK
  <2> QED BY <1>11, <2>1, <2>2, <2>3 DEF RecordCall, TypeOK, TurnRecord, AuditRecord
<1> QED BY <1>4, <1>5, <1>6, <1>7, <1>8, <1>9, <1>10, <1>11 DEF Submit

\* The steps that fail.
LEMMA FaultsType ==
  /\ \A t \in Turns : TypeOK /\ Bound /\ (Disconnect(t) \/ LookupFails(t) \/ InsertFails(t)
                                          \/ CommitFails(t)) => TypeOK' /\ Bound'
  /\ \A p \in Processes : TypeOK /\ Bound /\ Crash(p) => TypeOK' /\ Bound'
<1> USE DEF Phase
<1>1. ASSUME TypeOK, Bound, NEW t \in Turns, Disconnect(t) PROVE TypeOK' /\ Bound'
  <2>1. turn' \in [Turns -> TurnRecord] /\ Bound'
    BY <1>1, EnterType DEF Disconnect
  <2> QED BY <1>1, <2>1, FaultType DEF Disconnect, TypeOK, TurnRecord
<1>2. ASSUME TypeOK, Bound, NEW t \in Turns, End(t, "SYSTEM_ERROR", None, "audit")
                                             \/ End(t, "BUSINESS_REJECTED", None, "audit"),
             turn[t].phase # "idle"
      PROVE  /\ turn' \in [Turns -> TurnRecord] /\ Bound' /\ outcome' \in [Turns -> Outcome]
  BY <1>2, EnterType, EndType DEF End, Code
<1>3. ASSUME TypeOK, Bound, NEW t \in Turns, LookupFails(t) \/ InsertFails(t)
      PROVE  TypeOK' /\ Bound'
  <2>1. turn' \in [Turns -> TurnRecord] /\ Bound' /\ outcome' \in [Turns -> Outcome]
    BY <1>2, <1>3 DEF LookupFails, InsertFails, At
  <2>2. faults' \in 0 .. MaxFaults
    BY <1>3, FaultType DEF LookupFails, InsertFails
  <2> QED BY <1>3, <2>1, <2>2 DEF LookupFails, InsertFails, TypeOK, TurnRecord, Outcome
<1>4. ASSUME TypeOK, Bound, NEW t \in Turns, CommitFails(t) PROVE TypeOK' /\ Bound'
  <2>1. turn' \in [Turns -> TurnRecord] /\ Bound' /\ outcome' \in [Turns -> Outcome]
    BY <1>2, <1>4 DEF CommitFails, At
  <2>2. faults' \in 0 .. MaxFaults
    BY <1>4, FaultType DEF CommitFails
  <2>3. CASE Store(t)
    <3>1. Order(t) \in Orders
      BY <1>4 DEF CommitFails, At, Bound, Order
    <3>2. /\ flushed' \subseteq flushed /\ DOMAIN refunds' = DOMAIN refunds \cup {t}
          /\ audit' \in Seq(AuditRecord) /\ \A r \in DOMAIN refunds' : refunds'[r] \in Refund
      BY <1>4, <2>3, <3>1, StoreType
    <3> QED BY <1>4, <2>1, <2>2, <3>2
            DEF CommitFails, TypeOK, TurnRecord, Outcome, AuditRecord, Refund
  <2>4. CASE flushed' = flushed \ {Row(t, Order(t))} /\ UNCHANGED <<refunds, audit>>
    BY <1>4, <2>1, <2>2, <2>4 DEF CommitFails, TypeOK, TurnRecord, Outcome
  <2> QED BY <1>4, <2>3, <2>4 DEF CommitFails
<1>5. ASSUME TypeOK, Bound, NEW p \in Processes, Crash(p) PROVE TypeOK' /\ Bound'
  <2>1. ASSUME NEW t \in Turns
        PROVE  /\ turn'[t] \in TurnRecord
               /\ turn'[t].phase # "idle" =>
                    turn'[t].order \in Orders /\ turn'[t].process \in Processes
    <3>1. turn[t] \in TurnRecord
      BY <1>5, TurnFields
    <3>2. CASE turn'[t] = turn[t]
      BY <1>5, <3>1, <3>2 DEF Bound
    <3>3. CASE turn'[t] = [turn[t] EXCEPT !.phase = "done"] /\ turn[t].process = p
      BY <1>5, <3>1, <3>3 DEF Bound, TurnRecord
    <3> QED BY <1>5, <3>2, <3>3 DEF Crash
  <2>2. turn' \in [Turns -> TurnRecord] /\ Bound'
    BY <1>5, <2>1 DEF Crash, Bound
  <2>3. cache' \in [Processes -> [Orders -> Turns \cup {None}]]
    BY <1>5 DEF Crash, TypeOK
  <2> QED BY <1>5, <2>2, <2>3, FaultType DEF Crash, TypeOK, TurnRecord
<1> QED BY <1>1, <1>3, <1>4, <1>5

LEMMA ReviewType ==
  ASSUME TypeOK, NEW i \in DOMAIN audit, NEW verdict \in {"APPROVE", "REJECT"},
         Review(i, verdict)
  PROVE  TypeOK'
<1>1. audit' \in Seq(AuditRecord)
  <2>1. audit \in Seq(AuditRecord)
    BY DEF TypeOK, AuditRecord
  <2>2. audit[i] \in AuditRecord
    BY <2>1
  <2>3. [audit[i] EXCEPT !.action = verdict] \in AuditRecord
    BY <2>2 DEF AuditRecord
  <2>4. audit' = [audit EXCEPT ![i] = [audit[i] EXCEPT !.action = verdict]]
    BY <2>1 DEF Review
  <2> QED BY <2>1, <2>3, <2>4
<1>2. /\ DOMAIN refunds' = DOMAIN refunds
      /\ \A r \in DOMAIN refunds' : refunds'[r] \in Refund
  BY DEF Review, TypeOK, Refund
<1> QED BY <1>1, <1>2 DEF Review, TypeOK, AuditRecord, Refund

\* Every variable keeps its type.
LEMMA TypeInvariant == Spec => [](TypeOK /\ Bound)
<1>1. Init => TypeOK /\ Bound
  BY DEF Init, TypeOK, Bound, Phase, Code
<1>2. TypeOK /\ Bound /\ [Next]_vars => (TypeOK /\ Bound)'
  <2> SUFFICES ASSUME TypeOK, Bound, [Next]_vars PROVE TypeOK' /\ Bound'
    OBVIOUS
  <2>1. ASSUME NEW t \in Turns, NEW o \in Orders, NEW p \in Processes, Begin(t, o, p)
        PROVE  TypeOK' /\ Bound'
    BY <2>1 DEF Begin, TypeOK, Bound, Phase
  <2>2. ASSUME NEW t \in Turns, Submit(t) PROVE TypeOK' /\ Bound'
    BY <2>2, CallType
  <2>3. ASSUME NEW t \in Turns,
               Disconnect(t) \/ LookupFails(t) \/ InsertFails(t) \/ CommitFails(t)
        PROVE  TypeOK' /\ Bound'
    BY <2>3, FaultsType
  <2>4. ASSUME NEW p \in Processes, Crash(p) PROVE TypeOK' /\ Bound'
    BY <2>4, FaultsType
  <2>5. ASSUME NEW i \in DOMAIN audit, NEW verdict \in {"APPROVE", "REJECT"},
               Review(i, verdict)
        PROVE  TypeOK' /\ Bound'
    <3>1. UNCHANGED turn
      BY <2>5 DEF Review
    <3> QED BY <2>5, <3>1, ReviewType DEF Bound
  <2>6. CASE UNCHANGED vars
    BY <2>6 DEF vars, TypeOK, Bound
  <2> QED BY <2>1, <2>2, <2>3, <2>4, <2>5, <2>6 DEF Next
<1> QED BY <1>1, <1>2, PTL DEF Spec

\* The variables of a submission keep their types.
THEOREM TypeCorrect == Spec => []TypeOK
<1> QED BY TypeInvariant, PTL

-----------------------------------------------------------------------------
(* One refund per order                                                    *)

\* The row of an open transaction is that of the turn about to commit it, and
\* the unique index keeps its order to itself.
FlushedFits ==
  /\ \A r \in flushed : At(r.id, "commit") /\ r.order = Order(r.id)
  /\ \A t \in Turns : At(t, "commit") => Row(t, Order(t)) \in flushed
  /\ \A r, s \in flushed : r.order = s.order => r = s
  /\ \A r \in flushed, x \in DOMAIN refunds : refunds[x].order # r.order

\* A refund is that of the turn that inserted it, which is past its commit.
RefundsFit ==
  /\ OneRefundPerOrder
  /\ \A r \in DOMAIN refunds :
       turn[r].phase \in {"notify", "audit", "done"} /\ Order(r) = refunds[r].order
  /\ \A t \in Turns : At(t, "notify") => t \in DOMAIN refunds

RowsFit == FlushedFits /\ RefundsFit

\* A turn goes on without touching the rows of refunds.
LEMMA RowsMove ==
  ASSUME TypeOK, Bound, RowsFit, NEW t \in Turns, turn[t].phase \notin {"idle", "commit"},
         NEW q \in Phase \ {"idle", "commit", "notify"}, Enter(t, q),
         turn[t].phase \in {"notify", "audit", "done"} => q \in {"audit", "done"},
         UNCHANGED <<flushed, refunds>>
  PROVE  RowsFit'
<1>1. /\ turn'[t].phase = q
      /\ \A u \in Turns : /\ u # t => turn'[u] = turn[u]
                          /\ turn'[u].order = turn[u].order
  BY EnterType
<1>2. \A r \in flushed : r.id \in Turns /\ r.id # t
  BY DEF RowsFit, FlushedFits, At, TypeOK
<1>3. DOMAIN refunds \subseteq Turns
  BY DEF TypeOK
<1>4. FlushedFits'
  BY <1>1, <1>2 DEF RowsFit, FlushedFits, At, Order, Row
<1>5. RefundsFit'
  BY <1>1, <1>3 DEF RowsFit, RefundsFit, OneRefundPerOrder, At, Order
<1> QED BY <1>4, <1>5 DEF RowsFit

\* The flush of a row whose order has none.
LEMMA RowsInsert ==
  ASSUME TypeOK, Bound, RowsFit, NEW t \in Turns, At(t, "insert"), Enter(t, "commit"),
         Uncommitted(t) = {}, Existing(t) = {},
         flushed' = flushed \cup {Row(t, Order(t))}, UNCHANGED refunds
  PROVE  RowsFit'
<1>1. /\ turn'[t].phase = "commit"
      /\ \A u \in Turns : /\ u # t => turn'[u] = turn[u]
                          /\ turn'[u].order = turn[u].order
  BY EnterType DEF At, Phase
<1>2. \A r \in flushed : r.id \in Turns /\ r.id # t /\ r.order # Order(t)
  BY DEF RowsFit, FlushedFits, At, TypeOK, Uncommitted
<1>3. \A x \in DOMAIN refunds : x \in Turns /\ x # t /\ refunds[x].order # Order(t)
  BY DEF RowsFit, RefundsFit, At, TypeOK, Existing
<1>4. FlushedFits'
  BY <1>1, <1>2, <1>3 DEF RowsFit, FlushedFits, At, Order, Row
<1>5. RefundsFit'
  BY <1>1, <1>3 DEF RowsFit, RefundsFit, OneRefundPerOrder, At, Order
<1> QED BY <1>4, <1>5 DEF RowsFit

\* The rows of some turns are rolled back, which are over afterwards.
LEMMA RowsDrop ==
  ASSUME TypeOK, RowsFit, NEW lost \in SUBSET Turns,
         flushed' = {r \in flushed : r.id \notin lost}, UNCHANGED refunds,
         \A u \in Turns : /\ turn'[u].order = turn[u].order
                          /\ u \notin lost => turn'[u] = turn[u]
                          /\ u \in lost => turn'[u].phase \in {"audit", "done"}
  PROVE  RowsFit'
<1>1. \A r \in flushed : r.id \in Turns
  BY DEF TypeOK
<1>2. DOMAIN refunds \subseteq Turns
  BY DEF TypeOK
<1>3. FlushedFits'
  BY <1>1 DEF RowsFit, FlushedFits, At, Order, Row
<1>4. RefundsFit'
  BY <1>2 DEF RowsFit, RefundsFit, OneRefundPerOrder, At, Order
<1> QED BY <1>3, <1>4 DEF RowsFit

\* The commit of a row.
LEMMA RowsStore ==
  ASSUME TypeOK, Bound, RowsFit, NEW t \in Turns, At(t, "commit"), Store(t),
         NEW q \in {"notify", "audit"}, Enter(t, q)
  PROVE  RowsFit' /\ t \notin DOMAIN refunds
<1>1. /\ turn'[t].phase = q
      /\ \A u \in Turns : /\ u # t => turn'[u] = turn[u]
                          /\ turn'[u].order = turn[u].order
  BY EnterType DEF At, Phase
<1>2. /\ DOMAIN refunds' = DOMAIN refunds \cup {t}
      /\ refunds'[t] = [order |-> Order(t), status |-> "PENDING"]
      /\ \A r \in DOMAIN refunds \ {t} : refunds'[r] = refunds[r]
  BY StoreType DEF Bound, At, Order
<1>3. /\ Row(t, Order(t)) \in flushed
      /\ flushed' = flushed \ {Row(t, Order(t))}
  BY DEF RowsFit, FlushedFits, Store
<1>4. \A x \in DOMAIN refunds : x \in Turns /\ x # t /\ refunds[x].order # Order(t)
  BY <1>3 DEF RowsFit, FlushedFits, RefundsFit, At, TypeOK, Row
<1>5. \A r \in flushed' : r \in flushed /\ r.id \in Turns /\ r.id # t /\ r.order # Order(t)
  BY <1>3 DEF RowsFit, FlushedFits, Row, TypeOK
<1>6. FlushedFits'
  BY <1>1, <1>2, <1>3, <1>4, <1>5 DEF RowsFit, FlushedFits, At, Order, Row
<1>7. RefundsFit'
  BY <1>1, <1>2, <1>4 DEF RowsFit, RefundsFit, OneRefundPerOrder, At, Order
<1> QED BY <1>4, <1>6, <1>7 DEF RowsFit

\* Every step keeps the rows as they should be.
LEMMA RowsStep == TypeOK /\ Bound /\ RowsFit /\ [Next]_vars => RowsFit'
<1> SUFFICES ASSUME TypeOK, Bound, RowsFit, [Next]_vars PROVE RowsFit'
  OBVIOUS
<1> USE DEF Phase
<1>1. ASSUME NEW t \in Turns, NEW o \in Orders, NEW p \in Processes, Begin(t, o, p)
      PROVE  RowsFit'
  <2>1. /\ turn[t].phase = "idle" /\ turn'[t].phase = "route"
        /\ \A u \in Turns : u # t => turn'[u] = turn[u]
        /\ UNCHANGED <<flushed, refunds>>
    BY <1>1 DEF Begin, At, TypeOK
  <2>2. \A r \in flushed : r.id \in Turns /\ r.id # t
    BY <2>1 DEF RowsFit, FlushedFits, At, TypeOK
  <2>3. \A r \in DOMAIN refunds : r \in Turns /\ r # t
    BY <2>1 DEF RowsFit, RefundsFit, TypeOK
  <2>4. FlushedFits'
    BY <2>1, <2>2 DEF RowsFit, FlushedFits, At, Order, Row
  <2>5. RefundsFit'
    BY <2>1, <2>3 DEF RowsFit, RefundsFit, OneRefundPerOrder, At, Order
  <2> QED BY <2>4, <2>5 DEF RowsFit
<1>2. ASSUME NEW t \in Turns,
             \/ Route(t) \/ Guard(t) \/ CheckExisting(t) \/ CheckEligible(t)
             \/ Remember(t) \/ RecordCall(t) \/ LookupFails(t) \/ InsertFails(t)
      PROVE  RowsFit'
  <2>1. \E q \in Phase \ {"idle", "commit", "notify"} :
          /\ Enter(t, q) /\ UNCHANGED <<flushed, refunds>>
          /\ turn[t].phase \notin {"idle", "commit"}
          /\ turn[t].phase \in {"notify", "audit", "done"} => q \in {"audit", "done"}
    BY <1>2 DEF Route, Guard, CheckExisting, CheckEligible, Remember, RecordCall,
                LookupFails, InsertFails, At, End
  <2> QED BY <2>1, RowsMove
<1>3. ASSUME NEW t \in Turns, Insert(t) PROVE RowsFit'
  <2>1. CASE /\ Existing(t) = {} /\ flushed' = flushed \cup {Row(t, Order(t))}
             /\ Enter(t, "commit")
    BY <1>3, <2>1, RowsInsert DEF Insert
  <2>2. CASE /\ \E r \in Existing(t) : End(t, "ALREADY_EXISTS", r, "audit")
             /\ UNCHANGED flushed
    BY <1>3, <2>2, RowsMove DEF Insert, End, At
  <2> QED BY <1>3, <2>1, <2>2 DEF Insert
<1>4. ASSUME NEW t \in Turns, Commit(t) PROVE RowsFit'
  BY <1>4, RowsStore DEF Commit
<1>5. ASSUME NEW t \in Turns, CommitFails(t) PROVE RowsFit'
  <2>1. CASE Store(t)
    BY <1>5, <2>1, RowsStore DEF CommitFails, End
  <2>2. CASE flushed' = flushed \ {Row(t, Order(t))} /\ UNCHANGED refunds
    <3>1. At(t, "commit") /\ Enter(t, "audit")
      BY <1>5 DEF CommitFails, End
    <3>2. flushed' = {r \in flushed : r.id \notin {t}}
      BY <2>2, <3>1 DEF RowsFit, FlushedFits, Row, TypeOK
    <3>3. \A u \in Turns : /\ turn'[u].order = turn[u].order
                           /\ u \notin {t} => turn'[u] = turn[u]
                           /\ u \in {t} => turn'[u].phase \in {"audit", "done"}
      BY <3>1, EnterType DEF At
    <3> QED BY <2>2, <3>2, <3>3, RowsDrop
  <2> QED BY <1>5, <2>1, <2>2 DEF CommitFails
<1>6. ASSUME NEW t \in Turns, Disconnect(t) PROVE RowsFit'
  <2>1. \A u \in Turns : /\ turn'[u].order = turn[u].order
                         /\ u \notin {t} => turn'[u] = turn[u]
                         /\ u \in {t} => turn'[u].phase \in {"audit", "done"}
    BY <1>6, EnterType DEF Disconnect
  <2>2. flushed' = {r \in flushed : r.id \notin {t}} /\ UNCHANGED refunds
    BY <1>6 DEF Disconnect
  <2> QED BY <2>1, <2>2, RowsDrop
<1>7. ASSUME NEW p \in Processes, Crash(p) PROVE RowsFit'
  <2> DEFINE lost == {t \in Turns : turn[t].process = p /\ turn[t].phase # "done"}
  <2>1. \A u \in Turns : /\ turn'[u].order = turn[u].order
                         /\ u \notin lost => turn'[u] = turn[u]
                         /\ u \in lost => turn'[u].phase \in {"audit", "done"}
    <3> SUFFICES ASSUME NEW u \in Turns
                 PROVE  /\ turn'[u].order = turn[u].order
                        /\ u \notin lost => turn'[u] = turn[u]
                        /\ u \in lost => turn'[u].phase \in {"audit", "done"}
      OBVIOUS
    <3>1. turn'[u] = IF u \in lost THEN [turn[u] EXCEPT !.phase = "done"] ELSE turn[u]
      BY <1>7 DEF Crash
    <3> QED BY <3>1, TurnFields DEF TurnRecord
  <2>2. flushed' = {r \in flushed : r.id \notin lost} /\ UNCHANGED refunds
    BY <1>7 DEF Crash
  <2>3. lost \in SUBSET Turns
    OBVIOUS
  <2> HIDE DEF lost
  <2> QED BY <2>1, <2>2, <2>3, RowsDrop
<1>8. ASSUME NEW i \in DOMAIN audit, NEW verdict \in {"APPROVE", "REJECT"}, Review(i, verdict)
      PROVE  RowsFit'
  <2>1. /\ DOMAIN refunds' = DOMAIN refunds
        /\ \A r \in DOMAIN refunds : refunds'[r].order = refunds[r].order
        /\ UNCHANGED <<turn, flushed>>
    BY <1>8 DEF Review, TypeOK
  <2> QED BY <2>1 DEF RowsFit, FlushedFits, RefundsFit, OneRefundPerOrder, At, Order, Row
<1>9. CASE UNCHANGED vars
  BY <1>9 DEF vars, RowsFit, FlushedFits, RefundsFit, OneRefundPerOrder, At, Order, Row
<1> QED BY <1>1, <1>2, <1>3, <1>4, <1>5, <1>6, <1>7, <1>8, <1>9 DEF Next, Submit

LEMMA RowsInvariant == Spec => []RowsFit
<1>1. Init => RowsFit
  BY DEF Init, RowsFit, FlushedFits, RefundsFit, OneRefundPerOrder, At, Order, Row
<1> QED BY <1>1, RowsStep, TypeInvariant, PTL DEF Spec

\* Whatever turns race in however many processes, and whichever commit goes
\* unconfirmed, an order never has two refunds (create_refund_application).
THEOREM NeverTwoRefunds == Spec => []OneRefundPerOrder
<1>1. RowsFit => OneRefundPerOrder
  BY DEF RowsFit, RefundsFit
<1> QED BY <1>1, RowsInvariant, PTL

-----------------------------------------------------------------------------
(* Answers name the refund of their order                                  *)

\* Refunds are never deleted, and keep their order.
Grows == \A r \in DOMAIN refunds :
           r \in DOMAIN refunds' /\ refunds'[r].order = refunds[r].order

\* id is a refund of order o.
RefundOf(o, id) == id \in DOMAIN refunds /\ refunds[id].order = o

\* The call of the turn is over.
Over(t) == turn[t].phase \in {"audit", "done"}

AnswersFit ==
  /\ AnswersNameTheRefund
  /\ \A t \in Turns : /\ ~Over(t) => outcome[t].refund = None
                      /\ outcome[t].code = "REFUND_SUBMITTED" => outcome[t].refund # None
  /\ \A p \in Processes, o \in Orders :
       cache[p][o] # None => RefundOf(o, cache[p][o])

LEMMA GrowsStep == TypeOK /\ Bound /\ RowsFit /\ [Next]_vars => Grows
<1> SUFFICES ASSUME TypeOK, Bound, RowsFit, [Next]_vars PROVE Grows
  OBVIOUS
<1>1. ASSUME NEW t \in Turns, At(t, "commit"), Store(t), Enter(t, "notify") \/ Enter(t, "audit")
      PROVE  Grows
  <2>1. t \notin DOMAIN refunds
    BY <1>1, RowsStore
  <2> QED BY <1>1, <2>1 DEF Store, Grows
<1>2. CASE UNCHANGED refunds
  BY <1>2 DEF Grows
<1>3. ASSUME NEW i \in DOMAIN audit, NEW verdict \in {"APPROVE", "REJECT"}, Review(i, verdict)
      PROVE  Grows
  BY <1>3, SMTT(30) DEF Review, Grows, TypeOK
<1> QED BY <1>1, <1>2, <1>3
        DEF Next, Begin, Submit, Route, Guard, CheckExisting, CheckEligible, Insert, Commit,
            Remember, RecordCall, Disconnect, LookupFails, InsertFails, CommitFails, Crash,
            End, vars

\* A turn that has begun stays with its order, and when over, it stays over.
LEMMA OrderStays ==
  ASSUME TypeOK, Bound, [Next]_vars, NEW t \in Turns, turn[t].phase # "idle"
  PROVE  /\ turn'[t].phase # "idle" /\ turn'[t].order = turn[t].order
         /\ Over(t) => Over(t)'
<1> USE DEF Phase, Over
<1>1. ASSUME NEW u \in Turns, NEW q \in Phase \ {"idle"}, Enter(u, q),
             Over(u) => q \in {"audit", "done"}
      PROVE  /\ turn'[t].phase # "idle" /\ turn'[t].order = turn[t].order
             /\ Over(t) => Over(t)'
  BY <1>1, TurnFields DEF Enter, TurnRecord, TypeOK
<1>2. ASSUME NEW u \in Turns, NEW o \in Orders, NEW p \in Processes, Begin(u, o, p)
      PROVE  turn'[t] = turn[t]
  BY <1>2 DEF Begin, At, TypeOK
<1>3. ASSUME NEW p \in Processes, Crash(p)
      PROVE  /\ turn'[t].phase # "idle" /\ turn'[t].order = turn[t].order
             /\ Over(t) => Over(t)'
  BY <1>3, TurnFields DEF Crash, TurnRecord
<1>4. CASE UNCHANGED turn
  BY <1>4, SMTT(30)
<1> QED BY <1>1, <1>2, <1>3, <1>4
        DEF Next, Submit, Route, Guard, CheckExisting, CheckEligible, Insert, Commit,
            Remember, RecordCall, Disconnect, LookupFails, InsertFails, CommitFails,
            Review, End, At, vars

\* A call that ends names a refund of its order, or none.
LEMMA OutcomeStep ==
  ASSUME TypeOK, Bound, RowsFit, AnswersFit, [Next]_vars, NEW t \in Turns
  PROVE  \/ outcome'[t] = outcome[t]
         \/ /\ turn[t].phase # "idle" /\ ~Over(t) /\ Over(t)'
            /\ \/ outcome'[t].refund = None /\ outcome'[t].code # "REFUND_SUBMITTED"
               \/ outcome'[t].refund # None /\ RefundOf(Order(t), outcome'[t].refund)
<1> USE DEF Phase, Code
<1> DEFINE Ends(u) == turn[u].phase # "idle" /\ ~Over(u) /\ Over(u)'
           Fits(u) == \/ outcome'[u].refund = None /\ outcome'[u].code # "REFUND_SUBMITTED"
                      \/ outcome'[u].refund # None /\ RefundOf(Order(u), outcome'[u].refund)
<1>0. ASSUME NEW u \in Turns, turn[u].phase # "idle", ~Over(u), NEW q \in {"audit", "done"},
             Enter(u, q)
      PROVE  Ends(u)
  BY <1>0, EnterType DEF Over
<1>1. \A u \in Turns : \A r \in Existing(u) : r \in Turns /\ RefundOf(Order(u), r)
  BY DEF Existing, TypeOK, RefundOf
<1>2. ASSUME NEW u \in Turns, turn[u].phase # "idle", ~Over(u), NEW q \in {"audit", "done"},
             \/ \E r \in Existing(u) : End(u, "SHORT_CIRCUIT", r, q) \/ End(u, "ALREADY_EXISTS", r, q)
             \/ End(u, "BUSINESS_REJECTED", None, q)
             \/ End(u, "SYSTEM_ERROR", None, q)
      PROVE  outcome'[t] = outcome[t] \/ (Ends(t) /\ Fits(t))
  <2>1. PICK id \in Turns \cup {None}, code \in Code \ {"REFUND_SUBMITTED"} :
          End(u, code, id, q) /\ (id # None => RefundOf(Order(u), id))
    BY <1>1, <1>2
  <2>2. Ends(u)
    BY <1>0, <1>2, <2>1 DEF End
  <2> QED BY <2>1, <2>2, EndType
<1>3. ASSUME NEW u \in Turns, Guard(u)
      PROVE  outcome'[t] = outcome[t] \/ (Ends(t) /\ Fits(t))
  <2> DEFINE id == cache[turn[u].process][Order(u)]
  <2>1. turn[u].phase # "idle" /\ turn[u].process \in Processes /\ Order(u) \in Orders
    BY <1>3 DEF Guard, At, Bound, Order
  <2>2. id \in Turns \cup {None} /\ (id # None => RefundOf(Order(u), id))
    BY <2>1 DEF AnswersFit, TypeOK
  <2>3. CASE id # None /\ End(u, "REFUND_SUBMITTED", id, "audit")
    <3> HIDE DEF id
    <3>1. Ends(u)
      BY <1>0, <1>3, <2>1, <2>3 DEF End, Guard, At, Over
    <3> QED BY <2>2, <2>3, <3>1, EndType
  <2> QED BY <1>3, <2>3 DEF Guard
<1>4. ASSUME NEW u \in Turns, Remember(u)
      PROVE  outcome'[t] = outcome[t] \/ (Ends(t) /\ Fits(t))
  <2>1. RefundOf(Order(u), u) /\ u # None /\ turn[u].phase # "idle"
    BY <1>4 DEF Remember, At, RowsFit, RefundsFit, RefundOf
  <2>2. Ends(u)
    BY <1>0, <1>4, <2>1 DEF End, Remember, At, Over
  <2> QED BY <1>4, <2>1, <2>2, EndType DEF Remember
<1>5. CASE UNCHANGED outcome
  BY <1>5
<1> QED BY <1>2, <1>3, <1>4, <1>5
        DEF Next, Begin, Submit, Route, CheckExisting, CheckEligible, Insert, Commit,
            RecordCall, Disconnect, LookupFails, InsertFails, CommitFails, Crash, Review,
            At, Over, vars

\* A cache learns a refund of the order it is kept under, or forgets.
LEMMA CacheStep ==
  ASSUME TypeOK, Bound, RowsFit, [Next]_vars, NEW p \in Processes, NEW o \in Orders
  PROVE  \/ cache'[p][o] \in {cache[p][o], None}
         \/ RefundOf(o, cache'[p][o])
<1>1. ASSUME NEW t \in Turns, Remember(t)
      PROVE  cache'[p][o] = cache[p][o] \/ RefundOf(o, cache'[p][o])
  <2>1. RefundOf(Order(t), t)
    BY <1>1 DEF Remember, At, RowsFit, RefundsFit, RefundOf
  <2> QED BY <1>1, <2>1 DEF Remember, TypeOK
<1>2. ASSUME NEW q \in Processes, Crash(q) PROVE cache'[p][o] \in {cache[p][o], None}
  BY <1>2 DEF Crash, TypeOK
<1>3. CASE UNCHANGED cache
  BY <1>3
<1> QED BY <1>1, <1>2, <1>3
        DEF Next, Begin, Submit, Route, Guard, CheckExisting, CheckEligible, Insert, Commit,
            RecordCall, Disconnect, LookupFails, InsertFails, CommitFails, Review, vars

LEMMA AnswersStep ==
  TypeOK /\ Bound /\ RowsFit /\ AnswersFit /\ [Next]_vars => AnswersFit'
<1> SUFFICES ASSUME TypeOK, Bound, RowsFit, AnswersFit, [Next]_vars PROVE AnswersFit'
  OBVIOUS
<1>1. Grows
  BY GrowsStep
<1>2. ASSUME NEW t \in Turns
      PROVE  /\ outcome'[t].refund # None =>
                  /\ outcome'[t].refund \in DOMAIN refunds'
                  /\ refunds'[outcome'[t].refund].order = turn'[t].order
             /\ ~Over(t)' => outcome'[t].refund = None
             /\ outcome'[t].code = "REFUND_SUBMITTED" => outcome'[t].refund # None
  <2>1. CASE turn[t].phase = "idle"
    BY <2>1, OutcomeStep DEF AnswersFit, Over
  <2>2. CASE turn[t].phase # "idle"
    <3>1. turn'[t].order = Order(t) /\ (Over(t) => Over(t)')
      BY <2>2, OrderStays DEF Order
    <3>2. CASE outcome'[t] = outcome[t]
      BY <1>1, <3>1, <3>2 DEF AnswersFit, AnswersNameTheRefund, Grows
    <3>3. CASE outcome'[t].refund = None /\ outcome'[t].code # "REFUND_SUBMITTED"
      BY <3>1, <3>3
    <3>4. CASE outcome'[t].refund # None /\ Over(t)' /\ RefundOf(Order(t), outcome'[t].refund)
      BY <1>1, <3>1, <3>4 DEF RefundOf, Grows
    <3> QED BY <3>2, <3>3, <3>4, OutcomeStep
  <2> QED BY <2>1, <2>2
<1>3. ASSUME NEW p \in Processes, NEW o \in Orders, cache'[p][o] # None
      PROVE  cache'[p][o] \in DOMAIN refunds' /\ refunds'[cache'[p][o]].order = o
  BY <1>1, <1>3, CacheStep DEF AnswersFit, RefundOf, Grows
<1> QED BY <1>2, <1>3 DEF AnswersFit, AnswersNameTheRefund, RefundOf, Over, Order

LEMMA AnswersInvariant == Spec => []AnswersFit
<1>1. Init => AnswersFit
  BY DEF Init, AnswersFit, AnswersNameTheRefund
<1> QED BY <1>1, AnswersStep, TypeInvariant, RowsInvariant, PTL DEF Spec

\* Fresh, looked up, or replayed from the cache of a process: the refund a user
\* is told is that of the order they asked about (node_submit, ToolRegistry).
THEOREM AnswersAreRight == Spec => []AnswersNameTheRefund
<1>1. AnswersFit => AnswersNameTheRefund
  BY DEF AnswersFit
<1> QED BY <1>1, AnswersInvariant, PTL

-----------------------------------------------------------------------------
(* The review queue                                                        *)

\* The rows of the thread: a case each for the refunds and for nothing else, and
\* whatever names a refund names that of its order, which is approved if the row
\* says so.
Filed == \A r \in DOMAIN refunds :
           \E i \in DOMAIN audit : \A j \in DOMAIN audit :
             audit[j].kind = "case" /\ audit[j].refund = r <=> i = j

RowFits(row) ==
  /\ row.refund # None => RefundOf(row.order, row.refund)
  /\ row.kind = "case" \/ row.action # "REJECT" => row.refund # None
  /\ row.action = "APPROVE" => refunds[row.refund].status = "APPROVED"

AuditFits == Filed /\ \A i \in DOMAIN audit : RowFits(audit[i])

\* The transaction of the tool is committed: a refund, and its case with it.
LEMMA AuditStore ==
  ASSUME TypeOK, Bound, RowsFit, AuditFits, NEW t \in Turns, At(t, "commit"), Store(t),
         Enter(t, "notify") \/ Enter(t, "audit")
  PROVE  AuditFits'
<1> DEFINE row == AuditRow("case", t, Order(t), "PENDING")
           n == Len(audit) + 1
<1>1. t \notin DOMAIN refunds /\ t # None
  BY RowsStore
<1>2. /\ DOMAIN refunds' = DOMAIN refunds \cup {t}
      /\ refunds'[t] = [order |-> Order(t), status |-> "PENDING"]
      /\ \A r \in DOMAIN refunds : refunds'[r] = refunds[r]
      /\ Len(audit') = n /\ audit'[n] = row
      /\ \A i \in 1 .. Len(audit) : audit'[i] = audit[i]
      /\ audit' \in Seq(AuditRecord)
  BY <1>1, StoreType, ZenonT(60) DEF At, Bound, Order
<1>3. /\ DOMAIN audit = 1 .. Len(audit) /\ Len(audit) \in Nat
      /\ DOMAIN audit' = 1 .. n /\ n \in DOMAIN audit'
      /\ \A i \in DOMAIN audit' : i = n \/ i \in DOMAIN audit
  BY <1>2 DEF TypeOK
<1>4. row.kind = "case" /\ row.refund = t /\ row.order = Order(t) /\ row.action = "PENDING"
  BY DEF AuditRow
<1> HIDE DEF row, n
<1>5. \A i \in DOMAIN audit : audit'[i] = audit[i] /\ i # n /\ audit[i].refund # t
  BY <1>1, <1>2, <1>3 DEF AuditFits, RowFits, RefundOf, n
<1>6. ASSUME NEW r \in DOMAIN refunds'
      PROVE  \E i \in DOMAIN audit' : \A j \in DOMAIN audit' :
               audit'[j].kind = "case" /\ audit'[j].refund = r <=> i = j
  <2>1. CASE r = t
    BY <1>2, <1>3, <1>4, <1>5, <2>1
  <2>2. CASE r \in DOMAIN refunds
    <3>1. PICK i \in DOMAIN audit : \A j \in DOMAIN audit :
            audit[j].kind = "case" /\ audit[j].refund = r <=> i = j
      BY <2>2 DEF AuditFits, Filed
    <3>2. i \in DOMAIN audit' /\ i # n
      BY <1>3, <1>5
    <3>3. ASSUME NEW j \in DOMAIN audit'
          PROVE  audit'[j].kind = "case" /\ audit'[j].refund = r <=> i = j
      <4>1. CASE j = n
        BY <1>1, <1>2, <1>4, <2>2, <3>2, <4>1
      <4>2. CASE j \in DOMAIN audit
        BY <1>2, <1>3, <3>1, <4>2
      <4> QED BY <1>3, <4>1, <4>2
    <3> QED BY <3>2, <3>3
  <2> QED BY <1>2, <2>1, <2>2
<1>7. ASSUME NEW i \in DOMAIN audit'
      PROVE  /\ audit'[i].refund # None =>
                  /\ audit'[i].refund \in DOMAIN refunds'
                  /\ refunds'[audit'[i].refund].order = audit'[i].order
             /\ audit'[i].kind = "case" \/ audit'[i].action # "REJECT" => audit'[i].refund # None
             /\ audit'[i].action = "APPROVE" => refunds'[audit'[i].refund].status = "APPROVED"
  <2>1. CASE i = n
    BY <1>1, <1>2, <1>4, <2>1
  <2>2. CASE i \in DOMAIN audit
    BY <1>2, <1>5, <2>2 DEF AuditFits, RowFits, RefundOf
  <2> QED BY <1>3, <2>1, <2>2
<1> QED BY <1>6, <1>7 DEF AuditFits, Filed, RowFits, RefundOf

\* A row for the call of a tool.
LEMMA AuditAppend ==
  ASSUME TypeOK, AuditFits, UNCHANGED refunds, NEW row \in AuditRecord,
         row.kind = "tool", RowFits(row), audit' = Append(audit, row)
  PROVE  AuditFits'
<1> DEFINE n == Len(audit) + 1
<1>1. /\ DOMAIN audit = 1 .. Len(audit) /\ Len(audit) \in Nat
      /\ DOMAIN audit' = 1 .. n /\ n \in DOMAIN audit' /\ audit'[n] = row
      /\ \A i \in DOMAIN audit' : i = n \/ i \in DOMAIN audit
      /\ \A i \in DOMAIN audit : audit'[i] = audit[i] /\ i # n
  BY AppendType DEF TypeOK
<1> HIDE DEF n
<1>2. ASSUME NEW r \in DOMAIN refunds
      PROVE  \E i \in DOMAIN audit' : \A j \in DOMAIN audit' :
               audit'[j].kind = "case" /\ audit'[j].refund = r <=> i = j
  <2>1. PICK i \in DOMAIN audit : \A j \in DOMAIN audit :
          audit[j].kind = "case" /\ audit[j].refund = r <=> i = j
    BY DEF AuditFits, Filed
  <2>2. i \in DOMAIN audit' /\ i # n
    BY <1>1
  <2>3. ASSUME NEW j \in DOMAIN audit'
        PROVE  audit'[j].kind = "case" /\ audit'[j].refund = r <=> i = j
    <3>1. CASE j = n
      BY <1>1, <2>2, <3>1
    <3>2. CASE j \in DOMAIN audit
      BY <1>1, <2>1, <3>2
    <3> QED BY <1>1, <3>1, <3>2
  <2> QED BY <2>2, <2>3
<1>3. \A i \in DOMAIN audit' : RowFits(audit'[i])
  BY <1>1 DEF AuditFits
<1> QED BY <1>2, <1>3 DEF AuditFits, Filed, RowFits, RefundOf

\* A verdict over a row that is open, for a refund that is.
LEMMA AuditReview ==
  ASSUME TypeOK, AuditFits, NEW i \in DOMAIN audit, NEW verdict \in {"APPROVE", "REJECT"},
         Review(i, verdict)
  PROVE  AuditFits'
<1> DEFINE r == audit[i].refund
<1>1. /\ r \in DOMAIN refunds /\ refunds[r].status = "PENDING"
      /\ audit[i].action = "PENDING"
      /\ DOMAIN refunds' = DOMAIN refunds
      /\ \A x \in DOMAIN refunds : /\ refunds'[x].order = refunds[x].order
                                   /\ x # r => refunds'[x] = refunds[x]
      /\ verdict = "APPROVE" => refunds'[r].status = "APPROVED"
  BY DEF Review, TypeOK
<1>2. /\ DOMAIN audit' = DOMAIN audit
      /\ audit'[i].action = verdict
      /\ \A j \in DOMAIN audit : /\ audit'[j].kind = audit[j].kind
                                 /\ audit'[j].refund = audit[j].refund
                                 /\ audit'[j].order = audit[j].order
                                 /\ j # i => audit'[j] = audit[j]
  <2>1. audit \in Seq(AuditRecord) /\ DOMAIN audit = 1 .. Len(audit)
    BY DEF TypeOK, AuditRecord
  <2>2. audit[i] \in AuditRecord
    BY <2>1
  <2>3. audit' = [audit EXCEPT ![i] = [audit[i] EXCEPT !.action = verdict]]
    BY <2>1 DEF Review
  <2>4. DOMAIN audit' = DOMAIN audit /\ audit'[i] = [audit[i] EXCEPT !.action = verdict]
        /\ \A j \in DOMAIN audit : j # i => audit'[j] = audit[j]
    BY <2>1, <2>3
  <2> QED BY <2>2, <2>4 DEF AuditRecord
<1>3. r # None
  BY <1>1 DEF TypeOK
<1> HIDE DEF r
<1>4. Filed'
  BY <1>1, <1>2 DEF AuditFits, Filed
<1>5. ASSUME NEW j \in DOMAIN audit
      PROVE  /\ audit'[j].refund # None =>
                  /\ audit'[j].refund \in DOMAIN refunds'
                  /\ refunds'[audit'[j].refund].order = audit'[j].order
             /\ audit'[j].kind = "case" \/ audit'[j].action # "REJECT" => audit'[j].refund # None
             /\ audit'[j].action = "APPROVE" => refunds'[audit'[j].refund].status = "APPROVED"
  <2>1. RowFits(audit[j])
    BY DEF AuditFits
  <2>2. CASE j = i
    BY <1>1, <1>2, <1>3, <2>1, <2>2 DEF RowFits, RefundOf, r
  <2>3. CASE j # i
    BY <1>1, <1>2, <2>1, <2>3 DEF RowFits, RefundOf
  <2> QED BY <2>2, <2>3
<1> QED BY <1>2, <1>4, <1>5 DEF AuditFits, RowFits, RefundOf

LEMMA AuditStep ==
  TypeOK /\ Bound /\ RowsFit /\ AnswersFit /\ AuditFits /\ [Next]_vars => AuditFits'
<1> SUFFICES ASSUME TypeOK, Bound, RowsFit, AnswersFit, AuditFits, [Next]_vars
             PROVE  AuditFits'
  OBVIOUS
<1>1. ASSUME NEW t \in Turns, Commit(t) PROVE AuditFits'
  BY <1>1, AuditStore DEF Commit
<1>2. ASSUME NEW t \in Turns, CommitFails(t), Store(t) PROVE AuditFits'
  BY <1>2, AuditStore DEF CommitFails, End
<1>3. ASSUME NEW t \in Turns, RecordCall(t), UNCHANGED faults PROVE AuditFits'
  <2> DEFINE row == AuditRow("tool", outcome[t].refund, Order(t),
                             IF outcome[t].code = "REFUND_SUBMITTED" THEN "PENDING" ELSE "REJECT")
  <2>1. turn[t].phase # "idle" /\ Order(t) \in Orders
    BY <1>3 DEF RecordCall, At, Bound, Order
  <2>2. row \in AuditRecord
    BY <2>1, TurnFields DEF AuditRow, AuditRecord, Outcome
  <2>3. row.kind = "tool" /\ RowFits(row)
    BY DEF AnswersFit, AnswersNameTheRefund, RowFits, RefundOf, AuditRow
  <2>4. audit' = Append(audit, row) \/ UNCHANGED audit
    BY <1>3 DEF RecordCall
  <2>5. UNCHANGED refunds
    BY <1>3 DEF RecordCall
  <2> HIDE DEF row
  <2> QED BY <2>2, <2>3, <2>4, <2>5, AuditAppend DEF AuditFits, Filed, RowFits, RefundOf
<1>4. ASSUME NEW i \in DOMAIN audit, NEW verdict \in {"APPROVE", "REJECT"}, Review(i, verdict)
      PROVE  AuditFits'
  BY <1>4, AuditReview
<1>5. CASE UNCHANGED <<refunds, audit>>
  BY <1>5 DEF AuditFits, Filed, RowFits, RefundOf
<1> QED BY <1>1, <1>2, <1>3, <1>4, <1>5
        DEF Next, Begin, Submit, Route, Guard, CheckExisting, CheckEligible, Insert,
            Remember, RecordCall, Disconnect, LookupFails, InsertFails, CommitFails, Crash,
            End, vars

\* The inductive invariant of a submission.
SubmissionInv == TypeOK /\ Bound /\ RowsFit /\ AnswersFit /\ AuditFits

LEMMA SubmissionInvariant == Spec => []SubmissionInv
<1>1. Init => AuditFits
  BY DEF Init, AuditFits, Filed
<1> QED BY <1>1, AuditStep, TypeInvariant, RowsInvariant, AnswersInvariant, PTL
        DEF Spec, SubmissionInv

\* Every refund has exactly one case from its commit on, and every open task
\* belongs to a refund (audit.py, admin_decision).
THEOREM QueueIsRight == Spec => []QueueMatchesRefunds
<1>1. SubmissionInv => QueueMatchesRefunds
  BY DEF SubmissionInv, AuditFits, Filed, RowFits, RefundOf, QueueMatchesRefunds
<1> QED BY <1>1, SubmissionInvariant, PTL

\* The endpoint says APPROVED only of an approved refund, whichever of the rows
\* of the thread is its newest (get_thread_status).
THEOREM ApprovalIsReal == Spec => []ShownApprovalIsReal
<1>1. ASSUME SubmissionInv, Shown = "APPROVED", NEW r \in DOMAIN refunds,
             refunds[r].order = Last(audit).order
      PROVE  refunds[r].status = "APPROVED"
  <2>1. audit # <<>> /\ Len(audit) \in DOMAIN audit /\ Last(audit) = audit[Len(audit)]
    BY <1>1 DEF Shown, Last, SubmissionInv, TypeOK
  <2>2. audit[Len(audit)] \in AuditRecord
    <3>1. audit \in Seq(AuditRecord)
      BY <1>1 DEF SubmissionInv, TypeOK, AuditRecord
    <3> QED BY <2>1, <3>1
  <2>3. Last(audit).action = "APPROVE"
    BY <1>1, <2>1, <2>2 DEF Shown, AuditRecord
  <2>4. /\ RefundOf(Last(audit).order, Last(audit).refund)
        /\ refunds[Last(audit).refund].status = "APPROVED"
    BY <1>1, <2>1, <2>3 DEF SubmissionInv, AuditFits, RowFits
  <2> QED BY <1>1, <2>4 DEF SubmissionInv, RowsFit, RefundsFit, OneRefundPerOrder, RefundOf
<1>2. SubmissionInv => ShownApprovalIsReal
  BY <1>1 DEF ShownApprovalIsReal
<1> QED BY <1>2, SubmissionInvariant, PTL

-----------------------------------------------------------------------------
(* The refinement of RefundCase                                            *)

\* The case of an order is the status of its one refund.
CaseFits ==
  \A o \in Orders :
    /\ \A r \in DOMAIN refunds : refunds[r].order = o => CaseOf(o) = refunds[r].status
    /\ (\A r \in DOMAIN refunds : refunds[r].order # o) => CaseOf(o) = "NONE"

LEMMA CaseIs == SubmissionInv => CaseFits
<1> SUFFICES ASSUME SubmissionInv, NEW o \in Orders
             PROVE  /\ \A r \in DOMAIN refunds :
                         refunds[r].order = o => CaseOf(o) = refunds[r].status
                    /\ (\A r \in DOMAIN refunds : refunds[r].order # o) => CaseOf(o) = "NONE"
  BY DEF CaseFits
<1> DEFINE filed == {r \in DOMAIN refunds :
                       /\ refunds[r].order = o
                       /\ \E i \in DOMAIN audit : /\ audit[i].kind = "case"
                                                  /\ audit[i].refund = r}
<1>1. filed = {r \in DOMAIN refunds : refunds[r].order = o}
  BY DEF SubmissionInv, AuditFits, Filed
<1>2. CaseOf(o) = IF filed = {} THEN "NONE" ELSE refunds[CHOOSE r \in filed : TRUE].status
  BY DEF CaseOf
<1>3. \A r \in DOMAIN refunds : refunds[r].order = o => filed = {r}
  BY <1>1 DEF SubmissionInv, RowsFit, RefundsFit, OneRefundPerOrder
<1> HIDE DEF filed
<1>4. ASSUME NEW r \in DOMAIN refunds, refunds[r].order = o
      PROVE  CaseOf(o) = refunds[r].status
  <2>1. filed = {r}
    BY <1>3, <1>4
  <2> QED BY <1>2, <2>1
<1>5. ASSUME \A r \in DOMAIN refunds : refunds[r].order # o PROVE CaseOf(o) = "NONE"
  <2>1. filed = {}
    BY <1>1, <1>5
  <2> QED BY <1>2, <2>1
<1> QED BY <1>4, <1>5

\* At most one turn's call ends in a step, and then no refund changes, unless the
\* call fails.
LEMMA OneSpeaks ==
  ASSUME TypeOK, [Next]_vars
  PROVE  \/ UNCHANGED outcome
         \/ \E w \in Turns : /\ \A u \in Turns \ {w} : outcome'[u] = outcome[u]
                             /\ outcome'[w].refund = None \/ UNCHANGED refunds
<1>1. ASSUME NEW t \in Turns, NEW code, NEW id, NEW q, End(t, code, id, q)
      PROVE  /\ \A u \in Turns \ {t} : outcome'[u] = outcome[u]
             /\ outcome'[t].refund = id
  BY <1>1 DEF End, TypeOK
<1>2. ASSUME NEW t \in Turns, Submit(t) \/ LookupFails(t) \/ InsertFails(t) \/ CommitFails(t)
      PROVE  \/ UNCHANGED outcome
             \/ /\ \A u \in Turns \ {t} : outcome'[u] = outcome[u]
                /\ outcome'[t].refund = None \/ UNCHANGED refunds
  BY <1>1, <1>2 DEF Submit, Route, Guard, CheckExisting, CheckEligible, Insert, Commit,
                    Remember, RecordCall, LookupFails, InsertFails, CommitFails
<1>3. CASE UNCHANGED outcome
  BY <1>3
<1> QED BY <1>2, <1>3 DEF Next, Begin, Disconnect, Crash, Review, vars

\* Users are told of one order more, which has a refund, or of none.
LEMMA ToldStep ==
  ASSUME SubmissionInv, [Next]_vars
  PROVE  \/ ToldOrders' = ToldOrders
         \/ /\ UNCHANGED refunds
            /\ \E o \in Orders : /\ ToldOrders' = ToldOrders \cup {o}
                                 /\ \E r \in DOMAIN refunds : refunds[r].order = o
<1> DEFINE Told(t) == outcome[t].refund # None
<1>1. \A x : x \in ToldOrders <=> \E t \in Turns : Told(t) /\ x = turn[t].order
  BY DEF ToldOrders, Order
<1>2. \A x : x \in ToldOrders' <=>
             \E t \in Turns : outcome'[t].refund # None /\ x = turn'[t].order
  BY DEF ToldOrders, Order
<1>3. ASSUME NEW t \in Turns
      PROVE  /\ Told(t) => turn'[t].order = turn[t].order /\ outcome'[t] = outcome[t]
             /\ outcome'[t].refund # None => turn'[t].order = turn[t].order
             /\ outcome'[t].refund # None /\ ~Told(t) =>
                  turn[t].phase # "idle" /\ RefundOf(turn[t].order, outcome'[t].refund)
  <2>1. /\ Told(t) => Over(t)
        /\ Over(t) => turn[t].phase # "idle"
    BY DEF SubmissionInv, AnswersFit, Over
  <2>2. \/ outcome'[t] = outcome[t]
        \/ /\ turn[t].phase # "idle" /\ ~Over(t)
           /\ \/ outcome'[t].refund = None
              \/ RefundOf(turn[t].order, outcome'[t].refund)
    BY OutcomeStep DEF SubmissionInv, Order
  <2>3. turn[t].phase # "idle" => turn'[t].order = turn[t].order
    BY OrderStays DEF SubmissionInv
  <2> QED BY <2>1, <2>2, <2>3
<1>4. CASE \A t \in Turns : outcome'[t].refund # None => Told(t)
  <2>1. \A x : x \in ToldOrders' <=> x \in ToldOrders
    BY <1>1, <1>2, <1>3, <1>4
  <2> QED BY <2>1
<1>5. ASSUME NEW w \in Turns, outcome'[w].refund # None, ~Told(w)
      PROVE  /\ UNCHANGED refunds
             /\ turn[w].order \in Orders
             /\ ToldOrders' = ToldOrders \cup {turn[w].order}
             /\ \E r \in DOMAIN refunds : refunds[r].order = turn[w].order
  <2>1. UNCHANGED refunds /\ \A u \in Turns \ {w} : outcome'[u] = outcome[u]
    <3>1. ~ UNCHANGED outcome
      BY <1>5
    <3>2. \/ UNCHANGED outcome
          \/ \E v \in Turns : /\ \A u \in Turns \ {v} : outcome'[u] = outcome[u]
                              /\ outcome'[v].refund = None \/ UNCHANGED refunds
      <4>1. TypeOK
        BY DEF SubmissionInv
      <4> HIDE DEF Told
      <4> QED BY <4>1, OneSpeaks
    <3>3. PICK v \in Turns : /\ \A u \in Turns \ {v} : outcome'[u] = outcome[u]
                             /\ outcome'[v].refund = None \/ UNCHANGED refunds
      BY <3>1, <3>2
    <3>4. v = w
      BY <1>5, <3>3
    <3> QED BY <1>5, <3>3, <3>4
  <2>2. turn[w].order \in Orders /\ RefundOf(turn[w].order, outcome'[w].refund)
    BY <1>3, <1>5 DEF SubmissionInv, Bound
  <2>3. \A x : x \in ToldOrders' <=> x \in ToldOrders \/ x = turn[w].order
    BY <1>1, <1>2, <1>3, <1>5, <2>1
  <2> QED BY <2>1, <2>2, <2>3 DEF RefundOf
<1> QED BY <1>4, <1>5

\* A refund and its case appear together, are decided once, and are spoken of
\* only when they are there: a submission looks like RefundCase from outside.
THEOREM SubmissionImplementsCase == Spec => ImplementsRefundCase
<1>1. Init => Case!Init
  <2> SUFFICES ASSUME Init PROVE Case!Init
    OBVIOUS
  <2>1. \A o \in Orders : CaseOf(o) = "NONE"
    BY DEF Init, CaseOf
  <2>2. ToldOrders = {}
    BY DEF Init, ToldOrders
  <2> QED BY <2>1, <2>2 DEF Case!Init
<1>2. SubmissionInv /\ CaseFits /\ CaseFits' /\ [Next]_vars => [Case!Next]_(Case!vars)
  <2> SUFFICES ASSUME SubmissionInv, CaseFits, CaseFits', [Next]_vars
               PROVE  [Case!Next]_(Case!vars)
    OBVIOUS
  <2> DEFINE case == [o \in Orders |-> CaseOf(o)]
             caseNext == [o \in Orders |-> CaseOf(o)']
  <2>1. case' = caseNext
    OBVIOUS
  <2>2. CASE UNCHANGED refunds
    <3>1. ASSUME NEW o \in Orders PROVE CaseOf(o)' = CaseOf(o)
      BY <2>2 DEF CaseFits
    <3>2. caseNext = case
      BY <3>1
    <3>3. CASE ToldOrders' = ToldOrders
      BY <2>1, <3>2, <3>3 DEF Case!vars
    <3>4. ASSUME NEW o \in Orders, ToldOrders' = ToldOrders \cup {o},
                 NEW r \in DOMAIN refunds, refunds[r].order = o
          PROVE  Case!Tell(o)
      <4>1. CaseOf(o) # "NONE"
        BY <3>4 DEF CaseFits, SubmissionInv, TypeOK
      <4> QED BY <2>1, <3>2, <3>4, <4>1 DEF Case!Tell
    <3> QED BY <3>3, <3>4, ToldStep DEF Case!Next
  <2>3. ASSUME NEW t \in Turns, At(t, "commit"), Store(t), Enter(t, "notify") \/ Enter(t, "audit")
        PROVE  \E o \in Orders : Case!File(o)
    <3>1. PICK o \in Orders : o = Order(t)
      BY <2>3 DEF SubmissionInv, Bound, At, Order
    <3>2. t \notin DOMAIN refunds /\ \A r \in DOMAIN refunds : refunds[r].order # o
      <4>1. t \notin DOMAIN refunds
        BY <2>3, RowsStore DEF SubmissionInv
      <4>2. Row(t, o) \in flushed /\ Row(t, o).order = o
        BY <2>3, <3>1 DEF SubmissionInv, RowsFit, FlushedFits, Row
      <4> QED BY <4>1, <4>2 DEF SubmissionInv, RowsFit, FlushedFits
    <3>3. /\ DOMAIN refunds' = DOMAIN refunds \cup {t}
          /\ refunds'[t].order = o /\ refunds'[t].status = "PENDING"
          /\ \A r \in DOMAIN refunds : refunds'[r] = refunds[r]
      <4>1. TypeOK /\ Order(t) \in Orders
        BY <3>1 DEF SubmissionInv
      <4>2. refunds'[t] = [order |-> Order(t), status |-> "PENDING"]
            /\ DOMAIN refunds' = DOMAIN refunds \cup {t}
            /\ \A r \in DOMAIN refunds \ {t} : refunds'[r] = refunds[r]
        BY <2>3, <4>1, StoreType
      <4> QED BY <3>1, <3>2, <4>2
    <3>4. CaseOf(o) = "NONE" /\ CaseOf(o)' = "PENDING"
      BY <3>2, <3>3 DEF CaseFits
    <3>5. ASSUME NEW p \in Orders, p # o PROVE CaseOf(p)' = CaseOf(p)
      <4>1. CASE \E r \in DOMAIN refunds : refunds[r].order = p
        BY <3>3, <4>1 DEF CaseFits
      <4>2. CASE \A r \in DOMAIN refunds : refunds[r].order # p
        <5>1. \A r \in DOMAIN refunds' : refunds'[r].order # p
          BY <3>3, <3>5, <4>2
        <5> QED BY <4>2, <5>1 DEF CaseFits
      <4> QED BY <4>1, <4>2
    <3>6. UNCHANGED ToldOrders
      <4>1. refunds' # refunds
        BY <3>2, <3>3
      <4> QED BY <4>1, ToldStep
    <3>7. caseNext = [case EXCEPT ![o] = "PENDING"] /\ case[o] = "NONE"
      BY <3>4, <3>5
    <3> QED BY <2>1, <3>6, <3>7 DEF Case!File
  <2>4. ASSUME NEW i \in DOMAIN audit, NEW verdict \in {"APPROVE", "REJECT"},
               Review(i, verdict)
        PROVE  [Case!Next]_(Case!vars)
    <3> DEFINE status == IF verdict = "APPROVE" THEN "APPROVED" ELSE "REJECTED"
    <3>1. PICK r \in DOMAIN refunds :
            /\ refunds[r].status = "PENDING"
            /\ DOMAIN refunds' = DOMAIN refunds
            /\ refunds' = [refunds EXCEPT ![r] = [refunds[r] EXCEPT !.status = status]]
      BY <2>4 DEF Review
    <3>2. refunds[r] \in Refund
      BY DEF SubmissionInv, TypeOK, Refund
    <3>3. PICK o \in Orders : o = refunds[r].order
      BY <3>2 DEF Refund
    <3>4. /\ refunds'[r].order = o /\ refunds'[r].status = status
          /\ \A x \in DOMAIN refunds : x # r => refunds'[x] = refunds[x]
      BY <3>1, <3>2, <3>3 DEF Refund
    <3>5. status \in {"APPROVED", "REJECTED"}
      OBVIOUS
    <3> HIDE DEF status
    <3>6. CaseOf(o) = "PENDING" /\ CaseOf(o)' = status
      BY <3>1, <3>3, <3>4 DEF CaseFits
    <3>7. ASSUME NEW p \in Orders, p # o PROVE CaseOf(p)' = CaseOf(p)
      <4>1. CASE \E x \in DOMAIN refunds : refunds[x].order = p
        <5>1. PICK x \in DOMAIN refunds : refunds[x].order = p /\ x # r
          BY <3>3, <3>7, <4>1
        <5>2. x \in DOMAIN refunds' /\ refunds'[x] = refunds[x]
          BY <3>1, <3>4, <5>1
        <5> QED BY <5>1, <5>2 DEF CaseFits
      <4>2. CASE \A x \in DOMAIN refunds : refunds[x].order # p
        <5>1. \A x \in DOMAIN refunds' : refunds'[x].order # p
          BY <3>1, <3>4, <3>7, <4>2
        <5> QED BY <4>2, <5>1 DEF CaseFits
      <4> QED BY <4>1, <4>2
    <3>8. UNCHANGED ToldOrders
      <4>1. refunds' # refunds
        BY <3>1, <3>4, <3>5
      <4> QED BY <4>1, ToldStep
    <3>9. caseNext = [case EXCEPT ![o] = status] /\ case[o] = "PENDING"
      BY <3>6, <3>7
    <3>10. Case!Decide(o, status)
      BY <2>1, <3>8, <3>9 DEF Case!Decide
    <3> QED BY <3>5, <3>10 DEF Case!Next
  <2>5. \/ UNCHANGED refunds
        \/ \E t \in Turns : /\ At(t, "commit") /\ Store(t)
                            /\ Enter(t, "notify") \/ Enter(t, "audit")
        \/ \E i \in DOMAIN audit, verdict \in {"APPROVE", "REJECT"} : Review(i, verdict)
    BY DEF Next, Begin, Submit, Route, Guard, CheckExisting, CheckEligible, Insert,
           Commit, Remember, RecordCall, Disconnect, LookupFails, InsertFails,
           CommitFails, Crash, End, vars
  <2>6. ASSUME NEW t \in Turns, At(t, "commit"), Store(t), Enter(t, "notify") \/ Enter(t, "audit")
        PROVE  [Case!Next]_(Case!vars)
    <3>1. PICK o \in Orders : Case!File(o)
      BY <2>3, <2>6
    <3> QED BY <3>1 DEF Case!Next
  <2> QED BY <2>2, <2>4, <2>5, <2>6
<1> QED BY <1>1, <1>2, SubmissionInvariant, CaseIs, PTL DEF Spec, Case!Spec, ImplementsRefundCase

=============================================================================
