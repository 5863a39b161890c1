--------------------------- MODULE ConversationTurn ---------------------------
(***************************************************************************)
(* Turns of a conversation and the working memory they share.  A turn      *)
(* reads the session's memory, merges what the user said into it           *)
(* (prepare_turn), is dispatched by its domain, in the refund domain lets  *)
(* the FSM take one stage, reads the graph's checkpoint back and merges    *)
(* that into the session row (persist_turn).  Turns of one session share   *)
(* the row and the checkpoint thread and may overlap: two tabs, or two     *)
(* devices of one account.                                                 *)
(*                                                                         *)
(* Of the working memory the fields are modelled that routing, the FSM,    *)
(* the guard of the tools and the merge look at; messages, summary and     *)
(* what is streamed are in ChatStream, the insert of a refund in           *)
(* RefundSubmission.                                                       *)
(***************************************************************************)
EXTENDS Naturals, ToolRegistry

CONSTANTS
  Orders,      \* order numbers a user may type
  Owned,       \* those that are orders of this user; also their primary keys
  Latest,      \* the newest of them
  Turns,       \* concurrent turns
  Messages,    \* what a user may send
  MaxTurns,    \* bound: turns that are begun
  None

VARIABLES
  session,       \* the row of conversation_sessions: its working memory
  checkpoint,    \* the newest checkpoint of the graph's thread
  turn,          \* turn[t]: phase, intent, working memory, version still current?
  begun,         \* how many turns were begun
  refunds,       \* orders with a row in refund_applications
  confirmedFor,  \* history: orders whose submission the user confirmed
  overlapped     \* history: did two turns ever run at the same time?

vars == <<session, checkpoint, turn, begun, refunds, confirmedFor, overlapped>>

\* active_domain, active_order_sn, active_order_id, collected_slots.refund_reason,
\* refund_reason_category, user_confirmed at the top and in collected_slots,
\* collected_slots.refund_submitted_id, the eligibility in last_tool_result; and,
\* in a turn's state only, the order found by the order workflow (order_data).
Memory == [domain : Domains \cup {None},
           sn : Orders \cup {None}, id : Owned \cup {None}, reason : BOOLEAN,
           category : BOOLEAN, confirmed : BOOLEAN, slotConfirmed : BOOLEAN,
           submitted : Owned \cup {None},
           result : {None} \cup [sn : Orders \cup {None}, passed : BOOLEAN],
           found : Owned \cup {None}]

Blank == [domain |-> None, sn |-> None, id |-> None, reason |-> FALSE,
          category |-> FALSE, confirmed |-> FALSE, slotConfirmed |-> FALSE,
          submitted |-> None, result |-> None, found |-> None]

\* What one message brings: an order number, what the extraction found in it
\* (domain, a new goal, reason, category), the wording of a new refund request
\* and the confirm button.
Input == [sn : Orders \cup {None}, domain : Domains \cup {"OTHER"},
          goal : BOOLEAN, reason : BOOLEAN, category : BOOLEAN,
          again : BOOLEAN, confirm : BOOLEAN]

ASSUME TurnAssumption ==
  /\ Owned \subseteq Orders /\ None \notin Orders \cup Domains
  /\ Messages \subseteq Input
  /\ Latest \in Owned \cup {None} /\ MaxTurns \in Nat

\* Not running, prepared, in the graph, past it, with the checkpoint read.
Phase == {"idle", "prepared", "running", "ran", "persisting"}

Idle == [phase |-> "idle", intent |-> None, memory |-> Blank, current |-> FALSE]

\* _resolve_order_id: the primary key of an order of this user.
Resolve(sn) == IF sn \in Owned THEN sn ELSE None

-----------------------------------------------------------------------------
(* prepare_turn                                                            *)

\* Mutant of SwitchOrder: the last tool result stays.
SwitchOrderKeepsResult(m, sn) ==
  [m EXCEPT !.sn = sn, !.id = None, !.reason = FALSE, !.category = FALSE,
            !.confirmed = FALSE, !.slotConfirmed = FALSE, !.submitted = None]

\* Mutant of SwitchOrder: the order id stays.
SwitchOrderKeepsId(m, sn) ==
  [m EXCEPT !.sn = sn, !.reason = FALSE, !.category = FALSE, !.confirmed = FALSE,
            !.slotConfirmed = FALSE, !.submitted = None, !.result = None]

\* Another order number starts a new case.
SwitchOrder(m, sn) ==
  [m EXCEPT !.sn = sn, !.id = None, !.reason = FALSE, !.category = FALSE,
            !.confirmed = FALSE, !.slotConfirmed = FALSE, !.submitted = None,
            !.result = None]

NameOrder(m, sn) ==
  LET n == IF sn # m.sn THEN SwitchOrder(m, sn) ELSE m IN
  IF n.id = None THEN [n EXCEPT !.id = Resolve(sn)] ELSE n

\* The domain of the turn: what the message is about, unless it continues the
\* refund that is under way or is about nothing in particular.
Domain(m, in) ==
  LET followUp == /\ m.domain = "REFUND" /\ ~in.goal
                  /\ in.sn # None \/ in.reason \/ in.domain \in {"REFUND", "OTHER"}
  IN IF in.domain # "OTHER" /\ ~followUp THEN in.domain ELSE m.domain

\* A new request after a submission drops the old one; the reason stays.
StartAnew(m) == [m EXCEPT !.submitted = None, !.confirmed = FALSE,
                          !.slotConfirmed = FALSE, !.result = None]

Understand(m, in) ==
  LET named    == IF in.sn # None THEN NameOrder(m, in.sn) ELSE m
      reasoned == [named EXCEPT !.domain = Domain(named, in),
                                !.reason = @ \/ in.reason,
                                !.confirmed = @ \/ named.slotConfirmed]
      anew     == (in.goal /\ in.domain # "OTHER") \/ in.again
      renewed  == IF anew /\ reasoned.domain = "REFUND" /\ reasoned.submitted # None
                  THEN StartAnew(reasoned) ELSE reasoned
  IN [renewed EXCEPT !.category = @ \/ in.category,
                     !.confirmed = @ \/ in.confirm,
                     !.slotConfirmed = @ \/ in.confirm]

Prepare(t, in) ==
  LET m == Understand(session, in) IN
  /\ turn[t].phase = "idle" /\ begun < MaxTurns
  /\ begun' = begun + 1
  /\ turn' = [turn EXCEPT ![t] = [phase |-> "prepared", intent |-> m.domain,
                                  memory |-> m, current |-> TRUE]]
  /\ confirmedFor' = confirmedFor \cup (IF in.confirm THEN {m.sn} ELSE {})
  /\ overlapped' = (overlapped \/ \E u \in Turns : turn[u].phase # "idle")
  /\ UNCHANGED <<session, checkpoint, refunds>>

-----------------------------------------------------------------------------
(* The graph: dispatch, the order workflow, the refund FSM                 *)

\* astream_events writes its input as the thread's newest checkpoint.  The turn
\* goes where its active_domain says, or is classified when there is none.
Start(t) ==
  /\ turn[t].phase = "prepared"
  /\ checkpoint' = turn[t].memory
  /\ \E intent \in IF turn[t].intent # None THEN {turn[t].intent}
                   ELSE Domains \cup {"OTHER"} :
       turn' = [turn EXCEPT ![t].phase = "running", ![t].intent = intent]
  /\ UNCHANGED <<session, begun, refunds, confirmedFor, overlapped>>

\* Mutant of Stage: the confirmation is asked for before the eligibility.
StageConfirmsFirst(m) ==
  CASE m.submitted # None -> "DONE"
    [] m.submitted = None /\ m.id = None -> "IDENTIFY_ORDER"
    [] m.submitted = None /\ m.id # None /\ ~m.reason -> "COLLECT_REASON"
    [] OTHER -> IF m.slotConfirmed THEN "SUBMITTED"
                ELSE IF m.result = None THEN "ELIGIBILITY_CHECKED"
                ELSE IF ~m.result.passed THEN "REJECTED"
                ELSE "WAITING_CONFIRMATION"

\* route_refund_stage
Stage(m) ==
  CASE m.submitted # None -> "DONE"
    [] m.submitted = None /\ m.id = None -> "IDENTIFY_ORDER"
    [] m.submitted = None /\ m.id # None /\ ~m.reason -> "COLLECT_REASON"
    [] OTHER -> IF m.result = None THEN "ELIGIBILITY_CHECKED"
                ELSE IF ~m.result.passed THEN "REJECTED"
                ELSE IF ~m.slotConfirmed THEN "WAITING_CONFIRMATION"
                ELSE "SUBMITTED"

\* Is t in the node of this stage of the refund FSM?
At(t, stages) ==
  /\ turn[t].phase = "running" /\ turn[t].intent = "REFUND"
  /\ Stage(turn[t].memory) \in stages

\* What the guard of the tools reads of the turn's state.
Call(t) ==
  LET m == turn[t].memory IN
  [domain    |-> IF m.domain # None THEN m.domain ELSE turn[t].intent,
   stage     |-> Stage(m),
   slots     |-> {"user_id"}
                 \cup (IF m.sn # None THEN {"active_order_sn"} ELSE {})
                 \cup (IF m.id # None THEN {"active_order_id"} ELSE {})
                 \cup (IF m.reason THEN {"refund_reason"} ELSE {})
                 \cup (IF m.category THEN {"refund_reason_category"} ELSE {}),
   eligible  |-> m.result # None /\ m.result.passed,
   confirmed |-> m.confirmed]

RefundGuard(t, tool) == Guard(RefundCapabilities[tool], Call(t))

\* The turn's state after its node, written as the newest checkpoint.
Finish(t, m) ==
  /\ checkpoint' = m
  /\ turn' = [turn EXCEPT ![t].phase = "ran", ![t].memory = m]
  /\ UNCHANGED <<session, begun, confirmedFor, overlapped>>

\* The policy workflow and small talk read nothing of the memory.
Talk(t) ==
  /\ turn[t].phase = "running" /\ turn[t].intent \in {"POLICY", "OTHER"}
  /\ Finish(t, turn[t].memory)
  /\ UNCHANGED refunds

\* The order workflow: the order of the memory, or the user's latest, when it
\* is the user's.
QueryOrder(t) ==
  LET m == turn[t].memory IN
  /\ turn[t].phase = "running" /\ turn[t].intent = "ORDER"
  /\ Guard(OrderCapabilities["query_order_tool"], Call(t)) = "OK"
  /\ Finish(t, [m EXCEPT !.found = IF m.sn # None THEN Resolve(m.sn) ELSE Latest])
  /\ UNCHANGED refunds

\* The stages that only ask, or that end the flow.
Answer(t) ==
  /\ At(t, Stages \ {"ELIGIBILITY_CHECKED", "SUBMITTED"})
  /\ Finish(t, turn[t].memory)
  /\ UNCHANGED refunds

\* node_check_eligibility: the tool looks the order up by its number.  Whatever
\* it answers short of a pass, a refusal of the guard or an error of the
\* database included, ends the case as not eligible.
CheckEligibility(t) ==
  LET m == turn[t].memory
      guard == RefundGuard(t, "check_refund_eligibility") IN
  /\ At(t, {"ELIGIBILITY_CHECKED"})
  /\ \E eligible \in BOOLEAN :
       \E code \in IF guard # "OK" THEN {guard}
                   ELSE CheckAnswers(m.sn \in Owned, eligible /\ m.sn \notin refunds) :
         Finish(t, [m EXCEPT !.result = [sn |-> m.sn,
                                         passed |-> code = "ELIGIBILITY_PASSED"]])
  /\ UNCHANGED refunds

\* node_submit: the order already has a refund.
ShortCircuit(t) ==
  LET m == turn[t].memory IN
  /\ At(t, {"SUBMITTED"}) /\ m.confirmed
  /\ m.id \in refunds
  /\ Finish(t, [m EXCEPT !.submitted = m.id])
  /\ UNCHANGED refunds

\* Past the query of the order id, the call may be made.
Submitting(t) ==
  /\ At(t, {"SUBMITTED"}) /\ turn[t].memory.confirmed
  /\ turn[t].memory.id \notin refunds

\* Mutant of Submit: the order is looked up without its owner.
SubmitAnyOrder(t) ==
  LET m == turn[t].memory IN
  /\ Submitting(t)
  /\ RefundGuard(t, "submit_refund_application") = "OK"
  /\ refunds' = refunds \cup {m.sn}
  /\ Finish(t, [m EXCEPT !.submitted = m.id])

\* Mutant of Submit: the submitted id is set although nothing was stored.
SubmitMarksEarly(t) ==
  LET m == turn[t].memory IN
  /\ Submitting(t)
  /\ RefundGuard(t, "submit_refund_application") = "OK"
  /\ UNCHANGED refunds
  /\ Finish(t, [m EXCEPT !.submitted = m.id])

\* submit_refund_application, which goes by the order number: it creates the
\* refund or finds the one a concurrent turn created.  (The cache of successes
\* would repeat ShortCircuit here: a cached order id has a refund.)
Submit(t) ==
  LET m == turn[t].memory IN
  /\ Submitting(t)
  /\ RefundGuard(t, "submit_refund_application") = "OK"
  /\ SubmitAnswers(m.sn \in Owned, m.sn \in refunds, TRUE)
       \cap {"REFUND_SUBMITTED", "ALREADY_EXISTS"} # {}
  /\ refunds' = refunds \cup {m.sn}
  /\ Finish(t, [m EXCEPT !.submitted = m.sn])

\* Not confirmed, refused by the guard, or rejected or failed in the tool:
\* nothing is collected.
SubmitRefused(t) ==
  /\ At(t, {"SUBMITTED"})
  /\ ~turn[t].memory.confirmed \/ Submitting(t)
  /\ Finish(t, turn[t].memory)
  /\ UNCHANGED refunds

-----------------------------------------------------------------------------
(* persist_turn                                                            *)

\* aget_state: the newest checkpoint of the thread, whichever turn wrote it.
ReadState(t) ==
  /\ turn[t].phase = "ran"
  /\ turn' = [turn EXCEPT ![t].phase = "persisting", ![t].memory = checkpoint]
  /\ UNCHANGED <<session, checkpoint, begun, refunds, confirmedFor, overlapped>>

OrElse(x, y) == IF x # None THEN x ELSE y

\* What is written back: the confirmation lowered into the slots, the order
\* that was found, a missing order id looked up again.
Lowered(m) ==
  LET seen == IF m.found = None THEN m
              ELSE [m EXCEPT !.sn = m.found, !.id = m.found, !.found = None]
  IN [seen EXCEPT !.slotConfirmed = @ \/ m.confirmed,
                  !.id = IF seen.sn # None THEN OrElse(@, Resolve(seen.sn)) ELSE @]

\* When another turn was persisted meanwhile, only what is not null overrides.
Merged(old, new, current) ==
  LET top == IF current THEN new
             ELSE [new EXCEPT !.domain = OrElse(@, old.domain),
                              !.sn = OrElse(@, old.sn), !.id = OrElse(@, old.id),
                              !.category = @ \/ old.category,
                              !.confirmed = @ \/ old.confirmed,
                              !.result = OrElse(@, old.result)]
  IN \* collected_slots is merged in any case
     [top EXCEPT !.reason = @ \/ old.reason,
                 !.slotConfirmed = @ \/ old.slotConfirmed,
                 !.submitted = OrElse(@, old.submitted)]

\* Mutant of Persist: a reset of the row's memory.
PersistForgets(t) ==
  /\ turn[t].phase = "persisting"
  /\ session' = [sn |-> turn[t].memory.sn]
  /\ turn' = [turn EXCEPT ![t] = Idle]
  /\ UNCHANGED <<checkpoint, begun, refunds, confirmedFor, overlapped>>

\* The row is locked, merged and gets a new version.
Persist(t) ==
  /\ turn[t].phase = "persisting"
  /\ session' = Merged(session, Lowered(turn[t].memory), turn[t].current)
  /\ turn' = [u \in Turns |-> IF u = t THEN Idle
                              ELSE [turn[u] EXCEPT !.current = FALSE]]
  /\ UNCHANGED <<checkpoint, begun, refunds, confirmedFor, overlapped>>

\* An error or a lost client ends the turn before its row is written.
Fail(t) ==
  /\ turn[t].phase # "idle"
  /\ turn' = [turn EXCEPT ![t] = Idle]
  /\ UNCHANGED <<session, checkpoint, begun, refunds, confirmedFor, overlapped>>

-----------------------------------------------------------------------------
Init ==
  /\ session = Blank
  /\ checkpoint = Blank
  /\ turn = [t \in Turns |-> Idle]
  /\ begun = 0
  /\ refunds = {}
  /\ confirmedFor = {}
  /\ overlapped = FALSE

Graph(t) == \/ Start(t) \/ Talk(t) \/ QueryOrder(t) \/ Answer(t)
            \/ CheckEligibility(t)
            \/ ShortCircuit(t) \/ Submit(t) \/ SubmitRefused(t)

Next ==
  \/ \E t \in Turns, in \in Messages : Prepare(t, in)
  \/ \E t \in Turns : Graph(t) \/ ReadState(t) \/ Persist(t) \/ Fail(t)

Spec == Init /\ [][Next]_vars

-----------------------------------------------------------------------------
(* What must hold                                                          *)

TypeOK ==
  /\ session \in Memory
  /\ checkpoint \in Memory
  /\ turn \in [Turns -> [phase : Phase, intent : Domains \cup {"OTHER", None},
                         memory : Memory, current : BOOLEAN]]
  /\ begun \in 0 .. MaxTurns
  /\ refunds \subseteq Orders
  /\ confirmedFor \subseteq Orders \cup {None}
  /\ overlapped \in BOOLEAN

\* A refund is only ever created for an order of the user, also when turns
\* that overlap mix the number of one order with the id of another.
RefundsAreOwned == refunds \subseteq Owned

\* The conversation never says that a refund was submitted which was not: a
\* refund_submitted_id in the memory belongs to a row, whoever wrote it.
SubmittedIsReal ==
  \A m \in {session, checkpoint} \cup {turn[t].memory : t \in Turns} :
    m.submitted # None => m.submitted \in refunds

\* The order id in the memory is that of the order number next to it, through
\* every switch of order and of domain (architecture-update.md: switching the
\* order re-validates its owner), as long as turns do not overlap.
OrderIdFitsNumber ==
  ~overlapped /\ session.id # None => session.id = session.sn

\* An eligibility result is the one of the order the conversation is about,
\* also after a detour through the order workflow, which sets that order.
EligibilityFitsOrder ==
  ~overlapped /\ session.result # None => session.result.sn = session.sn

\* The FSM of refund.py and the table of the registry agree: at the stages
\* that call a tool its guard admits the call, except that the FSM does not
\* ask for the reason's category.
GuardFitsStages ==
  \A t \in Turns :
    /\ At(t, {"ELIGIBILITY_CHECKED"}) =>
         RefundGuard(t, "check_refund_eligibility") = "OK"
    /\ Submitting(t) =>
         RefundGuard(t, "submit_refund_application") =
           IF turn[t].memory.category THEN "OK" ELSE "MISSING_SLOT"

\* state_manager.py: a different order does not inherit the confirmation (or
\* reason, or end) of the case before: where every confirmation was given for an
\* order, a refund was confirmed for its own.
NewOrderStartsClean == None \notin confirmedFor => refunds \subseteq confirmedFor
=============================================================================
