# Formal models of the customer service agent

TLA+ specifications of this repository: how a message becomes a turn of a
conversation, how a question is answered, how a conversation becomes a refund
application, how an application is reviewed and paid, and what customers and
admins see of it on their pages. TLC checks them on small instances; TLAPS proves
most of the safety properties for instances of any size.

## 1. The system and its parts

| component | code | state it keeps | operations | talks to | modelled in |
| --- | --- | --- | --- | --- | --- |
| chat endpoint | `app/api/v1/chat.py` | one coroutine per turn | resolve the session, run the graph, stream, read the checkpoint, persist the turn, append the transcript, compact | state manager, graph, browser (SSE) | `ChatStream`, `ConversationTurn` |
| conversation state manager | `app/conversation/state_manager.py` | row of `conversation_sessions`: working memory, summary, version | `resolve_session`, `prepare_turn`, `persist_turn` | chat endpoint, orders table | `ConversationTurn`, `ChatStream`, `Accounts` |
| intent routing | `app/graph/workflow.py`, `nodes.py` | none | domain of a message, dispatch, classification | all workflows | `ConversationTurn`, `ChatStream` |
| refund workflow | `app/graph/workflows/refund.py` | the graph's checkpoint of the thread | one stage per turn: ask for order, ask for reason, check eligibility, ask for confirmation, submit | tool registry | `ConversationTurn`, `RefundSubmission` |
| order workflow | `app/graph/workflows/order.py` | `order_data` in the checkpoint | query one order | tool registry | `ConversationTurn` |
| tool registry | `app/graph/tool_registry.py` | idempotency cache, one per process | `invoke` (guards, cache, handler), `write_tool_audit_log` | tools, `audit_logs` | `ToolRegistry`, `RefundSubmission` |
| refund tools and service | `app/graph/tools.py`, `app/services/refund_service.py` | `refund_applications`, `audit_logs` | eligibility, creation with its audit row | database | `RefundSubmission` |
| policy answers | `app/graph/nodes.py`, `app/services/policy_*.py`, `scripts/etl_policy.py` | `knowledge_chunks` | import, retrieve, rerank, generate, validate citations, retry once | vector store, model | `PolicyAnswer`, `ChatStream` |
| admin API | `app/api/v1/admin.py` | `audit_logs.action`, `refund_applications.status` | task list, `admin_decision` | payment queue | `AdminReview`, `AdminDesk` |
| payment worker, sweep | `app/tasks/refund_tasks.py` | `refund_applications.status`, the queue | claim, pay, complete, restore, retry; take back stalled payments | gateway (simulated), broker | `RefundPayment` |
| status endpoint | `app/api/v1/status.py` | none | newest audit row of a thread -> shown status | browser | `RefundSubmission` (`Shown`) |
| WebSocket manager | `app/websocket/manager.py`, `app/api/v1/websocket.py` | connections per user, admin, thread; at this commit only admins ever get in (section 4) | connect, disconnect, send, broadcast | admin API, tools | `ConnectionManager` |
| authentication | `app/api/v1/auth.py`, `app/core/security.py` | `users` | login, register | | `Accounts` |
| customer page | `app/frontend/customer_ui.py` | per page: client, history, confirm button; per login: a `ChatClient` | login, logout, two ways to send, confirm | chat endpoint | `CustomerPage` |
| admin dashboard | `app/frontend/admin_dashboard.py` | per page: token, list, selected task | login, load, select, approve, reject | admin API | `AdminDesk` |
| notifications, evaluation, scripts, migrations | see section 7 | | | | not modelled |

What makes it hard: turns of one session overlap and work on snapshots; what a
turn reads back may be another turn's checkpoint; two API processes submit for
the same order; admins decide over several audit rows of one refund; the payment
side changes the same rows from other processes; the broker loses and repeats
messages; a worker may be slow, killed, or cut off between paying and saying so;
a broadcast awaits while sockets come and go; events of a page take their
inputs at the click and their client later, and answers come back after a logout.

What makes each part correct:

- *submission*: one refund per order; a refund has its review case from the
  moment it exists; answers name the refund of the order asked about.
- *review*: one decision per refund stands, is the refund's status and starts
  one payment; every request is answered.
- *payment*: money leaves only for approved refunds; completed means paid; final
  states are final; nothing stays half-way.
- *conversation*: the memory speaks of one order at a time; what it says was
  submitted was; a confirmation counts for the order it was given for; where the
  FSM calls a tool the registry admits the call.
- *answers*: nothing unvetted of a policy answer is shown, one answer per turn,
  the transcript is what was shown, and compaction forgets nothing.
- *connections*: a live admin socket is cut off only by reconnects of its own id,
  and a broadcast that nobody disturbs reaches every live admin.
- *accounts and pages*: accounts are unique, a user has one conversation, a page
  shows its own user, the confirm button goes with a confirmation that is asked
  for, and a verdict falls on a task its admin saw.

## 2. Modules

| module | models | used by |
| --- | --- | --- |
| `RefundLifecycle` | abstract: status graph of a refund and when money may leave | implemented by `RefundPayment` |
| `RefundPayment` | admin dispatch, payment task, sweep | |
| `AdminReview` | decisions under row locks, against payment transactions | |
| `RefundCase` | abstract: a refund per order, filed with its review, told of, decided once | implemented by `RefundSubmission` |
| `RefundSubmission` | `node_submit` down to the rows, and the status endpoint | |
| `ToolRegistry` | capabilities and guards of the tools, as operators | `ConversationTurn` |
| `ConversationTurn` | working memory, routing, refund FSM, persistence of overlapping turns | |
| `PolicyAnswer` | chunking, retrieval, rerank and citation guard, as operators | `ChatStream` |
| `ChatStream` | a turn from the request to `[DONE]`: what is shown, stored, summarised | |
| `ConnectionManager` | WebSocket endpoints and the broadcasts to the admins of a process | |
| `Accounts` | registration, login, session resolution | `CustomerPage` |
| `CustomerPage` | the customer's page and its events | `FrontDesk` |
| `AdminDesk` | dashboards over the review queue | `FrontDesk` |
| `FrontDesk` | pages, programs, dashboards, accounts and queue together | |
| `...MC` | symmetry and input sets of the instances | runs |
| `...Proofs` | theorems (section 5) | |

### RefundPayment

| state | code |
| --- | --- |
| `status`, `stale` | `RefundApplication.status`; `updated_at` older than the cutoff |
| `payments` | calls of the (simulated) gateway, which the code does not record |
| `undispatched` | approved and committed, `.delay()` not called yet |
| `queue[r][k]` | messages of `refund.process_payment` by retry number |
| `task[w]`, `todo[w]` | the local state of a worker's task; the rest of `recovered_ids` |
| `faults` | budget of things that go wrong |

`Claim`, `Complete`, `Restore` are the three conditional UPDATEs; `Pay` the
gateway call; `Retry` `self.retry`; `Sweep` the transaction of the sweep and
`Requeue` one turn of its loop. `ClaimFails`, `WorkFails`, `Crash`,
`DispatchFails` and `Redeliver` are the failures; a commit whose confirmation is
lost may or may not have happened. Messages are acknowledged on delivery (the
Celery default, which `celery_app.py` keeps), so a crash loses them.
`HardTimeLimit` says whether the pool enforces `task_time_limit`: prefork does
(docker-compose, `start_worker.sh`), solo does not (`start.sh`). `Age` lets ten
minutes pass; under a hard limit of five minutes the claimant is gone by then.
The sweep locks with SKIP LOCKED; since the transactions it could skip are
single steps here, it takes all stalled refunds.

### AdminReview

`request[a]` is one execution of `admin_decision`: `LockAudit` and `LockRefund`
take the two `FOR UPDATE` locks or answer 409, `Decide` commits both rows,
`Dispatch` calls `.delay()`. `txn[w]` is a transaction of `_restore_after_failure`
or of the sweep, which holds refunds (`BeginRestore`) and then writes one audit
row for each (`LockMetadata`), the one `.first()` returns in no stated order.
`RecordToolCall` adds the audit rows of `write_tool_audit_log`. PostgreSQL's
locks and its deadlock detector are external.

### RefundSubmission and RefundCase

A turn takes one step per query. `flushed` holds rows of open transactions: the
unique index makes `Insert` wait for such a row of the same order, and fail on a
committed one. `cache` is the registry's idempotency cache per process. A refund
is named by the turn that inserts it. The rules on status, age and category are
one set of `eligible` orders chosen at the start. `Shown` is the status endpoint.
`RefundCase` has one variable per order, its case, and the orders somebody was
told of; the refinement mapping is `CaseOf` and `ToldOrders` at the end of
`RefundSubmission`.

### ToolRegistry and ConversationTurn

`ToolRegistry` is the two capability tables, `invoke`'s guards in their order and
what the handlers may answer. `ConversationTurn` calls them at every stage that
calls a tool.

`session` is the row, `checkpoint` the newest checkpoint of the thread, `turn[t]`
the coroutine of a turn with its copy of the memory. `current` says whether the
row's version is still the one the turn read. `Prepare` is `prepare_turn` and the
confirm button, `Start` the dispatch or the classification, `Talk`, `QueryOrder`
and `Answer` to `SubmitRefused` the workflows, `ReadState` is `aget_state`,
`Persist` is `persist_turn`, `Fail` an error or a client that left. What the
extraction finds in a message (order number, domain, goal, reason, category, new
request) is an input. The submission itself is one step; `RefundSubmission` opens
it up. The registry's cache is not repeated here: a cached order id has a refund,
which the node's own query finds first.

### PolicyAnswer and ChatStream

`PolicyAnswer` translates `load_policy_documents` (`LoadedChunks`),
`retrieve_policy` (`Retrieved`), `_rerank_by_authority` (`Reranked`) and
`validate_policy_answer` (`Valid`). Distances are the order of the rows and how
many of them pass the threshold; a text is what the guard sees of it. `Stored`
says which chunks a query may find while a file is imported: the old ones are
deleted and committed before the new ones are embedded and committed in batches.

In `ChatStream`, `thread` is the newest checkpoint with the list of messages,
`turn[t]` a running request with its own copy, `transcript` the rows of
`conversation_messages`, and `log[n]` the history of what turn `n` retrieved and
showed. `Classify`, `Retrieve`, `Generate`, `AnswerNoEvidence`, `Talk`,
`AnswerOrder` and `AnswerRefund` are the nodes; `Forwarded` is the event
generator's filter on tags; `ReadState` sends the fallback and reads the
checkpoint; `Persist` summarises and writes the row; `AppendRows` writes the
transcript; `Finish` compacts and ends. `Fail` may come at any point; of an
answer that was streamed in part before it, all or nothing is shown. Settings
come in as constants: the code's values for summary and retained turns are larger
than the instance's (6 and 5).

### ConnectionManager

`conn[s]` is the handler of a socket, `admins` the dictionary `admin_connections`,
`notice[n]` one execution of `notify_status_change` for a new application. A step
is what runs between two awaits. `RefuseUser` is the endpoint of the customers,
which refuses every socket at this commit (section 4): `active_connections` and
`thread_subscribers` stay empty, `send_to_thread` returns at once, and what a
notification does is the broadcast to the admins. `Send` is one round of its loop;
before the next one CPython compares the size of the dictionary with that at the
start (`SizeKept`) and raises when it changed (`Raise`); the tool catches it. When
as many ids came as went, the walk may show the newcomer or not, show an id again
or end early: `Visit` and `Exhausted` allow each. A send to a socket whose peer is
gone is lost or raises, and the ids whose send raised are dropped at the end
(`Finish`). `Hear` is the disconnect, `HandlerFails` the handler's
`except Exception`, which closes the socket without unregistering it.

### Accounts, CustomerPage, AdminDesk and FrontDesk

`Accounts`: `CheckName`, `CheckEmail` and `InsertUser` are the three statements of
`register`, whose values are taken to fit their columns; `LookUp` and `Create`
those of `resolve_session`, with the unique index of user and client id; `Touched`
the order of last activity.

`CustomerPage`: `page[p]` is what the browser holds, `clients` the `ChatClient`
objects, `job[p][l]` the event of a listener. Gradio keeps one queue per function
and one event per listener and page, takes the history at the click (`Click`) and
the state when the function starts (`Send`, `GiveUp`). `Respond` is the request
with its stage event and its commit, in any combination with a failure; `Yield` is
the last yield. Of a panel only is kept whose conversation it shows.

`AdminDesk`: `FetchTasks` and `ShowTasks` are the request and the outputs of
`load_tasks`, between which a row may be clicked; `Post` reads token and selected task
when the verdict's turn in the queue comes; `Decide` is `admin_decision`, whose
locks `AdminReview` has in detail, and may be reported as a timeout.

`FrontDesk` puts them together: a confirmation on a page may file a task, which
changes the lists of the dashboards. A budget per part bounds a behaviour.

## 3. Runs

| run | properties | instance | shows |
| --- | --- | --- | --- |
| `payment_safety` | `TypeOK`, `PaymentNeedsApproval`, `CompletedWasPaid`, `FinalStaysFinal`, `ImplementsLifecycle` | 2 refunds, 3 workers, 1 retry, 3 faults, no time limits, redelivery | what holds at worst; refinement |
| `payment_prefork` | `SinglePayer`, `RepaymentNeedsFault`, `StalledIsRecovered` | 2 refunds, 3 workers, 2 retries, 3 faults | exclusion under prefork and single delivery; no refund stays PROCESSING |
| `payment_twice` | `PaidAtMostOnce` fails | 1 refund, 1 worker, 1 fault | one fault pays twice |
| `payment_stuck` | `OrphanIsRequeued` fails | 1 refund, 1 worker | an APPROVED orphan stays one |
| `review` | `TypeOK`, `OneDecisionStands`, `VerdictsAreKept`, `RequestsAreAnswered` | 2 refunds, one with a tool row, 2 admins, 1 transaction | races of decisions; every request ends, through lock waits and deadlocks |
| `submission_safety` | `TypeOK`, `OneRefundPerOrder`, `QueueMatchesRefunds`, `AnswersNameTheRefund`, `ShownApprovalIsReal`, `ImplementsRefundCase` | 3 turns, 2 orders, 2 processes, 2 faults | races of submissions; refinement |
| `manager_safety` | `TypeOK`, `OnlyOwnReconnectsCutOff`, `QuietLoopTellsAll` | 3 sockets, 2 admin ids, 2 submissions to broadcast | which admins may be cut off or missed |
| `turns` | `TypeOK`, `RefundsAreOwned`, `SubmittedIsReal`, `OrderIdFitsNumber`, `EligibilityFitsOrder`, `GuardFitsStages` | 2 own orders and a foreign number, 4 turns, 2 at a time, all domains | what overlapping turns keep, and what turns in a row keep |
| `turn_new_order` | `NewOrderStartsClean` fails | 2 orders, 4 turns in a row | a confirmation outlives its order, see findings |
| `chat` | `TypeOK`, `ShownIsVetted`, `OneAnswerShown`, `TranscriptIsTrue`, `NothingForgotten`, `EvidenceIsRankedRight` | 2 overlapping requests, 3 turns, 4 chunks of 2 documents, 1 failure, summary at 2 turns keeping 1 | what is shown, stored and remembered |
| `chat_transcript` | `ShownIsStored` fails | 1 turn | see findings |
| `desk` | `TypeOK`, `RegistrationIsSafe`, `OneConversation`, `OnlyLateEventsIntrude`, `ButtonFitsStage`, `VerdictsWereChosen` | 2 pages, 1 program, 2 dashboards, 2 registrations, in four mixes | races of accounts, late events of pages, dashboards that decide on stale lists |

Why the bounds are enough.

*Payment*: two refunds let the sweep restore more than one; three workers let a
sweep, a fresh claim and a late worker meet on one refund; a double payment, a
late completion or a restore of somebody else's claim takes one or two faults,
and the third can hit the recovery. The retry number only bounds how often
`Retry` publishes.

*Review*: refunds interact only through a transaction that holds several, which
two show; two admins and two rows of one refund give every pair of conflicting
requests.

*Submission*: three turns let two race while a third comes after them; two
processes make a cache miss and a hit; the faults are an unconfirmed commit and a
crash.

*Connections*: three sockets are an old one, the one that replaces it under the
same id and a bystander under another; two broadcasts clean up under each other's
loop.

*Conversation*: the shortest way to a mixed memory takes three turns and a fourth
to submit on it; a slot that comes back takes three. The messages
(`AllMessages` in `ConversationTurnMC`) are a refund with its order and reason,
with or without a recognised category, the confirm button, a new request, a
question about an order with or without its number, a new goal and small talk.

*Chat*: the third turn compacts what the first two left while a second request
runs. The two near sets give an answer with the authority, its FAQ and a clause of
its own, and none; every state of an import is a possible retrieval. The rerank
is checked on every list of up to four chunks (`Lists`), repetitions included. The code's 6
and 5 turns of summary and retention become 2 and 1: what counts is that a turn
too many triggers the summary and that it covers more than is cut off.

*Desk*: the mixes are (registrations, program requests, page events, dashboard
events) of (0,0,0,8), (0,1,5,0), (0,0,3,3) and (2,1,1,0). Eight dashboard events
are two logins, two lists, two selections and two verdicts; five page events are a
login, a message, a logout, the next login and a confirmation or second message;
three and three let a confirmation change a list in use.

`MaxFaults`, `MaxTurns`, `MaxFailures`, `MaxTasks` and `Budgets` bound counters
only. Interchangeable refunds, workers, sockets, turns, pages and dashboards are
declared symmetric in the runs that check no liveness.

`CHECK_DEADLOCK FALSE` stands where the system may stop: all refunds are final and
queues empty, all turns have ended, budgets are used up, or all sockets are closed.

### Fairness

*Payment*: the API goes on after its commit, workers go on with what they hold
and take messages, time passes, and beat starts the sweep every minute: weak
fairness of each, with no fault ever required. *Review*: PostgreSQL queues
waiters of a row lock, so a request whose lock becomes free again and again gets
it: strong fairness of the lock steps; weak fairness of commits, the dispatch
and the deadlock detector. Nothing forces an admin to act. The other runs check
safety only and assume none: what would have to happen there depends on users.

## 4. Findings

1. A fault after the gateway call pays twice (`payment_twice`): README.md:13
   calls the payment idempotent; only its status updates are.
2. An APPROVED refund without a message is never dispatched again
   (`payment_stuck`): the sweep looks at PROCESSING only, against the comment at
   `refund_tasks.py:227`.
3. A confirmation outlives the order it was given for (`turn_new_order`), against
   `state_manager.py:191`. The user names an order that is found not eligible,
   confirms all the same, and then names another, which is eligible. Preparing that
   turn removes the confirmation, persisting it merges the slots of the row back
   (`state_manager.py:427`), and the next turn submits the second order although
   nobody confirmed anything for it. It takes a first case that came to nothing: if
   it was submitted, `refund_submitted_id` comes back as well and the next turn is
   DONE, without a refund for the second order.
4. An answer that goes out as fallback is shown but not stored
   (`chat_transcript`): orders, policy and refund answers are missing in the
   transcript `conversation.py:65` promises, or stand there as a placeholder.

Met while modelling, and visible in the modules, but not kept as runs:

- No customer is ever connected by WebSocket. `websocket.py:26` awaits
  `get_current_user_id`, a plain function that returns an int
  (`security.py:32`): a good token ends in a TypeError, which line 43 catches
  like that of a bad one, and the socket is closed with 1008 before
  `connect_user`. The coroutine `get_current_user_id_ws` is used by nobody. The
  status that `README.md:15` synchronises by WebSocket reaches customers by polling
  only; `RefuseUser` is what the code does.
- An admin socket that is replaced under its id takes its replacement along when it
  disconnects late (`DisconnectAdmins`; `manager.py:62`), and a broadcast during
  which an id comes or goes raises and leaves the other admins untold (`Raise`).
  `OnlyOwnReconnectsCutOff` and `QuietLoopTellsAll` say that there are no other ways.
- The payment side locks refund, then audit row, the admin side the other way
  round (`Blocked` in `AdminReview`; `admin.py:186` means to rule it out). The
  database resolves it, and `RequestsAreAnswered` holds all the same.
- The loser of two concurrent submissions is rejected without the refund when
  the winner commits between its two existence queries (`CheckExisting` and
  `CheckEligible`), where `test_refund_concurrency.py:53` expects both to get it.
- The rows of `write_tool_audit_log` (`RecordCall`) come after the case row, so
  that `Shown` may be WAITING_ADMIN for a decided refund and REJECTED for one
  nobody rejected. Only APPROVED is reliable (`ShownApprovalIsReal`).
- What `OrderIdFitsNumber` and `EligibilityFitsOrder` show of turns in a row fails
  for overlapping ones: the session may hold the number of one order and the id of
  another (`Merged`), and a stale turn writes back its snapshot of the summary and
  compacts away messages it has not read, for which `NothingForgotten` makes no
  promise. No refund comes of it for somebody else's order (`RefundsAreOwned`).
- Requests with different client ids may create two conversations of one user
  (`Create`); `OneConversation` excuses this race, and only this.
- Questions asked while a document is imported, or after its import failed, find
  any part of it (`Stored`).
- The stage event of a turn is read from the newest checkpoint, which may be
  another turn's (`ReadState`; `chat.py:189`).
- An error of the database during the eligibility check ends the case as not
  eligible, with no way back but a new request (`CheckEligibility`).
- The FSM advances without a reason category, which the registry requires: the
  submission is refused at every turn until an extraction finds one. It is the one
  exception in `GuardFitsStages`.
- The rerank puts a farther authority before a nearer one when an FAQ refers to it
  (`Reranked`), which is meant, and with it before every chunk between
  (`RerankIsRight` says which).
- After a refresh of the dashboard the selected task is kept although the panel is
  empty, so a verdict may fall on a task that is not displayed; it was selected
  before (`VerdictsWereChosen`). An answer slower than ten seconds is reported as
  a failure though the decision stands (`Decide`).
- The task list shows amount and stage from the conversation's memory of now,
  which may be that of another order by then (`admin.py:113`).
- An answer that comes back after a logout or the next login is written on the
  page it was asked from (`OnlyLateEventsIntrude` names it as the only way), a
  message still in the queue is sent under the next login's account, and the
  confirm button is no output of login and logout (`customer_ui.py:411`).

## 5. Proofs

All proofs are for every value of the constants; the bounds on counters in
section 3 are among them. They rest on the modules' named assumptions only, which
say what a constant is (`PaymentAssumption`, `TurnAssumption`, `NoneAssumption`,
...), and on the two switches of `RefundPayment` where a theorem names them.

| module | theorems |
| --- | --- |
| `RefundPaymentProofs` | `TypeCorrect`, `NeedsApproval`, `CompletedPaid`, `FinalForGood`, `Implements`; given `HardTimeLimit` and no `Redelivery`: `OnePayer`, `RepaidForFaults` |
| `AdminReviewProofs` | `TypeCorrect`, `DecisionStands`, `VerdictsStay` |
| `RefundSubmissionProofs` | `TypeCorrect`, `NeverTwoRefunds`, `QueueIsRight`, `AnswersAreRight`, `ApprovalIsReal`, `SubmissionImplementsCase` |
| `ConversationTurnProofs` | `TypeCorrect`, `OwnedRefunds`, `RealSubmissions`, `OneOrderAtATime`, `EligibilityOfTheOrder`, `GuardAdmitsStages` |
| `PolicyAnswerProofs` | `RerankIsAlwaysRight` |
| `ChatStreamProofs` | `TypeCorrect`, `OnlyVettedShown`, `OneAnswer`, `HistoryIsKept`, `TranscriptIsFaithful`, `EvidenceRanked` |
| `ConnectionManagerProofs` | `TypeCorrect`, `OthersCutNobodyOff`, `QuietLoopsTellAll` |
| `FrontDeskProofs` | `TypeCorrect`, `Registration`, `ConversationIsOne`, `LateEventsOnly`, `ButtonIsRight`, `VerdictsAreChosen` |

*Payment.* `PaymentNeedsApproval` is not inductive: a message, a task and an entry
of a requeue loop each make the next one, so that the invariant must speak of every
place a refund is referred to from (`GrantedWhereUsed`), and of how a worker's
record is tied to its refund (`BusyHasRefund`). `CompletedWasPaid` needs that a
worker about to complete has paid (`PaidBeforeComplete`). `ApprovalInv` is their
conjunction with `TypeOK`. The lemmas go by what the actions do to one variable
(`StatusMoves`, `PaymentMoves`, `TaskMoves`), and `Implements` reuses
`StatusMoves` to map each step to a step of `RefundLifecycle` or to a stutter.

*Prefork.* That one worker handles a refund is a fact about all places that refer
to it: `OneReference` says that a refund is nowhere, at the API, in one message of
the queue, at one worker or in one sweep, and each action moves that reference.
It is preserved because only lost refunds are swept (`StaleIsLost`), which is what
the hard limit gives. `FaultsPay` counts payments against faults and allows one
more for the payment that completes. `SoloInv` is their conjunction with
`ApprovalInv`.

*Review.* `ReviewInv` ties the locks to the requests and transactions that hold
them (`Locks`), and each phase of a request to what it has read under its locks
(`Decisions`): the refund was PENDING when its lock was taken, and stays so.

*Submission.* `SubmissionInv` names every refund by the turn that inserts it, ties
open transactions to the phase of their turn (`Bound`), rows to the unique index
(`RowsFit`), what turns and caches answer to committed rows (`AnswersFit`), and
audit rows to refunds (`AuditFits`). `CaseFits` then gives the refinement.

*Conversation.* Every copy of the memory that may be written back, checkpoint and
running turns included, speaks of real refunds and has a number to its id
(`MemoriesFit`). `SerialFits` says that while turns have not overlapped one turn
runs, its version is current and all copies are about one order: without it
`Merged` could combine two.

*Answers.* `Runs` ties the phase of a turn to what its log may hold: nothing before
the answer, streamed words only outside a domain, an answer vetted against what
this turn retrieved. The drafts, documents and interleavings are arbitrary.

*Rerank.* A key gives each place a rank, one more than the number of places ahead
of it. Ranks follow the keys, so that two places never share one, and by counting
every place is the rank of one (`RanksFollow`, `RanksAreFilled`): sorting is a
permutation in the order of the keys, ties by the old place (`SortIsStable`). What
the rerank does with authorities and FAQs is then arithmetic on `Position`.

*History and transcript.* `HistoryFits` is about turns that never overlapped: the
questions in the thread are in the order of their turns, the copy of the running
turn is the thread, what a finished turn asked is there or far behind and in the
summary (`Remembered`), and a turn about to compact has put all of the thread
into its summary (`AloneFits`). That a compaction to the last `Retain` questions
cuts off older turns only is a count, one turn to each question (`OneTurnEach`).
`RowsFit` adds to the transcript that a running turn which has not appended its
rows has none there; `Runs` gives that the words it will append were shown, and
`HistoryFits` that the placeholder goes to refund turns.

*Connections.* `ManagerInv` says that an entry of the dictionary is a socket that
connected under its id (`Registered`). With each loop it keeps what it has seen,
told and found dead (`SeenAreTold`, `FailedAreGone`), and that a loop with no id
coming or going still runs over the ids it began with (`StartIsCurrent`). An entry
a loop drops is of a socket that was gone or has been replaced since.

*Pages.* `SignupInv` says that a registration past its checks without a race would
pass them again. `DeskInv` says that the number of a client belongs to one page
(`OwnClients`), so that an event's client tells under which login it was clicked;
that without a late event the panel, and the histories which the viewer's own
events carry, are the viewer's (`PanelFits`); and that a visible button goes with
a waiting client or with one whose answer is on its way, whose yield decides on
the button again (`ButtonFits`). `SessionInv` says that, unless
two requests were about to create at once, a user has at most one row or one
request about to insert one (`RacesNoted`), and that no row is remembered as the
last active one only if there is none (`LatestFits`); `OwnInv` adds that clients
and panels belong to such rows. `VerdictInv` says that a selected task, and one a
verdict waits with, has been shown as selected (`ScreenFits`, `CallFits`), and that
a report of success is what the row says (`IsReport`).

Only model-checked: liveness (`StalledIsRecovered`, `RequestsAreAnswered`), since
the prover does not treat ENABLED and fairness. Every other property of a passing
run has its theorem. The four properties of the runs that expect a violation are
refuted by TLC and have none.

## 6. What could come next

- One composition of submission, review and payment over the same rows. Each
  module has the parts of the others it meets as steps of its own, and the two
  abstract specifications share the status graph.
- The wall clock: the age rule of eligibility, the expiry of tokens, the polling
  of the status endpoint against the age of what it shows.
- Liveness of a conversation under a cooperative user, for which the extraction
  must be assumed to find the category once.

## 7. Not modelled

- *Notifications* (`send_refund_sms`, `notify_admin_audit`): fire and forget; their
  failure changes nothing that is read back.
- *Evaluation, scripts and migrations*, apart from the import of policy documents:
  they change nothing the service does at run time, except `reset_refund_state`,
  an operator's reset that deletes refunds under a running API.
- *Eligibility rules* in their arithmetic of days and the table of categories:
  which orders pass is a free choice.
- *Authentication* in its cryptography: a token is valid once given.
- *Front ends* in their layout, the buttons that fill in an input, the risk filter
  of the task list and the status text appended to an answer.
- The language model and the embedding model, which return whatever their types
  allow. Amounts, texts and times other than the sweep's cutoff do not matter to a
  property. `decision_metadata` is a diagnostic note that no code reads back.

## 8. Running it

In this directory: `tlc -config RefundPaymentSafety.cfg RefundPaymentMC.tla` (and
so on, one `.cfg` per run, with the module named in `PROJECT.json`); the longest
runs, `chat` and `desk`, have about a million states and take one to two minutes.
`tlapm RefundPaymentProofs.tla`, and so on, checks the proofs of a module.
