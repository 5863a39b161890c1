------------------------------ MODULE AdminDesk ------------------------------
(***************************************************************************)
(* The admins' dashboards (admin_dashboard.py) over the review queue: the  *)
(* list of pending tasks, the task that is selected, and the verdicts.     *)
(* The list on the screen is a snapshot; the selected task is kept on the  *)
(* server, apart from what the panel shows, and is read when the verdict   *)
(* starts, which may be after another dashboard's.  What admin_decision    *)
(* does under its locks is one step here; AdminReview has it in detail.    *)
(***************************************************************************)
EXTENDS Naturals, Sequences, FiniteSets

CONSTANTS
  Desks,     \* dashboards
  Backlog,   \* tasks that are in the queue already
  Nil

ASSUME DeskAssumption == Backlog \in Nat

VARIABLES
  tasks,  \* audit rows, the oldest first, with verdict and deciding dashboard
  desk,   \* desk[d]: token, list, selected task, panel and last report
  call    \* call[d][h]: the event of a handler

deskVars == <<tasks, desk, call>>

Verdicts == {"APPROVE", "REJECT"}
Handlers == {"load", "select"} \cup Verdicts

\* desk[d].seen is history: the tasks this dashboard has shown as selected.
Empty == [token |-> FALSE, list |-> <<>>, selected |-> Nil, panel |-> Nil,
          report |-> Nil, seen |-> {}]

NoCall == [phase |-> "idle"]
Idle(d, h) == call[d][h].phase = "idle"
Enter(d, h, c) == call' = [call EXCEPT ![d][h] = c]

Pending == {i \in DOMAIN tasks : tasks[i].verdict = "PENDING"}

\* get_pending_tasks: the pending tasks, the newest first; there is one such list.
PendingLists ==
  {list \in [1 .. Cardinality(Pending) -> Pending] :
     \A i, j \in DOMAIN list : i < j => list[i] > list[j]}

\* A submission puts a task into the queue.
Filed == [verdict |-> "PENDING", by |-> Nil]
FileTask == tasks' = Append(tasks, Filed)

-----------------------------------------------------------------------------
\* login_admin: a refusal, or an account that is no admin's, drops the token.
LogInAdmin(d) ==
  /\ \E token \in BOOLEAN : desk' = [desk EXCEPT ![d].token = token]
  /\ UNCHANGED <<tasks, call>>

\* load_tasks: the request; without token, or when it fails, there is no list.
FetchTasks(d) ==
  /\ \A e \in Desks : Idle(e, "load")
  /\ \E list \in {<<>>} \cup (IF desk[d].token THEN PendingLists ELSE {}) :
       Enter(d, "load", [phase |-> "fetched", list |-> list])
  /\ UNCHANGED <<tasks, desk>>

\* Its outputs: the panel is emptied, the selected task is not among them.
ShowTasks(d) ==
  /\ call[d]["load"].phase = "fetched"
  /\ desk' = [desk EXCEPT ![d].list = call[d]["load"].list, ![d].panel = Nil,
                          ![d].report = Nil]
  /\ Enter(d, "load", NoCall)
  /\ UNCHANGED tasks

\* A click on a row of the list on the screen.
ClickRow(d, row) ==
  /\ Idle(d, "select") /\ row \in DOMAIN desk[d].list
  /\ Enter(d, "select", [phase |-> "clicked", row |-> row])
  /\ UNCHANGED <<tasks, desk>>

\* select_task: the row's number is looked up in the list there is now.
SelectTask(d) ==
  LET row == call[d]["select"].row
      task == IF row \in DOMAIN desk[d].list THEN desk[d].list[row] ELSE Nil IN
  /\ call[d]["select"].phase = "clicked"
  /\ desk' = [desk EXCEPT ![d].selected = task, ![d].panel = task,
                          ![d].seen = @ \cup ({task} \ {Nil})]
  /\ Enter(d, "select", NoCall)
  /\ UNCHANGED tasks

ClickVerdict(d, v) ==
  /\ Idle(d, v)
  /\ Enter(d, v, [phase |-> "clicked"])
  /\ UNCHANGED <<tasks, desk>>

\* make_approve_decision, make_reject_decision: nothing selected, or a
\* rejection without comment, only gives a hint.
Hint(d, v) ==
  /\ call[d][v].phase = "clicked"
  /\ desk[d].selected = Nil \/ v = "REJECT"
  /\ desk' = [desk EXCEPT ![d].report = Nil]
  /\ Enter(d, v, NoCall)
  /\ UNCHANGED tasks

\* Verdicts of one kind are posted one at a time, over all dashboards; a request
\* carries the token of its posting.
Post(d, v) ==
  /\ call[d][v].phase = "clicked" /\ desk[d].selected # Nil
  /\ \A e \in Desks : call[e][v].phase # "posted"
  /\ Enter(d, v, [phase |-> "posted", task |-> desk[d].selected, token |-> desk[d].token])
  /\ UNCHANGED <<tasks, desk>>

Report(d, v, ok) ==
  /\ desk' = [desk EXCEPT ![d].report = [task |-> call[d][v].task, verdict |-> v, ok |-> ok]]
  /\ Enter(d, v, NoCall)

\* Mutant of Decide: a task is decided that has its verdict.
DecideAgain(d, v) ==
  LET task == call[d][v].task IN
  /\ call[d][v].phase = "posted" /\ call[d][v].token
  /\ tasks' = [tasks EXCEPT ![task].verdict = v, ![task].by = d]
  /\ \E ok \in BOOLEAN : Report(d, v, ok)

\* admin_decision; an answer that takes longer than the ten seconds of
\* make_decision is reported as a failure.
Decide(d, v) ==
  LET task == call[d][v].task IN
  /\ call[d][v].phase = "posted" /\ call[d][v].token
  /\ tasks[task].verdict = "PENDING"
  /\ tasks' = [tasks EXCEPT ![task].verdict = v, ![task].by = d]
  /\ \E ok \in BOOLEAN : Report(d, v, ok)

\* Not authorised, already decided, or not reached.
DecideFails(d, v) ==
  /\ call[d][v].phase = "posted"
  /\ Report(d, v, FALSE)
  /\ UNCHANGED tasks

-----------------------------------------------------------------------------
DeskInit ==
  /\ tasks = [i \in 1 .. Backlog |-> Filed]
  /\ desk = [d \in Desks |-> Empty]
  /\ call = [d \in Desks |-> [h \in Handlers |-> NoCall]]

-----------------------------------------------------------------------------
(* What must hold                                                          *)

DeskTypeOK ==
  /\ \A i \in DOMAIN tasks : /\ tasks[i].verdict \in Verdicts \cup {"PENDING"}
                             /\ tasks[i].by \in Desks \cup {Nil}
  /\ \A d \in Desks :
       /\ desk[d].token \in BOOLEAN
       /\ desk[d].selected \in DOMAIN tasks \cup {Nil}
       /\ desk[d].panel \in DOMAIN tasks \cup {Nil}
       /\ \A i \in DOMAIN desk[d].list : desk[d].list[i] \in DOMAIN tasks
  /\ \A d \in Desks, h \in Handlers :
       call[d][h].phase \in {"idle", "fetched", "clicked", "posted"}

\* A verdict falls on a task that its dashboard has shown as the selected one,
\* on the one in the panel if there is one, however the list was refreshed,
\* renumbered or decided by others since; and a decision reported as made is
\* the one on record.
VerdictsWereChosen ==
  /\ \A d \in Desks : desk[d].panel \in {Nil, desk[d].selected}
  /\ \A i \in DOMAIN tasks : tasks[i].verdict # "PENDING" => i \in desk[tasks[i].by].seen
  /\ \A d \in Desks : desk[d].report # Nil /\ desk[d].report.ok =>
       LET task == tasks[desk[d].report.task] IN
       task.verdict = desk[d].report.verdict /\ task.by = d
=============================================================================
