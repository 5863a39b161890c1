------------------------------ MODULE FrontDesk ------------------------------
(***************************************************************************)
(* Customers and admins at the same time: pages and programs on one side,  *)
(* dashboards on the other, the accounts, the conversations and the review *)
(* queue between them.  A confirmation on a page may file a task, which    *)
(* changes the lists that dashboards load while they decide.               *)
(***************************************************************************)
EXTENDS CustomerPage, AdminDesk

CONSTANT MaxTasks  \* bound: tasks in the queue

ASSUME TasksAssumption == MaxTasks \in Nat /\ MaxTasks >= Backlog

vars == <<left, accountVars, sessionVars, pageVars, deskVars>>

Init == AccountsInit /\ PageInit /\ DeskInit

\* A confirmation that reaches the submission files a task, whatever becomes of
\* its answer.
Submission(p, l) ==
  \/ UNCHANGED tasks
  \/ l = "confirm" /\ Len(tasks) < MaxTasks /\ FileTask

Customer(p) ==
  \/ /\ LogOut(p) \/ (\E l \in Listeners : Click(p, l) \/ GiveUp(p, l) \/ Send(p, l) \/ Yield(p, l))
     /\ UNCHANGED <<accountVars, sessionVars, deskVars>>
  \/ /\ (\E name \in Names : LogIn(p, name)) \/ Load(p)
     /\ UNCHANGED <<accountVars, deskVars>>
  \/ /\ \E l \in Listeners, stage \in {"WAITING_CONFIRMATION", "DONE"} :
          Respond(p, l, stage) /\ Submission(p, l)
     /\ UNCHANGED <<accountVars, desk, call>>

Admin(d) ==
  /\ \/ /\ Request("desk")
        /\ \/ LogInAdmin(d) \/ FetchTasks(d)
           \/ \E row \in 1 .. MaxTasks : ClickRow(d, row)
           \/ \E v \in Verdicts : ClickVerdict(d, v)
     \/ /\ UNCHANGED left
        /\ \/ ShowTasks(d) \/ SelectTask(d)
           \/ \E v \in Verdicts : Hint(d, v) \/ Post(d, v) \/ Decide(d, v) \/ DecideFails(d, v)
  /\ UNCHANGED <<accountVars, sessionVars, pageVars>>

Next ==
  \/ Signup /\ UNCHANGED <<sessionVars, pageVars, deskVars>>
  \/ Resolve /\ UNCHANGED <<accountVars, pageVars, deskVars>>
  \/ \E p \in Pages : Customer(p)
  \/ \E d \in Desks : Admin(d)

Spec == Init /\ [][Next]_vars

TypeOK == AccountsTypeOK /\ PageTypeOK /\ DeskTypeOK
=============================================================================
