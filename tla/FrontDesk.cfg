CONSTANTS
  alice = alice
  bob = bob
  carol = carol
  app1 = app1
  p1 = p1
  p2 = p2
  d1 = d1
  d2 = d2
  Names = {alice, bob, carol}
  Emails = {"a", "b", "c"}
  Customers <- MCCustomers
  Newcomers = {1, 2}
  Wanted <- MCWanted
  Pages = {p1, p2}
  Programs = {app1}
  Budgets <- MCBudgets
  None = None
  Desks = {d1, d2}
  Backlog = 2
  MaxTasks = 3
  Nil = Nil
SPECIFICATION Spec
INVARIANT TypeOK
INVARIANT RegistrationIsSafe
INVARIANT OneConversation
INVARIANT OnlyLateEventsIntrude
INVARIANT ButtonFitsStage
INVARIANT VerdictsWereChosen
SYMMETRY MCSymmetry
CHECK_DEADLOCK FALSE
