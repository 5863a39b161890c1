----------------------------- MODULE FrontDeskMC -----------------------------
(* Small instances of FrontDesk. *)
EXTENDS FrontDesk, TLC

CONSTANTS alice, bob, carol, app1, p1, p2, d1, d2

\* Two customers; one newcomer's name is free, the other wants a taken address.
MCCustomers == {[name |-> alice, email |-> "a"], [name |-> bob, email |-> "b"]}
MCWanted == {[name |-> carol, email |-> "c"], [name |-> carol, email |-> "b"]}

Mix(s, k, p, d) ==
  [signup |-> s, program |-> k, page |-> p, desk |-> d]
\* Dashboards alone; pages with a program; both sides; everything, shortly.
MCBudgets == {Mix(0, 0, 0, 8), Mix(0, 1, 5, 0), Mix(0, 0, 3, 3), Mix(2, 1, 1, 0)}

MCSymmetry == Permutations({p1, p2}) \cup Permutations({d1, d2})
=============================================================================
