-------------------------- MODULE ConversationTurnMC --------------------------
(* Instances of ConversationTurn for TLC. *)
EXTENDS ConversationTurn, TLC

\* Overlapping turns are interchangeable.
Symmetry == Permutations(Turns)

Say(sn, domain) ==
  [sn |-> sn, domain |-> domain, goal |-> FALSE, reason |-> FALSE,
   category |-> FALSE, again |-> FALSE, confirm |-> FALSE]

\* A refund asked for with its order and reason, with or without a category the
\* extraction recognised; the confirm button; a new request; a question about
\* an order, with or without its number; a new goal elsewhere; small talk.
AllMessages ==
  {[Say(sn, "REFUND") EXCEPT !.reason = TRUE, !.category = TRUE] : sn \in Orders}
  \cup {[Say(None, "REFUND") EXCEPT !.reason = TRUE]}
  \cup {[Say(None, "OTHER") EXCEPT !.confirm = TRUE]}
  \cup {[Say(None, "REFUND") EXCEPT !.again = TRUE]}
  \cup {Say(sn, "ORDER") : sn \in {None, CHOOSE o \in Owned : o # Latest}}
  \cup {[Say(None, "ORDER") EXCEPT !.goal = TRUE], Say(None, "OTHER")}
=============================================================================
