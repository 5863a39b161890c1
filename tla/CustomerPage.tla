---------------------------- MODULE CustomerPage ----------------------------
(***************************************************************************)
(* The customer's page (customer_ui.py): login and logout, the two ways to *)
(* send a message and the button that confirms a refund.  An event takes   *)
(* what is on the page (the history) when it is clicked, but its client    *)
(* when it starts: events of one function run one at a time, over all      *)
(* pages.  An answer may come back after a logout or the next login.       *)
(*                                                                         *)
(* Of what a panel shows only is kept whose conversation it is.  The       *)
(* ChatClient is an object that the events of a page share.                *)
(***************************************************************************)
EXTENDS Accounts

VARIABLES
  page,     \* page[p]: client, panel and confirm button of a page
  clients,  \* the ChatClient objects, in the order of the logins
  job       \* job[p][l]: the event of a listener

pageVars == <<page, clients, job>>

Listeners == {"enter", "submit", "confirm"}
Function(l) == IF l = "confirm" THEN "confirm_and_send" ELSE "send_and_update_v2"

NoJob == [phase |-> "idle"]

User(c) == clients[c].user

\* page[p].late is history: an event of an earlier login wrote on this page.
\* page[p].asked is history: the client whose turn made the button visible.
Blank == [client |-> None, panel |-> {}, button |-> FALSE, late |-> FALSE, asked |-> None]

\* An event that was clicked under the client by shows its history.
Show(p, by, panel, button) ==
  page' = [page EXCEPT ![p].panel = panel, ![p].button = button,
                       ![p].late = @ \/ by # page[p].client]

-----------------------------------------------------------------------------
(* Login and logout                                                        *)

\* handle_login, one at a time: a refusal empties the page, a token is used to
\* load the session.
LogIn(p, name) ==
  /\ Request("page")
  /\ page[p].client = None
  /\ \A q \in Pages : lookup[q].phase = "idle"
  /\ \/ /\ \E a \in accounts : a.name = name
        /\ Ask(p, name)
        /\ UNCHANGED page
     \/ /\ page' = [page EXCEPT ![p].panel = {}, ![p].late = FALSE]
        /\ UNCHANGED lookup
  /\ UNCHANGED <<conversations, latest, contested, clients, job>>

\* The session is there, or its request failed; the confirm button is no
\* output of handle_login.
Load(p) ==
  /\ lookup[p].phase = "found"
  /\ lookup' = [lookup EXCEPT ![p] = NotAsked]
  /\ \/ /\ clients' = Append(clients, [user |-> lookup[p].user, stage |-> None,
                                       conversation |-> lookup[p].conversation])
        /\ page' = [page EXCEPT ![p].client = Len(clients'), ![p].panel = {lookup[p].user},
                                ![p].late = FALSE]
     \/ /\ page' = [page EXCEPT ![p].panel = {}, ![p].late = FALSE]
        /\ UNCHANGED clients
  /\ UNCHANGED <<left, conversations, latest, contested, job>>

\* Mutant of LogOut: the chat stays on the page.
LogOutKeepsPanel(p) ==
  /\ Request("page")
  /\ page[p].client # None
  /\ page' = [page EXCEPT ![p].client = None, ![p].late = FALSE]
  /\ UNCHANGED <<clients, job>>

\* handle_logout; the confirm button is no output of it either.
LogOut(p) ==
  /\ Request("page")
  /\ page[p].client # None
  /\ page' = [page EXCEPT ![p].client = None, ![p].panel = {}, ![p].late = FALSE]
  /\ UNCHANGED <<clients, job>>

-----------------------------------------------------------------------------
(* send_and_update_v2 and confirm_and_send                                 *)

\* A listener waits for its own event, not for the other two.
Click(p, l) ==
  /\ Request("page")
  /\ page[p].client # None /\ job[p][l].phase = "idle"
  /\ l = "confirm" => page[p].button
  /\ job' = [job EXCEPT ![p][l] = [phase |-> "queued", by |-> page[p].client,
                                   panel |-> page[p].panel]]
  /\ UNCHANGED <<page, clients>>

\* The function is free.
Free(f) == \A q \in Pages, k \in Listeners :
             Function(k) = f => job[q][k].phase \in {"idle", "queued"}

\* Logged out meanwhile, or an empty message: the page is as it was at the click.
GiveUp(p, l) ==
  /\ job[p][l].phase = "queued" /\ Free(Function(l))
  /\ page[p].client = None \/ l # "confirm"
  /\ Show(p, job[p][l].by, job[p][l].panel, FALSE)
  /\ job' = [job EXCEPT ![p][l] = NoJob]
  /\ UNCHANGED <<left, clients>>

\* The question appears, the button goes, the request is sent.
Send(p, l) ==
  LET j == job[p][l]
      panel == j.panel \cup {User(j.by)} IN
  /\ j.phase = "queued" /\ Free(Function(l)) /\ page[p].client # None
  /\ Show(p, j.by, panel, FALSE)
  /\ job' = [job EXCEPT ![p][l] = [phase |-> "sent", by |-> j.by, panel |-> panel,
                                   client |-> page[p].client]]
  /\ UNCHANGED <<left, clients>>

\* ChatClient.send_message: the stage event sets the client's stage, then the
\* turn is persisted, which makes its conversation the last active one; the
\* request fails or times out before, between or after these.
Respond(p, l, stage) ==
  LET c == job[p][l].client
      staged == [clients EXCEPT ![c].stage = stage]
      touched == Touched(clients[c].conversation) IN
  /\ job[p][l].phase = "sent"
  /\ \/ /\ clients' = staged /\ latest' = touched
        /\ job' = [job EXCEPT ![p][l].phase = "answered"]
     \/ /\ clients' \in {clients, staged}
        /\ latest' \in {latest} \cup (IF clients' = staged THEN {touched} ELSE {})
        /\ job' = [job EXCEPT ![p][l].phase = "failed"]
  /\ UNCHANGED <<left, conversations, lookup, contested, page>>

\* Mutant of Visible: any answer shows the button.
VisibleWhenAnswered(p, l) == job[p][l].phase = "answered"

\* Only a message shows the button, when the client's last stage asks for it.
Visible(p, l) ==
  /\ l # "confirm" /\ job[p][l].phase = "answered"
  /\ clients[job[p][l].client].stage = "WAITING_CONFIRMATION"

\* The last yield: the history of the event with the answer.
Yield(p, l) ==
  LET j == job[p][l] IN
  /\ j.phase \in {"answered", "failed"}
  /\ page' = [page EXCEPT ![p].panel = j.panel \cup {User(j.client)},
                          ![p].button = Visible(p, l),
                          ![p].late = @ \/ j.by # page[p].client \/ j.client # page[p].client,
                          ![p].asked = IF Visible(p, l) THEN j.client ELSE @]
  /\ job' = [job EXCEPT ![p][l] = NoJob]
  /\ UNCHANGED <<left, clients>>

-----------------------------------------------------------------------------
PageInit ==
  /\ page = [p \in Pages |-> Blank]
  /\ clients = <<>>
  /\ job = [p \in Pages |-> [l \in Listeners |-> NoJob]]

-----------------------------------------------------------------------------
(* What must hold                                                          *)

PageTypeOK ==
  /\ \A p \in Pages : /\ page[p].client \in DOMAIN clients \cup {None}
                      /\ page[p].panel \subseteq Names
                      /\ page[p].button \in BOOLEAN
  /\ \A c \in DOMAIN clients : clients[c].conversation.user = User(c)
  /\ \A p \in Pages, l \in Listeners :
       job[p][l].phase \in {"idle", "queued", "sent", "answered", "failed"}

\* A page shows the conversation of whoever is logged in and nothing of anyone
\* else, unless an event clicked under an earlier login wrote on it since: the
\* one way in which the sharing of a page leaks (customer_ui.py:407-480).
OnlyLateEventsIntrude ==
  \A p \in Pages : ~page[p].late =>
    page[p].panel \subseteq IF page[p].client = None THEN {} ELSE {User(page[p].client)}

\* When all its events are over, a visible confirm button goes with a client
\* whose last turn waits for the confirmation, unless it was left visible by
\* an earlier login: also when a message and a confirmation overlapped.
ButtonFitsStage ==
  \A p \in Pages :
    /\ page[p].button /\ page[p].client # None /\ page[p].asked = page[p].client
    /\ \A l \in Listeners : job[p][l].phase = "idle"
    => clients[page[p].client].stage = "WAITING_CONFIRMATION"
=============================================================================
