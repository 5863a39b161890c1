------------------------------- MODULE Accounts -------------------------------
(***************************************************************************)
(* Accounts and conversations: the registration with its two checks before *)
(* the insert, the login, and resolve_session, which gives a user the      *)
(* conversation that was active last and creates one when there is none.   *)
(* Several requests run at the same time; between a query and the insert   *)
(* after it others may commit, and only the unique indexes stand.          *)
(*                                                                         *)
(* An account is a name with an email address; a conversation is known by  *)
(* its user and the client_session_id it was created with, which a unique  *)
(* index keeps apart.  Tokens are taken as valid: they are not revoked.    *)
(***************************************************************************)
EXTENDS Naturals, FiniteSets, Sequences

CONSTANTS
  Names,       \* usernames
  Emails,
  Customers,   \* the accounts there are at the start
  Newcomers,   \* registrations that may run at the same time
  Wanted,      \* the accounts they may ask for
  Pages,       \* browser pages of the customer UI
  Programs,    \* other clients of /chat, each with its own client_session_id
  Budgets,     \* bound: mixes of how much each part may do in one behaviour
  None

Account == [name : Names, email : Emails]

Parts == {"signup", "program", "page", "desk"}

ASSUME AccountAssumption ==
  /\ Customers \cup Wanted \subseteq Account
  /\ Budgets \subseteq [Parts -> Nat] /\ Pages \cap Programs = {}

\* The unique indexes hold of the accounts there are; clients are numbered.
ASSUME UniqueAssumption ==
  \A a, b \in Customers : a.name = b.name \/ a.email = b.email => a = b

VARIABLES
  left,          \* left[part]: requests and clicks still to come
  accounts,      \* rows of users
  signup,        \* signup[n]: a registration
  conversations, \* rows of conversation_sessions
  latest,        \* latest[user]: the row of the user that was active last
  lookup,        \* lookup[r]: a resolve_session without conversation_id
  contested      \* history: users of whom two requests created a conversation at once

accountVars == <<accounts, signup>>
sessionVars == <<conversations, latest, lookup, contested>>

Requesters == Pages \cup Programs
Clients == {"account"} \cup Programs
Conversation == [user : Names, client : Clients]

ASSUME NoneAssumption == None \notin Nat \cup Conversation

NotAsked == [phase |-> "idle", user |-> None]

Request(part) == left[part] > 0 /\ left' = [left EXCEPT ![part] = @ - 1]

-----------------------------------------------------------------------------
(* register                                                                *)

NameTaken(n) == \E a \in accounts : a.name = signup[n].account.name
EmailTaken(n) == \E a \in accounts : a.email = signup[n].account.email

EnterSignup(n, phase) == signup' = [signup EXCEPT ![n].phase = phase]

\* raced is history: another registration was committed since this one began.
Register(n, account) ==
  /\ Request("signup")
  /\ signup[n].phase = "idle"
  /\ signup' = [signup EXCEPT ![n] = [phase |-> "name", account |-> account,
                                      raced |-> FALSE]]
  /\ UNCHANGED accounts

CheckName(n) ==
  /\ signup[n].phase = "name"
  /\ EnterSignup(n, IF NameTaken(n) THEN "refused" ELSE "email")
  /\ UNCHANGED <<left, accounts>>

\* Mutant of CheckEmail: the address is left to the index.
CheckEmailNever(n) ==
  /\ signup[n].phase = "email"
  /\ EnterSignup(n, "insert")
  /\ UNCHANGED <<left, accounts>>

CheckEmail(n) ==
  /\ signup[n].phase = "email"
  /\ EnterSignup(n, IF EmailTaken(n) THEN "refused" ELSE "insert")
  /\ UNCHANGED <<left, accounts>>

\* The commit; an IntegrityError of the unique indexes is not handled.  Values fit
\* their columns: one that does not is an unhandled error too, and is left out.
InsertUser(n) ==
  /\ signup[n].phase = "insert"
  /\ IF NameTaken(n) \/ EmailTaken(n)
     THEN EnterSignup(n, "error") /\ UNCHANGED accounts
     ELSE /\ accounts' = accounts \cup {signup[n].account}
          /\ signup' = [k \in Newcomers |->
               IF k = n THEN [signup[n] EXCEPT !.phase = "registered"]
               ELSE [signup[k] EXCEPT !.raced = @ \/ signup[k].phase # "idle"]]
  /\ UNCHANGED left

-----------------------------------------------------------------------------
(* resolve_session                                                         *)

\* What /chat/session uses for the pages, and what a program sends along.
Client(r) == IF r \in Pages THEN "account" ELSE r

\* The order of the other rows is never looked at: none is ever deleted.
Touched(c) == [latest EXCEPT ![c.user] = c]

Ask(r, user) == lookup' = [lookup EXCEPT ![r] = [phase |-> "asked", user |-> user]]
Found(r, c) == lookup' = [lookup EXCEPT ![r] = [phase |-> "found", user |-> lookup[r].user,
                                                conversation |-> c]]

\* A program's first message, sent without a conversation_id.
AskByProgram(r, user) ==
  /\ Request("program")
  /\ lookup[r].phase = "idle" /\ \E a \in accounts : a.name = user
  /\ Ask(r, user)
  /\ UNCHANGED <<conversations, latest, contested>>

\* There is none: the request is about to create one, maybe not the only one.
Miss(r) ==
  LET user == lookup[r].user IN
  /\ lookup' = [lookup EXCEPT ![r].phase = "creating"]
  /\ contested' = contested \cup {u \in {user} : \E q \in Requesters :
       lookup[q].phase = "creating" /\ lookup[q].user = u}

\* Mutant of LookUp: the conversation is looked for under the client's own id.
LookUpByClient(r) ==
  LET own == [user |-> lookup[r].user, client |-> Client(r)] IN
  /\ lookup[r].phase = "asked"
  /\ \/ own \in conversations /\ Found(r, own) /\ UNCHANGED contested
     \/ own \notin conversations /\ Miss(r)
  /\ UNCHANGED <<left, conversations, latest>>

\* Mutant of LookUp: the conversation that was active last is any user's.
LookUpAnyUser(r) ==
  /\ lookup[r].phase = "asked"
  /\ \/ (\E c \in conversations : Found(r, c)) /\ UNCHANGED contested
     \/ conversations = {} /\ Miss(r)
  /\ UNCHANGED <<left, conversations, latest>>

\* The user's conversation that was active last, whoever began it.
LookUp(r) ==
  LET last == latest[lookup[r].user] IN
  /\ lookup[r].phase = "asked"
  /\ \/ last # None /\ Found(r, last) /\ UNCHANGED contested
     \/ last = None /\ Miss(r)
  /\ UNCHANGED <<left, conversations, latest>>

\* The commit, or after an IntegrityError the row that was there first.
Create(r) ==
  LET new == [user |-> lookup[r].user, client |-> Client(r)] IN
  /\ lookup[r].phase = "creating"
  /\ Found(r, new)
  /\ conversations' = conversations \cup {new}
  /\ latest' = IF new \in conversations THEN latest ELSE Touched(new)
  /\ UNCHANGED <<left, contested>>

\* The turn of a program, with whatever it found; a turn that is persisted
\* makes its conversation the last active one.
TurnOfProgram(r) ==
  /\ r \in Programs /\ lookup[r].phase = "found"
  /\ latest' = Touched(lookup[r].conversation)
  /\ lookup' = [lookup EXCEPT ![r] = NotAsked]
  /\ UNCHANGED <<left, conversations, contested>>

-----------------------------------------------------------------------------
AccountsInit ==
  /\ left \in Budgets
  /\ accounts = Customers
  /\ signup = [n \in Newcomers |-> [phase |-> "idle", account |-> None, raced |-> FALSE]]
  /\ conversations = {}
  /\ latest = [user \in Names |-> None]
  /\ lookup = [r \in Requesters |-> NotAsked]
  /\ contested = {}

Signup == \E n \in Newcomers : \/ \E a \in Wanted : Register(n, a)
                               \/ CheckName(n) \/ CheckEmail(n) \/ InsertUser(n)

Resolve == \/ \E r \in Programs, user \in Names : AskByProgram(r, user)
           \/ \E r \in Requesters : LookUp(r) \/ Create(r)
           \/ \E r \in Programs : TurnOfProgram(r)

-----------------------------------------------------------------------------
(* What must hold                                                          *)

AccountsTypeOK ==
  /\ left \in [Parts -> Nat]
  /\ accounts \subseteq Account
  /\ \A n \in Newcomers :
       signup[n].phase \in {"idle", "name", "email", "insert", "registered", "refused", "error"}
  /\ conversations \subseteq Conversation
  /\ \A user \in Names : latest[user] \in {c \in conversations : c.user = user} \cup {None}
  /\ \A r \in Requesters :
       /\ lookup[r].phase \in {"idle", "asked", "creating", "found"}
       /\ lookup[r].phase = "found" => lookup[r].conversation \in conversations
  /\ contested \subseteq Names

\* No two accounts share a name or an address, and a registration only ends in
\* an unhandled error when another one was committed while it ran; else a
\* taken name or address is refused politely (auth.py: the two checks).
RegistrationIsSafe ==
  /\ \A a, b \in accounts : a.name = b.name \/ a.email = b.email => a = b
  /\ \A n \in Newcomers : signup[n].phase = "error" => signup[n].raced

\* A user has one conversation, on all pages and in all programs, unless two
\* requests created one at the same time under different client ids; a race
\* under one id is settled by the unique index (state_manager.py).
OneConversation ==
  \A c, d \in conversations :
    c.user = d.user => c = d \/ (c.user \in contested /\ c.client # d.client)
=============================================================================
