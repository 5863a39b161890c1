--------------------------- MODULE FrontDeskProofs ---------------------------
(***************************************************************************)
(* Theorems about FrontDesk for any accounts, pages, programs and          *)
(* dashboards, and any budget of requests.                                 *)
(***************************************************************************)
EXTENDS FrontDesk, SequenceTheorems, TLAPS

USE AccountAssumption DEF AccountAssumption

-----------------------------------------------------------------------------
(* Registration                                                            *)

Unique == \A a, b \in accounts : a.name = b.name \/ a.email = b.email => a = b

\* A check that let a registration pass still holds of the accounts, unless
\* another registration was committed since.
SignupFits(n) ==
  /\ signup[n] = [phase |-> signup[n].phase, account |-> signup[n].account,
                  raced |-> signup[n].raced]
  /\ signup[n].raced \in BOOLEAN
  /\ signup[n].phase \in {"email", "insert"} /\ NameTaken(n) => signup[n].raced
  /\ signup[n].phase = "insert" /\ EmailTaken(n) => signup[n].raced
  /\ signup[n].phase = "error" => signup[n].raced

SignupInv ==
  /\ Unique
  /\ signup = [n \in Newcomers |-> signup[n]]
  /\ \A n \in Newcomers : SignupFits(n)

LEMMA SignupInit == Init => SignupInv
<1> SUFFICES ASSUME Init PROVE SignupInv
  OBVIOUS
<1>1. /\ accounts = Customers
      /\ signup = [n \in Newcomers |-> [phase |-> "idle", account |-> None, raced |-> FALSE]]
  BY DEF Init, AccountsInit
<1>2. Unique
  BY <1>1, UniqueAssumption DEF UniqueAssumption, Unique
<1>3. \A n \in Newcomers : SignupFits(n)
  BY <1>1 DEF SignupFits
<1> QED BY <1>1, <1>2, <1>3 DEF SignupInv

\* A registration that moves on without an insert.
LEMMA SignupEnters ==
  ASSUME SignupInv, NEW n \in Newcomers, NEW phase, EnterSignup(n, phase),
         UNCHANGED accounts,
         phase \in {"email", "insert"} /\ NameTaken(n) => signup[n].raced,
         phase = "insert" /\ EmailTaken(n) => signup[n].raced,
         phase = "error" => signup[n].raced
  PROVE  SignupInv'
<1>1. signup' = [k \in Newcomers |-> signup'[k]]
  BY DEF SignupInv, EnterSignup
<1>2. \A k \in Newcomers \ {n} : signup'[k] = signup[k]
  BY DEF SignupInv, EnterSignup
<1>3. signup'[n] = [phase |-> phase, account |-> signup[n].account,
                    raced |-> signup[n].raced]
  BY DEF SignupInv, SignupFits, EnterSignup
<1>4. SignupFits(n)'
  <2>1. signup[n].raced \in BOOLEAN
    BY DEF SignupInv, SignupFits
  <2> QED BY <1>3, <2>1 DEF SignupFits, NameTaken, EmailTaken
<1>5. ASSUME NEW k \in Newcomers, k # n PROVE SignupFits(k)'
  BY <1>2, <1>5 DEF SignupInv, SignupFits, NameTaken, EmailTaken
<1> QED BY <1>1, <1>4, <1>5 DEF SignupInv, Unique

LEMMA SignupInserts ==
  ASSUME SignupInv, NEW n \in Newcomers, InsertUser(n)
  PROVE  SignupInv'
<1>1. signup[n].phase = "insert"
  BY DEF InsertUser
<1>2. CASE NameTaken(n) \/ EmailTaken(n)
  <2>1. signup[n].raced
    BY <1>1, <1>2 DEF SignupInv, SignupFits
  <2>2. EnterSignup(n, "error") /\ UNCHANGED accounts
    BY <1>2 DEF InsertUser
  <2> QED BY <2>1, <2>2, SignupEnters
<1>3. CASE ~(NameTaken(n) \/ EmailTaken(n))
  <2>1. /\ accounts' = accounts \cup {signup[n].account}
        /\ signup' = [k \in Newcomers |->
             IF k = n THEN [signup[n] EXCEPT !.phase = "registered"]
             ELSE [signup[k] EXCEPT !.raced = @ \/ signup[k].phase # "idle"]]
    BY <1>3 DEF InsertUser
  <2>2. Unique'
    BY <1>3, <2>1 DEF SignupInv, Unique, NameTaken, EmailTaken
  <2>3. signup'[n] = [phase |-> "registered", account |-> signup[n].account,
                      raced |-> signup[n].raced]
    BY <2>1 DEF SignupInv, SignupFits
  <2>4. ASSUME NEW k \in Newcomers, k # n
        PROVE  signup'[k] = [phase |-> signup[k].phase, account |-> signup[k].account,
                             raced |-> (signup[k].raced \/ signup[k].phase # "idle")]
    BY <2>1, <2>4 DEF SignupInv, SignupFits
  <2>5. SignupFits(n)'
    BY <2>3 DEF SignupInv, SignupFits
  <2>6. ASSUME NEW k \in Newcomers, k # n PROVE SignupFits(k)'
    <3>1. CASE signup[k].phase = "idle"
      BY <2>4, <2>6, <3>1 DEF SignupInv, SignupFits
    <3>2. CASE signup[k].phase # "idle"
      <4>1. signup'[k] = [phase |-> signup[k].phase, account |-> signup[k].account,
                          raced |-> TRUE]
        BY <2>4, <2>6, <3>2
      <4> QED BY <4>1 DEF SignupFits
    <3> QED BY <3>1, <3>2
  <2> QED BY <2>1, <2>2, <2>5, <2>6 DEF SignupInv
<1> QED BY <1>2, <1>3

LEMMA SignupStep == SignupInv /\ [Next]_vars => SignupInv'
<1> SUFFICES ASSUME SignupInv, [Next]_vars PROVE SignupInv'
  OBVIOUS
<1>1. ASSUME UNCHANGED accountVars PROVE SignupInv'
  BY <1>1 DEF accountVars, SignupInv, Unique, SignupFits, NameTaken, EmailTaken
<1>2. ASSUME NEW n \in Newcomers, NEW a \in Wanted, Register(n, a) PROVE SignupInv'
  <2>1. /\ signup' = [signup EXCEPT ![n] = [phase |-> "name", account |-> a, raced |-> FALSE]]
        /\ accounts' = accounts
    BY <1>2 DEF Register
  <2>2. signup'[n] = [phase |-> "name", account |-> a, raced |-> FALSE]
    BY <2>1 DEF SignupInv
  <2>3. \A k \in Newcomers \ {n} : signup'[k] = signup[k]
    BY <2>1 DEF SignupInv
  <2>4. SignupFits(n)'
    BY <2>2 DEF SignupFits
  <2>5. ASSUME NEW k \in Newcomers, k # n PROVE SignupFits(k)'
    BY <2>1, <2>3, <2>5 DEF SignupInv, SignupFits, NameTaken, EmailTaken
  <2> QED BY <2>1, <2>4, <2>5 DEF SignupInv, Unique
<1>3. ASSUME NEW n \in Newcomers, CheckName(n) PROVE SignupInv'
  BY <1>3, SignupEnters DEF CheckName
<1>4. ASSUME NEW n \in Newcomers, CheckEmail(n) PROVE SignupInv'
  BY <1>4, SignupEnters DEF CheckEmail, SignupInv, SignupFits
<1>5. ASSUME Signup PROVE SignupInv'
  BY <1>2, <1>3, <1>4, <1>5, SignupInserts DEF Signup
<1> QED BY <1>1, <1>5 DEF Next, Customer, Admin, vars

-----------------------------------------------------------------------------
\* However many registrations race, no two accounts share a name or an
\* address, and an unhandled error is the loser's of a race (register).
THEOREM Registration == Spec => []RegistrationIsSafe
<1>1. SignupInv => RegistrationIsSafe
  BY DEF SignupInv, Unique, SignupFits, RegistrationIsSafe
<1> QED BY <1>1, SignupInit, SignupStep, PTL DEF Spec

-----------------------------------------------------------------------------
(* Conversations                                                           *)

\* What a request knows of its user and conversation.
LookupFits(r) ==
  \/ lookup[r] = NotAsked
  \/ /\ lookup[r] = [phase |-> lookup[r].phase, user |-> lookup[r].user]
     /\ lookup[r].phase \in {"asked", "creating"} /\ lookup[r].user \in Names
  \/ /\ lookup[r] = [phase |-> "found", user |-> lookup[r].user,
                     conversation |-> lookup[r].conversation]
     /\ lookup[r].user \in Names /\ lookup[r].conversation \in conversations
     /\ lookup[r].conversation.user = lookup[r].user

Creating(r, user) == lookup[r].phase = "creating" /\ lookup[r].user = user

LatestFits(user) ==
  /\ latest[user] \in {c \in conversations : c.user = user} \cup {None}
  /\ latest[user] = None => \A c \in conversations : c.user # user

\* Two rows, two requests about to insert one, or one of each: for one user only
\* when two requests were about to insert at once.
RacesNoted(user) ==
  user \notin contested =>
    /\ \A c, d \in conversations : c.user = user /\ d.user = user => c = d
    /\ \A r, q \in Requesters : Creating(r, user) /\ Creating(q, user) => r = q
    /\ \A r \in Requesters : Creating(r, user) => \A c \in conversations : c.user # user

SessionInv ==
  /\ conversations \subseteq Conversation
  /\ latest = [user \in Names |-> latest[user]]
  /\ lookup = [r \in Requesters |-> lookup[r]]
  /\ contested \subseteq Names
  /\ \A r \in Requesters : LookupFits(r)
  /\ \A user \in Names : LatestFits(user) /\ RacesNoted(user)

LEMMA SessionInit == Init => SessionInv
BY DEF Init, AccountsInit, SessionInv, LookupFits, LatestFits, RacesNoted, Creating, NotAsked

\* A turn that is persisted, or none.
LEMMA TouchFits ==
  ASSUME SessionInv, UNCHANGED conversations,
         \/ UNCHANGED latest
         \/ \E c \in conversations : latest' = Touched(c)
  PROVE  /\ latest' = [user \in Names |-> latest'[user]]
         /\ \A user \in Names : LatestFits(user)'
<1>1. CASE UNCHANGED latest
  BY <1>1 DEF SessionInv, LatestFits
<1>2. ASSUME NEW c \in conversations, latest' = Touched(c)
      PROVE  /\ latest' = [user \in Names |-> latest'[user]]
             /\ \A user \in Names : LatestFits(user)'
  <2>1. c.user \in Names /\ c \in Conversation
    BY DEF SessionInv, Conversation
  <2>2. latest'[c.user] = c /\ \A user \in Names \ {c.user} : latest'[user] = latest[user]
    BY <1>2, <2>1 DEF SessionInv, Touched
  <2>3. latest' = [user \in Names |-> latest'[user]]
    BY <1>2 DEF SessionInv, Touched
  <2>4. LatestFits(c.user)'
    BY <2>1, <2>2, NoneAssumption DEF LatestFits, NoneAssumption
  <2>5. \A user \in Names \ {c.user} : LatestFits(user)'
    BY <2>2 DEF SessionInv, LatestFits
  <2> QED BY <2>3, <2>4, <2>5
<1> QED BY <1>1, <1>2

\* A request that is done or only asks, and maybe a turn that was persisted.
LEMMA SessionMoves ==
  ASSUME SessionInv, UNCHANGED <<conversations, contested>>,
         \/ UNCHANGED latest
         \/ \E c \in conversations : latest' = Touched(c),
         NEW r \in Requesters, NEW s, lookup' = [lookup EXCEPT ![r] = s],
         \/ s = NotAsked
         \/ \E user \in Names : s = [phase |-> "asked", user |-> user]
         \/ \E c \in conversations : s = [phase |-> "found", user |-> c.user,
                                          conversation |-> c]
  PROVE  SessionInv'
<1>1. lookup'[r] = s /\ \A q \in Requesters \ {r} : lookup'[q] = lookup[q]
  BY DEF SessionInv
<1>2. lookup' = [q \in Requesters |-> lookup'[q]]
  BY DEF SessionInv
<1>3. \A c \in conversations : c.user \in Names
  BY DEF SessionInv, Conversation
<1>4. s.phase # "creating"
  BY DEF NotAsked
<1>5. \A q \in Requesters : LookupFits(q)'
  <2>1. LookupFits(r)'
    BY <1>1, <1>3 DEF LookupFits, NotAsked
  <2>2. \A q \in Requesters \ {r} : LookupFits(q)'
    BY <1>1 DEF SessionInv, LookupFits
  <2> QED BY <2>1, <2>2
<1>6. /\ latest' = [user \in Names |-> latest'[user]]
      /\ \A user \in Names : LatestFits(user)'
  BY TouchFits
<1>7. \A user \in Names : RacesNoted(user)'
  BY <1>1, <1>4 DEF SessionInv, RacesNoted, Creating
<1> QED BY <1>2, <1>5, <1>6, <1>7 DEF SessionInv

\* Nobody asks; a turn may be persisted.
LEMMA SessionTouches ==
  ASSUME SessionInv, UNCHANGED <<conversations, lookup, contested>>,
         \/ UNCHANGED latest
         \/ \E c \in conversations : latest' = Touched(c)
  PROVE  SessionInv'
<1>1. \A q \in Requesters : LookupFits(q)'
  BY DEF SessionInv, LookupFits
<1>2. \A user \in Names : RacesNoted(user)'
  BY DEF SessionInv, RacesNoted, Creating
<1>3. /\ latest' = [user \in Names |-> latest'[user]]
      /\ \A user \in Names : LatestFits(user)'
  BY TouchFits
<1> QED BY <1>1, <1>2, <1>3 DEF SessionInv

LEMMA LookUpFits ==
  ASSUME SessionInv, NEW r \in Requesters, LookUp(r)
  PROVE  SessionInv'
<1>1. PICK user \in Names : /\ user = lookup[r].user
                            /\ lookup[r] = [phase |-> "asked", user |-> user]
  BY DEF LookUp, SessionInv, LookupFits, NotAsked
<1>2. /\ UNCHANGED <<conversations, latest>>
      /\ \/ latest[user] # None /\ Found(r, latest[user]) /\ UNCHANGED contested
         \/ latest[user] = None /\ Miss(r)
  BY <1>1 DEF LookUp
<1>3. LatestFits(user) /\ RacesNoted(user)
  BY <1>1 DEF SessionInv
<1>4. CASE latest[user] # None /\ Found(r, latest[user]) /\ UNCHANGED contested
  <2>1. latest[user] \in conversations /\ latest[user].user = user
    BY <1>3, <1>4 DEF LatestFits
  <2> DEFINE s == [phase |-> "found", user |-> user, conversation |-> latest[user]]
  <2>2. lookup' = [lookup EXCEPT ![r] = s]
    BY <1>1, <1>4 DEF Found
  <2>3. \E c \in conversations : s = [phase |-> "found", user |-> c.user, conversation |-> c]
    BY <2>1
  <2> HIDE DEF s
  <2> QED BY <1>2, <1>4, <2>2, <2>3, SessionMoves
<1>5. CASE latest[user] = None /\ Miss(r)
  <2>1. /\ lookup'[r] = [phase |-> "creating", user |-> user]
        /\ \A q \in Requesters \ {r} : lookup'[q] = lookup[q]
        /\ lookup' = [q \in Requesters |-> lookup'[q]]
    BY <1>1, <1>5 DEF Miss, SessionInv
  <2>2. /\ contested \subseteq contested' /\ contested' \subseteq contested \cup {user}
        /\ (\E q \in Requesters : Creating(q, user)) => user \in contested'
    BY <1>1, <1>5 DEF Miss, Creating
  <2>3. \A q \in Requesters : LookupFits(q)'
    BY <1>1, <1>2, <2>1 DEF SessionInv, LookupFits
  <2>4. \A u \in Names : LatestFits(u)'
    BY <1>2 DEF SessionInv, LatestFits
  <2>5. RacesNoted(user)'
    BY <1>2, <1>3, <1>5, <2>1, <2>2 DEF RacesNoted, Creating, LatestFits
  <2>6. ASSUME NEW u \in Names \ {user} PROVE RacesNoted(u)'
    <3>1. \A q \in Requesters : Creating(q, u)' => Creating(q, u)
      BY <2>1, <2>6 DEF Creating
    <3> QED BY <1>2, <2>2, <2>6, <3>1 DEF SessionInv, RacesNoted
  <2> QED BY <1>1, <1>2, <2>1, <2>2, <2>3, <2>4, <2>5, <2>6 DEF SessionInv
<1> QED BY <1>2, <1>4, <1>5

LEMMA CreateFits ==
  ASSUME SessionInv, NEW r \in Requesters, Create(r)
  PROVE  SessionInv' /\ conversations \subseteq conversations'
<1>1. PICK user \in Names : user = lookup[r].user
  BY DEF SessionInv, LookupFits, NotAsked, Create
<1> DEFINE new == [user |-> user, client |-> Client(r)]
<1>2. /\ lookup[r].phase = "creating" /\ Found(r, new)
      /\ conversations' = conversations \cup {new}
      /\ latest' = IF new \in conversations THEN latest ELSE Touched(new)
      /\ UNCHANGED contested
  BY <1>1 DEF Create
<1>3. new \in Conversation /\ new.user = user /\ new # None
  <2>1. Client(r) \in Clients
    BY DEF Client, Clients, Requesters
  <2> QED BY <1>1, <2>1, NoneAssumption DEF Conversation, NoneAssumption
<1> HIDE DEF new
<1>4. /\ lookup'[r] = [phase |-> "found", user |-> user, conversation |-> new]
      /\ \A q \in Requesters \ {r} : lookup'[q] = lookup[q]
      /\ lookup' = [q \in Requesters |-> lookup'[q]]
  BY <1>1, <1>2 DEF Found, SessionInv
<1>5. \A q \in Requesters : LookupFits(q)'
  <2>1. LookupFits(r)'
    BY <1>1, <1>2, <1>3, <1>4 DEF LookupFits
  <2>2. ASSUME NEW q \in Requesters \ {r} PROVE LookupFits(q)'
    BY <1>2, <1>4, <2>2 DEF SessionInv, LookupFits
  <2> QED BY <2>1, <2>2
<1>6. /\ latest' = [u \in Names |-> latest'[u]]
      /\ latest'[user] \in {latest[user], new}
      /\ latest'[user] = latest[user] => new \in conversations \/ latest[user] = new
      /\ \A u \in Names \ {user} : latest'[u] = latest[u]
  <2>1. CASE new \in conversations
    BY <1>1, <1>2, <2>1 DEF SessionInv
  <2>2. CASE new \notin conversations
    BY <1>1, <1>2, <1>3, <2>2 DEF SessionInv, Touched
  <2> QED BY <2>1, <2>2
<1>7. \A u \in Names : LatestFits(u)'
  <2>1. LatestFits(user)'
    <3>1. LatestFits(user)
      BY <1>1 DEF SessionInv
    <3>2. CASE latest'[user] = new
      BY <1>2, <1>3, <3>2 DEF LatestFits
    <3>3. CASE latest'[user] # new
      <4>1. latest'[user] = latest[user] /\ new \in conversations
        BY <1>6, <3>3
      <4>2. conversations' = conversations
        BY <1>2, <4>1
      <4> QED BY <3>1, <4>1, <4>2 DEF LatestFits
    <3> QED BY <3>2, <3>3
  <2>2. ASSUME NEW u \in Names \ {user} PROVE LatestFits(u)'
    <3>1. LatestFits(u)
      BY DEF SessionInv
    <3> QED BY <1>2, <1>3, <1>6, <3>1 DEF LatestFits
  <2> QED BY <2>1, <2>2
<1>8. RacesNoted(user)'
  <2>1. RacesNoted(user) /\ Creating(r, user)
    BY <1>1, <1>2 DEF SessionInv, Creating
  <2>2. \A q \in Requesters : Creating(q, user)' => q # r /\ Creating(q, user)
    BY <1>4 DEF Creating
  <2>3. SUFFICES ASSUME user \notin contested PROVE RacesNoted(user)'
    BY <1>2 DEF RacesNoted
  <2>4. \A c \in conversations' : c.user = user => c = new
    BY <1>2, <2>1, <2>3 DEF RacesNoted
  <2>5. \A q \in Requesters : ~Creating(q, user)'
    BY <2>1, <2>2, <2>3 DEF RacesNoted
  <2> QED BY <2>4, <2>5 DEF RacesNoted
<1>9. ASSUME NEW u \in Names \ {user} PROVE RacesNoted(u)'
  <2>1. \A q \in Requesters : Creating(q, u)' => Creating(q, u)
    BY <1>4 DEF Creating
  <2>2. \A c \in conversations' : c.user = u => c \in conversations
    BY <1>2, <1>3
  <2>3. RacesNoted(u)
    BY DEF SessionInv
  <2>4. SUFFICES ASSUME u \notin contested PROVE RacesNoted(u)'
    BY <1>2 DEF RacesNoted
  <2> QED BY <2>1, <2>2, <2>3, <2>4 DEF RacesNoted
<1> QED BY <1>2, <1>3, <1>4, <1>5, <1>6, <1>7, <1>8, <1>9 DEF SessionInv

LEMMA ResolveFits ==
  ASSUME SessionInv, Resolve
  PROVE  SessionInv' /\ conversations \subseteq conversations'
<1>1. ASSUME NEW r \in Programs, NEW user \in Names, AskByProgram(r, user)
      PROVE  SessionInv' /\ conversations' = conversations
  <2>1. /\ lookup' = [lookup EXCEPT ![r] = [phase |-> "asked", user |-> user]]
        /\ UNCHANGED <<conversations, latest, contested>> /\ r \in Requesters
    BY <1>1 DEF AskByProgram, Ask, Requesters
  <2> QED BY <2>1, SessionMoves
<1>2. ASSUME NEW r \in Programs, TurnOfProgram(r)
      PROVE  SessionInv' /\ conversations' = conversations
  <2>1. /\ lookup' = [lookup EXCEPT ![r] = NotAsked]
        /\ latest' = Touched(lookup[r].conversation)
        /\ UNCHANGED <<conversations, contested>> /\ r \in Requesters
        /\ lookup[r].phase = "found"
    BY <1>2 DEF TurnOfProgram, Requesters
  <2>2. lookup[r].conversation \in conversations
    BY <2>1 DEF SessionInv, LookupFits, NotAsked
  <2> QED BY <2>1, <2>2, SessionMoves
<1>3. ASSUME NEW r \in Requesters, LookUp(r)
      PROVE  SessionInv' /\ conversations' = conversations
  BY <1>3, LookUpFits DEF LookUp
<1> QED BY <1>1, <1>2, <1>3, CreateFits DEF Resolve

-----------------------------------------------------------------------------
(* Pages: the shape of their variables                                     *)

IsPage(g) ==
  /\ g = [client |-> g.client, panel |-> g.panel, button |-> g.button,
          late |-> g.late, asked |-> g.asked]
  /\ g.button \in BOOLEAN /\ g.late \in BOOLEAN

\* An event has its history from the click on, and its client from the start.
Waiting == {"queued"}
Started == {"sent", "answered", "failed"}

IsJob(j) ==
  \/ j = NoJob
  \/ /\ j.phase \in Waiting /\ j.by # None
     /\ j = [phase |-> j.phase, by |-> j.by, panel |-> j.panel]
  \/ /\ j.phase \in Started /\ j.by # None /\ j.client # None
     /\ j = [phase |-> j.phase, by |-> j.by, panel |-> j.panel, client |-> j.client]

IsClient(c) ==
  c = [user |-> c.user, stage |-> c.stage, conversation |-> c.conversation]

Numbered ==
  /\ Len(clients) \in Nat
  /\ clients = [c \in 1 .. Len(clients) |-> clients[c]]
  /\ \A c \in 1 .. Len(clients) : IsClient(clients[c])

Shaped ==
  /\ page = [p \in Pages |-> page[p]]
  /\ job = [p \in Pages |-> job[p]]
  /\ lookup = [r \in Requesters |-> lookup[r]]
  /\ Numbered
  /\ \A p \in Pages :
       /\ IsPage(page[p])
       /\ job[p] = [l \in Listeners |-> job[p][l]]
       /\ \A l \in Listeners : IsJob(job[p][l])

-----------------------------------------------------------------------------
(* Pages: who is known where, and what is shown                            *)

\* The clients a page and its events know.
Knows(p, c) ==
  /\ c # None
  /\ \/ c \in {page[p].client, page[p].asked}
     \/ \E l \in Listeners :
          \/ job[p][l].phase \in Waiting \cup Started /\ c = job[p][l].by
          \/ job[p][l].phase \in Started /\ c = job[p][l].client

KnowsNumbered(p) == \A c : Knows(p, c) => c \in 1 .. Len(clients)

\* A client belongs to one page: it is the number of a login there.
OwnClients == \A p, q \in Pages : \A c : Knows(p, c) /\ Knows(q, c) => p = q

\* While a login is under way nobody is logged in.
LoginFirst(p) == lookup[p].phase # "idle" => page[p].client = None

Viewer(p) == IF page[p].client = None THEN {} ELSE {User(page[p].client)}

\* Without a late event the panel is the viewer's, and so is the history that
\* the viewer's own events carry.
PanelFits(p) ==
  ~page[p].late =>
    /\ page[p].panel \subseteq Viewer(p)
    /\ \A l \in Listeners :
         /\ job[p][l].phase \in Waiting \cup Started
         /\ job[p][l].by = page[p].client
         => page[p].client # None /\ job[p][l].panel \subseteq Viewer(p)

\* The button goes with a client that waits for the confirmation, or one whose
\* answer is about to be shown, which will decide on the button again.
ButtonFits(p) ==
  page[p].button =>
    /\ page[p].asked # None
    /\ \/ clients[page[p].asked].stage = "WAITING_CONFIRMATION"
       \/ \E l \in Listeners : /\ job[p][l].phase \in {"answered", "failed"}
                               /\ job[p][l].client = page[p].asked

PageFits(p) == KnowsNumbered(p) /\ LoginFirst(p) /\ PanelFits(p) /\ ButtonFits(p)

DeskInv == Shaped /\ OwnClients /\ \A p \in Pages : PageFits(p)

\* What an event of page p may do to the clients.
ClientsMove(p) ==
  /\ Len(clients') >= Len(clients)
  /\ \A c \in 1 .. Len(clients) :
       /\ clients'[c].user = clients[c].user
       /\ ~Knows(p, c) => clients'[c].stage = clients[c].stage

\* The other pages are as before.
LEMMA OtherPages ==
  ASSUME Shaped, OwnClients, Numbered', NEW p \in Pages, ClientsMove(p),
         NEW q \in Pages, q # p, PageFits(q),
         page'[q] = page[q], job'[q] = job[q], lookup'[q].phase = lookup[q].phase
  PROVE  PageFits(q)' /\ \A c : Knows(q, c)' <=> Knows(q, c)
<1>1. \A c : Knows(q, c)' <=> Knows(q, c)
  BY DEF Knows
<1>2. KnowsNumbered(q)'
  BY <1>1 DEF PageFits, KnowsNumbered, ClientsMove, Shaped, Numbered
<1>3. LoginFirst(q)'
  BY DEF PageFits, LoginFirst
<1>4. Viewer(q)' = Viewer(q)
  <2>1. page[q].client # None => page[q].client \in 1 .. Len(clients)
    BY DEF PageFits, KnowsNumbered, Knows
  <2> QED BY <2>1 DEF Viewer, User, ClientsMove
<1>5. PanelFits(q)'
  BY <1>4 DEF PageFits, PanelFits
<1>6. ButtonFits(q)'
  <2>1. SUFFICES ASSUME page[q].button
                 PROVE  ButtonFits(q)'
    BY DEF ButtonFits
  <2>2. page[q].asked # None
    BY <2>1 DEF PageFits, ButtonFits
  <2>3. Knows(q, page[q].asked)
    BY <2>2 DEF Knows
  <2>4. page[q].asked \in 1 .. Len(clients) /\ ~Knows(p, page[q].asked)
    BY <2>3 DEF PageFits, KnowsNumbered, OwnClients
  <2> QED BY <2>1, <2>2, <2>4 DEF PageFits, ButtonFits, ClientsMove
<1> QED BY <1>1, <1>2, <1>3, <1>5, <1>6 DEF PageFits

\* A step of one page: what is left to show of it.
LEMMA PageMoves ==
  ASSUME DeskInv, NEW p \in Pages, Shaped', ClientsMove(p),
         \A q \in Pages \ {p} : /\ page'[q] = page[q] /\ job'[q] = job[q]
                                /\ lookup'[q].phase = lookup[q].phase,
         \A c : Knows(p, c)' => Knows(p, c) \/ c \notin 1 .. Len(clients),
         PageFits(p)'
  PROVE  DeskInv'
<1>1. \A q \in Pages \ {p} : PageFits(q)' /\ \A c : Knows(q, c)' <=> Knows(q, c)
  BY OtherPages DEF DeskInv, Shaped
<1>2. \A q \in Pages \ {p} : \A c : Knows(q, c) => c \in 1 .. Len(clients)
  BY DEF DeskInv, PageFits, KnowsNumbered
<1>3. OwnClients'
  BY <1>1, <1>2 DEF DeskInv, OwnClients
<1> QED BY <1>1, <1>3 DEF DeskInv

\* A step of a listener changes its page and its event.
Changes(p, l, g, r) ==
  /\ page' = [page EXCEPT ![p] = g]
  /\ job' = [job EXCEPT ![p][l] = r]
  /\ UNCHANGED lookup

LEMMA ListenerMoves ==
  ASSUME DeskInv, NEW p \in Pages, NEW l \in Listeners, NEW g, NEW r,
         IsPage(g), IsJob(r), Numbered', Changes(p, l, g, r)
  PROVE  /\ Shaped'
         /\ page'[p] = g /\ job'[p][l] = r
         /\ \A k \in Listeners \ {l} : job'[p][k] = job[p][k]
         /\ \A q \in Pages \ {p} : page'[q] = page[q] /\ job'[q] = job[q]
<1>1. page'[p] = g /\ job'[p][l] = r
  BY DEF DeskInv, Shaped, Changes
<1>2. \A k \in Listeners \ {l} : job'[p][k] = job[p][k]
  BY DEF DeskInv, Shaped, Changes
<1>3. \A q \in Pages \ {p} : page'[q] = page[q] /\ job'[q] = job[q]
  BY DEF DeskInv, Shaped, Changes
<1>4. job'[p] = [k \in Listeners |-> job'[p][k]]
  BY DEF DeskInv, Shaped, Changes
<1>5. /\ page' = [q \in Pages |-> page'[q]] /\ job' = [q \in Pages |-> job'[q]]
      /\ lookup' = [q \in Requesters |-> lookup'[q]]
  BY DEF DeskInv, Shaped, Changes
<1>6. \A q \in Pages : /\ IsPage(page'[q])
                       /\ job'[q] = [k \in Listeners |-> job'[q][k]]
                       /\ \A k \in Listeners : IsJob(job'[q][k])
  BY <1>1, <1>2, <1>3, <1>4 DEF DeskInv, Shaped, Changes
<1> QED BY <1>1, <1>2, <1>3, <1>5, <1>6 DEF Shaped

LEMMA LenOfFunction ==
  ASSUME NEW n \in Nat, NEW f, f = [i \in 1 .. n |-> f[i]]
  PROVE  Len(f) = n /\ f \in Seq({f[i] : i \in 1 .. n})
<1> DEFINE S == {f[i] : i \in 1 .. n}
<1>1. f \in [1 .. n -> S]
  OBVIOUS
<1>2. f \in Seq(S)
  BY <1>1, SeqDef
<1>3. Len(f) \in Nat /\ DOMAIN f = 1 .. Len(f)
  BY <1>2, LenProperties
<1> QED BY <1>1, <1>2, <1>3

LEMMA SameClients ==
  ASSUME UNCHANGED clients, Numbered
  PROVE  Numbered' /\ \A p \in Pages : ClientsMove(p)
BY DEF Numbered, ClientsMove

LEMMA ClickKeeps ==
  ASSUME DeskInv, NEW p \in Pages, NEW l \in Listeners, Click(p, l), UNCHANGED lookup
  PROVE  DeskInv'
<1> DEFINE r == [phase |-> "queued", by |-> page[p].client, panel |-> page[p].panel]
<1>1. /\ page[p].client # None /\ job[p][l].phase = "idle"
      /\ job' = [job EXCEPT ![p][l] = r] /\ UNCHANGED <<page, clients>>
  BY DEF Click
<1>2. IsJob(r)
  BY <1>1 DEF IsJob, Waiting
<1>3. Changes(p, l, page[p], r) /\ IsPage(page[p])
  BY <1>1 DEF DeskInv, Shaped, Changes
<1>4. Numbered' /\ ClientsMove(p)
  BY <1>1, SameClients DEF DeskInv, Shaped
<1>5. /\ Shaped' /\ job'[p][l] = r
      /\ \A k \in Listeners \ {l} : job'[p][k] = job[p][k]
      /\ \A q \in Pages \ {p} : page'[q] = page[q] /\ job'[q] = job[q]
  <2> HIDE DEF r
  <2> QED BY <1>1, <1>2, <1>3, <1>4, ListenerMoves
<1>6. \A c : Knows(p, c)' => Knows(p, c)
  BY <1>1, <1>5 DEF Knows, Waiting, Started
<1>7. PageFits(p)'
  <2>1. PageFits(p)
    BY DEF DeskInv
  <2>2. KnowsNumbered(p)' /\ LoginFirst(p)'
    BY <1>1, <1>6, <2>1 DEF PageFits, KnowsNumbered, LoginFirst
  <2>3. PanelFits(p)'
    BY <1>1, <1>5, <2>1 DEF PageFits, PanelFits, Viewer, User
  <2>4. ButtonFits(p)'
    BY <1>1, <1>5, <2>1 DEF PageFits, ButtonFits
  <2> QED BY <2>2, <2>3, <2>4 DEF PageFits
<1> QED BY <1>4, <1>5, <1>6, <1>7, PageMoves

\* The record of a page, updated field by field.
PageRecord(h) ==
  [client |-> h.client, panel |-> h.panel, button |-> h.button, late |-> h.late,
   asked |-> h.asked]

LEMMA SetPage ==
  ASSUME NEW h, h = PageRecord(h), NEW panel, NEW button, NEW late
  PROVE  [h EXCEPT !.panel = panel, !.button = button, !.late = late]
           = [client |-> h.client, panel |-> panel, button |-> button, late |-> late,
              asked |-> h.asked]
<1> DEFINE k == [h EXCEPT !.panel = panel]
           m == [k EXCEPT !.button = button]
<1>1. k = [client |-> h.client, panel |-> panel, button |-> h.button, late |-> h.late,
           asked |-> h.asked]
  BY DEF PageRecord
<1>2. m = [client |-> h.client, panel |-> panel, button |-> button, late |-> h.late,
           asked |-> h.asked]
  <2>1. k = PageRecord(k)
    BY <1>1 DEF PageRecord
  <2>2. m = [client |-> k.client, panel |-> k.panel, button |-> button, late |-> k.late,
             asked |-> k.asked]
    <3> HIDE DEF k
    <3> QED BY <2>1 DEF PageRecord
  <2> HIDE DEF k, m
  <2> QED BY <1>1, <2>2
<1>3. m = PageRecord(m)
  <2> HIDE DEF m
  <2> QED BY <1>2 DEF PageRecord
<1>4. [m EXCEPT !.late = late]
        = [client |-> m.client, panel |-> m.panel, button |-> m.button, late |-> late,
           asked |-> m.asked]
  <2> HIDE DEF m
  <2> QED BY <1>3 DEF PageRecord
<1>5. [h EXCEPT !.panel = panel, !.button = button, !.late = late] = [m EXCEPT !.late = late]
  OBVIOUS
<1>6. /\ m.client = h.client /\ m.panel = panel /\ m.button = button
      /\ m.asked = h.asked
  <2> HIDE DEF m
  <2> QED BY <1>2
<1> HIDE DEF m
<1> QED BY <1>4, <1>5, <1>6

\* What Show leaves on a page.
Left(p, panel, late) ==
  [client |-> page[p].client, panel |-> panel, button |-> FALSE, late |-> late,
   asked |-> page[p].asked]

Leaves(p, panel, late) == page' = [page EXCEPT ![p] = Left(p, panel, late)]

LEMMA Shows ==
  ASSUME Shaped, NEW p \in Pages, NEW by, NEW panel, Show(p, by, panel, FALSE)
  PROVE  \E late \in BOOLEAN :
           /\ Leaves(p, panel, late)
           /\ IsPage(Left(p, panel, late))
           /\ late <=> page[p].late \/ by # page[p].client
           /\ page[p].late \in BOOLEAN
<1> DEFINE G(late) == Left(p, panel, late)
<1>1. IsPage(page[p]) /\ page = [q \in Pages |-> page[q]]
  BY DEF Shaped
<1>2. page' = [page EXCEPT ![p].panel = panel, ![p].button = FALSE,
                           ![p].late = @ \/ by # page[p].client]
  BY DEF Show
<1>3. page[p].late \in BOOLEAN
  BY <1>1 DEF IsPage
<1>4. PICK late \in BOOLEAN : late = (page[p].late \/ by # page[p].client)
  BY <1>3
<1>5. page' = [page EXCEPT ![p].panel = panel, ![p].button = FALSE, ![p].late = late]
  BY <1>2, <1>4
<1>6. page' = [page EXCEPT ![p] = G(late)]
  <2>1. [page[p] EXCEPT !.panel = panel, !.button = FALSE, !.late = late] = G(late)
    <3>1. page[p] = PageRecord(page[p])
      BY <1>1 DEF IsPage, PageRecord
    <3> QED BY <3>1, SetPage DEF Left
  <2>2. page' = [page EXCEPT ![p] = [page[p] EXCEPT !.panel = panel, !.button = FALSE,
                                                    !.late = late]]
    BY <1>1, <1>5
  <2> QED BY <2>1, <2>2
<1>7. IsPage(G(late))
  BY DEF IsPage, Left
<1> QED BY <1>3, <1>4, <1>6, <1>7 DEF Leaves

LEMMA GiveUpKeeps ==
  ASSUME DeskInv, NEW p \in Pages, NEW l \in Listeners, GiveUp(p, l), UNCHANGED lookup
  PROVE  DeskInv'
<1> DEFINE j == job[p][l]
<1>1. /\ j.phase = "queued" /\ UNCHANGED clients
      /\ Show(p, j.by, j.panel, FALSE)
      /\ job' = [job EXCEPT ![p][l] = NoJob]
  BY DEF GiveUp
<1>2. PICK late \in BOOLEAN :
        /\ Leaves(p, j.panel, late)
        /\ IsPage(Left(p, j.panel, late))
        /\ late <=> page[p].late \/ j.by # page[p].client
        /\ page[p].late \in BOOLEAN
  <2>1. Shaped
    BY DEF DeskInv
  <2> HIDE DEF j
  <2> QED BY <1>1, <2>1, Shows
<1> DEFINE g == Left(p, j.panel, late)
<1>3. Changes(p, l, g, NoJob) /\ IsJob(NoJob)
  BY <1>1, <1>2 DEF Changes, IsJob, Leaves
<1>4. Numbered' /\ ClientsMove(p)
  BY <1>1, SameClients DEF DeskInv, Shaped
<1>5. /\ Shaped' /\ page'[p] = g /\ job'[p][l] = NoJob
      /\ \A k \in Listeners \ {l} : job'[p][k] = job[p][k]
      /\ \A q \in Pages \ {p} : page'[q] = page[q] /\ job'[q] = job[q]
  BY <1>2, <1>3, <1>4, ListenerMoves
<1>6. /\ page'[p].client = page[p].client /\ page'[p].panel = j.panel
      /\ ~page'[p].button /\ page'[p].late = late /\ page'[p].asked = page[p].asked
  BY <1>5 DEF Left
<1>7. \A c : Knows(p, c)' => Knows(p, c)
  BY <1>5, <1>6 DEF Knows, Waiting, Started, NoJob
<1>8. PageFits(p)'
  <2>1. PageFits(p)
    BY DEF DeskInv
  <2>2. KnowsNumbered(p)' /\ LoginFirst(p)'
    BY <1>1, <1>5, <1>7, <1>6, <2>1 DEF PageFits, KnowsNumbered, LoginFirst
  <2>3. PanelFits(p)'
    <3>1. CASE page[p].late \/ j.by # page[p].client
      <4>1. page'[p].late
        BY <1>2, <1>6, <3>1
      <4> QED BY <4>1 DEF PanelFits
    <3>2. CASE ~page[p].late /\ j.by = page[p].client
      <4>1. Viewer(p)' = Viewer(p)
        BY <1>1, <1>6 DEF Viewer, User
      <4>2. j.panel \subseteq Viewer(p)
        BY <1>1, <2>1, <3>2 DEF PageFits, PanelFits, Waiting
      <4> QED BY <1>5, <1>6, <2>1, <3>2, <4>1, <4>2 DEF PageFits, PanelFits, Waiting, Started, NoJob
    <3> QED BY <3>1, <3>2
  <2>4. ButtonFits(p)'
    BY <1>6 DEF ButtonFits
  <2> QED BY <2>2, <2>3, <2>4 DEF PageFits
<1> QED BY <1>4, <1>5, <1>7, <1>8, PageMoves DEF Changes

LEMMA SendKeeps ==
  ASSUME DeskInv, NEW p \in Pages, NEW l \in Listeners, Send(p, l), UNCHANGED lookup
  PROVE  DeskInv'
<1> DEFINE j == job[p][l]
           panel == j.panel \cup {User(j.by)}
           r == [phase |-> "sent", by |-> j.by, panel |-> panel, client |-> page[p].client]
<1>1. /\ j.phase = "queued" /\ page[p].client # None /\ UNCHANGED clients
      /\ Show(p, j.by, panel, FALSE)
      /\ job' = [job EXCEPT ![p][l] = r]
  BY DEF Send
<1>2. PICK late \in BOOLEAN :
        /\ Leaves(p, panel, late)
        /\ IsPage(Left(p, panel, late))
        /\ late <=> page[p].late \/ j.by # page[p].client
        /\ page[p].late \in BOOLEAN
  <2>1. Shaped
    BY DEF DeskInv
  <2> HIDE DEF j, panel
  <2> QED BY <1>1, <2>1, Shows
<1> DEFINE g == Left(p, panel, late)
<1>3. j.by # None
  <2>1. IsJob(j)
    BY DEF DeskInv, Shaped
  <2>2. j # NoJob /\ j.phase \notin Started
    BY <1>1 DEF NoJob, Started
  <2> QED BY <2>1, <2>2 DEF IsJob
<1>4. Changes(p, l, g, r) /\ IsJob(r)
  BY <1>1, <1>2, <1>3 DEF Changes, IsJob, Started, Leaves
<1>5. Numbered' /\ ClientsMove(p)
  BY <1>1, SameClients DEF DeskInv, Shaped
<1>6. /\ Shaped' /\ page'[p] = g /\ job'[p][l] = r
      /\ \A k \in Listeners \ {l} : job'[p][k] = job[p][k]
      /\ \A q \in Pages \ {p} : page'[q] = page[q] /\ job'[q] = job[q]
  <2> HIDE DEF r
  <2> QED BY <1>2, <1>4, <1>5, ListenerMoves
<1>7. /\ page'[p].client = page[p].client /\ page'[p].panel = panel
      /\ ~page'[p].button /\ page'[p].late = late /\ page'[p].asked = page[p].asked
  BY <1>6 DEF Left
<1>8. \A c : Knows(p, c)' => Knows(p, c)
  <2>1. job'[p][l].by = j.by /\ job'[p][l].client = page[p].client
    BY <1>6
  <2> HIDE DEF r
  <2> QED BY <1>1, <1>6, <1>7, <2>1 DEF Knows, Waiting, Started
<1>9. PageFits(p)'
  <2>1. PageFits(p)
    BY DEF DeskInv
  <2>2. KnowsNumbered(p)' /\ LoginFirst(p)'
    BY <1>1, <1>6, <1>8, <1>7, <2>1 DEF PageFits, KnowsNumbered, LoginFirst
  <2>3. PanelFits(p)'
    <3>1. CASE page[p].late \/ j.by # page[p].client
      <4>1. page'[p].late
        BY <1>2, <1>7, <3>1
      <4> QED BY <4>1 DEF PanelFits
    <3>2. CASE ~page[p].late /\ j.by = page[p].client
      <4>1. Viewer(p)' = Viewer(p) /\ Viewer(p) = {User(j.by)}
        BY <1>1, <1>7, <3>2 DEF Viewer, User
      <4>2. panel \subseteq Viewer(p)
        BY <1>1, <2>1, <3>2, <4>1 DEF PageFits, PanelFits, Waiting
      <4>3. ASSUME NEW k \in Listeners, k # l,
                   job[p][k].phase \in Waiting \cup Started,
                   job[p][k].by = page[p].client
            PROVE  job[p][k].panel \subseteq Viewer(p)
        BY <2>1, <3>2, <4>3 DEF PageFits, PanelFits
      <4>4. /\ page'[p].panel = panel /\ page'[p].client = page[p].client
            /\ job'[p][l].by = j.by /\ job'[p][l].panel = panel
        <5> HIDE DEF panel
        <5> QED BY <1>6, <1>7
      <4>5. page'[p].client # None
        BY <1>1, <4>4
      <4>6. ASSUME NEW k \in Listeners, k # l,
                   job'[p][k].phase \in Waiting \cup Started,
                   job'[p][k].by = page'[p].client
            PROVE  job'[p][k].panel \subseteq Viewer(p)'
        <5>1. job'[p][k] = job[p][k]
          BY <1>6, <4>6
        <5> QED BY <4>1, <4>3, <4>4, <4>6, <5>1
      <4> HIDE DEF panel
      <4> QED BY <4>1, <4>2, <4>4, <4>5, <4>6 DEF PanelFits
    <3> QED BY <3>1, <3>2
  <2>4. ButtonFits(p)'
    BY <1>7 DEF ButtonFits
  <2> QED BY <2>2, <2>3, <2>4 DEF PageFits
<1> QED BY <1>5, <1>6, <1>8, <1>9, PageMoves DEF Changes

LEMMA RespondKeeps ==
  ASSUME DeskInv, NEW p \in Pages, NEW l \in Listeners, NEW stage, Respond(p, l, stage)
  PROVE  DeskInv'
<1> DEFINE j == job[p][l]
           c == j.client
           staged == [clients EXCEPT ![c].stage = stage]
           r(phase) == [phase |-> phase, by |-> j.by, panel |-> j.panel, client |-> c]
<1>1. /\ j.phase = "sent" /\ clients' \in {clients, staged} /\ UNCHANGED <<page, lookup>>
      /\ \E phase \in {"answered", "failed"} : job' = [job EXCEPT ![p][l].phase = phase]
  BY DEF Respond
<1>2. PICK phase \in {"answered", "failed"} : job' = [job EXCEPT ![p][l].phase = phase]
  BY <1>1
<1>3. /\ j.by # None /\ c # None
      /\ j = [phase |-> j.phase, by |-> j.by, panel |-> j.panel, client |-> c]
  <2>1. IsJob(j)
    BY DEF DeskInv, Shaped
  <2>2. j # NoJob /\ j.phase \notin Waiting
    BY <1>1 DEF NoJob, Waiting
  <2> QED BY <2>1, <2>2 DEF IsJob
<1>4. Knows(p, c) /\ c \in 1 .. Len(clients)
  <2>1. Knows(p, c)
    BY <1>1, <1>3 DEF Knows, Started
  <2> QED BY <2>1 DEF DeskInv, PageFits, KnowsNumbered
<1>5. Numbered' /\ ClientsMove(p)
  <2>1. CASE clients' = clients
    BY <2>1, SameClients DEF DeskInv, Shaped
  <2>2. CASE clients' = staged
    <3>1. /\ Len(clients) \in Nat /\ clients = [d \in 1 .. Len(clients) |-> clients[d]]
          /\ \A d \in 1 .. Len(clients) : IsClient(clients[d])
      BY DEF DeskInv, Shaped, Numbered
    <3>2. staged[c] = [user |-> clients[c].user, stage |-> stage,
                       conversation |-> clients[c].conversation]
      BY <1>4, <3>1 DEF IsClient
    <3>3. \A d \in 1 .. Len(clients) : d # c => staged[d] = clients[d]
      BY <3>1
    <3>4. Len(staged) = Len(clients) /\ staged = [d \in 1 .. Len(clients) |-> staged[d]]
      <4>1. staged = [d \in 1 .. Len(clients) |-> staged[d]]
        BY <3>1
      <4> HIDE DEF staged
      <4> QED BY <3>1, <4>1, LenOfFunction
    <3> HIDE DEF staged, c
    <3>5. \A d \in 1 .. Len(clients) : IsClient(staged[d]) /\ staged[d].user = clients[d].user
      BY <3>1, <3>2, <3>3 DEF IsClient
    <3> QED BY <1>4, <2>2, <3>1, <3>3, <3>4, <3>5 DEF Numbered, ClientsMove
  <2> QED BY <1>1, <2>1, <2>2
<1>6. Changes(p, l, page[p], r(phase)) /\ IsJob(r(phase)) /\ IsPage(page[p])
  <2>1. [j EXCEPT !.phase = phase] = r(phase)
    BY <1>3
  <2>2. job' = [job EXCEPT ![p][l] = [j EXCEPT !.phase = phase]]
    BY <1>2 DEF DeskInv, Shaped
  <2>3. job' = [job EXCEPT ![p][l] = r(phase)]
    <3> HIDE DEF j, r
    <3> QED BY <2>1, <2>2
  <2>4. IsPage(page[p]) /\ page' = [page EXCEPT ![p] = page[p]]
    BY <1>1 DEF DeskInv, Shaped
  <2>5. IsJob(r(phase))
    BY <1>2, <1>3 DEF IsJob, Started
  <2> QED BY <1>1, <2>3, <2>4, <2>5 DEF Changes
<1>7. /\ Shaped' /\ job'[p][l] = r(phase)
      /\ \A k \in Listeners \ {l} : job'[p][k] = job[p][k]
      /\ \A q \in Pages \ {p} : page'[q] = page[q] /\ job'[q] = job[q]
  <2> HIDE DEF r
  <2> QED BY <1>5, <1>6, ListenerMoves
<1>8. /\ job'[p][l].phase = phase /\ job'[p][l].by = j.by
      /\ job'[p][l].panel = j.panel /\ job'[p][l].client = c
  BY <1>7
<1>9. \A d : Knows(p, d)' => Knows(p, d)
  <2> HIDE DEF r
  <2> QED BY <1>1, <1>7, <1>8 DEF Knows, Waiting, Started
<1>10. PageFits(p)'
  <2> HIDE DEF r, staged
  <2>1. PageFits(p)
    BY DEF DeskInv
  <2>2. KnowsNumbered(p)' /\ LoginFirst(p)'
    BY <1>1, <1>5, <1>9, <2>1 DEF PageFits, KnowsNumbered, LoginFirst, ClientsMove, DeskInv,
                                  Shaped, Numbered
  <2>3. Viewer(p)' = Viewer(p)
    <3>1. page[p].client # None => page[p].client \in 1 .. Len(clients)
      BY <2>1 DEF PageFits, KnowsNumbered, Knows
    <3> QED BY <1>1, <1>5, <3>1 DEF Viewer, User, ClientsMove
  <2>4. PanelFits(p)'
    BY <1>1, <1>7, <1>8, <2>1, <2>3 DEF PageFits, PanelFits, Waiting, Started
  <2>5. ButtonFits(p)'
    <3>1. SUFFICES ASSUME page[p].button PROVE ButtonFits(p)'
      BY <1>1 DEF ButtonFits
    <3>2. page[p].asked # None /\ page[p].asked \in 1 .. Len(clients)
      BY <2>1, <3>1 DEF PageFits, ButtonFits, KnowsNumbered, Knows
    <3>3. CASE page[p].asked = c
      BY <1>1, <1>2, <1>8, <3>2, <3>3 DEF ButtonFits
    <3>4. CASE page[p].asked # c
      <4>1. clients'[page[p].asked].stage = clients[page[p].asked].stage
        BY <1>1, <1>4, <3>2, <3>4 DEF staged, DeskInv, Shaped, Numbered
      <4>2. CASE clients[page[p].asked].stage = "WAITING_CONFIRMATION"
        BY <1>1, <3>2, <4>1, <4>2 DEF ButtonFits
      <4>3. CASE \E k \in Listeners : /\ job[p][k].phase \in {"answered", "failed"}
                                      /\ job[p][k].client = page[p].asked
        BY <1>1, <1>7, <3>2, <3>4, <4>3 DEF ButtonFits
      <4> QED BY <2>1, <3>1, <4>2, <4>3 DEF PageFits, ButtonFits
    <3> QED BY <3>3, <3>4
  <2> QED BY <2>2, <2>4, <2>5 DEF PageFits
<1> QED BY <1>1, <1>5, <1>7, <1>9, <1>10, PageMoves

LEMMA SetAsked ==
  ASSUME NEW h, h = PageRecord(h), NEW x
  PROVE  [h EXCEPT !.asked = x]
           = [client |-> h.client, panel |-> h.panel, button |-> h.button,
              late |-> h.late, asked |-> x]
BY DEF PageRecord

\* What the last yield of an event leaves on a page.
Yields(p, panel, button, late, asked) ==
  page' = [page EXCEPT ![p] =
             [client |-> page[p].client, panel |-> panel, button |-> button,
              late |-> late, asked |-> asked]]

LEMMA YieldLeaves ==
  ASSUME Shaped, NEW p \in Pages, NEW panel, NEW button, NEW late, NEW asked,
         page' = [page EXCEPT ![p].panel = panel, ![p].button = button,
                              ![p].late = late, ![p].asked = asked]
  PROVE  Yields(p, panel, button, late, asked)
<1> DEFINE h == page[p]
           k == [h EXCEPT !.panel = panel, !.button = button, !.late = late]
<1>1. h = PageRecord(h) /\ page = [q \in Pages |-> page[q]]
  BY DEF Shaped, IsPage, PageRecord
<1>2. k = [client |-> h.client, panel |-> panel, button |-> button, late |-> late,
           asked |-> h.asked]
  <2> HIDE DEF h
  <2> QED BY <1>1, SetPage
<1>3. k = PageRecord(k) /\ k.client = h.client /\ k.panel = panel /\ k.button = button
      /\ k.late = late
  <2> HIDE DEF k, h
  <2> QED BY <1>2 DEF PageRecord
<1>4. [k EXCEPT !.asked = asked] = [client |-> h.client, panel |-> panel,
                                    button |-> button, late |-> late, asked |-> asked]
  <2> HIDE DEF k, h
  <2> QED BY <1>3, SetAsked
<1>5. page' = [page EXCEPT ![p] = [k EXCEPT !.asked = asked]]
  BY <1>1
<1> HIDE DEF k
<1> QED BY <1>4, <1>5 DEF Yields

LEMMA YieldKeeps ==
  ASSUME DeskInv, NEW p \in Pages, NEW l \in Listeners, Yield(p, l), UNCHANGED lookup
  PROVE  DeskInv'
<1> DEFINE j == job[p][l]
           panel == j.panel \cup {User(j.client)}
           asked == IF Visible(p, l) THEN j.client ELSE page[p].asked
           Late == page[p].late \/ j.by # page[p].client \/ j.client # page[p].client
<1>1. /\ j.phase \in {"answered", "failed"} /\ UNCHANGED clients
      /\ page' = [page EXCEPT ![p].panel = panel, ![p].button = Visible(p, l),
                              ![p].late = @ \/ j.by # page[p].client
                                            \/ j.client # page[p].client,
                              ![p].asked = IF Visible(p, l) THEN j.client ELSE @]
      /\ job' = [job EXCEPT ![p][l] = NoJob]
  BY DEF Yield
<1>2. IsPage(page[p]) /\ page = [q \in Pages |-> page[q]]
  BY DEF DeskInv, Shaped
<1>3. PICK button \in BOOLEAN : button = Visible(p, l)
  BY DEF Visible
<1>4. PICK late \in BOOLEAN : late = Late
  BY DEF Late
<1>5. page' = [page EXCEPT ![p].panel = panel, ![p].button = button,
                           ![p].late = late, ![p].asked = asked]
  BY <1>1, <1>2, <1>3, <1>4
<1> DEFINE g == [client |-> page[p].client, panel |-> panel, button |-> button,
                 late |-> late, asked |-> asked]
<1>6. page' = [page EXCEPT ![p] = g]
  <2> HIDE DEF panel, asked
  <2>1. Shaped
    BY DEF DeskInv
  <2>2. Yields(p, panel, button, late, asked)
    BY <1>5, <2>1, YieldLeaves
  <2> QED BY <2>2 DEF Yields
<1>7. Changes(p, l, g, NoJob) /\ IsJob(NoJob) /\ IsPage(g)
  BY <1>1, <1>3, <1>4, <1>6 DEF Changes, IsJob, IsPage
<1>8. Numbered' /\ ClientsMove(p)
  BY <1>1, SameClients DEF DeskInv, Shaped
<1>9. /\ Shaped' /\ page'[p] = g /\ job'[p][l] = NoJob
      /\ \A k \in Listeners \ {l} : job'[p][k] = job[p][k]
      /\ \A q \in Pages \ {p} : page'[q] = page[q] /\ job'[q] = job[q]
  <2> HIDE DEF g
  <2> QED BY <1>7, <1>8, ListenerMoves
<1>10. /\ page'[p].client = page[p].client /\ page'[p].panel = panel
       /\ page'[p].button = button /\ page'[p].late = late /\ page'[p].asked = asked
  <2> HIDE DEF panel, asked
  <2> QED BY <1>9
<1>11. j.client # None
  <2>1. IsJob(j)
    BY DEF DeskInv, Shaped
  <2>2. j # NoJob /\ j.phase \notin Waiting
    BY <1>1 DEF NoJob, Waiting
  <2> QED BY <2>1, <2>2 DEF IsJob
<1>12. \A c : Knows(p, c)' => Knows(p, c)
  <2> HIDE DEF g, panel
  <2> QED BY <1>1, <1>9, <1>10 DEF Knows, Waiting, Started, NoJob
<1>13. PageFits(p)'
  <2> HIDE DEF g
  <2>1. PageFits(p)
    BY SMTT(30) DEF DeskInv
  <2>2. KnowsNumbered(p)' /\ LoginFirst(p)'
    BY <1>1, <1>10, <1>12, <2>1 DEF PageFits, KnowsNumbered, LoginFirst
  <2>3. PanelFits(p)'
    <3>1. CASE Late
      <4>1. page'[p].late
        BY <1>4, <1>10, <3>1
      <4> QED BY <4>1 DEF PanelFits
    <3>2. CASE ~Late
      <4>1. page[p].client = j.client /\ page[p].client = j.by
            /\ ~(page[p].late)
        BY <3>2
      <4>2. Viewer(p)' = Viewer(p) /\ Viewer(p) = {User(j.client)}
        BY <1>1, <1>10, <1>11, <4>1 DEF Viewer, User
      <4>3. panel \subseteq Viewer(p)
        BY <1>1, <2>1, <4>1, <4>2 DEF PageFits, PanelFits, Started
      <4>4. ASSUME NEW k \in Listeners, job'[p][k].phase \in Waiting \cup Started,
                   job'[p][k].by = page'[p].client
            PROVE  page'[p].client # None /\ job'[p][k].panel \subseteq Viewer(p)'
        <5>1. k # l
          BY <1>9, <4>4 DEF NoJob, Waiting, Started
        <5>2. job'[p][k] = job[p][k]
          BY <1>9, <5>1
        <5> QED BY <1>10, <2>1, <4>1, <4>2, <4>4, <5>2 DEF PageFits, PanelFits
      <4> HIDE DEF panel
      <4> QED BY <1>10, <4>2, <4>3, <4>4 DEF PanelFits
    <3> QED BY <3>1, <3>2
  <2>4. ButtonFits(p)'
    <3>1. SUFFICES ASSUME page'[p].button PROVE ButtonFits(p)'
      BY DEF ButtonFits
    <3>2. Visible(p, l)
      BY <1>3, <1>10, <3>1
    <3>3. page'[p].asked = j.client
      BY <1>10, <3>2
    <3>4. clients'[j.client].stage = "WAITING_CONFIRMATION"
      BY <1>1, <3>2 DEF Visible
    <3> QED BY <1>11, <3>3, <3>4 DEF ButtonFits
  <2> QED BY <2>2, <2>3, <2>4 DEF PageFits
<1> HIDE DEF g
<1> QED BY <1>8, <1>9, <1>12, <1>13, PageMoves DEF Changes

-----------------------------------------------------------------------------
(* Login and logout                                                        *)

LEMMA SetPanel ==
  ASSUME NEW h, h = PageRecord(h), NEW panel, NEW late
  PROVE  [h EXCEPT !.panel = panel, !.late = late]
           = [client |-> h.client, panel |-> panel, button |-> h.button, late |-> late,
              asked |-> h.asked]
<1> DEFINE k == [h EXCEPT !.panel = panel]
<1>1. k = [client |-> h.client, panel |-> panel, button |-> h.button,
           late |-> h.late, asked |-> h.asked]
  BY DEF PageRecord
<1>2. k = PageRecord(k)
  <2> HIDE DEF k
  <2> QED BY <1>1 DEF PageRecord
<1>3. [k EXCEPT !.late = late]
        = [client |-> k.client, panel |-> k.panel, button |-> k.button,
           late |-> late, asked |-> k.asked]
  <2> HIDE DEF k
  <2> QED BY <1>2 DEF PageRecord
<1>4. [h EXCEPT !.panel = panel, !.late = late] = [k EXCEPT !.late = late]
  OBVIOUS
<1>5. k.client = h.client /\ k.panel = panel /\ k.button = h.button /\ k.asked = h.asked
  <2> HIDE DEF k
  <2> QED BY <1>1
<1> HIDE DEF k
<1> QED BY <1>3, <1>4, <1>5

\* The page of another viewer.
SetsViewer(h, client, panel, late) ==
  [h EXCEPT !.client = client, !.panel = panel, !.late = late]
    = [client |-> client, panel |-> panel, button |-> h.button, late |-> late,
       asked |-> h.asked]

LEMMA SetViewer ==
  ASSUME NEW h, h = PageRecord(h), NEW client, NEW panel, NEW late
  PROVE  SetsViewer(h, client, panel, late)
<1> DEFINE d == [h EXCEPT !.client = client]
<1>1. d = [client |-> client, panel |-> h.panel, button |-> h.button,
           late |-> h.late, asked |-> h.asked]
  BY DEF PageRecord
<1>2. /\ d = PageRecord(d) /\ d.client = client /\ d.button = h.button
      /\ d.asked = h.asked
  <2> HIDE DEF d
  <2> QED BY <1>1 DEF PageRecord
<1>3. [h EXCEPT !.client = client, !.panel = panel, !.late = late]
        = [d EXCEPT !.panel = panel, !.late = late]
  OBVIOUS
<1>4. [d EXCEPT !.panel = panel, !.late = late]
        = [client |-> d.client, panel |-> panel, button |-> d.button, late |-> late,
           asked |-> d.asked]
  <2> HIDE DEF d
  <2> QED BY <1>2, SetPanel
<1> HIDE DEF d
<1> QED BY <1>2, <1>3, <1>4 DEF SetsViewer

\* The page after a login or logout, whose panel no event has touched yet.
Fresh(p, client, panel) ==
  /\ page' = [page EXCEPT ![p] = [client |-> client, panel |-> panel,
                                  button |-> page[p].button, late |-> FALSE,
                                  asked |-> page[p].asked]]
  /\ UNCHANGED job

LEMMA FreshPanel ==
  ASSUME DeskInv, NEW p \in Pages, UNCHANGED job, NEW panel,
         page' = [page EXCEPT ![p].panel = panel, ![p].late = FALSE]
  PROVE  Fresh(p, page[p].client, panel)
<1> DEFINE h == page[p]
<1>1. h = PageRecord(h)
  BY DEF DeskInv, Shaped, IsPage, PageRecord
<1>2. page' = [page EXCEPT ![p] = [h EXCEPT !.panel = panel, !.late = FALSE]]
  OBVIOUS
<1>3. [h EXCEPT !.panel = panel, !.late = FALSE]
        = [client |-> h.client, panel |-> panel, button |-> h.button, late |-> FALSE,
           asked |-> h.asked]
  <2> HIDE DEF h
  <2> QED BY <1>1, SetPanel
<1> QED BY <1>2, <1>3 DEF Fresh

LEMMA FreshViewer ==
  ASSUME DeskInv, NEW p \in Pages, UNCHANGED job, NEW client, NEW panel,
         page' = [page EXCEPT ![p].client = client, ![p].panel = panel, ![p].late = FALSE]
  PROVE  Fresh(p, client, panel)
<1> DEFINE h == page[p]
<1>1. h = PageRecord(h)
  BY DEF DeskInv, Shaped, IsPage, PageRecord
<1>2. page' = [page EXCEPT ![p] = [h EXCEPT !.client = client, !.panel = panel,
                                            !.late = FALSE]]
  OBVIOUS
<1>3. [h EXCEPT !.client = client, !.panel = panel, !.late = FALSE]
        = [client |-> client, panel |-> panel, button |-> h.button, late |-> FALSE,
           asked |-> h.asked]
  <2>1. SetsViewer(h, client, panel, FALSE)
    <3> HIDE DEF h
    <3> QED BY <1>1, SetViewer
  <2> QED BY <2>1 DEF SetsViewer
<1> QED BY <1>2, <1>3 DEF Fresh

\* A fresh page is right when its viewer is: nobody, or a client just made.
LEMMA FreshKeeps ==
  ASSUME DeskInv, NEW p \in Pages, NEW client, NEW panel, Fresh(p, client, panel),
         Numbered', Len(clients') >= Len(clients),
         \A c \in 1 .. Len(clients) : clients'[c] = clients[c],
         lookup' = [r \in Requesters |-> lookup'[r]],
         \A q \in Pages \ {p} : lookup'[q].phase = lookup[q].phase,
         \/ client = None /\ panel = {}
         \/ /\ client # None /\ client = Len(clients') /\ Len(clients') = Len(clients) + 1
            /\ panel = {clients'[client].user} /\ lookup'[p].phase = "idle"
  PROVE  DeskInv'
<1> DEFINE g == [client |-> client, panel |-> panel, button |-> page[p].button,
                 late |-> FALSE, asked |-> page[p].asked]
<1>1. /\ page'[p] = g /\ \A q \in Pages \ {p} : page'[q] = page[q]
      /\ page' = [q \in Pages |-> page'[q]] /\ job' = job
  BY DEF DeskInv, Shaped, Fresh
<1>2. /\ page'[p].client = client /\ page'[p].panel = panel
      /\ page'[p].button = page[p].button /\ ~page'[p].late
      /\ page'[p].asked = page[p].asked
  BY <1>1
<1>3. IsPage(page'[p])
  <2>1. IsPage(page[p])
    BY DEF DeskInv, Shaped
  <2> QED BY <1>1, <2>1 DEF IsPage
<1>4. Shaped'
  BY <1>1, <1>3 DEF DeskInv, Shaped
<1>5. PageFits(p)
  BY DEF DeskInv
<1>6. Len(clients) \in Nat
  BY DEF DeskInv, Shaped, Numbered
<1>7. \A c : Knows(p, c)' => Knows(p, c) \/ c = client
  BY <1>1, <1>2 DEF Knows
<1> USE DEF ClientsMove
<1>8. client \notin 1 .. Len(clients)
  BY <1>6, NoneAssumption DEF NoneAssumption
<1>9. KnowsNumbered(p)' /\ LoginFirst(p)'
  <2>1. ASSUME NEW c, Knows(p, c)' PROVE c \in 1 .. Len(clients')
    <3>1. CASE Knows(p, c)
      <4>1. c \in 1 .. Len(clients)
        BY <1>5, <3>1, SMTT(30) DEF PageFits, KnowsNumbered
      <4>2. Len(clients') \in Nat
        BY DEF Numbered
      <4> QED BY <1>6, <4>1, <4>2
    <3>2. CASE c = client
      BY <1>6, <2>1, <3>2 DEF Knows
    <3> QED BY <1>7, <2>1, <3>1, <3>2
  <2> QED BY <1>2, <2>1 DEF KnowsNumbered, LoginFirst
<1>10. PanelFits(p)'
  <2>1. ASSUME NEW l \in Listeners, job[p][l].phase \in Waiting \cup Started,
               job[p][l].by = client
        PROVE  FALSE
    <3>1. IsJob(job[p][l]) /\ job[p][l] # NoJob
      BY <2>1 DEF DeskInv, Shaped, NoJob, Waiting, Started
    <3>2. client # None
      BY <2>1, <3>1 DEF IsJob
    <3>3. Knows(p, client)
      BY <2>1, <3>2 DEF Knows
    <3> QED BY <1>5, <1>8, <3>3 DEF PageFits, KnowsNumbered
  <2>2. panel \subseteq Viewer(p)'
    BY <1>2 DEF Viewer, User
  <2> QED BY <1>1, <1>2, <2>1, <2>2 DEF PanelFits
<1>11. ButtonFits(p)'
  <2>1. SUFFICES ASSUME page[p].button PROVE ButtonFits(p)'
    BY <1>2 DEF ButtonFits
  <2>2. ButtonFits(p)
    BY <1>5 DEF PageFits
  <2>3. page[p].asked # None
    BY <2>1, <2>2 DEF ButtonFits
  <2>4. page[p].asked \in 1 .. Len(clients)
    BY <1>5, <2>3 DEF PageFits, KnowsNumbered, Knows
  <2>5. clients'[page[p].asked] = clients[page[p].asked]
    BY <2>4
  <2> QED BY <1>1, <1>2, <2>1, <2>2, <2>3, <2>5 DEF ButtonFits
<1> QED BY <1>1, <1>4, <1>7, <1>8, <1>9, <1>10, <1>11, PageMoves DEF PageFits

LEMMA LogOutKeeps ==
  ASSUME DeskInv, NEW p \in Pages, LogOut(p), UNCHANGED sessionVars
  PROVE  DeskInv'
<1>1. Fresh(p, None, {})
  BY FreshViewer DEF LogOut
<1>2. UNCHANGED <<clients, lookup>> /\ Numbered'
  BY DEF LogOut, sessionVars, DeskInv, Shaped, Numbered
<1>3. /\ Len(clients') >= Len(clients)
      /\ \A c \in 1 .. Len(clients) : clients'[c] = clients[c]
  BY <1>2 DEF DeskInv, Shaped, Numbered
<1>4. /\ lookup' = [r \in Requesters |-> lookup'[r]]
      /\ \A q \in Pages \ {p} : lookup'[q].phase = lookup[q].phase
  BY <1>2 DEF DeskInv, Shaped
<1> QED BY <1>1, <1>2, <1>3, <1>4, FreshKeeps

\* Nothing of the pages moves, and a session is only looked for where nobody is
\* logged in.
LEMMA PagesStay ==
  ASSUME DeskInv, UNCHANGED pageVars, lookup' = [r \in Requesters |-> lookup'[r]],
         \A p \in Pages : lookup'[p].phase # "idle" => page[p].client = None
  PROVE  DeskInv'
<1>1. Shaped'
  BY DEF DeskInv, Shaped, pageVars, Numbered
<1>2. OwnClients'
  <2>1. \A p \in Pages : \A c : Knows(p, c)' <=> Knows(p, c)
    BY DEF Knows, pageVars
  <2> QED BY <2>1 DEF DeskInv, OwnClients
<1>3. ASSUME NEW p \in Pages PROVE PageFits(p)'
  <2>1. PageFits(p)
    BY DEF DeskInv
  <2>2. KnowsNumbered(p)'
    BY <2>1 DEF PageFits, KnowsNumbered, Knows, pageVars
  <2>3. LoginFirst(p)'
    BY DEF LoginFirst, pageVars
  <2>4. PanelFits(p)'
    BY <2>1 DEF PageFits, PanelFits, Viewer, User, pageVars
  <2>5. ButtonFits(p)'
    BY <2>1 DEF PageFits, ButtonFits, pageVars
  <2> QED BY <2>2, <2>3, <2>4, <2>5 DEF PageFits
<1> QED BY <1>1, <1>2, <1>3 DEF DeskInv

\* Where a page is concerned, the requests of others leave its login alone.
LEMMA ResolveKeeps ==
  ASSUME DeskInv, Resolve, UNCHANGED pageVars
  PROVE  DeskInv'
<1>1. ASSUME NEW p \in Pages
      PROVE  lookup'[p].phase # "idle" => page[p].client = None
  <2>1. LoginFirst(p) /\ p \notin Programs /\ p \in Requesters
    BY AccountAssumption DEF DeskInv, PageFits, AccountAssumption, Requesters
  <2>2. SUFFICES lookup'[p] = lookup[p] \/ lookup[p].phase # "idle"
    BY <2>1 DEF LoginFirst
  <2>3. ASSUME NEW r \in Programs, NEW user, AskByProgram(r, user)
        PROVE  lookup'[p] = lookup[p]
    BY <2>1, <2>3 DEF AskByProgram, Ask
  <2>4. ASSUME NEW r \in Requesters, LookUp(r) \/ Create(r)
        PROVE  lookup'[p] = lookup[p] \/ lookup[p].phase # "idle"
    <3>1. lookup[r].phase \in {"asked", "creating"}
      BY <2>4 DEF LookUp, Create
    <3>2. CASE r = p
      BY <3>1, <3>2
    <3>3. CASE r # p
      <4>1. \/ \E s : lookup' = [lookup EXCEPT ![r] = s]
            \/ lookup' = [lookup EXCEPT ![r].phase = "creating"]
        BY <2>4 DEF LookUp, Miss, Create, Found
      <4>2. lookup = [q \in Requesters |-> lookup[q]]
        BY DEF DeskInv, Shaped
      <4> QED BY <2>1, <3>3, <4>1, <4>2
    <3> QED BY <3>2, <3>3
  <2>5. ASSUME NEW r \in Programs, TurnOfProgram(r)
        PROVE  lookup'[p] = lookup[p]
    BY <2>1, <2>5 DEF TurnOfProgram
  <2> QED BY <2>3, <2>4, <2>5 DEF Resolve
<1>2. lookup' = [r \in Requesters |-> lookup'[r]]
  <2>1. lookup = [r \in Requesters |-> lookup[r]]
    BY DEF DeskInv, Shaped
  <2>2. \E r, s : lookup' = [lookup EXCEPT ![r] = s]
    <3>1. ASSUME NEW r \in Programs, NEW user, AskByProgram(r, user)
          PROVE  lookup' = [lookup EXCEPT ![r] = [phase |-> "asked", user |-> user]]
      BY <3>1 DEF AskByProgram, Ask
    <3>2. ASSUME NEW r \in Requesters, LookUp(r)
          PROVE  \/ \E s : lookup' = [lookup EXCEPT ![r] = s]
                 \/ lookup' = [lookup EXCEPT ![r].phase = "creating"]
      BY <3>2 DEF LookUp, Miss, Found
    <3>3. ASSUME NEW r \in Requesters, Create(r)
          PROVE  \E s : lookup' = [lookup EXCEPT ![r] = s]
      BY <3>3 DEF Create, Found
    <3>4. ASSUME NEW r \in Programs, TurnOfProgram(r)
          PROVE  lookup' = [lookup EXCEPT ![r] = NotAsked]
      BY <3>4 DEF TurnOfProgram
    <3> QED BY <3>1, <3>2, <3>3, <3>4 DEF Resolve
  <2> QED BY <2>1, <2>2
<1> QED BY <1>1, <1>2, PagesStay

LEMMA LogInKeeps ==
  ASSUME DeskInv, NEW p \in Pages, NEW name, LogIn(p, name)
  PROVE  DeskInv'
<1>1. p \in Requesters /\ page[p].client = None /\ UNCHANGED <<clients, job>>
  BY DEF LogIn, Requesters
<1>2. CASE Ask(p, name) /\ UNCHANGED page
  <2>1. /\ lookup' = [r \in Requesters |-> lookup'[r]]
        /\ \A q \in Pages \ {p} : lookup'[q] = lookup[q]
    BY <1>1, <1>2 DEF Ask, DeskInv, Shaped
  <2>2. \A q \in Pages : lookup'[q].phase # "idle" => page[q].client = None
    BY <1>1, <2>1 DEF DeskInv, PageFits, LoginFirst
  <2> QED BY <1>1, <1>2, <2>1, <2>2, PagesStay DEF pageVars
<1>3. CASE /\ page' = [page EXCEPT ![p].panel = {}, ![p].late = FALSE]
           /\ UNCHANGED lookup
  <2>1. Fresh(p, None, {})
    BY <1>1, <1>3, FreshPanel
  <2>2. Numbered' /\ Len(clients') >= Len(clients)
        /\ \A c \in 1 .. Len(clients) : clients'[c] = clients[c]
    BY <1>1 DEF DeskInv, Shaped, Numbered
  <2>3. /\ lookup' = [r \in Requesters |-> lookup'[r]]
        /\ \A q \in Pages \ {p} : lookup'[q].phase = lookup[q].phase
    BY <1>3 DEF DeskInv, Shaped
  <2> QED BY <2>1, <2>2, <2>3, FreshKeeps
<1> QED BY <1>2, <1>3 DEF LogIn

\* One more client, with the next number.
LEMMA OneMore ==
  ASSUME Numbered, NEW user, NEW conversation,
         clients' = Append(clients, [user |-> user, stage |-> None,
                                     conversation |-> conversation])
  PROVE  /\ Numbered' /\ Len(clients') = Len(clients) + 1
         /\ \A c \in 1 .. Len(clients) : clients'[c] = clients[c]
         /\ clients'[Len(clients')].user = user
         /\ clients'[Len(clients')].conversation = conversation
<1> DEFINE n == Len(clients)
           new == [user |-> user, stage |-> None, conversation |-> conversation]
           S == {clients[i] : i \in 1 .. n} \cup {new}
<1>1. n \in Nat /\ clients = [c \in 1 .. n |-> clients[c]]
  BY DEF Numbered
<1>2. clients \in Seq(S) /\ new \in S
  <2>1. clients \in [1 .. n -> S]
    BY <1>1
  <2> QED BY <1>1, <2>1, SeqDef
<1>3. /\ clients' \in Seq(S) /\ Len(clients') = n + 1
      /\ \A i \in 1 .. n : clients'[i] = clients[i]
      /\ clients'[n + 1] = new
  <2> HIDE DEF S, new
  <2> USE DEF new
  <2> QED BY <1>2, AppendProperties
<1>4. IsClient(new) /\ new.user = user /\ new.conversation = conversation
  BY DEF IsClient
<1>5. clients' = [c \in 1 .. n + 1 |-> clients'[c]]
  <2> HIDE DEF S
  <2> QED BY <1>3, LenProperties
<1>6. \A c \in 1 .. n + 1 : IsClient(clients'[c])
  <2>1. \A c \in 1 .. n + 1 : c \in 1 .. n \/ c = n + 1
    BY <1>1
  <2> HIDE DEF new
  <2> QED BY <1>3, <1>4, <2>1 DEF Numbered
<1> HIDE DEF S, new
<1> QED BY <1>1, <1>3, <1>4, <1>5, <1>6 DEF Numbered

LEMMA LoadKeeps ==
  ASSUME DeskInv, NEW p \in Pages, Load(p)
  PROVE  DeskInv'
<1>1. /\ p \in Requesters /\ page[p].client = None /\ UNCHANGED job
      /\ Numbered
  BY DEF Load, Requesters, DeskInv, PageFits, LoginFirst, Shaped
<1>2. /\ lookup' = [r \in Requesters |-> lookup'[r]] /\ lookup'[p].phase = "idle"
      /\ \A q \in Pages \ {p} : lookup'[q].phase = lookup[q].phase
  <2>1. lookup' = [lookup EXCEPT ![p] = NotAsked] /\ NotAsked.phase = "idle"
    BY DEF Load, NotAsked
  <2>2. lookup = [r \in Requesters |-> lookup[r]]
    BY DEF DeskInv, Shaped
  <2> QED BY <1>1, <2>1, <2>2
<1>3. CASE /\ clients' = Append(clients, [user |-> lookup[p].user, stage |-> None,
                                          conversation |-> lookup[p].conversation])
           /\ page' = [page EXCEPT ![p].client = Len(clients'),
                                   ![p].panel = {lookup[p].user}, ![p].late = FALSE]
  <2>1. Fresh(p, Len(clients'), {lookup[p].user})
    BY <1>1, <1>3, FreshViewer
  <2>2. /\ Numbered' /\ Len(clients') = Len(clients) + 1
        /\ \A c \in 1 .. Len(clients) : clients'[c] = clients[c]
        /\ clients'[Len(clients')].user = lookup[p].user
    BY <1>1, <1>3, OneMore
  <2>3. Len(clients') >= Len(clients) /\ Len(clients') # None
    BY <1>1, <2>2, NoneAssumption DEF Numbered, NoneAssumption
  <2> QED BY <1>2, <2>1, <2>2, <2>3, FreshKeeps
<1>4. CASE /\ page' = [page EXCEPT ![p].panel = {}, ![p].late = FALSE]
           /\ UNCHANGED clients
  <2>1. Fresh(p, None, {})
    BY <1>1, <1>4, FreshPanel
  <2>2. Numbered' /\ Len(clients') >= Len(clients)
        /\ \A c \in 1 .. Len(clients) : clients'[c] = clients[c]
    BY <1>1, <1>4 DEF Numbered
  <2> QED BY <1>2, <2>1, <2>2, FreshKeeps
<1> QED BY <1>3, <1>4 DEF Load

-----------------------------------------------------------------------------
(* The pages' invariant                                                    *)

LEMMA DeskStart == Init => DeskInv
<1> SUFFICES ASSUME Init PROVE DeskInv
  OBVIOUS
<1> USE DEF Init, AccountsInit, PageInit
<1>1. clients = <<>> /\ Len(clients) = 0 /\ Numbered
  BY DEF Numbered
<1>2. Shaped
  BY <1>1 DEF Shaped, IsPage, Blank, IsJob, Requesters
<1>3. \A p \in Pages : \A c : ~Knows(p, c)
  BY DEF Knows, Blank, NoJob, Waiting, Started
<1>4. \A p \in Pages : PageFits(p)
  <2>1. \A p \in Pages : LoginFirst(p)
    BY DEF LoginFirst, NotAsked, Requesters
  <2>2. \A p \in Pages : PanelFits(p)
    BY DEF PanelFits, Viewer, Blank, NoJob, Waiting, Started
  <2>3. \A p \in Pages : ButtonFits(p)
    BY DEF ButtonFits, Blank
  <2> QED BY <1>3, <2>1, <2>2, <2>3 DEF PageFits, KnowsNumbered
<1> QED BY <1>2, <1>3, <1>4 DEF DeskInv, OwnClients

LEMMA DeskStep == DeskInv /\ [Next]_vars => DeskInv'
<1> SUFFICES ASSUME DeskInv, [Next]_vars PROVE DeskInv'
  OBVIOUS
<1>1. ASSUME UNCHANGED <<lookup, page, clients, job>> PROVE DeskInv'
  <2>1. \A p \in Pages : lookup'[p].phase # "idle" => page[p].client = None
    BY <1>1 DEF DeskInv, PageFits, LoginFirst
  <2> QED BY <1>1, <2>1, PagesStay DEF pageVars, DeskInv, Shaped
<1>2. CASE UNCHANGED vars
  BY <1>1, <1>2 DEF vars, sessionVars, pageVars
<1>3. CASE Signup /\ UNCHANGED <<sessionVars, pageVars, deskVars>>
  BY <1>1, <1>3 DEF sessionVars, pageVars
<1>4. CASE Resolve /\ UNCHANGED <<accountVars, pageVars, deskVars>>
  BY <1>4, ResolveKeeps
<1>5. ASSUME NEW p \in Pages, Customer(p) PROVE DeskInv'
  <2>1. CASE LogOut(p) /\ UNCHANGED sessionVars
    BY <2>1, LogOutKeeps
  <2>2. ASSUME NEW l \in Listeners, UNCHANGED sessionVars,
               Click(p, l) \/ GiveUp(p, l) \/ Send(p, l) \/ Yield(p, l)
        PROVE  DeskInv'
    <3>1. UNCHANGED lookup
      BY <2>2 DEF sessionVars
    <3> QED BY <2>2, <3>1, ClickKeeps, GiveUpKeeps, SendKeeps, YieldKeeps
  <2>3. ASSUME NEW name \in Names, LogIn(p, name) PROVE DeskInv'
    BY <2>3, LogInKeeps
  <2>4. CASE Load(p)
    BY <2>4, LoadKeeps
  <2>5. ASSUME NEW l \in Listeners, NEW stage, Respond(p, l, stage) PROVE DeskInv'
    BY <2>5, RespondKeeps
  <2> QED BY <1>5, <2>1, <2>2, <2>3, <2>4, <2>5 DEF Customer
<1>6. ASSUME NEW d \in Desks, Admin(d) PROVE DeskInv'
  BY <1>1, <1>6 DEF Admin, sessionVars, pageVars
<1> QED BY <1>2, <1>3, <1>4, <1>5, <1>6 DEF Next

LEMMA DeskInvariant == Spec => []DeskInv
BY DeskStart, DeskStep, PTL DEF Spec

\* A page shows nothing of anyone but who is logged in, unless an event of an
\* earlier login wrote on it since: however many pages, logins and events there
\* are, and however their answers come back (customer_ui.py:407-480).
THEOREM LateEventsOnly == Spec => []OnlyLateEventsIntrude
<1>1. DeskInv => OnlyLateEventsIntrude
  BY DEF DeskInv, PageFits, PanelFits, Viewer, OnlyLateEventsIntrude
<1> QED BY <1>1, DeskInvariant, PTL

\* The confirm button of a page that has no event left goes with a client that
\* waits for the confirmation, whichever answer came last (customer_ui.py:331-380).
THEOREM ButtonIsRight == Spec => []ButtonFitsStage
<1>1. DeskInv => ButtonFitsStage
  BY DEF DeskInv, PageFits, ButtonFits, ButtonFitsStage
<1> QED BY <1>1, DeskInvariant, PTL

-----------------------------------------------------------------------------
(* Pages: whose conversations and panels they are                          *)

\* A client has a conversation of its user.
ClientsOwn ==
  \A c \in 1 .. Len(clients) : /\ clients[c].conversation \in conversations
                               /\ clients[c].conversation.user = clients[c].user

PanelNamed(p) ==
  /\ page[p].panel \subseteq Names
  /\ \A l \in Listeners : job[p][l].phase \in Waiting \cup Started =>
                            job[p][l].panel \subseteq Names

OwnInv == SessionInv /\ ClientsOwn /\ \A p \in Pages : PanelNamed(p)

LEMMA OwnInit == Init => OwnInv
<1> SUFFICES ASSUME Init PROVE OwnInv
  OBVIOUS
<1>1. clients = <<>> /\ Len(clients) = 0
  BY DEF Init, PageInit
<1>2. \A p \in Pages : PanelNamed(p)
  BY DEF Init, PageInit, PanelNamed, Blank, NoJob, Waiting, Started
<1> QED BY <1>1, <1>2, SessionInit DEF OwnInv, ClientsOwn

LEMMA KnownClient ==
  ASSUME DeskInv, OwnInv, NEW p \in Pages, NEW c, Knows(p, c)
  PROVE  /\ c \in 1 .. Len(clients) /\ User(c) \in Names
         /\ clients[c].conversation \in conversations
<1>1. c \in 1 .. Len(clients)
  BY DEF DeskInv, PageFits, KnowsNumbered
<1> QED BY <1>1 DEF OwnInv, ClientsOwn, SessionInv, Conversation, User

LEMMA KnownByJob ==
  ASSUME DeskInv, NEW p \in Pages, NEW l \in Listeners
  PROVE  /\ job[p][l].phase \in Waiting \cup Started => Knows(p, job[p][l].by)
         /\ job[p][l].phase \in Started => Knows(p, job[p][l].client)
<1>1. IsJob(job[p][l]) /\ NoJob.phase \notin Waiting \cup Started
  BY DEF DeskInv, Shaped, NoJob, Waiting, Started
<1>2. job[p][l].phase \in Started => job[p][l].phase \notin Waiting
  BY DEF Waiting, Started
<1> QED BY <1>1, <1>2 DEF IsJob, Knows

\* A step of a listener that writes nothing but names.
LEMMA PanelMoves ==
  ASSUME DeskInv, \A q \in Pages : PanelNamed(q), NEW p \in Pages, NEW l \in Listeners,
         NEW r, job' = [job EXCEPT ![p][l] = r],
         r = NoJob \/ r.panel \subseteq Names,
         \A q \in Pages \ {p} : page'[q] = page[q],
         page'[p].panel \subseteq Names
  PROVE  \A q \in Pages : PanelNamed(q)'
<1>1. /\ job'[p][l] = r /\ \A k \in Listeners \ {l} : job'[p][k] = job[p][k]
      /\ \A q \in Pages \ {p} : job'[q] = job[q]
  BY DEF DeskInv, Shaped
<1>2. r.phase \in Waiting \cup Started => r.panel \subseteq Names
  BY DEF NoJob, Waiting, Started
<1>3. PanelNamed(p)'
  BY <1>1, <1>2 DEF PanelNamed
<1>4. \A q \in Pages \ {p} : PanelNamed(q)'
  BY <1>1 DEF PanelNamed
<1> QED BY <1>3, <1>4

LEMMA ClickOwns ==
  ASSUME DeskInv, OwnInv, NEW p \in Pages, NEW l \in Listeners, Click(p, l),
         UNCHANGED sessionVars
  PROVE  OwnInv'
<1> DEFINE r == [phase |-> "queued", by |-> page[p].client, panel |-> page[p].panel]
<1>1. job' = [job EXCEPT ![p][l] = r] /\ UNCHANGED <<page, clients>>
  BY DEF Click
<1>2. r.panel \subseteq Names /\ page'[p].panel \subseteq Names
  BY <1>1 DEF OwnInv, PanelNamed
<1> HIDE DEF r
<1>3. \A q \in Pages : PanelNamed(q)'
  BY <1>1, <1>2, PanelMoves DEF OwnInv
<1> QED BY <1>1, <1>3, SessionTouches DEF OwnInv, ClientsOwn, sessionVars

\* Show writes the given panel.
LEMMA ShowsPanel ==
  ASSUME DeskInv, NEW p \in Pages, NEW by, NEW panel, Show(p, by, panel, FALSE)
  PROVE  page'[p].panel = panel /\ \A q \in Pages \ {p} : page'[q] = page[q]
<1>1. Shaped /\ page = [q \in Pages |-> page[q]]
  BY DEF DeskInv, Shaped
<1>2. PICK late \in BOOLEAN :
        /\ Leaves(p, panel, late)
        /\ IsPage(Left(p, panel, late))
        /\ late <=> page[p].late \/ by # page[p].client
        /\ page[p].late \in BOOLEAN
  BY <1>1, Shows
<1> QED BY <1>1, <1>2 DEF Leaves, Left

LEMMA GiveUpOwns ==
  ASSUME DeskInv, OwnInv, NEW p \in Pages, NEW l \in Listeners, GiveUp(p, l),
         UNCHANGED sessionVars
  PROVE  OwnInv'
<1>1. /\ job[p][l].phase = "queued" /\ UNCHANGED clients
      /\ Show(p, job[p][l].by, job[p][l].panel, FALSE)
      /\ job' = [job EXCEPT ![p][l] = NoJob]
  BY DEF GiveUp
<1>2. job[p][l].panel \subseteq Names
  BY <1>1 DEF OwnInv, PanelNamed, Waiting
<1>3. \A q \in Pages : PanelNamed(q)'
  BY <1>1, <1>2, ShowsPanel, PanelMoves DEF OwnInv
<1> QED BY <1>1, <1>3, SessionTouches DEF OwnInv, ClientsOwn, sessionVars

LEMMA SendOwns ==
  ASSUME DeskInv, OwnInv, NEW p \in Pages, NEW l \in Listeners, Send(p, l),
         UNCHANGED sessionVars
  PROVE  OwnInv'
<1> DEFINE j == job[p][l]
           panel == j.panel \cup {User(j.by)}
           r == [phase |-> "sent", by |-> j.by, panel |-> panel, client |-> page[p].client]
<1>1. /\ j.phase = "queued" /\ UNCHANGED clients
      /\ Show(p, j.by, panel, FALSE)
      /\ job' = [job EXCEPT ![p][l] = r]
  BY DEF Send
<1>2. panel \subseteq Names
  <2>1. Knows(p, j.by)
    BY <1>1, KnownByJob DEF Waiting
  <2>2. User(j.by) \in Names
    BY <2>1, KnownClient
  <2> QED BY <1>1, <2>2 DEF OwnInv, PanelNamed, Waiting
<1>3. r.panel = panel
  OBVIOUS
<1>4. \A q \in Pages : PanelNamed(q)'
  <2> HIDE DEF j, panel, r
  <2> QED BY <1>1, <1>2, <1>3, ShowsPanel, PanelMoves DEF OwnInv
<1> QED BY <1>1, <1>4, SessionTouches DEF OwnInv, ClientsOwn, sessionVars

LEMMA RespondOwns ==
  ASSUME DeskInv, OwnInv, NEW p \in Pages, NEW l \in Listeners, NEW stage,
         Respond(p, l, stage)
  PROVE  OwnInv'
<1> DEFINE j == job[p][l]
           c == j.client
           staged == [clients EXCEPT ![c].stage = stage]
<1>1. /\ j.phase = "sent" /\ clients' \in {clients, staged}
      /\ UNCHANGED <<conversations, lookup, contested, page>>
      /\ latest' \in {latest, Touched(clients[c].conversation)}
  BY DEF Respond
<1>2. PICK phase \in {"answered", "failed"} : job' = [job EXCEPT ![p][l].phase = phase]
  BY DEF Respond
<1>3. c \in 1 .. Len(clients) /\ clients[c].conversation \in conversations
  <2>1. Knows(p, c)
    BY <1>1, KnownByJob DEF Started
  <2> QED BY <2>1, KnownClient
<1>4. SessionInv'
  BY <1>1, <1>3, SessionTouches DEF OwnInv
<1>5. ClientsOwn'
  <2>1. CASE clients' = clients
    BY <1>1, <2>1 DEF OwnInv, ClientsOwn
  <2>2. CASE clients' = staged
    <3>1. /\ Len(clients) \in Nat /\ clients = [d \in 1 .. Len(clients) |-> clients[d]]
          /\ \A d \in 1 .. Len(clients) : IsClient(clients[d])
      BY DEF DeskInv, Shaped, Numbered
    <3>2. \A d \in 1 .. Len(clients) : /\ staged[d].conversation = clients[d].conversation
                                       /\ staged[d].user = clients[d].user
      BY <3>1 DEF IsClient
    <3>3. Len(staged) = Len(clients)
      <4>1. staged = [d \in 1 .. Len(clients) |-> staged[d]]
        BY <3>1
      <4> HIDE DEF staged
      <4> QED BY <3>1, <4>1, LenOfFunction
    <3> HIDE DEF staged
    <3> QED BY <1>1, <2>2, <3>2, <3>3 DEF OwnInv, ClientsOwn
  <2> QED BY <1>1, <2>1, <2>2
<1>6. \A q \in Pages : PanelNamed(q)'
  <2>1. /\ job' = [job EXCEPT ![p][l] = [j EXCEPT !.phase = phase]]
        /\ IsJob(j) /\ j # NoJob
    BY <1>1, <1>2 DEF DeskInv, Shaped, NoJob
  <2>2. [j EXCEPT !.phase = phase].panel = j.panel
    <3> HIDE DEF j
    <3> QED BY <2>1 DEF IsJob
  <2>3. j.panel \subseteq Names /\ page[p].panel \subseteq Names
    BY <1>1 DEF OwnInv, PanelNamed, Started
  <2>4. PICK r : r = [j EXCEPT !.phase = phase]
    OBVIOUS
  <2> QED BY <1>1, <2>1, <2>2, <2>3, <2>4, PanelMoves DEF OwnInv
<1> QED BY <1>4, <1>5, <1>6 DEF OwnInv

LEMMA YieldOwns ==
  ASSUME DeskInv, OwnInv, NEW p \in Pages, NEW l \in Listeners, Yield(p, l),
         UNCHANGED sessionVars
  PROVE  OwnInv'
<1> DEFINE j == job[p][l]
           panel == j.panel \cup {User(j.client)}
<1>1. /\ j.phase \in {"answered", "failed"} /\ UNCHANGED clients
      /\ page' = [page EXCEPT ![p].panel = panel, ![p].button = Visible(p, l),
                              ![p].late = @ \/ j.by # page[p].client
                                            \/ j.client # page[p].client,
                              ![p].asked = IF Visible(p, l) THEN j.client ELSE @]
      /\ job' = [job EXCEPT ![p][l] = NoJob]
  BY DEF Yield
<1>2. panel \subseteq Names
  <2>1. Knows(p, j.client)
    BY <1>1, KnownByJob DEF Started
  <2>2. User(j.client) \in Names
    BY <2>1, KnownClient
  <2> QED BY <1>1, <2>2 DEF OwnInv, PanelNamed, Started
<1>3. page'[p].panel = panel /\ \A q \in Pages \ {p} : page'[q] = page[q]
  <2>1. page = [q \in Pages |-> page[q]] /\ Shaped
    BY DEF DeskInv, Shaped
  <2>2. PICK button : button = Visible(p, l)
    OBVIOUS
  <2>3. PICK late : late = (page[p].late \/ j.by # page[p].client
                            \/ j.client # page[p].client)
    OBVIOUS
  <2>4. PICK asked : asked = IF Visible(p, l) THEN j.client ELSE page[p].asked
    OBVIOUS
  <2>5. page' = [page EXCEPT ![p].panel = panel, ![p].button = button,
                             ![p].late = late, ![p].asked = asked]
    BY <1>1, <2>1, <2>2, <2>3, <2>4
  <2>6. Yields(p, panel, button, late, asked)
    <3> HIDE DEF panel
    <3> QED BY <2>1, <2>5, YieldLeaves
  <2> HIDE DEF panel
  <2> QED BY <2>1, <2>6 DEF Yields
<1>4. \A q \in Pages : PanelNamed(q)'
  <2> HIDE DEF j, panel
  <2> QED BY <1>1, <1>2, <1>3, PanelMoves DEF OwnInv
<1> QED BY <1>1, <1>4, SessionTouches DEF OwnInv, ClientsOwn, sessionVars

\* Another viewer, whose panel is named.
LEMMA FreshNamed ==
  ASSUME DeskInv, \A q \in Pages : PanelNamed(q), NEW p \in Pages, NEW client, NEW panel,
         Fresh(p, client, panel), panel \subseteq Names
  PROVE  \A q \in Pages : PanelNamed(q)'
<1>1. page'[p].panel = panel /\ \A q \in Pages \ {p} : page'[q] = page[q]
  BY DEF DeskInv, Shaped, Fresh
<1> QED BY <1>1 DEF PanelNamed, Fresh

LEMMA LogOutOwns ==
  ASSUME DeskInv, OwnInv, NEW p \in Pages, LogOut(p), UNCHANGED sessionVars
  PROVE  OwnInv'
<1>1. Fresh(p, None, {}) /\ UNCHANGED clients
  BY FreshViewer DEF LogOut
<1>2. \A q \in Pages : PanelNamed(q)'
  BY <1>1, FreshNamed DEF OwnInv
<1> QED BY <1>1, <1>2, SessionTouches DEF OwnInv, ClientsOwn, sessionVars

LEMMA LogInOwns ==
  ASSUME DeskInv, OwnInv, NEW p \in Pages, NEW name \in Names, LogIn(p, name)
  PROVE  OwnInv'
<1>1. /\ p \in Requesters
      /\ UNCHANGED <<conversations, latest, contested, clients, job>>
  BY DEF LogIn, Requesters
<1>2. CASE Ask(p, name) /\ UNCHANGED page
  <2>1. lookup' = [lookup EXCEPT ![p] = [phase |-> "asked", user |-> name]]
    BY <1>2 DEF Ask
  <2>2. SessionInv'
    BY <1>1, <2>1, SessionMoves DEF OwnInv
  <2> QED BY <1>1, <1>2, <2>2 DEF OwnInv, ClientsOwn, PanelNamed
<1>3. CASE /\ page' = [page EXCEPT ![p].panel = {}, ![p].late = FALSE]
           /\ UNCHANGED lookup
  <2>1. Fresh(p, page[p].client, {})
    BY <1>1, <1>3, FreshPanel
  <2>2. \A q \in Pages : PanelNamed(q)'
    BY <2>1, FreshNamed DEF OwnInv
  <2> QED BY <1>1, <1>3, <2>2, SessionTouches DEF OwnInv, ClientsOwn
<1> QED BY <1>2, <1>3 DEF LogIn

LEMMA LoadOwns ==
  ASSUME DeskInv, OwnInv, NEW p \in Pages, Load(p)
  PROVE  OwnInv'
<1>1. /\ p \in Requesters /\ UNCHANGED <<conversations, latest, contested, job>>
      /\ lookup[p].phase = "found" /\ lookup' = [lookup EXCEPT ![p] = NotAsked]
  BY DEF Load, Requesters
<1>2. SessionInv'
  BY <1>1, SessionMoves DEF OwnInv
<1>3. PICK user \in Names, conversation \in conversations :
        /\ user = lookup[p].user /\ conversation = lookup[p].conversation
        /\ conversation.user = user
  BY <1>1 DEF OwnInv, SessionInv, LookupFits, NotAsked
<1>4. CASE /\ clients' = Append(clients, [user |-> lookup[p].user, stage |-> None,
                                          conversation |-> lookup[p].conversation])
           /\ page' = [page EXCEPT ![p].client = Len(clients'),
                                   ![p].panel = {lookup[p].user}, ![p].late = FALSE]
  <2>1. \A q \in Pages : PanelNamed(q)'
    <3>1. Fresh(p, Len(clients'), {user})
      BY <1>1, <1>3, <1>4, FreshViewer
    <3> QED BY <3>1, FreshNamed DEF OwnInv
  <2>2. /\ Len(clients') = Len(clients) + 1 /\ Len(clients) \in Nat
        /\ \A c \in 1 .. Len(clients) : clients'[c] = clients[c]
        /\ clients'[Len(clients')].user = user
        /\ clients'[Len(clients')].conversation = conversation
    BY <1>3, <1>4, OneMore DEF DeskInv, Shaped, Numbered
  <2>3. \A c \in 1 .. Len(clients') : c \in 1 .. Len(clients) \/ c = Len(clients')
    BY <2>2
  <2>4. ClientsOwn'
    BY <1>1, <1>3, <2>2, <2>3 DEF OwnInv, ClientsOwn
  <2> QED BY <1>2, <2>1, <2>4 DEF OwnInv
<1>5. CASE /\ page' = [page EXCEPT ![p].panel = {}, ![p].late = FALSE]
           /\ UNCHANGED clients
  <2>1. Fresh(p, page[p].client, {})
    BY <1>1, <1>5, FreshPanel
  <2>2. \A q \in Pages : PanelNamed(q)'
    BY <2>1, FreshNamed DEF OwnInv
  <2> QED BY <1>1, <1>2, <1>5, <2>2 DEF OwnInv, ClientsOwn
<1> QED BY <1>4, <1>5 DEF Load

LEMMA OwnStep == DeskInv /\ OwnInv /\ [Next]_vars => OwnInv'
<1> SUFFICES ASSUME DeskInv, OwnInv, [Next]_vars PROVE OwnInv'
  OBVIOUS
<1>1. ASSUME UNCHANGED <<sessionVars, pageVars>> PROVE OwnInv'
  BY <1>1, SessionTouches DEF OwnInv, ClientsOwn, PanelNamed, sessionVars, pageVars
<1>2. CASE UNCHANGED vars
  BY <1>1, <1>2 DEF vars
<1>3. CASE Signup /\ UNCHANGED <<sessionVars, pageVars, deskVars>>
  BY <1>1, <1>3
<1>4. CASE Resolve /\ UNCHANGED <<accountVars, pageVars, deskVars>>
  <2>1. SessionInv' /\ conversations \subseteq conversations'
    BY <1>4, ResolveFits DEF OwnInv
  <2> QED BY <1>4, <2>1 DEF OwnInv, ClientsOwn, PanelNamed, pageVars
<1>5. ASSUME NEW p \in Pages, Customer(p) PROVE OwnInv'
  <2>1. CASE LogOut(p) /\ UNCHANGED sessionVars
    BY <2>1, LogOutOwns
  <2>2. ASSUME NEW l \in Listeners, UNCHANGED sessionVars,
               Click(p, l) \/ GiveUp(p, l) \/ Send(p, l) \/ Yield(p, l)
        PROVE  OwnInv'
    BY <2>2, ClickOwns, GiveUpOwns, SendOwns, YieldOwns
  <2>3. ASSUME NEW name \in Names, LogIn(p, name) PROVE OwnInv'
    BY <2>3, LogInOwns
  <2>4. CASE Load(p)
    BY <2>4, LoadOwns
  <2>5. ASSUME NEW l \in Listeners, NEW stage, Respond(p, l, stage) PROVE OwnInv'
    BY <2>5, RespondOwns
  <2> QED BY <1>5, <2>1, <2>2, <2>3, <2>4, <2>5 DEF Customer
<1>6. ASSUME NEW d \in Desks, Admin(d) PROVE OwnInv'
  BY <1>1, <1>6 DEF Admin
<1> QED BY <1>2, <1>3, <1>4, <1>5, <1>6 DEF Next

LEMMA OwnInvariant == Spec => []OwnInv
BY OwnInit, OwnStep, DeskInvariant, PTL DEF Spec

\* A user has one conversation, unless two requests were about to create one at
\* the same time, under different client ids: for any number of pages and
\* programs that look for it at once (state_manager.py, resolve_session).
THEOREM ConversationIsOne == Spec => []OneConversation
<1>1. OwnInv => OneConversation
  <2> SUFFICES ASSUME OwnInv, NEW c \in conversations, NEW d \in conversations,
                      c.user = d.user, c # d
               PROVE  c.user \in contested /\ c.client # d.client
    BY DEF OneConversation
  <2>1. c \in Conversation /\ d \in Conversation /\ RacesNoted(c.user)
    BY DEF OwnInv, SessionInv, Conversation
  <2>2. c.client # d.client
    BY <2>1 DEF Conversation
  <2> QED BY <2>1, <2>2 DEF RacesNoted
<1> QED BY <1>1, OwnInvariant, PTL

-----------------------------------------------------------------------------
(* Dashboards                                                              *)

IsTask(t) ==
  /\ t = [verdict |-> t.verdict, by |-> t.by]
  /\ \/ t.verdict = "PENDING" /\ t.by = Nil
     \/ t.verdict \in Verdicts /\ t.by \in Desks

IsScreen(s) ==
  s = [token |-> s.token, list |-> s.list, selected |-> s.selected, panel |-> s.panel,
       report |-> s.report, seen |-> s.seen]

IsReport(d, r) ==
  r.ok => /\ r.task \in 1 .. Len(tasks)
          /\ tasks[r.task].verdict = r.verdict /\ tasks[r.task].by = d
          /\ r.verdict \in Verdicts

Listed(list) == \A i \in DOMAIN list : list[i] \in 1 .. Len(tasks)

\* What a dashboard shows, selects and posts are tasks, and it has seen what it
\* selects and posts.
ScreenFits(d) ==
  /\ IsScreen(desk[d])
  /\ desk[d].token \in BOOLEAN
  /\ Listed(desk[d].list)
  /\ desk[d].seen \subseteq 1 .. Len(tasks)
  /\ desk[d].selected \in desk[d].seen \cup {Nil}
  /\ desk[d].panel \in {Nil, desk[d].selected}
  /\ desk[d].report # Nil => IsReport(d, desk[d].report)

CallFits(d, h) ==
  /\ call[d][h].phase \in {"idle", "fetched", "clicked", "posted"}
  /\ call[d][h].phase = "fetched" => Listed(call[d][h].list)
  /\ call[d][h].phase = "posted" => call[d][h].task \in desk[d].seen

Queued ==
  /\ Len(tasks) \in Nat
  /\ tasks = [i \in 1 .. Len(tasks) |-> tasks[i]]
  /\ \A i \in 1 .. Len(tasks) : IsTask(tasks[i])

VerdictInv ==
  /\ Queued
  /\ desk = [d \in Desks |-> desk[d]]
  /\ call = [d \in Desks |-> [h \in Handlers |-> call[d][h]]]
  /\ \A d \in Desks : ScreenFits(d) /\ \A h \in Handlers : CallFits(d, h)
  /\ \A i \in 1 .. Len(tasks) :
       tasks[i].verdict # "PENDING" => i \in desk[tasks[i].by].seen

LEMMA VerdictInit == Init => VerdictInv
<1> SUFFICES ASSUME Init PROVE VerdictInv
  OBVIOUS
<1> USE DEF Init, DeskInit
<1>1. /\ Backlog \in Nat /\ tasks = [i \in 1 .. Backlog |-> tasks[i]]
      /\ \A i \in 1 .. Backlog : tasks[i] = Filed
  BY DeskAssumption DEF DeskAssumption
<1>2. Len(tasks) = Backlog
  BY <1>1, LenOfFunction
<1>3. \A i \in 1 .. Len(tasks) : IsTask(tasks[i]) /\ tasks[i].verdict = "PENDING"
  BY <1>1, <1>2 DEF IsTask, Filed
<1>4. ASSUME NEW d \in Desks PROVE ScreenFits(d)
  <2>1. /\ desk[d] = Empty /\ Empty.list = <<>> /\ Empty.seen = {} /\ Empty.selected = Nil
        /\ Empty.panel = Nil /\ Empty.report = Nil /\ Empty.token \in BOOLEAN
    BY DEF Empty
  <2>2. IsScreen(Empty)
    BY DEF IsScreen, Empty
  <2> QED BY <2>1, <2>2 DEF ScreenFits, Listed
<1>5. \A d \in Desks, h \in Handlers : CallFits(d, h)
  BY DEF CallFits, NoCall
<1>6. call = [d \in Desks |-> [h \in Handlers |-> call[d][h]]]
  OBVIOUS
<1> QED BY <1>1, <1>2, <1>3, <1>4, <1>5, <1>6 DEF VerdictInv, Queued

\* A step of one dashboard that leaves the tasks alone.
LEMMA DashboardMoves ==
  ASSUME VerdictInv, UNCHANGED tasks, NEW d \in Desks, NEW s, NEW h \in Handlers, NEW c,
         desk' = [desk EXCEPT ![d] = s], call' = [call EXCEPT ![d][h] = c],
         ScreenFits(d)', CallFits(d, h)', desk[d].seen \subseteq s.seen
  PROVE  VerdictInv'
<1>1. /\ desk'[d] = s /\ \A e \in Desks \ {d} : desk'[e] = desk[e]
      /\ desk' = [e \in Desks |-> desk'[e]]
  BY DEF VerdictInv
<1>2. /\ \A e \in Desks, k \in Handlers : <<e, k>> # <<d, h>> => call'[e][k] = call[e][k]
      /\ call' = [e \in Desks |-> [k \in Handlers |-> call'[e][k]]]
  BY DEF VerdictInv
<1>3. \A e \in Desks : desk[e].seen \subseteq desk'[e].seen
  BY <1>1
<1>4. \A e \in Desks : ScreenFits(e)'
  BY <1>1 DEF VerdictInv, ScreenFits, IsScreen, Listed, IsReport
<1>5. ASSUME NEW e \in Desks, NEW k \in Handlers PROVE CallFits(e, k)'
  <2>1. CASE <<e, k>> = <<d, h>>
    BY <2>1
  <2>2. CASE <<e, k>> # <<d, h>>
    <3>1. call'[e][k] = call[e][k] /\ CallFits(e, k)
      BY <1>2, <2>2 DEF VerdictInv
    <3> QED BY <1>3, <3>1 DEF CallFits, Listed
  <2> QED BY <2>1, <2>2
<1>6. \A i \in 1 .. Len(tasks) :
        tasks[i].verdict # "PENDING" => i \in desk'[tasks[i].by].seen
  <2>1. \A i \in 1 .. Len(tasks) : tasks[i].verdict # "PENDING" => tasks[i].by \in Desks
    BY DEF VerdictInv, Queued, IsTask
  <2> QED BY <1>3, <2>1 DEF VerdictInv
<1> QED BY <1>1, <1>2, <1>4, <1>5, <1>6 DEF VerdictInv, Queued

\* The dashboard of d itself, when only its call changes.
LEMMA OnlyCalls ==
  ASSUME VerdictInv, UNCHANGED <<tasks, desk>>, NEW d \in Desks, NEW h \in Handlers, NEW c,
         Enter(d, h, c), CallFits(d, h)'
  PROVE  VerdictInv'
<1>1. desk' = [desk EXCEPT ![d] = desk[d]]
  BY DEF VerdictInv
<1>2. ScreenFits(d)'
  BY DEF VerdictInv, ScreenFits, IsScreen, Listed, IsReport
<1>3. PICK s : s = desk[d]
  OBVIOUS
<1> QED BY <1>1, <1>2, <1>3, DashboardMoves DEF Enter

LEMMA CallOf ==
  ASSUME VerdictInv, NEW d \in Desks, NEW h \in Handlers, NEW c, Enter(d, h, c)
  PROVE  call'[d][h] = c
BY DEF VerdictInv, Enter

LEMMA ToIdle ==
  ASSUME VerdictInv, NEW d \in Desks, NEW h \in Handlers, Enter(d, h, NoCall)
  PROVE  CallFits(d, h)'
<1>1. call'[d][h] = NoCall
  BY CallOf
<1> QED BY <1>1 DEF CallFits, NoCall

\* A submission adds a task that has no verdict.
LEMMA FilingFits ==
  ASSUME VerdictInv, FileTask, UNCHANGED <<desk, call>>
  PROVE  VerdictInv'
<1> DEFINE S == {tasks[i] : i \in 1 .. Len(tasks)} \cup {Filed}
<1>1. Len(tasks) \in Nat /\ tasks = [i \in 1 .. Len(tasks) |-> tasks[i]]
  BY DEF VerdictInv, Queued
<1>2. tasks \in Seq(S)
  <2>1. tasks \in [1 .. Len(tasks) -> S]
    BY <1>1
  <2> QED BY <1>1, <2>1, SeqDef
<1>3. /\ tasks' \in Seq(S) /\ Len(tasks') = Len(tasks) + 1
      /\ \A i \in 1 .. Len(tasks) : tasks'[i] = tasks[i]
      /\ tasks'[Len(tasks) + 1] = Filed
  <2>1. Filed \in S
    OBVIOUS
  <2> HIDE DEF S
  <2> QED BY <1>2, <2>1, AppendProperties DEF FileTask
<1>4. \A i \in 1 .. Len(tasks') : i \in 1 .. Len(tasks) \/ tasks'[i] = Filed
  BY <1>1, <1>3
<1>5. Queued'
  <2>1. tasks' = [i \in 1 .. Len(tasks') |-> tasks'[i]]
    <3> HIDE DEF S
    <3> QED BY <1>3, LenProperties
  <2>2. IsTask(Filed)
    BY DEF IsTask, Filed
  <2> HIDE DEF S
  <2> QED BY <1>1, <1>3, <1>4, <2>1, <2>2 DEF VerdictInv, Queued, IsTask
<1>6. \A i \in 1 .. Len(tasks) : i \in 1 .. Len(tasks')
  BY <1>1, <1>3
<1>7. \A d \in Desks : ScreenFits(d)'
  BY <1>3, <1>6 DEF VerdictInv, ScreenFits, IsScreen, Listed, IsReport
<1>8. \A d \in Desks, h \in Handlers : CallFits(d, h)'
  BY <1>6 DEF VerdictInv, CallFits, Listed
<1>9. \A i \in 1 .. Len(tasks') :
        tasks'[i].verdict # "PENDING" => i \in desk'[tasks'[i].by].seen
  BY <1>3, <1>4 DEF VerdictInv, Filed
<1> QED BY <1>5, <1>7, <1>8, <1>9 DEF VerdictInv

\* A screen, updated field by field.
Screen(s) ==
  [token |-> s.token, list |-> s.list, selected |-> s.selected, panel |-> s.panel,
   report |-> s.report, seen |-> s.seen]

SetsList(s, list) ==
  [s EXCEPT !.list = list, !.panel = Nil, !.report = Nil]
    = [token |-> s.token, list |-> list, selected |-> s.selected, panel |-> Nil,
       report |-> Nil, seen |-> s.seen]

LEMMA SetList ==
  ASSUME NEW s, s = Screen(s), NEW list
  PROVE  SetsList(s, list)
<1> DEFINE k == [s EXCEPT !.list = list]
           m == [k EXCEPT !.panel = Nil]
<1>1. k = [token |-> s.token, list |-> list, selected |-> s.selected, panel |-> s.panel,
           report |-> s.report, seen |-> s.seen]
  BY DEF Screen
<1>2. m = [token |-> s.token, list |-> list, selected |-> s.selected, panel |-> Nil,
           report |-> s.report, seen |-> s.seen]
  <2> HIDE DEF k
  <2> QED BY <1>1
<1>3. [m EXCEPT !.report = Nil]
        = [token |-> s.token, list |-> list, selected |-> s.selected, panel |-> Nil,
           report |-> Nil, seen |-> s.seen]
  <2> HIDE DEF m
  <2> QED BY <1>2
<1>4. [s EXCEPT !.list = list, !.panel = Nil, !.report = Nil] = [m EXCEPT !.report = Nil]
  OBVIOUS
<1> HIDE DEF m
<1> QED BY <1>3, <1>4 DEF SetsList

SetsSelected(s, task, seen) ==
  [s EXCEPT !.selected = task, !.panel = task, !.seen = seen]
    = [token |-> s.token, list |-> s.list, selected |-> task, panel |-> task,
       report |-> s.report, seen |-> seen]

LEMMA SetSelected ==
  ASSUME NEW s, s = Screen(s), NEW task, NEW seen
  PROVE  SetsSelected(s, task, seen)
<1> DEFINE k == [s EXCEPT !.selected = task]
           m == [k EXCEPT !.panel = task]
<1>1. k = [token |-> s.token, list |-> s.list, selected |-> task, panel |-> s.panel,
           report |-> s.report, seen |-> s.seen]
  BY DEF Screen
<1>2. m = [token |-> s.token, list |-> s.list, selected |-> task, panel |-> task,
           report |-> s.report, seen |-> s.seen]
  <2> HIDE DEF k
  <2> QED BY <1>1
<1>3. [m EXCEPT !.seen = seen]
        = [token |-> s.token, list |-> s.list, selected |-> task, panel |-> task,
           report |-> s.report, seen |-> seen]
  <2> HIDE DEF m
  <2> QED BY <1>2
<1>4. [s EXCEPT !.selected = task, !.panel = task, !.seen = seen] = [m EXCEPT !.seen = seen]
  OBVIOUS
<1> HIDE DEF m
<1> QED BY <1>3, <1>4 DEF SetsSelected

LEMMA ScreenOf ==
  ASSUME VerdictInv, NEW d \in Desks
  PROVE  /\ desk[d] = Screen(desk[d]) /\ ScreenFits(d)
         /\ desk = [e \in Desks |-> desk[e]]
BY DEF VerdictInv, ScreenFits, IsScreen, Screen

SetsToken(s, token) ==
  [s EXCEPT !.token = token]
    = [token |-> token, list |-> s.list, selected |-> s.selected, panel |-> s.panel,
       report |-> s.report, seen |-> s.seen]

SetsReport(s, report) ==
  [s EXCEPT !.report = report]
    = [token |-> s.token, list |-> s.list, selected |-> s.selected, panel |-> s.panel,
       report |-> report, seen |-> s.seen]

LEMMA SetField ==
  ASSUME NEW s, s = Screen(s), NEW x
  PROVE  SetsToken(s, x) /\ SetsReport(s, x)
BY DEF Screen, SetsToken, SetsReport

\* What is left to show of a dashboard's new screen.
LEMMA NewScreen ==
  ASSUME NEW d \in Desks, Len(tasks') = Len(tasks), NEW token \in BOOLEAN, NEW list,
         NEW selected, NEW panel, NEW report, NEW seen,
         desk'[d] = [token |-> token, list |-> list, selected |-> selected,
                     panel |-> panel, report |-> report, seen |-> seen],
         Listed(list), seen \subseteq 1 .. Len(tasks),
         selected \in seen \cup {Nil}, panel \in {Nil, selected},
         report # Nil => IsReport(d, report)'
  PROVE  ScreenFits(d)'
<1>1. /\ desk'[d].token = token /\ desk'[d].list = list
      /\ desk'[d].selected = selected /\ desk'[d].panel = panel
      /\ desk'[d].report = report /\ desk'[d].seen = seen
  OBVIOUS
<1>2. IsScreen(desk'[d])
  BY DEF IsScreen
<1>3. report # Nil => IsReport(d, desk[d].report)'
  BY <1>1 DEF IsReport
<1> QED BY <1>1, <1>2, <1>3 DEF ScreenFits, Listed

LEMMA LogInAdminFits ==
  ASSUME VerdictInv, NEW d \in Desks, LogInAdmin(d)
  PROVE  VerdictInv'
<1>1. PICK token \in BOOLEAN : desk' = [desk EXCEPT ![d].token = token]
  BY DEF LogInAdmin
<1> DEFINE s == [token |-> token, list |-> desk[d].list, selected |-> desk[d].selected,
                 panel |-> desk[d].panel, report |-> desk[d].report, seen |-> desk[d].seen]
<1>2. UNCHANGED <<tasks, call>>
  BY DEF LogInAdmin
<1>3. desk' = [desk EXCEPT ![d] = s]
  <2>1. SetsToken(desk[d], token)
    BY ScreenOf, SetField
  <2>2. desk' = [desk EXCEPT ![d] = [desk[d] EXCEPT !.token = token]]
    BY <1>1
  <2> QED BY <2>1, <2>2 DEF SetsToken
<1>4. desk'[d] = s
  <2> HIDE DEF s
  <2> QED BY <1>3, ScreenOf
<1>5. ScreenFits(d)'
  <2>1. desk[d].report # Nil => IsReport(d, desk[d].report)
    BY ScreenOf DEF ScreenFits
  <2>2. PICK report : report = desk[d].report
    OBVIOUS
  <2>3. report # Nil => IsReport(d, report)'
    BY <1>2, <2>1, <2>2 DEF IsReport
  <2> QED BY <1>2, <1>4, <2>2, <2>3, ScreenOf, NewScreen DEF ScreenFits
<1>6. \A h \in Handlers : CallFits(d, h)'
  BY <1>2, <1>4 DEF VerdictInv, CallFits, Listed
<1>7. "load" \in Handlers /\ call' = [call EXCEPT ![d]["load"] = call[d]["load"]]
  BY <1>2 DEF VerdictInv, Handlers
<1>8. PICK c : c = call[d]["load"]
  OBVIOUS
<1>9. desk[d].seen \subseteq s.seen
  OBVIOUS
<1> HIDE DEF s
<1> QED BY <1>2, <1>3, <1>5, <1>6, <1>7, <1>8, <1>9, DashboardMoves

LEMMA FetchTasksFits ==
  ASSUME VerdictInv, NEW d \in Desks, FetchTasks(d)
  PROVE  VerdictInv'
<1>1. "load" \in Handlers /\ UNCHANGED <<tasks, desk>>
  BY DEF FetchTasks, Handlers
<1>2. PICK list \in {<<>>} \cup PendingLists :
        Enter(d, "load", [phase |-> "fetched", list |-> list])
  BY DEF FetchTasks
<1>3. Listed(list)
  <2>1. CASE list = <<>>
    BY <2>1 DEF Listed
  <2>2. CASE list \in PendingLists
    <3>1. list \in [1 .. Cardinality(Pending) -> Pending]
      BY <2>2 DEF PendingLists
    <3>2. Pending \subseteq 1 .. Len(tasks)
      BY DEF Pending, VerdictInv, Queued
    <3> QED BY <3>1, <3>2 DEF Listed
  <2> QED BY <2>1, <2>2
<1>4. call'[d]["load"] = [phase |-> "fetched", list |-> list]
  BY <1>1, <1>2, CallOf
<1>5. CallFits(d, "load")'
  BY <1>1, <1>3, <1>4 DEF CallFits, Listed
<1> QED BY <1>1, <1>2, <1>5, OnlyCalls

LEMMA ShowTasksFits ==
  ASSUME VerdictInv, NEW d \in Desks, ShowTasks(d)
  PROVE  VerdictInv'
<1> DEFINE list == call[d]["load"].list
           s == [token |-> desk[d].token, list |-> list, selected |-> desk[d].selected,
                 panel |-> Nil, report |-> Nil, seen |-> desk[d].seen]
<1>1. /\ "load" \in Handlers /\ UNCHANGED tasks /\ Enter(d, "load", NoCall)
      /\ desk' = [desk EXCEPT ![d].list = list, ![d].panel = Nil, ![d].report = Nil]
      /\ call[d]["load"].phase = "fetched"
  BY DEF ShowTasks, Handlers
<1>2. desk' = [desk EXCEPT ![d] = s]
  <2>1. SetsList(desk[d], list)
    BY ScreenOf, SetList
  <2>2. desk' = [desk EXCEPT ![d] = [desk[d] EXCEPT !.list = list, !.panel = Nil,
                                                    !.report = Nil]]
    BY <1>1, ScreenOf
  <2> QED BY <2>1, <2>2 DEF SetsList
<1>3. desk'[d] = s
  <2> HIDE DEF s
  <2> QED BY <1>2, ScreenOf
<1>4. Listed(list)
  BY <1>1 DEF VerdictInv, CallFits
<1>5. ScreenFits(d)'
  BY <1>1, <1>3, <1>4, ScreenOf, ZenonT(60) DEF ScreenFits, IsScreen, Listed
<1>6. CallFits(d, "load")'
  BY <1>1, ToIdle
<1>7. desk[d].seen \subseteq s.seen
  OBVIOUS
<1> HIDE DEF s
<1> QED BY <1>1, <1>2, <1>5, <1>6, <1>7, DashboardMoves DEF Enter

LEMMA SelectTaskFits ==
  ASSUME VerdictInv, NEW d \in Desks, SelectTask(d)
  PROVE  VerdictInv'
<1> DEFINE row == call[d]["select"].row
<1>1. PICK task : task = IF row \in DOMAIN desk[d].list THEN desk[d].list[row] ELSE Nil
  OBVIOUS
<1>2. PICK seen : seen = desk[d].seen \cup ({task} \ {Nil})
  OBVIOUS
<1> DEFINE s == [token |-> desk[d].token, list |-> desk[d].list, selected |-> task,
                 panel |-> task, report |-> desk[d].report, seen |-> seen]
<1>3. /\ "select" \in Handlers /\ UNCHANGED tasks /\ Enter(d, "select", NoCall)
      /\ desk' = [desk EXCEPT ![d].selected = task, ![d].panel = task,
                              ![d].seen = desk[d].seen \cup ({task} \ {Nil})]
  BY <1>1 DEF SelectTask, Handlers
<1>4. desk' = [desk EXCEPT ![d] = s]
  <2>1. SetsSelected(desk[d], task, seen)
    BY ScreenOf, SetSelected
  <2>2. desk' = [desk EXCEPT ![d] = [desk[d] EXCEPT !.selected = task, !.panel = task,
                                                    !.seen = seen]]
    BY <1>2, <1>3, ScreenOf
  <2> QED BY <2>1, <2>2 DEF SetsSelected
<1>5. desk'[d] = s
  <2> HIDE DEF s
  <2> QED BY <1>4, ScreenOf
<1>6. task # Nil => task \in 1 .. Len(tasks)
  BY <1>1, ScreenOf DEF ScreenFits, Listed
<1>7. ScreenFits(d)'
  <2>1. desk[d].report # Nil => IsReport(d, desk[d].report)
    BY ScreenOf DEF ScreenFits
  <2>2. PICK report : report = desk[d].report
    OBVIOUS
  <2>3. report # Nil => IsReport(d, report)'
    BY <1>3, <2>1, <2>2 DEF IsReport
  <2>4. seen \subseteq 1 .. Len(tasks) /\ task \in seen \cup {Nil}
    BY <1>2, <1>6, ScreenOf DEF ScreenFits
  <2>5. PICK token \in BOOLEAN : token = desk[d].token
    BY ScreenOf DEF ScreenFits
  <2>6. PICK list : list = desk[d].list /\ Listed(list)
    BY ScreenOf DEF ScreenFits
  <2>7. /\ desk'[d] = [token |-> token, list |-> list, selected |-> task, panel |-> task,
                       report |-> report, seen |-> seen]
        /\ Len(tasks') = Len(tasks)
    BY <1>3, <1>5, <2>2, <2>5, <2>6
  <2> QED BY <2>3, <2>4, <2>5, <2>6, <2>7, NewScreen
<1>8. CallFits(d, "select")'
  BY <1>3, ToIdle
<1>9. desk[d].seen \subseteq s.seen
  BY <1>2
<1> HIDE DEF s
<1> QED BY <1>3, <1>4, <1>7, <1>8, <1>9, DashboardMoves DEF Enter

\* A click, or a verdict that is sent: of the selected task, which was seen.
LEMMA ClicksFit ==
  ASSUME VerdictInv, NEW d \in Desks,
         \/ \E row \in 1 .. MaxTasks : ClickRow(d, row)
         \/ \E v \in Verdicts : ClickVerdict(d, v) \/ Post(d, v)
  PROVE  VerdictInv'
<1>1. ASSUME NEW row, ClickRow(d, row) PROVE VerdictInv'
  <2>1. /\ Enter(d, "select", [phase |-> "clicked", row |-> row])
        /\ "select" \in Handlers /\ UNCHANGED <<tasks, desk>>
    BY <1>1 DEF ClickRow, Handlers
  <2>2. call'[d]["select"].phase = "clicked"
    BY <2>1, CallOf
  <2>3. CallFits(d, "select")'
    BY <2>2 DEF CallFits
  <2> QED BY <2>1, <2>3, OnlyCalls
<1>2. ASSUME NEW v \in Verdicts, ClickVerdict(d, v) PROVE VerdictInv'
  <2>1. /\ Enter(d, v, [phase |-> "clicked"])
        /\ v \in Handlers /\ UNCHANGED <<tasks, desk>>
    BY <1>2 DEF ClickVerdict, Handlers
  <2>2. call'[d][v].phase = "clicked"
    BY <2>1, CallOf
  <2>3. CallFits(d, v)'
    BY <2>2 DEF CallFits
  <2> QED BY <2>1, <2>3, OnlyCalls
<1>3. ASSUME NEW v \in Verdicts, Post(d, v) PROVE VerdictInv'
  <2>1. /\ Enter(d, v, [phase |-> "posted", task |-> desk[d].selected,
                         token |-> desk[d].token])
        /\ v \in Handlers /\ UNCHANGED <<tasks, desk>> /\ desk[d].selected # Nil
    BY <1>3 DEF Post, Handlers
  <2>2. call'[d][v] = [phase |-> "posted", task |-> desk[d].selected,
                       token |-> desk[d].token]
    BY <2>1, CallOf
  <2>3. CallFits(d, v)'
    BY <2>1, <2>2, ScreenOf DEF CallFits, ScreenFits
  <2> QED BY <2>1, <2>3, OnlyCalls
<1> QED BY <1>1, <1>2, <1>3

\* A dashboard with a new report, and the call that it ends.
Reports(d, h, r) ==
  /\ desk' = [desk EXCEPT ![d] =
       [token |-> desk[d].token, list |-> desk[d].list, selected |-> desk[d].selected,
        panel |-> desk[d].panel, report |-> r, seen |-> desk[d].seen]]
  /\ Enter(d, h, NoCall)

LEMMA SetReport ==
  ASSUME VerdictInv, NEW d \in Desks, NEW h \in Handlers, NEW r,
         desk' = [desk EXCEPT ![d].report = r], Enter(d, h, NoCall)
  PROVE  Reports(d, h, r)
<1>1. [desk[d] EXCEPT !.report = r]
        = [token |-> desk[d].token, list |-> desk[d].list, selected |-> desk[d].selected,
           panel |-> desk[d].panel, report |-> r, seen |-> desk[d].seen]
  BY ScreenOf, SetField DEF SetsReport
<1>2. desk' = [desk EXCEPT ![d] = [desk[d] EXCEPT !.report = r]]
  OBVIOUS
<1> QED BY <1>1, <1>2 DEF Reports

\* A report that nothing was decided.
LEMMA NoDecision ==
  ASSUME VerdictInv, NEW d \in Desks, NEW h \in Handlers, NEW r, UNCHANGED tasks,
         desk' = [desk EXCEPT ![d].report = r], Enter(d, h, NoCall),
         r = Nil \/ ~r.ok
  PROVE  VerdictInv'
<1> DEFINE s == [token |-> desk[d].token, list |-> desk[d].list,
                 selected |-> desk[d].selected, panel |-> desk[d].panel, report |-> r,
                 seen |-> desk[d].seen]
<1>1. desk' = [desk EXCEPT ![d] = s]
  BY SetReport DEF Reports
<1>2. desk'[d] = s
  <2> HIDE DEF s
  <2> QED BY <1>1, ScreenOf
<1>3. ScreenFits(d)'
  <2>1. r # Nil => IsReport(d, r)'
    BY DEF IsReport
  <2> QED BY <1>2, <2>1, ScreenOf, NewScreen DEF ScreenFits
<1>4. CallFits(d, h)'
  BY ToIdle
<1>5. desk[d].seen \subseteq s.seen
  OBVIOUS
<1> HIDE DEF s
<1> QED BY <1>1, <1>3, <1>4, <1>5, DashboardMoves DEF Enter

LEMMA DecideFits ==
  ASSUME VerdictInv, NEW d \in Desks, NEW v \in Verdicts, Decide(d, v)
  PROVE  VerdictInv'
<1>1. v \in Handlers /\ call[d][v].phase = "posted"
  BY DEF Decide, Handlers
<1>2. PICK task \in 1 .. Len(tasks) : task = call[d][v].task /\ task \in desk[d].seen
  BY <1>1 DEF VerdictInv, CallFits, ScreenFits
<1>3. PICK ok \in BOOLEAN : Report(d, v, ok)
  BY DEF Decide
<1> DEFINE r == [task |-> task, verdict |-> v, ok |-> ok]
<1>4. /\ tasks[task].verdict = "PENDING"
      /\ tasks' = [tasks EXCEPT ![task].verdict = v, ![task].by = d]
      /\ desk' = [desk EXCEPT ![d].report = r] /\ Enter(d, v, NoCall)
  BY <1>2, <1>3 DEF Decide, Report
<1>5. /\ Len(tasks) \in Nat /\ tasks = [i \in 1 .. Len(tasks) |-> tasks[i]]
      /\ \A i \in 1 .. Len(tasks) : IsTask(tasks[i])
  BY DEF VerdictInv, Queued
<1>6. tasks' = [tasks EXCEPT ![task] = [verdict |-> v, by |-> d]]
  <2>1. tasks[task] = [verdict |-> tasks[task].verdict, by |-> tasks[task].by]
    BY <1>5 DEF IsTask
  <2> DEFINE k == [tasks[task] EXCEPT !.verdict = v]
  <2>2. k = [verdict |-> v, by |-> tasks[task].by]
    BY <2>1
  <2>3. [k EXCEPT !.by = d] = [verdict |-> v, by |-> d]
    <3> HIDE DEF k
    <3> QED BY <2>2
  <2>4. tasks' = [tasks EXCEPT ![task] = [k EXCEPT !.by = d]]
    BY <1>4, <1>5
  <2> HIDE DEF k
  <2> QED BY <2>3, <2>4
<1>7. /\ tasks'[task] = [verdict |-> v, by |-> d]
      /\ \A i \in 1 .. Len(tasks) : i # task => tasks'[i] = tasks[i]
      /\ tasks' = [i \in 1 .. Len(tasks) |-> tasks'[i]]
  BY <1>5, <1>6
<1>8. Len(tasks') = Len(tasks)
  BY <1>5, <1>7, LenOfFunction
<1>9. Queued'
  BY <1>5, <1>7, <1>8 DEF Queued, IsTask
<1>10. /\ Reports(d, v, r)
       /\ \A e \in Desks \ {d} : desk'[e] = desk[e]
       /\ desk' = [e \in Desks |-> desk'[e]]
       /\ desk'[d] = [token |-> desk[d].token, list |-> desk[d].list,
                      selected |-> desk[d].selected, panel |-> desk[d].panel,
                      report |-> r, seen |-> desk[d].seen]
  <2> HIDE DEF r
  <2>1. Reports(d, v, r)
    BY <1>1, <1>4, SetReport
  <2> QED BY <2>1, ScreenOf DEF Reports
<1>11. \A e \in Desks : desk'[e].seen = desk[e].seen
  <2> HIDE DEF r
  <2> QED BY <1>10
<1>12. ScreenFits(d)'
  <2>1. IsReport(d, r)'
    BY <1>7, <1>8 DEF IsReport
  <2> HIDE DEF r
  <2> QED BY <1>8, <1>10, <2>1, ScreenOf, NewScreen DEF ScreenFits
<1>13. ASSUME NEW e \in Desks \ {d} PROVE ScreenFits(e)'
  <2>1. ScreenFits(e) /\ desk'[e] = desk[e]
    BY <1>10, ScreenOf
  <2>2. ASSUME desk[e].report # Nil PROVE IsReport(e, desk[e].report)'
    <3>1. IsReport(e, desk[e].report)
      BY <2>1, <2>2 DEF ScreenFits
    <3>2. SUFFICES ASSUME desk[e].report.ok PROVE IsReport(e, desk[e].report)'
      BY <2>1 DEF IsReport
    <3>3. desk[e].report.task # task
      BY <1>4, <3>1, <3>2 DEF IsReport, Verdicts
    <3> QED BY <1>7, <1>8, <2>1, <3>1, <3>2, <3>3 DEF IsReport
  <2> QED BY <1>8, <2>1, <2>2 DEF ScreenFits, Listed
<1>14. ASSUME NEW e \in Desks, NEW h \in Handlers PROVE CallFits(e, h)'
  <2>1. CallFits(d, v)'
    BY <1>1, <1>4, ToIdle
  <2>2. CASE <<e, h>> # <<d, v>>
    <3>1. call'[e][h] = call[e][h] /\ CallFits(e, h)
      BY <1>1, <1>4, <2>2 DEF VerdictInv, Enter
    <3> QED BY <1>8, <1>11, <3>1 DEF CallFits, Listed
  <2> QED BY <2>1, <2>2
<1>15. call' = [e \in Desks |-> [h \in Handlers |-> call'[e][h]]]
  BY <1>1, <1>4 DEF VerdictInv, Enter
<1>16. \A i \in 1 .. Len(tasks') :
         tasks'[i].verdict # "PENDING" => i \in desk'[tasks'[i].by].seen
  <2>1. \A i \in 1 .. Len(tasks) : tasks[i].verdict # "PENDING" => tasks[i].by \in Desks
    BY <1>5 DEF IsTask
  <2>2. \A i \in 1 .. Len(tasks) : i # task /\ tasks[i].verdict # "PENDING"
                                    => i \in desk'[tasks[i].by].seen
    BY <1>11, <2>1 DEF VerdictInv
  <2>3. task \in desk'[d].seen
    BY <1>2, <1>11
  <2> QED BY <1>7, <1>8, <2>2, <2>3
<1> HIDE DEF r
<1> QED BY <1>9, <1>10, <1>12, <1>13, <1>14, <1>15, <1>16 DEF VerdictInv

LEMMA AdminFits ==
  ASSUME VerdictInv, NEW d \in Desks, Admin(d)
  PROVE  VerdictInv'
<1>1. ASSUME NEW v \in Verdicts, Hint(d, v) PROVE VerdictInv'
  <2>1. /\ v \in Handlers /\ UNCHANGED tasks /\ desk' = [desk EXCEPT ![d].report = Nil]
        /\ Enter(d, v, NoCall)
    BY <1>1 DEF Hint, Handlers
  <2> QED BY <2>1, NoDecision
<1>2. ASSUME NEW v \in Verdicts, DecideFails(d, v) PROVE VerdictInv'
  <2> DEFINE r == [task |-> call[d][v].task, verdict |-> v, ok |-> FALSE]
  <2>1. /\ v \in Handlers /\ UNCHANGED tasks /\ desk' = [desk EXCEPT ![d].report = r]
        /\ Enter(d, v, NoCall)
    BY <1>2 DEF DecideFails, Report, Handlers
  <2>2. ~r.ok
    OBVIOUS
  <2>3. PICK s : s = r
    OBVIOUS
  <2> HIDE DEF r
  <2> QED BY <2>1, <2>2, <2>3, NoDecision
<1>3. \/ LogInAdmin(d) \/ FetchTasks(d) \/ ShowTasks(d) \/ SelectTask(d)
      \/ \E row \in 1 .. MaxTasks : ClickRow(d, row)
      \/ \E v \in Verdicts : \/ ClickVerdict(d, v) \/ Hint(d, v) \/ Post(d, v)
                             \/ Decide(d, v) \/ DecideFails(d, v)
  BY DEF Admin
<1> QED BY <1>1, <1>2, <1>3, LogInAdminFits, FetchTasksFits, ShowTasksFits, SelectTaskFits,
           ClicksFit, DecideFits

LEMMA VerdictStep == VerdictInv /\ [Next]_vars => VerdictInv'
<1> SUFFICES ASSUME VerdictInv, [Next]_vars PROVE VerdictInv'
  OBVIOUS
<1>1. ASSUME UNCHANGED deskVars PROVE VerdictInv'
  BY <1>1 DEF deskVars, VerdictInv, Queued, ScreenFits, CallFits, Listed, IsReport
<1>2. ASSUME NEW p \in Pages, Customer(p) PROVE VerdictInv'
  <2>1. \/ UNCHANGED deskVars
        \/ FileTask /\ UNCHANGED <<desk, call>>
    BY <1>2 DEF Customer, Submission, deskVars
  <2> QED BY <1>1, <2>1, FilingFits
<1> QED BY <1>1, <1>2, AdminFits DEF Next, vars

LEMMA VerdictInvariant == Spec => []VerdictInv
BY VerdictInit, VerdictStep, PTL DEF Spec

\* A verdict falls on a task its dashboard has shown as the selected one, and a
\* decision reported as made is the one on record: for any number of
\* dashboards, however lists and verdicts cross (admin_dashboard.py:321-506).
THEOREM VerdictsAreChosen == Spec => []VerdictsWereChosen
<1>1. VerdictInv => VerdictsWereChosen
  <2> SUFFICES ASSUME VerdictInv PROVE VerdictsWereChosen
    OBVIOUS
  <2>1. DOMAIN tasks = 1 .. Len(tasks)
    BY DEF VerdictInv, Queued
  <2>2. \A d \in Desks : desk[d].panel \in {Nil, desk[d].selected}
    BY DEF VerdictInv, ScreenFits
  <2>3. \A d \in Desks : desk[d].report # Nil /\ desk[d].report.ok =>
          /\ tasks[desk[d].report.task].verdict = desk[d].report.verdict
          /\ tasks[desk[d].report.task].by = d
    BY DEF VerdictInv, ScreenFits, IsReport
  <2> QED BY <2>1, <2>2, <2>3 DEF VerdictInv, VerdictsWereChosen
<1> QED BY <1>1, VerdictInvariant, PTL

-----------------------------------------------------------------------------
(* Types                                                                   *)

SignupTyped(n) ==
  /\ signup[n].phase \in {"idle", "name", "email", "insert", "registered", "refused", "error"}
  /\ signup[n].phase # "idle" => signup[n].account \in Account

AccountsInv ==
  /\ left \in [Parts -> Nat]
  /\ accounts \subseteq Account
  /\ \A n \in Newcomers : SignupTyped(n)

LEMMA RequestTyped ==
  ASSUME left \in [Parts -> Nat], NEW part \in Parts, Request(part)
  PROVE  left' \in [Parts -> Nat]
BY DEF Request

\* A registration that moves on.
LEMMA EnterTyped ==
  ASSUME SignupInv, AccountsInv, NEW n \in Newcomers, NEW phase,
         signup[n].phase # "idle", EnterSignup(n, phase),
         phase \in {"email", "insert", "refused", "error"}
  PROVE  \A k \in Newcomers : SignupTyped(k)'
<1>1. \A k \in Newcomers \ {n} : signup'[k] = signup[k]
  BY DEF SignupInv, EnterSignup
<1>2. signup'[n] = [phase |-> phase, account |-> signup[n].account, raced |-> signup[n].raced]
  BY DEF SignupInv, SignupFits, EnterSignup
<1>3. SignupTyped(n)'
  BY <1>2 DEF AccountsInv, SignupTyped
<1>4. \A k \in Newcomers \ {n} : SignupTyped(k)'
  BY <1>1 DEF AccountsInv, SignupTyped
<1> QED BY <1>3, <1>4

LEMMA AccountsStep == SignupInv /\ AccountsInv /\ [Next]_vars => AccountsInv'
<1> SUFFICES ASSUME SignupInv, AccountsInv, [Next]_vars PROVE AccountsInv'
  OBVIOUS
<1>1. left' \in [Parts -> Nat]
  <2>1. UNCHANGED left \/ \E part \in Parts : Request(part)
    <3>1. CASE Signup
      BY <3>1 DEF Signup, Register, CheckName, CheckEmail, InsertUser, Parts
    <3>2. CASE Resolve
      BY <3>2 DEF Resolve, AskByProgram, LookUp, Create, TurnOfProgram, Parts
    <3>3. ASSUME NEW p \in Pages, Customer(p)
          PROVE  UNCHANGED left \/ \E part \in Parts : Request(part)
      BY <3>3 DEF Customer, LogOut, Click, GiveUp, Send, Yield, LogIn, Load, Respond, Parts
    <3>4. ASSUME NEW d \in Desks, Admin(d)
          PROVE  UNCHANGED left \/ \E part \in Parts : Request(part)
      BY <3>4 DEF Admin, Parts
    <3> QED BY <3>1, <3>2, <3>3, <3>4 DEF Next, vars
  <2> QED BY <2>1, RequestTyped DEF AccountsInv
<1>2. CASE UNCHANGED accountVars
  BY <1>1, <1>2 DEF accountVars, AccountsInv, SignupTyped
<1>3. CASE Signup
  <2>1. ASSUME NEW n \in Newcomers, NEW a \in Wanted, Register(n, a)
        PROVE  accounts' \subseteq Account /\ \A k \in Newcomers : SignupTyped(k)'
    <3>1. /\ UNCHANGED accounts
          /\ signup' = [signup EXCEPT ![n] = [phase |-> "name", account |-> a,
                                              raced |-> FALSE]]
      BY <2>1 DEF Register
    <3>2. signup'[n] = [phase |-> "name", account |-> a, raced |-> FALSE]
      BY <3>1 DEF SignupInv
    <3>3. \A k \in Newcomers \ {n} : signup'[k] = signup[k]
      BY <3>1 DEF SignupInv
    <3>4. a \in Account
      OBVIOUS
    <3>5. SignupTyped(n)'
      BY <3>2, <3>4 DEF SignupTyped
    <3> QED BY <3>1, <3>3, <3>5 DEF AccountsInv, SignupTyped
  <2>2. ASSUME NEW n \in Newcomers, CheckName(n) \/ CheckEmail(n)
        PROVE  accounts' \subseteq Account /\ \A k \in Newcomers : SignupTyped(k)'
    <3>1. /\ UNCHANGED accounts /\ signup[n].phase # "idle"
          /\ \E phase \in {"email", "insert", "refused", "error"} : EnterSignup(n, phase)
      BY <2>2 DEF CheckName, CheckEmail
    <3> QED BY <3>1, EnterTyped DEF AccountsInv
  <2>3. ASSUME NEW n \in Newcomers, InsertUser(n)
        PROVE  accounts' \subseteq Account /\ \A k \in Newcomers : SignupTyped(k)'
    <3>1. signup[n].phase = "insert" /\ signup[n].account \in Account
      BY <2>3 DEF InsertUser, AccountsInv, SignupTyped
    <3>2. CASE NameTaken(n) \/ EmailTaken(n)
      BY <2>3, <3>1, <3>2, EnterTyped DEF InsertUser, AccountsInv
    <3>3. CASE ~(NameTaken(n) \/ EmailTaken(n))
      <4>1. /\ accounts' = accounts \cup {signup[n].account}
            /\ signup' = [k \in Newcomers |->
                 IF k = n THEN [signup[n] EXCEPT !.phase = "registered"]
                 ELSE [signup[k] EXCEPT !.raced = @ \/ signup[k].phase # "idle"]]
        BY <2>3, <3>3 DEF InsertUser
      <4>2. signup'[n] = [phase |-> "registered", account |-> signup[n].account,
                          raced |-> signup[n].raced]
        BY <4>1 DEF SignupInv, SignupFits
      <4>3. ASSUME NEW k \in Newcomers, k # n
            PROVE  \E raced : signup'[k] = [phase |-> signup[k].phase,
                                            account |-> signup[k].account, raced |-> raced]
        BY <4>1, <4>3 DEF SignupInv, SignupFits
      <4>4. SignupTyped(n)'
        BY <3>1, <4>2 DEF SignupTyped
      <4>5. ASSUME NEW k \in Newcomers, k # n PROVE SignupTyped(k)'
        <5>1. PICK raced : signup'[k] = [phase |-> signup[k].phase,
                                         account |-> signup[k].account, raced |-> raced]
          BY <4>3, <4>5
        <5>2. signup'[k].phase = signup[k].phase /\ signup'[k].account = signup[k].account
          BY <5>1
        <5> QED BY <5>2 DEF AccountsInv, SignupTyped
      <4> QED BY <3>1, <4>1, <4>4, <4>5 DEF AccountsInv
    <3> QED BY <3>2, <3>3
  <2> QED BY <1>1, <1>3, <2>1, <2>2, <2>3 DEF Signup, AccountsInv
<1> QED BY <1>2, <1>3 DEF Next, Customer, Admin, vars

LEMMA AccountsInvariant == Spec => []AccountsInv
<1>1. Init => AccountsInv
  BY DEF Init, AccountsInit, AccountsInv, SignupTyped
<1> QED BY <1>1, AccountsStep, SignupInit, SignupStep, PTL DEF Spec

\* Every variable stays in its type: accounts, registrations, conversations and
\* requests; pages, clients and events; tasks, dashboards and calls.
THEOREM TypeCorrect == Spec => []TypeOK
<1>1. AccountsInv /\ OwnInv => AccountsTypeOK
  BY DEF AccountsInv, SignupTyped, OwnInv, SessionInv, LatestFits, LookupFits, NotAsked,
         AccountsTypeOK
<1>2. DeskInv /\ OwnInv => PageTypeOK
  <2> SUFFICES ASSUME DeskInv, OwnInv PROVE PageTypeOK
    OBVIOUS
  <2>1. DOMAIN clients = 1 .. Len(clients)
    BY DEF DeskInv, Shaped, Numbered
  <2>2. \A p \in Pages : page[p].client \in 1 .. Len(clients) \cup {None}
    BY DEF DeskInv, PageFits, KnowsNumbered, Knows
  <2>3. \A p \in Pages : page[p].panel \subseteq Names /\ page[p].button \in BOOLEAN
    BY DEF DeskInv, Shaped, IsPage, OwnInv, PanelNamed
  <2>4. \A c \in 1 .. Len(clients) : clients[c].conversation.user = User(c)
    BY DEF OwnInv, ClientsOwn, User
  <2>5. \A p \in Pages, l \in Listeners :
          job[p][l].phase \in {"idle", "queued", "sent", "answered", "failed"}
    <3>1. \A p \in Pages, l \in Listeners : IsJob(job[p][l])
      BY DEF DeskInv, Shaped
    <3>2. NoJob.phase = "idle"
      BY DEF NoJob
    <3> QED BY <3>1, <3>2 DEF IsJob, Waiting, Started
  <2> QED BY <2>1, <2>2, <2>3, <2>4, <2>5 DEF PageTypeOK
<1>3. VerdictInv => DeskTypeOK
  <2> SUFFICES ASSUME VerdictInv PROVE DeskTypeOK
    OBVIOUS
  <2>1. DOMAIN tasks = 1 .. Len(tasks)
    BY DEF VerdictInv, Queued
  <2> QED BY <2>1 DEF VerdictInv, Queued, IsTask, ScreenFits, CallFits, Listed, DeskTypeOK
<1> QED BY <1>1, <1>2, <1>3, AccountsInvariant, OwnInvariant, DeskInvariant,
           VerdictInvariant, PTL DEF TypeOK
=============================================================================
