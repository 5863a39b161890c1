------------------------ MODULE ConnectionManagerProofs ------------------------
(***************************************************************************)
(* What holds of the connection manager for any sockets, admin ids and     *)
(* submissions.                                                            *)
(*                                                                         *)
(* Connections only move forward (ConnStep), so that whatever a loop has   *)
(* noted of a socket it visited stays true while it awaits its next send:  *)
(* who failed is gone, who is open got the message.  The invariant         *)
(* ManagerInv collects these notes with what the dictionary says of the    *)
(* sockets in it.                                                          *)
(***************************************************************************)
EXTENDS ConnectionManager, TLAPS

IsConn(c) == c \in [phase : {"new", "refused", "open", "left", "over"},
                    at : Admins \cup {None}]

IsNotice(c) ==
  c \in [phase : {"idle", "loop", "done", "raised"}, begun : BOOLEAN,
         start : SUBSET Admins, seen : SUBSET Admins, failed : SUBSET Admins,
         reached : SUBSET Sockets, moved : BOOLEAN]

LEMMA Parts ==
  ASSUME TypeOK
  PROVE  /\ \A s \in Sockets : IsConn(conn[s])
         /\ \A n \in Submissions : IsNotice(notice[n])
BY DEF TypeOK, IsConn, IsNotice

-----------------------------------------------------------------------------
(* How a connection and a loop can change in a step                        *)

\* c is the loop d, which may have been disturbed meanwhile.
SameLoop(c, d) ==
  /\ c.phase = d.phase /\ c.begun = d.begun /\ c.start = d.start
  /\ c.seen = d.seen /\ c.failed = d.failed /\ c.reached = d.reached
  /\ d.moved => c.moved

\* c has not visited anything.
FreshLoop(c) == c.seen = {} /\ c.failed = {} /\ ~c.begun

Moved(c) == [c EXCEPT !.moved = TRUE]

LEMMA MovedFits ==
  ASSUME NEW d, IsNotice(d)
  PROVE  IsNotice(Moved(d)) /\ SameLoop(Moved(d), d) /\ Moved(d).moved
BY DEF IsNotice, SameLoop, Moved

LEMMA LoopFits ==
  ASSUME NEW phase \in {"idle", "loop", "done", "raised"}
  PROVE  /\ IsNotice(Loop(phase)) /\ FreshLoop(Loop(phase))
         /\ Loop(phase).phase = phase
BY DEF IsNotice, FreshLoop, Loop

\* How a socket's record changes: it only moves forward.
ConnStep(s) ==
  \/ conn'[s] = conn[s]
  \/ conn[s].phase = "new" /\ conn'[s].phase = "refused" /\ conn'[s].at = conn[s].at
  \/ conn[s].phase = "new" /\ conn'[s].phase = "open" /\ conn'[s].at # None
  \/ /\ conn'[s].at = conn[s].at
     /\ \/ Open(s) /\ conn'[s].phase = "left"
        \/ conn[s].phase \in {"open", "left"} /\ conn'[s].phase = "over"

\* How a broadcast's record changes.
LoopStep(n) ==
  \/ SameLoop(notice'[n], notice[n])
  \/ FreshLoop(notice'[n])
  \/ \E a \in Admins : Send(n, a)

Steps == /\ TypeOK'
         /\ \A s \in Sockets : ConnStep(s)
         /\ \A n \in Submissions : LoopStep(n)

\* The variables have their types when every record has.
LEMMA TypesFromParts ==
  ASSUME admins' \in [Admins -> Sockets \cup {None}],
         conn' = [s \in Sockets |-> conn'[s]],
         notice' = [n \in Submissions |-> notice'[n]],
         \A s \in Sockets : IsConn(conn'[s]), \A n \in Submissions : IsNotice(notice'[n])
  PROVE  TypeOK'
BY DEF TypeOK, IsConn, IsNotice

LEMMA ConnFrame ==
  ASSUME TypeOK, UNCHANGED conn
  PROVE  /\ conn' = [s \in Sockets |-> conn'[s]]
         /\ \A s \in Sockets : IsConn(conn'[s]) /\ ConnStep(s)
BY Parts DEF ConnStep, TypeOK

LEMMA ConnMoves ==
  ASSUME TypeOK, NEW s \in Sockets, NEW c, IsConn(c),
         conn' = [conn EXCEPT ![s] = c],
         \/ conn[s].phase = "new" /\ c.phase = "refused" /\ c.at = conn[s].at
         \/ conn[s].phase = "new" /\ c.phase = "open" /\ c.at # None
         \/ /\ c.at = conn[s].at
            /\ \/ Open(s) /\ c.phase = "left"
               \/ conn[s].phase \in {"open", "left"} /\ c.phase = "over"
  PROVE  /\ conn' = [u \in Sockets |-> conn'[u]]
         /\ \A u \in Sockets : IsConn(conn'[u])
         /\ \A u \in Sockets : ConnStep(u)
<1>1. conn'[s] = c /\ \A u \in Sockets \ {s} : conn'[u] = conn[u]
  BY DEF TypeOK
<1> QED BY <1>1 DEF TypeOK, IsConn, ConnStep

LEMMA NoticeFrame ==
  ASSUME TypeOK, UNCHANGED notice
  PROVE  /\ notice' = [n \in Submissions |-> notice'[n]]
         /\ \A n \in Submissions : IsNotice(notice'[n]) /\ LoopStep(n)
<1>1. \A n \in Submissions : SameLoop(notice[n], notice[n])
  BY DEF SameLoop
<1> QED BY <1>1, Parts DEF LoopStep, TypeOK

LEMMA NoticeMoves ==
  ASSUME TypeOK, NEW n \in Submissions, NEW c, IsNotice(c),
         FreshLoop(c) \/ \E a \in Admins : Send(n, a),
         notice' = [notice EXCEPT ![n] = c]
  PROVE  /\ notice' = [m \in Submissions |-> notice'[m]]
         /\ \A m \in Submissions : IsNotice(notice'[m]) /\ LoopStep(m)
<1>1. notice'[n] = c /\ \A m \in Submissions \ {n} : notice'[m] = notice[m]
  BY DEF TypeOK
<1>2. \A m \in Submissions : SameLoop(notice[m], notice[m])
  BY DEF SameLoop
<1>3. \A m \in Submissions : IsNotice(notice'[m]) /\ LoopStep(m)
  BY <1>1, <1>2, Parts DEF LoopStep
<1> QED BY <1>3 DEF TypeOK

\* A disturbance marks the loops that run and changes no other.
LEMMA DisturbForms ==
  ASSUME TypeOK, NEW ns, Disturb(ns)
  PROVE  /\ notice' = [n \in Submissions |-> notice'[n]]
         /\ \A n \in Submissions :
              /\ IsNotice(notice'[n]) /\ SameLoop(notice'[n], notice[n]) /\ LoopStep(n)
              /\ n \in ns /\ Looping(n) /\ notice[n].begun => notice'[n].moved
<1>1. \A n \in Submissions :
        notice'[n] = IF n \in ns /\ Looping(n) /\ notice[n].begun
                       THEN Moved(notice[n]) ELSE notice[n]
  BY DEF Disturb, Moved
<1>2. \A n \in Submissions : SameLoop(notice[n], notice[n])
  BY DEF SameLoop
<1>3. notice' = [n \in Submissions |-> notice'[n]]
  BY DEF Disturb
<1> QED BY <1>1, <1>2, <1>3, MovedFits, Parts DEF LoopStep

\* The end of a loop marks the others when it took an id away.
LEMMA EndForms ==
  ASSUME TypeOK, NEW n \in Submissions, NEW shrunk, End(n, shrunk)
  PROVE  /\ notice' = [m \in Submissions |-> notice'[m]]
         /\ FreshLoop(notice'[n]) /\ notice'[n].phase = "done"
         /\ \A m \in Submissions : IsNotice(notice'[m]) /\ LoopStep(m)
         /\ \A m \in Submissions \ {n} :
              /\ SameLoop(notice'[m], notice[m])
              /\ shrunk /\ Looping(m) /\ notice[m].begun => notice'[m].moved
<1>1. /\ notice'[n] = Loop("done")
      /\ \A m \in Submissions \ {n} :
           notice'[m] = IF shrunk /\ Looping(m) /\ notice[m].begun
                          THEN Moved(notice[m]) ELSE notice[m]
  BY DEF End, Moved
<1>2. \A m \in Submissions : SameLoop(notice[m], notice[m])
  BY DEF SameLoop
<1>3. notice' = [m \in Submissions |-> notice'[m]]
  BY DEF End
<1>4. FreshLoop(notice'[n]) /\ IsNotice(notice'[n]) /\ notice'[n].phase = "done"
  BY <1>1, LoopFits
<1> QED BY <1>1, <1>2, <1>3, <1>4, MovedFits, Parts DEF LoopStep

LEMMA ConnectSteps ==
  ASSUME TypeOK, NEW s \in Sockets, NEW a \in Admins, ConnectAdmin(s, a)
  PROVE  Steps
<1>1. PICK c : c = [phase |-> "open", at |-> a]
  OBVIOUS
<1>2. IsConn(c) /\ c.phase = "open" /\ c.at # None
  BY <1>1, ManagerAssumption DEF IsConn
<1>3. conn[s].phase = "new" /\ conn' = [conn EXCEPT ![s] = c]
  BY <1>1 DEF ConnectAdmin
<1>4. /\ conn' = [u \in Sockets |-> conn'[u]]
      /\ \A u \in Sockets : IsConn(conn'[u])
      /\ \A u \in Sockets : ConnStep(u)
  BY <1>2, <1>3, ConnMoves
<1>5. admins' \in [Admins -> Sockets \cup {None}]
  BY DEF ConnectAdmin, Register, TypeOK
<1>6. PICK ns : Disturb(ns)
  BY DEF ConnectAdmin
<1> QED BY <1>4, <1>5, <1>6, DisturbForms, TypesFromParts DEF Steps

LEMMA LeaveSteps ==
  ASSUME TypeOK, NEW s \in Sockets,
         RefuseUser(s) \/ Leave(s) \/ HandlerFails(s) \/ Hear(s)
  PROVE  Steps
<1>1. PICK phase \in {"refused", "left", "over"} :
        /\ conn' = [conn EXCEPT ![s].phase = phase]
        /\ \/ conn[s].phase = "new" /\ phase = "refused"
           \/ Open(s) /\ phase = "left"
           \/ conn[s].phase \in {"open", "left"} /\ phase = "over"
  BY DEF RefuseUser, Leave, HandlerFails, Hear
<1>2. PICK c : c = [conn[s] EXCEPT !.phase = phase]
  OBVIOUS
<1>3. conn' = [conn EXCEPT ![s] = c]
  BY <1>1, <1>2 DEF TypeOK
<1>4. IsConn(conn[s])
  BY Parts
<1>5. IsConn(c) /\ c.phase = phase /\ c.at = conn[s].at
  BY <1>2, <1>4 DEF IsConn
<1>6. /\ conn' = [u \in Sockets |-> conn'[u]]
      /\ \A u \in Sockets : IsConn(conn'[u])
      /\ \A u \in Sockets : ConnStep(u)
  BY <1>1, <1>3, <1>5, ConnMoves
<1>7. admins' \in [Admins -> Sockets \cup {None}]
  BY DEF RefuseUser, Leave, HandlerFails, Hear, DisconnectAdmins, TypeOK
<1>8. (\E ns : Disturb(ns)) \/ UNCHANGED notice
  BY DEF RefuseUser, Leave, HandlerFails, Hear
<1>9. /\ notice' = [m \in Submissions |-> notice'[m]]
      /\ \A m \in Submissions : IsNotice(notice'[m]) /\ LoopStep(m)
  BY <1>8, DisturbForms, NoticeFrame
<1> QED BY <1>6, <1>7, <1>9, TypesFromParts DEF Steps

LEMMA VisitedFits ==
  ASSUME TypeOK, NEW n \in Submissions, NEW a \in Admins,
         NEW failed \in SUBSET Admins, NEW got \in SUBSET Sockets
  PROVE  /\ IsNotice(Visited(n, a, failed, got))
         /\ Visited(n, a, failed, got).phase = notice[n].phase
         /\ Visited(n, a, failed, got).start = Start(n)
         /\ Visited(n, a, failed, got).seen = notice[n].seen \cup {a}
         /\ Visited(n, a, failed, got).failed = notice[n].failed \cup failed
         /\ Visited(n, a, failed, got).reached = notice[n].reached \cup got
         /\ Visited(n, a, failed, got).moved = notice[n].moved
<1>1. IsNotice(notice[n])
  BY Parts
<1>2. Start(n) \in SUBSET Admins
  BY <1>1 DEF Start, AdminIds, IsNotice
<1> QED BY <1>1, <1>2 DEF Visited, IsNotice

\* A send visits an id that is registered, and notes what became of its socket.
LEMMA SendForms ==
  ASSUME TypeOK, NEW n \in Submissions, NEW a \in Admins, Send(n, a)
  PROVE  \E failed \in SUBSET Admins : \E got \in SUBSET Sockets :
           /\ Looping(n) /\ a \in AdminIds /\ admins[a] \in Sockets
           /\ UNCHANGED <<conn, admins>>
           /\ notice' = [notice EXCEPT ![n] = Visited(n, a, failed, got)]
           /\ failed = {} \/ failed = {a}
           /\ Open(admins[a]) => failed = {} /\ got = {admins[a]}
<1>1. Looping(n) /\ a \in AdminIds /\ UNCHANGED <<conn, admins>>
  BY DEF Send, Visit
<1>2. admins[a] \in Sockets
  BY <1>1 DEF AdminIds, TypeOK
<1>3. PICK got, failed :
        /\ got = {s \in {admins[a]} : Open(s)}
        /\ failed \in IF got = {} THEN {{}, {a}} ELSE {{}}
        /\ notice' = [notice EXCEPT ![n] = Visited(n, a, failed, got)]
  BY DEF Send
<1>4. got \in SUBSET Sockets /\ failed \in SUBSET Admins
  BY <1>2, <1>3
<1>5. Open(admins[a]) => got = {admins[a]} /\ failed = {}
  BY <1>3
<1>6. failed = {} \/ failed = {a}
  BY <1>3
<1> QED BY <1>1, <1>2, <1>3, <1>4, <1>5, <1>6

LEMMA NoticeSteps ==
  ASSUME TypeOK, NEW n \in Submissions,
         Notify(n) \/ Raise(n) \/ \E a \in Admins : Send(n, a)
  PROVE  Steps
<1>1. UNCHANGED <<conn, admins>>
  BY DEF Notify, Send, Raise
<1>2. PICK c : /\ IsNotice(c) /\ notice' = [notice EXCEPT ![n] = c]
               /\ FreshLoop(c) \/ \E a \in Admins : Send(n, a)
  <2>1. CASE Notify(n)
    BY <2>1, LoopFits DEF Notify
  <2>2. CASE Raise(n)
    BY <2>2, LoopFits DEF Raise
  <2>3. ASSUME NEW a \in Admins, Send(n, a)
        PROVE  \E c : /\ IsNotice(c) /\ notice' = [notice EXCEPT ![n] = c]
                      /\ FreshLoop(c) \/ \E b \in Admins : Send(n, b)
    <3>1. PICK failed \in SUBSET Admins, got \in SUBSET Sockets :
            notice' = [notice EXCEPT ![n] = Visited(n, a, failed, got)]
      BY <2>3, SendForms
    <3> QED BY <2>3, <3>1, VisitedFits
  <2> QED BY <2>1, <2>2, <2>3
<1>3. admins' \in [Admins -> Sockets \cup {None}]
  BY <1>1 DEF TypeOK
<1> QED BY <1>1, <1>2, <1>3, ConnFrame, NoticeMoves, TypesFromParts DEF Steps

LEMMA FinishSteps ==
  ASSUME TypeOK, NEW n \in Submissions, Finish(n)
  PROVE  Steps
<1>1. UNCHANGED conn /\ \E shrunk : End(n, shrunk)
  BY DEF Finish
<1>2. admins' \in [Admins -> Sockets \cup {None}]
  BY DEF Finish, DisconnectAdmins, TypeOK
<1> QED BY <1>1, <1>2, ConnFrame, EndForms, TypesFromParts DEF Steps

LEMMA StepForms ==
  ASSUME TypeOK, [Next]_vars
  PROVE  Steps
<1>1. CASE UNCHANGED vars
  <2>1. admins' \in [Admins -> Sockets \cup {None}]
    BY <1>1 DEF vars, TypeOK
  <2> QED BY <1>1, <2>1, ConnFrame, NoticeFrame, TypesFromParts DEF vars, Steps
<1> QED BY <1>1, ConnectSteps, LeaveSteps, NoticeSteps, FinishSteps DEF Next

LEMMA TypesInitially == Init => TypeOK
BY DEF Init, TypeOK, Loop

-----------------------------------------------------------------------------
(* The inductive invariant                                                 *)

\* Whatever is registered has connected as what it is registered for.
Registered ==
  /\ \A s \in Sockets : Open(s) => conn[s].at # None
  /\ \A s \in Sockets : conn[s].phase \in {"new", "refused"} => conn[s].at = None
  /\ \A a \in Admins : admins[a] # None => conn[admins[a]].at = a

\* An id whose send failed has a socket that is gone.
FailedAreGone ==
  \A n \in Submissions : \A a \in notice[n].failed :
    \E g \in Sockets : conn[g].at = a /\ Gone(g)

\* Of an id that was visited, a socket is not open any more or got the message.
SeenAreTold ==
  \A n \in Submissions : \A a \in notice[n].seen :
    \E s \in Sockets : conn[s].at = a /\ (Open(s) => s \in notice[n].reached)

\* A loop that was not disturbed walks over what it began with.
StartIsCurrent ==
  \A n \in Submissions : Looping(n) /\ notice[n].begun /\ ~notice[n].moved =>
    AdminIds = notice[n].start

ManagerInv ==
  /\ TypeOK /\ Registered /\ FailedAreGone /\ SeenAreTold /\ StartIsCurrent
  /\ OnlyOwnReconnectsCutOff

\* A socket that has connected keeps its id, and never reopens.
LEMMA ConnKept ==
  ASSUME TypeOK, Registered, [Next]_vars, NEW s \in Sockets, conn[s].at # None
  PROVE  /\ conn'[s].at = conn[s].at
         /\ Open(s)' => Open(s)
         /\ Gone(s) => Gone(s)'
<1>1. ConnStep(s) /\ IsConn(conn[s]) /\ conn[s].phase # "new"
  BY StepForms, Parts DEF Steps, Registered
<1> QED BY <1>1 DEF ConnStep, Open, Gone, IsConn

\* But for a connect, a step opens and registers nobody.
Shrinks ==
  /\ \A a \in Admins : admins'[a] \in {admins[a], None}
  /\ \A s \in Sockets : Open(s)' => Open(s)

LEMMA LeaveShrinks ==
  ASSUME TypeOK, NEW s \in Sockets,
         RefuseUser(s) \/ Leave(s) \/ HandlerFails(s) \/ Hear(s)
  PROVE  Shrinks
<1>1. PICK phase \in {"refused", "left", "over"} : conn' = [conn EXCEPT ![s].phase = phase]
  BY DEF RefuseUser, Leave, HandlerFails, Hear
<1>2. \A u \in Sockets : Open(u)' => Open(u)
  BY <1>1 DEF Open, TypeOK
<1>3. \A a \in Admins : admins'[a] \in {admins[a], None}
  BY DEF RefuseUser, Leave, HandlerFails, Hear, DisconnectAdmins, TypeOK
<1> QED BY <1>2, <1>3 DEF Shrinks

LEMMA NoticeShrinks ==
  ASSUME TypeOK, NEW n \in Submissions,
         Notify(n) \/ Raise(n) \/ Finish(n) \/ \E a \in Admins : Send(n, a)
  PROVE  Shrinks
BY DEF Notify, Raise, Finish, Send, DisconnectAdmins, Shrinks, Open, TypeOK

\* The effect of a connect.
LEMMA ConnectForms ==
  ASSUME TypeOK, Registered, NEW s \in Sockets, NEW a \in Admins, ConnectAdmin(s, a)
  PROVE  /\ conn[s].at = None /\ ~Open(s)
         /\ conn'[s].phase = "open" /\ conn'[s].at = a
         /\ \A u \in Sockets \ {s} : conn'[u] = conn[u]
         /\ admins' = [admins EXCEPT ![a] = s]
BY DEF ConnectAdmin, Register, Registered, Open, TypeOK

LEMMA RegisteredStep ==
  ASSUME TypeOK, Registered, [Next]_vars
  PROVE  Registered'
<1>1. \A s \in Sockets : conn'[s].phase \in {"new", "refused"} => conn'[s].at = None
  BY StepForms, Parts DEF Steps, ConnStep, Registered, IsConn
<1>2. ASSUME Shrinks PROVE Registered'
  <2>1. ASSUME NEW s \in Sockets, Open(s)' PROVE conn'[s].at # None
    <3>1. conn[s].at # None
      BY <1>2, <2>1 DEF Shrinks, Registered
    <3> QED BY <3>1, ConnKept
  <2>2. ASSUME NEW a \in Admins, admins'[a] # None PROVE conn'[admins'[a]].at = a
    <3>1. admins'[a] = admins[a] /\ admins[a] \in Sockets
      BY <1>2, <2>2 DEF Shrinks, TypeOK
    <3>2. PICK s \in Sockets : s = admins[a]
      BY <3>1
    <3>3. conn[s].at = a /\ conn[s].at # None
      BY <2>2, <3>1, <3>2, ManagerAssumption DEF Registered
    <3> QED BY <3>1, <3>2, <3>3, ConnKept
  <2> QED BY <1>1, <2>1, <2>2 DEF Registered, Open
<1>3. ASSUME NEW s \in Sockets, NEW a \in Admins, ConnectAdmin(s, a)
      PROVE  Registered'
  <2>1. /\ conn[s].at = None /\ conn'[s].phase = "open" /\ conn'[s].at = a
        /\ \A u \in Sockets \ {s} : conn'[u] = conn[u]
        /\ admins' = [admins EXCEPT ![a] = s]
    BY <1>3, ConnectForms
  <2>2. ASSUME NEW b \in Admins, admins'[b] # None PROVE conn'[admins'[b]].at = b
    <3>1. CASE b = a
      BY <2>1, <3>1 DEF TypeOK
    <3>2. CASE b # a
      <4>1. admins'[b] = admins[b] /\ admins[b] \in Sockets
        BY <2>1, <2>2, <3>2 DEF TypeOK
      <4>2. conn[admins[b]].at = b /\ b # None
        BY <2>2, <4>1, ManagerAssumption DEF Registered
      <4> QED BY <2>1, <4>1, <4>2
    <3> QED BY <3>1, <3>2
  <2>3. \A u \in Sockets : Open(u)' => conn'[u].at # None
    BY <2>1, ManagerAssumption DEF Registered, Open
  <2> QED BY <1>1, <2>2, <2>3 DEF Registered, Open
<1>4. CASE UNCHANGED vars
  BY <1>4 DEF vars, Registered, Open
<1> QED BY <1>2, <1>3, <1>4, LeaveShrinks, NoticeShrinks DEF Next

-----------------------------------------------------------------------------
(* What loops note of the sockets they visit                               *)

\* What n's record says after a send.
LEMMA SendNotes ==
  ASSUME TypeOK, Registered, NEW n \in Submissions, NEW a \in Admins, Send(n, a)
  PROVE  /\ admins[a] \in Sockets /\ conn[admins[a]].at = a /\ Looping(n)
         /\ UNCHANGED <<conn, admins>>
         /\ \A m \in Submissions \ {n} : notice'[m] = notice[m]
         /\ notice'[n].phase = notice[n].phase /\ notice'[n].start = Start(n)
         /\ notice'[n].moved = notice[n].moved
         /\ notice'[n].seen = notice[n].seen \cup {a}
         /\ notice'[n].failed \subseteq notice[n].failed \cup {a}
         /\ Open(admins[a]) => notice'[n].failed = notice[n].failed
         /\ notice[n].reached \subseteq notice'[n].reached
         /\ Open(admins[a]) => admins[a] \in notice'[n].reached
<1>1. PICK failed \in SUBSET Admins, got \in SUBSET Sockets :
        /\ Looping(n) /\ a \in AdminIds /\ admins[a] \in Sockets
        /\ UNCHANGED <<conn, admins>>
        /\ notice' = [notice EXCEPT ![n] = Visited(n, a, failed, got)]
        /\ failed = {} \/ failed = {a}
        /\ Open(admins[a]) => failed = {} /\ got = {admins[a]}
  BY SendForms
<1>2. /\ notice'[n] = Visited(n, a, failed, got)
      /\ \A m \in Submissions \ {n} : notice'[m] = notice[m]
  BY <1>1 DEF TypeOK
<1>3. conn[admins[a]].at = a
  BY <1>1 DEF AdminIds, Registered
<1>4. /\ notice'[n].phase = notice[n].phase /\ notice'[n].start = Start(n)
      /\ notice'[n].moved = notice[n].moved
      /\ notice'[n].seen = notice[n].seen \cup {a}
      /\ notice'[n].failed = notice[n].failed \cup failed
      /\ notice'[n].reached = notice[n].reached \cup got
  <2>1. PICK r : r = Visited(n, a, failed, got)
    OBVIOUS
  <2>2. /\ r.phase = notice[n].phase /\ r.start = Start(n) /\ r.moved = notice[n].moved
        /\ r.seen = notice[n].seen \cup {a} /\ r.failed = notice[n].failed \cup failed
        /\ r.reached = notice[n].reached \cup got
    <3>1. IsNotice(notice[n])
      BY Parts
    <3> QED BY <2>1, <3>1 DEF Visited, IsNotice
  <2>3. notice'[n] = r
    BY <1>2, <2>1
  <2> QED BY <2>2, <2>3
<1>5. /\ notice'[n].failed \subseteq notice[n].failed \cup {a}
      /\ Open(admins[a]) => notice'[n].failed = notice[n].failed
      /\ notice[n].reached \subseteq notice'[n].reached
      /\ Open(admins[a]) => admins[a] \in notice'[n].reached
  BY <1>1, <1>4
<1> QED BY <1>1, <1>2, <1>3, <1>4, <1>5

LEMMA FailedStep ==
  ASSUME TypeOK, Registered, FailedAreGone, [Next]_vars
  PROVE  FailedAreGone'
<1> SUFFICES ASSUME NEW n \in Submissions, NEW a \in notice'[n].failed
             PROVE  \E g \in Sockets : conn'[g].at = a /\ Gone(g)'
  BY DEF FailedAreGone, Gone
<1>1. a \in Admins /\ a # None
  BY StepForms, ManagerAssumption DEF Steps, TypeOK
<1>2. \A g \in Sockets : conn[g].at = a /\ Gone(g) => conn'[g].at = a /\ Gone(g)'
  BY <1>1, ConnKept
<1>3. CASE a \in notice[n].failed
  BY <1>2, <1>3 DEF FailedAreGone
<1>4. CASE a \notin notice[n].failed
  <2>1. LoopStep(n)
    BY StepForms DEF Steps
  <2>2. PICK b \in Admins : Send(n, b)
    BY <1>4, <2>1 DEF LoopStep, SameLoop, FreshLoop
  <2>3. a = b /\ ~Open(admins[a])
    BY <1>4, <2>2, SendNotes
  <2>4. PICK g \in Sockets : g = admins[a] /\ conn[g].at = a /\ conn' = conn
    BY <2>2, <2>3, SendNotes
  <2>5. Gone(g)
    <3>1. IsConn(conn[g]) /\ conn[g].phase \notin {"new", "refused"} /\ ~Open(g)
      BY <1>1, <2>3, <2>4, Parts DEF Registered
    <3> QED BY <3>1 DEF IsConn, Open, Gone
  <2> QED BY <1>2, <2>4, <2>5
<1> QED BY <1>3, <1>4

SeenToldOf(n, a) ==
  \E s \in Sockets : conn[s].at = a /\ (Open(s) => s \in notice[n].reached)

LEMMA SeenStep ==
  ASSUME TypeOK, Registered, SeenAreTold, [Next]_vars
  PROVE  SeenAreTold'
<1> SUFFICES ASSUME NEW n \in Submissions, NEW a \in notice'[n].seen
             PROVE  SeenToldOf(n, a)'
  BY DEF SeenAreTold, SeenToldOf, Open
<1>1. a \in Admins /\ a # None
  BY StepForms, ManagerAssumption DEF Steps, TypeOK
<1>2. \A s \in Sockets : conn[s].at = a => conn'[s].at = a /\ (Open(s)' => Open(s))
  BY <1>1, ConnKept
<1>3. CASE a \in notice[n].seen /\ notice[n].reached \subseteq notice'[n].reached
  <2>1. PICK s \in Sockets : conn[s].at = a /\ (Open(s) => s \in notice[n].reached)
    BY <1>3 DEF SeenAreTold
  <2> QED BY <1>2, <1>3, <2>1 DEF SeenToldOf, Open
<1>4. CASE ~(a \in notice[n].seen /\ notice[n].reached \subseteq notice'[n].reached)
  <2>1. LoopStep(n)
    BY StepForms DEF Steps
  <2>2. PICK b \in Admins : Send(n, b)
    BY <1>4, <2>1 DEF LoopStep, SameLoop, FreshLoop
  <2>3. a = b /\ conn' = conn
    BY <1>4, <2>2, SendNotes
  <2>4. PICK s \in Sockets :
          s = admins[a] /\ conn[s].at = a /\ (Open(s) => s \in notice'[n].reached)
    BY <2>2, <2>3, SendNotes
  <2> QED BY <1>2, <2>4 DEF SeenToldOf, Open
<1> QED BY <1>3, <1>4

-----------------------------------------------------------------------------
(* A loop that was not disturbed                                           *)

\* A loop that began earlier, goes on and is not marked was not disturbed.
Watched(n) ==
  Looping(n) /\ notice[n].begun /\ Looping(n)' /\ ~notice'[n].moved => AdminIds' = AdminIds

LEMMA WatchedConnect ==
  ASSUME TypeOK, Registered, NEW s \in Sockets, NEW a \in Admins, NEW n \in Submissions,
         ConnectAdmin(s, a)
  PROVE  Watched(n)
<1>1. CASE admins[a] = None
  <2>1. Disturb(Submissions)
    BY <1>1 DEF ConnectAdmin
  <2> QED BY <2>1, DisturbForms DEF Watched
<1>2. CASE admins[a] # None
  <2>1. admins' = [admins EXCEPT ![a] = s] /\ s # None
    BY ConnectForms, ManagerAssumption
  <2>2. AdminIds' = AdminIds
    BY <1>2, <2>1 DEF AdminIds, TypeOK
  <2> QED BY <2>2 DEF Watched
<1> QED BY <1>1, <1>2

LEMMA WatchedHear ==
  ASSUME TypeOK, NEW s \in Sockets, NEW n \in Submissions, Hear(s)
  PROVE  Watched(n)
<1>1. CASE conn[s].at \in AdminIds
  <2>1. Disturb(Submissions)
    BY <1>1 DEF Hear
  <2> QED BY <2>1, DisturbForms DEF Watched
<1>2. CASE conn[s].at \notin AdminIds
  <2>1. AdminIds' = AdminIds
    BY <1>2 DEF Hear, DisconnectAdmins, AdminIds
  <2> QED BY <2>1 DEF Watched
<1> QED BY <1>1, <1>2

LEMMA WatchedFinish ==
  ASSUME TypeOK, NEW n \in Submissions, NEW m \in Submissions, Finish(m)
  PROVE  Watched(n)
<1>1. DisconnectAdmins(notice[m].failed) /\ End(m, notice[m].failed \cap AdminIds # {})
  BY DEF Finish
<1>2. CASE n = m
  BY <1>1, <1>2, EndForms DEF Watched, Looping
<1>3. CASE n # m /\ notice[m].failed \cap AdminIds # {}
  BY <1>1, <1>3, EndForms DEF Watched
<1>4. CASE notice[m].failed \cap AdminIds = {}
  <2>1. AdminIds' = AdminIds
    BY <1>1, <1>4 DEF DisconnectAdmins, AdminIds
  <2> QED BY <2>1 DEF Watched
<1> QED BY <1>2, <1>3, <1>4

LEMMA WatchedStep ==
  ASSUME TypeOK, Registered, [Next]_vars, NEW n \in Submissions
  PROVE  Watched(n)
<1>1. CASE UNCHANGED admins
  BY <1>1 DEF Watched, AdminIds
<1>2. ASSUME NEW s \in Sockets, RefuseUser(s) \/ Leave(s) \/ HandlerFails(s)
      PROVE  UNCHANGED admins
  BY <1>2 DEF RefuseUser, Leave, HandlerFails
<1>3. ASSUME NEW m \in Submissions, Notify(m) \/ Raise(m) \/ \E a \in Admins : Send(m, a)
      PROVE  UNCHANGED admins
  BY <1>3 DEF Notify, Send, Raise
<1> QED BY <1>1, <1>2, <1>3, WatchedConnect, WatchedHear, WatchedFinish DEF Next, vars

LEMMA StartStep ==
  ASSUME TypeOK, Registered, StartIsCurrent, [Next]_vars
  PROVE  StartIsCurrent'
<1> SUFFICES ASSUME NEW n \in Submissions, Looping(n)', notice'[n].begun, ~notice'[n].moved
             PROVE  AdminIds' = notice'[n].start
  BY DEF StartIsCurrent, Looping
<1>1. LoopStep(n) /\ Watched(n)
  BY StepForms, WatchedStep DEF Steps
<1>2. CASE SameLoop(notice'[n], notice[n])
  <2>1. /\ Looping(n) /\ notice[n].begun /\ ~notice[n].moved
        /\ notice'[n].start = notice[n].start
    BY <1>2 DEF SameLoop, Looping
  <2>2. AdminIds' = AdminIds
    BY <1>1, <2>1 DEF Watched
  <2> QED BY <2>1, <2>2 DEF StartIsCurrent
<1>3. CASE FreshLoop(notice'[n])
  BY <1>3 DEF FreshLoop
<1>4. ASSUME NEW a \in Admins, Send(n, a) PROVE AdminIds' = notice'[n].start
  <2>1. /\ UNCHANGED admins /\ Looping(n) /\ notice'[n].start = Start(n)
        /\ notice'[n].moved = notice[n].moved
    BY <1>4, SendNotes
  <2>2. AdminIds' = AdminIds
    BY <2>1 DEF AdminIds
  <2> QED BY <2>1, <2>2 DEF Start, StartIsCurrent
<1> QED BY <1>1, <1>2, <1>3, <1>4 DEF LoopStep

-----------------------------------------------------------------------------
(* Who cuts a live admin off                                               *)

\* other excuses that s hears nothing.
CutsOff(other, s) == conn[other].at = conn[s].at /\ (Hears(other) \/ Gone(other))

Excused(s) == \E other \in Sockets \ {s} : CutsOff(other, s)

\* An id that gets a new socket passes from the one that had it to that.
LEMMA CutOffByConnect ==
  ASSUME TypeOK, Registered, OnlyOwnReconnectsCutOff,
         NEW s \in Sockets, Open(s)', ~Hears(s)',
         NEW u \in Sockets, NEW a \in Admins, ConnectAdmin(u, a)
  PROVE  Excused(s)'
<1>1. /\ conn[u].at = None /\ conn'[u].phase = "open" /\ conn'[u].at = a
      /\ \A v \in Sockets \ {u} : conn'[v] = conn[v]
      /\ admins' = [admins EXCEPT ![a] = u] /\ a # None
  BY ConnectForms, ManagerAssumption
<1>2. Hears(u)' /\ s # u
  BY <1>1 DEF Hears, TypeOK
<1>3. CASE conn[s].at = a
  BY <1>1, <1>2, <1>3 DEF Excused, CutsOff, Hears
<1>4. CASE conn[s].at # a
  <2>1. conn'[s] = conn[s] /\ Open(s)
    BY <1>1, <1>2 DEF Open
  <2>2. \A b : b # a /\ b \in Admins => admins'[b] = admins[b]
    BY <1>1 DEF TypeOK
  <2>3. conn[s].at \in Admins /\ ~Hears(s)
    BY <1>4, <2>1, <2>2, Parts DEF Hears, Registered, IsConn
  <2>4. PICK other \in Sockets \ {s} : CutsOff(other, s)
    BY <2>1, <2>3 DEF OnlyOwnReconnectsCutOff, CutsOff
  <2>5. other # u /\ conn[other].at \in Admins /\ conn[other].at # a
    BY <1>1, <1>4, <2>3, <2>4, ManagerAssumption DEF CutsOff
  <2>6. conn'[other] = conn[other]
    BY <1>1, <2>5
  <2>7. CutsOff(other, s)'
    BY <2>1, <2>2, <2>4, <2>5, <2>6 DEF CutsOff, Hears, Gone
  <2> QED BY <2>4, <2>7 DEF Excused
<1> QED BY <1>3, <1>4

\* A step that takes away the entry of an id does so for a socket of it that
\* is gone.
Cleared == \A a \in Admins : admins'[a] # admins[a] =>
             \E g \in Sockets : conn[g].at = a /\ Gone(g)'

LEMMA ClearedByHear ==
  ASSUME TypeOK, NEW u \in Sockets, Hear(u)
  PROVE  Cleared
<1>1. conn'[u].phase = "over"
  BY DEF Hear, TypeOK
<1>2. \A a \in Admins : admins'[a] # admins[a] => conn[u].at = a
  BY DEF Hear, DisconnectAdmins
<1> QED BY <1>1, <1>2 DEF Cleared, Gone

LEMMA ClearedByFinish ==
  ASSUME TypeOK, FailedAreGone, NEW n \in Submissions, Finish(n)
  PROVE  Cleared
<1>1. conn' = conn /\ \A a \in Admins : admins'[a] # admins[a] => a \in notice[n].failed
  BY DEF Finish, DisconnectAdmins
<1> QED BY <1>1 DEF Cleared, FailedAreGone, Gone

LEMMA CutOffByOthers ==
  ASSUME TypeOK, Registered, OnlyOwnReconnectsCutOff, [Next]_vars, Shrinks, Cleared,
         NEW s \in Sockets, Open(s)', ~Hears(s)'
  PROVE  Excused(s)'
<1>1. Open(s) /\ conn[s].at \in Admins /\ conn[s].at # None
  BY Parts DEF Shrinks, Registered, IsConn
<1>2. PICK a \in Admins : a = conn[s].at /\ a # None /\ conn'[s].at = a
  BY <1>1, ConnKept
<1>3. \A g \in Sockets : conn[g].at = a => conn'[g].at = a /\ (Gone(g) => Gone(g)')
  BY <1>2, ConnKept
<1>4. CASE admins'[a] # admins[a]
  <2>1. PICK g \in Sockets : conn[g].at = a /\ Gone(g)'
    BY <1>4 DEF Cleared
  <2>2. g # s
    BY <2>1 DEF Gone, Open
  <2> QED BY <1>2, <1>3, <2>1, <2>2 DEF Excused, CutsOff, Gone
<1>5. CASE admins'[a] = admins[a]
  <2>1. ~Hears(s)
    BY <1>2, <1>5 DEF Hears
  <2>2. PICK other \in Sockets \ {s} : CutsOff(other, s)
    BY <1>1, <2>1 DEF OnlyOwnReconnectsCutOff, CutsOff
  <2>3. conn[other].at = a /\ conn'[other].at = a
    BY <1>2, <1>3, <2>2 DEF CutsOff
  <2>4. Hears(other)' \/ Gone(other)'
    BY <1>3, <1>5, <2>2, <2>3 DEF CutsOff, Hears
  <2>5. CutsOff(other, s)'
    BY <1>2, <2>3, <2>4 DEF CutsOff, Hears, Gone
  <2> QED BY <2>2, <2>5 DEF Excused
<1> QED BY <1>4, <1>5

LEMMA CutOffStep ==
  ASSUME TypeOK, Registered, FailedAreGone, OnlyOwnReconnectsCutOff, [Next]_vars
  PROVE  OnlyOwnReconnectsCutOff'
<1> SUFFICES ASSUME NEW s \in Sockets, Open(s)', ~Hears(s)'
             PROVE  Excused(s)'
  BY DEF OnlyOwnReconnectsCutOff, Excused, CutsOff
<1>1. CASE \E u \in Sockets : \E a \in Admins : ConnectAdmin(u, a)
  BY <1>1, CutOffByConnect
<1>2. CASE ~\E u \in Sockets : \E a \in Admins : ConnectAdmin(u, a)
  <2>1. Shrinks
    <3>1. CASE UNCHANGED vars
      BY <3>1 DEF vars, Shrinks, Open
    <3> QED BY <1>2, <3>1, LeaveShrinks, NoticeShrinks DEF Next
  <2>2. Cleared
    <3>1. CASE UNCHANGED admins
      BY <3>1 DEF Cleared
    <3>2. ASSUME NEW u \in Sockets, RefuseUser(u) \/ Leave(u) \/ HandlerFails(u)
          PROVE  UNCHANGED admins
      BY <3>2 DEF RefuseUser, Leave, HandlerFails
    <3>3. ASSUME NEW n \in Submissions,
                 Notify(n) \/ Raise(n) \/ \E a \in Admins : Send(n, a)
          PROVE  UNCHANGED admins
      BY <3>3 DEF Notify, Send, Raise
    <3> QED BY <1>2, <3>1, <3>2, <3>3, ClearedByHear, ClearedByFinish DEF Next, vars
  <2> QED BY <2>1, <2>2, CutOffByOthers
<1> QED BY <1>1, <1>2

-----------------------------------------------------------------------------
(* The theorems                                                            *)

LEMMA ManagerInvariant == Spec => []ManagerInv
<1>1. Init => ManagerInv
  <2>1. Init => Registered /\ OnlyOwnReconnectsCutOff
    BY DEF Init, Registered, OnlyOwnReconnectsCutOff, Open
  <2>2. Init => FailedAreGone /\ SeenAreTold /\ StartIsCurrent
    BY DEF Init, FailedAreGone, SeenAreTold, StartIsCurrent, Looping, Loop
  <2> QED BY <2>1, <2>2, TypesInitially DEF ManagerInv
<1>2. ManagerInv /\ [Next]_vars => ManagerInv'
  <2>1. TypeOK /\ [Next]_vars => TypeOK'
    BY StepForms DEF Steps
  <2> QED BY <2>1, RegisteredStep, FailedStep, SeenStep, StartStep, CutOffStep
          DEF ManagerInv
<1> QED BY <1>1, <1>2, PTL DEF Spec

\* The variables of the manager keep their types.
THEOREM TypeCorrect == Spec => []TypeOK
<1>1. ManagerInv => TypeOK
  BY DEF ManagerInv
<1> QED BY <1>1, ManagerInvariant, PTL

\* A live admin socket is cut off only by another of its own id, which took its
\* place or has gone, whatever broadcasts clean up while sockets come and go
\* (disconnect_admin and the end of broadcast_to_admins in manager.py).
THEOREM OthersCutNobodyOff == Spec => []OnlyOwnReconnectsCutOff
<1>1. ManagerInv => OnlyOwnReconnectsCutOff
  BY DEF ManagerInv
<1> QED BY <1>1, ManagerInvariant, PTL

\* A loop ends only when it raises or has visited everybody.
LEMMA LoopEnds ==
  ASSUME TypeOK, Registered, [Next]_vars, NEW n \in Submissions, Looping(n), ~Looping(n)'
  PROVE  Raise(n) \/ Finish(n)
<1>1. ~SameLoop(notice'[n], notice[n]) /\ ~UNCHANGED notice
  BY DEF SameLoop, Looping
<1>2. ASSUME NEW ns, Disturb(ns) PROVE FALSE
  BY <1>1, <1>2, DisturbForms
<1>3. ASSUME NEW m \in Submissions, Notify(m) PROVE FALSE
  <2>1. n # m /\ notice'[n] = notice[n]
    BY <1>3 DEF Notify, Looping, TypeOK
  <2> QED BY <1>1, <2>1 DEF SameLoop
<1>4. ASSUME NEW m \in Submissions, NEW a \in Admins, Send(m, a) PROVE FALSE
  BY <1>4, SendNotes DEF Looping
<1>5. ASSUME NEW m \in Submissions \ {n}, Raise(m) PROVE FALSE
  BY <1>1, <1>5 DEF Raise, TypeOK, SameLoop
<1>6. ASSUME NEW m \in Submissions \ {n}, Finish(m) PROVE FALSE
  BY <1>1, <1>6, EndForms DEF Finish
<1>7. ASSUME NEW s \in Sockets, NEW a \in Admins, ConnectAdmin(s, a) PROVE FALSE
  BY <1>2, <1>7 DEF ConnectAdmin
<1>8. ASSUME NEW s \in Sockets,
             RefuseUser(s) \/ Leave(s) \/ Hear(s) \/ HandlerFails(s)
      PROVE  FALSE
  BY <1>1, <1>2, <1>8 DEF RefuseUser, Leave, Hear, HandlerFails
<1> QED BY <1>1, <1>3, <1>4, <1>5, <1>6, <1>7, <1>8 DEF Next, vars

\* A broadcast that ran undisturbed told every live admin, however many sends
\* failed on the way (broadcast_to_admins of manager.py).
THEOREM QuietLoopsTellAll == Spec => QuietLoopTellsAll
<1>1. ASSUME ManagerInv, [Next]_vars, NEW n \in Submissions, Looping(n), ~Looping(n)',
             ~notice[n].moved, NEW a \in AdminIds, Open(admins[a])
      PROVE  \/ admins[a] \in notice[n].reached
             \/ \E other \in Sockets \ {admins[a]} : conn[other].at = a
  <2>1. Start(n) = AdminIds
    BY <1>1 DEF ManagerInv, StartIsCurrent, Start
  <2>2. ~Raise(n)
    BY <1>1, <2>1 DEF Raise, SizeKept
  <2>3. Exhausted(n)
    BY <1>1, <2>2, LoopEnds DEF ManagerInv, Finish
  <2>4. a \in notice[n].seen
    BY <1>1, <2>3 DEF Exhausted
  <2> QED BY <1>1, <2>4 DEF ManagerInv, SeenAreTold
<1>2. ManagerInv /\ [Next]_vars =>
        [\A n \in Submissions :
           Looping(n) /\ ~Looping(n)' /\ ~notice[n].moved =>
             \A a \in AdminIds : Open(admins[a]) =>
               \/ admins[a] \in notice[n].reached
               \/ \E other \in Sockets \ {admins[a]} : conn[other].at = a]_vars
  BY <1>1
<1> QED BY <1>2, ManagerInvariant, PTL DEF Spec, QuietLoopTellsAll

=============================================================================
