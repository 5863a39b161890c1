-------------------------- MODULE ConnectionManager --------------------------
(***************************************************************************)
(* The WebSocket connection manager of one API process and the two         *)
(* endpoints that use it.  Everything runs on one event loop, so that what *)
(* lies between two awaits is one step; a broadcast awaits every send, and *)
(* admins come and go in the dictionary it iterates over.                  *)
(*                                                                         *)
(* The endpoint of the customers awaits a plain function and refuses every *)
(* socket before it is registered (RefuseUser).  active_connections and    *)
(* thread_subscribers therefore stay empty and are not variables here:     *)
(* connect_user, disconnect_user and send_to_user never run,               *)
(* send_to_thread returns at once, and the notification of a decision      *)
(* tells nobody.  What is left is the broadcast to the admins.             *)
(*                                                                         *)
(* Other API processes have managers of their own, which this one's        *)
(* broadcasts do not reach.  An admin socket whose accept fails is never   *)
(* registered and is left out.                                             *)
(***************************************************************************)
EXTENDS FiniteSets, Naturals

CONSTANTS
  Sockets,     \* WebSocket connections; one never comes back
  Admins,      \* ids admins connect under
  Submissions, \* executions of notify_status_change with WAITING_ADMIN
  None

ASSUME ManagerAssumption == None \notin Sockets \cup Admins

VARIABLES
  conn,   \* conn[s]: the admin id s connected under, and how its handler fares
  admins, \* admin_connections: a socket or None for each id
  notice  \* notice[n]: how far the broadcast of n has come

vars == <<conn, admins, notice>>

Open(s) == conn[s].phase = "open"

-----------------------------------------------------------------------------
(* The loop of a broadcast over the ids of the admins.  start: the ids when *)
(* it began; moved: an id came or went since; reached: who got the message. *)

Looping(n) == notice[n].phase = "loop"
AdminIds == {a \in Admins : admins[a] # None}

\* The iterator is made together with its first step.
Start(n) == IF notice[n].begun THEN notice[n].start ELSE AdminIds
SizeKept(n) == Cardinality(AdminIds) = Cardinality(Start(n))

Loop(phase) ==
  [phase |-> phase, begun |-> FALSE, start |-> {},
   seen |-> {}, failed |-> {}, reached |-> {}, moved |-> FALSE]

\* What has happened to the loops in ns since their last step.
Disturb(ns) ==
  notice' = [m \in Submissions |->
               IF m \in ns /\ Looping(m) /\ notice[m].begun
                 THEN [notice[m] EXCEPT !.moved = TRUE] ELSE notice[m]]

-----------------------------------------------------------------------------
(* The endpoints                                                           *)

\* websocket_endpoint: `await get_current_user_id(token)` raises for a bad token,
\* and for a good one because an int cannot be awaited; the socket is closed.
RefuseUser(s) ==
  /\ conn[s].phase = "new"
  /\ conn' = [conn EXCEPT ![s].phase = "refused"]
  /\ UNCHANGED <<admins, notice>>

\* Mutant of Register: the sockets of an id are collected.
RegisterBoth(s, a) == admins' = [admins EXCEPT ![a] = {@, s}]

\* The newest socket of an id replaces the entry.
Register(s, a) == admins' = [admins EXCEPT ![a] = s]

\* admin_websocket_endpoint: connect_admin
ConnectAdmin(s, a) ==
  /\ conn[s].phase = "new"
  /\ conn' = [conn EXCEPT ![s] = [phase |-> "open", at |-> a]]
  /\ Register(s, a)
  /\ Disturb(IF admins[a] = None THEN Submissions ELSE {})

\* The peer is gone; the handler has not noticed.
Leave(s) ==
  /\ Open(s)
  /\ conn' = [conn EXCEPT ![s].phase = "left"]
  /\ UNCHANGED <<admins, notice>>

\* disconnect_admin, for the ids in as, whatever socket they have now.
DisconnectAdmins(as) ==
  admins' = [a \in Admins |-> IF a \in as THEN None ELSE admins[a]]

\* receive_text raises WebSocketDisconnect.
Hear(s) ==
  /\ conn[s].phase = "left"
  /\ conn' = [conn EXCEPT ![s].phase = "over"]
  /\ DisconnectAdmins({conn[s].at})
  /\ Disturb(IF conn[s].at \in AdminIds THEN Submissions ELSE {})

\* Any other exception of the handler (a frame that is not text) closes the
\* socket and leaves it registered.
HandlerFails(s) ==
  /\ conn[s].phase \in {"open", "left"}
  /\ conn' = [conn EXCEPT ![s].phase = "over"]
  /\ UNCHANGED <<admins, notice>>

-----------------------------------------------------------------------------
(* notify_status_change                                                    *)

\* After the refund is committed.  The thread has no subscriber, and the
\* broadcast to the admins begins.
Notify(n) ==
  /\ notice[n].phase = "idle"
  /\ notice' = [notice EXCEPT ![n] = Loop("loop")]
  /\ UNCHANGED <<conn, admins>>

\* The next id of the loop: one not visited yet, or any when ids came and went
\* in equal numbers (the dictionary is walked by position).
Visit(n, a) ==
  /\ Looping(n) /\ SizeKept(n)
  /\ a \in AdminIds
  /\ a \notin notice[n].seen \/ notice[n].moved

\* n's record after visiting a.
Visited(n, a, failed, got) ==
  [notice[n] EXCEPT !.begun = TRUE, !.start = Start(n), !.seen = @ \cup {a},
                    !.failed = @ \cup failed, !.reached = @ \cup got]

\* Mutant of Send: the first failing send ends the loop.
SendOrStop(n, a) ==
  LET got == {s \in {admins[a]} : Open(s)} IN
  /\ Visit(n, a)
  /\ notice' = [notice EXCEPT ![n] = IF got = {} THEN Loop("raised")
                                     ELSE Visited(n, a, {}, got)]
  /\ UNCHANGED <<conn, admins>>

\* A send to a socket that is gone is lost, or raises and is remembered.
Send(n, a) ==
  LET got == {s \in {admins[a]} : Open(s)} IN
  /\ Visit(n, a)
  /\ \E failed \in IF got = {} THEN {{}, {a}} ELSE {{}} :
       notice' = [notice EXCEPT ![n] = Visited(n, a, failed, got)]
  /\ UNCHANGED <<conn, admins>>

\* "dictionary changed size during iteration", which ids that came and went in
\* equal numbers may cause too.  Nothing is cleaned up.
Raise(n) ==
  /\ Looping(n) /\ notice[n].begun
  /\ ~SizeKept(n) \/ notice[n].moved
  /\ notice' = [notice EXCEPT ![n] = Loop("raised")]
  /\ UNCHANGED <<conn, admins>>

\* The loop of n is over; the loops of others see the dictionary shrink.
End(n, shrunk) ==
  notice' = [m \in Submissions |->
               IF m = n THEN Loop("done")
               ELSE IF shrunk /\ Looping(m) /\ notice[m].begun
                 THEN [notice[m] EXCEPT !.moved = TRUE] ELSE notice[m]]

Exhausted(n) ==
  /\ Looping(n) /\ SizeKept(n)
  /\ AdminIds \subseteq notice[n].seen \/ notice[n].moved

\* Mutant of Finish: the dictionary is rebuilt from the ids the loop began with.
FinishSnapshot(n) ==
  /\ Exhausted(n)
  /\ DisconnectAdmins(notice[n].failed \cup (Admins \ Start(n)))
  /\ End(n, notice[n].failed \cap AdminIds # {})
  /\ UNCHANGED conn

\* The ids whose sends failed are dropped, with the socket they have by now.
Finish(n) ==
  /\ Exhausted(n)
  /\ DisconnectAdmins(notice[n].failed)
  /\ End(n, notice[n].failed \cap AdminIds # {})
  /\ UNCHANGED conn

-----------------------------------------------------------------------------
Init ==
  /\ conn = [s \in Sockets |-> [phase |-> "new", at |-> None]]
  /\ admins = [a \in Admins |-> None]
  /\ notice = [n \in Submissions |-> Loop("idle")]

Next ==
  \/ \E s \in Sockets : \/ RefuseUser(s)
                        \/ \E a \in Admins : ConnectAdmin(s, a)
                        \/ Leave(s) \/ Hear(s) \/ HandlerFails(s)
  \/ \E n \in Submissions : \/ Notify(n)
                            \/ \E a \in Admins : Send(n, a)
                            \/ Raise(n) \/ Finish(n)

Spec == Init /\ [][Next]_vars

-----------------------------------------------------------------------------
(* What must hold                                                          *)

TypeOK ==
  /\ conn \in [Sockets -> [phase : {"new", "refused", "open", "left", "over"},
                           at : Admins \cup {None}]]
  /\ admins \in [Admins -> Sockets \cup {None}]
  /\ notice \in [Submissions ->
       [phase : {"idle", "loop", "done", "raised"}, begun : BOOLEAN,
        start : SUBSET Admins, seen : SUBSET Admins, failed : SUBSET Admins,
        reached : SUBSET Sockets, moved : BOOLEAN]]

\* What is broadcast reaches s.
Hears(s) == admins[conn[s].at] = s
Gone(s) == conn[s].phase \in {"left", "over"}

\* A live admin socket is cut off from broadcasts only by another socket of its
\* own id, which is registered in its place or has gone itself, its late
\* disconnect taking the entry along (manager.py, disconnect_admin): never by
\* the sockets of other ids, and never by a broadcast that ran meanwhile.
OnlyOwnReconnectsCutOff ==
  \A s \in Sockets : Open(s) /\ ~Hears(s) =>
    \E other \in Sockets \ {s} :
      conn[other].at = conn[s].at /\ (Hears(other) \/ Gone(other))

\* A broadcast during which no id came or went tells every live admin, however
\* many dead sockets it meets (manager.py: failed sends are caught).  An admin
\* who reconnects under the same id may miss it.
QuietLoopTellsAll ==
  [][\A n \in Submissions :
       Looping(n) /\ ~Looping(n)' /\ ~notice[n].moved =>
         \A a \in AdminIds : Open(admins[a]) =>
           \/ admins[a] \in notice[n].reached
           \/ \E other \in Sockets \ {admins[a]} : conn[other].at = a]_vars
=============================================================================
