--------------------------- MODULE ChatStreamProofs ---------------------------
(***************************************************************************)
(* Theorems about ChatStream for any knowledge base, any drafts of the     *)
(* policy model, and any number of turns and failures.                     *)
(***************************************************************************)
EXTENDS ChatStream, PolicyAnswerProofs, FiniteSetTheorems, SequenceTheorems, TLAPS

-----------------------------------------------------------------------------
(* Sets of numbers                                                         *)

LEMMA GreatestElement ==
  ASSUME NEW n \in Nat, NEW S \in SUBSET (1 .. n), S # {}
  PROVE  \E m \in S : \A k \in S : k <= m
<1> DEFINE Mirror == {n - k : k \in S}
<1>1. Mirror \in SUBSET Nat /\ Mirror # {}
  <2>1. \A k \in 1 .. n : n - k \in Nat
    OBVIOUS
  <2> QED BY <2>1
<1>2. Min(Mirror) \in Mirror /\ \A k \in Mirror : Min(Mirror) <= k
  BY <1>1, LeastElement
<1>3. PICK m \in S : Min(Mirror) = n - m
  BY <1>2
<1>4. \A k \in S : n - m <= n - k
  BY <1>2, <1>3
<1> QED BY <1>4

LEMMA IntervalSize ==
  ASSUME NEW n \in Nat
  PROVE  IsFiniteSet(1 .. n) /\ Cardinality(1 .. n) = n
BY FS_Interval

USE StreamAssumption DEF StreamAssumption

-----------------------------------------------------------------------------
(* The shape of the variables                                              *)

IsTurn(r) ==
  /\ r = [phase |-> r.phase, n |-> r.n, active |-> r.active, summary |-> r.summary,
          messages |-> r.messages, evidence |-> r.evidence, attempt |-> r.attempt,
          answer |-> r.answer, sent |-> r.sent, streamed |-> r.streamed,
          compacted |-> r.compacted]
  /\ r.phase \in Phase /\ r.active \in Actives \cup {None}
  /\ r.sent \in BOOLEAN /\ r.streamed \in BOOLEAN

IsEntry(e) ==
  /\ e = [domain |-> e.domain, shown |-> e.shown, retrieved |-> e.retrieved,
          ended |-> e.ended]
  /\ e.domain \in Domains

\* Turns are numbered from 1.
Shape ==
  /\ turn = [t \in Turns |-> turn[t]] /\ \A t \in Turns : IsTurn(turn[t])
  /\ log = [n \in DOMAIN log |-> log[n]] /\ \A n \in Begun : IsEntry(log[n])
  /\ \E k \in Nat : Begun = 1 .. k
  /\ session.active \in Actives \cup {None}
  /\ thread = [messages |-> thread.messages, active |-> thread.active]
  /\ thread.active \in Actives \cup {None}

\* The number of a new turn is new.
LEMMA NewNumber ==
  ASSUME Shape
  PROVE  /\ Cardinality(Begun) + 1 \notin Begun
         /\ \E k \in Nat : Begun \cup {Cardinality(Begun) + 1} = 1 .. k
<1>1. PICK k \in Nat : Begun = 1 .. k
  BY DEF Shape
<1>2. Cardinality(Begun) = k
  BY <1>1, IntervalSize
<1>3. (1 .. k) \cup {k + 1} = 1 .. (k + 1) /\ k + 1 \notin 1 .. k
  OBVIOUS
<1> HIDE DEF Begun
<1> QED BY <1>1, <1>2, <1>3

LEMMA TurnUpdate ==
  ASSUME Shape, NEW t \in Turns, NEW r, IsTurn(r), turn' = [turn EXCEPT ![t] = r]
  PROVE  /\ turn' = [u \in Turns |-> turn'[u]] /\ turn'[t] = r
         /\ \A u \in Turns : IsTurn(turn'[u]) /\ (u # t => turn'[u] = turn[u])
BY DEF Shape

LEMMA LogUpdate ==
  ASSUME Shape, NEW n \in Begun, NEW e, IsEntry(e), log' = [log EXCEPT ![n] = e]
  PROVE  /\ log' = [k \in DOMAIN log' |-> log'[k]] /\ DOMAIN log' = Begun
         /\ log'[n] = e
         /\ \A k \in Begun : IsEntry(log'[k]) /\ (k # n => log'[k] = log[k])
BY DEF Shape, Begun

\* What a turn keeps from its start to the end of its graph.
SameTurn(q, r) ==
  q.n = r.n /\ q.active = r.active /\ q.summary = r.summary /\ q.compacted = r.compacted

\* A turn in another phase, one that starts, at the end of its node, and after
\* it has streamed.
At(r, phase) == [r EXCEPT !.phase = phase]
Started(r, messages, phase) == [r EXCEPT !.messages = messages, !.phase = phase]
Ended(r, answer, messages) ==
  [r EXCEPT !.phase = "ran", !.answer = answer, !.messages = messages]
Sending(r) == [r EXCEPT !.sent = TRUE, !.streamed = TRUE]

LEMMA AtPhase ==
  ASSUME NEW r, IsTurn(r), NEW phase \in Phase
  PROVE  /\ IsTurn(At(r, phase)) /\ At(r, phase).phase = phase
         /\ At(r, phase).n = r.n /\ At(r, phase).evidence = r.evidence
         /\ At(r, phase).sent = r.sent /\ At(r, phase).streamed = r.streamed
         /\ At(r, phase).active = r.active /\ SameTurn(At(r, phase), r)
         /\ At(r, phase).messages = r.messages /\ At(r, phase).answer = r.answer
<1> DEFINE q == At(r, phase)
<1>1. q.phase = phase /\ q.n = r.n /\ q.evidence = r.evidence /\ q.active = r.active
  BY DEF IsTurn, At
<1>2. q.sent = r.sent /\ q.streamed = r.streamed
  BY DEF IsTurn, At
<1>3. IsTurn(q)
  BY DEF IsTurn, At
<1>4. /\ q.summary = r.summary /\ q.compacted = r.compacted
      /\ q.messages = r.messages /\ q.answer = r.answer
  BY DEF IsTurn, At
<1> QED BY <1>1, <1>2, <1>3, <1>4 DEF SameTurn

LEMMA StartedTurn ==
  ASSUME NEW r, IsTurn(r), NEW phase \in Phase, NEW messages
  PROVE  /\ IsTurn(Started(r, messages, phase))
         /\ Started(r, messages, phase).phase = phase
         /\ Started(r, messages, phase).n = r.n
         /\ Started(r, messages, phase).active = r.active
         /\ Started(r, messages, phase).sent = r.sent
         /\ Started(r, messages, phase).streamed = r.streamed
         /\ Started(r, messages, phase).messages = messages
         /\ Started(r, messages, phase).answer = r.answer
         /\ SameTurn(Started(r, messages, phase), r)
<1> DEFINE q == Started(r, messages, phase)
<1>1. q.n = r.n /\ q.phase = phase /\ q.active = r.active
  BY DEF IsTurn, Started
<1>2. q.sent = r.sent /\ q.streamed = r.streamed
  BY DEF IsTurn, Started
<1>3. IsTurn(q)
  <2> SUFFICES ASSUME NEW x, x = [r EXCEPT !.messages = messages, !.phase = phase]
               PROVE  IsTurn(x)
    BY DEF Started
  <2> QED BY DEF IsTurn
<1>4. /\ q.summary = r.summary /\ q.compacted = r.compacted
      /\ q.messages = messages /\ q.answer = r.answer
  BY DEF IsTurn, Started
<1> QED BY <1>1, <1>2, <1>3, <1>4 DEF SameTurn

LEMMA EndedTurn ==
  ASSUME NEW r, IsTurn(r), NEW answer, NEW messages
  PROVE  /\ IsTurn(Ended(r, answer, messages))
         /\ Ended(r, answer, messages).phase = "ran"
         /\ Ended(r, answer, messages).n = r.n
         /\ Ended(r, answer, messages).answer = answer
         /\ Ended(r, answer, messages).active = r.active
         /\ Ended(r, answer, messages).sent = r.sent
         /\ Ended(r, answer, messages).streamed = r.streamed
         /\ Ended(r, answer, messages).messages = messages
         /\ SameTurn(Ended(r, answer, messages), r)
<1> DEFINE q == Ended(r, answer, messages)
<1>1. q.n = r.n /\ q.answer = answer /\ q.phase = "ran" /\ q.active = r.active
  BY DEF IsTurn, Ended
<1>2. q.sent = r.sent /\ q.streamed = r.streamed
  BY DEF IsTurn, Ended
<1>3. IsTurn(q)
  <2> SUFFICES ASSUME NEW x, x = [r EXCEPT !.phase = "ran", !.answer = answer,
                                           !.messages = messages]
               PROVE  IsTurn(x)
    BY DEF Ended
  <2> QED BY DEF IsTurn, Phase
<1>4. q.summary = r.summary /\ q.compacted = r.compacted /\ q.messages = messages
  BY DEF IsTurn, Ended
<1> QED BY <1>1, <1>2, <1>3, <1>4 DEF SameTurn

LEMMA SendingTurn ==
  ASSUME NEW r, IsTurn(r)
  PROVE  /\ IsTurn(Sending(r)) /\ Sending(r).n = r.n /\ Sending(r).active = r.active
         /\ Sending(r).sent = TRUE /\ Sending(r).streamed = TRUE
         /\ SameTurn(Sending(r), r)
<1>1. Sending(r).n = r.n /\ Sending(r).active = r.active
  BY DEF IsTurn, Sending
<1>2. Sending(r).sent = TRUE /\ Sending(r).streamed = TRUE
  BY DEF IsTurn, Sending
<1>3. IsTurn(Sending(r))
  <2> SUFFICES ASSUME NEW x, x = [r EXCEPT !.sent = TRUE, !.streamed = TRUE]
               PROVE  IsTurn(x)
    BY DEF Sending
  <2> QED BY DEF IsTurn
<1>4. Sending(r).summary = r.summary /\ Sending(r).compacted = r.compacted
  BY DEF IsTurn, Sending
<1> QED BY <1>1, <1>2, <1>3, <1>4 DEF SameTurn

LEMMA Tags == ~Forwarded({"internal_llm"}) /\ ~Forwarded({"policy_guard"}) /\ Forwarded({})
BY DEF Forwarded

-----------------------------------------------------------------------------
(* What a turn shows                                                       *)

Early == {"prepared", "routing", "retrieving", "generating", "talking", "order", "refund"}
Late == {"read", "persisted", "appended"}

\* x may be shown in the turn with log entry e.
Vetted(e, x) ==
  /\ x # Internal
  /\ e.domain = "POLICY" => \/ x \in {SafeFallback, NoEvidence}
                            \/ /\ x.kind = "verified" /\ x.evidence # {}
                               /\ x.evidence \subseteq e.retrieved

EntryFits(e) ==
  /\ e.shown = <<>> \/ \E x : e.shown = <<x>> /\ Vetted(e, x)
  /\ e.ended = "done" /\ e.domain # "OTHER" => e.shown # <<>>

\* The node that runs is that of the turn's domain, which is known by then.
DomainFits(r, e) ==
  /\ r.phase \in {"prepared", "routing", "talking"} => e.domain = "OTHER"
  /\ r.phase \in {"retrieving", "generating"} => e.domain = "POLICY"
  /\ r.phase = "order" => e.domain = "ORDER"
  /\ r.phase = "refund" => e.domain = "REFUND"

\* A turn r that runs, with its log entry e: nothing is shown before the answer,
\* the answer may be shown, tokens count as shown only if they were.
RunFits(r, e) ==
  /\ e.ended = "no"
  /\ DomainFits(r, e)
  /\ r.phase \in Early => ~r.sent /\ ~r.streamed /\ e.shown = <<>>
  /\ r.phase = "generating" => e.retrieved = AllowedIds(r.evidence)
  /\ r.phase = "ran" => /\ r.streamed <=> r.sent
                        /\ r.sent => e.shown = <<Words>> /\ e.domain = "OTHER"
                        /\ ~r.sent => e.shown = <<>>
                        /\ r.answer # None => Vetted(e, r.answer)
                        /\ e.domain # "OTHER" => r.answer # None
  /\ r.phase \in Late => /\ r.streamed => e.shown = <<Words>>
                         /\ e.domain # "OTHER" => e.shown # <<>>

Running(t) == turn[t].phase # "idle"

Runs ==
  /\ \A t \in Turns : Running(t) =>
       turn[t].n \in Begun /\ RunFits(turn[t], log[turn[t].n])
  /\ \A t, u \in Turns : Running(t) /\ Running(u) /\ t # u => turn[t].n # turn[u].n
  /\ \A n \in Begun : EntryFits(log[n])

\* What is kept when one turn goes on, or ends, and its log entry with it.
LEMMA RunsFrame ==
  ASSUME Shape, Runs, NEW t \in Turns, Running(t),
         NEW r, IsTurn(r), NEW e, IsEntry(e),
         turn' = [turn EXCEPT ![t] = r], log' = [log EXCEPT ![turn[t].n] = e],
         r.phase # "idle" => r.n = turn[t].n /\ RunFits(r, e),
         EntryFits(e),
         session'.active \in Actives \cup {None},
         \/ UNCHANGED thread
         \/ \E messages : \E active \in Actives \cup {None} :
              thread' = [messages |-> messages, active |-> active]
  PROVE  Shape' /\ Runs'
<1>1. turn[t].n \in Begun
  BY DEF Runs
<1>2. /\ turn' = [u \in Turns |-> turn'[u]] /\ turn'[t] = r
      /\ \A u \in Turns : IsTurn(turn'[u]) /\ (u # t => turn'[u] = turn[u])
  BY TurnUpdate
<1>3. /\ log' = [k \in DOMAIN log' |-> log'[k]] /\ DOMAIN log' = Begun
      /\ log'[turn[t].n] = e
      /\ \A k \in Begun : IsEntry(log'[k]) /\ (k # turn[t].n => log'[k] = log[k])
  BY <1>1, LogUpdate
<1>4. ASSUME NEW u \in Turns, turn'[u].phase # "idle"
      PROVE  /\ turn'[u].n \in DOMAIN log' /\ RunFits(turn'[u], log'[turn'[u].n])
             /\ Running(u) /\ turn'[u].n = turn[u].n
  <2>1. CASE u = t
    BY <1>1, <1>2, <1>3, <1>4, <2>1
  <2>2. CASE u # t
    <3>1. turn'[u] = turn[u] /\ Running(u) /\ turn[u].n # turn[t].n /\ turn[u].n \in Begun
      BY <1>2, <1>4, <2>2 DEF Runs, Running
    <3>2. log'[turn[u].n] = log[turn[u].n]
      BY <1>3, <3>1
    <3> QED BY <1>3, <3>1, <3>2 DEF Runs
  <2> QED BY <2>1, <2>2
<1>5. \A u, v \in Turns : turn'[u].phase # "idle" /\ turn'[v].phase # "idle" /\ u # v =>
                          turn'[u].n # turn'[v].n
  BY <1>4 DEF Runs
<1>6. \A k \in DOMAIN log' : EntryFits(log'[k])
  BY <1>3 DEF Runs
<1>7. Runs'
  BY <1>4, <1>5, <1>6 DEF Runs, Running, Begun
<1>8. Shape'
  <2>1. /\ thread' = [messages |-> thread'.messages, active |-> thread'.active]
        /\ thread'.active \in Actives \cup {None}
    BY DEF Shape
  <2>2. \E k \in Nat : DOMAIN log' = 1 .. k
    BY <1>3 DEF Shape
  <2> QED BY <1>2, <1>3, <2>1, <2>2 DEF Shape, Begun
<1> QED BY <1>7, <1>8

LEMMA Parts ==
  ASSUME Shape, Runs, NEW t \in Turns, Running(t)
  PROVE  /\ turn[t].n \in Begun
         /\ IsTurn(turn[t]) /\ IsEntry(log[turn[t].n])
         /\ RunFits(turn[t], log[turn[t].n]) /\ EntryFits(log[turn[t].n])
BY DEF Shape, Runs

\* A log that does not change, or where one text more is shown, as an update.
LEMMA LogForms ==
  ASSUME Shape, NEW n \in Begun
  PROVE  /\ log = [log EXCEPT ![n] = log[n]]
         /\ \A texts : Showing(n, texts) =
              [log EXCEPT ![n] = [log[n] EXCEPT !.shown = log[n].shown \o texts]]
BY DEF Shape, Showing, Begun

LEMMA Concatenation == \A x : <<>> \o <<x>> = <<x>> /\ <<>> \o <<>> = <<>>
OBVIOUS

\* A node ends: with the words it streamed, or with nothing shown yet.
LEMMA EndNodeFits ==
  ASSUME Shape, Runs, NEW t \in Turns, turn[t].phase \in Early,
         NEW answer, NEW said \in BOOLEAN, NEW after, EndNode(t, after, answer, said),
         \/ /\ after = turn[t] /\ log' = [log EXCEPT ![turn[t].n] = log[turn[t].n]]
         \/ /\ after = Sending(turn[t])
            /\ log' = [log EXCEPT ![turn[t].n] =
                          [log[turn[t].n] EXCEPT !.shown = <<Words>>]]
            /\ log[turn[t].n].domain = "OTHER",
         answer # None => Vetted(log[turn[t].n], answer),
         log[turn[t].n].domain # "OTHER" => answer # None
  PROVE  Shape' /\ Runs'
<1> DEFINE n == turn[t].n
           messages == IF said THEN Append(turn[t].messages, Says("assistant", n))
                       ELSE turn[t].messages
           r == Ended(after, answer, messages)
<1>1. /\ Running(t) /\ n \in Begun /\ IsTurn(turn[t]) /\ IsEntry(log[n])
      /\ RunFits(turn[t], log[n]) /\ EntryFits(log[n])
      /\ ~turn[t].sent /\ ~turn[t].streamed /\ log[n].shown = <<>>
  <2>1. Running(t)
    BY DEF Running, Early
  <2> QED BY <2>1, Parts DEF RunFits
<1>2. /\ turn' = [turn EXCEPT ![t] = r] /\ UNCHANGED session
      /\ thread' = [messages |-> messages, active |-> turn[t].active]
      /\ turn[t].active \in Actives \cup {None}
  BY <1>1 DEF EndNode, Checkpoint, IsTurn, Ended
<1> HIDE DEF messages
<1>3. CASE after = turn[t] /\ log' = [log EXCEPT ![n] = log[n]]
  <2>1. /\ IsTurn(r) /\ r.n = n /\ r.phase = "ran" /\ r.answer = answer
        /\ ~r.sent /\ ~r.streamed
    BY <1>1, <1>3, EndedTurn
  <2> HIDE DEF r
  <2>2. RunFits(r, log[n])
    BY <1>1, <2>1 DEF RunFits, DomainFits, Early, Late
  <2> QED BY <1>1, <1>2, <1>3, <2>1, <2>2, RunsFrame DEF Shape
<1>4. CASE /\ after = Sending(turn[t])
           /\ log' = [log EXCEPT ![n] = [log[n] EXCEPT !.shown = <<Words>>]]
           /\ log[n].domain = "OTHER"
  <2> DEFINE e == [log[n] EXCEPT !.shown = <<Words>>]
  <2>1. /\ IsTurn(r) /\ r.n = n /\ r.phase = "ran" /\ r.answer = answer
        /\ r.sent /\ r.streamed
    <3>1. IsTurn(after) /\ after.n = n /\ after.sent = TRUE /\ after.streamed = TRUE
      BY <1>1, <1>4, SendingTurn
    <3> QED BY <3>1, EndedTurn
  <2>2. /\ IsEntry(e) /\ e.domain = "OTHER" /\ e.shown = <<Words>>
        /\ e.retrieved = log[n].retrieved /\ e.ended = log[n].ended
    BY <1>1, <1>4 DEF IsEntry
  <2>3. Vetted(e, Words) /\ (Vetted(log[n], answer) => Vetted(e, answer))
    BY <1>4, <2>2 DEF Vetted, Words, Internal
  <2> HIDE DEF r, e
  <2>4. RunFits(r, e) /\ EntryFits(e)
    BY <1>1, <2>1, <2>2, <2>3 DEF RunFits, EntryFits, DomainFits, Early, Late
  <2>5. log' = [log EXCEPT ![n] = e]
    BY <1>4 DEF e
  <2> QED BY <1>1, <1>2, <2>1, <2>2, <2>4, <2>5, RunsFrame DEF Shape
<1> QED BY <1>3, <1>4, SMTT(30)

\* A log entry with another domain, and with a text shown.
Of(e, domain) == [e EXCEPT !.domain = domain]
With(e, shown) == [e EXCEPT !.shown = shown]

LEMMA EntryForms ==
  ASSUME NEW e, IsEntry(e)
  PROVE  /\ \A d \in Domains : /\ IsEntry(Of(e, d)) /\ Of(e, d).domain = d
                               /\ Of(e, d).shown = e.shown /\ Of(e, d).ended = e.ended
                               /\ Of(e, d).retrieved = e.retrieved
         /\ \A x : /\ IsEntry(With(e, x)) /\ With(e, x).shown = x
                   /\ With(e, x).domain = e.domain /\ With(e, x).ended = e.ended
                   /\ With(e, x).retrieved = e.retrieved
         /\ With(e, e.shown) = e
<1>1. ASSUME NEW d \in Domains
      PROVE  /\ IsEntry(Of(e, d)) /\ Of(e, d).domain = d
             /\ Of(e, d).shown = e.shown /\ Of(e, d).ended = e.ended
             /\ Of(e, d).retrieved = e.retrieved
  BY DEF IsEntry, Of
<1>2. ASSUME NEW x
      PROVE  /\ IsEntry(With(e, x)) /\ With(e, x).shown = x
             /\ With(e, x).domain = e.domain /\ With(e, x).ended = e.ended
             /\ With(e, x).retrieved = e.retrieved
  BY DEF IsEntry, With
<1>3. With(e, e.shown) = e
  BY DEF IsEntry, With
<1> QED BY <1>1, <1>2, <1>3

\* Nothing is shown that is not forwarded.
LEMMA ShowsNothing ==
  ASSUME Shape, NEW n \in Begun, log[n].shown = <<>>, NEW tags, ~Forwarded(tags), NEW text
  PROVE  Shown(n, tags, text) = log
<1>1. With(log[n], <<>>) = log[n]
  BY EntryForms DEF Shape
<1>2. Shown(n, tags, text) = [log EXCEPT ![n] = With(log[n], log[n].shown \o <<>>)]
  BY LogForms DEF Shown, With
<1> QED BY <1>1, <1>2, Concatenation, LogForms

LEMMA StartFits ==
  ASSUME Shape, Runs, NEW t \in Turns, Start(t)
  PROVE  Shape' /\ Runs'
<1> DEFINE n == turn[t].n
           active == turn[t].active
           phase == IF active = None THEN "routing" ELSE Node(active)
           messages == Append(thread.messages, Says("user", n))
           r == Started(turn[t], messages, phase)
           e == Of(log[n], IF active = None THEN log[n].domain ELSE active)
<1>1. /\ Running(t) /\ n \in Begun /\ IsTurn(turn[t]) /\ IsEntry(log[n])
      /\ RunFits(turn[t], log[n]) /\ turn[t].phase = "prepared"
  <2>1. Running(t) /\ turn[t].phase = "prepared"
    BY DEF Start, Running
  <2> QED BY <2>1, Parts
<1>2. /\ active \in Actives \cup {None} /\ log[n].domain = "OTHER" /\ log[n].ended = "no"
      /\ ~turn[t].sent /\ ~turn[t].streamed /\ log[n].shown = <<>>
  BY <1>1 DEF RunFits, DomainFits, Early, IsTurn
<1>3. /\ phase \in Phase
      /\ active = None => phase = "routing"
      /\ active # None => phase = CASE active = "ORDER" -> "order"
                                    [] active = "POLICY" -> "retrieving"
                                    [] active = "REFUND" -> "refund"
  BY <1>2 DEF Node, Actives, Phase
<1>4. turn' = [turn EXCEPT ![t] = [turn[t] EXCEPT !.messages = messages, !.phase = phase]]
  BY DEF Start, Shape
<1>5. turn' = [turn EXCEPT ![t] = r]
  BY <1>4 DEF Started
<1>6. log' = [log EXCEPT ![n] = e]
  BY <1>1 DEF Start, Of, Shape
<1>7. /\ thread' = [messages |-> messages, active |-> active]
      /\ session' = session
  BY DEF Start
<1>8. /\ IsTurn(r) /\ r.phase = phase /\ r.n = n
      /\ r.sent = turn[t].sent /\ r.streamed = turn[t].streamed
  BY <1>1, <1>3, StartedTurn
<1>9. /\ IsEntry(e) /\ e.shown = <<>> /\ e.ended = "no"
      /\ e.domain = IF active = None THEN "OTHER" ELSE active
  BY <1>1, <1>2, EntryForms DEF Domains
<1> HIDE DEF r, e, phase, messages
<1>10. RunFits(r, e) /\ EntryFits(e)
  BY <1>2, <1>3, <1>8, <1>9 DEF RunFits, EntryFits, DomainFits, Early, Late, Actives
<1> QED BY <1>1, <1>2, <1>5, <1>6, <1>7, <1>8, <1>9, <1>10, RunsFrame DEF Shape

LEMMA ClassifyFits ==
  ASSUME Shape, Runs, NEW t \in Turns, NEW domain \in Domains, Classify(t, domain)
  PROVE  Shape' /\ Runs'
<1> DEFINE n == turn[t].n
           r == At(turn[t], Node(domain))
           e == Of(log[n], domain)
<1>1. /\ Running(t) /\ n \in Begun /\ IsTurn(turn[t]) /\ IsEntry(log[n])
      /\ RunFits(turn[t], log[n]) /\ turn[t].phase = "routing"
  <2>1. Running(t) /\ turn[t].phase = "routing"
    BY DEF Classify, Running
  <2> QED BY <2>1, Parts
<1>2. /\ log[n].ended = "no" /\ turn[t].active \in Actives \cup {None}
      /\ ~turn[t].sent /\ ~turn[t].streamed /\ log[n].shown = <<>>
  BY <1>1 DEF RunFits, Early, IsTurn
<1>3. /\ Node(domain) \in Phase
      /\ Node(domain) = CASE domain = "ORDER" -> "order"
                          [] domain = "POLICY" -> "retrieving"
                          [] domain = "REFUND" -> "refund"
                          [] domain = "OTHER" -> "talking"
  BY DEF Node, Phase, Domains, Actives
<1>4. turn' = [turn EXCEPT ![t] = r]
  BY Tags DEF Classify, Streamed, At
<1>5. log' = [log EXCEPT ![n] = e]
  <2>1. Shown(n, {"internal_llm"}, Internal) = log
    BY <1>1, <1>2, Tags, ShowsNothing
  <2> QED BY <1>1, <2>1 DEF Classify, Of, Shape
<1>6. /\ thread' = [messages |-> turn[t].messages, active |-> turn[t].active]
      /\ session' = session
  BY DEF Classify, Checkpoint
<1>7. /\ IsTurn(r) /\ r.phase = Node(domain) /\ r.n = n
      /\ r.sent = turn[t].sent /\ r.streamed = turn[t].streamed
  BY <1>1, <1>3, AtPhase
<1>8. IsEntry(e) /\ e.shown = <<>> /\ e.ended = "no" /\ e.domain = domain
  BY <1>1, <1>2, EntryForms
<1> HIDE DEF r, e
<1>9. RunFits(r, e) /\ EntryFits(e)
  BY <1>2, <1>3, <1>7, <1>8 DEF RunFits, EntryFits, DomainFits, Early, Late, Domains, Actives
<1> QED BY <1>1, <1>2, <1>4, <1>5, <1>6, <1>7, <1>8, <1>9, RunsFrame DEF Shape

\* The nodes that answer.
LEMMA AnswerFits ==
  ASSUME Shape, Runs, NEW t \in Turns,
         AnswerOrder(t) \/ AnswerRefund(t) \/ AnswerNoEvidence(t) \/ Talk(t)
  PROVE  Shape' /\ Runs'
<1> DEFINE n == turn[t].n
<1>1. /\ turn[t].phase \in Early /\ Running(t) /\ n \in Begun
      /\ IsTurn(turn[t]) /\ IsEntry(log[n])
      /\ RunFits(turn[t], log[n]) /\ log[n].shown = <<>>
  <2>1. turn[t].phase \in Early /\ Running(t)
    BY DEF AnswerOrder, AnswerRefund, AnswerNoEvidence, Talk, Early, Running
  <2> QED BY <2>1, Parts DEF RunFits
<1>2. log = [log EXCEPT ![n] = log[n]]
  BY <1>1, LogForms
<1>3. CASE AnswerOrder(t)
  <2>1. Vetted(log[n], [kind |-> "order"])
    BY <1>1, <1>3 DEF AnswerOrder, RunFits, DomainFits, Vetted, Internal
  <2>2. [kind |-> "order"] # None
    BY NoneAssumption DEF Text
  <2> QED BY <1>1, <1>2, <1>3, <2>1, <2>2, EndNodeFits DEF AnswerOrder
<1>4. CASE AnswerRefund(t)
  <2>1. Vetted(log[n], [kind |-> "refund"])
    BY <1>1, <1>4 DEF AnswerRefund, RunFits, DomainFits, Vetted, Internal
  <2>2. [kind |-> "refund"] # None
    BY NoneAssumption DEF Text
  <2> QED BY <1>1, <1>2, <1>4, <2>1, <2>2, EndNodeFits, ZenonT(30) DEF AnswerRefund
<1>5. CASE AnswerNoEvidence(t)
  <2>1. Vetted(log[n], NoEvidence) /\ NoEvidence # None
    BY NoneAssumption DEF Vetted, NoEvidence, Internal, Text
  <2> QED BY <1>1, <1>2, <1>5, <2>1, EndNodeFits DEF AnswerNoEvidence
<1>6. CASE Talk(t)
  <2>1. log[n].domain = "OTHER"
    BY <1>1, <1>6 DEF Talk, RunFits, DomainFits
  <2>2. Vetted(log[n], Words)
    BY <2>1 DEF Vetted, Words, Internal
  <2>3. ASSUME EndNode(t, Streamed(turn[t], {}), Words, TRUE), log' = Shown(n, {}, Words)
        PROVE  Shape' /\ Runs'
    <3>1. Streamed(turn[t], {}) = Sending(turn[t])
      BY Tags DEF Streamed, Sending
    <3>2. log' = [log EXCEPT ![n] = [log[n] EXCEPT !.shown = <<Words>>]]
      <4>1. log' = Showing(n, <<Words>>)
        BY <2>3, Tags DEF Shown
      <4>2. Showing(n, <<Words>>) = [log EXCEPT ![n] = With(log[n], log[n].shown \o <<Words>>)]
        BY <1>1, LogForms DEF With
      <4>3. log[n].shown \o <<Words>> = <<Words>>
        BY <1>1, Concatenation
      <4> QED BY <4>1, <4>2, <4>3 DEF With
    <3> QED BY <1>1, <2>1, <2>2, <2>3, <3>1, <3>2, EndNodeFits
  <2>4. ASSUME NEW answer \in {Words, None}, EndNode(t, turn[t], answer, TRUE), UNCHANGED log
        PROVE  Shape' /\ Runs'
    <3>1. answer # None => Vetted(log[n], answer)
      BY <2>2
    <3>2. log' = [log EXCEPT ![n] = log[n]]
      BY <1>2, <2>4
    <3> QED BY <1>1, <2>1, <2>4, <3>1, <3>2, EndNodeFits
  <2> QED BY <1>6, <2>3, <2>4 DEF Talk
<1> QED BY <1>3, <1>4, <1>5, <1>6

LEMMA RetrieveFits ==
  ASSUME Shape, Runs, NEW t \in Turns, Retrieve(t)
  PROVE  Shape' /\ Runs'
<1> DEFINE n == turn[t].n
<1>1. /\ Running(t) /\ n \in Begun /\ IsTurn(turn[t]) /\ IsEntry(log[n])
      /\ RunFits(turn[t], log[n]) /\ turn[t].phase = "retrieving"
  <2>1. Running(t) /\ turn[t].phase = "retrieving"
    BY DEF Retrieve, Running
  <2> QED BY <2>1, Parts
<1>2. /\ log[n].ended = "no" /\ log[n].domain = "POLICY"
      /\ turn[t].active \in Actives \cup {None}
      /\ ~turn[t].sent /\ ~turn[t].streamed /\ log[n].shown = <<>>
  BY <1>1 DEF RunFits, DomainFits, Early, IsTurn
<1>3. PICK evidence :
        /\ turn' = [turn EXCEPT ![t].phase = "generating", ![t].evidence = evidence]
        /\ log' = [log EXCEPT ![n].retrieved = AllowedIds(evidence)]
  BY DEF Retrieve
<1>4. /\ thread' = [messages |-> turn[t].messages, active |-> turn[t].active]
      /\ session' = session
  BY DEF Retrieve, Checkpoint
<1>5. PICK r : r = [turn[t] EXCEPT !.phase = "generating", !.evidence = evidence]
  OBVIOUS
<1>6. PICK e : e = [log[n] EXCEPT !.retrieved = AllowedIds(evidence)]
  OBVIOUS
<1>7. turn' = [turn EXCEPT ![t] = r]
  BY <1>3, <1>5 DEF Shape
<1>8. log' = [log EXCEPT ![n] = e]
  BY <1>1, <1>3, <1>6 DEF Shape
<1>9. /\ r.phase = "generating" /\ r.n = n /\ r.evidence = evidence
  BY <1>1, <1>5 DEF IsTurn
<1>10. r.sent = turn[t].sent /\ r.streamed = turn[t].streamed
  BY <1>1, <1>5 DEF IsTurn
<1>11. IsTurn(r)
  BY <1>1, <1>5 DEF IsTurn, Phase
<1>12. /\ IsEntry(e) /\ e.shown = <<>> /\ e.ended = "no" /\ e.domain = "POLICY"
       /\ e.retrieved = AllowedIds(evidence)
  BY <1>1, <1>2, <1>6 DEF IsEntry
<1>13. RunFits(r, e) /\ EntryFits(e)
  BY <1>2, <1>9, <1>10, <1>12 DEF RunFits, EntryFits, DomainFits, Early, Late
<1> QED BY <1>1, <1>2, <1>4, <1>7, <1>8, <1>9, <1>11, <1>12, <1>13, RunsFrame DEF Shape

LEMMA GenerateFits ==
  ASSUME Shape, Runs, NEW t \in Turns, Generate(t)
  PROVE  Shape' /\ Runs'
<1> DEFINE n == turn[t].n
           allowed == AllowedIds(turn[t].evidence)
<1>1. /\ Running(t) /\ n \in Begun /\ IsTurn(turn[t]) /\ IsEntry(log[n])
      /\ RunFits(turn[t], log[n]) /\ EntryFits(log[n])
      /\ turn[t].phase = "generating"
  <2>1. Running(t) /\ turn[t].phase = "generating"
    BY DEF Generate, Running
  <2> QED BY <2>1, Parts
<1>2. /\ log[n].shown = <<>> /\ log[n].retrieved = allowed /\ turn[t].phase \in Early
  BY <1>1 DEF RunFits, Early
<1>3. Streamed(turn[t], {"policy_guard"}) = turn[t]
  BY Tags DEF Streamed
<1>4. log' = log /\ log' = [log EXCEPT ![n] = log[n]]
  <2>1. log' = Shown(n, {"policy_guard"}, Internal)
    BY DEF Generate
  <2>2. Shown(n, {"policy_guard"}, Internal) = log
    BY <1>1, <1>2, Tags, ShowsNothing
  <2> QED BY <1>1, <2>1, <2>2, LogForms
<1>5. ASSUME NEW answer, EndNode(t, turn[t], answer, TRUE), Vetted(log[n], answer),
             answer # None
      PROVE  Shape' /\ Runs'
  BY <1>2, <1>4, <1>5, EndNodeFits
<1>6. ASSUME NEW d \in Drafts, Valid(d, allowed), EndNode(t, turn[t], Verified(d), TRUE)
      PROVE  Shape' /\ Runs'
  <2>1. Vetted(log[n], Verified(d))
    BY <1>2, <1>6 DEF Vetted, Verified, Valid, Internal
  <2>2. Verified(d) # None
    BY NoneAssumption DEF Text
  <2> QED BY <1>5, <1>6, <2>1, <2>2
<1>7. ASSUME EndNode(t, turn[t], SafeFallback, TRUE) PROVE Shape' /\ Runs'
  <2>1. Vetted(log[n], SafeFallback) /\ SafeFallback # None
    BY NoneAssumption DEF Vetted, SafeFallback, Internal, Text
  <2> QED BY <1>5, <1>7, <2>1
<1>8. ASSUME turn' = [turn EXCEPT ![t] = [turn[t] EXCEPT !.attempt = 1]],
             UNCHANGED <<session, thread>>
      PROVE  Shape' /\ Runs'
  <2>1. PICK r : r = [turn[t] EXCEPT !.attempt = 1]
    OBVIOUS
  <2>2. r.phase = "generating" /\ r.n = n /\ r.evidence = turn[t].evidence
    BY <1>1, <2>1 DEF IsTurn
  <2>3. r.sent = turn[t].sent /\ r.streamed = turn[t].streamed
    BY <1>1, <2>1 DEF IsTurn
  <2>4. IsTurn(r)
    BY <1>1, <2>1 DEF IsTurn
  <2>5. RunFits(r, log[n])
    BY <1>1, <2>2, <2>3 DEF RunFits, DomainFits, Early, Late
  <2>6. turn' = [turn EXCEPT ![t] = r]
    BY <1>8, <2>1
  <2> QED BY <1>1, <1>4, <1>8, <2>2, <2>4, <2>5, <2>6, RunsFrame DEF Shape
<1> QED BY <1>3, <1>6, <1>7, <1>8 DEF Generate

\* After the graph.
LEMMA ReadStateFits ==
  ASSUME Shape, Runs, NEW t \in Turns, ReadState(t)
  PROVE  Shape' /\ Runs'
<1> DEFINE n == turn[t].n
           shown == log[n].shown \o IF Push(t) THEN <<turn[t].answer>> ELSE <<>>
           e == With(log[n], shown)
<1>1. /\ Running(t) /\ n \in Begun /\ IsTurn(turn[t]) /\ IsEntry(log[n])
      /\ RunFits(turn[t], log[n]) /\ EntryFits(log[n]) /\ turn[t].phase = "ran"
  <2>1. Running(t) /\ turn[t].phase = "ran"
    BY DEF ReadState, Running
  <2> QED BY <2>1, Parts
<1>2. /\ log[n].ended = "no"
      /\ turn[t].streamed <=> turn[t].sent
      /\ turn[t].sent => log[n].shown = <<Words>> /\ log[n].domain = "OTHER"
      /\ ~turn[t].sent => log[n].shown = <<>>
      /\ turn[t].answer # None => Vetted(log[n], turn[t].answer)
      /\ log[n].domain # "OTHER" => turn[t].answer # None
  BY <1>1 DEF RunFits
<1>3. <<Words>> \o <<>> = <<Words>>
  OBVIOUS
<1>4. \/ shown = <<Words>> /\ turn[t].streamed /\ log[n].domain = "OTHER"
      \/ shown = <<turn[t].answer>> /\ ~turn[t].streamed /\ Vetted(log[n], turn[t].answer)
      \/ shown = <<>> /\ ~turn[t].streamed /\ log[n].domain = "OTHER"
  <2>1. CASE turn[t].sent
    BY <1>2, <1>3, <2>1 DEF Push
  <2>2. CASE ~turn[t].sent /\ turn[t].answer # None
    BY <1>2, <2>2, Concatenation DEF Push
  <2>3. CASE ~turn[t].sent /\ turn[t].answer = None
    BY <1>2, <2>3, Concatenation DEF Push
  <2> QED BY <2>1, <2>2, <2>3
<1>5. log' = [log EXCEPT ![n] = e]
  <2>1. log' = Showing(n, IF Push(t) THEN <<turn[t].answer>> ELSE <<>>)
    BY DEF ReadState
  <2> QED BY <1>1, <2>1, LogForms DEF With
<1> HIDE DEF shown
<1>6. /\ IsEntry(e) /\ e.shown = shown /\ e.ended = "no" /\ e.domain = log[n].domain
      /\ e.retrieved = log[n].retrieved
  BY <1>1, <1>2, EntryForms
<1>7. PICK sent \in BOOLEAN : sent <=> turn[t].sent \/ Push(t)
  OBVIOUS
<1>8. PICK r : r = [turn[t] EXCEPT !.phase = "read", !.sent = sent,
                      !.messages = thread.messages, !.active = thread.active,
                      !.evidence = <<>>]
  OBVIOUS
<1>9. turn' = [turn EXCEPT ![t] = r]
  <2>1. sent = (turn[t].sent \/ Push(t))
    BY <1>1, <1>7 DEF IsTurn, Push
  <2> QED BY <1>8, <2>1 DEF ReadState, Shape
<1>10. r.phase = "read" /\ r.n = n
  BY <1>1, <1>8 DEF IsTurn
<1>11. r.streamed = turn[t].streamed
  BY <1>1, <1>8 DEF IsTurn
<1>12. IsTurn(r)
  BY <1>1, <1>7, <1>8 DEF IsTurn, Phase, Shape
<1> HIDE DEF e
<1>13. RunFits(r, e) /\ EntryFits(e)
  <2>1. Vetted(log[n], turn[t].answer) => Vetted(e, turn[t].answer)
    BY <1>6 DEF Vetted
  <2>2. log[n].domain = "OTHER" => Vetted(e, Words)
    BY <1>6 DEF Vetted, Words, Internal
  <2>3. \A x : <<x>> # <<>>
    OBVIOUS
  <2> QED BY <1>4, <1>6, <1>10, <1>11, <2>1, <2>2, <2>3
          DEF RunFits, EntryFits, DomainFits, Early, Late
<1>14. UNCHANGED <<session, thread>>
  BY DEF ReadState
<1> QED BY <1>1, <1>5, <1>6, <1>9, <1>10, <1>12, <1>13, <1>14, RunsFrame DEF Shape

LEMMA PersistFits ==
  ASSUME Shape, Runs, NEW t \in Turns, Persist(t) \/ AppendRows(t)
  PROVE  Shape' /\ Runs'
<1> DEFINE n == turn[t].n
<1>1. /\ Running(t) /\ n \in Begun /\ IsTurn(turn[t]) /\ IsEntry(log[n])
      /\ RunFits(turn[t], log[n]) /\ EntryFits(log[n])
      /\ turn[t].phase \in Late
  <2>1. Running(t) /\ turn[t].phase \in Late
    BY DEF Persist, AppendRows, Running, Late
  <2> QED BY <2>1, Parts
<1>2. PICK r : /\ IsTurn(r) /\ r.n = n /\ r.phase \in Late
               /\ r.streamed = turn[t].streamed
               /\ turn' = [turn EXCEPT ![t] = r]
  <2>1. ASSUME NEW phase \in Late, NEW compacted,
               turn' = [turn EXCEPT ![t].phase = phase, ![t].compacted = compacted]
        PROVE  \E r : /\ IsTurn(r) /\ r.n = n /\ r.phase \in Late
                      /\ r.streamed = turn[t].streamed
                      /\ turn' = [turn EXCEPT ![t] = r]
    <3>1. PICK r : r = [turn[t] EXCEPT !.phase = phase, !.compacted = compacted]
      OBVIOUS
    <3>2. r.n = n /\ r.phase = phase
      BY <1>1, <3>1 DEF IsTurn
    <3>3. r.streamed = turn[t].streamed
      BY <1>1, <3>1 DEF IsTurn
    <3>4. IsTurn(r)
      BY <1>1, <3>1 DEF IsTurn, Phase, Late
    <3>5. turn' = [turn EXCEPT ![t] = r]
      BY <2>1, <3>1 DEF Shape
    <3> QED BY <3>2, <3>3, <3>4, <3>5
  <2>2. ASSUME AppendRows(t)
        PROVE  \E r : /\ IsTurn(r) /\ r.n = n /\ r.phase \in Late
                      /\ r.streamed = turn[t].streamed
                      /\ turn' = [turn EXCEPT ![t] = r]
    <3>1. turn' = [turn EXCEPT ![t] = At(turn[t], "appended")]
      BY <2>2 DEF AppendRows, At
    <3> QED BY <1>1, <3>1, AtPhase DEF Phase, Late
  <2>3. ASSUME Persist(t)
        PROVE  \E compacted :
                 turn' = [turn EXCEPT ![t].phase = "persisted", ![t].compacted = compacted]
    BY <2>3 DEF Persist
  <2>4. "persisted" \in Late
    BY DEF Late
  <2> QED BY <2>1, <2>2, <2>3, <2>4
<1>3. RunFits(r, log[n])
  BY <1>1, <1>2 DEF RunFits, DomainFits, Early, Late
<1>4. /\ UNCHANGED <<log, thread>>
      /\ session'.active \in Actives \cup {None}
  <2>1. UNCHANGED <<log, thread>>
    BY DEF Persist, AppendRows
  <2>2. CASE Persist(t)
    <3>1. PICK summary \in Summaries(turn[t].summary, turn[t].messages),
               active \in ActivesAfter(t) :
            session' = [active |-> active, summary |-> summary]
      BY <2>2 DEF Persist
    <3> QED BY <1>1, <2>1, <3>1 DEF ActivesAfter, Shape, IsTurn
  <2>3. CASE AppendRows(t)
    BY <2>1, <2>3 DEF AppendRows, Shape
  <2> QED BY <2>1, <2>2, <2>3
<1>5. log' = [log EXCEPT ![n] = log[n]]
  BY <1>1, <1>4, LogForms
<1> QED BY <1>1, <1>2, <1>3, <1>4, <1>5, RunsFrame

EndedAs(entries, m, ended) == [entries EXCEPT ![m].ended = ended]

LEMMA EndFits ==
  ASSUME Shape, Runs, NEW t \in Turns, Finish(t) \/ Fail(t)
  PROVE  Shape' /\ Runs'
<1> DEFINE n == turn[t].n
<1>1. /\ Running(t) /\ n \in Begun /\ IsEntry(log[n])
      /\ RunFits(turn[t], log[n]) /\ EntryFits(log[n])
  <2>1. Running(t)
    BY DEF Finish, Fail, Running
  <2> QED BY <2>1, Parts
<1>2. IsTurn(Idle) /\ Idle.phase = "idle" /\ turn' = [turn EXCEPT ![t] = Idle]
  BY DEF IsTurn, Idle, Phase, Finish, Fail
<1>3. PICK ended : /\ log' = EndedAs(log, n, ended)
                   /\ ended = "done" => turn[t].phase = "appended"
  <2>1. CASE Finish(t)
    <3>1. log' = EndedAs(log, n, "done") /\ turn[t].phase = "appended"
      BY <2>1 DEF Finish, EndedAs
    <3> QED BY <3>1
  <2>2. CASE Fail(t)
    <3>1. log' = EndedAs(log, n, "failed")
      BY <2>2 DEF Fail, EndedAs
    <3> QED BY <3>1
  <2> QED BY <2>1, <2>2
<1>4. PICK e : e = [log[n] EXCEPT !.ended = ended]
  OBVIOUS
<1>5. log' = [log EXCEPT ![n] = e]
  BY <1>3, <1>4 DEF Shape, EndedAs
<1>6. /\ IsEntry(e) /\ e.shown = log[n].shown /\ e.domain = log[n].domain
      /\ e.retrieved = log[n].retrieved /\ e.ended = ended
  BY <1>1, <1>4 DEF IsEntry
<1>7. EntryFits(e)
  <2>1. \A x : Vetted(log[n], x) => Vetted(e, x)
    BY <1>6 DEF Vetted
  <2> QED BY <1>1, <1>3, <1>6, <2>1 DEF EntryFits, RunFits, Late
<1>8. session' = session
  BY DEF Finish, Fail
<1>9. \/ UNCHANGED thread
      \/ \E messages : \E active \in Actives \cup {None} :
           thread' = [messages |-> messages, active |-> active]
  BY DEF Finish, Fail, Shape
<1> QED BY <1>1, <1>2, <1>5, <1>6, <1>7, <1>8, <1>9, RunsFrame DEF Shape

LEMMA PrepareFits ==
  ASSUME Shape, Runs, NEW t \in Turns, NEW domain \in Domains, Prepare(t, domain)
  PROVE  Shape' /\ Runs'
<1> DEFINE n == Cardinality(Begun) + 1
           e == [domain |-> "OTHER", shown |-> <<>>, retrieved |-> {}, ended |-> "no"]
<1>1. n \notin Begun /\ \E k \in Nat : Begun \cup {n} = 1 .. k
  BY NewNumber
<1> HIDE DEF n
<1>2. log' = [k \in Begun \cup {n} |-> IF k = n THEN e ELSE log[k]]
  BY DEF Prepare, n
<1>3. ActiveDomain(domain) \in Actives \cup {None}
  BY DEF ActiveDomain, Shape, Domains
<1>4. PICK r : r = [Idle EXCEPT !.phase = "prepared", !.n = n,
                      !.active = ActiveDomain(domain), !.summary = session.summary]
  OBVIOUS
<1>5. turn' = [turn EXCEPT ![t] = r]
  BY <1>4 DEF Prepare, n
<1>6. /\ IsTurn(r) /\ r.phase = "prepared" /\ r.n = n
      /\ r.sent = FALSE /\ r.streamed = FALSE
  BY <1>3, <1>4 DEF IsTurn, Idle, Phase
<1>7. IsEntry(e) /\ RunFits(r, e) /\ EntryFits(e)
  BY <1>6 DEF IsEntry, RunFits, EntryFits, DomainFits, Early, Late, Domains
<1>8. UNCHANGED <<session, thread>>
  BY DEF Prepare
<1>9. /\ turn' = [u \in Turns |-> turn'[u]] /\ turn'[t] = r
      /\ \A u \in Turns : IsTurn(turn'[u]) /\ (u # t => turn'[u] = turn[u])
  BY <1>5, <1>6, TurnUpdate
<1>10. ~Running(t)
  BY DEF Prepare, Running
<1> HIDE DEF e
<1>11. /\ DOMAIN log' = Begun \cup {n} /\ log'[n] = e
       /\ \A k \in Begun : log'[k] = log[k] /\ k # n
  BY <1>1, <1>2
<1>12. Shape'
  BY <1>1, <1>2, <1>7, <1>8, <1>9, <1>11 DEF Shape, Begun
<1>13. Runs'
  <2>1. ASSUME NEW u \in Turns, turn'[u].phase # "idle"
        PROVE  turn'[u].n \in DOMAIN log' /\ RunFits(turn'[u], log'[turn'[u].n])
    BY <1>6, <1>7, <1>9, <1>11, <2>1 DEF Runs, Running
  <2>2. ASSUME NEW u \in Turns, NEW v \in Turns, u # v,
               turn'[u].phase # "idle", turn'[v].phase # "idle"
        PROVE  turn'[u].n # turn'[v].n
    BY <1>6, <1>9, <1>11, <2>2 DEF Runs, Running
  <2>3. \A k \in DOMAIN log' : EntryFits(log'[k])
    BY <1>7, <1>11 DEF Runs
  <2> QED BY <2>1, <2>2, <2>3 DEF Runs, Running, Begun
<1> QED BY <1>12, <1>13

\* The inductive invariant of what is shown.
ShownInv == Shape /\ Runs

LEMMA ShownInvariant == Spec => []ShownInv
<1>1. Init => ShownInv
  <2> SUFFICES ASSUME Init PROVE Shape /\ Runs
    BY DEF ShownInv
  <2>1. DOMAIN log = {} /\ DOMAIN log = 1 .. 0
    BY DEF Init
  <2>2. IsTurn(Idle)
    BY DEF IsTurn, Idle, Phase
  <2>3. \A t \in Turns : turn[t] = Idle /\ Idle.phase = "idle"
    BY DEF Init, Idle
  <2>4. turn = [t \in Turns |-> turn[t]] /\ log = [n \in DOMAIN log |-> log[n]]
    BY DEF Init
  <2>5. Shape
    BY <2>1, <2>2, <2>3, <2>4 DEF Init, Shape, Begun
  <2> QED BY <2>1, <2>3, <2>5 DEF Runs, Running, Begun
<1>2. ShownInv /\ [Next]_vars => ShownInv'
  <2> SUFFICES ASSUME Shape, Runs, [Next]_vars PROVE Shape' /\ Runs'
    BY DEF ShownInv
  <2>1. CASE UNCHANGED vars
    BY <2>1 DEF vars, Shape, Runs, Running, Begun
  <2> QED BY <2>1, PrepareFits, ClassifyFits, StartFits, AnswerFits, RetrieveFits,
             GenerateFits, ReadStateFits, PersistFits, EndFits DEF Next, Graph
<1> QED BY <1>1, <1>2, PTL DEF Spec

LEMMA RangeOne == \A x : Range(<<x>>) = {x} /\ Len(<<x>>) = 1 /\ <<x>> # <<>>
BY DEF Range

LEMMA RangeNone == Range(<<>>) = {} /\ Len(<<>>) = 0
BY DEF Range

\* Whatever is stored, near, drafted, classified, filtered or failed: of a policy
\* answer the user sees only what the guard let out, or what promises nothing
\* (generate of nodes.py, chat.py).
THEOREM OnlyVettedShown == Spec => []ShownIsVetted
<1>1. ASSUME NEW e, EntryFits(e), NEW text \in Range(e.shown)
      PROVE  Vetted(e, text)
  <2>1. e.shown # <<>>
    BY <1>1, RangeNone
  <2>2. PICK x : e.shown = <<x>> /\ Vetted(e, x)
    BY <1>1, <2>1 DEF EntryFits
  <2>3. Range(e.shown) = {x}
    BY <2>2, RangeOne
  <2> QED BY <1>1, <2>2, <2>3
<1>2. ShownInv => ShownIsVetted
  BY <1>1 DEF ShownInv, Runs, ShownIsVetted, Vetted
<1> QED BY <1>2, ShownInvariant, PTL

\* However the tokens of the model calls are filtered, a turn shows one answer at
\* most, and when it ends with [DONE] it has shown it (chat.py, token_sent).
THEOREM OneAnswer == Spec => []OneAnswerShown
<1>1. ASSUME NEW e, EntryFits(e)
      PROVE  /\ Len(e.shown) <= 1
             /\ e.ended = "done" /\ e.domain # "OTHER" => e.shown # <<>>
  <2>1. CASE e.shown = <<>>
    BY <1>1, <2>1, RangeNone DEF EntryFits
  <2>2. ASSUME NEW x, e.shown = <<x>> PROVE Len(e.shown) <= 1 /\ e.shown # <<>>
    BY <2>2, RangeOne
  <2> QED BY <1>1, <2>1, <2>2 DEF EntryFits
<1>2. ShownInv => OneAnswerShown
  BY <1>1 DEF ShownInv, Runs, OneAnswerShown
<1> QED BY <1>2, ShownInvariant, PTL

-----------------------------------------------------------------------------
(* What a step does to the turn it belongs to                              *)

\* The nodes of the graph: they go on with the turn's own messages, add at most
\* one of the assistant, and leave the newest checkpoint with them.
GraphStep(t) ==
  \E r, e :
    /\ IsTurn(r) /\ IsEntry(e)
    /\ turn' = [turn EXCEPT ![t] = r] /\ log' = [log EXCEPT ![turn[t].n] = e]
    /\ turn[t].phase \in Early \ {"prepared"}
    /\ r.phase \in (Early \ {"prepared", "routing"}) \cup {"ran"}
    /\ SameTurn(r, turn[t])
    /\ r.messages \in {turn[t].messages,
                       Append(turn[t].messages, Says("assistant", turn[t].n))}
    /\ r.answer = turn[t].answer \/ r.answer \in Text \cup {None}
    /\ e.shown \in {log[turn[t].n].shown, <<Words>>} /\ e.ended = log[turn[t].n].ended
    /\ turn[t].phase # "routing" => e.domain = log[turn[t].n].domain
    /\ \/ thread' = [messages |-> r.messages, active |-> turn[t].active]
       \/ r.messages = turn[t].messages /\ UNCHANGED thread
    /\ UNCHANGED <<session, transcript, overlapped>>

LEMMA EndNodeSteps ==
  ASSUME Shape, Runs, NEW t \in Turns, turn[t].phase \in Early \ {"prepared"},
         NEW answer \in Text \cup {None}, NEW said \in BOOLEAN,
         NEW after \in {turn[t], Sending(turn[t])}, EndNode(t, after, answer, said),
         NEW e, IsEntry(e), log' = [log EXCEPT ![turn[t].n] = e],
         e.shown \in {log[turn[t].n].shown, <<Words>>}, e.ended = log[turn[t].n].ended,
         e.domain = log[turn[t].n].domain
  PROVE  GraphStep(t)
<1> DEFINE n == turn[t].n
           messages == IF said THEN Append(turn[t].messages, Says("assistant", n))
                       ELSE turn[t].messages
           r == Ended(after, answer, messages)
<1>1. /\ turn' = [turn EXCEPT ![t] = r] /\ UNCHANGED <<session, transcript, overlapped>>
      /\ thread' = [messages |-> messages, active |-> turn[t].active]
  BY DEF EndNode, Checkpoint, Ended
<1>2. messages \in {turn[t].messages, Append(turn[t].messages, Says("assistant", n))}
  OBVIOUS
<1> HIDE DEF messages
<1>3. IsTurn(turn[t])
  BY DEF Shape
<1>4. IsTurn(after) /\ SameTurn(after, turn[t])
  BY <1>3, SendingTurn DEF SameTurn
<1>5. /\ IsTurn(r) /\ r.phase = "ran" /\ SameTurn(r, turn[t])
      /\ r.messages = messages /\ r.answer = answer
  BY <1>4, EndedTurn DEF SameTurn
<1> HIDE DEF r
<1> QED BY <1>1, <1>2, <1>5 DEF GraphStep

LEMMA GraphSteps ==
  ASSUME Shape, Runs, NEW t \in Turns,
         \/ AnswerOrder(t) \/ AnswerRefund(t) \/ AnswerNoEvidence(t) \/ Talk(t)
         \/ Retrieve(t) \/ Generate(t) \/ \E domain \in Domains : Classify(t, domain)
  PROVE  GraphStep(t)
<1> DEFINE n == turn[t].n
<1>1. /\ turn[t].phase \in Early \ {"prepared"} /\ Running(t) /\ n \in Begun
      /\ IsTurn(turn[t]) /\ IsEntry(log[n]) /\ log[n].shown = <<>>
  <2>1. turn[t].phase \in Early \ {"prepared"} /\ Running(t)
    BY DEF AnswerOrder, AnswerRefund, AnswerNoEvidence, Talk, Retrieve, Generate,
           Classify, Early, Running
  <2> QED BY <2>1, Parts DEF RunFits
<1>2. log = [log EXCEPT ![n] = log[n]]
  BY <1>1, LogForms
<1>3. ASSUME NEW answer \in Text \cup {None}, NEW said \in BOOLEAN,
             EndNode(t, turn[t], answer, said), UNCHANGED log
      PROVE  GraphStep(t)
  BY <1>1, <1>2, <1>3, EndNodeSteps
<1>4. CASE AnswerOrder(t) \/ AnswerRefund(t) \/ AnswerNoEvidence(t)
  <2>1. {[kind |-> "order"], [kind |-> "refund"], NoEvidence} \subseteq Text
    BY DEF Text
  <2> QED BY <1>3, <1>4, <2>1 DEF AnswerOrder, AnswerRefund, AnswerNoEvidence
<1>5. CASE Talk(t)
  <2>1. Words \in Text
    BY DEF Text, Words
  <2>2. ASSUME EndNode(t, Streamed(turn[t], {}), Words, TRUE), log' = Shown(n, {}, Words)
        PROVE  GraphStep(t)
    <3>1. Streamed(turn[t], {}) = Sending(turn[t])
      BY Tags DEF Streamed, Sending
    <3>2. log' = [log EXCEPT ![n] = With(log[n], <<Words>>)]
      <4>1. log' = Showing(n, <<Words>>)
        BY <2>2, Tags DEF Shown
      <4>2. Showing(n, <<Words>>) = [log EXCEPT ![n] = With(log[n], log[n].shown \o <<Words>>)]
        BY <1>1, LogForms DEF With
      <4>3. log[n].shown \o <<Words>> = <<Words>>
        BY <1>1, Concatenation
      <4> QED BY <4>1, <4>2, <4>3
    <3>3. PICK e : e = With(log[n], <<Words>>)
      OBVIOUS
    <3>4. /\ IsEntry(e) /\ e.shown = <<Words>> /\ e.ended = log[n].ended
          /\ e.domain = log[n].domain
      BY <1>1, <3>3, EntryForms
    <3> QED BY <1>1, <2>1, <2>2, <3>1, <3>2, <3>3, <3>4, EndNodeSteps
  <2> QED BY <1>3, <1>5, <2>1, <2>2 DEF Talk
<1>6. CASE Retrieve(t)
  <2>1. PICK evidence :
          /\ turn' = [turn EXCEPT ![t].phase = "generating", ![t].evidence = evidence]
          /\ log' = [log EXCEPT ![n].retrieved = AllowedIds(evidence)]
    BY <1>6 DEF Retrieve
  <2>2. PICK r : r = [turn[t] EXCEPT !.phase = "generating", !.evidence = evidence]
    OBVIOUS
  <2>3. PICK e : e = [log[n] EXCEPT !.retrieved = AllowedIds(evidence)]
    OBVIOUS
  <2>4. turn' = [turn EXCEPT ![t] = r] /\ log' = [log EXCEPT ![n] = e]
    BY <1>1, <2>1, <2>2, <2>3 DEF Shape
  <2>5. r.phase = "generating" /\ r.messages = turn[t].messages /\ r.answer = turn[t].answer
    BY <1>1, <2>2 DEF IsTurn
  <2>6. r.n = n /\ r.active = turn[t].active
    BY <1>1, <2>2 DEF IsTurn
  <2>7. r.summary = turn[t].summary /\ r.compacted = turn[t].compacted
    BY <1>1, <2>2 DEF IsTurn
  <2>8. IsTurn(r)
    BY <1>1, <2>2 DEF IsTurn, Phase
  <2>9. IsEntry(e) /\ e.shown = log[n].shown /\ e.ended = log[n].ended /\ e.domain = log[n].domain
    BY <1>1, <2>3 DEF IsEntry
  <2>10. /\ thread' = [messages |-> turn[t].messages, active |-> turn[t].active]
         /\ UNCHANGED <<session, transcript, overlapped>>
    BY <1>6 DEF Retrieve, Checkpoint
  <2>11. "generating" \in Early \ {"prepared", "routing"}
    BY DEF Early
  <2> QED BY <1>1, <2>4, <2>5, <2>6, <2>7, <2>8, <2>9, <2>10, <2>11 DEF GraphStep, SameTurn
<1>7. CASE Generate(t)
  <2>1. Streamed(turn[t], {"policy_guard"}) = turn[t]
    BY Tags DEF Streamed
  <2>2. log' = log
    <3>1. log' = Shown(n, {"policy_guard"}, Internal)
      BY <1>7 DEF Generate
    <3> QED BY <1>1, <3>1, Tags, ShowsNothing
  <2>3. \A d \in Drafts : Verified(d) \in Text
    BY DEF Text
  <2>4. SafeFallback \in Text
    BY DEF Text
  <2>5. ASSUME turn' = [turn EXCEPT ![t] = [turn[t] EXCEPT !.attempt = 1]],
               UNCHANGED <<session, thread, transcript, overlapped>>
        PROVE  GraphStep(t)
    <3>1. PICK r : r = [turn[t] EXCEPT !.attempt = 1]
      OBVIOUS
    <3>2. r.phase = turn[t].phase /\ r.n = n /\ r.active = turn[t].active
      BY <1>1, <3>1 DEF IsTurn
    <3>3. r.summary = turn[t].summary /\ r.compacted = turn[t].compacted
      BY <1>1, <3>1 DEF IsTurn
    <3>4. r.messages = turn[t].messages /\ r.answer = turn[t].answer
      BY <1>1, <3>1 DEF IsTurn
    <3>5. IsTurn(r)
      BY <1>1, <3>1 DEF IsTurn
    <3>6. turn[t].phase \in Early \ {"prepared", "routing"}
      BY <1>7 DEF Generate, Early
    <3>7. turn' = [turn EXCEPT ![t] = r] /\ log' = [log EXCEPT ![n] = log[n]]
      BY <1>2, <2>2, <2>5, <3>1
    <3> QED BY <1>1, <2>5, <3>2, <3>3, <3>4, <3>5, <3>6, <3>7 DEF GraphStep, SameTurn
  <2> QED BY <1>3, <1>7, <2>1, <2>2, <2>3, <2>4, <2>5 DEF Generate
<1>8. ASSUME NEW domain \in Domains, Classify(t, domain) PROVE GraphStep(t)
  <2>1. /\ turn[t].phase = "routing" /\ UNCHANGED <<session, transcript, overlapped>>
        /\ thread' = [messages |-> turn[t].messages, active |-> turn[t].active]
    BY <1>8 DEF Classify, Checkpoint
  <2>2. turn' = [turn EXCEPT ![t] = At(turn[t], Node(domain))]
    BY <1>8, Tags DEF Classify, Streamed, At
  <2>3. log' = [log EXCEPT ![n] = Of(log[n], domain)]
    <3>1. Shown(n, {"internal_llm"}, Internal) = log
      BY <1>1, Tags, ShowsNothing
    <3> QED BY <1>1, <1>8, <3>1 DEF Classify, Of, Shape
  <2>4. Node(domain) \in Phase /\ Node(domain) \in Early \ {"prepared", "routing"}
    BY DEF Node, Phase, Early
  <2>5. PICK r : r = At(turn[t], Node(domain))
    OBVIOUS
  <2>6. PICK e : e = Of(log[n], domain)
    OBVIOUS
  <2>7. /\ IsTurn(r) /\ r.phase = Node(domain) /\ SameTurn(r, turn[t])
        /\ r.messages = turn[t].messages /\ r.answer = turn[t].answer
    BY <1>1, <2>4, <2>5, AtPhase
  <2>8. IsEntry(e) /\ e.shown = log[n].shown /\ e.ended = log[n].ended
    BY <1>1, <2>6, EntryForms
  <2> QED BY <1>1, <2>1, <2>2, <2>3, <2>4, <2>5, <2>6, <2>7, <2>8 DEF GraphStep
<1> QED BY <1>4, <1>5, <1>6, <1>7, <1>8

\* A step of turn t leaves the other turns and their log entries alone.
Frame(t) ==
  /\ \A u \in Turns : u # t => turn'[u] = turn[u]
  /\ turn[t].n \in Begun /\ DOMAIN log' = Begun
  /\ \A k \in Begun : k # turn[t].n => log'[k] = log[k]

LEMMA Framed ==
  ASSUME Shape, NEW t \in Turns, turn[t].n \in Begun, NEW r, IsTurn(r), NEW e, IsEntry(e),
         turn' = [turn EXCEPT ![t] = r], log' = [log EXCEPT ![turn[t].n] = e]
  PROVE  Frame(t) /\ turn'[t] = r /\ log'[turn[t].n] = e
<1>1. turn'[t] = r /\ \A u \in Turns : u # t => turn'[u] = turn[u]
  BY TurnUpdate
<1>2. /\ DOMAIN log' = Begun /\ log'[turn[t].n] = e
      /\ \A k \in Begun : k # turn[t].n => log'[k] = log[k]
  BY LogUpdate
<1> QED BY <1>1, <1>2 DEF Frame

\* The same, of the turn and the entry after the step.
GraphMoves(t) ==
  LET n == turn[t].n IN
  /\ Frame(t) /\ turn[t].phase \in Early \ {"prepared"}
  /\ turn'[t].phase \in (Early \ {"prepared", "routing"}) \cup {"ran"}
  /\ SameTurn(turn'[t], turn[t])
  /\ turn'[t].messages \in {turn[t].messages, Append(turn[t].messages, Says("assistant", n))}
  /\ turn'[t].answer = turn[t].answer \/ turn'[t].answer \in Text \cup {None}
  /\ log'[n].shown \in {log[n].shown, <<Words>>} /\ log'[n].ended = log[n].ended
  /\ turn[t].phase # "routing" => log'[n].domain = log[n].domain
  /\ \/ thread' = [messages |-> turn'[t].messages, active |-> turn[t].active]
     \/ turn'[t].messages = turn[t].messages /\ UNCHANGED thread
  /\ UNCHANGED <<session, transcript, overlapped>>

LEMMA GraphMovesOn ==
  ASSUME Shape, Runs, NEW t \in Turns,
         \/ AnswerOrder(t) \/ AnswerRefund(t) \/ AnswerNoEvidence(t) \/ Talk(t)
         \/ Retrieve(t) \/ Generate(t) \/ \E domain \in Domains : Classify(t, domain)
  PROVE  GraphMoves(t)
<1>1. GraphStep(t)
  BY GraphSteps
<1>2. turn[t].n \in Begun
  BY <1>1, Parts DEF GraphStep, Running, Early
<1>3. PICK r, e :
        /\ IsTurn(r) /\ IsEntry(e)
        /\ turn' = [turn EXCEPT ![t] = r] /\ log' = [log EXCEPT ![turn[t].n] = e]
        /\ turn[t].phase \in Early \ {"prepared"}
        /\ r.phase \in (Early \ {"prepared", "routing"}) \cup {"ran"}
        /\ SameTurn(r, turn[t])
        /\ r.messages \in {turn[t].messages,
                           Append(turn[t].messages, Says("assistant", turn[t].n))}
        /\ r.answer = turn[t].answer \/ r.answer \in Text \cup {None}
        /\ e.shown \in {log[turn[t].n].shown, <<Words>>} /\ e.ended = log[turn[t].n].ended
        /\ turn[t].phase # "routing" => e.domain = log[turn[t].n].domain
        /\ \/ thread' = [messages |-> r.messages, active |-> turn[t].active]
           \/ r.messages = turn[t].messages /\ UNCHANGED thread
        /\ UNCHANGED <<session, transcript, overlapped>>
  BY <1>1 DEF GraphStep
<1>4. /\ IsTurn(r) /\ IsEntry(e)
      /\ turn' = [turn EXCEPT ![t] = r] /\ log' = [log EXCEPT ![turn[t].n] = e]
  BY <1>3
<1>5. Frame(t) /\ turn'[t] = r /\ log'[turn[t].n] = e
  BY <1>2, <1>4, Framed
<1> QED BY <1>3, <1>5 DEF GraphMoves

\* The graph starts from the newest messages and the question.
StartMoves(t) ==
  LET n == turn[t].n  active == turn[t].active IN
  /\ Frame(t) /\ turn[t].phase = "prepared"
  /\ turn'[t].phase \in Early \ {"prepared"}
  /\ turn'[t].phase = "routing" => active = None
  /\ SameTurn(turn'[t], turn[t]) /\ turn'[t].answer = turn[t].answer
  /\ turn'[t].messages = Append(thread.messages, Says("user", n))
  /\ thread' = [messages |-> turn'[t].messages, active |-> active]
  /\ log'[n].shown = log[n].shown /\ log'[n].ended = log[n].ended
  /\ active # None => log'[n].domain = active
  /\ UNCHANGED <<session, transcript, overlapped>>

LEMMA StartMovesOn ==
  ASSUME Shape, Runs, NEW t \in Turns, Start(t)
  PROVE  StartMoves(t)
<1> DEFINE n == turn[t].n
           active == turn[t].active
           domain == IF active = None THEN log[n].domain ELSE active
<1>1. /\ Running(t) /\ n \in Begun /\ IsTurn(turn[t]) /\ IsEntry(log[n])
      /\ turn[t].phase = "prepared"
  <2>1. Running(t) /\ turn[t].phase = "prepared"
    BY DEF Start, Running
  <2> QED BY <2>1, Parts
<1>2. PICK phase : phase = IF active = None THEN "routing" ELSE Node(active)
  OBVIOUS
<1>3. PICK messages : messages = Append(thread.messages, Says("user", n))
  OBVIOUS
<1>4. active \in Actives \cup {None} /\ domain \in Domains
  BY <1>1 DEF IsTurn, IsEntry, Domains
<1>5. /\ phase \in Phase /\ phase \in Early \ {"prepared"}
      /\ phase = "routing" => active = None
  BY <1>2, <1>4 DEF Node, Phase, Early
<1>6. turn' = [turn EXCEPT ![t] = Started(turn[t], messages, phase)]
  <2>1. turn' = [turn EXCEPT ![t] = [turn[t] EXCEPT !.messages = messages, !.phase = phase]]
    BY <1>2, <1>3 DEF Start, Shape
  <2> QED BY <2>1 DEF Started
<1>7. log' = [log EXCEPT ![n] = Of(log[n], domain)]
  BY <1>1 DEF Start, Of, Shape
<1>8. PICK r : r = Started(turn[t], messages, phase)
  OBVIOUS
<1>9. PICK e : e = Of(log[n], domain)
  OBVIOUS
<1>10. /\ IsTurn(r) /\ r.phase = phase /\ SameTurn(r, turn[t])
       /\ r.messages = messages /\ r.answer = turn[t].answer
  BY <1>1, <1>5, <1>8, StartedTurn
<1>11. IsEntry(e) /\ e.shown = log[n].shown /\ e.ended = log[n].ended /\ e.domain = domain
  BY <1>1, <1>4, <1>9, EntryForms
<1>12. /\ thread' = [messages |-> messages, active |-> active]
       /\ UNCHANGED <<session, transcript, overlapped>>
  BY <1>3 DEF Start
<1>13. Frame(t) /\ turn'[t] = r /\ log'[n] = e
  <2>1. turn' = [turn EXCEPT ![t] = r] /\ log' = [log EXCEPT ![n] = e]
    BY <1>6, <1>7, <1>8, <1>9
  <2> QED BY <1>1, <1>10, <1>11, <2>1, Framed, ZenonT(60)
<1> QED BY <1>1, <1>3, <1>5, <1>10, <1>11, <1>12, <1>13 DEF StartMoves

\* After the graph, the newest checkpoint is read, whichever turn wrote it.
ReadMoves(t) ==
  LET n == turn[t].n IN
  /\ Frame(t) /\ turn[t].phase = "ran" /\ turn'[t].phase = "read"
  /\ turn'[t].n = n /\ turn'[t].summary = turn[t].summary
  /\ turn'[t].answer = turn[t].answer
  /\ turn'[t].messages = thread.messages /\ turn'[t].active = thread.active
  /\ \/ log'[n].shown = log[n].shown
     \/ /\ turn[t].answer # None
        /\ log'[n].shown = log[n].shown \o <<turn[t].answer>>
  /\ log'[n].ended = log[n].ended /\ log'[n].domain = log[n].domain
  /\ UNCHANGED <<session, thread, transcript, overlapped>>

LEMMA ReadMovesOn ==
  ASSUME Shape, Runs, NEW t \in Turns, ReadState(t)
  PROVE  ReadMoves(t)
<1> DEFINE n == turn[t].n
<1>1. /\ Running(t) /\ n \in Begun /\ IsTurn(turn[t]) /\ IsEntry(log[n])
      /\ RunFits(turn[t], log[n]) /\ turn[t].phase = "ran"
  <2>1. Running(t) /\ turn[t].phase = "ran"
    BY DEF ReadState, Running
  <2> QED BY <2>1, Parts
<1>2. PICK shown : shown = log[n].shown \o IF Push(t) THEN <<turn[t].answer>> ELSE <<>>
  OBVIOUS
<1>3. PICK e : e = With(log[n], shown)
  OBVIOUS
<1>4. log' = [log EXCEPT ![n] = e]
  <2>1. log' = Showing(n, IF Push(t) THEN <<turn[t].answer>> ELSE <<>>)
    BY DEF ReadState
  <2> QED BY <1>1, <1>2, <1>3, <2>1, LogForms DEF With
<1>5. \/ shown = log[n].shown
      \/ turn[t].answer # None /\ shown = log[n].shown \o <<turn[t].answer>>
  <2>1. CASE Push(t)
    BY <1>2, <2>1 DEF Push
  <2>2. CASE ~Push(t)
    <3>1. log[n].shown \in {<<>>, <<Words>>}
      BY <1>1 DEF RunFits
    <3>2. <<Words>> \o <<>> = <<Words>>
      OBVIOUS
    <3> QED BY <1>2, <2>2, <3>1, <3>2, Concatenation
  <2> QED BY <2>1, <2>2, SMTT(30)
<1>6. IsEntry(e) /\ e.shown = shown /\ e.ended = log[n].ended /\ e.domain = log[n].domain
  BY <1>1, <1>3, EntryForms
<1>7. PICK sent \in BOOLEAN : sent <=> turn[t].sent \/ Push(t)
  OBVIOUS
<1>8. PICK r : r = [turn[t] EXCEPT !.phase = "read", !.sent = sent,
                      !.messages = thread.messages, !.active = thread.active,
                      !.evidence = <<>>]
  OBVIOUS
<1>9. turn' = [turn EXCEPT ![t] = r]
  <2>1. sent = (turn[t].sent \/ Push(t))
    BY <1>1, <1>7 DEF IsTurn, Push
  <2> QED BY <1>8, <2>1 DEF ReadState, Shape
<1>10. IsTurn(r)
  BY <1>1, <1>7, <1>8 DEF IsTurn, Phase, Shape
<1>11. r.phase = "read" /\ r.n = n /\ r.summary = turn[t].summary
  BY <1>1, <1>8 DEF IsTurn
<1>12. r.messages = thread.messages /\ r.active = thread.active /\ r.answer = turn[t].answer
  BY <1>1, <1>8 DEF IsTurn
<1>13. UNCHANGED <<session, thread, transcript, overlapped>>
  BY DEF ReadState
<1>14. Frame(t) /\ turn'[t] = r /\ log'[n] = e
  BY <1>1, <1>4, <1>6, <1>9, <1>10, Framed
<1> QED BY <1>1, <1>5, <1>6, <1>11, <1>12, <1>13, <1>14 DEF ReadMoves

\* persist_turn writes the active domain and the summary of the turn.
PersistMoves(t) ==
  /\ Frame(t) /\ turn[t].phase = "read" /\ turn'[t].phase = "persisted"
  /\ turn'[t].n = turn[t].n /\ turn'[t].summary = turn[t].summary
  /\ turn'[t].answer = turn[t].answer /\ turn'[t].messages = turn[t].messages
  /\ turn'[t].active = turn[t].active
  /\ session'.summary \in Summaries(turn[t].summary, turn[t].messages)
  /\ turn'[t].compacted => UserTurns(turn[t].messages) \subseteq session'.summary
  /\ session' = [active |-> session'.active, summary |-> session'.summary]
  /\ session'.active \in Actives \cup {None}
  /\ UNCHANGED <<thread, transcript, log, overlapped>>

LEMMA PersistMovesOn ==
  ASSUME Shape, Runs, NEW t \in Turns, Persist(t)
  PROVE  PersistMoves(t)
<1> DEFINE n == turn[t].n
<1>1. /\ Running(t) /\ n \in Begun /\ IsTurn(turn[t]) /\ IsEntry(log[n])
      /\ turn[t].phase = "read"
  <2>1. Running(t) /\ turn[t].phase = "read"
    BY DEF Persist, Running
  <2> QED BY <2>1, Parts
<1>2. PICK summary \in Summaries(turn[t].summary, turn[t].messages),
           active \in ActivesAfter(t), compacted \in BOOLEAN :
        /\ compacted => UserTurns(turn[t].messages) \subseteq summary
        /\ session' = [active |-> active, summary |-> summary]
        /\ turn' = [turn EXCEPT ![t].phase = "persisted", ![t].compacted = compacted]
  BY DEF Persist
<1>3. PICK r : r = [turn[t] EXCEPT !.phase = "persisted", !.compacted = compacted]
  OBVIOUS
<1>4. turn' = [turn EXCEPT ![t] = r]
  BY <1>2, <1>3 DEF Shape
<1>5. IsTurn(r)
  BY <1>1, <1>3 DEF IsTurn, Phase
<1>6. r.phase = "persisted" /\ r.n = n /\ r.summary = turn[t].summary
  BY <1>1, <1>3 DEF IsTurn
<1>7. r.answer = turn[t].answer /\ r.messages = turn[t].messages /\ r.active = turn[t].active
  BY <1>1, <1>3 DEF IsTurn
<1>8. r.compacted = compacted
  BY <1>1, <1>3 DEF IsTurn
<1>9. UNCHANGED <<thread, transcript, log, overlapped>>
  BY DEF Persist
<1>10. Frame(t) /\ turn'[t] = r
  <2>1. PICK e : e = log[n]
    OBVIOUS
  <2>2. log' = [log EXCEPT ![n] = e] /\ IsEntry(e)
    BY <1>1, <1>9, <2>1, LogForms
  <2>3. IsTurn(r) /\ n \in Begun
    BY <1>1, <1>5
  <2> QED BY <1>4, <2>2, <2>3, Framed
<1>11. /\ session'.summary = summary
       /\ session'.active \in ActivesAfter(t)
       /\ session' = [active |-> session'.active, summary |-> session'.summary]
  BY <1>2
<1>12. session'.active \in Actives \cup {None}
  BY <1>1, <1>11 DEF ActivesAfter, IsTurn, Shape
<1> QED BY <1>1, <1>2, <1>6, <1>7, <1>8, <1>9, <1>10, <1>11, <1>12 DEF PersistMoves

\* append_messages leaves all but the rows and the phase.
AppendMoves(t) ==
  /\ AppendRows(t)
  /\ Frame(t) /\ turn[t].phase = "persisted" /\ turn'[t].phase = "appended"
  /\ SameTurn(turn'[t], turn[t]) /\ turn'[t].messages = turn[t].messages
  /\ turn'[t].answer = turn[t].answer
  /\ UNCHANGED <<session, thread, log, overlapped>>

LEMMA AppendMovesOn ==
  ASSUME Shape, Runs, NEW t \in Turns, AppendRows(t)
  PROVE  AppendMoves(t)
<1> DEFINE n == turn[t].n
<1>1. /\ Running(t) /\ n \in Begun /\ IsTurn(turn[t]) /\ IsEntry(log[n])
      /\ turn[t].phase = "persisted"
  <2>1. Running(t) /\ turn[t].phase = "persisted"
    BY DEF AppendRows, Running
  <2> QED BY <2>1, Parts
<1>2. PICK r : r = At(turn[t], "appended")
  OBVIOUS
<1>3. turn' = [turn EXCEPT ![t] = r]
  BY <1>2 DEF AppendRows, At
<1>4. /\ IsTurn(r) /\ r.phase = "appended" /\ SameTurn(r, turn[t])
      /\ r.messages = turn[t].messages /\ r.answer = turn[t].answer
  BY <1>1, <1>2, AtPhase DEF Phase
<1>5. UNCHANGED <<session, thread, log, overlapped>>
  BY DEF AppendRows
<1>6. Frame(t) /\ turn'[t] = r
  <2>1. log' = [log EXCEPT ![n] = log[n]]
    BY <1>1, <1>5, LogForms
  <2> QED BY <1>1, <1>3, <1>4, <2>1, Framed
<1> QED BY <1>1, <1>4, <1>5, <1>6 DEF AppendMoves

\* The end of a turn, with [DONE] or without.
EndMoves(t) ==
  LET n == turn[t].n IN
  /\ Frame(t) /\ Running(t) /\ turn'[t] = Idle
  /\ log'[n].shown = log[n].shown /\ log'[n].domain = log[n].domain
  /\ \/ /\ turn[t].phase = "appended" /\ log'[n].ended = "done"
        /\ \/ UNCHANGED thread
           \/ /\ turn[t].compacted
              /\ thread' = [messages |-> Retained(turn[t].messages),
                            active |-> thread.active]
     \/ log'[n].ended = "failed" /\ UNCHANGED thread
  /\ UNCHANGED <<session, transcript, overlapped>>

LEMMA EndMovesOn ==
  ASSUME Shape, Runs, NEW t \in Turns, Finish(t) \/ Fail(t)
  PROVE  EndMoves(t)
<1> DEFINE n == turn[t].n
<1>1. /\ Running(t) /\ n \in Begun /\ IsEntry(log[n])
  <2>1. Running(t)
    BY DEF Finish, Fail, Running
  <2> QED BY <2>1, Parts
<1>2. IsTurn(Idle) /\ turn' = [turn EXCEPT ![t] = Idle]
  BY DEF IsTurn, Idle, Phase, Finish, Fail
<1>3. PICK ended : /\ log' = EndedAs(log, n, ended)
                   /\ \/ Finish(t) /\ ended = "done"
                      \/ Fail(t) /\ ended = "failed"
  <2>1. CASE Finish(t)
    <3>1. log' = EndedAs(log, n, "done")
      BY <2>1 DEF Finish, EndedAs
    <3> QED BY <2>1, <3>1
  <2>2. CASE Fail(t)
    <3>1. log' = EndedAs(log, n, "failed")
      BY <2>2 DEF Fail, EndedAs
    <3> QED BY <2>2, <3>1
  <2> QED BY <2>1, <2>2
<1>4. PICK e : e = [log[n] EXCEPT !.ended = ended]
  OBVIOUS
<1>5. log' = [log EXCEPT ![n] = e]
  BY <1>3, <1>4 DEF Shape, EndedAs
<1>6. /\ IsEntry(e) /\ e.shown = log[n].shown /\ e.domain = log[n].domain
      /\ e.ended = ended
  BY <1>1, <1>4 DEF IsEntry
<1>7. Frame(t) /\ turn'[t] = Idle /\ log'[n] = e
  BY <1>1, <1>2, <1>5, <1>6, Framed
<1>8. UNCHANGED <<session, transcript, overlapped>>
  BY DEF Finish, Fail
<1>9. CASE Finish(t) /\ ended = "done"
  <2>1. \/ UNCHANGED thread
        \/ /\ turn[t].compacted
           /\ thread' = [messages |-> Retained(turn[t].messages), active |-> thread.active]
    <3>1. \/ UNCHANGED thread
          \/ /\ turn[t].compacted
             /\ thread' = [thread EXCEPT !.messages = Retained(turn[t].messages)]
      BY <1>9 DEF Finish
    <3>2. \A x : [thread EXCEPT !.messages = x] = [messages |-> x, active |-> thread.active]
      BY DEF Shape
    <3> QED BY <3>1, <3>2
  <2>2. turn[t].phase = "appended"
    BY <1>9 DEF Finish
  <2> QED BY <1>1, <1>6, <1>7, <1>8, <1>9, <2>1, <2>2 DEF EndMoves
<1>10. CASE Fail(t) /\ ended = "failed"
  <2>1. UNCHANGED thread
    BY <1>10 DEF Fail
  <2> QED BY <1>1, <1>6, <1>7, <1>8, <1>10, <2>1 DEF EndMoves
<1> QED BY <1>3, <1>9, <1>10

\* A new turn works on a snapshot of the session.
BeginMoves(t) ==
  \E n :
    /\ n \in 1 .. MaxTurns /\ Begun = 1 .. (n - 1)
    /\ ~Running(t) /\ \A u \in Turns : u # t => turn'[u] = turn[u]
    /\ turn'[t].phase = "prepared" /\ turn'[t].n = n
    /\ turn'[t].summary = session.summary
    /\ turn'[t].messages = <<>> /\ turn'[t].answer = None
    /\ DOMAIN log' = 1 .. n /\ \A k \in Begun : log'[k] = log[k]
    /\ log'[n].shown = <<>> /\ log'[n].ended = "no"
    /\ overlapped' = (overlapped \/ \E u \in Turns : Running(u))
    /\ UNCHANGED <<session, thread, transcript>>

LEMMA BeginMovesOn ==
  ASSUME Shape, Runs, NEW t \in Turns, NEW domain \in Domains, Prepare(t, domain)
  PROVE  BeginMoves(t)
<1>1. PICK k \in Nat : Begun = 1 .. k
  BY DEF Shape
<1>2. Cardinality(Begun) = k
  BY <1>1, IntervalSize
<1>3. PICK n : n = k + 1
  OBVIOUS
<1>4. n \in 1 .. MaxTurns /\ Begun = 1 .. (n - 1)
  BY <1>1, <1>2, <1>3 DEF Prepare
<1>5. PICK e : e = [domain |-> "OTHER", shown |-> <<>>, retrieved |-> {}, ended |-> "no"]
  OBVIOUS
<1>6. log' = [m \in Begun \cup {n} |-> IF m = n THEN e ELSE log[m]]
  BY <1>2, <1>3, <1>5 DEF Prepare
<1>7. PICK r : r = [Idle EXCEPT !.phase = "prepared", !.n = n,
                      !.active = ActiveDomain(domain), !.summary = session.summary]
  OBVIOUS
<1>8. turn' = [turn EXCEPT ![t] = r]
  BY <1>2, <1>3, <1>7 DEF Prepare
<1>9. /\ r.phase = "prepared" /\ r.n = n /\ r.summary = session.summary
      /\ r.messages = <<>> /\ r.answer = None
  BY <1>7 DEF Idle
<1>10. turn'[t] = r /\ \A u \in Turns : u # t => turn'[u] = turn[u]
  BY <1>8 DEF Shape
<1>11. /\ ~Running(t) /\ UNCHANGED <<session, thread, transcript>>
       /\ overlapped' = (overlapped \/ \E u \in Turns : Running(u))
  BY DEF Prepare, Running
<1>12. /\ DOMAIN log' = 1 .. n /\ log'[n] = e
       /\ \A m \in Begun : log'[m] = log[m]
  <2>1. Begun \cup {n} = 1 .. n
    BY <1>4
  <2>2. n \notin Begun
    BY <1>4
  <2> QED BY <1>6, <2>1, <2>2
<1>13. e.shown = <<>> /\ e.ended = "no"
  BY <1>5
<1> QED BY <1>4, <1>9, <1>10, <1>11, <1>12, <1>13 DEF BeginMoves

\* A step is one of these, of some turn.
Moves(t) ==
  \/ BeginMoves(t) \/ StartMoves(t) \/ GraphMoves(t) \/ ReadMoves(t)
  \/ PersistMoves(t) \/ AppendMoves(t) \/ EndMoves(t)

LEMMA StepsMove ==
  ASSUME Shape, Runs, Next
  PROVE  \E t \in Turns : Moves(t)
<1>1. CASE \E t \in Turns, domain \in Domains : Prepare(t, domain) \/ Classify(t, domain)
  BY <1>1, BeginMovesOn, GraphMovesOn DEF Moves
<1>2. ASSUME NEW t \in Turns, Graph(t) PROVE Moves(t)
  <2>1. CASE Start(t)
    BY <2>1, StartMovesOn DEF Moves
  <2>2. CASE ~Start(t)
    BY <1>2, <2>2, GraphMovesOn DEF Graph, Moves
  <2> QED BY <2>1, <2>2
<1>3. ASSUME NEW t \in Turns, ReadState(t) \/ Persist(t) \/ AppendRows(t) PROVE Moves(t)
  BY <1>3, ReadMovesOn, PersistMovesOn, AppendMovesOn DEF Moves
<1>4. ASSUME NEW t \in Turns, Finish(t) \/ Fail(t) PROVE Moves(t)
  BY <1>4, EndMovesOn DEF Moves
<1> QED BY <1>1, <1>2, <1>3, <1>4 DEF Next

-----------------------------------------------------------------------------
(* The messages of a thread                                                *)

Users(messages) == {i \in DOMAIN messages : messages[i].by = "user"}

LEMMA MessagesAre ==
  ASSUME NEW messages \in Seq(Message)
  PROVE  /\ DOMAIN messages = 1 .. Len(messages) /\ Len(messages) \in Nat
         /\ Users(messages) \in SUBSET (1 .. Len(messages))
         /\ IsFiniteSet(Users(messages)) /\ Cardinality(Users(messages)) \in Nat
         /\ \A i \in DOMAIN messages : messages[i] \in Message
         /\ UserTurns(messages) = {messages[i].turn : i \in Users(messages)}
         /\ UserTurns(messages) \in SUBSET (1 .. MaxTurns)
<1>1. /\ DOMAIN messages = 1 .. Len(messages) /\ Len(messages) \in Nat
      /\ \A i \in DOMAIN messages : messages[i] \in Message
  OBVIOUS
<1>2. Users(messages) \in SUBSET (1 .. Len(messages))
  BY <1>1 DEF Users
<1>3. IsFiniteSet(Users(messages)) /\ Cardinality(Users(messages)) \in Nat
  <2>1. IsFiniteSet(1 .. Len(messages))
    BY <1>1, IntervalSize
  <2>2. IsFiniteSet(Users(messages))
    BY <1>2, <2>1, FS_Subset
  <2> QED BY <2>2, FS_CardinalityType
<1>4. UserTurns(messages) = {messages[i].turn : i \in Users(messages)}
  BY DEF UserTurns, Users
<1>5. UserTurns(messages) \in SUBSET (1 .. MaxTurns)
  BY <1>1, <1>2, <1>4 DEF Message
<1> QED BY <1>1, <1>2, <1>3, <1>4, <1>5

\* From the m-th message on.
From(messages, m) == SubSeq(messages, m, Len(messages))

LEMMA FromIs ==
  ASSUME NEW messages \in Seq(Message), NEW m \in Nat \ {0}, m <= Len(messages) + 1
  PROVE  /\ From(messages, m) \in Seq(Message)
         /\ Len(From(messages, m)) = Len(messages) - m + 1
         /\ \A i \in 1 .. Len(messages) - m + 1 :
              From(messages, m)[i] = messages[m + i - 1]
<1>1. PICK n \in Nat : n = Len(messages)
  OBVIOUS
<1>2. \A i \in m .. n : messages[i] \in Message
  BY <1>1
<1>3. m \in Int /\ n \in Int
  BY <1>1
<1>4. /\ SubSeq(messages, m, n) \in Seq(Message)
      /\ Len(SubSeq(messages, m, n)) = IF m <= n THEN n - m + 1 ELSE 0
      /\ \A i \in 1 .. n - m + 1 : SubSeq(messages, m, n)[i] = messages[m + i - 1]
  BY <1>2, <1>3, SubSeqProperties
<1>5. m <= n \/ n - m + 1 = 0
  BY <1>1
<1> QED BY <1>1, <1>4, <1>5 DEF From

\* What the compaction keeps: all messages from some m on, and after every
\* question before it come more than Retain questions, itself included.
Later(messages, i) == {j \in Users(messages) : j >= i}

LEMMA RetainedIs ==
  ASSUME NEW messages \in Seq(Message)
  PROVE  \E m \in Nat \ {0} :
           /\ m <= Len(messages) + 1 /\ Retained(messages) = From(messages, m)
           /\ \A i \in Users(messages) : i < m => Cardinality(Later(messages, i)) > Retain
<1> DEFINE users == Users(messages)
           from == {i \in users : Cardinality(Later(messages, i)) <= Retain}
<1>1. /\ Len(messages) \in Nat /\ users \in SUBSET (1 .. Len(messages)) /\ IsFiniteSet(users)
      /\ DOMAIN messages = 1 .. Len(messages) /\ Cardinality(users) \in Nat
  BY MessagesAre
<1>2. Retained(messages) = IF Cardinality(users) <= Retain THEN messages
                           ELSE From(messages, Min(from))
  BY DEF Retained, Users, Later, From
<1>3. \A i \in users : Cardinality(Later(messages, i)) \in Nat
  <2> SUFFICES ASSUME NEW i \in users PROVE Cardinality(Later(messages, i)) \in Nat
    OBVIOUS
  <2>1. Later(messages, i) \subseteq users
    BY DEF Later
  <2> QED BY <1>1, <2>1, FS_Subset, FS_CardinalityType
<1>4. CASE Cardinality(users) <= Retain
  <2>1. messages = From(messages, 1)
    <3>1. 1 \in Nat \ {0} /\ 1 <= Len(messages) + 1 /\ Len(messages) - 1 + 1 = Len(messages)
      BY <1>1
    <3>2. /\ From(messages, 1) \in Seq(Message)
          /\ Len(From(messages, 1)) = Len(messages)
          /\ \A i \in 1 .. Len(messages) : From(messages, 1)[i] = messages[1 + i - 1]
      BY <3>1, FromIs
    <3>3. \A i \in 1 .. Len(messages) : From(messages, 1)[i] = messages[i]
      <4>1. \A i \in 1 .. Len(messages) : 1 + i - 1 = i
        BY <1>1
      <4> QED BY <3>2, <4>1
    <3> QED BY <3>2, <3>3, SeqEqual
  <2>2. Retained(messages) = From(messages, 1)
    BY <1>2, <1>4, <2>1
  <2>3. 1 <= Len(messages) + 1 /\ \A i \in users : ~(i < 1)
    BY <1>1
  <2> QED BY <2>2, <2>3
<1>5. CASE ~(Cardinality(users) <= Retain)
  <2>1. users # {}
    <3> SUFFICES ASSUME users = {} PROVE FALSE
      OBVIOUS
    <3>1. Cardinality(users) = 0
      BY FS_EmptySet
    <3> HIDE DEF users
    <3> QED BY <1>5, <3>1
  <2>2. PICK last \in users : \A k \in users : k <= last
    BY <1>1, <2>1, GreatestElement
  <2>3. Later(messages, last) = {last}
    BY <1>1, <2>2 DEF Later
  <2>4. Cardinality(Later(messages, last)) = 1
    BY <2>3, FS_Singleton
  <2>5. from \in SUBSET Nat /\ last \in from
    BY <1>1, <2>4
  <2>6. Min(from) \in from /\ \A k \in from : Min(from) <= k
    BY <2>5, LeastElement
  <2> HIDE DEF from, users
  <2>7. PICK m : m = Min(from)
    OBVIOUS
  <2>8. m \in users /\ m \in 1 .. Len(messages)
    BY <1>1, <2>6, <2>7 DEF from
  <2>9. ASSUME NEW i \in users, i < m
        PROVE  Cardinality(Later(messages, i)) > Retain
    <3>1. i \notin from
      BY <1>1, <2>6, <2>7, <2>8, <2>9
    <3> QED BY <1>3, <3>1 DEF from
  <2>10. Retained(messages) = From(messages, m)
    BY <1>2, <1>5, <2>7
  <2>11. m \in Nat \ {0} /\ m <= Len(messages) + 1
    BY <1>1, <2>8
  <2> QED BY <2>9, <2>10, <2>11 DEF users
<1> QED BY <1>4, <1>5

-----------------------------------------------------------------------------
(* Types                                                                   *)

Row == [turn : Begun, text : Text \cup {None}]

TypesFit ==
  /\ session = [active |-> session.active, summary |-> session.summary]
  /\ session.summary \in SUBSET (1 .. MaxTurns)
  /\ thread.messages \in Seq(Message)
  /\ transcript \in Seq(Row)
  /\ Begun \subseteq 1 .. MaxTurns
  /\ \A t \in Turns : /\ turn[t].n \in 0 .. MaxTurns
                      /\ turn[t].answer \in Text \cup {None}
                      /\ turn[t].messages \in Seq(Message)
                      /\ turn[t].summary \in SUBSET (1 .. MaxTurns)
  /\ \A n \in Begun : /\ log[n].shown \in Seq(Text)
                      /\ log[n].ended \in {"no", "done", "failed"}

\* The turn that steps, and the log, checkpoint and session it leaves.
LEMMA TypesFrame ==
  ASSUME Shape, TypesFit, NEW t \in Turns, Frame(t),
         turn'[t].n \in 0 .. MaxTurns, turn'[t].answer \in Text \cup {None},
         turn'[t].messages \in Seq(Message), turn'[t].summary \in SUBSET (1 .. MaxTurns),
         log'[turn[t].n].shown \in Seq(Text),
         log'[turn[t].n].ended \in {"no", "done", "failed"},
         thread'.messages \in Seq(Message), UNCHANGED transcript,
         session' = [active |-> session'.active, summary |-> session'.summary],
         session'.summary \in SUBSET (1 .. MaxTurns)
  PROVE  TypesFit'
<1>1. Begun' = Begun
  BY DEF Frame, Begun
<1>2. Row' = Row
  BY <1>1 DEF Row
<1>3. \A n \in Begun : /\ log'[n].shown \in Seq(Text)
                       /\ log'[n].ended \in {"no", "done", "failed"}
  BY DEF Frame, TypesFit
<1>4. \A u \in Turns : /\ turn'[u].n \in 0 .. MaxTurns
                       /\ turn'[u].answer \in Text \cup {None}
                       /\ turn'[u].messages \in Seq(Message)
                       /\ turn'[u].summary \in SUBSET (1 .. MaxTurns)
  BY DEF Frame, TypesFit
<1>5. transcript' \in Seq(Row') /\ Begun' \subseteq 1 .. MaxTurns
  BY <1>1, <1>2 DEF TypesFit
<1> QED BY <1>1, <1>3, <1>4, <1>5 DEF TypesFit

LEMMA Extends ==
  ASSUME NEW S, NEW s \in Seq(S), NEW x \in S
  PROVE  Append(s, x) \in Seq(S) /\ s \o <<x>> \in Seq(S) /\ <<x>> \in Seq(S) /\ <<>> \in Seq(S)
OBVIOUS

LEMMA TypesStay ==
  ASSUME Shape, Runs, TypesFit, NEW t \in Turns, Moves(t)
  PROVE  TypesFit'
<1> DEFINE n == turn[t].n
<1>1. /\ session = [active |-> session.active, summary |-> session.summary]
      /\ session.summary \in SUBSET (1 .. MaxTurns) /\ thread.messages \in Seq(Message)
      /\ n \in 0 .. MaxTurns /\ turn[t].answer \in Text \cup {None}
      /\ turn[t].messages \in Seq(Message) /\ turn[t].summary \in SUBSET (1 .. MaxTurns)
  BY DEF TypesFit
<1>2. n \in Begun => /\ log[n].shown \in Seq(Text) /\ n \in 1 .. MaxTurns
                     /\ log[n].ended \in {"no", "done", "failed"}
  BY DEF TypesFit
<1>3. \A by \in {"user", "assistant"} : \A m \in 1 .. MaxTurns : Says(by, m) \in Message
  BY DEF Says, Message
<1>4. <<Words>> \in Seq(Text)
  <2>1. Words \in Text
    BY DEF Words, Text
  <2> QED BY <2>1, EmptySeq, Extends
<1>5. CASE BeginMoves(t)
  <2>1. PICK m :
          /\ m \in 1 .. MaxTurns /\ Begun = 1 .. (m - 1)
          /\ ~Running(t) /\ \A u \in Turns : u # t => turn'[u] = turn[u]
          /\ turn'[t].phase = "prepared" /\ turn'[t].n = m
          /\ turn'[t].summary = session.summary
          /\ turn'[t].messages = <<>> /\ turn'[t].answer = None
          /\ DOMAIN log' = 1 .. m /\ \A k \in Begun : log'[k] = log[k]
          /\ log'[m].shown = <<>> /\ log'[m].ended = "no"
          /\ overlapped' = (overlapped \/ \E u \in Turns : Running(u))
          /\ UNCHANGED <<session, thread, transcript>>
    BY <1>5 DEF BeginMoves
  <2>2. \A k \in 1 .. m : k \in Begun \/ k = m
    BY <2>1
  <2>3. Begun' = 1 .. m /\ Begun \subseteq Begun'
    BY <2>1 DEF Begun
  <2>4. transcript' \in Seq(Row')
    <3>1. Row \subseteq Row'
      BY <2>3 DEF Row
    <3> QED BY <2>1, <3>1, SeqMonotonic DEF TypesFit
  <2>5. \A k \in Begun' : /\ log'[k].shown \in Seq(Text)
                          /\ log'[k].ended \in {"no", "done", "failed"}
    BY <2>1, <2>2, <2>3, EmptySeq, ZenonT(60) DEF TypesFit
  <2>6. \A u \in Turns : /\ turn'[u].n \in 0 .. MaxTurns
                         /\ turn'[u].answer \in Text \cup {None}
                         /\ turn'[u].messages \in Seq(Message)
                         /\ turn'[u].summary \in SUBSET (1 .. MaxTurns)
    <3> SUFFICES ASSUME NEW u \in Turns
                 PROVE  /\ turn'[u].n \in 0 .. MaxTurns
                        /\ turn'[u].answer \in Text \cup {None}
                        /\ turn'[u].messages \in Seq(Message)
                        /\ turn'[u].summary \in SUBSET (1 .. MaxTurns)
      OBVIOUS
    <3>1. CASE u = t
      <4>1. turn'[t].messages \in Seq(Message)
        BY <2>1, EmptySeq
      <4>2. turn'[t].n \in 0 .. MaxTurns /\ turn'[t].answer \in Text \cup {None}
        BY <2>1
      <4>3. turn'[t].summary \in SUBSET (1 .. MaxTurns)
        BY <1>1, <2>1
      <4> QED BY <3>1, <4>1, <4>2, <4>3
    <3>2. CASE u # t
      BY <2>1, <3>2 DEF TypesFit
    <3> QED BY <3>1, <3>2
  <2>7. Begun' \subseteq 1 .. MaxTurns
    BY <2>1, <2>3
  <2> QED BY <1>1, <2>1, <2>4, <2>5, <2>6, <2>7 DEF TypesFit
<1>6. CASE StartMoves(t)
  <2>1. turn'[t].messages \in Seq(Message) /\ n \in Begun
    BY <1>1, <1>2, <1>3, <1>6, Extends DEF StartMoves, Frame
  <2> QED BY <1>1, <1>2, <1>6, <2>1, TypesFrame DEF StartMoves, SameTurn
<1>7. CASE GraphMoves(t)
  <2>1. n \in Begun /\ Frame(t)
    BY <1>7 DEF GraphMoves, Frame
  <2>2. Append(turn[t].messages, Says("assistant", n)) \in Seq(Message)
    BY <1>1, <1>2, <1>3, <2>1, Extends
  <2>3. turn'[t].messages \in Seq(Message)
    BY <1>1, <1>7, <2>2 DEF GraphMoves
  <2>4. log'[n].shown \in Seq(Text) /\ log'[n].ended \in {"no", "done", "failed"}
    BY <1>2, <1>4, <1>7, <2>1 DEF GraphMoves
  <2>5. /\ turn'[t].n \in 0 .. MaxTurns /\ turn'[t].answer \in Text \cup {None}
        /\ turn'[t].summary \in SUBSET (1 .. MaxTurns)
    BY <1>1, <1>7 DEF GraphMoves, SameTurn
  <2>6. thread'.messages \in Seq(Message) /\ UNCHANGED <<session, transcript>>
    BY <1>1, <1>7, <2>3, SMTT(30) DEF GraphMoves
  <2> QED BY <1>1, <2>1, <2>3, <2>4, <2>5, <2>6, TypesFrame
<1>8. CASE ReadMoves(t)
  <2>1. n \in Begun
    BY <1>8, ZenonT(60) DEF ReadMoves, Frame
  <2>2. log'[n].shown \in Seq(Text)
    BY <1>1, <1>2, <1>8, <2>1, Extends DEF ReadMoves
  <2> QED BY <1>1, <1>2, <1>8, <2>1, <2>2, TypesFrame, ZenonT(60) DEF ReadMoves
<1>9. CASE PersistMoves(t)
  <2>1. n \in Begun
    BY <1>9 DEF PersistMoves, Frame
  <2>2. session'.summary \in SUBSET (1 .. MaxTurns)
    BY <1>1, <1>9, MessagesAre DEF PersistMoves, Summaries
  <2> QED BY <1>1, <1>2, <1>9, <2>1, <2>2, TypesFrame DEF PersistMoves
<1>10. CASE AppendMoves(t)
  <2>1. n \in Begun /\ UNCHANGED <<session, thread, log, overlapped>>
    BY <1>10 DEF AppendMoves, Frame
  <2>2. Row' = Row /\ Begun' = Begun
    BY <2>1 DEF Row, Begun
  <2>3. FinalAnswer(t) \in Text \cup {None}
    BY DEF FinalAnswer, Text, Words, Placeholder
  <2>4. transcript' \in Seq(Row')
    <3>1. /\ [turn |-> n, text |-> None] \in Row
          /\ [turn |-> n, text |-> FinalAnswer(t)] \in Row
      BY <2>1, <2>3 DEF Row
    <3>2. PICK a, b : /\ a \in Row /\ b \in Row
                      /\ transcript' = transcript \/ transcript' = transcript \o <<a, b>>
      BY <1>10, <3>1 DEF AppendMoves, AppendRows
    <3>3. <<a, b>> \in Seq(Row) /\ transcript \in Seq(Row)
      BY <3>2 DEF TypesFit
    <3>4. transcript \o <<a, b>> \in Seq(Row)
      BY <3>3, ConcatProperties
    <3> QED BY <2>2, <3>2, <3>3, <3>4
  <2>5. \A u \in Turns : /\ turn'[u].n \in 0 .. MaxTurns
                         /\ turn'[u].answer \in Text \cup {None}
                         /\ turn'[u].messages \in Seq(Message)
                         /\ turn'[u].summary \in SUBSET (1 .. MaxTurns)
    BY <1>10 DEF AppendMoves, Frame, SameTurn, TypesFit
  <2> QED BY <2>1, <2>2, <2>4, <2>5 DEF TypesFit
<1>11. CASE EndMoves(t)
  <2>1. n \in Begun
    BY <1>11 DEF EndMoves, Frame
  <2>2. thread'.messages \in Seq(Message)
    <3>1. Retained(turn[t].messages) \in Seq(Message)
      BY <1>1, RetainedIs, FromIs
    <3> QED BY <1>1, <1>11, <3>1 DEF EndMoves
  <2>3. /\ Idle.n \in 0 .. MaxTurns /\ Idle.answer \in Text \cup {None}
        /\ Idle.messages \in Seq(Message) /\ Idle.summary \in SUBSET (1 .. MaxTurns)
    BY EmptySeq DEF Idle
  <2> QED BY <1>1, <1>2, <1>11, <2>1, <2>2, <2>3, TypesFrame DEF EndMoves
<1> QED BY <1>5, <1>6, <1>7, <1>8, <1>9, <1>10, <1>11 DEF Moves

LEMMA TypesInvariant == Spec => []TypesFit
<1>1. Init => TypesFit
  <2> SUFFICES ASSUME Init PROVE TypesFit
    OBVIOUS
  <2>1. \A t \in Turns : turn[t] = Idle
    BY DEF Init
  <2>2. /\ Idle.n \in 0 .. MaxTurns /\ Idle.answer \in Text \cup {None}
        /\ Idle.messages \in Seq(Message) /\ Idle.summary \in SUBSET (1 .. MaxTurns)
    BY EmptySeq DEF Idle
  <2>3. Begun = {}
    BY DEF Init, Begun
  <2>4. transcript \in Seq(Row) /\ thread.messages \in Seq(Message)
    BY EmptySeq DEF Init
  <2>5. /\ session = [active |-> session.active, summary |-> session.summary]
        /\ session.summary \in SUBSET (1 .. MaxTurns)
    BY DEF Init
  <2> QED BY <2>1, <2>2, <2>3, <2>4, <2>5 DEF TypesFit
<1>2. ShownInv /\ TypesFit /\ [Next]_vars => TypesFit'
  <2>1. ASSUME UNCHANGED vars, TypesFit PROVE TypesFit'
    BY <2>1 DEF vars, TypesFit, Row, Begun
  <2>2. ASSUME ShownInv, TypesFit, Next PROVE TypesFit'
    BY <2>2, StepsMove, TypesStay DEF ShownInv
  <2> QED BY <2>1, <2>2
<1> QED BY <1>1, <1>2, ShownInvariant, PTL DEF Spec

\* A turn, its messages and the log keep their types, whatever the model, the
\* client or a failure does.
THEOREM TypeCorrect == Spec => []TypeOK
<1>1. ShownInv /\ TypesFit => TypeOK
  <2> SUFFICES ASSUME Shape, TypesFit PROVE TypeOK
    BY DEF ShownInv
  <2>1. session \in [active : Actives \cup {None}, summary : SUBSET (1 .. MaxTurns)]
    BY DEF Shape, TypesFit
  <2>2. \A i \in DOMAIN transcript : transcript[i] \in Row
    BY DEF TypesFit
  <2>3. \A t \in Turns : turn[t].phase \in Phase
    BY DEF Shape, IsTurn
  <2> QED BY <2>1, <2>2, <2>3 DEF Shape, TypesFit, TypeOK, Row
<1> QED BY <1>1, ShownInvariant, TypesInvariant, PTL

-----------------------------------------------------------------------------
(* The questions in the messages of a thread                               *)

\* Each question is of a turn that was begun, and of a later one than those
\* before it.
Ordered(messages) ==
  /\ \A i \in Users(messages) : messages[i].turn \in Begun
  /\ \A i, j \in Users(messages) : i < j => messages[i].turn < messages[j].turn

LEMMA AnswerAdded ==
  ASSUME NEW messages \in Seq(Message), NEW n \in 1 .. MaxTurns
  PROVE  LET longer == Append(messages, Says("assistant", n)) IN
         /\ UserTurns(longer) = UserTurns(messages)
         /\ Ordered(messages) => Ordered(longer)
<1>1. PICK longer, last : /\ last = Says("assistant", n) /\ longer = Append(messages, last)
  OBVIOUS
<1>2. last \in Message /\ last.by = "assistant"
  BY <1>1 DEF Says, Message
<1>3. /\ longer \in Seq(Message) /\ Len(longer) = Len(messages) + 1
      /\ \A i \in 1 .. Len(messages) : longer[i] = messages[i]
      /\ longer[Len(messages) + 1] = last
  BY <1>1, <1>2, AppendProperties
<1>4. /\ Len(messages) \in Nat /\ DOMAIN longer = 1 .. Len(messages) + 1
      /\ DOMAIN messages = 1 .. Len(messages)
  BY <1>3, LenProperties
<1>5. Users(longer) = Users(messages)
  BY <1>2, <1>3, <1>4 DEF Users
<1>6. \A i \in Users(messages) : longer[i] = messages[i]
  BY <1>3, <1>4 DEF Users
<1>7. UserTurns(longer) = UserTurns(messages)
  <2>1. /\ UserTurns(longer) = {longer[i].turn : i \in Users(longer)}
        /\ UserTurns(messages) = {messages[i].turn : i \in Users(messages)}
    BY <1>3, MessagesAre
  <2> QED BY <1>5, <1>6, <2>1
<1>8. Ordered(messages) => Ordered(longer)
  <2> SUFFICES ASSUME Ordered(messages) PROVE Ordered(longer)
    OBVIOUS
  <2>1. \A i \in Users(longer) : longer[i].turn \in Begun
    BY <1>5, <1>6 DEF Ordered
  <2>2. \A i, j \in Users(longer) : i < j => longer[i].turn < longer[j].turn
    BY <1>5, <1>6 DEF Ordered
  <2> QED BY <2>1, <2>2 DEF Ordered
<1> QED BY <1>1, <1>7, <1>8

LEMMA QuestionAdded ==
  ASSUME NEW messages \in Seq(Message), NEW n \in 1 .. MaxTurns,
         \A k \in UserTurns(messages) : k < n, n \in Begun, Ordered(messages)
  PROVE  LET longer == Append(messages, Says("user", n)) IN
         UserTurns(longer) = UserTurns(messages) \cup {n} /\ Ordered(longer)
<1>1. PICK longer, last : /\ last = Says("user", n) /\ longer = Append(messages, last)
  OBVIOUS
<1>2. last \in Message /\ last.by = "user" /\ last.turn = n
  BY <1>1 DEF Says, Message
<1>3. /\ longer \in Seq(Message) /\ Len(longer) = Len(messages) + 1
      /\ \A i \in 1 .. Len(messages) : longer[i] = messages[i]
      /\ longer[Len(messages) + 1] = last
  BY <1>1, <1>2, AppendProperties
<1>4. /\ Len(messages) \in Nat /\ DOMAIN longer = 1 .. Len(messages) + 1
      /\ DOMAIN messages = 1 .. Len(messages)
  BY <1>3, LenProperties
<1>5. Users(longer) = Users(messages) \cup {Len(messages) + 1}
  BY <1>2, <1>3, <1>4 DEF Users
<1>6. \A i \in Users(messages) : longer[i] = messages[i] /\ i \in 1 .. Len(messages)
  BY <1>3, <1>4 DEF Users
<1>7. /\ UserTurns(longer) = {longer[i].turn : i \in Users(longer)}
      /\ UserTurns(messages) = {messages[i].turn : i \in Users(messages)}
  BY <1>3, MessagesAre
<1>8. UserTurns(longer) = UserTurns(messages) \cup {n}
  BY <1>2, <1>3, <1>5, <1>6, <1>7
<1>9. \A i \in Users(messages) : messages[i].turn < n
  BY <1>7
<1>10. \A i \in Users(longer) : longer[i].turn \in Begun
  BY <1>2, <1>3, <1>5, <1>6 DEF Ordered
<1>11. ASSUME NEW i \in Users(longer), NEW j \in Users(longer), i < j
       PROVE  longer[i].turn < longer[j].turn
  <2>1. i \in Users(messages)
    BY <1>4, <1>5, <1>6, <1>11
  <2>2. CASE j \in Users(messages)
    BY <1>6, <1>11, <2>1, <2>2 DEF Ordered
  <2>3. CASE j = Len(messages) + 1
    BY <1>2, <1>3, <1>6, <1>9, <2>1, <2>3
  <2> QED BY <1>5, <2>2, <2>3
<1> QED BY <1>1, <1>8, <1>10, <1>11 DEF Ordered

\* The questions from the m-th message on, and those cut off.
LEMMA QuestionsFrom ==
  ASSUME NEW messages \in Seq(Message), NEW m \in Nat \ {0}, m <= Len(messages) + 1,
         Ordered(messages)
  PROVE  /\ Ordered(From(messages, m))
         /\ UserTurns(From(messages, m)) \subseteq UserTurns(messages)
         /\ \A i \in Users(messages) : i >= m => messages[i].turn \in UserTurns(From(messages, m))
<1>1. PICK rest, shorter : /\ rest = From(messages, m) /\ shorter = Len(messages) - m + 1
  OBVIOUS
<1>2. Len(messages) \in Nat /\ shorter \in Nat /\ DOMAIN messages = 1 .. Len(messages)
  BY <1>1, LenProperties
<1>3. /\ rest \in Seq(Message) /\ Len(rest) = shorter /\ DOMAIN rest = 1 .. shorter
      /\ \A i \in 1 .. shorter : rest[i] = messages[m + i - 1]
  BY <1>1, FromIs, LenProperties
<1>4. \A i \in 1 .. shorter : m + i - 1 \in 1 .. Len(messages)
  BY <1>1, <1>2
<1>5. \A i \in Users(rest) : m + i - 1 \in Users(messages) /\ i \in 1 .. shorter
  BY <1>2, <1>3, <1>4 DEF Users
<1>6. ASSUME NEW i \in Users(messages), i >= m
      PROVE  i - m + 1 \in Users(rest) /\ rest[i - m + 1] = messages[i]
  <2>1. i \in 1 .. Len(messages) /\ messages[i].by = "user"
    BY <1>2 DEF Users
  <2>2. i - m + 1 \in 1 .. shorter /\ m + (i - m + 1) - 1 = i
    BY <1>1, <1>2, <1>6, <2>1
  <2> QED BY <1>3, <2>1, <2>2 DEF Users
<1>7. /\ UserTurns(rest) = {rest[i].turn : i \in Users(rest)}
      /\ UserTurns(messages) = {messages[i].turn : i \in Users(messages)}
  BY <1>3, MessagesAre
<1>8. \A i \in Users(rest) : rest[i].turn \in Begun
  BY <1>3, <1>5 DEF Ordered
<1>9. ASSUME NEW i \in Users(rest), NEW j \in Users(rest), i < j
      PROVE  rest[i].turn < rest[j].turn
  <2>1. m + i - 1 < m + j - 1
    BY <1>2, <1>5, <1>9
  <2> QED BY <1>3, <1>5, <2>1 DEF Ordered
<1>10. UserTurns(rest) \subseteq UserTurns(messages)
  BY <1>3, <1>5, <1>7
<1>11. \A i \in Users(messages) : i >= m => messages[i].turn \in UserTurns(rest)
  BY <1>6, <1>7
<1> QED BY <1>1, <1>8, <1>9, <1>10, <1>11 DEF Ordered

\* The turns from the k-th on, one for every question from that of k on.
Since(k) == {j \in Begun : j >= k}

LEMMA OneTurnEach ==
  ASSUME Shape, NEW messages \in Seq(Message), Ordered(messages), NEW i \in Users(messages)
  PROVE  Cardinality(Later(messages, i)) <= Cardinality(Since(messages[i].turn))
<1> DEFINE S == Later(messages, i)
           T == Since(messages[i].turn)
           f == [j \in S |-> messages[j].turn]
<1>1. /\ Users(messages) \in SUBSET (1 .. Len(messages)) /\ IsFiniteSet(Users(messages))
      /\ Len(messages) \in Nat /\ DOMAIN messages = 1 .. Len(messages)
      /\ \A j \in DOMAIN messages : messages[j] \in Message
  BY MessagesAre
<1>2. \A j \in Users(messages) : j \in Nat /\ messages[j].turn \in Nat
  BY <1>1 DEF Message
<1>3. IsFiniteSet(S) /\ Cardinality(S) \in Nat
  <2>1. S \in SUBSET Users(messages)
    BY DEF Later
  <2> QED BY <1>1, <2>1, FS_Subset, FS_CardinalityType
<1>4. IsFiniteSet(T) /\ Cardinality(T) \in Nat
  <2>1. PICK k \in Nat : Begun = 1 .. k
    BY DEF Shape
  <2>2. IsFiniteSet(1 .. k)
    BY <2>1, IntervalSize
  <2>3. T \in SUBSET (1 .. k)
    BY <2>1 DEF Since
  <2> QED BY <2>2, <2>3, FS_Subset, FS_CardinalityType
<1>5. f \in [S -> T]
  <2> SUFFICES ASSUME NEW j \in S PROVE messages[j].turn \in T
    OBVIOUS
  <2>1. j \in Users(messages) /\ (i < j \/ i = j)
    BY <1>2 DEF Later
  <2>2. messages[j].turn >= messages[i].turn
    BY <1>2, <2>1 DEF Ordered
  <2> QED BY <2>1, <2>2 DEF Ordered, Since
<1>6. \A x, y \in S : x # y => f[x] # f[y]
  <2> SUFFICES ASSUME NEW x \in S, NEW y \in S, x # y PROVE f[x] # f[y]
    OBVIOUS
  <2>1. x \in Users(messages) /\ y \in Users(messages) /\ (x < y \/ y < x)
    BY <1>2 DEF Later
  <2> QED BY <1>2, <2>1 DEF Ordered
<1>7. ~(Cardinality(T) < Cardinality(S))
  <2> HIDE DEF S, T, f
  <2> QED BY <1>3, <1>4, <1>5, <1>6, FS_PigeonHole
<1> HIDE DEF S, T
<1>8. Cardinality(S) <= Cardinality(T)
  BY <1>3, <1>4, <1>7
<1> QED BY <1>8 DEF S, T

LEMMA MoreSince ==
  ASSUME Shape, Shape', Begun \subseteq Begun'
  PROVE  \A k \in Nat : /\ Cardinality(Since(k)) \in Nat
                        /\ Cardinality(Since(k)) <= Cardinality(Since(k)')
<1> SUFFICES ASSUME NEW k \in Nat
             PROVE  /\ Cardinality(Since(k)) \in Nat
                    /\ Cardinality(Since(k)) <= Cardinality({j \in Begun' : j >= k})
  BY DEF Since
<1>1. PICK m \in Nat : Begun' = 1 .. m
  BY DEF Shape
<1>2. IsFiniteSet(1 .. m)
  BY IntervalSize
<1>3. PICK T : T = {j \in Begun' : j >= k}
  OBVIOUS
<1>4. T \in SUBSET (1 .. m) /\ IsFiniteSet(T) /\ Since(k) \in SUBSET T
  <2>1. T \in SUBSET (1 .. m) /\ Since(k) \in SUBSET T
    BY <1>1, <1>3 DEF Since
  <2> QED BY <1>2, <2>1, FS_Subset
<1>5. IsFiniteSet(Since(k)) /\ Cardinality(Since(k)) <= Cardinality(T)
  BY <1>4, FS_Subset
<1> QED BY <1>3, <1>5, FS_CardinalityType

-----------------------------------------------------------------------------
(* Turns that never overlap                                                *)

\* The message of turn n is in the thread, or in the summary and far behind.
Remembered(n) ==
  \/ n \in UserTurns(thread.messages)
  \/ n \in session.summary /\ Cardinality(Since(n)) > Retain

Written == {"persisted", "appended"}

\* The running turn works on the newest messages and on the session's summary,
\* its question is the last, and what it compacts its summary was made with.
AloneFits(r, e) ==
  /\ r.phase = "prepared" => \A k \in UserTurns(thread.messages) : k < r.n
  /\ r.phase # "prepared" =>
       /\ r.messages = thread.messages /\ r.active = thread.active
       /\ r.n \in UserTurns(thread.messages)
       /\ r.active # None => e.domain = r.active
  /\ r.phase = "routing" => r.active = None
  /\ r.phase \notin Written => r.summary = session.summary
  /\ r.phase \in Written /\ r.compacted => UserTurns(thread.messages) \subseteq session.summary

Alone ==
  /\ \A t, u \in Turns : Running(t) /\ Running(u) => t = u
  /\ Ordered(thread.messages)
  /\ \A t \in Turns : Running(t) => AloneFits(turn[t], log[turn[t].n])
  /\ \A n \in Begun : log[n].ended = "done" => Remembered(n)

\* As long as no two turns overlap.
HistoryFits == overlapped \/ Alone

LEMMA AloneFrame ==
  ASSUME Shape, Shape', TypesFit, Alone, NEW t \in Turns, Running(t), Frame(t),
         Ordered(thread.messages)', NEW n, n = turn[t].n,
         NEW r, r = turn'[t], NEW e, e = log'[n],
         r.phase # "idle" => r.n = n /\ AloneFits(r, e)',
         \A k \in Begun : Remembered(k) => Remembered(k)',
         e.ended = "done" => Remembered(n)'
  PROVE  Alone'
<1>1. \A u \in Turns : turn'[u].phase # "idle" => u = t
  BY DEF Alone, Running, Frame
<1>2. \A u, v \in Turns : turn'[u].phase # "idle" /\ turn'[v].phase # "idle" => u = v
  BY <1>1
<1>3. ASSUME NEW u \in Turns, turn'[u].phase # "idle"
      PROVE  AloneFits(turn[u], log[turn[u].n])'
  <2>1. u = t /\ r.n = n /\ AloneFits(r, e)'
    BY <1>1, <1>3
  <2>2. turn'[u] = r /\ log'[turn'[u].n] = e
    BY <2>1
  <2> QED BY <2>1, <2>2
<1>4. ASSUME NEW k \in Begun', log'[k].ended = "done" PROVE Remembered(k)'
  <2>1. k \in Begun
    BY DEF Frame, Begun
  <2>2. CASE k = n
    BY <1>4, <2>2
  <2>3. CASE k # n
    <3>1. log'[k] = log[k]
      BY <2>1, <2>3 DEF Frame
    <3>2. Remembered(k)
      BY <1>4, <2>1, <3>1 DEF Alone
    <3> QED BY <2>1, <3>2
  <2> QED BY <2>2, <2>3
<1> QED BY <1>2, <1>3, <1>4 DEF Alone, Running

LEMMA StillRemembered ==
  ASSUME Shape, Shape', TypesFit, Begun \subseteq Begun', NEW k \in Begun, Remembered(k),
         UserTurns(thread.messages) \subseteq UserTurns(thread'.messages),
         session.summary \subseteq session'.summary
  PROVE  Remembered(k)'
<1>1. CASE k \in UserTurns(thread.messages)
  BY <1>1 DEF Remembered
<1>2. CASE k \in session.summary /\ Cardinality(Since(k)) > Retain
  <2>1. k \in Nat
    BY DEF Shape
  <2>2. PICK a, b : a = Cardinality(Since(k)) /\ b = Cardinality(Since(k)')
    OBVIOUS
  <2>3. b > Retain
    <3>1. a \in Nat /\ a <= b /\ a > Retain
      BY <1>2, <2>1, <2>2, MoreSince
    <3>2. b \in Int
      <4>1. PICK m \in Nat : Begun' = 1 .. m
        BY DEF Shape
      <4>2. IsFiniteSet(1 .. m)
        BY IntervalSize
      <4>3. Since(k)' \in SUBSET (1 .. m)
        BY <4>1 DEF Since
      <4>4. Cardinality(Since(k)') \in Nat
        BY <4>2, <4>3, FS_Subset, FS_CardinalityType
      <4> QED BY <2>2, <4>4
    <3> QED BY <3>1, <3>2
  <2> QED BY <1>2, <2>2, <2>3 DEF Remembered
<1> QED BY <1>1, <1>2 DEF Remembered

LEMMA AloneBegins ==
  ASSUME Shape, Shape', TypesFit, Alone, ~overlapped', NEW t \in Turns, BeginMoves(t)
  PROVE  Alone'
<1>1. PICK m :
        /\ m \in 1 .. MaxTurns /\ Begun = 1 .. (m - 1)
        /\ ~Running(t) /\ \A u \in Turns : u # t => turn'[u] = turn[u]
        /\ turn'[t].phase = "prepared" /\ turn'[t].n = m
        /\ turn'[t].summary = session.summary
        /\ turn'[t].messages = <<>> /\ turn'[t].answer = None
        /\ DOMAIN log' = 1 .. m /\ \A k \in Begun : log'[k] = log[k]
        /\ log'[m].shown = <<>> /\ log'[m].ended = "no"
        /\ overlapped' = (overlapped \/ \E u \in Turns : Running(u))
        /\ UNCHANGED <<session, thread, transcript>>
  BY DEF BeginMoves
<1>2. \A u \in Turns : ~Running(u)
  BY <1>1
<1>3. \A u \in Turns : turn'[u].phase # "idle" => u = t
  BY <1>1, <1>2 DEF Running
<1>4. Begun' = 1 .. m /\ Begun \subseteq Begun'
  BY <1>1 DEF Begun
<1>5. thread.messages \in Seq(Message) /\ Ordered(thread.messages)
  BY DEF TypesFit, Alone
<1>6. \A k \in UserTurns(thread.messages) : k < m
  <2>1. \A k \in UserTurns(thread.messages) : k \in Begun
    BY <1>5, MessagesAre DEF Ordered
  <2> QED BY <1>1, <2>1
<1>7. Ordered(thread.messages)'
  BY <1>1, <1>4, <1>5 DEF Ordered
<1>8. AloneFits(turn[t], log[turn[t].n])'
  BY <1>1, <1>6 DEF AloneFits, Written
<1>9. ASSUME NEW k \in Begun', log'[k].ended = "done" PROVE Remembered(k)'
  <2>1. k \in Begun
    BY <1>1, <1>4, <1>9
  <2>2. Remembered(k)
    BY <1>1, <1>9, <2>1 DEF Alone
  <2> QED BY <1>1, <1>4, <2>1, <2>2, StillRemembered
<1> QED BY <1>3, <1>7, <1>8, <1>9 DEF Alone, Running

LEMMA AloneStarts ==
  ASSUME Shape, Shape', Runs, TypesFit, Alone, NEW t \in Turns, StartMoves(t)
  PROVE  Alone'
<1>1. PICK n, r, e : n = turn[t].n /\ r = turn'[t] /\ e = log'[n]
  OBVIOUS
<1>2. /\ turn[t].phase = "prepared" /\ Frame(t) /\ Running(t) /\ n \in Begun
      /\ r.phase \in Early \ {"prepared"} /\ (r.phase = "routing" => turn[t].active = None)
      /\ r.n = n /\ r.active = turn[t].active /\ r.summary = turn[t].summary
      /\ r.messages = Append(thread.messages, Says("user", n))
      /\ thread' = [messages |-> r.messages, active |-> turn[t].active]
      /\ e.ended = log[n].ended /\ (r.active # None => e.domain = r.active)
      /\ UNCHANGED session
  BY <1>1 DEF StartMoves, SameTurn, Frame, Running
<1>3. /\ thread.messages \in Seq(Message) /\ n \in 1 .. MaxTurns
      /\ Ordered(thread.messages) /\ AloneFits(turn[t], log[n])
  BY <1>1, <1>2 DEF TypesFit, Alone
<1>4. (\A k \in UserTurns(thread.messages) : k < n) /\ turn[t].summary = session.summary
  BY <1>1, <1>2, <1>3 DEF AloneFits, Written
<1>5. UserTurns(r.messages) = UserTurns(thread.messages) \cup {n} /\ Ordered(r.messages)
  BY <1>2, <1>3, <1>4, QuestionAdded
<1>6. Begun' = Begun
  BY <1>2 DEF Frame, Begun
<1>7. Ordered(thread.messages)'
  BY <1>2, <1>5, <1>6 DEF Ordered
<1>8. AloneFits(r, e)'
  <2>1. r.phase \notin Written
    BY <1>2 DEF Early, Written
  <2> QED BY <1>2, <1>4, <1>5, <2>1 DEF AloneFits
<1>9. \A k \in Begun : Remembered(k) => Remembered(k)'
  BY <1>2, <1>5, <1>6, StillRemembered
<1>10. log[n].ended = "no"
  BY <1>1, <1>2 DEF Runs, RunFits
<1> QED BY <1>1, <1>2, <1>7, <1>8, <1>9, <1>10, AloneFrame

LEMMA AloneRuns ==
  ASSUME Shape, Shape', Runs, TypesFit, Alone, NEW t \in Turns, GraphMoves(t)
  PROVE  Alone'
<1>1. PICK n, r, e : n = turn[t].n /\ r = turn'[t] /\ e = log'[n]
  OBVIOUS
<1>2. /\ turn[t].phase \in Early \ {"prepared"} /\ Frame(t) /\ Running(t) /\ n \in Begun
      /\ r.phase \in (Early \ {"prepared", "routing"}) \cup {"ran"}
      /\ r.n = n /\ r.active = turn[t].active /\ r.summary = turn[t].summary
      /\ r.messages \in {turn[t].messages, Append(turn[t].messages, Says("assistant", n))}
      /\ \/ thread' = [messages |-> r.messages, active |-> turn[t].active]
         \/ r.messages = turn[t].messages /\ UNCHANGED thread
      /\ e.ended = log[n].ended /\ (turn[t].phase # "routing" => e.domain = log[n].domain)
      /\ UNCHANGED session
  BY <1>1 DEF GraphMoves, SameTurn, Frame, Running, Early
<1>3. /\ thread.messages \in Seq(Message) /\ n \in 1 .. MaxTurns
      /\ Ordered(thread.messages) /\ AloneFits(turn[t], log[n])
  BY <1>1, <1>2 DEF TypesFit, Alone
<1>4. /\ turn[t].messages = thread.messages /\ turn[t].active = thread.active
      /\ n \in UserTurns(thread.messages) /\ turn[t].summary = session.summary
      /\ turn[t].active # None => log[n].domain = turn[t].active
      /\ turn[t].phase = "routing" => turn[t].active = None
  BY <1>1, <1>2, <1>3 DEF AloneFits, Written, Early
<1>5. /\ thread'.messages = r.messages /\ thread'.active = r.active
      /\ UserTurns(r.messages) = UserTurns(thread.messages) /\ Ordered(r.messages)
  <2>1. PICK longer : longer = Append(thread.messages, Says("assistant", n))
    OBVIOUS
  <2>2. UserTurns(longer) = UserTurns(thread.messages) /\ Ordered(longer)
    BY <1>3, <2>1, AnswerAdded
  <2>3. r.messages = thread.messages \/ r.messages = longer
    BY <1>2, <1>4, <2>1
  <2>4. thread'.messages = r.messages /\ thread'.active = r.active
    BY <1>2, <1>4
  <2> QED BY <1>3, <2>2, <2>3, <2>4
<1>6. Begun' = Begun
  BY <1>2 DEF Frame, Begun
<1>7. Ordered(thread.messages)'
  BY <1>3, <1>5, <1>6 DEF Ordered
<1>8. AloneFits(r, e)'
  <2>1. r.phase \notin Written /\ r.phase # "prepared" /\ r.phase # "routing"
    BY <1>2 DEF Early, Written
  <2> QED BY <1>2, <1>4, <1>5, <2>1 DEF AloneFits
<1>9. \A k \in Begun : Remembered(k) => Remembered(k)'
  BY <1>2, <1>5, <1>6, StillRemembered
<1>10. log[n].ended = "no"
  BY <1>1, <1>2 DEF Runs, RunFits
<1> QED BY <1>1, <1>2, <1>7, <1>8, <1>9, <1>10, AloneFrame

LEMMA AloneReads ==
  ASSUME Shape, Shape', Runs, TypesFit, Alone, NEW t \in Turns,
         ReadMoves(t) \/ PersistMoves(t) \/ AppendMoves(t)
  PROVE  Alone'
<1>1. PICK n, r, e : n = turn[t].n /\ r = turn'[t] /\ e = log'[n]
  BY Zenon
<1>2. /\ turn[t].phase \in {"ran", "read", "persisted"} /\ Frame(t) /\ Running(t) /\ n \in Begun
      /\ r.n = n /\ r.summary = turn[t].summary /\ UNCHANGED thread
      /\ r.messages \in {turn[t].messages, thread.messages}
      /\ r.active \in {turn[t].active, thread.active}
      /\ e.ended = log[n].ended /\ e.domain = log[n].domain
  BY <1>1 DEF ReadMoves, PersistMoves, AppendMoves, SameTurn, Frame, Running
<1>3. /\ thread.messages \in Seq(Message) /\ n \in 1 .. MaxTurns
      /\ Ordered(thread.messages) /\ AloneFits(turn[t], log[n])
  BY <1>1, <1>2 DEF TypesFit, Alone
<1>4. /\ turn[t].messages = thread.messages /\ turn[t].active = thread.active
      /\ n \in UserTurns(thread.messages)
      /\ turn[t].active # None => log[n].domain = turn[t].active
  BY <1>1, <1>2, <1>3 DEF AloneFits
<1>5. Begun' = Begun
  BY <1>2 DEF Frame, Begun
<1>6. Ordered(thread.messages)'
  BY <1>2, <1>3, <1>5 DEF Ordered
<1>7. /\ session.summary \subseteq session'.summary
      /\ r.phase \in {"read", "persisted", "appended"}
      /\ r.phase = "read" => r.summary = session'.summary
      /\ r.phase \in Written /\ r.compacted =>
           UserTurns(thread.messages) \subseteq session'.summary
  <2>1. CASE ReadMoves(t)
    <3>1. r.phase = "read" /\ turn[t].phase = "ran" /\ UNCHANGED session
      BY <1>1, <2>1 DEF ReadMoves
    <3> QED BY <1>2, <1>3, <3>1, SMTT(30) DEF AloneFits, Written
  <2>2. CASE PersistMoves(t)
    <3>1. /\ r.phase = "persisted" /\ turn[t].phase = "read"
          /\ session'.summary \in Summaries(turn[t].summary, turn[t].messages)
          /\ r.compacted => UserTurns(turn[t].messages) \subseteq session'.summary
      BY <1>1, <2>2 DEF PersistMoves
    <3>2. turn[t].summary = session.summary
      BY <1>3, <3>1 DEF AloneFits, Written
    <3>3. session.summary \subseteq session'.summary
      BY <3>1, <3>2 DEF Summaries
    <3> QED BY <1>4, <3>1, <3>3
  <2>3. CASE AppendMoves(t)
    <3>1. /\ r.phase = "appended" /\ turn[t].phase = "persisted" /\ UNCHANGED session
          /\ r.compacted = turn[t].compacted
      BY <1>1, <2>3 DEF AppendMoves, SameTurn
    <3> QED BY <1>3, <3>1 DEF AloneFits, Written
  <2> QED BY <2>1, <2>2, <2>3
<1>8. AloneFits(r, e)'
  BY <1>2, <1>4, <1>7 DEF AloneFits, Written
<1>9. \A k \in Begun : Remembered(k) => Remembered(k)'
  BY <1>2, <1>5, <1>7, StillRemembered
<1>10. log[n].ended = "no"
  BY <1>1, <1>2 DEF Runs, RunFits
<1> QED BY <1>1, <1>2, <1>6, <1>8, <1>9, <1>10, AloneFrame

\* The compaction cuts off only questions with more than Retain turns since,
\* which the summary was made with.
LEMMA AloneEnds ==
  ASSUME Shape, Shape', Runs, TypesFit, Alone, NEW t \in Turns, EndMoves(t)
  PROVE  Alone'
<1>1. PICK n, r, e : n = turn[t].n /\ r = turn'[t] /\ e = log'[n]
  OBVIOUS
<1>2. /\ Frame(t) /\ Running(t) /\ n \in Begun /\ r = Idle
      /\ \/ /\ turn[t].phase = "appended" /\ e.ended = "done"
            /\ \/ UNCHANGED thread
               \/ /\ turn[t].compacted
                  /\ thread' = [messages |-> Retained(turn[t].messages),
                                active |-> thread.active]
         \/ e.ended = "failed" /\ UNCHANGED thread
      /\ UNCHANGED session
  BY <1>1 DEF EndMoves, Frame
<1>3. /\ thread.messages \in Seq(Message) /\ n \in 1 .. MaxTurns
      /\ Ordered(thread.messages) /\ AloneFits(turn[t], log[n])
  BY <1>1, <1>2 DEF TypesFit, Alone
<1>4. Begun' = Begun /\ r.phase = "idle"
  BY <1>2 DEF Frame, Begun, Idle
<1>5. Since(n)' = Since(n) /\ \A k : Since(k)' = Since(k)
  BY <1>4 DEF Since
<1>6. /\ Ordered(thread'.messages)
      /\ \A k \in UserTurns(thread.messages) :
           \/ k \in UserTurns(thread'.messages)
           \/ k \in session.summary /\ Cardinality(Since(k)) > Retain
  <2>1. CASE UNCHANGED thread
    BY <1>3, <2>1
  <2>2. CASE /\ turn[t].phase = "appended" /\ turn[t].compacted
             /\ thread' = [messages |-> Retained(turn[t].messages), active |-> thread.active]
    <3>1. /\ turn[t].messages = thread.messages
          /\ UserTurns(thread.messages) \subseteq session.summary
      BY <1>3, <2>2 DEF AloneFits, Written
    <3>2. PICK messages : messages = thread.messages
      OBVIOUS
    <3>3. messages \in Seq(Message) /\ Ordered(messages)
      BY <1>3, <3>2
    <3>4. PICK m \in Nat \ {0} :
            /\ m <= Len(messages) + 1 /\ Retained(messages) = From(messages, m)
            /\ \A i \in Users(messages) : i < m => Cardinality(Later(messages, i)) > Retain
      BY <3>3, RetainedIs
    <3>5. /\ Ordered(From(messages, m))
          /\ \A i \in Users(messages) :
               i >= m => messages[i].turn \in UserTurns(From(messages, m))
      BY <3>3, <3>4, QuestionsFrom
    <3>6. thread'.messages = From(messages, m)
      BY <2>2, <3>1, <3>2, <3>4
    <3>7. ASSUME NEW i \in Users(messages)
          PROVE  \/ messages[i].turn \in UserTurns(thread'.messages)
                 \/ Cardinality(Since(messages[i].turn)) > Retain
      <4>1. i \in Nat
        BY <3>3, MessagesAre
      <4>2. CASE i >= m
        BY <3>5, <3>6, <4>2
      <4>3. CASE i < m
        <5>1. PICK a, b : /\ a = Cardinality(Later(messages, i))
                          /\ b = Cardinality(Since(messages[i].turn))
          OBVIOUS
        <5>2. a > Retain /\ a <= b
          BY <3>3, <3>4, <4>3, <5>1, OneTurnEach
        <5>3. a \in Nat /\ b \in Nat
          <6>1. messages[i].turn \in Nat
            <7>1. i \in DOMAIN messages
              BY DEF Users
            <7>2. messages[i] \in Message
              BY <3>3, <7>1, MessagesAre
            <7> QED BY <7>2 DEF Message
          <6>2. b \in Nat
            BY <1>4, <5>1, <6>1, MoreSince
          <6>3. IsFiniteSet(Users(messages)) /\ Later(messages, i) \in SUBSET Users(messages)
            BY <3>3, MessagesAre DEF Later
          <6> QED BY <5>1, <6>2, <6>3, FS_Subset, FS_CardinalityType
        <5>4. b > Retain
          BY <5>2, <5>3
        <5> QED BY <5>1, <5>4
      <4> QED BY <4>1, <4>2, <4>3
    <3>8. \A k \in UserTurns(messages) : \E i \in Users(messages) : k = messages[i].turn
      BY <3>3, MessagesAre
    <3>9. \A k \in UserTurns(messages) : \/ k \in UserTurns(thread'.messages)
                                         \/ Cardinality(Since(k)) > Retain
      BY <3>7, <3>8
    <3> QED BY <3>1, <3>2, <3>5, <3>6, <3>9
  <2> QED BY <1>2, <2>1, <2>2
<1>7. Ordered(thread.messages)'
  BY <1>4, <1>6 DEF Ordered
<1>8. \A k \in Begun : Remembered(k) => Remembered(k)'
  BY <1>2, <1>5, <1>6 DEF Remembered
<1>9. e.ended = "done" => Remembered(n)'
  <2> SUFFICES ASSUME e.ended = "done" PROVE Remembered(n)'
    OBVIOUS
  <2>1. turn[t].phase = "appended"
    BY <1>2
  <2>2. n \in UserTurns(thread.messages)
    BY <1>1, <1>3, <2>1 DEF AloneFits
  <2> QED BY <1>2, <1>5, <1>6, <2>2 DEF Remembered
<1> QED BY <1>1, <1>2, <1>4, <1>7, <1>8, <1>9, AloneFrame

LEMMA HistoryStays ==
  ASSUME Shape, Shape', Runs, TypesFit, HistoryFits, NEW t \in Turns, Moves(t)
  PROVE  HistoryFits'
<1> SUFFICES ASSUME ~overlapped' PROVE Alone'
  BY DEF HistoryFits
<1>1. CASE BeginMoves(t)
  <2>1. ~overlapped
    BY <1>1 DEF BeginMoves
  <2> QED BY <1>1, <2>1, AloneBegins DEF HistoryFits
<1>2. CASE ~BeginMoves(t)
  <2>1. UNCHANGED overlapped
    BY <1>2 DEF Moves, StartMoves, GraphMoves, ReadMoves, PersistMoves, AppendMoves, EndMoves
  <2>2. Alone
    BY <2>1 DEF HistoryFits
  <2> QED BY <1>2, <2>2, AloneStarts, AloneRuns, AloneReads, AloneEnds DEF Moves
<1> QED BY <1>1, <1>2

LEMMA HistoryInvariant == Spec => []HistoryFits
<1>1. Init => HistoryFits
  <2> SUFFICES ASSUME Init PROVE Alone
    BY DEF HistoryFits
  <2>1. \A t \in Turns : ~Running(t)
    BY DEF Init, Running, Idle
  <2>2. Begun = {}
    BY DEF Init, Begun
  <2>3. Ordered(thread.messages)
    <3>1. Users(thread.messages) = {}
      BY DEF Init, Users
    <3> QED BY <3>1 DEF Ordered
  <2> QED BY <2>1, <2>2, <2>3 DEF Alone
<1>2. ShownInv /\ ShownInv' /\ TypesFit /\ HistoryFits /\ [Next]_vars => HistoryFits'
  <2>1. ASSUME UNCHANGED vars, HistoryFits PROVE HistoryFits'
    BY <2>1 DEF vars, HistoryFits, Alone, Running, Ordered, Begun, AloneFits, Remembered, Since
  <2>2. ASSUME ShownInv, ShownInv', TypesFit, HistoryFits, Next PROVE HistoryFits'
    BY <2>2, StepsMove, HistoryStays DEF ShownInv
  <2> QED BY <2>1, <2>2
<1> QED BY <1>1, <1>2, ShownInvariant, TypesInvariant, PTL DEF Spec

\* Whatever is summarised, compacted or fails: as long as turns do not overlap,
\* the question of every finished turn is in the thread or went into the summary,
\* with more than Retain turns since (retained_messages, persist_turn).
THEOREM HistoryIsKept == Spec => []NothingForgotten
<1>1. HistoryFits => NothingForgotten
  BY DEF HistoryFits, Alone, Remembered, Since, NothingForgotten
<1> QED BY <1>1, HistoryInvariant, PTL

-----------------------------------------------------------------------------
(* The transcript                                                          *)

RowFits(row) ==
  LET e == log[row.turn] IN
  \/ row.text = None
  \/ row.text \in Range(e.shown)
  \/ row.text = Placeholder /\ (overlapped \/ e.domain = "REFUND")

\* A turn writes its rows once, next to each other.
RowsFit ==
  /\ \A i, j \in DOMAIN transcript :
       transcript[i].turn = transcript[j].turn => j - i \in -1 .. 1
  /\ \A i \in DOMAIN transcript : RowFits(transcript[i])
  /\ \A t \in Turns : Running(t) /\ turn[t].phase # "appended" =>
       \A i \in DOMAIN transcript : transcript[i].turn # turn[t].n

LEMMA RowsAre ==
  ASSUME TypesFit
  PROVE  \A i \in DOMAIN transcript : transcript[i].turn \in Begun
<1>1. \A i \in DOMAIN transcript : transcript[i] \in Row
  BY DEF TypesFit
<1> QED BY <1>1 DEF Row

\* No row is written.
LEMMA RowsFrame ==
  ASSUME Shape, Runs, TypesFit, RowsFit, NEW t \in Turns, Running(t), Frame(t),
         UNCHANGED <<transcript, overlapped>>, NEW n, n = turn[t].n,
         \/ turn[t].phase # "appended" /\ turn'[t].n = n
         \/ turn'[t].phase = "idle",
         \/ turn[t].phase # "appended"
         \/ log'[n].shown = log[n].shown /\ log'[n].domain = log[n].domain
  PROVE  RowsFit'
<1>1. \A i \in DOMAIN transcript : transcript[i].turn \in Begun
  BY RowsAre
<1>2. ASSUME NEW i \in DOMAIN transcript' PROVE RowFits(transcript[i])'
  <2>1. PICK row : row = transcript[i] /\ row = transcript'[i]
    BY <1>2
  <2>2. RowFits(row) /\ row.turn \in Begun
    BY <1>1, <1>2, <2>1 DEF RowsFit
  <2>3. CASE row.turn # n
    <3>1. log'[row.turn] = log[row.turn]
      BY <2>2, <2>3 DEF Frame
    <3> QED BY <2>1, <2>2, <3>1 DEF RowFits
  <2>4. CASE row.turn = n
    <3>1. turn[t].phase = "appended"
      BY <1>2, <2>1, <2>4 DEF RowsFit
    <3> QED BY <2>1, <2>2, <2>4, <3>1 DEF RowFits
  <2> QED BY <2>3, <2>4
<1>3. ASSUME NEW u \in Turns, turn'[u].phase # "idle", turn'[u].phase # "appended",
             NEW i \in DOMAIN transcript'
      PROVE  transcript'[i].turn # turn'[u].n
  BY <1>3 DEF RowsFit, Frame, Running
<1>4. \A i, j \in DOMAIN transcript' :
        transcript'[i].turn = transcript'[j].turn => j - i \in -1 .. 1
  BY DEF RowsFit
<1> QED BY <1>2, <1>3, <1>4 DEF RowsFit, Running

\* Question and answer are written.
LEMMA RowsWritten ==
  ASSUME Shape, Runs, TypesFit, RowsFit, NEW t \in Turns, AppendMoves(t), HistoryFits
  PROVE  RowsFit'
<1>1. PICK n, r, answer : n = turn[t].n /\ r = turn'[t] /\ answer = FinalAnswer(t)
  OBVIOUS
<1>2. /\ turn[t].phase = "persisted" /\ r.phase = "appended" /\ Frame(t) /\ Running(t)
      /\ n \in Begun /\ UNCHANGED <<log, overlapped>>
      /\ transcript' = IF answer = None THEN transcript
                       ELSE transcript \o <<[turn |-> n, text |-> None],
                                            [turn |-> n, text |-> answer]>>
  BY <1>1 DEF AppendMoves, AppendRows, Frame, Running
<1>3. answer = None \/ RowFits([turn |-> n, text |-> answer])
  <2>1. RunFits(turn[t], log[n])
    BY <1>1, <1>2 DEF Runs
  <2>2. CASE turn[t].streamed
    <3>1. answer = Words /\ log[n].shown = <<Words>>
      BY <1>1, <1>2, <2>1, <2>2 DEF FinalAnswer, RunFits, Late
    <3> QED BY <3>1, RangeOne DEF RowFits
  <2>3. CASE ~turn[t].streamed /\ turn[t].active = "REFUND"
    <3>1. answer = Placeholder
      BY <1>1, <2>3 DEF FinalAnswer
    <3>2. overlapped \/ log[n].domain = "REFUND"
      <4>1. CASE Alone
        <5>1. AloneFits(turn[t], log[n])
          BY <1>1, <1>2, <4>1 DEF Alone
        <5> QED BY <1>2, <2>3, <5>1, NoneAssumption DEF AloneFits, Domains, Actives
      <4> QED BY <4>1 DEF HistoryFits
    <3> QED BY <3>1, <3>2 DEF RowFits
  <2>4. CASE ~turn[t].streamed /\ turn[t].active # "REFUND"
    BY <1>1, <2>4 DEF FinalAnswer
  <2> QED BY <2>2, <2>3, <2>4
<1>4. CASE answer = None
  <2>1. UNCHANGED <<transcript, log, overlapped>>
    BY <1>2, <1>4
  <2>2. \A u \in Turns : turn'[u].phase # "idle" /\ turn'[u].phase # "appended" =>
                         turn'[u] = turn[u] /\ turn[u].phase # "idle"
    BY <1>1, <1>2 DEF Frame
  <2> QED BY <2>1, <2>2 DEF RowsFit, RowFits, Running
<1>5. CASE answer # None
  <2>1. PICK a, b : a = [turn |-> n, text |-> None] /\ b = [turn |-> n, text |-> answer]
    OBVIOUS
  <2>2. RowFits(a) /\ RowFits(b) /\ a.turn = n /\ b.turn = n
    BY <1>3, <1>5, <2>1 DEF RowFits
  <2>3. transcript' = transcript \o <<a, b>>
    BY <1>2, <1>5, <2>1
  <2>4. PICK k \in Nat : k = Len(transcript) /\ DOMAIN transcript = 1 .. k
    BY LenProperties DEF TypesFit
  <2>5. /\ DOMAIN transcript' = 1 .. k + 2
        /\ \A i \in 1 .. k : transcript'[i] = transcript[i]
        /\ transcript'[k + 1] = a /\ transcript'[k + 2] = b
    <3>1. PICK rows : rows = transcript /\ rows \in Seq(Row)
      BY DEF TypesFit
    <3> QED BY <2>3, <2>4, <3>1
  <2>6. \A i \in 1 .. k : transcript[i].turn # n
    BY <1>1, <1>2, <2>4 DEF RowsFit
  <2>7. \A i \in 1 .. k + 2 : i \in 1 .. k \/ i = k + 1 \/ i = k + 2
    BY <2>4
  <2>8. ASSUME NEW i \in DOMAIN transcript', NEW j \in DOMAIN transcript',
               transcript'[i].turn = transcript'[j].turn
        PROVE  j - i \in -1 .. 1
    <3>1. CASE i \in 1 .. k /\ j \in 1 .. k
      BY <2>4, <2>5, <2>8, <3>1 DEF RowsFit
    <3>2. CASE i \notin 1 .. k /\ j \notin 1 .. k
      BY <2>4, <2>5, <2>7, <2>8, <3>2
    <3>3. (i \in 1 .. k) <=> (j \in 1 .. k)
      BY <2>2, <2>5, <2>6, <2>7, <2>8
    <3> QED BY <3>1, <3>2, <3>3
  <2>9. ASSUME NEW i \in DOMAIN transcript' PROVE RowFits(transcript[i])'
    <3>1. PICK row : row = transcript'[i]
      OBVIOUS
    <3>2. RowFits(row)
      BY <2>2, <2>4, <2>5, <2>7, <2>9, <3>1 DEF RowsFit
    <3> QED BY <1>2, <3>1, <3>2 DEF RowFits
  <2>10. ASSUME NEW u \in Turns, turn'[u].phase # "idle", turn'[u].phase # "appended",
                NEW i \in DOMAIN transcript'
         PROVE  transcript'[i].turn # turn'[u].n
    <3>1. u # t /\ turn'[u] = turn[u] /\ Running(u)
      BY <1>1, <1>2, <2>10 DEF Frame, Running
    <3>2. turn[u].n # n
      BY <1>1, <1>2, <3>1 DEF Runs
    <3>3. CASE i \in 1 .. k
      BY <2>4, <2>5, <2>10, <3>1, <3>3 DEF RowsFit
    <3>4. CASE i \notin 1 .. k
      BY <2>2, <2>5, <2>7, <3>1, <3>2, <3>4
    <3> QED BY <3>3, <3>4
  <2> QED BY <2>8, <2>9, <2>10 DEF RowsFit, Running
<1> QED BY <1>4, <1>5

LEMMA RowsStay ==
  ASSUME Shape, Runs, TypesFit, RowsFit, HistoryFits, NEW t \in Turns, Moves(t)
  PROVE  RowsFit'
<1>1. PICK n : n = turn[t].n
  OBVIOUS
<1>2. CASE BeginMoves(t)
  <2>1. PICK m :
          /\ m \in 1 .. MaxTurns /\ Begun = 1 .. (m - 1)
          /\ ~Running(t) /\ \A u \in Turns : u # t => turn'[u] = turn[u]
          /\ turn'[t].phase = "prepared" /\ turn'[t].n = m
          /\ turn'[t].summary = session.summary
          /\ turn'[t].messages = <<>> /\ turn'[t].answer = None
          /\ DOMAIN log' = 1 .. m /\ \A k \in Begun : log'[k] = log[k]
          /\ log'[m].shown = <<>> /\ log'[m].ended = "no"
          /\ overlapped' = (overlapped \/ \E u \in Turns : Running(u))
          /\ UNCHANGED <<session, thread, transcript>>
    BY <1>2 DEF BeginMoves
  <2>2. \A i \in DOMAIN transcript : transcript[i].turn \in Begun /\ transcript[i].turn # m
    <3>1. \A k \in Begun : k # m
      BY <2>1
    <3> QED BY <3>1, RowsAre
  <2>3. \A i \in DOMAIN transcript' : RowFits(transcript[i])'
    BY <2>1, <2>2 DEF RowsFit, RowFits
  <2>4. \A u \in Turns : turn'[u].phase # "idle" /\ turn'[u].phase # "appended" =>
          \A i \in DOMAIN transcript' : transcript'[i].turn # turn'[u].n
    BY <2>1, <2>2 DEF RowsFit, Running
  <2> QED BY <2>1, <2>3, <2>4 DEF RowsFit, Running
<1>3. CASE StartMoves(t)
  <2>1. /\ Running(t) /\ Frame(t) /\ UNCHANGED <<transcript, overlapped>>
        /\ turn[t].phase # "appended" /\ turn'[t].n = n
    BY <1>1, <1>3 DEF StartMoves, SameTurn, Running
  <2> QED BY <1>1, <2>1, RowsFrame
<1>4. CASE GraphMoves(t)
  <2>1. /\ Running(t) /\ Frame(t) /\ UNCHANGED <<transcript, overlapped>>
        /\ turn[t].phase # "appended" /\ turn'[t].n = n
    BY <1>1, <1>4, SMTT(30) DEF GraphMoves, SameTurn, Running, Early
  <2> QED BY <1>1, <2>1, RowsFrame
<1>5. CASE ReadMoves(t) \/ PersistMoves(t)
  <2>1. /\ Running(t) /\ Frame(t) /\ UNCHANGED <<transcript, overlapped>>
        /\ turn[t].phase # "appended" /\ turn'[t].n = n
    BY <1>1, <1>5 DEF ReadMoves, PersistMoves, Running
  <2> QED BY <1>1, <2>1, RowsFrame
<1>6. CASE EndMoves(t)
  <2>1. /\ Running(t) /\ Frame(t) /\ UNCHANGED <<transcript, overlapped>>
        /\ turn'[t].phase = "idle"
        /\ log'[n].shown = log[n].shown /\ log'[n].domain = log[n].domain
    BY <1>1, <1>6 DEF EndMoves, Idle
  <2> QED BY <1>1, <2>1, RowsFrame
<1> QED BY <1>2, <1>3, <1>4, <1>5, <1>6, RowsWritten DEF Moves

LEMMA RowsInvariant == Spec => []RowsFit
<1>1. Init => RowsFit
  BY DEF Init, RowsFit, Running, Idle
<1>2. ShownInv /\ TypesFit /\ HistoryFits /\ RowsFit /\ [Next]_vars => RowsFit'
  <2>1. ASSUME UNCHANGED vars, RowsFit PROVE RowsFit'
    BY <2>1 DEF vars, RowsFit, RowFits, Running
  <2>2. ASSUME ShownInv, TypesFit, HistoryFits, RowsFit, Next PROVE RowsFit'
    BY <2>2, StepsMove, RowsStay DEF ShownInv
  <2> QED BY <2>1, <2>2
<1> QED BY <1>1, <1>2, ShownInvariant, TypesInvariant, HistoryInvariant, PTL DEF Spec

\* However turns overlap or fail, the transcript has each turn once, question and
\* answer side by side, and as answer only what that turn has shown, or the
\* placeholder, of a refund turn if no two ever overlapped (append_messages).
THEOREM TranscriptIsFaithful == Spec => []TranscriptIsTrue
<1>1. RowsFit => TranscriptIsTrue
  BY DEF RowsFit, RowFits, TranscriptIsTrue
<1> QED BY <1>1, RowsInvariant, PTL

-----------------------------------------------------------------------------
(* The evidence                                                            *)

\* Whatever lists of candidates the turns may get, the evidence they work with
\* is ranked right (policy_retrieval.py, _rerank_by_authority).
THEOREM EvidenceRanked == Spec => []EvidenceIsRankedRight
<1>1. \A list \in Lists : RerankIsRight(list)
  BY ListsAssumption, RerankIsAlwaysRight
<1>2. EvidenceIsRankedRight
  BY <1>1 DEF EvidenceIsRankedRight
<1> QED BY <1>2, PTL
=============================================================================
