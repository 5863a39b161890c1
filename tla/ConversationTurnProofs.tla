------------------------ MODULE ConversationTurnProofs ------------------------
(***************************************************************************)
(* Theorems about ConversationTurn for any orders, messages, number of     *)
(* turns and of requests at the same time.                                 *)
(***************************************************************************)
EXTENDS ConversationTurn, TLAPS

USE TurnAssumption DEF TurnAssumption

-----------------------------------------------------------------------------
(* What may be said of one memory                                          *)

\* The order's id comes with its number, whoever wrote the two.
HasNumber(m) == m.id # None => m.sn # None

\* Number, id, eligibility result and the order that was found speak of one
\* order.
Coherent(m) ==
  /\ m.id # None => m.id = m.sn
  /\ m.result # None => m.result.sn # None /\ m.result.sn = m.sn
  /\ m.found # None /\ m.sn # None => m.found = m.sn

\* Memories that agree on what the two speak of.
LEMMA SameCase ==
  ASSUME NEW m, NEW n, n.sn = m.sn, n.id = m.id, n.found = m.found,
         n.result \in {m.result, None}
  PROVE  /\ HasNumber(m) => HasNumber(n)
         /\ Coherent(m) => Coherent(n)
BY DEF HasNumber, Coherent

\* Two flags that are set together.
LEMMA SetReasonConfirmed ==
  ASSUME NEW m \in Memory, NEW a \in BOOLEAN, NEW b \in BOOLEAN
  PROVE  [m EXCEPT !.reason = a, !.confirmed = b] \in Memory
BY DEF Memory

LEMMA SetCategoryConfirmed ==
  ASSUME NEW m \in Memory, NEW a \in BOOLEAN, NEW b \in BOOLEAN
  PROVE  [m EXCEPT !.category = a, !.confirmed = b] \in Memory
BY DEF Memory

LEMMA BlankMemory == Blank \in Memory /\ HasNumber(Blank) /\ Coherent(Blank)
BY DEF Blank, Memory, HasNumber, Coherent, Domains

LEMMA ResolveType == \A sn : Resolve(sn) \in {sn, None} /\ Resolve(sn) \in Owned \cup {None}
BY DEF Resolve

LEMMA SwitchOrderFits ==
  ASSUME NEW m \in Memory, NEW sn \in Orders
  PROVE  /\ SwitchOrder(m, sn) \in Memory
         /\ SwitchOrder(m, sn).sn = sn
         /\ SwitchOrder(m, sn).id = None
         /\ SwitchOrder(m, sn).submitted = None
         /\ SwitchOrder(m, sn).result = None
         /\ SwitchOrder(m, sn).found = m.found
BY ZenonT(60) DEF SwitchOrder, Memory

LEMMA NameOrderFits ==
  ASSUME NEW m \in Memory, NEW sn \in Orders
  PROVE  /\ NameOrder(m, sn) \in Memory
         /\ NameOrder(m, sn).submitted \in {m.submitted, None}
         /\ NameOrder(m, sn).found = m.found
         /\ HasNumber(NameOrder(m, sn))
         /\ Coherent(m) /\ m.found = None => Coherent(NameOrder(m, sn))
<1> DEFINE n == IF sn # m.sn THEN SwitchOrder(m, sn) ELSE m
<1>1. /\ n \in Memory /\ n.sn = sn /\ n.found = m.found
      /\ n.submitted \in {m.submitted, None}
      /\ Coherent(m) => (n.id # None => n.id = sn) /\ (n.result # None => n.result.sn = sn)
  BY SwitchOrderFits DEF Coherent
<1>2. NameOrder(m, sn) = IF n.id = None THEN [n EXCEPT !.id = Resolve(sn)] ELSE n
  BY DEF NameOrder
<1> HIDE DEF n
<1>3. CASE n.id = None
  <2>1. [n EXCEPT !.id = Resolve(sn)] \in Memory
    BY <1>1, ResolveType DEF Memory
  <2> QED BY <1>1, <1>2, <1>3, <2>1, ResolveType DEF Memory, HasNumber, Coherent
<1>4. CASE n.id # None
  BY <1>1, <1>2, <1>4 DEF Memory, HasNumber, Coherent
<1> QED BY <1>3, <1>4

LEMMA StartAnewFits ==
  ASSUME NEW m \in Memory
  PROVE  /\ StartAnew(m) \in Memory
         /\ StartAnew(m).submitted = None
         /\ StartAnew(m).found = m.found
         /\ HasNumber(m) => HasNumber(StartAnew(m))
         /\ Coherent(m) => Coherent(StartAnew(m))
<1>1. StartAnew(m) \in Memory
  BY DEF StartAnew, Memory
<1>2. /\ StartAnew(m).sn = m.sn /\ StartAnew(m).id = m.id
      /\ StartAnew(m).found = m.found /\ StartAnew(m).result = None
      /\ StartAnew(m).submitted = None
  BY DEF StartAnew, Memory
<1> QED BY <1>1, <1>2, SameCase

\* What prepare_turn makes of a memory.
LEMMA UnderstandFits ==
  ASSUME NEW m \in Memory, NEW in \in Input
  PROVE  LET n == Understand(m, in) IN
         /\ n \in Memory
         /\ n.submitted \in {m.submitted, None}
         /\ n.found = m.found
         /\ HasNumber(m) => HasNumber(n)
         /\ Coherent(m) /\ m.found = None => Coherent(n)
<1> DEFINE named == IF in.sn # None THEN NameOrder(m, in.sn) ELSE m
           reasoned == [named EXCEPT !.domain = Domain(named, in),
                                     !.reason = @ \/ in.reason,
                                     !.confirmed = @ \/ named.slotConfirmed]
           anew == (in.goal /\ in.domain # "OTHER") \/ in.again
           renewed == IF anew /\ reasoned.domain = "REFUND" /\ reasoned.submitted # None
                      THEN StartAnew(reasoned) ELSE reasoned
<1>1. /\ named \in Memory
      /\ named.submitted \in {m.submitted, None}
      /\ named.found = m.found
      /\ HasNumber(m) => HasNumber(named)
      /\ Coherent(m) /\ m.found = None => Coherent(named)
  BY NameOrderFits DEF Input
<1> HIDE DEF named
<1>2. /\ reasoned \in Memory
      /\ reasoned.submitted = named.submitted
      /\ reasoned.found = named.found
      /\ HasNumber(named) => HasNumber(reasoned)
      /\ Coherent(named) => Coherent(reasoned)
  <2> DEFINE domain == Domain(named, in)
             reason == named.reason \/ in.reason
             confirmed == named.confirmed \/ named.slotConfirmed
  <2>1. domain \in Domains \cup {None}
    BY <1>1 DEF Domain, Input, Memory
  <2>2. reason \in BOOLEAN /\ confirmed \in BOOLEAN
    OBVIOUS
  <2>3. reasoned = [named EXCEPT !.domain = domain, !.reason = reason,
                                 !.confirmed = confirmed]
    OBVIOUS
  <2> HIDE DEF domain, reason, confirmed, reasoned
  <2>4. reasoned \in Memory
    <3> DEFINE half == [named EXCEPT !.domain = domain]
    <3>1. half \in Memory
      BY <1>1, <2>1 DEF Memory
    <3>2. reasoned = [half EXCEPT !.reason = reason, !.confirmed = confirmed]
      BY <2>3
    <3> HIDE DEF half
    <3> QED BY <2>2, <3>1, <3>2, SetReasonConfirmed
  <2>5. /\ reasoned.sn = named.sn /\ reasoned.id = named.id
        /\ reasoned.found = named.found /\ reasoned.result = named.result
        /\ reasoned.submitted = named.submitted
    BY <1>1, <2>3 DEF Memory
  <2> QED BY <2>4, <2>5, SameCase
<1> HIDE DEF reasoned
<1>3. /\ renewed \in Memory
      /\ renewed.submitted \in {reasoned.submitted, None}
      /\ renewed.found = reasoned.found
      /\ HasNumber(reasoned) => HasNumber(renewed)
      /\ Coherent(reasoned) => Coherent(renewed)
  <2>1. /\ StartAnew(reasoned) \in Memory
        /\ StartAnew(reasoned).submitted = None
        /\ StartAnew(reasoned).found = reasoned.found
        /\ HasNumber(reasoned) => HasNumber(StartAnew(reasoned))
        /\ Coherent(reasoned) => Coherent(StartAnew(reasoned))
    BY <1>2, StartAnewFits
  <2>2. renewed \in {StartAnew(reasoned), reasoned}
    OBVIOUS
  <2> HIDE DEF renewed
  <2> QED BY <1>2, <2>1, <2>2
<1> HIDE DEF renewed
<1>4. Understand(m, in) = [renewed EXCEPT !.category = @ \/ in.category,
                                          !.confirmed = @ \/ in.confirm,
                                          !.slotConfirmed = @ \/ in.confirm]
  BY DEF Understand, named, reasoned, renewed
<1>5. /\ Understand(m, in) \in Memory
      /\ Understand(m, in).submitted = renewed.submitted
      /\ Understand(m, in).found = renewed.found
      /\ HasNumber(renewed) => HasNumber(Understand(m, in))
      /\ Coherent(renewed) => Coherent(Understand(m, in))
  <2> DEFINE category == renewed.category \/ in.category
             confirmed == renewed.confirmed \/ in.confirm
             slotConfirmed == renewed.slotConfirmed \/ in.confirm
  <2>1. category \in BOOLEAN /\ confirmed \in BOOLEAN /\ slotConfirmed \in BOOLEAN
    OBVIOUS
  <2>2. Understand(m, in) = [renewed EXCEPT !.category = category,
                               !.confirmed = confirmed, !.slotConfirmed = slotConfirmed]
    BY <1>4
  <2> HIDE DEF category, confirmed, slotConfirmed
  <2> DEFINE n == Understand(m, in)
  <2>3. n \in Memory
    BY <1>3, <2>1, <2>2, ZenonT(60) DEF Memory
  <2>4. /\ n.sn = renewed.sn /\ n.id = renewed.id /\ n.found = renewed.found
        /\ n.result = renewed.result /\ n.submitted = renewed.submitted
    BY <1>3, <2>2 DEF Memory
  <2> QED BY <2>3, <2>4, SameCase
<1> QED BY <1>1, <1>2, <1>3, <1>5

\* What persist_turn makes of the memory it read back.
LEMMA LoweredFits ==
  ASSUME NEW m \in Memory
  PROVE  /\ Lowered(m) \in Memory
         /\ Lowered(m).submitted = m.submitted
         /\ Lowered(m).found = None
         /\ HasNumber(m) => HasNumber(Lowered(m))
         /\ Coherent(m) => Coherent(Lowered(m))
<1> DEFINE seen == IF m.found = None THEN m
                   ELSE [m EXCEPT !.sn = m.found, !.id = m.found, !.found = None]
<1>1. /\ seen \in Memory /\ seen.submitted = m.submitted /\ seen.found = None
      /\ HasNumber(m) => HasNumber(seen)
      /\ Coherent(m) => Coherent(seen)
  BY ZenonT(60) DEF Memory, HasNumber, Coherent
<1> HIDE DEF seen
<1> DEFINE id == IF seen.sn # None THEN OrElse(seen.id, Resolve(seen.sn)) ELSE seen.id
<1>2. id \in Owned \cup {None} /\ id \in {seen.id, seen.sn, None}
  BY <1>1, ResolveType DEF OrElse, Memory
<1>3. seen.id # None => id = seen.id
  BY DEF OrElse
<1>4. Lowered(m) = [seen EXCEPT !.slotConfirmed = @ \/ m.confirmed, !.id = id]
  BY DEF Lowered, seen
<1> HIDE DEF id
<1> QED BY <1>1, <1>2, <1>3, <1>4, ZenonT(60) DEF Memory, HasNumber, Coherent

\* What the row becomes.
LEMMA MergedFits ==
  ASSUME NEW old \in Memory, NEW new \in Memory, NEW current
  PROVE  LET n == Merged(old, new, current) IN
         /\ n \in Memory
         /\ n.submitted \in {old.submitted, new.submitted}
         /\ n.found = new.found
         /\ HasNumber(old) /\ HasNumber(new) => HasNumber(n)
         /\ current /\ Coherent(new) => Coherent(n)
<1> DEFINE top == IF current THEN new
                  ELSE [new EXCEPT !.domain = OrElse(@, old.domain),
                                   !.sn = OrElse(@, old.sn), !.id = OrElse(@, old.id),
                                   !.category = @ \/ old.category,
                                   !.confirmed = @ \/ old.confirmed,
                                   !.result = OrElse(@, old.result)]
<1>1. /\ top \in Memory /\ top.submitted = new.submitted /\ top.found = new.found
      /\ HasNumber(old) /\ HasNumber(new) => HasNumber(top)
      /\ current /\ Coherent(new) => Coherent(top)
  <2>1. CASE current
    BY <2>1
  <2>2. CASE ~current
    <3> DEFINE domain == OrElse(new.domain, old.domain)
               sn == OrElse(new.sn, old.sn)
               id == OrElse(new.id, old.id)
               category == new.category \/ old.category
               confirmed == new.confirmed \/ old.confirmed
               result == OrElse(new.result, old.result)
    <3>1. /\ domain \in Domains \cup {None} /\ sn \in Orders \cup {None}
          /\ id \in Owned \cup {None}
          /\ result \in {None} \cup [sn : Orders \cup {None}, passed : BOOLEAN]
      BY DEF OrElse, Memory
    <3>2. category \in BOOLEAN /\ confirmed \in BOOLEAN
      OBVIOUS
    <3>3. HasNumber(old) /\ HasNumber(new) => (id # None => sn # None)
      BY DEF OrElse, HasNumber
    <3>4. top = [new EXCEPT !.domain = domain, !.sn = sn, !.id = id,
                   !.category = category, !.confirmed = confirmed, !.result = result]
      BY <2>2
    <3> HIDE DEF domain, sn, id, category, confirmed, result, top
    <3>5. top \in Memory
      <4> DEFINE half == [new EXCEPT !.domain = domain, !.sn = sn, !.id = id]
      <4>1. half \in Memory
        BY <3>1, ZenonT(60) DEF Memory
      <4>2. top = [half EXCEPT !.category = category, !.confirmed = confirmed,
                               !.result = result]
        BY <3>4
      <4> HIDE DEF half
      <4> DEFINE more == [half EXCEPT !.category = category, !.confirmed = confirmed]
      <4>3. more \in Memory
        BY <3>2, <4>1, SetCategoryConfirmed
      <4>4. top = [more EXCEPT !.result = result]
        BY <4>2
      <4> HIDE DEF more
      <4> QED BY <3>1, <4>3, <4>4 DEF Memory
    <3>6. /\ top.sn = sn /\ top.id = id
          /\ top.submitted = new.submitted /\ top.found = new.found
      BY <3>4 DEF Memory
    <3> QED BY <2>2, <3>3, <3>5, <3>6 DEF HasNumber
  <2> QED BY <2>1, <2>2
<1> HIDE DEF top
<1>2. Merged(old, new, current) =
        [top EXCEPT !.reason = @ \/ old.reason,
                    !.slotConfirmed = @ \/ old.slotConfirmed,
                    !.submitted = OrElse(@, old.submitted)]
  BY DEF Merged, top
<1> DEFINE reason == top.reason \/ old.reason
           slotConfirmed == top.slotConfirmed \/ old.slotConfirmed
           submitted == OrElse(top.submitted, old.submitted)
<1>3. /\ reason \in BOOLEAN /\ slotConfirmed \in BOOLEAN
      /\ submitted \in {top.submitted, old.submitted}
      /\ submitted \in Owned \cup {None}
  BY <1>1 DEF OrElse, Memory
<1>4. Merged(old, new, current) =
        [top EXCEPT !.reason = reason, !.slotConfirmed = slotConfirmed,
                    !.submitted = submitted]
  BY <1>2
<1> HIDE DEF reason, slotConfirmed, submitted
<1> DEFINE n == Merged(old, new, current)
<1>5. n \in Memory
  BY <1>1, <1>3, <1>4, ZenonT(60) DEF Memory
<1>6. /\ n.sn = top.sn /\ n.id = top.id /\ n.found = top.found
      /\ n.result = top.result /\ n.submitted = submitted
  BY <1>1, <1>4 DEF Memory
<1>7. /\ HasNumber(top) => HasNumber(n)
      /\ Coherent(top) => Coherent(n)
  BY <1>6, SameCase
<1> HIDE DEF n
<1> QED BY <1>1, <1>3, <1>5, <1>6, <1>7 DEF n

-----------------------------------------------------------------------------
(* The inductive invariant                                                 *)

Live(t) == turn[t].phase # "idle"

\* Every memory, wherever it is, has the number to its id and speaks of real
\* refunds; the row never holds an order found in passing.
MemoriesFit ==
  /\ HasNumber(session) /\ session.found = None
  /\ HasNumber(checkpoint)
  /\ \A t \in Turns : HasNumber(turn[t].memory)
  /\ SubmittedIsReal
  /\ RefundsAreOwned

\* While a turn runs, its memory's domain is the one it was sent to.
IntentFits ==
  \A t \in Turns :
    /\ turn[t].phase = "prepared" => turn[t].intent = turn[t].memory.domain
    /\ turn[t].phase = "running" => turn[t].memory.domain \in {turn[t].intent, None}

\* As long as turns do not overlap, every memory is about one order, and the
\* turn writes the row at the version it has read.
SerialFits ==
  ~overlapped =>
    /\ \A t, u \in Turns : Live(t) /\ Live(u) => t = u
    /\ \A t \in Turns : Live(t) => turn[t].current /\ Coherent(turn[t].memory)
    /\ Coherent(session) /\ Coherent(checkpoint)

TurnInv == TypeOK /\ MemoriesFit /\ IntentFits /\ SerialFits

Turn == [phase : Phase, intent : Domains \cup {"OTHER", None},
         memory : Memory, current : BOOLEAN]

LEMMA TurnFields ==
  ASSUME TypeOK, NEW t \in Turns
  PROVE  /\ turn[t].phase \in Phase
         /\ turn[t].intent \in Domains \cup {"OTHER", None}
         /\ turn[t].memory \in Memory
         /\ turn[t].current \in BOOLEAN
BY DEF TypeOK

LEMMA IdleFits == Idle \in [phase : Phase, intent : Domains \cup {"OTHER", None},
                            memory : Memory, current : BOOLEAN]
BY BlankMemory DEF Idle, Phase

\* The stages that look the order up or submit it come after the order.
LEMMA StageHasOrder ==
  ASSUME NEW m, Stage(m) \in {"ELIGIBILITY_CHECKED", "SUBMITTED"}
  PROVE  m.id # None
BY DEF Stage

\* A turn ends: the others and the rows that were there stay.
LEMMA EndFits ==
  ASSUME TurnInv, NEW t \in Turns, turn' = [turn EXCEPT ![t] = Idle],
         UNCHANGED <<session, checkpoint, begun, refunds, confirmedFor, overlapped>>
  PROVE  TurnInv'
<1>1. TypeOK'
  BY IdleFits DEF TurnInv, TypeOK
<1>2. \A u \in Turns : turn'[u] = IF u = t THEN Idle ELSE turn[u]
  BY DEF TurnInv, TypeOK
<1>3. MemoriesFit'
  BY <1>2, BlankMemory
     DEF TurnInv, MemoriesFit, SubmittedIsReal, RefundsAreOwned, Idle, Blank
<1>4. IntentFits'
  BY <1>2 DEF TurnInv, IntentFits, Idle
<1>5. SerialFits'
  BY <1>2 DEF TurnInv, SerialFits, Live, Idle
<1> QED BY <1>1, <1>3, <1>4, <1>5 DEF TurnInv
\* prepare_turn
LEMMA PrepareFits ==
  ASSUME TurnInv, NEW t \in Turns, NEW in \in Messages, Prepare(t, in)
  PROVE  TurnInv'
<1> DEFINE m == Understand(session, in)
<1>1. session \in Memory /\ in \in Input
  BY DEF TurnInv, TypeOK
<1>2. /\ m \in Memory /\ HasNumber(m)
      /\ m.submitted \in {session.submitted, None}
      /\ m.domain \in Domains \cup {None} /\ m.sn \in Orders \cup {None}
  BY <1>1, UnderstandFits DEF TurnInv, MemoriesFit, Memory
<1>3. Coherent(session) => Coherent(m)
  BY <1>1, UnderstandFits DEF TurnInv, MemoriesFit
<1>4. /\ turn' = [turn EXCEPT ![t] = [phase |-> "prepared", intent |-> m.domain,
                                      memory |-> m, current |-> TRUE]]
      /\ begun' = begun + 1 /\ begun < MaxTurns
      /\ confirmedFor' = confirmedFor \cup (IF in.confirm THEN {m.sn} ELSE {})
      /\ overlapped' = (overlapped \/ \E u \in Turns : Live(u))
      /\ UNCHANGED <<session, checkpoint, refunds>>
  BY DEF Prepare, Live
<1> HIDE DEF m
<1>5. TypeOK'
  <2>1. turn' \in [Turns -> [phase : Phase, intent : Domains \cup {"OTHER", None},
                             memory : Memory, current : BOOLEAN]]
    BY <1>2, <1>4 DEF TurnInv, TypeOK, Phase
  <2>2. overlapped' \in BOOLEAN
    BY <1>4 DEF TurnInv, TypeOK
  <2>3. begun' \in 0 .. MaxTurns /\ confirmedFor' \subseteq Orders \cup {None}
    BY <1>2, <1>4 DEF TurnInv, TypeOK
  <2> QED BY <1>4, <2>1, <2>2, <2>3 DEF TurnInv, TypeOK
<1>6. /\ \A u \in Turns : u # t => turn'[u] = turn[u]
      /\ turn'[t].memory = m /\ turn'[t].phase = "prepared"
      /\ turn'[t].intent = m.domain /\ turn'[t].current = TRUE
  BY <1>4 DEF TurnInv, TypeOK
<1>7. MemoriesFit'
  BY <1>2, <1>4, <1>6 DEF TurnInv, MemoriesFit, SubmittedIsReal, RefundsAreOwned
<1>8. IntentFits'
  BY <1>6 DEF TurnInv, IntentFits
<1>9. SerialFits'
  <2> SUFFICES ASSUME ~overlapped'
               PROVE  /\ \A u, v \in Turns : Live(u)' /\ Live(v)' => u = v
                      /\ \A u \in Turns : Live(u)' => /\ turn'[u].current
                                                      /\ Coherent(turn'[u].memory)
                      /\ Coherent(session') /\ Coherent(checkpoint')
    BY DEF SerialFits
  <2>1. ~overlapped /\ \A u \in Turns : ~Live(u)
    BY <1>4
  <2>2. Coherent(session) /\ Coherent(checkpoint)
    BY <2>1 DEF TurnInv, SerialFits
  <2> QED BY <1>3, <1>4, <1>6, <2>1, <2>2 DEF Live
<1> QED BY <1>5, <1>7, <1>8, <1>9 DEF TurnInv

\* A turn takes up or writes a memory that fits, be it its input or the result
\* of its node, and in its own place only.
LEMMA MoveFits ==
  ASSUME TurnInv, NEW t \in Turns, Live(t), NEW r \in Turn,
         turn' = [turn EXCEPT ![t] = r],
         r.phase \in {"running", "ran", "persisting"},
         r.current = turn[t].current,
         r.phase = "running" => r.memory.domain \in {r.intent, None},
         HasNumber(r.memory),
         r.memory.submitted # None => r.memory.submitted \in refunds',
         ~overlapped => Coherent(r.memory),
         checkpoint' \in {checkpoint, r.memory},
         refunds \subseteq refunds', refunds' \subseteq Owned,
         UNCHANGED <<session, begun, confirmedFor, overlapped>>
  PROVE  TurnInv'
<1>1. TypeOK'
  BY DEF TurnInv, TypeOK, Turn
<1>2. turn'[t] = r /\ \A u \in Turns : u # t => turn'[u] = turn[u]
  BY DEF TurnInv, TypeOK
<1>3. MemoriesFit'
  BY <1>2 DEF TurnInv, MemoriesFit, SubmittedIsReal, RefundsAreOwned
<1>4. IntentFits'
  BY <1>2 DEF TurnInv, IntentFits
<1>5. SerialFits'
  BY <1>2 DEF TurnInv, SerialFits, Live
<1> QED BY <1>1, <1>3, <1>4, <1>5 DEF TurnInv

LEMMA StartFits ==
  ASSUME TurnInv, NEW t \in Turns, Start(t)
  PROVE  TurnInv'
<1>1. PICK intent \in IF turn[t].intent # None THEN {turn[t].intent}
                      ELSE Domains \cup {"OTHER"} :
        turn' = [turn EXCEPT ![t].phase = "running", ![t].intent = intent]
  BY DEF Start
<1>2. /\ turn[t] \in Turn /\ intent \in Domains \cup {"OTHER", None} /\ Live(t)
      /\ turn[t].memory.domain \in {intent, None}
  BY <1>1 DEF Start, TurnInv, TypeOK, Turn, IntentFits, Live
<1> DEFINE r == [turn[t] EXCEPT !.phase = "running", !.intent = intent]
<1>3. /\ r \in Turn /\ r.phase = "running" /\ r.intent = intent
      /\ r.memory = turn[t].memory /\ r.current = turn[t].current
  BY <1>2 DEF Turn, Phase
<1>4. turn' = [turn EXCEPT ![t] = r]
  BY <1>1 DEF TurnInv, TypeOK
<1>5. /\ HasNumber(r.memory) /\ (~overlapped => Coherent(r.memory))
      /\ r.memory.submitted # None => r.memory.submitted \in refunds
      /\ refunds \subseteq Owned
  BY <1>2, <1>3 DEF TurnInv, MemoriesFit, SubmittedIsReal, RefundsAreOwned, SerialFits
<1>6. checkpoint' = r.memory /\ UNCHANGED <<session, begun, refunds, confirmedFor, overlapped>>
  BY <1>3 DEF Start
<1> HIDE DEF r
<1> QED BY <1>2, <1>3, <1>4, <1>5, <1>6, MoveFits
\* A node finishes with a memory that fits.
LEMMA FinishFits ==
  ASSUME TurnInv, NEW t \in Turns, Live(t), NEW m \in Memory, Finish(t, m),
         HasNumber(m),
         m.submitted # None => m.submitted \in refunds',
         ~overlapped => Coherent(m),
         refunds \subseteq refunds', refunds' \subseteq Owned
  PROVE  TurnInv'
<1> DEFINE r == [turn[t] EXCEPT !.phase = "ran", !.memory = m]
<1>1. r \in Turn /\ r.phase = "ran" /\ r.memory = m /\ r.current = turn[t].current
  BY DEF TurnInv, TypeOK, Turn, Phase
<1>2. turn' = [turn EXCEPT ![t] = r] /\ checkpoint' = m
      /\ UNCHANGED <<session, begun, confirmedFor, overlapped>>
  BY DEF Finish, TurnInv, TypeOK
<1> HIDE DEF r
<1> QED BY <1>1, <1>2, MoveFits

\* What is known of the memory of a running turn.
LEMMA MemoryFits ==
  ASSUME TurnInv, NEW t \in Turns, Live(t)
  PROVE  LET m == turn[t].memory IN
         /\ m \in Memory /\ HasNumber(m)
         /\ m.submitted # None => m.submitted \in refunds
         /\ ~overlapped => Coherent(m)
         /\ refunds \subseteq Owned
BY TurnFields DEF TurnInv, MemoriesFit, SubmittedIsReal, RefundsAreOwned, SerialFits

\* The nodes of the graph.
LEMMA GraphFits ==
  ASSUME TurnInv, NEW t \in Turns, Graph(t)
  PROVE  TurnInv'
<1> DEFINE m == turn[t].memory
<1>1. CASE Start(t)
  BY <1>1, StartFits
<1>2. CASE /\ Finish(t, turn[t].memory) /\ UNCHANGED refunds
           /\ turn[t].phase = "running"
  BY <1>2, FinishFits, MemoryFits DEF Live
<1>3. CASE QueryOrder(t)
  <2> DEFINE found == IF m.sn # None THEN Resolve(m.sn) ELSE Latest
             n == [m EXCEPT !.found = found]
  <2>1. /\ Live(t) /\ Finish(t, n) /\ UNCHANGED refunds
    BY <1>3 DEF QueryOrder, Live
  <2>2. found \in Owned \cup {None} /\ (m.sn # None => found \in {m.sn, None})
    BY ResolveType
  <2>3. n \in Memory /\ n.sn = m.sn /\ n.id = m.id /\ n.result = m.result
        /\ n.submitted = m.submitted /\ n.found = found
    BY <2>1, <2>2, MemoryFits DEF Memory
  <2> HIDE DEF n, found
  <2>4. HasNumber(n) /\ (~overlapped => Coherent(n))
    BY <2>1, <2>2, <2>3, MemoryFits DEF HasNumber, Coherent
  <2> QED BY <2>1, <2>3, <2>4, FinishFits, MemoryFits
<1>4. CASE CheckEligibility(t)
  <2>1. PICK code :
          Finish(t, [m EXCEPT !.result = [sn |-> m.sn,
                                          passed |-> code = "ELIGIBILITY_PASSED"]])
    BY <1>4 DEF CheckEligibility
  <2> DEFINE passed == code = "ELIGIBILITY_PASSED"
             n == [m EXCEPT !.result = [sn |-> m.sn, passed |-> passed]]
  <2>2. Live(t) /\ UNCHANGED refunds /\ m.id # None /\ m \in Memory
    BY <1>4, StageHasOrder, TurnFields DEF CheckEligibility, At, Live, TurnInv
  <2>3. passed \in BOOLEAN
    OBVIOUS
  <2> HIDE DEF passed
  <2>4. n \in Memory /\ n.sn = m.sn /\ n.id = m.id /\ n.found = m.found
        /\ n.submitted = m.submitted /\ n.result.sn = m.sn
    BY <2>2, <2>3 DEF Memory
  <2>5. Finish(t, n)
    BY <2>1 DEF passed
  <2> HIDE DEF n
  <2>6. HasNumber(n) /\ (~overlapped => Coherent(n))
    BY <2>2, <2>4, MemoryFits DEF HasNumber, Coherent
  <2> QED BY <2>2, <2>4, <2>5, <2>6, FinishFits, MemoryFits
<1>5. ASSUME NEW id \in Owned, id \in refunds', Finish(t, [m EXCEPT !.submitted = id]),
             turn[t].phase = "running", refunds \subseteq refunds', refunds' \subseteq Owned
      PROVE  TurnInv'
  <2> DEFINE n == [m EXCEPT !.submitted = id]
  <2>1. Live(t) /\ m \in Memory
    BY <1>5, TurnFields DEF Live, TurnInv
  <2>2. n \in Memory /\ n.sn = m.sn /\ n.id = m.id /\ n.found = m.found
        /\ n.result = m.result /\ n.submitted = id
    BY <2>1 DEF Memory
  <2>3. HasNumber(n) /\ (~overlapped => Coherent(n))
    BY <2>1, <2>2, MemoryFits, SameCase, ZenonT(60)
  <2> HIDE DEF n
  <2> QED BY <1>5, <2>1, <2>2, <2>3, FinishFits DEF n
<1>6. CASE ShortCircuit(t)
  <2>1. m.id \in refunds /\ Finish(t, [m EXCEPT !.submitted = m.id])
        /\ UNCHANGED refunds /\ turn[t].phase = "running"
    BY <1>6 DEF ShortCircuit, At
  <2>2. refunds \subseteq Owned
    BY DEF TurnInv, MemoriesFit, RefundsAreOwned
  <2> QED BY <1>5, <2>1, <2>2
<1>7. CASE Submit(t)
  <2>1. m.sn \in Owned
    BY <1>7 DEF Submit, SubmitAnswers
  <2>2. /\ refunds' = refunds \cup {m.sn} /\ turn[t].phase = "running"
        /\ Finish(t, [m EXCEPT !.submitted = m.sn])
    BY <1>7 DEF Submit, Submitting, At
  <2>3. refunds \subseteq Owned
    BY DEF TurnInv, MemoriesFit, RefundsAreOwned
  <2> QED BY <1>5, <2>1, <2>2, <2>3
<1> QED BY <1>1, <1>2, <1>3, <1>4, <1>6, <1>7
        DEF Graph, Talk, Answer, SubmitRefused, Submitting, At

\* aget_state
LEMMA ReadFits ==
  ASSUME TurnInv, NEW t \in Turns, ReadState(t)
  PROVE  TurnInv'
<1> DEFINE r == [turn[t] EXCEPT !.phase = "persisting", !.memory = checkpoint]
<1>1. /\ Live(t) /\ turn' = [turn EXCEPT ![t] = r]
      /\ UNCHANGED <<session, checkpoint, begun, refunds, confirmedFor, overlapped>>
  BY DEF ReadState, Live, TurnInv, TypeOK
<1>2. /\ r \in Turn /\ r.phase = "persisting" /\ r.memory = checkpoint
      /\ r.current = turn[t].current
  BY DEF TurnInv, TypeOK, Turn, Phase
<1> HIDE DEF r
<1>3. /\ HasNumber(checkpoint) /\ (~overlapped => Coherent(checkpoint))
      /\ checkpoint.submitted # None => checkpoint.submitted \in refunds
      /\ refunds \subseteq Owned
  BY DEF TurnInv, MemoriesFit, SubmittedIsReal, RefundsAreOwned, SerialFits
<1> QED BY <1>1, <1>2, <1>3, MoveFits

\* persist_turn
LEMMA PersistFits ==
  ASSUME TurnInv, NEW t \in Turns, Persist(t)
  PROVE  TurnInv'
<1>1. /\ session' = Merged(session, Lowered(turn[t].memory), turn[t].current)
      /\ Live(t)
      /\ UNCHANGED <<checkpoint, begun, refunds, confirmedFor, overlapped>>
  BY DEF Persist, Live
<1>2. ASSUME NEW low, low = Lowered(turn[t].memory)
      PROVE  /\ session' \in Memory /\ HasNumber(session') /\ session'.found = None
             /\ session'.submitted \in {session.submitted, turn[t].memory.submitted}
             /\ ~overlapped => Coherent(session')
  <2>1. low \in Memory /\ HasNumber(low) /\ low.found = None
        /\ low.submitted = turn[t].memory.submitted /\ (~overlapped => Coherent(low))
    BY <1>1, <1>2, LoweredFits, MemoryFits
  <2>2. session \in Memory /\ HasNumber(session)
    BY DEF TurnInv, TypeOK, MemoriesFit
  <2>3. ~overlapped => turn[t].current
    BY <1>1 DEF TurnInv, SerialFits
  <2> QED BY <1>1, <1>2, <2>1, <2>2, <2>3, MergedFits
<1>3. /\ session' \in Memory /\ HasNumber(session') /\ session'.found = None
      /\ session'.submitted \in {session.submitted, turn[t].memory.submitted}
      /\ ~overlapped => Coherent(session')
  BY <1>2
<1>4. turn' = [u \in Turns |-> IF u = t THEN Idle ELSE [turn[u] EXCEPT !.current = FALSE]]
  BY DEF Persist
<1>5. ASSUME NEW u \in Turns, u # t
      PROVE  /\ turn'[u] \in Turn /\ turn'[u].phase = turn[u].phase
             /\ turn'[u].memory = turn[u].memory /\ turn'[u].intent = turn[u].intent
  <2>1. turn'[u] = [turn[u] EXCEPT !.current = FALSE] /\ turn[u] \in Turn
    BY <1>4, <1>5 DEF TurnInv, TypeOK, Turn
  <2> QED BY <2>1 DEF Turn
<1>6. turn'[t] = Idle
  BY <1>4
<1>7. TypeOK'
  <2>1. \A u \in Turns : turn'[u] \in Turn
    BY <1>5, <1>6, IdleFits DEF Turn
  <2>2. turn' \in [Turns -> Turn]
    BY <1>4, <2>1
  <2> QED BY <1>1, <1>3, <2>2 DEF TurnInv, TypeOK, Turn
<1>8. MemoriesFit'
  <2>1. \A u \in Turns : turn'[u].memory \in {turn[u].memory, Blank}
    BY <1>5, <1>6 DEF Idle
  <2>2. \A u \in Turns : HasNumber(turn'[u].memory)
    BY <2>1, BlankMemory DEF TurnInv, MemoriesFit
  <2>3. \A m \in {turn[u].memory : u \in Turns} \cup {session, checkpoint} :
          m.submitted # None => m.submitted \in refunds
    BY DEF TurnInv, MemoriesFit, SubmittedIsReal
  <2>4. SubmittedIsReal'
    <3>1. Blank.submitted = None
      BY DEF Blank
    <3>2. \A u \in Turns : turn'[u].memory.submitted # None =>
                             turn'[u].memory.submitted \in refunds
      BY <2>1, <2>3, <3>1
    <3>3. session'.submitted # None => session'.submitted \in refunds
      BY <1>3, <2>3
    <3> QED BY <1>1, <2>3, <3>2, <3>3 DEF SubmittedIsReal
  <2> QED BY <1>1, <1>3, <2>2, <2>4 DEF TurnInv, MemoriesFit, RefundsAreOwned
<1>9. IntentFits'
  BY <1>5, <1>6 DEF TurnInv, IntentFits, Idle
<1>10. SerialFits'
  <2>1. ~overlapped => \A u \in Turns : u # t => ~Live(u)
    BY <1>1 DEF TurnInv, SerialFits
  <2>2. ~overlapped => \A u \in Turns : turn'[u].phase = "idle"
    BY <1>5, <1>6, <2>1 DEF Live, Idle
  <2>3. ~overlapped => Coherent(checkpoint)
    BY DEF TurnInv, SerialFits
  <2> QED BY <1>1, <1>3, <2>2, <2>3 DEF SerialFits, Live
<1> QED BY <1>7, <1>8, <1>9, <1>10 DEF TurnInv

LEMMA TurnInvariant == Spec => []TurnInv
<1>1. ASSUME Init PROVE TurnInv
  <2>1. TypeOK
    <3>1. turn \in [Turns -> [phase : Phase, intent : Domains \cup {"OTHER", None},
                              memory : Memory, current : BOOLEAN]]
      BY <1>1, IdleFits DEF Init
    <3>2. session \in Memory /\ checkpoint \in Memory
      BY <1>1, BlankMemory DEF Init
    <3>3. begun \in 0 .. MaxTurns
      BY <1>1 DEF Init
    <3>4. refunds \subseteq Orders /\ confirmedFor \subseteq Orders \cup {None}
      BY <1>1 DEF Init
    <3>5. overlapped \in BOOLEAN
      BY <1>1 DEF Init
    <3> QED BY <3>1, <3>2, <3>3, <3>4, <3>5 DEF TypeOK
  <2>2. /\ session = Blank /\ checkpoint = Blank
        /\ \A t \in Turns : turn[t].phase = "idle" /\ turn[t].memory = Blank
    BY <1>1 DEF Init, Idle
  <2>3. Blank.submitted = None /\ Blank.found = None
    BY DEF Blank
  <2>4. MemoriesFit
    BY <1>1, <2>2, <2>3, BlankMemory
       DEF Init, MemoriesFit, SubmittedIsReal, RefundsAreOwned
  <2>5. IntentFits /\ SerialFits
    BY <2>2, BlankMemory DEF IntentFits, SerialFits, Live
  <2> QED BY <2>1, <2>4, <2>5 DEF TurnInv
<1>2. TurnInv /\ [Next]_vars => TurnInv'
  <2> SUFFICES ASSUME TurnInv, [Next]_vars PROVE TurnInv'
    OBVIOUS
  <2>1. ASSUME NEW t \in Turns, NEW in \in Messages, Prepare(t, in) PROVE TurnInv'
    BY <2>1, PrepareFits
  <2>2. ASSUME NEW t \in Turns, Graph(t) PROVE TurnInv'
    BY <2>2, GraphFits
  <2>3. ASSUME NEW t \in Turns, ReadState(t) PROVE TurnInv'
    BY <2>3, ReadFits
  <2>4. ASSUME NEW t \in Turns, Persist(t) PROVE TurnInv'
    BY <2>4, PersistFits
  <2>5. ASSUME NEW t \in Turns, Fail(t) PROVE TurnInv'
    BY <2>5, EndFits DEF Fail
  <2>6. CASE UNCHANGED vars
    BY <2>6 DEF vars, TurnInv, TypeOK, MemoriesFit, SubmittedIsReal, RefundsAreOwned,
                IntentFits, SerialFits, Live
  <2> QED BY <2>1, <2>2, <2>3, <2>4, <2>5, <2>6 DEF Next
<1> QED BY <1>1, <1>2, PTL DEF Spec
-----------------------------------------------------------------------------
(* The theorems                                                            *)

\* Every variable keeps its type.
THEOREM TypeCorrect == Spec => []TypeOK
<1>1. TurnInv => TypeOK
  BY DEF TurnInv
<1> QED BY <1>1, TurnInvariant, PTL

\* However turns overlap, whatever they merge into one row: a refund is only
\* created for an order of this user (submit_refund_application looks the order
\* up by its number and its owner).
THEOREM OwnedRefunds == Spec => []RefundsAreOwned
<1>1. TurnInv => RefundsAreOwned
  BY DEF TurnInv, MemoriesFit
<1> QED BY <1>1, TurnInvariant, PTL

\* However turns overlap: no memory, in the row, in the checkpoint or in a turn
\* on its way, speaks of a submitted refund that is not there.
THEOREM RealSubmissions == Spec => []SubmittedIsReal
<1>1. TurnInv => SubmittedIsReal
  BY DEF TurnInv, MemoriesFit
<1> QED BY <1>1, TurnInvariant, PTL

\* As long as turns do not overlap, the order id of the row is that of its order
\* number (prepare_turn, persist_turn).
THEOREM OneOrderAtATime == Spec => []OrderIdFitsNumber
<1>1. TurnInv => OrderIdFitsNumber
  BY DEF TurnInv, SerialFits, Coherent, OrderIdFitsNumber
<1> QED BY <1>1, TurnInvariant, PTL

\* Nor does an eligibility result outlive a switch to another order
\* (prepare_turn, node_check_eligibility, persist_turn).
THEOREM EligibilityOfTheOrder == Spec => []EligibilityFitsOrder
<1>1. TurnInv => EligibilityFitsOrder
  BY DEF TurnInv, SerialFits, Coherent, EligibilityFitsOrder
<1> QED BY <1>1, TurnInvariant, PTL

\* At the stages of the FSM that call a tool, the registry's guard lets the call
\* through, but for the category the FSM never asks for.
THEOREM GuardAdmitsStages == Spec => []GuardFitsStages
<1>1. ASSUME TurnInv PROVE GuardFitsStages
  <2> SUFFICES ASSUME NEW t \in Turns
               PROVE  /\ At(t, {"ELIGIBILITY_CHECKED"}) =>
                           RefundGuard(t, "check_refund_eligibility") = "OK"
                      /\ Submitting(t) =>
                           RefundGuard(t, "submit_refund_application") =
                             IF turn[t].memory.category THEN "OK" ELSE "MISSING_SLOT"
    BY DEF GuardFitsStages
  <2> DEFINE m == turn[t].memory
  <2>1. ASSUME At(t, {"ELIGIBILITY_CHECKED", "SUBMITTED"})
        PROVE  Call(t).domain = "REFUND" /\ m.id # None /\ m.sn # None
    <3>1. m.domain \in {"REFUND", None} /\ HasNumber(m) /\ turn[t].intent = "REFUND"
      BY <1>1, <2>1 DEF At, TurnInv, IntentFits, MemoriesFit
    <3>2. m.id # None
      BY <2>1, StageHasOrder DEF At
    <3> QED BY <3>1, <3>2 DEF Call, HasNumber
  <2>2. ASSUME At(t, {"ELIGIBILITY_CHECKED"})
        PROVE  RefundGuard(t, "check_refund_eligibility") = "OK"
    <3>1. /\ Call(t).domain = "REFUND" /\ Call(t).stage = "ELIGIBILITY_CHECKED"
          /\ {"active_order_sn", "user_id"} \subseteq Call(t).slots
      BY <2>1, <2>2 DEF At, Call
    <3> QED BY <3>1 DEF RefundGuard, Guard, RefundCapabilities
  <2>3. ASSUME Submitting(t)
        PROVE  RefundGuard(t, "submit_refund_application") =
                 IF m.category THEN "OK" ELSE "MISSING_SLOT"
    <3>1. /\ At(t, {"SUBMITTED"}) /\ m.confirmed
          /\ m.reason /\ m.result # None /\ m.result.passed
      BY <2>3 DEF Submitting, At, Stage
    <3>2. /\ Call(t).domain = "REFUND" /\ Call(t).stage = "SUBMITTED"
          /\ Call(t).eligible /\ Call(t).confirmed
          /\ {"active_order_sn", "active_order_id", "refund_reason"} \subseteq Call(t).slots
          /\ "refund_reason_category" \in Call(t).slots <=> m.category
      BY <2>1, <3>1 DEF At, Call
    <3> QED BY <3>2 DEF RefundGuard, Guard, RefundCapabilities
  <2> QED BY <2>2, <2>3
<1> QED BY <1>1, TurnInvariant, PTL
=============================================================================
