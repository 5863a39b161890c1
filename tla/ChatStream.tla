------------------------------ MODULE ChatStream ------------------------------
(***************************************************************************)
(* A chat turn from the request to the end of its event stream: the graph  *)
(* with its policy, order and refund answers, what of it is shown to the   *)
(* user, what is stored in the transcript, and how the history of messages *)
(* is kept in the checkpoint, summarised and compacted.  Turns of one      *)
(* conversation may overlap.                                               *)
(*                                                                         *)
(* Turns are numbered.  The thread's newest checkpoint is one variable; a  *)
(* running graph keeps its own copy of the messages and writes it back     *)
(* after every node.                                                       *)
(***************************************************************************)
EXTENDS PolicyAnswer, SequencesExt, FiniteSetsExt

CONSTANTS
  Turns,       \* requests that may run at the same time
  MaxTurns,    \* bound: turns that are begun
  Trigger,     \* SUMMARY_TRIGGER_TURNS
  Retain,      \* SUMMARY_RETAIN_TURNS
  Corpus,      \* all chunks, the nearest to the policy question first
  Near,        \* how many of them may be nearer than the threshold
  File,        \* File[i]: the document of the i-th chunk
  Asked,       \* bound: Asked[n] is what turn n may be about
  Drafts,      \* what the policy model may return
  MaxFailures, \* bound: turns that fail
  Lists,       \* bound: lists of candidates to be reranked
  None

Actives == {"ORDER", "POLICY", "REFUND"}
Domains == Actives \cup {"OTHER"}

ASSUME StreamAssumption ==
  /\ MaxTurns \in Nat /\ MaxFailures \in Nat
  /\ Asked \in [1 .. MaxTurns -> SUBSET Domains]
  /\ Retain \in Nat \ {0} /\ Trigger > Retain
  /\ Corpus \in Seq(Chunks) /\ Near \subseteq 0 .. Len(Corpus)
  /\ DOMAIN File = DOMAIN Corpus /\ Drafts \subseteq Candidate

ASSUME ListsAssumption == Lists \subseteq Seq(Chunks)

VARIABLES
  session,     \* the row: active domain, and the turns its summary covers
  thread,      \* the newest checkpoint: messages and active domain
  transcript,  \* the rows of conversation_messages
  turn,        \* turn[t]: the turn a request runs
  log,         \* log[n]: history: what turn n was, showed, and how it ended
  overlapped   \* history: did two turns ever run at the same time?

vars == <<session, thread, transcript, turn, log, overlapped>>

Message == [by : {"user", "assistant"}, turn : 1 .. MaxTurns]
Says(by, n) == [by |-> by, turn |-> n]

\* What a user may see: words of the model, drafts of the structured outputs,
\* the answers of the workflows, and the placeholder of the transcript.
Text == {[kind |-> k] : k \in {"words", "internal", "order", "refund", "placeholder"}}
        \cup {SafeFallback, NoEvidence} \cup {Verified(d) : d \in Drafts}

ASSUME NoneAssumption == None \notin Text /\ None \notin Domains

Words == [kind |-> "words"]
Internal == [kind |-> "internal"]
Placeholder == [kind |-> "placeholder"]

Phase == {"idle", "prepared", "routing", "retrieving", "generating", "talking",
          "order", "refund", "ran", "read", "persisted", "appended"}

Idle == [phase |-> "idle", n |-> 0, active |-> None, summary |-> {}, messages |-> <<>>,
         evidence |-> <<>>, attempt |-> 0, answer |-> None, sent |-> FALSE,
         streamed |-> FALSE, compacted |-> FALSE]

Begun == DOMAIN log

-----------------------------------------------------------------------------
(* The knowledge base: etl_policy.process_file                             *)

\* The chunks a query may find: all of them, or while a file is imported, and
\* after an import that failed, the other files' and any of that file's.  The old
\* chunks are deleted and committed before the new ones are embedded, which are
\* committed batch by batch in the order of the file.
Stored ==
  {{i \in DOMAIN Corpus : File[i] # File[f] \/ i \in part} :
     f \in DOMAIN Corpus, part \in SUBSET DOMAIN Corpus}

\* Stored chunks, the nearest first, and how many of them are among the near.
Rows(stored) == LET order == SetToSortSeq(stored, <)
                IN [k \in DOMAIN order |-> Corpus[order[k]]]
NearRows(stored, near) == Cardinality({i \in stored : i <= near})

-----------------------------------------------------------------------------
(* The request and the graph                                               *)

\* Mutant of ActiveDomain: a turn about nothing sets it too.
ActiveDomainOfTurn(domain) == domain

\* Only a turn about a domain sets the active domain.
ActiveDomain(domain) == IF domain = "OTHER" THEN session.active ELSE domain

\* resolve_session and prepare_turn: the snapshot the turn works on.
Prepare(t, domain) ==
  LET n == Cardinality(Begun) + 1 IN
  /\ turn[t].phase = "idle" /\ n <= MaxTurns /\ domain \in Asked[n]
  /\ turn' = [turn EXCEPT ![t] = [Idle EXCEPT !.phase = "prepared", !.n = n,
                !.active = ActiveDomain(domain), !.summary = session.summary]]
  /\ log' = [k \in Begun \cup {n} |->
               IF k = n THEN [domain |-> "OTHER", shown |-> <<>>, retrieved |-> {},
                              ended |-> "no"]
               ELSE log[k]]
  /\ overlapped' = (overlapped \/ \E u \in Turns : turn[u].phase # "idle")
  /\ UNCHANGED <<session, thread, transcript>>

\* dispatch_router and route_intent
Node(domain) == CASE domain = "ORDER" -> "order"
                  [] domain = "POLICY" -> "retrieving"
                  [] domain = "REFUND" -> "refund"
                  [] OTHER -> "talking"

\* The graph starts from the newest checkpoint and the user's message.
Start(t) ==
  LET active == turn[t].active
      messages == Append(thread.messages, Says("user", turn[t].n)) IN
  /\ turn[t].phase = "prepared"
  /\ thread' = [messages |-> messages, active |-> active]
  /\ turn' = [turn EXCEPT ![t].messages = messages,
                ![t].phase = IF active = None THEN "routing" ELSE Node(active)]
  /\ log' = [log EXCEPT ![turn[t].n].domain = IF active = None THEN @ ELSE active]
  /\ UNCHANGED <<session, transcript, overlapped>>

\* Mutant of Forwarded: tokens of the structured outputs go out as well.
ForwardedAll(tags) == TRUE

\* A token event of a model call with these tags goes to the user.
Forwarded(tags) == tags \cap {"policy_guard", "internal_llm"} = {}

\* The turn with a streamed text, its log likewise.
Streamed(turn1, tags) ==
  IF Forwarded(tags) THEN [turn1 EXCEPT !.sent = TRUE, !.streamed = TRUE] ELSE turn1
Showing(n, texts) == [log EXCEPT ![n].shown = @ \o texts]
Shown(n, tags, text) == Showing(n, IF Forwarded(tags) THEN <<text>> ELSE <<>>)

\* Every node ends with a checkpoint of the turn's own copy.
Checkpoint(messages, t) == thread' = [messages |-> messages, active |-> turn[t].active]

\* intent_router: a structured output of the fast model, tagged internal.
Classify(t, domain) ==
  /\ turn[t].phase = "routing" /\ domain \in Asked[turn[t].n]
  /\ turn' = [turn EXCEPT ![t] =
                Streamed([turn[t] EXCEPT !.phase = Node(domain)], {"internal_llm"})]
  /\ log' = [Shown(turn[t].n, {"internal_llm"}, Internal) EXCEPT ![turn[t].n].domain = domain]
  /\ Checkpoint(turn[t].messages, t)
  /\ UNCHANGED <<session, transcript, overlapped>>

\* The node is over: its answer, and the message it adds if it adds one.
EndNode(t, after, answer, said) ==
  LET messages == IF said THEN Append(turn[t].messages, Says("assistant", turn[t].n))
                  ELSE turn[t].messages IN
  /\ Checkpoint(messages, t)
  /\ turn' = [turn EXCEPT ![t] = [after EXCEPT !.phase = "ran", !.answer = answer,
                                               !.messages = messages]]
  /\ UNCHANGED <<session, transcript, overlapped>>

\* The order workflow and the refund FSM answer with templates; the nodes of
\* the FSM that call a tool, and its entry, add no message.
AnswerOrder(t) ==
  /\ turn[t].phase = "order"
  /\ EndNode(t, turn[t], [kind |-> "order"], TRUE)
  /\ UNCHANGED log

AnswerRefund(t) ==
  /\ turn[t].phase = "refund"
  /\ \E said \in BOOLEAN : EndNode(t, turn[t], [kind |-> "refund"], said)
  /\ UNCHANGED log

\* generate without a policy question: the fast model streams its words, or
\* sends no token events, or says nothing.
Talk(t) ==
  /\ turn[t].phase = "talking"
  /\ \/ /\ EndNode(t, Streamed(turn[t], {}), Words, TRUE)
        /\ log' = Shown(turn[t].n, {}, Words)
     \/ EndNode(t, turn[t], Words, TRUE) /\ UNCHANGED log
     \/ EndNode(t, turn[t], None, TRUE) /\ UNCHANGED log

\* retrieve
Retrieve(t) ==
  /\ turn[t].phase = "retrieving"
  /\ \E stored \in Stored, near \in Near :
       LET evidence == Retrieved(Rows(stored), NearRows(stored, near)) IN
       /\ turn' = [turn EXCEPT ![t].phase = "generating", ![t].evidence = evidence]
       /\ log' = [log EXCEPT ![turn[t].n].retrieved = AllowedIds(evidence)]
  /\ Checkpoint(turn[t].messages, t)
  /\ UNCHANGED <<session, transcript, overlapped>>

\* Without evidence the model is not asked.
AnswerNoEvidence(t) ==
  /\ turn[t].phase = "generating" /\ turn[t].evidence = <<>>
  /\ EndNode(t, turn[t], NoEvidence, TRUE)
  /\ UNCHANGED log

\* One of at most two attempts; a draft that fails the guard, or that cannot
\* be parsed, is told to the next, and after the second the answer is safe.
Generate(t) ==
  LET after == Streamed(turn[t], {"policy_guard"})
      allowed == AllowedIds(turn[t].evidence) IN
  /\ turn[t].phase = "generating" /\ turn[t].evidence # <<>>
  /\ log' = Shown(turn[t].n, {"policy_guard"}, Internal)
  /\ \/ \E d \in Drafts : Valid(d, allowed) /\ EndNode(t, after, Verified(d), TRUE)
     \/ /\ turn[t].attempt = 0
        /\ turn' = [turn EXCEPT ![t] = [after EXCEPT !.attempt = 1]]
        /\ UNCHANGED <<session, thread, transcript, overlapped>>
     \/ turn[t].attempt = 1 /\ EndNode(t, after, SafeFallback, TRUE)

-----------------------------------------------------------------------------
(* After the graph                                                         *)

\* Mutant of Push: the node's answer is sent although tokens were.
PushAlways(t) == turn[t].answer # None

\* The answer of the node goes out in slices when no token did.
Push(t) == turn[t].answer # None /\ ~turn[t].sent

\* After the graph's last event: the fallback, then aget_state, which reads the
\* newest checkpoint, whichever turn wrote it.
ReadState(t) ==
  /\ turn[t].phase = "ran"
  /\ turn' = [turn EXCEPT ![t].phase = "read", ![t].sent = @ \/ Push(t),
                          ![t].messages = thread.messages, ![t].active = thread.active,
                          ![t].evidence = <<>>]
  /\ log' = Showing(turn[t].n, IF Push(t) THEN <<turn[t].answer>> ELSE <<>>)
  /\ UNCHANGED <<session, thread, transcript, overlapped>>

UserTurns(messages) ==
  {messages[i].turn : i \in {j \in DOMAIN messages : messages[j].by = "user"}}

\* Mutant of Summaries: the former summary is not handed to the model.
SummariesAfresh(former, messages) ==
  {former} \cup IF Cardinality(UserTurns(messages)) >= Trigger
                THEN {UserTurns(messages)} ELSE {}

\* What persist_turn writes as the summary: the one of its snapshot, or a new
\* one over it and all messages, when there are many and the model delivers.
Summaries(former, messages) ==
  {former} \cup IF Cardinality(UserTurns(messages)) >= Trigger
                THEN {former \cup UserTurns(messages)} ELSE {}

\* What the row's active domain may be after t's persist.  A turn without one writes
\* None over a row of the version it read and leaves a newer row alone; versions
\* are not modelled, so both may happen.
ActivesAfter(t) == IF turn[t].active # None THEN {turn[t].active}
                   ELSE {session.active, None}

Persist(t) ==
  /\ turn[t].phase = "read"
  /\ \E summary \in Summaries(turn[t].summary, turn[t].messages),
        active \in ActivesAfter(t), compacted \in BOOLEAN :
       /\ compacted => /\ Cardinality(UserTurns(turn[t].messages)) >= Trigger
                       /\ UserTurns(turn[t].messages) \subseteq summary
       /\ ~compacted => summary = turn[t].summary
       /\ session' = [active |-> active, summary |-> summary]
       /\ turn' = [turn EXCEPT ![t].phase = "persisted", ![t].compacted = compacted]
  /\ UNCHANGED <<thread, transcript, log, overlapped>>

\* Mutant of FinalAnswer: the node's answer counts as said even when it was not.
FinalAnswerOfNode(t) == IF turn[t].answer # None THEN turn[t].answer ELSE Words

\* final_answer is the streamed text, also when the fallback was pushed; the
\* refund domain gets a placeholder instead of nothing.
FinalAnswer(t) ==
  IF turn[t].streamed THEN Words
  ELSE IF turn[t].active = "REFUND" THEN Placeholder ELSE None

\* append_messages: question and answer in one transaction.
AppendRows(t) ==
  /\ turn[t].phase = "persisted"
  /\ transcript' = IF FinalAnswer(t) = None THEN transcript
                   ELSE transcript \o <<[turn |-> turn[t].n, text |-> None],
                                        [turn |-> turn[t].n, text |-> FinalAnswer(t)]>>
  /\ turn' = [turn EXCEPT ![t].phase = "appended"]
  /\ UNCHANGED <<session, thread, log, overlapped>>

\* Mutant of Retained: the Retain-th last question itself is cut off.
RetainedAfter(messages) ==
  LET users == {i \in DOMAIN messages : messages[i].by = "user"}
      from == {i \in users : Cardinality({j \in users : j >= i}) <= Retain}
  IN IF Cardinality(users) <= Retain THEN messages
     ELSE SubSeq(messages, Min(from) + 1, Len(messages))

\* retained_messages: from the last Retain-th message of the user on.
Retained(messages) ==
  LET users == {i \in DOMAIN messages : messages[i].by = "user"}
      from == {i \in users : Cardinality({j \in users : j >= i}) <= Retain}
  IN IF Cardinality(users) <= Retain THEN messages
     ELSE SubSeq(messages, Min(from), Len(messages))

\* The compaction replaces all messages of the thread, then [DONE].
Finish(t) ==
  LET messages == turn[t].messages
      retained == Retained(messages) IN
  /\ turn[t].phase = "appended"
  /\ thread' = IF turn[t].compacted /\ Len(retained) < Len(messages)
               THEN [thread EXCEPT !.messages = retained] ELSE thread
  /\ log' = [log EXCEPT ![turn[t].n].ended = "done"]
  /\ turn' = [turn EXCEPT ![t] = Idle]
  /\ UNCHANGED <<session, transcript, overlapped>>

\* An exception becomes an error event; a client that leaves, also by its own
\* timeout, ends the turn the same way.
Fail(t) ==
  /\ turn[t].phase # "idle"
  /\ Cardinality({n \in Begun : log[n].ended = "failed"}) < MaxFailures
  /\ log' = [log EXCEPT ![turn[t].n].ended = "failed"]
  /\ turn' = [turn EXCEPT ![t] = Idle]
  /\ UNCHANGED <<session, thread, transcript, overlapped>>

-----------------------------------------------------------------------------
Init ==
  /\ session = [active |-> None, summary |-> {}]
  /\ thread = [messages |-> <<>>, active |-> None]
  /\ transcript = <<>>
  /\ turn = [t \in Turns |-> Idle]
  /\ log = <<>>
  /\ overlapped = FALSE

Graph(t) ==
  \/ Start(t) \/ AnswerOrder(t) \/ AnswerRefund(t) \/ Talk(t)
  \/ Retrieve(t) \/ AnswerNoEvidence(t) \/ Generate(t)

Next ==
  \/ \E t \in Turns, domain \in Domains :
       Prepare(t, domain) \/ Classify(t, domain)
  \/ \E t \in Turns : \/ Graph(t) \/ ReadState(t) \/ Persist(t)
                      \/ AppendRows(t) \/ Finish(t) \/ Fail(t)

Spec == Init /\ [][Next]_vars

-----------------------------------------------------------------------------
(* What must hold                                                          *)

TypeOK ==
  /\ session \in [active : Actives \cup {None}, summary : SUBSET (1 .. MaxTurns)]
  /\ thread.messages \in Seq(Message) /\ thread.active \in Actives \cup {None}
  /\ \A i \in DOMAIN transcript :
       transcript[i].turn \in Begun /\ transcript[i].text \in Text \cup {None}
  /\ \A t \in Turns : /\ turn[t].phase \in Phase /\ turn[t].n \in 0 .. MaxTurns
                      /\ turn[t].answer \in Text \cup {None}
                      /\ turn[t].messages \in Seq(Message)
  /\ \A n \in Begun : /\ log[n].shown \in Seq(Text)
                      /\ log[n].ended \in {"no", "done", "failed"}

\* Of a policy answer the user sees nothing but a text whose citations were
\* all retrieved in this very turn, or one that promises nothing: no draft that
\* failed the guard, no token of a structured output, whatever an import
\* left in the knowledge base (nodes.py, chat.py: not one unverified fragment goes out).
ShownIsVetted ==
  \A n \in Begun :
    /\ Internal \notin Range(log[n].shown)
    /\ log[n].domain = "POLICY" =>
         \A text \in Range(log[n].shown) :
           \/ text \in {SafeFallback, NoEvidence}
           \/ /\ text.kind = "verified" /\ text.evidence # {}
              /\ text.evidence \subseteq log[n].retrieved

\* The evidence a turn works with is ranked right, whatever candidates it had;
\* all lists are looked at once, before the first turn (policy_retrieval.py,
\* _rerank_by_authority).
EvidenceIsRankedRight == log = <<>> => \A list \in Lists : RerankIsRight(list)

\* A turn that reaches [DONE] has shown one answer, never two and, outside
\* small talk, never none: filtered tokens do not count as the answer.
OneAnswerShown ==
  \A n \in Begun :
    /\ Len(log[n].shown) <= 1
    /\ log[n].ended = "done" /\ log[n].domain # "OTHER" => log[n].shown # <<>>

\* The transcript holds question and answer in pairs, no turn twice, and as
\* answer only what that turn has shown or the placeholder of a refund turn.
TranscriptIsTrue ==
  \A i \in DOMAIN transcript :
    LET n == transcript[i].turn IN
    /\ \A j \in DOMAIN transcript : transcript[j].turn = n => j - i \in -1 .. 1
    /\ \/ transcript[i].text = None
       \/ transcript[i].text \in Range(log[n].shown)
       \/ transcript[i].text = Placeholder /\ (overlapped \/ log[n].domain = "REFUND")

\* Compaction forgets nothing: the message of every finished turn is still in
\* the thread, word for word if it is among the last Retain, or the summary was
\* made with it, as long as turns do not overlap, whatever fails in between.
NothingForgotten ==
  overlapped \/ \A n \in Begun : log[n].ended = "done" =>
    \/ n \in UserTurns(thread.messages)
    \/ n \in session.summary /\ Cardinality({k \in Begun : k >= n}) > Retain

\* ConversationMessage is the "user-visible transcript for restoring the chat":
\* the answer a finished turn has shown is in it.
ShownIsStored ==
  \A n \in Begun : log[n].ended = "done" /\ log[n].shown # <<>> =>
    \E i \in DOMAIN transcript :
      transcript[i].turn = n /\ transcript[i].text \in Range(log[n].shown)
=============================================================================
