----------------------------- MODULE PolicyAnswer -----------------------------
(***************************************************************************)
(* How a policy question is answered: the policy documents cut into        *)
(* clauses, the retrieval with its rerank, and the guard that lets an      *)
(* answer of the model out only when its citations are among the evidence. *)
(* Pure operators; ChatStream takes the steps.                             *)
(*                                                                         *)
(* Distances are abstracted to the order of the rows and to how many of    *)
(* them are nearer than the threshold.  A text is what the guard sees of   *)
(* it: is it blank, and does it show a clause id.                          *)
(***************************************************************************)
EXTENDS Naturals, Sequences, FiniteSets, SequencesExt, FiniteSetsExt

CONSTANTS
  Clauses,     \* clause ids
  Canonical,   \* those of the policies, which an FAQ may refer to
  TopK,        \* how many chunks are evidence
  Pool         \* how many rows the query fetches

ASSUME PolicyAssumption ==
  Canonical \subseteq Clauses /\ TopK \in Nat \ {0} /\ Pool \in Nat /\ Pool >= TopK

SourceTypes == {"policy", "faq", "policy_rule"}

\* A row of knowledge_chunks: its meta_data.
Chunks == [type : SourceTypes, ids : SUBSET Clauses, canonical : SUBSET Clauses]

-----------------------------------------------------------------------------
(* load_policy_documents                                                   *)

\* A document: is it the FAQ, does it have a preamble, and its sections, each
\* with its id, whether it has any text, and the clauses the text mentions.
Section == [id : Clauses, text : BOOLEAN, mentions : SUBSET Clauses]

ClauseChunk(document, section) ==
  [type |-> IF document.faq THEN "faq" ELSE "policy",
   ids |-> {section.id},
   canonical |-> IF document.faq THEN section.mentions \cap Canonical ELSE {}]

\* The preamble of a policy is a rule of its own; the FAQ's is dropped.
Rules(document) ==
  IF document.preamble /\ ~document.faq
  THEN <<[type |-> "policy_rule", ids |-> {}, canonical |-> {}]>> ELSE <<>>

LoadedChunks(document) ==
  LET written == SelectSeq(document.sections, LAMBDA s : s.text) IN
  Rules(document) \o [i \in DOMAIN written |-> ClauseChunk(document, written[i])]

-----------------------------------------------------------------------------
(* retrieve_policy                                                         *)

\* The best rank of an FAQ among the candidates that refers to the clause.
Anchors(candidates, id) ==
  {i \in DOMAIN candidates : /\ candidates[i].type = "faq"
                             /\ id \in candidates[i].canonical}

\* Twice the position in the ranking: an authority that an FAQ refers to goes
\* half a rank before the first of them.
Position(candidates, i) ==
  LET anchors == UNION {Anchors(candidates, id) : id \in candidates[i].ids} IN
  IF candidates[i].type = "policy" /\ anchors # {}
  THEN 2 * Min(anchors) - 1 ELSE 2 * i

\* sorted(candidates, key): each goes after as many as have a smaller key, or
\* the same key and a smaller index.
SortedBy(candidates, key) ==
  LET Before(i) == {j \in DOMAIN key : key[j] < key[i] \/ (key[j] = key[i] /\ j < i)}
      Rank(i) == 1 + Cardinality(Before(i))
  IN [k \in DOMAIN candidates |-> candidates[CHOOSE i \in DOMAIN key : Rank(i) = k]]

\* Mutant of Reranked: authorities are pinned to the top.
RerankedToTop(candidates) ==
  SortedBy(candidates, [i \in DOMAIN candidates |->
                          IF Position(candidates, i) = 2 * i THEN 1 ELSE 0])

\* _rerank_by_authority
Reranked(candidates) ==
  SortedBy(candidates, [i \in DOMAIN candidates |-> Position(candidates, i)])

\* The facts among the near rows of the pool, the best TopK of them reranked.
Retrieved(rows, near) ==
  LET facts == SelectSeq(SubSeq(rows, 1, Min({near, Pool, Len(rows)})),
                         LAMBDA c : c.type # "policy_rule")
  IN Reranked(SubSeq(facts, 1, Min({TopK, Len(facts)})))

-----------------------------------------------------------------------------
(* The guard                                                               *)

\* allowed_evidence_ids
AllowedIds(evidence) ==
  UNION {evidence[i].ids \cup evidence[i].canonical : i \in DOMAIN evidence}

\* What the model may return in the structure asked for.
Candidate == [blank : BOOLEAN, shows : BOOLEAN,
              applied : SUBSET Clauses, evidence : SUBSET Clauses]

\* Mutant of Valid: the evidence may be any clause.
ValidAnyEvidence(candidate, allowed) ==
  /\ ~candidate.blank /\ ~candidate.shows
  /\ candidate.applied # {} /\ candidate.evidence # {}
  /\ candidate.applied \subseteq candidate.evidence

\* validate_policy_answer, with evidence present.
Valid(candidate, allowed) ==
  /\ ~candidate.blank /\ ~candidate.shows
  /\ candidate.applied # {} /\ candidate.evidence # {}
  /\ candidate.applied \subseteq candidate.evidence
  /\ candidate.evidence \subseteq allowed

\* PolicyAnswer, and the two answers that promise nothing.
Verified(candidate) == [kind |-> "verified", evidence |-> candidate.evidence]
SafeFallback == [kind |-> "refusal"]
NoEvidence == [kind |-> "no evidence"]

-----------------------------------------------------------------------------
(* What must hold of the rerank, whatever is retrieved                     *)

RefersTo(faq, policy) ==
  faq.type = "faq" /\ policy.type = "policy" /\ faq.canonical \cap policy.ids # {}

\* The rerank loses and invents nothing, puts an authority before every FAQ
\* that refers to it, leaves the others in the order of their distance, and puts
\* an authority before one of these only if such an FAQ is not behind it
\* (policy_retrieval.py: only to the place before that FAQ, not to the top).
RerankIsRight(candidates) ==
  LET places == DOMAIN candidates
      Refers(i, j) == RefersTo(candidates[i], candidates[j])
      Authority(j) == \E i \in places : Refers(i, j)
  IN \E order \in [places -> places] :
       /\ \A k, l \in places : order[k] = order[l] => k = l
       /\ Reranked(candidates) = [k \in places |-> candidates[order[k]]]
       /\ \A k, l \in places : Refers(order[l], order[k]) => k < l
       /\ \A k, l \in places :
            k < l /\ ~Authority(order[l]) =>
              IF Authority(order[k]) THEN \E i \in 1 .. l : Refers(order[i], order[k])
              ELSE order[k] < order[l]
=============================================================================
