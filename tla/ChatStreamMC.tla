----------------------------- MODULE ChatStreamMC -----------------------------
(* Instances of ChatStream for TLC. *)
EXTENDS ChatStream, TLC

Symmetry == Permutations(Turns)

\* A policy, its preamble, an FAQ that refers to a farther policy, that policy.
Two == "RETURN_001"
One == "RETURN_002"
Faq == "FAQ_001"
ClauseIds == {One, Two, Faq}
PolicyIds == {One, Two}

PolicyFile == [faq |-> FALSE, preamble |-> TRUE, sections |->
  <<[id |-> One, text |-> TRUE, mentions |-> {Two}],
    [id |-> Two, text |-> TRUE, mentions |-> {}]>>]
FaqFile == [faq |-> TRUE, preamble |-> TRUE, sections |->
  <<[id |-> Faq, text |-> TRUE, mentions |-> {Two, Faq}]>>]

\* The chunks of both files in the order of their distance to the question.
Chunk(document, i) == LoadedChunks(document)[i]
TestCorpus == <<Chunk(PolicyFile, 2), Chunk(PolicyFile, 1), Chunk(FaqFile, 1),
                Chunk(PolicyFile, 3)>>
TestFiles == <<"policy", "policy", "faq", "policy">>

\* A question next to a clause, its rule and the FAQ, and one next to nothing.
TestNear == {0, 3}

\* Every domain in some turn, and what may be classified.
TestAsked == <<{"POLICY", "OTHER"}, {"REFUND"}, {"ORDER"}>>

\* The first turn about anything.
AnythingAsked == [n \in 1 .. MaxTurns |-> Domains]

\* Two drafts the guard may let out, depending on what was retrieved.
TestDrafts ==
  {[blank |-> FALSE, shows |-> FALSE, applied |-> {One}, evidence |-> {One}],
   [blank |-> FALSE, shows |-> FALSE, applied |-> {Two}, evidence |-> {Two, Faq}]}

\* Lists of candidates, up to the length of TopK in the code.
ShortLists ==
  LET policies == {c \in Chunks : c.type = "policy" /\ c.canonical = {}
                                  /\ c.ids \in {{One}, {Two}}}
      faqs == {c \in Chunks : c.type = "faq" /\ c.ids = {Faq}
                              /\ c.canonical \subseteq PolicyIds}
      facts == policies \cup faqs
  IN UNION {[1 .. n -> facts] : n \in 0 .. 4}
=============================================================================
