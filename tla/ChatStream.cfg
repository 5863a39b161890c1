SPECIFICATION Spec
CHECK_DEADLOCK FALSE
CONSTANTS
  Clauses <- ClauseIds
  Canonical <- PolicyIds
  TopK = 2
  Pool = 4
  Turns = {t1, t2}
  MaxTurns = 3
  MaxFailures = 1
  Trigger = 2
  Retain = 1
  Corpus <- TestCorpus
  Near <- TestNear
  File <- TestFiles
  Asked <- TestAsked
  Drafts <- TestDrafts
  Lists <- ShortLists
  None = None
SYMMETRY Symmetry
INVARIANT TypeOK
INVARIANT ShownIsVetted
INVARIANT OneAnswerShown
INVARIANT TranscriptIsTrue
INVARIANT NothingForgotten
INVARIANT EvidenceIsRankedRight
