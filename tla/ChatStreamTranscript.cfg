SPECIFICATION Spec
CHECK_DEADLOCK FALSE
CONSTANTS
  Clauses <- ClauseIds
  Canonical <- PolicyIds
  TopK = 2
  Pool = 4
  Turns = {t1}
  MaxTurns = 1
  MaxFailures = 1
  Trigger = 2
  Retain = 1
  Corpus <- TestCorpus
  Near <- TestNear
  File <- TestFiles
  Asked <- AnythingAsked
  Drafts <- TestDrafts
  Lists = {}
  None = None
INVARIANT ShownIsStored
