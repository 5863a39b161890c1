SPECIFICATION FairSpec
CONSTANTS
  Refunds = {r1, r2}
  CaseRow = "case"
  ToolRows <- OneToolRow
  Admins = {a1, a2}
  Workers = {w1}
  Nobody = Nobody
INVARIANT TypeOK
INVARIANT OneDecisionStands
PROPERTY VerdictsAreKept
PROPERTY RequestsAreAnswered
