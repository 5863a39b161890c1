SPECIFICATION Spec
CHECK_DEADLOCK FALSE
CONSTANTS
  Sockets = {s1, s2, s3}
  Admins = {a1, a2}
  Submissions = {n1, n2}
  None = None
SYMMETRY Symmetry
INVARIANT TypeOK
 
PROPERTY QuietLoopTellsAll
