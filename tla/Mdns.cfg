SPECIFICATION FairSpec
INVARIANTS TableTells
PROPERTIES Heals Follows
CONSTANTS
  Names = {n1, n2}  Values = {v1, v2}  None = None  Threads = {t1, t2}
  Loss = TRUE  MaxChanges = 2
\* A client may have closed, and the network be at rest.
CHECK_DEADLOCK FALSE
