SPECIFICATION FairSpec
INVARIANTS FlagTells
PROPERTIES Restored Known
CONSTANTS
  r1 = r1  c1 = c1  v1 = v1  v2 = v2
  Resources = {r1}  Controls = {c1}
  Values = {v1, v2}  None = None
  Worlds <- WorldsMC
  MaxFaults = 2
