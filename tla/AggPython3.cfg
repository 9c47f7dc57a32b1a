SPECIFICATION FairSpec
PROPERTIES NodeRegisters
CONSTANTS
  dev = dev  snd = snd  d1 = d1  d2 = d2  bad = bad  h1 = h1  h2 = h2
  sA = sA
  Keys = {dev, snd}  Node = Node  Parent <- ParentMC  Rank <- RankMC
  Data = {d1, d2}  BadData = bad  None = None
  Hrefs = {h1}  NoHref = NoHref  Stores = {sA}  Backend <- OneStore
  Leftover = {}  TrueDivision = TRUE  Hasty = TRUE
  Faults = {}
  MaxFaults = 0  MaxOps = 0  MaxNodeRegs = 1  CutIn = 2
