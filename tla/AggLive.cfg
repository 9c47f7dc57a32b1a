SPECIFICATION FairSpec
INVARIANTS MirrorCovered
PROPERTIES Converges
CONSTANTS
  dev = dev  snd = snd  d1 = d1  d2 = d2  bad = bad  h1 = h1  h2 = h2
  sA = sA
  Keys = {dev, snd}  Node = Node  Parent <- ParentMC  Rank <- RankMC
  Data = {d1, bad}  BadData = bad  None = None
  Hrefs = {h1}  NoHref = NoHref  Stores = {sA}  Backend <- OneStore
  Leftover = {d1}  TrueDivision = FALSE  Hasty = TRUE
  Faults = {"fail", "refuse", "lose", "garble", "forget", "nohref"}
  MaxFaults = 2  MaxOps = 2  MaxNodeRegs = 1  CutIn = 1
