SPECIFICATION FairSpec
INVARIANTS TypeOK
PROPERTIES NodeRegisters PeerToPeer Stops
CONSTANTS
  dev = dev  snd = snd  d1 = d1  d2 = d2  bad = bad  h1 = h1  h2 = h2
  sA = sA
  Keys = {dev}  Node = Node  Parent <- ParentMC  Rank <- RankMC
  Data = {d1}  BadData = bad  None = None
  Hrefs = {h1}  NoHref = NoHref  Stores = {sA}  Backend <- OneStore
  Leftover = {}  TrueDivision = FALSE  Hasty = TRUE
  Faults = {"fail", "refuse", "lose", "late", "garble", "forget", "nohref", "outage"}
  MaxFaults = 2  MaxOps = 1  MaxNodeRegs = 1  CutIn = 2
