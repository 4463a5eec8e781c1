SPECIFICATION FairSpec
CONSTANTS
  p1 = p1
  p2 = p2
  g1 = g1
  g2 = g2
  NULL = NULL
  NoTag = NoTag
  Proc = {p1, p2}
  Group = {g1}
  If = {eth0}
  Vid = {v1}
  Manages <- SharedManages
  Alias <- NoAlias
  Hazard = {"cmdFail", "extDel", "upRace", "restart", "plain", "noMem"}
  MaxEntries = 2
INVARIANTS TypeOK
PROPERTIES CallReturns
