SPECIFICATION Spec
CONSTANTS
  p1 = p1
  p2 = p2
  g1 = g1
  g2 = g2
  NULL = NULL
  NoTag = NoTag
  Proc = {p1}
  Group = {g1, g2}
  If = {eth0}
  Vid = {v1, v2}
  Manages <- SoloManages
  Alias <- NoAlias
  Hazard = {}
  MaxEntries = 3
PROPERTIES AddGroupAssigns
