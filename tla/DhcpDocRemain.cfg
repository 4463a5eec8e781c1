SPECIFICATION Spec
CONSTANTS
  Proc = {p1}
  If = {erouter0}
  Leases = {4}
  Word = 64
  MaxTime = 8
  None = None
  Hazard = {"lapse"}
PROPERTIES RemainsWithinLease
