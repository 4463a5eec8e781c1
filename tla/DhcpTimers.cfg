SPECIFICATION MCSpec
CONSTANTS
  Proc = {p1}
  If = {erouter0, wan0}
  Leases = {2, 63}
  Word = 64
  MaxTime = 3
  None = None
  Hazard = {"renewal", "failover", "lapse", "sysevent", "uptime"}
SYMMETRY IfSymmetry
INVARIANTS TimersInv FailureKeepsValue
PROPERTIES WrapsOnlyAfterEnd ExactWhenQuiet TimersInOrder
