SPECIFICATION MCSpec
CONSTANTS
  a1 = a1
  a2 = a2
  bad = bad
  Proc = {p1}
  If = {erouter0, wan0}
  Values <- MCValues
  Addr = {a1, a2}
  Junk = Junk
  Width = 4
  Word = 16
  Htonl <- MCHtonl
  MaxServers = 2
  Default = erouter0
  None = None
  Hazard = {"change", "sysevent"}
INVARIANTS WithinList FailureKeepsAnswer
PROPERTIES AnswersPublished Returns
