SPECIFICATION MCSpec
CONSTANTS
  Caller = {c1, c2}
  Station = {s1, s2}
  Long = {s1}
  Rest = Rest
  NULL = NULL
  Acl <- MCAcl
  Room = 1
  Garbage = {0, 1, 3}
  Spare = 1
  Hazard = {"popen1", "popen2"}
INVARIANTS TypeOK WithinArray
PROPERTIES AnswersSnapshot KicksWhoStays Returns
