SPECIFICATION MCSpec
CONSTANTS
  Proc = {p1, p2}
  Ap = {1, 10}
  Radio = {0, 1}
  Extends <- MCExtends
  Essid = {word, blank}
  Plain = {word}
  Quotable = {word, blank}
  Channel = {c6}
  Tag = {99, 100}
  Level = {Off, l1}
  Off = Off
  None = None
  Hazard = {"fails", "noReply", "crash"}
PROPERTIES AnswersRunningChannel
