SPECIFICATION MCSpec
CONSTANTS
  Chunk = 4
  Sizes = {1, 2, 3, 4, 5, 8, 9, 13}
  MaxOutput = 16
  Walker = {w1, w2}
  Block = {1, 2, 3}
  Name = {n1, n2}
  Id = {i1, i2}
  NIL = NIL
  on = on
  low = low
  need = need
  empty = empty
  one = one
  two = two
  long = long
  full = full
  State = {on, low, need}
  Chars <- MCChars
  Rooms = {1, 2, 3, 4, 6, 7}
  Holder = {h1, h2}
  Mem = {m1, m2, m3, m4}
  Static = Static
  NULL = NULL
  Thread = {t1, t2}
  Size = 4
  Value = {empty, one, two, long, full}
  Length <- MCLength
  Initial = one
  Zero = Zero
INVARIANTS InBounds CutOnlyWhenFull Counters ListIntact BatteryInBuffer TablesOwned MddSound
PROPERTIES SyscmdEnds ActsAsSequence GetFindsEntry EventLogAlone
CHECK_DEADLOCK FALSE
