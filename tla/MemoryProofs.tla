---------------------------- MODULE MemoryProofs ----------------------------
(***************************************************************************)
(* Theorems about the memory the HAL shares with its callers: _syscmd of   *)
(* the Wi-Fi HAL, the voice HAL and the cable modem HAL.                   *)
(*                                                                         *)
(* For every size of chunk and buffer and every output, _syscmd stays in   *)
(* the caller's buffer and gives up output only when the buffer is full.   *)
(* For any answers, buffers, callers and memory, the texts of the voice    *)
(* HAL about the battery stay in the buffer, and every block has one       *)
(* caller who can free it.  For any number of threads, any size of the     *)
(* array and any texts, a reader of the MDD override stays in the array, a *)
(* call that stores a text without meeting another leaves that text, and a *)
(* call for the event log that meets no other gets both entries.           *)
(***************************************************************************)
EXTENDS MCMemory, FiniteSetTheorems, SequenceTheorems, TLAPS

-----------------------------------------------------------------------------
(* _syscmd                                                                 *)

USE ChunkAssumption, SizesAssumption, OutputAssumption
    DEF ChunkAssumption, SizesAssumption, OutputAssumption

(* What a call starts with: all of the buffer is left. *)
LEMMA InitCounters == Init => Counters
<1>. SUFFICES ASSUME Init PROVE Counters
  OBVIOUS
<1>1. size \in Nat /\ size >= 1
  BY DEF Init
<1>2. left \in Nat
  BY DEF Init
<1>3. /\ eof \in BOOLEAN /\ ~eof
      /\ pc = "popen" /\ ret = "none"
      /\ off = 0 /\ high = 0 /\ bufSize = size /\ size \in Sizes
  BY DEF Init
<1>. QED
  BY <1>1, <1>2, <1>3 DEF Counters, TypeOK

(* What fgets() may return keeps the counters of the loop in step. *)
LEMMA FgetsCounters == ASSUME Counters, Fgets PROVE Counters'
<1>1. /\ bufSize \in Nat /\ off \in Nat /\ left \in Nat /\ size \in Nat
      /\ size' = size /\ ret' = ret
      /\ bufSize >= 1 /\ bufSize = size - off /\ high \in Nat /\ high <= size
  BY DEF Counters, TypeOK, Fgets
<1>2. Bufbytes \in Nat /\ Bufbytes <= bufSize
      /\ (Bufbytes < 2 => bufSize <= 2)
  BY <1>1 DEF Bufbytes
<1>3. CASE \E r \in 1 .. (Bufbytes - 1) : r <= left /\ ReadLine(r)
  <2>1. PICK r \in 1 .. (Bufbytes - 1) : r <= left /\ ReadLine(r)
    BY <1>3
  <2>2. r \in Nat /\ r < bufSize
    BY <1>1, <1>2, <2>1
  <2>3. /\ off' \in Nat /\ bufSize' \in Nat /\ left' \in Nat
        /\ bufSize' = size' - off' /\ off' < size'
    BY <1>1, <2>1, <2>2 DEF ReadLine
  <2>4. high' \in Nat /\ high' <= size'
    BY <1>1, <2>1, <2>2 DEF ReadLine, Written
  <2>5. eof' \in BOOLEAN /\ (eof' => left' = 0)
    <3>1. CASE eof' = FALSE
      BY <3>1
    <3>2. CASE left = r /\ r < Bufbytes - 1 /\ eof' = TRUE
      BY <1>1, <2>1, <2>2, <3>2 DEF ReadLine
    <3>. QED
      BY <2>1, <3>1, <3>2 DEF ReadLine
  <2>6. pc' = "loop" /\ pc = "fgets"
    BY <2>1 DEF ReadLine, Fgets
  <2>7. ret' = "OK" => left' = 0 \/ off' >= size' - 2
    BY <1>1, <2>1, <2>2, <2>6 DEF Counters, ReadLine
  <2>. QED
    BY <1>1, <2>3, <2>4, <2>5, <2>6, <2>7 DEF Counters, TypeOK
<1>4. CASE (Bufbytes < 2 \/ left = 0) /\ NothingRead
  <2>1. left' = 0 \/ off' >= size' - 2
    BY <1>1, <1>2, <1>4 DEF NothingRead
  <2>. QED
    BY <1>1, <1>4, <2>1 DEF Counters, TypeOK, NothingRead
<1>. QED
  BY <1>3, <1>4 DEF Fgets

LEMMA StepCounters == ASSUME Counters, [Next]_vars PROVE Counters'
<1>1. CASE Popen
  BY <1>1 DEF Counters, TypeOK, Popen
<1>2. CASE Loop
  BY <1>2 DEF Counters, TypeOK, Loop, Written
<1>3. CASE Fgets
  BY <1>3, FgetsCounters
<1>4. CASE Close
  BY <1>4 DEF Counters, TypeOK, Close, Written
<1>5. CASE UNCHANGED vars
  BY <1>5 DEF Counters, TypeOK, vars
<1>. QED
  BY <1>1, <1>2, <1>3, <1>4, <1>5 DEF Next

-----------------------------------------------------------------------------
(* The counters of _syscmd agree at every step. *)
THEOREM CountersAgree == Spec => []Counters
<1>1. Counters /\ [Next]_vars => Counters'
  BY StepCounters
<1>. QED
  BY InitCounters, <1>1, PTL DEF Spec

(* _syscmd (180-213) writes no byte behind the caller's buffer.            *)
THEOREM SyscmdInBounds == Spec => []InBounds
<1>1. Counters => InBounds
  BY DEF Counters, InBounds
<1>. QED
  BY <1>1, CountersAgree, PTL

(* It drops output only when at most one byte of room for text is left.    *)
THEOREM SyscmdCutsOnlyWhenFull == Spec => []CutOnlyWhenFull
<1>1. Counters => CutOnlyWhenFull
  BY DEF Counters, CutOnlyWhenFull
<1>. QED
  BY <1>1, CountersAgree, PTL

-----------------------------------------------------------------------------
(* The voice HAL                                                           *)

USE CharsAssumption, RoomsAssumption, StateAssumption, MemAssumption
    DEF CharsAssumption, RoomsAssumption, StateAssumption, MemAssumption

BatteryTypeOK ==
  /\ checked \in BOOLEAN
  /\ room \in Rooms /\ Offers(room)
  /\ len \in Nat /\ chars \in Nat /\ written \in Nat
  /\ asked \in State \cup {NULL}

(* A length of 0 would let a call write behind a buffer that it takes to   *)
(* be empty: the zero of a text is always counted.                         *)
BatteryInv == BatteryTypeOK /\ len >= 1 /\ BatteryInBuffer

LEMMA InitBattery == MtaInit => BatteryInv
BY DEF MtaInit, BatteryInv, BatteryTypeOK, BatteryInBuffer

(* A buffer that nobody has written to yet. *)
LEMMA FreshBuffer ==
  ASSUME checked' \in BOOLEAN, room' \in Rooms, Offers(room)', len' = room',
         chars' = 0, written' = 0, asked' = NULL
  PROVE  BatteryInv'
BY DEF BatteryInv, BatteryTypeOK, BatteryInBuffer

(* A text either fits into what the length says there is, or is replaced   *)
(* by an empty one; without the library the buffer holds every text.       *)
LEMMA BatteryGetStep ==
  ASSUME BatteryInv, NEW s \in State, BatteryGet(s)
  PROVE  BatteryInv'
<1>. USE DEF BatteryInv
<1>1. /\ room \in Nat /\ len \in Nat /\ written \in Nat /\ Chars[s] \in Nat
      /\ checked' = checked /\ room' = room /\ asked' = s
      /\ written <= room /\ len <= room
  BY DEF BatteryTypeOK, BatteryInBuffer, BatteryGet
<1>2. ~checked => Chars[s] < room
  BY DEF BatteryTypeOK, Offers
<1>3. Offers(room)'
  BY <1>1 DEF BatteryTypeOK, Offers
<1>4. CASE Fits(s)
  <2>1. Chars[s] < room
    BY <1>1, <1>2, <1>4 DEF Fits
  <2>2. /\ len' = Chars[s] + 1 /\ chars' = Chars[s]
        /\ written' \in {written, Chars[s] + 1}
    BY <1>4 DEF BatteryGet, NewLen
  <2>. QED
    BY <1>1, <1>3, <2>1, <2>2 DEF BatteryTypeOK, BatteryInBuffer
<1>5. CASE ~Fits(s)
  <2>1. len' = 1 /\ chars' = 0 /\ written' \in {written, 1}
    BY <1>5 DEF BatteryGet, NewLen
  <2>. QED
    BY <1>1, <1>3, <2>1 DEF BatteryTypeOK, BatteryInBuffer
<1>. QED
  BY <1>4, <1>5

LEMMA NextBattery == BatteryInv /\ [MtaNext]_mtaVars => BatteryInv'
<1>. SUFFICES ASSUME BatteryInv, [MtaNext]_mtaVars PROVE BatteryInv'
  OBVIOUS
<1>1. ASSUME NEW s \in State, BatteryGet(s) PROVE BatteryInv'
  BY <1>1, BatteryGetStep
<1>2. ASSUME NEW r \in Rooms, NewBuffer(r) PROVE BatteryInv'
  <2>1. Offers(room)' /\ checked' \in BOOLEAN
    BY <1>2 DEF NewBuffer, Offers, BatteryInv, BatteryTypeOK
  <2>. QED
    BY <1>2, <2>1, FreshBuffer DEF NewBuffer
<1>3. CASE SetLen
  BY <1>3 DEF SetLen, BatteryInv, BatteryTypeOK, BatteryInBuffer, Offers
<1>4. ASSUME UNCHANGED <<checked, battery>> PROVE BatteryInv'
  BY <1>4 DEF battery, BatteryInv, BatteryTypeOK, BatteryInBuffer, Offers
<1>5. ASSUME NEW h \in Holder,
             GetNothing(h) \/ GetOne(h) \/ GetMtaLog(h) \/ FreeTable(h)
      PROVE  UNCHANGED <<checked, battery>>
  BY <1>5 DEF GetNothing, GetOne, GetMtaLog, FreeTable, Hands
<1>6. CASE OutOfMemory
  <2>1. Offers(room)' /\ checked' \in BOOLEAN
    BY <1>6 DEF OutOfMemory, Offers, BatteryInv, BatteryTypeOK
  <2>. QED
    BY <1>6, <2>1, FreshBuffer DEF OutOfMemory
<1>7. CASE UNCHANGED mtaVars
  BY <1>4, <1>7 DEF mtaVars
<1>. QED
  BY <1>1, <1>2, <1>3, <1>4, <1>5, <1>6, <1>7 DEF MtaNext

(* Nothing is written behind the buffer of a caller that asks about the    *)
(* battery, also one that never sets *len again (463-495).                 *)
THEOREM BatteryStaysInBuffer == MtaSpec => []BatteryInBuffer
<1>1. BatteryInv => BatteryInBuffer
  BY DEF BatteryInv
<1>. QED
  BY <1>1, InitBattery, NextBattery, PTL DEF MtaSpec

-----------------------------------------------------------------------------
Single(b) == [count |-> 1, array |-> b, description |-> <<>>]
Pair(b, d, e) == [count |-> 2, array |-> b, description |-> <<d, e>>]

(* The tables there are: an array, and for MtaLog its two texts, each in a *)
(* block of its own.                                                       *)
Apart(b, d, e) == b # d /\ b # e /\ (d # e \/ d = NULL)
IsPair(x) == \E b \in Mem, d, e \in Mem \cup {NULL} :
               x = Pair(b, d, e) /\ Apart(b, d, e)
IsTable(x) == x = NoTable \/ (\E b \in Mem : x = Single(b)) \/ IsPair(x)

Held(x) == PointersOf(x) \ {NULL}

TablesInv ==
  /\ DOMAIN table = Holder
  /\ table = [h \in Holder |-> table[h]]
  /\ \A h \in Holder : IsTable(table[h])
  /\ allocated = UNION {Held(table[h]) : h \in Holder}
  /\ \A g, h \in Holder : g # h => Held(table[g]) \cap Held(table[h]) = {}

(* What a table of each kind points to. *)
LEMMA HeldByNone == Held(NoTable) = {}
BY DEF Held, PointersOf, NoTable

LEMMA HeldBySingle == ASSUME NEW b \in Mem PROVE Held(Single(b)) = {b}
BY DEF Held, PointersOf, Single

LEMMA HeldByPair ==
  ASSUME NEW b \in Mem, NEW d, NEW e
  PROVE  Held(Pair(b, d, e)) = {b, d, e} \ {NULL}
<1>1. DOMAIN <<d, e>> = {1, 2}
  OBVIOUS
<1>2. PointersOf(Pair(b, d, e)) = {b} \cup {<<d, e>>[k] : k \in {1, 2}}
  BY <1>1 DEF PointersOf, Pair
<1>3. {<<d, e>>[k] : k \in {1, 2}} = {d, e}
  OBVIOUS
<1>. QED
  BY <1>2, <1>3 DEF Held

(* A pair has a block for its array and one for each text it has. *)
LEMMA BlocksOfPair ==
  ASSUME NEW b \in Mem, NEW d \in Mem \cup {NULL}, NEW e \in Mem \cup {NULL},
         Apart(b, d, e)
  PROVE  Cardinality(Held(Pair(b, d, e))) =
           1 + Cardinality({k \in DOMAIN Pair(b, d, e).description :
                              Pair(b, d, e).description[k] # NULL})
<1>. DEFINE x == Pair(b, d, e)
            filled == {k \in DOMAIN x.description : x.description[k] # NULL}
<1>. SUFFICES Cardinality(Held(x)) = 1 + Cardinality(filled)
  OBVIOUS
<1>. HIDE DEF x, filled
<1>1. DOMAIN <<d, e>> = {1, 2} /\ <<d, e>>[1] = d /\ <<d, e>>[2] = e
  OBVIOUS
<1>2. filled = {k \in {1, 2} : <<d, e>>[k] # NULL}
  BY <1>1 DEF Pair, x, filled
<1>3. Held(x) = {b, d, e} \ {NULL}
  BY HeldByPair DEF x
<1>4. IsFiniteSet({}) /\ Cardinality({}) = 0
  BY FS_EmptySet
<1>5. IsFiniteSet({b}) /\ Cardinality({b}) = 1
  BY FS_Singleton
<1>6. IsFiniteSet({1}) /\ Cardinality({1}) = 1 /\ Cardinality({2}) = 1
  BY FS_Singleton
<1>7. CASE d = NULL /\ e = NULL
  <2>1. filled = {} /\ Held(x) = {b}
    BY <1>1, <1>2, <1>3, <1>7
  <2>. QED
    BY <1>4, <1>5, <2>1
<1>8. CASE d # NULL /\ e = NULL
  <2>1. filled = {1} /\ Held(x) = {b} \cup {d} /\ d \notin {b}
    BY <1>1, <1>2, <1>3, <1>8 DEF Apart
  <2>2. Cardinality({b} \cup {d}) = Cardinality({b}) + 1
    BY <1>5, <2>1, FS_AddElement
  <2>. QED
    BY <1>5, <1>6, <2>1, <2>2
<1>9. CASE d = NULL /\ e # NULL
  <2>1. filled = {2} /\ Held(x) = {b} \cup {e} /\ e \notin {b}
    BY <1>1, <1>2, <1>3, <1>9 DEF Apart
  <2>2. Cardinality({b} \cup {e}) = Cardinality({b}) + 1
    BY <1>5, <2>1, FS_AddElement
  <2>. QED
    BY <1>5, <1>6, <2>1, <2>2
<1>10. CASE d # NULL /\ e # NULL
  <2>1. /\ filled = {1} \cup {2} /\ Held(x) = ({b} \cup {d}) \cup {e}
        /\ d \notin {b} /\ e \notin {b} \cup {d}
    BY <1>1, <1>2, <1>3, <1>10 DEF Apart
  <2>2. IsFiniteSet({b} \cup {d}) /\ Cardinality({b} \cup {d}) = 2
    <3>1. /\ IsFiniteSet({b} \cup {d})
          /\ Cardinality({b} \cup {d}) = Cardinality({b}) + 1
      BY <1>5, <2>1, FS_AddElement, Zenon
    <3>. QED
      BY <1>5, <3>1
  <2>3. Cardinality(({b} \cup {d}) \cup {e}) = 3
    <3>1. PICK S : S = {b} \cup {d}
      OBVIOUS
    <3>2. IsFiniteSet(S) /\ Cardinality(S) = 2 /\ e \notin S
      BY <2>1, <2>2, <3>1
    <3>3. Cardinality(S \cup {e}) = Cardinality(S) + 1
      BY <3>2, FS_AddElement, Zenon
    <3>. QED
      BY <3>1, <3>2, <3>3
  <2>4. Cardinality({1} \cup {2}) = Cardinality({1}) + 1
    <3>1. 2 \notin {1}
      OBVIOUS
    <3>. QED
      BY <1>6, <3>1, FS_AddElement
  <2>5. Cardinality(Held(x)) = 3
    BY <2>1, <2>3
  <2>6. Cardinality(filled) = 2
    BY <1>6, <2>1, <2>4
  <2>. QED
    BY <2>5, <2>6
<1>. QED
  BY <1>7, <1>8, <1>9, <1>10

(* What TablesOwned says of one table. *)
LEMMA TableAdds ==
  ASSUME NEW x, IsTable(x)
  PROVE  /\ x.count > 0 <=> x.array # NULL
         /\ x.array # NULL =>
              Cardinality(Held(x)) =
                1 + Cardinality({k \in DOMAIN x.description :
                                   x.description[k] # NULL})
<1>1. CASE x = NoTable
  BY <1>1 DEF NoTable
<1>2. CASE \E b \in Mem : x = Single(b)
  <2>1. PICK b \in Mem : x = Single(b)
    BY <1>2
  <2>2. x.count = 1 /\ x.array = b /\ x.description = <<>>
    BY <2>1 DEF Single
  <2>3. {k \in DOMAIN x.description : x.description[k] # NULL} = {}
    BY <2>2
  <2>4. Cardinality(Held(x)) = 1
    BY <2>1, HeldBySingle, FS_Singleton
  <2>5. Cardinality({}) = 0
    BY FS_EmptySet
  <2>. QED
    BY <2>2, <2>3, <2>4, <2>5
<1>3. CASE IsPair(x)
  <2>1. PICK b \in Mem, d \in Mem \cup {NULL}, e \in Mem \cup {NULL} :
          x = Pair(b, d, e) /\ Apart(b, d, e)
    BY <1>3 DEF IsPair
  <2>2. x.count = 2 /\ x.array = b
    BY <2>1 DEF Pair
  <2>. QED
    BY <2>1, <2>2, BlocksOfPair
<1>. QED
  BY <1>1, <1>2, <1>3 DEF IsTable

-----------------------------------------------------------------------------
LEMMA InitTables == MtaInit => TablesInv
<1>. SUFFICES ASSUME MtaInit PROVE TablesInv
  OBVIOUS
<1>1. /\ table = [h \in Holder |-> NoTable] /\ allocated = {}
      /\ \A h \in Holder : table[h] = NoTable
  BY DEF MtaInit
<1>. QED
  BY <1>1, HeldByNone DEF TablesInv, IsTable

(* A call that hands out a table x gives blocks that nobody holds yet.     *)
LEMMA HandsStep ==
  ASSUME TablesInv, NEW h \in Holder, NEW x, IsTable(x), table[h] = NoTable,
         table' = [table EXCEPT ![h] = x],
         allocated' = allocated \cup Held(x), Held(x) \cap allocated = {}
  PROVE  TablesInv'
<1>1. /\ DOMAIN table' = Holder /\ table' = [g \in Holder |-> table'[g]]
      /\ table'[h] = x
      /\ \A g \in Holder \ {h} : table'[g] = table[g]
  BY DEF TablesInv
<1>2. \A g \in Holder : IsTable(table'[g])
  BY <1>1 DEF TablesInv
<1>3. allocated = UNION {Held(table[g]) : g \in Holder \ {h}}
  BY HeldByNone DEF TablesInv
<1>4. allocated' = UNION {Held(table'[g]) : g \in Holder}
  BY <1>1, <1>3
<1>5. \A g \in Holder \ {h} : Held(table'[g]) \cap Held(x) = {}
  BY <1>1, <1>3
<1>6. \A f, g \in Holder : f # g => Held(table'[f]) \cap Held(table'[g]) = {}
  <2>. SUFFICES ASSUME NEW f \in Holder, NEW g \in Holder, f # g
                PROVE  Held(table'[f]) \cap Held(table'[g]) = {}
    OBVIOUS
  <2>1. CASE f = h
    BY <1>1, <1>5, <2>1
  <2>2. CASE g = h
    BY <1>1, <1>5, <2>2
  <2>3. CASE f # h /\ g # h
    BY <1>1, <2>3 DEF TablesInv
  <2>. QED
    BY <2>1, <2>2, <2>3
<1>7. \A g \in Holder : IsTable(table[g])'
  BY <1>2 DEF IsTable, IsPair, NoTable
<1>. QED
  BY <1>1, <1>4, <1>6, <1>7 DEF TablesInv, Held, PointersOf

LEMMA GetNothingStep ==
  ASSUME TablesInv, NEW h \in Holder, GetNothing(h)
  PROVE  TablesInv'
<1>1. /\ table[h] = NoTable /\ table' = [table EXCEPT ![h] = NoTable]
      /\ allocated' = allocated
  BY DEF GetNothing, Hands, NoTable
<1>. QED
  BY <1>1, HandsStep, HeldByNone DEF IsTable

LEMMA GetOneStep ==
  ASSUME TablesInv, NEW h \in Holder, GetOne(h)
  PROVE  TablesInv'
<1>1. PICK b \in Mem \ allocated :
        Hands(h, b, <<>>) /\ allocated' = allocated \cup {b}
  BY DEF GetOne
<1>2. table[h] = NoTable /\ table' = [table EXCEPT ![h] = Single(b)]
  BY <1>1 DEF Hands, Single
<1>3. IsTable(Single(b))
  BY DEF IsTable
<1>4. /\ allocated' = allocated \cup Held(Single(b))
      /\ Held(Single(b)) \cap allocated = {}
  BY <1>1, HeldBySingle
<1>. QED
  BY <1>2, <1>3, <1>4, HandsStep

LEMMA GetMtaLogStep ==
  ASSUME TablesInv, NEW h \in Holder, GetMtaLog(h)
  PROVE  TablesInv'
<1>1. PICK b \in Mem \ allocated :
        \E new \in [1 .. 2 -> (Mem \ (allocated \cup {b})) \cup {NULL}] :
          /\ new[1] # new[2] \/ new[1] = NULL
          /\ Hands(h, b, <<new[1], new[2]>>)
          /\ allocated' = allocated \cup ({b, new[1], new[2]} \cap Mem)
  BY DEF GetMtaLog, Descriptions
<1>2. PICK d \in (Mem \ (allocated \cup {b})) \cup {NULL},
           e \in (Mem \ (allocated \cup {b})) \cup {NULL} :
        /\ d # e \/ d = NULL
        /\ Hands(h, b, <<d, e>>)
        /\ allocated' = allocated \cup ({b, d, e} \cap Mem)
  BY <1>1
<1>3. <<d, e>> # <<>> /\ b # NULL
  OBVIOUS
<1>4. table[h] = NoTable /\ table' = [table EXCEPT ![h] = Pair(b, d, e)]
  BY <1>2, <1>3 DEF Hands, Pair
<1>5. Held(Pair(b, d, e)) = {b, d, e} \cap Mem
  BY HeldByPair
<1>6. allocated' = allocated \cup Held(Pair(b, d, e))
  BY <1>2, <1>5
<1>7. NULL \notin allocated
  BY DEF TablesInv, Held
<1>8. Held(Pair(b, d, e)) \cap allocated = {}
  BY <1>5, <1>7
<1>9. Apart(b, d, e)
  BY <1>2, <1>3 DEF Apart
<1>10. IsTable(Pair(b, d, e))
  BY <1>9 DEF IsTable, IsPair
<1>. QED
  BY <1>4, <1>6, <1>8, <1>10, HandsStep

(* No other caller holds a block of the table that is freed. *)
LEMMA FreeTableStep ==
  ASSUME TablesInv, NEW h \in Holder, FreeTable(h)
  PROVE  TablesInv'
<1>1. /\ table' = [table EXCEPT ![h] = NoTable]
      /\ allocated' = allocated \ PointersOf(table[h])
  BY DEF FreeTable
<1>2. /\ DOMAIN table' = Holder /\ table' = [g \in Holder |-> table'[g]]
      /\ table'[h] = NoTable
      /\ \A g \in Holder \ {h} : table'[g] = table[g]
  BY <1>1 DEF TablesInv
<1>3. allocated' = allocated \ Held(table[h])
  BY <1>1 DEF TablesInv, Held
<1>4. allocated' = UNION {Held(table[g]) : g \in Holder \ {h}}
  BY <1>3 DEF TablesInv
<1>5. allocated' = UNION {Held(table'[g]) : g \in Holder}
  BY <1>2, <1>4, HeldByNone
<1>6. \A f, g \in Holder : f # g => Held(table'[f]) \cap Held(table'[g]) = {}
  BY <1>2, HeldByNone DEF TablesInv
<1>7. \A g \in Holder : IsTable(table[g])'
  BY <1>2 DEF TablesInv, IsTable, IsPair, NoTable
<1>. QED
  BY <1>2, <1>5, <1>6, <1>7 DEF TablesInv, Held, PointersOf

LEMMA NextTables == TablesInv /\ [MtaNext]_mtaVars => TablesInv'
<1>. SUFFICES ASSUME TablesInv, [MtaNext]_mtaVars PROVE TablesInv'
  OBVIOUS
<1>1. ASSUME UNCHANGED memory PROVE TablesInv'
  <2>1. table' = table /\ allocated' = allocated
    BY <1>1 DEF memory
  <2>2. \A h \in Holder : IsTable(table[h])'
    BY <2>1 DEF TablesInv, IsTable, IsPair, NoTable
  <2>3. DOMAIN table' = Holder /\ table' = [h \in Holder |-> table'[h]]
    BY <2>1 DEF TablesInv
  <2>4. allocated' = UNION {Held(table'[h]) : h \in Holder}
    BY <2>1 DEF TablesInv
  <2>5. \A g, h \in Holder : g # h => Held(table'[g]) \cap Held(table'[h]) = {}
    BY <2>1 DEF TablesInv
  <2>. QED
    BY <2>2, <2>3, <2>4, <2>5 DEF TablesInv, Held, PointersOf
<1>2. ASSUME (\E s \in State : BatteryGet(s)) \/ (\E r \in Rooms : NewBuffer(r))
             \/ SetLen \/ UNCHANGED mtaVars
      PROVE  UNCHANGED memory
  BY <1>2 DEF BatteryGet, NewBuffer, SetLen, mtaVars, memory
<1>3. CASE OutOfMemory
  <2>1. /\ table' = [h \in Holder |-> NoTable] /\ allocated' = {}
        /\ \A h \in Holder : table'[h] = NoTable
    BY <1>3 DEF OutOfMemory
  <2>2. \A h \in Holder : IsTable(table[h])'
    BY <2>1 DEF IsTable, NoTable
  <2>. QED
    BY <2>1, <2>2, HeldByNone DEF TablesInv, Held, PointersOf, NoTable
<1>. QED
  BY <1>1, <1>2, <1>3, GetNothingStep, GetOneStep, GetMtaLogStep, FreeTableStep
     DEF MtaNext

(* Every block that the tables and logs are in has one caller, who can     *)
(* free it, whichever build it is and whichever malloc fails (205-409).    *)
THEOREM TablesAreOwned == MtaSpec => []TablesOwned
<1>1. TablesInv => TablesOwned
  <2>. SUFFICES ASSUME TablesInv PROVE TablesOwned
    OBVIOUS
  <2>1. \A h \in Holder : Held(table[h]) = PointersOf(table[h]) \ {NULL}
    BY DEF Held
  <2>2. allocated = UNION {PointersOf(table[h]) \ {NULL} : h \in Holder}
    BY DEF TablesInv, Held
  <2>3. \A g, h \in Holder : g # h =>
          (PointersOf(table[g]) \ {NULL}) \cap (PointersOf(table[h]) \ {NULL}) = {}
    BY DEF TablesInv, Held
  <2>4. \A h \in Holder :
          /\ table[h].count > 0 <=> table[h].array # NULL
          /\ table[h].array # NULL =>
               Cardinality(PointersOf(table[h]) \ {NULL}) =
                 1 + Cardinality({k \in DOMAIN table[h].description :
                                    table[h].description[k] # NULL})
    <3>. SUFFICES ASSUME NEW h \in Holder
                  PROVE  LET d == table[h].description IN
                         /\ table[h].count > 0 <=> table[h].array # NULL
                         /\ table[h].array # NULL =>
                              Cardinality(PointersOf(table[h]) \ {NULL}) =
                                1 + Cardinality({k \in DOMAIN d : d[k] # NULL})
      OBVIOUS
    <3>1. IsTable(table[h])
      BY DEF TablesInv
    <3>. QED
      BY <2>1, <3>1, TableAdds, Zenon
  <2>. QED
    BY <2>2, <2>3, <2>4 DEF TablesOwned
<1>. QED
  BY <1>1, InitTables, NextTables, PTL DEF MtaSpec

-----------------------------------------------------------------------------
(* The cable modem HAL: the MDD override                                   *)

USE SizeAssumption, ValueAssumption, LengthAssumption, InitialAssumption
    DEF SizeAssumption, ValueAssumption, LengthAssumption, InitialAssumption

Steps == {"idle", "copy", "read", "clear", "fill", "give"}

(* The types of what the override depends on. *)
OverrideTypeOK ==
  /\ mdd \in [Bytes -> Value \cup {Zero}]
  /\ stored \in Value
  /\ mixed \in BOOLEAN
  /\ step \in [Thread -> Steps]
  /\ value \in [Thread -> Value]
  /\ index \in [Thread -> Nat]

(* The last byte of the array is never anything but zero. *)
EndsInZero == mdd[Size - 1] = Zero

(* A text that is being copied leaves room for the last byte. *)
CopiesFit ==
  \A t \in Thread : Copying(t) =>
    /\ Length[value[t]] < Size - 1
    /\ index[t] <= Length[value[t]]

ReadersInside == \A t \in Thread : step[t] = "read" => index[t] \in Bytes

(* Until two calls fill the array at once, the only one that fills it      *)
(* finds before its index what it has put there.                           *)
OneCopier ==
  ~mixed =>
    /\ \A s, t \in Thread : Copying(s) /\ Copying(t) => s = t
    /\ \A t \in Thread : Copying(t) =>
         \A i \in Bytes : i < index[t] => mdd[i] = value[t]

TextStored == ~mixed /\ (\A t \in Thread : ~Copying(t)) => Stores(stored)

OverrideInv ==
  /\ OverrideTypeOK
  /\ EndsInZero
  /\ CopiesFit
  /\ ReadersInside
  /\ OneCopier
  /\ TextStored

-----------------------------------------------------------------------------
LEMMA InitOverride == CmInit => OverrideInv
<1>. SUFFICES ASSUME CmInit PROVE OverrideInv
  OBVIOUS
<1>1. OverrideTypeOK
  BY DEF CmInit, OverrideTypeOK, Steps
<1>2. Length[Initial] \in Nat /\ Size - 1 \in Bytes /\ Length[Initial] \in Bytes
  BY DEF Bytes
<1>3. \A i \in Bytes : mdd[i] = IF i < Length[Initial] THEN Initial ELSE Zero
  BY DEF CmInit
<1>4. EndsInZero
  BY <1>2, <1>3 DEF EndsInZero
<1>5. \A t \in Thread : step[t] = "idle"
  BY DEF CmInit
<1>6. CopiesFit /\ ReadersInside /\ OneCopier
  BY <1>5 DEF CopiesFit, ReadersInside, OneCopier, Copying
<1>7. TextStored
  BY <1>2, <1>3 DEF TextStored, Stores, CmInit
<1>. QED
  BY <1>1, <1>4, <1>6, <1>7 DEF OverrideInv

(* What Proceed does to the two functions. *)
LEMMA ProceedTo ==
  ASSUME OverrideTypeOK, NEW t \in Thread, NEW label \in Steps,
         NEW i \in Nat, Proceed(t, label, i)
  PROVE  /\ step' \in [Thread -> Steps] /\ index' \in [Thread -> Nat]
         /\ step'[t] = label /\ index'[t] = i
         /\ \A s \in Thread \ {t} : step'[s] = step[s] /\ index'[s] = index[s]
BY DEF OverrideTypeOK, Proceed

(* A call that leaves the override alone and that neither begins to copy   *)
(* nor goes to a byte outside of the array keeps the invariant.            *)
LEMMA OtherStep ==
  ASSUME OverrideInv, NEW t \in Thread, NEW label \in Steps, NEW i \in Nat,
         Proceed(t, label, i), UNCHANGED <<override, value>>,
         ~Copying(t), label # "copy", label = "read" => i \in Bytes
  PROVE  OverrideInv'
<1>1. /\ step' \in [Thread -> Steps] /\ index' \in [Thread -> Nat]
      /\ step'[t] = label /\ index'[t] = i
      /\ \A s \in Thread \ {t} : step'[s] = step[s] /\ index'[s] = index[s]
  BY ProceedTo DEF OverrideInv
<1>2. mdd' = mdd /\ stored' = stored /\ mixed' = mixed /\ value' = value
  BY DEF override
<1>3. \A s \in Thread : Copying(s)' <=> Copying(s)
  BY <1>1 DEF Copying
<1>4. \A s \in Thread : Copying(s) => index'[s] = index[s]
  BY <1>1
<1>5. OverrideTypeOK'
  BY <1>1, <1>2 DEF OverrideInv, OverrideTypeOK
<1>6. EndsInZero'
  BY <1>2 DEF OverrideInv, EndsInZero
<1>7. CopiesFit'
  BY <1>2, <1>3, <1>4 DEF OverrideInv, CopiesFit
<1>8. ReadersInside'
  BY <1>1 DEF OverrideInv, ReadersInside
<1>9. OneCopier'
  BY <1>2, <1>3, <1>4 DEF OverrideInv, OneCopier
<1>10. TextStored'
  BY <1>2, <1>3 DEF OverrideInv, TextStored, Stores
<1>. QED
  BY <1>5, <1>6, <1>7, <1>8, <1>9, <1>10 DEF OverrideInv

-----------------------------------------------------------------------------
LEMMA SetMddStep ==
  ASSUME OverrideInv, NEW t \in Thread, NEW v \in Value, SetMdd(t, v)
  PROVE  OverrideInv'
<1>. USE DEF OverrideInv
<1>1. /\ step' \in [Thread -> Steps] /\ index' \in [Thread -> Nat]
      /\ step'[t] = "copy" /\ index'[t] = 0
      /\ \A s \in Thread \ {t} : step'[s] = step[s] /\ index'[s] = index[s]
  BY ProceedTo DEF SetMdd, Steps
<1>2. /\ value' \in [Thread -> Value] /\ value'[t] = v
      /\ \A s \in Thread \ {t} : value'[s] = value[s]
      /\ mdd' = mdd /\ stored' = stored
      /\ mixed' = \E s \in Thread : Copying(s)
  BY DEF SetMdd, OverrideTypeOK
<1>3. Length[v] \in Nat /\ Length[v] < Size - 1
  BY DEF SetMdd, Accepts
<1>4. \A s \in Thread \ {t} : Copying(s)' <=> Copying(s)
  BY <1>1 DEF Copying
<1>5. OverrideTypeOK'
  BY <1>1, <1>2 DEF OverrideTypeOK
<1>6. EndsInZero'
  BY <1>2 DEF EndsInZero
<1>7. CopiesFit'
  BY <1>1, <1>2, <1>3, <1>4 DEF CopiesFit
<1>8. ReadersInside'
  BY <1>1 DEF ReadersInside
<1>9. OneCopier'
  <2>1. ASSUME ~mixed', NEW s \in Thread, Copying(s)'
        PROVE  s = t
    BY <1>2, <1>4, <2>1
  <2>2. \A i \in Bytes : ~(i < index'[t])
    BY <1>1 DEF Bytes
  <2>. QED
    BY <2>1, <2>2 DEF OneCopier
<1>10. TextStored'
  BY <1>1 DEF TextStored, Copying
<1>. QED
  BY <1>5, <1>6, <1>7, <1>8, <1>9, <1>10

(* The byte that is written is before the last one; the zero that ends the *)
(* text comes after all of it.                                             *)
LEMMA CopyByteStep ==
  ASSUME OverrideInv, NEW t \in Thread, CopyByte(t)
  PROVE  OverrideInv'
<1>. USE DEF OverrideInv
<1>1. PICK v \in Value, i \in Nat :
         v = value[t] /\ i = index[t] /\ Length[v] \in Nat
  BY DEF OverrideTypeOK
<1>2. Copying(t) /\ i <= Length[v] /\ Length[v] < Size - 1 /\ i \in Bytes
  BY <1>1 DEF CopyByte, CopiesFit, Bytes
<1>3. mixed' = mixed /\ value' = value
  BY DEF CopyByte
<1>4. CASE i = Length[v]
  <2>1. Proceed(t, "idle", 0) /\ stored' = v /\ mdd' = [mdd EXCEPT ![i] = Zero]
    BY <1>1, <1>4 DEF CopyByte
  <2>2. /\ step' \in [Thread -> Steps] /\ index' \in [Thread -> Nat]
        /\ step'[t] = "idle"
        /\ \A s \in Thread \ {t} : step'[s] = step[s] /\ index'[s] = index[s]
    BY <2>1, ProceedTo DEF Steps
  <2>3. \A s \in Thread : Copying(s)' => Copying(s) /\ s # t
    BY <2>2 DEF Copying
  <2>4. OverrideTypeOK'
    BY <1>2, <1>3, <2>1, <2>2 DEF OverrideTypeOK
  <2>5. EndsInZero'
    BY <1>2, <2>1 DEF EndsInZero, OverrideTypeOK
  <2>6. CopiesFit'
    BY <1>3, <2>2, <2>3 DEF CopiesFit
  <2>7. ReadersInside'
    BY <2>2 DEF ReadersInside
  <2>8. OneCopier'
    BY <1>2, <1>3, <2>3 DEF OneCopier
  <2>9. TextStored'
    <3>1. ASSUME ~mixed, NEW j \in Bytes, j < Length[v]
          PROVE  mdd'[j] = v
      <4>1. mdd[j] = v
        BY <1>1, <1>2, <1>4, <3>1 DEF OneCopier
      <4>2. j # i
        BY <1>2, <1>4, <3>1 DEF Bytes
      <4>. QED
        BY <2>1, <4>1, <4>2 DEF OverrideTypeOK
    <3>2. mdd'[Length[v]] = Zero /\ Length[v] < Size
      BY <1>2, <1>4, <2>1 DEF OverrideTypeOK
    <3>. QED
      BY <1>3, <2>1, <3>1, <3>2 DEF TextStored, Stores
  <2>. QED
    BY <2>4, <2>5, <2>6, <2>7, <2>8, <2>9
<1>5. CASE i # Length[v]
  <2>1. /\ Proceed(t, "copy", i + 1) /\ stored' = stored
        /\ mdd' = [mdd EXCEPT ![i] = v]
    <3>1. ~(index[t] = Length[value[t]] \/ Length[value[t]] >= Size)
      BY <1>1, <1>2, <1>5
    <3>. QED
      BY <1>1, <3>1 DEF CopyByte
  <2>2. /\ step' \in [Thread -> Steps] /\ index' \in [Thread -> Nat]
        /\ step'[t] = "copy" /\ index'[t] = i + 1
        /\ \A s \in Thread \ {t} : step'[s] = step[s] /\ index'[s] = index[s]
    BY <2>1, ProceedTo DEF Steps
  <2>3. \A s \in Thread : Copying(s)' <=> Copying(s)
    BY <1>2, <2>2 DEF Copying
  <2>4. OverrideTypeOK'
    BY <1>2, <1>3, <2>1, <2>2 DEF OverrideTypeOK
  <2>5. EndsInZero'
    BY <1>2, <1>5, <2>1 DEF EndsInZero, OverrideTypeOK, Bytes
  <2>6. CopiesFit'
    BY <1>1, <1>2, <1>3, <1>5, <2>2, <2>3 DEF CopiesFit
  <2>7. ReadersInside'
    BY <2>2 DEF ReadersInside
  <2>8. OneCopier'
    <3>1. ASSUME ~mixed, NEW s \in Thread, Copying(s)'
          PROVE  s = t
      BY <1>2, <2>3, <3>1 DEF OneCopier
    <3>2. ASSUME ~mixed, NEW j \in Bytes, j < i + 1
          PROVE  mdd'[j] = v
      <4>1. CASE j = i
        BY <2>1, <4>1 DEF OverrideTypeOK
      <4>2. CASE j # i
        <5>1. j < i
          BY <3>2, <4>2 DEF Bytes
        <5>2. mdd[j] = v
          BY <1>1, <1>2, <3>2, <5>1 DEF OneCopier
        <5>. QED
          BY <2>1, <4>2, <5>2 DEF OverrideTypeOK
      <4>. QED
        BY <4>1, <4>2
    <3>. QED
      BY <1>1, <1>3, <2>2, <3>1, <3>2 DEF OneCopier
  <2>9. TextStored'
    BY <2>2 DEF TextStored, Copying
  <2>. QED
    BY <2>4, <2>5, <2>6, <2>7, <2>8, <2>9
<1>. QED
  BY <1>4, <1>5

(* A byte that is not zero is not the last one. *)
LEMMA ReadByteStep ==
  ASSUME OverrideInv, NEW t \in Thread, ReadByte(t)
  PROVE  OverrideInv'
<1>1. index[t] \in Bytes /\ index[t] \in Nat
  BY DEF ReadByte, OverrideInv, ReadersInside, Bytes
<1>2. UNCHANGED <<override, value>> /\ ~Copying(t)
  BY DEF ReadByte, Copying
<1>3. CASE mdd[index[t]] = Zero
  <2>1. Proceed(t, "idle", 0)
    BY <1>3 DEF ReadByte
  <2>. QED
    BY <1>2, <2>1, OtherStep DEF Steps
<1>4. CASE mdd[index[t]] # Zero
  <2>1. Proceed(t, "read", index[t] + 1)
    BY <1>4 DEF ReadByte
  <2>2. index[t] + 1 \in Bytes
    BY <1>1, <1>4 DEF OverrideInv, EndsInZero, Bytes
  <2>. QED
    BY <1>1, <1>2, <2>1, <2>2, OtherStep DEF Steps
<1>. QED
  BY <1>3, <1>4

LEMMA LogStep ==
  ASSUME OverrideInv, NEW t \in Thread,
         GetLog(t) \/ ClearLog(t) \/ FillEntry(t) \/ GiveEntry(t)
  PROVE  OverrideInv'
<1>1. UNCHANGED <<override, value>> /\ ~Copying(t)
  BY DEF GetLog, ClearLog, FillEntry, GiveEntry, Copying
<1>2. \E label \in {"idle", "clear", "fill", "give"}, i \in {0, 1} :
        Proceed(t, label, i)
  BY DEF GetLog, ClearLog, FillEntry, GiveEntry
<1>3. PICK label \in {"idle", "clear", "fill", "give"}, i \in {0, 1} :
        Proceed(t, label, i)
  BY <1>2
<1>4. label \in Steps /\ label # "copy" /\ label # "read" /\ i \in Nat
  BY DEF Steps
<1>. QED
  BY <1>1, <1>3, <1>4, OtherStep

-----------------------------------------------------------------------------
LEMMA NextOverride == OverrideInv /\ [CmNext]_cmVars => OverrideInv'
<1>. SUFFICES ASSUME OverrideInv, [CmNext]_cmVars PROVE OverrideInv'
  OBVIOUS
<1>1. ASSUME NEW t \in Thread, NEW v \in Value, SetMdd(t, v) PROVE OverrideInv'
  BY <1>1, SetMddStep
<1>2. ASSUME NEW t \in Thread, GetMdd(t) PROVE OverrideInv'
  <2>1. /\ Proceed(t, "read", 0) /\ UNCHANGED <<override, value>>
        /\ ~Copying(t) /\ 0 \in Bytes
    BY <1>2 DEF GetMdd, Copying, Bytes
  <2>. QED
    BY <2>1, OtherStep DEF Steps
<1>3. ASSUME NEW t \in Thread, CopyByte(t) PROVE OverrideInv'
  BY <1>3, CopyByteStep
<1>4. ASSUME NEW t \in Thread, ReadByte(t) PROVE OverrideInv'
  BY <1>4, ReadByteStep
<1>5. ASSUME NEW t \in Thread,
             GetLog(t) \/ ClearLog(t) \/ FillEntry(t) \/ GiveEntry(t)
      PROVE  OverrideInv'
  BY <1>5, LogStep
<1>6. CASE UNCHANGED cmVars
  BY <1>6 DEF OverrideInv, OverrideTypeOK, EndsInZero, CopiesFit, ReadersInside,
              OneCopier, TextStored, Stores, Copying, cmVars, override
<1>. QED
  BY <1>1, <1>2, <1>3, <1>4, <1>5, <1>6 DEF CmNext, CmStep

(* The override can be read while other threads set it: a reader never     *)
(* leaves the array, and a text that was stored without another call in    *)
(* between is there in full (155-173).                                     *)
THEOREM OverrideIsSound == CmSpec => []MddSound
<1>1. OverrideInv => MddSound
  BY DEF OverrideInv, ReadersInside, TextStored, MddSound
<1>. QED
  BY <1>1, InitOverride, NextOverride, PTL DEF CmSpec

-----------------------------------------------------------------------------
(* Sequences of one and two elements. *)
LEMMA AppendingFirst ==
  ASSUME NEW S, NEW a \in S
  PROVE  Append(<<>>, a) = <<a>>
<1>1. <<>> \in Seq(S)
  OBVIOUS
<1>2. DOMAIN Append(<<>>, a) = 1 .. 1 /\ Append(<<>>, a)[1] = a
  BY <1>1
<1>. QED BY <1>1, <1>2

LEMMA AppendingSecond ==
  ASSUME NEW S, NEW a \in S, NEW b \in S
  PROVE  Append(<<a>>, b) = <<a, b>>
<1>1. <<a>> \in Seq(S) /\ <<a, b>> \in Seq(S) /\ Len(<<a>>) = 1
  OBVIOUS
<1>2. Append(<<a>>, b) \in Seq(S) /\ Len(Append(<<a>>, b)) = 2 /\ Len(<<a, b>>) = 2
  BY <1>1
<1>3. \A i \in 1 .. 2 : Append(<<a>>, b)[i] = <<a, b>>[i]
  BY <1>1
<1>. QED BY <1>1, <1>2, <1>3, SeqEqual

LEMMA AppendingIn ==
  ASSUME NEW S, NEW a \in S, NEW b \in S
  PROVE  Append(<<>>, a) = <<a>> /\ Append(<<a>>, b) = <<a, b>>
BY AppendingFirst, AppendingSecond, Zenon

LEMMA Appending ==
  ASSUME NEW a, NEW b
  PROVE  Append(<<>>, a) = <<a>> /\ Append(<<a>>, b) = <<a, b>>
<1>1. a \in {a, b} /\ b \in {a, b}
  OBVIOUS
<1>. QED BY <1>1, AppendingIn, Zenon

-----------------------------------------------------------------------------
(* The event log, with the history that tells whether a call for it has    *)
(* met another.                                                            *)

logVars == <<cmVars, alone>>

LogSpec ==
  CmInit /\ alone = [t \in Thread |-> FALSE] /\ [][CmPart]_logVars

LogTypeOK ==
  /\ DOMAIN log = {0, 1} /\ DOMAIN step = Thread /\ DOMAIN index = Thread
  /\ DOMAIN items = Thread

(* How far a call that is alone has come. *)
Place(t) ==
  /\ step[t] \in LogSteps
  /\ \A s \in Thread \ {t} : step[s] \notin LogSteps
  /\ step[t] = "clear" => items[t] = <<>>
  /\ step[t] = "fill" =>
       items[t] = <<>> /\ (index[t] = 0 \/ (index[t] = 1 /\ log[0] = TRUE))
  /\ step[t] = "give" =>
       /\ log[0] = TRUE /\ log[1] = TRUE
       /\ (index[t] = 0 /\ items[t] = <<>>) \/ (index[t] = 1 /\ items[t] = <<TRUE>>)

LogCall(t) == alone[t] => Place(t)

LogInv == LogTypeOK /\ \A t \in Thread : LogCall(t)

LEMMA LogTypeStep == ASSUME LogTypeOK, [CmNext]_cmVars PROVE LogTypeOK'
BY DEF LogTypeOK, CmNext, CmStep, SetMdd, GetMdd, GetLog, CopyByte, ReadByte, ClearLog,
   FillEntry, GiveEntry, Proceed, cmVars, override

LEMMA LogCallStep ==
  ASSUME LogInv, CmPart, NEW t \in Thread PROVE LogCall(t)'
<1> SUFFICES ASSUME alone'[t] PROVE Place(t)'
  BY Zenon DEF LogCall
<1>1. /\ step'[t] \in LogSteps
      /\ alone[t] \/ step[t] = "idle"
      /\ \A s \in Thread \ {t} : step'[s] \notin LogSteps
  BY DEF CmPart
<1>2. LogTypeOK /\ LogCall(t) /\ CmNext
  BY DEF LogInv, CmPart
<1>3. CASE ~alone[t] /\ step[t] = "idle"
  <2>1. step[t] = "idle" /\ step'[t] \in LogSteps
    BY <1>1, <1>3, Zenon
  <2>2. GetLog(t)
    BY <1>2, <2>1, ZenonT(60) DEF LogTypeOK, LogSteps, CmNext, CmStep, SetMdd, GetMdd, GetLog,
       CopyByte, ReadByte, ClearLog, FillEntry, GiveEntry, Proceed, Copying
  <2>. QED
    <3>1. step'[t] = "clear" /\ items'[t] = <<>>
      BY <1>2, <2>2 DEF GetLog, Proceed, LogTypeOK
    <3>2. step'[t] \in LogSteps /\ \A s \in Thread \ {t} : step'[s] \notin LogSteps
      BY <1>1
    <3>. QED BY <3>1, <3>2 DEF Place
<1>4. CASE Place(t)
  <2>1. ASSUME NEW u \in Thread, u # t,
               (\E v \in Value : SetMdd(u, v)) \/ GetMdd(u) \/ GetLog(u) \/ CmStep(u)
        PROVE  /\ step'[t] = step[t] /\ index'[t] = index[t] /\ items'[t] = items[t]
               /\ log' = log
    <3>1. step[u] \notin LogSteps /\ step'[u] \notin LogSteps
      BY <1>1, <1>2, <1>4, <2>1 DEF Place
    <3>2. ~GetLog(u) /\ ~ClearLog(u) /\ ~FillEntry(u) /\ ~GiveEntry(u)
      BY <1>2, <3>1 DEF LogSteps, GetLog, ClearLog, FillEntry, GiveEntry, Proceed, LogTypeOK
    <3>. QED
      BY <1>2, <2>1, <3>2 DEF CmStep, SetMdd, GetMdd, CopyByte, ReadByte, Proceed, LogTypeOK
  <2>2. CASE ClearLog(t)
    BY <1>1, <1>2, <1>4, <2>2 DEF ClearLog, Proceed, LogTypeOK, Place
  <2>3. CASE FillEntry(t)
    BY <1>1, <1>2, <1>4, <2>3 DEF FillEntry, Proceed, LogTypeOK, Place
  <2>4. CASE GiveEntry(t)
    <3>1. index[t] = 0
      BY <1>1, <1>2, <1>4, <2>4 DEF GiveEntry, Proceed, LogTypeOK, Place, LogSteps
    <3>2. items[t] = <<>> /\ log[0] = TRUE /\ log[1] = TRUE /\ index[t] # 1
      BY <1>4, <2>4, <3>1 DEF GiveEntry, Place
    <3>3. /\ items'[t] = Append(items[t], log[0]) /\ log' = log
          /\ step'[t] = "give" /\ index'[t] = 1
      BY <1>2, <2>4, <3>1 DEF GiveEntry, Proceed, LogTypeOK
    <3>4. items'[t] = <<TRUE>>
      BY <3>2, <3>3, Appending, Zenon
    <3>. QED BY <1>1, <3>2, <3>3, <3>4 DEF Place
  <2>5. ASSUME ~ClearLog(t), ~FillEntry(t), ~GiveEntry(t),
               (\E v \in Value : SetMdd(t, v)) \/ GetMdd(t) \/ GetLog(t) \/ CmStep(t)
        PROVE  FALSE
    BY <1>2, <1>4, <2>5 DEF Place, LogSteps, CmStep, SetMdd, GetMdd, GetLog, CopyByte,
       ReadByte, Copying
  <2>6. CASE /\ step'[t] = step[t] /\ index'[t] = index[t] /\ items'[t] = items[t]
             /\ log' = log
    BY <1>1, <1>2, <1>4, <2>6 DEF Place
  <2>. QED BY <1>2, <2>1, <2>2, <2>3, <2>4, <2>5, <2>6 DEF CmNext
<1>. QED BY <1>1, <1>2, <1>3, <1>4, Zenon DEF LogCall

(* A call for the event log that meets no other such call gets both        *)
(* entries filled, whatever calls before it have left (196-220), for any   *)
(* threads, those that set and read the override among them.               *)
THEOREM EventLogAloneCorrect ==
  /\ LogSpec => EventLogAlone
  /\ MCSpec => EventLogAlone
<1> DEFINE A ==
       \A t \in Thread : alone[t] /\ step[t] = "give" /\ step'[t] = "idle" =>
         items'[t] = <<TRUE, TRUE>>
<1>1. CmInit /\ alone = [t \in Thread |-> FALSE] => LogInv
  BY DEF CmInit, LogInv, LogTypeOK, LogCall
<1>2. ASSUME LogInv, [CmPart]_logVars PROVE LogInv'
  <2>1. CASE CmPart
    BY <1>2, <2>1, LogTypeStep, LogCallStep DEF LogInv, CmPart
  <2>2. CASE UNCHANGED logVars
    <3>1. UNCHANGED <<log, step, index, items, alone>>
      BY <2>2 DEF logVars, cmVars
    <3>2. LogTypeOK'
      BY <1>2, <3>1 DEF LogInv, LogTypeOK
    <3>3. ASSUME NEW t \in Thread PROVE LogCall(t)'
      <4>1. Place(t)' <=> Place(t)
        BY <3>1 DEF Place
      <4>. QED BY <1>2, <3>1, <4>1, Zenon DEF LogInv, LogCall
    <3>. QED BY <3>2, <3>3 DEF LogInv
  <2>. QED BY <1>2, <2>1, <2>2
<1>3. ASSUME LogInv, CmPart, NEW t \in Thread, alone[t], step[t] = "give", step'[t] = "idle"
      PROVE  items'[t] = <<TRUE, TRUE>>
  <2>1. LogTypeOK /\ LogCall(t) /\ CmNext
    BY <1>3 DEF LogInv, CmPart
  <2>2. GiveEntry(t)
    BY <1>3, <2>1, ZenonT(60) DEF LogTypeOK, CmNext, CmStep, SetMdd, GetMdd, GetLog, CopyByte,
       ReadByte, ClearLog, FillEntry, GiveEntry, Proceed, Copying
  <2>3. index[t] = 1 /\ items[t] = <<TRUE>> /\ log[1] = TRUE
    BY <1>3, <2>1, <2>2 DEF LogCall, Place, GiveEntry, Proceed, LogTypeOK
  <2>4. items'[t] = Append(items[t], log[index[t]])
    BY <2>1, <2>2 DEF GiveEntry, LogTypeOK
  <2>. QED BY <2>3, <2>4, Appending, Zenon
<1>4. LogInv /\ [CmPart]_logVars => [A]_cmVars
  BY <1>3 DEF logVars
<1>5. LogSpec => EventLogAlone
  BY <1>1, <1>2, <1>4, PTL DEF LogSpec, EventLogAlone
<1>6. MCSpec => LogSpec
  <2>1. MCInit => CmInit /\ alone = [t \in Thread |-> FALSE]
    BY DEF MCInit
  <2>2. [MCNext]_<<topic, vars, listVars, listHistory, mtaVars, cmVars, alone>>
          => [CmPart]_logVars
    BY DEF MCNext, logVars
  <2>. QED BY <2>1, <2>2, PTL DEF MCSpec, LogSpec
<1>. QED BY <1>5, <1>6
=============================================================================
