------------------------------- MODULE MtaHal -------------------------------
(***************************************************************************)
(* source/mta/mta_hal.c: the memory that the voice HAL shares with its     *)
(* callers.                                                                *)
(*                                                                         *)
(* The texts about the battery go into a buffer of the caller, and *len is *)
(* both what may be written and what was: a caller that does not set it    *)
(* again offers the next call less.  The tables and logs are allocated,    *)
(* and the caller frees what it is given.  The functions that end in _s    *)
(* are those of the safec library, or the plain ones in a build without it.*)
(*                                                                         *)
(* A definition marked "Variant" is not part of the model: it is the one   *)
(* below it with a plausible mistake.                                      *)
(***************************************************************************)
EXTENDS Integers, FiniteSets

CONSTANTS
  State,       \* what the four calls about the battery can answer
  Chars,       \* Chars[s]: strlen of the answer s
  Rooms,       \* sizes of the callers' buffers
  Holder,      \* callers that get tables
  Mem,         \* blocks malloc can give out
  Static,      \* the descriptions in the static array MtaLog
  NULL

ASSUME CharsAssumption == Chars \in [State -> Nat]
ASSUME RoomsAssumption == Rooms \subseteq Nat \ {0}
ASSUME StateAssumption == NULL \notin State
ASSUME MemAssumption == NULL \notin Mem /\ Static \notin Mem /\ Static # NULL

VARIABLES
  checked,     \* the build has the safec library
  room,        \* the size of the caller's buffer
  len,         \* *len
  chars,       \* strlen(Val)
  written,     \* one past the highest index of Val written so far
  asked,       \* what the last call was to answer, NULL when there is none
  allocated,   \* blocks malloc has given out
  table        \* table[h]: the table h has been given and not freed

battery == <<room, len, chars, written, asked>>
memory == <<allocated, table>>
mtaVars == <<checked, battery, memory>>

NoTable == [count |-> 0, array |-> NULL, description |-> <<>>]

(* Without the library a buffer has to hold the longest text, and the      *)
(* comment (466) says that it does: "32 bytes of data".                    *)
Offers(r) == checked \/ \A s \in State : Chars[s] < r

MtaInit ==
  /\ checked \in BOOLEAN
  /\ room \in Rooms /\ Offers(room)
  /\ len = room
  /\ chars = 0
  /\ written = 0
  /\ asked = NULL
  /\ allocated = {}
  /\ table = [h \in Holder |-> NoTable]

-----------------------------------------------------------------------------
(* mta_hal_BatteryGetPowerStatus, ...Condition, ...Status and ...Life      *)

(* The library refuses a text that is too long and leaves an empty one.    *)
Fits(s) == Chars[s] < len \/ ~checked

(* Variant: the length is that of the text there was to answer. *)
NewLenIntended(s) == Chars[s] + 1
NewLen(s) == (IF Fits(s) THEN Chars[s] ELSE 0) + 1

BatteryGet(s) ==
  LET end == IF Fits(s) THEN Chars[s] + 1 ELSE 1
  IN /\ len' = NewLen(s)
     /\ chars' = IF Fits(s) THEN Chars[s] ELSE 0
     /\ written' = IF end > written THEN end ELSE written
     /\ asked' = s
     /\ UNCHANGED <<checked, room, memory>>

(* The caller comes with another buffer. *)
NewBuffer(r) ==
  /\ Offers(r)
  /\ room' = r /\ len' = r
  /\ chars' = 0 /\ written' = 0 /\ asked' = NULL
  /\ UNCHANGED <<checked, memory>>

(* Or it says again how large its buffer is. *)
SetLen ==
  /\ len' = room
  /\ UNCHANGED <<checked, room, chars, written, asked, memory>>

-----------------------------------------------------------------------------
(* mta_hal_GetServiceFlow, GetCalls, GetDSXLogs and GetMtaLog              *)

Hands(h, array, description) ==
  LET count == IF array = NULL THEN 0 ELSE IF description = <<>> THEN 1 ELSE 2
  IN /\ table[h] = NoTable
     /\ table' = [table EXCEPT ![h] = [count |-> count, array |-> array,
                                       description |-> description]]
     /\ UNCHANGED <<checked, battery>>

(* GetDSXLogs has nothing to report. *)
GetNothing(h) == Hands(h, NULL, <<>>) /\ UNCHANGED allocated

(* GetServiceFlow and GetCalls: one entry. *)
GetOne(h) ==
  \E b \in Mem \ allocated :
    Hands(h, b, <<>>) /\ allocated' = allocated \cup {b}

(* Variant: only the first description is made anew. *)
DescriptionsOne(copied, new) == <<new[1], copied[2]>>
(* Whatever the copy of MtaLog holds is replaced (397-406). *)
Descriptions(copied, new) == <<new[1], new[2]>>

(* The copy of the two entries of MtaLog is given the size of one (394):   *)
(* the library refuses, and both entries stay blank; a plain copy brings   *)
(* the pointers of MtaLog with it.  A description for which there is no    *)
(* memory is NULL.                                                         *)
GetMtaLog(h) ==
  \E b \in Mem \ allocated :
    LET copied == IF checked THEN <<NULL, NULL>> ELSE <<Static, Static>>
        left == Mem \ (allocated \cup {b})
    IN \E new \in [1 .. 2 -> left \cup {NULL}] :
         LET d == Descriptions(copied, new) IN
         /\ new[1] # new[2] \/ new[1] = NULL
         /\ ~checked => NULL \notin {new[1], new[2]}
         /\ Hands(h, b, d)
         /\ allocated' = allocated \cup ({b, d[1], d[2]} \cap Mem)

PointersOf(x) == {x.array} \cup {x.description[k] : k \in DOMAIN x.description}

(* The caller frees what is in the table, and the table. *)
FreeTable(h) ==
  /\ table[h] # NoTable
  /\ allocated' = allocated \ PointersOf(table[h])
  /\ table' = [table EXCEPT ![h] = NoTable]
  /\ UNCHANGED <<checked, battery>>

(* There is no memory for the table: the code writes to address 0, the     *)
(* process dies and is started again.                                      *)
OutOfMemory ==
  /\ allocated' = {}
  /\ table' = [h \in Holder |-> NoTable]
  /\ room' \in Rooms /\ Offers(room')
  /\ len' = room'
  /\ chars' = 0 /\ written' = 0 /\ asked' = NULL
  /\ UNCHANGED checked

-----------------------------------------------------------------------------
MtaNext ==
  \/ \E s \in State : BatteryGet(s)
  \/ \E r \in Rooms : NewBuffer(r)
  \/ SetLen
  \/ \E h \in Holder :
       GetNothing(h) \/ GetOne(h) \/ GetMtaLog(h) \/ FreeTable(h)
  \/ OutOfMemory

MtaSpec == MtaInit /\ [][MtaNext]_mtaVars

-----------------------------------------------------------------------------
(* Whatever is asked one after the other with a length that nobody sets    *)
(* again, nothing is written behind the caller's buffer and the length     *)
(* never claims more than there is (463-495); and the length that came     *)
(* with a text is enough to ask for that text again.                       *)
BatteryInBuffer ==
  /\ written <= room
  /\ len <= room
  /\ asked # NULL /\ chars > 0 => Chars[asked] < len

(* What callers hold is theirs to free: blocks that malloc has given out,  *)
(* no block in two places, never the static text of MtaLog; and no block   *)
(* is out that nobody can free (210, 333, 372, 383-409).                   *)
TablesOwned ==
  LET Pointers(h) == PointersOf(table[h]) \ {NULL}
      Filled(h) == {k \in DOMAIN table[h].description :
                      table[h].description[k] # NULL}
  IN /\ allocated = UNION {Pointers(h) : h \in Holder}
     /\ \A g, h \in Holder : g # h => Pointers(g) \cap Pointers(h) = {}
     /\ \A h \in Holder :
          /\ table[h].count > 0 <=> table[h].array # NULL
          /\ table[h].array # NULL =>
               Cardinality(Pointers(h)) = 1 + Cardinality(Filled(h))
=============================================================================
