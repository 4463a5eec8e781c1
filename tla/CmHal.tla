------------------------------- MODULE CmHal --------------------------------
(***************************************************************************)
(* source/cm/cm_hal.c: what the cable modem HAL keeps for its callers.     *)
(*                                                                         *)
(* The MDD override is a text in a static array that one call fills byte   *)
(* by byte and another reads up to its zero; the event log is a static     *)
(* array that every call clears, fills and copies.  Nothing locks either,  *)
(* and a program that links the library may have several threads.          *)
(*                                                                         *)
(* A byte is Zero or the text it belongs to.  A definition marked          *)
(* "Variant" is not part of the model: it is the one below it with a       *)
(* plausible mistake.                                                      *)
(***************************************************************************)
EXTENDS Integers, Sequences

CONSTANTS
  Thread,
  Size,        \* sizeof(g_MddIpOverride), 64 in the code
  Value,       \* the texts that callers set
  Length,      \* Length[v]: strlen of text v
  Initial,     \* the text "honorMDD" the array starts with
  Zero

ASSUME SizeAssumption == Size \in Nat \ {0}
ASSUME ValueAssumption == Zero \notin Value /\ Initial \in Value
ASSUME LengthAssumption == Length \in [Value -> Nat]
ASSUME InitialAssumption == Length[Initial] < Size

VARIABLES
  mdd,         \* g_MddIpOverride
  stored,      \* history: the text a call has stored last
  mixed,       \* history: two calls have filled the array at once
  log,         \* log[k]: whether DocsisLog[k] is filled
  step,        \* step[t]: where the call of t is, "idle" between calls
  value,       \* value[t]: the text t is setting
  index,       \* index[t]: the byte, or the log entry, t is at
  items        \* items[t]: for each entry t has copied, whether it was filled

override == <<mdd, stored, mixed>>
cmVars == <<override, log, step, value, index, items>>

Bytes == 0 .. (Size - 1)

CmInit ==
  /\ mdd = [i \in Bytes |-> IF i < Length[Initial] THEN Initial ELSE Zero]
  /\ stored = Initial
  /\ mixed = FALSE
  /\ log = [k \in {0, 1} |-> FALSE]
  /\ step = [t \in Thread |-> "idle"]
  /\ value = [t \in Thread |-> Initial]
  /\ index = [t \in Thread |-> 0]
  /\ items = [t \in Thread |-> <<>>]

(* The call of t is at byte or entry i of the part called label. *)
Proceed(t, label, i) ==
  /\ step' = [step EXCEPT ![t] = label]
  /\ index' = [index EXCEPT ![t] = i]

-----------------------------------------------------------------------------
(* docsis_SetMddIpModeOverride.  NULL and texts that are too long change   *)
(* nothing.                                                                *)

(* Variant: a text as long as the array is accepted. *)
AcceptsFull(v) == Length[v] <= Size
Accepts(v) == Length[v] < Size - 1

Copying(t) == step[t] = "copy"

SetMdd(t, v) ==
  /\ step[t] = "idle"
  /\ Accepts(v)
  /\ Proceed(t, "copy", 0)
  /\ value' = [value EXCEPT ![t] = v]
  /\ mixed' = \E s \in Thread : Copying(s)
  /\ UNCHANGED <<mdd, stored, log, items>>

(* strcpy_s copies a text that fits, its zero included, and leaves an      *)
(* empty text instead of one that does not fit.                            *)
CopyByte(t) ==
  LET v == value[t]
      i == index[t]
      last == i = Length[v] \/ Length[v] >= Size
  IN /\ Copying(t)
     /\ mdd' = [mdd EXCEPT ![i] = IF last THEN Zero ELSE v]
     /\ IF last THEN Proceed(t, "idle", 0) ELSE Proceed(t, "copy", i + 1)
     /\ stored' = IF last THEN v ELSE stored
     /\ UNCHANGED <<mixed, log, value, items>>

-----------------------------------------------------------------------------
(* docsis_GetMddIpModeOverride: the bound that strcpy_s is given is that   *)
(* of the caller's 1024 bytes, so it is the zero that ends the reading.    *)

GetMdd(t) ==
  /\ step[t] = "idle"
  /\ Proceed(t, "read", 0)
  /\ UNCHANGED <<override, log, value, items>>

ReadByte(t) ==
  /\ step[t] = "read"
  /\ IF mdd[index[t]] = Zero
     THEN Proceed(t, "idle", 0)
     ELSE Proceed(t, "read", index[t] + 1)
  /\ UNCHANGED <<override, log, value, items>>

-----------------------------------------------------------------------------
(* docsis_GetDocsisEventLogItems.  The length of the caller's array is not *)
(* looked at: both entries are always copied, and 2 is returned.           *)

GetLog(t) ==
  /\ step[t] = "idle"
  /\ Proceed(t, "clear", 0)
  /\ items' = [items EXCEPT ![t] = <<>>]
  /\ UNCHANGED <<override, log, value>>

ClearLog(t) ==
  /\ step[t] = "clear"
  /\ log' = [k \in {0, 1} |-> FALSE]
  /\ Proceed(t, "fill", 0)
  /\ UNCHANGED <<override, value, items>>

(* Variant: the second entry is forgotten. *)
FillFirstOnly(t) ==
  /\ step[t] = "fill"
  /\ log' = [log EXCEPT ![index[t]] = TRUE]
  /\ Proceed(t, "give", 0)
  /\ UNCHANGED <<override, value, items>>
(* One entry: its numbers and its text. *)
FillEntry(t) ==
  /\ step[t] = "fill"
  /\ log' = [log EXCEPT ![index[t]] = TRUE]
  /\ IF index[t] = 0 THEN Proceed(t, "fill", 1) ELSE Proceed(t, "give", 0)
  /\ UNCHANGED <<override, value, items>>

GiveEntry(t) ==
  /\ step[t] = "give"
  /\ items' = [items EXCEPT ![t] = Append(@, log[index[t]])]
  /\ IF index[t] = 0 THEN Proceed(t, "give", 1) ELSE Proceed(t, "idle", 0)
  /\ UNCHANGED <<override, log, value>>

-----------------------------------------------------------------------------
CmStep(t) ==
  \/ CopyByte(t) \/ ReadByte(t)
  \/ ClearLog(t) \/ FillEntry(t) \/ GiveEntry(t)

CmNext ==
  \E t \in Thread :
    \/ \E v \in Value : SetMdd(t, v)
    \/ GetMdd(t) \/ GetLog(t)
    \/ CmStep(t)

CmSpec == CmInit /\ [][CmNext]_cmVars

-----------------------------------------------------------------------------
(* The text in the array is text v. *)
Stores(v) ==
  /\ Length[v] < Size
  /\ \A i \in Bytes : i < Length[v] => mdd[i] = v
  /\ mdd[Length[v]] = Zero

(* A reader never leaves the array, at whatever byte other threads are     *)
(* filling it with texts of other lengths (157-173): there is always a     *)
(* zero ahead of it.  And a call that stores a text leaves that text, also *)
(* when the texts of earlier calls were mixed up.                          *)
MddSound ==
  /\ \A t \in Thread : step[t] = "read" => index[t] \in Bytes
  /\ ~mixed /\ (\A t \in Thread : ~Copying(t)) => Stores(stored)
=============================================================================
