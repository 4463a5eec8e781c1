----------------------------- MODULE WifiAssoc ------------------------------
(***************************************************************************)
(* source/wifi/wifi_hal.c: the stations of one access point.               *)
(*                                                                         *)
(* wifi_getApAssociatedDeviceDiagnosticResult gives them as an array that  *)
(* the caller gets to free.  A first command writes the driver's station   *)
(* list to /tmp/ap_N_cli.txt and counts its lines; the array is allocated  *)
(* for that many; a second command reads the file again and the array is   *)
(* filled.  The name of the file depends on the access point only, so two  *)
(* callers use the same one.                                               *)
(* A call is cut where another process, or another call, can come between. *)
(*                                                                         *)
(* A line is the station it is about.  A definition marked "Variant" is    *)
(* not part of the model: it is the one below it with a plausible mistake. *)
(***************************************************************************)
EXTENDS Naturals, SequencesExt

CONSTANTS
  Caller,      \* processes that make the call
  Station,     \* stations that may be associated
  Long,        \* stations whose line is longer than the 199 bytes of fgets
  Rest,        \* what such a line leaves for the next fgets
  NULL,        \* no array
  Acl,         \* the access control list of the access point
  Room,        \* how many stations the list of the kick has room for
  Garbage,     \* what atoi() may make of a buffer nobody wrote, as a UINT
  Spare,       \* entries that calloc gives in any case: more, it may refuse
  Hazard       \* which of HazardKinds may strike

HazardKinds ==
  { "popen1",  \* the first command cannot be started: buf is not written
    "popen2" } \* the second command cannot be started

ASSUME StationAssumption == IsFiniteSet(Station)
ASSUME LongAssumption == Long \subseteq Station
ASSUME RestAssumption == Rest \notin Station
ASSUME NullAssumption == NULL \notin Seq(Station \cup {Rest})
ASSUME AclAssumption == Acl \in Seq(Station)
ASSUME RoomAssumption == Room \in Nat
ASSUME GarbageAssumption == Garbage \subseteq Nat
ASSUME SpareAssumption == Spare \in Nat
ASSUME HazardAssumption == Hazard \subseteq HazardKinds

VARIABLES
  assoc,       \* the driver's list of associated stations
  file,        \* the lines of /tmp/ap_N_cli.txt
  list,        \* list[c]: the driver's list as c's wlanconfig printed it
  size,        \* size[c]: *output_array_size, or the number of stations
  array,       \* array[c]: the entries filled in, NULL unless calloc gave any
  text,        \* text[c]: what c has still to go through
  deny,        \* deny[c]: c kicks what is in Acl, and else what is not
  asked,       \* asked[c]: the stations this call has asked the driver to kick
  pc,
  ret          \* what the call has returned, or that it killed its process

kick == <<deny, asked>>
vars == <<assoc, file, list, size, array, text, kick, pc, ret>>
call == <<list, size, array, text, kick, pc, ret>>

Fragment == Station \cup {Rest}

(* The driver lists a station once, so a list has at most MaxLen lines. *)
MaxLen == Cardinality(Station)
ListOfStations == {s \in SeqOf(Station, MaxLen) : IsInjective(s)}

TypeOK ==
  /\ assoc \in ListOfStations
  /\ file \in SeqOf(Station, MaxLen)
  /\ list \in [Caller -> ListOfStations]
  /\ size \in [Caller -> 0 .. MaxLen \cup Garbage]
  /\ array \in [Caller -> {NULL} \cup Seq(Fragment)]
  /\ text \in [Caller -> Seq(Fragment)]
  /\ deny \in [Caller -> BOOLEAN]
  /\ asked \in [Caller -> SUBSET Station]
  /\ pc \in [Caller -> {"idle", "open", "list", "write", "count", "cat", "fill",
                        "stations", "kick", "ifconfig", "number"}]
  /\ ret \in [Caller -> {"none", "OK", "ERR", "died"}]

Init ==
  /\ assoc = <<>>
  /\ file = <<>>
  /\ list = [c \in Caller |-> <<>>]
  /\ size = [c \in Caller |-> 0]
  /\ array = [c \in Caller |-> NULL]
  /\ text = [c \in Caller |-> <<>>]
  /\ deny = [c \in Caller |-> FALSE]
  /\ asked = [c \in Caller |-> {}]
  /\ pc = [c \in Caller |-> "idle"]
  /\ ret = [c \in Caller |-> "none"]

-----------------------------------------------------------------------------
Goto(c, label) == pc' = [pc EXCEPT ![c] = label] /\ UNCHANGED ret
Return(c, r) == pc' = [pc EXCEPT ![c] = "idle"] /\ ret' = [ret EXCEPT ![c] = r]

(* A call starts; what the last one has given is the caller's own affair.  *)
Begin(c, label) ==
  /\ pc[c] = "idle"
  /\ size' = [size EXCEPT ![c] = 0]
  /\ array' = [array EXCEPT ![c] = NULL]
  /\ list' = [list EXCEPT ![c] = <<>>]
  /\ pc' = [pc EXCEPT ![c] = label]
  /\ ret' = [ret EXCEPT ![c] = "none"]
  /\ UNCHANGED <<assoc, file, text, asked>>

(* The out parameters are cleared first (2649-2650). *)
Call(c) == Begin(c, "open") /\ UNCHANGED deny

(* A negative index is refused, with the out parameters already cleared. *)
BadCall(c) ==
  /\ pc[c] = "idle"
  /\ size' = [size EXCEPT ![c] = 0]
  /\ array' = [array EXCEPT ![c] = NULL]
  /\ Return(c, "ERR")
  /\ UNCHANGED <<assoc, file, list, text, kick>>

-----------------------------------------------------------------------------
(* "wlanconfig list | grep >file; cat file | wc -l".  The shell empties    *)
(* the file, the list is taken from the driver, and grep writes it out.    *)

(* The caller goes on with n stations: with no array when there are none,  *)
(* and also when calloc refuses, which nobody asks (2668-2669).            *)
Allocate(c, n) ==
  /\ size' = [size EXCEPT ![c] = n]
  /\ \/ n = 0 /\ Return(c, "OK") /\ UNCHANGED array
     \/ n > 0 /\ Goto(c, "cat") /\ array' = [array EXCEPT ![c] = <<>>]
     \/ n > Spare /\ Goto(c, "cat") /\ UNCHANGED array

(* Variant: the file is opened without being emptied. *)
OpenKeeps(c) ==
  /\ pc[c] = "open"
  /\ Goto(c, "list")
  /\ UNCHANGED <<assoc, file, list, size, array, text, kick>>
Open(c) ==
  /\ pc[c] = "open"
  /\ \/ /\ file' = <<>>
        /\ Goto(c, "list")
        /\ UNCHANGED <<size, array>>
     \/ /\ "popen1" \in Hazard      \* atoi() of an uninitialised buffer
        /\ \E n \in Garbage : Allocate(c, n)
        /\ UNCHANGED file
  /\ UNCHANGED <<assoc, list, text, kick>>

List(c) ==
  /\ pc[c] = "list"
  /\ list' = [list EXCEPT ![c] = assoc]
  /\ Goto(c, "write")
  /\ UNCHANGED <<assoc, file, size, array, text, kick>>

(* Variant: the file is opened for appending. *)
WriteAppends(c) ==
  /\ pc[c] = "write"
  /\ file' = file \o list[c]
  /\ Goto(c, "count")
  /\ UNCHANGED <<assoc, list, size, array, text, kick>>
(* From the start of the file, over what another caller wrote meanwhile. *)
Write(c) ==
  /\ pc[c] = "write"
  /\ file' = list[c] \o SubSeq(file, Len(list[c]) + 1, Len(file))
  /\ Goto(c, "count")
  /\ UNCHANGED <<assoc, list, size, array, text, kick>>

Count(c) ==
  /\ pc[c] = "count"
  /\ Allocate(c, Len(file))
  /\ UNCHANGED <<assoc, file, list, text, kick>>

-----------------------------------------------------------------------------
(* "cat file", read with fgets(200): a long line comes in two pieces.      *)

Pieces(lines) ==
  FlattenSeq([k \in DOMAIN lines |->
    IF lines[k] \in Long THEN <<lines[k], Rest>> ELSE <<lines[k]>>])

Cat(c) ==
  /\ pc[c] = "cat"
  /\ \/ /\ text' = [text EXCEPT ![c] = Pieces(file)]
        /\ Goto(c, "fill")
     \/ /\ "popen2" \in Hazard
        /\ Return(c, "ERR")
        /\ UNCHANGED text
  /\ UNCHANGED <<assoc, file, list, size, array, kick>>

Entries(c) == IF array[c] = NULL THEN 0 ELSE Len(array[c])

Finish(c, r) ==
  /\ text' = [text EXCEPT ![c] = <<>>]
  /\ Return(c, r)
  /\ UNCHANGED array

(* One entry is filled in from one piece.  Where there is no array, the    *)
(* entry is written through NULL (2703-2704): that is the end of the       *)
(* process.                                                                *)
FillNext(c) ==
  \/ /\ array[c] # NULL
     /\ array' = [array EXCEPT ![c] = Append(@, Head(text[c]))]
     /\ text' = [text EXCEPT ![c] = Tail(@)]
     /\ UNCHANGED <<pc, ret>>
  \/ array[c] = NULL /\ Finish(c, "died")

(* Variant: no comparison with the size that was allocated. *)
FillUnguarded(c) ==
  /\ pc[c] = "fill"
  /\ IF text[c] # <<>> THEN FillNext(c) ELSE Finish(c, "OK")
  /\ UNCHANGED <<assoc, file, list, size, kick>>
(* Variant: a full array is noticed only at the end of the file. *)
FillStalls(c) ==
  /\ pc[c] = "fill"
  /\ IF text[c] # <<>>
     THEN Entries(c) < size[c] /\ FillNext(c)
     ELSE Finish(c, "OK")
  /\ UNCHANGED <<assoc, file, list, size, kick>>
(* Filling stops at the end of the file or of the array (2685-2692). *)
Fill(c) ==
  /\ pc[c] = "fill"
  /\ IF text[c] # <<>> /\ Entries(c) < size[c]
     THEN FillNext(c)
     ELSE Finish(c, "OK")
  /\ UNCHANGED <<assoc, file, list, size, kick>>

-----------------------------------------------------------------------------
(* wifi_kickApAclAssociatedDevices: the stations are listed once, and the  *)
(* driver is asked to kick one after the other.  How it does so is left to *)
(* the vendor: wifi_kickApAssociatedDevice only returns an error.          *)

Kick(c, enable) ==
  Begin(c, "stations") /\ deny' = [deny EXCEPT ![c] = enable]

Listed(c) == SubSeq(list[c], 1, Min({Room, Len(list[c])}))

(* What does not fit in the buffer is cut, and a piece of an address is    *)
(* skipped (1982, 1991).  Without a list there is nothing to do.           *)
Stations(c) ==
  /\ pc[c] = "stations"
  /\ \/ list' = [list EXCEPT ![c] = assoc]
     \/ "popen1" \in Hazard /\ list' = [list EXCEPT ![c] = <<>>]
  /\ IF Listed(c)' = <<>>
     THEN Return(c, "OK") /\ UNCHANGED text
     ELSE /\ Goto(c, "kick")
          /\ text' = [text EXCEPT ![c] = IF deny[c] THEN Acl ELSE Listed(c)']
  /\ UNCHANGED <<assoc, file, size, array, kick>>

(* Variant: an allow list is read like a deny list. *)
MustGoDenied(c, s) == Contains(Listed(c), s) /\ Contains(Acl, s)
MustGo(c, s) ==
  IF deny[c] THEN Contains(Listed(c), s) ELSE ~Contains(Acl, s)

KickNext(c) ==
  /\ pc[c] = "kick"
  /\ \/ /\ text[c] = <<>>
        /\ Return(c, "OK")
        /\ asked' = [asked EXCEPT ![c] = {}]
        /\ UNCHANGED text
     \/ /\ text[c] # <<>>
        /\ text' = [text EXCEPT ![c] = Tail(@)]
        /\ asked' = IF MustGo(c, Head(text[c]))
                    THEN [asked EXCEPT ![c] = @ \cup {Head(text[c])}] ELSE asked
        /\ UNCHANGED <<pc, ret>>
  /\ UNCHANGED <<assoc, file, list, size, array, deny>>

-----------------------------------------------------------------------------
(* wifi_getApNumDevicesAssociated, and wifi_getBasicTrafficStats, which    *)
(* wants the counters of ifconfig first.                                   *)

NumDevices(c) == Begin(c, "number") /\ UNCHANGED deny
TrafficStats(c) == Begin(c, "ifconfig") /\ UNCHANGED deny

(* One of the counters may be missing: there may be no such interface.     *)
Ifconfig(c) ==
  /\ pc[c] = "ifconfig"
  /\ Goto(c, "number") \/ Return(c, "ERR")
  /\ UNCHANGED <<assoc, file, list, size, array, text, kick>>

(* A command that cannot be started leaves the caller's variable alone.    *)
Number(c) ==
  /\ pc[c] = "number"
  /\ \/ size' = [size EXCEPT ![c] = Len(assoc)]
     \/ "popen1" \in Hazard /\ UNCHANGED size
  /\ Return(c, "OK")
  /\ UNCHANGED <<assoc, file, list, array, text, kick>>

-----------------------------------------------------------------------------
(* Stations come and go at any moment. *)
Associate(s) ==
  /\ ~Contains(assoc, s)
  /\ assoc' = Append(assoc, s)
  /\ UNCHANGED <<file, call>>

Disassociate(s) ==
  /\ \E k \in DOMAIN assoc : assoc[k] = s /\ assoc' = RemoveAt(assoc, k)
  /\ UNCHANGED <<file, call>>

Step(c) ==
  \/ Open(c) \/ List(c) \/ Write(c) \/ Count(c) \/ Cat(c) \/ Fill(c)
  \/ Stations(c) \/ KickNext(c) \/ Ifconfig(c) \/ Number(c)

Next ==
  \/ \E c \in Caller :
       \/ Call(c) \/ BadCall(c) \/ NumDevices(c) \/ TrafficStats(c)
       \/ \E enable \in BOOLEAN : Kick(c, enable)
       \/ Step(c)
  \/ \E s \in Station : Associate(s) \/ Disassociate(s)

Spec == Init /\ [][Next]_vars

-----------------------------------------------------------------------------
(* The array is never filled beyond what was allocated (2691), although    *)
(* the file may have grown between the count and the second reading, a     *)
(* line may come in two pieces, and the count may be any number at all.    *)
(* That is so where there is an array: a call writes through NULL, and     *)
(* kills its process, only when more entries were asked of calloc than it  *)
(* gives in any case (2668).                                               *)
WithinArray ==
  \A c \in Caller :
    /\ array[c] # NULL => Len(array[c]) <= size[c]
    /\ ret[c] = "died" => array[c] = NULL /\ size[c] > Spare

(* A call comes to an end, also when another caller empties or rewrites    *)
(* the file under it and stations never stop coming and going.             *)
Returns == \A c \in Caller : pc[c] # "idle" ~> pc[c] = "idle"
=============================================================================
