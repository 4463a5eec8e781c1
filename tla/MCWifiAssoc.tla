---------------------------- MODULE MCWifiAssoc ----------------------------
(* An instance of WifiAssoc for TLC.  A behaviour is about the array and   *)
(* its file, or about kicks and counts.  History variables tell the        *)
(* calls that had the file to themselves, and the stations that were there *)
(* all along.                                                              *)
EXTENDS WifiAssoc

MCAcl == <<CHOOSE s \in Long : TRUE>>

VARIABLES
  topic,
  alone,   \* alone[c]: no other user of the file so far, and the count was read
  stayed   \* stayed[c]: associated at every moment of c's kick so far

MCInit ==
  /\ Init
  /\ topic \in {"array", "kick"}
  /\ alone = [c \in Caller |-> TRUE]
  /\ stayed = [c \in Caller |-> {}]

Kicks == {"stations", "kick"}

Record ==
  /\ alone' = [c \in Caller |->
                 /\ \A d \in Caller \ {c} : pc'[d] = "idle"
                 /\ pc[c] = "idle" \/ alone[c]
                 /\ ~(pc[c] = "open" /\ pc'[c] = "cat")]
  /\ stayed' = [c \in Caller |->
                  IF pc'[c] \notin Kicks THEN {}
                  ELSE IF pc[c] = "idle" THEN ToSet(assoc')
                  ELSE stayed[c] \cap ToSet(assoc')]

Watch ==
  /\ UNCHANGED topic
  /\ \A c \in Caller :
       pc[c] = "idle" /\ pc'[c] # "idle" => (pc'[c] = "open" <=> topic = "array")
  /\ Record

MCSpec ==
  /\ MCInit /\ [][Next /\ Watch]_<<vars, topic, alone, stayed>>
  /\ \A c \in Caller : WF_vars(Step(c))

(* No line but perhaps the last one comes in two pieces. *)
Whole(lines) == \A k \in 1 .. Len(lines) - 1 : lines[k] \notin Long

(* A caller that has the file to itself, and lives, gets what the driver   *)
(* said at one moment, whatever stations come and go during the call: one  *)
(* entry for each station, in full and in order, if and only if no line    *)
(* but the last is too long for fgets (2658-2738).  Otherwise the rest of  *)
(* the long line takes the place of a station, and the last one is lost.   *)
AnswersSnapshot ==
  [][\A c \in Caller : alone[c] /\ pc[c] = "fill" /\ ret'[c] = "OK" =>
       /\ size[c] = Len(list[c])
       /\ array'[c] = SubSeq(Pieces(list[c]), 1, size[c])
       /\ array'[c] = list[c] <=> Whole(list[c])]_vars

(* "kick off the MAC which is in ACL array", or "which is not" (1979,      *)
(* 1988): whatever stations come and go during the call, one that is there *)
(* all along is asked to leave if and only if the list says so, unless the *)
(* list of stations was cut or could not be had.                           *)
KicksWhoStays ==
  [][\A c \in Caller : pc[c] = "kick" /\ pc'[c] = "idle" =>
       /\ asked[c] \subseteq ToSet(list[c])
       /\ Len(list[c]) <= Room =>
            \A s \in stayed[c] :
              s \in asked[c] <=> (deny[c] <=> Contains(Acl, s))]_vars
=============================================================================
