------------------------------ MODULE MCMemory ------------------------------
(* The machines that are about memory, side by side in one instance for    *)
(* TLC: a behaviour is one of _syscmd, of the list of the VLAN HAL, of the *)
(* voice HAL or of the cable modem HAL, and the others stay where they     *)
(* start.  History variables tell which calls have met.                    *)
EXTENDS WifiSyscmd, VlanConfigList, MtaHal, CmHal, SequencesExt

CONSTANTS on, low, need, empty, one, two, long, full

MCChars == on :> 1 @@ low :> 2 @@ need :> 5
MCLength == empty :> 0 @@ one :> 1 @@ two :> 2 @@ long :> 3 @@ full :> 4

VARIABLES
  topic,
  met,     \* the ways in which calls on the list have met so far
  due,     \* due[t]: the id that t's look-up had to find when it began
  alone    \* alone[t]: no other call for the event log so far

listHistory == <<met, due>>

MCInit ==
  /\ topic \in {"syscmd", "list", "battery", "tables", "cm"}
  /\ Init /\ ListInit /\ MtaInit /\ CmInit
  /\ topic # "syscmd" => size = 1 /\ left = 0
  /\ topic \notin {"battery", "tables"} => checked
  /\ topic # "battery" => room = 6
  /\ met = {}
  /\ due = [t \in Walker |-> NIL]
  /\ alone = [t \in Thread |-> FALSE]

-----------------------------------------------------------------------------
Begins(t) == at[t] = "idle" /\ at'[t] # "idle"

(* Two calls meet when one begins before the other has returned.           *)
Meeting(t) ==
  LET ops == {task[s].op : s \in {u \in Walker : at[u] # "idle"}}
      op == task'[t].op
  IN (IF ops # {} /\ "delete" \in ops \cup {op} THEN {"delete"} ELSE {})
       \cup (IF op = "insert" /\ "insert" \in ops THEN {"insert"} ELSE {})

HasName(name) == \E k \in DOMAIN Entries : Entries[k].group = name
FirstId(name) ==
  LET k == CHOOSE j \in DOMAIN Entries :
             /\ Entries[j].group = name
             /\ \A i \in 1 .. (j - 1) : Entries[i].group # name
  IN Entries[k].vid

(* Two ids are needed for one of the groups only.                          *)
Reduced(call) ==
  call.name = (CHOOSE n \in Name : TRUE) \/ call.id \in {NIL, CHOOSE i \in Id : TRUE}

RecordMeetings ==
  /\ met' = met \cup UNION {Meeting(t) : t \in {u \in Walker : Begins(u)}}
  /\ due' = [t \in Walker |->
               IF ~Begins(t) THEN IF at'[t] = "idle" THEN NIL ELSE due[t]
               ELSE IF task'[t].op = "get" /\ HasName(task'[t].name)
                    THEN FirstId(task'[t].name) ELSE NIL]

(* A behaviour in which two calls that change the list have met is         *)
(* followed until the calls of that moment have returned.  Blocks are alike *)
(* in all that is checked, so malloc gives the first that is free.         *)
ListPart ==
  /\ ListNext
  /\ \A t \in Walker : Begins(t) => met = {} /\ Reduced(task'[t])
  /\ \A t \in Walker : at[t] = "malloc" /\ mine'[t] # NIL =>
       \A b \in Block : b < mine'[t] => node[b].used
  /\ RecordMeetings

LogSteps == {"clear", "fill", "give"}
CmPart ==
  /\ CmNext
  /\ alone' = [t \in Thread |->
                 /\ step'[t] \in LogSteps
                 /\ alone[t] \/ step[t] = "idle"
                 /\ \A s \in Thread \ {t} : step'[s] \notin LogSteps]

MCNext ==
  /\ UNCHANGED topic
  /\ \/ /\ topic = "syscmd" /\ Next
        /\ UNCHANGED <<listVars, listHistory, mtaVars, cmVars, alone>>
     \/ /\ topic = "list" /\ ListPart
        /\ UNCHANGED <<vars, mtaVars, cmVars, alone>>
     \/ /\ topic = "battery" /\ MtaNext /\ UNCHANGED memory
        /\ UNCHANGED <<vars, listVars, listHistory, cmVars, alone>>
     \/ /\ topic = "tables" /\ MtaNext /\ UNCHANGED battery
        /\ UNCHANGED <<vars, listVars, listHistory, cmVars, alone>>
     \/ /\ topic = "cm" /\ CmPart
        /\ UNCHANGED <<vars, listVars, listHistory, mtaVars>>

MCSpec ==
  /\ MCInit
  /\ [][MCNext]_<<topic, vars, listVars, listHistory, mtaVars, cmVars, alone>>
  /\ WF_vars(Next)

-----------------------------------------------------------------------------
(* The loop of _syscmd ends, also when the command has more to say than    *)
(* fits in the buffer (191-209).                                           *)
SyscmdEnds == topic = "syscmd" ~> pc = "done"

(* The list has an end and consists of blocks that are not freed, also     *)
(* when two threads append at once, as long as no entry is deleted during  *)
(* another call (674-769); and as long as calls that change the list have  *)
(* not met, every block is on it, or in the hands of a call: no block is   *)
(* lost.                                                                   *)
ListIntact ==
  /\ "delete" \notin met =>
       /\ Ends
       /\ \A k \in DOMAIN Chain : node[Chain[k]].used
       /\ \A t \in Walker : at[t] # "astray"
  /\ met = {} =>
       \A b \in Block : node[b].used =>
         OnList(b) \/ \E t \in Walker : mine[t] = b \/ curr[t] = b

(* To those who read it the list is the sequence that VlanHal takes it     *)
(* for: a step appends one entry, or takes out the first of a name.  Two   *)
(* calls that append at once can cost entries at the end, and no others.   *)
ActsAsSequence ==
  [][LET Appended(list) ==
           \E t \in Walker :
             /\ at[t] \in {"first", "link"}
             /\ Entries' = Append(list, [group |-> task[t].name,
                                         vid |-> task[t].id])
         Removed ==
           \E t \in Walker :
             LET IsOfName(e) == e.group = task[t].name
             IN at[t] = "unlink" /\ Entries' = RemoveFirstMatch(Entries, IsOfName)
     IN /\ met' = {} => Entries' = Entries \/ Appended(Entries) \/ Removed
        /\ met' = {"insert"} =>
             \/ Entries' = Entries \/ Removed
             \/ \E k \in 0 .. Len(Entries) : Appended(SubSeq(Entries, 1, k))]_<<listVars, listHistory>>

(* A look-up that began when the group had an entry finds the first one,   *)
(* also when another thread is appending entries, of the same group or of  *)
(* others (772-819).                                                       *)
GetFindsEntry ==
  [][\A t \in Walker :
       due[t] # NIL /\ at[t] # "idle" /\ at'[t] = "idle" /\ met' = {} =>
         found'[t] = due[t]]_<<listVars, listHistory>>

(* A call for the event log that meets no other such call gets both        *)
(* entries filled, whatever calls before it have left (196-220).           *)
EventLogAlone ==
  [][\A t \in Thread : alone[t] /\ step[t] = "give" /\ step'[t] = "idle" =>
       items'[t] = <<TRUE, TRUE>>]_cmVars
=============================================================================
