--------------------------- MODULE VlanConfigList ---------------------------
(***************************************************************************)
(* source/vlan/vlan_hal.c: the list gpvlan_Config_Head, block by block.    *)
(*                                                                         *)
(* VlanHal takes a walk along the list for one step, which is right for a  *)
(* process that makes one call at a time.  Here a walk is one step per     *)
(* entry, as in the code: nothing locks the list, and the threads of one   *)
(* process may walk it at once.  A block is what malloc gives out, and may *)
(* be given out again once it was freed.                                   *)
(*                                                                         *)
(* A definition marked "Variant" is not part of the model: it is the one   *)
(* below it with a plausible mistake.                                      *)
(***************************************************************************)
EXTENDS Naturals, Sequences, FiniteSets

CONSTANTS
  Walker,      \* threads of one process
  Block,       \* blocks malloc can give out
  Name,        \* groupName
  Id,          \* vlanID
  NIL

ASSUME NilAssumption == NIL \notin Block \cup Name \cup Id
ASSUME BlockAssumption == IsFiniteSet(Block)

VARIABLES
  head,        \* gpvlan_Config_Head
  node,        \* node[b]: what block b holds
  at,          \* at[t]: the next step of t's call
  task,        \* task[t]: the call
  mine,        \* mine[t]: the block t has allocated, pvlan_Config_Temp
  prev, curr,  \* pvlan_Config_prev and pvlan_Config_curr
  found        \* found[t]: the id get_vlanId_for_GroupName has copied

listVars == <<head, node, at, task, mine, prev, curr, found>>

Fresh(name, id) == [used |-> TRUE, name |-> name, id |-> id, next |-> NIL]
Unused == [used |-> FALSE, name |-> NIL, id |-> NIL, next |-> NIL]

Tasks ==
  [op : {"insert"}, name : Name, id : Id]
    \cup [op : {"delete", "get"}, name : Name, id : {NIL}]
    \cup [op : {"print"}, name : {NIL}, id : {NIL}]

ListInit ==
  /\ head = NIL
  /\ node = [b \in Block |-> Unused]
  /\ at = [t \in Walker |-> "idle"]
  /\ task = [t \in Walker |-> NIL]
  /\ mine = [t \in Walker |-> NIL]
  /\ prev = [t \in Walker |-> NIL]
  /\ curr = [t \in Walker |-> NIL]
  /\ found = [t \in Walker |-> NIL]

-----------------------------------------------------------------------------
GoTo(t, label) == at' = [at EXCEPT ![t] = label] /\ UNCHANGED <<task, found>>

Done(t, id) ==
  /\ at' = [at EXCEPT ![t] = "idle"]
  /\ task' = [task EXCEPT ![t] = NIL]
  /\ mine' = [mine EXCEPT ![t] = NIL]
  /\ prev' = [prev EXCEPT ![t] = NIL]
  /\ curr' = [curr EXCEPT ![t] = NIL]
  /\ found' = [found EXCEPT ![t] = id]

(* The callers in vlan_hal.c never pass NULL. *)
Enter(t, call) ==
  /\ at[t] = "idle"
  /\ at' = [at EXCEPT ![t] = IF call.op = "insert" THEN "malloc" ELSE "start"]
  /\ task' = [task EXCEPT ![t] = call]
  /\ found' = [found EXCEPT ![t] = NIL]
  /\ UNCHANGED <<head, node, mine, prev, curr>>

(* The block that curr points to was not freed meanwhile. *)
Holds(b) == b # NIL /\ node[b].used

-----------------------------------------------------------------------------
(* insert_VLAN_ConfigEntry                                                 *)

(* The entry is complete before anybody else can see it. *)
Malloc(t) ==
  /\ at[t] = "malloc"
  /\ \/ \E b \in Block :
          /\ ~node[b].used
          /\ node' = [node EXCEPT ![b] = Fresh(task[t].name, task[t].id)]
          /\ mine' = [mine EXCEPT ![t] = b]
          /\ GoTo(t, "head")
          /\ UNCHANGED <<prev, curr>>
     \/ Done(t, NIL) /\ UNCHANGED node
  /\ UNCHANGED head

LookAtHead(t) ==
  /\ at[t] = "head"
  /\ GoTo(t, IF head = NIL THEN "first" ELSE "tail")
  /\ curr' = [curr EXCEPT ![t] = head]
  /\ UNCHANGED <<head, node, mine, prev>>

First(t) ==
  /\ at[t] = "first"
  /\ head' = mine[t]
  /\ Done(t, NIL)
  /\ UNCHANGED node

ToTail(t) ==
  /\ at[t] = "tail"
  /\ Holds(curr[t])
  /\ IF node[curr[t]].next # NIL
     THEN curr' = [curr EXCEPT ![t] = node[curr[t]].next] /\ UNCHANGED at
     ELSE at' = [at EXCEPT ![t] = "link"] /\ UNCHANGED curr
  /\ UNCHANGED <<head, node, task, mine, prev, found>>

Link(t) ==
  /\ at[t] = "link"
  /\ Holds(curr[t])
  /\ node' = [node EXCEPT ![curr[t]].next = mine[t]]
  /\ Done(t, NIL)
  /\ UNCHANGED head

-----------------------------------------------------------------------------
(* delete_VLAN_ConfigEntry, get_vlanId_for_GroupName and                   *)
(* print_all_vlanId_Configuration                                          *)

Start(t) ==
  /\ at[t] = "start"
  /\ GoTo(t, "search")
  /\ prev' = [prev EXCEPT ![t] = NIL]
  /\ curr' = [curr EXCEPT ![t] = head]
  /\ UNCHANGED <<head, node, mine>>

Advance(t) ==
  /\ prev' = [prev EXCEPT ![t] = curr[t]]
  /\ curr' = [curr EXCEPT ![t] = node[curr[t]].next]
  /\ UNCHANGED <<at, task, mine, found>>

(* Variant: the search goes on behind a match. *)
FoundLast(t) ==
  /\ found' = [found EXCEPT ![t] = node[curr[t]].id]
  /\ prev' = [prev EXCEPT ![t] = curr[t]]
  /\ curr' = [curr EXCEPT ![t] = node[curr[t]].next]
  /\ UNCHANGED <<at, task, mine>>
(* The id of the first match is copied, and the walk ends. *)
Found(t) == Done(t, node[curr[t]].id)

Search(t) ==
  /\ at[t] = "search"
  /\ \/ curr[t] = NIL /\ Done(t, found[t])
     \/ /\ Holds(curr[t])
        /\ node[curr[t]].name # task[t].name
        /\ Advance(t)
     \/ /\ Holds(curr[t])
        /\ node[curr[t]].name = task[t].name
        /\ IF task[t].op = "delete"
           THEN GoTo(t, "unlink") /\ UNCHANGED <<mine, prev, curr>>
           ELSE Found(t)
  /\ UNCHANGED <<head, node>>

(* Variant: what is behind the entry goes with it. *)
UnlinkCuts(t) ==
  /\ at[t] = "unlink"
  /\ Holds(curr[t])
  /\ IF prev[t] = NIL
     THEN head' = node[curr[t]].next /\ UNCHANGED node
     ELSE node' = [node EXCEPT ![prev[t]].next = NIL] /\ UNCHANGED head
  /\ GoTo(t, "free")
  /\ UNCHANGED <<mine, prev, curr>>
(* Variant: the head stays although it is the entry to go. *)
UnlinkKeepsHead(t) ==
  /\ at[t] = "unlink"
  /\ Holds(curr[t])
  /\ node' = IF prev[t] = NIL THEN node
             ELSE [node EXCEPT ![prev[t]].next = node[curr[t]].next]
  /\ GoTo(t, "free")
  /\ UNCHANGED <<head, mine, prev, curr>>
Unlink(t) ==
  /\ at[t] = "unlink"
  /\ Holds(curr[t])
  /\ \/ /\ prev[t] = NIL
        /\ head' = node[curr[t]].next
        /\ UNCHANGED node
     \/ /\ Holds(prev[t])
        /\ node' = [node EXCEPT ![prev[t]].next = node[curr[t]].next]
        /\ UNCHANGED head
  /\ GoTo(t, "free")
  /\ UNCHANGED <<mine, prev, curr>>

Free(t) ==
  /\ at[t] = "free"
  /\ Holds(curr[t])
  /\ node' = [node EXCEPT ![curr[t]] = Unused]
  /\ Done(t, NIL)
  /\ UNCHANGED head

(* A walk has come to a block that somebody freed: what follows is         *)
(* undefined, and not followed further.                                    *)
Astray(t) ==
  /\ \/ at[t] \in {"tail", "link", "search", "unlink", "free"}
        /\ curr[t] # NIL /\ ~Holds(curr[t])
     \/ at[t] = "unlink" /\ prev[t] # NIL /\ ~Holds(prev[t])
  /\ GoTo(t, "astray")
  /\ UNCHANGED <<head, node, mine, prev, curr>>

ListStep(t) ==
  \/ Malloc(t) \/ LookAtHead(t) \/ First(t) \/ ToTail(t) \/ Link(t)
  \/ Start(t) \/ Search(t) \/ Unlink(t) \/ Free(t) \/ Astray(t)

ListNext ==
  \E t \in Walker : (\E call \in Tasks : Enter(t, call)) \/ ListStep(t)

ListSpec == ListInit /\ [][ListNext]_listVars

-----------------------------------------------------------------------------
(* The blocks from the first on; one more than there are when the list     *)
(* does not end.                                                           *)
ChainFrom(first, nodes) ==
  LET Nth[k \in 0 .. Cardinality(Block)] ==
        IF k = 0 THEN first
        ELSE IF Nth[k - 1] = NIL THEN NIL ELSE nodes[Nth[k - 1]].next
      count == Cardinality({k \in DOMAIN Nth : Nth[k] # NIL})
  IN [k \in 1 .. count |-> Nth[k - 1]]

Chain == ChainFrom(head, node)

Ends == Len(Chain) <= Cardinality(Block)
OnList(b) == \E k \in DOMAIN Chain : Chain[k] = b

(* The list as VlanHal has it: the entries from head to tail. *)
Entries ==
  [k \in DOMAIN Chain |-> [group |-> node[Chain[k]].name,
                           vid |-> node[Chain[k]].id]]
=============================================================================
