------------------------------ MODULE VlanHal ------------------------------
(***************************************************************************)
(* source/vlan/vlan_hal.c: groups of VLAN devices kept as Linux bridges.   *)
(*                                                                         *)
(* Every process that links the library has its own gpvlan_Config_Head     *)
(* list of (group, default VLAN id) entries; the bridges, their ports and  *)
(* the VLAN devices belong to the kernel and are shared.  The library      *)
(* reads the kernel with popen("brctl show ...") and changes it with       *)
(* system("brctl ...; vconfig ..."), so a call is a sequence of steps and  *)
(* the steps of two processes interleave.  One step here is one command of *)
(* the shell, or one walk of the list, which only its own process sees.    *)
(*                                                                         *)
(* A definition marked "Variant" is not part of the model: it is what the  *)
(* one below it would be with a plausible mistake in the code, and it is   *)
(* kept so that a property can be shown to notice the mistake.             *)
(*                                                                         *)
(* A port is a pair <<i, t>>: the VLAN device "i.t", or, when t is NoTag,  *)
(* the interface i itself.                                                 *)
(***************************************************************************)
EXTENDS Naturals, SequencesExt

CONSTANTS
  Proc,        \* processes that use the HAL
  Group,       \* group names, used as bridge names
  If,          \* base interface names
  Vid,         \* VLAN ids
  NULL,        \* the vlanID argument that asks for the group's default
  NoTag,       \* the tag of a port that is a bare interface
  Manages,     \* Manages[p]: the groups process p makes calls about
  Alias,       \* <<g, h>>: g is a whole word of the longer bridge name h
  Hazard,      \* which of HazardKinds may strike
  MaxEntries   \* bound on the length of a configuration list

HazardKinds ==
  { "restart",    \* a process dies and starts again, with an empty list
    "upRace",     \* a bridge is brought up while delGroup is removing it
    "cmdFail",    \* a command of system() or popen() fails; nobody notices
    "noMem",      \* malloc fails in insert_VLAN_ConfigEntry
    "extDel",     \* someone else deletes a bridge
    "plain" }     \* someone else adds a bare interface to a bridge

ASSUME ValuesAssumption ==
  NULL \notin Vid /\ NoTag \notin Vid /\ NULL # NoTag
ASSUME ManagesAssumption == Manages \in [Proc -> SUBSET Group]
ASSUME AliasAssumption == Alias \subseteq Group \X Group
ASSUME BoundAssumption == MaxEntries \in Nat
ASSUME HazardAssumption == Hazard \subseteq HazardKinds

VARIABLES
  cfg,         \* cfg[p]: the list gpvlan_Config_Head of process p
  bridges,     \* kernel: the bridges that exist
  up,          \* kernel: the bridges that are administratively up
  ports,       \* kernel: ports[g] is the set of ports of bridge g
  devs,        \* kernel: the VLAN devices that exist
  pc,          \* pc[p]: the next step of p's call, "idle" between calls
  arg,         \* arg[p]: the call p is making, NoCall between calls
  todo,        \* todo[p]: lines of "brctl show" delGroup has still to read
  ret          \* ret[p]: what p's last call returned

kernel == <<bridges, up, ports, devs>>
vars == <<cfg, bridges, up, ports, devs, pc, arg, todo, ret>>

Device == If \X Vid
Port == If \X (Vid \cup {NoTag})
Entry == [group : Group, vid : Vid]

Op == {"none", "addGroup", "delGroup", "addInterface", "delInterface"}
Call == [group : Group \cup {NULL}, op : Op,
         tag : Vid \cup {NULL, NoTag}, ifc : If \cup {NULL}]
NoCall == [group |-> NULL, op |-> "none", tag |-> NULL, ifc |-> NULL]

Label ==
  { "idle",
    "ag_check", "ag_addbr", "ag_insert",
    "dg_check", "dg_list", "dg_loop", "dg_down", "dg_delbr", "dg_forget",
    "ai_group", "ai_port", "ai_vconfig", "ai_addif",
    "di_group", "di_port", "di_vconfig", "di_delif" }

TypeOK ==
  /\ cfg \in [Proc -> Seq(Entry)]
  /\ bridges \in SUBSET Group
  /\ up \in SUBSET Group
  /\ ports \in [Group -> SUBSET Port]
  /\ devs \in SUBSET Device
  /\ pc \in [Proc -> Label]
  /\ arg \in [Proc -> Call]
  /\ todo \in [Proc -> SUBSET Port]
  /\ ret \in [Proc -> {"none", "OK", "ERR"}]

Init ==
  /\ cfg = [p \in Proc |-> <<>>]
  /\ bridges = {}
  /\ up = {}
  /\ ports = [g \in Group |-> {}]
  /\ devs = {}
  /\ pc = [p \in Proc |-> "idle"]
  /\ arg = [p \in Proc |-> NoCall]
  /\ todo = [p \in Proc |-> {}]
  /\ ret = [p \in Proc |-> "none"]

-----------------------------------------------------------------------------
(* The configuration list, as the walks from head to tail see it.          *)

HasEntry(list, g) == \E k \in DOMAIN list : list[k].group = g

(* get_vlanId_for_GroupName: the id of the first entry that matches. *)
DefaultOf(list, g) ==
  LET IsOfGroup(e) == e.group = g
  IN list[SelectInSeq(list, IsOfGroup)].vid

(* insert_VLAN_ConfigEntry: at the tail, with no search for the group. *)
InsertEntry(list, g, v) == Append(list, [group |-> g, vid |-> v])

(* Variant: the entry stays. *)
KeepEntry(list, g) == list
(* delete_VLAN_ConfigEntry: unlinks the first match and stops. *)
DeleteEntry(list, g) ==
  LET IsOfGroup(e) == e.group = g
  IN RemoveFirstMatch(list, IsOfGroup)

-----------------------------------------------------------------------------
(* The kernel: what brctl, ip and vconfig do.                              *)

Tagged(g) == {d \in ports[g] : d[2] # NoTag}
InBridge(g, d) == d \in ports[g]
InAnyBridge(d) == \E h \in bridges : d \in ports[h]

(* system() runs a command; nobody looks at its status. *)
OrFails(effect) == effect \/ ("cmdFail" \in Hazard /\ UNCHANGED kernel)

BrctlAddbr(g) ==
  /\ bridges' = bridges \cup {g}
  /\ UNCHANGED <<up, ports, devs>>

(* A bridge that is up cannot be deleted. *)
BrctlDelbr(g) ==
  IF g \in bridges \ up
  THEN /\ bridges' = bridges \ {g}
       /\ ports' = [ports EXCEPT ![g] = {}]
       /\ UNCHANGED <<up, devs>>
  ELSE UNCHANGED kernel

LinkDown(g) ==
  /\ up' = up \ {g}
  /\ UNCHANGED <<bridges, ports, devs>>

VconfigAdd(d) ==
  /\ devs' = devs \cup {d}
  /\ UNCHANGED <<bridges, up, ports>>

(* Deleting a device takes it out of whatever bridge it is in. *)
VconfigRem(d) ==
  /\ devs' = devs \ {d}
  /\ ports' = IF d \in devs THEN [h \in Group |-> ports[h] \ {d}] ELSE ports
  /\ UNCHANGED <<bridges, up>>

(* A device is a port of one bridge at most. *)
BrctlAddif(g, d) ==
  IF g \in bridges /\ d \in devs /\ ~InAnyBridge(d)
  THEN /\ ports' = [ports EXCEPT ![g] = @ \cup {d}]
       /\ UNCHANGED <<bridges, up, devs>>
  ELSE UNCHANGED kernel

BrctlDelif(g, x) ==
  /\ ports' = [ports EXCEPT ![g] = @ \ {x}]
  /\ UNCHANGED <<bridges, up, devs>>

(* _is_this_group_available_in_linux_bridge: "brctl show | grep -w g". *)
Available(g) == \E h \in bridges : h = g \/ <<g, h>> \in Alias

(* A look at the bridges finds nothing: there is nothing, or popen has     *)
(* failed and the answer is the same (527, 597, 648).                      *)
Missed(found) == ~found \/ "cmdFail" \in Hazard

-----------------------------------------------------------------------------
(* Control of a call.                                                      *)

Goto(p, label) == pc' = [pc EXCEPT ![p] = label] /\ UNCHANGED <<arg, ret>>

GotoWith(p, label, c) ==
  /\ pc' = [pc EXCEPT ![p] = label]
  /\ arg' = [arg EXCEPT ![p] = c]
  /\ UNCHANGED ret

Return(p, r) ==
  /\ pc' = [pc EXCEPT ![p] = "idle"]
  /\ arg' = [arg EXCEPT ![p] = NoCall]
  /\ ret' = [ret EXCEPT ![p] = r]

Begin(p, label, c) ==
  /\ pc[p] = "idle"
  /\ c.group \in Manages[p]
  /\ pc' = [pc EXCEPT ![p] = label]
  /\ arg' = [arg EXCEPT ![p] = c]
  /\ ret' = [ret EXCEPT ![p] = "none"]
  /\ UNCHANGED <<cfg, bridges, up, ports, devs, todo>>

(* A NULL group or interface name is refused before anything is read. *)
BadCall(p) ==
  /\ pc[p] = "idle"
  /\ ret' = [ret EXCEPT ![p] = "ERR"]
  /\ UNCHANGED <<cfg, bridges, up, ports, devs, pc, arg, todo>>

GroupCall(o, g) == [group |-> g, op |-> o, tag |-> NULL, ifc |-> NULL]

(* Variant: the bridge is listed again after every line. *)
RelistAfterCall(p, r) ==
  IF arg[p].op = "delGroup"
  THEN GotoWith(p, "dg_list", GroupCall("delGroup", arg[p].group))
  ELSE Return(p, r)
(* How a call goes on when it is done: back to the user, or, when it is the *)
(* delInterface of one line of delGroup, to the next line.  The result is  *)
(* dropped there.                                                          *)
AfterCall(p, r) ==
  IF arg[p].op = "delGroup"
  THEN GotoWith(p, "dg_loop", GroupCall("delGroup", arg[p].group))
  ELSE Return(p, r)

(* The group must be there; a NULL id becomes the group's default. *)
ResolveTag(p, next) ==
  LET g == arg[p].group IN
  \/ /\ Available(g)
     /\ arg[p].tag # NULL
     /\ Goto(p, next)
  \/ /\ Available(g)
     /\ arg[p].tag = NULL /\ HasEntry(cfg[p], g)
     /\ GotoWith(p, next, [arg[p] EXCEPT !.tag = DefaultOf(cfg[p], g)])
  \/ /\ Missed(Available(g)) \/ (arg[p].tag = NULL /\ ~HasEntry(cfg[p], g))
     /\ AfterCall(p, "ERR")

-----------------------------------------------------------------------------
(* vlan_hal_addGroup                                                       *)

AddGroup(p, g, v) ==
  /\ Len(cfg[p]) < MaxEntries
  /\ Begin(p, "ag_check",
           [group |-> g, op |-> "addGroup", tag |-> v, ifc |-> NULL])

(* Variant: no look at the bridges. *)
AgCheckBlind(p) ==
  /\ pc[p] = "ag_check"
  /\ Goto(p, "ag_addbr")
  /\ UNCHANGED <<cfg, bridges, up, ports, devs, todo>>
(* A group that is there is left alone, default id and all. *)
AgCheck(p) ==
  /\ pc[p] = "ag_check"
  /\ \/ Available(arg[p].group) /\ Return(p, "OK")
     \/ Missed(Available(arg[p].group)) /\ Goto(p, "ag_addbr")
  /\ UNCHANGED <<cfg, bridges, up, ports, devs, todo>>

(* Variant: an entry is stored although no default id was given. *)
AgAddbrAlwaysStores(p) ==
  /\ pc[p] = "ag_addbr"
  /\ OrFails(BrctlAddbr(arg[p].group))
  /\ Goto(p, "ag_insert")
  /\ UNCHANGED <<cfg, todo>>
AgAddbr(p) ==
  /\ pc[p] = "ag_addbr"
  /\ OrFails(BrctlAddbr(arg[p].group))
  /\ IF arg[p].tag = NULL THEN Return(p, "OK") ELSE Goto(p, "ag_insert")
  /\ UNCHANGED <<cfg, todo>>

AgInsert(p) ==
  /\ pc[p] = "ag_insert"
  /\ \/ cfg' = [cfg EXCEPT ![p] = InsertEntry(@, arg[p].group, arg[p].tag)]
     \/ "noMem" \in Hazard /\ UNCHANGED cfg
  /\ Return(p, "OK")
  /\ UNCHANGED <<bridges, up, ports, devs, todo>>

-----------------------------------------------------------------------------
(* vlan_hal_delGroup, with vlan_hal_delete_all_Interfaces                  *)

DelGroup(p, g) ==
  Begin(p, "dg_check", GroupCall("delGroup", g))

DgCheck(p) ==
  /\ pc[p] = "dg_check"
  /\ \/ Available(arg[p].group) /\ Goto(p, "dg_list")
     \/ Missed(Available(arg[p].group)) /\ Return(p, "OK")
  /\ UNCHANGED <<cfg, bridges, up, ports, devs, todo>>

(* Variant: the listing of the ports comes back empty. *)
DgListNothing(p) ==
  /\ pc[p] = "dg_list"
  /\ todo' = [todo EXCEPT ![p] = {}]
  /\ Goto(p, "dg_loop")
  /\ UNCHANGED <<cfg, bridges, up, ports, devs>>
(* popen("brctl show g"): the lines are those of one moment.  If it fails  *)
(* there are none, and delGroup goes on to delete the bridge (446).        *)
DgList(p) ==
  /\ pc[p] = "dg_list"
  /\ \/ todo' = [todo EXCEPT ![p] = ports[arg[p].group]]
     \/ "cmdFail" \in Hazard /\ todo' = [todo EXCEPT ![p] = {}]
  /\ Goto(p, "dg_loop")
  /\ UNCHANGED <<cfg, bridges, up, ports, devs>>

(* One line is split into name and tag and handed to delInterface. *)
DgLoop(p) ==
  /\ pc[p] = "dg_loop"
  /\ \/ \E x \in todo[p] :
          /\ todo' = [todo EXCEPT ![p] = @ \ {x}]
          /\ GotoWith(p, "di_group",
                      [arg[p] EXCEPT !.ifc = x[1], !.tag = x[2]])
     \/ /\ todo[p] = {}
        /\ UNCHANGED todo
        /\ Goto(p, "dg_down")
  /\ UNCHANGED <<cfg, bridges, up, ports, devs>>

(* Variant: the bridge is not taken down. *)
DgDownSkipped(p) ==
  /\ pc[p] = "dg_down"
  /\ Goto(p, "dg_delbr")
  /\ UNCHANGED <<cfg, bridges, up, ports, devs, todo>>
DgDown(p) ==
  /\ pc[p] = "dg_down"
  /\ OrFails(LinkDown(arg[p].group))
  /\ Goto(p, "dg_delbr")
  /\ UNCHANGED <<cfg, todo>>

DgDelbr(p) ==
  /\ pc[p] = "dg_delbr"
  /\ OrFails(BrctlDelbr(arg[p].group))
  /\ Goto(p, "dg_forget")
  /\ UNCHANGED <<cfg, todo>>

DgForget(p) ==
  /\ pc[p] = "dg_forget"
  /\ cfg' = [cfg EXCEPT ![p] = DeleteEntry(@, arg[p].group)]
  /\ Return(p, "OK")
  /\ UNCHANGED <<bridges, up, ports, devs, todo>>

-----------------------------------------------------------------------------
(* vlan_hal_addInterface                                                   *)

AddInterface(p, g, i, v) ==
  Begin(p, "ai_group",
        [group |-> g, op |-> "addInterface", tag |-> v, ifc |-> i])

Target(p) == <<arg[p].ifc, arg[p].tag>>

(* Variant: an id that is given makes the look at the bridges superfluous. *)
AiGroupBlind(p) ==
  /\ pc[p] = "ai_group"
  /\ arg[p].tag # NULL
  /\ Goto(p, "ai_port")
  /\ UNCHANGED <<cfg, bridges, up, ports, devs, todo>>
AiGroup(p) ==
  /\ pc[p] = "ai_group"
  /\ ResolveTag(p, "ai_port")
  /\ UNCHANGED <<cfg, bridges, up, ports, devs, todo>>

(* Looks in every bridge, not in the group named. *)
AiPort(p) ==
  /\ pc[p] = "ai_port"
  /\ \/ InAnyBridge(Target(p)) /\ Return(p, "OK")
     \/ Missed(InAnyBridge(Target(p))) /\ Goto(p, "ai_vconfig")
  /\ UNCHANGED <<cfg, bridges, up, ports, devs, todo>>

(* Variant: the VLAN device is taken to exist. *)
AiVconfigSkipped(p) ==
  /\ pc[p] = "ai_vconfig"
  /\ Goto(p, "ai_addif")
  /\ UNCHANGED <<cfg, bridges, up, ports, devs, todo>>
AiVconfig(p) ==
  /\ pc[p] = "ai_vconfig"
  /\ OrFails(VconfigAdd(Target(p)))
  /\ Goto(p, "ai_addif")
  /\ UNCHANGED <<cfg, todo>>

AiAddif(p) ==
  /\ pc[p] = "ai_addif"
  /\ OrFails(BrctlAddif(arg[p].group, Target(p)))
  /\ Return(p, "OK")
  /\ UNCHANGED <<cfg, todo>>

-----------------------------------------------------------------------------
(* vlan_hal_delInterface, called by the user or for a line of delGroup     *)

DelInterface(p, g, i, v) ==
  Begin(p, "di_group",
        [group |-> g, op |-> "delInterface", tag |-> v, ifc |-> i])

DiGroup(p) ==
  /\ pc[p] = "di_group"
  /\ ResolveTag(p, "di_port")
  /\ UNCHANGED <<cfg, bridges, up, ports, devs, todo>>

(* Variant: looks in every bridge, as addInterface does. *)
DiPortAny(p) ==
  /\ pc[p] = "di_port"
  /\ IF InAnyBridge(Target(p)) THEN Goto(p, "di_vconfig") ELSE AfterCall(p, "OK")
  /\ UNCHANGED <<cfg, bridges, up, ports, devs, todo>>
DiPort(p) ==
  /\ pc[p] = "di_port"
  /\ \/ InBridge(arg[p].group, Target(p)) /\ Goto(p, "di_vconfig")
     \/ Missed(InBridge(arg[p].group, Target(p))) /\ AfterCall(p, "OK")
  /\ UNCHANGED <<cfg, bridges, up, ports, devs, todo>>

(* The first command, "vconfig rem i.t", fails for a bare interface.  There *)
(* the line's newline splits the second command off in a script a strict    *)
(* shell abandons, so "brctl delif" may not be reached.                     *)
DiVconfig(p) ==
  /\ pc[p] = "di_vconfig"
  /\ OrFails(VconfigRem(Target(p)))
  /\ \/ Goto(p, "di_delif")
     \/ arg[p].tag = NoTag /\ AfterCall(p, "OK")
  /\ UNCHANGED <<cfg, todo>>

(* The second command names the base interface, not the VLAN device. *)
DiDelif(p) ==
  /\ pc[p] = "di_delif"
  /\ OrFails(BrctlDelif(arg[p].group, <<arg[p].ifc, NoTag>>))
  /\ AfterCall(p, "OK")
  /\ UNCHANGED <<cfg, todo>>

-----------------------------------------------------------------------------
(* What happens around the calls.                                          *)

(* A process dies at any moment and comes back; the kernel keeps its state. *)
Restart(p) ==
  /\ "restart" \in Hazard
  /\ cfg' = [cfg EXCEPT ![p] = <<>>]
  /\ pc' = [pc EXCEPT ![p] = "idle"]
  /\ arg' = [arg EXCEPT ![p] = NoCall]
  /\ todo' = [todo EXCEPT ![p] = {}]
  /\ ret' = [ret EXCEPT ![p] = "none"]
  /\ UNCHANGED kernel

Deleting(g) == \E p \in Proc : pc[p] = "dg_delbr" /\ arg[p].group = g

(* The rest of the firmware brings a bridge up to use it. *)
BringUp(g) ==
  /\ g \in bridges \ up
  /\ "upRace" \in Hazard \/ ~Deleting(g)
  /\ up' = up \cup {g}
  /\ UNCHANGED <<cfg, bridges, ports, devs, pc, arg, todo, ret>>

ExternalDelete(g) ==
  /\ "extDel" \in Hazard
  /\ BrctlDelbr(g)
  /\ UNCHANGED <<cfg, pc, arg, todo, ret>>

(* A bare interface, such as the LAN port itself, is bridged by a script. *)
AddPlain(g, i) ==
  /\ "plain" \in Hazard
  /\ g \in bridges
  /\ ~InAnyBridge(<<i, NoTag>>)
  /\ ports' = [ports EXCEPT ![g] = @ \cup {<<i, NoTag>>}]
  /\ UNCHANGED <<cfg, bridges, up, devs, pc, arg, todo, ret>>

-----------------------------------------------------------------------------
UserCall(p) ==
  \/ BadCall(p)
  \/ \E g \in Group, v \in Vid \cup {NULL} : AddGroup(p, g, v)
  \/ \E g \in Group : DelGroup(p, g)
  \/ \E g \in Group, i \in If, v \in Vid \cup {NULL} :
       AddInterface(p, g, i, v) \/ DelInterface(p, g, i, v)

Step(p) ==
  \/ AgCheck(p) \/ AgAddbr(p) \/ AgInsert(p)
  \/ DgCheck(p) \/ DgList(p) \/ DgLoop(p)
  \/ DgDown(p) \/ DgDelbr(p) \/ DgForget(p)
  \/ AiGroup(p) \/ AiPort(p) \/ AiVconfig(p) \/ AiAddif(p)
  \/ DiGroup(p) \/ DiPort(p) \/ DiVconfig(p) \/ DiDelif(p)

Environment ==
  \/ \E p \in Proc : Restart(p)
  \/ \E g \in Group : BringUp(g) \/ ExternalDelete(g)
  \/ \E g \in Group, i \in If : AddPlain(g, i)

Next == Environment \/ \E p \in Proc : UserCall(p) \/ Step(p)

Spec == Init /\ [][Next]_vars

(* A call that has begun keeps running: the library never waits. *)
FairSpec == Spec /\ \A p \in Proc : WF_vars(Step(p))

-----------------------------------------------------------------------------
(* Safety.  These hold when every group is managed by one process only and *)
(* no command fails: OwnedGroups says so of the constants.                 *)

OwnedGroups ==
  /\ \A p, q \in Proc : p # q => Manages[p] \cap Manages[q] = {}
  /\ Hazard \cap {"cmdFail", "extDel"} = {}

(* addGroup never searches the list before it appends (674-726), and       *)
(* delete_VLAN_ConfigEntry removes one match (729-769): a second entry of  *)
(* a group would outlive the group and give the next one a stale default.  *)
OneEach(list) ==
  \A j, k \in DOMAIN list : list[j].group = list[k].group => j = k
OneEntryPerGroup == \A p \in Proc : OneEach(cfg[p])

(* The list and the kernel agree: an entry stands for a bridge that exists *)
(* (176 runs after 173), except while delGroup is about to remove it.      *)
EntryHasBridge ==
  \A p \in Proc : \A k \in DOMAIN cfg[p] :
    LET g == cfg[p][k].group
    IN g \in bridges \/ (pc[p] = "dg_forget" /\ arg[p].group = g)

(* "vconfig add" is always followed by a "brctl addif" that finds it a     *)
(* bridge (256-268): a VLAN device is left behind outside every bridge     *)
(* only by a process that dies between the two.                            *)
Stray(d) ==
  /\ d \in devs
  /\ \A g \in Group : d \notin ports[g]
  /\ \A p \in Proc : ~(pc[p] = "ai_addif" /\ Target(p) = d)
NoStrayDevice ==
  [][\A d \in Device : Stray(d)' /\ ~Stray(d) =>
       \E p \in Proc : /\ pc[p] = "ai_addif" /\ Target(p) = d
                       /\ pc'[p] = "idle" /\ ret'[p] = "none"]_vars

(* delGroup takes the VLAN devices out before it deletes the bridge        *)
(* (148 before 173): a bridge never goes away with a tagged port in it.    *)
DissolvesEmpty ==
  [][\A g \in bridges \ bridges' : Tagged(g) = {}]_vars

(* "vconfig rem" (349) pulls a device out of whatever bridge it is in, yet *)
(* only a call about group g ever changes the VLAN devices of g.           *)
TouchesOwnGroups ==
  [][\A g \in Group : Tagged(g)' # Tagged(g) =>
       \E p \in Proc : pc'[p] # pc[p] /\ arg[p].group = g]_vars

Returns(p, o, r) ==
  arg[p].op = o /\ pc[p] # "idle" /\ pc'[p] = "idle" /\ ret'[p] = r

(* When delGroup returns, bridge and entry are gone, so that the next      *)
(* addGroup of that name starts afresh (118-181).                          *)
DelGroupRemoves ==
  [][\A p \in Proc : Returns(p, "delGroup", "OK") =>
       /\ arg[p].group \notin bridges'
       /\ ~HasEntry(cfg'[p], arg[p].group)]_vars

(* When addInterface returns OK the device is a port of some bridge, also  *)
(* when an earlier call died between "vconfig add" and "brctl addif".  The *)
(* one way out is a group that does not exist and whose name is a word of  *)
(* another's (499).                                                        *)
AddInterfaceBridges ==
  [][\A p \in Proc : Returns(p, "addInterface", "OK") =>
       \/ \E g \in Group : Target(p) \in ports'[g]
       \/ /\ arg[p].group \notin bridges
          /\ \E h \in bridges : <<arg[p].group, h>> \in Alias]_vars

(* Whatever fails and whoever interferes, a call returns.                  *)
CallReturns == \A p \in Proc : pc[p] # "idle" ~> pc[p] = "idle"

-----------------------------------------------------------------------------
(* The promise to the callers: a group's default id is the entry for it in *)
(* the list of the process that manages it, once the bridge exists.        *)

Default(g) ==
  IF \E p \in Proc : g \in Manages[p] \cap bridges /\ HasEntry(cfg[p], g)
  THEN LET p == CHOOSE q \in Proc : g \in Manages[q] /\ HasEntry(cfg[q], g)
       IN DefaultOf(cfg[p], g)
  ELSE NULL

Groups == INSTANCE VlanGroups WITH
  None <- NULL,
  Forgetful <- Hazard \cap {"restart", "upRace"} # {},
  groups <- bridges,
  member <- [g \in Group |-> Tagged(g)],
  dflt <- [g \in Group |-> Default(g)]

(* The HAL implements VlanGroups.                                          *)
ImplementsGroups == Groups!Spec

-----------------------------------------------------------------------------
(* What the comments above the functions say, and the code does not do.    *)

(* 63-65: "creat an new vlan group, and assig default vlanID", and 0 for a *)
(* group that exists only when it "has expected vlanID".                   *)
AddGroupAssigns ==
  [][\A p \in Proc : Returns(p, "addGroup", "OK") /\ arg[p].tag # NULL =>
       /\ HasEntry(cfg'[p], arg[p].group)
       /\ DefaultOf(cfg'[p], arg[p].group) = arg[p].tag]_vars

(* 275: "deassociate existing interface from group", that one and no other.*)
DelInterfaceOnly ==
  [][\A p \in Proc : arg[p].op = "delInterface" /\ pc'[p] # pc[p] =>
       \A g \in Group : ports[g] \ ports'[g] \subseteq {Target(p)}]_vars
=============================================================================
