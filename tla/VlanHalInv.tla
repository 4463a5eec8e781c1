---------------------------- MODULE VlanHalInv -----------------------------
(***************************************************************************)
(* The inductive invariants behind the safety properties of VlanHal: what  *)
(* is known of a call at each of its steps, of the lists, and of the ports *)
(* delGroup has still to take out.  VlanTypeProofs and VlanSafetyProofs    *)
(* prove them; TLC checks them too.                                        *)
(***************************************************************************)
EXTENDS VlanHal

AgLabel == {"ag_check", "ag_addbr", "ag_insert"}
DgLabel == {"dg_check", "dg_list", "dg_loop", "dg_down", "dg_delbr", "dg_forget"}
AiLabel == {"ai_group", "ai_port", "ai_vconfig", "ai_addif"}
DiLabel == {"di_group", "di_port", "di_vconfig", "di_delif"}

(* Call c may be at label l in a process that manages the groups m. *)
Fits(l, c, m) ==
  /\ l # "idle" => c.group \in m
  /\ l \in AgLabel => c.op = "addGroup" /\ c.tag # NoTag
  /\ l = "ag_insert" => c.tag # NULL
  /\ l \in DgLabel => c.op = "delGroup"
  /\ l \in AiLabel => c.op = "addInterface" /\ c.ifc \in If /\ c.tag # NoTag
  /\ l \in DiLabel => c.op \in {"delGroup", "delInterface"} /\ c.ifc \in If
  /\ l \in DiLabel /\ c.op = "delGroup" => c.tag # NULL
  /\ l \in DiLabel /\ c.op = "delInterface" => c.tag # NoTag
  /\ l \in (AiLabel \cup DiLabel) \ {"ai_group", "di_group"} => c.tag # NULL

CallOK == \A p \in Proc : Fits(pc[p], arg[p], Manages[p])

-----------------------------------------------------------------------------
(* The list of p agrees with the kernel: one entry for a group, of a bridge *)
(* that is there; and a group about to be entered is not in the list yet.   *)
ListOf(p) ==
  /\ OneEach(cfg[p])
  /\ \A k \in DOMAIN cfg[p] :
       LET g == cfg[p][k].group
       IN /\ g \in Manages[p]
          /\ g \in bridges \/ (pc[p] = "dg_forget" /\ arg[p].group = g)
  /\ pc[p] \in {"ag_addbr", "ag_insert"} => ~HasEntry(cfg[p], arg[p].group)
  /\ pc[p] = "ag_insert" => arg[p].group \in bridges

ListInv == \A p \in Proc : ListOf(p)

(* The kernel's ports: of bridges only, each in one bridge, and a tagged    *)
(* port is a device that exists.                                            *)
PortsOK ==
  /\ \A g \in Group : ports[g] # {} => g \in bridges
  /\ \A g \in Group : Tagged(g) \subseteq devs
  /\ \A g, h \in Group : g # h => ports[g] \cap ports[h] = {}

(* What delGroup has still to take out of its group is in its snapshot, and *)
(* "vconfig rem" is only run on a port of the group of the call.            *)
Sweep(p) ==
  LET g == arg[p].group IN
  /\ pc[p] = "dg_loop" => Tagged(g) \subseteq todo[p]
  /\ pc[p] \in DiLabel /\ arg[p].op = "delGroup" =>
       Tagged(g) \subseteq todo[p] \cup {Target(p)}
  /\ pc[p] = "di_delif" => Target(p) \notin Tagged(g)
  /\ pc[p] \in {"dg_down", "dg_delbr"} => Tagged(g) = {}
  /\ pc[p] = "di_vconfig" => Target(p) \in ports[g]

PortInv == PortsOK /\ \A p \in Proc : Sweep(p)

-----------------------------------------------------------------------------
(* Where nobody brings a bridge up again, delGroup finds it down when it    *)
(* deletes it, so that the bridge is gone when the entry goes.              *)
Gone(p) ==
  LET g == arg[p].group IN
  "upRace" \notin Hazard =>
    /\ pc[p] = "dg_delbr" => g \notin up
    /\ pc[p] = "dg_forget" => g \notin bridges

GoneInv == \A p \in Proc : Gone(p)

OneProcess == \A p, q \in Proc : p = q

(* addInterface's look at the bridges stays true to the end of the call if  *)
(* only the caller's own bridge, or nobody else, can change it; the device  *)
(* it makes stays if there is nobody to remove it.                          *)
Reach(p) ==
  /\ (Alias = {} \/ OneProcess) /\ pc[p] \in AiLabel \ {"ai_group"} =>
       Available(arg[p].group)
  /\ OneProcess /\ pc[p] = "ai_addif" => Target(p) \in devs

ReachInv == \A p \in Proc : Reach(p)

(* The inductive invariant. *)
Inv == CallOK /\ ListInv /\ PortInv /\ GoneInv /\ ReachInv
=============================================================================
