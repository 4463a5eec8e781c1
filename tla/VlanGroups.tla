----------------------------- MODULE VlanGroups -----------------------------
(***************************************************************************)
(* What the VLAN HAL promises its callers, with no bridge utility, no pipe *)
(* and no linked list in sight: groups exist or do not, a group has a set  *)
(* of tagged devices, and it may have a default VLAN id, given once when   *)
(* the group is made and kept until the group goes away or the process     *)
(* that keeps it restarts.  VlanHal is shown to implement this             *)
(* specification.                                                          *)
(***************************************************************************)
CONSTANTS
  Group,     \* group (bridge) names
  Device,    \* tagged devices
  Vid,       \* VLAN ids
  None,      \* "this group has no default VLAN id"
  Forgetful  \* whether default ids may be lost while the group lives

VARIABLES
  groups,    \* the groups that exist
  member,    \* member[g]: the tagged devices of group g
  dflt       \* dflt[g]: the default VLAN id of group g, or None

vars == <<groups, member, dflt>>

TypeOK ==
  /\ groups \in SUBSET Group
  /\ member \in [Group -> SUBSET Device]
  /\ dflt \in [Group -> Vid \cup {None}]

Init ==
  /\ groups = {}
  /\ member = [g \in Group |-> {}]
  /\ dflt = [g \in Group |-> None]

(* A group starts empty and without a default id. *)
Create(g) ==
  /\ g \notin groups
  /\ groups' = groups \cup {g}
  /\ UNCHANGED <<member, dflt>>

(* The default id is assigned once; it is never overwritten. *)
AssignDefault(g, v) ==
  /\ g \in groups
  /\ dflt[g] = None
  /\ dflt' = [dflt EXCEPT ![g] = v]
  /\ UNCHANGED <<groups, member>>

(* A device joins a group that exists, and is in one group at a time. *)
Join(g, d) ==
  /\ g \in groups
  /\ \A h \in Group : d \notin member[h]
  /\ member' = [member EXCEPT ![g] = @ \cup {d}]
  /\ UNCHANGED <<groups, dflt>>

Leave(g, d) ==
  /\ d \in member[g]
  /\ member' = [member EXCEPT ![g] = @ \ {d}]
  /\ UNCHANGED <<groups, dflt>>

(* Only an empty group is dissolved, and its default id goes with it. *)
Dissolve(g) ==
  /\ g \in groups
  /\ member[g] = {}
  /\ groups' = groups \ {g}
  /\ dflt' = [dflt EXCEPT ![g] = None]
  /\ UNCHANGED member

(* A process that restarts, or a delGroup that could not remove its bridge, *)
(* leaves groups that have lost their default ids.                          *)
LoseDefaults(S) ==
  /\ Forgetful
  /\ dflt' = [g \in Group |-> IF g \in S THEN None ELSE dflt[g]]
  /\ UNCHANGED <<groups, member>>

Next ==
  \/ \E g \in Group : Create(g) \/ Dissolve(g)
  \/ \E g \in Group, v \in Vid : AssignDefault(g, v)
  \/ \E g \in Group, d \in Device : Join(g, d) \/ Leave(g, d)
  \/ \E S \in SUBSET Group : LoseDefaults(S)

Spec == Init /\ [][Next]_vars
=============================================================================
