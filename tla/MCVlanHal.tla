----------------------------- MODULE MCVlanHal -----------------------------
(* Instances of VlanHal for TLC: two processes, or one, with two groups.   *)
EXTENDS VlanHalInv

CONSTANTS p1, p2, g1, g2

(* Each process manages a group of its own; they share the interfaces. *)
OwnManages == p1 :> {g1} @@ p2 :> {g2}

(* Two processes make calls about the same group. *)
SharedManages == [p \in {p1, p2} |-> {g1}]

(* One process manages both groups. *)
SoloManages == p1 :> {g1, g2}

NoAlias == {}

(* The ids are interchangeable in everything the runs check. *)
VidSymmetry == Permutations(Vid)

(* The name g1 is a word of the name g2, as brlan1 is of brlan1-guest. *)
WordAlias == {<<g1, g2>>}
=============================================================================
