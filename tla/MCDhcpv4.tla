------------------------------ MODULE MCDhcpv4 ------------------------------
(* An instance of Dhcpv4Timers for TLC, with a history variable that tells *)
(* the calls during which the system stood still.                          *)
EXTENDS Dhcpv4Timers, TLC

VARIABLE quiet   \* quiet[p]: nothing was granted, published or switched yet

(* The interfaces are interchangeable. *)
IfSymmetry == Permutations(If)

MCInit == Init /\ quiet = [p \in Proc |-> TRUE]

Watch ==
  quiet' = [p \in Proc |->
              pc[p] = "idle" \/ (quiet[p] /\ UNCHANGED <<wan, held, pub>>)]

MCSpec == MCInit /\ [][Next /\ Watch]_<<vars, quiet>>

(* p succeeds with one of O, with no renewal and no failover during the    *)
(* call, from what udhcpc has published of the lease it holds.             *)
QuietAnswer(p, O) == Succeeds(p, O) /\ quiet[p] /\ pub[wan] = held[wan]

(* With no renewal and no failover during the call, and the clock within   *)
(* the lease, the answer is what the lease udhcpc holds on the WAN has     *)
(* left, to the second; or its end modulo Word, which is what is left as   *)
(* of second 0, when /proc/uptime cannot be read (206-243).                *)
ExactWhenQuiet ==
  [][\A p \in Proc :
       LET end == held[wan]["start_time"] + held[wan]["lease_time"]
       IN QuietAnswer(p, {"remain_lease"}) /\ now <= end =>
            \/ now + out'[p] = end
            \/ "uptime" \in Hazard /\ out'[p] = end % Word]_vars

(* The instants at which a caller is told that the lease is to be renewed  *)
(* and to be rebound, again as of now or as of second 0: renewal is at the *)
(* half of the lease; rebinding comes between it and the end if seven      *)
(* times the lease is an unsigned int, and strictly before the renewal     *)
(* for every longer lease, one that never ends among them (264, 305).      *)
TimersInOrder ==
  [][\A p \in Proc :
       LET start == held[wan]["start_time"]
           t == held[wan]["lease_time"]
       IN QuietAnswer(p, {"remain_renew", "remain_rebind"}) =>
            \E up \in {now, 0} :
              LET due == (up + out'[p]) % Word
                  half == start + t \div 2
              IN CASE op[p] = "remain_renew" -> due = half
                   [] t * 7 < Word -> half <= due /\ due <= start + t
                   [] OTHER -> due < half]_vars
=============================================================================
