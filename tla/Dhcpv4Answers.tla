--------------------------- MODULE Dhcpv4Answers ---------------------------
(***************************************************************************)
(* source/dhcpv4c/dhcpv4c_api.c, built for udhcpc: the state of the DHCP   *)
(* client on the WAN interface, its name, address and subnet mask, the     *)
(* gateway and the list of DNS servers; and the getters that only hand on  *)
(* to another client.                                                      *)
(*                                                                         *)
(* udhcpc's script publishes each of them as one or more sysevent keys of  *)
(* the interface.  A getter asks for one key after the other, and for the  *)
(* name of the WAN interface before each: what the script sets or removes  *)
(* between two reads is seen or not.  The calls share nothing, so that one *)
(* process stands for all of them.                                         *)
(*                                                                         *)
(* A definition marked "Variant" is not part of the model: it is the one   *)
(* below it with a plausible mistake.                                      *)
(***************************************************************************)
EXTENDS Integers

CONSTANTS
  Proc,        \* threads and processes that use the API
  If,          \* interfaces that may be the WAN
  Values,      \* Values[k]: what the script may publish as key k
  Addr,        \* IP addresses; anything else does not parse as one
  Junk,        \* what an uninitialised struct in_addr holds
  Width,       \* bits of unsigned int: 32
  Word,        \* 2^32: unsigned int wraps here
  Htonl,       \* Htonl[x]: the bytes of x in the order of the network
  MaxServers,  \* addresses in a dhcpv4c_ip_list_t: 4
  Default,     \* DEFAULT_ERT_IFNAME: the WAN's name when none is known
  None,        \* a key that is not set, a value that is not written
  Hazard       \* which of HazardKinds may strike

HazardKinds ==
  { "change",    \* a key or the WAN's name changes while a call runs
    "sysevent" } \* a connection or a get fails

ASSUME WidthAssumption == Width \in Nat \ {0} /\ Word = 2 ^ Width
ASSUME WordAssumption == Word \in Nat \ {0}
ASSUME HtonlAssumption == Htonl \in [0 .. Word - 1 -> 0 .. Word - 1]
(* A fact of arithmetic that the proofs use. *)
ASSUME PowerAssumption == \A m \in 0 .. Width : 2 ^ m \in 1 .. Word
ASSUME ServersAssumption == MaxServers \in Nat /\ MaxServers > 0
ASSUME NoneAssumption ==
  None \notin Int /\ None \notin If \cup Addr \cup {Default}
ASSUME HazardAssumption == Hazard \subseteq HazardKinds

(* The i-th key of its kind; only the servers have more than one, and one  *)
(* more than a list has room for stands for all that the script can set.   *)
Key ==
  ({"dhcp_state", "ipaddr", "subnet", "gw_number", "gw", "dns_number"} \X {0})
    \cup ({"dns"} \X (0 .. MaxServers))

(* atoi reads the numbers and gives an int (455, 482, 520). *)
ASSUME ValuesAssumption ==
  /\ DOMAIN Values = Key
  /\ \A kind \in {"subnet", "gw_number", "dns_number"} :
       Values[<<kind, 0>>] \subseteq 0 - Word \div 2 .. Word \div 2 - 1

VARIABLES
  wan,         \* sysevent current_wan_ifname
  pub,         \* pub[i][k]: sysevent ipv4_<i>_<k>
  udhcp,       \* built for udhcpc, and syscfg UDHCPEnable_v2 is not "false"
  pc, op,
  key,         \* key[p]: the key p asks for
  name,        \* name[p]: the WAN's name as p read it last
  num,         \* num[p]: dns_num, the servers p is going to ask for
  out,         \* out[p]: *pValue or pList->number, None until written
  addrs,       \* addrs[p]: the entries of pList->addrs p has written
  ret

system == <<wan, pub, udhcp>>
answer == <<out, addrs>>
vars == <<wan, pub, udhcp, pc, op, key, name, num, out, addrs, ret>>

FirstKey ==
  [state |-> "dhcp_state", ipaddr |-> "ipaddr", mask |-> "subnet",
   gw |-> "gw_number", dns |-> "dns_number"]

(* "ipaddr" stands for the address of the DHCP server as well (553-576).   *)
Keyed == {"state", "ipaddr", "mask", "gw", "dns"}

(* Getters of the cable modem, its timers and the others, and of the voice *)
(* adapter: another client's.                                              *)
HandedOn == {"ecm_time", "ecm", "emta"}
Op == Keyed \cup {"ifname", "attempts"} \cup HandedOn

Init ==
  /\ wan \in If \cup {None}
  /\ pub \in [If -> [Key -> {None}]]
  /\ udhcp \in BOOLEAN
  /\ pc = [p \in Proc |-> "idle"]
  /\ op \in [Proc -> Op]
  /\ key = [p \in Proc |-> None]
  /\ name = [p \in Proc |-> None]
  /\ num = [p \in Proc |-> 0]
  /\ out = [p \in Proc |-> None]
  /\ addrs = [p \in Proc |-> [k \in {} |-> None]]
  /\ ret = [p \in Proc |-> "none"]

-----------------------------------------------------------------------------
(* Conversions.  Each gives the set of values a build can produce.         *)

StateNames == <<"init", "selecting", "requesting", "rebinding", "bound",
                "renewing">>
KnownState(v) == \E k \in DOMAIN StateNames : StateNames[k] = v
StateIndex(v) == CHOOSE k \in DOMAIN StateNames : StateNames[k] = v

(* strcmp down the table; the word "renew" is not in it, but means bound.  *)
(* For any other word *pValue is not written (396-406).                    *)
StateOf(v) ==
  IF KnownState(v) THEN {StateIndex(v)} ELSE IF v = "renew" THEN {5} ELSE {None}

(* inet_aton leaves addr alone when the text is no address; nobody looks.  *)
Aton(v, held) == IF v \in Addr THEN {v} ELSE held

(* A shift by the width or more, or by a negative count, is undefined.     *)
ShiftLeft(x, n) ==
  IF n \in 0 .. Width - 1
  THEN {(x * 2 ^ n) % Word}
  ELSE {0} \cup {(x * 2 ^ m) % Word : m \in 0 .. Width - 1}

(* Variant: as many zero bits as there should be ones. *)
MaskOfHost(n) == {Htonl[x] : x \in ShiftLeft(Word - 1, n)}
MaskOf(n) == {Htonl[x] : x \in ShiftLeft(Word - 1, Width - n)}

Convert(o, v) ==
  CASE o = "state" -> StateOf(v)
    [] o = "mask" -> MaskOf(v)
    [] OTHER -> Aton(v, {Junk})

(* Variant: the comparison is off by one. *)
ServersOneMore(v) == IF v % Word > MaxServers THEN MaxServers + 1 ELSE v % Word
(* The number is unsigned, and a list has room for four (519-527).         *)
Servers(v) == IF v % Word > MaxServers THEN MaxServers ELSE v % Word

-----------------------------------------------------------------------------
(* Control of a call.                                                      *)

Ask(p, k) ==
  /\ key' = [key EXCEPT ![p] = k]
  /\ pc' = [pc EXCEPT ![p] = "name"]
  /\ name' = [name EXCEPT ![p] = None]
  /\ UNCHANGED ret

(* The call is over, and its locals are gone. *)
Return(p, r) ==
  /\ pc' = [pc EXCEPT ![p] = "idle"]
  /\ key' = [key EXCEPT ![p] = None]
  /\ name' = [name EXCEPT ![p] = None]
  /\ num' = [num EXCEPT ![p] = 0]
  /\ ret' = [ret EXCEPT ![p] = r]

Succeed(p, v) == Return(p, "SUCCESS") /\ out' = [out EXCEPT ![p] = v]

(* On to the next server; after the last one their number is stored.       *)
NextServer(p, j) ==
  IF j + 1 < num[p]
  THEN Ask(p, <<"dns", j + 1>>) /\ UNCHANGED <<num, out>>
  ELSE Succeed(p, num[p])

Call(p, o) ==
  /\ pc[p] = "idle"
  /\ pc' = [pc EXCEPT ![p] = "which"]
  /\ op' = [op EXCEPT ![p] = o]
  /\ out' = [out EXCEPT ![p] = None]
  /\ addrs' = [addrs EXCEPT ![p] = [k \in {} |-> None]]
  /\ ret' = [ret EXCEPT ![p] = "none"]
  /\ UNCHANGED <<wan, pub, udhcp, key, name, num>>

(* A NULL pointer is refused at once. *)
BadCall(p, o) ==
  /\ pc[p] = "idle"
  /\ op' = [op EXCEPT ![p] = o]
  /\ out' = [out EXCEPT ![p] = None]
  /\ addrs' = [addrs EXCEPT ![p] = [k \in {} |-> None]]
  /\ ret' = [ret EXCEPT ![p] = "FAILURE"]
  /\ UNCHANGED <<wan, pub, udhcp, pc, key, name, num>>

(* UDHCPEnable_v2 is read first. *)
Which(p) ==
  /\ pc[p] = "which" /\ op[p] \in Keyed
  /\ udhcp
  /\ Ask(p, <<FirstKey[op[p]], 0>>)
  /\ UNCHANGED <<wan, pub, udhcp, op, num, out, addrs>>

(* With udhcpc switched off, or left out of the build, another client      *)
(* library answers, anything.                                              *)
HandOnErt(p) ==
  /\ pc[p] = "which" /\ op[p] \notin HandedOn
  /\ ~udhcp
  /\ Return(p, "delegated")
  /\ UNCHANGED <<wan, pub, udhcp, op, out, addrs>>

HandOnEcmTime(p) ==
  /\ pc[p] = "which" /\ op[p] = "ecm_time"
  /\ Return(p, "delegated")
  /\ UNCHANGED <<wan, pub, udhcp, op, out, addrs>>

HandOnEcm(p) ==
  /\ pc[p] = "which" /\ op[p] = "ecm"
  /\ Return(p, "delegated")
  /\ UNCHANGED <<wan, pub, udhcp, op, out, addrs>>

HandOnEmta(p) ==
  /\ pc[p] = "which" /\ op[p] = "emta"
  /\ Return(p, "delegated")
  /\ UNCHANGED <<wan, pub, udhcp, op, out, addrs>>

(* The number of attempts is a constant (336). *)
Attempts(p) ==
  /\ pc[p] = "which" /\ op[p] = "attempts"
  /\ udhcp
  /\ Succeed(p, 100)
  /\ UNCHANGED <<wan, pub, udhcp, op, addrs>>

(* A name that cannot be got is the default name; only a connection that   *)
(* cannot be made is an error (353-371).                                   *)
IfName(p) ==
  /\ pc[p] = "which" /\ op[p] = "ifname"
  /\ udhcp
  /\ \/ wan # None /\ Succeed(p, wan)
     \/ (wan = None \/ "sysevent" \in Hazard) /\ Succeed(p, Default)
     \/ "sysevent" \in Hazard /\ Return(p, "FAILURE") /\ UNCHANGED out
  /\ UNCHANGED <<wan, pub, udhcp, op, addrs>>

-----------------------------------------------------------------------------
(* dhcpv4c_sysevent_get_value: the name of the WAN, then its key.          *)

ReadName(p) ==
  /\ pc[p] = "name"
  /\ wan # None
  /\ name' = [name EXCEPT ![p] = wan]
  /\ pc' = [pc EXCEPT ![p] = "key"]
  /\ UNCHANGED <<wan, pub, udhcp, op, key, num, out, addrs, ret>>

Value(p) == pub[name[p]][key[p]]

GetFails(p) ==
  \/ pc[p] = "name" /\ (wan = None \/ "sysevent" \in Hazard)
  \/ pc[p] = "key" /\ (Value(p) = None \/ "sysevent" \in Hazard)

GetGives(p, kind) ==
  /\ pc[p] = "key" /\ key[p][1] = kind
  /\ Value(p) # None

(* A get that fails ends the call, *)
Fail(p) ==
  /\ GetFails(p) /\ key[p][1] # "dns"
  /\ Return(p, "FAILURE")
  /\ UNCHANGED <<wan, pub, udhcp, op, out, addrs>>

(* Variant: the server is asked for again. *)
SkipRetries(p) ==
  /\ GetFails(p) /\ key[p][1] = "dns"
  /\ Ask(p, key[p])
  /\ UNCHANGED <<wan, pub, udhcp, op, num, out, addrs>>
(* but a server that cannot be read is passed over, and its entry in the   *)
(* list is left as it is (536-538).                                        *)
SkipServer(p) ==
  /\ GetFails(p) /\ key[p][1] = "dns"
  /\ NextServer(p, key[p][2])
  /\ UNCHANGED <<wan, pub, udhcp, op, addrs>>

Single(p) ==
  /\ \E kind \in {"dhcp_state", "ipaddr", "subnet", "gw"} : GetGives(p, kind)
  /\ \E v \in Convert(op[p], Value(p)) : Succeed(p, v)
  /\ UNCHANGED <<wan, pub, udhcp, op, addrs>>

(* Variant: 0 is stored before the gateway is known. *)
GatewaysZeroFirst(p) ==
  /\ GetGives(p, "gw_number")
  /\ out' = [out EXCEPT ![p] = 0]
  /\ IF Value(p) % Word >= 1
     THEN Ask(p, <<"gw", 0>>) /\ UNCHANGED num
     ELSE Return(p, "SUCCESS")
  /\ UNCHANGED <<wan, pub, udhcp, op, addrs>>
(* The first gateway, or 0 when there is none (480-496). *)
Gateways(p) ==
  /\ GetGives(p, "gw_number")
  /\ IF Value(p) % Word >= 1
     THEN Ask(p, <<"gw", 0>>) /\ UNCHANGED <<num, out>>
     ELSE Succeed(p, 0)
  /\ UNCHANGED <<wan, pub, udhcp, op, addrs>>

DnsNumber(p) ==
  /\ GetGives(p, "dns_number")
  /\ LET n == Servers(Value(p))
     IN IF n >= 1
        THEN /\ num' = [num EXCEPT ![p] = n]
             /\ Ask(p, <<"dns", 0>>)
             /\ UNCHANGED out
        ELSE Succeed(p, 0)
  /\ UNCHANGED <<wan, pub, udhcp, op, addrs>>

(* addr is declared outside the loop (511): it holds what was stored last. *)
Held(p) ==
  IF DOMAIN addrs[p] = {}
  THEN {Junk}
  ELSE {addrs[p][i] : i \in {j \in DOMAIN addrs[p] :
                               \A k \in DOMAIN addrs[p] : k <= j}}

DnsServer(p) ==
  /\ GetGives(p, "dns")
  /\ LET j == key[p][2]
     IN /\ \E a \in Aton(Value(p), Held(p)) :
             addrs' = [addrs EXCEPT ![p] =
                         [i \in DOMAIN @ \cup {j} |-> IF i = j THEN a ELSE @[i]]]
        /\ NextServer(p, j)
  /\ UNCHANGED <<wan, pub, udhcp, op>>

Step(p) ==
  \/ Which(p) \/ HandOnErt(p) \/ HandOnEcmTime(p) \/ HandOnEcm(p) \/ HandOnEmta(p)
  \/ Attempts(p) \/ IfName(p)
  \/ ReadName(p) \/ Fail(p) \/ SkipServer(p)
  \/ Single(p) \/ Gateways(p) \/ DnsNumber(p) \/ DnsServer(p)

-----------------------------------------------------------------------------
(* The rest of the system.                                                 *)

Busy == \E p \in Proc : pc[p] # "idle"

Publish(i, k, v) ==
  /\ "change" \in Hazard \/ ~Busy
  /\ v # pub[i][k]
  /\ pub' = [pub EXCEPT ![i][k] = v]
  /\ UNCHANGED <<wan, udhcp, pc, op, key, name, num, out, addrs, ret>>

Failover(w) ==
  /\ "change" \in Hazard \/ ~Busy
  /\ w # wan
  /\ wan' = w
  /\ UNCHANGED <<pub, udhcp, pc, op, key, name, num, out, addrs, ret>>

Next ==
  \/ \E p \in Proc : (\E o \in Op : Call(p, o) \/ BadCall(p, o)) \/ Step(p)
  \/ \E i \in If, k \in Key : \E v \in Values[k] \cup {None} : Publish(i, k, v)
  \/ \E w \in If \cup {None} : Failover(w)

Spec == Init /\ [][Next]_vars
FairSpec == Spec /\ \A p \in Proc : WF_vars(Step(p))

-----------------------------------------------------------------------------
(* The list is not written beyond the four addresses it has room for,      *)
(* whatever number of servers is published, a negative one included, and a *)
(* call never counts more than it went through (526-544).                  *)
WithinList ==
  \A p \in Proc :
    /\ DOMAIN addrs[p] \subseteq 0 .. MaxServers - 1
    /\ op[p] = "dns" /\ ret[p] = "SUCCESS" =>
         DOMAIN addrs[p] \subseteq 0 .. out[p] - 1

(* A call that fails leaves what the caller passed alone, at whichever of  *)
(* its gets it fails.                                                      *)
FailureKeepsAnswer ==
  \A p \in Proc :
    ret[p] = "FAILURE" => out[p] = None /\ DOMAIN addrs[p] = {}

(* A call returns, whatever is published and whatever fails meanwhile.     *)
Returns == \A p \in Proc : pc[p] # "idle" ~> pc[p] = "idle"
=============================================================================
