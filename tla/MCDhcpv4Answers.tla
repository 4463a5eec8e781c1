-------------------------- MODULE MCDhcpv4Answers --------------------------
(* An instance of Dhcpv4Answers for TLC.  Calls share nothing and no two   *)
(* getters share a key, so that a behaviour is about one getter: focus.    *)
(* The history variable quiet tells the calls during which nothing changed *)
(* and no get failed that had something to give.                           *)
EXTENDS Dhcpv4Answers, TLC

CONSTANTS a1, a2, bad

VARIABLES focus, quiet

(* Four bits are two bytes of two. *)
MCHtonl == [x \in 0 .. 15 |-> (x % 4) * 4 + x \div 4]

MCValues ==
  [k \in Key |->
     CASE k[1] = "dhcp_state" -> {"selecting", "renew", "deconfig"}
       [] k[1] = "subnet" -> {0, 1, 3, 4}
       [] k[1] = "gw_number" -> {0, 1}
       [] k[1] = "dns_number" -> {-1, 0, 1}
       [] k[1] = "dns" -> IF k[2] = 1 THEN {a2, bad} ELSE {a1, bad}
       [] OTHER -> {a1, bad}]

KeysOf(o) ==
  CASE o = "gw" -> {<<"gw_number", 0>>, <<"gw", 0>>}
    [] o = "dns" -> {k \in Key : k[1] \in {"dns_number", "dns"}}
    [] o \in {"state", "ipaddr", "mask"} -> {<<FirstKey[o], 0>>}
    [] OTHER -> {}

MCInit ==
  /\ Init
  /\ focus \in Op
  /\ op = [p \in Proc |-> focus]
  /\ quiet = [p \in Proc |-> TRUE]

(* Only one interface has servers that are no addresses or one too many,   *)
(* and numbers that are not negative: that keeps the instance small.       *)
InFocus ==
  /\ op' = [p \in Proc |-> focus]
  /\ \A i \in If, k \in Key \ KeysOf(focus) : pub'[i][k] = pub[i][k]
  /\ focus = "dns" => \A i \in If \ {Default} :
       /\ pub'[i][<<"dns", MaxServers>>] = None
       /\ pub'[i][<<"dns_number", 0>>] \in {None, -1}
       /\ \A k \in Key : pub'[i][k] # bad
  /\ UNCHANGED focus

Spurious(p) ==
  \/ /\ Fail(p) \/ SkipServer(p)
     /\ wan # None /\ (pc[p] = "key" => Value(p) # None)
  \/ IfName(p) /\ (ret'[p] = "FAILURE" \/ (wan # None /\ out'[p] # wan))

Watch ==
  quiet' = [p \in Proc |->
              pc[p] = "idle"
              \/ (quiet[p] /\ UNCHANGED system /\ ~Spurious(p))]

MCSpec ==
  /\ MCInit /\ [][Next /\ InFocus /\ Watch]_<<vars, focus, quiet>>
  /\ \A p \in Proc : WF_vars(Step(p))

-----------------------------------------------------------------------------
(* What is published for the WAN, and the answer that says so. *)

Pub(kind, j) == IF wan = None THEN None ELSE pub[wan][<<kind, j>>]

RightName(r, v) ==
  r = "SUCCESS" /\ v = (IF wan = None THEN Default ELSE wan)

(* What a server may be answered with whose text is no address: a server   *)
(* before it, or what happened to be in memory.                            *)
Before(list, i) == {Junk} \cup {list[k] : k \in {j \in DOMAIN list : j < i}}

Right(o, r, v, list) ==
  LET first == Pub(FirstKey[o], 0) IN
  IF first = None
  THEN r = "FAILURE"
  ELSE
    /\ o = "state" /\ first = "selecting" => r = "SUCCESS" /\ v = 2
    /\ o = "state" /\ first = "renew" => r = "SUCCESS" /\ v = 5
    /\ o = "ipaddr" /\ first \in Addr => r = "SUCCESS" /\ v = first
    /\ o = "mask" /\ first \in 1 .. Width =>
         r = "SUCCESS" /\ v = Htonl[Word - 2 ^ (Width - first)]
    /\ o = "gw" /\ first = 0 => r = "SUCCESS" /\ v = 0
    /\ o = "gw" /\ first > 0 =>
         CASE Pub("gw", 0) = None -> r = "FAILURE"
           [] Pub("gw", 0) \in Addr -> r = "SUCCESS" /\ v = Pub("gw", 0)
           [] OTHER -> TRUE
    /\ o = "dns" /\ first >= 0 =>
         /\ r = "SUCCESS" /\ v <= first /\ v <= MaxServers
         /\ v = first \/ v = MaxServers
         /\ \A i \in 0 .. v - 1 :
              IF Pub("dns", i) = None
              THEN i \notin DOMAIN list
              ELSE /\ i \in DOMAIN list
                   /\ IF Pub("dns", i) \in Addr
                      THEN list[i] = Pub("dns", i)
                      ELSE list[i] \in Before(list, i)

(* When nothing changes and nothing fails during a call, it answers what   *)
(* is published for the WAN: the place of the state in its enumeration, a  *)
(* mask of the published length in the order of the network, the first     *)
(* gateway or 0, the first servers in order, in place of one that is no    *)
(* address one before it or junk (540); it fails when the first thing it   *)
(* asks for is not set, but for the name, which has a default; and         *)
(* udhcpc's answers are given when and only when it is in use.             *)
AnswersPublished ==
  [][\A p \in Proc :
       /\ quiet'[p] /\ pc[p] # "idle" /\ pc'[p] = "idle"
       => /\ op[p] \in Keyed /\ ret'[p] # "delegated" =>
               Right(op[p], ret'[p], out'[p], addrs'[p])
          /\ op[p] = "ifname" /\ ret'[p] # "delegated" =>
               RightName(ret'[p], out'[p])
          /\ ~udhcp \/ op[p] \in HandedOn <=> ret'[p] = "delegated"]_vars
=============================================================================
