------------------------ MODULE Dhcpv4AnswersProofs ------------------------
(***************************************************************************)
(* Dhcpv4Answers: a list of servers stays within its array, a call that    *)
(* fails leaves its caller's variables alone, and a call in quiet times    *)
(* answers what is published; for any processes, interfaces, published     *)
(* values and size of the array.                                           *)
(***************************************************************************)
EXTENDS MCDhcpv4Answers, TLAPS

(* What the getters rely on: keys that are published have values of their  *)
(* kind, and a call that reads has the name of an interface.               *)
Types ==
  /\ wan \in If \cup {None}
  /\ DOMAIN pub = If
  /\ \A i \in If : DOMAIN pub[i] = Key /\ \A k \in Key : pub[i][k] \in Values[k] \cup {None}
  /\ pc \in [Proc -> {"idle", "which", "name", "key"}]
  /\ op \in [Proc -> Op]
  /\ key \in [Proc -> Key \cup {None}]
  /\ name \in [Proc -> If \cup {None}]
  /\ num \in [Proc -> 0 .. MaxServers]
  /\ DOMAIN out = Proc
  /\ DOMAIN addrs = Proc
  /\ DOMAIN ret = Proc

(* What a call has written at each of its steps: nothing before the last   *)
(* one, but for the servers before the one it asks for.                    *)
Progress(p) ==
  /\ pc[p] \in {"name", "key"} => key[p] \in Key
  /\ pc[p] = "key" => name[p] \in If
  /\ pc[p] # "idle" => out[p] = None /\ ret[p] = "none"
  /\ pc[p] = "which" => DOMAIN addrs[p] = {}
  /\ pc[p] \in {"name", "key"} =>
       IF key[p][1] = "dns"
       THEN key[p][2] < num[p] /\ DOMAIN addrs[p] \subseteq 0 .. key[p][2] - 1
       ELSE DOMAIN addrs[p] = {}
  /\ pc[p] = "idle" =>
       /\ DOMAIN addrs[p] \subseteq 0 .. MaxServers - 1
       /\ op[p] = "dns" /\ ret[p] = "SUCCESS" => DOMAIN addrs[p] \subseteq 0 .. out[p] - 1
       /\ ret[p] = "FAILURE" => out[p] = None /\ DOMAIN addrs[p] = {}

AnswersInv == Types /\ \A p \in Proc : Progress(p)

USE WordAssumption, ServersAssumption, NoneAssumption

-----------------------------------------------------------------------------
LEMMA KeyKinds ==
  /\ \A o \in Keyed : <<FirstKey[o], 0>> \in Key /\ FirstKey[o] # "dns"
  /\ \A j \in 0 .. MaxServers : <<"dns", j>> \in Key
  /\ <<"gw", 0>> \in Key
  /\ \A k \in Key : k[1] = "dns" => k[2] \in 0 .. MaxServers /\ k = <<"dns", k[2]>>
BY DEF Key, Keyed, FirstKey

LEMMA NumberType ==
  ASSUME NEW kind \in {"subnet", "gw_number", "dns_number"},
         NEW v \in Values[<<kind, 0>>]
  PROVE  v \in Int /\ v < Word
<1>1. v \in 0 - Word \div 2 .. Word \div 2 - 1
  BY ValuesAssumption
<1>. QED BY <1>1

LEMMA ServersBound == ASSUME NEW v \in Int PROVE Servers(v) \in 0 .. MaxServers
<1>1. v % Word \in Nat
  OBVIOUS
<1>. QED
  BY <1>1 DEF Servers

LEMMA AnswersInit == Init => AnswersInv
<1>1. SUFFICES ASSUME Init PROVE AnswersInv
  OBVIOUS
<1>2. Types
  BY <1>1 DEF Init, Types
<1>3. \A p \in Proc : Progress(p)
  BY <1>1 DEF Init, Progress
<1>. QED
  BY <1>2, <1>3 DEF AnswersInv

(* Asking for a key, and returning: the calls of others are not touched.   *)
LEMMA OthersKeep ==
  ASSUME AnswersInv, NEW p \in Proc, NEW q \in Proc, q # p,
         pc'[q] = pc[q], op'[q] = op[q], key'[q] = key[q], name'[q] = name[q],
         num'[q] = num[q], out'[q] = out[q], addrs'[q] = addrs[q], ret'[q] = ret[q]
  PROVE  Progress(q)'
BY DEF AnswersInv, Progress

(* The value a call reads is one that is published for its key. *)
LEMMA ValueType ==
  ASSUME AnswersInv, NEW p \in Proc, pc[p] = "key", Value(p) # None
  PROVE  Value(p) \in Values[key[p]]
BY DEF AnswersInv, Types, Progress, Value

(* The two ways a step of a call goes on: another key, or the end. *)
LEMMA AskKeeps ==
  ASSUME AnswersInv, NEW p \in Proc, NEW k \in Key, Ask(p, k), pc[p] # "idle",
         num' \in [Proc -> 0 .. MaxServers],
         \A q \in Proc \ {p} : num'[q] = num[q] /\ addrs'[q] = addrs[q],
         DOMAIN addrs' = Proc,
         IF k[1] = "dns"
         THEN k[2] < num'[p] /\ DOMAIN addrs'[p] \subseteq 0 .. k[2] - 1
         ELSE DOMAIN addrs'[p] = {},
         UNCHANGED <<wan, pub, udhcp, op, out>>
  PROVE  AnswersInv'
<1>1. Types'
  BY DEF AnswersInv, Types, Ask
<1>2. Progress(p)'
  BY DEF AnswersInv, Types, Progress, Ask
<1>3. \A q \in Proc \ {p} : Progress(q)'
  BY DEF AnswersInv, Types, Progress, Ask
<1>. QED
  BY <1>1, <1>2, <1>3 DEF AnswersInv

LEMMA ReturnKeeps ==
  ASSUME AnswersInv, NEW p \in Proc, NEW r, Return(p, r), pc[p] # "idle",
         DOMAIN out' = Proc, DOMAIN addrs' = Proc,
         \A q \in Proc \ {p} : out'[q] = out[q] /\ addrs'[q] = addrs[q],
         DOMAIN addrs'[p] \subseteq 0 .. MaxServers - 1,
         r = "SUCCESS" => DOMAIN addrs'[p] \subseteq 0 .. out'[p] - 1,
         r = "FAILURE" => out'[p] = None /\ DOMAIN addrs'[p] = {},
         UNCHANGED <<wan, pub, udhcp, op>>
  PROVE  AnswersInv'
<1>1. Types'
  BY DEF AnswersInv, Types, Return
<1>2. Progress(p)'
  BY DEF AnswersInv, Types, Progress, Return
<1>3. \A q \in Proc \ {p} : Progress(q)'
  BY DEF AnswersInv, Types, Progress, Return
<1>. QED
  BY <1>1, <1>2, <1>3 DEF AnswersInv

(* On to the next server, or the end, after server j was passed. *)
LEMMA NextServerKeeps ==
  ASSUME AnswersInv, NEW p \in Proc, NEW j \in 0 .. MaxServers, NextServer(p, j),
         pc[p] # "idle", j < num[p],
         DOMAIN addrs' = Proc, \A q \in Proc \ {p} : addrs'[q] = addrs[q],
         DOMAIN addrs'[p] \subseteq 0 .. j,
         UNCHANGED <<wan, pub, udhcp, op>>
  PROVE  AnswersInv'
<1>0. num[p] \in 0 .. MaxServers /\ num \in [Proc -> 0 .. MaxServers]
  BY DEF AnswersInv, Types
<1>1. CASE j + 1 < num[p]
  <2>1. Ask(p, <<"dns", j + 1>>) /\ UNCHANGED <<num, out>>
    BY <1>1 DEF NextServer
  <2>2. <<"dns", j + 1>> \in Key
    BY <1>0, <1>1, KeyKinds
  <2>3. DOMAIN addrs'[p] \subseteq 0 .. (j + 1) - 1
    OBVIOUS
  <2>. QED
    BY <1>0, <1>1, <2>1, <2>2, <2>3, AskKeeps
<1>2. CASE ~(j + 1 < num[p])
  <2>1. Return(p, "SUCCESS") /\ out' = [out EXCEPT ![p] = num[p]]
    BY <1>2 DEF NextServer, Succeed
  <2>2. out'[p] = num[p] /\ DOMAIN out' = Proc /\ \A q \in Proc \ {p} : out'[q] = out[q]
    BY <2>1 DEF AnswersInv, Types
  <2>3. j = num[p] - 1
    BY <1>0, <1>2
  <2>4. DOMAIN addrs'[p] \subseteq 0 .. MaxServers - 1
    BY <1>0, <2>3
  <2>. QED
    BY <2>1, <2>2, <2>3, <2>4, ReturnKeeps
<1>. QED
  BY <1>1, <1>2

(* What the next state of a call that p makes no step of depends on. *)
LEMMA AddrsType ==
  ASSUME AnswersInv, NEW p \in Proc, UNCHANGED addrs
  PROVE  DOMAIN addrs' = Proc /\ \A q \in Proc \ {p} : addrs'[q] = addrs[q]
BY DEF AnswersInv, Types

LEMMA SucceedKeeps ==
  ASSUME AnswersInv, NEW p \in Proc, NEW v, Succeed(p, v), pc[p] # "idle",
         DOMAIN addrs[p] = {}, UNCHANGED <<wan, pub, udhcp, op, addrs>>
  PROVE  AnswersInv'
<1>1. Return(p, "SUCCESS") /\ out' = [out EXCEPT ![p] = v]
  BY DEF Succeed
<1>2. DOMAIN out' = Proc /\ \A q \in Proc \ {p} : out'[q] = out[q]
  BY <1>1 DEF AnswersInv, Types
<1>. QED
  BY <1>1, <1>2, AddrsType, ReturnKeeps

LEMMA CallKeeps == ASSUME AnswersInv, NEW p \in Proc, NEW o \in Op, Call(p, o) PROVE AnswersInv'
<1>1. Types'
  BY DEF AnswersInv, Types, Call
<1>2. Progress(p)'
  BY DEF AnswersInv, Types, Progress, Call
<1>3. \A q \in Proc \ {p} : Progress(q)'
  BY DEF AnswersInv, Types, Progress, Call
<1>. QED
  BY <1>1, <1>2, <1>3 DEF AnswersInv

LEMMA BadCallKeeps ==
  ASSUME AnswersInv, NEW p \in Proc, NEW o \in Op, BadCall(p, o) PROVE AnswersInv'
<1>1. Types'
  BY DEF AnswersInv, Types, BadCall
<1>2. Progress(p)'
  BY DEF AnswersInv, Types, Progress, BadCall
<1>3. \A q \in Proc \ {p} : Progress(q)'
  BY DEF AnswersInv, Types, Progress, BadCall
<1>. QED
  BY <1>1, <1>2, <1>3 DEF AnswersInv

(* A call that has only begun has written nothing. *)
LEMMA NothingYet ==
  ASSUME AnswersInv, NEW p \in Proc, pc[p] = "which" PROVE DOMAIN addrs[p] = {} /\ out[p] = None
BY DEF AnswersInv, Progress

LEMMA WhichKeeps == ASSUME AnswersInv, NEW p \in Proc, Which(p) PROVE AnswersInv'
<1>1. pc[p] = "which" /\ Ask(p, <<FirstKey[op[p]], 0>>) /\ UNCHANGED <<wan, pub, udhcp, op, num, out, addrs>>
  BY DEF Which
<1>2. <<FirstKey[op[p]], 0>> \in Key /\ FirstKey[op[p]] # "dns"
  BY KeyKinds DEF Which
<1>3. num' \in [Proc -> 0 .. MaxServers] /\ \A q \in Proc \ {p} : num'[q] = num[q]
  BY <1>1 DEF AnswersInv, Types
<1>. QED
  BY <1>1, <1>2, <1>3, NothingYet, AddrsType, AskKeeps

LEMMA LeaveKeeps ==
  ASSUME AnswersInv, NEW p \in Proc, NEW r \in {"delegated", "FAILURE"}, Return(p, r),
         pc[p] = "which", UNCHANGED <<wan, pub, udhcp, op, out, addrs>>
  PROVE  AnswersInv'
<1>1. DOMAIN out' = Proc /\ \A q \in Proc \ {p} : out'[q] = out[q]
  BY DEF AnswersInv, Types
<1>. QED
  BY <1>1, NothingYet, AddrsType, ReturnKeeps

LEMMA HandOnKeeps ==
  ASSUME AnswersInv, NEW p \in Proc,
         HandOnErt(p) \/ HandOnEcmTime(p) \/ HandOnEcm(p) \/ HandOnEmta(p)
  PROVE  AnswersInv'
BY LeaveKeeps DEF HandOnErt, HandOnEcmTime, HandOnEcm, HandOnEmta

LEMMA AttemptsKeeps == ASSUME AnswersInv, NEW p \in Proc, Attempts(p) PROVE AnswersInv'
BY NothingYet, SucceedKeeps DEF Attempts

LEMMA IfNameKeeps == ASSUME AnswersInv, NEW p \in Proc, IfName(p) PROVE AnswersInv'
<1>1. pc[p] = "which" /\ UNCHANGED <<wan, pub, udhcp, op, addrs>>
  BY DEF IfName
<1>2. ASSUME NEW v, Succeed(p, v) PROVE AnswersInv'
  BY <1>1, <1>2, NothingYet, SucceedKeeps
<1>3. CASE Return(p, "FAILURE") /\ UNCHANGED out
  BY <1>1, <1>3, LeaveKeeps
<1>. QED
  BY <1>2, <1>3 DEF IfName

LEMMA ReadNameKeeps == ASSUME AnswersInv, NEW p \in Proc, ReadName(p) PROVE AnswersInv'
<1>1. Types'
  BY DEF AnswersInv, Types, ReadName
<1>2. Progress(p)'
  BY DEF AnswersInv, Types, Progress, ReadName
<1>3. \A q \in Proc \ {p} : Progress(q)'
  BY DEF AnswersInv, Types, Progress, ReadName
<1>. QED
  BY <1>1, <1>2, <1>3 DEF AnswersInv

LEMMA FailKeeps == ASSUME AnswersInv, NEW p \in Proc, Fail(p) PROVE AnswersInv'
<1>1. pc[p] \in {"name", "key"} /\ key[p][1] # "dns" /\ Return(p, "FAILURE")
  BY DEF Fail, GetFails
<1>2. DOMAIN addrs[p] = {} /\ out[p] = None /\ UNCHANGED <<wan, pub, udhcp, op, out, addrs>>
  BY <1>1 DEF Fail, AnswersInv, Progress
<1>3. DOMAIN out' = Proc /\ \A q \in Proc \ {p} : out'[q] = out[q]
  BY <1>2 DEF AnswersInv, Types
<1>. QED
  BY <1>1, <1>2, <1>3, AddrsType, ReturnKeeps

LEMMA ServerAsked ==
  ASSUME AnswersInv, NEW p \in Proc, pc[p] \in {"name", "key"}, key[p][1] = "dns"
  PROVE  /\ key[p] \in Key /\ key[p][2] \in 0 .. MaxServers /\ key[p][2] < num[p]
         /\ DOMAIN addrs[p] \subseteq 0 .. key[p][2] - 1
BY KeyKinds DEF AnswersInv, Progress

LEMMA SkipServerKeeps == ASSUME AnswersInv, NEW p \in Proc, SkipServer(p) PROVE AnswersInv'
<1>1. pc[p] \in {"name", "key"} /\ key[p][1] = "dns" /\ NextServer(p, key[p][2])
  BY DEF SkipServer, GetFails
<1>2. key[p][2] \in 0 .. MaxServers /\ key[p][2] < num[p] /\ DOMAIN addrs[p] \subseteq 0 .. key[p][2] - 1
  BY <1>1, ServerAsked
<1>3. DOMAIN addrs'[p] \subseteq 0 .. key[p][2] /\ UNCHANGED <<wan, pub, udhcp, op, addrs>>
  BY <1>2 DEF SkipServer
<1>. QED
  BY <1>1, <1>2, <1>3, AddrsType, NextServerKeeps

LEMMA SingleKeeps == ASSUME AnswersInv, NEW p \in Proc, Single(p) PROVE AnswersInv'
<1>1. pc[p] = "key" /\ key[p][1] # "dns" /\ UNCHANGED <<wan, pub, udhcp, op, addrs>>
  BY DEF Single, GetGives
<1>2. DOMAIN addrs[p] = {}
  BY <1>1 DEF AnswersInv, Progress
<1>3. PICK v : Succeed(p, v)
  BY DEF Single
<1>. QED
  BY <1>1, <1>2, <1>3, SucceedKeeps

LEMMA GatewaysKeeps == ASSUME AnswersInv, NEW p \in Proc, Gateways(p) PROVE AnswersInv'
<1>1. pc[p] = "key" /\ key[p][1] # "dns" /\ UNCHANGED <<wan, pub, udhcp, op, addrs>>
  BY DEF Gateways, GetGives
<1>2. DOMAIN addrs[p] = {}
  BY <1>1 DEF AnswersInv, Progress
<1>3. CASE Ask(p, <<"gw", 0>>) /\ UNCHANGED <<num, out>>
  <2>1. num' \in [Proc -> 0 .. MaxServers] /\ \A q \in Proc \ {p} : num'[q] = num[q]
    BY <1>3 DEF AnswersInv, Types
  <2>. QED
    BY <1>1, <1>2, <1>3, <2>1, KeyKinds, AddrsType, AskKeeps
<1>4. CASE Succeed(p, 0)
  BY <1>1, <1>2, <1>4, SucceedKeeps
<1>. QED
  BY <1>3, <1>4 DEF Gateways

LEMMA DnsNumberKeeps == ASSUME AnswersInv, NEW p \in Proc, DnsNumber(p) PROVE AnswersInv'
<1>1. pc[p] = "key" /\ key[p][1] = "dns_number" /\ Value(p) # None /\ UNCHANGED <<wan, pub, udhcp, op, addrs>>
  BY DEF DnsNumber, GetGives
<1>2. DOMAIN addrs[p] = {}
  BY <1>1 DEF AnswersInv, Progress
<1> DEFINE n == Servers(Value(p))
<1>3. n \in 0 .. MaxServers
  <2>1. key[p] \in Key
    BY <1>1 DEF AnswersInv, Progress
  <2>2. key[p] = <<"dns_number", 0>>
    BY <1>1, <2>1 DEF Key
  <2>3. Value(p) \in Int
    BY <1>1, <2>2, ValueType, NumberType
  <2>. QED
    BY <2>3, ServersBound
<1>4. CASE n >= 1
  <2>1. num' = [num EXCEPT ![p] = n] /\ Ask(p, <<"dns", 0>>) /\ UNCHANGED out
    BY <1>4 DEF DnsNumber
  <2>2. num' \in [Proc -> 0 .. MaxServers] /\ num'[p] = n /\ \A q \in Proc \ {p} : num'[q] = num[q]
    BY <1>3, <2>1 DEF AnswersInv, Types
  <2>3. <<"dns", 0>> \in Key
    BY KeyKinds
  <2>. HIDE DEF n
  <2>. QED
    BY <1>1, <1>2, <1>3, <1>4, <2>1, <2>2, <2>3, AddrsType, AskKeeps
<1>5. CASE ~(n >= 1)
  <2>1. Succeed(p, 0)
    BY <1>5 DEF DnsNumber
  <2>. QED
    BY <1>1, <1>2, <2>1, SucceedKeeps
<1>. QED
  BY <1>4, <1>5

LEMMA DnsServerKeeps == ASSUME AnswersInv, NEW p \in Proc, DnsServer(p) PROVE AnswersInv'
<1>1. pc[p] = "key" /\ key[p][1] = "dns" /\ UNCHANGED <<wan, pub, udhcp, op>> /\ NextServer(p, key[p][2])
  BY DEF DnsServer, GetGives
<1>2. key[p][2] \in 0 .. MaxServers /\ key[p][2] < num[p] /\ DOMAIN addrs[p] \subseteq 0 .. key[p][2] - 1
  BY <1>1, ServerAsked
<1>3. PICK a : addrs' = [addrs EXCEPT ![p] =
                 [i \in DOMAIN @ \cup {key[p][2]} |-> IF i = key[p][2] THEN a ELSE @[i]]]
  BY DEF DnsServer
<1>4. DOMAIN addrs' = Proc /\ \A q \in Proc \ {p} : addrs'[q] = addrs[q]
  BY <1>3 DEF AnswersInv, Types
<1>5. DOMAIN addrs'[p] = DOMAIN addrs[p] \cup {key[p][2]}
  BY <1>3 DEF AnswersInv, Types
<1>6. DOMAIN addrs'[p] \subseteq 0 .. key[p][2]
  BY <1>2, <1>5
<1>. QED
  BY <1>1, <1>2, <1>4, <1>6, NextServerKeeps

LEMMA PublishKeeps ==
  ASSUME AnswersInv, NEW i \in If, NEW k \in Key, NEW v \in Values[k] \cup {None}, Publish(i, k, v)
  PROVE  AnswersInv'
BY DEF AnswersInv, Types, Progress, Publish

LEMMA FailoverKeeps ==
  ASSUME AnswersInv, NEW w \in If \cup {None}, Failover(w) PROVE AnswersInv'
BY DEF AnswersInv, Types, Progress, Failover

LEMMA AnswersStep == ASSUME AnswersInv, [Next]_vars PROVE AnswersInv'
<1>1. ASSUME NEW p \in Proc, NEW o \in Op, Call(p, o) \/ BadCall(p, o) PROVE AnswersInv'
  BY <1>1, CallKeeps, BadCallKeeps
<1>2. ASSUME NEW p \in Proc, Step(p) PROVE AnswersInv'
  BY <1>2, WhichKeeps, HandOnKeeps, AttemptsKeeps, IfNameKeeps, ReadNameKeeps, FailKeeps, SkipServerKeeps, SingleKeeps,
     GatewaysKeeps, DnsNumberKeeps, DnsServerKeeps DEF Step
<1>3. ASSUME NEW i \in If, NEW k \in Key, NEW v \in Values[k] \cup {None}, Publish(i, k, v)
      PROVE AnswersInv'
  BY <1>3, PublishKeeps
<1>4. ASSUME NEW w \in If \cup {None}, Failover(w) PROVE AnswersInv'
  BY <1>4, FailoverKeeps
<1>5. ASSUME UNCHANGED vars PROVE AnswersInv'
  BY <1>5 DEF vars, AnswersInv, Types, Progress
<1>. QED
  BY <1>1, <1>2, <1>3, <1>4, <1>5 DEF Next

(* Every reachable state has what Types and Progress say, for any          *)
(* processes, interfaces, published values and size of the array.          *)
THEOREM AnswersCorrect == Spec => []AnswersInv
<1>1. Init => AnswersInv
  BY AnswersInit
<1>2. AnswersInv /\ [Next]_vars => AnswersInv'
  BY AnswersStep
<1>. QED
  BY <1>1, <1>2, PTL DEF Spec

(* The list of servers stays within its array, whatever is published and   *)
(* however calls interleave with it (526-544).                             *)
THEOREM WithinListCorrect == Spec => []WithinList
<1>1. AnswersInv => WithinList
  <2>1. SUFFICES ASSUME AnswersInv, NEW p \in Proc
        PROVE  /\ DOMAIN addrs[p] \subseteq 0 .. MaxServers - 1
               /\ op[p] = "dns" /\ ret[p] = "SUCCESS" => DOMAIN addrs[p] \subseteq 0 .. out[p] - 1
    BY DEF WithinList
  <2>2. CASE pc[p] = "idle"
    BY <2>1, <2>2 DEF AnswersInv, Progress
  <2>3. CASE pc[p] = "which"
    BY <2>1, <2>3 DEF AnswersInv, Progress
  <2>4. CASE pc[p] \in {"name", "key"}
    <3>1. ret[p] = "none"
      BY <2>1, <2>4 DEF AnswersInv, Progress
    <3>2. CASE key[p][1] = "dns"
      BY <2>1, <2>4, <3>1, <3>2, ServerAsked
    <3>3. CASE key[p][1] # "dns"
      BY <2>1, <2>4, <3>1, <3>3 DEF AnswersInv, Progress
    <3>. QED
      BY <3>2, <3>3
  <2>. QED
    BY <2>1, <2>2, <2>3, <2>4 DEF AnswersInv, Types
<1>. QED
  BY <1>1, AnswersCorrect, PTL

(* A call that fails has written nothing (477, 430).                       *)
THEOREM FailureKeepsAnswerCorrect == Spec => []FailureKeepsAnswer
<1>1. AnswersInv => FailureKeepsAnswer
  BY DEF AnswersInv, Types, Progress, FailureKeepsAnswer
<1>. QED
  BY <1>1, AnswersCorrect, PTL

-----------------------------------------------------------------------------
(* What a call answers when nothing changes and nothing fails meanwhile.   *)
(* The instance that TLC checks asks one getter; QuietSpec lets every call *)
(* be any, for any number of processes.                                    *)

quietVars == <<vars, quiet>>

QuietSpec ==
  Init /\ quiet = [p \in Proc |-> TRUE] /\ [][Next /\ Watch]_quietVars

(* A call asks for its first key, for the gateway, or for a server. *)
Asked(p) ==
  pc[p] \in {"name", "key"} =>
    /\ udhcp /\ op[p] \in Keyed
    /\ \/ key[p] = <<FirstKey[op[p]], 0>>
       \/ op[p] = "gw" /\ key[p] = <<"gw", 0>>
       \/ op[p] = "dns" /\ key[p][1] = "dns"

Listed(list, i) ==
  IF Pub("dns", i) = None
  THEN i \notin DOMAIN list
  ELSE /\ i \in DOMAIN list
       /\ IF Pub("dns", i) \in Addr
          THEN list[i] = Pub("dns", i)
          ELSE list[i] \in Before(list, i)

(* What an undisturbed call has read is what is published. *)
ReadSoFar(p) ==
  quiet[p] /\ pc[p] \in {"name", "key"} =>
    /\ pc[p] = "key" => name[p] = wan
    /\ key[p] = <<"gw", 0>> =>
         Pub("gw_number", 0) # None /\ Pub("gw_number", 0) # 0
    /\ key[p][1] = "dns" =>
         /\ Pub("dns_number", 0) # None
         /\ num[p] = Servers(Pub("dns_number", 0))
         /\ \A i \in 0 .. key[p][2] - 1 : Listed(addrs[p], i)

ReadInv == \A p \in Proc : Asked(p) /\ ReadSoFar(p)

LEMMA WatchMeans ==
  ASSUME Watch, NEW p \in Proc, quiet'[p], pc[p] # "idle"
  PROVE  quiet[p] /\ wan' = wan /\ pub' = pub /\ udhcp' = udhcp /\ ~Spurious(p)
BY DEF Watch, system

(* In an undisturbed call a get fails only if there is nothing to give. *)
LEMMA NothingToGive ==
  ASSUME NEW p \in Proc, ~Spurious(p), Fail(p) \/ SkipServer(p)
  PROVE  wan = None \/ (pc[p] = "key" /\ Value(p) = None)
BY DEF Spurious, Fail, SkipServer, GetFails

(* The value a call reads, when it has read the name of the WAN. *)
LEMMA ReadsPub ==
  ASSUME AnswersInv, NEW p \in Proc, pc[p] = "key", name[p] = wan,
         NEW kind, NEW j, key[p] = <<kind, j>>
  PROVE  wan \in If /\ wan # None /\ Value(p) = Pub(kind, j)
BY DEF AnswersInv, Progress, Value, Pub

(* After a server has been asked for, the list has the ones up to it. *)
LEMMA ServerDone ==
  ASSUME AnswersInv, NEW p \in Proc, Asked(p), ReadSoFar(p), quiet[p],
         ~Spurious(p), SkipServer(p) \/ DnsServer(p)
  PROVE  /\ key[p][2] \in 0 .. MaxServers /\ key[p][2] < num[p]
         /\ op[p] = "dns" /\ udhcp /\ wan # None
         /\ Pub("dns_number", 0) # None
         /\ num[p] = Servers(Pub("dns_number", 0))
         /\ NextServer(p, key[p][2])
         /\ \A i \in 0 .. key[p][2] : Listed(addrs'[p], i)
<1>1. /\ pc[p] \in {"name", "key"} /\ key[p][1] = "dns" /\ NextServer(p, key[p][2])
  BY DEF SkipServer, DnsServer, GetFails, GetGives
<1>2. /\ key[p] \in Key /\ key[p][2] \in 0 .. MaxServers /\ key[p][2] < num[p]
      /\ DOMAIN addrs[p] \subseteq 0 .. key[p][2] - 1
  BY <1>1, ServerAsked
<1>3. key[p] = <<"dns", key[p][2]>>
  BY <1>1, <1>2, KeyKinds
<1>4. op[p] = "dns" /\ udhcp
  BY <1>1, <1>3 DEF Asked, Keyed, FirstKey
<1>5. /\ Pub("dns_number", 0) # None /\ num[p] = Servers(Pub("dns_number", 0))
      /\ \A i \in 0 .. key[p][2] - 1 : Listed(addrs[p], i)
      /\ pc[p] = "key" => name[p] = wan
  BY <1>1 DEF ReadSoFar
<1>6. wan # None
  BY <1>5 DEF Pub
<1>. PICK j \in 0 .. MaxServers : j = key[p][2]
  BY <1>2
<1>7. CASE SkipServer(p)
  <2>1. pc[p] = "key" /\ Value(p) = None /\ addrs' = addrs
    BY <1>6, <1>7, NothingToGive DEF SkipServer
  <2>2. Pub("dns", j) = None
    BY <1>3, <1>5, <2>1, ReadsPub
  <2>3. j \notin DOMAIN addrs[p]
    BY <1>2
  <2>4. \A i \in 0 .. j : i \in 0 .. j - 1 \/ i = j
    OBVIOUS
  <2>5. \A i \in 0 .. j : Listed(addrs[p], i)
    BY <1>5, <2>2, <2>3, <2>4 DEF Listed
  <2>. QED BY <1>1, <1>2, <1>4, <1>5, <1>6, <2>1, <2>5
<1>8. CASE DnsServer(p)
  <2>1. pc[p] = "key" /\ Value(p) # None
    BY <1>8 DEF DnsServer, GetGives
  <2>2. Value(p) = Pub("dns", j)
    BY <1>3, <1>5, <2>1, ReadsPub
  <2>3. PICK a \in Aton(Value(p), Held(p)) :
           addrs' = [addrs EXCEPT ![p] =
                       [i \in DOMAIN @ \cup {j} |-> IF i = j THEN a ELSE @[i]]]
    BY <1>8 DEF DnsServer
  <2>. PICK list : list = [i \in DOMAIN addrs[p] \cup {j} |->
                             IF i = j THEN a ELSE addrs[p][i]]
    OBVIOUS
  <2>4. addrs'[p] = list
    BY <2>3 DEF AnswersInv, Types
  <2>5. /\ DOMAIN list = DOMAIN addrs[p] \cup {j} /\ list[j] = a
        /\ \A i \in DOMAIN addrs[p] : i # j => list[i] = addrs[p][i]
    OBVIOUS
  <2>6. Listed(list, j)
    <3>1. CASE Value(p) \in Addr
      BY <2>1, <2>2, <2>3, <2>5, <3>1 DEF Listed, Aton
    <3>2. CASE Value(p) \notin Addr
      <4>1. a \in Held(p)
        BY <2>3, <3>2 DEF Aton
      <4>2. a = Junk \/ \E i \in DOMAIN addrs[p] : a = addrs[p][i]
        BY <4>1 DEF Held
      <4>3. \A i \in DOMAIN addrs[p] : i < j /\ i # j /\ i \in DOMAIN list
        BY <1>2, <2>5
      <4>4. a \in Before(list, j)
        BY <2>5, <4>2, <4>3 DEF Before
      <4>. QED BY <2>1, <2>2, <2>5, <3>2, <4>4 DEF Listed
    <3>. QED BY <3>1, <3>2
  <2>7. ASSUME NEW i \in 0 .. j - 1 PROVE Listed(list, i)
    <3>1. i # j /\ i \in Int /\ i < j /\ Listed(addrs[p], i)
      BY <1>5
    <3>2. Before(addrs[p], i) \subseteq Before(list, i)
      <4>1. \A k \in DOMAIN addrs[p] : k < i => k # j /\ k \in DOMAIN list
        BY <1>2, <2>5, <3>1
      <4>. QED BY <2>5, <4>1 DEF Before
    <3>. QED BY <2>5, <3>1, <3>2 DEF Listed
  <2>8. \A i \in 0 .. j : i \in 0 .. j - 1 \/ i = j
    OBVIOUS
  <2>. QED BY <1>1, <1>2, <1>4, <1>5, <1>6, <2>4, <2>6, <2>7, <2>8
<1>. QED BY <1>7, <1>8

LEMMA PubSame ==
  ASSUME wan' = wan, pub' = pub
  PROVE  /\ \A kind, j : Pub(kind, j)' = Pub(kind, j)
         /\ \A list, i : Listed(list, i)' <=> Listed(list, i)
BY DEF Pub, Listed

(* Asking for the first key, or the end, is nothing to remember. *)
LEMMA ReturnReads ==
  ASSUME AnswersInv, NEW p \in Proc, NEW r, Return(p, r)
  PROVE  (Asked(p) /\ ReadSoFar(p))' /\ pc'[p] = "idle"
BY DEF Return, Asked, ReadSoFar, AnswersInv, Types

LEMMA AskReads ==
  ASSUME AnswersInv, NEW p \in Proc, NEW k, Ask(p, k)
  PROVE  pc'[p] = "name" /\ key'[p] = k
BY DEF Ask, AnswersInv, Types

LEMMA FirstKeys ==
  \A o \in Keyed : /\ <<FirstKey[o], 0>> # <<"gw", 0>> /\ <<FirstKey[o], 0>>[1] # "dns"
                   /\ \A o2 \in Keyed : FirstKey[o] = FirstKey[o2] => o = o2
BY DEF Keyed, FirstKey

LEMMA NextServerReads ==
  ASSUME AnswersInv, NEW p \in Proc, op' = op, udhcp' = udhcp, Watch, pc[p] # "idle",
         op[p] = "dns", udhcp, key[p][2] \in 0 .. MaxServers, NextServer(p, key[p][2]),
         quiet'[p] =>
           /\ Pub("dns_number", 0) # None
           /\ num[p] = Servers(Pub("dns_number", 0))
           /\ \A i \in 0 .. key[p][2] : Listed(addrs'[p], i)
  PROVE  (Asked(p) /\ ReadSoFar(p))'
<1>. PICK j \in 0 .. MaxServers : j = key[p][2]
  OBVIOUS
<1>1. CASE j + 1 < num[p]
  <2>1. Ask(p, <<"dns", j + 1>>) /\ num' = num
    BY <1>1 DEF NextServer
  <2>2. pc'[p] = "name" /\ key'[p] = <<"dns", j + 1>>
    BY <2>1, AskReads
  <2>3. Asked(p)'
    BY <2>2 DEF Asked, Keyed
  <2>4. ASSUME quiet'[p] PROVE ReadSoFar(p)'
    <3>1. wan' = wan /\ pub' = pub
      BY <2>4, WatchMeans
    <3>2. key'[p] # <<"gw", 0>> /\ key'[p][1] = "dns" /\ key'[p][2] - 1 = j
      BY <2>2
    <3>. QED BY <2>1, <2>2, <2>4, <3>1, <3>2, PubSame DEF ReadSoFar
  <2>. QED BY <2>3, <2>4 DEF ReadSoFar
<1>2. CASE ~(j + 1 < num[p])
  BY <1>2, ReturnReads DEF NextServer, Succeed
<1>. QED BY <1>1, <1>2

LEMMA OwnRead ==
  ASSUME AnswersInv, NEW p \in Proc, Asked(p), ReadSoFar(p), Step(p), Watch
  PROVE  (Asked(p) /\ ReadSoFar(p))'
<1>1. CASE HandOnErt(p) \/ HandOnEcmTime(p) \/ HandOnEcm(p) \/ HandOnEmta(p)
           \/ Attempts(p) \/ IfName(p) \/ Fail(p) \/ Single(p)
  BY <1>1, ReturnReads DEF HandOnErt, HandOnEcmTime, HandOnEcm, HandOnEmta,
     Attempts, IfName, Fail,
     Single, Succeed
<1>2. CASE Which(p)
  <2>1. /\ pc'[p] = "name" /\ key'[p] = <<FirstKey[op[p]], 0>> /\ op' = op
        /\ op[p] \in Keyed /\ udhcp' /\ udhcp
    BY <1>2, AskReads DEF Which
  <2>. QED BY <2>1, FirstKeys DEF Asked, ReadSoFar
<1>3. CASE ReadName(p)
  <2>1. /\ pc[p] = "name" /\ pc'[p] = "key" /\ name'[p] = wan
        /\ UNCHANGED <<wan, pub, udhcp, op, key, num, addrs>>
    BY <1>3 DEF ReadName, AnswersInv, Types
  <2>2. quiet'[p] => quiet[p]
    BY <2>1, WatchMeans
  <2>. QED BY <2>1, <2>2, PubSame DEF Asked, ReadSoFar
<1>4. CASE SkipServer(p) \/ DnsServer(p)
  <2>1. /\ pc[p] \in {"name", "key"} /\ key[p][1] = "dns" /\ NextServer(p, key[p][2])
        /\ op' = op /\ udhcp' = udhcp
    BY <1>4 DEF SkipServer, DnsServer, GetFails, GetGives
  <2>2. key[p][2] \in 0 .. MaxServers
    BY <2>1, ServerAsked
  <2>3. op[p] = "dns" /\ udhcp
    BY <2>1, FirstKeys DEF Asked
  <2>4. quiet'[p] => quiet[p] /\ ~Spurious(p)
    BY <2>1, WatchMeans
  <2>. QED BY <1>4, <2>1, <2>2, <2>3, <2>4, ServerDone, NextServerReads
<1>5. CASE Gateways(p)
  <2>1. /\ pc[p] = "key" /\ key[p][1] = "gw_number" /\ op' = op /\ udhcp' = udhcp
        /\ Value(p) # None
    BY <1>5 DEF Gateways, GetGives
  <2>2. CASE Succeed(p, 0)
    BY <2>2, ReturnReads DEF Succeed
  <2>3. CASE Ask(p, <<"gw", 0>>) /\ Value(p) % Word >= 1
    <3>1. op[p] = "gw" /\ udhcp /\ key[p] = <<"gw_number", 0>>
      BY <2>1 DEF Asked, Keyed, FirstKey
    <3>2. pc'[p] = "name" /\ key'[p] = <<"gw", 0>>
      BY <2>3, AskReads
    <3>3. Value(p) # 0
      BY <2>3
    <3>4. ASSUME quiet'[p] PROVE Pub("gw_number", 0)' # None /\ Pub("gw_number", 0)' # 0
      <4>1. quiet[p] /\ wan' = wan /\ pub' = pub
        BY <2>1, <3>4, WatchMeans
      <4>2. name[p] = wan
        BY <2>1, <4>1 DEF ReadSoFar
      <4>3. Value(p) = Pub("gw_number", 0)
        BY <2>1, <3>1, <4>2, ReadsPub
      <4>4. Pub("gw_number", 0)' = Pub("gw_number", 0)
        BY <4>1, PubSame
      <4>. QED BY <2>1, <3>3, <4>3, <4>4
    <3>5. key'[p][1] # "dns" /\ pc'[p] # "key"
      BY <3>2
    <3>. QED BY <2>1, <3>1, <3>2, <3>4, <3>5 DEF Asked, ReadSoFar, Keyed
  <2>. QED BY <1>5, <2>2, <2>3 DEF Gateways
<1>6. CASE DnsNumber(p)
  <2>1. /\ pc[p] = "key" /\ key[p][1] = "dns_number" /\ op' = op /\ udhcp' = udhcp
        /\ Value(p) # None /\ addrs' = addrs
    BY <1>6 DEF DnsNumber, GetGives
  <2>2. CASE Succeed(p, 0)
    BY <2>2, ReturnReads DEF Succeed
  <2>3. CASE num' = [num EXCEPT ![p] = Servers(Value(p))] /\ Ask(p, <<"dns", 0>>)
    <3>1. op[p] = "dns" /\ udhcp /\ key[p] = <<"dns_number", 0>>
      BY <2>1 DEF Asked, Keyed, FirstKey
    <3>2. pc'[p] = "name" /\ key'[p] = <<"dns", 0>> /\ num'[p] = Servers(Value(p))
      BY <2>3, AskReads DEF AnswersInv, Types
    <3>3. ASSUME quiet'[p]
          PROVE  Pub("dns_number", 0)' # None /\ num'[p] = Servers(Pub("dns_number", 0)')
      <4>1. quiet[p] /\ wan' = wan /\ pub' = pub
        BY <2>1, <3>3, WatchMeans
      <4>2. name[p] = wan
        BY <2>1, <4>1 DEF ReadSoFar
      <4>3. Value(p) = Pub("dns_number", 0)
        BY <2>1, <3>1, <4>2, ReadsPub
      <4>4. Pub("dns_number", 0)' = Pub("dns_number", 0)
        BY <4>1, PubSame
      <4>. QED BY <2>1, <3>2, <4>3, <4>4
    <3>4. /\ key'[p][1] = "dns" /\ key'[p] # <<"gw", 0>> /\ pc'[p] # "key"
          /\ \A i \in 0 .. key'[p][2] - 1 : FALSE
      BY <3>2
    <3>5. Asked(p)'
      BY <2>1, <3>1, <3>2, <3>4 DEF Asked, Keyed
    <3>6. ReadSoFar(p)'
      BY <3>3, <3>4 DEF ReadSoFar, Servers
    <3>. QED BY <3>5, <3>6
  <2>. QED BY <1>6, <2>2, <2>3 DEF DnsNumber
<1>. QED BY <1>1, <1>2, <1>3, <1>4, <1>5, <1>6 DEF Step

LEMMA OtherRead ==
  ASSUME NEW p \in Proc, Asked(p), ReadSoFar(p), Watch, udhcp' = udhcp,
         pc'[p] = pc[p], op'[p] = op[p], key'[p] = key[p], name'[p] = name[p],
         num'[p] = num[p], addrs'[p] = addrs[p]
  PROVE  (Asked(p) /\ ReadSoFar(p))'
<1>1. CASE pc[p] = "idle"
  BY <1>1 DEF Asked, ReadSoFar
<1>2. ASSUME pc[p] # "idle", quiet'[p] PROVE quiet[p] /\ wan' = wan /\ pub' = pub
  BY <1>2, WatchMeans
<1>. QED BY <1>1, <1>2, PubSame DEF Asked, ReadSoFar

(* A step of one call leaves the others alone. *)
LEMMA StepOthers ==
  ASSUME AnswersInv, NEW p \in Proc, NEW q \in Proc, q # p,
         Step(p) \/ \E o \in Op : Call(p, o) \/ BadCall(p, o)
  PROVE  /\ udhcp' = udhcp /\ pc'[q] = pc[q] /\ op'[q] = op[q] /\ key'[q] = key[q]
         /\ name'[q] = name[q] /\ num'[q] = num[q] /\ addrs'[q] = addrs[q]
<1>1. CASE \E o \in Op : Call(p, o) \/ BadCall(p, o)
  BY <1>1 DEF Call, BadCall, AnswersInv, Types
<1>2. CASE Which(p) \/ HandOnErt(p) \/ HandOnEcmTime(p) \/ HandOnEcm(p)
           \/ HandOnEmta(p) \/ Attempts(p) \/ IfName(p) \/ ReadName(p) \/ Fail(p) \/ Single(p) \/ Gateways(p)
  BY <1>2 DEF Which, HandOnErt, HandOnEcmTime, HandOnEcm, HandOnEmta,
     Attempts, IfName, ReadName, Fail,
     Single, Gateways, Succeed, Ask, Return, AnswersInv, Types
<1>3. CASE SkipServer(p) \/ DnsServer(p)
  BY <1>3 DEF SkipServer, DnsServer, NextServer, Succeed, Ask, Return, AnswersInv, Types
<1>4. CASE DnsNumber(p)
  BY <1>4 DEF DnsNumber, Succeed, Ask, Return, AnswersInv, Types
<1>. QED BY <1>1, <1>2, <1>3, <1>4 DEF Step

LEMMA ReadInvStep ==
  ASSUME AnswersInv, ReadInv, [Next /\ Watch]_quietVars
  PROVE  ReadInv'
<1> SUFFICES ASSUME NEW p \in Proc PROVE (Asked(p) /\ ReadSoFar(p))'
  BY DEF ReadInv
<1>1. Asked(p) /\ ReadSoFar(p)
  BY DEF ReadInv
<1>2. CASE UNCHANGED quietVars
  BY <1>1, <1>2, PubSame DEF quietVars, vars, Asked, ReadSoFar
<1>3. ASSUME Next, Watch PROVE (Asked(p) /\ ReadSoFar(p))'
  <2>1. ASSUME NEW o \in Op, Call(p, o) \/ BadCall(p, o)
        PROVE  (Asked(p) /\ ReadSoFar(p))'
    BY <2>1 DEF Call, BadCall, AnswersInv, Types, Asked, ReadSoFar
  <2>2. ASSUME Step(p) PROVE (Asked(p) /\ ReadSoFar(p))'
    BY <1>1, <1>3, <2>2, OwnRead
  <2>3. ASSUME NEW q \in Proc, q # p,
               Step(q) \/ \E o \in Op : Call(q, o) \/ BadCall(q, o)
        PROVE  (Asked(p) /\ ReadSoFar(p))'
    BY <1>1, <1>3, <2>3, StepOthers, OtherRead
  <2>4. ASSUME \/ \E i \in If, k \in Key : \E v \in Values[k] \cup {None} : Publish(i, k, v)
               \/ \E w \in If \cup {None} : Failover(w)
        PROVE  (Asked(p) /\ ReadSoFar(p))'
    <3>1. UNCHANGED <<udhcp, pc, op, key, name, num, addrs>>
      BY <2>4 DEF Publish, Failover
    <3>. QED BY <1>1, <1>3, <3>1, OtherRead
  <2>. QED BY <1>3, <2>1, <2>2, <2>3, <2>4 DEF Next
<1>. QED BY <1>2, <1>3

-----------------------------------------------------------------------------
(* The last step of an undisturbed call.                                   *)

(* A mask of n bits and the addresses it leaves open make up the word.     *)
LEMMA MaskArithmetic ==
  ASSUME NEW n \in 1 .. Width, NEW w \in MaskOf(n)
  PROVE  w = Htonl[Word - 2 ^ (Width - n)]
<1>1. Width \in Nat /\ n \in Nat
  BY WidthAssumption
<1>. PICK m \in 0 .. Width - 1 : m = Width - n
  BY <1>1
<1>. PICK x \in 1 .. Word : x = 2 ^ m
  BY <1>1, PowerAssumption
<1>. PICK v \in ShiftLeft(Word - 1, m) : w = Htonl[v]
  BY DEF MaskOf
<1>2. v = ((Word - 1) * x) % Word
  BY DEF ShiftLeft
<1>3. (Word - 1) * x = (x - 1) * Word + (Word - x)
  OBVIOUS
<1>4. Word - x \in 0 .. Word - 1
  OBVIOUS
<1>5. ((x - 1) * Word + (Word - x)) % Word = Word - x
  <2>1. \A q \in Int, r \in 0 .. Word - 1 : (q * Word + r) % Word = r
    OBVIOUS
  <2>. PICK y \in Int : y = x - 1
    OBVIOUS
  <2>. PICK z \in 0 .. Word - 1 : z = Word - x
    BY <1>4
  <2>2. (y * Word + z) % Word = z
    BY <2>1, Zenon
  <2>. QED BY <2>2
<1>. QED BY <1>2, <1>3, <1>5

LEMMA StateValues ==
  StateOf("selecting") = {2} /\ StateOf("renew") = {5}
<1>1. StateNames[2] = "selecting" /\ 2 \in DOMAIN StateNames
  BY DEF StateNames
<1>2. \A k \in DOMAIN StateNames : StateNames[k] = "selecting" => k = 2
  BY DEF StateNames
<1>3. ~KnownState("renew")
  BY DEF KnownState, StateNames
<1>4. KnownState("selecting") /\ StateIndex("selecting") = 2
  BY <1>1, <1>2 DEF KnownState, StateIndex
<1>. QED BY <1>3, <1>4 DEF StateOf

Answered(p) ==
  /\ op[p] \in Keyed /\ ret'[p] # "delegated" => Right(op[p], ret'[p], out'[p], addrs'[p])
  /\ op[p] = "ifname" /\ ret'[p] # "delegated" => RightName(ret'[p], out'[p])
  /\ ~udhcp \/ op[p] \in HandedOn <=> ret'[p] = "delegated"

LEMMA ReturnedIs ==
  ASSUME AnswersInv, NEW p \in Proc
  PROVE  /\ \A r : Return(p, r) => ret'[p] = r
         /\ \A v : Succeed(p, v) => ret'[p] = "SUCCESS" /\ out'[p] = v
         /\ \A k : Ask(p, k) => pc'[p] = "name"
BY DEF AnswersInv, Types, Return, Succeed, Ask

LEMMA KeyedNotHandedOn ==
  /\ Keyed \cap HandedOn = {} /\ "ifname" \notin Keyed \cup HandedOn
  /\ "attempts" \notin Keyed \cup HandedOn
BY DEF Keyed, HandedOn

LEMMA DirectAnswered ==
  ASSUME AnswersInv, NEW p \in Proc, ~Spurious(p),
         HandOnErt(p) \/ HandOnEcmTime(p) \/ HandOnEcm(p)
         \/ HandOnEmta(p) \/ Attempts(p) \/ IfName(p)
  PROVE  Answered(p)
<1>1. CASE HandOnErt(p) \/ HandOnEcmTime(p) \/ HandOnEcm(p) \/ HandOnEmta(p)
  <2>1. ret'[p] = "delegated" /\ (~udhcp \/ op[p] \in HandedOn)
    BY <1>1, ReturnedIs DEF HandOnErt, HandOnEcmTime, HandOnEcm, HandOnEmta, HandedOn
  <2>. QED BY <2>1 DEF Answered
<1>2. CASE Attempts(p)
  <2>1. op[p] = "attempts" /\ udhcp /\ ret'[p] = "SUCCESS"
    BY <1>2, ReturnedIs DEF Attempts
  <2>. QED BY <2>1, KeyedNotHandedOn DEF Answered
<1>3. CASE IfName(p)
  <2>1. op[p] = "ifname" /\ udhcp
    BY <1>3 DEF IfName
  <2>2. ret'[p] # "FAILURE" /\ (wan = None \/ out'[p] = wan)
    BY <1>3 DEF Spurious
  <2>3. \/ wan # None /\ ret'[p] = "SUCCESS" /\ out'[p] = wan
        \/ ret'[p] = "SUCCESS" /\ out'[p] = Default
        \/ ret'[p] = "FAILURE"
    BY <1>3, ReturnedIs DEF IfName
  <2>4. RightName(ret'[p], out'[p])
    BY <2>2, <2>3 DEF RightName
  <2>. QED BY <2>1, <2>2, <2>3, <2>4, KeyedNotHandedOn DEF Answered
<1>. QED BY <1>1, <1>2, <1>3

(* A getter of a key that returns has been asked with udhcpc in use. *)
LEMMA KeyedAnswered ==
  ASSUME NEW p \in Proc, op[p] \in Keyed, udhcp, ret'[p] \in {"SUCCESS", "FAILURE"},
         Right(op[p], ret'[p], out'[p], addrs'[p])
  PROVE  Answered(p)
BY KeyedNotHandedOn DEF Answered

LEMMA FailAnswered ==
  ASSUME AnswersInv, NEW p \in Proc, Asked(p), ReadSoFar(p), quiet[p], ~Spurious(p), Fail(p)
  PROVE  Answered(p)
<1>1. /\ pc[p] \in {"name", "key"} /\ key[p][1] # "dns" /\ ret'[p] = "FAILURE"
  BY ReturnedIs DEF Fail, GetFails
<1>2. udhcp /\ op[p] \in Keyed
  BY <1>1 DEF Asked
<1>3. wan = None \/ (pc[p] = "key" /\ Value(p) = None)
  BY NothingToGive
<1>4. CASE key[p] = <<FirstKey[op[p]], 0>>
  <2>1. Pub(FirstKey[op[p]], 0) = None
    BY <1>1, <1>3, <1>4, ReadsPub DEF Pub, ReadSoFar
  <2>2. Right(op[p], ret'[p], out'[p], addrs'[p])
    BY <1>1, <2>1 DEF Right
  <2>. QED BY <1>1, <1>2, <2>2, KeyedAnswered
<1>5. CASE op[p] = "gw" /\ key[p] = <<"gw", 0>>
  <2>1. Pub("gw_number", 0) # None /\ Pub("gw_number", 0) # 0
    BY <1>1, <1>5 DEF ReadSoFar
  <2>2. wan # None
    BY <2>1 DEF Pub
  <2>3. Pub("gw", 0) = None
    BY <1>1, <1>3, <1>5, <2>2, ReadsPub DEF ReadSoFar
  <2>4. FirstKey["gw"] = "gw_number"
    BY DEF FirstKey
  <2>5. Right("gw", "FAILURE", out'[p], addrs'[p])
    BY <2>1, <2>3, <2>4 DEF Right
  <2>. QED BY <1>1, <1>2, <1>5, <2>5, KeyedAnswered
<1>. QED BY <1>1, <1>4, <1>5 DEF Asked

LEMMA SingleAnswered ==
  ASSUME AnswersInv, NEW p \in Proc, Asked(p), ReadSoFar(p), quiet[p], Single(p)
  PROVE  Answered(p)
<1>1. /\ pc[p] = "key" /\ Value(p) # None /\ name[p] = wan
      /\ key[p][1] \in {"dhcp_state", "ipaddr", "subnet", "gw"}
  BY DEF Single, GetGives, ReadSoFar
<1>2. udhcp /\ op[p] \in Keyed
  BY <1>1 DEF Asked
<1>3. PICK v \in Convert(op[p], Value(p)) : Succeed(p, v)
  BY DEF Single
<1>4. ret'[p] = "SUCCESS" /\ out'[p] = v
  BY <1>3, ReturnedIs
<1>5. CASE key[p] = <<FirstKey[op[p]], 0>>
  <2>1. Value(p) = Pub(FirstKey[op[p]], 0)
    BY <1>1, <1>5, ReadsPub
  <2>2. op[p] \in {"state", "ipaddr", "mask"}
    BY <1>1, <1>2, <1>5 DEF Keyed, FirstKey
  <2>. PICK first : first = Value(p)
    OBVIOUS
  <2>3. CASE op[p] = "state"
    <3>1. v \in StateOf(first)
      BY <1>3, <2>3 DEF Convert
    <3>2. /\ first = "selecting" => v = 2
          /\ first = "renew" => v = 5
      BY <3>1, StateValues
    <3>3. Right("state", "SUCCESS", v, addrs'[p])
      BY <1>1, <2>1, <2>3, <3>2 DEF Right
    <3>. QED BY <1>2, <1>4, <2>3, <3>3, KeyedAnswered
  <2>4. CASE op[p] = "ipaddr"
    <3>1. first \in Addr => v = first
      BY <1>3, <2>4 DEF Convert, Aton
    <3>2. Right("ipaddr", "SUCCESS", v, addrs'[p])
      BY <1>1, <2>1, <2>4, <3>1 DEF Right
    <3>. QED BY <1>2, <1>4, <2>4, <3>2, KeyedAnswered
  <2>5. CASE op[p] = "mask"
    <3>1. first \in 1 .. Width => v = Htonl[Word - 2 ^ (Width - first)]
      BY <1>3, <2>5, MaskArithmetic DEF Convert
    <3>2. Right("mask", "SUCCESS", v, addrs'[p])
      BY <1>1, <2>1, <2>5, <3>1 DEF Right
    <3>. QED BY <1>2, <1>4, <2>5, <3>2, KeyedAnswered
  <2>. QED BY <2>2, <2>3, <2>4, <2>5
<1>6. CASE op[p] = "gw" /\ key[p] = <<"gw", 0>>
  <2>1. Pub("gw_number", 0) # None /\ Pub("gw_number", 0) # 0
    BY <1>1, <1>6 DEF ReadSoFar
  <2>2. Value(p) = Pub("gw", 0)
    BY <1>1, <1>6, ReadsPub
  <2>3. Pub("gw", 0) \in Addr => v = Pub("gw", 0)
    BY <1>3, <1>6, <2>2 DEF Convert, Aton
  <2>4. FirstKey["gw"] = "gw_number"
    BY DEF FirstKey
  <2>5. Right("gw", "SUCCESS", v, addrs'[p])
    BY <1>1, <2>1, <2>2, <2>3, <2>4 DEF Right
  <2>. QED BY <1>2, <1>4, <1>6, <2>5, KeyedAnswered
<1>. QED BY <1>1, <1>5, <1>6 DEF Asked

LEMMA NumberRead ==
  ASSUME AnswersInv, NEW kind \in {"gw_number", "dns_number"}, Pub(kind, 0) # None
  PROVE  Pub(kind, 0) \in Int /\ Pub(kind, 0) < Word
<1>1. <<kind, 0>> \in Key /\ wan \in If
  BY DEF Key, Pub, AnswersInv, Types
<1>2. Pub(kind, 0) \in Values[<<kind, 0>>]
  BY <1>1 DEF Pub, AnswersInv, Types
<1>. QED BY <1>2, NumberType

LEMMA GatewaysAnswered ==
  ASSUME AnswersInv, NEW p \in Proc, Asked(p), ReadSoFar(p), quiet[p], Gateways(p),
         pc'[p] = "idle"
  PROVE  Answered(p)
<1>1. /\ pc[p] = "key" /\ Value(p) # None /\ name[p] = wan /\ key[p][1] = "gw_number"
  BY DEF Gateways, GetGives, ReadSoFar
<1>2. udhcp /\ op[p] = "gw" /\ key[p] = <<"gw_number", 0>>
  BY <1>1 DEF Asked, Keyed, FirstKey
<1>3. ret'[p] = "SUCCESS" /\ out'[p] = 0 /\ ~(Value(p) % Word >= 1)
  BY ReturnedIs DEF Gateways
<1>4. Value(p) = Pub("gw_number", 0) /\ FirstKey["gw"] = "gw_number"
  BY <1>1, <1>2, ReadsPub DEF FirstKey
<1>5. Pub("gw_number", 0) \in Int /\ Pub("gw_number", 0) < Word
  BY <1>1, <1>4, NumberRead
<1>6. ~(Pub("gw_number", 0) > 0)
  BY <1>3, <1>4, <1>5
<1>7. Right("gw", "SUCCESS", 0, addrs'[p])
  BY <1>1, <1>4, <1>6 DEF Right
<1>. QED BY <1>2, <1>3, <1>7, KeyedAnswered DEF Keyed

(* The servers that a list has been filled with are the first of those     *)
(* published.                                                              *)
LEMMA ListRight ==
  ASSUME AnswersInv, NEW p \in Proc, Pub("dns_number", 0) # None, NEW v, NEW list,
         v = Servers(Pub("dns_number", 0)), \A i \in 0 .. v - 1 : Listed(list, i)
  PROVE  Right("dns", "SUCCESS", v, list)
<1>. PICK first : first = Pub("dns_number", 0)
  OBVIOUS
<1>1. first \in Int /\ first < Word /\ FirstKey["dns"] = "dns_number" /\ first # None
  BY NumberRead DEF FirstKey
<1>2. ASSUME first >= 0 PROVE v <= first /\ v <= MaxServers /\ (v = first \/ v = MaxServers)
  <2>1. first % Word = first
    BY <1>1, <1>2
  <2>. QED BY <1>1, <2>1 DEF Servers
<1>. QED BY <1>1, <1>2 DEF Right, Listed

LEMMA ServerAnswered ==
  ASSUME AnswersInv, NEW p \in Proc, Asked(p), ReadSoFar(p), quiet[p],
         ~Spurious(p), SkipServer(p) \/ DnsServer(p), pc'[p] = "idle"
  PROVE  Answered(p)
<1>. PICK j : j = key[p][2]
  OBVIOUS
<1>1. /\ j \in 0 .. MaxServers /\ j < num[p] /\ op[p] = "dns" /\ udhcp
      /\ Pub("dns_number", 0) # None /\ num[p] = Servers(Pub("dns_number", 0))
      /\ NextServer(p, j) /\ \A i \in 0 .. j : Listed(addrs'[p], i)
  BY ServerDone
<1>2. num[p] \in 0 .. MaxServers
  BY DEF AnswersInv, Types
<1>3. ~(j + 1 < num[p]) /\ ret'[p] = "SUCCESS" /\ out'[p] = num[p]
  BY <1>1, ReturnedIs DEF NextServer
<1>4. \A i \in 0 .. num[p] - 1 : Listed(addrs'[p], i)
  <2>1. num[p] - 1 = j
    BY <1>1, <1>2, <1>3
  <2>. QED BY <1>1, <2>1
<1>5. Right("dns", "SUCCESS", num[p], addrs'[p])
  BY <1>1, <1>4, ListRight
<1>. QED BY <1>1, <1>3, <1>5, KeyedAnswered DEF Keyed

LEMMA DnsNumberAnswered ==
  ASSUME AnswersInv, NEW p \in Proc, Asked(p), ReadSoFar(p), quiet[p], DnsNumber(p),
         pc'[p] = "idle"
  PROVE  Answered(p)
<1>1. /\ pc[p] = "key" /\ Value(p) # None /\ name[p] = wan /\ key[p][1] = "dns_number"
  BY DEF DnsNumber, GetGives, ReadSoFar
<1>2. udhcp /\ op[p] = "dns" /\ key[p] = <<"dns_number", 0>>
  BY <1>1 DEF Asked, Keyed, FirstKey
<1>3. ret'[p] = "SUCCESS" /\ out'[p] = 0 /\ ~(Servers(Value(p)) >= 1)
  BY ReturnedIs DEF DnsNumber
<1>4. Value(p) = Pub("dns_number", 0)
  BY <1>1, <1>2, ReadsPub
<1>5. Servers(Pub("dns_number", 0)) = 0
  <2>1. Pub("dns_number", 0) \in Int
    BY <1>1, <1>4, NumberRead
  <2>2. Servers(Pub("dns_number", 0)) \in 0 .. MaxServers
    BY <2>1, ServersBound
  <2>. QED BY <1>3, <1>4, <2>2
<1>6. Right("dns", "SUCCESS", 0, addrs'[p])
  <2>1. \A i \in 0 .. 0 - 1 : Listed(addrs'[p], i)
    OBVIOUS
  <2>. QED BY <1>1, <1>4, <1>5, <2>1, ListRight
<1>. QED BY <1>2, <1>3, <1>6, KeyedAnswered DEF Keyed

(* A call during which nothing changes and no get fails that had something *)
(* to give answers what is published for the WAN (324-547): see            *)
(* AnswersPublished.                                                       *)
THEOREM AnswersPublishedCorrect ==
  /\ QuietSpec => AnswersPublished
  /\ MCSpec => AnswersPublished
<1> DEFINE A ==
       \A p \in Proc :
         /\ quiet'[p] /\ pc[p] # "idle" /\ pc'[p] = "idle"
         => /\ op[p] \in Keyed /\ ret'[p] # "delegated" =>
                 Right(op[p], ret'[p], out'[p], addrs'[p])
            /\ op[p] = "ifname" /\ ret'[p] # "delegated" =>
                 RightName(ret'[p], out'[p])
            /\ ~udhcp \/ op[p] \in HandedOn <=> ret'[p] = "delegated"
<1>1. Init /\ quiet = [p \in Proc |-> TRUE] => ReadInv
  BY DEF Init, ReadInv, Asked, ReadSoFar
<1>2. AnswersInv /\ ReadInv /\ [Next /\ Watch]_quietVars => ReadInv'
  BY ReadInvStep
<1>3. [Next /\ Watch]_quietVars => [Next]_vars
  BY DEF quietVars
<1>4. ASSUME AnswersInv, ReadInv, Next, Watch, NEW p \in Proc,
             quiet'[p], pc[p] # "idle", pc'[p] = "idle"
      PROVE  Answered(p)
  <2>1. quiet[p] /\ ~Spurious(p) /\ Asked(p) /\ ReadSoFar(p)
    BY <1>4, WatchMeans DEF ReadInv
  <2>2. Step(p)
    <3>1. ~(\E o \in Op : Call(p, o) \/ BadCall(p, o))
      BY <1>4 DEF Call, BadCall
    <3>2. ~(\E q \in Proc \ {p} : Step(q) \/ \E o \in Op : Call(q, o) \/ BadCall(q, o))
      BY <1>4, StepOthers
    <3>3. ~(\E w \in If \cup {None} : Failover(w))
      BY <1>4 DEF Failover
    <3>4. ~(\E i \in If, k \in Key : \E v \in Values[k] \cup {None} : Publish(i, k, v))
      BY <1>4 DEF Publish
    <3>. QED BY <1>4, <3>1, <3>2, <3>3, <3>4 DEF Next
  <2>3. ~Which(p) /\ ~ReadName(p)
    BY <1>4, ReturnedIs DEF Which, ReadName, AnswersInv, Types
  <2>. QED
    BY <1>4, <2>1, <2>2, <2>3, DirectAnswered, FailAnswered, SingleAnswered, GatewaysAnswered,
       ServerAnswered, DnsNumberAnswered DEF Step
<1>5. AnswersInv /\ ReadInv /\ [Next /\ Watch]_quietVars => [A]_vars
  BY <1>4 DEF quietVars, Answered
<1>6. MCSpec => QuietSpec
  <2>1. MCInit => Init /\ quiet = [p \in Proc |-> TRUE]
    BY DEF MCInit
  <2>2. [Next /\ InFocus /\ Watch]_<<vars, focus, quiet>> => [Next /\ Watch]_quietVars
    BY DEF quietVars
  <2>. QED BY <2>1, <2>2, PTL DEF MCSpec, QuietSpec
<1>7. QuietSpec => AnswersPublished
  BY <1>1, <1>2, <1>3, <1>5, AnswersCorrect, PTL DEF QuietSpec, Spec, AnswersPublished
<1>. QED BY <1>6, <1>7
=============================================================================
