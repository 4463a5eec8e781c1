---------------------------- MODULE Dhcpv4Timers ----------------------------
(***************************************************************************)
(* source/dhcpv4c/dhcpv4c_api.c, built for udhcpc: the lease time of the   *)
(* WAN interface and what remains of it, of its renewal time and of its    *)
(* rebinding time.                                                         *)
(*                                                                         *)
(* udhcpc's script publishes lease_time and start_time of an interface as  *)
(* two sysevent keys; which interface is the WAN is a third key.  A getter *)
(* reads the WAN's name and one key, then the name again and the other     *)
(* key, then the clock: it is a sequence of steps, between which a renewal *)
(* or a change of the WAN interface can come.  The arithmetic is that of   *)
(* unsigned int, modulo Word.                                              *)
(*                                                                         *)
(* A definition marked "Variant" is not part of the model: it is the one   *)
(* below it with a plausible mistake.                                      *)
(***************************************************************************)
EXTENDS Integers

CONSTANTS
  Proc,        \* threads and processes that use the API
  If,          \* interfaces that may be the WAN
  Leases,      \* lease times a server may offer, in seconds; Word - 1 stands
               \* for a lease that does not end
  Word,        \* 2^32: unsigned int wraps here
  MaxTime,     \* bound on the clock
  None,        \* a key that is not set, or a value not written
  Hazard       \* which of HazardKinds may strike

HazardKinds ==
  { "renewal",   \* a lease is renewed while a call runs
    "failover",  \* another interface becomes the WAN while a call runs
    "lapse",     \* the clock runs past the end of a lease
    "sysevent",  \* a connection or a get fails
    "uptime" }   \* /proc/uptime cannot be read

ASSUME WordAssumption == Word \in Nat /\ Word >= 64
(* The clock stays in the lower half of an unsigned int: 68 years.         *)
ASSUME TimeAssumption == MaxTime \in Nat /\ 2 * MaxTime <= Word
ASSUME LeasesAssumption == Leases \subseteq 0 .. (Word - 1)
ASSUME NoneAssumption == None \notin Nat /\ None \notin If
ASSUME HazardAssumption == Hazard \subseteq HazardKinds

VARIABLES
  now,         \* seconds since the system came up
  wan,         \* sysevent current_wan_ifname
  held,        \* held[i]: the lease udhcpc holds on i
  pub,         \* pub[i]: sysevent ipv4_<i>_lease_time and ipv4_<i>_start_time
  udhcp,       \* syscfg UDHCPEnable_v2 is not "false"
  pc, op,
  name,        \* name[p]: the WAN's name as p read it last
  got,         \* got[p]: the keys p has read
  out,         \* out[p]: *pValue, None until it is written
  ret

system == <<now, wan, held, pub, udhcp>>
vars == <<now, wan, held, pub, udhcp, pc, op, name, got, out, ret>>

UInt == 0 .. (Word - 1)
Key == {"lease_time", "start_time"}
Published == [Key -> UInt \cup {None}]
Nothing == [k \in Key |-> None]
Op == {"lease", "remain_lease", "remain_renew", "remain_rebind"}

TypeOK ==
  /\ now \in 0 .. MaxTime
  /\ wan \in If \cup {None}
  /\ held \in [If -> Published]
  /\ pub \in [If -> Published]
  /\ udhcp \in BOOLEAN
  /\ pc \in [Proc -> {"idle", "which", "name1", "lease_time", "name2",
                      "start_time", "uptime"}]
  /\ op \in [Proc -> Op]
  /\ name \in [Proc -> If \cup {None}]
  /\ got \in [Proc -> Published]
  /\ out \in [Proc -> UInt \cup {None}]
  /\ ret \in [Proc -> {"none", "SUCCESS", "FAILURE", "delegated"}]

Init ==
  /\ now = 0
  /\ wan = None
  /\ held = [i \in If |-> Nothing]
  /\ pub = [i \in If |-> Nothing]
  /\ udhcp \in BOOLEAN
  /\ pc = [p \in Proc |-> "idle"]
  /\ op = [p \in Proc |-> "lease"]
  /\ name = [p \in Proc |-> None]
  /\ got = [p \in Proc |-> Nothing]
  /\ out = [p \in Proc |-> None]
  /\ ret = [p \in Proc |-> "none"]

-----------------------------------------------------------------------------
(* unsigned int.                                                           *)

(* Variant: signed. *)
MinusSigned(a, b) == a - b
Minus(a, b) == (a - b) % Word

(* Variant: all but an eighth, with nothing to overflow and no remainder.  *)
RebindTimeRounded(t) == 7 * (t \div 8)
RenewTime(t) == t \div 2
RebindTime(t) == ((t * 7) % Word) \div 8

(* What a getter counts down from. *)
Limit(o, t) ==
  CASE o = "remain_renew" -> RenewTime(t)
    [] o = "remain_rebind" -> RebindTime(t)
    [] OTHER -> t

(* Variant: what has passed, and what is left, the wrong way round. *)
RemainsSwapped(o, g, up) ==
  Minus(Minus(up, g["start_time"]), Limit(o, g["lease_time"]))
Remains(o, g, up) ==
  Minus(Limit(o, g["lease_time"]), Minus(up, g["start_time"]))

-----------------------------------------------------------------------------
(* The calls.                                                              *)

Goto(p, label) == pc' = [pc EXCEPT ![p] = label] /\ UNCHANGED <<out, ret>>

(* A call is over, and its locals are gone. *)
Leave(p, r) ==
  /\ pc' = [pc EXCEPT ![p] = "idle"]
  /\ ret' = [ret EXCEPT ![p] = r]
  /\ name' = [name EXCEPT ![p] = None]
  /\ got' = [got EXCEPT ![p] = Nothing]

Fail(p) == Leave(p, "FAILURE") /\ UNCHANGED out
Succeed(p, v) == Leave(p, "SUCCESS") /\ out' = [out EXCEPT ![p] = v]

Call(p, o) ==
  /\ pc[p] = "idle"
  /\ pc' = [pc EXCEPT ![p] = "which"]
  /\ op' = [op EXCEPT ![p] = o]
  /\ out' = [out EXCEPT ![p] = None]
  /\ ret' = [ret EXCEPT ![p] = "none"]
  /\ UNCHANGED <<now, wan, held, pub, udhcp, name, got>>

(* With udhcpc switched off, or left out of the build, another client      *)
(* library answers, anything.                                              *)
HandOn(p) == ~udhcp /\ Leave(p, "delegated") /\ UNCHANGED out

(* UDHCPEnable_v2 is read first. *)
Which(p) ==
  /\ pc[p] = "which"
  /\ HandOn(p) \/ (udhcp /\ Goto(p, "name1") /\ UNCHANGED <<name, got>>)
  /\ UNCHANGED <<now, wan, held, pub, udhcp, op>>

(* dhcpv4c_sysevent_get_value, first half: the name of the WAN interface.  *)
ReadName(p, label, next) ==
  /\ pc[p] = label
  /\ \/ (wan = None \/ "sysevent" \in Hazard) /\ Fail(p)
     \/ /\ wan # None
        /\ name' = [name EXCEPT ![p] = wan]
        /\ Goto(p, next)
        /\ UNCHANGED got
  /\ UNCHANGED <<now, wan, held, pub, udhcp, op>>

(* Second half: the key of that interface; empty is a failure too. *)
Value(p, k) == pub[name[p]][k]

KeyMissing(p, k) ==
  /\ pc[p] = k
  /\ Value(p, k) = None \/ "sysevent" \in Hazard
  /\ Fail(p)
  /\ UNCHANGED <<now, wan, held, pub, udhcp, op>>

KeyRead(p, k, next) ==
  /\ pc[p] = k
  /\ Value(p, k) # None
  /\ got' = [got EXCEPT ![p][k] = Value(p, k)]
  /\ Goto(p, next)
  /\ UNCHANGED <<now, wan, held, pub, udhcp, op, name>>

(* dhcpv4c_get_ert_lease_time_udhcp has its answer with the first key. *)
LeaseTime(p) ==
  /\ pc[p] = "lease_time" /\ op[p] = "lease"
  /\ Value(p, "lease_time") # None
  /\ Succeed(p, Value(p, "lease_time"))
  /\ UNCHANGED <<now, wan, held, pub, udhcp, op>>

(* Variant: a lease that is over is a failure, but 0 is stored as well. *)
FinishStoresZero(p) ==
  /\ pc[p] = "uptime"
  /\ IF now >= got[p]["start_time"] + got[p]["lease_time"]
     THEN Leave(p, "FAILURE") /\ out' = [out EXCEPT ![p] = 0]
     ELSE Succeed(p, Remains(op[p], got[p], now))
  /\ UNCHANGED <<now, wan, held, pub, udhcp, op>>
(* dhcpv4c_get_up_time; when it fails up_time stays 0 and nobody looks.    *)
Finish(p) ==
  /\ pc[p] = "uptime"
  /\ \/ Succeed(p, Remains(op[p], got[p], now))
     \/ "uptime" \in Hazard /\ Succeed(p, Remains(op[p], got[p], 0))
  /\ UNCHANGED <<now, wan, held, pub, udhcp, op>>

Step(p) ==
  \/ Which(p)
  \/ ReadName(p, "name1", "lease_time")
  \/ LeaseTime(p)
  \/ op[p] # "lease" /\ KeyRead(p, "lease_time", "name2")
  \/ ReadName(p, "name2", "start_time")
  \/ KeyRead(p, "start_time", "uptime")
  \/ \E k \in Key : KeyMissing(p, k)
  \/ Finish(p)

-----------------------------------------------------------------------------
(* udhcpc and the rest of the system.                                      *)

Busy == \E p \in Proc : pc[p] # "idle"

Tick ==
  /\ now < MaxTime
  /\ "lapse" \in Hazard \/
       \A i \in If : held[i] # Nothing =>
         now < held[i]["start_time"] + held[i]["lease_time"]
  /\ now' = now + 1
  /\ UNCHANGED <<wan, held, pub, udhcp, pc, op, name, got, out, ret>>

(* A lease is granted or renewed once the last one is published. *)
Grant(i, t) ==
  /\ "renewal" \in Hazard \/ ~Busy
  /\ pub[i] = held[i]
  /\ held' = [held EXCEPT ![i] = [k \in Key |->
                                    IF k = "lease_time" THEN t ELSE now]]
  /\ UNCHANGED <<now, wan, pub, udhcp, pc, op, name, got, out, ret>>

(* The script sets the keys one by one, in an order of its own. *)
Publish(i, k) ==
  /\ pub[i][k] # held[i][k]
  /\ "renewal" \in Hazard \/ ~Busy
  /\ pub' = [pub EXCEPT ![i][k] = held[i][k]]
  /\ UNCHANGED <<now, wan, held, udhcp, pc, op, name, got, out, ret>>

Failover(w) ==
  /\ "failover" \in Hazard \/ ~Busy
  /\ w # wan
  /\ wan' = w
  /\ UNCHANGED <<now, held, pub, udhcp, pc, op, name, got, out, ret>>

Next ==
  \/ \E p \in Proc : (\E o \in Op : Call(p, o)) \/ Step(p)
  \/ Tick
  \/ \E i \in If : \/ \E t \in Leases : Grant(i, t)
                   \/ \E k \in Key : Publish(i, k)
  \/ \E w \in If \cup {None} : Failover(w)

Spec == Init /\ [][Next]_vars

-----------------------------------------------------------------------------
Succeeds(p, O) ==
  pc[p] # "idle" /\ pc'[p] = "idle" /\ ret'[p] = "SUCCESS" /\ op[p] \in O

(* An answer above the lease time, which is what unsigned arithmetic makes *)
(* of a negative one (236), is given only when the two numbers read put    *)
(* the end of the lease in the past: a start time read after a renewal or  *)
(* from another interface is never later than the clock read after it.     *)
(* The one exception is the answer as of second 0, when the clock could    *)
(* not be read.                                                            *)
WrapsOnlyAfterEnd ==
  [][\A p \in Proc : Succeeds(p, {"remain_lease"}) =>
       \/ out'[p] <= got[p]["lease_time"]
       \/ now > got[p]["start_time"] + got[p]["lease_time"]
       \/ /\ "uptime" \in Hazard
          /\ out'[p] = Remains("remain_lease", got[p], 0)]_vars

(* A call that fails leaves the caller's variable alone, at whichever of   *)
(* its reads it fails.                                                     *)
FailureKeepsValue ==
  \A p \in Proc : ret[p] = "FAILURE" => out[p] = None

(* 879 and 881: "Gets the E-Router Remaining Lease Time", "Value in         *)
(* Seconds.": what remains is not more than the lease.                      *)
RemainsWithinLease ==
  [][\A p \in Proc : Succeeds(p, {"remain_lease"}) =>
       out'[p] <= got[p]["lease_time"]]_vars

-----------------------------------------------------------------------------
(* The inductive invariant of the safety properties: no start time is in   *)
(* the future, wherever it is kept, and a call has read what it goes on    *)
(* with.                                                                   *)

NotLater(r) == r["start_time"] # None => r["start_time"] <= now

StartsPast ==
  /\ \A i \in If : NotLater(held[i]) /\ NotLater(pub[i])
  /\ \A p \in Proc : NotLater(got[p])

CallsRead ==
  \A p \in Proc :
    /\ pc[p] \in Key => name[p] \in If
    /\ pc[p] \in {"name2", "start_time", "uptime"} =>
         got[p]["lease_time"] # None
    /\ pc[p] = "uptime" => got[p]["start_time"] # None

LeasesOffered ==
  \A i \in If : held[i] = Nothing \/ held[i]["lease_time"] \in Leases

TimersInv == TypeOK /\ StartsPast /\ CallsRead /\ LeasesOffered
=============================================================================
