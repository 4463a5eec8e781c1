---------------------------- MODULE Dhcpv4Proofs ----------------------------
(***************************************************************************)
(* Dhcpv4Timers: types, the order of the timers, when the remaining lease  *)
(* time wraps, and that it is exact when nothing moves, for any processes, *)
(* interfaces, leases and clock.                                           *)
(***************************************************************************)
EXTENDS MCDhcpv4, TLAPS

-----------------------------------------------------------------------------
(* Arithmetic modulo Word.                                                 *)

LEMMA ModSmall == ASSUME NEW a \in Nat, a < Word PROVE a % Word = a
BY WordAssumption

LEMMA MinusType == ASSUME NEW a \in Int, NEW b \in Int PROVE Minus(a, b) \in UInt
BY WordAssumption DEF Minus, UInt

(* A time that does not overflow when it is multiplied by 7 has its timers *)
(* in order.                                                               *)
LEMMA TimerOrder ==
  ASSUME NEW t \in Nat, t * 7 < Word
  PROVE  RenewTime(t) <= RebindTime(t) /\ RebindTime(t) <= t
<1>1. (t * 7) % Word = t * 7
  BY ModSmall
<1>. QED
  BY <1>1 DEF RenewTime, RebindTime

(* Any longer time loses at least Word, and has them the other way round.  *)
LEMMA TimerOverflow ==
  ASSUME NEW t \in Nat, t < Word, t * 7 >= Word
  PROVE  RebindTime(t) < RenewTime(t)
<1>1. (t * 7) % Word <= t * 7 - Word /\ (t * 7) % Word \in Nat
  BY WordAssumption
<1>2. (t * 7) % Word < Word
  BY WordAssumption
<1>. QED
  BY <1>1, <1>2, WordAssumption DEF RenewTime, RebindTime

LEMMA LimitType ==
  ASSUME NEW o \in Op, NEW t \in UInt PROVE Limit(o, t) \in Int
<1>1. t \in Nat
  BY WordAssumption DEF UInt
<1>2. RenewTime(t) \in Int
  BY <1>1 DEF RenewTime
<1>3. (t * 7) % Word \in Int
  BY <1>1, WordAssumption
<1>4. RebindTime(t) \in Int
  BY <1>3 DEF RebindTime
<1>. QED
  BY <1>1, <1>2, <1>4 DEF Limit, Op

LEMMA RemainsType ==
  ASSUME NEW o \in Op, NEW g \in Published, NEW u \in Nat,
         g["lease_time"] # None, g["start_time"] # None
  PROVE  Remains(o, g, u) \in UInt
<1>1. g["lease_time"] \in UInt /\ g["start_time"] \in UInt
  BY DEF Published, Key
<1>2. g["start_time"] \in Int
  BY <1>1, WordAssumption DEF UInt
<1>3. Limit(o, g["lease_time"]) \in Int
  BY <1>1, LimitType
<1>4. \A a, b \in Int : Minus(a, b) \in UInt
  BY MinusType
<1>5. Minus(u, g["start_time"]) \in Int
  <2>1. Minus(u, g["start_time"]) \in UInt
    BY <1>2, <1>4
  <2>. QED
    BY <2>1, WordAssumption DEF UInt
<1>. QED
  BY <1>3, <1>4, <1>5 DEF Remains

(* What is left of a lease is above the lease time only when it is over.   *)
LEMMA WrapArithmetic ==
  ASSUME NEW l \in Nat, l < Word, NEW s \in Nat, NEW u \in Nat,
         u < Word, s <= u
  PROVE  Minus(l, Minus(u, s)) <= l \/ u > s + l
<1>1. u - s \in Nat /\ u - s < Word
  BY WordAssumption
<1>2. Minus(u, s) = u - s
  BY <1>1, ModSmall DEF Minus
<1>3. SUFFICES ASSUME u - s <= l PROVE Minus(l, u - s) <= l
  BY <1>2
<1>4. l - (u - s) \in Nat /\ l - (u - s) < Word /\ l - (u - s) <= l
  BY <1>1, <1>3, WordAssumption
<1>. QED
  BY <1>4, ModSmall DEF Minus

LEMMA WrapMeansOver ==
  ASSUME NEW g \in Published, NEW u \in Nat, u < Word,
         g["lease_time"] # None, g["start_time"] # None,
         g["start_time"] <= u
  PROVE  \/ Remains("remain_lease", g, u) <= g["lease_time"]
         \/ u > g["start_time"] + g["lease_time"]
<1>1. /\ g["lease_time"] \in Nat /\ g["lease_time"] < Word
      /\ g["start_time"] \in Nat
  BY WordAssumption DEF Published, Key, UInt
<1>2. Remains("remain_lease", g, u) =
        Minus(g["lease_time"], Minus(u, g["start_time"]))
  BY DEF Remains, Limit
<1>. QED
  BY <1>1, <1>2, WrapArithmetic

-----------------------------------------------------------------------------
LEMMA TimersInit == Init => TimersInv
<1>. SUFFICES ASSUME Init PROVE TimersInv
  OBVIOUS
<1>1. Nothing \in Published /\ Nothing["start_time"] = None
  BY DEF Nothing, Published, Key
<1>2. TypeOK
  BY <1>1, TimeAssumption DEF Init, TypeOK, Op
<1>. QED
  BY <1>1, <1>2 DEF Init, TimersInv, StartsPast, CallsRead, LeasesOffered,
                    NotLater, Key

(* The end of a call, with or without an answer. *)
LEMMA LeaveKeeps ==
  ASSUME TimersInv, NEW p \in Proc,
         NEW r \in {"SUCCESS", "FAILURE", "delegated"}, Leave(p, r),
         UNCHANGED out \/ \E v \in UInt : out' = [out EXCEPT ![p] = v],
         UNCHANGED <<now, wan, held, pub, udhcp, op>>
  PROVE  TimersInv'
<1>1. Nothing \in Published /\ Nothing["start_time"] = None
  BY DEF Nothing, Published, Key
<1>2. out' \in [Proc -> UInt \cup {None}]
  BY DEF TimersInv, TypeOK
<1>3. TypeOK'
  BY <1>1, <1>2 DEF TimersInv, TypeOK, Leave
<1>4. StartsPast'
  BY <1>1 DEF TimersInv, TypeOK, StartsPast, NotLater, Leave
<1>5. CallsRead'
  BY DEF TimersInv, TypeOK, CallsRead, Leave, Key
<1>6. LeasesOffered'
  BY DEF TimersInv, LeasesOffered
<1>. QED
  BY <1>3, <1>4, <1>5, <1>6 DEF TimersInv

LEMMA CallKeeps ==
  ASSUME TimersInv, NEW p \in Proc, NEW o \in Op, Call(p, o) PROVE TimersInv'
BY DEF TimersInv, TypeOK, StartsPast, NotLater, CallsRead, LeasesOffered, Call, Key

LEMMA WhichKeeps ==
  ASSUME TimersInv, NEW p \in Proc, Which(p) PROVE TimersInv'
<1>1. CASE ~udhcp /\ Leave(p, "delegated") /\ UNCHANGED out
  BY <1>1, LeaveKeeps DEF Which, HandOn
<1>2. CASE Goto(p, "name1") /\ UNCHANGED <<name, got>>
  BY <1>2 DEF TimersInv, TypeOK, StartsPast, NotLater, CallsRead,
              LeasesOffered, Which, HandOn, Goto, Key
<1>. QED
  BY <1>1, <1>2 DEF Which, HandOn

LEMMA ReadNameKeeps ==
  ASSUME TimersInv, NEW p \in Proc,
         \/ ReadName(p, "name1", "lease_time")
         \/ ReadName(p, "name2", "start_time")
  PROVE  TimersInv'
<1>1. CASE Fail(p)
  BY <1>1, LeaveKeeps DEF ReadName, Fail
<1>2. CASE ReadName(p, "name1", "lease_time") /\ ~Fail(p)
  BY <1>2 DEF TimersInv, TypeOK, StartsPast, NotLater, CallsRead,
              LeasesOffered, ReadName, Goto, Key
<1>3. CASE ReadName(p, "name2", "start_time") /\ ~Fail(p)
  BY <1>3 DEF TimersInv, TypeOK, StartsPast, NotLater, CallsRead,
              LeasesOffered, ReadName, Goto, Key
<1>. QED
  BY <1>1, <1>2, <1>3

LEMMA KeyKeeps ==
  ASSUME TimersInv, NEW p \in Proc, NEW k \in Key,
         \/ KeyMissing(p, k)
         \/ KeyRead(p, "lease_time", "name2")
         \/ KeyRead(p, "start_time", "uptime")
  PROVE  TimersInv'
<1>1. CASE KeyMissing(p, k)
  BY <1>1, LeaveKeeps DEF KeyMissing, Fail
<1>2. ASSUME NEW j \in Key, NEW l \in {"name2", "uptime"}, KeyRead(p, j, l)
      PROVE  /\ TypeOK' /\ StartsPast'
             /\ got'[p][j] # None
             /\ \A i \in Key : i # j => got'[p][i] = got[p][i]
             /\ \A q \in Proc : q # p => got'[q] = got[q] /\ pc'[q] = pc[q]
             /\ pc'[p] = l /\ pc[p] = j /\ UNCHANGED name
  <2>1. /\ name[p] \in If /\ pc[p] = j
        /\ Value(p, j) \in UInt /\ Value(p, j) # None
    BY <1>2 DEF TimersInv, TypeOK, CallsRead, KeyRead, Value, Published
  <2>2. got' = [got EXCEPT ![p][j] = Value(p, j)]
    BY <1>2 DEF KeyRead
  <2>3. got' \in [Proc -> Published]
    BY <2>1, <2>2 DEF TimersInv, TypeOK, Published
  <2>4. TypeOK'
    BY <1>2, <2>3 DEF TimersInv, TypeOK, KeyRead, Goto
  <2>5. j = "start_time" => Value(p, j) <= now
    BY <2>1 DEF TimersInv, StartsPast, NotLater, Value
  <2>6. \A q \in Proc : NotLater(got[q])'
    BY <1>2, <2>2, <2>5 DEF TimersInv, TypeOK, StartsPast, NotLater, KeyRead,
                            Published, Key
  <2>7. StartsPast'
    BY <1>2, <2>6 DEF TimersInv, StartsPast, NotLater, KeyRead
  <2>. QED
    BY <1>2, <2>1, <2>2, <2>4, <2>7 DEF TimersInv, TypeOK, KeyRead, Goto,
                                        Published, Key
<1>3. CASE KeyRead(p, "lease_time", "name2")
  <2>1. TypeOK' /\ StartsPast'
    BY <1>2, <1>3 DEF Key
  <2>2. CallsRead'
    BY <1>2, <1>3 DEF TimersInv, CallsRead, Key
  <2>. QED
    BY <1>3, <2>1, <2>2 DEF TimersInv, LeasesOffered, KeyRead
<1>4. CASE KeyRead(p, "start_time", "uptime")
  <2>1. TypeOK' /\ StartsPast'
    BY <1>2, <1>4 DEF Key
  <2>2. CallsRead'
    BY <1>2, <1>4 DEF TimersInv, CallsRead, Key
  <2>. QED
    BY <1>4, <2>1, <2>2 DEF TimersInv, LeasesOffered, KeyRead
<1>. QED
  BY <1>1, <1>3, <1>4

LEMMA AnswerKeeps ==
  ASSUME TimersInv, NEW p \in Proc, LeaseTime(p) \/ Finish(p)
  PROVE  TimersInv'
<1>1. CASE LeaseTime(p)
  <2>1. Value(p, "lease_time") \in UInt
    BY <1>1 DEF TimersInv, TypeOK, CallsRead, LeaseTime, Value, Published, Key
  <2>. QED
    BY <1>1, <2>1, LeaveKeeps DEF LeaseTime, Succeed
<1>2. CASE Finish(p)
  <2>1. /\ got[p] \in Published /\ op[p] \in Op /\ now \in Nat
        /\ got[p]["lease_time"] # None /\ got[p]["start_time"] # None
    BY <1>2, TimeAssumption DEF TimersInv, TypeOK, CallsRead, Finish
  <2>2. /\ Remains(op[p], got[p], now) \in UInt
        /\ Remains(op[p], got[p], 0) \in UInt
    BY <2>1, RemainsType
  <2>. QED
    BY <1>2, <2>2, LeaveKeeps DEF Finish, Succeed
<1>. QED
  BY <1>1, <1>2

LEMMA SystemKeeps ==
  ASSUME TimersInv,
         \/ Tick
         \/ \E i \in If : \/ \E t \in Leases : Grant(i, t)
                          \/ \E k \in Key : Publish(i, k)
         \/ \E w \in If \cup {None} : Failover(w)
  PROVE  TimersInv'
<1>1. CASE Tick
  <2>1. now' = now + 1 /\ now' \in 0 .. MaxTime /\ now \in Nat
    BY <1>1, TimeAssumption DEF Tick, TimersInv, TypeOK
  <2>2. TypeOK'
    BY <1>1, <2>1 DEF Tick, TimersInv, TypeOK
  <2>3. ASSUME NEW r \in Published, NotLater(r) PROVE NotLater(r)'
    BY <2>1, <2>3, WordAssumption DEF NotLater, Published, Key, UInt
  <2>4. StartsPast'
    BY <1>1, <2>3 DEF Tick, TimersInv, TypeOK, StartsPast, NotLater
  <2>. QED
    BY <1>1, <2>2, <2>4 DEF Tick, TimersInv, CallsRead, LeasesOffered
<1>2. ASSUME NEW i \in If, NEW t \in Leases, Grant(i, t) PROVE TimersInv'
  <2> DEFINE r == [k \in Key |-> IF k = "lease_time" THEN t ELSE now]
  <2>1. /\ r \in Published /\ NotLater(r) /\ r["lease_time"] \in Leases
        /\ NotLater(r)'
    BY <1>2, LeasesAssumption, TimeAssumption, WordAssumption
       DEF Grant, TimersInv, TypeOK, Published, Key, UInt, NotLater
  <2>2. held' = [held EXCEPT ![i] = r]
    BY <1>2 DEF Grant
  <2> HIDE DEF r
  <2>3. TypeOK'
    BY <1>2, <2>1, <2>2 DEF Grant, TimersInv, TypeOK
  <2>4. StartsPast'
    BY <1>2, <2>1, <2>2 DEF Grant, TimersInv, TypeOK, StartsPast, NotLater
  <2>5. LeasesOffered'
    BY <2>1, <2>2 DEF TimersInv, TypeOK, LeasesOffered
  <2>. QED
    BY <1>2, <2>3, <2>4, <2>5 DEF Grant, TimersInv, CallsRead
<1>3. ASSUME NEW i \in If, NEW k \in Key, Publish(i, k) PROVE TimersInv'
  BY <1>3 DEF Publish, TimersInv, TypeOK, Published, StartsPast, NotLater,
              CallsRead, LeasesOffered, Key
<1>4. ASSUME NEW w \in If \cup {None}, Failover(w) PROVE TimersInv'
  BY <1>4 DEF Failover, TimersInv, TypeOK, StartsPast, NotLater,
              CallsRead, LeasesOffered
<1>. QED
  BY <1>1, <1>2, <1>3, <1>4

LEMMA TimersStep == ASSUME TimersInv, [Next]_vars PROVE TimersInv'
<1>1. ASSUME NEW p \in Proc, Step(p) PROVE TimersInv'
  BY <1>1, WhichKeeps, ReadNameKeeps, KeyKeeps, AnswerKeeps DEF Step, Key
<1>2. CASE UNCHANGED vars
  BY <1>2 DEF vars, TimersInv, TypeOK, StartsPast, NotLater, CallsRead,
              LeasesOffered
<1>. QED
  BY <1>1, <1>2, CallKeeps, SystemKeeps DEF Next

-----------------------------------------------------------------------------
(* Every value stays in its range, unsigned int included, no start time is *)
(* in the future and every call has read what it goes on with.             *)
THEOREM TimersCorrect == Spec => []TimersInv
<1>1. TimersInv /\ [Next]_vars => TimersInv'
  BY TimersStep
<1>. QED
  BY TimersInit, <1>1, PTL DEF Spec

(* The remaining lease time wraps (236) only when what was read says that  *)
(* the lease is over, whatever renewals and changes of interface come      *)
(* between the reads, except when /proc/uptime could not be read.          *)
THEOREM WrapsOnlyAfterEndCorrect == Spec => WrapsOnlyAfterEnd
<1> DEFINE Explained(p) ==
       \/ out'[p] <= got[p]["lease_time"]
       \/ now > got[p]["start_time"] + got[p]["lease_time"]
       \/ /\ "uptime" \in Hazard
          /\ out'[p] = Remains("remain_lease", got[p], 0)
<1> DEFINE A == \A p \in Proc : Succeeds(p, {"remain_lease"}) => Explained(p)
<1>1. ASSUME TimersInv, Next PROVE A
  <2>. SUFFICES ASSUME NEW p \in Proc, Succeeds(p, {"remain_lease"})
                PROVE  Explained(p)
    OBVIOUS
  <2>1. Finish(p)
    BY <1>1 DEF Succeeds, Next, Step, Call, Which, HandOn, ReadName, KeyRead,
       KeyMissing, LeaseTime, Finish, Leave, Fail, Succeed, Goto, Tick, Grant,
       Publish, Failover, TimersInv, TypeOK
  <2>2. \/ out'[p] = Remains("remain_lease", got[p], now)
        \/ "uptime" \in Hazard /\ out'[p] = Remains("remain_lease", got[p], 0)
    BY <1>1, <2>1 DEF Finish, Succeed, Succeeds, TimersInv, TypeOK
  <2>3. got[p] \in Published /\ now \in Nat /\ now < Word
    BY <1>1, TimeAssumption, WordAssumption DEF TimersInv, TypeOK
  <2>4. /\ got[p]["lease_time"] # None /\ got[p]["start_time"] # None
        /\ got[p]["start_time"] <= now
    BY <1>1, <2>1 DEF TimersInv, CallsRead, StartsPast, NotLater, Finish
  <2>. QED
    BY <2>2, <2>3, <2>4, WrapMeansOver
<1>2. TimersInv /\ [Next]_vars => [A]_vars
  BY <1>1
<1>. QED
  BY <1>2, TimersCorrect, PTL DEF Spec, WrapsOnlyAfterEnd

-----------------------------------------------------------------------------
(* Until a call has its answer, *pValue is as the caller left it. *)
OutUntouched ==
  \A p \in Proc : pc[p] # "idle" \/ ret[p] = "FAILURE" => out[p] = None

(* A step goes on, gives up, or gives its answer. *)
LEMMA StepEnds ==
  ASSUME NEW p \in Proc, Step(p)
  PROVE  /\ pc[p] # "idle"
         /\ \/ \E label : Goto(p, label)
            \/ \E r \in {"FAILURE", "delegated"} : Leave(p, r) /\ UNCHANGED out
            \/ \E v : Succeed(p, v)
<1>1. CASE Which(p)
  BY <1>1 DEF Which, HandOn
<1>2. CASE \/ ReadName(p, "name1", "lease_time")
           \/ ReadName(p, "name2", "start_time")
  BY <1>2 DEF ReadName, Fail
<1>3. CASE LeaseTime(p)
  BY <1>3 DEF LeaseTime
<1>4. CASE KeyRead(p, "lease_time", "name2") \/ KeyRead(p, "start_time", "uptime")
  BY <1>4 DEF KeyRead
<1>5. CASE \E k \in Key : KeyMissing(p, k)
  BY <1>5 DEF KeyMissing, Fail, Key
<1>6. CASE Finish(p)
  BY <1>6 DEF Finish
<1>. QED
  BY <1>1, <1>2, <1>3, <1>4, <1>5, <1>6 DEF Step

LEMMA UntouchedStep ==
  ASSUME TypeOK, OutUntouched, [Next]_vars PROVE OutUntouched'
<1>. USE DEF OutUntouched
<1>1. ASSUME NEW p \in Proc, NEW o \in Op, Call(p, o) PROVE OutUntouched'
  BY <1>1 DEF Call, TypeOK
<1>2. ASSUME NEW p \in Proc, Step(p) PROVE OutUntouched'
  <2>1. pc[p] # "idle" /\ out[p] = None
    BY <1>2, StepEnds
  <2>2. ASSUME NEW label, Goto(p, label) PROVE OutUntouched'
    BY <2>1, <2>2 DEF Goto, TypeOK
  <2>3. ASSUME NEW r \in {"FAILURE", "delegated"}, Leave(p, r), UNCHANGED out
        PROVE  OutUntouched'
    BY <2>1, <2>3 DEF Leave, TypeOK
  <2>4. ASSUME NEW v, Succeed(p, v) PROVE OutUntouched'
    BY <2>4 DEF Succeed, Leave, TypeOK
  <2>. QED
    BY <1>2, <2>2, <2>3, <2>4, StepEnds
<1>3. ASSUME UNCHANGED <<pc, out, ret>> PROVE OutUntouched'
  BY <1>3
<1>4. CASE Tick \/ UNCHANGED vars
  BY <1>3, <1>4 DEF Tick, vars
<1>5. ASSUME NEW i \in If,
             (\E t \in Leases : Grant(i, t)) \/ (\E k \in Key : Publish(i, k))
      PROVE  OutUntouched'
  BY <1>3, <1>5 DEF Grant, Publish
<1>6. ASSUME NEW w \in If \cup {None}, Failover(w) PROVE OutUntouched'
  BY <1>3, <1>6 DEF Failover
<1>. QED
  BY <1>1, <1>2, <1>4, <1>5, <1>6 DEF Next

(* A getter that fails leaves the caller's variable alone (184-312),       *)
(* whichever of its reads fails and whatever udhcpc and the other callers  *)
(* do meanwhile.                                                           *)
THEOREM FailureKeepsValueCorrect == Spec => []FailureKeepsValue
<1>1. Init => OutUntouched
  BY DEF Init, OutUntouched
<1>2. TypeOK /\ OutUntouched /\ [Next]_vars => OutUntouched'
  BY UntouchedStep
<1>3. TimersInv => TypeOK
  BY DEF TimersInv
<1>4. OutUntouched => FailureKeepsValue
  BY DEF OutUntouched, FailureKeepsValue
<1>. QED
  BY <1>1, <1>2, <1>3, <1>4, TimersCorrect, PTL DEF Spec

-----------------------------------------------------------------------------
(* What a call has read while the system stood still is what is published  *)
(* for the WAN.                                                            *)
QuietRead(p) ==
  quiet[p] =>
    /\ pc[p] \in {"lease_time", "name2", "start_time", "uptime"} => wan \in If
    /\ pc[p] \in Key => name[p] = wan
    /\ pc[p] \in {"name2", "start_time", "uptime"} =>
         got[p]["lease_time"] = pub[wan]["lease_time"]
    /\ pc[p] = "uptime" => got[p]["start_time"] = pub[wan]["start_time"]

QuietReads == \A p \in Proc : QuietRead(p)

LEMMA WatchMeans ==
  ASSUME Watch, NEW p \in Proc, quiet'[p], pc[p] # "idle"
  PROVE  quiet[p] /\ wan' = wan /\ held' = held /\ pub' = pub
BY DEF Watch

LEMMA OwnQuietRead ==
  ASSUME TypeOK, NEW p \in Proc, QuietRead(p), Step(p), Watch
  PROVE  QuietRead(p)'
<1> SUFFICES ASSUME quiet'[p] PROVE QuietRead(p)'
  BY DEF QuietRead
<1>1. quiet[p] /\ wan' = wan /\ held' = held /\ pub' = pub
  BY StepEnds, WatchMeans
<1>2. CASE \E r \in {"FAILURE", "delegated", "SUCCESS"} : Leave(p, r)
  BY <1>2 DEF Leave, TypeOK, QuietRead, Key
<1>3. CASE Which(p)
  BY <1>2, <1>3 DEF Which, HandOn, Goto, TypeOK, QuietRead, Key
<1>4. CASE ReadName(p, "name1", "lease_time")
  BY <1>1, <1>2, <1>4 DEF ReadName, Fail, Goto, TypeOK, QuietRead, Key
<1>5. CASE ReadName(p, "name2", "start_time")
  BY <1>1, <1>2, <1>5 DEF ReadName, Fail, Goto, TypeOK, QuietRead, Key
<1>6. CASE KeyRead(p, "lease_time", "name2")
  BY <1>1, <1>6 DEF KeyRead, Value, Goto, TypeOK, Published, QuietRead, Key
<1>7. CASE KeyRead(p, "start_time", "uptime")
  BY <1>1, <1>7 DEF KeyRead, Value, Goto, TypeOK, Published, QuietRead, Key
<1>8. CASE LeaseTime(p) \/ Finish(p) \/ \E k \in Key : KeyMissing(p, k)
  BY <1>2, <1>8 DEF LeaseTime, Finish, KeyMissing, Succeed, Fail
<1>. QED BY <1>3, <1>4, <1>5, <1>6, <1>7, <1>8 DEF Step

LEMMA OtherQuietRead ==
  ASSUME NEW p \in Proc, QuietRead(p), Watch,
         pc'[p] = pc[p], name'[p] = name[p], got'[p] = got[p]
  PROVE  QuietRead(p)'
<1>1. CASE pc[p] = "idle"
  BY <1>1 DEF QuietRead, Key
<1>2. CASE pc[p] # "idle"
  BY <1>2, WatchMeans DEF QuietRead
<1>. QED BY <1>1, <1>2

LEMMA QuietReadsStep ==
  ASSUME TimersInv, QuietReads, [Next /\ Watch]_<<vars, quiet>>
  PROVE  QuietReads'
<1> SUFFICES ASSUME NEW p \in Proc PROVE QuietRead(p)'
  BY DEF QuietReads
<1>1. QuietRead(p) /\ TypeOK
  BY DEF QuietReads, TimersInv
<1>2. CASE UNCHANGED <<vars, quiet>>
  BY <1>1, <1>2 DEF vars, QuietRead
<1>3. ASSUME Next, Watch PROVE QuietRead(p)'
  <2>1. ASSUME NEW o \in Op, Call(p, o) PROVE QuietRead(p)'
    BY <1>1, <2>1 DEF Call, TypeOK, QuietRead, Key
  <2>2. ASSUME Step(p) PROVE QuietRead(p)'
    BY <1>1, <1>3, <2>2, OwnQuietRead
  <2>3. ASSUME NEW q \in Proc, q # p, Step(q) \/ \E o \in Op : Call(q, o)
        PROVE  pc'[p] = pc[p] /\ name'[p] = name[p] /\ got'[p] = got[p]
    BY <1>1, <2>3 DEF TypeOK, Call, Step, Which, HandOn, ReadName, KeyRead, KeyMissing,
       LeaseTime, Finish, Leave, Fail, Succeed, Goto
  <2>4. ASSUME \/ Tick
               \/ \E i \in If : \/ \E t \in Leases : Grant(i, t)
                                \/ \E k \in Key : Publish(i, k)
               \/ \E w \in If \cup {None} : Failover(w)
        PROVE  pc'[p] = pc[p] /\ name'[p] = name[p] /\ got'[p] = got[p]
    BY <2>4 DEF Tick, Grant, Publish, Failover
  <2>. QED BY <1>1, <1>3, <2>1, <2>2, <2>3, <2>4, OtherQuietRead DEF Next
<1>. QED BY <1>2, <1>3

(* What is left, to the second, as long as there is something left. *)
LEMMA LeftArithmetic ==
  ASSUME NEW l \in Nat, l < Word, NEW s \in Nat, NEW u \in Nat,
         u < Word, s <= u, u <= s + l
  PROVE  u + Minus(l, Minus(u, s)) = s + l
<1>1. u - s \in Nat /\ u - s < Word
  BY WordAssumption
<1>2. Minus(u, s) = u - s
  BY <1>1, ModSmall DEF Minus
<1>3. l - (u - s) \in Nat /\ l - (u - s) < Word
  BY <1>1, WordAssumption
<1>4. Minus(l, u - s) = l - (u - s)
  BY <1>3, ModSmall DEF Minus
<1>. QED BY <1>1, <1>2, <1>4, WordAssumption

(* A difference that is negative wraps once, a sum that is too large too. *)
LEMMA ModBelow == ASSUME NEW a \in Int, a < 0, -Word <= a PROVE a % Word = a + Word
BY WordAssumption

LEMMA ModAbove == ASSUME NEW a \in Nat, Word <= a, a < 2 * Word PROVE a % Word = a - Word
BY WordAssumption

LEMMA MinusIs ==
  ASSUME NEW a \in Nat, a < Word, NEW b \in Nat, b < Word
  PROVE  Minus(a, b) = IF b <= a THEN a - b ELSE a - b + Word
<1>1. CASE b <= a
  BY <1>1, ModSmall, WordAssumption DEF Minus
<1>2. CASE ~(b <= a)
  BY <1>2, ModBelow, WordAssumption DEF Minus
<1>. QED BY <1>1, <1>2

(* An instant l seconds after s, told as the seconds from u to it.         *)
LEMMA DueArithmetic ==
  ASSUME NEW l \in Nat, l < Word, NEW s \in Nat, s < Word, NEW u \in Nat, u < Word
  PROVE  (u + Minus(l, Minus(u, s))) % Word = (s + l) % Word
<1> DEFINE m == Minus(u, s)
           n == Minus(l, m)
<1>1. m = IF s <= u THEN u - s ELSE u - s + Word
  BY MinusIs
<1>2. m \in Nat /\ m < Word
  BY <1>1, WordAssumption
<1>3. n = IF m <= l THEN l - m ELSE l - m + Word
  BY <1>2, MinusIs
<1>4. n \in Nat /\ n < Word
  BY <1>2, <1>3, WordAssumption
<1>. HIDE DEF m, n
<1>5. \/ u + n = s + l \/ u + n = s + l - Word \/ u + n = s + l + Word
  BY <1>1, <1>2, <1>3, WordAssumption
<1>6. ASSUME u + n = s + l PROVE (u + n) % Word = (s + l) % Word
  BY <1>6
<1>7. ASSUME u + n = s + l - Word PROVE (u + n) % Word = (s + l) % Word
  <2>1. (s + l) % Word = s + l - Word
    BY <1>4, <1>7, ModAbove, WordAssumption
  <2>2. (u + n) % Word = u + n
    BY <1>4, <1>7, ModSmall, WordAssumption
  <2>. QED BY <1>7, <2>1, <2>2
<1>8. ASSUME u + n = s + l + Word PROVE (u + n) % Word = (s + l) % Word
  <2>1. (u + n) % Word = u + n - Word
    BY <1>4, <1>8, ModAbove, WordAssumption
  <2>2. (s + l) % Word = s + l
    BY <1>4, <1>8, ModSmall, WordAssumption
  <2>3. u + n - Word = s + l
    BY <1>4, <1>8, WordAssumption
  <2>. QED BY <2>1, <2>2, <2>3
<1>. QED BY <1>5, <1>6, <1>7, <1>8 DEF m, n

(* A quiet answer is what remains, as of now or of second 0, of what is    *)
(* held.                                                                   *)
LEMMA QuietAnswerIs ==
  ASSUME TimersInv, QuietReads, Next, NEW p \in Proc, NEW O,
         O \subseteq {"remain_lease", "remain_renew", "remain_rebind"}, QuietAnswer(p, O)
  PROVE  \E s, l \in Nat :
           /\ s = held[wan]["start_time"] /\ l = held[wan]["lease_time"]
           /\ op[p] \in O /\ l < Word /\ s <= now /\ 2 * now <= Word /\ now \in Nat
           /\ \/ out'[p] = Minus(Limit(op[p], l), Minus(now, s))
              \/ "uptime" \in Hazard /\ out'[p] = Minus(Limit(op[p], l), Minus(0, s))
<1>0. Succeeds(p, O) /\ quiet[p] /\ pub[wan] = held[wan] /\ op[p] \in O
  BY DEF QuietAnswer, Succeeds
<1>1. Finish(p)
  <2>1. op[p] # "lease"
    BY <1>0
  <2>. QED
    BY <1>0, <2>1 DEF Succeeds, Next, Step, Call, Which, HandOn, ReadName, KeyRead,
       KeyMissing, LeaseTime, Finish, Leave, Fail, Succeed, Goto, Tick, Grant,
       Publish, Failover, TimersInv, TypeOK
<1>2. \/ out'[p] = Remains(op[p], got[p], now)
      \/ "uptime" \in Hazard /\ out'[p] = Remains(op[p], got[p], 0)
  BY <1>0, <1>1 DEF Finish, Succeed, Succeeds, TimersInv, TypeOK
<1>3. /\ got[p]["lease_time"] = held[wan]["lease_time"]
      /\ got[p]["start_time"] = held[wan]["start_time"]
  BY <1>0, <1>1 DEF Finish, QuietReads, QuietRead
<1>4. PICK s, l : s = got[p]["start_time"] /\ l = got[p]["lease_time"]
  OBVIOUS
<1>5. s \in Nat /\ l \in Nat /\ l < Word /\ s <= now /\ now \in Nat /\ 2 * now <= Word
  BY <1>1, <1>4, TimeAssumption, WordAssumption DEF TimersInv, TypeOK, CallsRead,
     StartsPast, NotLater, Finish, Published, Key, UInt
<1>6. \A u : Remains(op[p], got[p], u) = Minus(Limit(op[p], l), Minus(u, s))
  BY <1>4 DEF Remains
<1>. QED BY <1>0, <1>2, <1>3, <1>4, <1>5, <1>6

LEMMA QuietReadsCorrect == MCSpec => [](TimersInv /\ QuietReads)
<1>1. MCInit => Init /\ QuietReads
  BY DEF MCInit, Init, QuietReads, QuietRead, Key
<1>2. TimersInv /\ QuietReads /\ [Next /\ Watch]_<<vars, quiet>> => QuietReads'
  BY QuietReadsStep
<1>3. [Next /\ Watch]_<<vars, quiet>> => [Next]_vars
  OBVIOUS
<1>. QED
  BY <1>1, <1>2, <1>3, TimersCorrect, PTL DEF MCSpec, Spec

(* A call during which nothing is renewed and the WAN stays the same       *)
(* answers what the lease of the WAN has left, to the second, or its end   *)
(* modulo Word when the clock cannot be read (206-243), for any leases,    *)
(* one that does not end among them.                                       *)
THEOREM ExactWhenQuietCorrect == MCSpec => ExactWhenQuiet
<1> DEFINE End == held[wan]["start_time"] + held[wan]["lease_time"]
           A == \A p \in Proc :
                  QuietAnswer(p, {"remain_lease"}) /\ now <= End =>
                    \/ now + out'[p] = End
                    \/ "uptime" \in Hazard /\ out'[p] = End % Word
<1>1. ASSUME TimersInv, QuietReads, Next, NEW p \in Proc,
             QuietAnswer(p, {"remain_lease"}), now <= End
      PROVE  \/ now + out'[p] = End
             \/ "uptime" \in Hazard /\ out'[p] = End % Word
  <2>1. PICK s, l \in Nat :
           /\ s = held[wan]["start_time"] /\ l = held[wan]["lease_time"]
           /\ op[p] \in {"remain_lease"} /\ l < Word /\ s <= now /\ 2 * now <= Word
           /\ now \in Nat
           /\ \/ out'[p] = Minus(Limit(op[p], l), Minus(now, s))
              \/ "uptime" \in Hazard /\ out'[p] = Minus(Limit(op[p], l), Minus(0, s))
    BY <1>1, QuietAnswerIs
  <2>2. End = s + l /\ now <= s + l /\ now < Word /\ s < Word /\ Limit(op[p], l) = l
    BY <1>1, <2>1, WordAssumption DEF Limit
  <2>. HIDE DEF End
  <2>3. CASE out'[p] = Minus(l, Minus(now, s))
    <3>1. now + Minus(l, Minus(now, s)) = s + l
      BY <2>1, <2>2, LeftArithmetic
    <3>. QED BY <2>2, <2>3, <3>1
  <2>4. CASE "uptime" \in Hazard /\ out'[p] = Minus(l, Minus(0, s))
    <3>1. (0 + Minus(l, Minus(0, s))) % Word = (s + l) % Word
      BY <2>1, <2>2, DueArithmetic, WordAssumption
    <3>2. UInt \subseteq Int /\ \A m \in UInt : m \in Nat /\ m < Word
      BY WordAssumption DEF UInt
    <3>3. Minus(l, Minus(0, s)) \in Nat /\ Minus(l, Minus(0, s)) < Word
      <4>1. 0 \in Int /\ s \in Int /\ l \in Int
        BY <2>1
      <4>2. \A a, b \in Int : Minus(a, b) \in UInt
        BY MinusType
      <4>3. Minus(l, Minus(0, s)) \in UInt
        BY ONLY <3>2, <4>1, <4>2, Zenon
      <4>. QED BY ONLY <3>2, <4>3, Zenon
    <3>4. Minus(l, Minus(0, s)) % Word = Minus(l, Minus(0, s))
      BY <3>3, ModSmall
    <3>. QED BY <2>2, <2>4, <3>1, <3>3, <3>4
  <2>. QED BY <2>1, <2>2, <2>3, <2>4
<1>2. TimersInv /\ QuietReads /\ [Next /\ Watch]_<<vars, quiet>> => [A]_vars
  BY <1>1
<1>. QED
  BY <1>2, QuietReadsCorrect, PTL DEF MCSpec, ExactWhenQuiet

(* What callers are told of one lease in quiet times: that it is to be     *)
(* renewed at its half; and to be rebound between then and its end if      *)
(* seven times the lease does not overflow, but before it is to be renewed *)
(* if that does (264, 305), whatever the lease.                            *)
THEOREM TimersInOrderCorrect == MCSpec => TimersInOrder
<1> DEFINE Ordered(p) ==
             LET start == held[wan]["start_time"]
                 t == held[wan]["lease_time"]
             IN \E up \in {now, 0} :
                  LET due == (up + out'[p]) % Word
                      half == start + t \div 2
                  IN CASE op[p] = "remain_renew" -> due = half
                       [] t * 7 < Word -> half <= due /\ due <= start + t
                       [] OTHER -> due < half
           A == \A p \in Proc :
                  QuietAnswer(p, {"remain_renew", "remain_rebind"}) => Ordered(p)
<1>1. ASSUME TimersInv, QuietReads, Next, NEW p \in Proc,
             QuietAnswer(p, {"remain_renew", "remain_rebind"})
      PROVE  Ordered(p)
  <2>1. PICK s, l \in Nat :
           /\ s = held[wan]["start_time"] /\ l = held[wan]["lease_time"]
           /\ op[p] \in {"remain_renew", "remain_rebind"} /\ l < Word
           /\ s <= now /\ 2 * now <= Word /\ now \in Nat
           /\ \/ out'[p] = Minus(Limit(op[p], l), Minus(now, s))
              \/ "uptime" \in Hazard /\ out'[p] = Minus(Limit(op[p], l), Minus(0, s))
    BY <1>1, QuietAnswerIs
  <2>2. PICK up \in {now, 0} : out'[p] = Minus(Limit(op[p], l), Minus(up, s))
    BY <2>1
  <2>3. PICK d : d = Limit(op[p], l)
    OBVIOUS
  <2>4. /\ RenewTime(l) \in Nat /\ 2 * RenewTime(l) <= l /\ RenewTime(l) = l \div 2
        /\ RebindTime(l) \in Nat
    <3>1. (l * 7) % Word \in Nat
      BY WordAssumption
    <3>. QED BY <3>1 DEF RenewTime, RebindTime
  <2>5. /\ op[p] = "remain_renew" => d = RenewTime(l)
        /\ op[p] = "remain_rebind" => d = RebindTime(l)
    BY <2>3 DEF Limit
  <2>6. /\ l * 7 < Word => RenewTime(l) <= RebindTime(l) /\ RebindTime(l) <= l
        /\ ~(l * 7 < Word) => RebindTime(l) < RenewTime(l)
    BY <2>1, TimerOrder, TimerOverflow, WordAssumption
  <2>7. d \in Nat /\ d < Word /\ s + d < Word
    BY <2>1, <2>4, <2>5, <2>6, WordAssumption
  <2>8. up \in Nat /\ up < Word /\ s < Word
    BY <2>1, WordAssumption
  <2>9. (up + out'[p]) % Word = (s + d) % Word
    BY <2>2, <2>3, <2>7, <2>8, DueArithmetic
  <2>10. (up + out'[p]) % Word = s + d
    BY <2>1, <2>7, <2>9, ModSmall
  <2>11. /\ op[p] = "remain_renew" => s + d = s + l \div 2
         /\ op[p] = "remain_rebind" /\ l * 7 < Word =>
              s + l \div 2 <= s + d /\ s + d <= s + l
         /\ op[p] = "remain_rebind" /\ ~(l * 7 < Word) => s + d < s + l \div 2
    BY <2>4, <2>5, <2>6, <2>7
  <2>. QED BY <2>1, <2>10, <2>11
<1>2. TimersInv /\ QuietReads /\ [Next /\ Watch]_<<vars, quiet>> => [A]_vars
  BY <1>1
<1>. QED
  BY <1>2, QuietReadsCorrect, PTL DEF MCSpec, TimersInOrder
=============================================================================
