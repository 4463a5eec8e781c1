------------------------- MODULE VlanSafetyProofs --------------------------
(***************************************************************************)
(* Proofs about VlanHal, second part.  When every group is managed by one  *)
(* process only, no command fails and nobody else deletes a bridge         *)
(* (OwnedGroups), the lists and the bridges agree and a call changes the   *)
(* VLAN devices of its own group only.  Processes may die at any moment,   *)
(* malloc may fail, bridges may be brought up while they are being         *)
(* deleted, group names may be words of one another.                       *)
(*                                                                         *)
(* The argument: a step of process q leaves alone what the other processes *)
(* keep in their calls and lists, and every bridge and port of a group     *)
(* other than its own (Frame).  So the part of the invariant that speaks   *)
(* of p needs a look at p's own steps only.                                *)
(*                                                                         *)
(* What a call has done when it returns (DelGroupRemoves,                  *)
(* AddInterfaceBridges, NoStrayDevice) follows from what it knows at each  *)
(* step (Gone, Reach), which takes more than OwnedGroups, as the theorems  *)
(* say. The last part shows every step to be a step of VlanGroups or to    *)
(* change nothing there.                                                   *)
(***************************************************************************)
EXTENDS VlanTypeProofs

(* Calls, lists and snapshots are private. *)
LEMMA Private ==
  ASSUME TypeOK, NEW q \in Proc, Step(q) \/ UserCall(q) \/ Restart(q),
         NEW p \in Proc, p # q
  PROVE  /\ pc'[p] = pc[p] /\ arg'[p] = arg[p]
         /\ cfg'[p] = cfg[p] /\ todo'[p] = todo[p]
<1> USE DEF TypeOK, Goto, GotoWith, Return, AfterCall, ResolveTag, Begin
<1>1. CASE AgCheck(q) \/ AgAddbr(q) \/ AgInsert(q)
  BY <1>1 DEF AgCheck, AgAddbr, AgInsert
<1>2. CASE DgCheck(q) \/ DgList(q) \/ DgLoop(q)
  BY <1>2 DEF DgCheck, DgList, DgLoop
<1>3. CASE DgDown(q) \/ DgDelbr(q) \/ DgForget(q)
  BY <1>3 DEF DgDown, DgDelbr, DgForget
<1>4. CASE AiGroup(q) \/ AiPort(q) \/ AiVconfig(q) \/ AiAddif(q)
  BY <1>4 DEF AiGroup, AiPort, AiVconfig, AiAddif
<1>5. CASE DiGroup(q) \/ DiPort(q) \/ DiVconfig(q) \/ DiDelif(q)
  BY <1>5 DEF DiGroup, DiPort, DiVconfig, DiDelif
<1>6. CASE UserCall(q)
  BY <1>6 DEF UserCall, BadCall, AddGroup, DelGroup, AddInterface, DelInterface
<1>7. CASE Restart(q)
  BY <1>7 DEF Restart
<1>. QED BY <1>1, <1>2, <1>3, <1>4, <1>5, <1>6, <1>7 DEF Step

(* What a step of q does to the kernel. *)
LEMMA Frame ==
  ASSUME OwnedGroups, TypeOK, CallOK, PortInv, NEW q \in Proc, Step(q)
  PROVE  /\ \A h \in Group : h # arg[q].group =>
              ports'[h] = ports[h] /\ (h \in bridges <=> h \in bridges')
         /\ bridges \ bridges' # {} => pc[q] = "dg_delbr"
         /\ PortsOK'
<1> USE DEF OwnedGroups, OrFails
<1> DEFINE g == arg[q].group
<1>0. /\ g \in Group
      /\ ports \in [Group -> SUBSET Port]
      /\ bridges \subseteq Group
      /\ PortsOK /\ Sweep(q)
  BY CallTypes DEF TypeOK, PortInv, Step, AgCheck, AgAddbr, AgInsert, DgCheck, DgList, DgLoop, DgDown, DgDelbr, DgForget, AiGroup, AiPort, AiVconfig, AiAddif, DiGroup, DiPort, DiVconfig, DiDelif
<1>1. CASE UNCHANGED <<bridges, ports, devs>>
  BY <1>0, <1>1 DEF PortsOK, Tagged
<1>2. CASE AgAddbr(q)
  BY <1>0, <1>2 DEF AgAddbr, BrctlAddbr, PortsOK, Tagged
<1>3. CASE DgDelbr(q)
  BY <1>0, <1>3 DEF DgDelbr, BrctlDelbr, PortsOK, Tagged, kernel
<1>4. CASE AiVconfig(q)
  BY <1>0, <1>4 DEF AiVconfig, VconfigAdd, PortsOK, Tagged
<1>5. CASE AiAddif(q)
  BY <1>0, <1>5 DEF AiAddif, BrctlAddif, PortsOK, Tagged, kernel, InAnyBridge
<1>6. CASE DiVconfig(q)
  <2> DEFINE d == Target(q)
  <2>1. d \in ports[g] /\ \A h \in Group : h # g => d \notin ports[h]
    BY <1>0, <1>6 DEF DiVconfig, Sweep, PortsOK
  <2>2. /\ devs' = devs \ {d} /\ bridges' = bridges
        /\ ports' = IF d \in devs THEN [h \in Group |-> ports[h] \ {d}] ELSE ports
    BY <1>6 DEF DiVconfig, VconfigRem, kernel
  <2> HIDE DEF d
  <2>3. \A h \in Group : h # g => ports'[h] = ports[h]
    BY <1>0, <2>1, <2>2
  <2>4. /\ \A h \in Group : ports'[h] \subseteq ports[h]
        /\ \A h \in Group : Tagged(h)' \subseteq devs'
    BY <1>0, <2>2 DEF PortsOK, Tagged
  <2>5. PortsOK'
    BY <1>0, <2>2, <2>4 DEF PortsOK, Tagged
  <2>. QED BY <2>2, <2>3, <2>5
<1>7. CASE DiDelif(q)
  BY <1>0, <1>7 DEF DiDelif, BrctlDelif, PortsOK, Tagged
<1>. QED BY <1>1, <1>2, <1>3, <1>4, <1>5, <1>6, <1>7
         DEF Step, AgCheck, AgInsert, DgCheck, DgList, DgLoop, DgDown, DgForget,
             AiGroup, AiPort, DiGroup, DiPort, LinkDown

LEMMA OwnGroup ==
  ASSUME OwnedGroups, TypeOK, CallOK,
         NEW q \in Proc, pc[q] # "idle", NEW p \in Proc, p # q
  PROVE  arg[q].group \in Group /\ arg[q].group \notin Manages[p]
BY CallTypes, ManagesAssumption DEF OwnedGroups

LEMMA Busy == ASSUME NEW q \in Proc, Step(q) PROVE pc[q] # "idle"
BY DEF Step, AgCheck, AgAddbr, AgInsert, DgCheck, DgList, DgLoop, DgDown, DgDelbr,
       DgForget, AiGroup, AiPort, AiVconfig, AiAddif, DiGroup, DiPort, DiVconfig,
       DiDelif

(* No step of a call stays where it is. *)
LEMMA Moves ==
  ASSUME TypeOK, NEW q \in Proc, Step(q)
  PROVE  pc'[q] # pc[q]
<1> USE DEF TypeOK, Goto, GotoWith, Return, AfterCall, ResolveTag
<1>1. CASE AgCheck(q) \/ AgAddbr(q) \/ AgInsert(q)
  BY <1>1 DEF AgCheck, AgAddbr, AgInsert
<1>2. CASE DgCheck(q) \/ DgList(q) \/ DgLoop(q)
  BY <1>2 DEF DgCheck, DgList, DgLoop
<1>3. CASE DgDown(q) \/ DgDelbr(q) \/ DgForget(q)
  BY <1>3 DEF DgDown, DgDelbr, DgForget
<1>4. CASE AiGroup(q) \/ AiPort(q) \/ AiVconfig(q) \/ AiAddif(q)
  BY <1>4 DEF AiGroup, AiPort, AiVconfig, AiAddif
<1>5. CASE DiGroup(q) \/ DiPort(q) \/ DiVconfig(q) \/ DiDelif(q)
  BY <1>5 DEF DiGroup, DiPort, DiVconfig, DiDelif
<1>. QED BY <1>1, <1>2, <1>3, <1>4, <1>5 DEF Step

-----------------------------------------------------------------------------
(* Lists.                                                                  *)

LEMMA DeleteKeeps ==
  ASSUME NEW list \in Seq(Entry), OneEach(list), NEW g
  PROVE  /\ OneEach(DeleteEntry(list, g))
         /\ ~HasEntry(DeleteEntry(list, g), g)
         /\ \A k \in DOMAIN DeleteEntry(list, g) :
              \E j \in DOMAIN list : DeleteEntry(list, g)[k] = list[j]
         /\ \A j \in DOMAIN list : list[j].group # g =>
              \E k \in DOMAIN DeleteEntry(list, g) : DeleteEntry(list, g)[k] = list[j]
<1>1. CASE ~HasEntry(list, g)
  BY <1>1, NoneOfGroup
<1>2. CASE HasEntry(list, g)
  <2>1. PICK i \in 1 .. Len(list) : /\ list[i].group = g
                                    /\ DeleteEntry(list, g) = RemoveAt(list, i)
    BY <1>2, FirstOfGroup
  <2> DEFINE new == RemoveAt(list, i)
             old(k) == IF k < i THEN k ELSE k + 1
  <2>2. DOMAIN list = 1 .. Len(list) /\ Len(list) \in Nat
    BY LenProperties
  <2>3. /\ DOMAIN new = 1 .. Len(list) - 1
        /\ \A k \in 1 .. Len(list) - 1 : new[k] = list[old(k)]
    BY RemoveAtElements, LenProperties
  <2>4. \A k \in 1 .. Len(list) - 1 : old(k) \in DOMAIN list /\ old(k) # i
    BY <2>2
  <2>5. \A j, k \in 1 .. Len(list) - 1 : old(j) = old(k) => j = k
    BY <2>2
  <2>6. \A k \in 1 .. Len(list) - 1 : list[old(k)].group # g
    BY <2>1, <2>2, <2>4 DEF OneEach
  <2>10. ASSUME NEW j \in DOMAIN list, list[j].group # g
         PROVE  \E k \in DOMAIN new : new[k] = list[j]
    <3>1. CASE j < i
      BY <2>1, <2>2, <2>3, <2>10, <3>1
    <3>2. CASE ~(j < i)
      <4>1. j - 1 \in 1 .. Len(list) - 1 /\ old(j - 1) = j
        BY <2>1, <2>2, <2>10, <3>2
      <4>. QED BY <2>3, <4>1
    <3>. QED BY <3>1, <3>2
  <2> HIDE DEF new, old
  <2>7. OneEach(new)
    BY <2>3, <2>4, <2>5 DEF OneEach
  <2>8. ~HasEntry(new, g)
    BY <2>3, <2>6 DEF HasEntry
  <2>9. DeleteEntry(list, g) = new
    BY <2>1 DEF new
  <2>. QED BY <2>3, <2>4, <2>7, <2>8, <2>9, <2>10
<1>. QED BY <1>1, <1>2

(* Where every group has one entry, it is the one the walk finds. *)
LEMMA OnlyEntry ==
  ASSUME NEW list \in Seq(Entry), OneEach(list), NEW k \in DOMAIN list
  PROVE  DefaultOf(list, list[k].group) = list[k].vid
<1> DEFINE g == list[k].group
<1>1. HasEntry(list, g)
  BY DEF HasEntry
<1> HIDE DEF g
<1>2. PICK i \in 1 .. Len(list) : list[i].group = g /\ DefaultOf(list, g) = list[i].vid
  BY <1>1, FirstOfGroup
<1>3. i \in DOMAIN list
  BY LenProperties
<1>4. i = k
  BY <1>2, <1>3 DEF OneEach, g
<1>. QED BY <1>2, <1>4 DEF g

(* Deleting a group's entry leaves the defaults of the others. *)
LEMMA DeleteDefaults ==
  ASSUME NEW list \in Seq(Entry), OneEach(list), NEW g, NEW h, h # g
  PROVE  /\ HasEntry(DeleteEntry(list, g), h) <=> HasEntry(list, h)
         /\ HasEntry(list, h) =>
              DefaultOf(DeleteEntry(list, g), h) = DefaultOf(list, h)
<1> DEFINE new == DeleteEntry(list, g)
<1>0. new \in Seq(Entry) /\ OneEach(new)
  BY DeleteOK, DeleteKeeps
<1>1. \A k \in DOMAIN new : \E j \in DOMAIN list : new[k] = list[j]
  BY DeleteKeeps
<1>2. \A j \in DOMAIN list : list[j].group # g => \E k \in DOMAIN new : new[k] = list[j]
  BY DeleteKeeps
<1> HIDE DEF new
<1>3. HasEntry(new, h) <=> HasEntry(list, h)
  BY <1>1, <1>2 DEF HasEntry
<1>4. ASSUME HasEntry(list, h) PROVE DefaultOf(new, h) = DefaultOf(list, h)
  <2>1. PICK j \in DOMAIN list : list[j].group = h
    BY <1>4 DEF HasEntry
  <2>2. PICK k \in DOMAIN new : new[k] = list[j]
    BY <1>2, <2>1
  <2>. QED BY <1>0, <2>1, <2>2, OnlyEntry
<1>. QED BY <1>3, <1>4 DEF new

(* An entry for a new group leaves the defaults of the others. *)
LEMMA InsertDefaults ==
  ASSUME NEW list \in Seq(Entry), OneEach(list),
         NEW g \in Group, NEW v \in Vid, ~HasEntry(list, g)
  PROVE  /\ InsertEntry(list, g, v) \in Seq(Entry)
         /\ OneEach(InsertEntry(list, g, v))
         /\ HasEntry(InsertEntry(list, g, v), g)
         /\ DefaultOf(InsertEntry(list, g, v), g) = v
         /\ \A h : h # g =>
              /\ HasEntry(InsertEntry(list, g, v), h) <=> HasEntry(list, h)
              /\ HasEntry(list, h) =>
                   DefaultOf(InsertEntry(list, g, v), h) = DefaultOf(list, h)
<1> DEFINE e == [group |-> g, vid |-> v]
           new == InsertEntry(list, g, v)
           n == Len(list)
<1>1. e \in Entry /\ e.group = g /\ e.vid = v
  BY DEF Entry
<1> HIDE DEF e
<1>2. /\ DOMAIN list = 1 .. n /\ n \in Nat
      /\ new \in Seq(Entry) /\ DOMAIN new = 1 .. n + 1
      /\ \A k \in 1 .. n : new[k] = list[k]
      /\ new[n + 1] = e
  BY <1>1, AppendProperties, LenProperties DEF InsertEntry, e
<1> HIDE DEF new, n
<1>3. OneEach(new)
  BY <1>1, <1>2 DEF OneEach, HasEntry
<1>4. n + 1 \in DOMAIN new
  BY <1>2
<1>5. HasEntry(new, g) /\ DefaultOf(new, g) = v
  BY <1>1, <1>2, <1>3, <1>4, OnlyEntry DEF HasEntry
<1>6. ASSUME NEW h, h # g
      PROVE  /\ HasEntry(new, h) <=> HasEntry(list, h)
             /\ HasEntry(list, h) => DefaultOf(new, h) = DefaultOf(list, h)
  <2>1. \A k \in DOMAIN new : new[k].group = h => k \in DOMAIN list
    BY <1>1, <1>2, <1>6
  <2>2. \A k \in DOMAIN list : k \in DOMAIN new /\ new[k] = list[k]
    BY <1>2
  <2>3. HasEntry(new, h) <=> HasEntry(list, h)
    BY <2>1, <2>2 DEF HasEntry
  <2>4. ASSUME HasEntry(list, h) PROVE DefaultOf(new, h) = DefaultOf(list, h)
    <3>1. PICK k \in DOMAIN list : list[k].group = h
      BY <2>4 DEF HasEntry
    <3>. QED BY <1>2, <1>3, <2>2, <3>1, OnlyEntry
  <2>. QED BY <2>3, <2>4
<1>. QED BY <1>2, <1>3, <1>5, <1>6 DEF new

LEMMA ListOther ==
  ASSUME OwnedGroups, TypeOK, CallOK, ListInv, PortInv,
         NEW q \in Proc, Step(q), NEW p \in Proc, p # q
  PROVE  ListOf(p)'
<1>1. pc'[p] = pc[p] /\ arg'[p] = arg[p] /\ cfg'[p] = cfg[p]
  BY Private
<1>2. \A h \in Manages[p] : h \in bridges => h \in bridges'
  <2>1. arg[q].group \notin Manages[p] /\ Manages[p] \subseteq Group
    BY Busy, OwnGroup, ManagesAssumption
  <2>. QED BY <2>1, Frame
<1>3. pc[p] # "idle" => arg[p].group \in Manages[p]
  BY CallTypes
<1>4. ListOf(p)
  BY DEF ListInv
<1>. QED BY <1>1, <1>2, <1>3, <1>4 DEF ListOf

LEMMA ListOwn ==
  ASSUME OwnedGroups, TypeOK, CallOK, ListInv, PortInv,
         NEW q \in Proc, Step(q)
  PROVE  ListOf(q)'
<1> DEFINE g == arg[q].group
<1>0. /\ ListOf(q) /\ g \in Manages[q] /\ g \in Group
      /\ cfg[q] \in Seq(Entry) /\ DOMAIN cfg = Proc
      /\ DOMAIN pc = Proc /\ DOMAIN arg = Proc
  BY CallTypes, Busy DEF ListInv, TypeOK
<1> USE <1>0
<1> USE DEF Goto, GotoWith, Return, AfterCall, ResolveTag, OwnedGroups, OrFails, Missed
<1>1. CASE AgCheck(q)
  <2>1. g \in bridges => Available(g)
    BY DEF Available
  <2>. QED BY <1>1, <2>1 DEF AgCheck, ListOf, HasEntry
<1>2. CASE AgAddbr(q)
  BY <1>2 DEF AgAddbr, BrctlAddbr, ListOf
<1>3. CASE AgInsert(q)
  <2> DEFINE e == [group |-> g, vid |-> arg[q].tag]
             new == Append(cfg[q], e)
  <2>1. e \in Entry
    BY <1>3, CallTypes DEF AgInsert, Entry
  <2>2. /\ DOMAIN cfg[q] = 1 .. Len(cfg[q]) /\ Len(cfg[q]) \in Nat
        /\ DOMAIN new = 1 .. Len(cfg[q]) + 1
        /\ \A k \in 1 .. Len(cfg[q]) : new[k] = cfg[q][k]
        /\ new[Len(cfg[q]) + 1] = e
    BY <2>1, AppendProperties, LenProperties
  <2>3. e.group = g
    OBVIOUS
  <2> HIDE DEF e, new
  <2>4. OneEach(cfg[q]) /\ ~HasEntry(cfg[q], g) /\ g \in bridges
    BY <1>3 DEF AgInsert, ListOf
  <2>5. OneEach(new)
    BY <2>2, <2>3, <2>4 DEF OneEach, HasEntry
  <2>6. \A k \in DOMAIN new : new[k].group \in Manages[q] /\ new[k].group \in bridges
    BY <1>3, <2>2, <2>3, <2>4 DEF AgInsert, ListOf
  <2>7. cfg'[q] \in {new, cfg[q]} /\ pc'[q] = "idle" /\ bridges' = bridges
    BY <1>3 DEF AgInsert, InsertEntry, new, e
  <2>8. \A k \in DOMAIN cfg[q] : cfg[q][k].group \in Manages[q] /\ cfg[q][k].group \in bridges
    BY <1>3 DEF AgInsert, ListOf
  <2>. QED BY <2>4, <2>5, <2>6, <2>7, <2>8 DEF ListOf
<1>4. CASE DgCheck(q) \/ DgList(q) \/ DgLoop(q) \/ DgDown(q)
  BY <1>4 DEF DgCheck, DgList, DgLoop, DgDown, LinkDown, ListOf
<1>5. CASE DgDelbr(q)
  BY <1>5 DEF DgDelbr, BrctlDelbr, kernel, ListOf
<1>6. CASE DgForget(q)
  <2> DEFINE new == DeleteEntry(cfg[q], g)
  <2>1. OneEach(cfg[q])
    BY DEF ListOf
  <2>2. /\ OneEach(new) /\ ~HasEntry(new, g)
        /\ \A k \in DOMAIN new : \E j \in DOMAIN cfg[q] : new[k] = cfg[q][j]
    BY <2>1, DeleteKeeps
  <2> HIDE DEF new
  <2>3. \A k \in DOMAIN new : new[k].group \in Manages[q] /\ new[k].group \in bridges
    BY <1>6, <2>2 DEF DgForget, ListOf, HasEntry
  <2>4. cfg'[q] = new /\ pc'[q] = "idle" /\ bridges' = bridges
    BY <1>6 DEF DgForget, new
  <2>. QED BY <2>2, <2>3, <2>4 DEF ListOf
<1>7. CASE AiGroup(q) \/ AiPort(q) \/ AiVconfig(q) \/ AiAddif(q)
  BY <1>7 DEF AiGroup, AiPort, AiVconfig, AiAddif, VconfigAdd, BrctlAddif, kernel, ListOf
<1>8. CASE DiGroup(q) \/ DiPort(q) \/ DiVconfig(q) \/ DiDelif(q)
  BY <1>8 DEF DiGroup, DiPort, DiVconfig, DiDelif, VconfigRem, BrctlDelif, ListOf
<1>. QED BY <1>1, <1>2, <1>3, <1>4, <1>5, <1>6, <1>7, <1>8 DEF Step

-----------------------------------------------------------------------------
(* Ports.                                                                  *)

LEMMA SweepOther ==
  ASSUME OwnedGroups, TypeOK, CallOK, PortInv,
         NEW q \in Proc, Step(q), NEW p \in Proc, p # q
  PROVE  Sweep(p)'
<1>1. pc'[p] = pc[p] /\ arg'[p] = arg[p] /\ todo'[p] = todo[p]
  BY Private
<1>2. CASE pc[p] = "idle"
  BY <1>1, <1>2 DEF Sweep, DiLabel
<1>3. CASE pc[p] # "idle"
  <2>1. arg[p].group \in Group /\ arg[p].group # arg[q].group
    BY <1>3, Busy, OwnGroup, CallTypes
  <2>2. ports'[arg[p].group] = ports[arg[p].group]
    BY <2>1, Frame
  <2>. QED BY <1>1, <2>2 DEF Sweep, Tagged, Target, PortInv
<1>. QED BY <1>2, <1>3

LEMMA SweepOwn ==
  ASSUME OwnedGroups, TypeOK, CallOK, PortInv, NEW q \in Proc, Step(q)
  PROVE  Sweep(q)'
<1> DEFINE g == arg[q].group
<1>0. /\ Sweep(q) /\ PortsOK /\ g \in Group /\ Fits(pc[q], arg[q], Manages[q])
      /\ ports \in [Group -> SUBSET Port] /\ todo \in [Proc -> SUBSET Port]
      /\ DOMAIN pc = Proc /\ DOMAIN arg = Proc /\ arg[q] \in Call
  BY CallTypes, Busy DEF PortInv, TypeOK, CallOK
<1> USE <1>0
<1> USE DEF Goto, GotoWith, Return, AfterCall, GroupCall, ResolveTag, OwnedGroups,
            OrFails, DiLabel
<1>1. CASE AgCheck(q) \/ AgAddbr(q) \/ AgInsert(q)
  BY <1>1 DEF AgCheck, AgAddbr, AgInsert, Sweep
<1>2. CASE DgCheck(q) \/ DgList(q)
  BY <1>2 DEF DgCheck, DgList, Sweep, Tagged
<1>3. CASE DgLoop(q)
  <2>1. ASSUME NEW x \in todo[q],
               todo' = [todo EXCEPT ![q] = @ \ {x}],
               GotoWith(q, "di_group", [arg[q] EXCEPT !.ifc = x[1], !.tag = x[2]])
        PROVE  Sweep(q)'
    <3>1. x = <<x[1], x[2]>>
      BY DEF Port
    <3>2. Target(q)' = x /\ arg'[q].group = g /\ arg'[q].op = arg[q].op
      BY <2>1, <3>1 DEF Target, Call
    <3>. QED BY <1>3, <2>1, <3>2 DEF DgLoop, Sweep, Tagged
  <2>. QED BY <1>3, <2>1 DEF DgLoop, Sweep, Tagged
<1>4. CASE DgDown(q) \/ DgDelbr(q) \/ DgForget(q)
  BY <1>4 DEF DgDown, DgDelbr, DgForget, LinkDown, BrctlDelbr, kernel, Sweep, Tagged
<1>5. CASE AiGroup(q) \/ AiPort(q) \/ AiVconfig(q) \/ AiAddif(q)
  BY <1>5 DEF AiGroup, AiPort, AiVconfig, AiAddif, Sweep, Fits, AiLabel
<1>6. CASE DiGroup(q)
  <2>1. g \notin bridges => Tagged(g) = {}
    BY DEF PortsOK, Tagged
  <2>2. g \in bridges => Available(g)
    BY DEF Available
  <2>3. arg[q].op = "delGroup" => arg[q].tag # NULL
    BY <1>6 DEF DiGroup, Fits
  <2>4. CASE Available(g) /\ arg[q].tag # NULL /\ Goto(q, "di_port")
    BY <1>6, <2>4 DEF DiGroup, Sweep, Tagged, Target
  <2>5. ASSUME NEW v, arg[q].tag = NULL, GotoWith(q, "di_port", [arg[q] EXCEPT !.tag = v])
        PROVE  Sweep(q)'
    <3>1. pc'[q] = "di_port" /\ arg'[q].op = arg[q].op
      BY <2>5 DEF Call
    <3>. QED BY <2>3, <2>5, <3>1 DEF Sweep
  <2>6. CASE /\ ~Available(g) \/ (arg[q].tag = NULL /\ ~HasEntry(cfg[q], g))
             /\ AfterCall(q, "ERR")
    <3>1. CASE arg[q].op = "delGroup"
      BY <1>6, <2>1, <2>2, <2>3, <2>6, <3>1 DEF DiGroup, Sweep, Tagged
    <3>2. CASE arg[q].op # "delGroup"
      BY <2>6, <3>2 DEF Sweep
    <3>. QED BY <3>1, <3>2
  <2>. QED BY <1>6, <2>4, <2>5, <2>6 DEF DiGroup, Missed
<1>7. CASE DiPort(q)
  BY <1>7 DEF DiPort, InBridge, Missed, Sweep, Tagged, Target
<1>8. CASE DiVconfig(q)
  BY <1>8 DEF DiVconfig, VconfigRem, Sweep, Tagged, Target, PortsOK
<1>9. CASE DiDelif(q)
  BY <1>9 DEF DiDelif, BrctlDelif, Sweep, Tagged, Target
<1>. QED BY <1>1, <1>2, <1>3, <1>4, <1>5, <1>6, <1>7, <1>8, <1>9 DEF Step

-----------------------------------------------------------------------------
(* The invariant and what follows from it.                                 *)

LEMMA InvStep ==
  ASSUME OwnedGroups, TypeOK, CallOK, ListInv, PortInv, NEW q \in Proc, Step(q)
  PROVE  ListInv' /\ PortInv'
BY ListOwn, ListOther, SweepOwn, SweepOther, Frame DEF ListInv, PortInv

LEMMA InvUserCall ==
  ASSUME TypeOK, CallOK, ListInv, PortInv, NEW q \in Proc, UserCall(q)
  PROVE  ListInv' /\ PortInv'
<1>1. /\ cfg' = cfg /\ bridges' = bridges /\ ports' = ports /\ devs' = devs
      /\ todo' = todo
  BY DEF UserCall, BadCall, AddGroup, DelGroup, AddInterface, DelInterface, Begin
<1>2. pc[q] = "idle"
  BY DEF UserCall, BadCall, AddGroup, DelGroup, AddInterface, DelInterface, Begin
<1>3. pc'[q] \in {"idle", "ag_check", "dg_check", "ai_group", "di_group"}
  BY DEF TypeOK, UserCall, BadCall, AddGroup, DelGroup, AddInterface, DelInterface,
         Begin
<1>4. pc'[q] = "di_group" => arg'[q].op = "delInterface"
  BY <1>2 DEF TypeOK, UserCall, BadCall, AddGroup, DelGroup, AddInterface,
              DelInterface, Begin
<1>5. ASSUME NEW p \in Proc PROVE ListOf(p)' /\ Sweep(p)'
  <2>1. CASE p = q
    BY <1>1, <1>2, <1>3, <1>4, <2>1 DEF ListInv, ListOf, Sweep, DiLabel
  <2>2. CASE p # q
    BY <1>1, <2>2, Private DEF ListInv, PortInv, ListOf, Sweep, Tagged, Target
  <2>. QED BY <2>1, <2>2
<1>. QED BY <1>1, <1>5 DEF ListInv, PortInv, PortsOK, Tagged

LEMMA InvEnvironment ==
  ASSUME OwnedGroups, TypeOK, CallOK, ListInv, PortInv, Environment
  PROVE  ListInv' /\ PortInv'
<1>1. ASSUME NEW q \in Proc, Restart(q)
      PROVE  ListInv' /\ PortInv'
  <2>1. /\ bridges' = bridges /\ ports' = ports /\ devs' = devs
        /\ cfg'[q] = <<>> /\ pc'[q] = "idle"
    BY <1>1 DEF Restart, kernel, TypeOK
  <2>2. ASSUME NEW p \in Proc PROVE ListOf(p)' /\ Sweep(p)'
    <3>1. CASE p = q
      BY <2>1, <3>1 DEF ListOf, Sweep, DiLabel, OneEach
    <3>2. CASE p # q
      BY <1>1, <2>1, <3>2, Private DEF ListInv, PortInv, ListOf, Sweep, Tagged, Target
    <3>. QED BY <3>1, <3>2
  <2>. QED BY <2>1, <2>2 DEF ListInv, PortInv, PortsOK, Tagged
<1>2. ASSUME NEW g \in Group, BringUp(g) \/ ExternalDelete(g)
      PROVE  ListInv' /\ PortInv'
  BY <1>2 DEF BringUp, ExternalDelete, OwnedGroups, ListInv, PortInv, PortsOK,
              ListOf, Sweep, Tagged, Target
<1>3. ASSUME NEW g \in Group, NEW i \in If, AddPlain(g, i)
      PROVE  ListInv' /\ PortInv'
  <2>1. /\ cfg' = cfg /\ bridges' = bridges /\ devs' = devs /\ pc' = pc
        /\ arg' = arg /\ todo' = todo
        /\ \A h \in Group : ports[h] \subseteq ports'[h]
        /\ \A h \in Group : Tagged(h)' = Tagged(h)
    BY <1>3 DEF AddPlain, TypeOK, Tagged
  <2>2. PortsOK'
    <3> DEFINE x == <<i, NoTag>>
    <3>1. \A h \in Group : ports'[h] = IF h = g THEN ports[h] \cup {x} ELSE ports[h]
      BY <1>3 DEF AddPlain, TypeOK
    <3>2. g \in bridges /\ \A h \in Group : x \notin ports[h]
      BY <1>3 DEF AddPlain, PortInv, PortsOK, InAnyBridge
    <3> HIDE DEF x
    <3>3. \A h \in Group : ports'[h] # {} => h \in bridges'
      BY <2>1, <3>1, <3>2 DEF PortInv, PortsOK
    <3>4. \A h \in Group : Tagged(h)' \subseteq devs'
      BY <2>1 DEF PortInv, PortsOK
    <3>5. \A h, k \in Group : h # k => ports'[h] \cap ports'[k] = {}
      BY <3>1, <3>2, ZenonT(40) DEF PortInv, PortsOK
    <3>. QED BY <3>3, <3>4, <3>5 DEF PortsOK
  <2>3. ASSUME NEW p \in Proc PROVE Sweep(p)'
    <3>1. pc[p] # "idle" => arg[p].group \in Group
      BY CallTypes
    <3>2. Target(p)' = Target(p)
      BY <2>1 DEF Target
    <3>. QED BY <2>1, <3>1, <3>2 DEF PortInv, Sweep, DiLabel
  <2>. QED BY <2>1, <2>2, <2>3 DEF ListInv, ListOf, PortInv
<1>. QED BY <1>1, <1>2, <1>3 DEF Environment

(* A process that is not q sees its own bridge as it was after q's step.    *)
LEMMA OwnBridgeKept ==
  ASSUME OwnedGroups, TypeOK, CallOK, PortInv, NEW q \in Proc, Step(q),
         NEW p \in Proc, p # q, pc[p] # "idle"
  PROVE  /\ arg[p].group \in Group
         /\ arg[p].group \in bridges <=> arg[p].group \in bridges'
<1>1. arg[p].group \in Group /\ arg[p].group # arg[q].group
  BY Busy, OwnGroup, CallTypes
<1>. QED BY <1>1, Frame

(* No step of a call brings a bridge up. *)
LEMMA UpShrinks ==
  ASSUME NEW q \in Proc, Step(q) PROVE up' \subseteq up
BY DEF Step, AgCheck, AgAddbr, AgInsert, DgCheck, DgList, DgLoop, DgDown, DgDelbr,
       DgForget, AiGroup, AiPort, AiVconfig, AiAddif, DiGroup, DiPort, DiVconfig,
       DiDelif, OrFails, kernel, BrctlAddbr, BrctlDelbr, LinkDown, VconfigAdd,
       VconfigRem, BrctlAddif, BrctlDelif

LEMMA GoneStep ==
  ASSUME OwnedGroups, TypeOK, CallOK, PortInv, GoneInv, NEW q \in Proc, Step(q)
  PROVE  GoneInv'
<1>1. Gone(q)'
  <2> USE DEF TypeOK, Goto, GotoWith, Return, AfterCall, ResolveTag, Gone
  <2>1. CASE AgCheck(q) \/ AgAddbr(q) \/ AgInsert(q)
    BY <2>1 DEF AgCheck, AgAddbr, AgInsert
  <2>2. CASE DgCheck(q) \/ DgList(q) \/ DgLoop(q) \/ DgForget(q)
    BY <2>2 DEF DgCheck, DgList, DgLoop, DgForget
  <2>3. CASE DgDown(q)
    BY <2>3 DEF DgDown, LinkDown, OwnedGroups, OrFails
  <2>4. CASE DgDelbr(q)
    BY <2>4 DEF DgDelbr, BrctlDelbr, OwnedGroups, OrFails, kernel, GoneInv
  <2>5. CASE AiGroup(q) \/ AiPort(q) \/ AiVconfig(q) \/ AiAddif(q)
    BY <2>5 DEF AiGroup, AiPort, AiVconfig, AiAddif
  <2>6. CASE DiGroup(q) \/ DiPort(q) \/ DiVconfig(q) \/ DiDelif(q)
    BY <2>6 DEF DiGroup, DiPort, DiVconfig, DiDelif
  <2>. QED BY <2>1, <2>2, <2>3, <2>4, <2>5, <2>6 DEF Step
<1>2. ASSUME NEW p \in Proc, p # q PROVE Gone(p)'
  <2>1. pc'[p] = pc[p] /\ arg'[p] = arg[p]
    BY <1>2, Private
  <2>2. CASE pc[p] = "idle"
    BY <2>1, <2>2 DEF Gone
  <2>3. CASE pc[p] # "idle"
    BY <1>2, <2>1, <2>3, OwnBridgeKept, UpShrinks DEF Gone, GoneInv
  <2>. QED BY <2>2, <2>3
<1>. QED BY <1>1, <1>2 DEF GoneInv

(* For another process than q, or with no process but q, a look at the      *)
(* bridges is as good after q's step as before it.                          *)
LEMMA ReachStep ==
  ASSUME OwnedGroups, TypeOK, CallOK, PortInv, ReachInv, NEW q \in Proc, Step(q)
  PROVE  ReachInv'
<1>1. Reach(q)'
  <2> USE DEF TypeOK, Goto, GotoWith, Return, AfterCall, ResolveTag, Reach, AiLabel
  <2>1. CASE AgCheck(q) \/ AgAddbr(q) \/ AgInsert(q)
    BY <2>1 DEF AgCheck, AgAddbr, AgInsert
  <2>2. CASE DgCheck(q) \/ DgList(q) \/ DgLoop(q)
    BY <2>2 DEF DgCheck, DgList, DgLoop
  <2>3. CASE DgDown(q) \/ DgDelbr(q) \/ DgForget(q)
    BY <2>3 DEF DgDown, DgDelbr, DgForget
  <2>4. CASE AiGroup(q)
    <3>1. pc'[q] # "ai_addif" /\ bridges' = bridges
      BY <2>4 DEF AiGroup
    <3>2. pc'[q] \in AiLabel \ {"ai_group"} =>
            Available(arg[q].group) /\ arg'[q].group = arg[q].group
      BY <2>4 DEF AiGroup, Call
    <3>. QED BY <3>1, <3>2 DEF Available
  <2>5. CASE AiPort(q)
    BY <2>5 DEF AiPort, Available, ReachInv
  <2>6. CASE AiVconfig(q)
    BY <2>6 DEF AiVconfig, Available, ReachInv, VconfigAdd, OwnedGroups, OrFails, Target
  <2>7. CASE AiAddif(q)
    BY <2>7 DEF AiAddif
  <2>8. CASE DiGroup(q) \/ DiPort(q) \/ DiVconfig(q) \/ DiDelif(q)
    BY <2>8 DEF DiGroup, DiPort, DiVconfig, DiDelif
  <2>. QED BY <2>1, <2>2, <2>3, <2>4, <2>5, <2>6, <2>7, <2>8 DEF Step
<1>2. ASSUME NEW p \in Proc, p # q PROVE Reach(p)'
  <2>1. pc'[p] = pc[p] /\ arg'[p] = arg[p] /\ ~OneProcess
    BY <1>2, Private DEF OneProcess
  <2>2. ASSUME Alias = {}, pc[p] \in AiLabel \ {"ai_group"}
        PROVE  arg[p].group \in bridges /\ arg[p].group \in bridges'
    <3>1. arg[p].group \in bridges
      BY <2>2 DEF ReachInv, Reach, Available
    <3>2. pc[p] # "idle"
      BY <2>2 DEF AiLabel
    <3>. QED BY <1>2, <3>1, <3>2, OwnBridgeKept
  <2>. QED BY <2>1, <2>2 DEF Reach, Available
<1>. QED BY <1>1, <1>2 DEF ReachInv

LEMMA GoneReachElse ==
  ASSUME OwnedGroups, TypeOK, CallOK, GoneInv, ReachInv,
         Environment \/ \E q \in Proc : UserCall(q)
  PROVE  GoneInv' /\ ReachInv'
<1>1. ASSUME NEW q \in Proc, UserCall(q) \/ Restart(q)
      PROVE  GoneInv' /\ ReachInv'
  <2>1. bridges' = bridges /\ up' = up /\ devs' = devs
    BY <1>1 DEF UserCall, BadCall, AddGroup, DelGroup, AddInterface, DelInterface,
                Begin, Restart, kernel
  <2>2. pc'[q] \in {"idle", "ag_check", "dg_check", "ai_group", "di_group"}
    BY <1>1 DEF TypeOK, UserCall, BadCall, AddGroup, DelGroup, AddInterface,
                DelInterface, Begin, Restart
  <2>3. ASSUME NEW p \in Proc, p # q
        PROVE  pc'[p] = pc[p] /\ arg'[p] = arg[p]
    BY <1>1, <2>3, Private
  <2>4. ASSUME NEW p \in Proc PROVE Gone(p)' /\ Reach(p)'
    <3>1. CASE p = q
      BY <2>2, <3>1 DEF Gone, Reach, AiLabel
    <3>2. CASE p # q
      BY <2>1, <2>3, <3>2 DEF GoneInv, ReachInv, Gone, Reach, Available, Target
    <3>. QED BY <3>1, <3>2
  <2>. QED BY <2>4 DEF GoneInv, ReachInv
<1>2. ASSUME NEW g \in Group, BringUp(g)
      PROVE  GoneInv' /\ ReachInv'
  <2>1. /\ bridges' = bridges /\ devs' = devs /\ pc' = pc /\ arg' = arg
        /\ up' = up \cup {g}
        /\ "upRace" \notin Hazard => ~Deleting(g)
    BY <1>2 DEF BringUp
  <2>2. GoneInv'
    BY <2>1 DEF GoneInv, Gone, Deleting
  <2>3. ReachInv'
    BY <2>1 DEF ReachInv, Reach, Available, Target
  <2>. QED BY <2>2, <2>3
<1>3. ASSUME NEW g \in Group, NEW i \in If, ExternalDelete(g) \/ AddPlain(g, i)
      PROVE  GoneInv' /\ ReachInv'
  <2>1. UNCHANGED <<bridges, up, devs, pc, arg>>
    BY <1>3 DEF ExternalDelete, AddPlain, OwnedGroups
  <2>. QED BY <2>1 DEF GoneInv, ReachInv, Gone, Reach, Available, Target
<1>4. ASSUME NEW g \in Group, ExternalDelete(g) PROVE FALSE
  BY <1>4 DEF ExternalDelete, OwnedGroups
<1>. QED BY <1>1, <1>2, <1>3, <1>4 DEF Environment

(* The inductive invariant holds. *)
THEOREM InvCorrect == ASSUME OwnedGroups PROVE Spec => []Inv
<1>1. Init => Inv
  BY InitOK DEF Init, Inv, ListInv, PortInv, ListOf, PortsOK, Sweep, OneEach, Tagged,
         DiLabel, GoneInv, Gone, ReachInv, Reach, AiLabel
<1>2. TypeOK /\ Inv /\ [Next]_vars /\ CallOK' => Inv'
  <2> SUFFICES ASSUME TypeOK, CallOK, ListInv, PortInv, GoneInv, ReachInv, [Next]_vars
               PROVE  ListInv' /\ PortInv' /\ GoneInv' /\ ReachInv'
    BY DEF Inv
  <2>1. CASE UNCHANGED vars
    BY <2>1 DEF vars, ListInv, PortInv, ListOf, PortsOK, Sweep, Tagged, Target,
                GoneInv, Gone, ReachInv, Reach, Available
  <2>2. ASSUME NEW q \in Proc, Step(q)
        PROVE  ListInv' /\ PortInv' /\ GoneInv' /\ ReachInv'
    BY <2>2, InvStep, GoneStep, ReachStep
  <2>3. CASE Environment \/ \E q \in Proc : UserCall(q)
    BY <2>3, InvUserCall, InvEnvironment, GoneReachElse
  <2>. QED BY <2>1, <2>2, <2>3 DEF Next
<1>. QED BY <1>1, <1>2, TypeCorrect, PTL DEF Spec

(* One entry for a group at most, whatever the number of processes, groups *)
(* and ids: addGroup's insert without a search (674-726) and delGroup's    *)
(* removal of one match (729-769) are enough, because addGroup returns     *)
(* early on a bridge that exists (89).                                     *)
THEOREM ListsAgree == ASSUME OwnedGroups PROVE Spec => []OneEntryPerGroup
<1>1. Inv => OneEntryPerGroup
  BY DEF Inv, ListInv, ListOf, OneEntryPerGroup
<1>. QED BY <1>1, InvCorrect, PTL

(* Every entry's bridge exists, except while delGroup is between the       *)
(* command that deletes it and the removal of the entry (173-176).         *)
THEOREM EntriesHaveBridges == ASSUME OwnedGroups PROVE Spec => []EntryHasBridge
<1>1. Inv => EntryHasBridge
  BY DEF Inv, ListInv, ListOf, EntryHasBridge
<1>. QED BY <1>1, InvCorrect, PTL

(* delGroup never deletes a bridge that still has a VLAN device as a port, *)
(* so none is left behind (148 before 173).                                *)
THEOREM DissolvesEmptyCorrect == ASSUME OwnedGroups PROVE Spec => DissolvesEmpty
<1>1. ASSUME TypeOK, CallOK, ListInv, PortInv, Next,
             NEW g \in bridges \ bridges'
      PROVE  Tagged(g) = {}
  <2>0. g \in Group
    BY <1>1 DEF TypeOK
  <2>1. PICK q \in Proc : Step(q)
    BY <1>1, ZenonT(60) DEF Next, UserCall, BadCall, AddGroup, DelGroup, AddInterface,
                DelInterface, Begin, Environment, Restart, kernel, BringUp,
                ExternalDelete, AddPlain, OwnedGroups
  <2>2. g = arg[q].group /\ pc[q] = "dg_delbr"
    BY <1>1, <2>0, <2>1, Frame
  <2>. QED BY <1>1, <2>2 DEF PortInv, Sweep
<1>2. TypeOK /\ Inv /\ [Next]_vars =>
        [\A g \in bridges \ bridges' : Tagged(g) = {}]_vars
  BY <1>1 DEF Inv
<1>. QED BY <1>2, TypeCorrect, InvCorrect, PTL DEF Spec, DissolvesEmpty

(* Only a call about group g changes the VLAN devices of g, though         *)
(* "vconfig rem" (349) would take a device out of any bridge.              *)
THEOREM TouchesOwnGroupsCorrect == ASSUME OwnedGroups PROVE Spec => TouchesOwnGroups
<1> DEFINE A == \A g \in Group : Tagged(g)' # Tagged(g) =>
                  \E p \in Proc : pc'[p] # pc[p] /\ arg[p].group = g
<1>1. ASSUME TypeOK, CallOK, ListInv, PortInv, Next, NEW g \in Group,
             Tagged(g)' # Tagged(g)
      PROVE  \E p \in Proc : pc'[p] # pc[p] /\ arg[p].group = g
  <2>0. \A h \in Group, i \in If : ~AddPlain(h, i)
    BY <1>1 DEF AddPlain, Tagged, TypeOK
  <2>1. PICK q \in Proc : Step(q)
    <3>1. ports' # ports
      BY <1>1 DEF Tagged
    <3>. QED
      BY <1>1, <2>0, <3>1 DEF Next, UserCall, BadCall, AddGroup, DelGroup, Begin,
         AddInterface, DelInterface, Environment, Restart, kernel, BringUp,
         ExternalDelete, OwnedGroups
  <2>2. arg[q].group = g
    BY <1>1, <2>1, Frame DEF Tagged
  <2>3. pc'[q] # pc[q]
    BY <1>1, <2>1, Moves
  <2>. QED BY <2>2, <2>3
<1>2. TypeOK /\ Inv /\ [Next]_vars => [A]_vars
  BY <1>1 DEF Inv
<1>. QED BY <1>2, TypeCorrect, InvCorrect, PTL DEF Spec, TouchesOwnGroups

(* When a delGroup returns, its bridge and its entry are gone, on either of *)
(* its ways out: the bridge was not there (118-124), or it has been deleted *)
(* and the entry with it (173-181).  Only a bridge that someone brings up   *)
(* while it is being deleted survives.                                      *)
THEOREM DelGroupRemovesCorrect ==
  ASSUME OwnedGroups, "upRace" \notin Hazard PROVE Spec => DelGroupRemoves
<1> DEFINE Removed(p) == /\ arg[p].group \notin bridges'
                         /\ ~HasEntry(cfg'[p], arg[p].group)
           A == \A p \in Proc : Returns(p, "delGroup", "OK") => Removed(p)
<1>1. ASSUME TypeOK, Inv, Next, NEW p \in Proc, Returns(p, "delGroup", "OK")
      PROVE  Removed(p)
  <2>0. /\ CallOK /\ Fits(pc[p], arg[p], Manages[p]) /\ Gone(p) /\ ListOf(p)
        /\ cfg \in [Proc -> Seq(Entry)] /\ arg[p] \in Call
        /\ pc[p] # "idle" /\ pc'[p] = "idle" /\ arg[p].op = "delGroup" /\ ret'[p] = "OK"
    BY <1>1 DEF Inv, CallOK, GoneInv, ListInv, Returns, TypeOK
  <2>1. Step(p)
    <3>1. ASSUME NEW q \in Proc, q # p, Step(q) \/ UserCall(q) \/ Restart(q)
          PROVE  FALSE
      BY <1>1, <2>0, <3>1, Private
    <3>2. ~UserCall(p)
      BY <2>0 DEF UserCall, BadCall, AddGroup, DelGroup, AddInterface, DelInterface,
                  Begin
    <3>3. ~Restart(p)
      BY <1>1, <2>0 DEF Restart, TypeOK
    <3>4. \A g \in Group, i \in If : ~(BringUp(g) \/ ExternalDelete(g) \/ AddPlain(g, i))
      BY <2>0 DEF BringUp, ExternalDelete, AddPlain
    <3>5. ASSUME NEW g \in Group, BringUp(g) \/ ExternalDelete(g) PROVE FALSE
      BY <2>0, <3>5 DEF BringUp, ExternalDelete
    <3>. QED BY <1>1, <3>1, <3>2, <3>3, <3>4, <3>5 DEF Next, Environment
  <2>2. pc[p] \in DgLabel \cup DiLabel
    BY <1>1, <2>0 DEF Fits, AgLabel, AiLabel, DgLabel, DiLabel, TypeOK, Label
  <2> USE <2>0, <2>1, <1>1
  <2>3. DgCheck(p) \/ DgForget(p)
    <3> USE DEF TypeOK, Goto, GotoWith, AfterCall, ResolveTag
    <3>1. ~DgList(p) /\ ~DgLoop(p) /\ ~DgDown(p) /\ ~DgDelbr(p)
      BY DEF DgList, DgLoop, DgDown, DgDelbr
    <3>2. ~DiGroup(p) /\ ~DiPort(p) /\ ~DiVconfig(p) /\ ~DiDelif(p)
      BY DEF DiGroup, DiPort, DiVconfig, DiDelif
    <3>. QED BY <2>2, <3>1, <3>2 DEF Step, DgLabel, DiLabel, AgCheck, AgAddbr, AgInsert,
                                     AiGroup, AiPort, AiVconfig, AiAddif
  <2>4. CASE DgCheck(p)
    <3>1. ~Available(arg[p].group) /\ cfg' = cfg /\ bridges' = bridges
          /\ pc[p] = "dg_check"
      BY <2>4 DEF DgCheck, Goto, TypeOK, Missed, OwnedGroups
    <3>2. arg[p].group \notin bridges
      BY <3>1 DEF Available
    <3>. QED BY <3>1, <3>2 DEF ListOf, HasEntry
  <2>5. CASE DgForget(p)
    <3>1. /\ cfg'[p] = DeleteEntry(cfg[p], arg[p].group)
          /\ bridges' = bridges /\ pc[p] = "dg_forget"
      BY <2>5 DEF DgForget
    <3>. QED BY <3>1, DeleteKeeps DEF ListOf, Gone
  <2>. QED BY <2>3, <2>4, <2>5
<1>2. TypeOK /\ Inv /\ [Next]_vars => [A]_vars
  BY <1>1
<1>. QED BY <1>2, TypeCorrect, InvCorrect, PTL DEF Spec, DelGroupRemoves

(* For one process, or for names of which none is a word of another, a look *)
(* at the bridges that addInterface has passed stays right; for one process *)
(* so does the "vconfig add".  Hence an addInterface that returns OK has    *)
(* bridged its device, unless it took another group's name for its own      *)
(* (499): nobody reads what "brctl addif" (268) reports.                    *)
THEOREM AddInterfaceBridgesCorrect ==
  ASSUME OwnedGroups, OneProcess PROVE Spec => AddInterfaceBridges
<1> DEFINE Bridged(p) ==
             \/ \E g \in Group : Target(p) \in ports'[g]
             \/ /\ arg[p].group \notin bridges
                /\ \E h \in bridges : <<arg[p].group, h>> \in Alias
           A == \A p \in Proc : Returns(p, "addInterface", "OK") => Bridged(p)
<1>1. ASSUME TypeOK, Inv, Next, NEW p \in Proc, Returns(p, "addInterface", "OK")
      PROVE  Bridged(p)
  <2>0. /\ CallOK /\ Fits(pc[p], arg[p], Manages[p]) /\ Reach(p)
        /\ pc[p] # "idle" /\ pc'[p] = "idle" /\ arg[p].op = "addInterface"
        /\ ret'[p] = "OK" /\ pc[p] \in Label /\ bridges \subseteq Group
    BY <1>1 DEF Inv, CallOK, ReachInv, Returns, TypeOK
  <2>1. Step(p)
    <3>1. \A q \in Proc : q = p
      BY DEF OneProcess
    <3>2. ~UserCall(p)
      BY <2>0 DEF UserCall, BadCall, AddGroup, DelGroup, AddInterface, DelInterface,
                  Begin
    <3>3. ~Restart(p)
      BY <1>1, <2>0 DEF Restart, TypeOK
    <3>4. ASSUME NEW g \in Group, BringUp(g) \/ ExternalDelete(g) PROVE FALSE
      BY <2>0, <3>4 DEF BringUp, ExternalDelete
    <3>5. ASSUME NEW g \in Group, NEW i \in If, AddPlain(g, i) PROVE FALSE
      BY <2>0, <3>5 DEF AddPlain
    <3>. QED BY <1>1, <3>1, <3>2, <3>3, <3>4, <3>5 DEF Next, Environment
  <2>2. pc[p] \in AiLabel
    BY <2>0 DEF Fits, AgLabel, AiLabel, DgLabel, DiLabel, Label
  <2>3. AiPort(p) \/ AiAddif(p)
    <3>1. ~AiGroup(p) /\ ~AiVconfig(p)
      BY <1>1, <2>0 DEF AiGroup, AiVconfig, ResolveTag, Goto, GotoWith, AfterCall,
                        Return, TypeOK
    <3>. QED BY <2>1, <2>2, <3>1 DEF Step, AiLabel, AgCheck, AgAddbr, AgInsert, DgCheck,
         DgList, DgLoop, DgDown, DgDelbr, DgForget, DiGroup, DiPort, DiVconfig, DiDelif
  <2>4. CASE AiPort(p)
    BY <1>1, <2>0, <2>4 DEF AiPort, Goto, TypeOK, InAnyBridge
  <2>5. CASE AiAddif(p)
    <3> DEFINE g == arg[p].group
               d == Target(p)
    <3>0. g \in Group
      BY <1>1, <2>0, CallTypes
    <3>1. d \in devs /\ Available(g)
      BY <2>0, <2>5 DEF AiAddif, Reach, AiLabel
    <3>2. BrctlAddif(g, d)
      BY <2>5 DEF AiAddif, OrFails, OwnedGroups
    <3>3. CASE g \notin bridges
      BY <3>1, <3>3 DEF Available
    <3>4. CASE InAnyBridge(d)
      BY <2>0, <3>2, <3>4 DEF BrctlAddif, InAnyBridge, kernel
    <3>5. CASE g \in bridges /\ ~InAnyBridge(d)
      <4>1. ports' = [ports EXCEPT ![g] = @ \cup {d}]
        BY <3>1, <3>2, <3>5 DEF BrctlAddif
      <4>. QED BY <1>1, <3>0, <4>1 DEF TypeOK
    <3>. QED BY <3>3, <3>4, <3>5
  <2>. QED BY <2>3, <2>4, <2>5
<1>2. TypeOK /\ Inv /\ [Next]_vars => [A]_vars
  BY <1>1
<1>. QED BY <1>2, TypeCorrect, InvCorrect, PTL DEF Spec, AddInterfaceBridges

(* What a step of a call may do to a tagged device: a new one is about to   *)
(* be bridged by the call that made it, and one that leaves its bridge is   *)
(* deleted.                                                                 *)
LEMMA DeviceStep ==
  ASSUME OwnedGroups, TypeOK, CallOK, PortInv, NEW q \in Proc, Step(q),
         NEW d \in Device
  PROVE  /\ d \in devs' \ devs => pc'[q] = "ai_addif" /\ Target(q)' = d
         /\ \A g \in Group : d \in ports[g] \ ports'[g] => d \notin devs'
<1>0. /\ ports \in [Group -> SUBSET Port] /\ d[2] # NoTag
      /\ DOMAIN pc = Proc /\ PortsOK /\ Sweep(q)
  BY ValuesAssumption DEF TypeOK, Device, PortInv
<1> USE <1>0 DEF OrFails, OwnedGroups, kernel
<1>1. CASE AgCheck(q) \/ AgAddbr(q) \/ AgInsert(q)
  BY <1>1 DEF AgCheck, AgAddbr, AgInsert, BrctlAddbr
<1>2. CASE DgCheck(q) \/ DgList(q) \/ DgLoop(q) \/ DgDown(q) \/ DgForget(q)
  BY <1>2 DEF DgCheck, DgList, DgLoop, DgDown, DgForget, LinkDown
<1>3. CASE DgDelbr(q)
  BY <1>3 DEF DgDelbr, BrctlDelbr, Sweep, Tagged
<1>4. CASE AiGroup(q) \/ AiPort(q) \/ AiAddif(q)
  BY <1>4 DEF AiGroup, AiPort, AiAddif, BrctlAddif
<1>5. CASE AiVconfig(q)
  BY <1>5 DEF AiVconfig, VconfigAdd, Goto, Target
<1>6. CASE DiGroup(q) \/ DiPort(q)
  BY <1>6 DEF DiGroup, DiPort
<1>7. CASE DiVconfig(q)
  BY <1>7 DEF DiVconfig, VconfigRem
<1>8. CASE DiDelif(q)
  <2> DEFINE x == <<arg[q].ifc, NoTag>>
  <2>1. d # x
    OBVIOUS
  <2>2. devs' = devs /\ ports' = [ports EXCEPT ![arg[q].group] = @ \ {x}]
    BY <1>8 DEF DiDelif, BrctlDelif
  <2> HIDE DEF x
  <2>. QED BY <2>1, <2>2
<1>. QED BY <1>1, <1>2, <1>3, <1>4, <1>5, <1>6, <1>7, <1>8 DEF Step

(* Where no name is a word of another, the "brctl addif" that follows every *)
(* "vconfig add" (256-268) finds its bridge and bridges the device, unless  *)
(* another call has bridged it meanwhile; and a device that leaves a bridge *)
(* is deleted.  So only a process that dies between the two leaves one      *)
(* behind.                                                                  *)
THEOREM NoStrayDeviceCorrect ==
  ASSUME OwnedGroups, Alias = {} PROVE Spec => NoStrayDevice
<1> DEFINE Died(d) == \E p \in Proc : /\ pc[p] = "ai_addif" /\ Target(p) = d
                                      /\ pc'[p] = "idle" /\ ret'[p] = "none"
           A == \A d \in Device : Stray(d)' /\ ~Stray(d) => Died(d)
<1>1. ASSUME TypeOK, Inv, Next, NEW d \in Device, Stray(d)', ~Stray(d)
      PROVE  Died(d)
  <2>0. /\ CallOK /\ PortInv /\ ports \in [Group -> SUBSET Port]
        /\ bridges \subseteq Group
    BY <1>1 DEF Inv, TypeOK
  <2>1. /\ d \in devs' /\ \A g \in Group : d \notin ports'[g]
        /\ \A p \in Proc : ~(pc'[p] = "ai_addif" /\ Target(p)' = d)
    BY <1>1 DEF Stray
  <2>2. \/ d \notin devs
        \/ \E g \in Group : d \in ports[g]
        \/ d \in devs /\ \E p \in Proc : pc[p] = "ai_addif" /\ Target(p) = d
    BY <1>1 DEF Stray
  <2>3. ASSUME NEW q \in Proc, Step(q) PROVE Died(d)
    <3>1. d \in devs /\ \A g \in Group : d \notin ports[g]
      BY <1>1, <2>0, <2>1, <2>3, DeviceStep
    <3>2. PICK p \in Proc : pc[p] = "ai_addif" /\ Target(p) = d
      BY <2>2, <3>1
    <3>3. p = q
      BY <1>1, <2>1, <2>3, <3>2, Private DEF Target
    <3>4. AiAddif(q)
      BY <2>3, <3>2, <3>3 DEF Step, AgCheck, AgAddbr, AgInsert, DgCheck, DgList, DgLoop,
         DgDown, DgDelbr, DgForget, AiGroup, AiPort, AiVconfig, DiGroup, DiPort,
         DiVconfig, DiDelif
    <3>5. arg[q].group \in bridges
      BY <1>1, <3>2, <3>3 DEF Inv, ReachInv, Reach, AiLabel, Available
    <3>6. ports' = [ports EXCEPT ![arg[q].group] = @ \cup {d}]
      BY <2>0, <3>1, <3>2, <3>3, <3>4, <3>5 DEF AiAddif, OrFails, OwnedGroups,
         BrctlAddif, InAnyBridge
    <3>. QED BY <2>0, <2>1, <3>5, <3>6
  <2>4. ASSUME NEW q \in Proc, UserCall(q) PROVE Died(d)
    <3>1. devs' = devs /\ ports' = ports /\ pc[q] = "idle"
      BY <2>4 DEF UserCall, BadCall, AddGroup, DelGroup, AddInterface, DelInterface,
                  Begin
    <3>2. PICK p \in Proc : pc[p] = "ai_addif" /\ Target(p) = d
      BY <2>1, <2>2, <3>1
    <3>. QED BY <1>1, <2>1, <2>4, <3>1, <3>2, Private DEF Target
  <2>5. ASSUME NEW q \in Proc, Restart(q) PROVE Died(d)
    <3>1. devs' = devs /\ ports' = ports /\ pc'[q] = "idle" /\ ret'[q] = "none"
      BY <1>1, <2>5 DEF Restart, kernel, TypeOK
    <3>2. PICK p \in Proc : pc[p] = "ai_addif" /\ Target(p) = d
      BY <2>1, <2>2, <3>1
    <3>3. p = q
      BY <1>1, <2>1, <2>5, <3>2, Private DEF Target
    <3>. QED BY <3>1, <3>2, <3>3
  <2>6. ASSUME NEW g \in Group, NEW i \in If,
               BringUp(g) \/ ExternalDelete(g) \/ AddPlain(g, i)
        PROVE  Died(d)
    <3>1. /\ devs' = devs /\ pc' = pc /\ arg' = arg
          /\ \A h \in Group : ports[h] \subseteq ports'[h]
      BY <2>0, <2>6 DEF BringUp, ExternalDelete, AddPlain, OwnedGroups
    <3>. QED BY <2>1, <2>2, <3>1 DEF Target
  <2>7. ASSUME NEW g \in Group, BringUp(g) \/ ExternalDelete(g) PROVE Died(d)
    <3>1. UNCHANGED <<devs, pc, arg, ports>>
      BY <2>7 DEF BringUp, ExternalDelete, OwnedGroups
    <3>. QED BY <2>1, <2>2, <3>1 DEF Target
  <2>. QED BY <1>1, <2>3, <2>4, <2>5, <2>6, <2>7 DEF Next, Environment
<1>2. TypeOK /\ Inv /\ [Next]_vars => [A]_vars
  BY <1>1
<1>. QED BY <1>2, TypeCorrect, InvCorrect, PTL DEF Spec, NoStrayDevice

-----------------------------------------------------------------------------
(* The HAL implements VlanGroups.                                          *)

(* The mapped default of a group, read off its manager's list. *)
LEMMA DefaultValue ==
  ASSUME OwnedGroups, NEW p \in Proc, NEW g \in Manages[p]
  PROVE  /\ Default(g) = IF g \in bridges /\ HasEntry(cfg[p], g)
                         THEN DefaultOf(cfg[p], g) ELSE NULL
         /\ Default(g)' = IF g \in bridges' /\ HasEntry(cfg'[p], g)
                          THEN DefaultOf(cfg'[p], g) ELSE NULL
<1> DEFINE Keeper(list) == CHOOSE q \in Proc : g \in Manages[q] /\ HasEntry(list[q], g)
<1>1. \A q \in Proc : g \in Manages[q] => q = p
  BY DEF OwnedGroups
<1>2. ASSUME NEW list, HasEntry(list[p], g) PROVE Keeper(list) = p
  BY <1>1, <1>2, Zenon
<1>3. ASSUME NEW list, NEW B
      PROVE  (\E q \in Proc : g \in Manages[q] \cap B /\ HasEntry(list[q], g))
               <=> g \in B /\ HasEntry(list[p], g)
  BY <1>1, Zenon
<1>4. /\ HasEntry(cfg[p], g) => Keeper(cfg) = p
      /\ HasEntry(cfg'[p], g) => Keeper(cfg') = p
  BY <1>2
<1>5. /\ Default(g) = IF \E q \in Proc : g \in Manages[q] \cap bridges /\ HasEntry(cfg[q], g)
                      THEN DefaultOf(cfg[Keeper(cfg)], g) ELSE NULL
      /\ Default(g)' = IF \E q \in Proc : g \in Manages[q] \cap bridges' /\ HasEntry(cfg'[q], g)
                       THEN DefaultOf(cfg'[Keeper(cfg')], g) ELSE NULL
  BY Zenon DEF Default
<1> HIDE DEF Keeper
<1>. QED BY <1>3, <1>4, <1>5

LEMMA DefaultSame ==
  ASSUME OwnedGroups, NEW g \in Group, g \in bridges <=> g \in bridges',
         \A p \in Proc : g \in Manages[p] =>
           /\ HasEntry(cfg'[p], g) <=> HasEntry(cfg[p], g)
           /\ HasEntry(cfg[p], g) => DefaultOf(cfg'[p], g) = DefaultOf(cfg[p], g)
  PROVE  Default(g)' = Default(g)
<1>1. CASE \E p \in Proc : g \in Manages[p]
  <2>1. PICK p \in Proc : g \in Manages[p]
    BY <1>1
  <2>. QED BY <2>1, DefaultValue
<1>2. CASE \A p \in Proc : g \notin Manages[p]
  BY <1>2 DEF Default
<1>. QED BY <1>1, <1>2

LEMMA MapStutter ==
  ASSUME bridges' = bridges,
         \A g \in Group : Tagged(g)' = Tagged(g) /\ Default(g)' = Default(g)
  PROVE  UNCHANGED Groups!vars
BY DEF Groups!vars

(* addGroup: the bridge is made with no device and, as there is no entry of *)
(* its name, no default id; the entry gives it one.                         *)
LEMMA MapAddGroup ==
  ASSUME OwnedGroups, TypeOK, Inv, NEW q \in Proc, AgAddbr(q) \/ AgInsert(q)
  PROVE  [Groups!Next]_Groups!vars
<1>g. PICK g \in Group : g = arg[q].group
  BY CallTypes DEF Inv, AgAddbr, AgInsert
<1>0. /\ g \in Manages[q]
      /\ cfg \in [Proc -> Seq(Entry)]
      /\ OneEach(cfg[q]) /\ ~HasEntry(cfg[q], g) /\ PortsOK
  BY <1>g, CallTypes DEF Inv, ListInv, ListOf, PortInv, AgAddbr, AgInsert, TypeOK
<1>1. \A h \in Group : Tagged(h)' = Tagged(h)
  BY DEF AgAddbr, AgInsert, BrctlAddbr, OrFails, kernel, Tagged
<1>2. CASE AgAddbr(q)
  <2>1. cfg' = cfg /\ bridges' = bridges \cup {g}
    BY <1>2, <1>g DEF AgAddbr, BrctlAddbr, OrFails, OwnedGroups
  <2>2. Default(g)' = Default(g)
    BY <1>0, <2>1, DefaultValue
  <2>3. \A h \in Group : h # g => Default(h)' = Default(h)
    BY <2>1, DefaultSame
  <2>4. CASE g \in bridges
    BY <1>1, <2>1, <2>2, <2>3, <2>4, MapStutter
  <2>5. CASE g \notin bridges
    <3>1. Groups!Create(g)
      BY <1>1, <2>1, <2>2, <2>3, <2>5 DEF Groups!Create
    <3>. QED BY <1>0, <3>1 DEF Groups!Next
  <2>. QED BY <2>4, <2>5
<1>3. CASE AgInsert(q)
  <2>v. PICK v \in Vid : v = arg[q].tag
    BY <1>3, CallTypes DEF AgInsert, Inv
  <2>n. PICK new : new = InsertEntry(cfg[q], g, v)
    OBVIOUS
  <2>1. /\ g \in bridges /\ bridges' = bridges
        /\ cfg' = [cfg EXCEPT ![q] = new] \/ cfg' = cfg
    BY <1>3, <1>g, <2>v, <2>n DEF AgInsert, Inv, ListInv, ListOf
  <2>2. /\ HasEntry(new, g) /\ DefaultOf(new, g) = v
        /\ \A h : h # g => /\ HasEntry(new, h) <=> HasEntry(cfg[q], h)
                           /\ HasEntry(cfg[q], h) => DefaultOf(new, h) = DefaultOf(cfg[q], h)
    BY <1>0, <2>n, InsertDefaults
  <2>3. CASE cfg' = cfg
    <3>1. \A h \in Group : Default(h)' = Default(h)
      BY <2>1, <2>3, DefaultSame
    <3>. QED BY <1>1, <2>1, <3>1, MapStutter
  <2>4. CASE cfg' = [cfg EXCEPT ![q] = new]
    <3>1. Default(g) = NULL /\ Default(g)' = v
      BY <1>0, <2>1, <2>2, <2>4, DefaultValue
    <3>2. ASSUME NEW h \in Group, h # g PROVE Default(h)' = Default(h)
      BY <1>0, <2>1, <2>2, <2>4, <3>2, DefaultSame
    <3>3. Groups!AssignDefault(g, v)
      BY <1>0, <1>1, <2>1, <3>1, <3>2 DEF Groups!AssignDefault
    <3>. QED BY <1>0, <2>1, <3>3 DEF Groups!Next
  <2>. QED BY <2>1, <2>3, <2>4
<1>. QED BY <1>2, <1>3

(* delGroup: the bridge goes when it has no device left, and its default id *)
(* goes with it; where the bridge was brought up meanwhile and stays, the   *)
(* default id is lost.                                                      *)
LEMMA MapDelGroup ==
  ASSUME OwnedGroups, TypeOK, Inv, NEW q \in Proc, DgDelbr(q) \/ DgForget(q)
  PROVE  [Groups!Next]_Groups!vars
<1>g. PICK g \in Group : g = arg[q].group
  BY CallTypes DEF Inv, DgDelbr, DgForget
<1>0. /\ g \in Manages[q] /\ q \in DOMAIN cfg
      /\ cfg[q] \in Seq(Entry) /\ OneEach(cfg[q])
      /\ ports \in [Group -> SUBSET Port] /\ Sweep(q) /\ Gone(q)
  BY <1>g, CallTypes DEF Inv, ListInv, ListOf, PortInv, GoneInv, DgDelbr, DgForget, TypeOK
<1>1. CASE DgDelbr(q)
  <2>1. Tagged(g) = {} /\ cfg' = cfg
    BY <1>0, <1>1, <1>g DEF DgDelbr, Sweep
  <2>2. CASE g \in bridges \ up
    <3>1. bridges' = bridges \ {g} /\ ports' = [ports EXCEPT ![g] = {}]
      BY <1>1, <1>g, <2>2 DEF DgDelbr, OrFails, OwnedGroups, BrctlDelbr
    <3>2. \A h \in Group : Tagged(h)' = Tagged(h)
      BY <1>0, <2>1, <3>1 DEF Tagged
    <3>3. Default(g)' = NULL
      BY <1>0, <3>1, DefaultValue
    <3>4. \A h \in Group : h # g => Default(h)' = Default(h)
      BY <2>1, <3>1, DefaultSame
    <3>5. Groups!Dissolve(g)
      BY <1>0, <2>1, <2>2, <3>1, <3>2, <3>3, <3>4 DEF Groups!Dissolve
    <3>. QED BY <1>0, <3>5 DEF Groups!Next
  <2>3. CASE ~(g \in bridges \ up)
    <3>1. bridges' = bridges /\ ports' = ports
      BY <1>1, <1>g, <2>3 DEF DgDelbr, OrFails, OwnedGroups, BrctlDelbr, kernel
    <3>2. \A h \in Group : Tagged(h)' = Tagged(h) /\ Default(h)' = Default(h)
      BY <2>1, <3>1, DefaultSame DEF Tagged
    <3>. QED BY <3>1, <3>2, MapStutter
  <2>. QED BY <2>2, <2>3
<1>2. CASE DgForget(q)
  <2>n. PICK new : new = DeleteEntry(cfg[q], g)
    OBVIOUS
  <2>1. /\ bridges' = bridges /\ ports' = ports /\ pc[q] = "dg_forget"
        /\ cfg' = [cfg EXCEPT ![q] = new]
    BY <1>2, <1>g, <2>n DEF DgForget
  <2>2. /\ ~HasEntry(new, g)
        /\ \A h : h # g => /\ HasEntry(new, h) <=> HasEntry(cfg[q], h)
                           /\ HasEntry(cfg[q], h) => DefaultOf(new, h) = DefaultOf(cfg[q], h)
    BY <1>0, <2>n, DeleteKeeps, DeleteDefaults
  <2>3. \A h \in Group : Tagged(h)' = Tagged(h)
    BY <2>1 DEF Tagged
  <2>4. Default(g)' = NULL
    BY <1>0, <2>1, <2>2, DefaultValue
  <2>5. ASSUME NEW h \in Group, h # g PROVE Default(h)' = Default(h)
    BY <1>0, <2>1, <2>2, <2>5, DefaultSame
  <2>6. CASE g \notin bridges
    <3>1. Default(g) = NULL
      BY <1>0, <2>6, DefaultValue
    <3>. QED BY <2>1, <2>3, <2>4, <2>5, <3>1, MapStutter
  <2>7. CASE g \in bridges
    <3>1. Hazard \cap {"restart", "upRace"} # {}
      BY <1>0, <1>g, <2>1, <2>7 DEF Gone
    <3>2. Groups!LoseDefaults({g})
      BY <2>1, <2>3, <2>4, <2>5, <3>1 DEF Groups!LoseDefaults
    <3>3. {g} \in SUBSET Group
      BY <1>0
    <3>. QED BY <3>2, <3>3 DEF Groups!Next
  <2>. QED BY <2>6, <2>7
<1>. QED BY <1>1, <1>2

(* addInterface and delInterface: a device joins a bridge that exists when  *)
(* it is in none, and leaves the one it is in.                              *)
LEMMA MapInterface ==
  ASSUME OwnedGroups, TypeOK, Inv, NEW q \in Proc, AiAddif(q) \/ DiVconfig(q) \/ DiDelif(q)
  PROVE  [Groups!Next]_Groups!vars
<1> DEFINE g == arg[q].group
           d == Target(q)
<1>0. /\ g \in Group
      /\ ports \in [Group -> SUBSET Port] /\ PortsOK /\ Sweep(q)
      /\ AiAddif(q) => d \in Device
      /\ DiVconfig(q) => d \in Port
      /\ devs \subseteq Device
  BY CallTypes DEF Inv, PortInv, AiAddif, DiVconfig, DiDelif, TypeOK, AiLabel, DiLabel
<1>1. cfg' = cfg /\ bridges' = bridges
  BY DEF AiAddif, DiVconfig, DiDelif, OrFails, kernel, BrctlAddif, VconfigRem, BrctlDelif
<1>2. \A h \in Group : Default(h)' = Default(h)
  BY <1>1, DefaultSame
<1>3. CASE AiAddif(q)
  <2>1. BrctlAddif(g, d)
    BY <1>3 DEF AiAddif, OrFails, OwnedGroups
  <2>2. CASE g \in bridges /\ d \in devs /\ ~InAnyBridge(d)
    <3>1. ports' = [ports EXCEPT ![g] = @ \cup {d}]
      BY <2>1, <2>2 DEF BrctlAddif
    <3>2. d \in Device /\ d[2] # NoTag
      BY <1>0, <1>3, ValuesAssumption DEF Device
    <3> HIDE DEF g, d
    <3>3. \A h \in Group : d \notin Tagged(h)
      BY <1>0, <2>2 DEF InAnyBridge, PortsOK, Tagged
    <3>4. \A h \in Group : Tagged(h)' = IF h = g THEN Tagged(h) \cup {d} ELSE Tagged(h)
      BY <1>0, <3>1, <3>2 DEF Tagged
    <3>5. Groups!Join(g, d)
      BY <1>0, <1>1, <1>2, <2>2, <3>3, <3>4 DEF Groups!Join
    <3>. QED BY <1>0, <3>2, <3>5 DEF Groups!Next
  <2>3. CASE ~(g \in bridges /\ d \in devs /\ ~InAnyBridge(d))
    <3>1. \A h \in Group : Tagged(h)' = Tagged(h)
      BY <2>1, <2>3 DEF BrctlAddif, kernel, Tagged
    <3>. QED BY <1>1, <1>2, <3>1, MapStutter
  <2>. QED BY <2>2, <2>3
<1>4. CASE DiVconfig(q)
  <2>1. /\ d \in ports[g] /\ d \in Port
        /\ ports' = IF d \in devs THEN [h \in Group |-> ports[h] \ {d}] ELSE ports
    BY <1>0, <1>4 DEF DiVconfig, Sweep, OrFails, OwnedGroups, VconfigRem
  <2> HIDE DEF g, d
  <2>2. CASE d \in devs
    <3>1. d \in Device /\ d \in Tagged(g)
      BY <1>0, <2>1, <2>2, ValuesAssumption DEF Tagged, Device
    <3>2. \A h \in Group : Tagged(h)' = IF h = g THEN Tagged(h) \ {d} ELSE Tagged(h)
      BY <1>0, <2>1, <2>2 DEF Tagged, PortsOK
    <3>3. Groups!Leave(g, d)
      BY <1>0, <1>1, <1>2, <3>1, <3>2 DEF Groups!Leave
    <3>. QED BY <1>0, <3>1, <3>3 DEF Groups!Next
  <2>3. CASE d \notin devs
    <3>1. \A h \in Group : Tagged(h)' = Tagged(h)
      BY <2>1, <2>3 DEF Tagged
    <3>. QED BY <1>1, <1>2, <3>1, MapStutter
  <2>. QED BY <2>2, <2>3
<1>5. CASE DiDelif(q)
  <2> DEFINE x == <<arg[q].ifc, NoTag>>
  <2>1. ports' = [ports EXCEPT ![g] = @ \ {x}] /\ x[2] = NoTag
    BY <1>5 DEF DiDelif, OrFails, OwnedGroups, BrctlDelif
  <2> HIDE DEF g, x
  <2>2. \A h \in Group : Tagged(h)' = Tagged(h)
    BY <1>0, <2>1 DEF Tagged
  <2>. QED BY <1>1, <1>2, <2>2, MapStutter
<1>. QED BY <1>3, <1>4, <1>5

(* A process that dies takes the default ids of its groups with it. *)
LEMMA MapRestart ==
  ASSUME OwnedGroups, TypeOK, NEW q \in Proc, Restart(q)
  PROVE  [Groups!Next]_Groups!vars
<1>1. /\ bridges' = bridges /\ ports' = ports /\ cfg' = [cfg EXCEPT ![q] = <<>>]
      /\ cfg \in [Proc -> Seq(Entry)]
      /\ Hazard \cap {"restart", "upRace"} # {}
  BY DEF Restart, kernel, TypeOK
<1>2. \A h \in Group : Tagged(h)' = Tagged(h)
  BY <1>1 DEF Tagged
<1>3. Manages[q] \subseteq Group
  BY ManagesAssumption
<1>4. ASSUME NEW g \in Manages[q] PROVE Default(g)' = NULL
  <2>1. ~HasEntry(cfg'[q], g)
    BY <1>1 DEF HasEntry
  <2>. QED BY <2>1, DefaultValue
<1>5. ASSUME NEW g \in Group, g \notin Manages[q] PROVE Default(g)' = Default(g)
  <2>1. \A p \in Proc : g \in Manages[p] => cfg'[p] = cfg[p]
    BY <1>1, <1>5
  <2>. QED BY <1>1, <2>1, DefaultSame
<1>6. Groups!LoseDefaults(Manages[q])
  BY <1>1, <1>2, <1>3, <1>4, <1>5 DEF Groups!LoseDefaults
<1>7. Manages[q] \in SUBSET Group
  BY <1>3
<1>. QED BY <1>6, <1>7 DEF Groups!Next

(* Every other step is invisible to the callers. *)
LEMMA MapElse ==
  ASSUME OwnedGroups, TypeOK, cfg' = cfg, bridges' = bridges,
         ports' = ports \/ \E g \in Group, i \in If : AddPlain(g, i)
  PROVE  [Groups!Next]_Groups!vars
<1>1. \A h \in Group : Default(h)' = Default(h)
  BY DefaultSame
<1>2. CASE ports' = ports
  BY <1>1, <1>2, MapStutter DEF Tagged
<1>3. ASSUME NEW g \in Group, NEW i \in If, AddPlain(g, i)
      PROVE  [Groups!Next]_Groups!vars
  <2>1. \A h \in Group : Tagged(h)' = Tagged(h)
    BY <1>3 DEF AddPlain, Tagged, TypeOK
  <2>. QED BY <1>1, <2>1, MapStutter
<1>. QED BY <1>2, <1>3

(* Seen from its callers the HAL is what VlanGroups says: a group is made   *)
(* empty, gets a default id at most once and only while it exists, has      *)
(* devices of its own only, and is dissolved only when empty, together with *)
(* its default id (61-380 and 674-769).                                     *)
THEOREM Implementation == ASSUME OwnedGroups PROVE Spec => ImplementsGroups
<1>1. Init => Groups!Init
  <2> SUFFICES ASSUME Init PROVE Groups!Init
    OBVIOUS
  <2>1. bridges = {} /\ \A g \in Group : Tagged(g) = {} /\ Default(g) = NULL
    BY DEF Init, Tagged, Default
  <2>. QED BY <2>1 DEF Groups!Init
<1>2. TypeOK /\ Inv /\ [Next]_vars => [Groups!Next]_Groups!vars
  <2> SUFFICES ASSUME TypeOK, Inv, [Next]_vars PROVE [Groups!Next]_Groups!vars
    OBVIOUS
  <2>1. CASE UNCHANGED vars
    BY <2>1, MapElse DEF vars
  <2>2. ASSUME NEW q \in Proc, Step(q) PROVE [Groups!Next]_Groups!vars
    <3>1. CASE AgAddbr(q) \/ AgInsert(q)
      BY <3>1, MapAddGroup
    <3>2. CASE DgDelbr(q) \/ DgForget(q)
      BY <3>2, MapDelGroup
    <3>3. CASE AiAddif(q) \/ DiVconfig(q) \/ DiDelif(q)
      BY <3>3, MapInterface
    <3>4. CASE AgCheck(q) \/ DgCheck(q) \/ DgList(q) \/ DgLoop(q) \/ DgDown(q)
      BY <3>4, MapElse DEF AgCheck, DgCheck, DgList, DgLoop, DgDown, LinkDown, OrFails,
                           kernel
    <3>5. CASE AiGroup(q) \/ AiPort(q) \/ AiVconfig(q) \/ DiGroup(q) \/ DiPort(q)
      BY <3>5, MapElse DEF AiGroup, AiPort, AiVconfig, DiGroup, DiPort, VconfigAdd,
                           OrFails, kernel
    <3>. QED BY <2>2, <3>1, <3>2, <3>3, <3>4, <3>5 DEF Step
  <2>3. ASSUME NEW q \in Proc, UserCall(q) PROVE [Groups!Next]_Groups!vars
    BY <2>3, MapElse DEF UserCall, BadCall, AddGroup, DelGroup, AddInterface,
                         DelInterface, Begin
  <2>4. ASSUME NEW q \in Proc, Restart(q) PROVE [Groups!Next]_Groups!vars
    BY <2>4, MapRestart
  <2>5. ASSUME NEW g \in Group, BringUp(g) \/ ExternalDelete(g)
        PROVE  [Groups!Next]_Groups!vars
    BY <2>5, MapElse DEF BringUp, ExternalDelete, OwnedGroups
  <2>6. ASSUME NEW g \in Group, NEW i \in If, AddPlain(g, i)
        PROVE  [Groups!Next]_Groups!vars
    <3>1. cfg' = cfg /\ bridges' = bridges
      BY <2>6 DEF AddPlain
    <3>. QED BY <2>6, <3>1, MapElse
  <2>. QED BY <2>1, <2>2, <2>3, <2>4, <2>5, <2>6 DEF Next, Environment
<1>. QED BY <1>1, <1>2, TypeCorrect, InvCorrect, PTL DEF Spec, ImplementsGroups, Groups!Spec
=============================================================================
