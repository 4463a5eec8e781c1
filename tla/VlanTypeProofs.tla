-------------------------- MODULE VlanTypeProofs ---------------------------
(***************************************************************************)
(* Proofs about VlanHal, first part: what the walks over the configuration *)
(* list return, and type correctness.  A call carries a group of its       *)
(* process, an interface and a tag that fit the step it is at (CallOK);    *)
(* TypeOK is inductive only together with that.                            *)
(***************************************************************************)
EXTENDS VlanHalInv, TLAPS, WellFoundedInduction, SequenceTheorems

-----------------------------------------------------------------------------
(* Lists.                                                                  *)

LEMMA MinIsLeast ==
  ASSUME NEW T \in SUBSET Nat, T # {}
  PROVE  Min(T) \in T /\ \A y \in T : Min(T) <= y
<1> DEFINE R == OpToRel(<, Nat)
<1>1. \A x, y \in Nat : x < y => <<x, y>> \in R
  BY DEF OpToRel
<1>2. IsWellFoundedOn(R, Nat)
  BY NatLessThanWellFounded
<1> HIDE DEF R
<1>3. PICK x \in T : \A y \in T : ~(<<y, x>> \in R)
  BY <1>2, WFMin
<1>4. ASSUME NEW y \in T PROVE x <= y
  <2>1. x \in Nat /\ y \in Nat
    OBVIOUS
  <2>2. ~(y < x)
    BY <1>1, <1>3, <2>1, Zenon
  <2>. QED BY <2>1, <2>2
<1>. QED BY <1>4 DEF Min

LEMMA RemoveAtElements ==
  ASSUME NEW S, NEW list \in Seq(S), NEW i \in 1 .. Len(list)
  PROVE  /\ RemoveAt(list, i) \in Seq(S)
         /\ Len(RemoveAt(list, i)) = Len(list) - 1
         /\ \A k \in 1 .. Len(list) - 1 :
              RemoveAt(list, i)[k] = IF k < i THEN list[k] ELSE list[k + 1]
<1> DEFINE a == SubSeq(list, 1, i - 1)
           b == SubSeq(list, i + 1, Len(list))
<1>1. Len(list) \in Nat /\ \A k \in 1 .. Len(list) : list[k] \in S
  BY LenProperties
<1>2. /\ a \in Seq(S)
      /\ Len(a) = i - 1
      /\ \A k \in 1 .. i - 1 : a[k] = list[k]
  BY <1>1, SubSeqProperties
<1>3. /\ b \in Seq(S)
      /\ Len(b) = Len(list) - i
      /\ \A k \in 1 .. Len(list) - i : b[k] = list[i + k]
  BY <1>1, SubSeqProperties
<1> HIDE DEF a, b
<1>4. /\ a \o b \in Seq(S)
      /\ Len(a \o b) = Len(a) + Len(b)
      /\ \A k \in 1 .. Len(a) + Len(b) :
           (a \o b)[k] = IF k <= Len(a) THEN a[k] ELSE b[k - Len(a)]
  BY <1>2, <1>3, ConcatProperties
<1>5. RemoveAt(list, i) = a \o b
  BY DEF RemoveAt, a, b
<1>6. Len(a) + Len(b) = Len(list) - 1
  BY <1>1, <1>2, <1>3
<1>7. ASSUME NEW k \in 1 .. Len(list) - 1
      PROVE  (a \o b)[k] = IF k < i THEN list[k] ELSE list[k + 1]
  <2>1. CASE k < i
    <3>1. k \in 1 .. i - 1 /\ k <= Len(a)
      BY <1>1, <1>2, <2>1
    <3>. QED BY <1>2, <1>4, <1>6, <2>1, <3>1
  <2>2. CASE ~(k < i)
    <3>1. k - (i - 1) \in 1 .. Len(list) - i /\ ~(k <= Len(a))
      BY <1>1, <1>2, <2>2
    <3>2. (a \o b)[k] = b[k - (i - 1)]
      BY <1>2, <1>4, <1>6, <3>1
    <3>3. i + (k - (i - 1)) = k + 1
      BY <1>1
    <3>. QED BY <1>3, <2>2, <3>1, <3>2, <3>3
  <2>. QED BY <2>1, <2>2
<1>. QED BY <1>4, <1>5, <1>6, <1>7

LEMMA FirstOfGroup ==
  ASSUME NEW list \in Seq(Entry), NEW g, HasEntry(list, g)
  PROVE  \E i \in 1 .. Len(list) :
           /\ list[i].group = g
           /\ DefaultOf(list, g) = list[i].vid
           /\ DeleteEntry(list, g) = RemoveAt(list, i)
<1> DEFINE I == {k \in 1 .. Len(list) : list[k].group = g}
<1>1. DOMAIN list = 1 .. Len(list) /\ Len(list) \in Nat
  BY LenProperties
<1>2. I \in SUBSET Nat /\ I # {}
  BY <1>1 DEF HasEntry
<1>3. Min(I) \in I
  BY <1>2, MinIsLeast
<1>4. DefaultOf(list, g) = list[Min(I)].vid
  BY <1>2 DEF DefaultOf, SelectInSeq
<1>5. DeleteEntry(list, g) = RemoveAt(list, Min(I))
  BY <1>2 DEF DeleteEntry, RemoveFirstMatch, SelectInSeq
<1>. QED BY <1>3, <1>4, <1>5

LEMMA NoneOfGroup ==
  ASSUME NEW list \in Seq(Entry), NEW g, ~HasEntry(list, g)
  PROVE  DeleteEntry(list, g) = list
BY LenProperties DEF DeleteEntry, RemoveFirstMatch, HasEntry
-----------------------------------------------------------------------------
(* Types.                                                                  *)

LEMMA DefaultType ==
  ASSUME NEW list \in Seq(Entry), NEW g, HasEntry(list, g)
  PROVE  DefaultOf(list, g) \in Vid
<1>1. PICK i \in 1 .. Len(list) : DefaultOf(list, g) = list[i].vid
  BY FirstOfGroup
<1>2. list[i] \in Entry
  BY <1>1, LenProperties
<1>. QED BY <1>1, <1>2 DEF Entry

LEMMA CallTypes ==
  ASSUME TypeOK, CallOK, NEW p \in Proc
  PROVE  /\ arg[p] \in Call
         /\ pc[p] # "idle" => arg[p].group \in Group /\ arg[p].group \in Manages[p]
         /\ pc[p] = "ag_insert" => arg[p].tag \in Vid
         /\ pc[p] \in AiLabel \ {"ai_group"} => Target(p) \in Device
         /\ pc[p] \in DiLabel \ {"di_group"} => Target(p) \in Port
BY ManagesAssumption DEF TypeOK, CallOK, Call, Fits, AgLabel, AiLabel, DiLabel, Target, Device, Port

LEMMA InitOK == Init => TypeOK /\ CallOK
BY EmptySeq DEF Init, TypeOK, CallOK, Fits, Call, NoCall, Op, Label, AgLabel, DgLabel, AiLabel, DiLabel

ControlTypes ==
  /\ CallOK
  /\ pc \in [Proc -> Label]
  /\ arg \in [Proc -> Call]
  /\ ret \in [Proc -> {"none", "OK", "ERR"}]

KernelTypes ==
  /\ bridges \in SUBSET Group
  /\ up \in SUBSET Group
  /\ ports \in [Group -> SUBSET Port]
  /\ devs \in SUBSET Device

LEMMA TypeParts ==
  TypeOK /\ CallOK <=> /\ ControlTypes
                       /\ KernelTypes
                       /\ cfg \in [Proc -> Seq(Entry)]
                       /\ todo \in [Proc -> SUBSET Port]
BY DEF TypeOK, ControlTypes, KernelTypes

LEMMA GotoWithOK ==
  ASSUME ControlTypes, NEW p \in Proc, NEW l \in Label, NEW c \in Call,
         Fits(l, c, Manages[p]), GotoWith(p, l, c)
  PROVE  ControlTypes'
BY DEF ControlTypes, CallOK, GotoWith

LEMMA GotoOK ==
  ASSUME ControlTypes, NEW p \in Proc, NEW l \in Label,
         Fits(l, arg[p], Manages[p]), Goto(p, l)
  PROVE  ControlTypes'
BY DEF ControlTypes, CallOK, Goto

LEMMA ReturnOK ==
  ASSUME ControlTypes, NEW p \in Proc, NEW r \in {"OK", "ERR"}, Return(p, r)
  PROVE  ControlTypes'
<1>1. NoCall \in Call /\ Fits("idle", NoCall, Manages[p]) /\ "idle" \in Label
  BY DEF NoCall, Call, Op, Fits, Label, AgLabel, DgLabel, AiLabel, DiLabel
<1>. QED BY <1>1 DEF ControlTypes, CallOK, Return

LEMMA AfterCallOK ==
  ASSUME ControlTypes, NEW p \in Proc, pc[p] # "idle",
         NEW r \in {"OK", "ERR"}, AfterCall(p, r)
  PROVE  ControlTypes'
<1>1. CASE arg[p].op = "delGroup"
  <2> DEFINE c == GroupCall("delGroup", arg[p].group)
  <2>1. arg[p].group \in Manages[p] /\ arg[p].group \in Group
    BY ManagesAssumption DEF ControlTypes, CallOK, Fits
  <2>2. c \in Call /\ Fits("dg_loop", c, Manages[p]) /\ "dg_loop" \in Label
    BY <2>1 DEF GroupCall, Call, Op, Fits, Label, AgLabel, DgLabel, AiLabel, DiLabel
  <2>. QED BY <1>1, <2>2, GotoWithOK DEF AfterCall
<1>2. CASE arg[p].op # "delGroup"
  BY <1>2, ReturnOK DEF AfterCall
<1>. QED BY <1>1, <1>2

LEMMA BeginOK ==
  ASSUME ControlTypes, NEW p \in Proc, NEW l \in Label, NEW c \in Call,
         Begin(p, l, c), Fits(l, c, Manages[p])
  PROVE  ControlTypes'
BY DEF ControlTypes, CallOK, Begin

LEMMA ResolveOK ==
  ASSUME ControlTypes, cfg \in [Proc -> Seq(Entry)], NEW p \in Proc,
         NEW next \in {"ai_port", "di_port"},
         pc[p] = (IF next = "ai_port" THEN "ai_group" ELSE "di_group"),
         ResolveTag(p, next)
  PROVE  ControlTypes'
<1> DEFINE g == arg[p].group
           c == [arg[p] EXCEPT !.tag = DefaultOf(cfg[p], g)]
<1>0. Fits(pc[p], arg[p], Manages[p]) /\ arg[p] \in Call /\ next \in Label
  BY DEF ControlTypes, CallOK, Label
<1>1. CASE Available(g) /\ arg[p].tag # NULL /\ Goto(p, next)
  <2>1. Fits(next, arg[p], Manages[p])
    BY <1>0, <1>1 DEF Fits, AgLabel, DgLabel, AiLabel, DiLabel
  <2>. QED BY <1>0, <1>1, <2>1, GotoOK
<1>2. CASE arg[p].tag = NULL /\ HasEntry(cfg[p], g) /\ GotoWith(p, next, c)
  <2>1. DefaultOf(cfg[p], g) \in Vid
    BY <1>2, DefaultType
  <2>2. c \in Call
    BY <1>0, <2>1 DEF Call
  <2>3. /\ c.op = arg[p].op /\ c.group = arg[p].group /\ c.ifc = arg[p].ifc
        /\ c.tag # NULL /\ c.tag # NoTag
    BY <1>0, <2>1, ValuesAssumption DEF Call
  <2>4. Fits(next, c, Manages[p])
    BY <1>0, <2>3 DEF Fits, AgLabel, DgLabel, AiLabel, DiLabel
  <2>. QED BY <1>0, <1>2, <2>2, <2>4, GotoWithOK
<1>3. CASE AfterCall(p, "ERR")
  BY <1>3, AfterCallOK
<1>. QED BY <1>1, <1>2, <1>3 DEF ResolveTag

LEMMA DeleteOK ==
  ASSUME NEW list \in Seq(Entry), NEW g
  PROVE  DeleteEntry(list, g) \in Seq(Entry)
<1>1. CASE HasEntry(list, g)
  BY <1>1, FirstOfGroup, RemoveAtElements
<1>2. CASE ~HasEntry(list, g)
  BY <1>2, NoneOfGroup
<1>. QED BY <1>1, <1>2

(* Every command keeps the types of the kernel's state; one that fails keeps the state. *)
LEMMA BrctlAddbrOK ==
  ASSUME KernelTypes, NEW g \in Group, OrFails(BrctlAddbr(g))
  PROVE  KernelTypes'
BY DEF KernelTypes, OrFails, BrctlAddbr, kernel

LEMMA BrctlDelbrOK ==
  ASSUME KernelTypes, NEW g \in Group, OrFails(BrctlDelbr(g))
  PROVE  KernelTypes'
BY DEF KernelTypes, OrFails, BrctlDelbr, kernel

LEMMA LinkDownOK ==
  ASSUME KernelTypes, NEW g \in Group, OrFails(LinkDown(g))
  PROVE  KernelTypes'
BY DEF KernelTypes, OrFails, LinkDown, kernel

LEMMA VconfigAddOK ==
  ASSUME KernelTypes, NEW d \in Device, OrFails(VconfigAdd(d))
  PROVE  KernelTypes'
BY DEF KernelTypes, OrFails, VconfigAdd, kernel

LEMMA VconfigRemOK ==
  ASSUME KernelTypes, NEW x \in Port, OrFails(VconfigRem(x))
  PROVE  KernelTypes'
BY DEF KernelTypes, OrFails, VconfigRem, kernel

LEMMA BrctlAddifOK ==
  ASSUME KernelTypes, NEW g \in Group, NEW d \in Device, OrFails(BrctlAddif(g, d))
  PROVE  KernelTypes'
BY DEF KernelTypes, OrFails, BrctlAddif, kernel, Device, Port

LEMMA BrctlDelifOK ==
  ASSUME KernelTypes, NEW g \in Group, NEW x \in Port, OrFails(BrctlDelif(g, x))
  PROVE  KernelTypes'
BY DEF KernelTypes, OrFails, BrctlDelif, kernel

LEMMA StepOK ==
  ASSUME TypeOK, CallOK, NEW p \in Proc, Step(p)
  PROVE  TypeOK' /\ CallOK'
<1> DEFINE Labels == Label \cup AgLabel \cup DgLabel \cup AiLabel \cup DiLabel
<1> USE TypeParts, CallTypes
<1>0. /\ ControlTypes /\ KernelTypes
      /\ cfg \in [Proc -> Seq(Entry)] /\ todo \in [Proc -> SUBSET Port]
      /\ Fits(pc[p], arg[p], Manages[p])
  BY DEF CallOK
<1> SUFFICES /\ ControlTypes' /\ KernelTypes'
             /\ cfg' \in [Proc -> Seq(Entry)] /\ todo' \in [Proc -> SUBSET Port]
  BY DEF TypeOK, ControlTypes, KernelTypes
<1> USE <1>0 DEF Fits, Label, AgLabel, DgLabel, AiLabel, DiLabel
<1>1. CASE AgCheck(p)
  BY <1>1, GotoOK, ReturnOK DEF AgCheck, KernelTypes
<1>2. CASE AgAddbr(p)
  <2>1. KernelTypes'
    BY <1>2, BrctlAddbrOK DEF AgAddbr
  <2>. QED BY <1>2, <2>1, GotoOK, ReturnOK DEF AgAddbr
<1>3. CASE AgInsert(p)
  <2>1. InsertEntry(cfg[p], arg[p].group, arg[p].tag) \in Seq(Entry)
    BY <1>3, AppendProperties DEF AgInsert, InsertEntry, Entry
  <2>2. cfg' \in [Proc -> Seq(Entry)]
    BY <1>3, <2>1 DEF AgInsert
  <2>3. ControlTypes'
    BY <1>3, ReturnOK DEF AgInsert
  <2>4. KernelTypes' /\ todo' \in [Proc -> SUBSET Port]
    BY <1>3 DEF AgInsert, KernelTypes
  <2>. QED BY <2>2, <2>3, <2>4
<1>4. CASE DgCheck(p)
  BY <1>4, GotoOK, ReturnOK DEF DgCheck, KernelTypes
<1>5. CASE DgList(p)
  BY <1>5, GotoOK DEF DgList, KernelTypes
<1>6. CASE DgLoop(p)
  <2>1. ASSUME NEW x \in todo[p],
               GotoWith(p, "di_group", [arg[p] EXCEPT !.ifc = x[1], !.tag = x[2]])
        PROVE  ControlTypes'
    <3> DEFINE c == [arg[p] EXCEPT !.ifc = x[1], !.tag = x[2]]
    <3>1. x[1] \in If /\ x[2] \in Vid \cup {NoTag} /\ x[2] # NULL
      BY ValuesAssumption DEF Port
    <3>2. c \in Call /\ Fits("di_group", c, Manages[p])
      BY <1>6, <3>1 DEF DgLoop, Call
    <3>. QED BY <2>1, <3>2, GotoWithOK
  <2>. QED BY <1>6, <2>1, GotoOK DEF DgLoop, KernelTypes
<1>7. CASE DgDown(p)
  <2>1. KernelTypes'
    BY <1>7, LinkDownOK DEF DgDown
  <2>. QED BY <1>7, <2>1, GotoOK DEF DgDown
<1>8. CASE DgDelbr(p)
  <2>1. KernelTypes'
    BY <1>8, BrctlDelbrOK DEF DgDelbr
  <2>. QED BY <1>8, <2>1, GotoOK DEF DgDelbr
<1>9. CASE DgForget(p)
  BY <1>9, ReturnOK, DeleteOK DEF DgForget, KernelTypes
<1>10. CASE AiGroup(p)
  BY <1>10, ResolveOK DEF AiGroup, KernelTypes
<1>11. CASE AiPort(p)
  BY <1>11, GotoOK, ReturnOK DEF AiPort, KernelTypes
<1>12. CASE AiVconfig(p)
  <2>1. KernelTypes'
    BY <1>12, VconfigAddOK DEF AiVconfig
  <2>. QED BY <1>12, <2>1, GotoOK DEF AiVconfig
<1>13. CASE AiAddif(p)
  <2>1. KernelTypes'
    BY <1>13, BrctlAddifOK DEF AiAddif
  <2>. QED BY <1>13, <2>1, ReturnOK DEF AiAddif
<1>14. CASE DiGroup(p)
  BY <1>14, ResolveOK DEF DiGroup, KernelTypes
<1>15. CASE DiPort(p)
  BY <1>15, GotoOK, AfterCallOK DEF DiPort, KernelTypes
<1>16. CASE DiVconfig(p)
  <2>1. KernelTypes'
    BY <1>16, VconfigRemOK DEF DiVconfig
  <2>. QED BY <1>16, <2>1, GotoOK, AfterCallOK DEF DiVconfig
<1>17. CASE DiDelif(p)
  <2>1. <<arg[p].ifc, NoTag>> \in Port
    BY <1>17 DEF DiDelif, Port
  <2>2. KernelTypes'
    BY <1>17, <2>1, BrctlDelifOK DEF DiDelif
  <2>. QED BY <1>17, <2>2, AfterCallOK DEF DiDelif
<1>. QED BY <1>1, <1>2, <1>3, <1>4, <1>5, <1>6, <1>7, <1>8, <1>9, <1>10, <1>11,
            <1>12, <1>13, <1>14, <1>15, <1>16, <1>17 DEF Step

LEMMA UserCallOK ==
  ASSUME TypeOK, CallOK, NEW p \in Proc, UserCall(p)
  PROVE  TypeOK' /\ CallOK'
<1> USE TypeParts
<1>0. ControlTypes /\ KernelTypes
  OBVIOUS
<1>1. CASE BadCall(p)
  BY <1>0, <1>1 DEF BadCall, TypeOK, ControlTypes, KernelTypes, CallOK
<1>2. ASSUME NEW l \in Label, NEW c \in Call, Begin(p, l, c), Fits(l, c, Manages[p])
      PROVE  TypeOK' /\ CallOK'
  <2>1. ControlTypes'
    BY <1>0, <1>2, BeginOK
  <2>2. KernelTypes' /\ cfg' = cfg /\ todo' = todo
    BY <1>0, <1>2 DEF Begin, KernelTypes
  <2>. QED BY <2>1, <2>2 DEF TypeOK, ControlTypes, KernelTypes
<1> USE DEF Fits, Label, Call, Op, GroupCall, AgLabel, DgLabel, AiLabel, DiLabel
<1>3. ASSUME NEW g \in Group, NEW v \in Vid \cup {NULL}, AddGroup(p, g, v)
      PROVE  TypeOK' /\ CallOK'
  <2>1. g \in Manages[p] /\ v # NoTag
    BY <1>3, ValuesAssumption DEF AddGroup, Begin
  <2>. QED BY <1>2, <1>3, <2>1 DEF AddGroup
<1>4. ASSUME NEW g \in Group, DelGroup(p, g)
      PROVE  TypeOK' /\ CallOK'
  <2>1. g \in Manages[p]
    BY <1>4 DEF DelGroup, Begin
  <2>. QED BY <1>2, <1>4, <2>1 DEF DelGroup
<1>5. ASSUME NEW g \in Group, NEW i \in If, NEW v \in Vid \cup {NULL},
             AddInterface(p, g, i, v) \/ DelInterface(p, g, i, v)
      PROVE  TypeOK' /\ CallOK'
  <2>1. g \in Manages[p] /\ v # NoTag
    BY <1>5, ValuesAssumption DEF AddInterface, DelInterface, Begin
  <2>2. CASE AddInterface(p, g, i, v)
    BY <1>2, <2>1, <2>2 DEF AddInterface
  <2>3. CASE DelInterface(p, g, i, v)
    BY <1>2, <2>1, <2>3 DEF DelInterface
  <2>. QED BY <1>5, <2>2, <2>3
<1>. QED BY <1>1, <1>3, <1>4, <1>5 DEF UserCall

LEMMA EnvironmentOK ==
  ASSUME TypeOK, CallOK, Environment
  PROVE  TypeOK' /\ CallOK'
<1> USE TypeParts
<1>0. ControlTypes /\ KernelTypes
  OBVIOUS
<1>1. ASSUME NEW p \in Proc, Restart(p)
      PROVE  TypeOK' /\ CallOK'
  <2>1. NoCall \in Call /\ Fits("idle", NoCall, Manages[p]) /\ "idle" \in Label
    BY DEF NoCall, Call, Op, Fits, Label, AgLabel, DgLabel, AiLabel, DiLabel
  <2>2. ControlTypes'
    BY <1>0, <1>1, <2>1 DEF Restart, ControlTypes, CallOK
  <2>3. KernelTypes'
    BY <1>0, <1>1 DEF Restart, KernelTypes, kernel
  <2>4. cfg' \in [Proc -> Seq(Entry)] /\ todo' \in [Proc -> SUBSET Port]
    BY <1>0, <1>1, EmptySeq DEF Restart
  <2>. QED BY <2>2, <2>3, <2>4 DEF TypeOK, ControlTypes, KernelTypes
<1>2. ASSUME NEW g \in Group, BringUp(g) \/ ExternalDelete(g)
      PROVE  TypeOK' /\ CallOK'
  <2>1. KernelTypes'
    BY <1>0, <1>2, BrctlDelbrOK DEF BringUp, ExternalDelete, KernelTypes, OrFails
  <2>2. ControlTypes' /\ cfg' = cfg /\ todo' = todo
    BY <1>0, <1>2 DEF BringUp, ExternalDelete, ControlTypes, CallOK
  <2>. QED BY <2>1, <2>2 DEF TypeOK, ControlTypes, KernelTypes
<1>3. ASSUME NEW g \in Group, NEW i \in If, AddPlain(g, i)
      PROVE  TypeOK' /\ CallOK'
  <2>1. KernelTypes'
    BY <1>0, <1>3 DEF AddPlain, KernelTypes, Port
  <2>2. ControlTypes' /\ cfg' = cfg /\ todo' = todo
    BY <1>0, <1>3 DEF AddPlain, ControlTypes, CallOK
  <2>. QED BY <2>1, <2>2 DEF TypeOK, ControlTypes, KernelTypes
<1>. QED BY <1>1, <1>2, <1>3 DEF Environment

LEMMA StutterOK ==
  ASSUME TypeOK, CallOK, UNCHANGED vars
  PROVE  TypeOK' /\ CallOK'
BY DEF TypeOK, CallOK, vars

(* Type correctness, for any number of processes, groups, interfaces and   *)
(* ids, any sharing of the groups and any hazard: in particular only a     *)
(* resolved VLAN id is ever handed to "vconfig" or stored in the list      *)
(* (vlan_hal.c 104, 222-240, 312-331).                                     *)
THEOREM TypeCorrect == Spec => [](TypeOK /\ CallOK)
<1>1. Init => TypeOK /\ CallOK
  BY InitOK
<1>2. TypeOK /\ CallOK /\ [Next]_vars => (TypeOK /\ CallOK)'
  BY StepOK, UserCallOK, EnvironmentOK, StutterOK DEF Next
<1>. QED BY <1>1, <1>2, PTL DEF Spec
=============================================================================
