--------------------------- MODULE VlanListProofs ----------------------------
(***************************************************************************)
(* The list of the VLAN HAL, block by block, for any threads, blocks,      *)
(* names and ids, and for any calls that meet: ListIntact, GetFindsEntry   *)
(* and ActsAsSequence.                                                     *)
(*                                                                         *)
(* The argument has three parts. Chain is whatever sequence the pointers   *)
(* spell out (Follows, ChainIs): by induction over the places of a         *)
(* sequence, which the library gives for sets of numbers. As long as no    *)
(* deletion meets another call, the list has the shape that walks rely on  *)
(* (Shape), a new block is its thread's own until it is linked (NewBlock), *)
(* and a step leaves what the other threads have in hand (Keeps, one lemma *)
(* per action). As long as nothing at all has met, every block is on the   *)
(* list or in one hand (Tidy, one lemma per action), so that a step        *)
(* changes the list as VlanHal has it.                                     *)
(*                                                                         *)
(* The theorems are about every behaviour of VlanConfigList in which the   *)
(* meetings are recorded (RecordedSpec), also those that go on after calls *)
(* have met, and about the instance, MCSpec.                               *)
(***************************************************************************)
EXTENDS MCMemory, FiniteSetTheorems, SequenceTheorems, NaturalsInduction, TLAPS

(* Induction, for a set of numbers instead of a predicate. *)
LEMMA LessIsWellFounded == IsWellFoundedOn({p \in Nat \X Nat : p[1] < p[2]}, Nat)
BY NatLessThanWellFounded, Zenon DEF OpToRel

LEMMA LeastElement ==
  ASSUME NEW T, T \subseteq Nat, T # {}
  PROVE  \E x \in T : \A y \in T : x <= y
<1>1. PICK x \in T : \A y \in T : ~(<<y, x>> \in {p \in Nat \X Nat : p[1] < p[2]})
  BY LessIsWellFounded, WFMin, Zenon
<1>2. ASSUME NEW y \in T, y < x PROVE FALSE
  <2>1. <<y, x>> \in {p \in Nat \X Nat : p[1] < p[2]}
    BY <1>2
  <2>. QED BY <1>1, <2>1
<1>. QED BY <1>2

LEMMA UpTo ==
  ASSUME NEW n \in Nat, NEW T, T \subseteq 0 .. n, 0 \in T,
         \A m \in T : m < n => m + 1 \in T
  PROVE  T = 0 .. n
<1>1. ASSUME (0 .. n) \ T # {} PROVE FALSE
  <2>1. (0 .. n) \ T \subseteq Nat
    OBVIOUS
  <2>. PICK x \in (0 .. n) \ T : \A y \in (0 .. n) \ T : x <= y
    BY <1>1, <2>1, LeastElement, Zenon
  <2>2. x - 1 \in T /\ x - 1 < n
    OBVIOUS
  <2>. QED BY <2>2
<1>. QED BY <1>1

-----------------------------------------------------------------------------
(* A sequence of blocks, each of which holds the address of the next one.  *)

Follows(first, nodes, c) ==
  /\ c \in Seq(Block) /\ IsInjective(c)
  /\ first = IF Len(c) = 0 THEN NIL ELSE c[1]
  /\ \A k \in 1 .. Len(c) :
       nodes[c[k]].next = IF k < Len(c) THEN c[k + 1] ELSE NIL

LEMMA NilIsNone == NIL \notin Block
BY NilAssumption DEF NilAssumption

LEMMA FewBlocks ==
  ASSUME NEW c \in Seq(Block), IsInjective(c)
  PROVE  Len(c) \in Nat /\ Len(c) <= Cardinality(Block) /\ Cardinality(Block) \in Nat
<1>1. c \in Injection(1 .. Len(c), Block) /\ Len(c) \in Nat
  BY DEF IsInjective, Injection
<1>2. Cardinality(1 .. Len(c)) <= Cardinality(Block) /\ Cardinality(Block) \in Nat
  BY <1>1, BlockAssumption, FS_Injection, FS_CardinalityType DEF BlockAssumption
<1>3. Cardinality(1 .. Len(c)) = Len(c)
  <2>1. /\ Len(c) \in Int /\ 1 \in Int
        /\ (IF 1 > Len(c) THEN 0 ELSE Len(c) - 1 + 1) = Len(c)
    BY <1>1
  <2>. QED BY <2>1, FS_Interval, Zenon
<1>. QED BY <1>1, <1>2, <1>3

(* The recursion of ChainFrom, and what it comes to. *)
Walks(first, nodes, f, n) ==
  f = [k \in 0 .. n |->
         IF k = 0 THEN first
         ELSE IF f[k - 1] = NIL THEN NIL ELSE nodes[f[k - 1]].next]

Stop(c, n) == [k \in 0 .. n |-> IF k < Len(c) THEN c[k + 1] ELSE NIL]

LEMMA StopWalks ==
  ASSUME NEW first, NEW nodes, NEW c, Follows(first, nodes, c),
         NEW n \in Nat, Len(c) <= n
  PROVE  Walks(first, nodes, Stop(c, n), n)
<1>. DEFINE w == Stop(c, n)
<1>1. /\ c \in Seq(Block) /\ Len(c) \in Nat
      /\ first = IF Len(c) = 0 THEN NIL ELSE c[1]
      /\ \A k \in 1 .. Len(c) :
           nodes[c[k]].next = IF k < Len(c) THEN c[k + 1] ELSE NIL
  BY DEF Follows
<1>2. \A k \in 0 .. n : w[k] = IF k < Len(c) THEN c[k + 1] ELSE NIL
  BY DEF Stop
<1>3. ASSUME NEW k \in 0 .. n
      PROVE  w[k] = IF k = 0 THEN first
                    ELSE IF w[k - 1] = NIL THEN NIL ELSE nodes[w[k - 1]].next
  <2>1. CASE k = 0
    BY <1>1, <1>2, <2>1
  <2>2. CASE k # 0
    <3>1. k - 1 \in 0 .. n /\ k - 1 + 1 = k /\ k \in Nat
      BY <2>2
    <3>2. w[k - 1] = IF k - 1 < Len(c) THEN c[k] ELSE NIL
      BY <1>2, <3>1
    <3>3. CASE k <= Len(c)
      <4>1. w[k - 1] = c[k] /\ c[k] \in Block /\ k \in 1 .. Len(c)
        BY <1>1, <2>2, <3>1, <3>2, <3>3
      <4>2. nodes[w[k - 1]].next = w[k]
        BY <1>1, <1>2, <4>1
      <4>. QED BY <2>2, <4>1, <4>2, NilIsNone
    <3>4. CASE ~(k <= Len(c))
      <4>1. w[k - 1] = NIL /\ w[k] = NIL
        BY <1>1, <1>2, <3>1, <3>2, <3>4
      <4>. QED BY <2>2, <4>1
    <3>. QED BY <3>3, <3>4
  <2>. QED BY <2>1, <2>2
<1>4. w = [k \in 0 .. n |-> w[k]]
  BY DEF Stop
<1>. HIDE DEF w
<1>5. Walks(first, nodes, w, n)
  BY <1>3, <1>4 DEF Walks
<1>. QED BY <1>5 DEF w

LEMMA WalksOnce ==
  ASSUME NEW first, NEW nodes, NEW n \in Nat, NEW f, NEW g,
         Walks(first, nodes, f, n), Walks(first, nodes, g, n)
  PROVE  f = g
<1>. DEFINE T == {m \in 0 .. n : f[m] = g[m]}
<1>1. \A k \in 0 .. n :
        /\ f[k] = IF k = 0 THEN first
                  ELSE IF f[k - 1] = NIL THEN NIL ELSE nodes[f[k - 1]].next
        /\ g[k] = IF k = 0 THEN first
                  ELSE IF g[k - 1] = NIL THEN NIL ELSE nodes[g[k - 1]].next
  BY DEF Walks
<1>2. 0 \in T
  BY <1>1
<1>3. ASSUME NEW m \in T, m < n PROVE m + 1 \in T
  <2>1. m + 1 \in 0 .. n /\ m + 1 # 0 /\ m + 1 - 1 = m /\ f[m] = g[m]
    BY <1>3
  <2>. QED BY <1>1, <2>1
<1>4. T = 0 .. n
  <2>1. T \subseteq 0 .. n
    OBVIOUS
  <2>. HIDE DEF T
  <2>. QED BY <1>2, <1>3, <2>1, UpTo
<1>5. \A k \in 0 .. n : f[k] = g[k]
  BY <1>4
<1>6. f = [k \in 0 .. n |-> f[k]] /\ g = [k \in 0 .. n |-> g[k]]
  BY DEF Walks
<1>. QED BY <1>5, <1>6

(* Chain is the sequence there is. *)
LEMMA ChainIs ==
  ASSUME NEW first, NEW nodes, NEW c, Follows(first, nodes, c)
  PROVE  ChainFrom(first, nodes) = c
<1>. DEFINE n == Cardinality(Block)
            w == Stop(c, n)
            nth == CHOOSE f : Walks(first, nodes, f, n)
<1>1. c \in Seq(Block) /\ Len(c) \in Nat /\ Len(c) <= n /\ n \in Nat
  BY FewBlocks DEF Follows
<1>. HIDE DEF n
<1>2. Walks(first, nodes, w, n)
  BY <1>1, StopWalks
<1>. HIDE DEF w
<1>3. Walks(first, nodes, nth, n)
  BY <1>2, Zenon
<1>. HIDE DEF nth
<1>4. nth = w
  BY <1>1, <1>2, <1>3, WalksOnce
<1>5. {k \in DOMAIN nth : nth[k] # NIL} = 0 .. (Len(c) - 1)
  BY <1>1, <1>4, NilIsNone DEF w, Stop
<1>6. Cardinality(0 .. (Len(c) - 1)) = Len(c)
  <2>1. /\ Len(c) - 1 \in Int /\ 0 \in Int
        /\ (IF 0 > Len(c) - 1 THEN 0 ELSE Len(c) - 1 - 0 + 1) = Len(c)
    BY <1>1
  <2>. QED BY <2>1, FS_Interval, Zenon
<1>7. ChainFrom(first, nodes) = [k \in 1 .. Len(c) |-> nth[k - 1]]
  BY <1>5, <1>6, Zenon DEF ChainFrom, nth, Walks, n
<1>8. \A k \in 1 .. Len(c) : nth[k - 1] = c[k]
  BY <1>1, <1>4 DEF w, Stop
<1>. QED BY <1>1, <1>7, <1>8

-----------------------------------------------------------------------------
(* What the steps do to such a sequence.                                   *)

Cut(c, j) == [i \in 1 .. (Len(c) - 1) |-> IF i < j THEN c[i] ELSE c[i + 1]]

Until(c, k, b) == [i \in 1 .. (k + 1) |-> IF i <= k THEN c[i] ELSE b]

LEMMA FollowsFacts ==
  ASSUME NEW first, NEW nodes, NEW c, Follows(first, nodes, c)
  PROVE  /\ Len(c) \in Nat /\ DOMAIN c = 1 .. Len(c) /\ c \in Seq(Block)
         /\ \A k \in 1 .. Len(c) : c[k] \in Block
         /\ \A i, k \in 1 .. Len(c) : c[i] = c[k] => i = k
         /\ first = IF Len(c) = 0 THEN NIL ELSE c[1]
         /\ \A k \in 1 .. Len(c) :
              nodes[c[k]].next = IF k < Len(c) THEN c[k + 1] ELSE NIL
BY DEF Follows, IsInjective

LEMMA BlocksInOrder ==
  ASSUME NEW n \in Nat, NEW c, c = [k \in 1 .. n |-> c[k]],
         \A k \in 1 .. n : c[k] \in Block,
         \A i, k \in 1 .. n : c[i] = c[k] => i = k
  PROVE  c \in Seq(Block) /\ Len(c) = n /\ IsInjective(c)
<1>1. DOMAIN c = 1 .. n
  OBVIOUS
<1>2. c \in Seq(Block) /\ Len(c) = n
  OBVIOUS
<1>3. IsInjective(c)
  BY <1>1 DEF IsInjective
<1>. QED BY <1>2, <1>3

LEMMA SameFollows ==
  ASSUME NEW first, NEW nodes, NEW c, Follows(first, nodes, c), NEW others,
         \A k \in 1 .. Len(c) : others[c[k]].next = nodes[c[k]].next
  PROVE  Follows(first, others, c)
BY DEF Follows

LEMMA OneFollows ==
  ASSUME NEW nodes, NEW b \in Block, nodes[b].next = NIL
  PROVE  Follows(b, nodes, <<b>>)
BY DEF Follows, IsInjective

(* The k-th block gets another successor, with nothing behind it. *)
LEMMA UntilFollows ==
  ASSUME NEW first, NEW nodes, NEW c, Follows(first, nodes, c),
         NEW k \in 1 .. Len(c), NEW b \in Block, NEW others,
         \A i \in 1 .. Len(c) : c[i] # b,
         \A i \in 1 .. Len(c) : i < k => others[c[i]].next = nodes[c[i]].next,
         others[c[k]].next = b, others[b].next = NIL
  PROVE  Follows(first, others, Until(c, k, b)) /\ Len(Until(c, k, b)) = k + 1
<1>f. /\ Len(c) \in Nat
      /\ \A i \in 1 .. Len(c) : c[i] \in Block
      /\ \A i, m \in 1 .. Len(c) : c[i] = c[m] => i = m
      /\ first = IF Len(c) = 0 THEN NIL ELSE c[1]
      /\ \A i \in 1 .. Len(c) :
           nodes[c[i]].next = IF i < Len(c) THEN c[i + 1] ELSE NIL
  BY FollowsFacts
<1>. PICK d : d = Until(c, k, b)
  OBVIOUS
<1>0. /\ Len(c) \in Nat /\ k \in Nat /\ k >= 1 /\ k <= Len(c)
      /\ k + 1 \in Nat /\ k + 1 # 0
  BY <1>f
<1>1. /\ d = [i \in 1 .. (k + 1) |-> d[i]]
      /\ \A i \in 1 .. (k + 1) : d[i] = IF i <= k THEN c[i] ELSE b
  BY DEF Until
<1>2. \A i \in 1 .. (k + 1) : d[i] \in Block
  BY <1>0, <1>1, <1>f
<1>3. \A i, j \in 1 .. (k + 1) : d[i] = d[j] => i = j
  BY <1>0, <1>1, <1>f
<1>4. first = d[1]
  BY <1>0, <1>1, <1>f
<1>5. \A i \in 1 .. (k + 1) :
        others[d[i]].next = IF i < k + 1 THEN d[i + 1] ELSE NIL
  <2>. TAKE i \in 1 .. (k + 1)
  <2>1. CASE i < k
    <3>1. i \in 1 .. Len(c) /\ i < Len(c) /\ i + 1 <= k /\ i + 1 \in 1 .. (k + 1)
          /\ i <= k /\ i < k + 1
      BY <1>0, <2>1
    <3>2. nodes[c[i]].next = c[i + 1]
      BY <3>1, <1>f
    <3>3. d[i] = c[i] /\ d[i + 1] = c[i + 1]
      BY <1>1, <3>1
    <3>. QED BY <2>1, <3>1, <3>2, <3>3
  <2>2. CASE i = k
    <3>1. d[i] = c[i] /\ d[i + 1] = b /\ i < k + 1
      BY <1>0, <1>1, <2>2
    <3>. QED BY <2>2, <3>1
  <2>3. CASE i = k + 1
    BY <1>0, <1>1, <2>3
  <2>. QED BY <1>0, <2>1, <2>2, <2>3
<1>6. first = IF k + 1 = 0 THEN NIL ELSE d[1]
  BY <1>0, <1>4
<1>7. Follows(first, others, d) /\ Len(d) = k + 1
  <2>1. d \in Seq(Block) /\ Len(d) = k + 1 /\ IsInjective(d)
    <3>1. PICK n : n = k + 1
      OBVIOUS
    <3>2. /\ n \in Nat /\ d = [i \in 1 .. n |-> d[i]]
          /\ \A i \in 1 .. n : d[i] \in Block
          /\ \A i, m \in 1 .. n : d[i] = d[m] => i = m
      BY <1>0, <1>1, <1>2, <1>3, <3>1
    <3>3. d \in Seq(Block) /\ Len(d) = n /\ IsInjective(d)
      BY <3>2, BlocksInOrder
    <3>. QED BY <3>1, <3>3
  <2>. QED BY <1>5, <1>6, <2>1 DEF Follows
<1>. QED BY <1>7

(* The j-th block is left out. *)
LEMMA CutFollows ==
  ASSUME NEW first, NEW nodes, NEW c, Follows(first, nodes, c),
         NEW j \in 1 .. Len(c), NEW start, NEW others,
         start = IF j = 1 THEN nodes[c[1]].next ELSE first,
         \A i \in 1 .. Len(c) :
           others[c[i]].next = IF i = j - 1 THEN nodes[c[j]].next ELSE nodes[c[i]].next
  PROVE  Follows(start, others, Cut(c, j)) /\ Len(Cut(c, j)) = Len(c) - 1
<1>f. /\ Len(c) \in Nat
      /\ \A i \in 1 .. Len(c) : c[i] \in Block
      /\ \A i, m \in 1 .. Len(c) : c[i] = c[m] => i = m
      /\ first = IF Len(c) = 0 THEN NIL ELSE c[1]
      /\ \A i \in 1 .. Len(c) :
           nodes[c[i]].next = IF i < Len(c) THEN c[i + 1] ELSE NIL
  BY FollowsFacts
<1>. PICK d : d = Cut(c, j)
  OBVIOUS
<1>. PICK n : n = Len(c) - 1
  OBVIOUS
<1>0. /\ Len(c) \in Nat /\ j \in Nat /\ j >= 1 /\ j <= Len(c)
      /\ n \in Nat /\ n = Len(c) - 1
  BY <1>f
<1>1. /\ d = [i \in 1 .. n |-> d[i]]
      /\ \A i \in 1 .. n : d[i] = IF i < j THEN c[i] ELSE c[i + 1]
  BY DEF Cut
<1>2. \A i \in 1 .. n : d[i] \in Block
  BY <1>0, <1>1, <1>f, SMTT(40)
<1>3. \A i, k \in 1 .. n : d[i] = d[k] => i = k
  <2>. TAKE i, k \in 1 .. n
  <2>1. /\ i \in 1 .. Len(c) /\ i + 1 \in 1 .. Len(c)
        /\ k \in 1 .. Len(c) /\ k + 1 \in 1 .. Len(c)
    BY <1>0
  <2>2. (c[i] = c[k] => i = k) /\ (c[i] = c[k + 1] => i = k + 1)
        /\ (c[i + 1] = c[k] => i + 1 = k) /\ (c[i + 1] = c[k + 1] => i + 1 = k + 1)
    BY <1>f, <2>1
  <2>. QED BY <1>0, <1>1, <2>1, <2>2
<1>4. start = IF n = 0 THEN NIL ELSE d[1]
  <2>1. CASE j = 1
    <3>1. start = IF 1 < Len(c) THEN c[1 + 1] ELSE NIL
      BY <1>0, <1>f, <2>1
    <3>2. n # 0 => 1 \in 1 .. n /\ ~(1 < j)
      BY ONLY <1>0, <2>1
    <3>3. n = 0 <=> ~(1 < Len(c))
      BY ONLY <1>0, <2>1
    <3>. QED BY <1>1, <3>1, <3>2, <3>3
  <2>2. CASE j # 1
    <3>1. n # 0 /\ 1 \in 1 .. n /\ 1 < j /\ Len(c) # 0
      BY <1>0, <2>2
    <3>. QED BY <1>1, <1>f, <2>2, <3>1
  <2>. QED BY <2>1, <2>2
<1>5. \A i \in 1 .. n : others[d[i]].next = IF i < n THEN d[i + 1] ELSE NIL
  <2>. TAKE i \in 1 .. n
  <2>1. CASE i < j - 1
    <3>1. d[i] = c[i] /\ d[i + 1] = c[i + 1] /\ i \in 1 .. Len(c) /\ i # j - 1
          /\ i < Len(c) /\ i < n
      BY <1>0, <1>1, <2>1
    <3>. QED BY <3>1, <1>f
  <2>2. CASE i = j - 1
    <3>1. d[i] = c[i] /\ i \in 1 .. Len(c)
      BY <1>0, <1>1, <2>2
    <3>2. others[c[i]].next = IF j < Len(c) THEN c[j + 1] ELSE NIL
      BY <2>2, <3>1, <1>f
    <3>3. i < n <=> j < Len(c)
      BY <1>0, <2>2
    <3>4. i < n => d[i + 1] = c[j + 1]
      BY <1>0, <1>1, <2>2
    <3>. QED BY <3>1, <3>2, <3>3, <3>4
  <2>3. CASE i > j - 1
    <3>1. d[i] = c[i + 1] /\ i + 1 \in 1 .. Len(c) /\ i + 1 # j - 1
          /\ (i < n <=> i + 1 < Len(c))
      BY <1>0, <1>1, <2>3
    <3>2. others[c[i + 1]].next = IF i + 1 < Len(c) THEN c[i + 1 + 1] ELSE NIL
      BY <3>1, <1>f
    <3>3. i < n => d[i + 1] = c[i + 1 + 1]
      BY <1>0, <1>1, <2>3
    <3>. QED BY <3>1, <3>2, <3>3
  <2>. QED BY <1>0, <2>1, <2>2, <2>3
<1>6. Follows(start, others, d) /\ Len(d) = n
  <2>1. d \in Seq(Block) /\ Len(d) = n /\ IsInjective(d)
    BY <1>0, <1>1, <1>2, <1>3, BlocksInOrder
  <2>. QED BY <1>4, <1>5, <2>1 DEF Follows
<1>. QED BY <1>6

-----------------------------------------------------------------------------
(* The inductive invariant.  The list alone, with its history, is all it   *)
(* is about.                                                               *)

RecordedSpec ==
  /\ ListInit
  /\ met = {}
  /\ due = [t \in Walker |-> NIL]
  /\ [][ListNext /\ RecordMeetings]_<<listVars, listHistory>>


Labels == {"idle", "malloc", "head", "first", "tail", "link", "start", "search",
           "unlink", "free", "astray"}

ListTypeOK ==
  /\ head \in Block \cup {NIL}
  /\ node \in [Block -> [used : BOOLEAN, name : Name \cup {NIL}, id : Id \cup {NIL},
                         next : Block \cup {NIL}]]
  /\ at \in [Walker -> Labels]
  /\ task \in [Walker -> Tasks \cup {NIL}]
  /\ mine \in [Walker -> Block \cup {NIL}]
  /\ prev \in [Walker -> Block \cup {NIL}]
  /\ curr \in [Walker -> Block \cup {NIL}]
  /\ found \in [Walker -> Id \cup {NIL}]

Inserting == {"malloc", "head", "first", "tail", "link"}

(* What a call has in its hands. *)
CallAt(t) ==
  /\ at[t] \in Inserting => task[t] \in Tasks /\ task[t].op = "insert"
  /\ at[t] \in {"start", "search"} => task[t] \in Tasks /\ task[t].op # "insert"
  /\ at[t] \in {"unlink", "free"} => task[t] \in Tasks /\ task[t].op = "delete"
  /\ at[t] \in {"idle", "malloc", "start", "search", "unlink", "free"} => mine[t] = NIL
  /\ at[t] \in {"head", "first", "tail", "link"} => mine[t] # NIL
  /\ at[t] \in {"idle", "malloc", "head", "first", "start"} => curr[t] = NIL
  /\ at[t] \in {"tail", "link", "unlink", "free"} => curr[t] # NIL

(* A block that is in use and has not been taken out of the list to be     *)
(* freed.                                                                  *)
Live(b) ==
  /\ b \in Block /\ node[b].used
  /\ \A t \in Walker : at[t] = "free" => curr[t] # b

(* Lost blocks may point to each other, never into the list.               *)
Shape ==
  /\ Follows(head, node, Chain)
  /\ \A k \in 1 .. Len(Chain) : Live(Chain[k])
  /\ \A b \in Block : Live(b) => node[b].next = NIL \/ Live(node[b].next)
  /\ \A a, b \in Block :
       Live(a) /\ Live(b) /\ node[a].next = node[b].next => a = b \/ node[a].next = NIL
  /\ \A b \in Block : Live(b) /\ head # NIL => node[b].next # head

(* Nothing points to a block before it is linked. *)
NewBlock(t) ==
  mine[t] # NIL =>
    /\ Live(mine[t])
    /\ node[mine[t]] = Fresh(task[t].name, task[t].id)
    /\ head # mine[t]
    /\ \A b \in Block : Live(b) => node[b].next # mine[t]
    /\ \A s \in Walker : curr[s] # mine[t]
    /\ \A s \in Walker \ {t} : mine[s] # mine[t]

Walking(t) ==
  /\ at[t] # "astray"
  /\ curr[t] # NIL /\ at[t] # "free" => Live(curr[t])
  /\ at[t] = "free" => node[curr[t]].used

(* A deletion is alone, and knows what is before the entry it has come to. *)
Deleting(t) ==
  at[t] # "idle" /\ task[t].op = "delete" =>
    /\ \A s \in Walker \ {t} : at[s] = "idle"
    /\ at[t] \in {"search", "unlink"} =>
         \E j \in 1 .. Len(Chain) + 1 :
           /\ curr[t] = IF j <= Len(Chain) THEN Chain[j] ELSE NIL
           /\ prev[t] = IF j = 1 THEN NIL ELSE Chain[j - 1]
           /\ \A i \in 1 .. (j - 1) : node[Chain[i]].name # task[t].name
    /\ at[t] = "unlink" => node[curr[t]].name = task[t].name

Good == Shape /\ \A t \in Walker : NewBlock(t) /\ Walking(t) /\ Deleting(t)

-----------------------------------------------------------------------------
(* Types, and what a call has in its hands.                                *)

(* What the other threads have in their hands stays. *)
Others(t) ==
  \A s \in Walker \ {t} :
    /\ at'[s] = at[s] /\ task'[s] = task[s] /\ mine'[s] = mine[s]
    /\ prev'[s] = prev[s] /\ curr'[s] = curr[s]

LEMMA OthersStay ==
  ASSUME ListTypeOK, NEW t \in Walker,
         (\E call \in Tasks : Enter(t, call)) \/ ListStep(t)
  PROVE  Others(t)
<1>1. CASE \E call \in Tasks : Enter(t, call)
  BY <1>1 DEF Enter, Others, ListTypeOK
<1>2. CASE Malloc(t)
  BY <1>2 DEF Malloc, Others, ListTypeOK, Done, GoTo
<1>3. CASE LookAtHead(t) \/ ToTail(t) \/ Start(t) \/ Astray(t)
  BY <1>3 DEF LookAtHead, ToTail, Start, Astray, Others, ListTypeOK, GoTo
<1>4. CASE First(t) \/ Link(t) \/ Free(t)
  BY <1>4 DEF First, Link, Free, Others, ListTypeOK, Done
<1>5. CASE Search(t)
  BY <1>5 DEF Search, Others, ListTypeOK, Done, GoTo, Advance, Found
<1>6. CASE Unlink(t)
  BY <1>6 DEF Unlink, Others, ListTypeOK, GoTo
<1>. QED BY <1>1, <1>2, <1>3, <1>4, <1>5, <1>6 DEF ListStep

LEMMA TypeKept ==
  ASSUME ListTypeOK, \A t \in Walker : CallAt(t), ListNext
  PROVE  ListTypeOK' /\ \A t \in Walker : CallAt(t)'
<1>. PICK t \in Walker : (\E call \in Tasks : Enter(t, call)) \/ ListStep(t)
  BY DEF ListNext
<1>1. Others(t)
  BY OthersStay
<1>2. \A s \in Walker \ {t} : CallAt(s)'
  BY <1>1 DEF Others, CallAt
<1>3. ListTypeOK' /\ CallAt(t)'
  <2>. USE DEF ListTypeOK, Labels
  <2>0. CallAt(t)
    OBVIOUS
  <2>1. CASE \E call \in Tasks : Enter(t, call)
    <3>. PICK call \in Tasks : Enter(t, call)
      BY <2>1
    <3>1. ListTypeOK'
      BY DEF Enter
    <3>2. CallAt(t)'
      BY <2>0 DEF Enter, CallAt, Inserting, ListTypeOK
    <3>. QED BY <3>1, <3>2
  <2>2. CASE Malloc(t)
    <3>1. CASE Done(t, NIL) /\ UNCHANGED <<node, head>>
      BY <2>0, <3>1 DEF Done, CallAt, Inserting
    <3>2. ASSUME NEW b \in Block,
                 node' = [node EXCEPT ![b] = Fresh(task[t].name, task[t].id)],
                 mine' = [mine EXCEPT ![t] = b], GoTo(t, "head"),
                 UNCHANGED <<prev, curr, head>>
          PROVE  ListTypeOK' /\ CallAt(t)'
      <4>1. task[t].name \in Name /\ task[t].id \in Id
        BY <2>0, <2>2 DEF Malloc, CallAt, Inserting, Tasks
      <4>2. ListTypeOK'
        BY <3>2, <4>1 DEF Fresh, GoTo
      <4>3. CallAt(t)'
        BY <2>0, <2>2, <3>2, NilIsNone DEF Malloc, CallAt, Inserting, GoTo
      <4>. QED BY <4>2, <4>3
    <3>. QED BY <2>2, <3>1, <3>2 DEF Malloc
  <2>3. CASE LookAtHead(t)
    BY <2>0, <2>3 DEF LookAtHead, GoTo, CallAt, Inserting
  <2>4. CASE First(t)
    BY <2>0, <2>4 DEF First, Done, CallAt, Inserting
  <2>5. CASE ToTail(t)
    <3>1. curr[t] \in Block /\ node[curr[t]].next \in Block \cup {NIL}
      BY <2>5 DEF ToTail, Holds
    <3>2. ListTypeOK'
      BY <2>5, <3>1 DEF ToTail
    <3>3. CallAt(t)'
      BY <2>0, <2>5 DEF ToTail, CallAt, Inserting
    <3>. QED BY <3>2, <3>3
  <2>6. CASE Link(t)
    <3>1. curr[t] \in Block
      BY <2>6 DEF Link, Holds
    <3>2. CallAt(t)'
      BY <2>6 DEF Link, Done, CallAt, Inserting
    <3>3. node' \in [Block -> [used : BOOLEAN, name : Name \cup {NIL},
                               id : Id \cup {NIL}, next : Block \cup {NIL}]]
      BY <2>6, <3>1 DEF Link
    <3>. QED BY <2>6, <3>2, <3>3 DEF Link, Done
  <2>7. CASE Start(t)
    BY <2>0, <2>7 DEF Start, GoTo, CallAt, Inserting
  <2>8. CASE Search(t)
    <3>1. CASE curr[t] = NIL /\ Done(t, found[t])
      BY <2>0, <2>8, <3>1 DEF Search, Done, CallAt, Inserting
    <3>2. CASE Holds(curr[t]) /\ Advance(t)
      <4>1. node[curr[t]].next \in Block \cup {NIL}
        BY <3>2 DEF Holds
      <4>. QED BY <2>0, <2>8, <3>2, <4>1 DEF Search, Advance, CallAt, Inserting
    <3>3. CASE /\ Holds(curr[t]) /\ task[t].op = "delete"
               /\ GoTo(t, "unlink") /\ UNCHANGED <<mine, prev, curr>>
      BY <2>0, <2>8, <3>3 DEF Search, GoTo, CallAt, Inserting, Holds
    <3>4. CASE Holds(curr[t]) /\ Found(t)
      <4>1. node[curr[t]].id \in Id \cup {NIL}
        BY <3>4 DEF Holds
      <4>. QED BY <2>0, <2>8, <3>4, <4>1 DEF Search, Found, Done, CallAt, Inserting
    <3>. QED BY <2>8, <3>1, <3>2, <3>3, <3>4 DEF Search
  <2>9. CASE Unlink(t)
    <3>1. /\ curr[t] \in Block /\ node[curr[t]].next \in Block \cup {NIL}
          /\ prev[t] = NIL \/ prev[t] \in Block
      BY <2>9 DEF Unlink, Holds
    <3>2. CallAt(t)'
      BY <2>0, <2>9 DEF Unlink, GoTo, CallAt, Inserting
    <3>3. /\ node' \in [Block -> [used : BOOLEAN, name : Name \cup {NIL},
                                  id : Id \cup {NIL}, next : Block \cup {NIL}]]
          /\ head' \in Block \cup {NIL}
      BY <2>9, <3>1 DEF Unlink, Holds
    <3>. QED BY <2>9, <3>2, <3>3 DEF Unlink, GoTo
  <2>10. CASE Free(t)
    BY <2>0, <2>10 DEF Free, Done, Holds, Unused, CallAt, Inserting
  <2>11. CASE Astray(t)
    BY <2>0, <2>11 DEF Astray, GoTo, CallAt, Inserting
  <2>. QED BY <2>1, <2>2, <2>3, <2>4, <2>5, <2>6, <2>7, <2>8, <2>9, <2>10, <2>11
           DEF ListStep
<1>. QED BY <1>2, <1>3

-----------------------------------------------------------------------------
(* Which calls have met.                                                   *)

LEMMA MeetingsStay ==
  ASSUME RecordMeetings
  PROVE  /\ met \subseteq met'
         /\ (\A u \in Walker : ~Begins(u)) => met' = met
         /\ \A u \in Walker : Begins(u) => Meeting(u) \subseteq met'
BY Zenon DEF RecordMeetings

LEMMA NoOneMet ==
  ASSUME RecordMeetings, "delete" \notin met', NEW t \in Walker, Begins(t),
         NEW s \in Walker, at[s] # "idle"
  PROVE  task[s].op # "delete" /\ task'[t].op # "delete"
<1>1. "delete" \notin Meeting(t)
  BY MeetingsStay
<1>2. task[s].op \in {task[u].op : u \in {v \in Walker : at[v] # "idle"}}
  OBVIOUS
<1>. QED BY <1>1, <1>2 DEF Meeting

LEMMA OnlyOneBegins ==
  ASSUME ListTypeOK, NEW t \in Walker, Others(t), at[t] # "idle", RecordMeetings
  PROVE  met' = met
<1>1. \A u \in Walker : ~Begins(u)
  BY DEF Others, Begins
<1>. QED BY <1>1, MeetingsStay

-----------------------------------------------------------------------------
(* What a step leaves of the shape of the list.                            *)

LEMMA ChainFacts ==
  ASSUME ListTypeOK, Shape
  PROVE  /\ Len(Chain) \in Nat /\ DOMAIN Chain = 1 .. Len(Chain)
         /\ Chain \in Seq(Block)
         /\ \A k \in 1 .. Len(Chain) : Chain[k] \in Block /\ Live(Chain[k])
         /\ \A i, k \in 1 .. Len(Chain) : Chain[i] = Chain[k] => i = k
         /\ head = IF Len(Chain) = 0 THEN NIL ELSE Chain[1]
         /\ \A k \in 1 .. Len(Chain) :
              node[Chain[k]].next = IF k < Len(Chain) THEN Chain[k + 1] ELSE NIL
         /\ head # NIL => Live(head)
<1>1. Follows(head, node, Chain) /\ \A k \in 1 .. Len(Chain) : Live(Chain[k])
  BY DEF Shape
<1>. PICK c : c = Chain
  OBVIOUS
<1>2. /\ Len(c) \in Nat /\ DOMAIN c = 1 .. Len(c)
      /\ c \in Seq(Block)
      /\ \A k \in 1 .. Len(c) : c[k] \in Block
      /\ \A i, k \in 1 .. Len(c) : c[i] = c[k] => i = k
      /\ head = IF Len(c) = 0 THEN NIL ELSE c[1]
      /\ \A k \in 1 .. Len(c) :
           node[c[k]].next = IF k < Len(c) THEN c[k + 1] ELSE NIL
  BY <1>1, FollowsFacts
<1>3. head # NIL => Live(head)
  BY <1>1, <1>2
<1>. QED BY <1>1, <1>2, <1>3

LEMMA NotOnChain ==
  ASSUME ListTypeOK, Shape, NEW b \in Block, head # b,
         \A a \in Block : Live(a) => node[a].next # b
  PROVE  \A k \in 1 .. Len(Chain) : Chain[k] # b
<1>. PICK c : c = Chain
  OBVIOUS
<1>1. /\ Len(c) \in Nat
      /\ \A k \in 1 .. Len(c) : c[k] \in Block /\ Live(c[k])
      /\ head = IF Len(c) = 0 THEN NIL ELSE c[1]
      /\ \A k \in 1 .. Len(c) :
           node[c[k]].next = IF k < Len(c) THEN c[k + 1] ELSE NIL
  BY ChainFacts
<1>2. ASSUME NEW k \in 1 .. Len(c), c[k] = b PROVE FALSE
  <2>1. CASE k = 1
    BY <1>1, <1>2, <2>1
  <2>2. CASE k # 1
    <3>1. k - 1 \in 1 .. Len(c) /\ k - 1 < Len(c) /\ k - 1 + 1 = k
      BY <1>1, <2>2
    <3>. QED BY <1>1, <1>2, <3>1
  <2>. QED BY <2>1, <2>2
<1>. QED BY <1>2

LEMMA SameLive ==
  ASSUME NEW t \in Walker, Others(t), at[t] # "free", at'[t] # "free",
         NEW b \in Block, node'[b].used = node[b].used
  PROVE  Live(b)' <=> Live(b)
BY DEF Live, Others

(* A step that changes neither the list nor who is about to free a block. *)
LEMMA ReadOnly ==
  ASSUME Shape, NEW t \in Walker, Others(t), at[t] # "free", at'[t] # "free",
         node' = node, head' = head
  PROVE  Shape' /\ Chain' = Chain /\ \A b \in Block : Live(b)' <=> Live(b)
<1>1. \A b \in Block : Live(b)' <=> Live(b)
  BY SameLive
<1>2. Chain' = Chain
  BY DEF Chain
<1>. PICK c : c = Chain
  OBVIOUS
<1>3. Chain' = c /\ Follows(head', node', c)
  BY <1>2 DEF Shape
<1>4. \A k \in 1 .. Len(c) : c[k] \in Block /\ Live(c[k])
  BY FollowsFacts DEF Shape
<1>5. \A k \in 1 .. Len(c) : Live(c[k])'
  BY <1>1, <1>4
<1>6. Follows(head, node, Chain)' /\ (\A k \in 1 .. Len(Chain) : Live(Chain[k]))'
  BY <1>3, <1>5
<1>7. /\ (\A b \in Block : Live(b) => node[b].next = NIL \/ Live(node[b].next))'
      /\ (\A b \in Block : Live(b) /\ head # NIL => node[b].next # head)'
  BY <1>1 DEF Shape, Live
<1>8. (\A a, b \in Block :
         Live(a) /\ Live(b) /\ node[a].next = node[b].next => a = b \/ node[a].next = NIL)'
  BY <1>1 DEF Shape
<1>. QED BY <1>1, <1>2, <1>6, <1>7, <1>8 DEF Shape

LEMMA ReadOnlyGood ==
  ASSUME ListTypeOK, Good, NEW t \in Walker, Others(t), at[t] # "idle",
         at[t] # "free", at'[t] \notin {"free", "astray"}, node' = node, head' = head,
         mine'[t] = NIL \/ (mine'[t] = mine[t] /\ task'[t] = task[t]),
         \E b \in Block \cup {NIL} : curr'[t] = b /\ (b # NIL => Live(b)),
         \A s \in Walker : mine[s] # NIL => curr'[t] # mine[s],
         Deleting(t)'
  PROVE  Good' /\ Chain' = Chain
<1>1. Shape' /\ Chain' = Chain /\ \A b \in Block : Live(b)' <=> Live(b)
  BY ReadOnly DEF Good
<1>2. ASSUME NEW s \in Walker PROVE NewBlock(s)'
  <2>1. NewBlock(s) /\ mine[s] \in Block \cup {NIL}
    BY DEF Good, ListTypeOK
  <2>2. \A u \in Walker : curr'[u] = curr[u] \/ u = t
    BY DEF Others
  <2>3. \A u \in Walker : mine'[u] = mine[u] \/ mine'[u] = NIL
    BY DEF Others
  <2>4. mine'[s] # NIL => mine'[s] = mine[s] /\ task'[s] = task[s]
    BY DEF Others
  <2>. QED BY <1>1, <2>1, <2>2, <2>3, <2>4 DEF NewBlock
<1>3. ASSUME NEW s \in Walker PROVE Walking(s)'
  <2>1. CASE s = t
    <3>1. PICK b \in Block \cup {NIL} : curr'[t] = b /\ (b # NIL => Live(b))
      OBVIOUS
    <3>2. b # NIL => Live(b)'
      BY <1>1, <3>1
    <3>. QED BY <2>1, <3>1, <3>2 DEF Walking
  <2>2. CASE s # t
    <3>1. Walking(s) /\ at'[s] = at[s] /\ curr'[s] = curr[s] /\ curr[s] \in Block \cup {NIL}
      BY <2>2 DEF Good, Others, ListTypeOK
    <3>. QED BY <1>1, <3>1 DEF Walking
  <2>. QED BY <2>1, <2>2
<1>4. ASSUME NEW s \in Walker PROVE Deleting(s)'
  <2>1. CASE s # t
    <3>1. Deleting(s) /\ at'[s] = at[s] /\ task'[s] = task[s]
      BY <2>1 DEF Good, Others
    <3>2. ~(at[s] # "idle" /\ task[s].op = "delete")
      BY <2>1, <3>1 DEF Deleting
    <3>. QED BY <3>1, <3>2 DEF Deleting
  <2>. QED BY <2>1
<1>. QED BY <1>1, <1>2, <1>3, <1>4 DEF Good

-----------------------------------------------------------------------------
(* The invariant is kept, one step after the other.                        *)

LEMMA EnterKeeps ==
  ASSUME ListTypeOK, \A s \in Walker : CallAt(s), Good, NEW t \in Walker,
         NEW call \in Tasks, Enter(t, call), RecordMeetings, "delete" \notin met'
  PROVE  Good' /\ Chain' = Chain
<1>1. Others(t) /\ CallAt(t)
  BY OthersStay
<1>2. /\ at[t] = "idle" /\ at'[t] \in {"malloc", "start"} /\ task'[t] = call
      /\ head' = head /\ node' = node /\ mine' = mine /\ prev' = prev /\ curr' = curr
      /\ mine[t] = NIL /\ curr[t] = NIL
  BY <1>1 DEF Enter, ListTypeOK, CallAt
<1>3. Shape' /\ Chain' = Chain /\ \A b \in Block : Live(b)' <=> Live(b)
  BY <1>1, <1>2, ReadOnly DEF Good
<1>4. Begins(t)
  BY <1>2 DEF Begins
<1>5. \A s \in Walker : at[s] # "idle" => task[s].op # "delete" /\ call.op # "delete"
  BY <1>2, <1>4, NoOneMet
<1>6. ASSUME NEW s \in Walker PROVE NewBlock(s)'
  <2>1. NewBlock(s) /\ mine[s] \in Block \cup {NIL}
    BY DEF Good, ListTypeOK
  <2>2. mine[s] # NIL => task'[s] = task[s]
    BY <1>1, <1>2 DEF Others
  <2>. QED BY <1>2, <1>3, <2>1, <2>2 DEF NewBlock
<1>7. ASSUME NEW s \in Walker PROVE Walking(s)'
  <2>1. Walking(s) /\ curr[s] \in Block \cup {NIL}
    BY DEF Good, ListTypeOK
  <2>2. at'[s] = at[s] \/ (s = t /\ curr[s] = NIL)
    BY <1>1, <1>2 DEF Others
  <2>. QED BY <1>2, <1>3, <2>1, <2>2 DEF Walking
<1>8. ASSUME NEW s \in Walker PROVE Deleting(s)'
  <2>1. ASSUME at'[s] # "idle", task'[s].op = "delete"
        PROVE  /\ s = t /\ \A u \in Walker \ {t} : at'[u] = "idle"
               /\ at'[t] = "start"
    BY <1>1, <1>2, <1>5, <2>1 DEF Others, Enter, ListTypeOK
  <2>. QED BY <2>1 DEF Deleting
<1>. QED BY <1>3, <1>6, <1>7, <1>8 DEF Good

LEMMA LookAtHeadKeeps ==
  ASSUME ListTypeOK, \A s \in Walker : CallAt(s), Good, NEW t \in Walker,
         LookAtHead(t)
  PROVE  Good' /\ Chain' = Chain
<1>1. Others(t) /\ CallAt(t)
  BY OthersStay DEF ListStep
<1>2. /\ at[t] = "head" /\ at'[t] \in {"first", "tail"} /\ curr'[t] = head
      /\ head' = head /\ node' = node /\ mine' = mine /\ task' = task
  BY DEF LookAtHead, GoTo, ListTypeOK
<1>3. head \in Block \cup {NIL} /\ (head # NIL => Live(head))
  BY ChainFacts DEF Good, ListTypeOK
<1>4. \A s \in Walker : mine[s] # NIL => head # mine[s]
  BY DEF Good, NewBlock
<1>5. Deleting(t)'
  BY <1>1, <1>2 DEF Deleting, CallAt, Inserting
<1>. QED BY <1>1, <1>2, <1>3, <1>4, <1>5, ReadOnlyGood

LEMMA ToTailKeeps ==
  ASSUME ListTypeOK, \A s \in Walker : CallAt(s), Good, NEW t \in Walker, ToTail(t)
  PROVE  Good' /\ Chain' = Chain
<1>1. Others(t) /\ CallAt(t)
  BY OthersStay DEF ListStep
<1>2. /\ at[t] = "tail" /\ at'[t] \in {"tail", "link"}
      /\ head' = head /\ node' = node /\ mine' = mine /\ task' = task
      /\ \/ curr'[t] = curr[t]
         \/ curr'[t] = node[curr[t]].next /\ node[curr[t]].next # NIL
  BY DEF ToTail, ListTypeOK
<1>3. curr[t] \in Block /\ Live(curr[t]) /\ node[curr[t]].next \in Block \cup {NIL}
  BY <1>2 DEF ToTail, Holds, ListTypeOK, Good, Walking
<1>4. node[curr[t]].next # NIL => Live(node[curr[t]].next)
  BY <1>3 DEF Good, Shape
<1>5. \A s \in Walker : mine[s] # NIL =>
        curr[t] # mine[s] /\ node[curr[t]].next # mine[s]
  BY <1>3 DEF Good, NewBlock
<1>6. Deleting(t)'
  BY <1>1, <1>2 DEF Deleting, CallAt, Inserting
<1>7. \E b \in Block \cup {NIL} : curr'[t] = b /\ (b # NIL => Live(b))
  BY <1>2, <1>3, <1>4
<1>. QED BY <1>1, <1>2, <1>5, <1>6, <1>7, ReadOnlyGood

LEMMA StartKeeps ==
  ASSUME ListTypeOK, \A s \in Walker : CallAt(s), Good, NEW t \in Walker, Start(t)
  PROVE  Good' /\ Chain' = Chain
<1>1. Others(t) /\ CallAt(t)
  BY OthersStay DEF ListStep
<1>2. /\ at[t] = "start" /\ at'[t] = "search" /\ curr'[t] = head /\ prev'[t] = NIL
      /\ head' = head /\ node' = node /\ mine' = mine /\ task' = task
  BY DEF Start, GoTo, ListTypeOK
<1>3. head \in Block \cup {NIL} /\ (head # NIL => Live(head))
  BY ChainFacts DEF Good, ListTypeOK
<1>4. \A s \in Walker : mine[s] # NIL => head # mine[s]
  BY DEF Good, NewBlock
<1>5. Chain' = Chain
  BY <1>2 DEF Chain
<1>6. Deleting(t)'
  <2>1. ASSUME task[t].op = "delete"
        PROVE  \A s \in Walker \ {t} : at'[s] = "idle"
    BY <1>1, <1>2, <2>1 DEF Good, Deleting, Others
  <2>. PICK c : c = Chain
    OBVIOUS
  <2>2. head = (IF 1 <= Len(c) THEN c[1] ELSE NIL) /\ Len(c) \in Nat
    BY ChainFacts DEF Good
  <2>3. /\ 1 \in 1 .. Len(c) + 1
        /\ curr'[t] = IF 1 <= Len(c) THEN c[1] ELSE NIL
        /\ \A i \in 1 .. (1 - 1) : node'[c[i]].name # task'[t].name
    BY <1>2, <2>2
  <2>. QED BY <1>2, <1>5, <2>1, <2>3 DEF Deleting
<1>. QED BY <1>1, <1>2, <1>3, <1>4, <1>6, <1>5, ReadOnlyGood

LEMMA SearchKeeps ==
  ASSUME ListTypeOK, \A s \in Walker : CallAt(s), Good, NEW t \in Walker, Search(t)
  PROVE  Good' /\ Chain' = Chain
<1>1. Others(t) /\ CallAt(t)
  BY OthersStay DEF ListStep
<1>2. /\ at[t] = "search" /\ head' = head /\ node' = node /\ mine[t] = NIL
      /\ task[t] \in Tasks /\ prev[t] \in Block \cup {NIL} /\ curr[t] \in Block \cup {NIL}
  BY <1>1 DEF Search, CallAt, ListTypeOK
<1>3. Chain' = Chain
  BY <1>2 DEF Chain
<1>4. curr[t] # NIL => Live(curr[t])
  BY <1>2 DEF Good, Walking
<1>5. \A s \in Walker : mine[s] # NIL => curr[t] # mine[s]
  BY DEF Good, NewBlock
<1>6. Deleting(t)
  BY DEF Good
<1>a. CASE Done(t, found[t]) \/ Found(t)
  <2>1. at'[t] = "idle" /\ curr'[t] = NIL /\ mine'[t] = NIL
    BY <1>a DEF Found, Done, ListTypeOK
  <2>2. Deleting(t)'
    BY <2>1 DEF Deleting
  <2>3. \A s \in Walker : mine[s] # NIL => curr'[t] # mine[s]
    BY <2>1
  <2>4. \E b \in Block \cup {NIL} : curr'[t] = b /\ (b # NIL => Live(b))
    BY <2>1
  <2>. QED BY <1>1, <1>2, <2>1, <2>2, <2>3, <2>4, ReadOnlyGood
<1>b. CASE Holds(curr[t]) /\ node[curr[t]].name # task[t].name /\ Advance(t)
  <2>1. /\ at'[t] = "search" /\ task' = task /\ mine' = mine
        /\ prev'[t] = curr[t] /\ curr'[t] = node[curr[t]].next
        /\ curr[t] \in Block /\ node[curr[t]].next \in Block \cup {NIL}
    BY <1>2, <1>b DEF Advance, ListTypeOK, Holds
  <2>2. node[curr[t]].next # NIL => Live(node[curr[t]].next)
    BY <1>4, <2>1, NilIsNone DEF Good, Shape
  <2>3. \A s \in Walker : mine[s] # NIL => node[curr[t]].next # mine[s]
    BY <1>4, <2>1, NilIsNone DEF Good, NewBlock
  <2>4. Deleting(t)'
    <3>1. ASSUME task[t].op = "delete"
          PROVE  \A s \in Walker \ {t} : at'[s] = "idle"
      BY <1>1, <1>2, <1>6, <3>1 DEF Deleting, Others
    <3>. PICK c : c = Chain
      OBVIOUS
    <3>2. /\ Len(c) \in Nat /\ \A k \in 1 .. Len(c) : c[k] \in Block
          /\ \A k \in 1 .. Len(c) :
               node[c[k]].next = IF k < Len(c) THEN c[k + 1] ELSE NIL
      BY ChainFacts DEF Good
    <3>3. ASSUME task[t].op = "delete"
          PROVE  \E j \in 1 .. Len(c) + 1 :
                   /\ curr'[t] = IF j <= Len(c) THEN c[j] ELSE NIL
                   /\ prev'[t] = IF j = 1 THEN NIL ELSE c[j - 1]
                   /\ \A i \in 1 .. (j - 1) : node'[c[i]].name # task'[t].name
      <4>1. PICK j \in 1 .. Len(c) + 1 :
              /\ curr[t] = IF j <= Len(c) THEN c[j] ELSE NIL
              /\ prev[t] = IF j = 1 THEN NIL ELSE c[j - 1]
              /\ \A i \in 1 .. (j - 1) : node[c[i]].name # task[t].name
        BY <1>2, <1>6, <3>3 DEF Deleting
      <4>2. j \in 1 .. Len(c) /\ curr[t] = c[j] /\ j \in Nat
        BY <2>1, <3>2, <4>1, NilIsNone
      <4>3. j + 1 \in 1 .. Len(c) + 1 /\ j + 1 # 1 /\ j + 1 - 1 = j
            /\ (j < Len(c) <=> j + 1 <= Len(c))
        BY <3>2, <4>2
      <4>4. curr'[t] = IF j + 1 <= Len(c) THEN c[j + 1] ELSE NIL
        BY <2>1, <3>2, <4>2, <4>3
      <4>5. \A i \in 1 .. j : node[c[i]].name # task[t].name
        <5>1. \A i \in 1 .. j : i = j \/ i \in 1 .. (j - 1)
          BY <4>2
        <5>. QED BY <1>b, <4>1, <4>2, <5>1
      <4>. QED BY <1>2, <2>1, <4>2, <4>3, <4>4, <4>5
    <3>. QED BY <1>3, <2>1, <3>1, <3>3 DEF Deleting
  <2>5. \E b \in Block \cup {NIL} : curr'[t] = b /\ (b # NIL => Live(b))
    BY <2>1, <2>2
  <2>. QED BY <1>1, <1>2, <2>1, <2>3, <2>4, <2>5, ReadOnlyGood
<1>c. CASE /\ Holds(curr[t]) /\ node[curr[t]].name = task[t].name
           /\ task[t].op = "delete" /\ GoTo(t, "unlink")
           /\ UNCHANGED <<mine, prev, curr>>
  <2>1. /\ at'[t] = "unlink" /\ task' = task /\ mine' = mine
        /\ prev' = prev /\ curr' = curr
    BY <1>c DEF GoTo, ListTypeOK
  <2>2. Deleting(t)'
    <3>1. \A s \in Walker \ {t} : at'[s] = "idle"
      BY <1>1, <1>2, <1>6, <1>c DEF Deleting, Others
    <3>. QED BY <1>2, <1>3, <1>6, <1>c, <2>1, <3>1 DEF Deleting
  <2>3. \E b \in Block \cup {NIL} : curr'[t] = b /\ (b # NIL => Live(b))
    BY <1>2, <1>4, <2>1
  <2>. QED BY <1>1, <1>2, <1>5, <2>1, <2>2, <2>3, ReadOnlyGood
<1>. QED BY <1>2, <1>a, <1>b, <1>c DEF Search

(* In a list without races no walk comes to a block that was freed. *)
LEMMA NeverAstray ==
  ASSUME ListTypeOK, \A s \in Walker : CallAt(s), Good, NEW t \in Walker
  PROVE  ~Astray(t)
<1>. SUFFICES ASSUME Astray(t) PROVE FALSE
  OBVIOUS
<1>0. CallAt(t) /\ Walking(t) /\ Deleting(t)
  BY DEF Good
<1>1. CASE at[t] \in {"tail", "link", "search", "unlink", "free"}
             /\ curr[t] # NIL /\ ~Holds(curr[t])
  BY <1>0, <1>1 DEF Walking, Live, Holds
<1>2. CASE at[t] = "unlink" /\ prev[t] # NIL /\ ~Holds(prev[t])
  <2>1. task[t].op = "delete"
    BY <1>0, <1>2 DEF CallAt
  <2>. PICK c : c = Chain
    OBVIOUS
  <2>2. PICK j \in 1 .. Len(c) + 1 : prev[t] = IF j = 1 THEN NIL ELSE c[j - 1]
    BY <1>0, <1>2, <2>1 DEF Deleting
  <2>3. Len(c) \in Nat /\ \A k \in 1 .. Len(c) : Live(c[k])
    BY ChainFacts DEF Good
  <2>4. j - 1 \in 1 .. Len(c) /\ prev[t] = c[j - 1]
    BY <1>2, <2>2, <2>3
  <2>. QED BY <1>2, <2>3, <2>4 DEF Live, Holds
<1>. QED BY <1>1, <1>2 DEF Astray

LEMMA OthersNotDeleting ==
  ASSUME Good, NEW t \in Walker, at[t] # "idle", Others(t)
  PROVE  \A s \in Walker \ {t} : Deleting(s)'
BY DEF Good, Deleting, Others

LEMMA ShapeIf ==
  ASSUME NEW c, Follows(head', node', c), \A k \in 1 .. Len(c) : Live(c[k])',
         \A b \in Block : Live(b)' => node'[b].next = NIL \/ Live(node[b].next)',
         \A a, b \in Block :
           Live(a)' /\ Live(b)' /\ node'[a].next = node'[b].next
             => a = b \/ node'[a].next = NIL,
         \A b \in Block : Live(b)' /\ head' # NIL => node'[b].next # head'
  PROVE  Shape' /\ Chain' = c
<1>1. Chain' = c
  BY ChainIs DEF Chain
<1>2. Follows(head, node, Chain)' /\ (\A k \in 1 .. Len(Chain) : Live(Chain[k]))'
  BY <1>1
<1>. QED BY <1>1, <1>2 DEF Shape

LEMMA MallocKeeps ==
  ASSUME ListTypeOK, \A s \in Walker : CallAt(s), Good, NEW t \in Walker, Malloc(t)
  PROVE  Good' /\ Chain' = Chain
<1>1. Others(t) /\ CallAt(t)
  BY OthersStay DEF ListStep
<1>2. at[t] = "malloc" /\ head' = head /\ curr[t] = NIL /\ mine[t] = NIL
      /\ task[t] \in Tasks /\ task[t].op = "insert"
  BY <1>1 DEF Malloc, CallAt, Inserting
<1>a. CASE Done(t, NIL) /\ UNCHANGED node
  <2>1. at'[t] = "idle" /\ curr'[t] = NIL /\ mine'[t] = NIL /\ node' = node
    BY <1>a DEF Done, ListTypeOK
  <2>2. Deleting(t)'
    BY <2>1 DEF Deleting
  <2>3. \A s \in Walker : mine[s] # NIL => curr'[t] # mine[s]
    BY <2>1
  <2>4. \E b \in Block \cup {NIL} : curr'[t] = b /\ (b # NIL => Live(b))
    BY <2>1
  <2>. QED BY <1>1, <1>2, <2>1, <2>2, <2>3, <2>4, ReadOnlyGood
<1>b. ASSUME NEW b \in Block, ~node[b].used,
             node' = [node EXCEPT ![b] = Fresh(task[t].name, task[t].id)],
             mine' = [mine EXCEPT ![t] = b], GoTo(t, "head"),
             UNCHANGED <<prev, curr>>
      PROVE  Good' /\ Chain' = Chain
  <2>1. /\ at'[t] = "head" /\ task' = task /\ curr' = curr /\ mine'[t] = b
        /\ node'[b] = Fresh(task[t].name, task[t].id)
        /\ node'[b].used /\ node'[b].next = NIL
        /\ \A a \in Block : a # b => node'[a] = node[a]
    BY <1>b DEF GoTo, ListTypeOK, Fresh
  <2>2. \A s \in Walker : curr[s] # b /\ mine[s] # b
    <3>. TAKE s \in Walker
    <3>1. Walking(s) /\ NewBlock(s)
      BY DEF Good
    <3>2. curr[s] # b
      BY <1>b, <3>1, NilIsNone DEF Walking, Live
    <3>. QED BY <1>b, <3>1, <3>2, NilIsNone DEF NewBlock, Live
  <2>3. ~Live(b)
    BY <1>b DEF Live
  <2>4. \A a \in Block : Live(a)' <=> Live(a) \/ a = b
    <3>. TAKE a \in Block
    <3>1. CASE a = b
      BY <1>1, <2>1, <2>2, <3>1 DEF Live, Others
    <3>2. CASE a # b
      BY <1>1, <1>2, <2>1, <3>2 DEF Live, Others
    <3>. QED BY <3>1, <3>2
  <2>5. \A a \in Block : Live(a) => node[a].next # b
    BY <2>3, NilIsNone DEF Good, Shape
  <2>. PICK c : c = Chain
    OBVIOUS
  <2>6. Follows(head, node, c) /\ \A k \in 1 .. Len(c) : c[k] \in Block /\ Live(c[k])
    BY ChainFacts DEF Good, Shape
  <2>7. \A k \in 1 .. Len(c) : c[k] # b /\ Live(c[k])'
    BY <2>3, <2>4, <2>6
  <2>8. Follows(head', node', c)
    BY <1>2, <2>1, <2>6, <2>7, SameFollows
  <2>9. Shape' /\ Chain' = c
    <3>1. \A a \in Block : Live(a)' => node'[a].next = NIL \/ Live(node[a].next)'
      <4>. TAKE a \in Block
      <4>1. CASE a # b /\ Live(a) /\ node[a].next # NIL
        <5>1. PICK d : d = node[a].next
          OBVIOUS
        <5>2. d \in Block /\ Live(d)
          BY <4>1, <5>1 DEF Good, Shape, Live
        <5>3. Live(d)' /\ node'[a].next = d
          BY <2>1, <2>4, <4>1, <5>1, <5>2
        <5>. QED BY <5>3
      <4>. QED BY <2>1, <2>4, <4>1
    <3>2. \A a, d \in Block :
            Live(a)' /\ Live(d)' /\ node'[a].next = node'[d].next
              => a = d \/ node'[a].next = NIL
      BY <2>1, <2>4 DEF Good, Shape
    <3>3. \A a \in Block : Live(a)' /\ head' # NIL => node'[a].next # head'
      BY <1>2, <2>1, <2>4 DEF Good, Shape
    <3>. QED BY <2>7, <2>8, <3>1, <3>2, <3>3, ShapeIf
  <2>10. NewBlock(t)'
    <3>1. head # b
      BY <2>3, NilIsNone, ChainFacts DEF Good
    <3>2. \A s \in Walker \ {t} : mine'[s] # b
      BY <1>1, <2>2 DEF Others
    <3>3. \A a \in Block : Live(a)' => node'[a].next # b
      BY <2>1, <2>4, <2>5, NilIsNone
    <3>4. Live(b)'
      BY <2>4
    <3>. QED BY <1>2, <2>1, <2>2, <3>1, <3>2, <3>3, <3>4 DEF NewBlock
  <2>11. ASSUME NEW s \in Walker \ {t} PROVE NewBlock(s)'
    <3>1. NewBlock(s) /\ mine[s] \in Block \cup {NIL} /\ mine[s] # b
          /\ mine'[s] = mine[s]
      BY <1>1, <2>2 DEF Good, ListTypeOK, Others
    <3>2. \A u \in Walker \ {s} : mine[s] # NIL => mine'[u] # mine[s]
      BY <1>1, <2>1, <3>1 DEF Others, NewBlock
    <3>3. mine[s] # NIL => node'[mine[s]] = node[mine[s]]
      BY <2>1, <3>1
    <3>. QED BY <1>2, <2>1, <2>4, <3>1, <3>2, <3>3 DEF NewBlock
  <2>12. ASSUME NEW s \in Walker PROVE Walking(s)'
    <3>1. Walking(s) /\ curr[s] \in Block \cup {NIL} /\ curr[s] # b
      BY <2>2 DEF Good, ListTypeOK
    <3>2. at'[s] = at[s] \/ (s = t /\ curr[s] = NIL)
      BY <1>1, <1>2 DEF Others
    <3>3. at'[s] = "free" => at[s] = "free" /\ curr[s] # NIL
      BY <1>1, <2>1 DEF Others, CallAt
    <3>. QED BY <2>1, <2>4, <3>1, <3>2, <3>3 DEF Walking
  <2>13. \A s \in Walker : Deleting(s)'
    <3>1. Deleting(t)'
      BY <1>2, <2>1 DEF Deleting
    <3>. QED BY <1>1, <1>2, <3>1, OthersNotDeleting
  <2>. QED BY <2>9, <2>10, <2>11, <2>12, <2>13 DEF Good
<1>. QED BY <1>a, <1>b DEF Malloc

LEMMA FirstKeeps ==
  ASSUME ListTypeOK, \A s \in Walker : CallAt(s), Good, NEW t \in Walker, First(t)
  PROVE  Good' /\ Chain' = <<mine[t]>>
<1>1. Others(t) /\ CallAt(t) /\ NewBlock(t)
  BY OthersStay DEF ListStep, Good
<1>2. /\ at[t] = "first" /\ at'[t] = "idle" /\ head' = mine[t] /\ node' = node
      /\ mine'[t] = NIL /\ curr'[t] = NIL
  BY DEF First, Done, ListTypeOK
<1>. PICK b \in Block : b = mine[t]
  BY <1>1, <1>2 DEF CallAt, ListTypeOK
<1>3. /\ Live(b) /\ node[b].next = NIL /\ b # NIL
      /\ \A a \in Block : Live(a) => node[a].next # b
      /\ \A s \in Walker \ {t} : mine[s] # b
  BY <1>1, NilIsNone DEF NewBlock, Fresh
<1>4. \A a \in Block : Live(a)' <=> Live(a)
  BY <1>1, <1>2, SameLive
<1>5. Shape' /\ Chain' = <<b>>
  <2>. PICK c : c = <<b>>
    OBVIOUS
  <2>1. Follows(head', node', c)
    BY <1>2, <1>3, OneFollows
  <2>2. \A k \in 1 .. Len(c) : Live(c[k])'
    <3>1. \A k \in 1 .. Len(c) : c[k] = b
      OBVIOUS
    <3>. QED BY <1>3, <1>4, <3>1
  <2>3. \A a \in Block : Live(a)' => node'[a].next = NIL \/ Live(node[a].next)'
    <3>. TAKE a \in Block
    <3>1. CASE Live(a) /\ node[a].next # NIL
      <4>1. PICK d : d = node[a].next
        OBVIOUS
      <4>2. d \in Block /\ Live(d)
        BY <3>1, <4>1 DEF Good, Shape, Live
      <4>3. Live(d)' /\ node'[a].next = d
        BY <1>2, <1>4, <4>1, <4>2
      <4>. QED BY <4>3
    <3>. QED BY <1>2, <1>4, <3>1
  <2>4. \A a, d \in Block :
          Live(a)' /\ Live(d)' /\ node'[a].next = node'[d].next
            => a = d \/ node'[a].next = NIL
    BY <1>2, <1>4 DEF Good, Shape
  <2>5. \A a \in Block : Live(a)' /\ head' # NIL => node'[a].next # head'
    BY <1>2, <1>3, <1>4
  <2>. QED BY <2>1, <2>2, <2>3, <2>4, <2>5, ShapeIf
<1>6. ASSUME NEW s \in Walker PROVE NewBlock(s)'
  <2>1. CASE s = t
    BY <1>2, <2>1 DEF NewBlock
  <2>2. CASE s # t
    <3>1. NewBlock(s) /\ mine[s] \in Block \cup {NIL} /\ mine[s] # b
          /\ mine'[s] = mine[s] /\ task'[s] = task[s]
      BY <1>1, <1>3, <2>2 DEF Good, ListTypeOK, Others
    <3>2. \A u \in Walker : curr'[u] = curr[u] \/ curr'[u] = NIL
      BY <1>1, <1>2 DEF Others
    <3>3. \A u \in Walker : mine'[u] = mine[u] \/ mine'[u] = NIL
      BY <1>1, <1>2 DEF Others
    <3>. QED BY <1>2, <1>4, <3>1, <3>2, <3>3 DEF NewBlock
  <2>. QED BY <2>1, <2>2
<1>7. ASSUME NEW s \in Walker PROVE Walking(s)'
  <2>1. Walking(s) /\ curr[s] \in Block \cup {NIL}
    BY DEF Good, ListTypeOK
  <2>2. s = t \/ (at'[s] = at[s] /\ curr'[s] = curr[s])
    BY <1>1 DEF Others
  <2>. QED BY <1>2, <1>4, <2>1, <2>2 DEF Walking
<1>8. \A s \in Walker : Deleting(s)'
  <2>1. Deleting(t)'
    BY <1>2 DEF Deleting
  <2>. QED BY <1>1, <1>2, <2>1, OthersNotDeleting
<1>. QED BY <1>5, <1>6, <1>7, <1>8 DEF Good

LEMMA LinkKeeps ==
  ASSUME ListTypeOK, \A s \in Walker : CallAt(s), Good, NEW t \in Walker, Link(t)
  PROVE  /\ Good'
         /\ \A k \in 1 .. Len(Chain) : Chain[k] = curr[t] =>
              Chain' = Until(Chain, k, mine[t])
         /\ (\A k \in 1 .. Len(Chain) : Chain[k] # curr[t]) => Chain' = Chain
<1>1. Others(t) /\ CallAt(t) /\ NewBlock(t) /\ Walking(t)
  BY OthersStay DEF ListStep, Good
<1>2. /\ at[t] = "link" /\ at'[t] = "idle" /\ head' = head
      /\ mine'[t] = NIL /\ curr'[t] = NIL /\ curr[t] # NIL
  BY DEF Link, Done, ListTypeOK, Holds
<1>. PICK b \in Block : b = mine[t]
  BY <1>1, <1>2 DEF CallAt, ListTypeOK
<1>. PICK p \in Block : p = curr[t]
  BY <1>2 DEF ListTypeOK
<1>3. /\ Live(b) /\ node[b].next = NIL /\ b # NIL /\ b # p /\ head # b
      /\ \A a \in Block : Live(a) => node[a].next # b
      /\ \A s \in Walker \ {t} : mine[s] # b
      /\ \A s \in Walker : curr[s] # b
  BY <1>1, NilIsNone DEF NewBlock, Fresh
<1>4. /\ Live(p)
      /\ \A s \in Walker : mine[s] # p
  BY <1>1, <1>2, NilIsNone DEF Walking, Good, NewBlock
<1>5. /\ node'[p].next = b /\ node'[p].used = node[p].used
      /\ \A a \in Block : a # p => node'[a] = node[a]
  BY DEF Link, ListTypeOK
<1>6. \A a \in Block : Live(a)' <=> Live(a)
  BY <1>1, <1>2, <1>5, SameLive
<1>7. \A a \in Block : Live(a)' => node'[a].next = NIL \/ Live(node[a].next)'
  <2>. TAKE a \in Block
  <2>1. CASE a = p
    BY <1>3, <1>5, <1>6, <2>1
  <2>2. CASE a # p /\ Live(a) /\ node[a].next # NIL
    <3>1. PICK d : d = node[a].next
      OBVIOUS
    <3>2. d \in Block /\ Live(d)
      BY <2>2, <3>1 DEF Good, Shape, Live
    <3>3. Live(d)' /\ node'[a].next = d
      BY <1>5, <1>6, <2>2, <3>1, <3>2
    <3>. QED BY <3>3
  <2>. QED BY <1>5, <1>6, <2>1, <2>2
<1>8. \A a, d \in Block :
        Live(a)' /\ Live(d)' /\ node'[a].next = node'[d].next
          => a = d \/ node'[a].next = NIL
  BY <1>3, <1>5, <1>6 DEF Good, Shape
<1>9. \A a \in Block : Live(a)' /\ head' # NIL => node'[a].next # head'
  BY <1>2, <1>3, <1>5, <1>6 DEF Good, Shape
<1>. PICK c : c = Chain
  OBVIOUS
<1>10. /\ Follows(head, node, c)
       /\ \A k \in 1 .. Len(c) : c[k] \in Block /\ Live(c[k]) /\ c[k] # b
       /\ \A i, k \in 1 .. Len(c) : c[i] = c[k] => i = k
       /\ Len(c) \in Nat
  BY <1>3, ChainFacts, NotOnChain DEF Good, Shape
<1>11. ASSUME NEW k \in 1 .. Len(c), c[k] = p
       PROVE  Shape' /\ Chain' = Until(c, k, b)
  <2>. PICK d : d = Until(c, k, b)
    OBVIOUS
  <2>1. \A i \in 1 .. Len(c) : i < k => node'[c[i]].next = node[c[i]].next
    BY <1>5, <1>10, <1>11
  <2>2. Follows(head', node', d) /\ Len(d) = k + 1
    <3>1. /\ node'[c[k]].next = b /\ node'[b].next = NIL
          /\ \A i \in 1 .. Len(c) : c[i] # b
      BY <1>3, <1>5, <1>10, <1>11
    <3>2. Follows(head, node', d) /\ Len(d) = k + 1
      BY <1>10, <2>1, <3>1, UntilFollows
    <3>. QED BY <1>2, <3>2
  <2>3. \A i \in 1 .. (k + 1) : d[i] = b \/ \E j \in 1 .. Len(c) : d[i] = c[j]
    BY <1>10 DEF Until
  <2>4. \A i \in 1 .. Len(d) : Live(d[i])'
    <3>. TAKE i \in 1 .. Len(d)
    <3>1. PICK a \in Block : a = d[i] /\ Live(a)
      BY <1>3, <1>10, <2>2, <2>3
    <3>2. Live(a)'
      BY <1>6, <3>1
    <3>. QED BY <3>1, <3>2
  <2>. QED BY <1>7, <1>8, <1>9, <2>2, <2>4, ShapeIf
<1>12. ASSUME \A k \in 1 .. Len(c) : c[k] # p
       PROVE  Shape' /\ Chain' = c
  <2>1. Follows(head', node', c)
    BY <1>2, <1>5, <1>10, <1>12, SameFollows
  <2>2. \A k \in 1 .. Len(c) : Live(c[k])'
    BY <1>6, <1>10
  <2>. QED BY <1>7, <1>8, <1>9, <2>1, <2>2, ShapeIf
<1>13. Shape'
  BY <1>11, <1>12
<1>14. ASSUME NEW s \in Walker PROVE NewBlock(s)'
  <2>1. CASE s = t
    BY <1>2, <2>1 DEF NewBlock
  <2>2. CASE s # t
    <3>1. NewBlock(s) /\ mine[s] \in Block \cup {NIL} /\ mine[s] # b /\ mine[s] # p
          /\ mine'[s] = mine[s] /\ task'[s] = task[s]
      BY <1>1, <1>3, <1>4, <2>2 DEF Good, ListTypeOK, Others
    <3>2. \A u \in Walker : curr'[u] = curr[u] \/ curr'[u] = NIL
      BY <1>1, <1>2 DEF Others
    <3>3. \A u \in Walker : mine'[u] = mine[u] \/ mine'[u] = NIL
      BY <1>1, <1>2 DEF Others
    <3>4. mine[s] # NIL => node'[mine[s]] = node[mine[s]]
      BY <1>5, <3>1
    <3>. QED BY <1>2, <1>5, <1>6, <3>1, <3>2, <3>3, <3>4 DEF NewBlock
  <2>. QED BY <2>1, <2>2
<1>15. ASSUME NEW s \in Walker PROVE Walking(s)'
  <2>1. Walking(s) /\ curr[s] \in Block \cup {NIL}
    BY DEF Good, ListTypeOK
  <2>2. s = t \/ (at'[s] = at[s] /\ curr'[s] = curr[s])
    BY <1>1 DEF Others
  <2>3. at[s] = "free" => curr[s] \in Block /\ node'[curr[s]].used
    <3>1. CallAt(s)
      OBVIOUS
    <3>2. at[s] = "free" => curr[s] \in Block /\ node[curr[s]].used
      BY <2>1, <3>1 DEF CallAt, Walking
    <3>. QED BY <1>5, <3>2
  <2>. QED BY <1>2, <1>6, <2>1, <2>2, <2>3 DEF Walking
<1>16. \A s \in Walker : Deleting(s)'
  <2>1. Deleting(t)'
    BY <1>2 DEF Deleting
  <2>. QED BY <1>1, <1>2, <2>1, OthersNotDeleting
<1>. QED BY <1>11, <1>12, <1>13, <1>14, <1>15, <1>16 DEF Good

(* A deletion is alone from the beginning to the end. *)
LEMMA DeletesAlone ==
  ASSUME ListTypeOK, \A s \in Walker : CallAt(s), Good, NEW t \in Walker,
         at[t] \in {"unlink", "free"}
  PROVE  /\ task[t].op = "delete" /\ mine[t] = NIL /\ curr[t] \in Block
         /\ \A s \in Walker \ {t} : at[s] = "idle" /\ mine[s] = NIL /\ curr[s] = NIL
<1>1. CallAt(t) /\ Deleting(t)
  BY DEF Good
<1>2. task[t].op = "delete" /\ mine[t] = NIL /\ curr[t] \in Block
  BY <1>1 DEF CallAt, ListTypeOK
<1>3. \A s \in Walker \ {t} : at[s] = "idle"
  BY <1>1, <1>2 DEF Deleting
<1>. QED BY <1>2, <1>3 DEF CallAt

LEMMA UnlinkKeeps ==
  ASSUME ListTypeOK, \A s \in Walker : CallAt(s), Good, NEW t \in Walker, Unlink(t)
  PROVE  /\ Good'
         /\ \E j \in 1 .. Len(Chain) :
              /\ Chain' = Cut(Chain, j) /\ Chain[j] = curr[t]
              /\ node[Chain[j]].name = task[t].name
              /\ \A i \in 1 .. (j - 1) : node[Chain[i]].name # task[t].name
<1>1. Others(t) /\ Deleting(t) /\ Walking(t) /\ NIL \notin Block
  BY OthersStay, NilIsNone DEF ListStep, Good
<1>2. /\ at[t] = "unlink" /\ at'[t] = "free" /\ mine' = mine /\ curr' = curr
      /\ prev' = prev /\ task' = task
  BY DEF Unlink, GoTo, ListTypeOK
<1>3. /\ task[t].op = "delete" /\ mine[t] = NIL /\ curr[t] \in Block
      /\ \A s \in Walker \ {t} : at[s] = "idle" /\ mine[s] = NIL /\ curr[s] = NIL
  BY <1>2, DeletesAlone
<1>. PICK p \in Block : p = curr[t]
  BY <1>3
<1>. PICK c : c = Chain
  OBVIOUS
<1>4. /\ Follows(head, node, c) /\ Len(c) \in Nat
      /\ \A k \in 1 .. Len(c) : c[k] \in Block /\ Live(c[k])
      /\ \A i, k \in 1 .. Len(c) : c[i] = c[k] => i = k
      /\ head = IF Len(c) = 0 THEN NIL ELSE c[1]
      /\ \A k \in 1 .. Len(c) :
           node[c[k]].next = IF k < Len(c) THEN c[k + 1] ELSE NIL
  BY ChainFacts DEF Good, Shape
<1>5. PICK j \in 1 .. Len(c) :
        /\ p = c[j] /\ prev[t] = (IF j = 1 THEN NIL ELSE c[j - 1])
        /\ \A i \in 1 .. (j - 1) : node[c[i]].name # task[t].name
        /\ node[p].name = task[t].name
  <2>1. PICK j \in 1 .. Len(c) + 1 :
          /\ p = IF j <= Len(c) THEN c[j] ELSE NIL
          /\ prev[t] = IF j = 1 THEN NIL ELSE c[j - 1]
          /\ \A i \in 1 .. (j - 1) : node[c[i]].name # task[t].name
    BY <1>1, <1>2, <1>3 DEF Deleting
  <2>2. j \in 1 .. Len(c) /\ node[p].name = task[t].name
    BY <1>1, <1>2, <1>3, <1>4, <2>1 DEF Deleting
  <2>3. p = c[j]
    BY <1>4, <2>1, <2>2
  <2>. QED BY <2>1, <2>2, <2>3
<1>. PICK r \in Block \cup {NIL} : r = node[p].next
  BY DEF ListTypeOK
<1>6. /\ Live(p) /\ r # p /\ (r # NIL => Live(r))
      /\ \A a \in Block : Live(a) /\ node[a].next = r => a = p \/ r = NIL
      /\ head # NIL => r # head
  <2>1. Live(p)
    BY <1>4, <1>5
  <2>2. r # p
    BY <1>1, <1>4, <1>5
  <2>. QED BY <2>1, <2>2 DEF Good, Shape
<1>7. \/ /\ j = 1 /\ head' = r /\ node' = node /\ p = head
      \/ /\ j # 1 /\ head' = head /\ c[j - 1] \in Block /\ Live(c[j - 1])
         /\ node'[c[j - 1]].next = r /\ node'[c[j - 1]].used = node[c[j - 1]].used
         /\ node[c[j - 1]].next = p
         /\ \A a \in Block : a # c[j - 1] => node'[a] = node[a]
  <2>1. CASE j = 1
    BY <1>4, <1>5, <2>1 DEF Unlink, Holds
  <2>2. CASE j # 1
    <3>. PICK q : q = c[j - 1]
      OBVIOUS
    <3>1. j - 1 \in 1 .. Len(c) /\ j - 1 < Len(c) /\ j - 1 + 1 = j
      BY <1>4, <2>2
    <3>2. q \in Block /\ Live(q) /\ node[q].next = p
      BY <1>4, <1>5, <3>1
    <3>3. prev[t] = q /\ q # NIL
      BY <1>1, <1>5, <2>2, <3>2
    <3>4. head' = head /\ node' = [node EXCEPT ![q].next = r]
      BY <3>3 DEF Unlink
    <3>5. /\ node'[q].next = r /\ node'[q].used = node[q].used
          /\ \A a \in Block : a # q => node'[a] = node[a]
      BY <3>2, <3>4 DEF ListTypeOK
    <3>. QED BY <2>2, <3>2, <3>4, <3>5
  <2>. QED BY <2>1, <2>2
<1>8. \A a \in Block : node'[a].used = node[a].used
  BY <1>7
<1>9. \A a \in Block : Live(a)' <=> Live(a) /\ a # p
  BY <1>1, <1>2, <1>3, <1>8 DEF Live, Others
<1>10. \A a \in Block : Live(a)' => node'[a].next = NIL \/ Live(node[a].next)'
  <2>. TAKE a \in Block
  <2>1. CASE Live(a) /\ a # p /\ node'[a].next # NIL
    <3>1. PICK d : d = node'[a].next
      OBVIOUS
    <3>2. CASE d = r
      BY <1>6, <1>9, <2>1, <3>1, <3>2
    <3>3. CASE d # r
      <4>1. d = node[a].next /\ d \in Block /\ Live(d)
        BY <1>7, <2>1, <3>1, <3>3 DEF Good, Shape, Live
      <4>2. d # p
        <5>1. CASE j = 1
          BY <1>7, <2>1, <4>1, <5>1 DEF Good, Shape
        <5>2. CASE j # 1
          <6>1. a # c[j - 1]
            BY <1>7, <3>1, <3>3, <5>2
          <6>. QED BY <1>1, <1>7, <2>1, <4>1, <5>2, <6>1 DEF Good, Shape
        <5>. QED BY <5>1, <5>2
      <4>. QED BY <1>9, <3>1, <4>1, <4>2
    <3>. QED BY <3>2, <3>3
  <2>. QED BY <1>9, <2>1
<1>11. \A a, d \in Block :
         Live(a)' /\ Live(d)' /\ node'[a].next = node'[d].next
           => a = d \/ node'[a].next = NIL
  BY <1>6, <1>7, <1>9 DEF Good, Shape
<1>12. \A a \in Block : Live(a)' /\ head' # NIL => node'[a].next # head'
  BY <1>6, <1>7, <1>9 DEF Good, Shape
<1>13. Shape' /\ Chain' = Cut(c, j)
  <2>. PICK d : d = Cut(c, j)
    OBVIOUS
  <2>1. head' = IF j = 1 THEN node[c[1]].next ELSE head
    BY <1>5, <1>7
  <2>2. \A i \in 1 .. Len(c) :
          node'[c[i]].next = IF i = j - 1 THEN node[c[j]].next ELSE node[c[i]].next
    <3>. TAKE i \in 1 .. Len(c)
    <3>1. CASE j = 1
      BY <1>7, <3>1
    <3>2. CASE j # 1
      <4>1. j - 1 \in 1 .. Len(c)
        BY <1>4, <3>2
      <4>2. c[i] = c[j - 1] <=> i = j - 1
        BY <1>4, <4>1
      <4>. QED BY <1>4, <1>5, <1>7, <3>2, <4>2
    <3>. QED BY <3>1, <3>2
  <2>3. Follows(head', node', d) /\ Len(d) = Len(c) - 1
    BY <1>4, <2>1, <2>2, CutFollows
  <2>4. \A i \in 1 .. Len(d) : Live(d[i])'
    <3>. TAKE i \in 1 .. Len(d)
    <3>1. \E k \in 1 .. Len(c) : d[i] = c[k] /\ k # j
      <4>1. d[i] = IF i < j THEN c[i] ELSE c[i + 1]
        BY <2>3 DEF Cut
      <4>. QED BY <1>4, <2>3, <4>1
    <3>2. PICK a \in Block : a = d[i] /\ Live(a) /\ a # p
      BY <1>4, <1>5, <3>1
    <3>3. Live(a)'
      BY <1>9, <3>2
    <3>. QED BY <3>2, <3>3
  <2>. QED BY <1>10, <1>11, <1>12, <2>3, <2>4, ShapeIf
<1>14. \A s \in Walker : NewBlock(s)'
  BY <1>2, <1>3 DEF NewBlock
<1>15. \A s \in Walker : Walking(s)'
  <2>1. node'[p].used
    BY <1>6, <1>8 DEF Live
  <2>. QED BY <1>1, <1>2, <1>3, <2>1 DEF Walking, Others
<1>16. \A s \in Walker : Deleting(s)'
  BY <1>1, <1>2, <1>3 DEF Deleting, Others
<1>. QED BY <1>5, <1>13, <1>14, <1>15, <1>16 DEF Good

LEMMA FreeKeeps ==
  ASSUME ListTypeOK, \A s \in Walker : CallAt(s), Good, NEW t \in Walker, Free(t)
  PROVE  Good' /\ Chain' = Chain
<1>1. Others(t)
  BY OthersStay DEF ListStep
<1>2. /\ at[t] = "free" /\ at'[t] = "idle" /\ mine'[t] = NIL /\ curr'[t] = NIL
      /\ head' = head
  BY DEF Free, Done, ListTypeOK
<1>3. /\ mine[t] = NIL /\ curr[t] \in Block
      /\ \A s \in Walker \ {t} : at[s] = "idle" /\ mine[s] = NIL /\ curr[s] = NIL
  BY <1>2, DeletesAlone
<1>. PICK p \in Block : p = curr[t]
  BY <1>3
<1>4. /\ ~node'[p].used
      /\ \A a \in Block : a # p => node'[a] = node[a]
  BY DEF Free, Unused, ListTypeOK
<1>5. ~Live(p)
  BY <1>2 DEF Live
<1>6. \A a \in Block : Live(a)' <=> Live(a)
  BY <1>1, <1>2, <1>4, <1>5 DEF Live, Others
<1>. PICK c : c = Chain
  OBVIOUS
<1>7. Follows(head, node, c) /\ \A k \in 1 .. Len(c) : c[k] \in Block /\ Live(c[k])
  BY ChainFacts DEF Good, Shape
<1>8. Shape' /\ Chain' = c
  <2>1. \A k \in 1 .. Len(c) : Live(c[k])'
    BY <1>6, <1>7
  <2>2. Follows(head', node', c)
    <3>1. \A k \in 1 .. Len(c) : node'[c[k]].next = node[c[k]].next
      BY <1>4, <1>5, <1>7
    <3>. QED BY <1>2, <1>7, <3>1, SameFollows
  <2>3. \A a \in Block : Live(a)' => node'[a].next = NIL \/ Live(node[a].next)'
    <3>. TAKE a \in Block
    <3>1. CASE Live(a) /\ node[a].next # NIL
      <4>1. PICK d : d = node[a].next
        OBVIOUS
      <4>2. d \in Block /\ Live(d)
        BY <3>1, <4>1 DEF Good, Shape, Live
      <4>3. Live(d)' /\ node'[a].next = d
        BY <1>4, <1>5, <1>6, <3>1, <4>1, <4>2
      <4>. QED BY <4>3
    <3>. QED BY <1>4, <1>5, <1>6, <3>1
  <2>4. \A a, d \in Block :
          Live(a)' /\ Live(d)' /\ node'[a].next = node'[d].next
            => a = d \/ node'[a].next = NIL
    BY <1>4, <1>5, <1>6 DEF Good, Shape
  <2>5. \A a \in Block : Live(a)' /\ head' # NIL => node'[a].next # head'
    BY <1>2, <1>4, <1>5, <1>6 DEF Good, Shape
  <2>. QED BY <2>1, <2>2, <2>3, <2>4, <2>5, ShapeIf
<1>9. \A s \in Walker : at'[s] = "idle" /\ mine'[s] = NIL /\ curr'[s] = NIL
  BY <1>1, <1>2, <1>3 DEF Others
<1>10. \A s \in Walker : NewBlock(s)' /\ Walking(s)' /\ Deleting(s)'
  BY <1>9 DEF NewBlock, Walking, Deleting
<1>. QED BY <1>8, <1>10 DEF Good

-----------------------------------------------------------------------------
(* What holds in addition as long as no calls that change the list have    *)
(* met: no block is lost, and an append ends at the last entry.            *)

Held ==
  \A b \in Block : node[b].used =>
    \/ \E k \in 1 .. Len(Chain) : Chain[k] = b
    \/ \E t \in Walker : mine[t] = b \/ (at[t] = "free" /\ curr[t] = b)

OneInserts == \A s, t \in Walker : at[s] \in Inserting /\ at[t] \in Inserting => s = t

AtTail(t) ==
  /\ at[t] = "first" => head = NIL
  /\ at[t] = "tail" => \E k \in 1 .. Len(Chain) : Chain[k] = curr[t]
  /\ at[t] = "link" => Len(Chain) >= 1 /\ curr[t] = Chain[Len(Chain)]

(* A look-up that had something to find is not past it. *)
Due(t) ==
  due[t] # NIL =>
    /\ at[t] \in {"start", "search"} /\ task[t].op = "get"
    /\ \E k \in 1 .. Len(Chain) :
         /\ node[Chain[k]].name = task[t].name /\ node[Chain[k]].id = due[t]
         /\ \A i \in 1 .. (k - 1) : node[Chain[i]].name # task[t].name
         /\ at[t] = "search" => \E j \in 1 .. k : curr[t] = Chain[j]

Tidy == Held /\ OneInserts /\ \A t \in Walker : AtTail(t) /\ Due(t)

ListInv ==
  /\ ListTypeOK
  /\ \A t \in Walker : CallAt(t)
  /\ "delete" \notin met => Good
  /\ met = {} => Tidy

(* What is as it was, and where. *)
LEMMA HeldStays ==
  ASSUME Held, NEW t \in Walker, Others(t), Chain' = Chain, mine'[t] = mine[t],
         at[t] # "free", at'[t] # "free", \A b \in Block : node'[b].used => node[b].used
  PROVE  Held'
<1>. PICK c : c = Chain
  OBVIOUS
<1>1. ASSUME NEW b \in Block, node'[b].used
      PROVE  \/ \E k \in 1 .. Len(c) : c[k] = b
             \/ \E s \in Walker : mine'[s] = b \/ (at'[s] = "free" /\ curr'[s] = b)
  <2>1. CASE \E k \in 1 .. Len(c) : c[k] = b
    BY <2>1
  <2>2. ASSUME NEW s \in Walker, mine[s] = b \/ (at[s] = "free" /\ curr[s] = b)
        PROVE  mine'[s] = b \/ (at'[s] = "free" /\ curr'[s] = b)
    BY <2>2 DEF Others
  <2>. QED BY <1>1, <2>1, <2>2 DEF Held
<1>. QED BY <1>1 DEF Held

LEMMA OneStillInserts ==
  ASSUME OneInserts, NEW t \in Walker, Others(t), at'[t] \in Inserting => at[t] \in Inserting
  PROVE  OneInserts'
BY DEF OneInserts, Others

LEMMA OthersAtTail ==
  ASSUME OneInserts, NEW t \in Walker, Others(t), NEW s \in Walker \ {t}, AtTail(s),
         at[t] \in Inserting \/ (head' = head /\ Chain' = Chain)
  PROVE  AtTail(s)'
<1>1. at'[s] = at[s] /\ curr'[s] = curr[s]
  BY DEF Others
<1>2. CASE at[t] \in Inserting
  BY <1>1, <1>2 DEF OneInserts, AtTail, Inserting
<1>3. CASE head' = head /\ Chain' = Chain
  BY <1>1, <1>3 DEF AtTail
<1>. QED BY <1>2, <1>3

(* Where another thread has been looking is as it was: the entries up to a *)
(* place of the list.                                                      *)
LEMMA OthersDue ==
  ASSUME ListTypeOK, NEW t \in Walker, Others(t), at[t] # "idle", RecordMeetings,
         NEW s \in Walker \ {t}, Due(s), Len(Chain) \in Nat, Len(Chain') \in Nat,
         Len(Chain) <= Len(Chain'),
         \A k \in 1 .. Len(Chain) :
           /\ Chain'[k] = Chain[k]
           /\ node'[Chain[k]].name = node[Chain[k]].name
           /\ node'[Chain[k]].id = node[Chain[k]].id
  PROVE  Due(s)'
<1>1. at'[s] = at[s] /\ curr'[s] = curr[s] /\ task'[s] = task[s]
  BY DEF Others
<1>2. due'[s] = IF at[s] = "idle" THEN NIL ELSE due[s]
  <2>1. ~Begins(s)
    BY <1>1 DEF Begins
  <2>. QED BY <1>1, <2>1 DEF RecordMeetings
<1>. PICK c : c = Chain
  OBVIOUS
<1>. PICK d : d = Chain'
  OBVIOUS
<1>3. ASSUME due[s] # NIL
      PROVE  /\ at[s] \in {"start", "search"} /\ task[s].op = "get"
             /\ \E k \in 1 .. Len(d) :
                  /\ node'[d[k]].name = task[s].name /\ node'[d[k]].id = due[s]
                  /\ \A i \in 1 .. (k - 1) : node'[d[i]].name # task[s].name
                  /\ at[s] = "search" => \E j \in 1 .. k : curr[s] = d[j]
  <2>1. at[s] \in {"start", "search"} /\ task[s].op = "get"
    BY <1>3 DEF Due
  <2>2. PICK k \in 1 .. Len(c) :
          /\ node[c[k]].name = task[s].name /\ node[c[k]].id = due[s]
          /\ \A i \in 1 .. (k - 1) : node[c[i]].name # task[s].name
          /\ at[s] = "search" => \E j \in 1 .. k : curr[s] = c[j]
    BY <1>3 DEF Due
  <2>3. /\ k \in 1 .. Len(d)
        /\ \A i \in 1 .. k : i \in 1 .. Len(c)
        /\ \A i \in 1 .. (k - 1) : i \in 1 .. Len(c)
    OBVIOUS
  <2>. QED BY <2>1, <2>2, <2>3
<1>. QED BY <1>1, <1>2, <1>3 DEF Due

LEMMA InsertTidy ==
  ASSUME ListTypeOK, Tidy, NEW t \in Walker, Others(t), RecordMeetings,
         at[t] \in Inserting, at'[t] \in Inserting \cup {"idle"},
         Held', AtTail(t)',
         Len(Chain) \in Nat, Len(Chain') \in Nat, Len(Chain) <= Len(Chain'),
         \A k \in 1 .. Len(Chain) :
           /\ Chain'[k] = Chain[k]
           /\ node'[Chain[k]].name = node[Chain[k]].name
           /\ node'[Chain[k]].id = node[Chain[k]].id
  PROVE  Tidy'
<1>1. OneInserts'
  BY OneStillInserts DEF Tidy
<1>2. \A s \in Walker \ {t} : AtTail(s)'
  BY OthersAtTail DEF Tidy
<1>3. at[t] # "idle"
  BY DEF Inserting
<1>4. \A s \in Walker \ {t} : Due(s)'
  BY <1>3, OthersDue DEF Tidy
<1>5. due'[t] = NIL
  <2>1. due[t] = NIL
    BY DEF Tidy, Due, Inserting
  <2>2. ~Begins(t)
    BY <1>3 DEF Begins
  <2>. QED BY <2>1, <2>2 DEF RecordMeetings
<1>6. Due(t)'
  BY <1>5 DEF Due
<1>. QED BY <1>1, <1>2, <1>4, <1>6 DEF Tidy

LEMMA MallocTidy ==
  ASSUME ListTypeOK, \A s \in Walker : CallAt(s), Good, Tidy, NEW t \in Walker,
         Malloc(t), RecordMeetings
  PROVE  Tidy'
<1>1. Others(t) /\ CallAt(t) /\ Chain' = Chain
  BY OthersStay, MallocKeeps DEF ListStep
<1>2. at[t] = "malloc" /\ mine[t] = NIL /\ at'[t] \in {"idle", "head"}
  BY <1>1 DEF Malloc, CallAt, Done, GoTo, ListTypeOK
<1>. PICK c : c = Chain
  OBVIOUS
<1>3. /\ Len(c) \in Nat
      /\ \A k \in 1 .. Len(c) : c[k] \in Block /\ node[c[k]].used
  BY ChainFacts DEF Good, Live
<1>4. \A k \in 1 .. Len(c) : node'[c[k]] = node[c[k]]
  BY <1>3 DEF Malloc, ListTypeOK
<1>5. Held'
  <2>1. CASE Done(t, NIL) /\ UNCHANGED node
    BY <1>1, <1>2, <2>1, HeldStays DEF Done, ListTypeOK, Tidy
  <2>2. ASSUME NEW b \in Block,
               node' = [node EXCEPT ![b] = Fresh(task[t].name, task[t].id)],
               mine' = [mine EXCEPT ![t] = b], UNCHANGED curr
        PROVE  Held'
    <3>1. \A a \in Block : node'[a].used => node[a].used \/ a = b
      BY <2>2 DEF ListTypeOK
    <3>2. mine'[t] = b /\ \A s \in Walker \ {t} :
            mine'[s] = mine[s] /\ at'[s] = at[s] /\ curr'[s] = curr[s]
      BY <1>1, <2>2 DEF ListTypeOK, Others
    <3>3. ASSUME NEW a \in Block, node'[a].used
          PROVE  \/ \E k \in 1 .. Len(c) : c[k] = a
                 \/ \E s \in Walker : mine'[s] = a \/ (at'[s] = "free" /\ curr'[s] = a)
      BY <1>2, <3>1, <3>2, <3>3, NilIsNone DEF Tidy, Held
    <3>. QED BY <1>1, <3>3 DEF Held
  <2>. QED BY <2>1, <2>2 DEF Malloc
<1>6. AtTail(t)'
  BY <1>2 DEF AtTail
<1>7. at[t] \in Inserting /\ at'[t] \in Inserting \cup {"idle"}
  BY <1>2 DEF Inserting
<1>. QED BY <1>1, <1>3, <1>4, <1>5, <1>6, <1>7, InsertTidy

LEMMA LookAtHeadTidy ==
  ASSUME ListTypeOK, \A s \in Walker : CallAt(s), Good, Tidy, NEW t \in Walker,
         LookAtHead(t), RecordMeetings
  PROVE  Tidy'
<1>1. Others(t) /\ Chain' = Chain
  BY OthersStay, LookAtHeadKeeps DEF ListStep
<1>2. /\ at[t] = "head" /\ at'[t] = (IF head = NIL THEN "first" ELSE "tail")
      /\ curr'[t] = head /\ head' = head /\ node' = node /\ mine' = mine
  BY DEF LookAtHead, GoTo, ListTypeOK
<1>. PICK c : c = Chain
  OBVIOUS
<1>3. Len(c) \in Nat /\ head = IF Len(c) = 0 THEN NIL ELSE c[1]
  BY ChainFacts DEF Good
<1>4. Held'
  BY <1>1, <1>2, HeldStays DEF Tidy
<1>5. AtTail(t)'
  <2>1. head # NIL => 1 \in 1 .. Len(c) /\ c[1] = head
    BY <1>3
  <2>. QED BY <1>1, <1>2, <2>1 DEF AtTail
<1>6. at[t] \in Inserting /\ at'[t] \in Inserting \cup {"idle"}
  BY <1>2 DEF Inserting
<1>. QED BY <1>1, <1>2, <1>3, <1>4, <1>5, <1>6, InsertTidy

LEMMA ToTailTidy ==
  ASSUME ListTypeOK, \A s \in Walker : CallAt(s), Good, Tidy, NEW t \in Walker,
         ToTail(t), RecordMeetings
  PROVE  Tidy'
<1>1. Others(t) /\ Chain' = Chain
  BY OthersStay, ToTailKeeps DEF ListStep
<1>2. /\ at[t] = "tail" /\ head' = head /\ node' = node /\ mine' = mine
      /\ \/ at'[t] = "tail" /\ curr'[t] = node[curr[t]].next /\ curr'[t] # NIL
         \/ at'[t] = "link" /\ curr'[t] = curr[t] /\ node[curr[t]].next = NIL
  BY DEF ToTail, ListTypeOK
<1>. PICK c : c = Chain
  OBVIOUS
<1>3. /\ Len(c) \in Nat /\ \A k \in 1 .. Len(c) : c[k] \in Block
      /\ \A k \in 1 .. Len(c) :
           node[c[k]].next = IF k < Len(c) THEN c[k + 1] ELSE NIL
  BY ChainFacts DEF Good
<1>4. PICK k \in 1 .. Len(c) : c[k] = curr[t]
  BY <1>2 DEF Tidy, AtTail
<1>5. Held'
  BY <1>1, <1>2, HeldStays DEF Tidy
<1>6. AtTail(t)'
  <2>1. CASE k < Len(c)
    <3>1. node[curr[t]].next = c[k + 1] /\ k + 1 \in 1 .. Len(c)
      BY <1>3, <1>4, <2>1
    <3>2. c[k + 1] # NIL
      BY <1>3, <3>1, NilIsNone
    <3>. QED BY <1>1, <1>2, <3>1, <3>2 DEF AtTail
  <2>2. CASE ~(k < Len(c))
    <3>1. k = Len(c) /\ node[curr[t]].next = NIL /\ Len(c) >= 1
      BY <1>3, <1>4, <2>2
    <3>. QED BY <1>1, <1>2, <1>4, <3>1 DEF AtTail
  <2>. QED BY <2>1, <2>2
<1>7. at[t] \in Inserting /\ at'[t] \in Inserting \cup {"idle"}
  BY <1>2 DEF Inserting
<1>. QED BY <1>1, <1>2, <1>3, <1>5, <1>6, <1>7, InsertTidy

LEMMA FirstTidy ==
  ASSUME ListTypeOK, \A s \in Walker : CallAt(s), Good, Tidy, NEW t \in Walker,
         First(t), RecordMeetings
  PROVE  Tidy'
<1>1. Others(t) /\ Chain' = <<mine[t]>>
  BY OthersStay, FirstKeeps DEF ListStep
<1>2. /\ at[t] = "first" /\ at'[t] = "idle" /\ node' = node
  BY DEF First, Done, ListTypeOK
<1>3. Len(Chain) = 0
  <2>1. head = NIL
    BY <1>2 DEF Tidy, AtTail
  <2>. PICK c : c = Chain
    OBVIOUS
  <2>2. /\ Len(c) \in Nat /\ head = (IF Len(c) = 0 THEN NIL ELSE c[1])
        /\ \A k \in 1 .. Len(c) : c[k] \in Block
    BY ChainFacts DEF Good
  <2>. QED BY <2>1, <2>2, NilIsNone
<1>. PICK d : d = <<mine[t]>>
  OBVIOUS
<1>4. Len(d) = 1 /\ d[1] = mine[t] /\ Chain' = d
  BY <1>1
<1>5. Held'
  <2>1. ASSUME NEW b \in Block, node'[b].used
        PROVE  \/ \E k \in 1 .. Len(d) : d[k] = b
               \/ \E s \in Walker : mine'[s] = b \/ (at'[s] = "free" /\ curr'[s] = b)
    <3>1. node[b].used
      BY <1>2, <2>1
    <3>2. PICK s \in Walker : mine[s] = b \/ (at[s] = "free" /\ curr[s] = b)
      BY <1>3, <3>1 DEF Tidy, Held
    <3>3. CASE s = t
      BY <1>2, <1>4, <3>2, <3>3
    <3>4. CASE s # t
      BY <1>1, <3>2, <3>4 DEF Others
    <3>. QED BY <3>3, <3>4
  <2>. QED BY <1>4, <2>1 DEF Held
<1>6. AtTail(t)'
  BY <1>2 DEF AtTail
<1>7. at[t] \in Inserting /\ at'[t] \in Inserting \cup {"idle"}
  BY <1>2 DEF Inserting
<1>. QED BY <1>1, <1>2, <1>3, <1>4, <1>5, <1>6, <1>7, InsertTidy

LEMMA LinkTidy ==
  ASSUME ListTypeOK, \A s \in Walker : CallAt(s), Good, Tidy, NEW t \in Walker,
         Link(t), RecordMeetings
  PROVE  /\ Tidy'
         /\ Chain' = Until(Chain, Len(Chain), mine[t])
<1>1. Others(t) /\ CallAt(t)
  BY OthersStay DEF ListStep
<1>2. at[t] = "link" /\ at'[t] = "idle" /\ curr[t] \in Block
  BY DEF Link, Done, ListTypeOK, Holds
<1>. PICK c : c = Chain
  OBVIOUS
<1>. PICK n : n = Len(c)
  OBVIOUS
<1>3. n \in Nat /\ n >= 1 /\ curr[t] = c[n]
  BY <1>2, ChainFacts DEF Tidy, AtTail, Good
<1>4. Chain' = Until(c, n, mine[t])
  <2>1. n \in 1 .. Len(c)
    BY <1>3
  <2>. QED BY <1>3, <2>1, LinkKeeps
<1>. PICK d : d = Until(c, n, mine[t])
  OBVIOUS
<1>5. /\ Len(d) = n + 1 /\ d[n + 1] = mine[t] /\ n + 1 \in 1 .. Len(d)
      /\ \A k \in 1 .. n : d[k] = c[k]
  BY <1>3 DEF Until
<1>6. \A b \in Block : /\ node'[b].used = node[b].used
                       /\ node'[b].name = node[b].name /\ node'[b].id = node[b].id
  BY <1>2 DEF Link, ListTypeOK
<1>7. Held'
  <2>1. ASSUME NEW b \in Block, node'[b].used
        PROVE  \/ \E k \in 1 .. Len(d) : d[k] = b
               \/ \E s \in Walker : mine'[s] = b \/ (at'[s] = "free" /\ curr'[s] = b)
    <3>1. \/ \E k \in 1 .. Len(c) : c[k] = b
          \/ \E s \in Walker : mine[s] = b \/ (at[s] = "free" /\ curr[s] = b)
      BY <1>6, <2>1 DEF Tidy, Held
    <3>2. ASSUME NEW k \in 1 .. Len(c), c[k] = b PROVE \E i \in 1 .. Len(d) : d[i] = b
      BY <1>3, <1>5, <3>2
    <3>3. ASSUME NEW s \in Walker, mine[s] = b \/ (at[s] = "free" /\ curr[s] = b), s = t
          PROVE  \E i \in 1 .. Len(d) : d[i] = b
      BY <1>2, <1>5, <3>3
    <3>4. ASSUME NEW s \in Walker, mine[s] = b \/ (at[s] = "free" /\ curr[s] = b), s # t
          PROVE  mine'[s] = b \/ (at'[s] = "free" /\ curr'[s] = b)
      BY <1>1, <3>4 DEF Others
    <3>. QED BY <3>1, <3>2, <3>3, <3>4
  <2>. QED BY <1>4, <2>1 DEF Held
<1>8. AtTail(t)'
  BY <1>2 DEF AtTail
<1>9. at[t] \in Inserting /\ at'[t] \in Inserting \cup {"idle"}
  BY <1>2 DEF Inserting
<1>10. \A k \in 1 .. Len(c) : c[k] \in Block
  BY ChainFacts DEF Good
<1>11. /\ Len(c) \in Nat /\ Len(d) \in Nat /\ Len(c) <= Len(d)
       /\ \A k \in 1 .. Len(c) :
            /\ d[k] = c[k]
            /\ node'[c[k]].name = node[c[k]].name
            /\ node'[c[k]].id = node[c[k]].id
  BY <1>3, <1>5, <1>6, <1>10
<1>12. Tidy'
  BY <1>1, <1>4, <1>7, <1>8, <1>9, <1>11, InsertTidy
<1>. QED BY <1>4, <1>12

LEMMA ReaderTidy ==
  ASSUME ListTypeOK, Good, Tidy, NEW t \in Walker, Others(t), RecordMeetings,
         at[t] \notin Inserting \cup {"idle", "free"}, at'[t] \notin Inserting \cup {"free"},
         mine'[t] = mine[t], head' = head, node' = node, Chain' = Chain, Due(t)'
  PROVE  Tidy'
<1>1. Held'
  BY HeldStays DEF Tidy
<1>2. OneInserts'
  BY OneStillInserts DEF Tidy
<1>3. \A s \in Walker \ {t} : AtTail(s)'
  BY OthersAtTail DEF Tidy
<1>4. AtTail(t)'
  BY DEF AtTail, Inserting
<1>5. \A s \in Walker \ {t} : Due(s)'
  BY ChainFacts, OthersDue DEF Tidy, Good
<1>. QED BY <1>1, <1>2, <1>3, <1>4, <1>5 DEF Tidy

LEMMA OwnDue ==
  ASSUME NEW t \in Walker, at[t] # "idle", RecordMeetings
  PROVE  due'[t] = IF at'[t] = "idle" THEN NIL ELSE due[t]
BY DEF RecordMeetings, Begins

LEMMA StartTidy ==
  ASSUME ListTypeOK, \A s \in Walker : CallAt(s), Good, Tidy, NEW t \in Walker,
         Start(t), RecordMeetings
  PROVE  Tidy'
<1>1. Others(t) /\ Chain' = Chain
  BY OthersStay, StartKeeps DEF ListStep
<1>2. /\ at[t] = "start" /\ at'[t] = "search" /\ curr'[t] = head
      /\ head' = head /\ node' = node /\ mine' = mine /\ task' = task
  BY DEF Start, GoTo, ListTypeOK
<1>. PICK c : c = Chain
  OBVIOUS
<1>3. Len(c) \in Nat /\ head = IF Len(c) = 0 THEN NIL ELSE c[1]
  BY ChainFacts DEF Good
<1>4. due'[t] = due[t]
  BY <1>2, OwnDue
<1>5. ASSUME due[t] # NIL
      PROVE  /\ task[t].op = "get"
             /\ \E k \in 1 .. Len(c) :
                  /\ node[c[k]].name = task[t].name /\ node[c[k]].id = due[t]
                  /\ \A i \in 1 .. (k - 1) : node[c[i]].name # task[t].name
                  /\ \E j \in 1 .. k : head = c[j]
  <2>1. task[t].op = "get" /\ \E k \in 1 .. Len(c) :
                  /\ node[c[k]].name = task[t].name /\ node[c[k]].id = due[t]
                  /\ \A i \in 1 .. (k - 1) : node[c[i]].name # task[t].name
    BY <1>5 DEF Tidy, Due
  <2>2. \A k \in 1 .. Len(c) : 1 \in 1 .. k /\ head = c[1]
    BY <1>3
  <2>. QED BY <2>1, <2>2
<1>6. Due(t)'
  BY <1>1, <1>2, <1>4, <1>5 DEF Due
<1>7. at[t] \notin Inserting \cup {"idle", "free"} /\ at'[t] \notin Inserting \cup {"free"}
  BY <1>2 DEF Inserting
<1>. QED BY <1>1, <1>2, <1>6, <1>7, ReaderTidy

(* A look-up that had something to find comes to it. *)
LEMMA SearchDue ==
  ASSUME ListTypeOK, \A s \in Walker : CallAt(s), Good, Tidy, NEW t \in Walker,
         Search(t), due[t] # NIL
  PROVE  /\ curr[t] # NIL
         /\ node[curr[t]].name = task[t].name =>
              Found(t) /\ node[curr[t]].id = due[t]
         /\ node[curr[t]].name # task[t].name =>
              /\ Advance(t)
              /\ task[t].op = "get"
              /\ \E k \in 1 .. Len(Chain) :
                   /\ node[Chain[k]].name = task[t].name
                   /\ node[Chain[k]].id = due[t]
                   /\ \A i \in 1 .. (k - 1) : node[Chain[i]].name # task[t].name
                   /\ \E j \in 1 .. k : node[curr[t]].next = Chain[j]
<1>. PICK c : c = Chain
  OBVIOUS
<1>1. at[t] = "search" /\ Due(t)
  BY DEF Search, Tidy
<1>2. PICK k \in 1 .. Len(c) :
        /\ node[c[k]].name = task[t].name /\ node[c[k]].id = due[t]
        /\ \A i \in 1 .. (k - 1) : node[c[i]].name # task[t].name
        /\ \E j \in 1 .. k : curr[t] = c[j]
  BY <1>1 DEF Due
<1>3. PICK j \in 1 .. k : curr[t] = c[j]
  BY <1>2
<1>4. /\ Len(c) \in Nat /\ \A i \in 1 .. Len(c) : c[i] \in Block
      /\ \A i \in 1 .. Len(c) :
           node[c[i]].next = IF i < Len(c) THEN c[i + 1] ELSE NIL
  BY ChainFacts DEF Good
<1>5. curr[t] # NIL /\ task[t].op = "get"
  BY <1>1, <1>3, <1>4, NilIsNone DEF Due
<1>6. ASSUME node[curr[t]].name = task[t].name
      PROVE  Found(t) /\ node[curr[t]].id = due[t]
  <2>1. j = k
    BY <1>2, <1>3, <1>6
  <2>. QED BY <1>2, <1>3, <1>5, <1>6, <2>1 DEF Search
<1>7. ASSUME node[curr[t]].name # task[t].name
      PROVE  Advance(t) /\ \E i \in 1 .. k : node[curr[t]].next = c[i]
  <2>1. j + 1 \in 1 .. k /\ j \in 1 .. Len(c) /\ j < Len(c)
    BY <1>2, <1>3, <1>4, <1>7
  <2>2. node[curr[t]].next = c[j + 1]
    BY <1>3, <1>4, <2>1
  <2>. QED BY <1>5, <1>7, <2>1, <2>2 DEF Search
<1>. QED BY <1>2, <1>5, <1>6, <1>7

LEMMA SearchTidy ==
  ASSUME ListTypeOK, \A s \in Walker : CallAt(s), Good, Tidy, NEW t \in Walker,
         Search(t), RecordMeetings
  PROVE  Tidy'
<1>1. Others(t) /\ Chain' = Chain /\ CallAt(t)
  BY OthersStay, SearchKeeps DEF ListStep
<1>2. /\ at[t] = "search" /\ at'[t] \in {"idle", "search", "unlink"}
      /\ head' = head /\ node' = node /\ mine'[t] = mine[t]
  BY <1>1 DEF Search, Done, Found, Advance, GoTo, ListTypeOK, CallAt
<1>3. Due(t)'
  <2>1. due'[t] = IF at'[t] = "idle" THEN NIL ELSE due[t]
    BY <1>2, OwnDue
  <2>2. CASE due[t] = NIL
    BY <2>1, <2>2 DEF Due
  <2>3. CASE due[t] # NIL /\ node[curr[t]].name = task[t].name
    <3>1. at'[t] = "idle"
      BY <2>3, SearchDue DEF Found, Done, ListTypeOK
    <3>. QED BY <2>1, <3>1 DEF Due
  <2>4. CASE due[t] # NIL /\ node[curr[t]].name # task[t].name
    <3>. PICK c : c = Chain
      OBVIOUS
    <3>1. Advance(t) /\ task[t].op = "get"
      BY <2>4, SearchDue
    <3>2. PICK k \in 1 .. Len(c) :
            /\ node[c[k]].name = task[t].name /\ node[c[k]].id = due[t]
            /\ \A i \in 1 .. (k - 1) : node[c[i]].name # task[t].name
            /\ \E j \in 1 .. k : node[curr[t]].next = c[j]
      BY <2>4, SearchDue
    <3>3. at'[t] = "search" /\ curr'[t] = node[curr[t]].next /\ task' = task
      BY <1>2, <3>1 DEF Advance, ListTypeOK
    <3>. QED BY <1>1, <1>2, <2>1, <3>1, <3>2, <3>3 DEF Due
  <2>. QED BY <2>2, <2>3, <2>4
<1>4. at[t] \notin Inserting \cup {"idle", "free"} /\ at'[t] \notin Inserting \cup {"free"}
  BY <1>2 DEF Inserting
<1>. QED BY <1>1, <1>2, <1>3, <1>4, ReaderTidy

LEMMA DeleteTidy ==
  ASSUME ListTypeOK, \A s \in Walker : CallAt(s), Good, Tidy, NEW t \in Walker,
         Others(t), RecordMeetings,
         at[t] \in {"unlink", "free"}, at'[t] \in {"idle", "free"}, Held'
  PROVE  Tidy'
<1>1. \A s \in Walker \ {t} : at'[s] = "idle"
  BY DeletesAlone DEF Others
<1>2. OneInserts' /\ \A s \in Walker : AtTail(s)'
  BY <1>1 DEF OneInserts, AtTail, Inserting
<1>3. ASSUME NEW s \in Walker PROVE due'[s] = NIL
  <2>1. CASE s = t
    BY <2>1, OwnDue DEF Tidy, Due
  <2>2. CASE s # t
    BY <1>1, <2>2 DEF RecordMeetings, Begins
  <2>. QED BY <2>1, <2>2
<1>. QED BY <1>2, <1>3 DEF Tidy, Due

LEMMA UnlinkTidy ==
  ASSUME ListTypeOK, \A s \in Walker : CallAt(s), Good, Tidy, NEW t \in Walker,
         Unlink(t), RecordMeetings
  PROVE  Tidy'
<1>1. Others(t)
  BY OthersStay DEF ListStep
<1>2. /\ at[t] = "unlink" /\ at'[t] = "free" /\ curr' = curr
  BY DEF Unlink, GoTo, ListTypeOK
<1>3. \A s \in Walker : mine[s] = NIL /\ (at[s] = "free" => s = t)
  BY <1>2, DeletesAlone
<1>. PICK c : c = Chain
  OBVIOUS
<1>4. PICK j \in 1 .. Len(c) : Chain' = Cut(c, j) /\ c[j] = curr[t]
  BY UnlinkKeeps
<1>. PICK d : d = Cut(c, j)
  OBVIOUS
<1>5. Len(c) \in Nat
  BY ChainFacts DEF Good
<1>6. Len(d) = Len(c) - 1 /\ \A k \in 1 .. Len(d) : d[k] = IF k < j THEN c[k] ELSE c[k + 1]
  BY <1>5 DEF Cut
<1>7. \A b \in Block : node'[b].used = node[b].used
  BY DEF Unlink, ListTypeOK
<1>8. ASSUME NEW b \in Block, node'[b].used
      PROVE  (\E k \in 1 .. Len(d) : d[k] = b) \/ curr[t] = b
  <2>1. PICK k \in 1 .. Len(c) : c[k] = b
    BY <1>2, <1>3, <1>7, <1>8, NilIsNone DEF Tidy, Held
  <2>2. CASE k < j
    BY <1>5, <1>6, <2>1, <2>2
  <2>3. CASE k = j
    BY <1>4, <2>1, <2>3
  <2>4. CASE k > j
    <3>1. k - 1 \in 1 .. Len(d) /\ ~(k - 1 < j) /\ k - 1 + 1 = k
      BY <1>5, <1>6, <2>4
    <3>. QED BY <1>6, <2>1, <3>1
  <2>. QED BY <2>2, <2>3, <2>4
<1>9. Held'
  BY <1>2, <1>4, <1>8 DEF Held
<1>. QED BY <1>1, <1>2, <1>9, DeleteTidy

LEMMA FreeTidy ==
  ASSUME ListTypeOK, \A s \in Walker : CallAt(s), Good, Tidy, NEW t \in Walker,
         Free(t), RecordMeetings
  PROVE  Tidy'
<1>1. Others(t) /\ Chain' = Chain
  BY OthersStay, FreeKeeps DEF ListStep
<1>2. /\ at[t] = "free" /\ at'[t] = "idle"
      /\ \A b \in Block : node'[b].used => node[b].used /\ b # curr[t]
  BY DEF Free, Done, Unused, ListTypeOK, Holds
<1>3. \A s \in Walker : mine[s] = NIL /\ (at[s] = "free" => s = t)
  BY <1>2, DeletesAlone
<1>. PICK c : c = Chain
  OBVIOUS
<1>4. \A b \in Block : node'[b].used => \E k \in 1 .. Len(c) : c[k] = b
  BY <1>2, <1>3, NilIsNone DEF Tidy, Held
<1>5. Held'
  BY <1>1, <1>4 DEF Held
<1>. QED BY <1>1, <1>2, <1>5, DeleteTidy

LEMMA FirstIdIs ==
  ASSUME NEW name, HasName(name), Len(Chain) \in Nat, DOMAIN Chain = 1 .. Len(Chain)
  PROVE  \E k \in 1 .. Len(Chain) :
           /\ node[Chain[k]].name = name /\ node[Chain[k]].id = FirstId(name)
           /\ \A i \in 1 .. (k - 1) : node[Chain[i]].name # name
<1>. PICK c : c = Chain
  OBVIOUS
<1>. DEFINE T == {k \in 1 .. Len(c) : node[c[k]].name = name}
            IsFirst(k) == /\ Entries[k].group = name
                          /\ \A i \in 1 .. (k - 1) : Entries[i].group # name
<1>1. /\ DOMAIN Entries = 1 .. Len(c)
      /\ \A k \in 1 .. Len(c) : /\ Entries[k].group = node[c[k]].name
                               /\ Entries[k].vid = node[c[k]].id
  BY DEF Entries
<1>2. T # {} /\ T \subseteq Nat
  BY <1>1 DEF HasName
<1>3. PICK m \in T : \A k \in T : m <= k
  <2>. HIDE DEF T
  <2>. QED BY <1>2, LeastElement, Zenon
<1>4. \A k \in 1 .. Len(c) : \A i \in 1 .. (k - 1) : i \in 1 .. Len(c)
  OBVIOUS
<1>5. IsFirst(m)
  <2>1. \A i \in 1 .. (m - 1) : i \in 1 .. Len(c) /\ ~(m <= i)
    OBVIOUS
  <2>. QED BY <1>1, <1>3, <2>1
<1>. PICK k : k = CHOOSE j \in DOMAIN Entries : IsFirst(j)
  OBVIOUS
<1>6. k \in 1 .. Len(c) /\ IsFirst(k)
  <2>1. m \in DOMAIN Entries
    BY <1>1
  <2>. HIDE DEF IsFirst
  <2>. QED BY <1>1, <1>5, <2>1
<1>7. FirstId(name) = Entries[k].vid
  BY DEF FirstId
<1>8. node[c[k]].name = name /\ node[c[k]].id = FirstId(name)
  BY <1>1, <1>6, <1>7
<1>9. ASSUME NEW i \in 1 .. (k - 1) PROVE node[c[i]].name # name
  BY <1>1, <1>4, <1>6
<1>. QED BY <1>6, <1>8, <1>9

LEMMA EnterTidy ==
  ASSUME ListTypeOK, \A s \in Walker : CallAt(s), Good, Tidy, NEW t \in Walker,
         NEW call \in Tasks, Enter(t, call), RecordMeetings, met' = {}
  PROVE  Tidy'
<1>1. Others(t) /\ Chain' = Chain
  BY OthersStay, EnterKeeps
<1>2. /\ at[t] = "idle" /\ task'[t] = call
      /\ at'[t] = (IF call.op = "insert" THEN "malloc" ELSE "start")
      /\ head' = head /\ node' = node /\ mine' = mine /\ curr' = curr
  BY DEF Enter, ListTypeOK
<1>3. Begins(t) /\ \A s \in Walker \ {t} : ~Begins(s)
  BY <1>1, <1>2 DEF Begins, Others
<1>4. Held'
  BY <1>1, <1>2, HeldStays DEF Tidy
<1>5. OneInserts'
  <2>1. ASSUME NEW s \in Walker \ {t}, at[s] \in Inserting, call.op = "insert"
        PROVE  FALSE
    <3>1. task[s].op = "insert" /\ at[s] # "idle"
      BY <2>1 DEF CallAt, Inserting
    <3>2. "insert" \in Meeting(t)
      <4>1. "insert" \in {task[u].op : u \in {v \in Walker : at[v] # "idle"}}
        BY <3>1
      <4>. QED BY <1>2, <2>1, <4>1 DEF Meeting
    <3>. QED BY <1>3, <3>2, MeetingsStay
  <2>. QED BY <1>1, <1>2, <2>1 DEF OneInserts, Others, Tidy, Inserting
<1>6. \A s \in Walker : AtTail(s)'
  <2>1. AtTail(t)'
    BY <1>2 DEF AtTail
  <2>2. \A s \in Walker \ {t} : AtTail(s)'
    BY <1>1, <1>2, OthersAtTail DEF Tidy
  <2>. QED BY <2>1, <2>2
<1>7. Due(t)'
  <2>1. due'[t] = IF call.op = "get" /\ HasName(call.name) THEN FirstId(call.name) ELSE NIL
    BY <1>2, <1>3 DEF RecordMeetings
  <2>. PICK c : c = Chain
    OBVIOUS
  <2>2. ASSUME call.op = "get", HasName(call.name)
        PROVE  \E k \in 1 .. Len(c) :
                 /\ node[c[k]].name = call.name /\ node[c[k]].id = FirstId(call.name)
                 /\ \A i \in 1 .. (k - 1) : node[c[i]].name # call.name
    BY <2>2, ChainFacts, FirstIdIs DEF Good
  <2>3. call.op = "get" => at'[t] = "start"
    BY <1>2
  <2>. QED BY <1>1, <1>2, <2>1, <2>2, <2>3 DEF Due
<1>8. \A s \in Walker \ {t} : Due(s)'
  <2>. TAKE s \in Walker \ {t}
  <2>1. at'[s] = at[s] /\ curr'[s] = curr[s] /\ task'[s] = task[s] /\ Due(s)
    BY <1>1 DEF Others, Tidy
  <2>2. due'[s] = IF at[s] = "idle" THEN NIL ELSE due[s]
    BY <1>3, <2>1 DEF RecordMeetings
  <2>. QED BY <1>1, <1>2, <2>1, <2>2 DEF Due
<1>. QED BY <1>4, <1>5, <1>6, <1>7, <1>8 DEF Tidy

-----------------------------------------------------------------------------
(* The invariant holds.                                                    *)

LEMMA ListInvInit ==
  ASSUME ListInit, met = {}, due = [t \in Walker |-> NIL]
  PROVE  ListInv
<1>1. Follows(head, node, <<>>)
  BY DEF ListInit, Follows, IsInjective
<1>2. Chain = <<>>
  BY <1>1, ChainIs DEF Chain
<1>3. ListTypeOK /\ \A t \in Walker : CallAt(t)
  BY DEF ListInit, ListTypeOK, Unused, CallAt, Inserting, Labels
<1>4. \A b \in Block : ~node[b].used
  BY DEF ListInit, Unused
<1>5. Shape
  <2>1. \A k \in 1 .. Len(Chain) : Live(Chain[k])
    BY <1>2
  <2>. QED BY <1>1, <1>2, <1>4, <2>1 DEF Shape, Live
<1>6. \A t \in Walker : NewBlock(t) /\ Walking(t) /\ Deleting(t)
  BY DEF ListInit, NewBlock, Walking, Deleting
<1>7. Tidy
  BY <1>4 DEF ListInit, Tidy, Held, OneInserts, AtTail, Due, Inserting
<1>. QED BY <1>3, <1>5, <1>6, <1>7 DEF ListInv, Good

LEMMA ListInvStep ==
  ASSUME ListInv, ListNext, RecordMeetings
  PROVE  ListInv'
<1>. PICK t \in Walker : (\E call \in Tasks : Enter(t, call)) \/ ListStep(t)
  BY DEF ListNext
<1>1. ListTypeOK /\ (\A s \in Walker : CallAt(s)) /\ met \subseteq met'
  BY MeetingsStay DEF ListInv
<1>2. ListTypeOK' /\ (\A s \in Walker : CallAt(s))'
  BY <1>1, TypeKept
<1>3. ASSUME "delete" \notin met' PROVE Good'
  <2>1. Good
    BY <1>1, <1>3 DEF ListInv
  <2>2. ASSUME NEW call \in Tasks, Enter(t, call) PROVE Good'
    BY <1>1, <1>3, <2>1, <2>2, EnterKeeps
  <2>3. ASSUME ListStep(t) PROVE Good'
    BY <1>1, <2>1, <2>3, MallocKeeps, LookAtHeadKeeps, FirstKeeps, ToTailKeeps,
       LinkKeeps, StartKeeps, SearchKeeps, UnlinkKeeps, FreeKeeps, NeverAstray
       DEF ListStep
  <2>. QED BY <2>2, <2>3
<1>4. ASSUME met' = {} PROVE Tidy'
  <2>1. Good /\ Tidy
    BY <1>1, <1>4 DEF ListInv
  <2>2. ASSUME NEW call \in Tasks, Enter(t, call) PROVE Tidy'
    BY <1>1, <1>4, <2>1, <2>2, EnterTidy
  <2>3. ASSUME ListStep(t) PROVE Tidy'
    BY <1>1, <2>1, <2>3, MallocTidy, LookAtHeadTidy, FirstTidy, ToTailTidy,
       LinkTidy, StartTidy, SearchTidy, UnlinkTidy, FreeTidy, NeverAstray
       DEF ListStep
  <2>. QED BY <2>2, <2>3
<1>. QED BY <1>2, <1>3, <1>4 DEF ListInv

LEMMA ListInvCorrect == RecordedSpec => []ListInv
<1>1. ListInit /\ met = {} /\ due = [t \in Walker |-> NIL] => ListInv
  BY ListInvInit
<1>2. ListInv /\ [ListNext /\ RecordMeetings]_<<listVars, listHistory>> => ListInv'
  <2>1. ASSUME ListInv, UNCHANGED <<listVars, listHistory>> PROVE ListInv'
    BY <2>1 DEF ListInv, listVars, listHistory, ListTypeOK, CallAt, Good, Shape, Live,
       NewBlock, Walking, Deleting, Tidy, Held, OneInserts, AtTail, Due, Chain
  <2>. QED BY <2>1, ListInvStep
<1>. QED BY <1>1, <1>2, PTL DEF RecordedSpec

LEMMA MemoryRecords == MCSpec => RecordedSpec
<1>1. MCInit => ListInit /\ met = {} /\ due = [t \in Walker |-> NIL]
  BY DEF MCInit
<1>2. [MCNext]_<<topic, vars, listVars, listHistory, mtaVars, cmVars, alone>> =>
        [ListNext /\ RecordMeetings]_<<listVars, listHistory>>
  BY DEF MCNext, ListPart
<1>. QED BY <1>1, <1>2, PTL DEF MCSpec, RecordedSpec

(* The list has an end, consists of blocks that are not freed, and no walk *)
(* leaves it, as long as no entry is deleted during another call, appends  *)
(* in parallel included; and as long as no calls that change the list have *)
(* met at all, no block is lost (vlan_hal.c 674-769).                      *)
THEOREM ListIntactCorrect ==
  /\ RecordedSpec => []ListIntact
  /\ MCSpec => []ListIntact
<1>1. ListInv => ListIntact
  <2>. SUFFICES ASSUME ListInv PROVE ListIntact
    OBVIOUS
  <2>. PICK c : c = Chain
    OBVIOUS
  <2>1. ASSUME "delete" \notin met
        PROVE  /\ Ends /\ \A k \in DOMAIN c : node[c[k]].used
               /\ \A t \in Walker : at[t] # "astray"
    <3>1. Good /\ ListTypeOK
      BY <2>1 DEF ListInv
    <3>2. Follows(head, node, c) /\ \A k \in DOMAIN c : Live(c[k])
      BY <3>1, ChainFacts DEF Good, Shape
    <3>3. Ends
      BY <3>2, FewBlocks DEF Follows, Ends
    <3>. QED BY <3>1, <3>2, <3>3 DEF Good, Walking, Live
  <2>2. ASSUME met = {}, NEW b \in Block, node[b].used
        PROVE  OnList(b) \/ \E t \in Walker : mine[t] = b \/ curr[t] = b
    <3>1. Held /\ Good /\ ListTypeOK
      BY <2>2 DEF ListInv, Tidy
    <3>. QED BY <2>2, <3>1, ChainFacts DEF Held, OnList, Good
  <2>. QED BY <2>1, <2>2 DEF ListIntact
<1>2. RecordedSpec => []ListIntact
  BY <1>1, ListInvCorrect, PTL
<1>. QED BY <1>2, MemoryRecords, PTL

(* A look-up that began when the group had an entry finds the first one,   *)
(* whatever lists there are and whoever appends entries meanwhile          *)
(* (vlan_hal.c 772-819).                                                   *)
THEOREM GetFindsEntryCorrect ==
  /\ RecordedSpec => GetFindsEntry
  /\ MCSpec => GetFindsEntry
<1>. DEFINE A == \A t \in Walker :
                   due[t] # NIL /\ at[t] # "idle" /\ at'[t] = "idle" /\ met' = {} =>
                     found'[t] = due[t]
<1>1. ASSUME ListInv, ListNext, RecordMeetings, NEW t \in Walker,
             due[t] # NIL, at[t] # "idle", at'[t] = "idle", met' = {}
      PROVE  found'[t] = due[t]
  <2>1. met = {} /\ ListTypeOK /\ Good /\ Tidy /\ \A s \in Walker : CallAt(s)
    BY <1>1, MeetingsStay DEF ListInv
  <2>. PICK u \in Walker : (\E call \in Tasks : Enter(u, call)) \/ ListStep(u)
    BY <1>1 DEF ListNext
  <2>2. u = t
    BY <1>1, <2>1, OthersStay DEF Others
  <2>3. at[t] \in {"start", "search"}
    BY <1>1, <2>1 DEF Tidy, Due
  <2>4. Search(t)
    BY <1>1, <2>1, <2>2, <2>3 DEF ListStep, Enter, Malloc, LookAtHead, First, ToTail,
       Link, Start, Unlink, Free, Astray, GoTo, ListTypeOK
  <2>5. node[curr[t]].name = task[t].name
    <3>1. ASSUME node[curr[t]].name # task[t].name PROVE FALSE
      <4>1. Advance(t)
        BY <1>1, <2>1, <2>4, <3>1, SearchDue
      <4>. QED BY <1>1, <2>4, <4>1 DEF Advance, Search
    <3>. QED BY <3>1
  <2>6. Found(t) /\ node[curr[t]].id = due[t]
    BY <1>1, <2>1, <2>4, <2>5, SearchDue
  <2>. QED BY <2>1, <2>6 DEF Found, Done, ListTypeOK
<1>2. ListInv /\ [ListNext /\ RecordMeetings]_<<listVars, listHistory>> =>
        [A]_<<listVars, listHistory>>
  BY <1>1
<1>3. RecordedSpec => GetFindsEntry
  BY <1>2, ListInvCorrect, PTL DEF RecordedSpec, GetFindsEntry
<1>. QED BY <1>3, MemoryRecords, PTL

-----------------------------------------------------------------------------
(* To those who read it the list is a sequence.                            *)

LEMMA AppendIsUntil ==
  ASSUME NEW S, NEW s \in Seq(S), NEW k \in 0 .. Len(s), NEW e
  PROVE  Append(SubSeq(s, 1, k), e) = Until(s, k, e)
<1>1. Len(s) \in Nat /\ k \in Nat
  OBVIOUS
<1>. PICK a : a = SubSeq(s, 1, k)
  OBVIOUS
<1>2. a \in Seq(S) /\ Len(a) = k /\ \A i \in 1 .. k : a[i] = s[i]
  BY <1>1
<1>3. Append(a, e) = [i \in 1 .. (k + 1) |-> IF i <= k THEN s[i] ELSE e]
  BY <1>1, <1>2
<1>. QED BY <1>3 DEF Until

LEMMA RemoveOne ==
  ASSUME NEW S, NEW s \in Seq(S), NEW k \in DOMAIN s
  PROVE  /\ RemoveAt(s, k) \in Seq(S)
         /\ Len(RemoveAt(s, k)) = Len(s) - 1
         /\ \A i \in 1 .. Len(RemoveAt(s, k)) :
              RemoveAt(s, k)[i] = IF i < k THEN s[i] ELSE s[i + 1]
<1>1. Len(s) \in Nat /\ k \in 1 .. Len(s) /\ \A i \in 1 .. Len(s) : s[i] \in S
  OBVIOUS
<1>0. PICK a, b : a = SubSeq(s, 1, k - 1) /\ b = SubSeq(s, k + 1, Len(s))
  OBVIOUS
<1>2. a \in Seq(S) /\ Len(a) = k - 1 /\ \A i \in 1 .. (k - 1) : a[i] = s[i]
  BY <1>0, <1>1
<1>3. /\ b \in Seq(S) /\ Len(b) = Len(s) - k
      /\ \A i \in 1 .. (Len(s) - k) : b[i] = s[k + i]
  BY <1>0, <1>1
<1>4. RemoveAt(s, k) = a \o b
  BY <1>0 DEF RemoveAt
<1>5. /\ a \o b \in Seq(S) /\ Len(a \o b) = Len(s) - 1
      /\ \A i \in 1 .. (Len(s) - 1) :
           (a \o b)[i] = IF i < k THEN s[i] ELSE s[i + 1]
  <2>1. a \o b \in Seq(S) /\ Len(a \o b) = Len(a) + Len(b)
    BY <1>2, <1>3, ConcatProperties, Zenon
  <2>2. \A i \in 1 .. Len(a) + Len(b) :
          (a \o b)[i] = IF i <= Len(a) THEN a[i] ELSE b[i - Len(a)]
    BY <1>2, <1>3, ConcatProperties, Zenon
  <2>3. /\ Len(a) = k - 1 /\ Len(b) = Len(s) - k /\ Len(a) + Len(b) = Len(s) - 1
        /\ k \in Nat /\ Len(s) \in Nat
    BY <1>1, <1>2, <1>3
  <2>4. ASSUME NEW i \in 1 .. (Len(s) - 1)
        PROVE  (a \o b)[i] = IF i < k THEN s[i] ELSE s[i + 1]
    <3>1. (a \o b)[i] = IF i <= k - 1 THEN a[i] ELSE b[i - (k - 1)]
      BY <2>2, <2>3
    <3>2. i \in Nat /\ i <= Len(s) - 1
      BY <2>3
    <3>3. CASE i < k
      <4>1. i \in 1 .. (k - 1) /\ i <= k - 1
        BY <2>3, <3>2, <3>3
      <4>. QED BY <1>2, <3>1, <3>3, <4>1
    <3>4. CASE ~(i < k)
      <4>1. i - (k - 1) \in 1 .. (Len(s) - k) /\ k + (i - (k - 1)) = i + 1
            /\ ~(i <= k - 1)
        <5>1. \A x, y, z \in Nat : x <= z - 1 /\ ~(x < y) =>
                /\ x - (y - 1) \in 1 .. (z - y)
                /\ y + (x - (y - 1)) = x + 1 /\ ~(x <= y - 1)
          OBVIOUS
        <5>. QED BY <2>3, <3>2, <3>4, <5>1, Zenon
      <4>2. b[i - (k - 1)] = s[k + (i - (k - 1))]
        BY <1>3, <4>1
      <4>3. (a \o b)[i] = s[i + 1]
        BY <3>1, <4>1, <4>2
      <4>. QED BY <3>4, <4>3
    <3>. QED BY <3>3, <3>4
  <2>. QED BY <2>1, <2>3, <2>4
<1>. QED BY <1>4, <1>5

LEMMA RemoveIsCut ==
  ASSUME NEW S, NEW s \in Seq(S), NEW k \in 1 .. Len(s)
  PROVE  RemoveAt(s, k) = Cut(s, k)
<1>. PICK c : c = RemoveAt(s, k)
  OBVIOUS
<1>. PICK n : n = Len(s) - 1
  OBVIOUS
<1>1. /\ c \in Seq(S) /\ Len(c) = n
      /\ \A i \in 1 .. n : c[i] = IF i < k THEN s[i] ELSE s[i + 1]
  <2>1. k \in DOMAIN s
    OBVIOUS
  <2>2. /\ RemoveAt(s, k) \in Seq(S) /\ Len(RemoveAt(s, k)) = Len(s) - 1
        /\ \A i \in 1 .. Len(RemoveAt(s, k)) :
             RemoveAt(s, k)[i] = IF i < k THEN s[i] ELSE s[i + 1]
    BY <2>1, RemoveOne, Zenon
  <2>. QED BY <2>2
<1>2. c = [i \in 1 .. n |-> c[i]]
  BY <1>1
<1>. QED BY <1>1, <1>2 DEF Cut

LEMMA FirstMatchIs ==
  ASSUME NEW s, Len(s) \in Nat, NEW name, NEW j \in 1 .. Len(s), s[j].group = name,
         \A i \in 1 .. (j - 1) : s[i].group # name
  PROVE  LET IsOfName(e) == e.group = name
         IN RemoveFirstMatch(s, IsOfName) = RemoveAt(s, j)
<1>. DEFINE T == {i \in 1 .. Len(s) : s[i].group = name}
<1>1. j \in T /\ \A i \in T : j <= i
  OBVIOUS
<1>2. T \subseteq Nat
  OBVIOUS
<1>3. Min(T) = j
  <2>. HIDE DEF T
  <2>1. PICK m : m = CHOOSE x \in T : \A y \in T : x <= y
    OBVIOUS
  <2>2. m \in T /\ \A y \in T : m <= y
    BY <1>1, <2>1
  <2>3. m <= j /\ j <= m /\ m \in Nat /\ j \in Nat
    BY <1>1, <1>2, <2>2
  <2>4. m = j
    BY <2>3
  <2>. QED BY <2>1, <2>4 DEF Min
<1>. QED BY <1>1, <1>3 DEF RemoveFirstMatch, SelectInSeq

Entry == [group : Name \cup {NIL}, vid : Id \cup {NIL}]

LEMMA EntriesFacts ==
  ASSUME ListTypeOK, Good
  PROVE  /\ Entries \in Seq(Entry) /\ Len(Entries) = Len(Chain) /\ Len(Chain) \in Nat
         /\ DOMAIN Entries = 1 .. Len(Chain)
         /\ \A k \in 1 .. Len(Chain) :
              /\ Chain[k] \in Block
              /\ Entries[k] = [group |-> node[Chain[k]].name, vid |-> node[Chain[k]].id]
              /\ Entries[k].group = node[Chain[k]].name
<1>. PICK c : c = Chain
  OBVIOUS
<1>1. /\ Len(c) \in Nat /\ DOMAIN c = 1 .. Len(c)
      /\ \A k \in 1 .. Len(c) : c[k] \in Block
  BY ChainFacts DEF Good
<1>. PICK n : n = Len(c)
  OBVIOUS
<1>2. Entries = [k \in 1 .. n |-> [group |-> node[c[k]].name, vid |-> node[c[k]].id]]
  BY <1>1 DEF Entries
<1>3. \A k \in 1 .. n : [group |-> node[c[k]].name, vid |-> node[c[k]].id] \in Entry
  BY <1>1 DEF Entry, ListTypeOK
<1>4. Entries \in Seq(Entry) /\ Len(Entries) = n
  BY <1>1, <1>2, <1>3
<1>. QED BY <1>1, <1>2, <1>4

LEMMA EntriesStay ==
  ASSUME ListTypeOK, Good, Chain' = Chain,
         \A k \in 1 .. Len(Chain) : /\ node'[Chain[k]].name = node[Chain[k]].name
                                    /\ node'[Chain[k]].id = node[Chain[k]].id
  PROVE  Entries' = Entries
<1>. PICK c : c = Chain
  OBVIOUS
<1>1. DOMAIN c = 1 .. Len(c)
  BY ChainFacts DEF Good
<1>2. Entries = [k \in DOMAIN c |-> [group |-> node[c[k]].name, vid |-> node[c[k]].id]]
  BY DEF Entries
<1>3. Entries' = [k \in DOMAIN c |-> [group |-> node'[c[k]].name, vid |-> node'[c[k]].id]]
  BY DEF Entries
<1>. QED BY <1>1, <1>2, <1>3

LEMMA EntriesExtend ==
  ASSUME ListTypeOK, Good, NEW k \in 0 .. Len(Chain), NEW b, Chain' = Until(Chain, k, b),
         \A i \in 1 .. Len(Chain) : /\ node'[Chain[i]].name = node[Chain[i]].name
                                    /\ node'[Chain[i]].id = node[Chain[i]].id,
         NEW name, NEW id, node'[b].name = name, node'[b].id = id
  PROVE  Entries' = Append(SubSeq(Entries, 1, k), [group |-> name, vid |-> id])
<1>. PICK c : c = Chain
  OBVIOUS
<1>. PICK d : d = Until(c, k, b)
  OBVIOUS
<1>. PICK l : l = Entries
  OBVIOUS
<1>. PICK e : e = [group |-> name, vid |-> id]
  OBVIOUS
<1>1. /\ l \in Seq(Entry) /\ Len(l) = Len(c) /\ Len(c) \in Nat /\ k \in Nat /\ k <= Len(c)
      /\ \A i \in 1 .. Len(c) : l[i] = [group |-> node[c[i]].name, vid |-> node[c[i]].id]
  BY EntriesFacts
<1>2. Entries' = [i \in DOMAIN d |-> [group |-> node'[d[i]].name, vid |-> node'[d[i]].id]]
  BY DEF Entries
<1>3. /\ DOMAIN d = 1 .. (k + 1)
      /\ \A i \in 1 .. (k + 1) : d[i] = IF i <= k THEN c[i] ELSE b
  BY DEF Until
<1>4. \A i \in 1 .. (k + 1) :
        [group |-> node'[d[i]].name, vid |-> node'[d[i]].id] = IF i <= k THEN l[i] ELSE e
  <2>. TAKE i \in 1 .. (k + 1)
  <2>1. CASE i <= k
    <3>1. i \in 1 .. Len(c) /\ d[i] = c[i]
      BY <1>1, <1>3, <2>1
    <3>. QED BY <1>1, <2>1, <3>1
  <2>2. CASE ~(i <= k)
    BY <1>3, <2>2
  <2>. QED BY <2>1, <2>2
<1>5. Entries' = Until(l, k, e)
  BY <1>2, <1>3, <1>4 DEF Until
<1>6. Append(SubSeq(l, 1, k), e) = Until(l, k, e)
  BY <1>1, AppendIsUntil
<1>. QED BY <1>5, <1>6

LEMMA EntriesCut ==
  ASSUME ListTypeOK, Good, NEW j \in 1 .. Len(Chain), Chain' = Cut(Chain, j),
         \A b \in Block : node'[b].name = node[b].name /\ node'[b].id = node[b].id
  PROVE  Entries' = RemoveAt(Entries, j)
<1>. PICK c : c = Chain
  OBVIOUS
<1>. PICK d : d = Cut(c, j)
  OBVIOUS
<1>. PICK l : l = Entries
  OBVIOUS
<1>1. /\ l \in Seq(Entry) /\ Len(l) = Len(c) /\ Len(c) \in Nat
      /\ \A i \in 1 .. Len(c) :
           /\ c[i] \in Block
           /\ l[i] = [group |-> node[c[i]].name, vid |-> node[c[i]].id]
  BY EntriesFacts
<1>2. Entries' = [i \in DOMAIN d |-> [group |-> node'[d[i]].name, vid |-> node'[d[i]].id]]
  BY DEF Entries
<1>3. /\ DOMAIN d = 1 .. (Len(c) - 1)
      /\ \A i \in 1 .. (Len(c) - 1) : d[i] = IF i < j THEN c[i] ELSE c[i + 1]
  BY DEF Cut
<1>4. \A i \in 1 .. (Len(c) - 1) :
        [group |-> node'[d[i]].name, vid |-> node'[d[i]].id]
          = IF i < j THEN l[i] ELSE l[i + 1]
  <2>. TAKE i \in 1 .. (Len(c) - 1)
  <2>1. i \in 1 .. Len(c) /\ i + 1 \in 1 .. Len(c)
    BY <1>1
  <2>2. \A m \in 1 .. Len(c) :
          [group |-> node'[c[m]].name, vid |-> node'[c[m]].id] = l[m]
    BY <1>1
  <2>. QED BY <1>3, <2>1, <2>2
<1>5. Entries' = Cut(l, j)
  BY <1>1, <1>2, <1>3, <1>4 DEF Cut
<1>6. RemoveAt(l, j) = Cut(l, j)
  BY <1>1, RemoveIsCut
<1>. QED BY <1>5, <1>6

(* What a step does to the entries, as long as no deletion has met another *)
(* call.                                                                   *)
EntryOf(t) == [group |-> task[t].name, vid |-> task[t].id]

AppendsBehind(t, k) ==
  /\ at[t] \in {"first", "link"}
  /\ Entries' = Append(SubSeq(Entries, 1, k), EntryOf(t))
  /\ met' = {} => k = Len(Entries)

Removes(t, j) ==
  /\ at[t] = "unlink"
  /\ Entries' = RemoveAt(Entries, j)
  /\ Entries[j].group = task[t].name
  /\ \A i \in 1 .. (j - 1) : Entries[i].group # task[t].name

LEMMA EntriesStep ==
  ASSUME ListInv, ListNext, RecordMeetings, "delete" \notin met'
  PROVE  \/ Entries' = Entries
         \/ \E t \in Walker : \E k \in 0 .. Len(Entries) : AppendsBehind(t, k)
         \/ \E t \in Walker : \E j \in 1 .. Len(Entries) : Removes(t, j)
<1>. PICK t \in Walker : (\E call \in Tasks : Enter(t, call)) \/ ListStep(t)
  BY DEF ListNext
<1>1. ListTypeOK /\ (\A s \in Walker : CallAt(s)) /\ Good /\ (met' = {} => Tidy)
  BY MeetingsStay DEF ListInv
<1>. PICK c : c = Chain
  OBVIOUS
<1>2. /\ Len(c) \in Nat /\ Len(Entries) = Len(c)
      /\ \A k \in 1 .. Len(c) : c[k] \in Block /\ Live(c[k])
  BY <1>1, ChainFacts, EntriesFacts DEF Good
<1>a. CASE \E call \in Tasks : Enter(t, call)
  <2>1. Chain' = Chain /\ node' = node
    BY <1>1, <1>a, EnterKeeps DEF Enter
  <2>. QED BY <1>1, <2>1, EntriesStay
<1>b. CASE LookAtHead(t) \/ ToTail(t) \/ Start(t) \/ Search(t)
  <2>1. Chain' = Chain /\ node' = node
    BY <1>1, <1>b, LookAtHeadKeeps, ToTailKeeps, StartKeeps, SearchKeeps
       DEF LookAtHead, ToTail, Start, Search
  <2>. QED BY <1>1, <2>1, EntriesStay
<1>c. CASE Malloc(t)
  <2>1. Chain' = c
    BY <1>1, <1>c, MallocKeeps
  <2>2. \A k \in 1 .. Len(c) : node'[c[k]] = node[c[k]]
    BY <1>1, <1>2, <1>c DEF Malloc, Live, ListTypeOK
  <2>. QED BY <1>1, <2>1, <2>2, EntriesStay
<1>d. CASE Free(t)
  <2>1. Chain' = c
    BY <1>1, <1>d, FreeKeeps
  <2>2. \A k \in 1 .. Len(c) : node'[c[k]] = node[c[k]]
    BY <1>1, <1>2, <1>d DEF Free, Live, ListTypeOK
  <2>. QED BY <1>1, <2>1, <2>2, EntriesStay
<1>e. CASE First(t)
  <2>. PICK b : b = mine[t]
    OBVIOUS
  <2>1. at[t] = "first" /\ node' = node /\ Chain' = <<b>>
    BY <1>1, <1>e, FirstKeeps DEF First
  <2>2. node[b].name = task[t].name /\ node[b].id = task[t].id
    <3>1. CallAt(t) /\ NewBlock(t)
      BY <1>1 DEF Good
    <3>2. node[b] = Fresh(task[t].name, task[t].id)
      BY <2>1, <3>1 DEF CallAt, NewBlock
    <3>. QED BY <3>2 DEF Fresh
  <2>3. <<b>> = Until(c, 0, b) /\ 0 \in 0 .. Len(c)
    BY <1>2 DEF Until
  <2>4. Entries' = Append(SubSeq(Entries, 1, 0), EntryOf(t))
    BY <1>1, <2>1, <2>2, <2>3, EntriesExtend DEF EntryOf
  <2>5. met' = {} => Len(c) = 0
    BY <1>1, <1>2, <2>1, NilIsNone, ChainFacts DEF Tidy, AtTail, Good
  <2>. QED BY <1>2, <2>1, <2>3, <2>4, <2>5 DEF AppendsBehind
<1>f. CASE Link(t)
  <2>. PICK b : b = mine[t]
    OBVIOUS
  <2>. PICK p : p = curr[t]
    OBVIOUS
  <2>1. /\ at[t] = "link" /\ p \in Block
        /\ \A a \in Block : node'[a].name = node[a].name /\ node'[a].id = node[a].id
    BY <1>1, <1>f DEF Link, Holds, ListTypeOK
  <2>2. b \in Block /\ node[b].name = task[t].name /\ node[b].id = task[t].id
    <3>1. CallAt(t) /\ NewBlock(t)
      BY <1>1 DEF Good
    <3>2. node[b] = Fresh(task[t].name, task[t].id) /\ b # NIL
      BY <2>1, <3>1 DEF CallAt, NewBlock
    <3>. QED BY <1>1, <3>2 DEF Fresh, ListTypeOK
  <2>3. CASE \A k \in 1 .. Len(c) : c[k] # p
    <3>1. Chain' = c
      BY <1>1, <1>f, <2>3, LinkKeeps
    <3>. QED BY <1>1, <1>2, <2>1, <3>1, EntriesStay
  <2>4. ASSUME NEW k \in 1 .. Len(c), c[k] = p
        PROVE  AppendsBehind(t, k) /\ k \in 0 .. Len(Entries)
    <3>1. Chain' = Until(c, k, b)
      BY <1>1, <1>f, <2>4, LinkKeeps
    <3>2. k \in 0 .. Len(c)
      BY <1>2
    <3>3. Entries' = Append(SubSeq(Entries, 1, k), EntryOf(t))
      BY <1>1, <1>2, <2>1, <2>2, <3>1, <3>2, EntriesExtend DEF EntryOf
    <3>4. ASSUME met' = {} PROVE k = Len(c)
      <4>1. p = c[Len(c)] /\ Len(c) \in 1 .. Len(c)
        BY <1>1, <1>2, <2>1, <3>4 DEF Tidy, AtTail
      <4>. QED BY <1>1, <2>4, <4>1, ChainFacts DEF Good
    <3>. QED BY <1>2, <2>1, <3>2, <3>3, <3>4 DEF AppendsBehind
  <2>. QED BY <2>3, <2>4
<1>g. CASE Unlink(t)
  <2>1. PICK j \in 1 .. Len(c) :
          /\ Chain' = Cut(c, j) /\ node[c[j]].name = task[t].name
          /\ \A i \in 1 .. (j - 1) : node[c[i]].name # task[t].name
    BY <1>1, <1>g, UnlinkKeeps
  <2>2. /\ at[t] = "unlink"
        /\ \A a \in Block : node'[a].name = node[a].name /\ node'[a].id = node[a].id
    BY <1>1, <1>g DEF Unlink, Holds, ListTypeOK
  <2>3. Entries' = RemoveAt(Entries, j)
    BY <1>1, <2>1, <2>2, EntriesCut
  <2>4. \A i \in 1 .. Len(c) : Entries[i].group = node[c[i]].name
    BY <1>1, EntriesFacts
  <2>5. \A i \in 1 .. (j - 1) : i \in 1 .. Len(c)
    BY <1>2
  <2>. QED BY <1>2, <2>1, <2>2, <2>3, <2>4, <2>5 DEF Removes
<1>. QED BY <1>1, <1>a, <1>b, <1>c, <1>d, <1>e, <1>f, <1>g, NeverAstray DEF ListStep

(* To those who read it the list is the sequence that VlanHal takes it     *)
(* for: a step appends one entry, or takes out the first of a name; two    *)
(* calls that append at once can cost entries at the end, and no others    *)
(* (vlan_hal.c 674-769).                                                   *)
THEOREM ActsAsSequenceCorrect ==
  /\ RecordedSpec => ActsAsSequence
  /\ MCSpec => ActsAsSequence
<1>. DEFINE A ==
       LET Appended(list) ==
             \E t \in Walker :
               /\ at[t] \in {"first", "link"}
               /\ Entries' = Append(list, [group |-> task[t].name,
                                           vid |-> task[t].id])
           Removed ==
             \E t \in Walker :
               LET IsOfName(e) == e.group = task[t].name
               IN at[t] = "unlink" /\ Entries' = RemoveFirstMatch(Entries, IsOfName)
       IN /\ met' = {} => Entries' = Entries \/ Appended(Entries) \/ Removed
          /\ met' = {"insert"} =>
               \/ Entries' = Entries \/ Removed
               \/ \E k \in 0 .. Len(Entries) : Appended(SubSeq(Entries, 1, k))
<1>1. ASSUME ListInv, ListNext, RecordMeetings PROVE A
  <2>0. "delete" \in met' => met' # {} /\ met' # {"insert"}
    OBVIOUS
  <2>. SUFFICES ASSUME "delete" \notin met' PROVE A
    BY <2>0, Zenon
  <2>1. ListTypeOK /\ Good
    BY <1>1, MeetingsStay DEF ListInv
  <2>2. CASE Entries' = Entries
    BY <2>2, Zenon
  <2>3. ASSUME NEW t \in Walker, NEW k \in 0 .. Len(Entries), AppendsBehind(t, k)
        PROVE  A
    <3>1. SubSeq(Entries, 1, Len(Entries)) = Entries
      BY <2>1, EntriesFacts
    <3>2. at[t] \in {"first", "link"} /\ (met' = {} => k = Len(Entries))
          /\ Entries' = Append(SubSeq(Entries, 1, k), [group |-> task[t].name,
                                                      vid |-> task[t].id])
      BY <2>3 DEF AppendsBehind, EntryOf
    <3>. QED BY <3>1, <3>2, Zenon
  <2>4. ASSUME NEW t \in Walker, NEW j \in 1 .. Len(Entries), Removes(t, j)
        PROVE  A
    <3>1. LET IsOfName(e) == e.group = task[t].name
          IN RemoveFirstMatch(Entries, IsOfName) = RemoveAt(Entries, j)
      <4>1. Len(Entries) \in Nat
        BY <2>1, EntriesFacts
      <4>. QED BY <2>4, <4>1, FirstMatchIs, Zenon DEF Removes
    <3>. QED BY <2>4, <3>1, Zenon DEF Removes
  <2>. QED BY <1>1, <2>2, <2>3, <2>4, EntriesStep
<1>2. ListInv /\ [ListNext /\ RecordMeetings]_<<listVars, listHistory>> =>
        [A]_<<listVars, listHistory>>
  BY <1>1
<1>3. RecordedSpec => ActsAsSequence
  BY <1>2, ListInvCorrect, PTL DEF RecordedSpec, ActsAsSequence
<1>. QED BY <1>3, MemoryRecords, PTL
=============================================================================
