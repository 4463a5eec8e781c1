--------------------------- MODULE WifiAssocProofs ---------------------------
(***************************************************************************)
(* The stations of one access point, for any callers, any stations, any    *)
(* lines that come in two pieces and any access control list: the array is *)
(* not overrun, a caller alone with the file gets the list of one moment,  *)
(* and a kick asks those to leave whom the list names.                     *)
(*                                                                         *)
(* The argument: what is read of a file is a sequence, and at least as     *)
(* long as the file (FlattenSeq, by induction over its own definition); a  *)
(* caller that is alone has at each step all that the driver listed, in    *)
(* the file, in the array or still to come (Snapshot); and a kick has      *)
(* asked, or has still ahead, exactly those that its list tells it to      *)
(* (Kicked).                                                               *)
(***************************************************************************)
EXTENDS MCWifiAssoc, Integers, FiniteSetTheorems, SequenceTheorems,
        NaturalsInduction, TLAPS

(* Induction, for a set of numbers instead of a predicate. *)
LEMMA LessIsWellFounded == IsWellFoundedOn({p \in Nat \X Nat : p[1] < p[2]}, Nat)
BY NatLessThanWellFounded, Zenon DEF OpToRel

LEMMA LeastElement ==
  ASSUME NEW T, T \subseteq Nat, T # {}
  PROVE  \E x \in T : \A y \in T : x <= y
<1>1. PICK x \in T : \A y \in T : ~(<<y, x>> \in {p \in Nat \X Nat : p[1] < p[2]})
  BY LessIsWellFounded, WFMin, Zenon
<1>2. ASSUME NEW y \in T, y < x PROVE FALSE
  <2>1. <<y, x>> \in {p \in Nat \X Nat : p[1] < p[2]}
    BY <1>2
  <2>. QED BY <1>1, <2>1
<1>. QED BY <1>2

LEMMA UpTo ==
  ASSUME NEW n \in Nat, NEW T, T \subseteq 0 .. n, 0 \in T,
         \A m \in T : m < n => m + 1 \in T
  PROVE  T = 0 .. n
<1>1. ASSUME (0 .. n) \ T # {} PROVE FALSE
  <2>1. (0 .. n) \ T \subseteq Nat
    OBVIOUS
  <2>. PICK x \in (0 .. n) \ T : \A y \in (0 .. n) \ T : x <= y
    BY <1>1, <2>1, LeastElement, Zenon
  <2>2. x - 1 \in T /\ x - 1 < n
    OBVIOUS
  <2>. QED BY <2>2
<1>. QED BY <1>1

-----------------------------------------------------------------------------
(* The recursion of FlattenSeq. *)
Joins(parts, f, n) ==
  f = [i \in 1 .. n |-> IF i = 1 THEN parts[i] ELSE f[i - 1] \o parts[i]]

LEMMA JoinsAt ==
  ASSUME NEW parts, NEW f, NEW n \in Nat, Joins(parts, f, n), NEW i \in 1 .. n
  PROVE  f[i] = IF i = 1 THEN parts[i] ELSE f[i - 1] \o parts[i]
BY DEF Joins

LEMMA JoinsMore ==
  ASSUME NEW parts, NEW f, NEW m \in Nat, Joins(parts, f, m)
  PROVE  \E g : Joins(parts, g, m + 1)
<1>. DEFINE g == [i \in 1 .. (m + 1) |->
                    IF i = 1 THEN parts[i] ELSE f[i - 1] \o parts[i]]
<1>1. \A i \in 1 .. (m + 1) :
        g[i] = IF i = 1 THEN parts[i] ELSE f[i - 1] \o parts[i]
  OBVIOUS
<1>2. \A i \in 1 .. m : i \in 1 .. (m + 1) /\ g[i] = f[i]
  BY <1>1, JoinsAt
<1>3. \A i \in 1 .. (m + 1) : i # 1 => g[i - 1] = f[i - 1]
  <2>. TAKE i \in 1 .. (m + 1)
  <2>. HAVE i # 1
  <2>1. i - 1 \in 1 .. m
    OBVIOUS
  <2>. HIDE DEF g
  <2>. QED BY <1>2, <2>1
<1>4. g = [i \in 1 .. (m + 1) |->
             IF i = 1 THEN parts[i] ELSE g[i - 1] \o parts[i]]
  BY <1>1, <1>3
<1>. HIDE DEF g
<1>. QED BY <1>4 DEF Joins

LEMMA Joined ==
  ASSUME NEW S, NEW parts \in Seq(S)
  PROVE  \E f : /\ Joins(parts, f, Len(parts))
                /\ parts # <<>> => FlattenSeq(parts) = f[Len(parts)]
<1>. DEFINE n == Len(parts)
            flat == CHOOSE f : Joins(parts, f, n)
<1>1. n \in Nat
  OBVIOUS
<1>2. \E f : Joins(parts, f, n)
  <2>. DEFINE T == {m \in 0 .. n : \E f : Joins(parts, f, m)}
  <2>1. 0 \in T
    <3>1. Joins(parts, [i \in 1 .. 0 |-> 0], 0)
      BY DEF Joins
    <3>. QED BY <1>1, <3>1
  <2>2. ASSUME NEW m \in T, m < n PROVE m + 1 \in T
    <3>0. m \in Nat /\ m + 1 \in 0 .. n
      BY <1>1, <2>2
    <3>1. PICK f : Joins(parts, f, m)
      OBVIOUS
    <3>2. \E g : Joins(parts, g, m + 1)
      BY <3>0, <3>1, JoinsMore
    <3>. QED BY <3>0, <3>2
  <2>3. T = 0 .. n
    <3>. HIDE DEF T
    <3>1. T \subseteq 0 .. n
      BY DEF T
    <3>. QED BY <1>1, <2>1, <2>2, <3>1, UpTo
  <2>4. n \in T
    BY <1>1, <2>3
  <2>. QED BY <2>4
<1>3. Joins(parts, flat, n)
  BY <1>2
<1>4. parts # <<>> => FlattenSeq(parts) = flat[n]
  BY <1>1 DEF FlattenSeq, flat, Joins
<1>. HIDE DEF flat
<1>. QED BY <1>3, <1>4

(* What FlattenSeq makes of sequences none of which is empty.              *)
LEMMA Flattened ==
  ASSUME NEW S, NEW parts \in Seq(Seq(S)),
         \A k \in DOMAIN parts : Len(parts[k]) >= 1
  PROVE  FlattenSeq(parts) \in Seq(S) /\ Len(FlattenSeq(parts)) >= Len(parts)
<1>. DEFINE n == Len(parts)
<1>1. n \in Nat /\ \A k \in 1 .. n : parts[k] \in Seq(S) /\ Len(parts[k]) >= 1
  OBVIOUS
<1>3. PICK flat : Joins(parts, flat, n) /\ (parts # <<>> => FlattenSeq(parts) = flat[n])
  BY Joined
<1>4. CASE n = 0
  BY <1>1, <1>4 DEF FlattenSeq
<1>5. CASE n > 0
  <2>. DEFINE T == {m \in 0 .. n : m = 0 \/ (flat[m] \in Seq(S) /\ Len(flat[m]) >= m)}
  <2>1. 0 \in T
    BY <1>1
  <2>2. ASSUME NEW m \in T, m < n PROVE m + 1 \in T
    <3>0. m \in Nat /\ m + 1 \in 1 .. n /\ (m # 0 => m \in 1 .. n)
      BY <1>1, <2>2
    <3>1. flat[m + 1] = IF m + 1 = 1 THEN parts[m + 1]
                        ELSE flat[m + 1 - 1] \o parts[m + 1]
      <4>. HIDE DEF n
      <4>. QED BY <1>1, <3>0, <1>3, JoinsAt
    <3>2. parts[m + 1] \in Seq(S) /\ Len(parts[m + 1]) >= 1
      BY <1>1, <2>2
    <3>3. flat[m + 1] \in Seq(S) /\ Len(flat[m + 1]) >= m + 1
      <4>1. CASE m = 0
        <5>1. flat[m + 1] = parts[m + 1]
          BY <3>0, <3>1, <4>1
        <5>. QED BY <3>2, <4>1, <5>1
      <4>2. CASE m # 0
        <5>1. flat[m] \in Seq(S) /\ Len(flat[m]) >= m /\ m \in Nat
          BY <4>2
        <5>2. flat[m + 1] = flat[m] \o parts[m + 1]
          <6>1. m + 1 - 1 = m /\ m + 1 # 1
            BY <3>0, <4>2
          <6>. QED BY <3>1, <6>1
        <5>3. /\ flat[m] \o parts[m + 1] \in Seq(S)
              /\ Len(flat[m] \o parts[m + 1]) = Len(flat[m]) + Len(parts[m + 1])
          BY <3>2, <5>1, ConcatProperties, Zenon
        <5>4. Len(flat[m]) \in Nat /\ Len(parts[m + 1]) \in Nat
          BY <3>2, <5>1
        <5>5. Len(flat[m]) + Len(parts[m + 1]) >= m + 1
          <6>1. \A a, b \in Nat : a >= m /\ b >= 1 => a + b >= m + 1
            BY <3>0
          <6>. QED BY <3>2, <5>1, <5>4, <6>1, Zenon
        <5>. QED BY <5>2, <5>3, <5>5
      <4>. QED BY <4>1, <4>2
    <3>. QED BY <1>1, <2>2, <3>3
  <2>3. T = 0 .. n
    <3>. HIDE DEF T
    <3>1. T \subseteq 0 .. n
      BY DEF T
    <3>. QED BY <1>1, <2>1, <2>2, <3>1, UpTo
  <2>4. flat[n] \in Seq(S) /\ Len(flat[n]) >= n
    BY <1>1, <1>5, <2>3
  <2>5. FlattenSeq(parts) = flat[n]
    BY <1>3, <1>5
  <2>. QED BY <2>4, <2>5
<1>. QED BY <1>1, <1>4, <1>5

(* Where the first m parts are one element each, these come first, and     *)
(* then the part after them.                                               *)
LEMMA SinglesFirst ==
  ASSUME NEW S, NEW parts \in Seq(Seq(S)),
         \A k \in DOMAIN parts : Len(parts[k]) >= 1,
         NEW m \in Nat, m < Len(parts), NEW x \in Seq(S), m <= Len(x),
         \A k \in 1 .. m : parts[k] = <<x[k]>>
  PROVE  /\ \A k \in 1 .. m : FlattenSeq(parts)[k] = x[k]
         /\ Len(FlattenSeq(parts)) >= m + Len(parts[m + 1])
         /\ \A j \in 1 .. Len(parts[m + 1]) : FlattenSeq(parts)[m + j] = parts[m + 1][j]
<1>. DEFINE n == Len(parts)
            next == parts[m + 1]
<1>1. /\ n \in Nat /\ m + 1 \in 1 .. n /\ Len(next) \in Nat /\ next \in Seq(S)
      /\ \A k \in 1 .. n : parts[k] \in Seq(S) /\ Len(parts[k]) >= 1
  OBVIOUS
<1>2. PICK flat : Joins(parts, flat, n) /\ (parts # <<>> => FlattenSeq(parts) = flat[n])
  BY Joined
<1>. DEFINE Good(i, f) ==
       /\ f \in Seq(S)
       /\ i <= m => Len(f) = i /\ \A k \in 1 .. i : f[k] = x[k]
       /\ i > m => /\ \A k \in 1 .. m : f[k] = x[k]
                   /\ Len(f) >= m + Len(next)
                   /\ \A j \in 1 .. Len(next) : f[m + j] = next[j]
            T == {i \in 0 .. n : i = 0 \/ Good(i, flat[i])}
<1>3. ASSUME NEW i \in Nat, i + 1 \in 1 .. n, NEW f \in Seq(S), NEW g, g \in Seq(S),
             Good(i, f), g = f \o parts[i + 1]
      PROVE  Good(i + 1, g)
  <2>. PICK p : p = parts[i + 1]
    OBVIOUS
  <2>1. p \in Seq(S) /\ Len(p) >= 1 /\ Len(p) \in Nat /\ Len(f) \in Nat
    BY <1>1, <1>3
  <2>2. /\ Len(g) = Len(f) + Len(p)
        /\ \A k \in 1 .. Len(f) : g[k] = f[k]
        /\ \A k \in 1 .. Len(p) : g[Len(f) + k] = p[k]
    BY <1>3, <2>1
  <2>3. CASE i + 1 <= m
    <3>1. Len(f) = i /\ (\A k \in 1 .. i : f[k] = x[k]) /\ p = <<x[i + 1]>>
      BY <1>3, <2>3
    <3>2. Len(p) = 1 /\ p[1] = x[i + 1]
      BY <3>1
    <3>3. Len(g) = i + 1 /\ g[i + 1] = x[i + 1] /\ \A k \in 1 .. i : g[k] = x[k]
      BY <2>2, <3>1, <3>2
    <3>. QED BY <1>3, <2>3, <3>3, SMTT(40)
  <2>6. i > m \/ i = m \/ i + 1 <= m
    BY <1>3
  <2>7. ASSUME i >= m, \A k \in 1 .. m : f[k] = x[k], Len(f) >= m,
               Len(g) >= m + Len(next),
               \A j \in 1 .. Len(next) : g[m + j] = next[j]
        PROVE  Good(i + 1, g)
    <3>. HIDE DEF next
    <3>1. \A k \in 1 .. m : k \in 1 .. Len(f) /\ g[k] = x[k]
      BY <2>1, <2>2, <2>7, SMTT(40)
    <3>2. i + 1 > m /\ ~(i + 1 <= m)
      BY <1>3, <2>7
    <3>. QED BY <1>3, <2>7, <3>1, <3>2, Zenon
  <2>4. CASE i = m
    <3>1. Len(f) = m /\ (\A k \in 1 .. m : f[k] = x[k]) /\ p = next
      BY <1>3, <2>4
    <3>. HIDE DEF next
    <3>2. Len(g) >= m + Len(next) /\ \A j \in 1 .. Len(next) : g[m + j] = next[j]
      BY <2>1, <2>2, <3>1
    <3>3. i >= m /\ Len(f) >= m
      BY <2>4, <3>1
    <3>. QED BY <2>7, <3>1, <3>2, <3>3
  <2>5. CASE i > m
    <3>1. /\ \A k \in 1 .. m : f[k] = x[k]
          /\ Len(f) >= m + Len(next)
          /\ \A j \in 1 .. Len(next) : f[m + j] = next[j]
      BY <1>3, <2>5
    <3>. HIDE DEF next
    <3>2. \A j \in 1 .. Len(next) : m + j \in 1 .. Len(f)
      BY <1>1, <2>1, <3>1
    <3>3. \A j \in 1 .. Len(next) : g[m + j] = next[j]
      BY <2>2, <3>1, <3>2, Zenon
    <3>4. m \in Nat /\ Len(next) \in Nat
      BY <1>1
    <3>5. Len(g) >= m + Len(next) /\ i >= m /\ Len(f) >= m
      <4>1. Len(g) = Len(f) + Len(p) /\ Len(f) \in Nat /\ Len(p) \in Nat
        BY <2>1, <2>2, Zenon
      <4>2. Len(f) >= m + Len(next)
        BY <3>1, Zenon
      <4>. HIDE DEF Good, T
      <4>. QED BY <2>5, <3>4, <4>1, <4>2, SMTT(30)
    <3>. QED BY <2>7, <3>1, <3>3, <3>5
  <2>. QED BY <2>3, <2>4, <2>5, <2>6
<1>4. 0 \in T
  BY <1>1
<1>5. ASSUME NEW i \in T, i < n PROVE i + 1 \in T
  <2>0. i \in Nat /\ i + 1 \in 1 .. n /\ (i # 0 => i \in 1 .. n)
    BY <1>1, <1>5
  <2>1. flat[i + 1] = IF i + 1 = 1 THEN parts[i + 1] ELSE flat[i + 1 - 1] \o parts[i + 1]
    <3>. HIDE DEF n
    <3>. QED BY <1>1, <2>0, <1>2, JoinsAt
  <2>2. CASE i = 0
    <3>1. Good(0, <<>>)
      BY DEF Good
    <3>2. parts[1] \in Seq(S) /\ parts[1] = <<>> \o parts[1]
      <4>1. parts[1] \in Seq(S)
        BY <1>1, <2>0, <2>2
      <4>. QED BY <4>1, ConcatEmptySeq, Zenon
    <3>3. flat[1] = parts[1]
      BY <2>1, <2>2
    <3>4. Good(0 + 1, parts[0 + 1])
      <4>. HIDE DEF Good
      <4>1. 0 + 1 = 1 /\ 0 \in Nat /\ <<>> \in Seq(S)
        OBVIOUS
      <4>. QED BY <1>3, <2>0, <2>2, <3>1, <3>2, <4>1
    <3>. HIDE DEF Good
    <3>. QED BY <1>1, <2>0, <2>2, <3>3, <3>4
  <2>3. CASE i # 0
    <3>1. Good(i, flat[i])
      BY <2>3
    <3>2. flat[i] \in Seq(S)
      BY <3>1
    <3>3. flat[i + 1] = flat[i] \o parts[i + 1] /\ flat[i + 1] \in Seq(S)
      <4>1. i + 1 - 1 = i /\ i + 1 # 1
        BY <2>0, <2>3
      <4>2. parts[i + 1] \in Seq(S)
        BY <1>1, <2>0
      <4>3. flat[i + 1] = flat[i] \o parts[i + 1]
        BY <2>1, <4>1, Zenon
      <4>4. flat[i] \o parts[i + 1] \in Seq(S)
        BY <3>2, <4>2, ConcatProperties, Zenon
      <4>. QED BY <4>3, <4>4, Zenon
    <3>. HIDE DEF Good
    <3>4. Good(i + 1, flat[i + 1])
      BY <1>3, <2>0, <3>1, <3>2, <3>3
    <3>. QED BY <1>1, <2>0, <3>4
  <2>. QED BY <2>2, <2>3
<1>6. T = 0 .. n
  <2>. HIDE DEF T
  <2>1. T \subseteq 0 .. n
    BY DEF T
  <2>. QED BY <1>1, <1>4, <1>5, <2>1, UpTo
<1>7. n > m /\ n \in T /\ parts # <<>>
  <2>. HIDE DEF T
  <2>. QED BY <1>1, <1>6
<1>8. Good(n, flat[n])
  BY <1>7
<1>. QED BY <1>2, <1>7, <1>8

PiecesOf(line) == IF line \in Long THEN <<line, Rest>> ELSE <<line>>

LEMMA PiecesAreParts ==
  ASSUME NEW lines \in Seq(Station)
  PROVE  \E parts \in Seq(Seq(Fragment)) :
           /\ Len(parts) = Len(lines) /\ FlattenSeq(parts) = Pieces(lines)
           /\ \A k \in 1 .. Len(lines) :
                 parts[k] = PiecesOf(lines[k]) /\ Len(parts[k]) >= 1
<1>. DEFINE parts == [k \in DOMAIN lines |-> PiecesOf(lines[k])]
<1>1. DOMAIN lines = 1 .. Len(lines) /\ Len(lines) \in Nat
  OBVIOUS
<1>2. ASSUME NEW k \in DOMAIN lines
      PROVE  PiecesOf(lines[k]) \in Seq(Fragment) /\ Len(PiecesOf(lines[k])) >= 1
  <2>1. lines[k] \in Fragment /\ Rest \in Fragment
    BY <1>1 DEF Fragment
  <2>2. <<lines[k], Rest>> \in Seq(Fragment) /\ <<lines[k]>> \in Seq(Fragment)
    BY <2>1
  <2>. QED BY <2>2 DEF PiecesOf
<1>3. Pieces(lines) = FlattenSeq(parts)
  BY DEF Pieces, PiecesOf
<1>4. /\ parts \in [1 .. Len(lines) -> Seq(Fragment)]
      /\ \A k \in 1 .. Len(lines) : parts[k] = PiecesOf(lines[k]) /\ Len(parts[k]) >= 1
  BY <1>1, <1>2
<1>5. parts \in Seq(Seq(Fragment)) /\ Len(parts) = Len(lines)
  <2>. HIDE DEF parts
  <2>. QED BY <1>1, <1>4
<1>. HIDE DEF parts
<1>. QED BY <1>3, <1>4, <1>5

(* Every line comes in at least one piece. *)
LEMMA PiecesOfLines ==
  ASSUME NEW lines \in Seq(Station)
  PROVE  Pieces(lines) \in Seq(Fragment) /\ Len(Pieces(lines)) >= Len(lines)
<1>1. PICK parts \in Seq(Seq(Fragment)) :
             /\ Len(parts) = Len(lines) /\ FlattenSeq(parts) = Pieces(lines)
             /\ \A k \in 1 .. Len(lines) : Len(parts[k]) >= 1
  BY PiecesAreParts
<1>2. \A k \in DOMAIN parts : Len(parts[k]) >= 1
  BY <1>1
<1>. QED BY <1>1, <1>2, Flattened

(* As many pieces as there are lines are the lines, if and only if none    *)
(* but the last is split.                                                  *)
LEMMA WholeLines ==
  ASSUME NEW lines \in Seq(Station), lines # <<>>
  PROVE  SubSeq(Pieces(lines), 1, Len(lines)) = lines <=> Whole(lines)
<1>. DEFINE n == Len(lines)
<1>0. PICK all : all = Pieces(lines)
  OBVIOUS
<1>1. n \in Nat /\ n >= 1 /\ \A k \in 1 .. n : lines[k] \in Station /\ lines[k] \in Fragment
  BY DEF Fragment
<1>2. PICK parts \in Seq(Seq(Fragment)) :
             /\ Len(parts) = n /\ FlattenSeq(parts) = all
             /\ \A k \in 1 .. n : parts[k] = PiecesOf(lines[k]) /\ Len(parts[k]) >= 1
  BY <1>0, PiecesAreParts
<1>3. all \in Seq(Fragment) /\ Len(all) >= n
  BY <1>0, PiecesOfLines
<1>4. ASSUME NEW m \in Nat, m < n, \A k \in 1 .. m : lines[k] \notin Long
      PROVE  /\ \A k \in 1 .. m : all[k] = lines[k]
             /\ \A j \in 1 .. Len(parts[m + 1]) : all[m + j] = parts[m + 1][j]
  <2>1. lines \in Seq(Fragment) /\ m <= Len(lines) /\ m < Len(parts)
    BY <1>1, <1>2, <1>4, SMTT(40)
  <2>2. ASSUME NEW k \in 1 .. m PROVE parts[k] = <<lines[k]>>
    <3>1. k \in 1 .. n /\ lines[k] \notin Long
      BY <1>1, <1>4
    <3>2. parts[k] = PiecesOf(lines[k])
      BY <1>2, <3>1
    <3>. QED BY <3>1, <3>2, Zenon DEF PiecesOf
  <2>3. \A k \in DOMAIN parts : Len(parts[k]) >= 1
    BY <1>2
  <2>. QED BY <1>2, <1>4, <2>1, <2>2, <2>3, SinglesFirst, ZenonT(60)
<1>5. \A k \in 1 .. n : SubSeq(all, 1, n)[k] = all[k]
  BY <1>1, <1>3
<1>6. ASSUME Whole(lines) PROVE SubSeq(all, 1, n) = lines
  <2>1. n - 1 \in Nat /\ n - 1 < n /\ n - 1 + 1 = n
    BY <1>1
  <2>2. \A k \in 1 .. n - 1 : lines[k] \notin Long
    BY <1>6 DEF Whole
  <2>3. /\ \A k \in 1 .. n - 1 : all[k] = lines[k]
        /\ \A j \in 1 .. Len(parts[n]) : all[n - 1 + j] = parts[n][j]
    BY <1>4, <2>1, <2>2
  <2>4. parts[n][1] = lines[n] /\ 1 \in 1 .. Len(parts[n])
    <3>1. n \in 1 .. n /\ parts[n] = PiecesOf(lines[n])
      BY <1>1, <1>2
    <3>2. parts[n] = <<lines[n], Rest>> \/ parts[n] = <<lines[n]>>
      BY <3>1, Zenon DEF PiecesOf
    <3>3. \A l, q : q = <<l, Rest>> \/ q = <<l>> => q[1] = l /\ 1 \in 1 .. Len(q)
      OBVIOUS
    <3>. QED BY <3>2, <3>3, Zenon
  <2>5. all[n] = lines[n]
    BY <2>1, <2>3, <2>4
  <2>6. \A k \in 1 .. n : all[k] = lines[k]
    BY <1>1, <2>3, <2>5
  <2>7. SubSeq(all, 1, n) \in Seq(Fragment) /\ Len(SubSeq(all, 1, n)) = n
    BY <1>1, <1>3
  <2>. QED BY <1>1, <1>5, <2>6, <2>7
<1>7. ASSUME ~Whole(lines) PROVE SubSeq(all, 1, n) # lines
  <2>. DEFINE Split == {k \in 1 .. n - 1 : lines[k] \in Long}
  <2>1. Split \subseteq Nat /\ Split # {}
    <3>1. \E k \in 1 .. n - 1 : lines[k] \in Long
      BY <1>7, Zenon DEF Whole
    <3>2. 1 .. n - 1 \subseteq Nat
      BY <1>1
    <3>. QED BY <3>1, <3>2
  <2>2. PICK k \in Split : \A j \in Split : k <= j
    BY <2>1, LeastElement, Zenon
  <2>3. k \in Nat /\ k >= 1 /\ k + 1 \in 1 .. n /\ k \in 1 .. n /\ lines[k] \in Long
    BY <1>1
  <2>4. \A j \in 1 .. k - 1 : lines[j] \notin Long
    BY <1>1, <2>2, <2>3
  <2>. HIDE DEF Split
  <2>5. k - 1 \in Nat /\ k - 1 < n /\ k - 1 + 1 = k /\ k - 1 + 2 = k + 1
    BY <1>1, <2>3
  <2>6. parts[k] = <<lines[k], Rest>> /\ 2 \in 1 .. Len(parts[k]) /\ parts[k][2] = Rest
    <3>1. parts[k] = PiecesOf(lines[k])
      BY <1>2, <2>3
    <3>2. parts[k] = <<lines[k], Rest>>
      BY <2>3, <3>1, Zenon DEF PiecesOf
    <3>. HIDE DEF n
    <3>. QED BY <3>2
  <2>7. \A j \in 1 .. Len(parts[k]) : all[k - 1 + j] = parts[k][j]
    BY <1>4, <2>4, <2>5, SMTT(40)
  <2>8. all[k + 1] = Rest
    BY <2>5, <2>6, <2>7
  <2>. QED BY <1>1, <1>5, <2>3, <2>8, RestAssumption DEF RestAssumption
<1>. QED BY <1>0, <1>6, <1>7

-----------------------------------------------------------------------------
(* Types.                                                                  *)

LEMMA SequencesUpTo ==
  ASSUME NEW S, NEW n \in Nat, NEW s
  PROVE  s \in SeqOf(S, n) <=> s \in Seq(S) /\ Len(s) <= n
<1>1. ASSUME s \in SeqOf(S, n) PROVE s \in Seq(S) /\ Len(s) <= n
  <2>1. PICK m \in 0 .. n : s \in [1 .. m -> S]
    BY <1>1 DEF SeqOf
  <2>. QED BY <2>1
<1>2. ASSUME s \in Seq(S), Len(s) <= n PROVE s \in SeqOf(S, n)
  <2>1. Len(s) \in 0 .. n /\ s \in [1 .. Len(s) -> S]
    BY <1>2
  <2>. QED BY <2>1 DEF SeqOf
<1>. QED BY <1>1, <1>2

LEMMA MaxLenIsNumber == MaxLen \in Nat
BY StationAssumption, FS_CardinalityType DEF StationAssumption, MaxLen

(* There is room for a list that has every station once. *)
LEMMA StationsOnce ==
  ASSUME NEW s
  PROVE  s \in ListOfStations <=> s \in Seq(Station) /\ IsInjective(s)
<1>1. ASSUME s \in Seq(Station), IsInjective(s) PROVE Len(s) <= MaxLen
  <2>1. s \in Injection(1 .. Len(s), Station) /\ Len(s) \in Nat
    BY <1>1 DEF IsInjective, Injection
  <2>2. Cardinality(1 .. Len(s)) <= Cardinality(Station)
    BY <2>1, StationAssumption, FS_Injection DEF StationAssumption
  <2>3. Cardinality(1 .. Len(s)) = Len(s)
    <3>1. /\ Len(s) \in Int /\ 1 \in Int
          /\ (IF 1 > Len(s) THEN 0 ELSE Len(s) - 1 + 1) = Len(s)
      BY <2>1
    <3>. QED BY <3>1, FS_Interval, Zenon
  <2>. QED BY <2>2, <2>3 DEF MaxLen
<1>. QED BY <1>1, MaxLenIsNumber, SequencesUpTo, Zenon DEF ListOfStations

Labels == {"idle", "open", "list", "write", "count", "cat", "fill",
           "stations", "kick", "ifconfig", "number"}

(* The array that is being filled is an array, or there is none because    *)
(* calloc refused, before that there is none, and whom to kick are         *)
(* stations, never pieces of lines.                                        *)
CallsFit ==
  \A c \in Caller :
    /\ pc[c] \in {"cat", "fill"} =>
         \/ array[c] \in Seq(Fragment) /\ Len(array[c]) <= size[c]
         \/ array[c] = NULL /\ size[c] > Spare
    /\ pc[c] # "idle" => ret[c] = "none"
    /\ pc[c] \in Labels \ {"idle", "cat", "fill"} => array[c] = NULL
    /\ pc[c] = "kick" => text[c] \in Seq(Station)

AssocInv == TypeOK /\ CallsFit /\ WithinArray

LEMMA NoNull == NULL \notin Seq(Fragment) /\ <<>> \in Seq(Fragment) /\ <<>> # NULL
<1>1. NULL \notin Seq(Fragment)
  BY NullAssumption, Zenon DEF NullAssumption, Fragment
<1>2. <<>> \in Seq(Fragment)
  OBVIOUS
<1>. QED BY <1>1, <1>2, Zenon

(* Every size is a number. *)
LEMMA SizesAreNumbers == ASSUME TypeOK, NEW c \in Caller PROVE size[c] \in Nat
<1>1. 0 .. MaxLen \subseteq Nat /\ Garbage \subseteq Nat
  BY MaxLenIsNumber, GarbageAssumption DEF GarbageAssumption
<1>. QED BY <1>1 DEF TypeOK

LEMMA Nothing ==
  /\ <<>> \in ListOfStations /\ <<>> \in SeqOf(Station, MaxLen)
  /\ 0 \in 0 .. MaxLen
<1>1. <<>> \in Seq(Station) /\ Len(<<>>) = 0 /\ IsInjective(<<>>)
  BY DEF IsInjective
<1>2. <<>> \in ListOfStations
  BY <1>1, StationsOnce, Zenon
<1>3. 0 <= MaxLen
  BY MaxLenIsNumber
<1>4. <<>> \in SeqOf(Station, MaxLen)
  BY <1>1, <1>3, SequencesUpTo, MaxLenIsNumber
<1>. QED BY <1>2, <1>3, <1>4, MaxLenIsNumber

LEMMA InitAssoc == Init => AssocInv
<1>. SUFFICES ASSUME Init PROVE AssocInv
  OBVIOUS
<1>1. <<>> \in Seq(Fragment)
  OBVIOUS
<1>3. TypeOK
  BY Nothing, <1>1 DEF Init, TypeOK
<1>. QED BY <1>3 DEF Init, AssocInv, CallsFit, WithinArray, Labels

-----------------------------------------------------------------------------
(* The steps.                                                              *)

LEMMA BeginStep ==
  ASSUME AssocInv, NEW c \in Caller, NEW label \in Labels \ {"cat", "fill", "kick"},
         Begin(c, label), deny' \in [Caller -> BOOLEAN]
  PROVE  AssocInv'
<1>2. TypeOK'
  BY Nothing DEF AssocInv, TypeOK, Begin, Labels
<1>3. CallsFit' /\ WithinArray'
  BY DEF AssocInv, TypeOK, Begin, CallsFit, WithinArray, Labels
<1>. QED BY <1>2, <1>3 DEF AssocInv

LEMMA BadCallStep ==
  ASSUME AssocInv, NEW c \in Caller, BadCall(c) PROVE AssocInv'
<1>2. TypeOK'
  BY Nothing DEF AssocInv, TypeOK, BadCall, Return, kick
<1>3. CallsFit' /\ WithinArray'
  BY DEF AssocInv, TypeOK, BadCall, Return, kick, CallsFit, WithinArray, Labels
<1>. QED BY <1>2, <1>3 DEF AssocInv

LEMMA AllocateStep ==
  ASSUME AssocInv, NEW c \in Caller, NEW n \in 0 .. MaxLen \cup Garbage, Allocate(c, n),
         file' \in SeqOf(Station, MaxLen), UNCHANGED <<assoc, list, text, kick>>,
         pc[c] \in {"open", "count"}
  PROVE  AssocInv'
<1>1. <<>> \in Seq(Fragment) /\ Len(<<>>) = 0 /\ n \in Nat /\ <<>> # NULL /\ Spare \in Nat
  <2>1. n \in Nat /\ Spare \in Nat
    BY MaxLenIsNumber, GarbageAssumption, SpareAssumption
       DEF GarbageAssumption, SpareAssumption
  <2>2. Len(<<>>) = 0
    OBVIOUS
  <2>. QED BY <2>1, <2>2, NoNull, Zenon
<1>2. TypeOK'
  BY <1>1, ZenonT(60) DEF AssocInv, TypeOK, Allocate, Goto, Return, kick
<1>3. array[c] = NULL /\ ret[c] = "none"
  BY DEF AssocInv, CallsFit, Labels
<1>4. /\ size'[c] = n
      /\ \/ array'[c] = NULL /\ pc'[c] = "idle" /\ ret'[c] = "OK"
         \/ array'[c] = <<>> /\ pc'[c] = "cat" /\ ret'[c] = ret[c]
         \/ array'[c] = NULL /\ n > Spare /\ pc'[c] = "cat" /\ ret'[c] = ret[c]
  BY <1>3 DEF AssocInv, TypeOK, Allocate, Goto, Return
<1>5. \A d \in Caller \ {c} :
        /\ array'[d] = array[d] /\ size'[d] = size[d] /\ pc'[d] = pc[d]
        /\ ret'[d] = ret[d] /\ text'[d] = text[d]
  BY DEF AssocInv, TypeOK, Allocate, Goto, Return
<1>6. CallsFit'
  <2>1. /\ pc'[c] \in {"cat", "fill"} =>
             \/ array'[c] \in Seq(Fragment) /\ Len(array'[c]) <= size'[c]
             \/ array'[c] = NULL /\ size'[c] > Spare
        /\ pc'[c] \in {"idle", "cat"} /\ (pc'[c] # "idle" => ret'[c] = "none")
    <3>1. CASE array'[c] = NULL /\ pc'[c] = "idle"
      BY <3>1
    <3>2. CASE array'[c] = <<>> /\ pc'[c] = "cat" /\ ret'[c] = ret[c]
      <4>1. array'[c] \in Seq(Fragment) /\ Len(array'[c]) = 0 /\ size'[c] \in Nat
        BY <1>1, <1>4, <3>2
      <4>. QED BY <1>3, <3>2, <4>1
    <3>3. CASE array'[c] = NULL /\ n > Spare /\ pc'[c] = "cat" /\ ret'[c] = ret[c]
      BY <1>3, <1>4, <3>3
    <3>. QED BY <1>4, <3>1, <3>2, <3>3
  <2>2. ASSUME NEW d \in Caller
        PROVE  /\ pc'[d] \in {"cat", "fill"} =>
                    \/ array'[d] \in Seq(Fragment) /\ Len(array'[d]) <= size'[d]
                    \/ array'[d] = NULL /\ size'[d] > Spare
               /\ pc'[d] # "idle" => ret'[d] = "none"
               /\ pc'[d] \in Labels \ {"idle", "cat", "fill"} => array'[d] = NULL
               /\ pc'[d] = "kick" => text'[d] \in Seq(Station)
    <3>1. CASE d = c
      BY <2>1, <3>1
    <3>2. CASE d # c
      BY <1>5, <3>2 DEF AssocInv, CallsFit
    <3>. QED BY <3>1, <3>2
  <2>. QED BY <2>2 DEF CallsFit
<1>7. WithinArray'
  BY <1>1, <1>3, <1>4, <1>5 DEF AssocInv, WithinArray
<1>. QED BY <1>2, <1>6, <1>7 DEF AssocInv

LEMMA OpenStep == ASSUME AssocInv, NEW c \in Caller, Open(c) PROVE AssocInv'
<1>1. CASE \E n \in Garbage : Allocate(c, n) /\ UNCHANGED file
  BY <1>1, AllocateStep DEF Open, AssocInv, TypeOK
<1>2. CASE file' = <<>> /\ Goto(c, "list") /\ UNCHANGED <<size, array>>
  <2>2. TypeOK'
    BY <1>2, Nothing DEF AssocInv, TypeOK, Open, Goto, kick
  <2>3. CallsFit' /\ WithinArray'
    BY <1>2 DEF AssocInv, TypeOK, Open, Goto, kick, CallsFit, WithinArray, Labels
  <2>. QED BY <2>2, <2>3 DEF AssocInv
<1>. QED BY <1>1, <1>2 DEF Open

LEMMA ListStep == ASSUME AssocInv, NEW c \in Caller, List(c) PROVE AssocInv'
BY DEF AssocInv, TypeOK, List, Goto, kick, CallsFit, WithinArray, Labels

LEMMA WriteStep == ASSUME AssocInv, NEW c \in Caller, Write(c) PROVE AssocInv'
<1>1. /\ list[c] \in Seq(Station) /\ Len(list[c]) <= MaxLen
      /\ file \in Seq(Station) /\ Len(file) <= MaxLen
  BY MaxLenIsNumber, SequencesUpTo DEF AssocInv, TypeOK, ListOfStations
<1>2. file' \in Seq(Station) /\ Len(file') <= MaxLen
  <2>. PICK old : old = SubSeq(file, Len(list[c]) + 1, Len(file))
    OBVIOUS
  <2>1. /\ old \in Seq(Station)
        /\ Len(old) = IF Len(list[c]) + 1 <= Len(file)
                      THEN Len(file) - (Len(list[c]) + 1) + 1 ELSE 0
    <3>1. /\ Len(list[c]) + 1 \in Int /\ Len(file) \in Int
          /\ \A i \in (Len(list[c]) + 1) .. Len(file) : file[i] \in Station
      BY <1>1
    <3>2. SubSeq(file, Len(list[c]) + 1, Len(file)) \in Seq(Station)
      BY <3>1, SubSeqProperties, Zenon
    <3>3. Len(SubSeq(file, Len(list[c]) + 1, Len(file))) =
            IF Len(list[c]) + 1 <= Len(file)
            THEN Len(file) - (Len(list[c]) + 1) + 1 ELSE 0
      BY <3>1, SubSeqProperties, ZenonT(60)
    <3>. QED BY <3>2, <3>3
  <2>2. file' = list[c] \o old
    BY DEF Write
  <2>3. file' \in Seq(Station) /\ Len(file') = Len(list[c]) + Len(old)
    BY <1>1, <2>1, <2>2
  <2>4. Len(list[c]) \in Nat /\ Len(file) \in Nat
    BY <1>1
  <2>5. Len(file') <= MaxLen
    <3>1. \A k, m, n \in Nat : k <= n /\ m <= n =>
            k + (IF k + 1 <= m THEN m - (k + 1) + 1 ELSE 0) <= n
      OBVIOUS
    <3>. QED BY <1>1, <2>1, <2>3, <2>4, <3>1, MaxLenIsNumber, Zenon
  <2>. QED BY <2>3, <2>5
<1>3. file' \in SeqOf(Station, MaxLen)
  BY <1>2, MaxLenIsNumber, SequencesUpTo
<1>4. TypeOK'
  BY <1>3 DEF AssocInv, TypeOK, Write, Goto, kick
<1>5. CallsFit' /\ WithinArray'
  BY DEF AssocInv, TypeOK, Write, Goto, kick, CallsFit, WithinArray, Labels
<1>. QED BY <1>4, <1>5 DEF AssocInv

LEMMA CountStep == ASSUME AssocInv, NEW c \in Caller, Count(c) PROVE AssocInv'
<1>1. file \in Seq(Station) /\ Len(file) <= MaxLen
  BY MaxLenIsNumber, SequencesUpTo DEF AssocInv, TypeOK
<1>2. Len(file) \in 0 .. MaxLen \cup Garbage
  BY <1>1, MaxLenIsNumber
<1>. QED BY <1>2, AllocateStep DEF Count, AssocInv, TypeOK

LEMMA CatStep == ASSUME AssocInv, NEW c \in Caller, Cat(c) PROVE AssocInv'
<1>1. Pieces(file) \in Seq(Fragment)
  BY MaxLenIsNumber, SequencesUpTo, PiecesOfLines DEF AssocInv, TypeOK
<1>2. TypeOK'
  BY <1>1, ZenonT(60) DEF AssocInv, TypeOK, Cat, Goto, Return, kick
<1>3. CallsFit' /\ WithinArray'
  BY DEF AssocInv, TypeOK, Cat, Goto, Return, kick, CallsFit, WithinArray, Labels
<1>. QED BY <1>2, <1>3 DEF AssocInv

(* Another entry only while there is room for it, and none at all where    *)
(* there is no array.                                                      *)
LEMMA FillStep == ASSUME AssocInv, NEW c \in Caller, Fill(c) PROVE AssocInv'
<1>1. /\ text[c] \in Seq(Fragment) /\ size[c] \in Nat
      /\ \/ array[c] \in Seq(Fragment) /\ Len(array[c]) \in Nat /\ Len(array[c]) <= size[c]
         \/ array[c] = NULL /\ size[c] > Spare
  <2>1. text[c] \in Seq(Fragment) /\ size[c] \in Nat
    BY SizesAreNumbers DEF AssocInv, TypeOK
  <2>. QED BY <2>1 DEF AssocInv, CallsFit, Fill
<1>2. CASE /\ text[c] # <<>> /\ Entries(c) < size[c] /\ array[c] # NULL
           /\ array' = [array EXCEPT ![c] = Append(@, Head(text[c]))]
           /\ text' = [text EXCEPT ![c] = Tail(@)]
           /\ UNCHANGED <<pc, ret>>
  <2>0. Len(array[c]) < size[c]
    BY <1>2 DEF Entries
  <2>1. /\ Append(array[c], Head(text[c])) \in Seq(Fragment)
        /\ Len(Append(array[c], Head(text[c]))) <= size[c]
        /\ Tail(text[c]) \in Seq(Fragment)
    BY <1>1, <1>2, <2>0
  <2>2. TypeOK'
    BY <1>2, <2>1 DEF AssocInv, TypeOK, Fill, kick
  <2>3. ret[c] = "none"
    BY DEF AssocInv, CallsFit, Fill
  <2>4. CallsFit' /\ WithinArray'
    BY <1>2, <2>1, <2>3 DEF AssocInv, TypeOK, Fill, kick, CallsFit, WithinArray, Labels
  <2>. QED BY <2>2, <2>4 DEF AssocInv
<1>3. CASE Finish(c, "OK") \/ (array[c] = NULL /\ Finish(c, "died"))
  <2>0. <<>> \in Seq(Fragment)
    OBVIOUS
  <2>1. TypeOK'
    BY <1>3, <2>0, ZenonT(60) DEF AssocInv, TypeOK, Fill, Finish, Return, kick
  <2>2. array[c] = NULL => size[c] > Spare
    BY <1>1, NoNull
  <2>3. CallsFit' /\ WithinArray'
    <3>1. PICK r \in {"OK", "died"} : Finish(c, r) /\ (r = "died" => array[c] = NULL)
      BY <1>3, Zenon
    <3>2. /\ array' = array /\ size' = size
          /\ pc' = [pc EXCEPT ![c] = "idle"]
          /\ ret' = [ret EXCEPT ![c] = r]
          /\ text' = [text EXCEPT ![c] = <<>>]
      BY <3>1, Zenon DEF Fill, Finish, Return
    <3>3. CallsFit'
      BY <3>2 DEF AssocInv, TypeOK, CallsFit, Labels
    <3>4. WithinArray'
      BY <2>2, <3>1, <3>2 DEF AssocInv, TypeOK, WithinArray
    <3>. QED BY <3>3, <3>4
  <2>. QED BY <2>1, <2>3 DEF AssocInv
<1>. QED BY <1>2, <1>3 DEF Fill, FillNext

LEMMA LesserOf ==
  ASSUME NEW a \in Nat, NEW b \in Nat
  PROVE  Min({a, b}) = IF a <= b THEN a ELSE b
<1>. DEFINE IsLeast(x) == x \in {a, b} /\ \A y \in {a, b} : x <= y
            m == IF a <= b THEN a ELSE b
<1>1. IsLeast(m)
  OBVIOUS
<1>2. Min({a, b}) = CHOOSE x : IsLeast(x)
  BY Zenon DEF Min
<1>3. IsLeast(CHOOSE x : IsLeast(x))
  BY <1>1, Zenon
<1>4. ASSUME NEW x, IsLeast(x) PROVE x = m
  BY <1>4
<1>. QED BY <1>2, <1>3, <1>4, Zenon

(* The list of the kick, cut to what it has room for. *)
LEMMA ListedIsPart ==
  ASSUME NEW c \in Caller, list[c] \in Seq(Station)
  PROVE  /\ Listed(c) \in Seq(Station)
         /\ Len(list[c]) <= Room => Listed(c) = list[c]
         /\ ToSet(Listed(c)) \subseteq ToSet(list[c])
<1>. DEFINE m == Min({Room, Len(list[c])})
<1>1. m \in 0 .. Len(list[c]) /\ (Len(list[c]) <= Room => m = Len(list[c]))
  <2>1. Room \in Nat /\ Len(list[c]) \in Nat
    BY RoomAssumption DEF RoomAssumption
  <2>2. m = IF Room <= Len(list[c]) THEN Room ELSE Len(list[c])
    BY <2>1, LesserOf
  <2>. HIDE DEF m
  <2>. QED BY <2>1, <2>2
<1>2. Listed(c) = SubSeq(list[c], 1, m)
  BY DEF Listed
<1>. HIDE DEF m
<1>3. /\ DOMAIN SubSeq(list[c], 1, m) = 1 .. m /\ SubSeq(list[c], 1, m) \in Seq(Station)
      /\ \A i \in 1 .. m : SubSeq(list[c], 1, m)[i] = list[c][i] /\ i \in DOMAIN list[c]
  BY <1>1
<1>4. Len(list[c]) <= Room => SubSeq(list[c], 1, m) = list[c]
  BY <1>1, SubSeqFull
<1>5. ToSet(SubSeq(list[c], 1, m)) \subseteq ToSet(list[c])
  BY <1>3 DEF ToSet
<1>. QED BY <1>2, <1>3, <1>4, <1>5

LEMMA StationsStep == ASSUME AssocInv, NEW c \in Caller, Stations(c) PROVE AssocInv'
<1>1. list' \in [Caller -> ListOfStations] /\ list'[c] \in Seq(Station)
  <2>1. list' = [list EXCEPT ![c] = assoc] \/ list' = [list EXCEPT ![c] = <<>>]
    BY DEF Stations
  <2>2. list' \in [Caller -> ListOfStations]
    BY <2>1, Nothing DEF AssocInv, TypeOK
  <2>. QED BY <2>2, StationsOnce
<1>2. Listed(c)' \in Seq(Station)
  <2>1. \A l \in Seq(Station) : SubSeq(l, 1, Min({Room, Len(l)})) \in Seq(Station)
    <3>. TAKE l \in Seq(Station)
    <3>1. Room \in Nat /\ Len(l) \in Nat
      BY RoomAssumption DEF RoomAssumption
    <3>2. PICK m : m = Min({Room, Len(l)})
      OBVIOUS
    <3>3. m \in 0 .. Len(l)
      BY <3>1, <3>2, LesserOf
    <3>4. SubSeq(l, 1, m) \in Seq(Station)
      BY <3>3
    <3>. QED BY <3>2, <3>4
  <2>. QED BY <1>1, <2>1 DEF Listed
<1>3. Seq(Station) \subseteq Seq(Fragment)
  BY DEF Fragment
<1>4. /\ text' \in [Caller -> Seq(Fragment)]
      /\ pc'[c] = "kick" => text'[c] \in Seq(Station)
      /\ pc' \in [Caller -> Labels] /\ ret' \in [Caller -> {"none", "OK", "ERR", "died"}]
      /\ ret'[c] # "died" /\ (pc'[c] = "kick" => ret'[c] = "none")
      /\ \A d \in Caller \ {c} : ret'[d] = ret[d]
      /\ pc'[c] \in {"idle", "kick"}
      /\ \A d \in Caller \ {c} : pc'[d] = pc[d] /\ text'[d] = text[d]
  <2>. DEFINE listed == Listed(c)'
  <2>1. listed \in Seq(Station) /\ listed \in Seq(Fragment) /\ Acl \in Seq(Station)
        /\ Acl \in Seq(Fragment)
    BY <1>2, <1>3, AclAssumption DEF AclAssumption
  <2>0. ret[c] = "none"
    BY DEF AssocInv, CallsFit, Stations
  <2>2. CASE listed = <<>>
    BY <2>0, <2>2, ZenonT(60) DEF Stations, Return, AssocInv, TypeOK, Labels
  <2>3. CASE listed # <<>>
    <3>1. /\ pc' = [pc EXCEPT ![c] = "kick"] /\ ret' = ret
          /\ text' = [text EXCEPT ![c] = IF deny[c] THEN Acl ELSE listed]
      BY <2>3 DEF Stations, Goto
    <3>. HIDE DEF listed
    <3>2. (IF deny[c] THEN Acl ELSE listed) \in Seq(Station) \cap Seq(Fragment)
      BY <2>1
    <3>. QED BY <2>0, <3>1, <3>2 DEF AssocInv, TypeOK, Labels
  <2>. QED BY <2>2, <2>3
<1>5. pc[c] = "stations" /\ UNCHANGED <<assoc, file, size, array, kick>>
  BY DEF Stations
<1>6. TypeOK'
  BY <1>1, <1>4, <1>5 DEF AssocInv, TypeOK, Labels, kick
<1>7. CallsFit' /\ WithinArray'
  BY <1>4, <1>5 DEF AssocInv, TypeOK, CallsFit, WithinArray, Labels
<1>. QED BY <1>6, <1>7 DEF AssocInv

LEMMA KickNextStep == ASSUME AssocInv, NEW c \in Caller, KickNext(c) PROVE AssocInv'
<1>1. CASE text[c] = <<>> /\ Return(c, "OK") /\ asked' = [asked EXCEPT ![c] = {}]
           /\ UNCHANGED text
  <2>1. TypeOK'
    BY <1>1 DEF AssocInv, TypeOK, KickNext, Return
  <2>2. CallsFit' /\ WithinArray'
    BY <1>1 DEF AssocInv, TypeOK, KickNext, Return, CallsFit, WithinArray, Labels
  <2>. QED BY <2>1, <2>2 DEF AssocInv
<1>2. CASE /\ text[c] # <<>>
           /\ text' = [text EXCEPT ![c] = Tail(@)]
           /\ asked' = IF MustGo(c, Head(text[c]))
                       THEN [asked EXCEPT ![c] = @ \cup {Head(text[c])}] ELSE asked
           /\ UNCHANGED <<pc, ret>>
  <2>1. /\ Tail(text[c]) \in Seq(Station) /\ Head(text[c]) \in Station
        /\ Tail(text[c]) \in Seq(Fragment)
    BY <1>2 DEF AssocInv, TypeOK, CallsFit, KickNext
  <2>2. asked' \in [Caller -> SUBSET Station]
    BY <1>2, <2>1 DEF AssocInv, TypeOK
  <2>3. TypeOK'
    BY <1>2, <2>1, <2>2 DEF AssocInv, TypeOK, KickNext
  <2>4. CallsFit' /\ WithinArray'
    BY <1>2, <2>1 DEF AssocInv, TypeOK, KickNext, CallsFit, WithinArray, Labels
  <2>. QED BY <2>3, <2>4 DEF AssocInv
<1>. QED BY <1>1, <1>2 DEF KickNext

LEMMA IfconfigStep == ASSUME AssocInv, NEW c \in Caller, Ifconfig(c) PROVE AssocInv'
BY ZenonT(60) DEF AssocInv, TypeOK, Ifconfig, Goto, Return, kick, CallsFit, WithinArray, Labels

LEMMA NumberStep == ASSUME AssocInv, NEW c \in Caller, Number(c) PROVE AssocInv'
<1>1. Len(assoc) \in 0 .. MaxLen
  BY MaxLenIsNumber, SequencesUpTo DEF AssocInv, TypeOK, ListOfStations
<1>2. size' = [size EXCEPT ![c] = Len(assoc)] \/ size' = size
  BY DEF Number
<1>3. TypeOK'
  BY <1>1, <1>2 DEF AssocInv, TypeOK, Number, Return, kick
<1>4. CallsFit' /\ WithinArray'
  BY <1>2 DEF AssocInv, TypeOK, Number, Return, kick, CallsFit, WithinArray, Labels
<1>. QED BY <1>3, <1>4 DEF AssocInv

LEMMA RemoveOne ==
  ASSUME NEW S, NEW s \in Seq(S), NEW k \in DOMAIN s
  PROVE  /\ RemoveAt(s, k) \in Seq(S)
         /\ Len(RemoveAt(s, k)) = Len(s) - 1
         /\ \A i \in 1 .. Len(RemoveAt(s, k)) :
              RemoveAt(s, k)[i] = IF i < k THEN s[i] ELSE s[i + 1]
<1>1. Len(s) \in Nat /\ k \in 1 .. Len(s) /\ \A i \in 1 .. Len(s) : s[i] \in S
  OBVIOUS
<1>0. PICK a, b : a = SubSeq(s, 1, k - 1) /\ b = SubSeq(s, k + 1, Len(s))
  OBVIOUS
<1>2. a \in Seq(S) /\ Len(a) = k - 1 /\ \A i \in 1 .. (k - 1) : a[i] = s[i]
  BY <1>0, <1>1
<1>3. /\ b \in Seq(S) /\ Len(b) = Len(s) - k
      /\ \A i \in 1 .. (Len(s) - k) : b[i] = s[k + i]
  BY <1>0, <1>1
<1>4. RemoveAt(s, k) = a \o b
  BY <1>0 DEF RemoveAt
<1>5. /\ a \o b \in Seq(S) /\ Len(a \o b) = Len(s) - 1
      /\ \A i \in 1 .. (Len(s) - 1) :
           (a \o b)[i] = IF i < k THEN s[i] ELSE s[i + 1]
  <2>1. a \o b \in Seq(S) /\ Len(a \o b) = Len(a) + Len(b)
    BY <1>2, <1>3, ConcatProperties, Zenon
  <2>2. \A i \in 1 .. Len(a) + Len(b) :
          (a \o b)[i] = IF i <= Len(a) THEN a[i] ELSE b[i - Len(a)]
    BY <1>2, <1>3, ConcatProperties, Zenon
  <2>3. /\ Len(a) = k - 1 /\ Len(b) = Len(s) - k /\ Len(a) + Len(b) = Len(s) - 1
        /\ k \in Nat /\ Len(s) \in Nat
    BY <1>1, <1>2, <1>3
  <2>4. ASSUME NEW i \in 1 .. (Len(s) - 1)
        PROVE  (a \o b)[i] = IF i < k THEN s[i] ELSE s[i + 1]
    <3>1. (a \o b)[i] = IF i <= k - 1 THEN a[i] ELSE b[i - (k - 1)]
      BY <2>2, <2>3
    <3>2. i \in Nat /\ i <= Len(s) - 1
      BY <2>3
    <3>3. CASE i < k
      <4>1. i \in 1 .. (k - 1) /\ i <= k - 1
        BY <2>3, <3>2, <3>3
      <4>. QED BY <1>2, <3>1, <3>3, <4>1
    <3>4. CASE ~(i < k)
      <4>1. i - (k - 1) \in 1 .. (Len(s) - k) /\ k + (i - (k - 1)) = i + 1
            /\ ~(i <= k - 1)
        <5>1. \A x, y, z \in Nat : x <= z - 1 /\ ~(x < y) =>
                /\ x - (y - 1) \in 1 .. (z - y)
                /\ y + (x - (y - 1)) = x + 1 /\ ~(x <= y - 1)
          OBVIOUS
        <5>. QED BY <2>3, <3>2, <3>4, <5>1, Zenon
      <4>2. b[i - (k - 1)] = s[k + (i - (k - 1))]
        BY <1>3, <4>1
      <4>3. (a \o b)[i] = s[i + 1]
        BY <3>1, <4>1, <4>2
      <4>. QED BY <3>4, <4>3
    <3>. QED BY <3>3, <3>4
  <2>. QED BY <2>1, <2>3, <2>4
<1>. QED BY <1>4, <1>5

LEMMA AssociateStep ==
  ASSUME AssocInv, NEW s \in Station, Associate(s) \/ Disassociate(s) PROVE AssocInv'
<1>1. assoc \in Seq(Station) /\ IsInjective(assoc)
  BY StationsOnce DEF AssocInv, TypeOK
<1>2. CASE Associate(s)
  <2>1. Append(assoc, s) \in Seq(Station) /\ IsInjective(Append(assoc, s))
    BY <1>1, <1>2 DEF Associate, Contains, IsInjective
  <2>. QED BY <1>2, <2>1, StationsOnce
           DEF Associate, AssocInv, TypeOK, CallsFit, WithinArray, call, kick
<1>3. CASE Disassociate(s)
  <2>1. PICK k \in DOMAIN assoc : assoc' = RemoveAt(assoc, k)
    BY <1>3 DEF Disassociate
  <2>2. /\ Len(assoc') = Len(assoc) - 1 /\ assoc' \in Seq(Station)
        /\ \A i \in 1 .. Len(assoc') : assoc'[i] = IF i < k THEN assoc[i] ELSE assoc[i + 1]
    BY <1>1, <2>1, RemoveOne
  <2>3. IsInjective(assoc')
    <3>1. /\ DOMAIN assoc' = 1 .. Len(assoc') /\ DOMAIN assoc = 1 .. Len(assoc)
          /\ Len(assoc) \in Nat /\ k \in 1 .. Len(assoc)
      BY <1>1, <2>2
    <3>2. ASSUME NEW i \in 1 .. Len(assoc'), NEW j \in 1 .. Len(assoc'),
                 assoc'[i] = assoc'[j]
          PROVE  i = j
      <4>. DEFINE Old(n) == IF n < k THEN n ELSE n + 1
      <4>1. Old(i) \in DOMAIN assoc /\ Old(j) \in DOMAIN assoc
        BY <2>2, <3>1
      <4>2. assoc[Old(i)] = assoc[Old(j)]
        BY <2>2, <3>2
      <4>3. Old(i) = Old(j)
        BY <1>1, <4>1, <4>2, Zenon DEF IsInjective
      <4>. QED BY <3>1, <4>3
    <3>. QED BY <3>1, <3>2 DEF IsInjective
  <2>. QED BY <1>3, <2>2, <2>3, StationsOnce
           DEF Disassociate, AssocInv, TypeOK, CallsFit, WithinArray, call, kick
<1>. QED BY <1>2, <1>3

LEMMA NextAssoc == AssocInv /\ [Next]_vars => AssocInv'
<1>. SUFFICES ASSUME AssocInv, [Next]_vars PROVE AssocInv'
  OBVIOUS
<1>1. ASSUME NEW c \in Caller,
             Call(c) \/ NumDevices(c) \/ TrafficStats(c) \/ \E e \in BOOLEAN : Kick(c, e)
      PROVE  AssocInv'
  <2>1. PICK label \in {"open", "number", "ifconfig", "stations"} : Begin(c, label)
    BY <1>1 DEF Call, NumDevices, TrafficStats, Kick
  <2>2. deny' \in [Caller -> BOOLEAN]
    BY <1>1 DEF Call, NumDevices, TrafficStats, Kick, AssocInv, TypeOK
  <2>. QED BY <2>1, <2>2, BeginStep DEF Labels
<1>2. ASSUME NEW c \in Caller, BadCall(c) PROVE AssocInv'
  BY <1>2, BadCallStep
<1>3. ASSUME NEW c \in Caller, Step(c) PROVE AssocInv'
  BY <1>3, OpenStep, ListStep, WriteStep, CountStep, CatStep, FillStep, StationsStep,
     KickNextStep, IfconfigStep, NumberStep DEF Step
<1>4. ASSUME NEW s \in Station, Associate(s) \/ Disassociate(s) PROVE AssocInv'
  BY <1>4, AssociateStep
<1>5. CASE UNCHANGED vars
  BY <1>5 DEF vars, kick, AssocInv, TypeOK, CallsFit, WithinArray
<1>. QED BY <1>1, <1>2, <1>3, <1>4, <1>5 DEF Next

(* TypeOK holds for any callers and stations: the driver's list has every  *)
(* station once, the file never more lines than that, and only what        *)
(* fits of it is in an array (2633-2744).                                  *)
THEOREM TypeCorrect == Spec => []TypeOK
<1>1. AssocInv => TypeOK
  BY DEF AssocInv
<1>. QED BY <1>1, InitAssoc, NextAssoc, PTL DEF Spec

(* Where there is an array, it is never filled beyond what was allocated   *)
(* (2691), however many callers rewrite the file between the count and the *)
(* second reading, whichever lines come in two pieces and whatever number  *)
(* atoi leaves.  A call writes through NULL only when calloc may refuse    *)
(* as many entries as were asked of it (2668).                             *)
THEOREM WithinArrayCorrect == Spec => []WithinArray
<1>1. AssocInv => WithinArray
  BY DEF AssocInv
<1>. QED BY <1>1, InitAssoc, NextAssoc, PTL DEF Spec

Counted == \A c \in Caller : size[c] \in 0 .. MaxLen

LEMMA CountedStep ==
  ASSUME "popen1" \notin Hazard, AssocInv, Counted, [Next]_vars PROVE Counted'
<1>1. Len(file) \in 0 .. MaxLen /\ Len(assoc) \in 0 .. MaxLen /\ 0 \in 0 .. MaxLen
  BY MaxLenIsNumber, SequencesUpTo DEF AssocInv, TypeOK, ListOfStations
<1>2. size \in [Caller -> 0 .. MaxLen]
  BY DEF AssocInv, TypeOK, Counted
<1>3. ASSUME NEW c \in Caller, Step(c) PROVE size' \in [Caller -> 0 .. MaxLen]
  <2>1. \/ size' = size
        \/ \E n \in 0 .. MaxLen : size' = [size EXCEPT ![c] = n]
    BY <1>1, <1>3 DEF Step, Open, List, Write, Count, Cat, Fill, Stations, KickNext,
       Ifconfig, Number, Allocate
  <2>. QED BY <1>2, <2>1
<1>4. ASSUME NEW c \in Caller,
             \/ Call(c) \/ BadCall(c) \/ NumDevices(c) \/ TrafficStats(c)
             \/ \E enable \in BOOLEAN : Kick(c, enable)
      PROVE  size' \in [Caller -> 0 .. MaxLen]
  <2>1. size' = [size EXCEPT ![c] = 0]
    BY <1>4 DEF Call, BadCall, NumDevices, TrafficStats, Kick, Begin
  <2>. QED BY <1>1, <1>2, <2>1
<1>5. ASSUME (\E s \in Station : Associate(s) \/ Disassociate(s)) \/ UNCHANGED vars
      PROVE  size' = size
  BY <1>5 DEF Associate, Disassociate, call, vars
<1>6. size' \in [Caller -> 0 .. MaxLen]
  BY <1>2, <1>3, <1>4, <1>5 DEF Next
<1>. QED BY <1>6 DEF Counted

(* A call does not kill its process as long as the first command can be    *)
(* started and calloc gives an entry for each station there is             *)
(* (2661-2669), whatever other callers do to the file.                     *)
THEOREM NobodyDies ==
  ASSUME MaxLen <= Spare, "popen1" \notin Hazard
  PROVE  Spec => [](\A c \in Caller : ret[c] # "died")
<1>. DEFINE Lives == \A c \in Caller : ret[c] # "died"
<1>1. Init => Counted
  BY Nothing DEF Init, Counted
<1>2. AssocInv /\ Counted /\ [Next]_vars => Counted'
  BY CountedStep
<1>3. AssocInv /\ Counted => Lives
  BY MaxLenIsNumber, SpareAssumption DEF AssocInv, WithinArray, Counted, SpareAssumption
<1>. HIDE DEF Lives
<1>4. Spec => []Lives
  BY <1>1, <1>2, <1>3, InitAssoc, NextAssoc, PTL DEF Spec
<1>. QED BY <1>4 DEF Lives

-----------------------------------------------------------------------------
(* The histories: which calls had the file to themselves, and which        *)
(* stations were there all along.                                          *)

watched == <<vars, alone, stayed>>

WatchedInit ==
  /\ Init
  /\ alone = [c \in Caller |-> TRUE]
  /\ stayed = [c \in Caller |-> {}]

WatchedSpec == WatchedInit /\ [][Next /\ Record]_watched

LEMMA TopicsAreWatched == MCSpec => WatchedSpec
<1>1. MCInit => WatchedInit
  BY DEF MCInit, WatchedInit
<1>2. [Next /\ Watch]_<<vars, topic, alone, stayed>> => [Next /\ Record]_watched
  BY DEF Watch, watched
<1>. QED BY <1>1, <1>2, PTL DEF MCSpec, WatchedSpec

(* Only its own steps move a call. *)
Keeps(c) ==
  /\ pc'[c] = pc[c] /\ list'[c] = list[c] /\ text'[c] = text[c]
  /\ array'[c] = array[c] /\ size'[c] = size[c]
  /\ deny'[c] = deny[c] /\ asked'[c] = asked[c] /\ ret'[c] = ret[c]

Begins(c) ==
  \/ Call(c) \/ BadCall(c) \/ NumDevices(c) \/ TrafficStats(c)
  \/ \E enable \in BOOLEAN : Kick(c, enable)

LEMMA OtherSteps ==
  ASSUME AssocInv, NEW c \in Caller, NEW d \in Caller \ {c}, Begins(d) \/ Step(d)
  PROVE  Keeps(c)
<1>1. CASE Begins(d)
  BY <1>1 DEF AssocInv, TypeOK, Begins, Call, BadCall, NumDevices, TrafficStats, Kick,
     Begin, Return, kick, Keeps
<1>2. CASE Step(d)
  BY <1>2 DEF AssocInv, TypeOK, Step, Open, List, Write, Count, Cat, Fill, Stations,
     KickNext, Ifconfig, Number, Allocate, FillNext, Finish, Goto, Return, kick, Keeps
<1>. QED BY <1>1, <1>2

LEMMA StationSteps ==
  ASSUME NEW c \in Caller, NEW s \in Station, Associate(s) \/ Disassociate(s)
  PROVE  Keeps(c) /\ file' = file
BY DEF Associate, Disassociate, Keeps, call, kick

-----------------------------------------------------------------------------
(* A call that has the file to itself.                                     *)

(* What has been filled in. *)
Got(c) == IF array[c] = NULL THEN <<>> ELSE array[c]

Snapshot(c) ==
  /\ \A d \in Caller \ {c} : pc[d] = "idle"
  /\ pc[c] \in {"list", "write"} => file = <<>>
  /\ pc[c] = "count" => file = list[c]
  /\ pc[c] = "cat" => file = list[c] /\ size[c] = Len(list[c]) /\ Got(c) = <<>>
  /\ pc[c] = "fill" =>
       size[c] = Len(list[c]) /\ Got(c) \o text[c] = Pieces(list[c])

SnapshotInv == \A c \in Caller : alone[c] => Snapshot(c)

LEMMA MoveOne ==
  ASSUME NEW S, NEW a \in Seq(S), NEW b \in Seq(S), b # <<>>
  PROVE  Append(a, Head(b)) \o Tail(b) = a \o b
<1>1. Head(b) \in S /\ Tail(b) \in Seq(S) /\ <<Head(b)>> \in Seq(S)
  OBVIOUS
<1>2. Append(a, Head(b)) = a \o <<Head(b)>>
  BY <1>1, AppendIsConcat, Zenon
<1>3. (a \o <<Head(b)>>) \o Tail(b) = a \o (<<Head(b)>> \o Tail(b))
  <2>. PICK h, t : h = <<Head(b)>> /\ t = Tail(b)
    OBVIOUS
  <2>1. h \in Seq(S) /\ t \in Seq(S)
    BY <1>1
  <2>2. (a \o h) \o t = a \o (h \o t)
    BY <2>1, ConcatAssociative
  <2>. QED BY <2>2
<1>4. <<Head(b)>> \o Tail(b) = b
  BY <1>1
<1>. QED BY <1>2, <1>3, <1>4, Zenon

LEMMA Prefix ==
  ASSUME NEW S, NEW a \in Seq(S), NEW b \in Seq(S)
  PROVE  SubSeq(a \o b, 1, Len(a)) = a
OBVIOUS

LEMMA OwnSnapshot ==
  ASSUME AssocInv, NEW c \in Caller, Step(c), Snapshot(c),
         ~(pc[c] = "open" /\ pc'[c] = "cat"),
         \A d \in Caller \ {c} : pc'[d] = "idle"
  PROVE  Snapshot(c)'
<1>1. CASE Open(c)
  BY <1>1 DEF AssocInv, TypeOK, Open, Allocate, Goto, Return, Snapshot
<1>2. CASE List(c)
  BY <1>2 DEF AssocInv, TypeOK, List, Goto, Snapshot
<1>3. CASE Write(c)
  <2>1. /\ file' = list[c] \o SubSeq(<<>>, Len(list[c]) + 1, Len(<<>>))
        /\ list' = list /\ pc'[c] = "count" /\ list[c] \in Seq(Station)
    BY <1>3, StationsOnce DEF AssocInv, TypeOK, Write, Goto, Snapshot
  <2>2. list[c] \o SubSeq(<<>>, Len(list[c]) + 1, Len(<<>>)) = list[c]
    <3>1. Len(list[c]) + 1 \in Int /\ Len(<<>>) = 0 /\ 0 < Len(list[c]) + 1
      BY <2>1
    <3>2. SubSeq(<<>>, Len(list[c]) + 1, 0) = <<>>
      BY <3>1, SubSeqEmpty
    <3>. QED BY <2>1, <3>1, <3>2, ConcatEmptySeq, Zenon
  <2>. QED BY <2>1, <2>2 DEF Snapshot
<1>4. CASE Count(c)
  <2>1. file = list[c] /\ list' = list /\ file' = file /\ array[c] = NULL
    BY <1>4 DEF AssocInv, CallsFit, Labels, Count, Snapshot
  <2>2. /\ size'[c] = Len(list[c])
        /\ pc'[c] \in {"idle", "cat"}
        /\ array'[c] \in {NULL, <<>>}
    BY <1>4, <2>1 DEF AssocInv, TypeOK, Count, Allocate, Goto, Return
  <2>3. Got(c)' = <<>>
    BY <2>2, Zenon DEF Got
  <2>. QED BY <2>1, <2>2, <2>3 DEF Snapshot
<1>5. CASE Cat(c)
  <2>1. CASE text' = [text EXCEPT ![c] = Pieces(file)] /\ Goto(c, "fill")
    <3>1. /\ file = list[c] /\ size[c] = Len(list[c]) /\ Got(c) = <<>>
          /\ list' = list /\ size' = size /\ Got(c)' = Got(c) /\ pc'[c] = "fill"
          /\ text'[c] = Pieces(list[c])
      BY <1>5, <2>1 DEF AssocInv, TypeOK, Cat, Goto, Snapshot, Got
    <3>2. Pieces(list[c]) \in Seq(Fragment)
      BY StationsOnce, PiecesOfLines DEF AssocInv, TypeOK
    <3>3. Got(c)' \o text'[c] = Pieces(list'[c])
      BY <3>1, <3>2, ConcatEmptySeq, Zenon
    <3>. QED BY <3>1, <3>3 DEF Snapshot
  <2>2. CASE Return(c, "ERR")
    BY <2>2 DEF AssocInv, TypeOK, Return, Snapshot
  <2>. QED BY <1>5, <2>1, <2>2 DEF Cat
<1>6. CASE Fill(c)
  <2>1. CASE Finish(c, "OK") \/ Finish(c, "died")
    BY <2>1 DEF AssocInv, TypeOK, Finish, Return, Snapshot
  <2>2. CASE /\ text[c] # <<>> /\ array[c] # NULL
             /\ array' = [array EXCEPT ![c] = Append(@, Head(text[c]))]
             /\ text' = [text EXCEPT ![c] = Tail(@)]
             /\ UNCHANGED <<pc, ret>>
    <3>1. /\ array[c] \in Seq(Fragment) /\ text[c] \in Seq(Fragment)
          /\ array'[c] = Append(array[c], Head(text[c])) /\ text'[c] = Tail(text[c])
          /\ size' = size /\ list' = list /\ pc' = pc /\ pc[c] = "fill"
      BY <1>6, <2>2 DEF AssocInv, TypeOK, CallsFit, Fill
    <3>2. array'[c] \o text'[c] = array[c] \o text[c]
      BY <2>2, <3>1, MoveOne, ZenonT(60)
    <3>3. array'[c] \in Seq(Fragment)
      BY <2>2, <3>1
    <3>4. Got(c) = array[c] /\ Got(c)' = array'[c]
      BY <2>2, <3>3, NoNull DEF Got
    <3>. QED BY <3>1, <3>2, <3>4 DEF Snapshot
  <2>. QED BY <1>6, <2>1, <2>2 DEF Fill, FillNext
<1>7. CASE Stations(c) \/ KickNext(c) \/ Ifconfig(c) \/ Number(c)
  <2>1. pc'[c] \in {"idle", "kick", "number"}
    BY <1>7 DEF AssocInv, TypeOK, Stations, KickNext, Ifconfig, Number, Goto, Return
  <2>. QED BY <2>1 DEF Snapshot
<1>. QED BY <1>1, <1>2, <1>3, <1>4, <1>5, <1>6, <1>7 DEF Step

(* Nobody else can be under way when the call is alone afterwards. *)
LEMMA SnapshotStep ==
  ASSUME AssocInv, SnapshotInv, Next, Record PROVE SnapshotInv'
<1>. SUFFICES ASSUME NEW c \in Caller, alone'[c] PROVE Snapshot(c)'
  BY Zenon DEF SnapshotInv
<1>1. /\ \A d \in Caller \ {c} : pc'[d] = "idle"
      /\ pc[c] = "idle" \/ alone[c]
      /\ ~(pc[c] = "open" /\ pc'[c] = "cat")
  BY DEF Record
<1>2. ASSUME Begins(c) PROVE Snapshot(c)'
  BY <1>1, <1>2 DEF AssocInv, TypeOK, Begins, Call, BadCall, NumDevices, TrafficStats, Kick,
     Begin, Return, Snapshot
<1>3. ASSUME Step(c) PROVE Snapshot(c)'
  <2>1. pc[c] # "idle"
    BY <1>3 DEF Step, Open, List, Write, Count, Cat, Fill, Stations, KickNext, Ifconfig, Number
  <2>2. Snapshot(c)
    BY <1>1, <2>1, Zenon DEF SnapshotInv
  <2>. QED BY <1>1, <1>3, <2>2, OwnSnapshot
<1>4. ASSUME Keeps(c), file' = file PROVE Snapshot(c)'
  <2>1. CASE pc[c] = "idle"
    BY <1>1, <1>4, <2>1 DEF Keeps, Snapshot, Got
  <2>2. CASE pc[c] # "idle"
    <3>1. Snapshot(c)
      BY <1>1, <2>2, Zenon DEF SnapshotInv
    <3>. QED BY <1>1, <1>4, <3>1 DEF Keeps, Snapshot, Got
  <2>. QED BY <2>1, <2>2
<1>5. ASSUME NEW d \in Caller \ {c}, Begins(d) \/ Step(d) PROVE Snapshot(c)'
  <2>1. Keeps(c)
    BY <1>5, OtherSteps
  <2>2. CASE Begins(d)
    <3>1. file' = file
      BY <2>2 DEF Begins, Call, BadCall, NumDevices, TrafficStats, Kick, Begin
    <3>. QED BY <1>4, <2>1, <3>1
  <2>3. CASE pc[c] = "idle"
    BY <1>1, <2>1, <2>3 DEF Keeps, Snapshot
  <2>4. CASE Step(d) /\ pc[c] # "idle"
    <3>1. pc[d] = "idle"
      BY <1>1, <2>4, Zenon DEF SnapshotInv, Snapshot
    <3>. QED BY <2>4, <3>1 DEF Step, Open, List, Write, Count, Cat, Fill, Stations,
             KickNext, Ifconfig, Number
  <2>. QED BY <1>5, <2>2, <2>3, <2>4
<1>. QED BY <1>2, <1>3, <1>4, <1>5, StationSteps DEF Next, Begins

LEMMA FilledWhole ==
  ASSUME AssocInv, NEW c \in Caller, Snapshot(c), Fill(c), ret'[c] = "OK"
  PROVE  /\ size[c] = Len(list[c])
         /\ array'[c] = SubSeq(Pieces(list[c]), 1, size[c])
         /\ array'[c] = list[c] <=> Whole(list[c])
<1>0. pc[c] = "fill" /\ size[c] = Len(list[c]) /\ Got(c) \o text[c] = Pieces(list[c])
  BY DEF Fill, Snapshot
<1>1. list[c] \in Seq(Station) /\ Len(list[c]) \in Nat /\ Len(Pieces(list[c])) >= Len(list[c])
  BY StationsOnce, PiecesOfLines DEF AssocInv, TypeOK
<1>2. /\ text[c] \in Seq(Fragment) /\ Got(c) \in Seq(Fragment) /\ Len(Got(c)) \in Nat
      /\ Len(Got(c)) <= size[c] /\ (array[c] = NULL => size[c] > 0 /\ Got(c) = <<>>)
      /\ Entries(c) = Len(Got(c))
  <2>1. /\ text[c] \in Seq(Fragment) /\ size[c] \in Nat /\ Spare \in Nat
        /\ \/ array[c] \in Seq(Fragment) /\ Len(array[c]) <= size[c]
           \/ array[c] = NULL /\ size[c] > Spare
    BY <1>0, <1>1, SpareAssumption DEF AssocInv, TypeOK, CallsFit, SpareAssumption
  <2>2. CASE array[c] = NULL
    <3>1. Got(c) = <<>> /\ Entries(c) = 0 /\ size[c] > Spare
      BY <2>1, <2>2, NoNull DEF Got, Entries
    <3>2. <<>> \in Seq(Fragment) /\ Len(<<>>) = 0
      OBVIOUS
    <3>. QED BY <2>1, <3>1, <3>2
  <2>3. CASE array[c] # NULL
    <3>1. Got(c) = array[c] /\ Entries(c) = Len(array[c])
      BY <2>3 DEF Got, Entries
    <3>. QED BY <2>1, <2>3, <3>1
  <2>. QED BY <2>2, <2>3
<1>3. CASE text[c] = <<>> \/ ~(Len(Got(c)) < size[c])
  <2>1. Len(Got(c)) = size[c]
    <3>1. CASE text[c] = <<>>
      <4>1. Pieces(list[c]) = Got(c)
        BY <1>0, <1>2, <3>1, ConcatEmptySeq, Zenon
      <4>. QED BY <1>0, <1>1, <1>2, <4>1
    <3>2. CASE ~(Len(Got(c)) < size[c])
      BY <1>0, <1>1, <1>2, <3>2
    <3>. QED BY <1>3, <3>1, <3>2
  <2>2. array' = array /\ array[c] # NULL /\ Got(c) = array[c]
    <3>1. array[c] # NULL
      BY <1>0, <1>1, <1>2, <2>1
    <3>2. array' = array
      BY <1>2, <1>3 DEF Fill, Finish
    <3>. QED BY <3>1, <3>2 DEF Got
  <2>3. SubSeq(Got(c) \o text[c], 1, Len(Got(c))) = Got(c)
    BY <1>2, Prefix, Zenon
  <2>4. array'[c] = SubSeq(Pieces(list[c]), 1, size[c])
    BY <1>0, <2>1, <2>2, <2>3, Zenon
  <2>5. array'[c] = list[c] <=> Whole(list[c])
    <3>1. CASE list[c] = <<>>
      <4>1. Len(array'[c]) = 0 /\ array'[c] \in Seq(Fragment)
        BY <1>0, <1>2, <2>1, <2>2, <3>1
      <4>2. Whole(list[c])
        BY <3>1 DEF Whole
      <4>. QED BY <3>1, <4>1, <4>2
    <3>2. CASE list[c] # <<>>
      BY <1>0, <1>1, <2>4, <3>2, WholeLines, Zenon
    <3>. QED BY <3>1, <3>2
  <2>. QED BY <1>0, <2>4, <2>5
<1>4. CASE text[c] # <<>> /\ Len(Got(c)) < size[c]
  <2>1. FillNext(c)
    BY <1>2, <1>4 DEF Fill
  <2>2. ret'[c] = ret[c] \/ ret'[c] = "died"
    BY <2>1 DEF AssocInv, TypeOK, FillNext, Finish, Return
  <2>. QED BY <1>0, <2>2 DEF AssocInv, CallsFit
<1>. QED BY <1>3, <1>4

(* A caller that has the file to itself gets what the driver said at one   *)
(* moment, whatever stations come and go during the call (2658-2738): one  *)
(* entry for each station, in full and in order, if and only if no line    *)
(* but the last is split by fgets, and otherwise as many pieces as there   *)
(* were lines, for any callers, stations and lines.  The first conjunct    *)
(* leaves all calls of the model to the callers, the second is about the   *)
(* instance, where a behaviour has calls of one kind.                      *)
THEOREM AnswersSnapshotCorrect ==
  /\ WatchedSpec => AnswersSnapshot
  /\ MCSpec => AnswersSnapshot
<1>. DEFINE A == \A c \in Caller : alone[c] /\ pc[c] = "fill" /\ ret'[c] = "OK" =>
                  /\ size[c] = Len(list[c])
                  /\ array'[c] = SubSeq(Pieces(list[c]), 1, size[c])
                  /\ array'[c] = list[c] <=> Whole(list[c])
<1>1. WatchedInit => AssocInv /\ SnapshotInv
  <2>1. Init => \A c \in Caller : Snapshot(c)
    BY DEF Init, Snapshot
  <2>. QED BY <2>1, InitAssoc DEF WatchedInit, SnapshotInv
<1>2. ASSUME AssocInv, SnapshotInv, [Next /\ Record]_watched
      PROVE  AssocInv' /\ SnapshotInv'
  <2>1. CASE Next /\ Record
    BY <1>2, <2>1, NextAssoc, SnapshotStep
  <2>2. CASE UNCHANGED watched
    <3>1. AssocInv'
      BY <1>2, <2>2, NextAssoc DEF watched
    <3>2. alone' = alone /\ \A c \in Caller : Snapshot(c)' <=> Snapshot(c)
      BY <2>2 DEF watched, vars, Snapshot, Got
    <3>. QED BY <1>2, <3>1, <3>2, Zenon DEF SnapshotInv
  <2>. QED BY <1>2, <2>1, <2>2
<1>3. ASSUME AssocInv, SnapshotInv, Next, NEW c \in Caller,
             alone[c], pc[c] = "fill", ret'[c] = "OK"
      PROVE  /\ size[c] = Len(list[c])
             /\ array'[c] = SubSeq(Pieces(list[c]), 1, size[c])
             /\ array'[c] = list[c] <=> Whole(list[c])
  <2>1. ~Keeps(c)
    BY <1>3 DEF Keeps, AssocInv, CallsFit
  <2>2. Begins(c) \/ Step(c)
    BY <1>3, <2>1, OtherSteps, StationSteps DEF Next, Begins
  <2>3. Fill(c)
    BY <1>3, <2>2 DEF Begins, Call, BadCall, NumDevices, TrafficStats, Kick, Begin, Step,
       Open, List, Write, Count, Cat, Stations, KickNext, Ifconfig, Number
  <2>4. Snapshot(c)
    BY <1>3, Zenon DEF SnapshotInv
  <2>. QED BY <1>3, <2>3, <2>4, FilledWhole
<1>4. AssocInv /\ SnapshotInv /\ [Next /\ Record]_watched => [A]_vars
  BY <1>3 DEF watched
<1>5. WatchedSpec => AnswersSnapshot
  BY <1>1, <1>2, <1>4, PTL DEF WatchedSpec, AnswersSnapshot
<1>. QED BY <1>5, TopicsAreWatched

-----------------------------------------------------------------------------
(* Kicks.                                                                  *)

(* Whom the call goes through. *)
Chosen(c) == IF deny[c] THEN Acl ELSE Listed(c)

(* How far a kick has come: those that must go were asked to, or are still *)
(* ahead.                                                                  *)
Kicked(c) ==
  /\ pc[c] # "kick" => asked[c] = {}
  /\ pc[c] = "stations" => stayed[c] \subseteq ToSet(assoc)
  /\ pc[c] = "kick" =>
       /\ stayed[c] \subseteq ToSet(list[c])
       /\ ToSet(text[c]) \subseteq ToSet(Chosen(c))
       /\ \A s \in asked[c] : s \in ToSet(Chosen(c)) /\ MustGo(c, s)
       /\ \A s \in ToSet(Chosen(c)) :
            MustGo(c, s) => s \in asked[c] \/ s \in ToSet(text[c])

KickInv == \A c \in Caller : Kicked(c)

LEMMA HeadAndTail ==
  ASSUME NEW S, NEW s \in Seq(S), s # <<>>
  PROVE  ToSet(s) = {Head(s)} \cup ToSet(Tail(s))
<1>1. /\ DOMAIN s = 1 .. Len(s) /\ Len(s) \in Nat /\ Len(s) >= 1
      /\ DOMAIN Tail(s) = 1 .. (Len(s) - 1) /\ Head(s) = s[1]
      /\ \A i \in 1 .. (Len(s) - 1) : Tail(s)[i] = s[i + 1]
  OBVIOUS
<1>2. ASSUME NEW i \in 1 .. Len(s), i # 1
      PROVE  i - 1 \in 1 .. (Len(s) - 1) /\ s[i] = Tail(s)[i - 1]
  BY <1>1, <1>2
<1>3. ToSet(s) \subseteq {Head(s)} \cup ToSet(Tail(s))
  <2>1. ASSUME NEW i \in 1 .. Len(s) PROVE s[i] = Head(s) \/ s[i] \in ToSet(Tail(s))
    <3>1. CASE i = 1
      BY <1>1, <3>1
    <3>2. CASE i # 1
      <4>1. i - 1 \in DOMAIN Tail(s) /\ s[i] = Tail(s)[i - 1]
        BY <1>1, <1>2, <3>2
      <4>. QED BY <4>1, Zenon DEF ToSet
    <3>. QED BY <3>1, <3>2
  <2>. QED BY <1>1, <2>1 DEF ToSet
<1>4. {Head(s)} \cup ToSet(Tail(s)) \subseteq ToSet(s)
  BY <1>1 DEF ToSet
<1>. QED BY <1>3, <1>4

LEMMA ContainsIsIn ==
  ASSUME NEW S, NEW s \in Seq(S), NEW e
  PROVE  Contains(s, e) <=> e \in ToSet(s)
BY DEF Contains, ToSet

(* What a kick goes by does not change before it ends. *)
LEMMA SameChoice ==
  ASSUME NEW c \in Caller, deny'[c] = deny[c], list'[c] = list[c]
  PROVE  Chosen(c)' = Chosen(c) /\ \A s : MustGo(c, s)' <=> MustGo(c, s)
BY DEF Chosen, MustGo, Listed

LEMMA StationsKick ==
  ASSUME AssocInv, NEW c \in Caller, Kicked(c), Stations(c), pc'[c] = "kick",
         stayed'[c] = stayed[c] \cap ToSet(assoc')
  PROVE  Kicked(c)'
<1>1. /\ text'[c] = Chosen(c)' /\ asked'[c] = {} /\ assoc' = assoc
      /\ Listed(c)' # <<>>
  BY DEF AssocInv, TypeOK, Kicked, Stations, Return, kick, Chosen
<1>2. list'[c] = assoc
  <2>1. list' = [list EXCEPT ![c] = assoc] \/ list'[c] = <<>>
    BY DEF AssocInv, TypeOK, Stations
  <2>2. CASE list'[c] = <<>>
    <3>1. Listed(c)' = SubSeq(<<>>, 1, Min({Room, 0}))
      BY <2>2 DEF Listed
    <3>2. Min({Room, 0}) = 0
      BY LesserOf, RoomAssumption DEF RoomAssumption
    <3>. QED BY <1>1, <3>1, <3>2, SubSeqEmpty
  <2>. QED BY <2>1, <2>2 DEF AssocInv, TypeOK
<1>. QED BY <1>1, <1>2, Zenon DEF Kicked

LEMMA KickNextKick ==
  ASSUME AssocInv, NEW c \in Caller, Kicked(c), KickNext(c),
         pc'[c] = "kick" => stayed'[c] \subseteq stayed[c]
  PROVE  Kicked(c)'
<1>1. CASE text[c] = <<>> /\ Return(c, "OK") /\ asked' = [asked EXCEPT ![c] = {}]
  BY <1>1 DEF AssocInv, TypeOK, Return, Kicked
<1>2. CASE /\ text[c] # <<>>
           /\ text' = [text EXCEPT ![c] = Tail(@)]
           /\ asked' = IF MustGo(c, Head(text[c]))
                       THEN [asked EXCEPT ![c] = @ \cup {Head(text[c])}] ELSE asked
           /\ UNCHANGED <<pc, ret>>
  <2>1. /\ pc[c] = "kick" /\ pc'[c] = "kick" /\ list' = list /\ deny' = deny
        /\ text'[c] = Tail(text[c])
        /\ asked'[c] = IF MustGo(c, Head(text[c])) THEN asked[c] \cup {Head(text[c])}
                       ELSE asked[c]
    BY <1>2 DEF AssocInv, TypeOK, KickNext
  <2>2. ToSet(text[c]) = {Head(text[c])} \cup ToSet(text'[c])
    BY <1>2, <2>1, HeadAndTail DEF AssocInv, TypeOK
  <2>3. Chosen(c)' = Chosen(c) /\ \A s : MustGo(c, s)' <=> MustGo(c, s)
    BY <2>1, SameChoice
  <2>4. /\ stayed'[c] \subseteq ToSet(list'[c])
        /\ ToSet(text'[c]) \subseteq ToSet(Chosen(c))
    BY <2>1, <2>2 DEF Kicked
  <2>5. \A s \in asked'[c] : s \in ToSet(Chosen(c)) /\ MustGo(c, s)
    BY <2>1, <2>2 DEF Kicked
  <2>6. \A s \in ToSet(Chosen(c)) :
          MustGo(c, s) => s \in asked'[c] \/ s \in ToSet(text'[c])
    BY <2>1, <2>2 DEF Kicked
  <2>. QED BY <2>1, <2>3, <2>4, <2>5, <2>6 DEF Kicked
<1>. QED BY <1>1, <1>2 DEF KickNext

LEMMA KickStep ==
  ASSUME AssocInv, KickInv, Next, Record PROVE KickInv'
<1>. SUFFICES ASSUME NEW c \in Caller PROVE Kicked(c)'
  BY DEF KickInv
<1>1. /\ pc'[c] \in Kicks => stayed'[c] \subseteq ToSet(assoc')
      /\ pc'[c] \in Kicks /\ pc[c] # "idle" =>
           stayed'[c] = stayed[c] \cap ToSet(assoc')
  BY DEF Record
<1>2. Kicked(c)
  BY DEF KickInv
<1>3. ASSUME Keeps(c) PROVE Kicked(c)'
  <2>1. CASE pc[c] = "kick"
    <3>1. stayed'[c] \subseteq stayed[c]
      BY <1>1, <1>3, <2>1 DEF Keeps, Kicks
    <3>2. Chosen(c)' = Chosen(c) /\ \A s : MustGo(c, s)' <=> MustGo(c, s)
      BY <1>3, SameChoice DEF Keeps
    <3>. QED BY <1>2, <1>3, <2>1, <3>1, <3>2 DEF Keeps, Kicked
  <2>2. CASE pc[c] # "kick"
    BY <1>1, <1>2, <1>3, <2>2 DEF Keeps, Kicked, Kicks
  <2>. QED BY <2>1, <2>2
<1>4. ASSUME Begins(c) PROVE Kicked(c)'
  <2>1. pc[c] = "idle" /\ asked' = asked /\ pc'[c] # "kick"
    BY <1>4 DEF AssocInv, TypeOK, Begins, Call, BadCall, NumDevices, TrafficStats, Kick,
       Begin, Return, kick
  <2>. QED BY <1>1, <1>2, <2>1 DEF Kicked, Kicks
<1>5. ASSUME Step(c) PROVE Kicked(c)'
  <2>1. CASE Stations(c)
    <3>1. CASE pc'[c] = "kick"
      <4>1. stayed'[c] = stayed[c] \cap ToSet(assoc')
        BY <1>1, <2>1, <3>1 DEF Kicks, Stations
      <4>. QED BY <1>2, <2>1, <3>1, <4>1, StationsKick
    <3>2. CASE pc'[c] # "kick"
      <4>1. pc'[c] = "idle" /\ asked' = asked /\ pc[c] = "stations"
        BY <2>1, <3>2 DEF AssocInv, TypeOK, Stations, Goto, Return, kick
      <4>. QED BY <1>2, <4>1 DEF Kicked
    <3>. QED BY <3>1, <3>2
  <2>2. CASE KickNext(c)
    <3>1. pc'[c] = "kick" => stayed'[c] \subseteq stayed[c]
      BY <1>1, <2>2 DEF Kicks, KickNext
    <3>. QED BY <1>2, <2>2, <3>1, KickNextKick
  <2>3. CASE Open(c) \/ List(c) \/ Write(c) \/ Count(c) \/ Cat(c) \/ Fill(c)
             \/ Ifconfig(c) \/ Number(c)
    <3>1. pc[c] # "kick" /\ pc'[c] \notin {"kick", "stations"} /\ asked' = asked
      BY <2>3 DEF AssocInv, TypeOK, Open, List, Write, Count, Cat, Fill, Ifconfig, Number,
         Allocate, FillNext, Finish, Goto, Return, kick
    <3>. QED BY <1>2, <3>1 DEF Kicked
  <2>. QED BY <1>5, <2>1, <2>2, <2>3 DEF Step
<1>. QED BY <1>3, <1>4, <1>5, OtherSteps, StationSteps DEF Next, Begins

LEMMA KickedRight ==
  ASSUME AssocInv, NEW c \in Caller, Kicked(c), KickNext(c), pc'[c] = "idle"
  PROVE  /\ asked[c] \subseteq ToSet(list[c])
         /\ Len(list[c]) <= Room =>
              \A s \in stayed[c] : s \in asked[c] <=> (deny[c] <=> Contains(Acl, s))
<1>1. pc[c] = "kick" /\ text[c] = <<>>
  BY DEF AssocInv, TypeOK, KickNext
<1>2. /\ stayed[c] \subseteq ToSet(list[c])
      /\ \A s : s \in asked[c] <=> s \in ToSet(Chosen(c)) /\ MustGo(c, s)
  BY <1>1 DEF Kicked, ToSet
<1>3. /\ list[c] \in Seq(Station) /\ Listed(c) \in Seq(Station)
      /\ ToSet(Listed(c)) \subseteq ToSet(list[c])
      /\ Len(list[c]) <= Room => Listed(c) = list[c]
  BY StationsOnce, ListedIsPart DEF AssocInv, TypeOK
<1>4. \A s : /\ Contains(Listed(c), s) <=> s \in ToSet(Listed(c))
             /\ Contains(Acl, s) <=> s \in ToSet(Acl)
  BY <1>3, AclAssumption, ContainsIsIn DEF AclAssumption
<1>5. \A s : s \in asked[c] <=>
             /\ s \in ToSet(Listed(c))
             /\ IF deny[c] THEN s \in ToSet(Acl) ELSE s \notin ToSet(Acl)
  BY <1>2, <1>4, Zenon DEF Chosen, MustGo
<1>6. deny[c] \in BOOLEAN
  BY DEF AssocInv, TypeOK
<1>7. asked[c] \subseteq ToSet(list[c])
  BY <1>3, <1>5
<1>8. ASSUME Len(list[c]) <= Room, NEW s \in stayed[c]
      PROVE  s \in asked[c] <=> (deny[c] <=> Contains(Acl, s))
  <2>1. s \in ToSet(Listed(c))
    BY <1>2, <1>3, <1>8
  <2>. QED BY <1>4, <1>5, <1>6, <2>1, Zenon
<1>. QED BY <1>7, <1>8

(* A station that is associated all through a kick is asked to leave if    *)
(* and only if the access control list says so (1964-1999), whatever       *)
(* stations come and go and whoever else kicks: for any list, any number   *)
(* of stations and any room for them.                                      *)
THEOREM KicksWhoStaysCorrect ==
  /\ WatchedSpec => KicksWhoStays
  /\ MCSpec => KicksWhoStays
<1>. DEFINE A ==
       \A c \in Caller : pc[c] = "kick" /\ pc'[c] = "idle" =>
         /\ asked[c] \subseteq ToSet(list[c])
         /\ Len(list[c]) <= Room =>
              \A s \in stayed[c] :
                s \in asked[c] <=> (deny[c] <=> Contains(Acl, s))
<1>1. WatchedInit => AssocInv /\ KickInv
  <2>1. Init => KickInv
    BY DEF Init, KickInv, Kicked
  <2>. QED BY <2>1, InitAssoc DEF WatchedInit
<1>2. ASSUME AssocInv, KickInv, [Next /\ Record]_watched
      PROVE  AssocInv' /\ KickInv'
  <2>1. CASE Next /\ Record
    BY <1>2, <2>1, NextAssoc, KickStep
  <2>2. CASE UNCHANGED watched
    <3>1. AssocInv'
      BY <1>2, <2>2, NextAssoc DEF watched
    <3>2. ASSUME NEW c \in Caller PROVE Kicked(c)'
      <4>1. UNCHANGED <<pc, asked, stayed, assoc, list, text, deny>>
        BY <2>2 DEF watched, vars, kick
      <4>2. Chosen(c)' = Chosen(c) /\ \A s : MustGo(c, s)' <=> MustGo(c, s)
        BY <4>1, SameChoice
      <4>. QED BY <1>2, <4>1, <4>2 DEF KickInv, Kicked
    <3>. QED BY <3>1, <3>2 DEF KickInv
  <2>. QED BY <1>2, <2>1, <2>2
<1>3. ASSUME AssocInv, KickInv, Next, NEW c \in Caller, pc[c] = "kick", pc'[c] = "idle"
      PROVE  /\ asked[c] \subseteq ToSet(list[c])
             /\ Len(list[c]) <= Room =>
                  \A s \in stayed[c] :
                    s \in asked[c] <=> (deny[c] <=> Contains(Acl, s))
  <2>1. ~Keeps(c)
    BY <1>3 DEF Keeps
  <2>2. Begins(c) \/ Step(c)
    BY <1>3, <2>1, OtherSteps, StationSteps DEF Next, Begins
  <2>3. KickNext(c)
    BY <1>3, <2>2 DEF Begins, Call, BadCall, NumDevices, TrafficStats, Kick, Begin, Step,
       Open, List, Write, Count, Cat, Fill, Stations, Ifconfig, Number
  <2>4. Kicked(c)
    BY <1>3 DEF KickInv
  <2>. QED BY <1>3, <2>3, <2>4, KickedRight
<1>4. AssocInv /\ KickInv /\ [Next /\ Record]_watched => [A]_vars
  BY <1>3 DEF watched
<1>5. WatchedSpec => KicksWhoStays
  BY <1>1, <1>2, <1>4, PTL DEF WatchedSpec, KicksWhoStays
<1>. QED BY <1>5, TopicsAreWatched
=============================================================================
