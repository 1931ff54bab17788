---------------------------- MODULE GroupLemmas ----------------------------
(***************************************************************************)
(* What the operators of Group.tla return, whatever the group: the sums    *)
(* that apply_changes makes, the lists that the tracking of additions      *)
(* leaves, and the lengths that the nodes are given.  GroupNodeProofs.tla  *)
(* and StackLemmas.tla rest on these.                                      *)
(***************************************************************************)
EXTENDS Group, TLAPS, SequenceTheorems, WellFoundedInduction

\* A set of naturals with 0, and with n + 1 for each of its n, is all of them.
LEMMA SetInduction ==
  ASSUME NEW T, 0 \in T, \A n \in Nat : n \in T => n + 1 \in T
  PROVE  Nat \subseteq T
<1> DEFINE Out == Nat \ T
           Less == OpToRel(<, Nat)
<1> SUFFICES ASSUME Out # {} PROVE FALSE
  OBVIOUS
<1>1. PICK x \in Out : \A y \in Out : ~(<<y, x>> \in Less)
  <2> HIDE DEF Less
  <2> QED BY WFMin, NatLessThanWellFounded DEF Less
<1>2. x \in Nat /\ x # 0 /\ x - 1 \in Nat
  OBVIOUS
<1>3. <<x - 1, x>> \in Less
  BY <1>2 DEF OpToRel
<1>4. x - 1 \in T
  BY <1>1, <1>2, <1>3
<1>5. (x - 1) + 1 \in T
  BY <1>2, <1>4
<1>6. (x - 1) + 1 = x
  BY <1>2
<1> HIDE DEF Less
<1> QED
  BY <1>5, <1>6

-----------------------------------------------------------------------------
(* The running sums.                                                       *)

IsSums(p, s, n) ==
  /\ p \in [0 .. n -> Int]
  /\ p[0] = 0
  /\ \A k \in 1 .. n : p[k] = p[k - 1] + s[k]

\* A sequence of integers has running sums, up to each of its positions.
LEMMA SumsExist ==
  ASSUME NEW s \in Seq(Int), NEW n \in 0 .. Len(s)
  PROVE  \E p : IsSums(p, s, n)
<1> DEFINE T == {m \in Nat : m <= Len(s) => \E p : IsSums(p, s, m)}
<1>1. 0 \in T
  <2>1. IsSums([k \in 0 .. 0 |-> 0], s, 0)
    BY DEF IsSums
  <2> QED BY <2>1
<1>2. ASSUME NEW m \in Nat, m \in T PROVE m + 1 \in T
  <2> SUFFICES ASSUME m + 1 <= Len(s) PROVE \E p : IsSums(p, s, m + 1)
    OBVIOUS
  <2>1. PICK p : IsSums(p, s, m)
    BY <1>2
  <2> DEFINE q == [k \in 0 .. m + 1 |-> IF k = m + 1 THEN p[m] + s[m + 1] ELSE p[k]]
  <2>2. s[m + 1] \in Int
    OBVIOUS
  <2>3. q \in [0 .. m + 1 -> Int] /\ q[0] = 0
    BY <2>1, <2>2 DEF IsSums
  <2>4. ASSUME NEW k \in 1 .. m + 1 PROVE q[k] = q[k - 1] + s[k]
    <3>1. CASE k = m + 1
      BY <3>1
    <3>2. CASE k # m + 1
      <4>1. k \in 1 .. m /\ k - 1 \in 0 .. m
        BY <3>2
      <4>2. p[k] = p[k - 1] + s[k]
        BY <2>1, <4>1 DEF IsSums
      <4> QED BY <4>1, <4>2
    <3> QED BY <3>1, <3>2
  <2> QED BY <2>3, <2>4 DEF IsSums
<1>3. Nat \subseteq T
  <2> HIDE DEF T
  <2> QED BY <1>1, <1>2, SetInduction
<1> QED BY <1>3

\* PartialSums returns them.
LEMMA Sums ==
  ASSUME NEW s \in Seq(Int)
  PROVE  IsSums(PartialSums(s), s, Len(s))
<1> DEFINE Rec(f) == [n \in 0 .. Len(s) |-> IF n = 0 THEN 0 ELSE f[n - 1] + s[n]]
           sums == PartialSums(s)
<1>1. PICK p : IsSums(p, s, Len(s))
  BY SumsExist
<1>2. p = Rec(p)
  BY <1>1 DEF IsSums
<1>3. sums = CHOOSE f : f = Rec(f)
  BY DEF PartialSums
<1>4. sums = Rec(sums)
  BY <1>2, <1>3
<1> HIDE DEF sums
<1>5. /\ DOMAIN sums = 0 .. Len(s)
      /\ sums[0] = 0
      /\ \A k \in 1 .. Len(s) : sums[k] = sums[k - 1] + s[k]
  <2> DEFINE r == Rec(sums)
  <2>1. /\ DOMAIN r = 0 .. Len(s)
        /\ \A k \in 0 .. Len(s) : r[k] = IF k = 0 THEN 0 ELSE sums[k - 1] + s[k]
    OBVIOUS
  <2>2. sums = r
    BY <1>4
  <2> HIDE DEF r
  <2>3. Len(s) \in Nat
    OBVIOUS
  <2>4. sums[0] = 0
    BY <2>1, <2>2, <2>3
  <2>5. ASSUME NEW k \in 1 .. Len(s) PROVE sums[k] = sums[k - 1] + s[k]
    BY <2>1, <2>2, <2>3
  <2> QED BY <2>1, <2>2, <2>4, <2>5
<1> DEFINE T == {m \in Nat : m <= Len(s) => sums[m] \in Int}
<1>6. 0 \in T
  BY <1>5
<1>7. ASSUME NEW m \in Nat, m \in T PROVE m + 1 \in T
  <2>1. ASSUME m + 1 <= Len(s) PROVE sums[m + 1] \in Int
    <3>1. s[m + 1] \in Int /\ m + 1 \in 1 .. Len(s) /\ (m + 1) - 1 = m
      BY <2>1
    <3>2. sums[m] \in Int
      BY <2>1, <1>7
    <3> QED BY <1>5, <3>1, <3>2
  <2> QED BY <2>1
<1>8. Nat \subseteq T
  <2> HIDE DEF T
  <2> QED BY <1>6, <1>7, SetInduction
<1>9. sums \in [0 .. Len(s) -> Int]
  <2>1. sums = [n \in 0 .. Len(s) |-> sums[n]]
    BY <1>4, <1>5
  <2>2. \A n \in 0 .. Len(s) : sums[n] \in Int
    BY <1>8
  <2> QED BY <2>1, <2>2
<1> QED BY <1>5, <1>9 DEF IsSums, sums

-----------------------------------------------------------------------------
(* Sequences that a run of elements is put into, or one is taken from.     *)

\* The first i elements, and those from i + 1 on.
LEMMA PartsAre ==
  ASSUME NEW S, NEW s \in Seq(S), NEW i \in 0 .. Len(s)
  PROVE  /\ SubSeq(s, 1, i) \in Seq(S) /\ Len(SubSeq(s, 1, i)) = i
         /\ \A k \in 1 .. i : SubSeq(s, 1, i)[k] = s[k]
         /\ SubSeq(s, i + 1, Len(s)) \in Seq(S)
         /\ Len(SubSeq(s, i + 1, Len(s))) = Len(s) - i
         /\ \A k \in 1 .. Len(s) - i : SubSeq(s, i + 1, Len(s))[k] = s[i + k]
  OBVIOUS

\* The elements of t come between the first i of s and the others.
LEMMA SpliceIs ==
  ASSUME NEW S, NEW s \in Seq(S), NEW t \in Seq(S), NEW i \in 0 .. Len(s)
  PROVE  /\ Splice(s, i, t) \in Seq(S)
         /\ Len(Splice(s, i, t)) = Len(s) + Len(t)
         /\ \A k \in 1 .. i : Splice(s, i, t)[k] = s[k]
         /\ \A k \in 1 .. Len(t) : Splice(s, i, t)[i + k] = t[k]
         /\ \A k \in i + 1 .. Len(s) : Splice(s, i, t)[Len(t) + k] = s[k]
<1> DEFINE front == SubSeq(s, 1, i)
           back  == SubSeq(s, i + 1, Len(s))
           most  == front \o t
           all   == most \o back
<1>0. Len(s) \in Nat /\ Len(t) \in Nat /\ i \in Nat /\ i <= Len(s)
  OBVIOUS
<1>1. /\ front \in Seq(S) /\ Len(front) = i
      /\ \A k \in 1 .. i : front[k] = s[k]
  BY PartsAre
<1>2. /\ back \in Seq(S) /\ Len(back) = Len(s) - i
      /\ \A k \in 1 .. Len(s) - i : back[k] = s[i + k]
  BY PartsAre
<1>3. Splice(s, i, t) = all
  BY DEF Splice
<1> HIDE DEF front, back
<1>4. /\ most \in Seq(S) /\ Len(most) = i + Len(t)
      /\ \A k \in 1 .. i : most[k] = s[k]
      /\ \A k \in 1 .. Len(t) : most[i + k] = t[k]
  <2>1. front \in Seq(S)
    BY <1>1
  <2>2. /\ most \in Seq(S) /\ Len(most) = Len(front) + Len(t)
        /\ \A k \in 1 .. Len(front) : most[k] = front[k]
        /\ \A k \in 1 .. Len(t) : most[Len(front) + k] = t[k]
    BY <2>1
  <2> HIDE DEF most
  <2> QED BY <2>2, <1>1
<1> HIDE DEF most
<1>5. /\ all \in Seq(S) /\ Len(all) = Len(most) + Len(back)
      /\ \A k \in 1 .. Len(most) : all[k] = most[k]
      /\ \A k \in 1 .. Len(back) : all[Len(most) + k] = back[k]
  <2>1. most \in Seq(S) /\ back \in Seq(S)
    BY <1>2, <1>4
  <2> QED BY <2>1
<1> HIDE DEF all
<1>6. Len(all) = Len(s) + Len(t)
  BY <1>0, <1>2, <1>4, <1>5
<1>7. ASSUME NEW k \in 1 .. i PROVE all[k] = s[k]
  BY <1>0, <1>4, <1>5
<1>8. ASSUME NEW k \in 1 .. Len(t) PROVE all[i + k] = t[k]
  BY <1>0, <1>4, <1>5
<1>9. ASSUME NEW k \in i + 1 .. Len(s) PROVE all[Len(t) + k] = s[k]
  <2>1. k - i \in 1 .. Len(back) /\ Len(most) + (k - i) = Len(t) + k /\ i + (k - i) = k
    BY <1>0, <1>2, <1>4
  <2> QED BY <2>1, <1>2, <1>5
<1> QED BY <1>3, <1>5, <1>6, <1>7, <1>8, <1>9

\* RemoveAt of the community modules.
LEMMA RemoveAtIs ==
  ASSUME NEW S, NEW s \in Seq(S), NEW i \in 1 .. Len(s)
  PROVE  /\ RemoveAt(s, i) \in Seq(S)
         /\ Len(RemoveAt(s, i)) = Len(s) - 1
         /\ \A k \in 1 .. i - 1 : RemoveAt(s, i)[k] = s[k]
         /\ \A k \in i + 1 .. Len(s) : RemoveAt(s, i)[k - 1] = s[k]
<1> DEFINE front == SubSeq(s, 1, i - 1)
           back  == SubSeq(s, i + 1, Len(s))
           all   == front \o back
<1>0. Len(s) \in Nat /\ i \in Nat /\ i - 1 \in Nat /\ i - 1 \in 0 .. Len(s) /\ i \in 0 .. Len(s)
  OBVIOUS
<1>1. /\ front \in Seq(S) /\ Len(front) = i - 1
      /\ \A k \in 1 .. i - 1 : front[k] = s[k]
  BY <1>0, PartsAre
<1>2. /\ back \in Seq(S) /\ Len(back) = Len(s) - i
      /\ \A k \in 1 .. Len(s) - i : back[k] = s[i + k]
  BY <1>0, PartsAre
<1>3. RemoveAt(s, i) = all
  BY DEF RemoveAt
<1> HIDE DEF front, back
<1>4. /\ all \in Seq(S) /\ Len(all) = Len(front) + Len(back)
      /\ \A k \in 1 .. Len(front) : all[k] = front[k]
      /\ \A k \in 1 .. Len(back) : all[Len(front) + k] = back[k]
  <2>1. front \in Seq(S) /\ back \in Seq(S)
    BY <1>1, <1>2
  <2> QED BY <2>1
<1> HIDE DEF all
<1>5. Len(all) = Len(s) - 1
  BY <1>0, <1>1, <1>2, <1>4
<1>6. ASSUME NEW k \in 1 .. i - 1 PROVE all[k] = s[k]
  BY <1>0, <1>1, <1>4
<1>7. ASSUME NEW k \in i + 1 .. Len(s) PROVE all[k - 1] = s[k]
  <2>1. k - i \in 1 .. Len(back) /\ Len(front) + (k - i) = k - 1 /\ i + (k - i) = k
    BY <1>0, <1>1, <1>2
  <2> QED BY <2>1, <1>2, <1>4
<1> QED BY <1>3, <1>4, <1>5, <1>6, <1>7

\* The elements of a sequence from its last to its first.
LEMMA ReverseIs ==
  ASSUME NEW S, NEW s \in Seq(S)
  PROVE  /\ Reverse(s) \in Seq(S)
         /\ Len(Reverse(s)) = Len(s)
         /\ \A k \in 1 .. Len(s) : Reverse(s)[k] = s[Len(s) - k + 1]
  BY DEF Reverse

-----------------------------------------------------------------------------
(* Sorted lists of indices, as n indices are opened at i, or i is closed.  *)

Opened(M, i, n) == {k \in M : k < i} \cup i .. i + n - 1 \cup {k + n : k \in {m \in M : m >= i}}
Closed(M, i) == {k \in M : k < i} \cup {k - 1 : k \in {m \in M : m > i}}

\* The point that partition_point searches for exists in a sorted list.
LEMMA PartitionPointIs ==
  ASSUME NEW s \in Seq(Int), Increasing(s), NEW i \in Int
  PROVE  /\ PartitionPoint(s, i) \in 0 .. Len(s)
         /\ \A k \in 1 .. PartitionPoint(s, i) : s[k] < i
         /\ \A k \in PartitionPoint(s, i) + 1 .. Len(s) : s[k] >= i
<1> DEFINE Splits(p, m) == /\ \A k \in 1 .. p : s[k] < i
                           /\ \A k \in p + 1 .. m : s[k] >= i
           T == {m \in Nat : m <= Len(s) => \E p \in 0 .. m : Splits(p, m)}
<1>1. 0 \in T
  <2>1. Splits(0, 0)
    OBVIOUS
  <2> QED BY <2>1
<1>2. ASSUME NEW m \in Nat, m \in T PROVE m + 1 \in T
  <2> SUFFICES ASSUME m + 1 <= Len(s) PROVE \E p \in 0 .. m + 1 : Splits(p, m + 1)
    OBVIOUS
  <2>1. PICK p \in 0 .. m : Splits(p, m)
    BY <1>2
  <2>2. CASE s[m + 1] < i
    <3>1. ASSUME NEW k \in 1 .. m + 1 PROVE s[k] < i
      BY <2>2 DEF Increasing
    <3> QED BY <3>1
  <2>3. CASE s[m + 1] >= i
    <3>1. p \in 0 .. m + 1
      OBVIOUS
    <3>2. ASSUME NEW k \in p + 1 .. m + 1 PROVE s[k] >= i
      <4>1. k = m + 1 \/ k \in p + 1 .. m
        OBVIOUS
      <4> QED BY <2>1, <2>3, <4>1
    <3> QED BY <2>1, <3>1, <3>2
  <2>4. s[m + 1] \in Int
    OBVIOUS
  <2> QED BY <2>2, <2>3, <2>4
<1>3. Nat \subseteq T
  <2> HIDE DEF T
  <2> QED BY <1>1, <1>2, SetInduction
<1>4. PICK p \in 0 .. Len(s) : Splits(p, Len(s))
  <2>1. Len(s) \in Nat
    OBVIOUS
  <2>2. Len(s) \in T
    BY <1>3, <2>1
  <2> QED BY <2>1, <2>2
<1> QED BY <1>4 DEF PartitionPoint

\* n indices from i on are put into s after the first p, to give t, and those
\* not below i are moved up.
OpensAt(s, t, p, i, n) ==
  /\ p \in 0 .. Len(s)
  /\ Len(t) = Len(s) + n
  /\ \A k \in 1 .. p : s[k] < i /\ t[k] = s[k]
  /\ \A k \in 1 .. n : t[p + k] = i + k - 1
  /\ \A k \in p + 1 .. Len(s) : s[k] >= i /\ t[n + k] = s[k] + n

\* A list that is opened stays sorted, and its members are opened so.
LEMMA Opening ==
  ASSUME NEW s \in Seq(Int), NEW t \in Seq(Int), Increasing(s),
         NEW p, NEW i \in Int, NEW n \in Nat, OpensAt(s, t, p, i, n)
  PROVE  Increasing(t) /\ Members(t) = Opened(Members(s), i, n)
<1> USE DEF OpensAt
<1>0. /\ Len(s) \in Nat /\ p \in Nat /\ p <= Len(s) /\ Len(t) = Len(s) + n
      /\ DOMAIN s = 1 .. Len(s) /\ DOMAIN t = 1 .. Len(s) + n
  OBVIOUS
<1>a. \A k \in 1 .. p : k \in 1 .. Len(s) /\ s[k] < i /\ t[k] = s[k]
  OBVIOUS
<1>b. \A k \in 1 .. n : t[p + k] = i + k - 1
  OBVIOUS
<1>c. \A k \in p + 1 .. Len(s) : k \in 1 .. Len(s) /\ s[k] >= i /\ t[n + k] = s[k] + n
  OBVIOUS
<1> HIDE DEF OpensAt
<1>1. ASSUME NEW j \in 1 .. Len(t)
      PROVE  \/ j <= p /\ j \in 1 .. p /\ t[j] = s[j] /\ s[j] < i
             \/ p < j /\ j <= p + n /\ t[j] = i + (j - p) - 1
             \/ p + n < j /\ j - n \in p + 1 .. Len(s) /\ t[j] = s[j - n] + n /\ s[j - n] >= i
  <2>1. CASE j <= p
    BY <1>0, <1>a, <2>1
  <2>2. CASE p < j /\ j <= p + n
    <3>1. j - p \in 1 .. n /\ p + (j - p) = j
      BY <1>0, <2>2
    <3> QED BY <1>b, <2>2, <3>1
  <2>3. CASE p + n < j
    <3>1. j - n \in p + 1 .. Len(s) /\ n + (j - n) = j
      BY <1>0, <2>3
    <3> QED BY <1>c, <2>3, <3>1
  <2> QED BY <1>0, <2>1, <2>2, <2>3
<1>2. \A k \in 1 .. Len(s) : s[k] \in Int
  OBVIOUS
<1>3. ASSUME NEW j \in 1 .. Len(t), NEW k \in 1 .. Len(t), j < k PROVE t[j] < t[k]
  <2>0. /\ j \in Int /\ k \in Int /\ Len(t) \in Nat
        /\ \A a, b \in 1 .. Len(s) : a < b => s[a] < s[b]
    <3>1. j \in Int /\ k \in Int /\ Len(t) \in Nat
      OBVIOUS
    <3>2. \A a, b \in DOMAIN s : a < b => s[a] < s[b]
      BY DEF Increasing
    <3> QED BY <1>0, <3>1, <3>2
  <2>1. CASE k <= p
    <3>1. j \in 1 .. p /\ t[j] = s[j] /\ k \in 1 .. p /\ t[k] = s[k]
      BY <1>0, <1>3, <1>a, <2>0, <2>1
    <3>2. j \in 1 .. Len(s) /\ k \in 1 .. Len(s)
      BY <1>0, <3>1
    <3> QED BY <1>3, <2>0, <3>1, <3>2
  <2>2. CASE p < k /\ k <= p + n
    <3>1. t[k] = i + (k - p) - 1
      BY <1>0, <1>1, <2>0, <2>2
    <3>2. CASE j <= p
      <4>1. t[j] \in Int /\ t[j] < i
        BY <1>0, <1>1, <1>2, <3>2
      <4> QED BY <1>0, <2>0, <2>2, <3>1, <4>1
    <3>3. CASE p < j
      <4>1. j <= p + n
        BY <1>0, <1>3, <2>0, <2>2
      <4>2. t[j] = i + (j - p) - 1
        BY <1>0, <1>1, <2>0, <3>3, <4>1
      <4> QED BY <1>0, <1>3, <2>0, <3>1, <4>2
    <3> QED BY <1>0, <2>0, <3>2, <3>3
  <2>3. CASE p + n < k
    <3>1. k - n \in p + 1 .. Len(s) /\ t[k] = s[k - n] + n /\ s[k - n] >= i
      BY <1>0, <1>1, <2>3
    <3>2. CASE j <= p + n
      <4>1. t[j] \in Int /\ t[j] < i + n
        <5>1. CASE j <= p
          <6>1. j \in 1 .. Len(s) /\ t[j] = s[j] /\ s[j] < i
            BY <1>a, <2>0, <5>1
          <6> QED BY <1>2, <6>1
        <5>2. CASE p < j
          <6>1. t[j] = i + (j - p) - 1
            BY <1>0, <1>1, <2>0, <3>2, <5>2
          <6> QED BY <1>0, <2>0, <3>2, <6>1
        <5> QED BY <1>0, <2>0, <5>1, <5>2
      <4>2. s[k - n] \in Int
        BY <1>0, <1>2, <3>1
      <4> QED BY <3>1, <4>1, <4>2
    <3>3. CASE p + n < j
      <4>1. j - n \in p + 1 .. Len(s) /\ t[j] = s[j - n] + n
        BY <1>0, <1>1, <3>3
      <4>2. s[j - n] < s[k - n]
        <5>1. j - n \in 1 .. Len(s) /\ k - n \in 1 .. Len(s) /\ j - n < k - n
          BY <1>0, <1>3, <2>0, <3>1, <4>1
        <5> QED BY <2>0, <5>1
      <4> QED BY <1>0, <1>2, <3>1, <4>1, <4>2
    <3> QED BY <1>0, <3>2, <3>3
  <2> QED BY <1>0, <2>1, <2>2, <2>3
<1>4. Members(t) \subseteq Opened(Members(s), i, n)
  <2> SUFFICES ASSUME NEW j \in 1 .. Len(t) PROVE t[j] \in Opened(Members(s), i, n)
    BY <1>0 DEF Members
  <2>1. CASE j <= p
    <3>1. j \in 1 .. p
      BY <1>0, <2>1
    <3>2. j \in 1 .. Len(s) /\ t[j] = s[j] /\ s[j] < i
      BY <1>a, <3>1
    <3> QED BY <1>0, <3>2 DEF Members, Opened
  <2>2. CASE p < j /\ j <= p + n
    BY <1>0, <1>1, <2>2 DEF Opened
  <2>3. CASE p + n < j
    <3>1. j - n \in p + 1 .. Len(s) /\ t[j] = s[j - n] + n /\ s[j - n] >= i
      BY <1>0, <1>1, <2>3
    <3>2. s[j - n] \in Members(s)
      BY <1>0, <3>1 DEF Members
    <3> QED BY <3>1, <3>2 DEF Opened
  <2> QED BY <1>0, <2>1, <2>2, <2>3
<1>5. Opened(Members(s), i, n) \subseteq Members(t)
  <2>1. ASSUME NEW m \in Members(s), m < i PROVE m \in Members(t)
    <3>1. PICK k \in 1 .. Len(s) : m = s[k]
      BY <1>0 DEF Members
    <3>2. k \in 1 .. p
      <4>1. ~(k \in p + 1 .. Len(s))
        BY <1>2, <1>c, <2>1, <3>1
      <4> QED BY <1>0, <4>1
    <3>3. k \in 1 .. Len(t) /\ t[k] = m
      BY <1>0, <1>a, <3>1, <3>2
    <3> QED BY <1>0, <3>3 DEF Members
  <2>2. ASSUME NEW m \in i .. i + n - 1 PROVE m \in Members(t)
    <3>1. m - i + 1 \in 1 .. n /\ m = i + (m - i + 1) - 1
      OBVIOUS
    <3>2. t[p + (m - i + 1)] = m
      BY <1>b, <3>1
    <3>3. p + (m - i + 1) \in 1 .. Len(t)
      BY <1>0, <3>1
    <3> QED BY <1>0, <3>2, <3>3 DEF Members
  <2>3. ASSUME NEW m \in Members(s), m >= i PROVE m + n \in Members(t)
    <3>1. PICK k \in 1 .. Len(s) : m = s[k]
      BY <1>0 DEF Members
    <3>2. k \in p + 1 .. Len(s)
      <4>1. ~(k \in 1 .. p)
        BY <1>2, <1>a, <2>3, <3>1
      <4> QED BY <1>0, <4>1
    <3>3. n + k \in 1 .. Len(t) /\ t[n + k] = m + n
      BY <1>0, <1>c, <3>1, <3>2
    <3> QED BY <1>0, <3>3 DEF Members
  <2> QED BY <2>1, <2>2, <2>3 DEF Opened
<1>6. Increasing(t)
  BY <1>0, <1>3 DEF Increasing
<1> QED BY <1>4, <1>5, <1>6

\* i is taken from s, where it comes after the first p if it is there (hit is
\* 1 then), to give t, and those above it are moved down.
ClosesAt(s, t, p, i, hit) ==
  /\ p \in 0 .. Len(s) /\ p + hit <= Len(s)
  /\ Len(t) = Len(s) - hit
  /\ \A k \in 1 .. p : s[k] < i /\ t[k] = s[k]
  /\ hit = 1 => s[p + 1] = i
  /\ \A k \in p + hit + 1 .. Len(s) : s[k] > i /\ t[k - hit] = s[k] - 1

\* A list that is closed stays sorted, and its members are closed so.
LEMMA Closing ==
  ASSUME NEW s \in Seq(Int), NEW t \in Seq(Int), Increasing(s),
         NEW p, NEW i \in Int, NEW hit \in {0, 1}, ClosesAt(s, t, p, i, hit)
  PROVE  Increasing(t) /\ Members(t) = Closed(Members(s), i)
<1> USE DEF ClosesAt
<1>0. /\ Len(s) \in Nat /\ p \in Nat /\ hit \in Nat /\ p <= Len(s) /\ Len(t) \in Nat
      /\ DOMAIN s = 1 .. Len(s) /\ DOMAIN t = 1 .. Len(s) - hit
  OBVIOUS
<1>a. \A k \in 1 .. p : k \in 1 .. Len(s)
  OBVIOUS
<1>1. ASSUME NEW j \in 1 .. Len(t)
      PROVE  \/ j <= p /\ j \in 1 .. p /\ t[j] = s[j] /\ s[j] < i
             \/ /\ p < j /\ j + hit \in p + hit + 1 .. Len(s)
                /\ t[j] = s[j + hit] - 1 /\ s[j + hit] > i
  <2>1. CASE j <= p
    BY <1>0, <2>1
  <2>2. CASE p < j
    <3>1. j + hit \in p + hit + 1 .. Len(s) /\ (j + hit) - hit = j
      BY <1>0, <2>2
    <3> QED BY <2>2, <3>1
  <2> QED BY <1>0, <2>1, <2>2
<1>2. \A k \in 1 .. Len(s) : s[k] \in Int
  OBVIOUS
<1>3. ASSUME NEW j \in 1 .. Len(t), NEW k \in 1 .. Len(t), j < k PROVE t[j] < t[k]
  <2>0. /\ j \in Int /\ k \in Int /\ Len(t) \in Nat
        /\ \A a, b \in 1 .. Len(s) : a < b => s[a] < s[b]
    <3>1. j \in Int /\ k \in Int /\ Len(t) \in Nat
      OBVIOUS
    <3>2. \A a, b \in DOMAIN s : a < b => s[a] < s[b]
      BY DEF Increasing
    <3> QED BY <1>0, <3>1, <3>2
  <2>1. CASE k <= p
    <3>1. j \in 1 .. p /\ k \in 1 .. p
      BY <1>3, <2>0, <2>1, <1>0
    <3>2. t[j] = s[j] /\ t[k] = s[k]
      BY <3>1
    <3>3. j \in 1 .. Len(s) /\ k \in 1 .. Len(s)
      BY <1>a, <3>1
    <3> QED BY <1>3, <2>0, <3>2, <3>3
  <2>2. CASE p < k
    <3>1. k + hit \in 1 .. Len(s) /\ t[k] = s[k + hit] - 1 /\ s[k + hit] > i
      BY <1>0, <1>1, <2>2
    <3>2. CASE j <= p
      <4>1. t[j] \in Int /\ t[j] < i
        <5>1. j \in 1 .. p /\ j \in 1 .. Len(s)
          BY <1>0, <2>0, <3>2
        <5> QED BY <1>2, <5>1
      <4>2. s[k + hit] \in Int
        BY <1>2, <3>1
      <4> QED BY <3>1, <4>1, <4>2
    <3>3. CASE p < j
      <4>1. j + hit \in 1 .. Len(s) /\ t[j] = s[j + hit] - 1
        BY <1>0, <1>1, <3>3
      <4>2. s[j + hit] < s[k + hit]
        <5>1. j + hit < k + hit
          BY <1>0, <1>3, <2>0
        <5> QED BY <2>0, <3>1, <4>1, <5>1
      <4>3. s[j + hit] \in Int /\ s[k + hit] \in Int
        BY <1>2, <3>1, <4>1
      <4> QED BY <3>1, <4>1, <4>2, <4>3
    <3> QED BY <1>0, <2>0, <3>2, <3>3
  <2> QED BY <1>0, <2>0, <2>1, <2>2
<1>4. Members(t) \subseteq Closed(Members(s), i)
  <2> SUFFICES ASSUME NEW j \in 1 .. Len(t) PROVE t[j] \in Closed(Members(s), i)
    BY <1>0 DEF Members
  <2>1. CASE j <= p
    <3>1. j \in 1 .. p
      BY <1>0, <2>1
    <3>2. j \in 1 .. Len(s) /\ t[j] = s[j] /\ s[j] < i
      BY <1>a, <3>1
    <3> QED BY <1>0, <3>2 DEF Members, Closed
  <2>2. CASE p < j
    <3>1. j + hit \in 1 .. Len(s) /\ t[j] = s[j + hit] - 1 /\ s[j + hit] > i
      BY <1>0, <1>1, <2>2
    <3>2. s[j + hit] \in Members(s)
      BY <1>0, <3>1 DEF Members
    <3> QED BY <3>1, <3>2 DEF Closed
  <2> QED BY <1>0, <2>1, <2>2
<1>5. Closed(Members(s), i) \subseteq Members(t)
  <2>0. ASSUME NEW k \in 1 .. Len(s)
        PROVE  k \in 1 .. p \/ (hit = 1 /\ k = p + 1) \/ k \in p + hit + 1 .. Len(s)
    BY <1>0
  <2>1. ASSUME NEW m \in Members(s), m < i PROVE m \in Members(t)
    <3>1. PICK k \in 1 .. Len(s) : m = s[k]
      BY <1>0 DEF Members
    <3>2. k \in 1 .. p
      BY <1>0, <1>2, <2>0, <2>1, <3>1
    <3>3. k \in 1 .. Len(t) /\ t[k] = m
      BY <1>0, <3>1, <3>2
    <3> QED BY <1>0, <3>3 DEF Members
  <2>2. ASSUME NEW m \in Members(s), m > i PROVE m - 1 \in Members(t)
    <3>1. PICK k \in 1 .. Len(s) : m = s[k]
      BY <1>0 DEF Members
    <3>2. k \in p + hit + 1 .. Len(s)
      <4>1. s[k] \in Int /\ s[k] > i
        BY <1>2, <2>2, <3>1
      <4>2. k \notin 1 .. p
        BY <4>1
      <4>3. ~(hit = 1 /\ k = p + 1)
        BY <4>1
      <4> QED BY <2>0, <4>2, <4>3
    <3>3. k - hit \in 1 .. Len(t) /\ t[k - hit] = m - 1
      BY <1>0, <3>1, <3>2
    <3> QED BY <1>0, <3>3 DEF Members
  <2> QED BY <2>1, <2>2 DEF Closed
<1>6. Increasing(t)
  BY <1>0, <1>3 DEF Increasing
<1> QED BY <1>4, <1>5, <1>6

-----------------------------------------------------------------------------
(* The tracking operators open and close indices so.                       *)

\* The members from a position on, moved.
LEMMA ShiftFromIs ==
  ASSUME NEW s \in Seq(Int), NEW from \in Int, NEW by \in Int
  PROVE  /\ ShiftFrom(s, from, by) \in Seq(Int)
         /\ Len(ShiftFrom(s, from, by)) = Len(s)
         /\ \A k \in 1 .. Len(s) :
              ShiftFrom(s, from, by)[k] = IF k >= from THEN s[k] + by ELSE s[k]
  BY DEF ShiftFrom

\* n consecutive indices.
LEMMA RunIs ==
  ASSUME NEW first \in Int, NEW n \in Nat
  PROVE  /\ Run(first, n) \in Seq(Int)
         /\ Len(Run(first, n)) = n
         /\ \A k \in 1 .. n : Run(first, n)[k] = first + k - 1
  BY DEF Run

\* track_insert, called for each of n nodes inserted at i.
LEMMA TrackInsertIs ==
  ASSUME NEW s \in Seq(Int), Increasing(s), NEW i \in Int, NEW n \in Nat
  PROVE  /\ TrackInsert(s, i, n) \in Seq(Int)
         /\ Increasing(TrackInsert(s, i, n))
         /\ Members(TrackInsert(s, i, n)) = Opened(Members(s), i, n)
<1> DEFINE p == PartitionPoint(s, i)
           q == ShiftFrom(s, p + 1, n)
           t == Splice(q, p, Run(i, n))
<1>1. /\ p \in 0 .. Len(s)
      /\ \A k \in 1 .. p : s[k] < i
      /\ \A k \in p + 1 .. Len(s) : s[k] >= i
  BY PartitionPointIs
<1>2. t = TrackInsert(s, i, n)
  BY DEF TrackInsert
<1> HIDE DEF p
<1>3. /\ q \in Seq(Int) /\ Len(q) = Len(s)
      /\ \A k \in 1 .. Len(s) : q[k] = IF k >= p + 1 THEN s[k] + n ELSE s[k]
  <2>1. p + 1 \in Int
    BY <1>1
  <2> QED BY <2>1, ShiftFromIs
<1> HIDE DEF q
<1>4. /\ t \in Seq(Int) /\ Len(t) = Len(q) + n
      /\ \A k \in 1 .. p : t[k] = q[k]
      /\ \A k \in 1 .. n : t[p + k] = i + k - 1
      /\ \A k \in p + 1 .. Len(q) : t[n + k] = q[k]
  <2>1. p \in 0 .. Len(q)
    BY <1>1, <1>3
  <2>2. Run(i, n) \in Seq(Int) /\ Len(Run(i, n)) = n /\ \A k \in 1 .. n : Run(i, n)[k] = i + k - 1
    BY RunIs
  <2> DEFINE r == Run(i, n)
  <2>3. t = Splice(q, p, r)
    OBVIOUS
  <2> HIDE DEF r, t
  <2>4. /\ Splice(q, p, r) \in Seq(Int)
        /\ Len(Splice(q, p, r)) = Len(q) + Len(r)
        /\ \A k \in 1 .. p : Splice(q, p, r)[k] = q[k]
        /\ \A k \in 1 .. Len(r) : Splice(q, p, r)[p + k] = r[k]
        /\ \A k \in p + 1 .. Len(q) : Splice(q, p, r)[Len(r) + k] = q[k]
    <3>1. q \in Seq(Int) /\ r \in Seq(Int)
      BY <1>3, <2>2 DEF r
    <3> QED BY <2>1, <3>1, SpliceIs
  <2>5. Len(r) = n /\ \A k \in 1 .. n : r[k] = i + k - 1
    BY <2>2 DEF r
  <2> QED BY <2>3, <2>4, <2>5
<1> HIDE DEF t
<1>5. \A k \in 1 .. p : s[k] < i /\ t[k] = s[k]
  <2> SUFFICES ASSUME NEW k \in 1 .. p PROVE s[k] < i /\ t[k] = s[k]
    OBVIOUS
  <2>1. k \in 1 .. Len(s) /\ ~(k >= p + 1)
    BY <1>1
  <2> QED BY <1>1, <1>3, <1>4, <2>1
<1>6. \A k \in p + 1 .. Len(s) : s[k] >= i /\ t[n + k] = s[k] + n
  <2> SUFFICES ASSUME NEW k \in p + 1 .. Len(s) PROVE s[k] >= i /\ t[n + k] = s[k] + n
    OBVIOUS
  <2>1. k \in 1 .. Len(s) /\ k >= p + 1
    BY <1>1
  <2> QED BY <1>1, <1>3, <1>4, <2>1
<1>7. Increasing(t) /\ Members(t) = Opened(Members(s), i, n)
  <2>1. OpensAt(s, t, p, i, n)
    BY <1>1, <1>3, <1>4, <1>5, <1>6 DEF OpensAt
  <2>2. t \in Seq(Int)
    BY <1>4
  <2> QED BY <2>1, <2>2, Opening
<1> QED BY <1>2, <1>4, <1>7

\* n new indices, from len on, after all those of s.
LEMMA TrackedBack ==
  ASSUME NEW s \in Seq(Int), Increasing(s), NEW len \in Nat, NEW n \in Nat,
         Members(s) \subseteq 0 .. len - 1
  PROVE  /\ s \o Run(len, n) \in Seq(Int)
         /\ Increasing(s \o Run(len, n))
         /\ Members(s \o Run(len, n)) = Opened(Members(s), len, n)
<1> DEFINE t == s \o Run(len, n)
<1>1. Run(len, n) \in Seq(Int) /\ Len(Run(len, n)) = n /\ \A k \in 1 .. n : Run(len, n)[k] = len + k - 1
  BY RunIs
<1>2. /\ t \in Seq(Int) /\ Len(t) = Len(s) + n
      /\ \A k \in 1 .. Len(s) : t[k] = s[k]
      /\ \A k \in 1 .. n : t[Len(s) + k] = len + k - 1
  <2> DEFINE r == Run(len, n)
  <2> HIDE DEF r
  <2>1. r \in Seq(Int)
    BY <1>1 DEF r
  <2>2. /\ s \o r \in Seq(Int) /\ Len(s \o r) = Len(s) + Len(r)
        /\ \A k \in 1 .. Len(s) : (s \o r)[k] = s[k]
        /\ \A k \in 1 .. Len(r) : (s \o r)[Len(s) + k] = r[k]
    BY <2>1
  <2> QED BY <1>1, <2>2 DEF r
<1>3. \A k \in 1 .. Len(s) : s[k] < len
  BY DEF Members
<1> HIDE DEF t
<1>4. Len(s) \in 0 .. Len(s) /\ len \in Int
  OBVIOUS
<1>5. \A k \in Len(s) + 1 .. Len(s) : s[k] >= len /\ t[n + k] = s[k] + n
  BY <1>4
<1>6. OpensAt(s, t, Len(s), len, n)
  BY <1>2, <1>3, <1>4, <1>5 DEF OpensAt
<1>7. Increasing(t) /\ Members(t) = Opened(Members(s), len, n)
  BY <1>2, <1>6, Opening
<1> QED BY <1>2, <1>7 DEF t

\* n new indices, from 0 on, before all those of s, which move up.
LEMMA TrackedFront ==
  ASSUME NEW s \in Seq(Int), Increasing(s), NEW n \in Nat, Members(s) \subseteq Nat
  PROVE  /\ Run(0, n) \o ShiftFrom(s, 1, n) \in Seq(Int)
         /\ Increasing(Run(0, n) \o ShiftFrom(s, 1, n))
         /\ Members(Run(0, n) \o ShiftFrom(s, 1, n)) = Opened(Members(s), 0, n)
<1> DEFINE q == ShiftFrom(s, 1, n)
           t == Run(0, n) \o q
<1>1. Run(0, n) \in Seq(Int) /\ Len(Run(0, n)) = n /\ \A k \in 1 .. n : Run(0, n)[k] = 0 + k - 1
  BY RunIs
<1>2. /\ q \in Seq(Int) /\ Len(q) = Len(s)
      /\ \A k \in 1 .. Len(s) : q[k] = IF k >= 1 THEN s[k] + n ELSE s[k]
  BY ShiftFromIs
<1> HIDE DEF q
<1>3. /\ t \in Seq(Int) /\ Len(t) = Len(s) + n
      /\ \A k \in 1 .. n : t[k] = 0 + k - 1
      /\ \A k \in 1 .. Len(s) : t[n + k] = q[k]
  <2> DEFINE r == Run(0, n)
  <2> HIDE DEF r
  <2>1. r \in Seq(Int) /\ q \in Seq(Int)
    BY <1>1, <1>2 DEF r
  <2>2. /\ r \o q \in Seq(Int) /\ Len(r \o q) = Len(r) + Len(q)
        /\ \A k \in 1 .. Len(r) : (r \o q)[k] = r[k]
        /\ \A k \in 1 .. Len(q) : (r \o q)[Len(r) + k] = q[k]
    BY <2>1
  <2>3. Len(s) \in Nat
    OBVIOUS
  <2>4. Len(r) = n /\ \A k \in 1 .. n : r[k] = 0 + k - 1
    BY <1>1 DEF r
  <2>5. t = r \o q
    BY DEF r
  <2> HIDE DEF t
  <2>6. t \in Seq(Int) /\ Len(t) = Len(s) + n
    BY <1>2, <2>2, <2>3, <2>4, <2>5
  <2>7. \A k \in 1 .. n : t[k] = 0 + k - 1
    BY <2>2, <2>4, <2>5
  <2>8. \A k \in 1 .. Len(s) : t[n + k] = q[k]
    BY <1>2, <2>2, <2>4, <2>5
  <2> QED BY <2>6, <2>7, <2>8
<1>4. \A k \in 1 .. Len(s) : s[k] >= 0
  BY DEF Members
<1> HIDE DEF t
<1>5. \A k \in 1 .. n : t[0 + k] = 0 + k - 1
  BY <1>3
<1>6. \A k \in 0 + 1 .. Len(s) : s[k] >= 0 /\ t[n + k] = s[k] + n
  BY <1>2, <1>3, <1>4
<1>7. 0 \in 0 .. Len(s) /\ \A k \in 1 .. 0 : s[k] < 0 /\ t[k] = s[k]
  OBVIOUS
<1>8. OpensAt(s, t, 0, 0, n)
  BY <1>3, <1>5, <1>6, <1>7 DEF OpensAt
<1>9. Increasing(t) /\ Members(t) = Opened(Members(s), 0, n)
  BY <1>3, <1>8, Opening
<1> QED BY <1>3, <1>9 DEF t, q

\* track_remove.
LEMMA TrackRemoveIs ==
  ASSUME NEW s \in Seq(Int), Increasing(s), NEW i \in Int
  PROVE  /\ TrackRemove(s, i) \in Seq(Int)
         /\ Increasing(TrackRemove(s, i))
         /\ Members(TrackRemove(s, i)) = Closed(Members(s), i)
<1> DEFINE p == PartitionPoint(s, i)
           found == p < Len(s) /\ s[p + 1] = i
           q == IF found THEN RemoveAt(s, p + 1) ELSE s
           t == ShiftFrom(q, p + 1, -1)
           hit == IF found THEN 1 ELSE 0
<1>1. t = TrackRemove(s, i)
  BY DEF TrackRemove
<1>2. /\ p \in 0 .. Len(s)
      /\ \A k \in 1 .. p : s[k] < i
      /\ \A k \in p + 1 .. Len(s) : s[k] >= i
  BY PartitionPointIs
<1> HIDE DEF p
<1>3. Len(s) \in Nat /\ p \in Nat /\ p <= Len(s)
  BY <1>2
<1>4. hit \in {0, 1} /\ p + hit <= Len(s) /\ (hit = 1 => s[p + 1] = i)
  BY <1>3
<1>5. /\ q \in Seq(Int) /\ Len(q) = Len(s) - hit
      /\ \A k \in 1 .. p : q[k] = s[k]
      /\ \A k \in p + hit + 1 .. Len(s) : q[k - hit] = s[k]
  <2>1. CASE found
    <3>1. p + 1 \in 1 .. Len(s)
      BY <1>3, <2>1
    <3>2. /\ RemoveAt(s, p + 1) \in Seq(Int)
          /\ Len(RemoveAt(s, p + 1)) = Len(s) - 1
          /\ \A k \in 1 .. (p + 1) - 1 : RemoveAt(s, p + 1)[k] = s[k]
          /\ \A k \in (p + 1) + 1 .. Len(s) : RemoveAt(s, p + 1)[k - 1] = s[k]
      BY <3>1, RemoveAtIs
    <3>3. hit = 1 /\ q = RemoveAt(s, p + 1)
      BY <2>1
    <3>4. (p + 1) - 1 = p
      BY <1>3
    <3> HIDE DEF q, hit
    <3> QED BY <3>2, <3>3, <3>4
  <2>2. CASE ~found
    <3>1. hit = 0 /\ q = s
      BY <2>2
    <3>2. \A k \in p + 1 .. Len(s) : k - 0 = k
      BY <1>3
    <3> HIDE DEF q, hit
    <3> QED BY <1>3, <3>1, <3>2
  <2> QED BY <2>1, <2>2
<1>6. \A k \in p + hit + 1 .. Len(s) : s[k] > i
  <2> SUFFICES ASSUME NEW k \in p + hit + 1 .. Len(s) PROVE s[k] > i
    OBVIOUS
  <2>1. /\ k \in p + 1 .. Len(s) /\ k \in 1 .. Len(s) /\ s[k] \in Int
        /\ p + 1 \in p + 1 .. Len(s) /\ p + 1 \in 1 .. Len(s) /\ s[p + 1] \in Int
    BY <1>3, <1>4
  <2>2. s[k] >= i /\ s[p + 1] >= i
    BY <1>2, <2>1
  <2>3. CASE found
    <3>1. p + 1 < k
      BY <1>3, <2>3
    <3>2. s[p + 1] < s[k]
      BY <2>1, <3>1 DEF Increasing
    <3> QED BY <2>1, <2>2, <3>2
  <2>4. CASE ~found
    <3>1. s[p + 1] # i
      BY <1>3, <2>1, <2>4
    <3>2. CASE k = p + 1
      BY <2>1, <2>2, <3>1, <3>2
    <3>3. CASE k # p + 1
      <4>1. p + 1 < k
        BY <1>3, <2>1, <3>3
      <4>2. s[p + 1] < s[k]
        BY <2>1, <4>1 DEF Increasing
      <4> QED BY <2>1, <2>2, <4>2
    <3> QED BY <3>2, <3>3
  <2> QED BY <2>3, <2>4
<1> HIDE DEF q, hit
<1>7. /\ t \in Seq(Int) /\ Len(t) = Len(q)
      /\ \A k \in 1 .. Len(q) : t[k] = IF k >= p + 1 THEN q[k] + (-1) ELSE q[k]
  <2>1. p + 1 \in Int /\ -1 \in Int
    BY <1>3
  <2> QED BY <1>5, <2>1, ShiftFromIs
<1> HIDE DEF t
<1>8. ClosesAt(s, t, p, i, hit)
  <2>1. ASSUME NEW k \in 1 .. p PROVE s[k] < i /\ t[k] = s[k]
    <3>1. k \in 1 .. Len(q) /\ ~(k >= p + 1)
      BY <1>3, <1>4, <1>5
    <3> QED BY <1>2, <1>5, <1>7, <3>1
  <2>2. ASSUME NEW k \in p + hit + 1 .. Len(s) PROVE s[k] > i /\ t[k - hit] = s[k] - 1
    <3>1. k - hit \in 1 .. Len(q) /\ k - hit >= p + 1
      BY <1>3, <1>4, <1>5
    <3>2. t[k - hit] = q[k - hit] + (-1) /\ q[k - hit] = s[k]
      BY <1>5, <1>7, <3>1
    <3>3. s[k] \in Int
      BY <1>3, <1>4
    <3> QED BY <1>6, <3>2, <3>3
  <2> QED BY <1>2, <1>4, <1>5, <1>7, <2>1, <2>2 DEF ClosesAt
<1>9. Increasing(t) /\ Members(t) = Closed(Members(s), i)
  BY <1>4, <1>7, <1>8, Closing
<1> QED BY <1>1, <1>7, <1>9

\* track_pop_back, where len is the index of the node that is gone.
LEMMA TrackPopBackIs ==
  ASSUME NEW s \in Seq(Int), Increasing(s), NEW len \in Nat, Members(s) \subseteq 0 .. len
  PROVE  /\ TrackPopBack(s, len) \in Seq(Int)
         /\ Increasing(TrackPopBack(s, len))
         /\ Members(TrackPopBack(s, len)) = Closed(Members(s), len)
<1> DEFINE t == TrackPopBack(s, len)
<1>1. Len(s) \in Nat /\ DOMAIN s = 1 .. Len(s)
  OBVIOUS
<1>2. \A k \in 1 .. Len(s) : s[k] \in Int /\ s[k] <= len
  BY <1>1 DEF Members
<1>3. CASE s # <<>> /\ s[Len(s)] = len
  <2>1. Len(s) \in 1 .. Len(s) /\ Len(s) - 1 \in 0 .. Len(s)
    BY <1>1, <1>3
  <2>2. t = SubSeq(s, 1, Len(s) - 1)
    BY <1>3 DEF TrackPopBack
  <2> HIDE DEF t
  <2>9. /\ SubSeq(s, 1, Len(s) - 1) \in Seq(Int)
        /\ Len(SubSeq(s, 1, Len(s) - 1)) = Len(s) - 1
        /\ \A k \in 1 .. Len(s) - 1 : SubSeq(s, 1, Len(s) - 1)[k] = s[k]
    BY <2>1, PartsAre
  <2>3. /\ t \in Seq(Int) /\ Len(t) = Len(s) - 1
        /\ \A k \in 1 .. Len(s) - 1 : t[k] = s[k]
    BY <2>2, <2>9
  <2>4. ASSUME NEW k \in 1 .. Len(s) - 1 PROVE s[k] < len
    <3>1. k \in 1 .. Len(s) /\ k < Len(s)
      BY <1>1
    <3>2. s[k] < s[Len(s)]
      BY <1>1, <2>1, <3>1 DEF Increasing
    <3> QED BY <1>3, <3>2
  <2>5. ASSUME NEW k \in (Len(s) - 1) + 1 + 1 .. Len(s) PROVE FALSE
    BY <1>1
  <2>6. (Len(s) - 1) + 1 = Len(s)
    BY <1>1
  <2>7. ClosesAt(s, t, Len(s) - 1, len, 1)
    BY <1>1, <1>3, <2>1, <2>3, <2>4, <2>5, <2>6 DEF ClosesAt
  <2>8. Increasing(t) /\ Members(t) = Closed(Members(s), len)
    BY <2>3, <2>7, Closing
  <2> QED BY <2>3, <2>8 DEF t
<1>4. CASE ~(s # <<>> /\ s[Len(s)] = len)
  <2>1. t = s
    BY <1>4 DEF TrackPopBack
  <2> HIDE DEF t
  <2>2. ASSUME NEW k \in 1 .. Len(s) PROVE s[k] < len
    <3>1. s # <<>> /\ Len(s) \in 1 .. Len(s)
      BY <1>1
    <3>2. s[Len(s)] < len
      BY <1>2, <1>4, <3>1
    <3>3. CASE k = Len(s)
      BY <3>2, <3>3
    <3>4. CASE k # Len(s)
      <4>1. k < Len(s)
        <5>1. k \in Int /\ Len(s) \in Int /\ k <= Len(s)
          BY ONLY <1>1, k \in 1 .. Len(s)
        <5> QED BY ONLY <5>1, <3>4
      <4>2. s[k] < s[Len(s)]
        BY <1>1, <3>1, <4>1 DEF Increasing
      <4> QED BY <1>2, <3>1, <3>2, <4>2
    <3> QED BY <3>3, <3>4
  <2>3. ASSUME NEW k \in Len(s) + 0 + 1 .. Len(s) PROVE FALSE
    BY <1>1
  <2>4. ClosesAt(s, s, Len(s), len, 0)
    BY <1>1, <2>2, <2>3 DEF ClosesAt
  <2>5. Increasing(s) /\ Members(s) = Closed(Members(s), len)
    BY <2>4, Closing
  <2> QED BY <2>1, <2>5 DEF t
<1> QED BY <1>3, <1>4

\* track_pop_front.
LEMMA TrackPopFrontIs ==
  ASSUME NEW s \in Seq(Int), Increasing(s), Members(s) \subseteq Nat
  PROVE  /\ TrackPopFront(s) \in Seq(Int)
         /\ Increasing(TrackPopFront(s))
         /\ Members(TrackPopFront(s)) = Closed(Members(s), 0)
<1> DEFINE found == s # <<>> /\ s[1] = 0
           q == IF found THEN Tail(s) ELSE s
           t == ShiftFrom(q, 1, -1)
           hit == IF found THEN 1 ELSE 0
<1>1. t = TrackPopFront(s)
  BY DEF TrackPopFront
<1>2. Len(s) \in Nat /\ DOMAIN s = 1 .. Len(s) /\ (s # <<>> => 1 \in 1 .. Len(s))
  OBVIOUS
<1>3. \A k \in 1 .. Len(s) : s[k] \in Int /\ s[k] >= 0
  BY <1>2 DEF Members
<1>4. hit \in {0, 1} /\ hit <= Len(s) /\ (hit = 1 => s[0 + 1] = 0)
  BY <1>2
<1>5. /\ q \in Seq(Int) /\ Len(q) = Len(s) - hit
      /\ \A k \in 0 + hit + 1 .. Len(s) : q[k - hit] = s[k]
  <2>1. CASE found
    <3>1. /\ Tail(s) \in Seq(Int) /\ Len(Tail(s)) = Len(s) - 1
          /\ \A k \in 1 .. Len(s) - 1 : Tail(s)[k] = s[k + 1]
      BY <2>1
    <3>2. hit = 1 /\ q = Tail(s)
      BY <2>1
    <3> HIDE DEF q, hit
    <3>3. ASSUME NEW k \in 0 + 1 + 1 .. Len(s) PROVE k - 1 \in 1 .. Len(s) - 1 /\ (k - 1) + 1 = k
      BY <1>2
    <3> QED BY <3>1, <3>2, <3>3
  <2>2. CASE ~found
    <3>1. hit = 0 /\ q = s
      BY <2>2
    <3>2. \A k \in 0 + 0 + 1 .. Len(s) : k - 0 = k
      BY <1>2
    <3> HIDE DEF q, hit
    <3> QED BY <1>2, <3>1, <3>2
  <2> QED BY <2>1, <2>2
<1>6. ASSUME NEW k \in 0 + hit + 1 .. Len(s) PROVE s[k] > 0
  <2>1. k \in 1 .. Len(s) /\ 1 \in 1 .. Len(s) /\ s # <<>>
    BY <1>2, <1>4
  <2>2. CASE found
    <3>1. 1 < k
      BY <2>2
    <3>2. s[1] < s[k]
      BY <1>2, <2>1, <3>1 DEF Increasing
    <3> QED BY <2>2, <3>2
  <2>3. CASE ~found
    <3>1. s[1] > 0
      BY <1>3, <2>1, <2>3
    <3>2. CASE k # 1
      <4>1. 1 < k
        BY <2>1, <3>2
      <4>2. s[1] < s[k]
        BY <1>2, <2>1, <4>1 DEF Increasing
      <4> QED BY <1>3, <2>1, <3>1, <4>2
    <3> QED BY <3>1, <3>2
  <2> QED BY <2>2, <2>3
<1> HIDE DEF q, hit
<1>7. /\ t \in Seq(Int) /\ Len(t) = Len(q)
      /\ \A k \in 1 .. Len(q) : t[k] = IF k >= 1 THEN q[k] + (-1) ELSE q[k]
  BY <1>5, ShiftFromIs
<1> HIDE DEF t
<1>8. ClosesAt(s, t, 0, 0, hit)
  <2>1. ASSUME NEW k \in 0 + hit + 1 .. Len(s) PROVE s[k] > 0 /\ t[k - hit] = s[k] - 1
    <3>1. k - hit \in 1 .. Len(q) /\ k - hit >= 1
      BY <1>2, <1>4, <1>5
    <3>2. t[k - hit] = q[k - hit] + (-1) /\ q[k - hit] = s[k]
      BY <1>5, <1>7, <3>1
    <3>3. s[k] \in Int
      BY <1>2, <1>3, <1>4
    <3> QED BY <1>6, <3>2, <3>3
  <2>2. ASSUME NEW k \in 1 .. 0 PROVE FALSE
    OBVIOUS
  <2> QED BY <1>2, <1>4, <1>5, <1>7, <2>1, <2>2 DEF ClosesAt
<1>9. Increasing(t) /\ Members(t) = Closed(Members(s), 0)
  BY <1>4, <1>7, <1>8, Closing
<1> QED BY <1>1, <1>7, <1>9

-----------------------------------------------------------------------------
(* The new nodes of a list of nodes, as nodes are put into or taken from it. *)

FreshIn(c) == {k \in 0 .. Len(c) - 1 : c[k + 1].fresh}

\* A node that was just made, of one of the windows of V.
IsNew(node, V) == node.fresh /\ node.size = Both(0) /\ node.window \in V

\* New nodes, each of another window of V.
AllNew(nodes, V) ==
  /\ \A k \in 1 .. Len(nodes) : IsNew(nodes[k], V)
  /\ \A j, k \in 1 .. Len(nodes) : nodes[j].window = nodes[k].window => j = k

\* d is c with n new nodes after its first i, each of another window of V.
NodesOpened(c, d, i, n, V) ==
  /\ i \in 0 .. Len(c)
  /\ Len(d) = Len(c) + n
  /\ \A k \in 1 .. i : d[k] = c[k]
  /\ \A k \in 1 .. n : IsNew(d[i + k], V)
  /\ \A j, k \in 1 .. n : d[i + j].window = d[i + k].window => j = k
  /\ \A k \in i + 1 .. Len(c) : d[n + k] = c[k]

\* d is c without its node of index i.
NodesClosed(c, d, i) ==
  /\ i \in 0 .. Len(c) - 1
  /\ Len(d) = Len(c) - 1
  /\ \A k \in 1 .. i : d[k] = c[k]
  /\ \A k \in i + 2 .. Len(c) : d[k - 1] = c[k]

\* The new nodes of a list that n new nodes are put into.
LEMMA FreshOpened ==
  ASSUME NEW S, NEW c \in Seq(S), NEW d \in Seq(S), NEW i, NEW n \in Nat,
         NEW V, NodesOpened(c, d, i, n, V)
  PROVE  FreshIn(d) = Opened(FreshIn(c), i, n)
<1> USE DEF NodesOpened, IsNew
<1>1. Len(c) \in Nat /\ i \in Nat /\ i <= Len(c)
  OBVIOUS
<1>2. ASSUME NEW m \in FreshIn(d) PROVE m \in Opened(FreshIn(c), i, n)
  <2>1. m \in 0 .. Len(c) + n - 1 /\ d[m + 1].fresh
    BY DEF FreshIn
  <2>2. CASE m < i
    <3>1. m + 1 \in 1 .. i /\ m \in 0 .. Len(c) - 1
      BY <1>1, <2>1, <2>2
    <3>2. m \in FreshIn(c)
      BY <2>1, <3>1 DEF FreshIn
    <3> QED BY <2>2, <3>2 DEF Opened
  <2>3. CASE i <= m /\ m < i + n
    <3>1. m \in i .. i + n - 1
      BY <1>1, <2>1, <2>3
    <3> QED BY <3>1 DEF Opened
  <2>4. CASE i + n <= m
    <3>1. /\ (m - n) + 1 \in i + 1 .. Len(c) /\ n + ((m - n) + 1) = m + 1
          /\ m - n \in 0 .. Len(c) - 1 /\ m - n >= i /\ (m - n) + n = m
      BY <1>1, <2>1, <2>4
    <3>2. m - n \in FreshIn(c)
      BY <2>1, <3>1 DEF FreshIn
    <3> QED BY <3>1, <3>2 DEF Opened
  <2> QED BY <1>1, <2>1, <2>2, <2>3, <2>4
<1>3. ASSUME NEW m \in FreshIn(c), m < i PROVE m \in FreshIn(d)
  <2>1. m \in 0 .. Len(c) - 1 /\ c[m + 1].fresh
    BY DEF FreshIn
  <2>2. m + 1 \in 1 .. i /\ m \in 0 .. Len(d) - 1
    BY <1>1, <1>3, <2>1
  <2> QED BY <2>1, <2>2 DEF FreshIn
<1>4. ASSUME NEW m \in i .. i + n - 1 PROVE m \in FreshIn(d)
  <2>1. (m - i) + 1 \in 1 .. n /\ i + ((m - i) + 1) = m + 1 /\ m \in 0 .. Len(d) - 1
    BY <1>1
  <2>2. d[m + 1].fresh
    BY <2>1
  <2> QED BY <2>1, <2>2 DEF FreshIn
<1>5. ASSUME NEW m \in FreshIn(c), m >= i PROVE m + n \in FreshIn(d)
  <2>1. m \in 0 .. Len(c) - 1 /\ c[m + 1].fresh
    BY DEF FreshIn
  <2>2. m + 1 \in i + 1 .. Len(c) /\ n + (m + 1) = (m + n) + 1 /\ m + n \in 0 .. Len(d) - 1
    BY <1>1, <1>5, <2>1
  <2> QED BY <2>1, <2>2 DEF FreshIn
<1> QED BY <1>2, <1>3, <1>4, <1>5 DEF Opened

\* The new nodes of a list that a node is taken from.
LEMMA FreshClosed ==
  ASSUME NEW S, NEW c \in Seq(S), NEW d \in Seq(S), NEW i, NodesClosed(c, d, i)
  PROVE  FreshIn(d) = Closed(FreshIn(c), i)
<1> USE DEF NodesClosed
<1>1. Len(c) \in Nat /\ i \in Nat /\ i < Len(c)
  OBVIOUS
<1>2. ASSUME NEW m \in FreshIn(d) PROVE m \in Closed(FreshIn(c), i)
  <2>1. m \in 0 .. Len(c) - 2 /\ d[m + 1].fresh
    BY <1>1 DEF FreshIn
  <2>2. CASE m < i
    <3>1. m + 1 \in 1 .. i /\ m \in 0 .. Len(c) - 1
      BY <1>1, <2>1, <2>2
    <3>2. m \in FreshIn(c)
      BY <2>1, <3>1 DEF FreshIn
    <3> QED BY <2>2, <3>2 DEF Closed
  <2>3. CASE i <= m
    <3>1. /\ m + 2 \in i + 2 .. Len(c) /\ (m + 2) - 1 = m + 1 /\ (m + 1) + 1 = m + 2
          /\ m + 1 \in 0 .. Len(c) - 1 /\ m + 1 > i /\ (m + 1) - 1 = m
      BY <1>1, <2>1, <2>3
    <3>2. m + 1 \in FreshIn(c)
      BY <2>1, <3>1 DEF FreshIn
    <3> QED BY <3>1, <3>2 DEF Closed
  <2> QED BY <1>1, <2>1, <2>2, <2>3
<1>3. ASSUME NEW m \in FreshIn(c), m < i PROVE m \in FreshIn(d)
  <2>1. m \in 0 .. Len(c) - 1 /\ c[m + 1].fresh
    BY DEF FreshIn
  <2>2. m + 1 \in 1 .. i /\ m \in 0 .. Len(d) - 1
    BY <1>1, <1>3, <2>1
  <2> QED BY <2>1, <2>2 DEF FreshIn
<1>4. ASSUME NEW m \in FreshIn(c), m > i PROVE m - 1 \in FreshIn(d)
  <2>1. m \in 0 .. Len(c) - 1 /\ c[m + 1].fresh
    BY DEF FreshIn
  <2>2. m + 1 \in i + 2 .. Len(c) /\ (m + 1) - 1 = m /\ (m - 1) + 1 = m /\ m - 1 \in 0 .. Len(d) - 1
    BY <1>1, <1>4, <2>1
  <2>3. d[m] = c[m + 1]
    BY <2>2
  <2> QED BY <2>1, <2>2, <2>3 DEF FreshIn
<1> QED BY <1>2, <1>3, <1>4 DEF Closed

\* New nodes, the other way round.
LEMMA ReversedAre ==
  ASSUME NEW S, NEW nodes \in Seq(S), NEW V, AllNew(nodes, V)
  PROVE  /\ Reverse(nodes) \in Seq(S) /\ Len(Reverse(nodes)) = Len(nodes)
         /\ AllNew(Reverse(nodes), V)
<1>1. /\ Reverse(nodes) \in Seq(S) /\ Len(Reverse(nodes)) = Len(nodes)
      /\ \A k \in 1 .. Len(nodes) : Reverse(nodes)[k] = nodes[Len(nodes) - k + 1]
  BY ReverseIs
<1> DEFINE r == Reverse(nodes)
<1> HIDE DEF r
<1>2. ASSUME NEW k \in 1 .. Len(nodes) PROVE IsNew(r[k], V)
  <2>1. Len(nodes) - k + 1 \in 1 .. Len(nodes)
    OBVIOUS
  <2> QED BY <1>1, <2>1 DEF AllNew, r
<1>3. ASSUME NEW j \in 1 .. Len(nodes), NEW k \in 1 .. Len(nodes), r[j].window = r[k].window
      PROVE  j = k
  <2>1. Len(nodes) - j + 1 \in 1 .. Len(nodes) /\ Len(nodes) - k + 1 \in 1 .. Len(nodes)
    OBVIOUS
  <2>2. Len(nodes) - j + 1 = Len(nodes) - k + 1
    BY <1>1, <1>3, <2>1 DEF AllNew, r
  <2> QED BY <2>2
<1> QED BY <1>1, <1>2, <1>3 DEF AllNew, r

\* n new nodes after all the others.
LEMMA AppendedAre ==
  ASSUME NEW S, NEW c \in Seq(S), NEW nodes \in Seq(S),
         NEW V, AllNew(nodes, V)
  PROVE  c \o nodes \in Seq(S) /\ NodesOpened(c, c \o nodes, Len(c), Len(nodes), V)
<1>1. /\ c \o nodes \in Seq(S) /\ Len(c \o nodes) = Len(c) + Len(nodes)
      /\ \A k \in 1 .. Len(c) : (c \o nodes)[k] = c[k]
      /\ \A k \in 1 .. Len(nodes) : (c \o nodes)[Len(c) + k] = nodes[k]
  OBVIOUS
<1>2. Len(c) \in Nat /\ Len(c) \in 0 .. Len(c)
  OBVIOUS
<1>3. \A k \in Len(c) + 1 .. Len(c) : (c \o nodes)[Len(nodes) + k] = c[k]
  BY <1>2
<1> QED BY <1>1, <1>2, <1>3 DEF NodesOpened, AllNew

\* n new nodes before all the others.
LEMMA PrependedAre ==
  ASSUME NEW S, NEW c \in Seq(S), NEW nodes \in Seq(S),
         NEW V, AllNew(nodes, V)
  PROVE  nodes \o c \in Seq(S) /\ NodesOpened(c, nodes \o c, 0, Len(nodes), V)
<1>1. /\ nodes \o c \in Seq(S) /\ Len(nodes \o c) = Len(nodes) + Len(c)
      /\ \A k \in 1 .. Len(nodes) : (nodes \o c)[k] = nodes[k]
      /\ \A k \in 1 .. Len(c) : (nodes \o c)[Len(nodes) + k] = c[k]
  OBVIOUS
<1>2. Len(c) \in Nat /\ Len(nodes) \in Nat
  OBVIOUS
<1>3. /\ \A k \in 1 .. Len(nodes) : IsNew((nodes \o c)[0 + k], V)
      /\ \A j, k \in 1 .. Len(nodes) :
           (nodes \o c)[0 + j].window = (nodes \o c)[0 + k].window => j = k
  BY <1>1 DEF AllNew
<1>4. \A k \in 0 + 1 .. Len(c) : (nodes \o c)[Len(nodes) + k] = c[k]
  BY <1>1
<1> QED BY <1>1, <1>2, <1>3, <1>4 DEF NodesOpened

\* n new nodes after the first i.
LEMMA SplicedAre ==
  ASSUME NEW S, NEW c \in Seq(S), NEW nodes \in Seq(S), NEW i \in 0 .. Len(c),
         NEW V, AllNew(nodes, V)
  PROVE  Splice(c, i, nodes) \in Seq(S) /\ NodesOpened(c, Splice(c, i, nodes), i, Len(nodes), V)
<1>0. /\ Splice(c, i, nodes) \in Seq(S)
      /\ Len(Splice(c, i, nodes)) = Len(c) + Len(nodes)
      /\ \A k \in 1 .. i : Splice(c, i, nodes)[k] = c[k]
      /\ \A k \in 1 .. Len(nodes) : Splice(c, i, nodes)[i + k] = nodes[k]
      /\ \A k \in i + 1 .. Len(c) : Splice(c, i, nodes)[Len(nodes) + k] = c[k]
  BY SpliceIs
<1> DEFINE d == Splice(c, i, nodes)
<1> HIDE DEF d
<1>1. /\ d \in Seq(S) /\ Len(d) = Len(c) + Len(nodes)
      /\ \A k \in 1 .. i : d[k] = c[k]
      /\ \A k \in 1 .. Len(nodes) : d[i + k] = nodes[k]
      /\ \A k \in i + 1 .. Len(c) : d[Len(nodes) + k] = c[k]
  BY <1>0 DEF d
<1>2. /\ \A k \in 1 .. Len(nodes) : IsNew(d[i + k], V)
      /\ \A j, k \in 1 .. Len(nodes) : d[i + j].window = d[i + k].window => j = k
  BY <1>1 DEF AllNew
<1>3. NodesOpened(c, d, i, Len(nodes), V)
  BY <1>1, <1>2 DEF NodesOpened
<1> QED BY <1>1, <1>3 DEF d

\* A node is taken, by its index, from the front or from the back.
LEMMA TakenAre ==
  ASSUME NEW S, NEW c \in Seq(S), NEW i \in 0 .. Len(c) - 1
  PROVE  /\ RemoveAt(c, i + 1) \in Seq(S) /\ NodesClosed(c, RemoveAt(c, i + 1), i)
         /\ Tail(c) \in Seq(S) /\ NodesClosed(c, Tail(c), 0)
         /\ SubSeq(c, 1, Len(c) - 1) \in Seq(S)
         /\ NodesClosed(c, SubSeq(c, 1, Len(c) - 1), Len(c) - 1)
<1>0. Len(c) \in Nat /\ Len(c) > 0 /\ i \in Int /\ 0 <= i /\ i < Len(c)
  OBVIOUS
<1>1. RemoveAt(c, i + 1) \in Seq(S) /\ NodesClosed(c, RemoveAt(c, i + 1), i)
  <2> DEFINE d == RemoveAt(c, i + 1)
  <2> HIDE DEF d
  <2>1. i + 1 \in 1 .. Len(c)
    BY <1>0
  <2>2. /\ d \in Seq(S) /\ Len(d) = Len(c) - 1
        /\ \A k \in 1 .. (i + 1) - 1 : d[k] = c[k]
        /\ \A k \in (i + 1) + 1 .. Len(c) : d[k - 1] = c[k]
    BY <2>1, RemoveAtIs DEF d
  <2>3. (i + 1) - 1 = i /\ (i + 1) + 1 = i + 2
    BY <1>0
  <2>4. NodesClosed(c, d, i)
    BY <2>2, <2>3 DEF NodesClosed
  <2> QED BY <2>2, <2>4 DEF d
<1>2. Tail(c) \in Seq(S) /\ NodesClosed(c, Tail(c), 0)
  <2>1. Tail(c) \in Seq(S) /\ Len(Tail(c)) = Len(c) - 1
        /\ \A k \in 1 .. Len(c) - 1 : Tail(c)[k] = c[k + 1]
    BY <1>0
  <2>2. ASSUME NEW k \in 0 + 2 .. Len(c) PROVE Tail(c)[k - 1] = c[k]
    <3>1. k - 1 \in 1 .. Len(c) - 1 /\ (k - 1) + 1 = k
      BY <1>0
    <3> QED BY <2>1, <3>1
  <2>3. 0 \in 0 .. Len(c) - 1 /\ \A k \in 1 .. 0 : Tail(c)[k] = c[k]
    BY <1>0
  <2> QED BY <2>1, <2>2, <2>3 DEF NodesClosed
<1>3. /\ SubSeq(c, 1, Len(c) - 1) \in Seq(S)
      /\ NodesClosed(c, SubSeq(c, 1, Len(c) - 1), Len(c) - 1)
  <2> DEFINE d == SubSeq(c, 1, Len(c) - 1)
  <2> HIDE DEF d
  <2>1. Len(c) - 1 \in 0 .. Len(c) /\ Len(c) - 1 \in 0 .. Len(c) - 1
    BY <1>0
  <2>2. /\ d \in Seq(S) /\ Len(d) = Len(c) - 1
        /\ \A k \in 1 .. Len(c) - 1 : d[k] = c[k]
    BY <2>1, PartsAre DEF d
  <2>3. \A k \in (Len(c) - 1) + 2 .. Len(c) : d[k - 1] = c[k]
    BY <1>0
  <2> QED BY <2>1, <2>2, <2>3 DEF d, NodesClosed
<1> QED BY <1>1, <1>2, <1>3

-----------------------------------------------------------------------------
(* The arithmetic of apply_changes: the lengths that the nodes of a group  *)
(* are given are never negative, and with the gaps never exceed the group.  *)

\* Products, and the quotients that \div rounds down.
LEMMA Products ==
  ASSUME NEW a \in Int, NEW b \in Int, NEW c \in Int
  PROVE  /\ a * b \in Int
         /\ a * (b + c) = a * b + a * c
         /\ (b + c) * a = b * a + c * a
         /\ a * (b - c) = a * b - a * c
         /\ a * b = b * a
         /\ a >= 0 /\ b >= 0 => a * b >= 0
         /\ a >= 0 /\ b <= c => a * b <= a * c
         /\ a > 0 /\ a * b <= a * c => b <= c
  OBVIOUS

\* What \div rounds down by is less than the divisor.
LEMMA Quotient ==
  ASSUME NEW a \in Int, NEW d \in Nat \ {0}
  PROVE  /\ a \div d \in Int
         /\ d * (a \div d) <= a
         /\ a <= d * (a \div d) + (d - 1)
         /\ a >= 0 => a \div d >= 0
  OBVIOUS

-----------------------------------------------------------------------------
(* Sums.                                                                   *)

\* The sums of naturals grow, and none of the numbers exceeds the last.
LEMMA SumsGrow ==
  ASSUME NEW n \in Nat, NEW s, NEW p, IsSums(p, s, n), \A k \in 1 .. n : s[k] \in Nat
  PROVE  /\ \A j, k \in 0 .. n : j <= k => 0 <= p[j] /\ p[j] <= p[k]
         /\ \A k \in 1 .. n : s[k] <= p[n]
<1> DEFINE T == {m \in Nat : \A k \in 0 .. n : k <= m =>
                               \A j \in 0 .. n : j <= k => 0 <= p[j] /\ p[j] <= p[k]}
<1>1. /\ \A k \in 0 .. n : p[k] \in Int
      /\ p[0] = 0
      /\ \A k \in 1 .. n : p[k] = p[k - 1] + s[k]
  BY DEF IsSums
<1>2. 0 \in T
  BY <1>1
<1>3. ASSUME NEW m \in Nat, m \in T PROVE m + 1 \in T
  <2> SUFFICES ASSUME m + 1 \in 0 .. n, NEW j \in 0 .. n, j <= m + 1
               PROVE  0 <= p[j] /\ p[j] <= p[m + 1]
    BY <1>3
  <2>1. m \in 0 .. n /\ m + 1 \in 1 .. n /\ (m + 1) - 1 = m
    OBVIOUS
  <2>2. p[m + 1] = p[m] + s[m + 1] /\ s[m + 1] >= 0 /\ p[m] >= 0
    BY <1>1, <1>3, <2>1
  <2>3. CASE j = m + 1
    BY <1>1, <2>1, <2>2, <2>3
  <2>4. CASE j <= m
    BY <1>1, <1>3, <2>1, <2>2, <2>4
  <2> QED BY <2>3, <2>4
<1>4. Nat \subseteq T
  <2> HIDE DEF T
  <2> QED BY <1>2, <1>3, SetInduction
<1>5. \A j, k \in 0 .. n : j <= k => 0 <= p[j] /\ p[j] <= p[k]
  <2> SUFFICES ASSUME NEW j \in 0 .. n, NEW k \in 0 .. n, j <= k
               PROVE  0 <= p[j] /\ p[j] <= p[k]
    OBVIOUS
  <2>1. k \in T
    BY <1>4
  <2> QED BY <2>1
<1>6. ASSUME NEW k \in 1 .. n PROVE s[k] <= p[n]
  <2>1. k - 1 \in 0 .. n /\ k \in 0 .. n /\ n \in 0 .. n
    OBVIOUS
  <2>2. 0 <= p[k - 1] /\ p[k] <= p[n]
    BY <1>5, <2>1
  <2> QED BY <1>1, <2>1, <2>2
<1> QED BY <1>5, <1>6

\* The sum of smaller numbers is smaller: of numbers scaled by d, beside shares
\* of e each and numbers scaled by r.
LEMMA SumsBound ==
  ASSUME NEW n \in Nat, NEW s, NEW a, NEW o, NEW d \in Int, NEW e \in Int, NEW r \in Int,
         NEW p, IsSums(p, s, n), NEW q, IsSums(q, a, n), NEW u, IsSums(u, o, n),
         \A k \in 1 .. n : /\ s[k] \in Int /\ a[k] \in Int /\ o[k] \in Int
                           /\ d * s[k] <= e * a[k] + r * o[k]
  PROVE  d * p[n] <= e * q[n] + r * u[n]
<1> DEFINE T == {m \in Nat : m <= n => d * p[m] <= e * q[m] + r * u[m]}
<1>1. /\ \A k \in 0 .. n : p[k] \in Int /\ q[k] \in Int /\ u[k] \in Int
      /\ p[0] = 0 /\ q[0] = 0 /\ u[0] = 0
      /\ \A k \in 1 .. n : /\ p[k] = p[k - 1] + s[k]
                           /\ q[k] = q[k - 1] + a[k]
                           /\ u[k] = u[k - 1] + o[k]
  BY DEF IsSums
<1>2. 0 \in T
  <2>1. d * 0 = 0 /\ e * 0 = 0 /\ r * 0 = 0
    OBVIOUS
  <2>2. d * p[0] <= e * q[0] + r * u[0]
    BY <1>1, <2>1
  <2> QED BY <2>2
<1>3. ASSUME NEW m \in Nat, m \in T PROVE m + 1 \in T
  <2> SUFFICES ASSUME m + 1 <= n
               PROVE  d * p[m + 1] <= e * q[m + 1] + r * u[m + 1]
    OBVIOUS
  <2>1. m \in 0 .. n /\ m + 1 \in 1 .. n /\ (m + 1) - 1 = m
    OBVIOUS
  <2>2. /\ p[m] \in Int /\ q[m] \in Int /\ u[m] \in Int
        /\ s[m + 1] \in Int /\ a[m + 1] \in Int /\ o[m + 1] \in Int
        /\ d * s[m + 1] <= e * a[m + 1] + r * o[m + 1]
        /\ p[m + 1] = p[m] + s[m + 1]
        /\ q[m + 1] = q[m] + a[m + 1]
        /\ u[m + 1] = u[m] + o[m + 1]
    BY <1>1, <2>1
  <2>3. d * p[m] <= e * q[m] + r * u[m]
    BY <1>3, <2>1
  <2>4. /\ d * (p[m] + s[m + 1]) = d * p[m] + d * s[m + 1]
        /\ e * (q[m] + a[m + 1]) = e * q[m] + e * a[m + 1]
        /\ r * (u[m] + o[m + 1]) = r * u[m] + r * o[m + 1]
    BY <2>2, Products
  <2>5. /\ d * p[m] \in Int /\ d * s[m + 1] \in Int /\ e * q[m] \in Int
        /\ e * a[m + 1] \in Int /\ r * u[m] \in Int /\ r * o[m + 1] \in Int
    BY <2>2, Products
  <2> QED BY <2>2, <2>3, <2>4, <2>5
<1>4. n \in T
  <2> HIDE DEF T
  <2> QED BY <1>2, <1>3, SetInduction
<1> QED BY <1>4

\* The sums of two sequences that agree.
LEMMA SumsAgree ==
  ASSUME NEW n \in Nat, NEW s, NEW t, NEW p, IsSums(p, s, n), NEW q, IsSums(q, t, n),
         \A k \in 1 .. n : s[k] = t[k]
  PROVE  \A k \in 0 .. n : p[k] = q[k]
<1> DEFINE T == {m \in Nat : m <= n => p[m] = q[m]}
<1>1. /\ p[0] = 0 /\ q[0] = 0
      /\ \A k \in 1 .. n : p[k] = p[k - 1] + s[k] /\ q[k] = q[k - 1] + t[k]
  BY DEF IsSums
<1>2. 0 \in T
  BY <1>1
<1>3. ASSUME NEW m \in Nat, m \in T PROVE m + 1 \in T
  <2> SUFFICES ASSUME m + 1 <= n PROVE p[m + 1] = q[m + 1]
    OBVIOUS
  <2>1. m + 1 \in 1 .. n /\ (m + 1) - 1 = m
    OBVIOUS
  <2> QED BY <1>1, <1>3, <2>1
<1>4. Nat \subseteq T
  <2> HIDE DEF T
  <2> QED BY <1>2, <1>3, SetInduction
<1> QED BY <1>4

\* t is the first m of s with n zeros after its first i.
ZerosPut(s, t, i, m, n) ==
  /\ \A k \in 1 .. i : t[k] = s[k]
  /\ \A k \in 1 .. n : t[i + k] = 0
  /\ \A k \in i + 1 .. m : t[n + k] = s[k]

\* The zeros add nothing to the sum.
LEMMA SumsOpened ==
  ASSUME NEW m \in Nat, NEW n \in Nat, NEW i \in 0 .. m, NEW l, l = m + n,
         NEW s, NEW p, IsSums(p, s, m), NEW t, NEW q, IsSums(q, t, l), ZerosPut(s, t, i, m, n)
  PROVE  q[l] = p[m]
<1> USE DEF ZerosPut
<1>1. /\ p \in [0 .. m -> Int] /\ q \in [0 .. m + n -> Int]
      /\ p[0] = 0 /\ q[0] = 0
      /\ \A k \in 1 .. m : p[k] = p[k - 1] + s[k]
      /\ \A k \in 1 .. m + n : q[k] = q[k - 1] + t[k]
  BY DEF IsSums
<1> DEFINE T == {k \in Nat : k <= i => q[k] = p[k]}
           U == {k \in Nat : k <= n => q[i + k] = p[i]}
           V == {k \in Nat : i + k <= m => q[n + (i + k)] = p[i + k]}
<1>2. Nat \subseteq T
  <2>1. 0 \in T
    BY <1>1
  <2>2. ASSUME NEW k \in Nat, k \in T PROVE k + 1 \in T
    <3> SUFFICES ASSUME k + 1 <= i PROVE q[k + 1] = p[k + 1]
      OBVIOUS
    <3>1. /\ k + 1 \in 1 .. i /\ k + 1 \in 1 .. m /\ k + 1 \in 1 .. m + n
          /\ (k + 1) - 1 = k
      OBVIOUS
    <3> QED BY <1>1, <2>2, <3>1
  <2> HIDE DEF T
  <2> QED BY <2>1, <2>2, SetInduction
<1>3. Nat \subseteq U
  <2>1. 0 \in U
    <3>1. i \in T /\ i + 0 = i
      BY <1>2
    <3> QED BY <3>1
  <2>2. ASSUME NEW k \in Nat, k \in U PROVE k + 1 \in U
    <3> SUFFICES ASSUME k + 1 <= n PROVE q[i + (k + 1)] = p[i]
      OBVIOUS
    <3>1. /\ k + 1 \in 1 .. n /\ i + (k + 1) \in 1 .. m + n
          /\ (i + (k + 1)) - 1 = i + k /\ p[i] \in Int
      BY <1>1
    <3>2. q[i + k] = p[i]
      BY <2>2, <3>1
    <3>3. q[i + (k + 1)] = q[i + k] + t[i + (k + 1)] /\ t[i + (k + 1)] = 0
      BY <1>1, <3>1
    <3> QED BY <3>1, <3>2, <3>3
  <2> HIDE DEF U
  <2> QED BY <2>1, <2>2, SetInduction
<1>4. Nat \subseteq V
  <2>1. 0 \in V
    <3>1. n \in U /\ i + n = n + (i + 0) /\ i + 0 = i
      BY <1>3
    <3> QED BY <3>1
  <2>2. ASSUME NEW k \in Nat, k \in V PROVE k + 1 \in V
    <3> SUFFICES ASSUME i + (k + 1) <= m PROVE q[n + (i + (k + 1))] = p[i + (k + 1)]
      OBVIOUS
    <3>1. /\ i + (k + 1) \in i + 1 .. m /\ i + (k + 1) \in 1 .. m
          /\ n + (i + (k + 1)) \in 1 .. m + n
          /\ (i + (k + 1)) - 1 = i + k /\ (n + (i + (k + 1))) - 1 = n + (i + k)
      OBVIOUS
    <3>2. q[n + (i + k)] = p[i + k]
      BY <2>2, <3>1
    <3>3. /\ q[n + (i + (k + 1))] = q[n + (i + k)] + t[n + (i + (k + 1))]
          /\ p[i + (k + 1)] = p[i + k] + s[i + (k + 1)]
      BY <1>1, <3>1
    <3> QED BY <3>1, <3>2, <3>3
  <2> HIDE DEF V
  <2> QED BY <2>1, <2>2, SetInduction
<1>5. m - i \in V /\ i + (m - i) = m /\ n + m = m + n
  BY <1>4
<1> QED BY <1>5

\* Sums of numbers that the one after the first i is taken from.
LEMMA SumsClosed ==
  ASSUME NEW m \in Nat, NEW i \in 0 .. m - 1,
         NEW s, NEW p, IsSums(p, s, m), NEW t, NEW q, IsSums(q, t, m - 1),
         \A k \in 1 .. m : s[k] \in Int,
         \A k \in 1 .. i : t[k] = s[k],
         \A k \in i + 2 .. m : t[k - 1] = s[k]
  PROVE  q[m - 1] = p[m] - s[i + 1]
<1>1. /\ p \in [0 .. m -> Int] /\ q \in [0 .. m - 1 -> Int]
      /\ p[0] = 0 /\ q[0] = 0
      /\ \A k \in 1 .. m : p[k] = p[k - 1] + s[k]
      /\ \A k \in 1 .. m - 1 : q[k] = q[k - 1] + t[k]
  BY DEF IsSums
<1> DEFINE T == {k \in Nat : k <= i => q[k] = p[k]}
           V == {k \in Nat : i + k <= m - 1 => q[i + k] = p[i + k + 1] - s[i + 1]}
<1>2. Nat \subseteq T
  <2>1. 0 \in T
    BY <1>1
  <2>2. ASSUME NEW k \in Nat, k \in T PROVE k + 1 \in T
    <3> SUFFICES ASSUME k + 1 <= i PROVE q[k + 1] = p[k + 1]
      OBVIOUS
    <3>1. /\ k + 1 \in 1 .. i /\ k + 1 \in 1 .. m /\ k + 1 \in 1 .. m - 1
          /\ (k + 1) - 1 = k
      OBVIOUS
    <3> QED BY <1>1, <2>2, <3>1
  <2> HIDE DEF T
  <2> QED BY <2>1, <2>2, SetInduction
<1>3. Nat \subseteq V
  <2>1. 0 \in V
    <3>1. i \in T /\ i + 0 = i /\ i + 1 \in 1 .. m /\ (i + 1) - 1 = i
          /\ p[i] \in Int /\ i + 0 + 1 = i + 1 /\ s[i + 1] \in Int
      BY <1>1, <1>2
    <3>2. q[i] = p[i] /\ p[i + 1] = p[i] + s[i + 1]
      BY <1>1, <3>1
    <3>3. q[i] = p[i + 1] - s[i + 1]
      BY <3>1, <3>2
    <3> QED BY <3>1, <3>3
  <2>2. ASSUME NEW k \in Nat, k \in V PROVE k + 1 \in V
    <3> SUFFICES ASSUME i + (k + 1) <= m - 1
                 PROVE  q[i + (k + 1)] = p[i + (k + 1) + 1] - s[i + 1]
      OBVIOUS
    <3> DEFINE j == i + k + 1
    <3>1. /\ j = i + (k + 1) /\ j \in 1 .. m - 1 /\ j + 1 \in i + 2 .. m /\ j + 1 \in 1 .. m
          /\ (j + 1) - 1 = j /\ j - 1 = i + k /\ j \in 0 .. m /\ j - 1 \in 0 .. m - 1
          /\ i + 1 \in 1 .. m
      OBVIOUS
    <3>2. q[i + k] = p[i + k + 1] - s[i + 1]
      BY <2>2, <3>1
    <3>3. q[j - 1] = p[j] - s[i + 1]
      BY <3>1, <3>2
    <3> HIDE DEF j
    <3>4. /\ q[j] = q[j - 1] + t[j] /\ p[j + 1] = p[j] + s[j + 1] /\ t[j] = s[j + 1]
          /\ p[j] \in Int /\ s[j + 1] \in Int /\ s[i + 1] \in Int
      BY <1>1, <3>1
    <3>5. q[j] = p[j + 1] - s[i + 1]
      BY <3>3, <3>4
    <3> QED BY <3>1, <3>5
  <2> HIDE DEF V
  <2> QED BY <2>1, <2>2, SetInduction
<1>4. (m - 1) - i \in V /\ i + ((m - 1) - i) = m - 1 /\ (m - 1) + 1 = m
  BY <1>3
<1>5. q[i + ((m - 1) - i)] = p[i + ((m - 1) - i) + 1] - s[i + 1]
  BY <1>4
<1> QED BY <1>4, <1>5

-----------------------------------------------------------------------------
(* How many nodes the list of additions names.                             *)

Marks(s, n) == [k \in 1 .. n |-> IF \E j \in DOMAIN s : s[j] = k - 1 THEN 1 ELSE 0]

\* As many of n nodes are named as the list is long, when it is sorted and
\* within the list of the nodes.
LEMMA MarksCount ==
  ASSUME NEW n \in Nat, NEW s \in Seq(Int), Increasing(s), Members(s) \subseteq 0 .. n - 1,
         NEW p, IsSums(p, Marks(s, n), n)
  PROVE  p[n] = Len(s) /\ Len(s) <= n
<1> DEFINE Split(c, m) == /\ c \in 0 .. Len(s) /\ c <= m
                          /\ \A j \in 1 .. c : s[j] < m
                          /\ \A j \in c + 1 .. Len(s) : s[j] >= m
           T == {m \in Nat : m <= n => Split(p[m], m)}
           a == Marks(s, n)
<1>1. /\ p \in [0 .. n -> Int] /\ p[0] = 0
      /\ \A k \in 1 .. n : p[k] = p[k - 1] + a[k]
  BY DEF IsSums
<1>2. /\ Len(s) \in Nat /\ DOMAIN s = 1 .. Len(s)
      /\ \A j \in 1 .. Len(s) : s[j] \in 0 .. n - 1
      /\ \A j, k \in 1 .. Len(s) : j < k => s[j] < s[k]
  BY DEF Increasing, Members
<1>3. \A k \in 1 .. n : a[k] = IF \E j \in 1 .. Len(s) : s[j] = k - 1 THEN 1 ELSE 0
  BY <1>2 DEF Marks
<1> HIDE DEF a
<1>4. 0 \in T
  BY <1>1, <1>2
<1>5. ASSUME NEW m \in Nat, m \in T PROVE m + 1 \in T
  <2> SUFFICES ASSUME m + 1 <= n PROVE Split(p[m + 1], m + 1)
    OBVIOUS
  <2> DEFINE c == p[m]
  <2>1. m + 1 \in 1 .. n /\ (m + 1) - 1 = m /\ m <= n
    OBVIOUS
  <2>2. Split(c, m) /\ p[m + 1] = c + a[m + 1]
    BY <1>1, <1>5, <2>1
  <2>3. a[m + 1] = IF \E j \in 1 .. Len(s) : s[j] = m THEN 1 ELSE 0
    BY <1>3, <2>1
  <2> HIDE DEF c
  <2>4. CASE \E j \in 1 .. Len(s) : s[j] = m
    <3>1. PICK j \in 1 .. Len(s) : s[j] = m
      BY <2>4
    <3>2. j \in c + 1 .. Len(s)
      BY <1>2, <2>2, <3>1
    <3>3. j = c + 1
      <4>1. c + 1 \in 1 .. Len(s) /\ s[c + 1] >= m
        BY <1>2, <2>2, <3>2
      <4>2. c + 1 < j => s[c + 1] < s[j]
        BY <1>2, <3>1, <4>1
      <4> QED BY <1>2, <2>2, <3>1, <3>2, <4>1, <4>2
    <3>4. p[m + 1] = c + 1
      BY <2>2, <2>3, <2>4
    <3>5. \A k \in 1 .. c + 1 : s[k] < m + 1
      BY <1>2, <2>2, <3>1, <3>3
    <3>6. \A k \in c + 1 + 1 .. Len(s) : s[k] >= m + 1
      BY <1>2, <2>2, <3>1, <3>3
    <3> QED BY <1>2, <2>2, <3>2, <3>4, <3>5, <3>6
  <2>5. CASE ~\E j \in 1 .. Len(s) : s[j] = m
    <3>1. p[m + 1] = c
      BY <2>2, <2>3, <2>5
    <3>2. \A k \in 1 .. c : s[k] < m + 1
      BY <1>2, <2>2
    <3>3. \A k \in c + 1 .. Len(s) : s[k] >= m + 1
      BY <1>2, <2>2, <2>5
    <3> QED BY <2>2, <3>1, <3>2, <3>3
  <2> QED BY <2>4, <2>5
<1>6. n \in T
  <2> HIDE DEF T
  <2> QED BY <1>4, <1>5, SetInduction
<1>7. Split(p[n], n)
  BY <1>6
<1>8. p[n] = Len(s)
  <2> SUFFICES ASSUME p[n] # Len(s) PROVE FALSE
    OBVIOUS
  <2>1. p[n] + 1 \in 1 .. Len(s) /\ p[n] + 1 \in p[n] + 1 .. Len(s)
    BY <1>2, <1>7
  <2> QED BY <1>2, <1>7, <2>1
<1> QED BY <1>7, <1>8

-----------------------------------------------------------------------------
(* The room, shared.                                                       *)

\* A part of a number of one sum and of another.
LEMMA SumsMinus ==
  ASSUME NEW n \in Nat, NEW s, NEW a, NEW e \in Int, NEW p, IsSums(p, s, n),
         NEW q, IsSums(q, a, n), \A k \in 1 .. n : s[k] \in Int /\ a[k] \in Int
  PROVE  IsSums([k \in 0 .. n |-> p[k] - e * q[k]], [k \in 1 .. n |-> s[k] - e * a[k]], n)
<1> DEFINE x == [k \in 0 .. n |-> p[k] - e * q[k]]
           y == [k \in 1 .. n |-> s[k] - e * a[k]]
<1>1. /\ \A k \in 0 .. n : p[k] \in Int /\ q[k] \in Int /\ e * q[k] \in Int
      /\ p[0] = 0 /\ q[0] = 0
      /\ \A k \in 1 .. n : p[k] = p[k - 1] + s[k] /\ q[k] = q[k - 1] + a[k]
  BY DEF IsSums
<1>2. x \in [0 .. n -> Int]
  BY <1>1
<1>3. x[0] = 0
  <2>1. e * 0 = 0 /\ 0 \in 0 .. n
    OBVIOUS
  <2> QED BY <1>1, <2>1
<1>4. ASSUME NEW k \in 1 .. n PROVE x[k] = x[k - 1] + y[k]
  <2>1. k - 1 \in 0 .. n /\ k \in 0 .. n
    OBVIOUS
  <2>2. /\ p[k - 1] \in Int /\ q[k - 1] \in Int /\ s[k] \in Int /\ a[k] \in Int
        /\ p[k] = p[k - 1] + s[k] /\ q[k] = q[k - 1] + a[k]
    BY <1>1, <2>1
  <2>3. e * (q[k - 1] + a[k]) = e * q[k - 1] + e * a[k] /\ e * q[k - 1] \in Int /\ e * a[k] \in Int
    BY <2>2, Products
  <2>4. x[k] = p[k] - e * q[k] /\ x[k - 1] = p[k - 1] - e * q[k - 1] /\ y[k] = s[k] - e * a[k]
    BY <2>1
  <2> HIDE DEF x, y
  <2> QED BY <2>2, <2>3, <2>4
<1> HIDE DEF x, y
<1> QED BY <1>2, <1>3, <1>4 DEF IsSums, x, y

\* n nodes share the room: each that is marked, c of them, has its share, and
\* the others divide what is left in the proportion that they had before.
Shares(room, n, c, mark, old, d, lengths) ==
  /\ n \in Nat \ {0} /\ room \in Nat /\ c \in 0 .. n /\ d \in Nat
  /\ \A k \in 1 .. n : mark[k] \in {0, 1} /\ old[k] \in Nat
  /\ (\E k \in 1 .. n : mark[k] = 0) => d > 0
  /\ LET share == room \div n
     IN  \A k \in 1 .. n :
           lengths[k] = IF mark[k] = 1 THEN share
                        ELSE (old[k] * (room - share * c)) \div d

\* No length is negative.
LEMMA SharesAre ==
  ASSUME NEW room, NEW n, NEW c, NEW mark, NEW old, NEW d, NEW lengths,
         Shares(room, n, c, mark, old, d, lengths)
  PROVE  /\ room \div n \in Nat /\ n * (room \div n) <= room
         /\ room <= n * (room \div n) + (n - 1)
         /\ room - (room \div n) * c \in Nat
         /\ \A k \in 1 .. n : lengths[k] \in Nat
<1> DEFINE share == room \div n
           rest == room - share * c
<1>1. n \in Nat \ {0} /\ room \in Nat /\ c \in 0 .. n /\ d \in Nat
  BY DEF Shares
<1>2. share \in Nat /\ n * share <= room /\ room <= n * share + (n - 1)
  <2>1. room \in Int /\ n \in Nat \ {0} /\ room >= 0
    BY <1>1
  <2>2. /\ share \in Int /\ n * share <= room
        /\ room <= n * share + (n - 1)
        /\ room >= 0 => share >= 0
    BY <2>1, Quotient, Zenon
  <2> HIDE DEF share
  <2> QED BY <2>1, <2>2
<1>3. \A k \in 1 .. n : /\ mark[k] \in {0, 1} /\ old[k] \in Nat
                        /\ mark[k] = 0 => d > 0
                        /\ lengths[k] = IF mark[k] = 1 THEN share ELSE (old[k] * rest) \div d
  BY DEF Shares
<1> HIDE DEF share
<1>4. rest \in Nat
  <2>1. share * c <= share * n /\ share * n = n * share /\ share * c \in Int
    BY <1>1, <1>2, Products
  <2> QED BY <1>1, <1>2, <2>1
<1> HIDE DEF rest
<1>5. ASSUME NEW k \in 1 .. n PROVE lengths[k] \in Nat
  <2>1. CASE mark[k] = 1
    BY <1>2, <1>3, <2>1
  <2>2. CASE mark[k] = 0
    <3>1. d \in Nat \ {0} /\ old[k] \in Nat /\ lengths[k] = (old[k] * rest) \div d
      BY <1>1, <1>3, <2>2
    <3>2. old[k] * rest \in Int /\ old[k] * rest >= 0
      BY <1>4, <3>1, Products
    <3>3. /\ (old[k] * rest) \div d \in Int
          /\ old[k] * rest >= 0 => (old[k] * rest) \div d >= 0
      BY <3>1, <3>2, Quotient, Zenon
    <3> QED BY <3>1, <3>2, <3>3
  <2> QED BY <1>3, <2>1, <2>2
<1> QED BY <1>2, <1>4, <1>5 DEF share, rest

\* Together the lengths never exceed the room, when the sizes before did not
\* exceed the number they are divided by.
LEMMA SharesFit ==
  ASSUME NEW room, NEW n, NEW c, NEW mark, NEW old, NEW d, NEW lengths,
         Shares(room, n, c, mark, old, d, lengths),
         NEW p, IsSums(p, lengths, n), NEW q, IsSums(q, mark, n), q[n] = c,
         NEW u, IsSums(u, old, n), u[n] <= d
  PROVE  p[n] <= room
<1> DEFINE share == room \div n
           rest == room - share * c
<1>1. n \in Nat /\ n > 0 /\ room \in Nat /\ c \in 0 .. n /\ c \in Int /\ d \in Nat
  BY DEF Shares
<1>2. /\ share \in Nat /\ n * share <= room /\ rest \in Nat
      /\ \A k \in 1 .. n : lengths[k] \in Nat
  BY SharesAre
<1>3. \A k \in 1 .. n : /\ mark[k] \in {0, 1} /\ old[k] \in Nat
                        /\ mark[k] = 0 => d > 0
                        /\ lengths[k] = IF mark[k] = 1 THEN share ELSE (old[k] * rest) \div d
  BY DEF Shares
<1>4. rest = room - share * c
  OBVIOUS
<1>5. p[n] \in Int /\ u[n] \in Int
  BY <1>1 DEF IsSums
<1> HIDE DEF share, rest
<1>6. share * c \in Int /\ share * c <= room
  <2>1. share * c <= share * n /\ share * n = n * share /\ share * c \in Int
    BY <1>1, <1>2, Products
  <2> QED BY <1>1, <1>2, <2>1
<1>7. CASE d = 0
  <2> DEFINE one == 1
             zero == 0
  <2>1. ASSUME NEW k \in 1 .. n
        PROVE  /\ lengths[k] \in Int /\ mark[k] \in Int /\ old[k] \in Int
               /\ one * lengths[k] <= share * mark[k] + zero * old[k]
    BY <1>2, <1>3, <1>7
  <2>3. /\ one * p[n] = p[n] /\ zero * u[n] = 0
        /\ one \in Int /\ zero \in Int /\ share \in Int
    BY <1>2, <1>5
  <2> HIDE DEF one, zero
  <2>2. one * p[n] <= share * q[n] + zero * u[n]
    BY <1>1, <1>2, <2>1, <2>3, SumsBound
  <2> QED BY <1>1, <1>5, <1>6, <2>2, <2>3
<1>8. CASE d > 0
  <2>1. d * share \in Int
    BY <1>1, <1>2, Products
  <2>2. ASSUME NEW k \in 1 .. n
        PROVE  /\ lengths[k] \in Int /\ mark[k] \in Int /\ old[k] \in Int
               /\ d * lengths[k] <= (d * share) * mark[k] + rest * old[k]
    <3>1. lengths[k] \in Int /\ mark[k] \in {0, 1} /\ old[k] \in Nat
      BY <1>2, <1>3
    <3>2. rest * old[k] \in Int /\ rest * old[k] >= 0 /\ rest * old[k] = old[k] * rest
      BY <1>2, <3>1, Products
    <3>3. (d * share) * 1 = d * share /\ (d * share) * 0 = 0
      BY <2>1
    <3>4. CASE mark[k] = 1
      <4>1. lengths[k] = share
        BY <1>3, <3>4
      <4> QED BY <2>1, <3>1, <3>2, <3>3, <3>4, <4>1
    <3>5. CASE mark[k] = 0
      <4>1. lengths[k] = (old[k] * rest) \div d
        BY <1>3, <3>5
      <4>2. d \in Nat \ {0} /\ old[k] * rest \in Int
        BY <1>1, <1>8, <3>2
      <4>3. d * ((old[k] * rest) \div d) <= old[k] * rest
        BY <4>2, Quotient, Zenon
      <4>4. d * lengths[k] <= rest * old[k]
        BY <3>2, <4>1, <4>3
      <4>5. d * lengths[k] \in Int
        BY <1>1, <3>1, Products
      <4> QED BY <3>1, <3>2, <3>3, <3>5, <4>4, <4>5
    <3> QED BY <3>1, <3>4, <3>5
  <2>3. d \in Int /\ rest \in Int
    BY <1>1, <1>2
  <2>4. d * p[n] <= (d * share) * q[n] + rest * u[n]
    BY <1>1, <2>1, <2>2, <2>3, SumsBound
  <2>5. rest * u[n] <= rest * d /\ rest * d \in Int /\ rest * u[n] \in Int
    BY <1>1, <1>2, <1>5, Products
  <2>6. (d * share) * c = d * (share * c) /\ rest * d = d * rest
    BY <1>1, <1>2
  <2>7. d * (share * c + rest) = d * (share * c) + d * rest
    BY <1>6, <2>3, Products
  <2>8. share * c + rest = room
    BY <1>1, <1>4, <1>6
  <2>9. d * p[n] \in Int /\ d * (share * c) \in Int /\ d * rest \in Int
    BY <1>5, <1>6, <2>3, Products
  <2>10. d * p[n] <= d * room
    BY <2>4, <2>5, <2>6, <2>7, <2>8, <2>9
  <2> QED BY <1>1, <1>5, <1>8, <2>3, <2>10, Products
<1> QED BY <1>1, <1>7, <1>8

\* Together the lengths leave less than a pixel for each node, when the number
\* is the sum of the sizes before, the nodes that are marked having had none.
LEMMA SharesFill ==
  ASSUME NEW room, NEW n, NEW c, NEW mark, NEW old, NEW d, NEW lengths,
         Shares(room, n, c, mark, old, d, lengths),
         NEW p, IsSums(p, lengths, n), NEW q, IsSums(q, mark, n), q[n] = c,
         NEW u, IsSums(u, old, n), u[n] = d,
         \A k \in 1 .. n : mark[k] = 1 => old[k] = 0
  PROVE  room - p[n] < n
<1> DEFINE share == room \div n
           rest == room - share * c
<1>1. n \in Nat /\ n > 0 /\ room \in Nat /\ c \in 0 .. n /\ c \in Int /\ d \in Nat
  BY DEF Shares
<1>2. /\ share \in Nat /\ room <= n * share + (n - 1) /\ rest \in Nat
      /\ \A k \in 1 .. n : lengths[k] \in Nat
  BY SharesAre
<1>3. \A k \in 1 .. n : /\ mark[k] \in {0, 1} /\ old[k] \in Nat
                        /\ mark[k] = 0 => d > 0
                        /\ lengths[k] = IF mark[k] = 1 THEN share ELSE (old[k] * rest) \div d
  BY DEF Shares
<1>4. rest = room - share * c
  OBVIOUS
<1>5. p[n] \in Int
  BY <1>1 DEF IsSums
<1> HIDE DEF share, rest
<1>6. share * c \in Int
  BY <1>1, <1>2, Products
\* The nodes that are not marked, and what they are given.
<1> DEFINE ones == [k \in 1 .. n |-> 1]
           kept == [k \in 1 .. n |-> ones[k] - 1 * mark[k]]
           given == [k \in 1 .. n |-> lengths[k] - share * mark[k]]
           keptSums == [k \in 0 .. n |-> [j \in 0 .. n |-> j][k] - 1 * q[k]]
           givenSums == [k \in 0 .. n |-> p[k] - share * q[k]]
<1>7. IsSums([j \in 0 .. n |-> j], ones, n)
  BY <1>1 DEF IsSums
<1>8. IsSums(keptSums, kept, n)
  <2> HIDE DEF ones
  <2>1. \A k \in 1 .. n : ones[k] \in Int /\ mark[k] \in Int
    BY <1>3 DEF ones
  <2>2. 1 \in Int
    OBVIOUS
  <2> DEFINE counts == [j \in 0 .. n |-> j]
             one == 1
  <2> HIDE DEF counts, one
  <2>3. IsSums([k \in 0 .. n |-> counts[k] - one * q[k]],
               [k \in 1 .. n |-> ones[k] - one * mark[k]], n)
    BY <1>1, <1>7, <2>1, <2>2, SumsMinus DEF counts, one
  <2> QED BY <2>3 DEF counts, one
<1>9. IsSums(givenSums, given, n)
  <2>1. /\ share \in Int
        /\ \A k \in 1 .. n : lengths[k] \in Int /\ mark[k] \in Int
    BY <1>2, <1>3
  <2>2. IsSums([k \in 0 .. n |-> p[k] - share * q[k]],
               [k \in 1 .. n |-> lengths[k] - share * mark[k]], n)
    BY <1>1, <2>1, SumsMinus, Zenon
  <2> QED BY <2>2
<1>10. keptSums[n] = n - c /\ givenSums[n] = p[n] - share * c
  BY <1>1
<1>11. ASSUME NEW k \in 1 .. n
       PROVE  /\ kept[k] = 1 - mark[k]
              /\ given[k] = IF mark[k] = 1 THEN 0 ELSE lengths[k]
              /\ kept[k] \in Int /\ given[k] \in Int /\ old[k] \in Int
  <2>1. ones[k] = 1 /\ kept[k] = ones[k] - 1 * mark[k] /\ given[k] = lengths[k] - share * mark[k]
    OBVIOUS
  <2>2. mark[k] \in {0, 1} /\ old[k] \in Nat /\ lengths[k] \in Nat /\ share \in Nat
    BY <1>2, <1>3
  <2>3. mark[k] = 1 => lengths[k] = share
    BY <1>3
  <2> HIDE DEF ones, kept, given
  <2>4. CASE mark[k] = 1
    BY <2>1, <2>2, <2>3, <2>4
  <2>5. CASE mark[k] = 0
    BY <2>1, <2>2, <2>5
  <2> QED BY <2>2, <2>4, <2>5
<1> HIDE DEF ones, kept, given, keptSums, givenSums
<1>12. ASSUME NEW k \in 1 .. n
       PROVE  rest * old[k] <= (d - 1) * kept[k] + d * given[k]
  <2>1. mark[k] \in {0, 1} /\ old[k] \in Nat /\ lengths[k] \in Nat
    BY <1>2, <1>3
  <2>2. CASE mark[k] = 1
    <3>1. kept[k] = 0 /\ given[k] = 0 /\ old[k] = 0
      BY <1>11, <2>2
    <3>2. rest * 0 = 0 /\ (d - 1) * 0 = 0 /\ d * 0 = 0
      BY <1>1, <1>2
    <3> QED BY <3>1, <3>2
  <2>3. CASE mark[k] = 0
    <3>1. kept[k] = 1 /\ given[k] = lengths[k] /\ d \in Nat \ {0}
      BY <1>1, <1>3, <1>11, <2>3
    <3>2. lengths[k] = (old[k] * rest) \div d
      BY <1>3, <2>3
    <3>3. old[k] * rest \in Int /\ old[k] * rest = rest * old[k]
      BY <1>2, <2>1, Products
    <3>4. old[k] * rest <= d * ((old[k] * rest) \div d) + (d - 1)
      BY <3>1, <3>3, Quotient, Zenon
    <3>5. (d - 1) * 1 = d - 1 /\ d * lengths[k] \in Int
      BY <1>1, <2>1, Products
    <3>6. rest * old[k] <= d * lengths[k] + (d - 1)
      BY <3>2, <3>3, <3>4
    <3> QED BY <3>1, <3>3, <3>5, <3>6
  <2> QED BY <2>1, <2>2, <2>3
<1>13. rest * d <= (d - 1) * (n - c) + d * (p[n] - share * c)
  <2> DEFINE e == d - 1
  <2>1. n \in Nat /\ rest \in Int /\ e \in Int /\ d \in Int
    BY <1>1, <1>2
  <2>2. \A k \in 1 .. n : /\ old[k] \in Int /\ kept[k] \in Int /\ given[k] \in Int
                          /\ rest * old[k] <= e * kept[k] + d * given[k]
    BY <1>11, <1>12
  <2>3. IsSums(u, old, n) /\ IsSums(keptSums, kept, n) /\ IsSums(givenSums, given, n)
    BY <1>8, <1>9
  <2> HIDE DEF e
  <2>4. rest * u[n] <= e * keptSums[n] + d * givenSums[n]
    BY <2>1, <2>2, <2>3, SumsBound, ZenonT(60)
  <2> QED BY <1>10, <2>4 DEF e
<1> DEFINE left == room - p[n]
<1>14. left \in Int /\ left = rest - (p[n] - share * c)
  BY <1>1, <1>2, <1>4, <1>5, <1>6
<1>15. CASE d = 0
  <2>1. ASSUME NEW k \in 1 .. n PROVE mark[k] = 1 /\ lengths[k] = share
    BY <1>3, <1>15
  <2>2. ASSUME NEW k \in 1 .. n PROVE kept[k] = 0 /\ given[k] = 0
    BY <1>11, <2>1
  <2> DEFINE zeros == [k \in 0 .. n |-> 0]
  <2>3. IsSums(zeros, kept, n) /\ IsSums(zeros, given, n)
    <3>1. /\ zeros \in [0 .. n -> Int] /\ zeros[0] = 0
          /\ \A k \in 1 .. n : zeros[k] = 0 /\ zeros[k - 1] = 0
      BY <1>1
    <3> HIDE DEF zeros
    <3> QED BY <2>2, <3>1 DEF IsSums
  <2>4. zeros[n] = 0 /\ n \in 0 .. n
    BY <1>1
  <2> HIDE DEF zeros
  <2>5. zeros[n] = keptSums[n] /\ zeros[n] = givenSums[n]
    BY <1>1, <1>8, <1>9, <2>3, <2>4, SumsAgree
  <2>6. n = c /\ p[n] = share * c
    BY <1>1, <1>5, <1>6, <1>10, <2>4, <2>5
  <2>7. share * n = n * share /\ n * share \in Int
    BY <1>1, <1>2, Products
  <2> QED BY <1>1, <1>2, <2>6, <2>7
<1>16. CASE d > 0
  <2> DEFINE x == p[n] - share * c
             y == n - c
  <2>1. x \in Int /\ y \in Nat /\ y <= n
    BY <1>1, <1>5, <1>6
  <2>2. rest * d <= (d - 1) * y + d * x /\ left = rest - x
    BY <1>13, <1>14
  <2> HIDE DEF x, y, left
  <2>3. (d - 1) * y = d * y - y /\ rest * d = d * rest
    BY <1>1, <1>2, <2>1
  <2>4. /\ d * (rest - x) = d * rest - d * x
        /\ d * rest \in Int /\ d * x \in Int /\ d * y \in Int
    BY <1>1, <1>2, <2>1, Products
  <2>5. d * left <= d * y - y
    BY <1>2, <2>1, <2>2, <2>3, <2>4
  <2>6. left <= y /\ (y > 0 => left < y)
    <3>1. left <= y
      <4>1. d * left <= d * y
        BY <1>1, <1>14, <2>1, <2>4, <2>5, Products
      <4> QED BY <1>1, <1>14, <1>16, <2>1, <4>1, Products
    <3>2. left = y => d * left = d * y
      OBVIOUS
    <3>3. y > 0 => left # y
      BY <2>1, <2>4, <2>5, <3>2
    <3> QED BY <1>14, <2>1, <3>1, <3>3
  <2> QED BY <1>1, <1>14, <2>1, <2>6 DEF left
<1> QED BY <1>1, <1>15, <1>16

-----------------------------------------------------------------------------
(* The lengths that a group gives its nodes.                               *)

\* The sizes of the nodes along the group.
Sides(g) == [k \in 1 .. Len(g.children) |-> g.children[k].size[Axis(g.orientation)]]
SidesTotal(g) == PartialSums(Sides(g))[Len(g.children)]

\* The size that the group is going to have, and what the gaps leave of it.
NewSide(g) == TakeChanges(g).size[Axis(TakeChanges(g).orientation)]
Free(g) == NewSide(g) - TotalGap(Len(g.children))

\* What apply_changes relies on: the additions are sorted indices of nodes, and
\* the total covers the nodes and those that were removed.
Measured(g) ==
  /\ Len(g.children) \in Nat
  /\ \A k \in 1 .. Len(g.children) : g.children[k].size[Axis(g.orientation)] \in Nat
  /\ g.additions \in Seq(Int) /\ Increasing(g.additions)
  /\ Members(g.additions) \subseteq 0 .. Len(g.children) - 1
  /\ g.total \in Int /\ g.removed \in Int
  /\ SidesTotal(g) + g.removed <= g.total
  /\ NewSide(g) \in Int

\* The total is that of the nodes, and the new ones have no size yet.
Exact(g) ==
  /\ g.total = SidesTotal(g) + g.removed
  /\ \A k \in 1 .. Len(g.children) : IsAddition(g, k) => Sides(g)[k] = 0

\* The sums of the sides, of which there is one for each node.
LEMMA SidesAre ==
  ASSUME NEW g, Len(g.children) \in Nat,
         \A k \in 1 .. Len(g.children) : g.children[k].size[Axis(g.orientation)] \in Nat
  PROVE  /\ \A k \in 1 .. Len(g.children) : Sides(g)[k] \in Nat
         /\ IsSums(PartialSums(Sides(g)), Sides(g), Len(g.children))
         /\ SidesTotal(g) \in Nat
         /\ \A k \in 1 .. Len(g.children) : Sides(g)[k] <= SidesTotal(g)
<1> DEFINE n == Len(g.children)
           old == Sides(g)
<1>1. \A k \in 1 .. n : old[k] \in Nat
  BY DEF Sides
<1>2. old \in Seq(Int) /\ Len(old) = n
  BY <1>1 DEF Sides
<1> HIDE DEF old
<1>3. IsSums(PartialSums(old), old, n)
  BY <1>2, Sums
<1>4. 0 \in 0 .. n /\ n \in 0 .. n /\ 0 <= n
  OBVIOUS
<1>5. /\ \A j, k \in 0 .. n : j <= k => 0 <= PartialSums(old)[j] /\ PartialSums(old)[j] <= PartialSums(old)[k]
      /\ \A k \in 1 .. n : old[k] <= PartialSums(old)[n]
  BY <1>1, <1>3, SumsGrow
<1>6. PartialSums(old)[n] \in Int
  BY <1>3, <1>4 DEF IsSums
<1> QED BY <1>1, <1>3, <1>4, <1>5, <1>6 DEF SidesTotal, old

\* Lengths, as shares of the room.
LEMMA LengthsShare ==
  ASSUME NEW g, Measured(g), ChangesMade(g), ~ApplyPanics(g), Len(g.children) > 0
  PROVE  Shares(Free(g), Len(g.children), Len(g.additions),
                Marks(g.additions, Len(g.children)), Sides(g), g.total - g.removed, Lengths(g))
<1> DEFINE n == Len(g.children)
           s == g.additions
           c == Len(s)
           mark == Marks(s, n)
           old == Sides(g)
           d == g.total - g.removed
           room == Free(g)
           primary == NewSide(g)
<1>1. /\ n \in Nat \ {0} /\ s \in Seq(Int) /\ Increasing(s) /\ Members(s) \subseteq 0 .. n - 1
      /\ primary \in Int /\ g.total \in Int /\ g.removed \in Int
  BY DEF Measured
<1>2. \A k \in 1 .. n : old[k] \in Nat
  BY SidesAre DEF Measured
<1>3. /\ ~(g.total < g.removed)
      /\ ~(primary < TotalGap(n))
      /\ ~(g.total = g.removed /\ \E k \in 1 .. n : ~IsAddition(g, k))
  BY DEF ApplyPanics, NewSide
<1>4. TotalGap(n) \in Int
  BY <1>1, GapAssumption DEF TotalGap
<1>5. room = primary - TotalGap(n)
  BY DEF Free
<1> HIDE DEF primary, room
<1>6. d \in Nat /\ room \in Nat
  BY <1>1, <1>3, <1>4, <1>5
<1>7. c \in 0 .. n
  <2>1. /\ mark \in Seq(Int) /\ Len(mark) = n
    BY <1>1 DEF Marks
  <2>2. IsSums(PartialSums(mark), mark, n)
    BY <2>1, Sums
  <2>3. n \in Nat /\ c \in Nat
    BY <1>1
  <2>4. c <= n
    BY <1>1, <2>2, <2>3, MarksCount
  <2> QED BY <2>3, <2>4
<1>8. \A k \in 1 .. n : mark[k] = IF IsAddition(g, k) THEN 1 ELSE 0
  BY DEF Marks, IsAddition
<1>9. ASSUME NEW k \in 1 .. n, mark[k] = 0 PROVE d > 0
  BY <1>1, <1>3, <1>6, <1>8, <1>9
<1> DEFINE share == room \div n
           rest == room - share * c
<1>10. Share(primary, n) = share
  BY <1>1, <1>5 DEF Share
<1>11. share \in Int
  BY <1>1, <1>6, Quotient
<1> HIDE DEF share
<1>12. primary - share * c - TotalGap(n) = rest
  <2>1. share * c \in Int
    BY <1>7, <1>11, Products
  <2> QED BY <1>1, <1>4, <1>5, <2>1
<1>13. ASSUME NEW k \in 1 .. n
       PROVE  Lengths(g)[k] = IF mark[k] = 1 THEN share ELSE (old[k] * rest) \div d
  <2>1. Lengths(g)[k] = IF IsAddition(g, k) THEN Share(primary, n)
                        ELSE (g.children[k].size[Axis(g.orientation)]
                               * (primary - Share(primary, n) * c - TotalGap(n))) \div d
    BY DEF Lengths, primary, NewSide
  <2>2. old[k] = g.children[k].size[Axis(g.orientation)]
    BY DEF Sides
  <2> HIDE DEF old, mark, d, c, rest
  <2> QED BY <1>8, <1>10, <1>12, <2>1, <2>2
<1>14. \A k \in 1 .. n : mark[k] \in {0, 1}
  BY <1>8
<1> HIDE DEF mark, old, d, c, n
<1> QED BY <1>1, <1>2, <1>6, <1>7, <1>9, <1>13, <1>14 DEF Shares, share, mark, old, d, c, n, room

\* The lengths are sizes, which with the gaps never exceed the group, and which
\* leave less than a pixel for each node.
LEMMA LengthsFit ==
  ASSUME NEW g, Measured(g), ChangesMade(g), ~ApplyPanics(g)
  PROVE  /\ Lengths(g) \in Seq(Nat) /\ Len(Lengths(g)) = Len(g.children)
         /\ Len(g.children) > 0 =>
              /\ PartialSums(Lengths(g))[Len(g.children)] <= Free(g)
              /\ Exact(g) => Free(g) - PartialSums(Lengths(g))[Len(g.children)] < Len(g.children)
<1> DEFINE n == Len(g.children)
           s == g.additions
           mark == Marks(s, n)
           lengths == Lengths(g)
<1>1. /\ n \in Nat /\ s \in Seq(Int) /\ Increasing(s) /\ Members(s) \subseteq 0 .. n - 1
      /\ SidesTotal(g) + g.removed <= g.total /\ g.total \in Int /\ g.removed \in Int
  BY DEF Measured
<1>2. lengths = [k \in 1 .. n |-> lengths[k]]
  BY DEF Lengths
<1>3. CASE n = 0
  BY <1>2, <1>3
<1>4. CASE n > 0
  <2> DEFINE d == g.total - g.removed
             room == Free(g)
             c == Len(s)
             old == Sides(g)
  <2>1. Shares(room, n, c, mark, old, d, lengths)
    BY <1>4, LengthsShare
  <2>2. \A k \in 1 .. n : lengths[k] \in Nat
    BY <2>1, SharesAre
  <2> HIDE DEF lengths
  <2>3. lengths \in Seq(Nat) /\ Len(lengths) = n /\ lengths \in Seq(Int)
    <3>1. lengths \in [1 .. n -> Nat] /\ n \in Nat
      BY <1>1, <1>2, <2>2
    <3> QED BY <3>1
  <2>4. IsSums(PartialSums(lengths), lengths, n)
    BY <2>3, Sums
  <2>5. IsSums(PartialSums(mark), mark, n) /\ PartialSums(mark)[n] = c
    <3>1. mark \in Seq(Int) /\ Len(mark) = n
      BY <1>1 DEF Marks
    <3>2. IsSums(PartialSums(mark), mark, n)
      BY <3>1, Sums
    <3> QED BY <1>1, <3>2, MarksCount
  <2>6. /\ IsSums(PartialSums(old), old, n) /\ PartialSums(old)[n] = SidesTotal(g)
        /\ SidesTotal(g) \in Nat
    BY SidesAre DEF Measured, SidesTotal
  <2>7. d \in Int /\ PartialSums(old)[n] <= d
    BY <1>1, <2>6
  <2>8. \A k \in 1 .. n : mark[k] = 1 => IsAddition(g, k)
    BY DEF Marks, IsAddition
  <2>9. Exact(g) => /\ PartialSums(old)[n] = d
                    /\ \A k \in 1 .. n : mark[k] = 1 => old[k] = 0
    BY <1>1, <2>6, <2>8 DEF Exact
  <2> HIDE DEF mark, c, d, old, room, n
  <2>10. PartialSums(lengths)[n] <= room
    BY <2>1, <2>4, <2>5, <2>6, <2>7, SharesFit
  <2>11. Exact(g) => room - PartialSums(lengths)[n] < n
    BY <2>1, <2>4, <2>5, <2>6, <2>9, SharesFill
  <2> QED BY <2>3, <2>10, <2>11 DEF room, lengths, n
<1> QED BY <1>1, <1>3, <1>4

-----------------------------------------------------------------------------
(* Where the nodes come to be.                                             *)

GroupFields == {"kind", "orientation", "newOrientation", "children", "total", "additions",
                "removed", "newSize", "newAt", "at", "size", "fresh"}

\* A group, as far as apply_changes places its children.
Sized(g) ==
  /\ DOMAIN g = GroupFields
  /\ TakeChanges(g).at \in [Axes -> Int] /\ TakeChanges(g).size \in [Axes -> Int]
  /\ \A k \in 1 .. Len(g.children) : {"at", "size", "fresh"} \subseteq DOMAIN g.children[k]

\* x is inside g, and as wide as g the other way.
Inside(g, x) ==
  LET axis  == Axis(g.orientation)
      other == OtherAxis(axis)
  IN  /\ x.size[axis] \in Nat /\ x.at[axis] \in Int
      /\ x.at[axis] >= g.at[axis]
      /\ x.at[axis] + x.size[axis] <= g.at[axis] + g.size[axis]
      /\ x.at[other] = g.at[other]
      /\ x.size[other] = g.size[other]

\* a is before b along the axis, the gap between them.
Apart(axis, a, b) == a.at[axis] + a.size[axis] + Gap <= b.at[axis]

\* The nodes that have been placed are in their group, in its order.
Laid(g) ==
  /\ \A k \in 1 .. Len(g.children) : ~g.children[k].fresh => Inside(g, g.children[k])
  /\ \A j, k \in 1 .. Len(g.children) :
       j < k /\ ~g.children[j].fresh /\ ~g.children[k].fresh =>
         IF Reversed(g.orientation) THEN Apart(Axis(g.orientation), g.children[k], g.children[j])
                                    ELSE Apart(Axis(g.orientation), g.children[j], g.children[k])

\* What TakeChanges takes, and what it leaves.
LEMMA TakenFields ==
  ASSUME NEW g, DOMAIN g = GroupFields
  PROVE  LET h == TakeChanges(g)
         IN  /\ DOMAIN h = GroupFields /\ h.kind = g.kind /\ h.fresh = g.fresh
             /\ h.children = g.children /\ h.total = g.total
             /\ h.orientation = OrientationOf(g) /\ h.newOrientation = None
             /\ h.additions = <<>> /\ h.removed = 0
             /\ h.newSize = Unchanged /\ h.newAt = Unchanged
             /\ h.size = Taken(g.newSize, g.size) /\ h.at = Taken(g.newAt, g.at)
  BY DEF TakeChanges, GroupFields

\* Two axes, and what is put along them.
LEMMA AlongIs ==
  ASSUME NEW axis \in Axes, NEW p, NEW q
  PROVE  /\ OtherAxis(axis) \in Axes /\ OtherAxis(axis) # axis
         /\ Along(axis, p, q)[axis] = p /\ Along(axis, p, q)[OtherAxis(axis)] = q
  BY DEF Along, Axes, OtherAxis

\* The axis that a group lays its nodes along is one of the two.
LEMMA AxisIs ==
  \A o : Axis(o) \in Axes
  BY DEF Axis, Axes

\* The k-th node is behind the first k - 1, or before them, in the group that g
\* is going to be, and has its length.
PutAt(g, lengths, k, x) ==
  LET after  == TakeChanges(g)
      axis   == Axis(after.orientation)
      other  == OtherAxis(axis)
      p      == PartialSums(lengths)
      start  == p[k - 1] + Gap * (k - 1)
  IN  /\ ~x.fresh
      /\ x.size[axis] = lengths[k] /\ x.size[other] = after.size[other]
      /\ x.at[other] = after.at[other]
      /\ p[k - 1] \in Nat /\ p[k] = p[k - 1] + lengths[k]
      /\ x.at[axis] = after.at[axis] +
           IF Reversed(after.orientation) THEN after.size[axis] - start - lengths[k] ELSE start

\* The place of one node.
LEMMA ConfiguredAt ==
  ASSUME NEW g, Sized(g), NEW lengths \in Seq(Nat), Len(lengths) = Len(g.children),
         NEW k \in 1 .. Len(g.children)
  PROVE  LET x == Configured(g, lengths, k)
         IN  /\ x = [g.children[k] EXCEPT !.at = x.at, !.size = x.size, !.fresh = FALSE]
             /\ PutAt(g, lengths, k, x)
<1> DEFINE after == TakeChanges(g)
           axis == Axis(after.orientation)
           other == OtherAxis(axis)
           p == PartialSums(lengths)
           offset == p[k - 1] + Gap * (k - 1)
           coord == IF Reversed(after.orientation)
                    THEN after.size[axis] - offset - lengths[k] ELSE offset
           at == Along(axis, after.at[axis] + coord, after.at[other])
           size == Along(axis, lengths[k], after.size[other])
           x == Configured(g, lengths, k)
<1>1. {"at", "size", "fresh"} \subseteq DOMAIN g.children[k]
  BY DEF Sized
<1>2. x = [g.children[k] EXCEPT !.at = at, !.size = size, !.fresh = FALSE]
  BY DEF Configured
<1>3. p[k - 1] \in Nat /\ p[k] = p[k - 1] + lengths[k]
  <2>1. /\ lengths \in Seq(Int) /\ Len(lengths) \in Nat
        /\ \A j \in 1 .. Len(lengths) : lengths[j] \in Nat
    OBVIOUS
  <2>2. IsSums(p, lengths, Len(lengths))
    BY <2>1, Sums
  <2> HIDE DEF p
  <2>3. \A i, j \in 0 .. Len(lengths) : i <= j => 0 <= p[i] /\ p[i] <= p[j]
    BY <2>1, <2>2, SumsGrow
  <2>4. k - 1 \in 0 .. Len(lengths) /\ k \in 1 .. Len(lengths)
    BY <2>1
  <2>5. p[k - 1] \in Int /\ p[k] = p[k - 1] + lengths[k]
    BY <2>2, <2>4 DEF IsSums
  <2> QED BY <2>3, <2>4, <2>5
<1> HIDE DEF at, size, x
<1>4. x.at = at /\ x.size = size /\ ~x.fresh
  BY <1>1, <1>2
<1>5. axis \in Axes
  BY AxisIs
<1> HIDE DEF after, axis, coord
<1>6. /\ at[axis] = after.at[axis] + coord /\ at[other] = after.at[other]
      /\ size[axis] = lengths[k] /\ size[other] = after.size[other]
  BY <1>5, AlongIs DEF at, size
<1> QED BY <1>2, <1>3, <1>4, <1>6 DEF PutAt, x, coord, axis, after

\* What a group is once its children are placed.
LEMMA ArrangedFields ==
  ASSUME NEW g, Sized(g), ChangesMade(g), Len(g.children) \in Nat
  PROVE  LET a       == Arranged(g)
             h       == TakeChanges(g)
             lengths == Lengths(g)
         IN  /\ DOMAIN a = GroupFields /\ a.kind = g.kind /\ a.fresh = g.fresh
             /\ a.orientation = h.orientation /\ a.newOrientation = None
             /\ a.additions = <<>> /\ a.removed = 0
             /\ a.newSize = Unchanged /\ a.newAt = Unchanged
             /\ a.at = h.at /\ a.size = h.size
             /\ a.total = PartialSums(lengths)[Len(g.children)]
             /\ Len(a.children) = Len(g.children)
             /\ DOMAIN a.children = 1 .. Len(g.children)
             /\ \A k \in 1 .. Len(g.children) : a.children[k] = Configured(g, lengths, k)
<1> DEFINE n == Len(g.children)
           h == TakeChanges(g)
           lengths == Lengths(g)
           c == [k \in 1 .. n |-> Configured(g, lengths, k)]
           t == PartialSums(lengths)[n]
           a == Arranged(g)
<1>1. /\ DOMAIN h = GroupFields /\ h.kind = g.kind /\ h.fresh = g.fresh
      /\ h.newOrientation = None /\ h.additions = <<>> /\ h.removed = 0
      /\ h.newSize = Unchanged /\ h.newAt = Unchanged
  BY TakenFields DEF Sized
<1>2. a = [h EXCEPT !.children = c, !.total = t]
  BY DEF Arranged
<1>3. Len(c) = n /\ DOMAIN c = 1 .. n /\ \A k \in 1 .. n : c[k] = Configured(g, lengths, k)
  OBVIOUS
<1> HIDE DEF c, t, h, a, lengths
<1>4. /\ DOMAIN a = DOMAIN h /\ a.children = c /\ a.total = t
      /\ a.kind = h.kind /\ a.fresh = h.fresh
      /\ a.orientation = h.orientation /\ a.newOrientation = h.newOrientation
      /\ a.additions = h.additions /\ a.removed = h.removed
      /\ a.newSize = h.newSize /\ a.newAt = h.newAt /\ a.at = h.at /\ a.size = h.size
  BY <1>1, <1>2 DEF GroupFields
<1> QED BY <1>1, <1>3, <1>4 DEF a, h, lengths, t

\* apply_changes puts the nodes in the group, side by side, the gap between
\* them, and the total is that of their sizes.
LEMMA ArrangedLaid ==
  ASSUME NEW g, Measured(g), Sized(g), ChangesMade(g), ~ApplyPanics(g)
  PROVE  LET a == Arranged(g)
         IN  /\ Laid(a) /\ \A k \in 1 .. Len(g.children) : ~a.children[k].fresh
             /\ Len(a.children) = Len(g.children)
             /\ \A k \in 1 .. Len(g.children) : Inside(a, a.children[k])
             /\ \A k \in 1 .. Len(g.children) : Sides(a)[k] = Lengths(g)[k]
             /\ SidesTotal(a) = PartialSums(Lengths(g))[Len(g.children)]
             /\ a.total = SidesTotal(a)
<1> DEFINE n == Len(g.children)
           after == TakeChanges(g)
           axis == Axis(after.orientation)
           other == OtherAxis(axis)
           lengths == Lengths(g)
           p == PartialSums(lengths)
           a == Arranged(g)
           x(k) == a.children[k]
           start(k) == p[k - 1] + Gap * (k - 1)
           room == after.size[axis]
<1>1. n \in Nat /\ NewSide(g) \in Int
  BY DEF Measured
<1>2. /\ lengths \in Seq(Nat) /\ Len(lengths) = n
      /\ n > 0 => p[n] <= Free(g)
  BY LengthsFit
<1>3. /\ a.orientation = after.orientation /\ a.at = after.at /\ a.size = after.size
      /\ a.total = p[n] /\ Len(a.children) = n /\ DOMAIN a.children = 1 .. n
      /\ \A k \in 1 .. n : x(k) = Configured(g, lengths, k)
  BY <1>1, ArrangedFields
<1>4. axis \in Axes /\ other \in Axes
  BY AxisIs, AlongIs
<1>5. after.at[axis] \in Int /\ room \in Int
  BY <1>4 DEF Sized
<1>6. Free(g) = room - TotalGap(n)
  BY DEF Free, NewSide
<1> HIDE DEF lengths, a
<1>7. \A k \in 1 .. n :
        /\ ~x(k).fresh
        /\ x(k).size[axis] = lengths[k] /\ x(k).size[other] = after.size[other]
        /\ x(k).at[other] = after.at[other]
        /\ p[k - 1] \in Nat /\ p[k] = p[k - 1] + lengths[k]
        /\ x(k).at[axis] = after.at[axis] +
             IF Reversed(after.orientation) THEN room - start(k) - lengths[k] ELSE start(k)
  <2>1. ASSUME NEW k \in 1 .. n PROVE PutAt(g, lengths, k, x(k))
    <3>1. x(k) = Configured(g, lengths, k)
      BY <1>3
    <3>2. PutAt(g, lengths, k, Configured(g, lengths, k))
      BY <1>2, ConfiguredAt
    <3> QED BY <3>1, <3>2
  <2> QED BY <2>1 DEF PutAt
<1>8. /\ lengths \in Seq(Int)
      /\ \A k \in 1 .. n : lengths[k] \in Nat
  BY <1>1, <1>2
<1>9. IsSums(p, lengths, n)
  BY <1>2, <1>8, Sums
<1> HIDE DEF after, axis, other, p, room, n
<1>10. \A j, k \in 0 .. n : j <= k => 0 <= p[j] /\ p[j] <= p[k]
  BY <1>1, <1>8, <1>9, SumsGrow
<1>11. \A k \in 0 .. n : p[k] \in Int
  BY <1>9 DEF IsSums
\* The gaps.
<1>12. \A j, k \in Int : Gap * j \in Int /\ (0 <= j => 0 <= Gap * j) /\ (j <= k => Gap * j <= Gap * k)
  <2>1. Gap \in Int /\ Gap >= 0
    BY GapAssumption
  <2> SUFFICES ASSUME NEW j \in Int, NEW k \in Int
               PROVE  Gap * j \in Int /\ (0 <= j => 0 <= Gap * j) /\ (j <= k => Gap * j <= Gap * k)
    OBVIOUS
  <2> QED BY <2>1, Products
<1>13. \A k \in 1 .. n : /\ start(k) \in Int /\ start(k) >= 0
                         /\ start(k) + lengths[k] = p[k] + Gap * (k - 1)
  <2> SUFFICES ASSUME NEW k \in 1 .. n
               PROVE  /\ start(k) \in Int /\ start(k) >= 0
                      /\ start(k) + lengths[k] = p[k] + Gap * (k - 1)
    OBVIOUS
  <2>1. p[k - 1] \in Nat /\ p[k] = p[k - 1] + lengths[k] /\ lengths[k] \in Nat
    BY <1>7, <1>8
  <2>2. k - 1 \in Int /\ 0 <= k - 1
    OBVIOUS
  <2>3. Gap * (k - 1) \in Int /\ 0 <= Gap * (k - 1)
    BY <1>12, <2>2
  <2> QED BY <2>1, <2>3
<1>14. \A k \in 1 .. n : start(k) + lengths[k] <= room
  <2> SUFFICES ASSUME NEW k \in 1 .. n PROVE p[k] + Gap * (k - 1) <= room
    BY <1>13
  <2>1. n > 0 /\ k \in 0 .. n /\ n \in 0 .. n /\ k <= n /\ k - 1 \in Int /\ n - 1 \in Int /\ k - 1 <= n - 1
    BY <1>1
  <2>2. p[k] <= p[n] /\ p[k] \in Int /\ p[n] \in Int
    BY <1>10, <1>11, <2>1
  <2>3. Gap * (k - 1) <= Gap * (n - 1) /\ Gap * (k - 1) \in Int /\ Gap * (n - 1) \in Int
    BY <1>12, <2>1
  <2>4. TotalGap(n) = Gap * (n - 1)
    BY <1>1, <2>1, GapAssumption DEF TotalGap
  <2> QED BY <1>2, <1>5, <1>6, <2>1, <2>2, <2>3, <2>4
<1>15. \A j, k \in 1 .. n : j < k => start(j) + lengths[j] + Gap <= start(k)
  <2> SUFFICES ASSUME NEW j \in 1 .. n, NEW k \in 1 .. n, j < k
               PROVE  p[j] + Gap * (j - 1) + Gap <= p[k - 1] + Gap * (k - 1)
    BY <1>13
  <2>1. j \in 0 .. n /\ k - 1 \in 0 .. n /\ j <= k - 1 /\ j \in Int /\ k - 1 \in Int /\ j - 1 \in Int
    BY <1>1
  <2>2. p[j] <= p[k - 1] /\ p[j] \in Int /\ p[k - 1] \in Int
    BY <1>10, <1>11, <2>1
  <2>3. Gap * j <= Gap * (k - 1) /\ Gap * j \in Int /\ Gap * (k - 1) \in Int
    BY <1>12, <2>1
  <2>4. Gap * (j - 1) + Gap = Gap * j /\ Gap * (j - 1) \in Int /\ Gap \in Int
    BY GapAssumption
  <2> QED BY <2>2, <2>3, <2>4
<1> HIDE DEF start
<1>16. \A k \in 1 .. n : Inside(a, x(k))
  <2> SUFFICES ASSUME NEW k \in 1 .. n PROVE Inside(a, x(k))
    OBVIOUS
  <2>1. /\ x(k).size[axis] = lengths[k] /\ lengths[k] \in Nat
        /\ x(k).at[axis] = after.at[axis] +
             IF Reversed(after.orientation) THEN room - start(k) - lengths[k] ELSE start(k)
        /\ start(k) \in Int /\ start(k) >= 0 /\ start(k) + lengths[k] <= room
    BY <1>7, <1>8, <1>13, <1>14
  <2>2. /\ x(k).at[axis] \in Int /\ x(k).at[axis] >= after.at[axis]
        /\ x(k).at[axis] + x(k).size[axis] <= after.at[axis] + room
    BY <1>5, <2>1
  <2> QED BY <1>3, <1>7, <2>1, <2>2 DEF Inside, axis, other, room
<1>17. ASSUME NEW j \in 1 .. n, NEW k \in 1 .. n, j < k
       PROVE  IF Reversed(a.orientation) THEN Apart(Axis(a.orientation), x(k), x(j))
                                         ELSE Apart(Axis(a.orientation), x(j), x(k))
  <2>1. /\ x(j).size[axis] = lengths[j] /\ x(k).size[axis] = lengths[k]
        /\ lengths[j] \in Nat /\ lengths[k] \in Nat
        /\ x(j).at[axis] = after.at[axis] +
             IF Reversed(after.orientation) THEN room - start(j) - lengths[j] ELSE start(j)
        /\ x(k).at[axis] = after.at[axis] +
             IF Reversed(after.orientation) THEN room - start(k) - lengths[k] ELSE start(k)
        /\ start(j) \in Int /\ start(k) \in Int /\ start(j) + lengths[j] + Gap <= start(k)
    BY <1>7, <1>8, <1>13, <1>15, <1>17
  <2>2. axis = Axis(a.orientation) /\ after.orientation = a.orientation /\ Gap \in Int
    BY <1>3, GapAssumption DEF axis
  <2>3. CASE Reversed(a.orientation)
    BY <1>5, <2>1, <2>2, <2>3 DEF Apart
  <2>4. CASE ~Reversed(a.orientation)
    BY <1>5, <2>1, <2>2, <2>4 DEF Apart
  <2> QED BY <2>3, <2>4
<1>18. Laid(a)
  BY <1>3, <1>16, <1>17 DEF Laid
<1>19. \A k \in 1 .. n : Sides(a)[k] = lengths[k]
  BY <1>3, <1>7 DEF Sides, axis
<1>20. SidesTotal(a) = p[n]
  <2>1. IsSums(PartialSums(Sides(a)), Sides(a), n)
    <3>1. Sides(a) \in Seq(Int) /\ Len(Sides(a)) = n
      <4>1. Sides(a) = [k \in 1 .. n |-> Sides(a)[k]]
        BY <1>3 DEF Sides
      <4> QED BY <1>1, <1>8, <1>19, <4>1
    <3> QED BY <3>1, Sums
  <2>2. n \in 0 .. n
    BY <1>1
  <2>3. PartialSums(Sides(a))[n] = p[n]
    BY <1>1, <1>9, <1>19, <2>1, <2>2, SumsAgree
  <2> QED BY <1>3, <2>3 DEF SidesTotal
<1> QED BY <1>3, <1>7, <1>16, <1>18, <1>19, <1>20 DEF a, lengths, p, n

-----------------------------------------------------------------------------
(* What adding and taking nodes does to the sizes and the places.          *)

\* Each node has a size along the group, and a new one none.
Grounded(g) ==
  /\ Len(g.children) \in Nat
  /\ \A k \in 1 .. Len(g.children) :
       /\ g.children[k].size[Axis(g.orientation)] \in Nat
       /\ g.children[k].fresh => g.children[k].size[Axis(g.orientation)] = 0

\* New nodes leave the total of the sizes.
LEMMA SidesOpened ==
  ASSUME NEW g, Grounded(g), NEW h, h.orientation = g.orientation, NEW i, NEW n \in Nat, NEW V,
         NodesOpened(g.children, h.children, i, n, V)
  PROVE  Grounded(h) /\ SidesTotal(h) = SidesTotal(g)
<1> DEFINE c == g.children
           d == h.children
           m == Len(c)
           axis == Axis(g.orientation)
           s == Sides(g)
           t == Sides(h)
<1>1. /\ m \in Nat /\ i \in 0 .. m /\ Len(d) = m + n
      /\ \A k \in 1 .. i : d[k] = c[k]
      /\ \A k \in 1 .. n : IsNew(d[i + k], V)
      /\ \A k \in i + 1 .. m : d[n + k] = c[k]
  BY DEF NodesOpened, Grounded
<1>2. \A k \in 1 .. m : /\ c[k].size[axis] \in Nat
                        /\ c[k].fresh => c[k].size[axis] = 0
  BY DEF Grounded
<1>3. \A k \in 1 .. n : d[i + k].size[axis] = 0
  <2>1. Both(0)[axis] = 0
    BY AxisIs DEF Both
  <2>2. \A k \in 1 .. n : d[i + k].size = Both(0)
    BY <1>1 DEF IsNew
  <2> QED BY <2>1, <2>2
<1> HIDE DEF axis
<1>4. ASSUME NEW k \in 1 .. m + n
      PROVE  /\ d[k].size[axis] \in Nat
             /\ d[k].fresh => d[k].size[axis] = 0
  <2>1. CASE k <= i
    <3>1. k \in 1 .. i /\ k \in 1 .. m
      BY <1>1, <2>1
    <3>2. d[k] = c[k]
      BY <1>1, <3>1
    <3> QED BY <1>2, <3>1, <3>2
  <2>2. CASE i < k /\ k <= i + n
    <3>1. k - i \in 1 .. n /\ i + (k - i) = k
      BY <1>1, <2>2
    <3>2. d[k].size[axis] = 0
      BY <1>3, <3>1
    <3> QED BY <3>2
  <2>3. CASE i + n < k
    <3>1. k - n \in i + 1 .. m /\ n + (k - n) = k /\ k - n \in 1 .. m
      BY <1>1, <2>3
    <3>2. d[k] = c[k - n]
      BY <1>1, <3>1
    <3> QED BY <1>2, <3>1, <3>2
  <2> QED BY <1>1, <2>1, <2>2, <2>3
<1>5. Grounded(h)
  BY <1>1, <1>4 DEF Grounded, axis
<1>6. IsSums(PartialSums(s), s, m) /\ IsSums(PartialSums(t), t, m + n)
  <2>1. IsSums(PartialSums(Sides(h)), Sides(h), Len(h.children))
    BY <1>5, SidesAre DEF Grounded
  <2>2. IsSums(PartialSums(Sides(g)), Sides(g), Len(g.children))
    BY SidesAre DEF Grounded
  <2> QED BY <1>1, <2>1, <2>2
<1>7. /\ \A k \in 1 .. m : s[k] = c[k].size[axis]
      /\ \A k \in 1 .. m + n : t[k] = d[k].size[axis]
  BY <1>1 DEF Sides, axis
<1> HIDE DEF s, t, c, d, m
<1>8. \A k \in 1 .. i : t[k] = s[k]
  BY <1>1, <1>7
<1>9. \A k \in 1 .. n : t[i + k] = 0
  BY <1>1, <1>3, <1>7
<1>10. \A k \in i + 1 .. m : t[n + k] = s[k]
  BY <1>1, <1>7
<1>11. PartialSums(t)[m + n] = PartialSums(s)[m]
  <2> DEFINE l == m + n
  <2>1. m \in Nat /\ n \in Nat /\ i \in 0 .. m /\ l = m + n /\ IsSums(PartialSums(t), t, l)
    BY <1>1, <1>6
  <2> HIDE DEF l
  <2>2. ZerosPut(s, t, i, m, n)
    BY <1>8, <1>9, <1>10 DEF ZerosPut
  <2>3. PartialSums(t)[l] = PartialSums(s)[m]
    BY <1>6, <2>1, <2>2, SumsOpened
  <2> QED BY <2>1, <2>3
<1>12. SidesTotal(h) = PartialSums(t)[m + n] /\ SidesTotal(g) = PartialSums(s)[m]
  BY <1>1 DEF SidesTotal, s, t, c, d, m
<1> QED BY <1>5, <1>11, <1>12

\* A node that is taken takes its size from the total.
LEMMA SidesClosed ==
  ASSUME NEW g, Grounded(g), NEW h, h.orientation = g.orientation, NEW i,
         NodesClosed(g.children, h.children, i)
  PROVE  Grounded(h) /\ SidesTotal(h) = SidesTotal(g) - g.children[i + 1].size[Axis(g.orientation)]
<1> DEFINE c == g.children
           d == h.children
           m == Len(c)
           axis == Axis(g.orientation)
           s == Sides(g)
           t == Sides(h)
<1>1. /\ m \in Nat /\ i \in 0 .. m - 1 /\ Len(d) = m - 1 /\ m - 1 \in Nat
      /\ \A k \in 1 .. i : d[k] = c[k]
      /\ \A k \in i + 2 .. m : d[k - 1] = c[k]
  BY DEF NodesClosed, Grounded
<1>2. \A k \in 1 .. m : /\ c[k].size[axis] \in Nat
                        /\ c[k].fresh => c[k].size[axis] = 0
  BY DEF Grounded
<1> HIDE DEF axis
<1>4. ASSUME NEW k \in 1 .. m - 1
      PROVE  /\ d[k].size[axis] \in Nat
             /\ d[k].fresh => d[k].size[axis] = 0
  <2>1. CASE k <= i
    BY <1>1, <1>2, <2>1
  <2>2. CASE i < k
    <3>1. k + 1 \in i + 2 .. m /\ (k + 1) - 1 = k /\ k + 1 \in 1 .. m
      BY <1>1, <2>2
    <3>2. d[k] = c[k + 1]
      BY <1>1, <3>1
    <3> QED BY <1>2, <3>1, <3>2
  <2> QED BY <1>1, <2>1, <2>2
<1>5. Grounded(h)
  BY <1>1, <1>4 DEF Grounded, axis
<1>6. IsSums(PartialSums(s), s, m) /\ IsSums(PartialSums(t), t, m - 1)
  <2>1. IsSums(PartialSums(Sides(h)), Sides(h), Len(h.children))
    BY <1>5, SidesAre DEF Grounded
  <2>2. IsSums(PartialSums(Sides(g)), Sides(g), Len(g.children))
    BY SidesAre DEF Grounded
  <2> QED BY <1>1, <2>1, <2>2
<1>7. /\ \A k \in 1 .. m : s[k] = c[k].size[axis]
      /\ \A k \in 1 .. m - 1 : t[k] = d[k].size[axis]
  BY <1>1 DEF Sides, axis
<1> HIDE DEF s, t, c, d, m
<1>8. \A k \in 1 .. i : t[k] = s[k]
  BY <1>1, <1>7
<1>9. \A k \in i + 2 .. m : t[k - 1] = s[k]
  BY <1>1, <1>7
<1>10. \A k \in 1 .. m : s[k] \in Int
  BY <1>2, <1>7
<1>11. PartialSums(t)[m - 1] = PartialSums(s)[m] - s[i + 1]
  <2>1. m \in Nat /\ i \in 0 .. m - 1
    BY <1>1
  <2> QED BY <1>6, <1>8, <1>9, <1>10, <2>1, SumsClosed
<1>12. /\ SidesTotal(h) = PartialSums(t)[m - 1] /\ SidesTotal(g) = PartialSums(s)[m]
       /\ s[i + 1] = c[i + 1].size[axis]
  BY <1>1, <1>7 DEF SidesTotal, s, t, c, d, m
<1> QED BY <1>5, <1>11, <1>12 DEF axis, c

\* Nodes that stay where they are, in their order, stay laid out, whichever
\* others come or go.
LEMMA LaidKept ==
  ASSUME NEW g, Laid(g), NEW h, NEW f,
         h.orientation = g.orientation, h.at = g.at, h.size = g.size,
         \A k \in 1 .. Len(h.children) :
           ~h.children[k].fresh =>
             /\ f[k] \in 1 .. Len(g.children) /\ ~g.children[f[k]].fresh
             /\ h.children[k].at = g.children[f[k]].at
             /\ h.children[k].size = g.children[f[k]].size,
         \A j, k \in 1 .. Len(h.children) :
           j < k /\ ~h.children[j].fresh /\ ~h.children[k].fresh => f[j] < f[k]
  PROVE  Laid(h)
<1>1. ASSUME NEW k \in 1 .. Len(h.children), ~h.children[k].fresh
      PROVE  Inside(h, h.children[k])
  <2>1. Inside(g, g.children[f[k]])
    BY <1>1 DEF Laid
  <2> QED BY <1>1, <2>1 DEF Inside
<1>2. ASSUME NEW j \in 1 .. Len(h.children), NEW k \in 1 .. Len(h.children),
             j < k, ~h.children[j].fresh, ~h.children[k].fresh
      PROVE  IF Reversed(h.orientation)
             THEN Apart(Axis(h.orientation), h.children[k], h.children[j])
             ELSE Apart(Axis(h.orientation), h.children[j], h.children[k])
  <2>1. f[j] < f[k] /\ f[j] \in 1 .. Len(g.children) /\ f[k] \in 1 .. Len(g.children)
        /\ ~g.children[f[j]].fresh /\ ~g.children[f[k]].fresh
    BY <1>2
  <2>2. IF Reversed(g.orientation)
        THEN Apart(Axis(g.orientation), g.children[f[k]], g.children[f[j]])
        ELSE Apart(Axis(g.orientation), g.children[f[j]], g.children[f[k]])
    BY <2>1 DEF Laid
  <2> QED BY <1>2, <2>2 DEF Apart
<1> QED BY <1>1, <1>2 DEF Laid

\* New nodes leave the others laid out.
LEMMA LaidOpened ==
  ASSUME NEW g, Laid(g), Len(g.children) \in Nat, NEW h,
         h.orientation = g.orientation, h.at = g.at, h.size = g.size,
         NEW i, NEW n \in Nat, NEW V, NodesOpened(g.children, h.children, i, n, V)
  PROVE  Laid(h)
<1> DEFINE c == g.children
           d == h.children
           m == Len(c)
           f == [k \in 1 .. m + n |-> IF k <= i THEN k ELSE k - n]
<1>1. /\ m \in Nat /\ i \in 0 .. m /\ Len(d) = m + n
      /\ \A k \in 1 .. i : d[k] = c[k]
      /\ \A k \in 1 .. n : IsNew(d[i + k], V)
      /\ \A k \in i + 1 .. m : d[n + k] = c[k]
  BY DEF NodesOpened
<1>2. \A k \in 1 .. m + n : f[k] = IF k <= i THEN k ELSE k - n
  OBVIOUS
<1> HIDE DEF f, c, d, m
<1>3. ASSUME NEW k \in 1 .. m + n, ~d[k].fresh
      PROVE  f[k] \in 1 .. m /\ d[k] = c[f[k]] /\ (k <= i \/ k > i + n)
  <2>1. CASE k <= i
    BY <1>1, <1>2, <2>1
  <2>2. CASE i < k /\ k <= i + n
    <3>1. k - i \in 1 .. n /\ i + (k - i) = k
      BY <1>1, <2>2
    <3>2. d[k].fresh
      BY <1>1, <3>1 DEF IsNew
    <3> QED BY <1>3, <3>2
  <2>3. CASE i + n < k
    <3>1. k - n \in i + 1 .. m /\ n + (k - n) = k /\ k - n \in 1 .. m /\ ~(k <= i)
      BY <1>1, <2>3
    <3> QED BY <1>1, <1>2, <2>3, <3>1
  <2> QED BY <1>1, <2>1, <2>2, <2>3
<1>4. ASSUME NEW j \in 1 .. m + n, NEW k \in 1 .. m + n, j < k, ~d[j].fresh, ~d[k].fresh
      PROVE  f[j] < f[k]
  <2>1. (j <= i \/ j > i + n) /\ (k <= i \/ k > i + n)
    BY <1>3, <1>4
  <2> QED BY <1>1, <1>2, <1>4, <2>1
<1>5. /\ \A k \in 1 .. Len(d) :
           ~d[k].fresh => /\ f[k] \in 1 .. Len(c) /\ ~c[f[k]].fresh
                          /\ d[k].at = c[f[k]].at /\ d[k].size = c[f[k]].size
      /\ \A j, k \in 1 .. Len(d) : j < k /\ ~d[j].fresh /\ ~d[k].fresh => f[j] < f[k]
  <2>1. 1 .. Len(d) = 1 .. m + n /\ Len(c) = m
    BY <1>1 DEF m
  <2> QED BY <1>3, <1>4, <2>1
<1> QED BY <1>5, LaidKept DEF c, d

\* A node that is taken leaves them so.
LEMMA LaidClosed ==
  ASSUME NEW g, Laid(g), Len(g.children) \in Nat, NEW h,
         h.orientation = g.orientation, h.at = g.at, h.size = g.size,
         NEW i, NodesClosed(g.children, h.children, i)
  PROVE  Laid(h)
<1> DEFINE c == g.children
           d == h.children
           m == Len(c)
           f == [k \in 1 .. m - 1 |-> IF k <= i THEN k ELSE k + 1]
<1>1. /\ m \in Nat /\ i \in 0 .. m - 1 /\ Len(d) = m - 1
      /\ \A k \in 1 .. i : d[k] = c[k]
      /\ \A k \in i + 2 .. m : d[k - 1] = c[k]
  BY DEF NodesClosed
<1>2. \A k \in 1 .. m - 1 : f[k] = IF k <= i THEN k ELSE k + 1
  OBVIOUS
<1> HIDE DEF f, c, d, m
<1>3. ASSUME NEW k \in 1 .. m - 1 PROVE f[k] \in 1 .. m /\ d[k] = c[f[k]]
  <2>1. CASE k <= i
    BY <1>1, <1>2, <2>1
  <2>2. CASE i < k
    <3>1. k + 1 \in i + 2 .. m /\ (k + 1) - 1 = k /\ k + 1 \in 1 .. m /\ ~(k <= i)
      BY <1>1, <2>2
    <3> QED BY <1>1, <1>2, <3>1
  <2> QED BY <1>1, <2>1, <2>2
<1>4. \A j, k \in 1 .. m - 1 : j < k => f[j] < f[k]
  BY <1>1, <1>2
<1>5. /\ \A k \in 1 .. Len(d) :
           ~d[k].fresh => /\ f[k] \in 1 .. Len(c) /\ ~c[f[k]].fresh
                          /\ d[k].at = c[f[k]].at /\ d[k].size = c[f[k]].size
      /\ \A j, k \in 1 .. Len(d) : j < k /\ ~d[j].fresh /\ ~d[k].fresh => f[j] < f[k]
  <2>1. 1 .. Len(d) = 1 .. m - 1 /\ Len(c) = m
    BY <1>1 DEF m
  <2> QED BY <1>3, <1>4, <2>1
<1> QED BY <1>5, LaidKept DEF c, d

-----------------------------------------------------------------------------
(* How many of the nodes have been placed, and the gaps between them.      *)

Ones(g) == [k \in 1 .. Len(g.children) |-> IF g.children[k].fresh THEN 0 ELSE 1]
PlacedCount(g) == PartialSums(Ones(g))[Len(g.children)]

\* What the total has of the sizes, with the gaps, is no more than the group.
Roomy(g) ==
  g.total - g.removed + TotalGap(PlacedCount(g)) <= g.size[Axis(g.orientation)]

\* The numbers that PlacedCount adds up: one for each node that is not new.
LEMMA OnesAre ==
  ASSUME NEW g, Len(g.children) \in Nat
  PROVE  /\ \A k \in 1 .. Len(g.children) : Ones(g)[k] \in {0, 1}
         /\ IsSums(PartialSums(Ones(g)), Ones(g), Len(g.children))
         /\ PlacedCount(g) \in Nat
<1> DEFINE n == Len(g.children)
           s == Ones(g)
<1>1. s \in Seq(Int) /\ Len(s) = n /\ \A k \in 1 .. n : s[k] \in {0, 1}
  BY DEF Ones
<1> HIDE DEF s
<1>2. IsSums(PartialSums(s), s, n)
  BY <1>1, Sums
<1>3. n \in 0 .. n /\ \A k \in 1 .. n : s[k] \in Nat
  BY <1>1
<1> HIDE DEF n
<1>4. PartialSums(s)[n] \in Nat
  <2>1. n \in Nat
    BY DEF n
  <2>2. 0 <= PartialSums(s)[n]
    BY <1>2, <1>3, <2>1, SumsGrow
  <2> QED BY <1>2, <1>3, <2>2 DEF IsSums
<1> QED BY <1>1, <1>2, <1>4 DEF n, s, PlacedCount

\* New nodes are not among them.
LEMMA CountOpened ==
  ASSUME NEW g, Len(g.children) \in Nat, NEW h, NEW i, NEW n \in Nat, NEW V,
         NodesOpened(g.children, h.children, i, n, V)
  PROVE  PlacedCount(h) = PlacedCount(g)
<1> DEFINE c == g.children
           d == h.children
           m == Len(c)
           l == m + n
           s == Ones(g)
           t == Ones(h)
<1>1. /\ m \in Nat /\ i \in 0 .. m /\ Len(d) = l /\ l \in Nat
      /\ \A k \in 1 .. i : d[k] = c[k]
      /\ \A k \in 1 .. n : d[i + k].fresh
      /\ \A k \in i + 1 .. m : d[n + k] = c[k]
  <2>1. \A k \in 1 .. n : IsNew(d[i + k], V)
    BY DEF NodesOpened
  <2>2. \A k \in 1 .. n : d[i + k].fresh
    BY <2>1 DEF IsNew
  <2> QED BY <2>2 DEF NodesOpened
<1>2. IsSums(PartialSums(s), s, m) /\ IsSums(PartialSums(t), t, l)
  BY <1>1, OnesAre
<1>3. /\ \A k \in 1 .. m : s[k] = IF c[k].fresh THEN 0 ELSE 1
      /\ \A k \in 1 .. l : t[k] = IF d[k].fresh THEN 0 ELSE 1
  BY <1>1 DEF Ones
<1> HIDE DEF s, t, c, d, m
<1>4. ZerosPut(s, t, i, m, n)
  <2>1. \A k \in 1 .. i : t[k] = s[k]
    BY <1>1, <1>3
  <2>2. \A k \in 1 .. n : t[i + k] = 0
    <3>1. \A k \in 1 .. n : i + k \in 1 .. l
      BY <1>1
    <3> QED BY <1>1, <1>3, <3>1
  <2>3. \A k \in i + 1 .. m : t[n + k] = s[k]
    BY <1>1, <1>3
  <2> QED BY <2>1, <2>2, <2>3 DEF ZerosPut
<1>5. l = m + n
  OBVIOUS
<1> HIDE DEF l
<1>6. PartialSums(t)[l] = PartialSums(s)[m]
  BY <1>1, <1>2, <1>4, <1>5, SumsOpened
<1> QED BY <1>1, <1>6 DEF PlacedCount, s, t, c, d, m

\* A node that is taken is one of them, or none.
LEMMA CountClosed ==
  ASSUME NEW g, Len(g.children) \in Nat, NEW h, NEW i,
         NodesClosed(g.children, h.children, i)
  PROVE  PlacedCount(h) <= PlacedCount(g)
<1> DEFINE c == g.children
           d == h.children
           m == Len(c)
           s == Ones(g)
           t == Ones(h)
<1>1. /\ m \in Nat /\ i \in 0 .. m - 1 /\ Len(d) = m - 1 /\ m - 1 \in Nat
      /\ \A k \in 1 .. i : d[k] = c[k]
      /\ \A k \in i + 2 .. m : d[k - 1] = c[k]
  BY DEF NodesClosed
<1>2. IsSums(PartialSums(s), s, m) /\ IsSums(PartialSums(t), t, m - 1)
  BY <1>1, OnesAre
<1>3. /\ \A k \in 1 .. m : s[k] = IF c[k].fresh THEN 0 ELSE 1
      /\ \A k \in 1 .. m - 1 : t[k] = IF d[k].fresh THEN 0 ELSE 1
  BY <1>1 DEF Ones
<1> HIDE DEF s, t, c, d, m
<1>4. \A k \in 1 .. i : t[k] = s[k]
  BY <1>1, <1>3
<1>5. \A k \in i + 2 .. m : t[k - 1] = s[k]
  BY <1>1, <1>3
<1>6. \A k \in 1 .. m : s[k] \in Int
  BY <1>3
<1>7. PartialSums(t)[m - 1] = PartialSums(s)[m] - s[i + 1]
  <2>1. m \in Nat /\ i \in 0 .. m - 1
    BY <1>1
  <2> QED BY <1>2, <1>4, <1>5, <1>6, <2>1, SumsClosed
<1>8. i + 1 \in 1 .. m /\ s[i + 1] \in {0, 1} /\ PartialSums(s)[m] \in Int
  <2>1. i + 1 \in 1 .. m /\ m \in 0 .. m
    BY <1>1
  <2> QED BY <1>2, <1>3, <2>1 DEF IsSums
<1>9. PlacedCount(h) = PartialSums(t)[m - 1] /\ PlacedCount(g) = PartialSums(s)[m]
  BY <1>1 DEF PlacedCount, s, t, c, d, m
<1> QED BY <1>7, <1>8, <1>9

\* When none is new all of them have been placed.
LEMMA CountFull ==
  ASSUME NEW g, Len(g.children) \in Nat, \A k \in 1 .. Len(g.children) : ~g.children[k].fresh
  PROVE  PlacedCount(g) = Len(g.children)
<1> DEFINE n == Len(g.children)
           s == Ones(g)
           one == [k \in 1 .. n |-> 1]
           p == [k \in 0 .. n |-> k]
<1>1. n \in Nat /\ IsSums(PartialSums(s), s, n)
  BY OnesAre
<1>2. \A k \in 1 .. n : s[k] = 1
  BY DEF Ones
<1> HIDE DEF s
<1>3. IsSums(p, one, n)
  <2>1. p \in [0 .. n -> Int] /\ p[0] = 0
    BY <1>1
  <2>2. \A k \in 1 .. n : p[k] = p[k - 1] + one[k]
    BY <1>1
  <2> QED BY <2>1, <2>2 DEF IsSums
<1>4. \A k \in 1 .. n : s[k] = one[k]
  BY <1>2
<1>5. n \in 0 .. n /\ p[n] = n
  BY <1>1
<1> HIDE DEF one, p, n
<1>6. PartialSums(s)[n] = p[n]
  BY <1>1, <1>3, <1>4, <1>5, SumsAgree
<1> QED BY <1>5, <1>6 DEF PlacedCount, s, n

\* More nodes need more gaps.
LEMMA GapsGrow ==
  ASSUME NEW m \in Nat, NEW n \in Nat, m <= n
  PROVE  TotalGap(m) \in Nat /\ TotalGap(m) <= TotalGap(n)
<1>1. Gap \in Int /\ Gap >= 0
  BY GapAssumption
<1>2. CASE m = 0
  <2>1. TotalGap(m) = 0
    BY <1>2 DEF TotalGap
  <2>2. n # 0 => (n - 1) * Gap >= 0
    BY <1>1, Products
  <2> QED BY <2>1, <2>2 DEF TotalGap
<1>3. CASE m # 0
  <2>1. m - 1 \in Nat /\ n - 1 \in Nat /\ m - 1 <= n - 1 /\ n # 0
    BY <1>3
  <2>2. Gap * (m - 1) <= Gap * (n - 1) /\ Gap * (m - 1) >= 0 /\ Gap * (m - 1) \in Int
    BY <1>1, <2>1, Products
  <2>3. (m - 1) * Gap = Gap * (m - 1) /\ (n - 1) * Gap = Gap * (n - 1)
    BY <1>1, <2>1, Products
  <2> QED BY <1>3, <2>1, <2>2, <2>3 DEF TotalGap
<1> QED BY <1>2, <1>3

\* New nodes leave the room of the others.
LEMMA RoomyOpened ==
  ASSUME NEW g, Len(g.children) \in Nat, Roomy(g), NEW h,
         h.orientation = g.orientation, h.size = g.size, h.total = g.total, h.removed = g.removed,
         NEW i, NEW n \in Nat, NEW V, NodesOpened(g.children, h.children, i, n, V)
  PROVE  Roomy(h)
<1>1. PlacedCount(h) = PlacedCount(g)
  BY CountOpened
<1> QED BY <1>1 DEF Roomy

\* So does a node that is taken, whether or not its size is.
LEMMA RoomyClosed ==
  ASSUME NEW g, Len(g.children) \in Nat, Roomy(g), g.total \in Int, g.removed \in Int,
         g.size[Axis(g.orientation)] \in Int,
         NEW h, h.orientation = g.orientation, h.size = g.size, h.total = g.total,
         h.removed \in Int, h.removed >= g.removed,
         NEW i, NodesClosed(g.children, h.children, i)
  PROVE  Roomy(h)
<1>1. Len(h.children) \in Nat
  BY DEF NodesClosed
<1>2. PlacedCount(h) \in Nat /\ PlacedCount(g) \in Nat
  BY <1>1, OnesAre
<1>3. PlacedCount(h) <= PlacedCount(g)
  BY CountClosed
<1>4. /\ TotalGap(PlacedCount(h)) \in Nat /\ TotalGap(PlacedCount(g)) \in Nat
      /\ TotalGap(PlacedCount(h)) <= TotalGap(PlacedCount(g))
  BY <1>2, <1>3, GapsGrow
<1> QED BY <1>4 DEF Roomy

\* A group that only loses nodes, whose nodes have all been placed, gives each
\* no less than it had.
LEMMA LengthsGrow ==
  ASSUME NEW g, Measured(g), ChangesMade(g), ~ApplyPanics(g), Roomy(g),
         \A k \in 1 .. Len(g.children) : ~g.children[k].fresh,
         g.additions = <<>>, NewSide(g) = g.size[Axis(g.orientation)]
  PROVE  \A k \in 1 .. Len(g.children) : Lengths(g)[k] >= Sides(g)[k]
<1> DEFINE n == Len(g.children)
           d == g.total - g.removed
           share == Share(NewSide(g), n)
           rescaling == NewSide(g) - share * 0 - TotalGap(n)
<1>1. n \in Nat /\ g.total \in Int /\ g.removed \in Int /\ NewSide(g) \in Int
  BY DEF Measured
<1>2. \A k \in 1 .. n : ~IsAddition(g, k) /\ Len(g.additions) = 0
  BY DEF IsAddition
<1> SUFFICES ASSUME NEW k \in 1 .. n PROVE Lengths(g)[k] >= Sides(g)[k]
  OBVIOUS
<1>3. d \in Nat \ {0}
  BY <1>1, <1>2 DEF ApplyPanics
<1>4. Sides(g)[k] = g.children[k].size[Axis(g.orientation)] /\ Sides(g)[k] \in Nat
  BY DEF Sides, Measured
<1>5. Lengths(g)[k] = (Sides(g)[k] * rescaling) \div d
  BY <1>2, <1>4 DEF Lengths, NewSide
<1>6. TotalGap(n) \in Nat
  BY <1>1, GapsGrow
<1>7. share \in Int
  BY <1>1, <1>6 DEF Share
<1> HIDE DEF share, n
<1>8. rescaling \in Int /\ d <= rescaling
  <2>1. PlacedCount(g) = n
    BY <1>1, CountFull DEF n
  <2>2. d + TotalGap(n) <= NewSide(g)
    BY <2>1 DEF Roomy
  <2>3. share * 0 = 0
    BY <1>7
  <2> QED BY <1>1, <1>3, <1>6, <2>2, <2>3
<1> DEFINE a == Sides(g)[k]
           q == (a * rescaling) \div d
<1> HIDE DEF d, rescaling
<1>9. a * rescaling \in Int /\ d * a <= a * rescaling /\ a \in Int /\ d \in Int /\ d > 0
  <2>1. a \in Int /\ d \in Int /\ rescaling \in Int /\ a >= 0 /\ d <= rescaling /\ d > 0
    BY <1>3, <1>4, <1>8
  <2> HIDE DEF a
  <2>2. a * rescaling \in Int /\ a * d <= a * rescaling /\ a * d = d * a
    BY <2>1, Products
  <2> QED BY <2>1, <2>2
<1>10. q \in Int /\ a * rescaling <= d * q + (d - 1)
  BY <1>3, <1>9, Quotient
<1> HIDE DEF q
<1>11. d * a <= d * (q + 1)
  <2>1. d * (q + 1) = d * q + d * 1 /\ d * q \in Int /\ d * a \in Int /\ d * 1 = d
    BY <1>9, <1>10, Products
  <2> QED BY <1>9, <1>10, <2>1
<1>12. a # q + 1
  <2> SUFFICES ASSUME a = q + 1 PROVE FALSE
    OBVIOUS
  <2>1. d * a = d * q + d * 1 /\ d * q \in Int /\ d * a \in Int /\ d * 1 = d
    BY <1>9, <1>10, Products
  <2> QED BY <1>9, <1>10, <2>1
<1>13. a <= q + 1
  BY <1>9, <1>10, <1>11, Products
<1>14. q >= a
  BY <1>9, <1>10, <1>12, <1>13
<1> QED BY <1>5, <1>14 DEF q, a

=============================================================================
