---------------------------- MODULE StackLemmas ----------------------------
(***************************************************************************)
(* What the layout of Stack and the state of AquariWm are, and what each   *)
(* of their methods does to the list of the windows that are tiled.        *)
(* AquariWmProofs.tla and X11Proofs.tla rest on these.                     *)
(***************************************************************************)
EXTENDS State, GroupLemmas

-----------------------------------------------------------------------------
(* The shape of the layout.                                                *)

NodeFields == {"kind", "window", "changed", "at", "size", "fresh"}

IsList(c) == c \in Seq(ToSet(c))

IsWindow(x) == DOMAIN x = NodeFields /\ x.kind = "window"

\* A group of windows, upright: the stack, which may have lost all of them.
IsStack(x) ==
  /\ DOMAIN x = GroupFields /\ x.kind = "group"
  /\ x.orientation = "TopToBottom" /\ x.newOrientation = None
  /\ IsList(x.children)
  /\ \A k \in 1 .. Len(x.children) : IsWindow(x.children[k])

\* The main window, or a stack without windows that has come to its place.
IsFirst(x) == IsWindow(x) \/ (IsStack(x) /\ x.children = <<>>)

Shaped(L) ==
  /\ DOMAIN L = GroupFields /\ L.kind = "group"
  /\ L.orientation = "LeftToRight" /\ L.newOrientation = None
  /\ IsList(L.children) /\ Len(L.children) <= 2
  /\ Len(L.children) >= 1 => IsFirst(L.children[1])
  /\ Len(L.children) = 2 => IsStack(L.children[2])

\* The windows of a list of window nodes.
Names(c) == [k \in 1 .. Len(c) |-> c[k].window]

\* The windows of a layout: Tiled, of its layout alone.
HeldIn(L) == Names(WindowNodes(L))

\* The window nodes of one child of the root.
NodesIn(x) == IF x.kind = "window" THEN <<x>> ELSE x.children

\* A list is a list of its elements.
LEMMA ListIs ==
  ASSUME NEW S, NEW c \in Seq(S)
  PROVE  IsList(c)
<1>1. c \in [1 .. Len(c) -> ToSet(c)] /\ Len(c) \in Nat
  BY DEF ToSet
<1> QED BY <1>1 DEF IsList

\* The lists that FlattenSeq is given here.
LEMMA FlattenOne ==
  ASSUME NEW s, s = <<s[1]>>
  PROVE  FlattenSeq(s) = s[1]
<1> DEFINE Rec(f) == [i \in 1 .. Len(s) |-> IF i = 1 THEN s[i] ELSE f[i - 1] \o s[i]]
           flat == CHOOSE f : f = Rec(f)
<1>1. Len(s) = 1
  OBVIOUS
<1>2. FlattenSeq(s) = flat[1]
  BY <1>1 DEF FlattenSeq
<1> DEFINE p == [i \in 1 .. 1 |-> s[1]]
<1>3. p = Rec(p)
  BY <1>1
<1>4. flat = Rec(flat)
  BY <1>3
<1> HIDE DEF flat
<1> QED BY <1>1, <1>2, <1>4

\* The windows of the layout are those of its two parts.
LEMMA FlattenTwo ==
  ASSUME NEW s, s = <<s[1], s[2]>>
  PROVE  FlattenSeq(s) = s[1] \o s[2]
<1> DEFINE Rec(f) == [i \in 1 .. Len(s) |-> IF i = 1 THEN s[i] ELSE f[i - 1] \o s[i]]
           flat == CHOOSE f : f = Rec(f)
<1>1. Len(s) = 2
  OBVIOUS
<1>2. FlattenSeq(s) = flat[2]
  BY <1>1 DEF FlattenSeq
<1> DEFINE p == [i \in 1 .. 2 |-> IF i = 1 THEN s[1] ELSE s[1] \o s[2]]
<1>3. p = Rec(p)
  BY <1>1
<1>4. flat = Rec(flat)
  BY <1>3
<1> HIDE DEF flat
<1>5. flat[1] = s[1]
  BY <1>1, <1>4
<1>6. flat[2] = flat[1] \o s[2]
  BY <1>1, <1>4
<1> QED BY <1>2, <1>5, <1>6

\* The nodes of the windows: of the first child, then of the second.
LEMMA WindowNodesAre ==
  ASSUME NEW L, Shaped(L)
  PROVE  /\ Len(L.children) = 0 => WindowNodes(L) = <<>>
         /\ Len(L.children) = 1 => WindowNodes(L) = NodesIn(L.children[1])
         /\ Len(L.children) = 2
              => WindowNodes(L) = NodesIn(L.children[1]) \o NodesIn(L.children[2])
<1> DEFINE c == L.children
           parts == [k \in DOMAIN c |-> NodesIn(c[k])]
<1>1. IsList(c) /\ DOMAIN c = 1 .. Len(c) /\ Len(c) \in Nat
  BY DEF Shaped, IsList
<1>2. WindowNodes(L) = FlattenSeq(parts)
  BY DEF WindowNodes, NodesIn
<1> HIDE DEF c
<1>3. CASE Len(c) = 0
  <2>1. parts = <<>>
    BY <1>1, <1>3
  <2> QED BY <1>2, <1>3, <2>1 DEF FlattenSeq, c
<1>4. CASE Len(c) = 1
  <2>1. parts = <<NodesIn(c[1])>>
    BY <1>1, <1>4
  <2>2. FlattenSeq(parts) = parts[1]
    <3> HIDE DEF parts
    <3> QED BY <2>1, FlattenOne
  <2> QED BY <1>2, <1>4, <2>1, <2>2 DEF c
<1>5. CASE Len(c) = 2
  <2>1. parts = <<NodesIn(c[1]), NodesIn(c[2])>>
    BY <1>1, <1>5
  <2> HIDE DEF parts
  <2>2. parts[1] = NodesIn(c[1]) /\ parts[2] = NodesIn(c[2])
    BY <2>1
  <2>3. FlattenSeq(parts) = parts[1] \o parts[2]
    BY <2>1, FlattenTwo
  <2>4. WindowNodes(L) = NodesIn(c[1]) \o NodesIn(c[2])
    BY <1>2, <2>2, <2>3
  <2> QED BY <1>5, <2>4 DEF c
<1> QED BY <1>3, <1>4, <1>5 DEF c, Shaped

-----------------------------------------------------------------------------
(* Lists of nodes, and the windows in them.                                *)

\* Names, of the nodes of a list, is a list as long.
LEMMA NamesAre ==
  ASSUME NEW c
  PROVE  /\ IsList(c) => IsList(Names(c)) /\ Len(Names(c)) = Len(c)
         /\ Names(<<>>) = <<>>
         /\ \A x : Names(<<x>>) = <<x.window>>
<1>1. ASSUME IsList(c) PROVE IsList(Names(c)) /\ Len(Names(c)) = Len(c)
  <2>1. Len(c) \in Nat
    BY <1>1 DEF IsList
  <2>2. /\ DOMAIN Names(c) = 1 .. Len(c)
        /\ Names(c) = [k \in 1 .. Len(c) |-> c[k].window]
    BY DEF Names
  <2> DEFINE S == ToSet(Names(c))
  <2>3. \A k \in 1 .. Len(c) : c[k].window \in S
    BY <2>2 DEF ToSet
  <2> HIDE DEF S
  <2>4. Names(c) \in Seq(S)
    BY <2>1, <2>2, <2>3
  <2> QED BY <2>1, <2>2, <2>4 DEF IsList, S
<1>2. Names(<<>>) = <<>>
  BY DEF Names
<1>3. \A x : Names(<<x>>) = <<x.window>>
  BY DEF Names
<1> QED BY <1>1, <1>2, <1>3

\* Two lists of nodes, joined; and their windows.
LEMMA JoinedIs ==
  ASSUME NEW c, NEW d, IsList(c), IsList(d)
  PROVE  /\ IsList(c \o d) /\ Len(c \o d) = Len(c) + Len(d)
         /\ \A k \in 1 .. Len(c) : (c \o d)[k] = c[k]
         /\ \A k \in 1 .. Len(d) : (c \o d)[Len(c) + k] = d[k]
         /\ Names(c \o d) = Names(c) \o Names(d)
<1> DEFINE S == ToSet(c) \cup ToSet(d)
           e == c \o d
<1>1. c \in Seq(S) /\ d \in Seq(S)
  BY DEF IsList
<1>2. /\ e \in Seq(S) /\ Len(e) = Len(c) + Len(d) /\ Len(c) \in Nat /\ Len(d) \in Nat
      /\ \A k \in 1 .. Len(c) : e[k] = c[k]
      /\ \A k \in 1 .. Len(d) : e[Len(c) + k] = d[k]
  <2> HIDE DEF S
  <2> QED BY <1>1
<1> HIDE DEF e
<1>3. IsList(e)
  BY <1>2, ListIs
<1> DEFINE nc == Names(c)
           nd == Names(d)
           f == nc \o nd
<1>4. /\ IsList(nc) /\ Len(nc) = Len(c) /\ IsList(nd) /\ Len(nd) = Len(d)
      /\ \A k \in 1 .. Len(c) : nc[k] = c[k].window
      /\ \A k \in 1 .. Len(d) : nd[k] = d[k].window
  BY NamesAre DEF Names
<1> DEFINE T == ToSet(nc) \cup ToSet(nd)
<1>5. nc \in Seq(T) /\ nd \in Seq(T)
  BY <1>4 DEF IsList
<1> HIDE DEF nc, nd
<1>6. /\ f \in Seq(T) /\ Len(f) = Len(c) + Len(d)
      /\ \A k \in 1 .. Len(c) : f[k] = nc[k]
      /\ \A k \in 1 .. Len(d) : f[Len(c) + k] = nd[k]
  <2> HIDE DEF T
  <2>1. /\ f \in Seq(T) /\ Len(f) = Len(nc) + Len(nd)
        /\ \A k \in 1 .. Len(nc) : f[k] = nc[k]
        /\ \A k \in 1 .. Len(nd) : f[Len(nc) + k] = nd[k]
    BY <1>5
  <2> HIDE DEF f
  <2> QED BY <1>4, <2>1
<1> HIDE DEF f, T
<1>7. f = [k \in 1 .. Len(c) + Len(d) |-> f[k]]
  BY <1>6
<1>8. ASSUME NEW k \in 1 .. Len(c) + Len(d) PROVE f[k] = e[k].window
  <2>1. CASE k \in 1 .. Len(c)
    BY <2>1, <1>2, <1>4, <1>6
  <2>2. CASE k \notin 1 .. Len(c)
    <3>1. k - Len(c) \in 1 .. Len(d) /\ Len(c) + (k - Len(c)) = k
      BY <2>2, <1>2
    <3>2. e[k] = d[k - Len(c)] /\ f[k] = nd[k - Len(c)]
      BY <3>1, <1>2, <1>6
    <3> QED BY <3>1, <3>2, <1>4
  <2> QED BY <2>1, <2>2
<1>9. f = Names(e)
  BY <1>2, <1>7, <1>8 DEF Names
<1> QED BY <1>2, <1>3, <1>9 DEF e, f, nc, nd

\* A list of nodes with one more; and its windows.
LEMMA AppendedIs ==
  ASSUME NEW c, IsList(c), NEW x
  PROVE  /\ IsList(Append(c, x)) /\ Len(Append(c, x)) = Len(c) + 1
         /\ \A k \in 1 .. Len(c) : Append(c, x)[k] = c[k]
         /\ Append(c, x)[Len(c) + 1] = x
         /\ Names(Append(c, x)) = Append(Names(c), x.window)
         /\ ToSet(Append(c, x)) = ToSet(c) \cup {x}
<1> DEFINE S == ToSet(c) \cup {x}
           e == Append(c, x)
<1>1. c \in Seq(S) /\ x \in S
  BY DEF IsList
<1>2. /\ e \in Seq(S) /\ Len(e) = Len(c) + 1 /\ Len(c) \in Nat
      /\ \A k \in 1 .. Len(c) : e[k] = c[k]
      /\ e[Len(c) + 1] = x
  <2> HIDE DEF S
  <2> QED BY <1>1
<1> HIDE DEF e
<1>3. IsList(e)
  BY <1>2, ListIs
<1> DEFINE nc == Names(c)
           f == Append(nc, x.window)
<1>4. /\ IsList(nc) /\ Len(nc) = Len(c)
      /\ \A k \in 1 .. Len(c) : nc[k] = c[k].window
  BY NamesAre DEF Names
<1> DEFINE T == ToSet(nc) \cup {x.window}
<1>5. nc \in Seq(T) /\ x.window \in T
  BY <1>4 DEF IsList
<1> HIDE DEF nc
<1>6. /\ f \in Seq(T) /\ Len(f) = Len(c) + 1
      /\ \A k \in 1 .. Len(c) : f[k] = nc[k]
      /\ f[Len(c) + 1] = x.window
  <2> HIDE DEF T
  <2> QED BY <1>4, <1>5
<1> HIDE DEF f, T
<1>7. f = [k \in 1 .. Len(c) + 1 |-> f[k]]
  BY <1>6
<1>8. ASSUME NEW k \in 1 .. Len(c) + 1 PROVE f[k] = e[k].window
  <2>1. CASE k \in 1 .. Len(c)
    BY <2>1, <1>2, <1>4, <1>6
  <2>2. CASE k = Len(c) + 1
    BY <2>2, <1>2, <1>6
  <2> QED BY <2>1, <2>2, <1>2
<1>9. f = Names(e)
  BY <1>2, <1>7, <1>8 DEF Names
<1>10. ToSet(e) = S
  <2>1. DOMAIN e = 1 .. Len(c) + 1 /\ DOMAIN c = 1 .. Len(c)
    BY <1>1, <1>2
  <2>2. \A k \in 1 .. Len(c) + 1 : k = Len(c) + 1 \/ k \in 1 .. Len(c)
    BY <1>2
  <2>3. \A k \in 1 .. Len(c) : k \in 1 .. Len(c) + 1
    BY <1>2
  <2>4. Len(c) + 1 \in 1 .. Len(c) + 1
    BY <1>2
  <2> QED BY <1>2, <2>1, <2>2, <2>3, <2>4 DEF ToSet
<1> QED BY <1>2, <1>3, <1>9, <1>10 DEF e, f, nc

\* A list of nodes with one fewer; and its windows.
LEMMA RemovedIs ==
  ASSUME NEW c, IsList(c), NEW p \in 1 .. Len(c)
  PROVE  /\ IsList(RemoveAt(c, p)) /\ Len(RemoveAt(c, p)) = Len(c) - 1
         /\ \A k \in 1 .. p - 1 : RemoveAt(c, p)[k] = c[k]
         /\ \A k \in p + 1 .. Len(c) : RemoveAt(c, p)[k - 1] = c[k]
         /\ Names(RemoveAt(c, p)) = RemoveAt(Names(c), p)
<1> DEFINE S == ToSet(c)
           e == RemoveAt(c, p)
<1>1. c \in Seq(S)
  BY DEF IsList
<1>2. /\ e \in Seq(S) /\ Len(e) = Len(c) - 1 /\ Len(c) \in Nat /\ p \in Nat /\ p >= 1
      /\ \A k \in 1 .. p - 1 : e[k] = c[k]
      /\ \A k \in p + 1 .. Len(c) : e[k - 1] = c[k]
  <2>1. Len(c) \in Nat /\ p \in Nat /\ p >= 1
    BY <1>1
  <2> HIDE DEF S
  <2> QED BY <2>1, <1>1, RemoveAtIs
<1> HIDE DEF e
<1>3. IsList(e)
  BY <1>2, ListIs
<1> DEFINE nc == Names(c)
           f == RemoveAt(nc, p)
<1>4. /\ IsList(nc) /\ Len(nc) = Len(c)
      /\ \A k \in 1 .. Len(c) : nc[k] = c[k].window
  BY NamesAre DEF Names
<1> DEFINE T == ToSet(nc)
<1>5. nc \in Seq(T)
  BY <1>4 DEF IsList
<1> HIDE DEF nc
<1>6. /\ f \in Seq(T) /\ Len(f) = Len(c) - 1
      /\ \A k \in 1 .. p - 1 : f[k] = nc[k]
      /\ \A k \in p + 1 .. Len(c) : f[k - 1] = nc[k]
  <2>1. p \in 1 .. Len(nc) /\ Len(nc) = Len(c)
    BY <1>4
  <2> HIDE DEF T
  <2> QED BY <1>5, <2>1, RemoveAtIs
<1> HIDE DEF f, T
<1>7. f = [k \in 1 .. Len(c) - 1 |-> f[k]]
  BY <1>6
<1>8. ASSUME NEW k \in 1 .. Len(c) - 1 PROVE f[k] = e[k].window
  <2>1. CASE k \in 1 .. p - 1
    <3>1. k \in 1 .. Len(c)
      BY <1>2
    <3>2. e[k] = c[k] /\ f[k] = nc[k]
      BY <2>1, <1>2, <1>6
    <3> QED BY <3>1, <3>2, <1>4
  <2>2. CASE k \notin 1 .. p - 1
    <3>1. k + 1 \in p + 1 .. Len(c) /\ k + 1 \in 1 .. Len(c) /\ (k + 1) - 1 = k
      BY <2>2, <1>2
    <3>2. e[k] = c[k + 1] /\ f[k] = nc[k + 1]
      BY <3>1, <1>2, <1>6
    <3> QED BY <3>1, <3>2, <1>4
  <2> QED BY <2>1, <2>2
<1>9. f = Names(e)
  BY <1>2, <1>7, <1>8 DEF Names
<1> QED BY <1>2, <1>3, <1>9 DEF e, f, nc

-----------------------------------------------------------------------------
(* The windows of a layout.                                                *)

\* The window of the first child, if that is one.
FirstIn(x) == IF x.kind = "window" THEN <<x.window>> ELSE <<>>

\* The windows at the place of the main one: one, or none.
LEMMA FrontIs ==
  ASSUME NEW x, IsFirst(x)
  PROVE  IsList(NodesIn(x)) /\ Names(NodesIn(x)) = FirstIn(x) /\ IsList(FirstIn(x))
<1>1. CASE IsWindow(x)
  <2>1. NodesIn(x) = <<x>> /\ FirstIn(x) = <<x.window>>
    BY <1>1 DEF IsWindow, NodesIn, FirstIn
  <2>2. <<x>> \in Seq({x}) /\ <<x.window>> \in Seq({x.window})
    OBVIOUS
  <2>3. IsList(<<x>>) /\ IsList(<<x.window>>)
    BY <2>2, ListIs
  <2> QED BY <2>1, <2>3, NamesAre
<1>2. CASE IsStack(x) /\ x.children = <<>>
  <2>1. NodesIn(x) = <<>> /\ FirstIn(x) = <<>>
    BY <1>2 DEF IsStack, NodesIn, FirstIn
  <2>2. IsList(<<>>)
    BY <1>2 DEF IsStack
  <2> QED BY <2>1, <2>2, NamesAre
<1> QED BY <1>1, <1>2 DEF IsFirst

\* Joining to a list and then appending is joining the appended list.
LEMMA JoinsLast ==
  ASSUME NEW a, IsList(a), NEW x
  PROVE  /\ a \o <<x>> = Append(a, x)
         /\ \A b : IsList(b) => a \o Append(b, x) = Append(a \o b, x)
<1>1. a \o <<x>> = Append(a, x)
  <2>1. a \in Seq(ToSet(a) \cup {x}) /\ x \in ToSet(a) \cup {x}
    BY DEF IsList
  <2> QED BY <2>1
<1>2. ASSUME NEW b, IsList(b) PROVE a \o Append(b, x) = Append(a \o b, x)
  <2> DEFINE S == ToSet(a) \cup ToSet(b) \cup {x}
  <2>1. a \in Seq(S) /\ b \in Seq(S) /\ x \in S
    BY <1>2 DEF IsList
  <2> HIDE DEF S
  <2> QED BY <2>1
<1> QED BY <1>1, <1>2

\* Lists with the same elements at the same places are the same.
LEMMA SameList ==
  ASSUME NEW a, NEW b, IsList(a), IsList(b), Len(a) = Len(b),
         \A k \in 1 .. Len(a) : a[k] = b[k]
  PROVE  a = b
<1>1. /\ a = [k \in 1 .. Len(a) |-> a[k]]
      /\ b = [k \in 1 .. Len(b) |-> b[k]]
  BY DEF IsList
<1> QED BY <1>1

\* Removing from the second of two lists.
LEMMA RemoveBehind ==
  ASSUME NEW a, IsList(a), NEW b, IsList(b), NEW q \in 1 .. Len(b)
  PROVE  /\ Len(a) + q \in 1 .. Len(a \o b) /\ (a \o b)[Len(a) + q] = b[q]
         /\ RemoveAt(a \o b, Len(a) + q) = a \o RemoveAt(b, q)
<1>n. Len(a) \in Nat /\ Len(b) \in Nat
  BY DEF IsList
<1> DEFINE ab == a \o b
           p == Len(a) + q
           r == RemoveAt(ab, p)
           d == RemoveAt(b, q)
           e == a \o d
<1>1. /\ IsList(ab) /\ Len(ab) = Len(a) + Len(b)
      /\ \A k \in 1 .. Len(a) : ab[k] = a[k]
      /\ \A k \in 1 .. Len(b) : ab[Len(a) + k] = b[k]
  BY JoinedIs
<1> HIDE DEF ab
<1>2. p \in 1 .. Len(ab) /\ ab[p] = b[q]
  BY <1>n, <1>1
<1>3. /\ IsList(d) /\ Len(d) = Len(b) - 1
      /\ \A k \in 1 .. q - 1 : d[k] = b[k]
      /\ \A k \in q + 1 .. Len(b) : d[k - 1] = b[k]
  BY RemovedIs
<1> HIDE DEF p, d
<1>4. /\ IsList(r) /\ Len(r) = Len(ab) - 1
      /\ \A k \in 1 .. p - 1 : r[k] = ab[k]
      /\ \A k \in p + 1 .. Len(ab) : r[k - 1] = ab[k]
  BY <1>1, <1>2, RemovedIs
<1>5. /\ IsList(e) /\ Len(e) = Len(a) + Len(d)
      /\ \A k \in 1 .. Len(a) : e[k] = a[k]
      /\ \A k \in 1 .. Len(d) : e[Len(a) + k] = d[k]
  BY <1>3, JoinedIs
<1> HIDE DEF r, e
<1>6. Len(r) = Len(e) /\ Len(r) = Len(a) + Len(b) - 1
  BY <1>n, <1>1, <1>3, <1>4, <1>5
<1>7. ASSUME NEW k \in 1 .. Len(r) PROVE r[k] = e[k]
  <2>0. k \in Nat /\ k >= 1 /\ k <= Len(a) + Len(b) - 1 /\ q \in Nat /\ q >= 1 /\ q <= Len(b)
    BY <1>n, <1>6
  <2>1. CASE k <= Len(a)
    <3>1. k \in 1 .. Len(a) /\ k \in 1 .. p - 1
      BY <1>n, <2>0, <2>1 DEF p
    <3> QED BY <1>1, <1>4, <1>5, <3>1
  <2>2. CASE Len(a) < k /\ k < p
    <3>1. /\ k - Len(a) \in 1 .. q - 1 /\ k - Len(a) \in 1 .. Len(b)
          /\ k - Len(a) \in 1 .. Len(d)
          /\ k \in 1 .. p - 1 /\ Len(a) + (k - Len(a)) = k
      BY <1>n, <1>3, <2>0, <2>2 DEF p
    <3>2. r[k] = ab[k] /\ ab[k] = b[k - Len(a)]
      BY <1>1, <1>4, <3>1
    <3>3. e[k] = d[k - Len(a)] /\ d[k - Len(a)] = b[k - Len(a)]
      BY <1>3, <1>5, <3>1
    <3> QED BY <3>2, <3>3
  <2>3. CASE k >= p
    <3>1. /\ k + 1 \in p + 1 .. Len(ab) /\ (k + 1) - 1 = k
          /\ (k + 1) - Len(a) \in q + 1 .. Len(b) /\ (k + 1) - Len(a) \in 1 .. Len(b)
          /\ Len(a) + ((k + 1) - Len(a)) = k + 1
          /\ k - Len(a) \in 1 .. Len(d) /\ Len(a) + (k - Len(a)) = k
          /\ ((k + 1) - Len(a)) - 1 = k - Len(a)
      BY <1>n, <1>1, <1>3, <2>0, <2>3 DEF p
    <3>2. r[k] = ab[k + 1] /\ ab[k + 1] = b[(k + 1) - Len(a)]
      BY <1>1, <1>4, <3>1
    <3>3. e[k] = d[k - Len(a)] /\ d[k - Len(a)] = b[(k + 1) - Len(a)]
      BY <1>3, <1>5, <3>1
    <3> QED BY <3>2, <3>3
  <2> QED BY <1>n, <2>0, <2>1, <2>2, <2>3 DEF p
<1>8. r = e
  BY <1>4, <1>5, <1>6, <1>7, SameList
<1> QED BY <1>2, <1>8 DEF ab, p, r, e, d

\* Removing the first, and giving its place to the next.
LEMMA FirstGone ==
  ASSUME NEW b, IsList(b), NEW x
  PROVE  /\ 1 \in 1 .. Len(<<x>> \o b) /\ (<<x>> \o b)[1] = x
         /\ RemoveAt(<<x>> \o b, 1) = b
<1>n. Len(b) \in Nat
  BY DEF IsList
<1> DEFINE s == <<x>>
           xb == s \o b
           r == RemoveAt(xb, 1)
<1>1. IsList(s) /\ Len(s) = 1 /\ s[1] = x
  <2>1. s \in Seq({x}) /\ Len(s) = 1 /\ s[1] = x
    OBVIOUS
  <2> QED BY <2>1, ListIs
<1> HIDE DEF s
<1>2. /\ IsList(xb) /\ Len(xb) = Len(s) + Len(b)
      /\ \A k \in 1 .. Len(s) : xb[k] = s[k]
      /\ \A k \in 1 .. Len(b) : xb[Len(s) + k] = b[k]
  <2>1. IsList(s)
    BY <1>1
  <2> QED BY <2>1, JoinedIs
<1> HIDE DEF xb
<1>3. 1 \in 1 .. Len(xb) /\ xb[1] = x
  BY <1>n, <1>1, <1>2
<1>4. /\ IsList(r) /\ Len(r) = Len(xb) - 1
      /\ \A k \in 1 + 1 .. Len(xb) : r[k - 1] = xb[k]
  BY <1>2, <1>3, RemovedIs
<1> HIDE DEF r
<1>5. Len(r) = Len(b)
  BY <1>n, <1>1, <1>2, <1>4
<1>6. ASSUME NEW k \in 1 .. Len(r) PROVE r[k] = b[k]
  <2>1. k + 1 \in 1 + 1 .. Len(xb) /\ (k + 1) - 1 = k /\ Len(s) + k = k + 1 /\ k \in 1 .. Len(b)
    BY <1>n, <1>1, <1>2, <1>5
  <2>2. r[k] = xb[k + 1] /\ xb[k + 1] = b[k]
    BY <1>2, <1>4, <2>1
  <2> QED BY <2>2
<1>7. r = b
  BY <1>4, <1>5, <1>6, SameList
<1> QED BY <1>3, <1>7 DEF r, xb, s

\* A list is its first node and those behind it.
LEMMA NextIsFirst ==
  ASSUME NEW b, IsList(b), b # <<>>
  PROVE  <<b[1]>> \o RemoveAt(b, 1) = b
<1>n. Len(b) \in Nat
  BY DEF IsList
<1> DEFINE s == <<b[1]>>
           d == RemoveAt(b, 1)
           e == s \o d
<1>0. 1 \in 1 .. Len(b)
  BY DEF IsList
<1>1. IsList(s) /\ Len(s) = 1 /\ s[1] = b[1]
  <2>1. s \in Seq({b[1]}) /\ Len(s) = 1 /\ s[1] = b[1]
    OBVIOUS
  <2> QED BY <2>1, ListIs
<1>2. /\ IsList(d) /\ Len(d) = Len(b) - 1
      /\ \A k \in 1 + 1 .. Len(b) : d[k - 1] = b[k]
  BY <1>0, RemovedIs
<1> HIDE DEF s, d
<1>3. /\ IsList(e) /\ Len(e) = Len(s) + Len(d)
      /\ \A k \in 1 .. Len(s) : e[k] = s[k]
      /\ \A k \in 1 .. Len(d) : e[Len(s) + k] = d[k]
  <2>1. IsList(s) /\ IsList(d)
    BY <1>1, <1>2
  <2> QED BY <2>1, JoinedIs
<1> HIDE DEF e
<1>4. Len(e) = Len(b)
  BY <1>n, <1>1, <1>2, <1>3
<1>5. ASSUME NEW k \in 1 .. Len(e) PROVE e[k] = b[k]
  <2>1. CASE k = 1
    BY <1>1, <1>3, <2>1
  <2>2. CASE k # 1
    <3>1. /\ k \in 1 + 1 .. Len(b) /\ k - 1 \in 1 .. Len(d) /\ Len(s) + (k - 1) = k
      BY <1>n, <1>1, <1>2, <1>4, <2>2
    <3>2. e[k] = d[k - 1] /\ d[k - 1] = b[k]
      BY <1>2, <1>3, <3>1
    <3> QED BY <3>2
  <2> QED BY <2>1, <2>2
<1> QED BY <1>3, <1>4, <1>5, SameList DEF e, s, d

\* The root has no, one or two children.
LEMMA ShapedIs ==
  ASSUME NEW L, Shaped(L)
  PROVE  /\ L.children \in Seq(ToSet(L.children))
         /\ Len(L.children) \in Nat
         /\ DOMAIN L.children = 1 .. Len(L.children)
         /\ Len(L.children) = 0 \/ Len(L.children) = 1 \/ Len(L.children) = 2
         /\ Len(L.children) = 0 <=> L.children = <<>>
<1> DEFINE c == L.children
           n == Len(c)
<1>1. c \in Seq(ToSet(c)) /\ n <= 2
  BY DEF Shaped, IsList
<1> HIDE DEF c
<1>2. n \in Nat /\ DOMAIN c = 1 .. n /\ (n = 0 <=> c = <<>>)
  BY <1>1
<1> HIDE DEF n
<1>3. n = 0 \/ n = 1 \/ n = 2
  BY <1>1, <1>2
<1> QED BY <1>1, <1>2, <1>3 DEF n, c

\* The windows of a layout, by the number of its nodes.
LEMMA HeldIs ==
  ASSUME NEW L, Shaped(L)
  PROVE  /\ IsList(WindowNodes(L)) /\ IsList(HeldIn(L)) /\ Len(HeldIn(L)) = Len(WindowNodes(L))
         /\ Len(L.children) = 0 => HeldIn(L) = <<>>
         /\ Len(L.children) = 1 => HeldIn(L) = FirstIn(L.children[1])
         /\ Len(L.children) = 2
              => HeldIn(L) = FirstIn(L.children[1]) \o Names(L.children[2].children)
<1> DEFINE c == L.children
           a == NodesIn(c[1])
           b == c[2].children
           h == WindowNodes(L)
<1>1. Len(c) = 0 \/ Len(c) = 1 \/ Len(c) = 2
  BY ShapedIs
<1>2. /\ Len(c) = 0 => h = <<>>
      /\ Len(c) = 1 => h = a
      /\ Len(c) = 2 => h = a \o NodesIn(c[2])
  BY WindowNodesAre
<1>3. Len(c) >= 1 => IsList(a) /\ Names(a) = FirstIn(c[1])
  BY FrontIs DEF Shaped
<1>4. Len(c) = 2 => IsList(b) /\ NodesIn(c[2]) = b
  BY DEF Shaped, IsStack, NodesIn
<1>5. IsList(<<>>)
  <2>1. <<>> \in Seq({})
    OBVIOUS
  <2> QED BY <2>1, ListIs
<1> HIDE DEF a, b, h, c
<1>6. Len(c) = 2 => IsList(a \o b) /\ Names(a \o b) = FirstIn(c[1]) \o Names(b)
  BY <1>3, <1>4, JoinedIs
<1>7. IsList(h)
  <2>1. Len(c) = 0 => IsList(h)
    BY <1>2, <1>5
  <2>2. Len(c) = 1 => IsList(h)
    BY <1>2, <1>3
  <2>3. Len(c) = 2 => IsList(h)
    BY <1>2, <1>4, <1>6
  <2> QED BY <1>1, <2>1, <2>2, <2>3
<1>8. IsList(Names(h)) /\ Len(Names(h)) = Len(h)
  BY <1>7, NamesAre
<1>9. /\ Len(c) = 0 => Names(h) = <<>>
      /\ Len(c) = 1 => Names(h) = FirstIn(c[1])
      /\ Len(c) = 2 => Names(h) = FirstIn(c[1]) \o Names(b)
  <2>1. Len(c) = 0 => Names(h) = <<>>
    BY <1>2, NamesAre
  <2>2. Len(c) = 1 => Names(h) = FirstIn(c[1])
    BY <1>2, <1>3
  <2>3. Len(c) = 2 => Names(h) = FirstIn(c[1]) \o Names(b)
    BY <1>2, <1>4, <1>6
  <2> QED BY <2>1, <2>2, <2>3
<1> QED BY <1>7, <1>8, <1>9 DEF HeldIn, h, b, c

\* The rest of a group is as it was; which additions are tracked, and how
\* large it is to be, no longer matters.
Upright(x) ==
  /\ DOMAIN x = GroupFields
  /\ x.kind = "group"
  /\ x.orientation \in {"LeftToRight", "TopToBottom"} /\ x.newOrientation = None

Kept(x, y) ==
  /\ DOMAIN y = GroupFields
  /\ y.kind = x.kind /\ y.orientation = x.orientation /\ y.newOrientation = x.newOrientation

\* Short lists, and what is done to them.
LEMMA ShortLists ==
  ASSUME NEW x, NEW y
  PROVE  /\ IsList(<<>>) /\ IsList(<<x>>) /\ IsList(<<x, y>>)
         /\ Append(<<>>, x) = <<x>> /\ Append(<<x>>, y) = <<x, y>>
         /\ Tail(<<x>>) = <<>> /\ Tail(<<x, y>>) = <<y>>
         /\ SubSeq(<<x, y>>, 1, 1) = <<x>>
         /\ \A z : [<<x, y>> EXCEPT ![2] = z] = <<x, z>>
<1>1. <<>> \in Seq({}) /\ <<x>> \in Seq({x}) /\ <<x, y>> \in Seq({x, y})
  OBVIOUS
<1>2. IsList(<<>>) /\ IsList(<<x>>) /\ IsList(<<x, y>>)
  BY <1>1, ListIs
<1>3. Append(<<>>, x) = <<x>> /\ Append(<<x>>, y) = <<x, y>>
  <2>1. ASSUME NEW s, NEW S, s \in Seq(S)
        PROVE  (Len(s) = 1 => s = <<s[1]>>) /\ (Len(s) = 2 => s = <<s[1], s[2]>>)
    BY <2>1
  <2> DEFINE e == <<>>  f == <<x>>
             p == Append(e, x)  q == Append(f, y)
  <2>2. IsList(e) /\ Len(e) = 0 /\ IsList(f) /\ Len(f) = 1 /\ f[1] = x
    BY <1>2
  <2> HIDE DEF e, f
  <2>a. IsList(p) /\ Len(p) = Len(e) + 1 /\ p[Len(e) + 1] = x
    BY <2>2, AppendedIs
  <2>b. /\ IsList(q) /\ Len(q) = Len(f) + 1 /\ q[Len(f) + 1] = y
        /\ \A k \in 1 .. Len(f) : q[k] = f[k]
    <3>1. \A s : IsList(s) => /\ IsList(Append(s, y)) /\ Len(Append(s, y)) = Len(s) + 1
                              /\ Append(s, y)[Len(s) + 1] = y
                              /\ \A k \in 1 .. Len(s) : Append(s, y)[k] = s[k]
      BY AppendedIs
    <3> QED BY <2>2, <3>1
  <2> HIDE DEF p, q
  <2>4. /\ IsList(p) /\ Len(p) = 1 /\ p[1] = x
        /\ IsList(q) /\ Len(q) = 2 /\ q[1] = x /\ q[2] = y
    BY <2>2, <2>a, <2>b
  <2>5. p = <<x>> /\ q = <<x, y>>
    BY <2>1, <2>4 DEF IsList
  <2> QED BY <2>5 DEF e, f, p, q
<1>4. Tail(<<x>>) = <<>> /\ Tail(<<x, y>>) = <<y>>
  OBVIOUS
<1>5. SubSeq(<<x, y>>, 1, 1) = <<x>>
  <2> DEFINE f == <<x, y>>  g == SubSeq(f, 1, 1)
  <2>1. f \in Seq({x, y}) /\ Len(f) = 2 /\ f[1] = x
    OBVIOUS
  <2> HIDE DEF f
  <2>2. g \in Seq({x, y}) /\ Len(g) = 1 /\ g[1] = x
    BY <2>1
  <2> HIDE DEF g
  <2>3. g = <<x>>
    BY <2>2
  <2> QED BY <2>3 DEF f, g
<1>6. ASSUME NEW z PROVE [<<x, y>> EXCEPT ![2] = z] = <<x, z>>
  OBVIOUS
<1> QED BY <1>2, <1>3, <1>4, <1>5, <1>6

\* The layouts there are, and what each holds.
LEMMA LayoutIs ==
  ASSUME NEW L, Shaped(L)
  PROVE  /\ Upright(L)
         /\ LET c == L.children
            IN  \/ c = <<>> /\ HeldIn(L) = <<>>
                \/ \E x : c = <<x>> /\ IsFirst(x) /\ HeldIn(L) = FirstIn(x)
                \/ \E x, y : /\ c = <<x, y>> /\ IsFirst(x) /\ IsStack(y)
                             /\ HeldIn(L) = FirstIn(x) \o Names(y.children)
<1> DEFINE c == L.children
<1>1. /\ c \in Seq(ToSet(c))
      /\ Len(c) = 0 \/ Len(c) = 1 \/ Len(c) = 2
      /\ Len(c) = 0 <=> c = <<>>
  BY ShapedIs
<1>2. /\ Len(c) = 1 => IsFirst(c[1])
      /\ Len(c) = 2 => IsFirst(c[1]) /\ IsStack(c[2])
  BY DEF Shaped
<1>3. /\ Len(c) = 0 => HeldIn(L) = <<>>
      /\ Len(c) = 1 => HeldIn(L) = FirstIn(c[1])
      /\ Len(c) = 2 => HeldIn(L) = FirstIn(c[1]) \o Names(c[2].children)
  BY HeldIs
<1>4. Upright(L)
  BY DEF Shaped, Upright
<1> HIDE DEF c
<1>5. /\ Len(c) = 1 => c = <<c[1]>>
      /\ Len(c) = 2 => c = <<c[1], c[2]>>
  BY <1>1
<1> QED BY <1>1, <1>2, <1>3, <1>4, <1>5 DEF c

\* Each of the shapes a layout may have is one, and so are its windows.
LEMMA LayoutsOf ==
  ASSUME NEW L, Shaped(L), NEW M, Kept(L, M)
  PROVE  /\ M.children = <<>> => Shaped(M) /\ HeldIn(M) = <<>>
         /\ \A x : M.children = <<x>> /\ IsFirst(x) => Shaped(M) /\ HeldIn(M) = FirstIn(x)
         /\ \A x, y : M.children = <<x, y>> /\ IsFirst(x) /\ IsStack(y)
              => Shaped(M) /\ HeldIn(M) = FirstIn(x) \o Names(y.children)
<1> DEFINE d == M.children
<1>1. ASSUME IsList(d), Len(d) = 0 \/ Len(d) = 1 \/ Len(d) = 2,
             Len(d) # 0 => IsFirst(d[1]), Len(d) = 2 => IsStack(d[2])
      PROVE  /\ Shaped(M)
             /\ Len(d) = 0 => HeldIn(M) = <<>>
             /\ Len(d) = 1 => HeldIn(M) = FirstIn(d[1])
             /\ Len(d) = 2 => HeldIn(M) = FirstIn(d[1]) \o Names(d[2].children)
  <2>1. Len(d) <= 2 /\ (Len(d) >= 1 => IsFirst(d[1])) /\ (Len(d) = 2 => IsStack(d[2]))
    <3>1. \A n : n = 0 \/ n = 1 \/ n = 2 => n <= 2 /\ (n >= 1 => n # 0)
      OBVIOUS
    <3> HIDE DEF d
    <3> QED BY <1>1, <3>1
  <2>2. Shaped(M)
    BY <1>1, <2>1 DEF Shaped, Kept
  <2> QED BY <2>2, HeldIs
<1> HIDE DEF d
<1>2. ASSUME d = <<>> PROVE Shaped(M) /\ HeldIn(M) = <<>>
  <2>1. Len(d) = 0 /\ IsList(d)
    BY <1>2, ShortLists
  <2> QED BY <1>1, <1>2, <2>1
<1>3. ASSUME NEW x, d = <<x>>, IsFirst(x) PROVE Shaped(M) /\ HeldIn(M) = FirstIn(x)
  <2>1. Len(d) = 1 /\ d[1] = x
    BY <1>3
  <2>2. IsList(d)
    BY <1>3, ShortLists
  <2> QED BY <1>1, <1>3, <2>1, <2>2
<1>4. ASSUME NEW x, NEW y, d = <<x, y>>, IsFirst(x), IsStack(y)
      PROVE  Shaped(M) /\ HeldIn(M) = FirstIn(x) \o Names(y.children)
  <2>1. Len(d) = 2 /\ d[1] = x /\ d[2] = y
    BY <1>4
  <2>2. IsList(d)
    BY <1>4, ShortLists
  <2> QED BY <1>1, <1>4, <2>1, <2>2
<1> QED BY <1>2, <1>3, <1>4 DEF d

\* A layout of a main place and a stack.
LEMMA LayoutOfTwo ==
  ASSUME NEW L, Shaped(L), NEW M, Kept(L, M), NEW x, NEW y, M.children = <<x, y>>,
         IsFirst(x), IsStack(y)
  PROVE  Shaped(M) /\ HeldIn(M) = FirstIn(x) \o Names(y.children)
  BY LayoutsOf

-----------------------------------------------------------------------------
(* What the calls on a group that is not reversed do to its nodes.         *)

\* What the calls of Stack do to the nodes of an upright group.
LEMMA CallsAre ==
  ASSUME NEW x, Upright(x)
  PROVE  /\ \A node : /\ Kept(x, PushNodeBack(x, node))
                      /\ PushNodeBack(x, node).children = Append(x.children, node)
         /\ \A i : /\ Kept(x, RemoveNode(x, i))
                   /\ RemoveNode(x, i).children = RemoveAt(x.children, i + 1)
         /\ Kept(x, PopFront(x)) /\ PopFront(x).children = Tail(x.children)
         /\ Kept(x, PopBack(x))
         /\ PopBack(x).children = SubSeq(x.children, 1, Len(x.children) - 1)
<1>1. ~Reversed(x.orientation) /\ ~Reversed(OrientationOf(x))
  BY DEF Upright, Reversed, OrientationOf
<1>2. \A len, i : Slot(x.orientation, len, i) = i
  BY <1>1 DEF Slot
<1>3. ASSUME NEW node
      PROVE  /\ Kept(x, PushNodeBack(x, node))
             /\ PushNodeBack(x, node).children = Append(x.children, node)
  BY <1>1 DEF PushNodeBack, PushLast, Kept, Upright, GroupFields
<1>4. ASSUME NEW i
      PROVE  /\ Kept(x, RemoveNode(x, i))
             /\ RemoveNode(x, i).children = RemoveAt(x.children, i + 1)
  BY <1>2 DEF RemoveNode, Kept, Upright, GroupFields
<1>5. Kept(x, PopFront(x)) /\ PopFront(x).children = Tail(x.children)
  BY <1>1 DEF PopFront, PopFirst, Kept, Upright, GroupFields
<1>6. /\ Kept(x, PopBack(x))
      /\ PopBack(x).children = SubSeq(x.children, 1, Len(x.children) - 1)
  BY <1>1 DEF PopBack, PopLast, Kept, Upright, GroupFields
<1> QED BY <1>3, <1>4, <1>5, <1>6

\* The stack, as windows come to its end and leave it from anywhere.
LEMMA StackIs ==
  ASSUME NEW x, IsStack(x)
  PROVE  /\ IsList(x.children) /\ Len(x.children) \in Nat /\ Upright(x)
         /\ \A node : IsWindow(node) =>
              /\ IsStack(PushNodeBack(x, node))
              /\ Names(PushNodeBack(x, node).children) = Append(Names(x.children), node.window)
         /\ \A i \in 0 .. Len(x.children) - 1 :
              /\ IsStack(RemoveNode(x, i))
              /\ Names(RemoveNode(x, i).children) = RemoveAt(Names(x.children), i + 1)
<1> DEFINE c == x.children
<1>1. IsList(c) /\ Upright(x) /\ \A k \in 1 .. Len(c) : IsWindow(c[k])
  BY DEF IsStack, Upright
<1>2. Len(c) \in Nat
  <2> HIDE DEF c
  <2>1. c \in Seq(ToSet(c))
    BY <1>1 DEF IsList
  <2> QED BY <2>1
<1>3. ASSUME NEW node, IsWindow(node)
      PROVE  /\ IsStack(PushNodeBack(x, node))
             /\ Names(PushNodeBack(x, node).children) = Append(Names(c), node.window)
  <2> DEFINE y == PushNodeBack(x, node)
             d == Append(c, node)
  <2>1. Kept(x, y) /\ y.children = d
    BY <1>1, CallsAre
  <2> HIDE DEF c, y
  <2>2. /\ IsList(d) /\ Len(d) = Len(c) + 1
        /\ \A k \in 1 .. Len(c) : d[k] = c[k]
        /\ d[Len(c) + 1] = node
        /\ Names(d) = Append(Names(c), node.window)
    BY <1>1, AppendedIs
  <2> HIDE DEF d
  <2>3. \A k \in 1 .. Len(d) : IsWindow(d[k])
    BY <1>1, <1>2, <1>3, <2>2
  <2>4. IsStack(y)
    BY <2>1, <2>2, <2>3 DEF IsStack, Kept
  <2> QED BY <2>1, <2>2, <2>4 DEF y
<1>4. ASSUME NEW i \in 0 .. Len(c) - 1
      PROVE  /\ IsStack(RemoveNode(x, i))
             /\ Names(RemoveNode(x, i).children) = RemoveAt(Names(c), i + 1)
  <2> DEFINE y == RemoveNode(x, i)
             d == RemoveAt(c, i + 1)
  <2>1. Kept(x, y) /\ y.children = d
    BY <1>1, CallsAre
  <2> HIDE DEF c, y
  <2>2. i + 1 \in 1 .. Len(c)
    BY <1>2
  <2>3. /\ IsList(d) /\ Len(d) = Len(c) - 1
        /\ \A k \in 1 .. (i + 1) - 1 : d[k] = c[k]
        /\ \A k \in (i + 1) + 1 .. Len(c) : d[k - 1] = c[k]
        /\ Names(d) = RemoveAt(Names(c), i + 1)
    BY <1>1, <2>2, RemovedIs
  <2> HIDE DEF d
  <2>4. ASSUME NEW k \in 1 .. Len(d) PROVE IsWindow(d[k])
    <3>1. CASE k <= i
      <4>1. k \in 1 .. (i + 1) - 1 /\ k \in 1 .. Len(c)
        BY <1>2, <3>1
      <4> QED BY <1>1, <2>3, <4>1
    <3>2. CASE k > i
      <4>1. k + 1 \in (i + 1) + 1 .. Len(c) /\ k + 1 \in 1 .. Len(c) /\ (k + 1) - 1 = k
        BY <1>2, <2>3, <3>2
      <4> QED BY <1>1, <2>3, <4>1
    <3> QED BY <3>1, <3>2
  <2>5. IsStack(y)
    BY <2>1, <2>3, <2>4 DEF IsStack, Kept
  <2> QED BY <2>1, <2>3, <2>5 DEF y
<1> QED BY <1>1, <1>2, <1>3, <1>4

-----------------------------------------------------------------------------
(* What the calls on the manager do to the windows of the layout.          *)

\* A new layout holds no windows.
LEMMA NewLayoutIs ==
  Shaped(NewLayout) /\ HeldIn(NewLayout) = <<>>
<1> DEFINE L == NewLayout
<1>1. /\ DOMAIN L = GroupFields /\ L.kind = "group" /\ L.orientation = "LeftToRight" /\ L.newOrientation = None
      /\ L.children = <<>>
  BY DEF NewLayout, GroupOf, GroupFields
<1>2. <<>> \in Seq({}) /\ Len(<<>>) = 0
  OBVIOUS
<1>3. IsList(<<>>)
  BY <1>2, ListIs
<1> HIDE DEF L
<1>4. Shaped(L)
  BY <1>1, <1>2, <1>3 DEF Shaped
<1>5. HeldIn(L) = <<>>
  BY <1>1, <1>2, <1>4, HeldIs
<1> QED BY <1>4, <1>5 DEF L

\* A window that is added comes last.
LEMMA AddedIs ==
  ASSUME NEW L, Shaped(L), NEW w
  PROVE  Shaped(AddToLayout(L, w)) /\ HeldIn(AddToLayout(L, w)) = Append(HeldIn(L), w)
<1> DEFINE c == L.children
           M == AddToLayout(L, w)
           node == WindowNode(w)
<1>1. /\ Upright(L)
      /\ \/ c = <<>> /\ HeldIn(L) = <<>>
         \/ \E x : c = <<x>> /\ IsFirst(x) /\ HeldIn(L) = FirstIn(x)
         \/ \E x, y : /\ c = <<x, y>> /\ IsFirst(x) /\ IsStack(y)
                      /\ HeldIn(L) = FirstIn(x) \o Names(y.children)
  BY LayoutIs
<1>2. IsWindow(node) /\ IsFirst(node) /\ node.window = w /\ FirstIn(node) = <<w>>
  BY DEF WindowNode, IsWindow, IsFirst, NodeFields, FirstIn
<1> HIDE DEF node
<1>3. CASE c = <<>> /\ HeldIn(L) = <<>>
  <2>1. M = PushNodeBack(L, node)
    BY <1>3 DEF AddToLayout, node
  <2>2. Kept(L, M) /\ M.children = Append(c, node)
    BY <1>1, <2>1, CallsAre
  <2> HIDE DEF c, M
  <2>3. M.children = <<node>> /\ Append(HeldIn(L), w) = <<w>>
    BY <1>3, <2>2, ShortLists
  <2> QED BY <1>2, <2>2, <2>3, LayoutsOf DEF M
<1>4. ASSUME NEW x, c = <<x>>, IsFirst(x), HeldIn(L) = FirstIn(x)
      PROVE  Shaped(M) /\ HeldIn(M) = Append(HeldIn(L), w)
  <2> DEFINE new == NewStack(w)
             empty == GroupOf("TopToBottom", Both(0), Both(0))
  <2>1. M = PushNodeBack(L, new)
    <3>1. c # <<>> /\ Len(c) = 1
      <4> HIDE DEF c
      <4> QED BY <1>4
    <3> QED BY <3>1 DEF AddToLayout, HasStack
  <2>2. IsStack(empty) /\ empty.children = <<>>
    <3>1. /\ DOMAIN empty = GroupFields /\ empty.kind = "group" /\ empty.children = <<>>
          /\ empty.orientation = "TopToBottom" /\ empty.newOrientation = None
      BY DEF GroupOf, GroupFields
    <3>2. Len(<<>>) = 0
      OBVIOUS
    <3>3. \A k \in 1 .. Len(<<>>) : FALSE
      BY <3>2
    <3>4. IsList(<<>>)
      BY ShortLists
    <3> HIDE DEF empty
    <3> QED BY <3>1, <3>3, <3>4 DEF IsStack
  <2> HIDE DEF empty
  <2>3. IsStack(new) /\ Names(new.children) = <<w>>
    <3>1. /\ IsStack(PushNodeBack(empty, node))
          /\ Names(PushNodeBack(empty, node).children) = Append(Names(empty.children), w)
      BY <1>2, <2>2, StackIs
    <3>2. Append(Names(<<>>), w) = <<w>>
      BY NamesAre, ShortLists
    <3>3. new = PushNodeBack(empty, node)
      BY DEF NewStack, empty, node
    <3> QED BY <2>2, <3>1, <3>2, <3>3
  <2> HIDE DEF new
  <2>4. Kept(L, M) /\ M.children = Append(c, new)
    BY <1>1, <2>1, CallsAre
  <2> HIDE DEF c, M
  <2>5. M.children = <<x, new>>
    BY <1>4, <2>4, ShortLists
  <2>6. Shaped(M) /\ HeldIn(M) = FirstIn(x) \o <<w>>
    BY <1>4, <2>3, <2>4, <2>5, LayoutsOf
  <2>7. FirstIn(x) \o <<w>> = Append(FirstIn(x), w)
    BY <1>4, FrontIs, JoinsLast
  <2> QED BY <1>4, <2>6, <2>7 DEF M
<1>5. ASSUME NEW x, NEW y, c = <<x, y>>, IsFirst(x), IsStack(y),
             HeldIn(L) = FirstIn(x) \o Names(y.children)
      PROVE  Shaped(M) /\ HeldIn(M) = Append(HeldIn(L), w)
  <2> DEFINE stack == PushNodeBack(y, node)
  <2>1. M = [L EXCEPT !.children[2] = stack]
    <3>1. c # <<>> /\ Len(c) = 2
      <4> HIDE DEF c
      <4> QED BY <1>5
    <3>2. y.kind = "group" /\ c[2] = y
      BY <1>5 DEF IsStack
    <3> QED BY <3>1, <3>2 DEF AddToLayout, HasStack, node
  <2>2. IsStack(stack) /\ Names(stack.children) = Append(Names(y.children), w)
    BY <1>2, <1>5, StackIs
  <2> HIDE DEF stack
  <2>3. Kept(L, M) /\ M.children = [c EXCEPT ![2] = stack]
    BY <1>1, <2>1 DEF Kept, Upright, GroupFields
  <2> HIDE DEF M, c
  <2>4. M.children = <<x, stack>>
    BY <1>5, <2>3, ShortLists
  <2>5. Shaped(M) /\ HeldIn(M) = FirstIn(x) \o Names(stack.children)
    <3>1. Kept(L, M) /\ IsStack(stack) /\ IsFirst(x)
      BY <1>5, <2>2, <2>3
    <3> QED BY <2>4, <3>1, LayoutOfTwo
  <2>6. IsList(FirstIn(x)) /\ IsList(Names(y.children))
    BY <1>5, FrontIs, NamesAre DEF IsStack
  <2>7. FirstIn(x) \o Append(Names(y.children), w)
          = Append(FirstIn(x) \o Names(y.children), w)
    BY <2>6, JoinsLast
  <2> QED BY <1>5, <2>2, <2>5, <2>7 DEF M
<1> QED BY <1>1, <1>3, <1>4, <1>5 DEF M

\* Where a window is in two joined lists.
LEMMA JoinedHas ==
  ASSUME NEW a, IsList(a), NEW b, IsList(b)
  PROVE  ToSet(a \o b) = ToSet(a) \cup ToSet(b)
<1> DEFINE e == a \o b
<1>1. /\ IsList(e) /\ Len(e) = Len(a) + Len(b)
      /\ \A k \in 1 .. Len(a) : e[k] = a[k]
      /\ \A k \in 1 .. Len(b) : e[Len(a) + k] = b[k]
  BY JoinedIs
<1>2. /\ DOMAIN a = 1 .. Len(a) /\ DOMAIN b = 1 .. Len(b) /\ DOMAIN e = 1 .. Len(e)
      /\ Len(a) \in Nat /\ Len(b) \in Nat
  BY <1>1 DEF IsList
<1> HIDE DEF e
<1>3. ASSUME NEW k \in 1 .. Len(e) PROVE e[k] \in ToSet(a) \cup ToSet(b)
  <2>1. CASE k \in 1 .. Len(a)
    BY <1>1, <1>2, <2>1 DEF ToSet
  <2>2. CASE k \notin 1 .. Len(a)
    <3>1. k - Len(a) \in 1 .. Len(b) /\ Len(a) + (k - Len(a)) = k
      BY <1>1, <1>2, <2>2
    <3> QED BY <1>1, <1>2, <3>1 DEF ToSet
  <2> QED BY <2>1, <2>2
<1>4. ASSUME NEW k \in 1 .. Len(a) PROVE a[k] \in ToSet(e)
  <2>1. k \in 1 .. Len(e)
    BY <1>1, <1>2
  <2> QED BY <1>1, <1>2, <2>1 DEF ToSet
<1>5. ASSUME NEW k \in 1 .. Len(b) PROVE b[k] \in ToSet(e)
  <2>1. Len(a) + k \in 1 .. Len(e)
    BY <1>1, <1>2
  <2> QED BY <1>1, <1>2, <2>1 DEF ToSet
<1>6. ToSet(e) \subseteq ToSet(a) \cup ToSet(b)
  BY <1>2, <1>3 DEF ToSet
<1>7. ToSet(a) \subseteq ToSet(e)
  BY <1>2, <1>4 DEF ToSet
<1>8. ToSet(b) \subseteq ToSet(e)
  BY <1>2, <1>5 DEF ToSet
<1> QED BY <1>6, <1>7, <1>8 DEF e

\* What it is to take a window out of a list, where it is, and nothing else.
Without(held, w, less) ==
  \/ w \notin ToSet(held) /\ less = held
  \/ \E p \in 1 .. Len(held) : held[p] = w /\ less = RemoveAt(held, p)

\* The window that is removed leaves its place to those behind it.
LEMMA RemovedFromIs ==
  ASSUME NEW L, Shaped(L), NEW w, IsInjective(HeldIn(L))
  PROVE  /\ Shaped(RemoveFromLayout(L, w))
         /\ Without(HeldIn(L), w, HeldIn(RemoveFromLayout(L, w)))
<1> DEFINE c == L.children
           M == RemoveFromLayout(L, w)
           Goal == Shaped(M) /\ Without(HeldIn(L), w, HeldIn(M))
<1>1. /\ Upright(L)
      /\ \/ c = <<>> /\ HeldIn(L) = <<>>
         \/ \E x : c = <<x>> /\ IsFirst(x) /\ HeldIn(L) = FirstIn(x)
         \/ \E x, y : /\ c = <<x, y>> /\ IsFirst(x) /\ IsStack(y)
                      /\ HeldIn(L) = FirstIn(x) \o Names(y.children)
  BY LayoutIs
<1>2. ASSUME M = L, w \notin ToSet(HeldIn(L)) PROVE Goal
  BY <1>2 DEF Without
<1>3. ASSUME NEW p \in 1 .. Len(HeldIn(L)), HeldIn(L)[p] = w,
             HeldIn(M) = RemoveAt(HeldIn(L), p), Shaped(M)
      PROVE  Goal
  BY <1>3 DEF Without
<1> HIDE DEF Goal
<1>4. ToSet(<<>>) = {} /\ ToSet(<<w>>) = {w} /\ \A v : ToSet(<<v>>) = {v}
  BY DEF ToSet
<1>5. ASSUME c = <<>>, HeldIn(L) = <<>>
      PROVE  Goal
  <2>1. M = L
    BY <1>5 DEF RemoveFromLayout, IsMain, HasMain, RemoveOther, Occurrences, HasStack
  <2> QED BY <1>2, <1>4, <1>5, <2>1
<1>6. ASSUME NEW x, c = <<x>>, IsFirst(x), HeldIn(L) = FirstIn(x)
      PROVE  Goal
  <2>0. c[1] = x /\ Len(c) = 1 /\ c # <<>>
    <3> HIDE DEF c
    <3> QED BY <1>6
  <2>1. ~HasStack(L)
    BY <2>0 DEF HasStack
  <2>2. CASE IsWindow(x) /\ x.window = w
    <3>1. M = PopFront(L)
      BY <2>0, <2>1, <2>2 DEF RemoveFromLayout, IsMain, HasMain, Main, RemoveMain, IsWindow
    <3>2. Kept(L, M) /\ M.children = Tail(c)
      BY <1>1, <3>1, CallsAre
    <3> HIDE DEF c, M
    <3>3. M.children = <<>>
      BY <1>6, <3>2, ShortLists
    <3>4. Shaped(M) /\ HeldIn(M) = <<>>
      BY <3>2, <3>3, LayoutsOf
    <3>5. HeldIn(L) = <<w>>
      BY <1>6, <2>2 DEF FirstIn, IsWindow
    <3>6. RemoveAt(<<w>>, 1) = <<>>
      <4>1. <<w>> \o <<>> = <<w>>
        OBVIOUS
      <4>2. IsList(<<>>)
        BY ShortLists
      <4>3. RemoveAt(<<w>> \o <<>>, 1) = <<>>
        BY <4>2, FirstGone
      <4> QED BY <4>1, <4>3
    <3>7. 1 \in 1 .. Len(<<w>>) /\ <<w>>[1] = w
      OBVIOUS
    <3> QED BY <1>3, <3>4, <3>5, <3>6, <3>7
  <2>3. CASE ~(IsWindow(x) /\ x.window = w)
    <3>1. ~IsMain(L, w)
      BY <1>6, <2>0, <2>3 DEF IsMain, HasMain, Main, IsFirst, IsStack
    <3>2. M = L
      BY <2>1, <3>1 DEF RemoveFromLayout, RemoveOther, Occurrences
    <3>3. w \notin ToSet(HeldIn(L))
      BY <1>4, <1>6, <2>3 DEF FirstIn, IsFirst, IsStack
    <3> QED BY <1>2, <3>2, <3>3
  <2> QED BY <2>2, <2>3
<1>7. ASSUME NEW x, NEW y, c = <<x, y>>, IsFirst(x), IsStack(y),
             HeldIn(L) = FirstIn(x) \o Names(y.children)
      PROVE  Goal
  <2> DEFINE o == y.children
             names == Names(o)
  <2>0. c[1] = x /\ c[2] = y /\ Len(c) = 2 /\ c # <<>>
    <3> HIDE DEF c
    <3> QED BY <1>7
  <2>1. HasStack(L) /\ Others(L) = o
    BY <1>7, <2>0 DEF HasStack, Others, IsStack
  <2>2. IsList(o) /\ Len(o) \in Nat /\ IsList(names) /\ Len(names) = Len(o) /\ IsList(FirstIn(x))
    BY <1>7, StackIs, NamesAre, FrontIs
  <2>3. \A k \in 1 .. Len(o) : names[k] = o[k].window
    BY DEF Names
  <2>4. CASE IsWindow(x) /\ x.window = w /\ o # <<>>
    <3> DEFINE u == o[1].window
               x2 == [x EXCEPT !.window = u, !.changed = TRUE]
               y2 == RemoveNode(y, 0)
    <3>1. M = Promote(L)
      BY <2>0, <2>1, <2>4 DEF RemoveFromLayout, IsMain, HasMain, Main, RemoveMain, IsWindow
    <3>2. Kept(L, M)
      BY <1>1, <3>1 DEF Promote, Kept, Upright, GroupFields
    <3>3. M.children = <<x2, y2>>
      <4>1. /\ M.children = [[[c EXCEPT ![1] = [c[1] EXCEPT !.window = u]]
                               EXCEPT ![1] = [[c[1] EXCEPT !.window = u] EXCEPT !.changed = TRUE]]
                               EXCEPT ![2] = y2]
        BY <1>1, <2>0, <2>1, <3>1 DEF Promote, Upright, GroupFields
      <4> QED BY <1>7, <2>0, <4>1
    <3>4. IsWindow(x2) /\ FirstIn(x2) = <<u>> /\ FirstIn(x) = <<w>>
      BY <2>4 DEF IsWindow, FirstIn, NodeFields
    <3>5. 0 \in 0 .. Len(o) - 1 /\ o[1].window = names[1] /\ names # <<>>
      <4>1. 1 \in 1 .. Len(o) /\ Len(o) # 0
        <5> HIDE DEF o
        <5> QED BY <2>2, <2>4 DEF IsList
      <4>2. names # <<>>
        <5> HIDE DEF names
        <5> QED BY <2>2, <4>1
      <4> QED BY <2>2, <2>3, <4>1, <4>2
    <3>6. IsStack(y2) /\ Names(y2.children) = RemoveAt(names, 1)
      <4>1. IsStack(y2) /\ Names(y2.children) = RemoveAt(names, 0 + 1)
        BY <1>7, <3>5, StackIs
      <4> QED BY <4>1
    <3> HIDE DEF x2, y2, M, c
    <3>7. Shaped(M) /\ HeldIn(M) = FirstIn(x2) \o Names(y2.children)
      <4>1. IsFirst(x2)
        BY <3>4 DEF IsFirst
      <4> QED BY <3>2, <3>3, <3>6, <4>1, LayoutOfTwo
    <3>8. HeldIn(M) = names
      <4> HIDE DEF names
      <4>1. HeldIn(M) = <<names[1]>> \o RemoveAt(names, 1)
        BY <3>4, <3>5, <3>6, <3>7
      <4> QED BY <2>2, <3>5, <4>1, NextIsFirst
    <3>9. HeldIn(L) = <<w>> \o names
      BY <1>7, <3>4
    <3>10. /\ 1 \in 1 .. Len(HeldIn(L)) /\ HeldIn(L)[1] = w
           /\ HeldIn(M) = RemoveAt(HeldIn(L), 1)
      <4> HIDE DEF names
      <4>1. IsList(names)
        BY <2>2
      <4>2. /\ 1 \in 1 .. Len(<<w>> \o names) /\ (<<w>> \o names)[1] = w
            /\ RemoveAt(<<w>> \o names, 1) = names
        BY <4>1, FirstGone
      <4> QED BY <3>8, <3>9, <4>2
    <3> QED BY <1>3, <3>7, <3>10
  <2>5. CASE IsWindow(x) /\ x.window = w /\ o = <<>>
    <3>1. M = PopFront(L)
      BY <2>0, <2>1, <2>5 DEF RemoveFromLayout, IsMain, HasMain, Main, RemoveMain, IsWindow
    <3>2. Kept(L, M) /\ M.children = Tail(c)
      BY <1>1, <3>1, CallsAre
    <3> HIDE DEF c, M
    <3>3. M.children = <<y>> /\ IsFirst(y) /\ FirstIn(y) = <<>>
      BY <1>7, <2>5, <3>2, ShortLists DEF IsFirst, FirstIn, IsStack
    <3>4. Shaped(M) /\ HeldIn(M) = <<>>
      BY <3>2, <3>3, LayoutsOf
    <3>5. HeldIn(L) = <<w>> \o <<>>
      BY <1>7, <2>5, NamesAre DEF FirstIn, IsWindow
    <3>6. /\ 1 \in 1 .. Len(<<w>> \o <<>>) /\ (<<w>> \o <<>>)[1] = w
          /\ RemoveAt(<<w>> \o <<>>, 1) = <<>>
      <4>1. IsList(<<>>)
        BY ShortLists
      <4> QED BY <4>1, FirstGone
    <3> QED BY <1>3, <3>4, <3>5, <3>6
  <2>6. CASE ~(IsWindow(x) /\ x.window = w)
    <3> DEFINE at == Occurrences(L, w)
    <3>1. M = RemoveOther(L, w)
      BY <1>7, <2>0, <2>6 DEF RemoveFromLayout, IsMain, HasMain, Main, IsFirst, IsStack
    <3>2. at = {i \in 0 .. Len(o) - 1 : o[i + 1].window = w}
      BY <2>1 DEF Occurrences
    <3>3. CASE at = {}
      <4>1. M = L
        BY <3>1, <3>3 DEF RemoveOther
      <4>2. w \notin ToSet(FirstIn(x))
        BY <1>4, <1>7, <2>6 DEF FirstIn, IsFirst, IsStack
      <4>3. w \notin ToSet(names)
        <5>1. ASSUME NEW k \in 1 .. Len(o) PROVE o[k].window # w
          <6>1. k - 1 \in 0 .. Len(o) - 1 /\ (k - 1) + 1 = k
            BY <2>2
          <6> QED BY <3>2, <3>3, <6>1
        <5>2. DOMAIN names = 1 .. Len(o)
          BY DEF Names
        <5> QED BY <2>3, <5>1, <5>2 DEF ToSet
      <4>4. ToSet(FirstIn(x) \o names) = ToSet(FirstIn(x)) \cup ToSet(names)
        BY <2>2, JoinedHas
      <4> QED BY <1>2, <1>7, <4>1, <4>2, <4>3, <4>4
    <3>4. CASE at # {}
      <4> DEFINE f == FirstIn(x)
                 m == Min(at)
                 p == Len(f) + (m + 1)
      <4>1. \A i \in at : i \in 0 .. Len(o) - 1 /\ i + 1 \in 1 .. Len(o) /\ names[i + 1] = w
        BY <2>2, <2>3, <3>2
      <4>2. ASSUME NEW i \in at, NEW j \in at PROVE i = j
        <5>1. /\ Len(f) + (i + 1) \in 1 .. Len(f \o names) /\ (f \o names)[Len(f) + (i + 1)] = w
              /\ Len(f) + (j + 1) \in 1 .. Len(f \o names) /\ (f \o names)[Len(f) + (j + 1)] = w
          <6> HIDE DEF f, names, at
          <6>1. IsList(f) /\ IsList(names)
            BY <2>2 DEF f
          <6>2. i + 1 \in 1 .. Len(names) /\ j + 1 \in 1 .. Len(names)
            BY <2>2, <4>1
          <6>3. /\ Len(f) + (i + 1) \in 1 .. Len(f \o names)
                /\ (f \o names)[Len(f) + (i + 1)] = names[i + 1]
            BY <6>1, <6>2, RemoveBehind
          <6>4. /\ Len(f) + (j + 1) \in 1 .. Len(f \o names)
                /\ (f \o names)[Len(f) + (j + 1)] = names[j + 1]
            BY <6>1, <6>2, RemoveBehind
          <6> QED BY <4>1, <6>3, <6>4
        <5>2. Len(f) + (i + 1) = Len(f) + (j + 1)
          <6>1. DOMAIN HeldIn(L) = 1 .. Len(f \o names)
            BY <1>7, HeldIs DEF IsList
          <6> HIDE DEF f, names, at
          <6> QED BY <1>7, <5>1, <6>1 DEF IsInjective, f, names
        <5>3. i \in Int /\ j \in Int /\ Len(f) \in Nat
          BY <2>2, <4>1 DEF IsList
        <5> HIDE DEF f
        <5> QED BY <5>2, <5>3
      <4>3. m \in at
        <5>1. \E i \in at : \A j \in at : i <= j
          BY <3>4, <4>1, <4>2
        <5> HIDE DEF at
        <5> QED BY <5>1 DEF Min
      <4> HIDE DEF m, at
      <4>4. /\ p \in 1 .. Len(f \o names) /\ (f \o names)[p] = w
            /\ RemoveAt(f \o names, p) = f \o RemoveAt(names, m + 1)
        <5> HIDE DEF f, names
        <5>1. IsList(f) /\ IsList(names) /\ m + 1 \in 1 .. Len(names)
          BY <2>2, <4>1, <4>3 DEF f
        <5>2. names[m + 1] = w
          BY <4>1, <4>3
        <5>3. /\ Len(f) + (m + 1) \in 1 .. Len(f \o names)
              /\ (f \o names)[Len(f) + (m + 1)] = names[m + 1]
              /\ RemoveAt(f \o names, Len(f) + (m + 1)) = f \o RemoveAt(names, m + 1)
          <6>1. IsList(f) /\ IsList(names)
            BY <5>1
          <6>2. \A q \in 1 .. Len(names) :
                  /\ Len(f) + q \in 1 .. Len(f \o names) /\ (f \o names)[Len(f) + q] = names[q]
                  /\ RemoveAt(f \o names, Len(f) + q) = f \o RemoveAt(names, q)
            BY <6>1, RemoveBehind
          <6> QED BY <5>1, <6>2
        <5> QED BY <5>2, <5>3
      <4>5. Shaped(M) /\ HeldIn(M) = f \o RemoveAt(names, m + 1)
        <5>1. CASE Len(o) > 1
          <6> DEFINE y2 == RemoveNode(y, m)
          <6>1. M = [L EXCEPT !.children[2] = RemoveNode(c[2], m)]
            BY <2>1, <3>1, <3>4, <5>1 DEF RemoveOther, m, at
          <6>2. Kept(L, M) /\ M.children = [c EXCEPT ![2] = y2]
            BY <1>1, <2>0, <6>1 DEF Kept, Upright, GroupFields
          <6>3. IsStack(y2) /\ Names(y2.children) = RemoveAt(names, m + 1)
            <7>1. m \in 0 .. Len(o) - 1
              BY <4>1, <4>3
            <7> QED BY <1>7, <7>1, StackIs
          <6> HIDE DEF y2, M, c
          <6>4. M.children = <<x, y2>>
            BY <1>7, <6>2, ShortLists
          <6>5. Shaped(M) /\ HeldIn(M) = FirstIn(x) \o Names(y2.children)
            <7>1. Kept(L, M) /\ IsFirst(x) /\ IsStack(y2)
              BY <1>7, <6>2, <6>3
            <7> QED BY <6>4, <7>1, LayoutOfTwo
          <6> QED BY <6>3, <6>5
        <5>2. CASE ~(Len(o) > 1)
          <6>1. M = PopBack(L)
            BY <2>1, <3>1, <3>4, <5>2 DEF RemoveOther, at
          <6>2. Kept(L, M) /\ M.children = SubSeq(c, 1, Len(c) - 1)
            BY <1>1, <6>1, CallsAre
          <6> HIDE DEF M, c
          <6>3. M.children = <<x>>
            <7>1. Len(c) - 1 = 1
              BY <2>0
            <7> QED BY <1>7, <6>2, <7>1, ShortLists
          <6>4. Shaped(M) /\ HeldIn(M) = f
            BY <1>7, <6>2, <6>3, LayoutsOf
          <6>5. Len(o) = 1 /\ m = 0
            <7>1. \A n \in Nat : ~(n > 1) => \A i \in 0 .. n - 1 : n = 1 /\ i = 0
              OBVIOUS
            <7>2. m \in 0 .. Len(o) - 1
              BY <4>1, <4>3
            <7> HIDE DEF o
            <7> QED BY <2>2, <5>2, <7>1, <7>2
          <6>6. f \o RemoveAt(names, 1) = f
            <7> HIDE DEF names, f
            <7>1. Len(names) = 1 /\ IsList(names)
              BY <2>2, <6>5
            <7>2. IsList(RemoveAt(names, 1)) /\ Len(RemoveAt(names, 1)) = 0
              BY <7>1, RemovedIs
            <7>3. RemoveAt(names, 1) = <<>>
              BY <7>2 DEF IsList
            <7>4. f \in Seq(ToSet(f))
              BY <2>2 DEF f, IsList
            <7> QED BY <7>3, <7>4
          <6> QED BY <6>4, <6>5, <6>6
        <5> QED BY <5>1, <5>2
      <4>6. HeldIn(L) = f \o names
        BY <1>7
      <4> HIDE DEF f, p
      <4> QED BY <1>3, <4>4, <4>5, <4>6
    <3> QED BY <3>3, <3>4
  <2> QED BY <2>4, <2>5, <2>6
<1> QED BY <1>1, <1>5, <1>6, <1>7 DEF Goal

-----------------------------------------------------------------------------
(* What apply_changes does to the windows of the layout: nothing.          *)

\* A child that is placed anew stays what it is.
Alike(x, y) ==
  /\ IsWindow(x) => IsWindow(y) /\ y.window = x.window
  /\ IsStack(x) => IsStack(y) /\ Names(y.children) = Names(x.children)

\* What apply_changes does to the node at the main place keeps its window.
LEMMA AlikeFirst ==
  ASSUME NEW x, NEW y, Alike(x, y), IsFirst(x)
  PROVE  IsFirst(y) /\ FirstIn(y) = FirstIn(x)
<1>1. CASE IsWindow(x)
  BY <1>1 DEF Alike, IsFirst, FirstIn, IsWindow
<1>2. CASE IsStack(x) /\ x.children = <<>>
  <2>1. IsStack(y) /\ Names(y.children) = <<>>
    BY <1>2, NamesAre DEF Alike
  <2>2. y.children = <<>>
    <3> DEFINE d == y.children
    <3>1. IsList(d) /\ Names(d) = <<>>
      BY <2>1 DEF IsStack
    <3> HIDE DEF d
    <3>2. Len(Names(d)) = Len(d)
      BY <3>1, NamesAre
    <3>3. Len(d) = 0
      BY <3>1, <3>2
    <3>4. d = <<>>
      BY <3>1, <3>3 DEF IsList
    <3> QED BY <3>4 DEF d
  <2> QED BY <1>2, <2>1, <2>2 DEF IsFirst, FirstIn, IsStack
<1> QED BY <1>1, <1>2 DEF IsFirst

\* Changing only the places of nodes, and what is marked.
LEMMA MovedIs ==
  ASSUME NEW x
  PROVE  /\ \A g, lengths, k : g.children[k] = x => Alike(x, Configured(g, lengths, k))
         /\ IsWindow(x) => IsWindow(Leaf(x)) /\ Leaf(x).window = x.window
<1>1. ASSUME NEW g, NEW lengths, NEW k, g.children[k] = x
      PROVE  Alike(x, Configured(g, lengths, k))
  <2> DEFINE y == Configured(g, lengths, k)
  <2>1. PICK at, size : y = [x EXCEPT !.at = at, !.size = size, !.fresh = FALSE]
    BY <1>1 DEF Configured
  <2> HIDE DEF y
  <2>2. ASSUME IsWindow(x) PROVE IsWindow(y) /\ y.window = x.window
    BY <2>1, <2>2 DEF IsWindow, NodeFields
  <2>3. ASSUME IsStack(x) PROVE IsStack(y) /\ y.children = x.children
    BY <2>1, <2>3 DEF IsStack, GroupFields
  <2> QED BY <2>2, <2>3 DEF Alike, y
<1>2. IsWindow(x) => IsWindow(Leaf(x)) /\ Leaf(x).window = x.window
  BY DEF IsWindow, NodeFields, Leaf
<1> QED BY <1>1, <1>2

\* apply_changes keeps the nodes of a group, and their windows.
LEMMA ArrangedIs ==
  ASSUME NEW x, Upright(x), IsList(x.children)
  PROVE  /\ Kept(x, Arranged(x)) /\ IsList(Arranged(x).children)
         /\ Len(Arranged(x).children) = Len(x.children)
         /\ \A k \in 1 .. Len(x.children) : Alike(x.children[k], Arranged(x).children[k])
<1> DEFINE n == Len(x.children)
           new == [k \in 1 .. n |-> Configured(x, Lengths(x), k)]
<1>1. CASE ~ChangesMade(x)
  <2>1. Arranged(x) = x
    BY <1>1 DEF Arranged
  <2> QED BY <2>1 DEF Kept, Upright, Alike
<1>2. CASE ChangesMade(x)
  <2>1. /\ Kept(x, Arranged(x)) /\ Arranged(x).children = new
    BY <1>2 DEF Arranged, TakeChanges, OrientationOf, Kept, Upright, GroupFields
  <2>2. n \in Nat
    BY DEF IsList
  <2> HIDE DEF n
  <2>3. IsList(new) /\ Len(new) = n
    <3> DEFINE S == {new[k] : k \in 1 .. n}
    <3>1. \A k \in 1 .. n : new[k] \in S
      OBVIOUS
    <3> HIDE DEF S
    <3>2. new \in Seq(S) /\ Len(new) = n
      <4>1. new = [k \in 1 .. n |-> new[k]]
        OBVIOUS
      <4> HIDE DEF new
      <4> QED BY <2>2, <3>1, <4>1
    <3> HIDE DEF new
    <3> QED BY <3>2, ListIs
  <2>4. \A k \in 1 .. n : Alike(x.children[k], new[k])
    BY MovedIs
  <2> HIDE DEF new
  <2> QED BY <2>1, <2>3, <2>4 DEF n
<1> QED BY <1>1, <1>2

\* The changes of the stack itself.
LEMMA StackApplied ==
  ASSUME NEW x, IsStack(x)
  PROVE  IsStack(Apply(x)) /\ Names(Apply(x).children) = Names(x.children)
<1> DEFINE c == x.children
           p == Arranged(x)
           a == p.children
           d == [k \in DOMAIN a |-> Leaf(a[k])]
           y == Apply(x)
<1>1. Upright(x) /\ IsList(c) /\ \A k \in 1 .. Len(c) : IsWindow(c[k])
  BY DEF IsStack, Upright
<1>2. /\ Kept(x, p) /\ IsList(a) /\ Len(a) = Len(c)
      /\ \A k \in 1 .. Len(c) : Alike(c[k], a[k])
  BY <1>1, ArrangedIs
<1>3. Kept(x, y) /\ y.children = d
  <2>1. y = [p EXCEPT !.children = d]
    BY DEF Apply
  <2> HIDE DEF p, y, d
  <2> QED BY <1>2, <2>1 DEF Kept, GroupFields
<1> HIDE DEF a, c, y
<1>4. DOMAIN a = 1 .. Len(c) /\ Len(c) \in Nat
  BY <1>1, <1>2 DEF IsList
<1>5. ASSUME NEW k \in 1 .. Len(c) PROVE IsWindow(d[k]) /\ d[k].window = c[k].window
  <2>1. IsWindow(a[k]) /\ a[k].window = c[k].window
    BY <1>1, <1>2 DEF Alike
  <2> QED BY <1>4, <2>1, MovedIs
<1>6. DOMAIN d = 1 .. Len(c)
  BY <1>4
<1> HIDE DEF d
<1>7. IsList(d) /\ Len(d) = Len(c)
  <2> DEFINE S == {d[k] : k \in 1 .. Len(c)}
  <2>1. \A k \in 1 .. Len(c) : d[k] \in S
    OBVIOUS
  <2> HIDE DEF S
  <2>2. d = [k \in 1 .. Len(c) |-> d[k]]
    BY <1>3, <1>4, <1>6 DEF d
  <2>3. d \in Seq(S) /\ Len(d) = Len(c)
    BY <1>4, <2>1, <2>2
  <2> QED BY <2>3, ListIs
<1>8. Names(d) = Names(c)
  BY <1>5, <1>7 DEF Names
<1>9. IsStack(y)
  BY <1>3, <1>5, <1>7 DEF IsStack, Kept
<1> QED BY <1>3, <1>8, <1>9 DEF y, c

\* apply_changes, of the root and through it of the stack, keeps the windows.
LEMMA AppliedIs ==
  ASSUME NEW L, Shaped(L)
  PROVE  /\ Shaped(Applied(L)) /\ HeldIn(Applied(L)) = HeldIn(L)
         /\ Len(Applied(L).children) = Len(L.children)
         /\ \A k \in 1 .. Len(L.children) : Alike(L.children[k], Applied(L).children[k])
<1> DEFINE c == L.children
           p == Arranged(L)
           a == p.children
           d == [k \in DOMAIN a |-> Nested(a[k])]
           M == Applied(L)
<1>1. /\ Upright(L)
      /\ \/ c = <<>> /\ HeldIn(L) = <<>>
         \/ \E x : c = <<x>> /\ IsFirst(x) /\ HeldIn(L) = FirstIn(x)
         \/ \E x, y : /\ c = <<x, y>> /\ IsFirst(x) /\ IsStack(y)
                      /\ HeldIn(L) = FirstIn(x) \o Names(y.children)
  BY LayoutIs
<1>2. /\ Kept(L, p) /\ IsList(a) /\ Len(a) = Len(c)
      /\ \A k \in 1 .. Len(c) : Alike(c[k], a[k])
  BY <1>1, ArrangedIs DEF Shaped
<1>3. Kept(L, M) /\ M.children = d
  <2>1. M = [p EXCEPT !.children = d]
    BY DEF Applied
  <2> HIDE DEF p, M, d
  <2> QED BY <1>2, <2>1 DEF Kept, GroupFields
<1>4. ASSUME NEW x, NEW z, Alike(x, z), IsWindow(x) \/ IsStack(x)
      PROVE  Alike(x, Nested(z))
  <2>1. CASE IsWindow(x)
    <3>1. IsWindow(z) /\ z.window = x.window /\ Nested(z) = Leaf(z) /\ ~IsStack(x)
      BY <1>4, <2>1 DEF Alike, Nested, IsWindow, IsStack
    <3> QED BY <3>1, MovedIs DEF Alike
  <2>2. CASE IsStack(x)
    <3>1. /\ IsStack(z) /\ Names(z.children) = Names(x.children) /\ Nested(z) = Apply(z)
          /\ ~IsWindow(x)
      BY <1>4, <2>2 DEF Alike, Nested, IsWindow, IsStack
    <3> QED BY <3>1, StackApplied DEF Alike
  <2> QED BY <1>4, <2>1, <2>2
<1> HIDE DEF a, M
<1>5. DOMAIN a = 1 .. Len(c)
  BY <1>2 DEF IsList
<1>6. ASSUME NEW k \in 1 .. Len(c), IsWindow(c[k]) \/ IsStack(c[k]) PROVE Alike(c[k], d[k])
  BY <1>2, <1>4, <1>5, <1>6
<1>7. d = [k \in 1 .. Len(c) |-> d[k]]
  BY <1>5
<1> HIDE DEF d, c
<1>11. Len(M.children) = Len(c) /\ \A k \in 1 .. Len(c) : Alike(c[k], M.children[k])
  <2>1. ASSUME NEW k \in 1 .. Len(c) PROVE IsWindow(c[k]) \/ IsStack(c[k])
    <3>1. ASSUME NEW x, c = <<x>>, IsFirst(x) PROVE IsWindow(c[k]) \/ IsStack(c[k])
      BY <3>1 DEF IsFirst
    <3>2. ASSUME NEW x, NEW y, c = <<x, y>>, IsFirst(x), IsStack(y)
          PROVE  IsWindow(c[k]) \/ IsStack(c[k])
      BY <3>2 DEF IsFirst
    <3>3. c # <<>>
      OBVIOUS
    <3> QED BY <1>1, <3>1, <3>2, <3>3 DEF c
  <2>2. Len(c) \in Nat
    BY ShapedIs DEF c
  <2>3. Len(d) = Len(c)
    BY <1>7, <2>2
  <2> QED BY <1>3, <1>6, <2>1, <2>3
<1>8. ASSUME c = <<>>, HeldIn(L) = <<>> PROVE Shaped(M) /\ HeldIn(M) = HeldIn(L)
  <2>1. d = <<>>
    BY <1>7, <1>8
  <2> QED BY <1>3, <1>8, <2>1, LayoutsOf
<1>9. ASSUME NEW x, c = <<x>>, IsFirst(x), HeldIn(L) = FirstIn(x)
      PROVE  Shaped(M) /\ HeldIn(M) = HeldIn(L)
  <2>1. Len(c) = 1 /\ c[1] = x /\ 1 \in 1 .. Len(c)
    BY <1>9
  <2>2. d = <<d[1]>>
    BY <1>7, <2>1
  <2>3. Alike(x, d[1])
    BY <1>6, <1>9, <2>1 DEF IsFirst
  <2>4. IsFirst(d[1]) /\ FirstIn(d[1]) = FirstIn(x)
    BY <1>9, <2>3, AlikeFirst
  <2> QED BY <1>3, <1>9, <2>2, <2>4, LayoutsOf
<1>10. ASSUME NEW x, NEW y, c = <<x, y>>, IsFirst(x), IsStack(y),
              HeldIn(L) = FirstIn(x) \o Names(y.children)
       PROVE  Shaped(M) /\ HeldIn(M) = HeldIn(L)
  <2>1. Len(c) = 2 /\ c[1] = x /\ c[2] = y /\ 1 \in 1 .. Len(c) /\ 2 \in 1 .. Len(c)
    BY <1>10
  <2>2. d = <<d[1], d[2]>>
    BY <1>7, <2>1
  <2>3. Alike(x, d[1]) /\ Alike(y, d[2])
    BY <1>6, <1>10, <2>1 DEF IsFirst
  <2>4. IsFirst(d[1]) /\ FirstIn(d[1]) = FirstIn(x)
    BY <1>10, <2>3, AlikeFirst
  <2>5. IsStack(d[2]) /\ Names(d[2].children) = Names(y.children)
    BY <1>10, <2>3 DEF Alike
  <2>6. Shaped(M) /\ HeldIn(M) = FirstIn(d[1]) \o Names(d[2].children)
    BY <1>3, <2>2, <2>4, <2>5, LayoutOfTwo
  <2> QED BY <1>10, <2>4, <2>5, <2>6
<1>12. Shaped(M) /\ HeldIn(M) = HeldIn(L)
  BY <1>1, <1>8, <1>9, <1>10 DEF c
<1> QED BY <1>11, <1>12 DEF M, c

\* A window that apply_changes reconfigures is one of the layout.
LEMMA ReconfiguredIs ==
  ASSUME NEW L, Shaped(L), NEW node \in ToReconfigure(L)
  PROVE  node.window \in ToSet(HeldIn(L))
<1> DEFINE c == L.children
           M == Applied(L)
           a == M.children
<1>1. /\ Shaped(M) /\ HeldIn(M) = HeldIn(L) /\ Len(a) = Len(c)
      /\ \A k \in 1 .. Len(c) : Alike(c[k], a[k])
  BY AppliedIs
<1>2. \/ \E k \in Reconfigured(L) : node = a[k]
      \/ \E k \in DOMAIN a : /\ a[k].kind = "group"
                            /\ \E j \in Reconfigured(c[k]) : node = a[k].children[j]
  <2>1. ToReconfigure(L) = {a[k] : k \in Reconfigured(L)} \cup
          UNION {{a[k].children[j] : j \in Reconfigured(c[k])} :
                   k \in {k \in DOMAIN a : a[k].kind = "group"}}
    BY DEF ToReconfigure
  <2> HIDE DEF a, c, M
  <2> QED BY <2>1
<1> HIDE DEF a, c, M
<1>3. /\ DOMAIN c = 1 .. Len(c) /\ DOMAIN a = 1 .. Len(c)
      /\ Len(c) = 0 \/ Len(c) = 1 \/ Len(c) = 2
  BY <1>1, ShapedIs DEF c, a
<1>4. /\ Len(c) >= 1 => IsFirst(c[1])
      /\ Len(c) = 2 => IsStack(c[2])
  BY DEF Shaped, c
<1>5. /\ Len(c) = 1 => HeldIn(M) = FirstIn(a[1])
      /\ Len(c) = 2 => HeldIn(M) = FirstIn(a[1]) \o Names(a[2].children)
      /\ IsList(HeldIn(M))
  BY <1>1, HeldIs DEF a
<1>6. ASSUME NEW k \in Reconfigured(L), node = a[k] PROVE node.window \in ToSet(HeldIn(M))
  <2>1. k \in 1 .. Len(c) /\ c[k].kind = "window"
    BY <1>3, <1>6 DEF Reconfigured, c
  <2>2. k = 1
    BY <1>3, <1>4, <2>1 DEF IsStack
  <2>3. IsWindow(c[1]) /\ Len(c) >= 1
    BY <1>3, <1>4, <2>1, <2>2 DEF IsFirst, IsStack
  <2>4. IsWindow(a[1])
    BY <1>1, <2>1, <2>2, <2>3 DEF Alike
  <2>5. FirstIn(a[1]) = <<node.window>>
    BY <1>6, <2>2, <2>4 DEF FirstIn, IsWindow
  <2>6. CASE Len(c) = 1
    <3>1. HeldIn(M) = <<node.window>>
      BY <1>5, <2>5, <2>6
    <3> QED BY <3>1 DEF ToSet
  <2>7. CASE Len(c) = 2
    <3> DEFINE t == Names(a[2].children)
    <3>1. IsStack(a[2])
      BY <1>1, <1>3, <1>4, <2>7 DEF Alike
    <3>2. IsList(t) /\ IsList(<<node.window>>)
      BY <3>1, NamesAre, ShortLists DEF IsStack
    <3>3. HeldIn(M) = <<node.window>> \o t
      BY <1>5, <2>5, <2>7
    <3> HIDE DEF t
    <3>4. HeldIn(M)[1] = node.window /\ 1 \in DOMAIN HeldIn(M)
      <4>1. /\ IsList(<<node.window>> \o t)
            /\ Len(<<node.window>> \o t) = Len(<<node.window>>) + Len(t)
            /\ \A i \in 1 .. Len(<<node.window>>) :
                 (<<node.window>> \o t)[i] = <<node.window>>[i]
        BY <3>2, JoinedIs
      <4>2. Len(<<node.window>>) = 1 /\ <<node.window>>[1] = node.window /\ Len(t) \in Nat
        BY <3>2 DEF IsList
      <4>3. DOMAIN HeldIn(M) = 1 .. 1 + Len(t)
        BY <3>3, <4>1, <4>2 DEF IsList
      <4> QED BY <3>3, <4>1, <4>2, <4>3
    <3> QED BY <3>4 DEF ToSet
  <2> QED BY <1>3, <2>3, <2>6, <2>7
<1>7. ASSUME NEW k \in DOMAIN a, a[k].kind = "group",
             NEW j \in Reconfigured(c[k]), node = a[k].children[j]
      PROVE  node.window \in ToSet(HeldIn(M))
  <2>1. k \in 1 .. Len(c) /\ j \in DOMAIN c[k].children
    BY <1>3, <1>7 DEF Reconfigured
  <2>2. IsStack(c[k]) /\ (k = 1 => c[k].children = <<>>)
    <3>1. CASE k = 1
      <4>1. IsFirst(c[1])
        BY <1>3, <1>4, <2>1, <3>1
      <4>2. ~IsWindow(c[1])
        BY <1>1, <1>7, <2>1, <3>1 DEF Alike, IsWindow
      <4> QED BY <3>1, <4>1, <4>2 DEF IsFirst
    <3>2. CASE k = 2
      BY <1>3, <1>4, <2>1, <3>2
    <3> QED BY <1>3, <2>1, <3>1, <3>2
  <2>3. k = 2 /\ Len(c) = 2
    <3>1. DOMAIN <<>> = {}
      OBVIOUS
    <3>2. k # 1
      BY <2>1, <2>2, <3>1
    <3> QED BY <1>3, <2>1, <3>2
  <2> DEFINE s == c[2].children
             r == a[2].children
  <2>4. IsStack(a[2]) /\ Names(r) = Names(s) /\ IsList(r) /\ IsList(s) /\ j \in DOMAIN s
    BY <1>1, <2>1, <2>2, <2>3 DEF Alike, IsStack
  <2> HIDE DEF r, s
  <2>5. j \in 1 .. Len(r) /\ Len(r) \in Nat
    BY <2>4, NamesAre DEF IsList
  <2>6. IsList(Names(r)) /\ Len(Names(r)) = Len(r) /\ Names(r)[j] = node.window
    BY <1>7, <2>3, <2>4, <2>5, NamesAre DEF Names, r
  <2> DEFINE f == FirstIn(a[1])
             n == Names(r)
  <2>7. IsList(f) /\ IsList(n)
    <3>1. 1 \in 1 .. Len(c) /\ IsFirst(c[1]) /\ Alike(c[1], a[1])
      BY <1>1, <1>4, <2>3
    <3>2. IsFirst(a[1])
      BY <3>1, AlikeFirst
    <3> QED BY <2>6, <3>2, FrontIs
  <2>8. HeldIn(M) = f \o n
    BY <1>5, <2>3 DEF r
  <2>9. Len(n) = Len(r) /\ n[j] = node.window
    BY <2>6
  <2> HIDE DEF f, n
  <2>10. /\ IsList(f \o n) /\ Len(f \o n) = Len(f) + Len(n)
         /\ \A i \in 1 .. Len(n) : (f \o n)[Len(f) + i] = n[i]
    BY <2>7, JoinedIs
  <2>11. Len(f) \in Nat
    BY <2>7 DEF IsList
  <2>12. Len(f) + j \in 1 .. Len(f) + Len(n)
    BY <2>5, <2>9, <2>11
  <2>13. Len(f) + j \in DOMAIN HeldIn(M)
    BY <2>8, <2>10, <2>12 DEF IsList
  <2>14. HeldIn(M)[Len(f) + j] = node.window
    BY <2>5, <2>8, <2>9, <2>10
  <2> QED BY <2>13, <2>14 DEF ToSet
<1>8. node.window \in ToSet(HeldIn(M))
  BY <1>2, <1>6, <1>7
<1> QED BY <1>1, <1>8

-----------------------------------------------------------------------------
(* The state of AquariWM.                                                  *)

MappedIn(wm) == {w \in Tracked(wm) : wm.windows[w] = "Mapped"}

\* The layout holds the windows that are mapped, each once.
Good(wm) ==
  /\ DOMAIN wm = {"layout", "windows"}
  /\ Shaped(wm.layout)
  /\ wm.windows \in [Tracked(wm) -> MapStates]
  /\ IsInjective(Tiled(wm))
  /\ ToSet(Tiled(wm)) = MappedIn(wm)

\* One window is tracked anew, or differently.
Tracks(wm, after, w, mapped) ==
  /\ Tracked(after) = Tracked(wm) \cup {w}
  /\ \A v \in Tracked(after) : after.windows[v] = IF v = w THEN mapped ELSE wm.windows[v]

\* The windows that are tiled are those of the layout.
LEMMA TiledIs ==
  ASSUME NEW wm, Shaped(wm.layout)
  PROVE  Tiled(wm) = HeldIn(wm.layout) /\ IsList(Tiled(wm))
<1> DEFINE nodes == WindowNodes(wm.layout)
<1>1. IsList(nodes) /\ IsList(Names(nodes)) /\ HeldIn(wm.layout) = Names(nodes)
  BY HeldIs DEF HeldIn
<1>2. DOMAIN nodes = 1 .. Len(nodes)
  <2> HIDE DEF nodes
  <2> QED BY <1>1 DEF IsList
<1>3. Tiled(wm) = [k \in DOMAIN nodes |-> nodes[k].window]
  BY DEF Tiled
<1> HIDE DEF nodes
<1>4. Tiled(wm) = Names(nodes)
  BY <1>2, <1>3 DEF Names
<1> QED BY <1>1, <1>4

\* Appending another window, and taking one out.
LEMMA StillOnce ==
  ASSUME NEW s, IsList(s), IsInjective(s), NEW w
  PROVE  /\ w \notin ToSet(s) => IsInjective(Append(s, w)) /\ ToSet(Append(s, w)) = ToSet(s) \cup {w}
         /\ \A t : Without(s, w, t) => IsInjective(t) /\ ToSet(t) = ToSet(s) \ {w}
<1>0. Len(s) \in Nat /\ DOMAIN s = 1 .. Len(s) /\ ToSet(s) = {s[k] : k \in 1 .. Len(s)}
  BY DEF IsList, ToSet
<1>1. ASSUME w \notin ToSet(s)
      PROVE  IsInjective(Append(s, w)) /\ ToSet(Append(s, w)) = ToSet(s) \cup {w}
  <2> DEFINE t == Append(s, w)
  <2>1. /\ IsList(t) /\ Len(t) = Len(s) + 1
        /\ \A k \in 1 .. Len(s) : t[k] = s[k]
        /\ t[Len(s) + 1] = w
        /\ ToSet(t) = ToSet(s) \cup {w}
    BY AppendedIs
  <2> HIDE DEF t
  <2>2. DOMAIN t = 1 .. Len(s) + 1
    BY <2>1 DEF IsList
  <2>3. ASSUME NEW j \in 1 .. Len(s) + 1, NEW k \in 1 .. Len(s) + 1, t[j] = t[k] PROVE j = k
    <3>1. j \in 1 .. Len(s) \/ j = Len(s) + 1
      BY <1>0
    <3>2. k \in 1 .. Len(s) \/ k = Len(s) + 1
      BY <1>0
    <3>3. \A i \in 1 .. Len(s) : s[i] # w
      BY <1>0, <1>1
    <3>4. CASE j \in 1 .. Len(s) /\ k \in 1 .. Len(s)
      BY <1>0, <2>1, <2>3, <3>4 DEF IsInjective
    <3> QED BY <2>1, <2>3, <3>1, <3>2, <3>3, <3>4
  <2>4. IsInjective(t)
    BY <2>2, <2>3 DEF IsInjective
  <2> QED BY <2>1, <2>4 DEF t
<1>2. ASSUME NEW t, Without(s, w, t) PROVE IsInjective(t) /\ ToSet(t) = ToSet(s) \ {w}
  <2>1. CASE w \notin ToSet(s) /\ t = s
    BY <2>1
  <2>2. ASSUME NEW p \in 1 .. Len(s), s[p] = w, t = RemoveAt(s, p)
        PROVE  IsInjective(t) /\ ToSet(t) = ToSet(s) \ {w}
    <3>1. /\ IsList(t) /\ Len(t) = Len(s) - 1
          /\ \A k \in 1 .. p - 1 : t[k] = s[k]
          /\ \A k \in p + 1 .. Len(s) : t[k - 1] = s[k]
      BY <2>2, RemovedIs
    <3>2. /\ DOMAIN t = 1 .. Len(s) - 1 /\ ToSet(t) = {t[k] : k \in 1 .. Len(s) - 1}
          /\ p \in Nat /\ p >= 1 /\ p <= Len(s)
      BY <1>0, <3>1 DEF IsList, ToSet
    <3>3. ASSUME NEW k \in 1 .. Len(s) - 1
          PROVE  \/ k < p /\ k \in 1 .. Len(s) /\ t[k] = s[k]
                 \/ k >= p /\ k + 1 \in 1 .. Len(s) /\ t[k] = s[k + 1]
      <4>1. CASE k < p
        <5>1. k \in 1 .. p - 1 /\ k \in 1 .. Len(s)
          BY <1>0, <3>2, <4>1
        <5> QED BY <3>1, <4>1, <5>1
      <4>2. CASE k >= p
        <5>1. k + 1 \in p + 1 .. Len(s) /\ k + 1 \in 1 .. Len(s) /\ (k + 1) - 1 = k
          BY <1>0, <3>2, <4>2
        <5>2. t[(k + 1) - 1] = s[k + 1]
          BY <3>1, <5>1
        <5> QED BY <4>2, <5>1, <5>2
      <4> QED BY <1>0, <3>2, <4>1, <4>2
    <3>4. \A j, k \in 1 .. Len(s) : s[j] = s[k] => j = k
      BY <1>0 DEF IsInjective
    <3>5. ASSUME NEW j \in 1 .. Len(s) - 1, NEW k \in 1 .. Len(s) - 1, t[j] = t[k] PROVE j = k
      <4>1. \/ j < p /\ j \in 1 .. Len(s) /\ t[j] = s[j]
            \/ j >= p /\ j + 1 \in 1 .. Len(s) /\ t[j] = s[j + 1]
        BY <3>3
      <4>2. \/ k < p /\ k \in 1 .. Len(s) /\ t[k] = s[k]
            \/ k >= p /\ k + 1 \in 1 .. Len(s) /\ t[k] = s[k + 1]
        BY <3>3
      <4> QED BY <3>2, <3>4, <3>5, <4>1, <4>2
    <3>6. IsInjective(t)
      BY <3>2, <3>5 DEF IsInjective
    <3>7. ASSUME NEW k \in 1 .. Len(s) - 1 PROVE t[k] \in ToSet(s) \ {w}
      <4>1. PICK i \in 1 .. Len(s) : i # p /\ t[k] = s[i]
        BY <3>2, <3>3
      <4> QED BY <1>0, <2>2, <3>4, <4>1
    <3>8. ASSUME NEW k \in 1 .. Len(s), s[k] # w PROVE s[k] \in ToSet(t)
      <4>1. CASE k < p
        <5>1. k \in 1 .. p - 1 /\ k \in 1 .. Len(s) - 1
          BY <1>0, <3>2, <4>1
        <5> QED BY <3>1, <3>2, <5>1
      <4>2. CASE k > p
        <5>1. k \in p + 1 .. Len(s) /\ k - 1 \in 1 .. Len(s) - 1
          BY <1>0, <3>2, <4>2
        <5> QED BY <3>1, <3>2, <5>1
      <4> QED BY <1>0, <2>2, <3>2, <3>8, <4>1, <4>2
    <3> QED BY <1>0, <3>2, <3>6, <3>7, <3>8
  <2> QED BY <1>2, <2>1, <2>2 DEF Without
<1> QED BY <1>1, <1>2

\* AquariWm::new: no windows, a good state.
LEMMA NewWmIs ==
  Good(NewWm) /\ Tracked(NewWm) = {} /\ Tiled(NewWm) = <<>>
<1> DEFINE wm == NewWm
<1>1. DOMAIN wm = {"layout", "windows"} /\ wm.layout = NewLayout /\ Tracked(wm) = {}
  BY DEF NewWm, Tracked
<1>2. wm.windows \in [Tracked(wm) -> MapStates]
  BY DEF NewWm, Tracked
<1>3. Tiled(wm) = <<>> /\ Shaped(wm.layout)
  BY <1>1, NewLayoutIs, TiledIs
<1> HIDE DEF wm
<1>4. IsInjective(Tiled(wm)) /\ ToSet(Tiled(wm)) = MappedIn(wm)
  BY <1>1, <1>3 DEF IsInjective, ToSet, MappedIn
<1> QED BY <1>1, <1>2, <1>3, <1>4 DEF Good, wm

\* A state whose layout is to hold other windows.
LEMMA GoodWith ==
  ASSUME NEW wm, Good(wm), NEW after, NEW w, NEW mapped \in MapStates,
         DOMAIN after = {"layout", "windows"}, Shaped(after.layout),
         after.windows = With(wm.windows, w, mapped),
         \/ mapped = "Mapped" /\ w \notin MappedIn(wm) /\ Tiled(after) = Append(Tiled(wm), w)
         \/ mapped = "Mapped" /\ w \in MappedIn(wm) /\ Tiled(after) = Tiled(wm)
         \/ mapped = "Unmapped" /\ Without(Tiled(wm), w, Tiled(after))
  PROVE  Good(after) /\ Tracks(wm, after, w, mapped)
<1> DEFINE s == Tiled(wm)
           t == Tiled(after)
<1>1. IsList(s) /\ IsInjective(s) /\ ToSet(s) = MappedIn(wm)
  BY TiledIs DEF Good
<1>2. after.windows = [v \in Tracked(wm) \cup {w} |-> IF v = w THEN mapped ELSE wm.windows[v]]
  BY DEF With, Tracked
<1>3. Tracked(after) = Tracked(wm) \cup {w}
  BY <1>2 DEF Tracked
<1>4. Tracks(wm, after, w, mapped)
  BY <1>2, <1>3 DEF Tracks
<1>5. after.windows \in [Tracked(after) -> MapStates]
  BY <1>2, <1>3 DEF Good
<1>6. MappedIn(after) = IF mapped = "Mapped" THEN MappedIn(wm) \cup {w} ELSE MappedIn(wm) \ {w}
  BY <1>2, <1>3 DEF MappedIn
<1> HIDE DEF s, t
<1>7. IsInjective(t) /\ ToSet(t) = MappedIn(after)
  <2>1. CASE mapped = "Mapped" /\ w \notin MappedIn(wm) /\ t = Append(s, w)
    BY <1>1, <1>6, <2>1, StillOnce
  <2>2. CASE mapped = "Mapped" /\ w \in MappedIn(wm) /\ t = s
    BY <1>1, <1>6, <2>2
  <2>3. CASE mapped = "Unmapped" /\ Without(s, w, t)
    BY <1>1, <1>6, <2>3, StillOnce
  <2> QED BY <2>1, <2>2, <2>3 DEF s, t
<1> QED BY <1>4, <1>5, <1>7 DEF Good, t

\* The record of a window, which the layout does not see.
LEMMA TrackIs ==
  ASSUME NEW wm, DOMAIN wm = {"layout", "windows"}, NEW w, NEW mapped
  PROVE  /\ DOMAIN Track(wm, w, mapped) = {"layout", "windows"}
         /\ Track(wm, w, mapped).layout = wm.layout
         /\ Track(wm, w, mapped).windows = With(wm.windows, w, mapped)
         /\ Tiled(Track(wm, w, mapped)) = Tiled(wm)
<1>1. Track(wm, w, mapped) = [wm EXCEPT !.windows = With(wm.windows, w, mapped)]
  BY DEF Track
<1>2. /\ DOMAIN Track(wm, w, mapped) = {"layout", "windows"}
      /\ Track(wm, w, mapped).layout = wm.layout
      /\ Track(wm, w, mapped).windows = With(wm.windows, w, mapped)
  BY <1>1
<1> QED BY <1>2 DEF Tiled

\* The layout of the state is changed, as a layout is.
LEMMA RelaidIs ==
  ASSUME NEW wm, Good(wm), NEW L, Shaped(L)
  PROVE  LET next == [wm EXCEPT !.layout = L]
         IN  /\ DOMAIN next = {"layout", "windows"} /\ next.layout = L
             /\ next.windows = wm.windows /\ Tracked(next) = Tracked(wm)
             /\ Tiled(next) = HeldIn(L) /\ Tiled(wm) = HeldIn(wm.layout)
             /\ IsInjective(HeldIn(wm.layout))
<1> DEFINE next == [wm EXCEPT !.layout = L]
<1>1. DOMAIN next = {"layout", "windows"} /\ next.layout = L /\ next.windows = wm.windows
  BY DEF Good
<1> HIDE DEF next
<1>2. Tiled(next) = HeldIn(L) /\ Tiled(wm) = HeldIn(wm.layout)
  BY <1>1, TiledIs DEF Good
<1>3. Tracked(next) = Tracked(wm)
  BY <1>1 DEF Tracked
<1>4. IsInjective(HeldIn(wm.layout))
  BY <1>2 DEF Good
<1> QED BY <1>1, <1>2, <1>3, <1>4 DEF next

\* A window that was not mapped is mapped: AddToLayout and Track.
LEMMA GrownWm ==
  ASSUME NEW wm, Good(wm), NEW w, w \notin MappedIn(wm), NEW after,
         after = Track([wm EXCEPT !.layout = AddToLayout(@, w)], w, "Mapped")
  PROVE  Good(after) /\ Tracks(wm, after, w, "Mapped") /\ Tiled(after) = Append(Tiled(wm), w)
<1> DEFINE L == AddToLayout(wm.layout, w)
           next == [wm EXCEPT !.layout = L]
<1>1. Shaped(L) /\ HeldIn(L) = Append(HeldIn(wm.layout), w)
  BY AddedIs DEF Good
<1>2. /\ DOMAIN next = {"layout", "windows"} /\ next.layout = L
      /\ next.windows = wm.windows
      /\ Tiled(next) = HeldIn(L) /\ Tiled(wm) = HeldIn(wm.layout)
  <2> HIDE DEF L
  <2> QED BY <1>1, RelaidIs
<1>3. after = Track(next, w, "Mapped")
  OBVIOUS
<1> HIDE DEF next, L
<1>4. /\ DOMAIN after = {"layout", "windows"} /\ Shaped(after.layout)
      /\ after.windows = With(wm.windows, w, "Mapped")
      /\ Tiled(after) = Append(Tiled(wm), w)
  BY <1>1, <1>2, <1>3, TrackIs
<1>5. "Mapped" \in MapStates
  BY DEF MapStates
<1>6. Good(after) /\ Tracks(wm, after, w, "Mapped")
  BY <1>4, <1>5, GoodWith
<1> QED BY <1>4, <1>6

\* A window is only tracked, as it is in the layout or as it is not.
LEMMA RetrackedWm ==
  ASSUME NEW wm, Good(wm), NEW w, NEW mapped \in MapStates,
         mapped = "Mapped" <=> w \in MappedIn(wm), NEW after, after = Track(wm, w, mapped)
  PROVE  Good(after) /\ Tracks(wm, after, w, mapped) /\ Tiled(after) = Tiled(wm)
<1>1. /\ DOMAIN after = {"layout", "windows"} /\ Shaped(after.layout)
      /\ after.windows = With(wm.windows, w, mapped)
      /\ Tiled(after) = Tiled(wm)
  BY TrackIs DEF Good
<1>2. mapped = "Unmapped" => Without(Tiled(wm), w, Tiled(after))
  BY <1>1 DEF Without, Good
<1>3. mapped = "Mapped" \/ mapped = "Unmapped"
  BY DEF MapStates
<1>4. Good(after) /\ Tracks(wm, after, w, mapped)
  BY <1>1, <1>2, <1>3, GoodWith
<1> QED BY <1>1, <1>4

\* add_window
LEMMA AddWindowIs ==
  ASSUME NEW wm, Good(wm), NEW w, w \notin MappedIn(wm), NEW mapped \in MapStates
  PROVE  LET after == AddWindow(wm, w, mapped)
         IN  /\ Good(after) /\ Tracks(wm, after, w, mapped)
             /\ Tiled(after) = IF mapped = "Mapped" THEN Append(Tiled(wm), w) ELSE Tiled(wm)
<1> DEFINE after == AddWindow(wm, w, mapped)
<1>1. CASE mapped = "Mapped"
  <2>1. after = Track([wm EXCEPT !.layout = AddToLayout(@, w)], w, "Mapped")
    BY <1>1 DEF AddWindow
  <2> QED BY <1>1, <2>1, GrownWm
<1>2. CASE mapped # "Mapped"
  <2>1. after = Track(wm, w, mapped)
    BY <1>2 DEF AddWindow
  <2> QED BY <1>2, <2>1, RetrackedWm
<1> QED BY <1>1, <1>2

\* map_window
LEMMA MapWindowIs ==
  ASSUME NEW wm, Good(wm), NEW w \in Tracked(wm)
  PROVE  LET after == MapWindow(wm, w)
         IN  /\ Good(after) /\ Tracks(wm, after, w, "Mapped")
             /\ Tiled(after) = IF w \in MappedIn(wm) THEN Tiled(wm) ELSE Append(Tiled(wm), w)
<1> DEFINE after == MapWindow(wm, w)
<1>0. wm.windows[w] \in MapStates
  BY DEF Good
<1>1. CASE wm.windows[w] = "Unmapped"
  <2>1. after = Track([wm EXCEPT !.layout = AddToLayout(@, w)], w, "Mapped")
    BY <1>1 DEF MapWindow
  <2>2. w \notin MappedIn(wm)
    BY <1>1 DEF MappedIn
  <2> QED BY <2>1, <2>2, GrownWm
<1>2. CASE wm.windows[w] # "Unmapped"
  <2>1. after = Track(wm, w, "Mapped")
    BY <1>2 DEF MapWindow
  <2>2. w \in MappedIn(wm) /\ "Mapped" \in MapStates
    BY <1>0, <1>2 DEF MappedIn, MapStates
  <2> QED BY <2>1, <2>2, RetrackedWm
<1> QED BY <1>1, <1>2

\* unmap_window
LEMMA UnmapWindowIs ==
  ASSUME NEW wm, Good(wm), NEW w \in Tracked(wm)
  PROVE  LET after == UnmapWindow(wm, w)
         IN  /\ Good(after) /\ Tracks(wm, after, w, "Unmapped")
             /\ Without(Tiled(wm), w, Tiled(after))
<1> DEFINE after == UnmapWindow(wm, w)
<1>1. CASE wm.windows[w] = "Mapped"
  <2> DEFINE L == RemoveFromLayout(wm.layout, w)
             next == [wm EXCEPT !.layout = L]
  <2>1. after = Track(next, w, "Unmapped")
    BY <1>1 DEF UnmapWindow
  <2>2. IsInjective(HeldIn(wm.layout)) /\ Shaped(wm.layout)
    BY TiledIs DEF Good
  <2>3. Shaped(L) /\ Without(HeldIn(wm.layout), w, HeldIn(L))
    BY <2>2, RemovedFromIs
  <2>4. /\ DOMAIN next = {"layout", "windows"} /\ next.layout = L
        /\ next.windows = wm.windows
        /\ Tiled(next) = HeldIn(L) /\ Tiled(wm) = HeldIn(wm.layout)
    <3> HIDE DEF L
    <3> QED BY <2>3, RelaidIs
  <2> HIDE DEF next, L, after
  <2>5. /\ DOMAIN after = {"layout", "windows"} /\ Shaped(after.layout)
        /\ after.windows = With(wm.windows, w, "Unmapped")
        /\ Without(Tiled(wm), w, Tiled(after))
    BY <2>1, <2>3, <2>4, TrackIs
  <2>6. "Unmapped" \in MapStates
    BY DEF MapStates
  <2>7. Good(after) /\ Tracks(wm, after, w, "Unmapped")
    BY <2>5, <2>6, GoodWith
  <2> QED BY <2>5, <2>7 DEF after
<1>2. CASE wm.windows[w] # "Mapped"
  <2>1. after = Track(wm, w, "Unmapped")
    BY <1>2 DEF UnmapWindow
  <2>2. w \notin MappedIn(wm) /\ "Unmapped" \in MapStates
    BY <1>2 DEF MappedIn, MapStates
  <2>3. Good(after) /\ Tracks(wm, after, w, "Unmapped") /\ Tiled(after) = Tiled(wm)
    BY <2>1, <2>2, RetrackedWm
  <2>4. w \notin ToSet(Tiled(wm))
    BY <2>2 DEF Good
  <2> QED BY <2>3, <2>4 DEF Without
<1> QED BY <1>1, <1>2

\* remove_window
LEMMA RemoveWindowIs ==
  ASSUME NEW wm, Good(wm), NEW w
  PROVE  LET after == RemoveWindow(wm, w)
         IN  /\ Good(after) /\ Tracked(after) = Tracked(wm) \ {w}
             /\ \A v \in Tracked(after) : after.windows[v] = wm.windows[v]
             /\ Without(Tiled(wm), w, Tiled(after))
<1> DEFINE after == RemoveWindow(wm, w)
           L == IF w \in Tracked(wm) /\ wm.windows[w] = "Mapped"
                THEN RemoveFromLayout(wm.layout, w) ELSE wm.layout
<1>1. /\ DOMAIN after = {"layout", "windows"} /\ after.layout = L
      /\ after.windows = [v \in Tracked(wm) \ {w} |-> wm.windows[v]]
  BY DEF RemoveWindow
<1>2. /\ Shaped(wm.layout) /\ IsInjective(HeldIn(wm.layout)) /\ Tiled(wm) = HeldIn(wm.layout)
      /\ ToSet(Tiled(wm)) = MappedIn(wm) /\ IsList(Tiled(wm)) /\ IsInjective(Tiled(wm))
  BY TiledIs DEF Good
<1>3. Shaped(L) /\ Without(HeldIn(wm.layout), w, HeldIn(L))
  <2>1. CASE w \in Tracked(wm) /\ wm.windows[w] = "Mapped"
    BY <1>2, <2>1, RemovedFromIs
  <2>2. CASE ~(w \in Tracked(wm) /\ wm.windows[w] = "Mapped")
    <3>1. w \notin ToSet(Tiled(wm))
      BY <1>2, <2>2 DEF MappedIn
    <3> QED BY <1>2, <2>2, <3>1 DEF Without
  <2> QED BY <2>1, <2>2
<1> HIDE DEF L, after
<1>4. Tiled(after) = HeldIn(L)
  BY <1>1, <1>3, TiledIs
<1>5. /\ Tracked(after) = Tracked(wm) \ {w}
      /\ \A v \in Tracked(after) : after.windows[v] = wm.windows[v]
      /\ after.windows \in [Tracked(after) -> MapStates]
  BY <1>1 DEF Good, Tracked
<1>6. MappedIn(after) = MappedIn(wm) \ {w}
  BY <1>5 DEF MappedIn
<1>7. Without(Tiled(wm), w, Tiled(after))
  BY <1>2, <1>3, <1>4
<1>8. IsInjective(Tiled(after)) /\ ToSet(Tiled(after)) = MappedIn(after)
  BY <1>2, <1>6, <1>7, StillOnce
<1>9. Good(after)
  BY <1>1, <1>3, <1>5, <1>8 DEF Good
<1> QED BY <1>5, <1>7, <1>9 DEF after

\* apply_changes
LEMMA AppliedWmIs ==
  ASSUME NEW wm, Good(wm)
  PROVE  LET after == [wm EXCEPT !.layout = Applied(@)]
         IN  Good(after) /\ after.windows = wm.windows /\ Tiled(after) = Tiled(wm)
<1> DEFINE L == Applied(wm.layout)
           after == [wm EXCEPT !.layout = L]
<1>1. Shaped(L) /\ HeldIn(L) = HeldIn(wm.layout)
  BY AppliedIs DEF Good
<1>2. /\ DOMAIN after = {"layout", "windows"} /\ after.layout = L
      /\ after.windows = wm.windows /\ Tracked(after) = Tracked(wm)
      /\ Tiled(after) = HeldIn(L) /\ Tiled(wm) = HeldIn(wm.layout)
  <2> HIDE DEF L
  <2> QED BY <1>1, RelaidIs
<1> HIDE DEF after, L
<1>3. MappedIn(after) = MappedIn(wm)
  BY <1>2 DEF MappedIn
<1>4. Good(after)
  BY <1>1, <1>2, <1>3 DEF Good
<1> QED BY <1>1, <1>2, <1>4 DEF after, L

=============================================================================
