---------------------------- MODULE PlaceLemmas ----------------------------
(***************************************************************************)
(* Where the layout of Stack puts its windows, through any calls of the    *)
(* manager: the nodes that were placed stay laid out, apart and on the     *)
(* screen, and apply_changes tells each window that moves.                 *)
(*                                                                         *)
(* Additions only make nodes that are new; what is removed is part of the  *)
(* total; so the room that additions take is the room of no other node.    *)
(* The root is given new nodes only while it has none that was placed with *)
(* windows in it, so that no window moves with the stack that it is in.    *)
(***************************************************************************)
EXTENDS StackLemmas

-----------------------------------------------------------------------------
(* Where the nodes of the layout are.                                      *)

\* A group of which only the nodes change between calls of apply_changes: the
\* additions are the new nodes, the total covers the others and those that
\* were removed, and those that were placed are where they were put.
Sound(g) ==
  /\ g.newSize = Unchanged /\ g.newAt = Unchanged
  /\ g.at \in [Axes -> Int] /\ g.size \in [Axes -> Nat]
  /\ g.total \in Int /\ g.removed \in Nat
  /\ g.additions \in Seq(Int) /\ Increasing(g.additions)
  /\ Members(g.additions) = FreshIn(g.children)
  /\ Grounded(g) /\ Laid(g)
  /\ SidesTotal(g) + g.removed <= g.total

\* A stack that is new has only new nodes: it has not been placed.  The node of
\* a window of the stack is never given another window.
SoundStack(x) ==
  /\ Sound(x)
  /\ \A k \in 1 .. Len(x.children) : ~x.children[k].changed
  /\ x.fresh => \A k \in 1 .. Len(x.children) : x.children[k].fresh

\* The root fills the screen but for the padding.  It is given new children
\* while it has no others to place, but for an empty stack: no window that has
\* been placed moves with its stack.
Spaced(L) ==
  /\ Sound(L) /\ L.removed = 0
  /\ L.at = Both(Gap) /\ L.size = [axis \in Axes |-> Screen[axis] - 2 * Gap]
  /\ \A k \in 1 .. Len(L.children) : IsStack(L.children[k]) => SoundStack(L.children[k])
  /\ Len(L.children) = 2 /\ L.children[1].fresh => L.children[2].fresh

\* The window nodes of the layout.
NodesOf(L) == ToSet(WindowNodes(L))

\* t has the place of each node that has been placed and not replaced since.
Known(nodes, t) ==
  \A node \in nodes : ~node.fresh /\ ~node.changed =>
                        node.window \in DOMAIN t /\ t[node.window] = Place(node)

\* The nodes of M that have been placed, and not replaced since, are nodes of L.
Stay(L, M) == \A node \in NodesOf(M) : node.fresh \/ node.changed \/ node \in NodesOf(L)

-----------------------------------------------------------------------------
(* What keeps a group sound.                                               *)

\* A group that is not reversed, of nodes that have places.
Framed(g) ==
  /\ Upright(g) /\ IsList(g.children)
  /\ \A k \in 1 .. Len(g.children) : {"at", "size", "fresh"} \subseteq DOMAIN g.children[k]

\* The root and the stack are.
LEMMA FramedIs ==
  /\ \A L : Shaped(L) => Framed(L)
  /\ \A x : IsStack(x) => Framed(x)
<1>1. \A x : IsWindow(x) \/ IsStack(x) => {"at", "size", "fresh"} \subseteq DOMAIN x
  BY DEF IsWindow, IsStack, NodeFields, GroupFields
<1>2. ASSUME NEW L, Shaped(L) PROVE Framed(L)
  <2> DEFINE c == L.children
  <2>1. Upright(L) /\ IsList(c)
    BY <1>2 DEF Shaped, Upright
  <2>2. /\ Len(c) = 0 \/ Len(c) = 1 \/ Len(c) = 2
        /\ Len(c) >= 1 => IsFirst(c[1])
        /\ Len(c) = 2 => IsStack(c[2])
    BY <1>2, ShapedIs DEF Shaped
  <2> HIDE DEF c
  <2>3. ASSUME NEW k \in 1 .. Len(c) PROVE IsWindow(c[k]) \/ IsStack(c[k])
    <3>1. (k = 1 /\ Len(c) >= 1) \/ (k = 2 /\ Len(c) = 2)
      BY <2>2
    <3> QED BY <2>2, <3>1 DEF IsFirst
  <2> QED BY <1>1, <2>1, <2>3 DEF Framed, c
<1>3. ASSUME NEW x, IsStack(x) PROVE Framed(x)
  <2>1. Upright(x) /\ IsList(x.children)
    BY <1>3 DEF IsStack, Upright
  <2>2. \A k \in 1 .. Len(x.children) : IsWindow(x.children[k])
    BY <1>3 DEF IsStack
  <2> QED BY <1>1, <2>1, <2>2 DEF Framed
<1> QED BY <1>2, <1>3

\* The list of the children.
LEMMA FramedList ==
  ASSUME NEW g, Framed(g)
  PROVE  /\ g.children \in Seq(ToSet(g.children)) /\ Len(g.children) \in Nat
         /\ DOMAIN g.children = 1 .. Len(g.children)
<1> DEFINE c == g.children
<1>1. c \in Seq(ToSet(c))
  BY DEF Framed, IsList
<1> HIDE DEF c
<1>2. Len(c) \in Nat /\ DOMAIN c = 1 .. Len(c)
  BY <1>1
<1> QED BY <1>1, <1>2 DEF c

\* New nodes are put into it, and tracked.
LEMMA GrownSound ==
  ASSUME NEW g, Framed(g), Sound(g), NEW S, g.children \in Seq(S), NEW c \in Seq(S), NEW a \in Seq(Int),
         NEW i, NEW n \in Nat, NEW V, NodesOpened(g.children, c, i, n, V),
         Increasing(a), Members(a) = Opened(Members(g.additions), i, n)
  PROVE  Sound([g EXCEPT !.children = c, !.additions = a])
<1> DEFINE h == [g EXCEPT !.children = c, !.additions = a]
<1>1. /\ h.newSize = g.newSize /\ h.newAt = g.newAt /\ h.at = g.at /\ h.size = g.size
      /\ h.total = g.total /\ h.removed = g.removed /\ h.orientation = g.orientation
      /\ h.children = c /\ h.additions = a
  BY DEF Framed, Upright, GroupFields
<1> HIDE DEF h
<1>2. FreshIn(c) = Opened(FreshIn(g.children), i, n)
  BY FreshOpened
<1>3. Members(a) = FreshIn(c)
  BY <1>2 DEF Sound
<1>4. Grounded(g) /\ Laid(g) /\ Len(g.children) \in Nat
  BY DEF Sound, Grounded
<1>5. Grounded(h) /\ SidesTotal(h) = SidesTotal(g)
  BY <1>1, <1>4, SidesOpened
<1>6. Laid(h)
  BY <1>1, <1>4, LaidOpened
<1>7. Sound(h)
  BY <1>1, <1>3, <1>5, <1>6 DEF Sound
<1> QED BY <1>7 DEF h

\* A node is taken out, and tracked; its size may be recorded.
LEMMA ShrunkSound ==
  ASSUME NEW g, Framed(g), Sound(g), NEW S, g.children \in Seq(S), NEW c \in Seq(S), NEW a \in Seq(Int),
         NEW r, NEW i, NodesClosed(g.children, c, i),
         Increasing(a), Members(a) = Closed(Members(g.additions), i),
         r = g.removed \/ r = g.removed + g.children[i + 1].size[Axis(g.orientation)]
  PROVE  Sound([g EXCEPT !.children = c, !.additions = a, !.removed = r])
<1> DEFINE h == [g EXCEPT !.children = c, !.additions = a, !.removed = r]
           size == g.children[i + 1].size[Axis(g.orientation)]
<1>1. /\ h.newSize = g.newSize /\ h.newAt = g.newAt /\ h.at = g.at /\ h.size = g.size
      /\ h.total = g.total /\ h.removed = r /\ h.orientation = g.orientation
      /\ h.children = c /\ h.additions = a
  BY DEF Framed, Upright, GroupFields
<1> HIDE DEF h
<1>2. FreshIn(c) = Closed(FreshIn(g.children), i)
  BY FreshClosed
<1>3. Members(a) = FreshIn(c)
  BY <1>2 DEF Sound
<1>4. Grounded(g) /\ Laid(g) /\ Len(g.children) \in Nat
  BY DEF Sound, Grounded
<1>5. Grounded(h) /\ SidesTotal(h) = SidesTotal(g) - size
  BY <1>1, <1>4, SidesClosed
<1>6. Laid(h)
  BY <1>1, <1>4, LaidClosed
<1>7. size \in Nat /\ SidesTotal(g) \in Nat
  <2>1. i + 1 \in 1 .. Len(g.children)
    BY <1>4 DEF NodesClosed
  <2>2. size \in Nat
    BY <1>4, <2>1 DEF Grounded
  <2>3. SidesTotal(g) \in Nat
    BY <1>4, SidesAre DEF Grounded
  <2> QED BY <2>2, <2>3
<1>8. r = g.removed \/ r = g.removed + size
  OBVIOUS
<1> HIDE DEF size
<1>9. r \in Nat /\ SidesTotal(h) + h.removed <= h.total
  BY <1>1, <1>5, <1>7, <1>8 DEF Sound
<1>10. Sound(h)
  BY <1>1, <1>3, <1>5, <1>6, <1>9 DEF Sound
<1> QED BY <1>10 DEF h

\* What a call leaves of the place of the group itself.
SamePlace(x, y) == y.at = x.at /\ y.size = x.size /\ y.fresh = x.fresh

\* A new node comes last.
LEMMA PushedSound ==
  ASSUME NEW g, Framed(g), Sound(g), NEW node, node.fresh, node.size = Both(0)
  PROVE  LET h == PushNodeBack(g, node)
         IN  Sound(h) /\ SamePlace(g, h) /\ h.removed = g.removed
<1> DEFINE c == g.children
           s == g.additions
           S == ToSet(c) \cup {node}
           V == {node.window}
           h == PushNodeBack(g, node)
<1>1. c \in Seq(ToSet(c)) /\ Len(c) \in Nat /\ DOMAIN c = 1 .. Len(c)
  BY FramedList
<1>2. s \in Seq(Int) /\ Increasing(s) /\ Members(s) = FreshIn(c)
  BY DEF Sound
<1>3. h = [g EXCEPT !.children = c \o <<node>>, !.additions = s \o Run(Len(c), 1)]
  <2>1. ~Reversed(OrientationOf(g))
    BY DEF Framed, Upright, Reversed, OrientationOf
  <2>2. Run(Len(c), 1) = <<Len(c)>> /\ (Len(c) + 1) - 1 = Len(c)
    BY <1>1 DEF Run
  <2>3. Append(c, node) = c \o <<node>> /\ Append(s, Len(c)) = s \o <<Len(c)>>
    <3> HIDE DEF c, s
    <3>1. c \in Seq(S) /\ node \in S /\ Len(c) \in Int
      BY <1>1
    <3> HIDE DEF S
    <3>2. Append(c, node) = c \o <<node>>
      BY <3>1, AppendIsConcat
    <3>3. Append(s, Len(c)) = s \o <<Len(c)>>
      BY <1>2, <3>1, AppendIsConcat
    <3> QED BY <3>2, <3>3
  <2> QED BY <2>1, <2>2, <2>3 DEF PushNodeBack, PushLast, TrackPushBack
<1>4. AllNew(<<node>>, V)
  <2>1. IsNew(node, V)
    BY DEF IsNew
  <2> QED BY <2>1 DEF AllNew
<1>5. Members(s) \subseteq 0 .. Len(c) - 1
  BY <1>2 DEF FreshIn
<1>6. /\ SamePlace(g, h) /\ h.removed = g.removed
  BY <1>3 DEF SamePlace, Framed, Upright, GroupFields
<1> HIDE DEF c, s, h, V
<1>7. c \in Seq(S) /\ <<node>> \in Seq(S) /\ Len(<<node>>) = 1
  BY <1>1
<1> HIDE DEF S
<1>8. c \o <<node>> \in Seq(S) /\ NodesOpened(c, c \o <<node>>, Len(c), 1, V)
  BY <1>4, <1>7, AppendedAre
<1>9. /\ s \o Run(Len(c), 1) \in Seq(Int)
      /\ Increasing(s \o Run(Len(c), 1))
      /\ Members(s \o Run(Len(c), 1)) = Opened(Members(s), Len(c), 1)
  BY <1>1, <1>2, <1>5, TrackedBack
<1>10. Sound(h)
  BY <1>3, <1>7, <1>8, <1>9, GrownSound DEF c, s
<1> QED BY <1>6, <1>10 DEF h

\* remove, and the pops.
LEMMA TakenSound ==
  ASSUME NEW g, Framed(g), Sound(g)
  PROVE  /\ \A i \in 0 .. Len(g.children) - 1 :
              Sound(RemoveNode(g, i)) /\ SamePlace(g, RemoveNode(g, i))
         /\ g.children # <<>> =>
              /\ Sound(PopFront(g)) /\ SamePlace(g, PopFront(g)) /\ PopFront(g).removed = g.removed
              /\ Sound(PopBack(g)) /\ SamePlace(g, PopBack(g)) /\ PopBack(g).removed = g.removed
<1> DEFINE c == g.children
           s == g.additions
           S == ToSet(c)
           last == Len(c) - 1
<1>1. c \in Seq(S) /\ Len(c) \in Nat
  BY FramedList
<1>2. s \in Seq(Int) /\ Increasing(s) /\ Members(s) = FreshIn(c)
  BY DEF Sound
<1>3. Members(s) \subseteq 0 .. last /\ Members(s) \subseteq Nat
  BY <1>1, <1>2 DEF FreshIn
<1>4. ~Reversed(g.orientation)
  BY DEF Framed, Upright, Reversed
<1>5. DOMAIN g = GroupFields
  BY DEF Framed, Upright
<1>6. ASSUME NEW i \in 0 .. Len(c) - 1
      PROVE  Sound(RemoveNode(g, i)) /\ SamePlace(g, RemoveNode(g, i))
  <2> DEFINE h == RemoveNode(g, i)
             d == RemoveAt(c, i + 1)
             a == TrackRemove(s, i)
             r == g.removed + c[i + 1].size[Axis(g.orientation)]
  <2>1. h = [g EXCEPT !.children = d, !.additions = a, !.removed = r]
    BY <1>4 DEF RemoveNode, Slot
  <2>2. SamePlace(g, h)
    BY <1>5, <2>1 DEF SamePlace, GroupFields
  <2> HIDE DEF c, s, S, h
  <2>3. d \in Seq(S) /\ NodesClosed(c, d, i)
    BY <1>1, TakenAre
  <2>4. i \in Int
    BY <1>1
  <2>5. a \in Seq(Int) /\ Increasing(a) /\ Members(a) = Closed(Members(s), i)
    BY <1>2, <2>4, TrackRemoveIs
  <2> HIDE DEF d, a
  <2>6. r = g.removed \/ r = g.removed + g.children[i + 1].size[Axis(g.orientation)]
    BY DEF c
  <2> HIDE DEF r
  <2>7. Sound(h)
    BY <1>1, <2>1, <2>3, <2>5, <2>6, ShrunkSound DEF c, s
  <2> QED BY <2>2, <2>7 DEF h
<1>7. ASSUME c # <<>>
      PROVE  Sound(PopFront(g)) /\ SamePlace(g, PopFront(g)) /\ PopFront(g).removed = g.removed
  <2> DEFINE h == PopFront(g)
             d == Tail(c)
             a == TrackPopFront(s)
             r == g.removed
  <2>1. h = [g EXCEPT !.children = d, !.additions = a, !.removed = r]
    BY <1>4, <1>5 DEF PopFront, PopFirst, GroupFields
  <2>2. SamePlace(g, h) /\ h.removed = r
    BY <1>5, <2>1 DEF SamePlace, GroupFields
  <2> HIDE DEF c, s, S, h
  <2>3. d \in Seq(S) /\ NodesClosed(c, d, 0)
    <3>1. 0 \in 0 .. Len(c) - 1
      BY <1>1, <1>7
    <3> QED BY <1>1, <3>1, TakenAre
  <2>4. a \in Seq(Int) /\ Increasing(a) /\ Members(a) = Closed(Members(s), 0)
    BY <1>2, <1>3, TrackPopFrontIs
  <2> HIDE DEF d, a
  <2>5. Sound(h)
    BY <1>1, <2>1, <2>3, <2>4, ShrunkSound DEF c, s
  <2> QED BY <2>2, <2>5 DEF h
<1>8. ASSUME c # <<>>
      PROVE  Sound(PopBack(g)) /\ SamePlace(g, PopBack(g)) /\ PopBack(g).removed = g.removed
  <2> DEFINE h == PopBack(g)
             d == SubSeq(c, 1, Len(c) - 1)
             a == TrackPopBack(s, last)
             r == g.removed
  <2>1. h = [g EXCEPT !.children = d, !.additions = a, !.removed = r]
    BY <1>4, <1>5 DEF PopBack, PopLast, GroupFields
  <2>2. SamePlace(g, h) /\ h.removed = r
    BY <1>5, <2>1 DEF SamePlace, GroupFields
  <2> HIDE DEF c, s, S, h
  <2>3. last \in Nat /\ last \in 0 .. Len(c) - 1
    BY <1>1, <1>8
  <2>4. d \in Seq(S) /\ NodesClosed(c, d, last)
    BY <1>1, <2>3, TakenAre
  <2> HIDE DEF last
  <2>5. a \in Seq(Int) /\ Increasing(a) /\ Members(a) = Closed(Members(s), last)
    BY <1>2, <1>3, <2>3, TrackPopBackIs
  <2> HIDE DEF d, a
  <2>6. Sound(h)
    BY <1>1, <2>1, <2>4, <2>5, ShrunkSound DEF c, s
  <2> QED BY <2>2, <2>6 DEF h
<1> QED BY <1>6, <1>7, <1>8

\* Nodes that change otherwise than in their places.
Reframed(g, h) ==
  /\ h.orientation = g.orientation /\ h.newSize = g.newSize /\ h.newAt = g.newAt
  /\ h.at = g.at /\ h.size = g.size /\ h.total = g.total /\ h.removed = g.removed
  /\ h.additions = g.additions /\ Len(h.children) = Len(g.children)
  /\ \A k \in 1 .. Len(g.children) : SamePlace(g.children[k], h.children[k])

\* A group of which only the frame changes stays sound.
LEMMA ReframedSound ==
  ASSUME NEW g, Sound(g), NEW h, Reframed(g, h)
  PROVE  Sound(h)
<1> DEFINE n == Len(g.children)
<1>1. /\ h.orientation = g.orientation /\ h.newSize = g.newSize /\ h.newAt = g.newAt
      /\ h.at = g.at /\ h.size = g.size /\ h.total = g.total /\ h.removed = g.removed
      /\ h.additions = g.additions /\ Len(h.children) = n
  BY DEF Reframed
<1>2. ASSUME NEW k \in 1 .. n
      PROVE  /\ h.children[k].at = g.children[k].at /\ h.children[k].size = g.children[k].size
             /\ h.children[k].fresh = g.children[k].fresh
  BY DEF Reframed, SamePlace
<1>3. Grounded(g) /\ Laid(g) /\ n \in Nat
  BY DEF Sound, Grounded
<1>4. Grounded(h)
  BY <1>1, <1>2, <1>3 DEF Grounded
<1>5. Sides(h) = Sides(g)
  BY <1>1, <1>2 DEF Sides
<1>6. SidesTotal(h) = SidesTotal(g)
  BY <1>1, <1>5 DEF SidesTotal
<1>7. Laid(h)
  <2>1. \A k \in 1 .. n : ~h.children[k].fresh => Inside(h, h.children[k])
    BY <1>1, <1>2, <1>3 DEF Laid, Inside
  <2>2. ASSUME NEW j \in 1 .. n, NEW k \in 1 .. n, j < k,
               ~h.children[j].fresh, ~h.children[k].fresh
        PROVE  IF Reversed(h.orientation)
               THEN Apart(Axis(h.orientation), h.children[k], h.children[j])
               ELSE Apart(Axis(h.orientation), h.children[j], h.children[k])
    <3>1. IF Reversed(g.orientation)
          THEN Apart(Axis(g.orientation), g.children[k], g.children[j])
          ELSE Apart(Axis(g.orientation), g.children[j], g.children[k])
      BY <1>2, <1>3, <2>2 DEF Laid
    <3> QED BY <1>1, <1>2, <3>1 DEF Apart
  <2> QED BY <1>1, <2>1, <2>2 DEF Laid
<1>8. FreshIn(h.children) = FreshIn(g.children)
  <2>1. \A k \in 0 .. n - 1 : h.children[k + 1].fresh = g.children[k + 1].fresh
    BY <1>2, <1>3
  <2> QED BY <1>1, <2>1 DEF FreshIn
<1> QED BY <1>1, <1>4, <1>6, <1>7, <1>8 DEF Sound

\* A child where its group puts it.
PutIn(x, y) ==
  /\ y = [x EXCEPT !.at = y.at, !.size = y.size, !.fresh = FALSE]
  /\ y.at \in [Axes -> Int] /\ y.size \in [Axes -> Nat]

\* A function of the axes, from what it is of each.
LEMMA ByAxes ==
  ASSUME NEW o, NEW f, NEW p, NEW q, f = Along(Axis(o), p, q),
         NEW T, f[Axis(o)] \in T, f[OtherAxis(Axis(o))] \in T
  PROVE  f \in [Axes -> T]
<1>1. Axis(o) \in Axes /\ \A a \in Axes : a = Axis(o) \/ a = OtherAxis(Axis(o))
  BY DEF Axis, OtherAxis, Axes
<1>2. f = [a \in Axes |-> f[a]]
  BY DEF Along
<1>3. \A a \in Axes : f[a] \in T
  BY <1>1
<1> QED BY <1>2, <1>3

\* What apply_changes relies on holds of a sound group.
LEMMA SoundIs ==
  ASSUME NEW g, Framed(g), Sound(g)
  PROVE  /\ Measured(g) /\ Sized(g) /\ Len(g.children) \in Nat
         /\ TakeChanges(g).at = g.at /\ TakeChanges(g).size = g.size
         /\ TakeChanges(g).orientation = g.orientation
         /\ NewSide(g) = g.size[Axis(g.orientation)]
<1> DEFINE h == TakeChanges(g)
<1>1. DOMAIN g = GroupFields /\ OrientationOf(g) = g.orientation
  BY DEF Framed, Upright, OrientationOf
<1>2. /\ h.orientation = g.orientation
      /\ h.size = Taken(g.newSize, g.size) /\ h.at = Taken(g.newAt, g.at)
  BY <1>1, TakenFields
<1>3. g.newSize = Unchanged /\ g.newAt = Unchanged
  BY DEF Sound
<1>4. \A T : \A f \in [Axes -> T] : Taken(Unchanged, f) = f
  BY DEF Taken, Unchanged
<1>5. g.at \in [Axes -> Int] /\ g.size \in [Axes -> Nat]
  BY DEF Sound
<1>6. h.at = g.at /\ h.size = g.size
  BY <1>2, <1>3, <1>4, <1>5
<1> HIDE DEF h
<1>7. NewSide(g) = g.size[Axis(g.orientation)] /\ NewSide(g) \in Int
  <2>1. NewSide(g) = h.size[Axis(h.orientation)]
    BY DEF NewSide, h
  <2>2. Axis(g.orientation) \in Axes
    BY AxisIs
  <2> QED BY <1>2, <1>5, <1>6, <2>1, <2>2
<1>8. Grounded(g) /\ Len(g.children) \in Nat
  BY DEF Sound, Grounded
<1>9. Members(g.additions) \subseteq 0 .. Len(g.children) - 1
  BY DEF Sound, FreshIn
<1>10. Measured(g)
  BY <1>7, <1>8, <1>9 DEF Measured, Sound, Grounded
<1>11. Sized(g)
  <2>1. h.at \in [Axes -> Int] /\ h.size \in [Axes -> Int]
    BY <1>5, <1>6
  <2> QED BY <1>1, <2>1 DEF Sized, Framed, h
<1> QED BY <1>2, <1>6, <1>7, <1>8, <1>10, <1>11 DEF h

\* The group with its children placed: as before, or each where it is put.
LEMMA ArrangedSound ==
  ASSUME NEW g, Framed(g), Sound(g), ~ApplyPanics(g)
  PROVE  LET a == Arranged(g)
         IN  /\ Sound(a) /\ SamePlace(g, a) /\ ~ChangesMade(a) /\ a.removed = 0
             /\ Len(a.children) = Len(g.children)
             /\ \A k \in 1 .. Len(g.children) : ~a.children[k].fresh
             /\ ~ChangesMade(g) => a = g
             /\ ChangesMade(g) =>
                  \A k \in 1 .. Len(g.children) : PutIn(g.children[k], a.children[k])
<1> DEFINE a == Arranged(g)
           n == Len(g.children)
<1>1. Measured(g) /\ Sized(g) /\ n \in Nat
  BY SoundIs
<1>2. CASE ~ChangesMade(g)
  <2>1. a = g /\ g.additions = <<>> /\ g.removed = 0
    BY <1>2 DEF Arranged, ChangesMade
  <2>2. Members(<<>>) = {}
    BY DEF Members
  <2>3. FreshIn(g.children) = {}
    BY <2>1, <2>2 DEF Sound
  <2>4. ASSUME NEW k \in 1 .. n PROVE ~g.children[k].fresh
    <3>1. k - 1 \in 0 .. n - 1 /\ (k - 1) + 1 = k
      BY <1>1
    <3> QED BY <2>3, <3>1 DEF FreshIn
  <2> HIDE DEF a
  <2> QED BY <1>2, <2>1, <2>4 DEF SamePlace, a
<1>3. CASE ChangesMade(g)
  <2> DEFINE lengths == Lengths(g)
             axis == Axis(g.orientation)
             other == OtherAxis(axis)
  <2>1. /\ a.fresh = g.fresh /\ a.orientation = g.orientation /\ a.newOrientation = None
        /\ a.additions = <<>> /\ a.removed = 0
        /\ a.newSize = Unchanged /\ a.newAt = Unchanged
        /\ a.at = g.at /\ a.size = g.size
        /\ a.total = PartialSums(lengths)[n] /\ Len(a.children) = n
        /\ \A k \in 1 .. n : a.children[k] = Configured(g, lengths, k)
    BY <1>1, <1>3, SoundIs, ArrangedFields
  <2>2. lengths \in Seq(Nat) /\ Len(lengths) = n
    BY <1>1, <1>3, LengthsFit
  <2>3. /\ Laid(a) /\ \A k \in 1 .. n : ~a.children[k].fresh
        /\ \A k \in 1 .. n : Inside(a, a.children[k])
        /\ \A k \in 1 .. n : Sides(a)[k] = lengths[k]
        /\ a.total = SidesTotal(a)
    BY <1>1, <1>3, ArrangedLaid
  <2>4. g.at \in [Axes -> Int] /\ g.size \in [Axes -> Nat]
    BY DEF Sound
  <2> HIDE DEF a
  <2>5. ~ChangesMade(a)
    BY <2>1 DEF ChangesMade, Unchanged
  <2>6. Grounded(a)
    <3>1. \A k \in 1 .. n : lengths[k] \in Nat
      BY <2>2
    <3> HIDE DEF lengths
    <3> QED BY <1>1, <2>1, <2>3, <3>1 DEF Grounded, Sides
  <2>7. Sound(a)
    <3>1. SidesTotal(a) \in Nat
      BY <2>6, SidesAre DEF Grounded
    <3>2. Members(<<>>) = {} /\ <<>> \in Seq(Int) /\ Increasing(<<>>)
      BY DEF Members, Increasing
    <3>3. FreshIn(a.children) = {}
      <4>1. \A k \in 0 .. n - 1 : k + 1 \in 1 .. n
        BY <1>1
      <4> QED BY <2>1, <2>3, <4>1 DEF FreshIn
    <3> QED BY <2>1, <2>3, <2>4, <2>6, <3>1, <3>2, <3>3 DEF Sound
  <2>8. ASSUME NEW k \in 1 .. n PROVE PutIn(g.children[k], a.children[k])
    <3> DEFINE x == Configured(g, lengths, k)
    <3>1. x = [g.children[k] EXCEPT !.at = x.at, !.size = x.size, !.fresh = FALSE]
      BY <1>1, <2>2, ConfiguredAt
    <3>2. \E p, q, r, s : x.at = Along(axis, p, q) /\ x.size = Along(axis, r, s)
      <4>1. TakeChanges(g).orientation = g.orientation
        BY SoundIs
      <4>2. {"at", "size", "fresh"} \subseteq DOMAIN g.children[k]
        BY DEF Framed
      <4> QED BY <4>1, <4>2 DEF Configured
    <3>3. x = a.children[k]
      BY <2>1
    <3> HIDE DEF x, lengths
    <3>4. Inside(a, x)
      BY <2>3, <3>3
    <3>5. /\ x.size[axis] \in Nat /\ x.at[axis] \in Int
          /\ x.at[other] \in Int /\ x.size[other] \in Nat
      <4>1. axis \in Axes /\ other \in Axes
        BY AxisIs, AlongIs
      <4> QED BY <2>1, <2>4, <3>4, <4>1 DEF Inside
    <3>6. x.at \in [Axes -> Int] /\ x.size \in [Axes -> Nat]
      <4>1. PICK p, q, r, s : x.at = Along(axis, p, q) /\ x.size = Along(axis, r, s)
        BY <3>2
      <4>2. x.at \in [Axes -> Int]
        BY <3>5, <4>1, ByAxes
      <4>3. x.size \in [Axes -> Nat]
        BY <3>5, <4>1, ByAxes
      <4> QED BY <4>2, <4>3
    <3> QED BY <3>1, <3>3, <3>6 DEF PutIn
  <2> QED BY <1>3, <2>1, <2>3, <2>5, <2>7, <2>8 DEF SamePlace, a
<1> QED BY <1>2, <1>3

\* What apply_changes tells of a window node: its place anew, unless it is where
\* it was and was not replaced.
Stayed(x, y) ==
  /\ ~x.fresh /\ ~x.changed /\ y.window = x.window
  /\ y.at = x.at /\ y.size = x.size

\* apply_changes of the stack.
LEMMA ApplySound ==
  ASSUME NEW x, IsStack(x), Sound(x), ~ApplyPanics(x)
  PROVE  LET y == Apply(x)
         IN  /\ IsStack(y) /\ Sound(y) /\ SamePlace(x, y) /\ ~ChangesMade(y)
             /\ Len(y.children) = Len(x.children)
             /\ \A k \in 1 .. Len(x.children) :
                  /\ ~y.children[k].fresh /\ ~y.children[k].changed
                  /\ k \in Reconfigured(x) \/ Stayed(x.children[k], y.children[k])
<1> DEFINE y == Apply(x)
           a == Arranged(x)
           n == Len(x.children)
           d == [k \in DOMAIN a.children |-> Leaf(a.children[k])]
<1>1. Framed(x) /\ Upright(x) /\ IsList(x.children) /\ n \in Nat /\ DOMAIN x.children = 1 .. n
  <2>1. Framed(x)
    BY FramedIs
  <2> QED BY <2>1, FramedList DEF Framed
<1>2. /\ Sound(a) /\ SamePlace(x, a) /\ ~ChangesMade(a) /\ Len(a.children) = n
      /\ \A k \in 1 .. n : ~a.children[k].fresh
      /\ ~ChangesMade(x) => a = x
  BY <1>1, ArrangedSound
<1>3. /\ Kept(x, a) /\ IsList(a.children)
      /\ \A k \in 1 .. n : Alike(x.children[k], a.children[k])
  BY <1>1, ArrangedIs
<1>4. IsStack(y)
  BY StackApplied
<1>5. y = [a EXCEPT !.children = d]
  BY DEF Apply
<1> HIDE DEF a, y
<1>6. DOMAIN a.children = 1 .. n
  BY <1>2, <1>3 DEF IsList
<1>7. /\ y.children = d /\ y.orientation = a.orientation /\ y.newOrientation = a.newOrientation
      /\ y.newSize = a.newSize /\ y.newAt = a.newAt /\ y.at = a.at /\ y.size = a.size
      /\ y.total = a.total /\ y.removed = a.removed /\ y.additions = a.additions
      /\ y.fresh = a.fresh
  BY <1>3, <1>5 DEF Kept, GroupFields
<1>8. Len(d) = n /\ \A k \in 1 .. n : d[k] = Leaf(a.children[k])
  BY <1>1, <1>6
<1> HIDE DEF d
<1>9. ASSUME NEW k \in 1 .. n
      PROVE  /\ IsWindow(x.children[k]) /\ IsWindow(a.children[k])
             /\ a.children[k].window = x.children[k].window
  BY <1>3, <1>9 DEF IsStack, Alike
<1>10. ASSUME NEW k \in 1 .. n
       PROVE  /\ SamePlace(a.children[k], d[k]) /\ ~d[k].changed
              /\ d[k].window = a.children[k].window
  BY <1>8, <1>9 DEF Leaf, IsWindow, NodeFields, SamePlace
<1>11. Reframed(a, y)
  BY <1>2, <1>7, <1>8, <1>10 DEF Reframed
<1>12. Sound(y)
  BY <1>2, <1>11, ReframedSound
<1>13. ~ChangesMade(y)
  BY <1>2, <1>7 DEF ChangesMade
<1>14. ASSUME NEW k \in 1 .. n
       PROVE  /\ ~y.children[k].fresh /\ ~y.children[k].changed
              /\ k \in Reconfigured(x) \/ Stayed(x.children[k], y.children[k])
  <2>1. ~d[k].fresh /\ ~d[k].changed
    BY <1>2, <1>10 DEF SamePlace
  <2>2. CASE ChangesMade(x) \/ x.children[k].changed
    <3>1. k \in Reconfigured(x)
      BY <1>1, <1>9, <2>2 DEF Reconfigured, IsWindow
    <3> QED BY <1>7, <2>1, <3>1
  <2>3. CASE ~ChangesMade(x) /\ ~x.children[k].changed
    <3>1. Stayed(x.children[k], d[k])
      BY <1>2, <1>10, <2>3 DEF Stayed, SamePlace
    <3> QED BY <1>7, <2>1, <3>1
  <2> QED BY <2>2, <2>3
<1>15. SamePlace(x, y) /\ Len(y.children) = n
  BY <1>2, <1>7, <1>8 DEF SamePlace
<1> QED BY <1>4, <1>12, <1>13, <1>14, <1>15 DEF y

-----------------------------------------------------------------------------
(* What the calls on the manager do to the places of the nodes.            *)

\* The window nodes are the first child, if that is one, and those of the second.
LEMMA NodesAre ==
  ASSUME NEW L, Shaped(L), NEW node
  PROVE  node \in NodesOf(L) <=>
           LET c == L.children
           IN  \/ Len(c) >= 1 /\ IsWindow(c[1]) /\ node = c[1]
               \/ Len(c) = 2 /\ \E j \in 1 .. Len(c[2].children) : node = c[2].children[j]
<1> DEFINE c == L.children
<1>1. /\ Len(c) = 0 \/ Len(c) = 1 \/ Len(c) = 2
      /\ Len(c) >= 1 => IsFirst(c[1])
      /\ Len(c) = 2 => IsStack(c[2])
  BY ShapedIs DEF Shaped
<1>2. /\ Len(c) = 0 => WindowNodes(L) = <<>>
      /\ Len(c) = 1 => WindowNodes(L) = NodesIn(c[1])
      /\ Len(c) = 2 => WindowNodes(L) = NodesIn(c[1]) \o NodesIn(c[2])
  BY WindowNodesAre
<1> HIDE DEF c
<1>3. ASSUME IsFirst(c[1])
      PROVE  node \in ToSet(NodesIn(c[1])) <=> IsWindow(c[1]) /\ node = c[1]
  <2>1. CASE IsWindow(c[1])
    <3>1. NodesIn(c[1]) = <<c[1]>>
      BY <2>1 DEF NodesIn, IsWindow
    <3>2. ToSet(<<c[1]>>) = {c[1]}
      BY DEF ToSet
    <3> QED BY <2>1, <3>1, <3>2
  <2>2. CASE ~IsWindow(c[1])
    <3>1. NodesIn(c[1]) = <<>>
      BY <1>3, <2>2 DEF IsFirst, IsStack, NodesIn
    <3>2. ToSet(<<>>) = {}
      BY DEF ToSet
    <3> QED BY <2>2, <3>1, <3>2
  <2> QED BY <2>1, <2>2
<1>4. ASSUME IsStack(c[2])
      PROVE  /\ IsList(NodesIn(c[2]))
             /\ node \in ToSet(NodesIn(c[2]))
                  <=> \E j \in 1 .. Len(c[2].children) : node = c[2].children[j]
  <2>1. NodesIn(c[2]) = c[2].children /\ IsList(c[2].children)
    BY <1>4 DEF NodesIn, IsStack
  <2>2. DOMAIN c[2].children = 1 .. Len(c[2].children)
    <3> DEFINE s == c[2].children
    <3>1. s \in Seq(ToSet(s))
      BY <2>1 DEF IsList
    <3> HIDE DEF s
    <3>2. DOMAIN s = 1 .. Len(s)
      BY <3>1
    <3> QED BY <3>2 DEF s
  <2> QED BY <2>1, <2>2 DEF ToSet
<1>5. CASE Len(c) = 0
  <2>1. ToSet(<<>>) = {}
    BY DEF ToSet
  <2> QED BY <1>2, <1>5, <2>1 DEF NodesOf, c
<1>6. CASE Len(c) = 1
  BY <1>1, <1>2, <1>3, <1>6 DEF NodesOf, c
<1>7. CASE Len(c) = 2
  <2>1. IsFirst(c[1]) /\ IsStack(c[2])
    BY <1>1, <1>7
  <2>2. IsList(NodesIn(c[1])) /\ IsList(NodesIn(c[2]))
    BY <1>4, <2>1, FrontIs
  <2>3. ToSet(WindowNodes(L)) = ToSet(NodesIn(c[1])) \cup ToSet(NodesIn(c[2]))
    BY <1>2, <1>7, <2>2, JoinedHas
  <2> QED BY <1>3, <1>4, <1>7, <2>1, <2>3 DEF NodesOf, c
<1> QED BY <1>1, <1>5, <1>6, <1>7

\* A group without nodes is sound.
LEMMA EmptySound ==
  ASSUME NEW o, NEW at \in [Axes -> Int], NEW size \in [Axes -> Nat]
  PROVE  Sound(GroupOf(o, at, size))
<1> DEFINE g == GroupOf(o, at, size)
<1>1. /\ g.newSize = Unchanged /\ g.newAt = Unchanged /\ g.at = at /\ g.size = size
      /\ g.total = 0 /\ g.removed = 0 /\ g.additions = <<>> /\ g.children = <<>>
  BY DEF GroupOf
<1> HIDE DEF g
<1>2. Len(g.children) = 0 /\ <<>> \in Seq(Int)
  BY <1>1
<1>3. Members(<<>>) = {} /\ Increasing(<<>>)
  BY DEF Members, Increasing
<1>4. FreshIn(g.children) = {}
  BY <1>2 DEF FreshIn
<1>5. Grounded(g) /\ Laid(g)
  BY <1>2 DEF Grounded, Laid
<1>6. SidesTotal(g) = 0
  <2>1. IsSums(PartialSums(Sides(g)), Sides(g), Len(g.children))
    BY <1>5, SidesAre DEF Grounded
  <2> QED BY <1>2, <2>1 DEF IsSums, SidesTotal
<1>7. Sound(g)
  <2>1. /\ g.additions \in Seq(Int) /\ Increasing(g.additions)
        /\ Members(g.additions) = FreshIn(g.children)
    BY <1>1, <1>2, <1>3, <1>4
  <2>2. g.at \in [Axes -> Int] /\ g.size \in [Axes -> Nat]
    BY <1>1
  <2>3. g.total \in Int /\ g.removed \in Nat /\ SidesTotal(g) + g.removed <= g.total
    BY <1>1, <1>6
  <2> QED BY <1>1, <1>5, <2>1, <2>2, <2>3 DEF Sound
<1> QED BY <1>7 DEF g

\* A window that comes to the stack, and one that leaves it.
LEMMA StackSound ==
  ASSUME NEW x, IsStack(x), SoundStack(x)
  PROVE  /\ \A w : LET y == PushNodeBack(x, WindowNode(w))
                   IN  /\ IsStack(y) /\ SoundStack(y) /\ SamePlace(x, y)
                       /\ \A k \in 1 .. Len(y.children) :
                            \/ y.children[k].fresh
                            \/ \E j \in 1 .. Len(x.children) : y.children[k] = x.children[j]
         /\ \A i \in 0 .. Len(x.children) - 1 :
              LET y == RemoveNode(x, i)
              IN  /\ IsStack(y) /\ SoundStack(y) /\ SamePlace(x, y)
                  /\ \A k \in 1 .. Len(y.children) :
                       \E j \in 1 .. Len(x.children) : y.children[k] = x.children[j]
<1> DEFINE c == x.children
<1>1. Framed(x) /\ Upright(x) /\ IsList(c) /\ Len(c) \in Nat /\ Sound(x)
  BY FramedIs, StackIs DEF SoundStack
<1>2. ASSUME NEW w
      PROVE  LET y == PushNodeBack(x, WindowNode(w))
             IN  /\ IsStack(y) /\ SoundStack(y) /\ SamePlace(x, y)
                 /\ \A k \in 1 .. Len(y.children) :
                      \/ y.children[k].fresh
                      \/ \E j \in 1 .. Len(c) : y.children[k] = c[j]
  <2> DEFINE node == WindowNode(w)
             y == PushNodeBack(x, node)
             d == y.children
  <2>1. IsWindow(node) /\ node.fresh /\ ~node.changed /\ node.size = Both(0)
    BY DEF IsWindow, NodeFields, WindowNode
  <2> HIDE DEF node
  <2>2. Sound(y) /\ SamePlace(x, y)
    BY <1>1, <2>1, PushedSound
  <2>3. IsStack(y)
    BY <2>1, StackIs
  <2>4. d = Append(c, node)
    BY <1>1, CallsAre
  <2> HIDE DEF c, y
  <2>5. /\ Len(d) = Len(c) + 1 /\ d[Len(c) + 1] = node
        /\ \A k \in 1 .. Len(c) : d[k] = c[k]
    BY <1>1, <2>4, AppendedIs
  <2> HIDE DEF d
  <2>6. ASSUME NEW k \in 1 .. Len(d)
        PROVE  (d[k].fresh /\ ~d[k].changed) \/ \E j \in 1 .. Len(c) : d[k] = c[j]
    <3>1. k = Len(c) + 1 \/ k \in 1 .. Len(c)
      BY <1>1, <2>5
    <3> QED BY <2>1, <2>5, <3>1
  <2>7. SoundStack(y)
    BY <2>2, <2>6 DEF SoundStack, SamePlace, c, d
  <2> QED BY <2>2, <2>3, <2>6, <2>7 DEF y, node, d
<1>3. ASSUME NEW i \in 0 .. Len(c) - 1
      PROVE  LET y == RemoveNode(x, i)
             IN  /\ IsStack(y) /\ SoundStack(y) /\ SamePlace(x, y)
                 /\ \A k \in 1 .. Len(y.children) : \E j \in 1 .. Len(c) : y.children[k] = c[j]
  <2> DEFINE y == RemoveNode(x, i)
             d == y.children
  <2>1. Sound(y) /\ SamePlace(x, y)
    BY <1>1, TakenSound
  <2>2. IsStack(y)
    BY StackIs
  <2>3. d = RemoveAt(c, i + 1)
    BY <1>1, CallsAre
  <2> HIDE DEF c, y
  <2>4. i + 1 \in 1 .. Len(c) /\ (i + 1) - 1 = i /\ (i + 1) + 1 = i + 2
    BY <1>1
  <2> DEFINE p == i + 1
  <2>5. p \in 1 .. Len(c) /\ d = RemoveAt(c, p)
    BY <2>3, <2>4
  <2> HIDE DEF p
  <2>6. /\ Len(d) = Len(c) - 1
        /\ \A k \in 1 .. p - 1 : d[k] = c[k]
        /\ \A k \in p + 1 .. Len(c) : d[k - 1] = c[k]
    BY <1>1, <2>5, RemovedIs
  <2> HIDE DEF d
  <2>7. ASSUME NEW k \in 1 .. Len(d) PROVE \E j \in 1 .. Len(c) : d[k] = c[j]
    <3>1. \/ k \in 1 .. p - 1 /\ k \in 1 .. Len(c)
          \/ k + 1 \in p + 1 .. Len(c) /\ k + 1 \in 1 .. Len(c) /\ (k + 1) - 1 = k
      BY <1>1, <2>5, <2>6
    <3> QED BY <2>6, <3>1
  <2>8. SoundStack(y)
    BY <2>1, <2>7 DEF SoundStack, SamePlace, c, d
  <2> QED BY <2>1, <2>2, <2>7, <2>8 DEF y, d
<1> QED BY <1>2, <1>3 DEF c

\* The stack of one window that a layout is given.
LEMMA NewStackSound ==
  ASSUME NEW w
  PROVE  LET y == NewStack(w)
         IN  /\ IsStack(y) /\ SoundStack(y) /\ y.fresh /\ y.size = Both(0)
             /\ \A k \in 1 .. Len(y.children) : y.children[k].fresh
<1> DEFINE x == GroupOf("TopToBottom", Both(0), Both(0))
           y == NewStack(w)
<1>1. /\ DOMAIN x = GroupFields /\ x.kind = "group" /\ x.children = <<>>
      /\ x.orientation = "TopToBottom" /\ x.newOrientation = None
      /\ x.fresh /\ x.size = Both(0)
  BY DEF GroupOf, GroupFields
<1>2. Both(0) \in [Axes -> Int] /\ Both(0) \in [Axes -> Nat]
  BY DEF Both
<1>3. Sound(x)
  BY <1>2, EmptySound
<1>4. y = PushNodeBack(x, WindowNode(w))
  BY DEF NewStack
<1> HIDE DEF x, y
<1>5. Len(x.children) = 0
  BY <1>1
<1>6. IsStack(x) /\ SoundStack(x)
  <2>1. IsList(<<>>)
    BY ShortLists
  <2> QED BY <1>1, <1>3, <1>5, <2>1 DEF IsStack, SoundStack
<1>7. /\ IsStack(y) /\ SoundStack(y) /\ SamePlace(x, y)
      /\ \A k \in 1 .. Len(y.children) :
           y.children[k].fresh \/ \E j \in 1 .. Len(x.children) : y.children[k] = x.children[j]
  BY <1>4, <1>6, StackSound
<1> QED BY <1>1, <1>5, <1>7 DEF SamePlace, y

\* A set of naturals has its least member: Min of the community modules.
LEMMA MinIs ==
  ASSUME NEW T \in SUBSET Nat, T # {}
  PROVE  Min(T) \in T
<1> DEFINE Less == OpToRel(<, Nat)
<1>1. PICK x \in T : \A y \in T : ~(<<y, x>> \in Less)
  <2> HIDE DEF Less
  <2> QED BY WFMin, NatLessThanWellFounded DEF Less
<1>2. \A y \in T : x <= y
  <2>1. ASSUME NEW y \in T PROVE x <= y
    <3>1. ~(y < x)
      BY <1>1 DEF OpToRel
    <3> QED BY <3>1
  <2> QED BY <2>1
<1> HIDE DEF Less
<1> QED BY <1>2 DEF Min

\* What adding a window does to the layout, whichever its shape is.
LEMMA AddedForms ==
  ASSUME NEW L, Shaped(L), NEW w
  PROVE  LET c == L.children
             M == AddToLayout(L, w)
         IN  \/ Len(c) = 0 /\ M = PushNodeBack(L, WindowNode(w))
             \/ Len(c) = 1 /\ M = PushNodeBack(L, NewStack(w))
             \/ Len(c) = 2 /\ M = [L EXCEPT !.children[2] = PushNodeBack(c[2], WindowNode(w))]
<1> DEFINE c == L.children
<1>1. /\ Len(c) = 0 \/ Len(c) = 1 \/ Len(c) = 2
      /\ Len(c) = 0 <=> c = <<>>
      /\ Len(c) = 2 => c[2].kind = "group"
  BY ShapedIs DEF Shaped, IsStack
<1> HIDE DEF c
<1>2. CASE Len(c) = 0
  BY <1>1, <1>2 DEF AddToLayout, c
<1>3. CASE Len(c) = 1
  BY <1>1, <1>3 DEF AddToLayout, HasStack, c
<1>4. CASE Len(c) = 2
  BY <1>1, <1>4 DEF AddToLayout, HasStack, c
<1> QED BY <1>1, <1>2, <1>3, <1>4 DEF c

\* What removing one does: nothing, or the first child goes, or the second, or
\* a node of the second, or that takes the place of the first.
LEMMA RemovedForms ==
  ASSUME NEW L, Shaped(L), NEW w
  PROVE  LET c == L.children
             M == RemoveFromLayout(L, w)
         IN  \/ M = L
             \/ Len(c) >= 1 /\ M = PopFront(L)
             \/ Len(c) = 2 /\ M = PopBack(L)
             \/ Len(c) = 2 /\ \E i \in 0 .. Len(c[2].children) - 1 :
                                M = [L EXCEPT !.children[2] = RemoveNode(c[2], i)]
             \/ Len(c) = 2 /\ IsWindow(c[1]) /\ c[2].children # <<>> /\ M = Promote(L)
<1> DEFINE c == L.children
           M == RemoveFromLayout(L, w)
           o == c[2].children
<1>1. /\ Len(c) = 0 \/ Len(c) = 1 \/ Len(c) = 2
      /\ Len(c) = 0 <=> c = <<>>
      /\ Len(c) >= 1 => IsFirst(c[1])
      /\ Len(c) = 2 => IsStack(c[2])
  BY ShapedIs DEF Shaped
<1> HIDE DEF c
<1>2. HasStack(L) <=> Len(c) = 2
  BY <1>1 DEF HasStack, IsStack, c
<1>3. HasMain(L) <=> Len(c) >= 1 /\ IsWindow(c[1])
  BY <1>1 DEF HasMain, IsFirst, IsWindow, IsStack, c
<1>4. CASE IsMain(L, w)
  <2>1. Len(c) >= 1 /\ IsWindow(c[1]) /\ M = RemoveMain(L)
    BY <1>3, <1>4 DEF IsMain, RemoveFromLayout
  <2> QED BY <1>2, <2>1 DEF RemoveMain, Others, c
<1>5. CASE ~IsMain(L, w)
  <2> DEFINE at == Occurrences(L, w)
  <2>1. M = RemoveOther(L, w)
    BY <1>5 DEF RemoveFromLayout
  <2>2. CASE at = {}
    BY <2>1, <2>2 DEF RemoveOther
  <2>3. CASE at # {}
    <3>1. Len(c) = 2 /\ at = {i \in 0 .. Len(o) - 1 : o[i + 1].window = w}
      BY <1>2, <2>3 DEF Occurrences, Others, c
    <3>2. Min(at) \in at
      <4>1. at \in SUBSET Nat
        BY <3>1
      <4> HIDE DEF at
      <4> QED BY <2>3, <4>1, MinIs
    <3>3. Min(at) \in 0 .. Len(o) - 1
      BY <3>1, <3>2
    <3>4. M = PopBack(L) \/ M = [L EXCEPT !.children[2] = RemoveNode(@, Min(at))]
      BY <2>1, <2>3 DEF RemoveOther
    <3> HIDE DEF at, M
    <3> QED BY <3>1, <3>3, <3>4 DEF M, c
  <2> QED BY <2>2, <2>3
<1> QED BY <1>4, <1>5 DEF c

\* While there is a stack the main window's place stays.
MainStays(L, M) ==
  HasMain(L) /\ ~Main(L).fresh /\ HasStack(L) /\ ~L.children[2].fresh /\ HasStack(M)
    => HasMain(M) /\ Place(Main(M)) = Place(Main(L))

\* All the children of a layout are new, to which changes were never applied.
AllFresh(L) == \A k \in 1 .. Len(L.children) : L.children[k].fresh

\* No node that was placed loses its size, nor the root its total, nor does
\* anything come to be placed.
Lasts(L, M) ==
  /\ \A y \in NodesOf(M) : y.fresh \/ \E x \in NodesOf(L) : ~x.fresh /\ x.size = y.size
  /\ M.total = L.total
  /\ AllFresh(L) => AllFresh(M)

\* No call on a group changes its total.
LEMMA TotalStays ==
  ASSUME NEW g, DOMAIN g = GroupFields
  PROVE  /\ \A node : PushNodeBack(g, node).total = g.total
         /\ PopFront(g).total = g.total /\ PopBack(g).total = g.total
         /\ \A c : [g EXCEPT !.children = c].total = g.total
  BY DEF PushNodeBack, PushFirst, PushLast, PopFront, PopBack, PopFirst, PopLast, GroupFields

\* A layout that is not changed stays where it is.
LEMMA StaysSame ==
  \A L : Stay(L, L) /\ MainStays(L, L) /\ Lasts(L, L)
  BY DEF Stay, MainStays, Lasts

\* The root is given a child.
LEMMA GivenSpaced ==
  ASSUME NEW L, Shaped(L), Spaced(L), Len(L.children) <= 1,
         NEW x, x.fresh, x.size = Both(0), IsStack(x) => SoundStack(x)
  PROVE  LET M == PushNodeBack(L, x)
         IN  /\ Spaced(M) /\ Len(M.children) = Len(L.children) + 1
             /\ M.children[Len(L.children) + 1] = x
             /\ \A k \in 1 .. Len(L.children) : M.children[k] = L.children[k]
<1> DEFINE c == L.children
           M == PushNodeBack(L, x)
           d == M.children
<1>1. Framed(L) /\ Upright(L) /\ IsList(c) /\ Len(c) \in Nat /\ Sound(L)
  BY FramedIs, ShapedIs, LayoutIs DEF Shaped, Spaced
<1>2. Sound(M) /\ SamePlace(L, M) /\ M.removed = L.removed
  BY <1>1, PushedSound
<1>3. d = Append(c, x)
  BY <1>1, CallsAre
<1> HIDE DEF c, M
<1>4. /\ Len(d) = Len(c) + 1 /\ d[Len(c) + 1] = x
      /\ \A k \in 1 .. Len(c) : d[k] = c[k]
  BY <1>1, <1>3, AppendedIs
<1>5. Len(c) <= 1
  BY DEF c
<1> HIDE DEF d
<1>6. ASSUME NEW k \in 1 .. Len(d), IsStack(d[k]) PROVE SoundStack(d[k])
  <2>1. k = Len(c) + 1 \/ k \in 1 .. Len(c)
    BY <1>1, <1>4
  <2> QED BY <1>4, <1>6, <2>1 DEF Spaced, c
<1>7. Len(d) = 2 => d[2].fresh
  <2>1. Len(d) = 2 => Len(c) + 1 = 2
    BY <1>4
  <2> QED BY <1>4, <2>1
<1>8. Spaced(M)
  BY <1>2, <1>6, <1>7 DEF Spaced, SamePlace, d
<1> QED BY <1>4, <1>8 DEF M, c, d

\* The root loses one.
LEMMA TakenSpaced ==
  ASSUME NEW L, Shaped(L), Spaced(L), Len(L.children) >= 1
  PROVE  /\ LET M == PopFront(L)
            IN  /\ Spaced(M) /\ Len(M.children) = Len(L.children) - 1
                /\ Len(L.children) = 2 => M.children[1] = L.children[2]
         /\ LET M == PopBack(L)
            IN  /\ Spaced(M) /\ Len(M.children) = Len(L.children) - 1
                /\ Len(L.children) = 2 => M.children[1] = L.children[1]
<1> DEFINE c == L.children
<1>1. /\ Framed(L) /\ Upright(L) /\ c \in Seq(ToSet(c)) /\ Sound(L)
      /\ Len(c) = 1 \/ Len(c) = 2
      /\ c # <<>>
  BY FramedIs, ShapedIs, LayoutIs DEF Spaced
<1>2. ASSUME NEW M, Sound(M), SamePlace(L, M), M.removed = L.removed, Len(M.children) = Len(c) - 1,
             NEW k \in 1 .. 2, Len(c) = 2 => M.children[1] = c[k]
      PROVE  Spaced(M)
  <2> DEFINE d == M.children
  <2>1. Len(d) = 0 \/ (Len(d) = 1 /\ Len(c) = 2)
    BY <1>1, <1>2
  <2> HIDE DEF d, c
  <2>2. \A j \in 1 .. Len(d) : j = 1 /\ Len(c) = 2
    <3>1. \A n : n = 0 \/ (n = 1 /\ Len(c) = 2) => \A j \in 1 .. n : j = 1 /\ Len(c) = 2
      OBVIOUS
    <3> QED BY <2>1, <3>1, Zenon
  <2>3. Len(d) # 2
    BY <2>1
  <2>4. ASSUME NEW j \in 1 .. Len(d), IsStack(d[j]) PROVE SoundStack(d[j])
    <3>1. d[j] = c[k] /\ k \in 1 .. Len(c)
      BY <1>2, <2>2 DEF d
    <3> QED BY <2>4, <3>1 DEF Spaced, c
  <2> QED BY <1>2, <2>3, <2>4 DEF Spaced, SamePlace, d
<1>3. /\ Sound(PopFront(L)) /\ SamePlace(L, PopFront(L)) /\ PopFront(L).removed = L.removed
      /\ Sound(PopBack(L)) /\ SamePlace(L, PopBack(L)) /\ PopBack(L).removed = L.removed
  BY <1>1, TakenSound
<1>4. /\ PopFront(L).children = Tail(c)
      /\ PopBack(L).children = SubSeq(c, 1, Len(c) - 1)
  BY <1>1, CallsAre
<1> HIDE DEF c
<1>5. /\ Len(Tail(c)) = Len(c) - 1 /\ (Len(c) = 2 => Tail(c)[1] = c[2])
      /\ Len(SubSeq(c, 1, Len(c) - 1)) = Len(c) - 1
      /\ Len(c) = 2 => SubSeq(c, 1, Len(c) - 1)[1] = c[1]
  BY <1>1
<1>6. 1 \in 1 .. 2 /\ 2 \in 1 .. 2
  OBVIOUS
<1>7. Spaced(PopFront(L)) /\ Spaced(PopBack(L))
  BY <1>2, <1>3, <1>4, <1>5, <1>6
<1> QED BY <1>4, <1>5, <1>7 DEF c

\* The root keeps its two children where they are.
LEMMA ReplacedSpaced ==
  ASSUME NEW L, Shaped(L), Spaced(L), Len(L.children) = 2, NEW d, Len(d) = 2,
         SamePlace(L.children[1], d[1]), SamePlace(L.children[2], d[2]),
         IsStack(d[1]) => SoundStack(d[1]), SoundStack(d[2])
  PROVE  Spaced([L EXCEPT !.children = d])
<1> DEFINE M == [L EXCEPT !.children = d]
           c == L.children
<1>1. /\ M.children = d /\ M.orientation = L.orientation
      /\ M.newSize = L.newSize /\ M.newAt = L.newAt /\ M.at = L.at /\ M.size = L.size
      /\ M.total = L.total /\ M.removed = L.removed /\ M.additions = L.additions
      /\ M.fresh = L.fresh
  BY DEF Shaped, GroupFields
<1> HIDE DEF M
<1>2. \A k \in 1 .. 2 : k = 1 \/ k = 2
  OBVIOUS
<1>3. \A k \in 1 .. 2 : SamePlace(c[k], d[k]) /\ (IsStack(d[k]) => SoundStack(d[k]))
  BY <1>2
<1>4. Reframed(L, M)
  BY <1>1, <1>3 DEF Reframed
<1>5. Sound(M)
  BY <1>4, ReframedSound DEF Spaced
<1>6. d[1].fresh => d[2].fresh
  BY DEF Spaced, SamePlace
<1>7. Spaced(M)
  BY <1>1, <1>3, <1>5, <1>6 DEF Spaced
<1> QED BY <1>7 DEF M

\* A window is added to the layout.
LEMMA AddedSpaced ==
  ASSUME NEW L, Shaped(L), Spaced(L), NEW w
  PROVE  LET M == AddToLayout(L, w)
         IN  Spaced(M) /\ Stay(L, M) /\ MainStays(L, M) /\ Lasts(L, M)
<1> DEFINE c == L.children
           M == AddToLayout(L, w)
           d == M.children
           new == WindowNode(w)
<1>1. Shaped(M)
  BY AddedIs
<1>2. \/ Len(c) = 0 /\ M = PushNodeBack(L, new)
      \/ Len(c) = 1 /\ M = PushNodeBack(L, NewStack(w))
      \/ Len(c) = 2 /\ M = [L EXCEPT !.children[2] = PushNodeBack(c[2], new)]
  BY AddedForms
<1>3. new.fresh /\ new.size = Both(0) /\ ~IsStack(new)
  BY DEF WindowNode, IsStack
<1> HIDE DEF M, new
<1>4. \A node : node \in NodesOf(M) <=>
        \/ Len(d) >= 1 /\ IsWindow(d[1]) /\ node = d[1]
        \/ Len(d) = 2 /\ \E j \in 1 .. Len(d[2].children) : node = d[2].children[j]
  BY <1>1, NodesAre
<1>5. \A node : node \in NodesOf(L) <=>
        \/ Len(c) >= 1 /\ IsWindow(c[1]) /\ node = c[1]
        \/ Len(c) = 2 /\ \E j \in 1 .. Len(c[2].children) : node = c[2].children[j]
  BY NodesAre
<1>6. ASSUME Len(c) = 0 PROVE Spaced(M) /\ Stay(L, M) /\ MainStays(L, M) /\ Lasts(L, M)
  <2>1. M = PushNodeBack(L, new) /\ Len(c) <= 1
    BY <1>2, <1>6
  <2>2. Spaced(M) /\ Len(d) = Len(c) + 1 /\ d[Len(c) + 1] = new
    BY <1>3, <2>1, GivenSpaced
  <2> HIDE DEF c, d
  <2>3. Len(d) = 1 /\ d[1] = new
    BY <1>6, <2>2
  <2>4. Stay(L, M)
    BY <1>3, <1>4, <2>3 DEF Stay
  <2>5. MainStays(L, M)
    BY <1>6 DEF MainStays, HasStack, c
  <2>6. Lasts(L, M)
    <3>1. \A k \in 1 .. 1 : d[k] = new
      BY <2>3
    <3>2. M.total = L.total
      BY <2>1, TotalStays DEF Shaped
    <3> QED BY <1>3, <1>4, <2>3, <3>1, <3>2 DEF Lasts, AllFresh, d
  <2> QED BY <2>2, <2>4, <2>5, <2>6
<1>7. ASSUME Len(c) = 1 PROVE Spaced(M) /\ Stay(L, M) /\ MainStays(L, M) /\ Lasts(L, M)
  <2> DEFINE y == NewStack(w)
  <2>0. /\ IsStack(y) /\ SoundStack(y) /\ y.fresh /\ y.size = Both(0)
        /\ \A k \in 1 .. Len(y.children) : y.children[k].fresh
    BY NewStackSound
  <2>1. M = PushNodeBack(L, y) /\ Len(c) <= 1
    BY <1>2, <1>7
  <2> HIDE DEF y
  <2>2. /\ Spaced(M) /\ Len(d) = Len(c) + 1 /\ d[Len(c) + 1] = y
        /\ \A k \in 1 .. Len(c) : d[k] = c[k]
    BY <2>0, <2>1, GivenSpaced
  <2> HIDE DEF c, d
  <2>3. Len(d) = 2 /\ d[1] = c[1] /\ d[2] = y
    BY <1>7, <2>2
  <2>4. Stay(L, M)
    BY <1>4, <1>5, <1>7, <2>0, <2>3 DEF Stay
  <2>5. MainStays(L, M)
    BY <1>7 DEF MainStays, HasStack, c
  <2>6. Lasts(L, M)
    <3>1. \A k \in 1 .. 2 : k = 1 \/ k = 2
      OBVIOUS
    <3>2. M.total = L.total
      BY <2>1, TotalStays DEF Shaped
    <3>3. \A node \in NodesOf(M) : node.fresh \/ node \in NodesOf(L)
      BY <1>4, <1>5, <1>7, <2>0, <2>3
    <3>4. AllFresh(L) => AllFresh(M)
      <4>1. 1 \in 1 .. Len(c)
        BY <1>7
      <4> QED BY <2>0, <2>3, <3>1, <4>1 DEF AllFresh, c, d
    <3> QED BY <3>2, <3>3, <3>4 DEF Lasts
  <2> QED BY <2>2, <2>4, <2>5, <2>6
<1>8. ASSUME Len(c) = 2 PROVE Spaced(M) /\ Stay(L, M) /\ MainStays(L, M) /\ Lasts(L, M)
  <2> DEFINE x == c[2]
             y == PushNodeBack(x, new)
             e == [c EXCEPT ![2] = y]
  <2>1. IsStack(x) /\ SoundStack(x) /\ DOMAIN c = 1 .. 2
    BY <1>8, ShapedIs DEF Shaped, Spaced
  <2>2. /\ IsStack(y) /\ SoundStack(y) /\ SamePlace(x, y)
        /\ \A k \in 1 .. Len(y.children) :
             \/ y.children[k].fresh
             \/ \E j \in 1 .. Len(x.children) : y.children[k] = x.children[j]
    BY <2>1, StackSound DEF new
  <2>3. M = [L EXCEPT !.children = e] /\ d = e
    BY <1>2, <1>8 DEF Shaped, GroupFields
  <2> HIDE DEF c, y, d
  <2>4. Len(e) = 2 /\ e[1] = c[1] /\ e[2] = y
    <3>1. c \in Seq(ToSet(c))
      BY ShapedIs DEF c
    <3> QED BY <1>8, <2>1, <3>1
  <2> HIDE DEF e
  <2>5. Spaced(M)
    <3>1. SamePlace(c[1], e[1]) /\ SamePlace(c[2], e[2]) /\ SoundStack(e[2])
      BY <2>2, <2>4 DEF SamePlace
    <3>2. IsStack(e[1]) => SoundStack(e[1])
      BY <1>8, <2>4 DEF Spaced, c
    <3> QED BY <1>8, <2>3, <2>4, <3>1, <3>2, ReplacedSpaced DEF c
  <2>6. Stay(L, M)
    BY <1>4, <1>5, <1>8, <2>2, <2>3, <2>4 DEF Stay
  <2>7. MainStays(L, M)
    BY <2>3, <2>4 DEF MainStays, HasMain, Main, Place, c, d
  <2>8. Lasts(L, M)
    <3>1. \A k \in 1 .. 2 : k = 1 \/ k = 2
      OBVIOUS
    <3>2. M.total = L.total
      BY <2>3, TotalStays DEF Shaped
    <3>3. \A node \in NodesOf(M) : node.fresh \/ node \in NodesOf(L)
      BY <1>4, <1>5, <1>8, <2>2, <2>3, <2>4
    <3>4. AllFresh(L) => AllFresh(M)
      <4>1. 1 \in 1 .. Len(c) /\ 2 \in 1 .. Len(c)
        BY <1>8
      <4> QED BY <2>2, <2>3, <2>4, <3>1, <4>1 DEF AllFresh, SamePlace, c, d
    <3> QED BY <3>2, <3>3, <3>4 DEF Lasts
  <2> QED BY <2>5, <2>6, <2>7, <2>8
<1>9. Spaced(M) /\ Stay(L, M) /\ MainStays(L, M) /\ Lasts(L, M)
  BY <1>2, <1>6, <1>7, <1>8
<1> QED BY <1>9 DEF M

\* A window is removed from it.
LEMMA RemovedSpaced ==
  ASSUME NEW L, Shaped(L), Spaced(L), NEW w, IsInjective(HeldIn(L))
  PROVE  LET M == RemoveFromLayout(L, w)
         IN  Spaced(M) /\ Stay(L, M) /\ MainStays(L, M) /\ Lasts(L, M)
<1> DEFINE c == L.children
           M == RemoveFromLayout(L, w)
           d == M.children
<1>1. Shaped(M)
  BY RemovedFromIs
<1>2. \/ M = L
      \/ Len(c) >= 1 /\ M = PopFront(L)
      \/ Len(c) = 2 /\ M = PopBack(L)
      \/ Len(c) = 2 /\ \E i \in 0 .. Len(c[2].children) - 1 :
                         M = [L EXCEPT !.children[2] = RemoveNode(c[2], i)]
      \/ Len(c) = 2 /\ IsWindow(c[1]) /\ c[2].children # <<>> /\ M = Promote(L)
  BY RemovedForms
<1> HIDE DEF M
<1>4. \A node : node \in NodesOf(M) <=>
        \/ Len(d) >= 1 /\ IsWindow(d[1]) /\ node = d[1]
        \/ Len(d) = 2 /\ \E j \in 1 .. Len(d[2].children) : node = d[2].children[j]
  BY <1>1, NodesAre
<1>5. \A node : node \in NodesOf(L) <=>
        \/ Len(c) >= 1 /\ IsWindow(c[1]) /\ node = c[1]
        \/ Len(c) = 2 /\ \E j \in 1 .. Len(c[2].children) : node = c[2].children[j]
  BY NodesAre
<1>6. /\ Len(c) = 0 \/ Len(c) = 1 \/ Len(c) = 2
      /\ c \in Seq(ToSet(c)) /\ DOMAIN c = 1 .. Len(c)
      /\ Len(c) = 2 => IsStack(c[2]) /\ SoundStack(c[2])
      /\ Len(c) >= 1 => IsFirst(c[1]) /\ (IsStack(c[1]) => SoundStack(c[1]))
  BY ShapedIs DEF Shaped, Spaced
<1>7. ASSUME M = L PROVE Spaced(M) /\ Stay(L, M) /\ MainStays(L, M) /\ Lasts(L, M)
  BY <1>7, StaysSame
<1>8. ASSUME Len(c) >= 1, M = PopFront(L)
      PROVE  Spaced(M) /\ Stay(L, M) /\ MainStays(L, M) /\ Lasts(L, M)
  <2>1. Spaced(M) /\ Len(d) = Len(c) - 1 /\ (Len(c) = 2 => d[1] = c[2])
    BY <1>8, TakenSpaced
  <2> HIDE DEF c, d
  <2>2. Len(d) = 0 \/ (Len(d) = 1 /\ Len(c) = 2)
    BY <1>6, <1>8, <2>1
  <2>3. ~IsWindow(c[2]) \/ Len(c) # 2
    BY <1>6 DEF IsWindow, IsStack
  <2>4. Stay(L, M)
    <3>1. Len(d) # 2
      BY <2>2
    <3>2. Len(d) >= 1 => ~IsWindow(d[1])
      BY <2>1, <2>2, <2>3
    <3>3. NodesOf(M) = {}
      BY <1>4, <3>1, <3>2
    <3> QED BY <3>3 DEF Stay
  <2>5. MainStays(L, M)
    BY <2>2 DEF MainStays, HasStack, d
  <2>6. Lasts(L, M)
    <3>1. NodesOf(M) = {}
      <4>1. Len(d) # 2
        BY <2>2
      <4>2. Len(d) >= 1 => ~IsWindow(d[1])
        BY <2>1, <2>2, <2>3
      <4> QED BY <1>4, <4>1, <4>2
    <3>2. M.total = L.total
      BY <1>8, TotalStays DEF Shaped
    <3>3. \A k \in 1 .. Len(d) : k = 1 /\ Len(c) = 2 /\ d[k] = c[2] /\ 2 \in 1 .. Len(c)
      <4>1. \A n : n = 0 \/ (n = 1 /\ Len(c) = 2) =>
                     \A k \in 1 .. n : k = 1 /\ Len(c) = 2 /\ 2 \in 1 .. Len(c)
        OBVIOUS
      <4>2. \A k \in 1 .. Len(d) : k = 1 /\ Len(c) = 2 /\ 2 \in 1 .. Len(c)
        BY <2>2, <4>1
      <4> QED BY <2>1, <4>2
    <3> QED BY <3>1, <3>2, <3>3 DEF Lasts, AllFresh, c, d
  <2> QED BY <2>1, <2>4, <2>5, <2>6
<1>9. ASSUME Len(c) = 2, M = PopBack(L)
      PROVE  Spaced(M) /\ Stay(L, M) /\ MainStays(L, M) /\ Lasts(L, M)
  <2>0. Len(c) >= 1
    BY <1>9
  <2>1. Spaced(M) /\ Len(d) = Len(c) - 1 /\ d[1] = c[1]
    BY <1>9, <2>0, TakenSpaced
  <2> HIDE DEF c, d
  <2>2. Len(d) = 1
    BY <1>9, <2>1
  <2>4. Stay(L, M)
    BY <1>4, <1>5, <1>9, <2>1, <2>2 DEF Stay
  <2>5. MainStays(L, M)
    BY <2>2 DEF MainStays, HasStack, d
  <2>6. Lasts(L, M)
    <3>1. \A k \in 1 .. 1 : k = 1
      OBVIOUS
    <3>2. M.total = L.total
      BY <1>9, TotalStays DEF Shaped
    <3>3. \A node \in NodesOf(M) : node \in NodesOf(L)
      BY <1>4, <1>5, <1>9, <2>1, <2>2
    <3>4. AllFresh(L) => AllFresh(M)
      <4>1. 1 \in 1 .. Len(c)
        BY <1>9
      <4> QED BY <2>1, <2>2, <3>1, <4>1 DEF AllFresh, c, d
    <3> QED BY <3>2, <3>3, <3>4 DEF Lasts
  <2> QED BY <2>1, <2>4, <2>5, <2>6
<1>10. ASSUME Len(c) = 2, NEW i \in 0 .. Len(c[2].children) - 1,
              M = [L EXCEPT !.children[2] = RemoveNode(c[2], i)]
       PROVE  Spaced(M) /\ Stay(L, M) /\ MainStays(L, M) /\ Lasts(L, M)
  <2> DEFINE x == c[2]
             y == RemoveNode(x, i)
             e == [c EXCEPT ![2] = y]
  <2>2. /\ IsStack(y) /\ SoundStack(y) /\ SamePlace(x, y)
        /\ \A k \in 1 .. Len(y.children) :
             \E j \in 1 .. Len(x.children) : y.children[k] = x.children[j]
    BY <1>6, <1>10, StackSound
  <2>3. M = [L EXCEPT !.children = e] /\ d = e
    BY <1>10 DEF Shaped, GroupFields
  <2> HIDE DEF c, y, d
  <2>4. Len(e) = 2 /\ e[1] = c[1] /\ e[2] = y
    BY <1>6, <1>10
  <2> HIDE DEF e
  <2>5. Spaced(M)
    <3>1. SamePlace(c[1], e[1]) /\ SamePlace(c[2], e[2]) /\ SoundStack(e[2])
      BY <2>2, <2>4 DEF SamePlace
    <3>2. IsStack(e[1]) => SoundStack(e[1])
      BY <1>6, <1>10, <2>4
    <3> QED BY <1>10, <2>3, <2>4, <3>1, <3>2, ReplacedSpaced DEF c
  <2>6. Stay(L, M)
    BY <1>4, <1>5, <1>10, <2>2, <2>3, <2>4 DEF Stay
  <2>7. MainStays(L, M)
    BY <2>3, <2>4 DEF MainStays, HasMain, Main, Place, c, d
  <2>8. Lasts(L, M)
    <3>1. \A k \in 1 .. 2 : k = 1 \/ k = 2
      OBVIOUS
    <3>2. M.total = L.total
      BY <2>3, TotalStays DEF Shaped
    <3>3. \A node \in NodesOf(M) : node.fresh \/ node \in NodesOf(L)
      BY <1>4, <1>5, <1>10, <2>2, <2>3, <2>4
    <3>4. AllFresh(L) => AllFresh(M)
      <4>1. 1 \in 1 .. Len(c) /\ 2 \in 1 .. Len(c)
        BY <1>10
      <4> QED BY <2>2, <2>3, <2>4, <3>1, <4>1 DEF AllFresh, SamePlace, c, d
    <3> QED BY <3>2, <3>3, <3>4 DEF Lasts
  <2> QED BY <2>5, <2>6, <2>7, <2>8
<1>11. ASSUME Len(c) = 2, IsWindow(c[1]), c[2].children # <<>>, M = Promote(L)
       PROVE  Spaced(M) /\ Stay(L, M) /\ MainStays(L, M) /\ Lasts(L, M)
  <2> DEFINE x == c[2]
             y == RemoveNode(x, 0)
             u == x.children[1].window
             f == [c[1] EXCEPT !.window = u, !.changed = TRUE]
             e == [[[c EXCEPT ![1] = [c[1] EXCEPT !.window = u]]
                     EXCEPT ![1] = [[c[1] EXCEPT !.window = u] EXCEPT !.changed = TRUE]]
                     EXCEPT ![2] = y]
  <2>1. 0 \in 0 .. Len(x.children) - 1
    <3> DEFINE s == x.children
    <3>1. IsList(s) /\ s # <<>>
      BY <1>6, <1>11 DEF IsStack
    <3> HIDE DEF s
    <3>2. Len(s) \in Nat /\ Len(s) # 0
      BY <3>1 DEF IsList
    <3> QED BY <3>2 DEF s
  <2>2. /\ IsStack(y) /\ SoundStack(y) /\ SamePlace(x, y)
        /\ \A k \in 1 .. Len(y.children) :
             \E j \in 1 .. Len(x.children) : y.children[k] = x.children[j]
    BY <1>6, <1>11, <2>1, StackSound
  <2>3. M = [L EXCEPT !.children = e] /\ d = e
    BY <1>6, <1>11 DEF Promote, Others, Shaped, GroupFields
  <2>4. SamePlace(c[1], f) /\ f.changed /\ f.kind = "window" /\ f.at = c[1].at /\ f.size = c[1].size
    BY <1>11 DEF IsWindow, NodeFields, SamePlace
  <2> HIDE DEF c, y, d, u
  <2>5. Len(e) = 2 /\ e[1] = f /\ e[2] = y
    BY <1>6, <1>11
  <2> HIDE DEF e, f
  <2>6. Spaced(M)
    <3>1. SamePlace(c[1], e[1]) /\ SamePlace(c[2], e[2]) /\ SoundStack(e[2])
      BY <2>2, <2>4, <2>5
    <3>2. ~IsStack(e[1])
      BY <2>4, <2>5 DEF IsStack
    <3> QED BY <1>11, <2>3, <2>5, <3>1, <3>2, ReplacedSpaced DEF c
  <2>7. Stay(L, M)
    BY <1>4, <1>5, <1>11, <2>2, <2>3, <2>4, <2>5 DEF Stay
  <2>8. MainStays(L, M)
    <3>1. d # <<>> /\ d[1] = f
      <4>1. Len(<<>>) # 2
        OBVIOUS
      <4> QED BY <2>3, <2>5, <4>1
    <3> QED BY <2>4, <3>1 DEF MainStays, HasMain, Main, Place, c, d
  <2>9. Lasts(L, M)
    <3>1. \A k \in 1 .. 2 : k = 1 \/ k = 2
      OBVIOUS
    <3>2. M.total = L.total
      BY <2>3, TotalStays DEF Shaped
    <3>3. \A node \in NodesOf(M) :
            node = f \/ \E j \in 1 .. Len(c[2].children) : node = c[2].children[j]
      BY <1>4, <2>2, <2>3, <2>5
    <3>4. \A node \in NodesOf(M) : node = f \/ node \in NodesOf(L)
      BY <1>5, <1>11, <3>3
    <3>5. c[1] \in NodesOf(L) /\ f.fresh = c[1].fresh /\ f.size = c[1].size
      <4>1. Len(c) >= 1
        BY <1>11
      <4> QED BY <1>5, <1>11, <2>4, <4>1 DEF SamePlace
    <3>6. AllFresh(L) => AllFresh(M)
      <4>1. 1 \in 1 .. Len(c) /\ 2 \in 1 .. Len(c)
        BY <1>11
      <4> QED BY <2>2, <2>3, <2>4, <2>5, <3>1, <4>1 DEF AllFresh, SamePlace, c, d
    <3> QED BY <3>2, <3>4, <3>5, <3>6 DEF Lasts
  <2> QED BY <2>6, <2>7, <2>8, <2>9
<1> DEFINE Goal == Spaced(M) /\ Stay(L, M) /\ MainStays(L, M) /\ Lasts(L, M)
<1>12. /\ M = L => Goal
       /\ Len(c) >= 1 /\ M = PopFront(L) => Goal
       /\ Len(c) = 2 /\ M = PopBack(L) => Goal
       /\ Len(c) = 2 /\ IsWindow(c[1]) /\ c[2].children # <<>> /\ M = Promote(L) => Goal
  BY <1>7, <1>8, <1>9, <1>11
<1>13. \A i \in 0 .. Len(c[2].children) - 1 :
         Len(c) = 2 /\ M = [L EXCEPT !.children[2] = RemoveNode(c[2], i)] => Goal
  BY <1>10
<1> HIDE DEF c, Goal
<1>14. Goal
  BY <1>2, <1>12, <1>13
<1> QED BY <1>14 DEF M, Goal

-----------------------------------------------------------------------------
(* What apply_changes does to them.                                        *)

\* Nothing is to be applied to a group only if none of its nodes is new.
LEMMA NoneFresh ==
  ASSUME NEW g, Framed(g), Sound(g)
  PROVE  /\ g.additions = <<>> <=> \A k \in 1 .. Len(g.children) : ~g.children[k].fresh
         /\ ~ChangesMade(g) => \A k \in 1 .. Len(g.children) : ~g.children[k].fresh
<1> DEFINE c == g.children
           s == g.additions
<1>1. Len(c) \in Nat
  BY FramedList
<1>2. s \in Seq(Int) /\ Members(s) = FreshIn(c)
  BY DEF Sound
<1> HIDE DEF c, s
<1>3. s = <<>> <=> Members(s) = {}
  <2>1. DOMAIN s = 1 .. Len(s) /\ Len(s) \in Nat
    BY <1>2
  <2>2. s # <<>> => 1 \in DOMAIN s
    BY <1>2, <2>1
  <2> QED BY <2>2 DEF Members
<1>4. FreshIn(c) = {} <=> \A k \in 1 .. Len(c) : ~c[k].fresh
  <2>1. \A k \in 1 .. Len(c) : k - 1 \in 0 .. Len(c) - 1 /\ (k - 1) + 1 = k
    BY <1>1
  <2>2. \A k \in 0 .. Len(c) - 1 : k + 1 \in 1 .. Len(c)
    BY <1>1
  <2> QED BY <2>1, <2>2 DEF FreshIn
<1>5. ~ChangesMade(g) => s = <<>>
  BY DEF ChangesMade, s
<1> QED BY <1>2, <1>3, <1>4, <1>5 DEF c, s

\* Something is to be applied to the root only while one of its children is new,
\* and then no node of the stack has been placed.
LEMMA RootChanges ==
  ASSUME NEW L, Shaped(L), Spaced(L)
  PROVE  LET c == L.children
         IN  /\ ChangesMade(L) <=> \E k \in 1 .. Len(c) : c[k].fresh
             /\ ChangesMade(L) => \A k \in 1 .. Len(c) :
                  IsStack(c[k]) => \A j \in 1 .. Len(c[k].children) : c[k].children[j].fresh
<1> DEFINE c == L.children
<1>1. Framed(L) /\ Sound(L) /\ L.removed = 0
  BY FramedIs DEF Spaced
<1>2. ChangesMade(L) <=> L.additions # <<>>
  BY <1>1 DEF ChangesMade, Sound, Shaped, Unchanged
<1>3. ChangesMade(L) <=> \E k \in 1 .. Len(c) : c[k].fresh
  BY <1>1, <1>2, NoneFresh
<1>4. /\ Len(c) = 0 \/ Len(c) = 1 \/ Len(c) = 2
      /\ Len(c) >= 1 => IsFirst(c[1])
      /\ Len(c) = 2 => IsStack(c[2])
  BY ShapedIs DEF Shaped
<1>5. \A k \in 1 .. Len(c) : IsStack(c[k]) => SoundStack(c[k])
  BY DEF Spaced
<1>6. Len(c) = 2 /\ c[1].fresh => c[2].fresh
  BY DEF Spaced
<1> HIDE DEF c
<1>7. ASSUME ChangesMade(L), NEW k \in 1 .. Len(c), IsStack(c[k]),
             NEW j \in 1 .. Len(c[k].children)
      PROVE  c[k].children[j].fresh
  <2>1. k # 1
    <3>1. k = 1 => Len(c) >= 1 /\ ~IsWindow(c[k])
      BY <1>4, <1>7 DEF IsWindow, IsStack
    <3>2. c[k].children # <<>>
      BY <1>7
    <3> QED BY <1>4, <3>1, <3>2 DEF IsFirst
  <2>2. k = 2 /\ Len(c) = 2
    BY <1>4, <2>1
  <2>3. \A m \in 1 .. 2 : m = 1 \/ m = 2
    OBVIOUS
  <2>4. c[2].fresh
    BY <1>3, <1>6, <1>7, <2>2, <2>3
  <2> QED BY <1>5, <1>7, <2>2, <2>4 DEF SoundStack
<1> QED BY <1>3, <1>7 DEF c

\* A stack whose nodes are all new can be put anywhere.
LEMMA MovedSound ==
  ASSUME NEW x, IsStack(x), Sound(x), NEW y, PutIn(x, y),
         \A k \in 1 .. Len(x.children) : x.children[k].fresh
  PROVE  /\ IsStack(y) /\ Sound(y) /\ y.children = x.children
         /\ ChangesMade(y) <=> ChangesMade(x)
<1>1. /\ DOMAIN y = GroupFields /\ y.kind = x.kind /\ y.orientation = x.orientation
      /\ y.newOrientation = x.newOrientation /\ y.children = x.children
      /\ y.newSize = x.newSize /\ y.newAt = x.newAt
      /\ y.total = x.total /\ y.removed = x.removed /\ y.additions = x.additions
      /\ y.at \in [Axes -> Int] /\ y.size \in [Axes -> Nat]
  BY DEF PutIn, IsStack, GroupFields
<1>2. IsStack(y)
  BY <1>1 DEF IsStack
<1>3. ChangesMade(y) <=> ChangesMade(x)
  BY <1>1 DEF ChangesMade
<1>4. Laid(y)
  BY <1>1 DEF Laid
<1>5. Grounded(y) /\ SidesTotal(y) = SidesTotal(x)
  BY <1>1 DEF Sound, Grounded, SidesTotal, Sides
<1>6. Sound(y)
  BY <1>1, <1>4, <1>5 DEF Sound
<1> QED BY <1>1, <1>2, <1>3, <1>6

\* The children of the root.
LEMMA ChildrenAre ==
  ASSUME NEW L, Shaped(L)
  PROVE  \A k \in 1 .. Len(L.children) : IsWindow(L.children[k]) \/ IsStack(L.children[k])
<1> DEFINE c == L.children
<1>1. /\ Len(c) = 0 \/ Len(c) = 1 \/ Len(c) = 2
      /\ Len(c) >= 1 => IsFirst(c[1])
      /\ Len(c) = 2 => IsStack(c[2])
  BY ShapedIs DEF Shaped
<1> HIDE DEF c
<1>2. ASSUME NEW k \in 1 .. Len(c) PROVE IsWindow(c[k]) \/ IsStack(c[k])
  <2>1. (k = 1 /\ Len(c) >= 1) \/ (k = 2 /\ Len(c) = 2)
    BY <1>1
  <2> QED BY <1>1, <2>1 DEF IsFirst
<1> QED BY <1>2 DEF c

\* A stack where the root puts it, before its own windows are.
LEMMA StackArranged ==
  ASSUME NEW L, Shaped(L), Spaced(L), ~ApplyPanics(L), NEW k \in 1 .. Len(L.children),
         IsStack(L.children[k])
  PROVE  LET x == L.children[k]
             a == Arranged(L).children[k]
         IN  /\ IsStack(a) /\ Sound(a) /\ a.children = x.children
             /\ ChangesMade(a) <=> ChangesMade(x)
<1> DEFINE x == L.children[k]
           a == Arranged(L).children[k]
<1>1. Framed(L) /\ Sound(L)
  BY FramedIs DEF Spaced
<1>2. /\ ~ChangesMade(L) => a = x
      /\ ChangesMade(L) => PutIn(x, a)
  <2>1. /\ ~ChangesMade(L) => Arranged(L) = L
        /\ ChangesMade(L) => \A m \in 1 .. Len(L.children) :
                               PutIn(L.children[m], Arranged(L).children[m])
    BY <1>1, ArrangedSound
  <2> QED BY <2>1
<1>3. Sound(x)
  BY DEF Spaced, SoundStack
<1>4. ChangesMade(L) => \A j \in 1 .. Len(x.children) : x.children[j].fresh
  BY RootChanges
<1> HIDE DEF a
<1>5. CASE ChangesMade(L)
  BY <1>2, <1>3, <1>4, <1>5, MovedSound DEF a
<1>6. CASE ~ChangesMade(L)
  BY <1>2, <1>3, <1>6 DEF a
<1> QED BY <1>5, <1>6

\* What apply_changes makes of a child of the root.
LEMMA ChildApplied ==
  ASSUME NEW L, Shaped(L), Spaced(L), ~AppliedPanics(L), NEW k \in 1 .. Len(L.children)
  PROVE  LET x == L.children[k]
             a == Arranged(L).children[k]
             z == Nested(a)
         IN  /\ SamePlace(a, z) /\ ~z.fresh
             /\ ~ChangesMade(L) => a = x
             /\ IsWindow(x) => /\ IsWindow(z) /\ ~z.changed
                               /\ k \in Reconfigured(L) \/ Stayed(x, z)
             /\ IsStack(x) =>
                  /\ IsStack(z) /\ SoundStack(z) /\ ~ChangesMade(z)
                  /\ Len(z.children) = Len(x.children)
                  /\ \A j \in 1 .. Len(x.children) :
                       /\ ~z.children[j].fresh /\ ~z.children[j].changed
                       /\ j \in Reconfigured(x) \/ Stayed(x.children[j], z.children[j])
<1> DEFINE p == Arranged(L)
           x == L.children[k]
           a == p.children[k]
           z == Nested(a)
<1>1. Framed(L) /\ Sound(L) /\ Upright(L) /\ IsList(L.children)
  BY FramedIs, ShapedIs DEF Spaced, Framed
<1>2. /\ ~ApplyPanics(L)
      /\ \A m \in DOMAIN p.children : p.children[m].kind = "group" => ~ApplyPanics(p.children[m])
  BY DEF AppliedPanics
<1>3. /\ Len(p.children) = Len(L.children) /\ ~a.fresh
      /\ ~ChangesMade(L) => a = x
      /\ ChangesMade(L) => PutIn(x, a)
  BY <1>1, <1>2, ArrangedSound
<1>4. IsList(p.children) /\ Alike(x, a)
  BY <1>1, ArrangedIs
<1>5. k \in DOMAIN p.children /\ k \in DOMAIN L.children
  BY <1>1, <1>3, <1>4 DEF IsList
<1>6. IsWindow(x) \/ IsStack(x)
  BY ChildrenAre
<1>7. CASE IsWindow(x)
  <2>1. /\ IsWindow(a) /\ a.window = x.window /\ z = Leaf(a) /\ ~IsStack(x)
        /\ x.kind = "window"
    BY <1>4, <1>7 DEF Alike, Nested, IsWindow, IsStack
  <2> HIDE DEF x, a, z
  <2>2. SamePlace(a, z) /\ ~z.fresh /\ ~z.changed /\ IsWindow(z) /\ z.window = a.window
    BY <1>3, <2>1 DEF Leaf, IsWindow, NodeFields, SamePlace
  <2>3. CASE ChangesMade(L) \/ x.changed
    <3>1. k \in Reconfigured(L)
      BY <1>5, <2>1, <2>3 DEF Reconfigured, x
    <3> QED BY <1>3, <2>1, <2>2, <3>1 DEF x, a, z
  <2>4. CASE ~ChangesMade(L) /\ ~x.changed
    <3>1. Stayed(x, z)
      BY <1>3, <2>1, <2>2, <2>4 DEF Stayed, SamePlace
    <3> QED BY <1>3, <2>1, <2>2, <3>1 DEF x, a, z
  <2> QED BY <2>3, <2>4
<1>8. CASE IsStack(x)
  <2>0. SoundStack(x) /\ ~IsWindow(x)
    BY <1>8 DEF Spaced, IsWindow, IsStack
  <2>2. ~ApplyPanics(a) \/ a.kind # "group"
    BY <1>2, <1>5
  <2>3. /\ IsStack(a) /\ Sound(a) /\ a.children = x.children
        /\ ChangesMade(a) <=> ChangesMade(x)
    BY <1>2, <1>8, StackArranged
  <2> HIDE DEF x, a
  <2>4. z = Apply(a) /\ ~ApplyPanics(a)
    BY <2>2, <2>3 DEF Nested, IsStack
  <2>5. /\ IsStack(z) /\ Sound(z) /\ SamePlace(a, z) /\ ~ChangesMade(z)
        /\ Len(z.children) = Len(a.children)
        /\ \A j \in 1 .. Len(a.children) :
             /\ ~z.children[j].fresh /\ ~z.children[j].changed
             /\ j \in Reconfigured(a) \/ Stayed(a.children[j], z.children[j])
    BY <2>3, <2>4, ApplySound
  <2> HIDE DEF z
  <2>6. Reconfigured(a) = Reconfigured(x)
    BY <2>3 DEF Reconfigured
  <2>7. ~z.fresh /\ SoundStack(z)
    BY <1>3, <2>3, <2>5 DEF SamePlace, SoundStack
  <2> QED BY <1>3, <2>0, <2>3, <2>5, <2>6, <2>7 DEF x, a, z
<1> QED BY <1>6, <1>7, <1>8

\* The children of the root, and itself, once changes are applied.
LEMMA AppliedChildren ==
  ASSUME NEW L, Shaped(L), Spaced(L), ~AppliedPanics(L)
  PROVE  LET M == Applied(L)
             c == L.children
             d == M.children
         IN  /\ DOMAIN d = 1 .. Len(c) /\ Len(d) = Len(c)
             /\ \A k \in 1 .. Len(c) : d[k] = Nested(Arranged(L).children[k])
             /\ Sound(M) /\ M.removed = 0 /\ ~ChangesMade(M) /\ SamePlace(L, M)
<1> DEFINE M == Applied(L)
           c == L.children
           p == Arranged(L)
           a == p.children
           d == [k \in DOMAIN a |-> Nested(a[k])]
<1>1. Framed(L) /\ Sound(L) /\ Upright(L) /\ IsList(c) /\ Len(c) \in Nat
  BY FramedIs, ShapedIs DEF Spaced, Framed
<1>2. ~ApplyPanics(L)
  BY DEF AppliedPanics
<1>3. /\ Sound(p) /\ SamePlace(L, p) /\ ~ChangesMade(p) /\ p.removed = 0
      /\ Len(a) = Len(c)
  BY <1>1, <1>2, ArrangedSound
<1>4. Kept(L, p) /\ IsList(a)
  BY <1>1, ArrangedIs
<1>5. M = [p EXCEPT !.children = d]
  BY DEF Applied
<1>6. \A k \in 1 .. Len(c) : SamePlace(a[k], Nested(a[k]))
  BY ChildApplied
<1> HIDE DEF M, p
<1>7. DOMAIN a = 1 .. Len(c)
  BY <1>3, <1>4 DEF IsList
<1>8. /\ DOMAIN d = 1 .. Len(c) /\ Len(d) = Len(c)
      /\ \A k \in 1 .. Len(c) : d[k] = Nested(a[k])
  BY <1>1, <1>7
<1> HIDE DEF a, c, d
<1>9. /\ M.children = d /\ M.orientation = p.orientation /\ M.newOrientation = p.newOrientation
      /\ M.newSize = p.newSize /\ M.newAt = p.newAt /\ M.at = p.at /\ M.size = p.size
      /\ M.total = p.total /\ M.removed = p.removed /\ M.additions = p.additions
      /\ M.fresh = p.fresh
  BY <1>4, <1>5 DEF Kept, GroupFields
<1>10. Reframed(p, M)
  BY <1>3, <1>6, <1>8, <1>9 DEF Reframed, a
<1>11. Sound(M)
  BY <1>3, <1>10, ReframedSound
<1>12. ~ChangesMade(M) /\ M.removed = 0 /\ SamePlace(L, M)
  BY <1>3, <1>9 DEF ChangesMade, SamePlace
<1> QED BY <1>8, <1>9, <1>11, <1>12 DEF M, a, c, p

\* What is told of the nodes of the layout: M is the layout once changes were
\* applied, and nodes are those that the display server is told to reconfigure.
Telling(L, M, nodes) ==
  /\ nodes \subseteq NodesOf(M)
  /\ \A node \in NodesOf(M) :
       /\ ~node.fresh /\ ~node.changed
       /\ node \in nodes \/ \E x \in NodesOf(L) : Stayed(x, node)

\* Changes are applied to the layout.
LEMMA AppliedSpaced ==
  ASSUME NEW L, Shaped(L), Spaced(L), ~AppliedPanics(L)
  PROVE  LET M == Applied(L)
         IN  /\ Spaced(M) /\ MainStays(L, M) /\ ~ChangesMade(M)
             /\ Telling(L, M, ToReconfigure(L))
<1> DEFINE M == Applied(L)
           c == L.children
           d == M.children
           a == Arranged(L).children
           told == ToReconfigure(L)
<1>1. /\ DOMAIN d = 1 .. Len(c) /\ Len(d) = Len(c)
      /\ \A k \in 1 .. Len(c) : d[k] = Nested(a[k])
      /\ Sound(M) /\ M.removed = 0 /\ ~ChangesMade(M) /\ SamePlace(L, M)
  BY AppliedChildren
<1>2. \A k \in 1 .. Len(c) :
        /\ SamePlace(a[k], Nested(a[k])) /\ ~Nested(a[k]).fresh
        /\ ~ChangesMade(L) => a[k] = c[k]
        /\ IsWindow(c[k]) => /\ IsWindow(Nested(a[k])) /\ ~Nested(a[k]).changed
                             /\ k \in Reconfigured(L) \/ Stayed(c[k], Nested(a[k]))
        /\ IsStack(c[k]) =>
             LET z == Nested(a[k])
             IN  /\ IsStack(z) /\ SoundStack(z) /\ ~ChangesMade(z)
                 /\ Len(z.children) = Len(c[k].children)
                 /\ \A j \in 1 .. Len(c[k].children) :
                      /\ ~z.children[j].fresh /\ ~z.children[j].changed
                      /\ j \in Reconfigured(c[k]) \/ Stayed(c[k].children[j], z.children[j])
  BY ChildApplied
<1> HIDE DEF a
<1>3. ASSUME NEW k \in 1 .. Len(c)
      PROVE  /\ SamePlace(a[k], d[k]) /\ ~d[k].fresh
             /\ ~ChangesMade(L) => a[k] = c[k]
  BY <1>1, <1>2
<1>4. ASSUME NEW k \in 1 .. Len(c), IsWindow(c[k])
      PROVE  /\ IsWindow(d[k]) /\ ~d[k].changed
             /\ k \in Reconfigured(L) \/ Stayed(c[k], d[k])
  BY <1>1, <1>2, <1>4
<1>5. ASSUME NEW k \in 1 .. Len(c), IsStack(c[k])
      PROVE  /\ IsStack(d[k]) /\ SoundStack(d[k]) /\ ~ChangesMade(d[k])
             /\ Len(d[k].children) = Len(c[k].children)
             /\ \A j \in 1 .. Len(c[k].children) :
                  /\ ~d[k].children[j].fresh /\ ~d[k].children[j].changed
                  /\ j \in Reconfigured(c[k]) \/ Stayed(c[k].children[j], d[k].children[j])
  <2> DEFINE z == Nested(a[k])
  <2>1. /\ IsStack(z) /\ SoundStack(z) /\ ~ChangesMade(z)
        /\ Len(z.children) = Len(c[k].children)
        /\ \A j \in 1 .. Len(c[k].children) :
             /\ ~z.children[j].fresh /\ ~z.children[j].changed
             /\ j \in Reconfigured(c[k]) \/ Stayed(c[k].children[j], z.children[j])
    BY <1>2, <1>5
  <2>2. d[k] = z
    BY <1>1
  <2> HIDE DEF z, d, c
  <2> QED BY <2>1, <2>2
<1>6. /\ Len(c) = 0 \/ Len(c) = 1 \/ Len(c) = 2
      /\ Len(c) >= 1 => IsFirst(c[1])
      /\ Len(c) = 2 => IsStack(c[2])
      /\ \A k \in 1 .. Len(c) : IsWindow(c[k]) \/ IsStack(c[k])
      /\ DOMAIN c = 1 .. Len(c)
  BY ShapedIs, ChildrenAre DEF Shaped
<1>7. Shaped(M)
  BY AppliedIs
<1>8. \A node : node \in NodesOf(M) <=>
        \/ Len(d) >= 1 /\ IsWindow(d[1]) /\ node = d[1]
        \/ Len(d) = 2 /\ \E j \in 1 .. Len(d[2].children) : node = d[2].children[j]
  BY <1>7, NodesAre
<1>9. \A node : node \in NodesOf(L) <=>
        \/ Len(c) >= 1 /\ IsWindow(c[1]) /\ node = c[1]
        \/ Len(c) = 2 /\ \E j \in 1 .. Len(c[2].children) : node = c[2].children[j]
  BY NodesAre
<1>10. \A node : node \in told <=>
         \/ \E k \in Reconfigured(L) : node = d[k]
         \/ \E k \in DOMAIN d : d[k].kind = "group" /\ \E j \in Reconfigured(c[k]) : node = d[k].children[j]
  <2> HIDE DEF M
  <2>1. told = {d[k] : k \in Reconfigured(L)} \cup
               UNION {{d[k].children[j] : j \in Reconfigured(c[k])} :
                        k \in {k \in DOMAIN d : d[k].kind = "group"}}
    BY DEF ToReconfigure, M
  <2> HIDE DEF told, d, c
  <2> QED BY <2>1
<1>11. \A k : k \in Reconfigured(L) => k \in 1 .. Len(c) /\ c[k].kind = "window"
  BY <1>6 DEF Reconfigured
<1>12. \A x : Reconfigured(x) \subseteq DOMAIN x.children
  BY DEF Reconfigured
<1>13. \A x : IsStack(x) => DOMAIN x.children = 1 .. Len(x.children) /\ ~IsWindow(x)
  BY DEF IsStack, IsList, IsWindow
<1>14. \A x : IsWindow(x) => x.kind = "window" /\ ~IsStack(x)
  BY DEF IsStack, IsWindow
<1>15. L.at = Both(Gap) /\ L.size = [axis \in Axes |-> Screen[axis] - 2 * Gap]
  BY DEF Spaced
<1>16. MainStays(L, M) <=>
         (HasMain(L) /\ ~c[1].fresh /\ HasStack(L) /\ ~c[2].fresh /\ HasStack(M)
            => HasMain(M) /\ Place(d[1]) = Place(c[1]))
  BY DEF MainStays, Main
<1>17. ChangesMade(L) <=> \E k \in 1 .. Len(c) : c[k].fresh
  BY RootChanges
<1>18. /\ HasMain(L) <=> c # <<>> /\ c[1].kind = "window"
       /\ HasMain(M) <=> d # <<>> /\ d[1].kind = "window"
       /\ HasStack(L) <=> Len(c) > 1 /\ c[2].kind = "group"
  BY DEF HasMain, HasStack
<1> HIDE DEF M, c, d, told
<1>19. Spaced(M)
  <2>1. \A k \in 1 .. Len(d) : IsStack(d[k]) => SoundStack(d[k])
    BY <1>1, <1>4, <1>5, <1>6, <1>14
  <2>2. Len(d) = 2 => ~d[1].fresh
    <3>1. 1 \in 1 .. 2
      OBVIOUS
    <3> QED BY <1>1, <1>3, <3>1
  <2> QED BY <1>1, <1>15, <2>1, <2>2 DEF Spaced, SamePlace, d
<1>20. MainStays(L, M)
  <2>1. ASSUME HasMain(L), ~c[1].fresh, HasStack(L), ~c[2].fresh
        PROVE  HasMain(M) /\ Place(d[1]) = Place(c[1])
    <3>1. Len(c) = 2 /\ c[1].kind = "window"
      BY <1>6, <1>18, <2>1
    <3>2. \A k \in 1 .. 2 : k = 1 \/ k = 2
      OBVIOUS
    <3>3. ~ChangesMade(L)
      BY <1>17, <2>1, <3>1, <3>2
    <3>4. 1 \in 1 .. Len(c)
      BY <3>1
    <3>5. SamePlace(c[1], d[1])
      BY <1>3, <3>3, <3>4
    <3>6. IsWindow(c[1])
      BY <1>6, <3>1, <3>4 DEF IsStack
    <3>7. IsWindow(d[1])
      BY <1>4, <3>4, <3>6
    <3>8. d # <<>>
      <4>1. Len(<<>>) # 2
        OBVIOUS
      <4> QED BY <1>1, <3>1, <4>1
    <3> QED BY <1>14, <1>18, <3>5, <3>7, <3>8 DEF SamePlace, Place
  <2> QED BY <1>16, <2>1
<1>21. told \subseteq NodesOf(M)
  <2>1. ASSUME NEW k \in Reconfigured(L) PROVE d[k] \in NodesOf(M)
    <3>1. k \in 1 .. Len(c) /\ c[k].kind = "window"
      BY <1>11
    <3>2. IsWindow(c[k])
      BY <1>6, <3>1 DEF IsStack
    <3>3. IsWindow(d[k])
      BY <1>4, <3>1, <3>2
    <3>4. k = 1 /\ Len(c) >= 1
      <4>1. ASSUME NEW m \in 1 .. Len(c) PROVE (m = 1 /\ Len(c) >= 1) \/ (m = 2 /\ Len(c) = 2)
        BY <1>6
      <4>2. (k = 1 /\ Len(c) >= 1) \/ (k = 2 /\ Len(c) = 2)
        BY <3>1, <4>1
      <4> QED BY <1>6, <1>14, <3>2, <4>2
    <3> QED BY <1>1, <1>8, <3>3, <3>4
  <2>2. ASSUME NEW k \in DOMAIN d, d[k].kind = "group", NEW j \in Reconfigured(c[k])
        PROVE  d[k].children[j] \in NodesOf(M)
    <3>1. k \in 1 .. Len(c)
      BY <1>1
    <3>2. IsStack(c[k])
      <4>1. ~IsWindow(d[k])
        BY <2>2, <1>14
      <4> QED BY <1>4, <1>6, <3>1, <4>1
    <3>3. j \in 1 .. Len(c[k].children)
      BY <1>12, <1>13, <3>2, <2>2
    <3>4. Len(d[k].children) = Len(c[k].children)
      BY <1>5, <3>1, <3>2
    <3>5. k = 2 /\ Len(c) = 2
      <4>1. ASSUME NEW m \in 1 .. Len(c) PROVE (m = 1 /\ Len(c) >= 1) \/ (m = 2 /\ Len(c) = 2)
        BY <1>6
      <4>2. (k = 1 /\ Len(c) >= 1) \/ (k = 2 /\ Len(c) = 2)
        BY <3>1, <4>1
      <4>3. c[k].children # <<>>
        BY <3>3
      <4> QED BY <1>6, <1>13, <3>2, <4>2, <4>3 DEF IsFirst
    <3> QED BY <1>1, <1>8, <3>3, <3>4, <3>5
  <2> QED BY <1>10, <2>1, <2>2
<1>22. ASSUME NEW node \in NodesOf(M)
       PROVE  /\ ~node.fresh /\ ~node.changed
              /\ node \in told \/ \E x \in NodesOf(L) : Stayed(x, node)
  <2>1. CASE Len(d) >= 1 /\ IsWindow(d[1]) /\ node = d[1]
    <3>1. 1 \in 1 .. Len(c) /\ Len(c) >= 1
      BY <1>1, <1>6, <2>1
    <3>2. IsWindow(c[1])
      BY <1>5, <1>6, <1>14, <2>1, <3>1
    <3>3. /\ ~d[1].fresh /\ ~d[1].changed
          /\ 1 \in Reconfigured(L) \/ Stayed(c[1], d[1])
      BY <1>3, <1>4, <3>1, <3>2
    <3>4. c[1] \in NodesOf(L)
      BY <1>9, <3>1, <3>2
    <3> QED BY <1>10, <2>1, <3>3, <3>4
  <2>2. CASE Len(d) = 2 /\ \E j \in 1 .. Len(d[2].children) : node = d[2].children[j]
    <3>1. 2 \in 1 .. Len(c) /\ Len(c) = 2 /\ IsStack(c[2])
      BY <1>1, <1>6, <2>2
    <3>2. /\ IsStack(d[2]) /\ Len(d[2].children) = Len(c[2].children)
          /\ \A j \in 1 .. Len(c[2].children) :
               /\ ~d[2].children[j].fresh /\ ~d[2].children[j].changed
               /\ j \in Reconfigured(c[2]) \/ Stayed(c[2].children[j], d[2].children[j])
      BY <1>5, <3>1
    <3>3. PICK j \in 1 .. Len(c[2].children) : node = d[2].children[j]
      BY <2>2, <3>2
    <3>4. c[2].children[j] \in NodesOf(L)
      BY <1>9, <3>1
    <3>5. d[2].kind = "group" /\ 2 \in DOMAIN d
      BY <1>1, <3>1, <3>2 DEF IsStack
    <3> QED BY <1>10, <3>2, <3>3, <3>4, <3>5
  <2> QED BY <1>8, <1>22, <2>1, <2>2
<1> QED BY <1>1, <1>19, <1>20, <1>21, <1>22 DEF Telling, M, told

-----------------------------------------------------------------------------
(* Panics, and the places there are once nothing is to be applied.         *)

\* One child, or two.
LEMMA OneOrTwo ==
  \A n : n = 0 \/ n = 1 \/ n = 2 =>
           \A m \in 1 .. n : (m = 1 /\ n >= 1) \/ (m = 2 /\ n = 2)
  OBVIOUS

\* There are two axes.
LEMMA TwoAxes ==
  \A o : /\ Axis(o) \in Axes /\ OtherAxis(Axis(o)) \in Axes
         /\ \A a \in Axes : a = Axis(o) \/ a = OtherAxis(Axis(o))
  BY DEF Axis, Axes, OtherAxis

\* apply_changes of a sound group panics only where the gaps alone are wider
\* than it, or where none of its nodes has any size.
LEMMA SoundPanics ==
  ASSUME NEW g, Framed(g), Sound(g), ApplyPanics(g)
  PROVE  LET axis == Axis(g.orientation)
         IN  /\ \/ g.size[axis] < TotalGap(Len(g.children))
                \/ \A k \in DOMAIN g.children : g.children[k].size[axis] = 0
             /\ g.children # <<>>
<1> DEFINE axis == Axis(g.orientation)
           n == Len(g.children)
           side == g.size[axis]
<1>1. /\ NewSide(g) = side /\ n \in Nat /\ DOMAIN g.children = 1 .. n
      /\ IsList(g.children)
  BY SoundIs, FramedList DEF Framed
<1>2. /\ g.total < g.removed \/ side < TotalGap(n)
         \/ (g.total = g.removed /\ \E k \in 1 .. n : TRUE)
  BY <1>1 DEF ApplyPanics, NewSide
<1>3. /\ g.total \in Int /\ g.removed \in Nat /\ SidesTotal(g) + g.removed <= g.total
      /\ \A k \in 1 .. n : g.children[k].size[axis] \in Nat
      /\ side \in Nat
  <2>1. axis \in Axes
    BY AxisIs
  <2> QED BY <2>1 DEF Sound, Grounded
<1>4. /\ SidesTotal(g) \in Nat
      /\ \A k \in 1 .. n : Sides(g)[k] \in Nat /\ Sides(g)[k] <= SidesTotal(g)
      /\ \A k \in 1 .. n : Sides(g)[k] = g.children[k].size[axis]
  BY <1>1, <1>3, SidesAre DEF Sides
<1> HIDE DEF side, axis
<1>5. ~(g.total < g.removed)
  BY <1>3, <1>4
<1>6. g.total = g.removed => \A k \in 1 .. n : g.children[k].size[axis] = 0
  <2>1. g.total = g.removed => SidesTotal(g) = 0
    BY <1>3, <1>4
  <2> QED BY <1>4, <2>1
<1>7. n # 0
  <2>1. TotalGap(0) = 0
    BY DEF TotalGap
  <2>2. ~ \E k \in 1 .. 0 : TRUE
    OBVIOUS
  <2> QED BY <1>2, <1>3, <1>5, <2>1, <2>2
<1>8. g.children # <<>>
  BY <1>7
<1> QED BY <1>1, <1>2, <1>5, <1>6, <1>8 DEF side, axis

\* apply_changes of the layout panics only where that of the root or of the
\* stack does, and an empty stack's never does.
LEMMA LayoutPanics ==
  ASSUME NEW L, Shaped(L), Spaced(L), AppliedPanics(L)
  PROVE  LET Tight(g) ==
               LET axis == Axis(g.orientation)
               IN  \/ g.size[axis] < TotalGap(Len(g.children))
                   \/ \A k \in DOMAIN g.children : g.children[k].size[axis] = 0
         IN  Tight(L) \/ (HasStack(L) /\ Tight(Arranged(L).children[2]))
<1> DEFINE Tight(g) ==
             LET axis == Axis(g.orientation)
             IN  \/ g.size[axis] < TotalGap(Len(g.children))
                 \/ \A k \in DOMAIN g.children : g.children[k].size[axis] = 0
           c == L.children
           a == Arranged(L).children
<1>1. Framed(L) /\ Sound(L) /\ Upright(L) /\ IsList(c)
  BY FramedIs, ShapedIs DEF Spaced, Framed
<1>2. CASE ApplyPanics(L)
  BY <1>1, <1>2, SoundPanics
<1>3. CASE ~ApplyPanics(L)
  <2>1. PICK k \in DOMAIN a : a[k].kind = "group" /\ ApplyPanics(a[k])
    BY <1>3 DEF AppliedPanics
  <2>2. /\ IsList(a) /\ Len(a) = Len(c)
        /\ \A m \in 1 .. Len(c) : Alike(c[m], a[m])
    BY <1>1, ArrangedIs
  <2>3. k \in 1 .. Len(c)
    BY <2>1, <2>2 DEF IsList
  <2>4. IsStack(c[k])
    <3>1. IsWindow(c[k]) \/ IsStack(c[k])
      BY <2>3, ChildrenAre
    <3>2. IsWindow(c[k]) => a[k].kind = "window"
      BY <2>2, <2>3 DEF Alike, IsWindow
    <3> QED BY <2>1, <3>1, <3>2
  <2>5. IsStack(a[k]) /\ Sound(a[k]) /\ a[k].children = c[k].children
    BY <1>3, <2>3, <2>4, StackArranged
  <2> DEFINE g == a[k]
  <2>6. Framed(g) /\ Sound(g) /\ ApplyPanics(g)
    BY <2>1, <2>5, FramedIs
  <2> HIDE DEF g
  <2>7. Tight(g) /\ g.children # <<>>
    BY <2>6, SoundPanics
  <2>8. k = 2 /\ Len(c) = 2
    <3>1. /\ Len(c) = 0 \/ Len(c) = 1 \/ Len(c) = 2
          /\ Len(c) >= 1 => IsFirst(c[1])
      BY ShapedIs DEF Shaped
    <3>2. c[k].children # <<>> /\ ~IsWindow(c[k])
      BY <2>4, <2>5, <2>7 DEF g, IsStack, IsWindow
    <3> HIDE DEF c
    <3>3. \A m \in 1 .. Len(c) : (m = 1 /\ Len(c) >= 1) \/ (m = 2 /\ Len(c) = 2)
      BY <3>1, OneOrTwo
    <3> QED BY <2>3, <3>1, <3>2, <3>3 DEF IsFirst
  <2>9. HasStack(L)
    BY <2>4, <2>8 DEF HasStack, IsStack
  <2> QED BY <2>7, <2>8, <2>9 DEF g
<1> QED BY <1>2, <1>3

\* x is on the screen, inside its padding.
OnScreen(x) ==
  \A axis \in Axes : /\ x.at[axis] \in Int /\ x.size[axis] \in Nat
                     /\ x.at[axis] >= Gap
                     /\ x.at[axis] + x.size[axis] <= Screen[axis] - Gap

\* Each of the nodes is beside or above those behind it.
InOrder(nodes) ==
  \A j, k \in 1 .. Len(nodes) : j < k => \E axis \in Axes : Apart(axis, nodes[j], nodes[k])

\* What is inside the screen, or in a group that is.
LEMMA InsideIs ==
  /\ \A L, x : Spaced(L) /\ Inside(L, x) => OnScreen(x)
  /\ \A g, x : OnScreen(g) /\ Inside(g, x) => OnScreen(x)
<1>1. ASSUME NEW L, NEW x, Spaced(L), Inside(L, x) PROVE OnScreen(x)
  <2> DEFINE axis == Axis(L.orientation)
             other == OtherAxis(axis)
  <2>1. /\ axis \in Axes /\ other \in Axes
        /\ \A a \in Axes : a = axis \/ a = other
    BY TwoAxes
  <2>2. \A a \in Axes : /\ L.at[a] = Gap /\ L.size[a] = Screen[a] - 2 * Gap
                        /\ Screen[a] \in Nat /\ Screen[a] >= 2 * Gap
    <3>1. L.at = Both(Gap) /\ L.size = [a \in Axes |-> Screen[a] - 2 * Gap]
      BY <1>1 DEF Spaced
    <3> QED BY <3>1, ScreenAssumption DEF Both
  <2>3. /\ x.size[axis] \in Nat /\ x.at[axis] \in Int
        /\ x.at[axis] >= L.at[axis]
        /\ x.at[axis] + x.size[axis] <= L.at[axis] + L.size[axis]
        /\ x.at[other] = L.at[other]
        /\ x.size[other] = L.size[other]
    BY <1>1 DEF Inside
  <2> HIDE DEF axis, other
  <2>4. /\ x.at[axis] \in Int /\ x.size[axis] \in Nat
        /\ x.at[axis] >= Gap
        /\ x.at[axis] + x.size[axis] <= Screen[axis] - Gap
    BY <2>1, <2>2, <2>3, GapAssumption
  <2>5. /\ x.at[other] \in Int /\ x.size[other] \in Nat
        /\ x.at[other] >= Gap
        /\ x.at[other] + x.size[other] <= Screen[other] - Gap
    BY <2>1, <2>2, <2>3, GapAssumption
  <2> QED BY <2>1, <2>4, <2>5 DEF OnScreen
<1>2. ASSUME NEW g, NEW x, OnScreen(g), Inside(g, x) PROVE OnScreen(x)
  <2> DEFINE axis == Axis(g.orientation)
             other == OtherAxis(axis)
  <2>1. /\ axis \in Axes /\ other \in Axes
        /\ \A a \in Axes : a = axis \/ a = other
    BY TwoAxes
  <2>2. \A a \in Axes : /\ g.at[a] \in Int /\ g.size[a] \in Nat /\ g.at[a] >= Gap
                        /\ g.at[a] + g.size[a] <= Screen[a] - Gap
                        /\ Screen[a] \in Nat
    BY <1>2, ScreenAssumption DEF OnScreen
  <2>3. /\ x.size[axis] \in Nat /\ x.at[axis] \in Int
        /\ x.at[axis] >= g.at[axis]
        /\ x.at[axis] + x.size[axis] <= g.at[axis] + g.size[axis]
        /\ x.at[other] = g.at[other]
        /\ x.size[other] = g.size[other]
    BY <1>2 DEF Inside
  <2> HIDE DEF axis, other
  <2>4. /\ x.at[axis] \in Int /\ x.size[axis] \in Nat
        /\ x.at[axis] >= Gap
        /\ x.at[axis] + x.size[axis] <= Screen[axis] - Gap
    BY <2>1, <2>2, <2>3, GapAssumption
  <2>5. /\ x.at[other] \in Int /\ x.size[other] \in Nat
        /\ x.at[other] >= Gap
        /\ x.at[other] + x.size[other] <= Screen[other] - Gap
    BY <2>1, <2>2, <2>3
  <2> QED BY <2>1, <2>4, <2>5 DEF OnScreen
<1> QED BY <1>1, <1>2

\* Nothing is to be applied to the layout.
Rests(L) ==
  /\ ~ChangesMade(L)
  /\ \A k \in 1 .. Len(L.children) : IsStack(L.children[k]) => ~ChangesMade(L.children[k])

\* Then the windows are on the screen, and apart.
LEMMA PlacesApart ==
  ASSUME NEW L, Shaped(L), Spaced(L), Rests(L)
  PROVE  /\ \A node \in NodesOf(L) : ~node.fresh /\ OnScreen(node)
         /\ InOrder(WindowNodes(L))
<1> DEFINE c == L.children
           s == c[2].children
<1>1. Framed(L) /\ Sound(L) /\ ~ChangesMade(L)
  BY FramedIs DEF Spaced, Rests
<1>2. \A k \in 1 .. Len(c) : ~c[k].fresh /\ Inside(L, c[k])
  <2>1. \A k \in 1 .. Len(c) : ~c[k].fresh
    BY <1>1, NoneFresh
  <2> QED BY <1>1, <2>1 DEF Sound, Laid
<1>3. Len(c) = 2 => Apart("Horizontal", c[1], c[2])
  <2>1. ~Reversed(L.orientation) /\ Axis(L.orientation) = "Horizontal"
    BY DEF Shaped, Reversed, Axis
  <2>2. Len(c) = 2 => 1 \in 1 .. Len(c) /\ 2 \in 1 .. Len(c) /\ 1 < 2
    OBVIOUS
  <2> QED BY <1>1, <1>2, <2>1, <2>2 DEF Sound, Laid
<1>4. /\ Len(c) = 0 \/ Len(c) = 1 \/ Len(c) = 2
      /\ Len(c) >= 1 => IsFirst(c[1])
      /\ Len(c) = 2 => IsStack(c[2])
  BY ShapedIs DEF Shaped
<1>5. ASSUME Len(c) = 2
      PROVE  /\ IsList(s) /\ Len(s) \in Nat /\ \A k \in 1 .. Len(s) : IsWindow(s[k])
             /\ \A k \in 1 .. Len(s) : ~s[k].fresh /\ Inside(c[2], s[k])
             /\ \A j, k \in 1 .. Len(s) : j < k => Apart("Vertical", s[j], s[k])
             /\ \A k \in 1 .. Len(s) : s[k].at["Horizontal"] = c[2].at["Horizontal"]
  <2> DEFINE x == c[2]
  <2>1. IsStack(x) /\ Sound(x) /\ ~ChangesMade(x) /\ Framed(x)
    <3>1. 2 \in 1 .. Len(c) /\ IsStack(x)
      BY <1>4, <1>5
    <3> QED BY <3>1, FramedIs DEF Spaced, SoundStack, Rests
  <2>2. ~Reversed(x.orientation) /\ Axis(x.orientation) = "Vertical"
    BY <2>1 DEF IsStack, Reversed, Axis
  <2>3. \A k \in 1 .. Len(s) : ~s[k].fresh
    BY <2>1, NoneFresh
  <2>4. \A k \in 1 .. Len(s) : Inside(x, s[k])
    BY <2>1, <2>3 DEF Sound, Laid
  <2>5. \A j, k \in 1 .. Len(s) : j < k => Apart("Vertical", s[j], s[k])
    BY <2>1, <2>2, <2>3 DEF Sound, Laid
  <2>6. \A k \in 1 .. Len(s) : s[k].at["Horizontal"] = x.at["Horizontal"]
    BY <2>2, <2>4 DEF Inside, OtherAxis
  <2>7. IsList(s) /\ Len(s) \in Nat
    BY <2>1, StackIs
  <2>8. \A k \in 1 .. Len(s) : IsWindow(s[k])
    BY <2>1 DEF IsStack
  <2> QED BY <2>3, <2>4, <2>5, <2>6, <2>7, <2>8
<1>6. ASSUME NEW node \in NodesOf(L) PROVE ~node.fresh /\ OnScreen(node)
  <2>1. \/ Len(c) >= 1 /\ node = c[1]
        \/ Len(c) = 2 /\ \E j \in 1 .. Len(s) : node = s[j]
    BY <1>6, NodesAre
  <2> HIDE DEF c, s
  <2>2. CASE Len(c) >= 1 /\ node = c[1]
    <3>1. 1 \in 1 .. Len(c)
      BY <1>4, <2>2
    <3> QED BY <1>2, <2>2, <3>1, InsideIs
  <2>3. CASE Len(c) = 2 /\ \E j \in 1 .. Len(s) : node = s[j]
    <3>1. 2 \in 1 .. Len(c)
      BY <2>3
    <3>2. OnScreen(c[2])
      BY <1>2, <3>1, InsideIs
    <3> QED BY <1>5, <2>3, <3>2, InsideIs
  <2> QED BY <2>1, <2>2, <2>3
<1>7. InOrder(WindowNodes(L))
  <2> DEFINE N == WindowNodes(L)
             front == NodesIn(c[1])
  <2>1. /\ Len(c) = 0 => N = <<>>
        /\ Len(c) = 1 => N = front
        /\ Len(c) = 2 => N = front \o NodesIn(c[2])
    BY WindowNodesAre
  <2>2. Len(c) >= 1 => front = <<c[1]>> \/ front = <<>>
    BY <1>4 DEF IsFirst, IsStack, IsWindow, NodesIn
  <2>3. Len(c) = 2 => NodesIn(c[2]) = s
    BY <1>4 DEF IsStack, NodesIn
  <2> HIDE DEF c, s, N, front
  <2>4. CASE Len(c) # 2
    <3>1. Len(N) = 0 \/ Len(N) = 1
      BY <1>4, <2>1, <2>2, <2>4
    <3> HIDE DEF N
    <3>2. \A n : n = 0 \/ n = 1 => \A j, k \in 1 .. n : ~(j < k)
      OBVIOUS
    <3>3. \A j, k \in 1 .. Len(N) : ~(j < k)
      BY <3>1, <3>2
    <3> QED BY <3>3 DEF InOrder, N
  <2>5. CASE Len(c) = 2
    <3>0. IsList(<<c[1]>>) /\ IsList(<<>>)
      BY ShortLists
    <3>1. /\ N = front \o s /\ IsList(s) /\ IsList(front)
          /\ front = <<c[1]>> \/ front = <<>>
      <4>1. Len(c) >= 1
        BY <2>5
      <4> QED BY <1>5, <2>1, <2>2, <2>3, <2>5, <3>0, <4>1
    <3>2. /\ Len(N) = Len(front) + Len(s)
          /\ \A k \in 1 .. Len(front) : N[k] = front[k]
          /\ \A k \in 1 .. Len(s) : N[Len(front) + k] = s[k]
      BY <3>1, JoinedIs
    <3>3. ASSUME NEW j \in 1 .. Len(N), NEW k \in 1 .. Len(N), j < k
          PROVE  \E axis \in Axes : Apart(axis, N[j], N[k])
      <4>1. CASE front = <<>>
        <5>1. Len(front) = 0
          BY <4>1
        <5>2. j \in 1 .. Len(s) /\ k \in 1 .. Len(s) /\ 0 + j = j /\ 0 + k = k
          BY <1>5, <2>5, <3>2, <5>1
        <5>3. N[j] = s[j] /\ N[k] = s[k]
          BY <3>2, <5>1, <5>2
        <5> QED BY <1>5, <2>5, <3>3, <5>2, <5>3 DEF Axes
      <4>2. CASE front = <<c[1]>>
        <5>1. Len(front) = 1 /\ front[1] = c[1]
          BY <4>2
        <5>2. k - 1 \in 1 .. Len(s) /\ 1 + (k - 1) = k
          BY <1>5, <2>5, <3>2, <3>3, <5>1
        <5>3. N[k] = s[k - 1]
          BY <3>2, <5>1, <5>2
        <5>4. CASE j = 1
          <6>1. N[j] = c[1]
            BY <3>2, <5>1, <5>4
          <6>2. N[k].at["Horizontal"] = c[2].at["Horizontal"]
            BY <1>5, <2>5, <5>2, <5>3
          <6>3. Apart("Horizontal", N[j], N[k])
            BY <1>3, <2>5, <6>1, <6>2 DEF Apart
          <6> QED BY <6>3 DEF Axes
        <5>5. CASE j # 1
          <6>1. j - 1 \in 1 .. Len(s) /\ 1 + (j - 1) = j /\ j - 1 < k - 1
            BY <1>5, <2>5, <3>2, <3>3, <5>1, <5>5
          <6>2. N[j] = s[j - 1]
            BY <3>2, <5>1, <6>1
          <6> QED BY <1>5, <2>5, <5>2, <5>3, <6>1, <6>2 DEF Axes
        <5> QED BY <5>4, <5>5
      <4> QED BY <3>1, <4>1, <4>2
    <3> QED BY <3>3 DEF InOrder, N
  <2> QED BY <2>4, <2>5
<1> QED BY <1>6, <1>7

\* A layout that is new.
LEMMA NewLayoutSpaced ==
  Spaced(NewLayout) /\ NodesOf(NewLayout) = {} /\ ~ChangesMade(NewLayout)
<1> DEFINE L == NewLayout
           size == [axis \in Axes |-> Screen[axis] - 2 * Gap]
<1>1. Both(Gap) \in [Axes -> Int] /\ size \in [Axes -> Nat]
  BY GapAssumption, ScreenAssumption DEF Both
<1>2. L = GroupOf("LeftToRight", Both(Gap), size)
  BY DEF NewLayout
<1>3. Sound(L)
  BY <1>1, <1>2, EmptySound
<1>4. /\ L.at = Both(Gap) /\ L.size = size /\ L.children = <<>> /\ L.removed = 0
      /\ ~ChangesMade(L)
  BY <1>2 DEF GroupOf, ChangesMade, Unchanged
<1>5. Shaped(L)
  BY NewLayoutIs
<1> HIDE DEF L, size
<1>6. Len(L.children) = 0
  BY <1>4
<1>7. \A node : node \notin NodesOf(L)
  BY <1>5, <1>6, NodesAre
<1> QED BY <1>3, <1>4, <1>6, <1>7 DEF Spaced, L, size

-----------------------------------------------------------------------------
(* The same of the state of AquariWM, and what is told of its windows.     *)

\* What a call on AquariWM may do to the layout.
Moves(L, M) == Spaced(M) /\ Stay(L, M) /\ MainStays(L, M) /\ Lasts(L, M)

\* add_window, remove_window, map_window and unmap_window.
LEMMA CallsMove ==
  ASSUME NEW wm, Good(wm), Spaced(wm.layout), NEW w
  PROVE  /\ \A mapped : Moves(wm.layout, AddWindow(wm, w, mapped).layout)
         /\ Moves(wm.layout, RemoveWindow(wm, w).layout)
         /\ Moves(wm.layout, MapWindow(wm, w).layout)
         /\ Moves(wm.layout, UnmapWindow(wm, w).layout)
<1> DEFINE L == wm.layout
           A == AddToLayout(L, w)
           R == RemoveFromLayout(L, w)
           grown == [wm EXCEPT !.layout = A]
           less == [wm EXCEPT !.layout = R]
<1>1. Shaped(L) /\ DOMAIN wm = {"layout", "windows"} /\ IsInjective(HeldIn(L))
  BY TiledIs DEF Good
<1>2. Moves(L, A)
  BY <1>1, AddedSpaced DEF Moves
<1>3. Moves(L, R)
  BY <1>1, RemovedSpaced DEF Moves
<1>4. Moves(L, L)
  BY StaysSame DEF Moves
<1> HIDE DEF A, R, L
<1>5. /\ DOMAIN grown = {"layout", "windows"} /\ grown.layout = A
      /\ DOMAIN less = {"layout", "windows"} /\ less.layout = R
  BY <1>1
<1> HIDE DEF grown, less
<1>6. ASSUME NEW state, DOMAIN state = {"layout", "windows"}, NEW m
      PROVE  Track(state, w, m).layout = state.layout
  BY <1>6, TrackIs
<1>7. ASSUME NEW m PROVE Moves(L, AddWindow(wm, w, m).layout)
  <2>1. AddWindow(wm, w, m) = Track(IF m = "Mapped" THEN grown ELSE wm, w, m)
    BY DEF AddWindow, grown, A, L
  <2> QED BY <1>1, <1>2, <1>4, <1>5, <1>6, <2>1 DEF L
<1>8. Moves(L, RemoveWindow(wm, w).layout)
  <2>1. RemoveWindow(wm, w).layout = R \/ RemoveWindow(wm, w).layout = L
    BY DEF RemoveWindow, R, L
  <2> QED BY <1>3, <1>4, <2>1
<1>9. Moves(L, MapWindow(wm, w).layout)
  <2>1. MapWindow(wm, w) = Track(IF wm.windows[w] = "Unmapped" THEN grown ELSE wm, w, "Mapped")
    BY DEF MapWindow, grown, A, L
  <2> QED BY <1>1, <1>2, <1>4, <1>5, <1>6, <2>1 DEF L
<1>10. Moves(L, UnmapWindow(wm, w).layout)
  <2>1. UnmapWindow(wm, w) = Track(IF wm.windows[w] = "Mapped" THEN less ELSE wm, w, "Unmapped")
    BY DEF UnmapWindow, less, R, L
  <2> QED BY <1>1, <1>3, <1>4, <1>5, <1>6, <2>1 DEF L
<1> QED BY <1>7, <1>8, <1>9, <1>10 DEF L

\* The nodes are those of the windows of the layout, one for each.
LEMMA HeldNodes ==
  ASSUME NEW L, Shaped(L)
  PROVE  /\ \A node \in NodesOf(L) : node.window \in ToSet(HeldIn(L))
         /\ \A w \in ToSet(HeldIn(L)) : \E node \in NodesOf(L) : node.window = w
         /\ IsInjective(HeldIn(L)) =>
              \A x, y \in NodesOf(L) : x.window = y.window => x = y
<1> DEFINE N == WindowNodes(L)
<1>1. IsList(N)
  BY HeldIs
<1> HIDE DEF N
<1>2. Len(N) \in Nat /\ DOMAIN N = 1 .. Len(N)
  BY <1>1 DEF IsList
<1>3. ToSet(N) = {N[k] : k \in 1 .. Len(N)}
  BY <1>2 DEF ToSet
<1>4. /\ ToSet(Names(N)) = {N[k].window : k \in 1 .. Len(N)}
      /\ IsInjective(Names(N)) =>
           \A j, k \in 1 .. Len(N) : N[j].window = N[k].window => j = k
  BY <1>2 DEF Names, ToSet, IsInjective
<1> QED BY <1>3, <1>4 DEF HeldIn, NodesOf, N

\* What is forgotten when windows leave is not of the nodes that stay.
LEMMA StayKnown ==
  ASSUME NEW L, NEW M, Shaped(M), Stay(L, M), NEW t, Known(NodesOf(L), t)
  PROVE  Known(NodesOf(M), [w \in DOMAIN t \cap ToSet(HeldIn(M)) |-> t[w]])
  BY HeldNodes DEF Stay, Known

\* What is told when changes are applied.
LEMMA TellKnown ==
  ASSUME NEW L, NEW M, Shaped(M), IsInjective(HeldIn(M)), NEW nodes, Telling(L, M, nodes),
         NEW t, Known(NodesOf(L), t),
         NEW reached, reached = {node.window : node \in nodes},
         NEW u, u = [w \in DOMAIN t \cup reached |->
                       IF w \in reached THEN Place(CHOOSE node \in nodes : node.window = w)
                                        ELSE t[w]]
  PROVE  Known(NodesOf(M), u)
<1>1. \A x, y \in NodesOf(M) : x.window = y.window => x = y
  BY HeldNodes
<1>2. ASSUME NEW node \in NodesOf(M)
      PROVE  node.window \in DOMAIN u /\ u[node.window] = Place(node)
  <2> DEFINE w == node.window
             other == CHOOSE x \in nodes : x.window = w
  <2>1. CASE w \in reached
    <3>1. \E x \in nodes : x.window = w
      BY <2>1
    <3>2. other \in nodes /\ other.window = w
      BY <3>1
    <3>3. other = node
      BY <1>1, <3>2 DEF Telling
    <3> HIDE DEF other
    <3>4. w \in DOMAIN u /\ u[w] = Place(other)
      BY <2>1 DEF other
    <3> QED BY <3>3, <3>4
  <2>2. CASE w \notin reached
    <3>1. node \notin nodes
      BY <2>2
    <3>2. PICK x \in NodesOf(L) : Stayed(x, node)
      BY <3>1 DEF Telling
    <3>3. w \in DOMAIN t /\ t[w] = Place(node)
      BY <3>2 DEF Known, Stayed, Place
    <3> QED BY <2>2, <3>3
  <2> QED BY <2>1, <2>2
<1> QED BY <1>2 DEF Known

\* A layout whose nodes are all new: additions to it are changes to make.
LEMMA AllFreshIs ==
  ASSUME NEW L, Shaped(L), Spaced(L), AllFresh(L)
  PROVE  /\ \A node \in NodesOf(L) : node.fresh
         /\ NodesOf(L) # {} => ChangesMade(L)
         /\ \A w : AllFresh(AddToLayout(L, w))
<1> DEFINE c == L.children
<1>1. /\ Len(c) = 0 \/ Len(c) = 1 \/ Len(c) = 2
      /\ Len(c) = 2 => IsStack(c[2])
      /\ c \in Seq(ToSet(c)) /\ DOMAIN c = 1 .. Len(c)
  BY ShapedIs DEF Shaped
<1>2. \A node \in NodesOf(L) : \/ Len(c) >= 1 /\ node = c[1]
                               \/ Len(c) = 2 /\ \E j \in 1 .. Len(c[2].children) : node = c[2].children[j]
  BY NodesAre
<1>3. \A k \in 1 .. Len(c) : c[k].fresh
  BY DEF AllFresh
<1>4. Len(c) = 2 => SoundStack(c[2])
  <2>1. Len(c) = 2 => 2 \in 1 .. Len(c)
    OBVIOUS
  <2> QED BY <1>1, <2>1 DEF Spaced
<1>5. ChangesMade(L) <=> \E k \in 1 .. Len(c) : c[k].fresh
  BY RootChanges
<1>6. ASSUME NEW w PROVE AllFresh(AddToLayout(L, w))
  BY AddedSpaced DEF Lasts
<1> HIDE DEF c
<1>7. \A node \in NodesOf(L) : node.fresh
  <2>1. /\ Len(c) >= 1 => c[1].fresh
        /\ Len(c) = 2 => c[2].fresh
    BY <1>1, <1>3
  <2> QED BY <1>2, <1>4, <2>1 DEF SoundStack
<1>8. NodesOf(L) # {} => ChangesMade(L)
  <2>1. NodesOf(L) # {} => Len(c) >= 1
    BY <1>1, <1>2
  <2>2. Len(c) >= 1 => 1 \in 1 .. Len(c)
    BY <1>1
  <2> QED BY <1>3, <1>5, <2>1, <2>2
<1> QED BY <1>6, <1>7, <1>8

-----------------------------------------------------------------------------
(* A screen that has room for the windows there are: no changes panic.     *)

\* Two windows side by side, and n of them one below the other.
RoomFor(n) ==
  /\ Screen["Horizontal"] >= 3 * Gap + 2
  /\ Screen["Vertical"] >= (n + 1) * Gap

\* Once something was placed, the root has a total.
Funded(L) == L.total >= 1 \/ AllFresh(L)

\* A window that was placed has a size.
Stout(L) == \A node \in NodesOf(L) : node.fresh \/ \A axis \in Axes : node.size[axis] # 0

\* They stay so through the calls on the manager.
LEMMA LastsIs ==
  ASSUME NEW L, NEW M, Lasts(L, M)
  PROVE  (Funded(L) => Funded(M)) /\ (Stout(L) => Stout(M))
  BY DEF Lasts, Funded, Stout

\* An addition is a node that is new.
LEMMA AdditionIs ==
  ASSUME NEW g, Framed(g), Sound(g), NEW k \in 1 .. Len(g.children)
  PROVE  IsAddition(g, k) <=> g.children[k].fresh
<1>1. Len(g.children) \in Nat
  BY FramedList
<1>2. k - 1 \in 0 .. Len(g.children) - 1 /\ (k - 1) + 1 = k
  BY <1>1
<1>3. k - 1 \in Members(g.additions) <=> g.children[k].fresh
  BY <1>2 DEF Sound, FreshIn
<1> QED BY <1>3 DEF IsAddition, Members

\* Why apply_changes of a sound group would panic: for its gaps, or for a node
\* that was placed without a size.
LEMMA SoundStops ==
  ASSUME NEW g, Framed(g), Sound(g), ApplyPanics(g)
  PROVE  LET axis == Axis(g.orientation)
         IN  \/ g.size[axis] < TotalGap(Len(g.children))
             \/ /\ g.total = g.removed
                /\ \E k \in 1 .. Len(g.children) :
                     ~g.children[k].fresh /\ g.children[k].size[axis] = 0
<1> DEFINE axis == Axis(g.orientation)
           n == Len(g.children)
           side == g.size[axis]
<1>1. NewSide(g) = side /\ n \in Nat
  BY SoundIs
<1>2. /\ g.total \in Int /\ g.removed \in Nat /\ SidesTotal(g) + g.removed <= g.total
      /\ \A k \in 1 .. n : g.children[k].size[axis] \in Nat
  BY DEF Sound, Grounded
<1>3. /\ SidesTotal(g) \in Nat
      /\ \A k \in 1 .. n : Sides(g)[k] \in Nat /\ Sides(g)[k] <= SidesTotal(g)
      /\ \A k \in 1 .. n : Sides(g)[k] = g.children[k].size[axis]
  BY <1>1, <1>2, SidesAre DEF Sides
<1>4. /\ g.total < g.removed \/ side < TotalGap(n)
         \/ (g.total = g.removed /\ \E k \in 1 .. n : ~IsAddition(g, k))
  BY <1>1 DEF ApplyPanics, NewSide
<1> HIDE DEF side, axis
<1>5. ~(g.total < g.removed)
  BY <1>2, <1>3
<1>6. CASE side < TotalGap(n)
  BY <1>6 DEF side, axis
<1>7. ASSUME g.total = g.removed, NEW k \in 1 .. n, ~IsAddition(g, k)
      PROVE  ~g.children[k].fresh /\ g.children[k].size[axis] = 0
  <2>1. SidesTotal(g) = 0
    BY <1>2, <1>3, <1>7
  <2>2. ~g.children[k].fresh
    BY <1>7, AdditionIs
  <2> QED BY <1>3, <2>1, <2>2
<1> QED BY <1>4, <1>5, <1>6, <1>7 DEF axis

\* The gaps of fewer windows are no wider.
LEMMA GapsFit ==
  ASSUME NEW n \in Nat, NEW m \in 0 .. n, NEW s \in Int, s >= (n + 1) * Gap, s >= 2 * Gap
  PROVE  ~(s - 2 * Gap < TotalGap(m))
<1>1. Gap \in Nat
  BY GapAssumption
<1>2. (n + 1) * Gap = n * Gap + Gap
  BY <1>1
<1>3. m * Gap <= n * Gap
  <2>1. (n - m) * Gap \in Nat /\ (n - m) * Gap = n * Gap - m * Gap
    BY <1>1
  <2>2. n * Gap \in Int /\ m * Gap \in Int
    BY <1>1
  <2> QED BY <2>1, <2>2
<1>4. m # 0 => (m - 1) * Gap = m * Gap - Gap
  BY <1>1
<1>5. n * Gap \in Nat /\ m * Gap \in Nat
  BY <1>1
<1>6. CASE m # 0
  BY <1>1, <1>2, <1>3, <1>4, <1>5, <1>6 DEF TotalGap
<1>7. CASE m = 0
  BY <1>1, <1>7 DEF TotalGap
<1> QED BY <1>6, <1>7

\* A layout whose screen has room, and whose windows have sizes, is applied
\* without a panic.
LEMMA NoPanic ==
  ASSUME NEW L, Shaped(L), Spaced(L), Funded(L), Stout(L), NEW n \in Nat, RoomFor(n),
         Len(L.children) = 2 => Len(L.children[2].children) <= n
  PROVE  ~AppliedPanics(L)
<1> DEFINE c == L.children
           a == Arranged(L).children
<1>1. /\ Framed(L) /\ Sound(L) /\ Upright(L) /\ IsList(c)
      /\ L.orientation = "LeftToRight" /\ L.removed = 0
      /\ L.size = [axis \in Axes |-> Screen[axis] - 2 * Gap]
  BY FramedIs, ShapedIs DEF Spaced, Framed, Shaped
<1>2. /\ Axis("LeftToRight") = "Horizontal" /\ Axis("TopToBottom") = "Vertical"
      /\ OtherAxis("Horizontal") = "Vertical"
      /\ "Horizontal" \in Axes /\ "Vertical" \in Axes
  BY DEF Axis, OtherAxis, Axes
<1>3. /\ Gap \in Nat /\ Screen["Horizontal"] \in Nat /\ Screen["Vertical"] \in Nat
      /\ Screen["Vertical"] >= 2 * Gap
  BY <1>2, GapAssumption, ScreenAssumption
<1>4. Len(c) = 0 \/ Len(c) = 1 \/ Len(c) = 2
  BY ShapedIs
<1>5. ~ApplyPanics(L)
  <2> SUFFICES ASSUME ApplyPanics(L) PROVE FALSE
    OBVIOUS
  <2>1. \/ L.size["Horizontal"] < TotalGap(Len(c))
        \/ L.total = L.removed /\ \E k \in 1 .. Len(c) : ~c[k].fresh
    BY <1>1, <1>2, SoundStops
  <2>2. TotalGap(Len(c)) <= Gap
    <3>1. TotalGap(0) = 0 /\ TotalGap(1) = 0 /\ TotalGap(2) = Gap
      BY <1>3 DEF TotalGap
    <3> HIDE DEF c
    <3>2. TotalGap(Len(c)) = 0 \/ TotalGap(Len(c)) = Gap
      BY <1>4, <3>1, Zenon
    <3> QED BY <1>3, <3>2
  <2>3. L.size["Horizontal"] >= Gap + 2
    BY <1>1, <1>2, <1>3 DEF RoomFor
  <2>4. ~(L.size["Horizontal"] < TotalGap(Len(c)))
    <3>1. L.size["Horizontal"] \in Int /\ TotalGap(Len(c)) \in Int
      BY <1>1, <1>2, <1>3, <1>4 DEF TotalGap
    <3> QED BY <1>3, <2>2, <2>3, <3>1
  <2> QED BY <1>1, <2>1, <2>4 DEF Funded, AllFresh
<1>6. ASSUME NEW k \in 1 .. Len(c), a[k].kind = "group", ApplyPanics(a[k])
      PROVE  FALSE
  <2> DEFINE x == c[k]
             y == a[k]
  <2>1. /\ Len(a) = Len(c) /\ Alike(x, y)
        /\ IsWindow(x) \/ IsStack(x)
    BY <1>1, ArrangedIs, ChildrenAre
  <2>2. IsStack(x)
    BY <1>6, <2>1 DEF Alike, IsWindow
  <2>3. IsStack(y) /\ Sound(y) /\ y.children = x.children
    BY <1>5, <2>2, StackArranged
  <2>4. /\ Framed(y) /\ y.orientation = "TopToBottom"
    BY <2>3, FramedIs DEF IsStack
  <2>5. \/ y.size["Vertical"] < TotalGap(Len(x.children))
        \/ \E j \in 1 .. Len(x.children) :
             ~x.children[j].fresh /\ x.children[j].size["Vertical"] = 0
    BY <1>2, <1>6, <2>3, <2>4, SoundStops
  <2>6. y.size["Vertical"] = Screen["Vertical"] - 2 * Gap
    <3>1. /\ Sound(Arranged(L)) /\ SamePlace(L, Arranged(L)) /\ Kept(L, Arranged(L))
          /\ ~a[k].fresh
      BY <1>1, <1>5, ArrangedSound, ArrangedIs
    <3>2. Inside(Arranged(L), y)
      BY <2>1, <3>1 DEF Sound, Laid
    <3>3. y.size["Vertical"] = L.size["Vertical"]
      BY <1>1, <1>2, <3>1, <3>2 DEF Inside, SamePlace, Kept
    <3> QED BY <1>1, <1>2, <3>3
  <2>7. Len(x.children) \in 0 .. n
    <3>1. Len(x.children) \in Nat
      BY <2>2, StackIs
    <3>2. k = 2 /\ Len(c) = 2 => Len(x.children) <= n
      OBVIOUS
    <3>3. k = 1 => Len(x.children) = 0
      <4>1. k = 1 => IsFirst(x)
        BY <1>4, <1>6 DEF Shaped
      <4> QED BY <2>2, <4>1 DEF IsFirst, IsStack, IsWindow
    <3>4. k = 1 \/ (k = 2 /\ Len(c) = 2)
      BY <1>4, <1>6, OneOrTwo, Zenon
    <3> HIDE DEF x, c
    <3> QED BY <3>1, <3>2, <3>3, <3>4
  <2>8. ~(y.size["Vertical"] < TotalGap(Len(x.children)))
    <3> HIDE DEF x, y
    <3>1. Screen["Vertical"] \in Int /\ Screen["Vertical"] >= (n + 1) * Gap
      BY <1>3 DEF RoomFor
    <3>2. \A s \in Int, m \in 0 .. n :
            s >= (n + 1) * Gap /\ s >= 2 * Gap => ~(s - 2 * Gap < TotalGap(m))
      BY GapsFit
    <3>3. ~(Screen["Vertical"] - 2 * Gap < TotalGap(Len(x.children)))
      BY <1>3, <2>7, <3>1, <3>2, Zenon
    <3> QED BY <2>6, <3>3
  <2>9. PICK j \in 1 .. Len(x.children) :
          ~x.children[j].fresh /\ x.children[j].size["Vertical"] = 0
    BY <2>5, <2>8
  <2>10. k = 2 /\ Len(c) = 2
    <3>1. k = 1 => Len(x.children) = 0
      <4>1. k = 1 => IsFirst(x)
        BY <1>4, <1>6 DEF Shaped
      <4> QED BY <2>2, <4>1 DEF IsFirst, IsStack, IsWindow
    <3>2. Len(x.children) # 0
      <4> HIDE DEF x
      <4> QED BY <2>9
    <3> QED BY <1>4, <1>6, <3>1, <3>2
  <2>11. x.children[j] \in NodesOf(L)
    BY <2>9, <2>10, NodesAre
  <2> QED BY <1>2, <2>9, <2>11 DEF Stout
<1>7. DOMAIN a = 1 .. Len(c)
  BY <1>1, ArrangedIs DEF IsList
<1> QED BY <1>5, <1>6, <1>7 DEF AppliedPanics

\* A new node of the root is given a share, and so the root a total.
LEMMA AppliedFunded ==
  ASSUME NEW L, Shaped(L), Spaced(L), Funded(L), NEW n, RoomFor(n), ~AppliedPanics(L)
  PROVE  Funded(Applied(L))
<1> DEFINE c == L.children
           a == Arranged(L)
           M == Applied(L)
<1>1. /\ Framed(L) /\ Sound(L) /\ Upright(L) /\ IsList(c)
      /\ L.orientation = "LeftToRight" /\ L.removed = 0
      /\ L.size = [axis \in Axes |-> Screen[axis] - 2 * Gap]
  BY FramedIs, ShapedIs DEF Spaced, Framed, Shaped
<1>2. Len(M.children) = Len(c) /\ (Len(c) = 0 \/ Len(c) = 1 \/ Len(c) = 2)
  BY AppliedChildren, ShapedIs
<1>3. M.total = a.total
  BY <1>1, ArrangedIs, TotalStays DEF Applied, Kept
<1>4. ~ApplyPanics(L)
  BY DEF AppliedPanics
<1>5. CASE ~ChangesMade(L)
  <2>1. a = L
    BY <1>5 DEF Arranged
  <2>2. AllFresh(L) => Len(c) = 0
    <3>1. \A k \in 1 .. Len(c) : ~c[k].fresh
      BY <1>5, RootChanges
    <3>2. Len(c) # 0 => 1 \in 1 .. Len(c)
      BY <1>2
    <3> QED BY <3>1, <3>2 DEF AllFresh
  <2>3. Len(c) = 0 => AllFresh(M)
    BY <1>2 DEF AllFresh
  <2> QED BY <1>3, <2>1, <2>2, <2>3 DEF Funded
<1>6. CASE ChangesMade(L)
  <2>1. PICK k \in 1 .. Len(c) : c[k].fresh
    BY <1>6, RootChanges
  <2>2. IsAddition(L, k)
    BY <1>1, <2>1, AdditionIs
  <2>3. /\ Measured(L) /\ Sized(L) /\ NewSide(L) = L.size[Axis(L.orientation)]
    BY <1>1, SoundIs
  <2>4. NewSide(L) = Screen["Horizontal"] - 2 * Gap
    BY <1>1, <2>3 DEF Axis, Axes
  <2>5. Lengths(L)[k] = Share(NewSide(L), Len(c))
    BY <2>1, <2>2 DEF Lengths, NewSide
  <2>6. Gap \in Nat /\ Screen["Horizontal"] \in Nat
    BY GapAssumption, ScreenAssumption DEF Axes
  <2>7. Share(NewSide(L), Len(c)) >= 1
    <3>1. Len(c) = 1 \/ Len(c) = 2
      BY <1>2, <2>1
    <3>2. TotalGap(1) = 0 /\ TotalGap(2) = Gap
      BY <2>6 DEF TotalGap
    <3> HIDE DEF c
    <3>3. NewSide(L) \in Int /\ NewSide(L) >= Gap + 2
      BY <2>4, <2>6 DEF RoomFor
    <3>4. CASE Len(c) = 1
      BY <2>6, <3>2, <3>3, <3>4 DEF Share
    <3>5. CASE Len(c) = 2
      BY <2>6, <3>2, <3>3, <3>5 DEF Share
    <3> QED BY <3>1, <3>4, <3>5
  <2>8. Sides(a)[k] = Lengths(L)[k] /\ a.total = SidesTotal(a) /\ Len(a.children) = Len(c)
    BY <1>4, <1>6, <2>3, ArrangedLaid
  <2>9. Sides(a)[k] <= SidesTotal(a) /\ Sides(a)[k] \in Nat /\ SidesTotal(a) \in Nat
    <3>1. Grounded(a)
      BY <1>1, <1>4, ArrangedSound DEF Sound
    <3> QED BY <2>8, <3>1, SidesAre DEF Grounded
  <2>10. M.total >= 1
    <3> HIDE DEF a, M
    <3>1. Sides(a)[k] >= 1
      BY <2>5, <2>7, <2>8
    <3> QED BY <1>3, <2>8, <2>9, <3>1
  <2> QED BY <2>10 DEF Funded
<1> QED BY <1>5, <1>6

=============================================================================
