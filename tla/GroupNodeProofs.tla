-------------------------- MODULE GroupNodeProofs --------------------------
(***************************************************************************)
(* What holds of a group in every run of GroupNode, for every value of its *)
(* constants: the values of its variables, and the list of the additions.  *)
(*                                                                         *)
(* Every operation that adds or removes nodes opens or closes a range of   *)
(* indices in the list of nodes, and in the list of additions.  Lemmas say *)
(* which (Grown, Shrunk); whether `additions` is still right after it is   *)
(* then a question of whether the two ranges are the same.                 *)
(***************************************************************************)
EXTENDS GroupNode, GroupLemmas

\* n new nodes of windows of V were put at i, and tracked as if put at j.
Grown(g, h, i, j, n, V) ==
  /\ h = [g EXCEPT !.children = h.children, !.additions = h.additions]
  /\ h.children \in Seq(Node) /\ NodesOpened(g.children, h.children, i, n, V)
  /\ Len(h.children) = Len(g.children) + n
  /\ FreshIn(h.children) = Opened(FreshIn(g.children), i, n)
  /\ h.additions \in Seq(Int) /\ Increasing(h.additions)
  /\ Members(h.additions) = Opened(Members(g.additions), j, n)

\* The node of index i was taken, and tracked so.
Shrunk(g, h, i) ==
  /\ h = [g EXCEPT !.children = h.children, !.additions = h.additions,
                   !.removed = h.removed]
  /\ h.children \in Seq(Node) /\ NodesClosed(g.children, h.children, i)
  /\ Len(h.children) = Len(g.children) - 1
  /\ FreshIn(h.children) = Closed(FreshIn(g.children), i)
  /\ h.additions \in Seq(Int) /\ Increasing(h.additions)
  /\ Members(h.additions) = Closed(Members(g.additions), i)
  /\ h.removed \in Int

\* The additions are sorted indices of nodes: AdditionsSorted, of any group.
SortedIn(g) ==
  Increasing(g.additions) /\ Members(g.additions) \subseteq 0 .. Len(g.children) - 1

\* They are those of the new nodes: AdditionsAreFresh, of any group.
FreshlyIn(g) ==
  Increasing(g.additions) /\ Members(g.additions) = FreshIn(g.children)

-----------------------------------------------------------------------------
(* Each operation that adds nodes or takes one.                            *)

\* A window node that is about to be added.
LEMMA NodeIs ==
  ASSUME NEW w \in Windows
  PROVE  WindowNode(w) \in Node /\ AllNew(<<WindowNode(w)>>, {w})
<1>1. WindowNode(w) \in Node /\ IsNew(WindowNode(w), {w})
  BY DEF WindowNode, Node, Both, IsNew
<1> QED BY <1>1 DEF AllNew

\* The group with other lists of nodes and of additions.
Relisted(g, c, a) == [g EXCEPT !.children = c, !.additions = a]

\* What makes it a group that has grown.
LEMMA GrownIs ==
  ASSUME NEW g, IsGroup(g), NEW c \in Seq(Node), NEW a \in Seq(Int),
         NEW i, NEW j, NEW n \in Nat, NEW V,
         NodesOpened(g.children, c, i, n, V),
         Increasing(a), Members(a) = Opened(Members(g.additions), j, n)
  PROVE  Grown(g, Relisted(g, c, a), i, j, n, V)
<1> DEFINE h == Relisted(g, c, a)
<1>1. h.children = c /\ h.additions = a
  BY DEF Relisted, IsGroup
<1>2. FreshIn(c) = Opened(FreshIn(g.children), i, n)
  BY FreshOpened DEF IsGroup
<1>3. Len(c) = Len(g.children) + n
  BY DEF NodesOpened
<1> HIDE DEF h
<1>4. h = [g EXCEPT !.children = h.children, !.additions = h.additions]
  BY <1>1 DEF h, Relisted
<1> QED BY <1>1, <1>2, <1>3, <1>4 DEF Grown, h

\* push_node_back of an upright group, push_node_front of a reversed one.
LEMMA PushLastGrows ==
  ASSUME NEW g, IsGroup(g), SortedIn(g), NEW node \in Node, NEW V, AllNew(<<node>>, V)
  PROVE  Grown(g, PushLast(g, node), Len(g.children), Len(g.children), 1, V)
<1> DEFINE c == g.children
           s == g.additions
<1>1. c \in Seq(Node) /\ s \in Seq(Int) /\ Len(c) \in Nat /\ <<node>> \in Seq(Node)
  BY DEF IsGroup
<1>2. Increasing(s) /\ Members(s) \subseteq 0 .. Len(c) - 1
  BY DEF SortedIn
<1>3. PushLast(g, node) = Relisted(g, c \o <<node>>, s \o Run(Len(c), 1))
  <2>1. Run(Len(c), 1) = <<Len(c)>> /\ (Len(c) + 1) - 1 = Len(c)
    BY <1>1 DEF Run
  <2>2. Append(c, node) = c \o <<node>> /\ Append(s, Len(c)) = s \o <<Len(c)>>
    BY <1>1, AppendIsConcat
  <2> QED BY <2>1, <2>2 DEF PushLast, Relisted, TrackPushBack
<1> HIDE DEF c, s
<1>4. c \o <<node>> \in Seq(Node) /\ NodesOpened(c, c \o <<node>>, Len(c), 1, V)
  <2>1. Len(<<node>>) = 1
    OBVIOUS
  <2> QED BY <1>1, <2>1, AppendedAre
<1>5. /\ s \o Run(Len(c), 1) \in Seq(Int)
      /\ Increasing(s \o Run(Len(c), 1))
      /\ Members(s \o Run(Len(c), 1)) = Opened(Members(s), Len(c), 1)
  BY <1>1, <1>2, TrackedBack
<1> QED BY <1>3, <1>4, <1>5, GrownIs DEF c, s

\* push_node_front of an upright group, push_node_back of a reversed one.
LEMMA PushFirstGrows ==
  ASSUME NEW g, IsGroup(g), SortedIn(g), NEW node \in Node, NEW V, AllNew(<<node>>, V)
  PROVE  Grown(g, PushFirst(g, node), 0, 0, 1, V)
<1> DEFINE c == g.children
           s == g.additions
<1>1. c \in Seq(Node) /\ s \in Seq(Int) /\ Len(c) \in Nat /\ <<node>> \in Seq(Node)
  BY DEF IsGroup
<1>2. Increasing(s) /\ Members(s) \subseteq Nat
  BY <1>1 DEF SortedIn
<1>3. PushFirst(g, node) = Relisted(g, <<node>> \o c, Run(0, 1) \o ShiftFrom(s, 1, 1))
  <2>1. Run(0, 1) = <<0>>
    BY DEF Run
  <2> QED BY <2>1 DEF PushFirst, Relisted, TrackPushFront
<1> HIDE DEF c, s
<1>4. <<node>> \o c \in Seq(Node) /\ NodesOpened(c, <<node>> \o c, 0, 1, V)
  <2>1. Len(<<node>>) = 1
    OBVIOUS
  <2> QED BY <1>1, <2>1, PrependedAre
<1>5. /\ Run(0, 1) \o ShiftFrom(s, 1, 1) \in Seq(Int)
      /\ Increasing(Run(0, 1) \o ShiftFrom(s, 1, 1))
      /\ Members(Run(0, 1) \o ShiftFrom(s, 1, 1)) = Opened(Members(s), 0, 1)
  BY <1>1, <1>2, TrackedFront
<1> QED BY <1>3, <1>4, <1>5, GrownIs DEF c, s

\* push_nodes_back.
LEMMA PushNodesBackGrows ==
  ASSUME NEW g, IsGroup(g), SortedIn(g), NEW nodes \in Seq(Node), NEW V, AllNew(nodes, V)
  PROVE  \E i \in {0, Len(g.children)} :
           /\ Grown(g, PushNodesBack(g, nodes), i, Len(g.children), Len(nodes), V)
           /\ ~Reversed(OrientationOf(g)) => i = Len(g.children)
<1> DEFINE c == g.children
           s == g.additions
           n == Len(nodes)
<1>1. c \in Seq(Node) /\ s \in Seq(Int) /\ Len(c) \in Nat /\ n \in Nat
  BY DEF IsGroup
<1>2. Increasing(s) /\ Members(s) \subseteq 0 .. Len(c) - 1
  BY DEF SortedIn
<1>3. PushNodesBack(g, nodes) =
        Relisted(g, IF Reversed(OrientationOf(g)) THEN Reverse(nodes) \o c ELSE c \o nodes,
                 s \o Run(Len(c), n))
  BY DEF PushNodesBack, Relisted
<1>4. Reverse(nodes) \in Seq(Node) /\ Len(Reverse(nodes)) = n /\ AllNew(Reverse(nodes), V)
  BY ReversedAre
<1> HIDE DEF c, s, n
<1>5. /\ s \o Run(Len(c), n) \in Seq(Int)
      /\ Increasing(s \o Run(Len(c), n))
      /\ Members(s \o Run(Len(c), n)) = Opened(Members(s), Len(c), n)
  BY <1>1, <1>2, TrackedBack
<1>6. CASE Reversed(OrientationOf(g))
  <2>1. Reverse(nodes) \o c \in Seq(Node) /\ NodesOpened(c, Reverse(nodes) \o c, 0, n, V)
    BY <1>1, <1>4, PrependedAre
  <2> QED BY <1>1, <1>3, <1>5, <1>6, <2>1, GrownIs DEF c, s, n
<1>7. CASE ~Reversed(OrientationOf(g))
  <2>1. c \o nodes \in Seq(Node) /\ NodesOpened(c, c \o nodes, Len(c), n, V)
    BY <1>1, AppendedAre DEF n
  <2> QED BY <1>1, <1>3, <1>5, <1>7, <2>1, GrownIs DEF c, s, n
<1> QED BY <1>6, <1>7

\* push_nodes_front.
LEMMA PushNodesFrontGrows ==
  ASSUME NEW g, IsGroup(g), SortedIn(g), NEW nodes \in Seq(Node), NEW V, AllNew(nodes, V)
  PROVE  \E i \in {0, Len(g.children)} :
           /\ Grown(g, PushNodesFront(g, nodes), i, 0, Len(nodes), V)
           /\ ~Reversed(OrientationOf(g)) => i = 0
<1> DEFINE c == g.children
           s == g.additions
           n == Len(nodes)
<1>1. c \in Seq(Node) /\ s \in Seq(Int) /\ Len(c) \in Nat /\ n \in Nat
  BY DEF IsGroup
<1>2. Increasing(s) /\ Members(s) \subseteq Nat
  BY <1>1 DEF SortedIn
<1>3. PushNodesFront(g, nodes) =
        Relisted(g, IF Reversed(OrientationOf(g)) THEN c \o nodes ELSE Reverse(nodes) \o c,
                 Run(0, n) \o ShiftFrom(s, 1, n))
  BY DEF PushNodesFront, Relisted
<1>4. Reverse(nodes) \in Seq(Node) /\ Len(Reverse(nodes)) = n /\ AllNew(Reverse(nodes), V)
  BY ReversedAre
<1> HIDE DEF c, s, n
<1>5. /\ Run(0, n) \o ShiftFrom(s, 1, n) \in Seq(Int)
      /\ Increasing(Run(0, n) \o ShiftFrom(s, 1, n))
      /\ Members(Run(0, n) \o ShiftFrom(s, 1, n)) = Opened(Members(s), 0, n)
  BY <1>1, <1>2, TrackedFront
<1>6. CASE Reversed(OrientationOf(g))
  <2>1. c \o nodes \in Seq(Node) /\ NodesOpened(c, c \o nodes, Len(c), n, V)
    BY <1>1, AppendedAre DEF n
  <2> QED BY <1>1, <1>3, <1>5, <1>6, <2>1, GrownIs DEF c, s, n
<1>7. CASE ~Reversed(OrientationOf(g))
  <2>1. Reverse(nodes) \o c \in Seq(Node) /\ NodesOpened(c, Reverse(nodes) \o c, 0, n, V)
    BY <1>1, <1>4, PrependedAre
  <2> QED BY <1>1, <1>3, <1>5, <1>7, <2>1, GrownIs DEF c, s, n
<1> QED BY <1>6, <1>7

\* insert_nodes, whichever way the group is.
LEMMA InsertNodesGrows ==
  ASSUME NEW g, IsGroup(g), SortedIn(g), NEW nodes \in Seq(Node), NEW V, AllNew(nodes, V),
         NEW i \in 0 .. Len(g.children), ~InsertPanics(g, i)
  PROVE  \E slot \in 0 .. Len(g.children) :
           Grown(g, InsertNodes(g, i, nodes), slot, slot, Len(nodes), V)
<1> DEFINE c == g.children
           s == g.additions
           n == Len(nodes)
           slot == Slot(OrientationOf(g), Len(c), i)
           new == IF Reversed(OrientationOf(g)) THEN Reverse(nodes) ELSE nodes
<1>1. c \in Seq(Node) /\ s \in Seq(Int) /\ Len(c) \in Nat /\ n \in Nat
  BY DEF IsGroup
<1>2. Increasing(s)
  BY DEF SortedIn
<1>3. InsertNodes(g, i, nodes) = Relisted(g, Splice(c, slot, new), TrackInsert(s, slot, n))
  BY DEF InsertNodes, Relisted
<1>4. new \in Seq(Node) /\ Len(new) = n /\ AllNew(new, V)
  BY ReversedAre
<1>5. slot \in 0 .. Len(c) /\ slot \in Int
  BY <1>1 DEF Slot, InsertPanics
<1> HIDE DEF c, s, n, slot, new
<1>6. Splice(c, slot, new) \in Seq(Node) /\ NodesOpened(c, Splice(c, slot, new), slot, n, V)
  BY <1>1, <1>4, <1>5, SplicedAre
<1>7. /\ TrackInsert(s, slot, n) \in Seq(Int)
      /\ Increasing(TrackInsert(s, slot, n))
      /\ Members(TrackInsert(s, slot, n)) = Opened(Members(s), slot, n)
  BY <1>1, <1>2, <1>5, TrackInsertIs
<1>8. Grown(g, InsertNodes(g, i, nodes), slot, slot, n, V)
  BY <1>1, <1>3, <1>6, <1>7, GrownIs DEF c, s
<1> QED BY <1>5, <1>8 DEF c, n

\* What makes a group one that has lost a node.
LEMMA ShrunkIs ==
  ASSUME NEW g, IsGroup(g), NEW h, NEW c \in Seq(Node), NEW a \in Seq(Int), NEW r \in Int,
         h = [g EXCEPT !.children = c, !.additions = a, !.removed = r],
         NEW i, NodesClosed(g.children, c, i),
         Increasing(a), Members(a) = Closed(Members(g.additions), i)
  PROVE  Shrunk(g, h, i)
<1>1. h.children = c /\ h.additions = a /\ h.removed = r
  BY DEF IsGroup
<1>2. FreshIn(c) = Closed(FreshIn(g.children), i)
  BY FreshClosed DEF IsGroup
<1>3. Len(c) = Len(g.children) - 1
  BY DEF NodesClosed
<1>4. h = [g EXCEPT !.children = h.children, !.additions = h.additions, !.removed = h.removed]
  BY <1>1
<1> QED BY <1>1, <1>2, <1>3, <1>4 DEF Shrunk

\* remove.
LEMMA RemoveNodeShrinks ==
  ASSUME NEW g, IsGroup(g), SortedIn(g), NEW i \in 0 .. Len(g.children) - 1
  PROVE  LET slot == Slot(g.orientation, Len(g.children), i)
             h    == RemoveNode(g, i)
         IN  /\ slot \in 0 .. Len(g.children) - 1
             /\ Shrunk(g, h, slot)
             /\ h.removed = g.removed + g.children[slot + 1].size[Axis(g.orientation)]
<1> DEFINE c == g.children
           s == g.additions
           slot == Slot(g.orientation, Len(c), i)
           r == g.removed + c[slot + 1].size[Axis(g.orientation)]
           h == RemoveNode(g, i)
<1>1. c \in Seq(Node) /\ s \in Seq(Int) /\ Len(c) \in Nat /\ Increasing(s)
  BY DEF IsGroup, SortedIn
<1>2. slot \in 0 .. Len(c) - 1 /\ slot \in Int /\ slot + 1 \in 1 .. Len(c)
  BY <1>1 DEF Slot
<1>3. r \in Int
  <2>1. c[slot + 1] \in Node
    BY <1>1, <1>2
  <2>2. Axis(g.orientation) \in Axes /\ g.removed \in Int
    BY DEF Axis, Axes, IsGroup
  <2>3. c[slot + 1].size[Axis(g.orientation)] \in Int
    BY <2>1, <2>2 DEF Node
  <2> QED BY <2>2, <2>3
<1>4. h = [g EXCEPT !.children = RemoveAt(c, slot + 1), !.additions = TrackRemove(s, slot),
                    !.removed = r]
  BY DEF RemoveNode
<1> HIDE DEF c, s, slot, r, h
<1>5. RemoveAt(c, slot + 1) \in Seq(Node) /\ NodesClosed(c, RemoveAt(c, slot + 1), slot)
  BY <1>1, <1>2, TakenAre
<1>6. /\ TrackRemove(s, slot) \in Seq(Int)
      /\ Increasing(TrackRemove(s, slot))
      /\ Members(TrackRemove(s, slot)) = Closed(Members(s), slot)
  BY <1>1, <1>2, TrackRemoveIs
<1>7. Shrunk(g, h, slot)
  BY <1>3, <1>4, <1>5, <1>6, ShrunkIs DEF c, s
<1>8. h.removed = r
  BY <1>4 DEF IsGroup
<1> QED BY <1>2, <1>7, <1>8 DEF c, h, r, slot

\* pop_back of an upright group, pop_front of a reversed one.
LEMMA PopLastShrinks ==
  ASSUME NEW g, IsGroup(g), SortedIn(g), g.children # <<>>
  PROVE  Shrunk(g, PopLast(g), Len(g.children) - 1) /\ PopLast(g).removed = g.removed
<1> DEFINE c == g.children
           s == g.additions
           last == Len(c) - 1
<1>1. c \in Seq(Node) /\ s \in Seq(Int) /\ Increasing(s) /\ g.removed \in Int
  BY DEF IsGroup, SortedIn
<1>2. last \in Nat /\ last \in 0 .. Len(c) - 1
  BY <1>1
<1>3. Members(s) \subseteq 0 .. last
  BY DEF SortedIn
<1>4. PopLast(g) = [g EXCEPT !.children = SubSeq(c, 1, Len(c) - 1),
                             !.additions = TrackPopBack(s, last), !.removed = g.removed]
  BY DEF PopLast, IsGroup
<1> HIDE DEF c, s
<1>5. SubSeq(c, 1, Len(c) - 1) \in Seq(Node) /\ NodesClosed(c, SubSeq(c, 1, Len(c) - 1), last)
  BY <1>1, <1>2, TakenAre
<1> HIDE DEF last
<1>6. /\ TrackPopBack(s, last) \in Seq(Int)
      /\ Increasing(TrackPopBack(s, last))
      /\ Members(TrackPopBack(s, last)) = Closed(Members(s), last)
  BY <1>1, <1>2, <1>3, TrackPopBackIs
<1>7. Shrunk(g, PopLast(g), last)
  BY <1>1, <1>4, <1>5, <1>6, ShrunkIs DEF c, s
<1>8. PopLast(g).removed = g.removed
  BY <1>4 DEF IsGroup
<1> QED BY <1>7, <1>8 DEF c, last

\* pop_front of an upright group, pop_back of a reversed one.
LEMMA PopFirstShrinks ==
  ASSUME NEW g, IsGroup(g), SortedIn(g), g.children # <<>>
  PROVE  Shrunk(g, PopFirst(g), 0) /\ PopFirst(g).removed = g.removed
<1> DEFINE c == g.children
           s == g.additions
<1>1. c \in Seq(Node) /\ s \in Seq(Int) /\ Increasing(s) /\ g.removed \in Int
  BY DEF IsGroup, SortedIn
<1>2. 0 \in 0 .. Len(c) - 1
  BY <1>1
<1>3. Members(s) \subseteq Nat
  BY <1>1 DEF SortedIn
<1>4. PopFirst(g) = [g EXCEPT !.children = Tail(c),
                              !.additions = TrackPopFront(s), !.removed = g.removed]
  BY DEF PopFirst, IsGroup
<1> HIDE DEF c, s
<1>5. Tail(c) \in Seq(Node) /\ NodesClosed(c, Tail(c), 0)
  BY <1>1, <1>2, TakenAre
<1>6. /\ TrackPopFront(s) \in Seq(Int)
      /\ Increasing(TrackPopFront(s))
      /\ Members(TrackPopFront(s)) = Closed(Members(s), 0)
  BY <1>1, <1>3, TrackPopFrontIs
<1>7. Shrunk(g, PopFirst(g), 0)
  BY <1>1, <1>4, <1>5, <1>6, ShrunkIs DEF c, s
<1>8. PopFirst(g).removed = g.removed
  BY <1>4 DEF IsGroup
<1> QED BY <1>7, <1>8

-----------------------------------------------------------------------------
(* What every operation keeps.                                             *)

\* A group that has grown.
LEMMA GrownKeeps ==
  ASSUME NEW g, IsGroup(g), SortedIn(g), NEW h, NEW i, NEW j \in 0 .. Len(g.children),
         NEW n \in Nat, NEW V, Grown(g, h, i, j, n, V)
  PROVE  /\ IsGroup(h) /\ SortedIn(h)
         /\ i = j /\ FreshlyIn(g) => FreshlyIn(h)
<1>1. IsGroup(h)
  BY DEF Grown, IsGroup
<1>2. SortedIn(h)
  <2>1. Len(g.children) \in Nat /\ Len(h.children) = Len(g.children) + n
    BY DEF IsGroup, Grown
  <2>2. Members(g.additions) \subseteq 0 .. Len(g.children) - 1
    BY DEF SortedIn
  <2>3. Opened(Members(g.additions), j, n) \subseteq 0 .. Len(h.children) - 1
    BY <2>1, <2>2 DEF Opened
  <2> QED BY <2>3 DEF SortedIn, Grown
<1>3. i = j /\ FreshlyIn(g) => FreshlyIn(h)
  BY DEF FreshlyIn, Grown
<1> QED BY <1>1, <1>2, <1>3

\* A group that has lost a node.
LEMMA ShrunkKeeps ==
  ASSUME NEW g, IsGroup(g), SortedIn(g), NEW h, NEW i \in 0 .. Len(g.children) - 1,
         Shrunk(g, h, i)
  PROVE  /\ IsGroup(h) /\ SortedIn(h)
         /\ FreshlyIn(g) => FreshlyIn(h)
<1>1. IsGroup(h)
  BY DEF Shrunk, IsGroup
<1>2. SortedIn(h)
  <2>1. Len(g.children) \in Nat /\ Len(h.children) = Len(g.children) - 1
    BY DEF IsGroup, Shrunk
  <2>2. Members(g.additions) \subseteq 0 .. Len(g.children) - 1
    BY DEF SortedIn
  <2>3. Closed(Members(g.additions), i) \subseteq 0 .. Len(h.children) - 1
    BY <2>1, <2>2 DEF Closed
  <2> QED BY <2>3 DEF SortedIn, Shrunk
<1>3. FreshlyIn(g) => FreshlyIn(h)
  BY DEF FreshlyIn, Shrunk
<1> QED BY <1>1, <1>2, <1>3

\* The pending side or corner, once taken.
LEMMA TakenIs ==
  ASSUME NEW pending, NEW D \in SUBSET Axes, pending \in [D -> Int], NEW old \in [Axes -> Int]
  PROVE  Taken(pending, old) \in [Axes -> Int]
  BY DEF Taken

\* A group whose pending orientation, sides and corner are taken.
LEMMA TakenGroup ==
  ASSUME NEW g, IsGroup(g)
  PROVE  /\ IsGroup(TakeChanges(g))
         /\ TakeChanges(g).additions = <<>>
         /\ TakeChanges(g).children = g.children
<1> DEFINE h == TakeChanges(g)
<1>1. /\ DOMAIN h = DOMAIN g /\ h.children = g.children /\ h.total = g.total
      /\ h.orientation = OrientationOf(g) /\ h.newOrientation = None
      /\ h.additions = <<>> /\ h.removed = 0
      /\ h.newSize = Unchanged /\ h.newAt = Unchanged
      /\ h.size = Taken(g.newSize, g.size) /\ h.at = Taken(g.newAt, g.at)
  BY DEF TakeChanges, IsGroup
<1>2. h.orientation \in Orientations
  BY <1>1 DEF OrientationOf, IsGroup
<1>3. h.size \in [Axes -> Int] /\ h.at \in [Axes -> Int]
  <2>1. PICK D \in SUBSET Axes : g.newSize \in [D -> Int]
    BY DEF IsGroup
  <2>2. PICK E \in SUBSET Axes : g.newAt \in [E -> Int]
    BY DEF IsGroup
  <2>3. g.size \in [Axes -> Int] /\ g.at \in [Axes -> Int]
    BY DEF IsGroup
  <2>4. Taken(g.newSize, g.size) \in [Axes -> Int]
    BY <2>1, <2>3, TakenIs
  <2>5. Taken(g.newAt, g.at) \in [Axes -> Int]
    BY <2>2, <2>3, TakenIs
  <2> QED BY <1>1, <2>4, <2>5
<1>4. \E D \in SUBSET Axes : Unchanged \in [D -> Int]
  <2>1. Unchanged \in [{} -> Int]
    BY DEF Unchanged
  <2> QED BY <2>1
<1>5. <<>> \in Seq(Int)
  OBVIOUS
<1> HIDE DEF h
<1>6. IsGroup(h)
  <2>1. h.newOrientation \in Orientations \cup {None} /\ h.removed \in Int
    BY <1>1
  <2>2. \E D \in SUBSET Axes : h.newSize \in [D -> Int]
    BY <1>1, <1>4
  <2>3. \E D \in SUBSET Axes : h.newAt \in [D -> Int]
    BY <1>1, <1>4
  <2>4. h.children \in Seq(Node) /\ h.total \in Int /\ DOMAIN h = DOMAIN g
    BY <1>1 DEF IsGroup
  <2> QED BY <1>1, <1>2, <1>3, <1>5, <2>1, <2>2, <2>3, <2>4 DEF IsGroup
<1> QED BY <1>1, <1>6 DEF h

\* The lengths that the nodes are given are integers when nothing panics.
LEMMA LengthsAre ==
  ASSUME NEW g, IsGroup(g), ChangesMade(g), ~ApplyPanics(g)
  PROVE  Lengths(g) \in Seq(Int) /\ Len(Lengths(g)) = Len(g.children)
<1> DEFINE after == TakeChanges(g)
           primary == after.size[Axis(after.orientation)]
           n == Len(g.children)
           share == Share(primary, n)
           rescaling == primary - share * Len(g.additions) - TotalGap(n)
           Old(k) == g.children[k].size[Axis(g.orientation)]
           Length(k) == IF IsAddition(g, k) THEN share
                        ELSE (Old(k) * rescaling) \div (g.total - g.removed)
<1>1. n \in Nat /\ Len(g.additions) \in Nat /\ g.total \in Int /\ g.removed \in Int
  BY DEF IsGroup
<1>2. primary \in Int
  <2>1. IsGroup(after)
    BY TakenGroup
  <2> HIDE DEF after
  <2>2. Axis(after.orientation) \in Axes
    BY DEF Axis, Axes
  <2> QED BY <2>1, <2>2 DEF IsGroup
<1>3. TotalGap(n) \in Int
  BY <1>1, GapAssumption DEF TotalGap
<1> HIDE DEF after, primary
<1>4. share \in Int
  BY <1>1, <1>2, <1>3 DEF Share
<1> HIDE DEF share
<1>5. rescaling \in Int
  BY <1>1, <1>2, <1>3, <1>4
<1> HIDE DEF rescaling
<1>6. ASSUME NEW k \in 1 .. n, ~IsAddition(g, k) PROVE g.total - g.removed \in Nat \ {0}
  BY <1>1, <1>6 DEF ApplyPanics
<1>7. ASSUME NEW k \in 1 .. n PROVE Old(k) \in Int
  <2>1. g.children[k] \in Node
    BY <1>7 DEF IsGroup
  <2>2. Axis(g.orientation) \in Axes
    BY DEF Axis, Axes
  <2> QED BY <2>1, <2>2 DEF Node
<1> HIDE DEF Old
<1>8. ASSUME NEW k \in 1 .. n PROVE Length(k) \in Int
  <2>1. CASE IsAddition(g, k)
    BY <1>4, <2>1
  <2>2. CASE ~IsAddition(g, k)
    <3>1. g.total - g.removed \in Nat \ {0}
      BY <1>6, <2>2
    <3>2. Old(k) * rescaling \in Int
      BY <1>5, <1>7
    <3>3. (Old(k) * rescaling) \div (g.total - g.removed) \in Int
      BY <3>1, <3>2
    <3> QED BY <2>2, <3>3
  <2> QED BY <2>1, <2>2
<1>9. Lengths(g) = [k \in 1 .. n |-> Length(k)]
  BY DEF Lengths, Old, rescaling, share, primary, after
<1> HIDE DEF Length
<1>10. [k \in 1 .. n |-> Length(k)] \in Seq(Int) /\ Len([k \in 1 .. n |-> Length(k)]) = n
  BY <1>1, <1>8
<1> QED BY <1>9, <1>10

\* A node that is configured is a node, and is no longer new.
LEMMA ConfiguredIs ==
  ASSUME NEW g, IsGroup(g), NEW lengths \in Seq(Int), Len(lengths) = Len(g.children),
         NEW k \in 1 .. Len(g.children)
  PROVE  /\ Configured(g, lengths, k) \in Node
         /\ ~Configured(g, lengths, k).fresh
<1> DEFINE after == TakeChanges(g)
           axis == Axis(after.orientation)
           other == OtherAxis(axis)
           offset == PartialSums(lengths)[k - 1] + Gap * (k - 1)
           coord == IF Reversed(after.orientation)
                    THEN after.size[axis] - offset - lengths[k] ELSE offset
           at == Along(axis, after.at[axis] + coord, after.at[other])
           size == Along(axis, lengths[k], after.size[other])
<1>1. IsGroup(after)
  BY TakenGroup
<1>2. g.children[k] \in Node /\ lengths[k] \in Int
  BY DEF IsGroup
<1>3. PartialSums(lengths)[k - 1] \in Int
  <2>1. IsSums(PartialSums(lengths), lengths, Len(lengths))
    BY Sums
  <2>2. k - 1 \in 0 .. Len(lengths)
    OBVIOUS
  <2> QED BY <2>1, <2>2 DEF IsSums
<1>4. offset \in Int
  BY <1>3, GapAssumption
<1> HIDE DEF after, offset
<1>5. axis \in Axes /\ other \in Axes
  BY DEF Axis, OtherAxis, Axes
<1> HIDE DEF axis, other
<1>6. after.size[axis] \in Int /\ after.size[other] \in Int
  BY <1>1, <1>5 DEF IsGroup
<1>7. after.at[axis] \in Int /\ after.at[other] \in Int
  BY <1>1, <1>5 DEF IsGroup
<1>8. coord \in Int
  BY <1>2, <1>4, <1>6
<1> HIDE DEF coord
<1>9. at \in [Axes -> Int]
  <2>1. after.at[axis] + coord \in Int
    BY <1>7, <1>8
  <2> QED BY <1>7, <2>1 DEF Along
<1>10. size \in [Axes -> Int]
  BY <1>2, <1>6 DEF Along
<1> HIDE DEF at, size
<1>11. Configured(g, lengths, k) =
       [g.children[k] EXCEPT !.at = at, !.size = size, !.fresh = FALSE]
  BY DEF Configured, at, size, coord, offset, axis, other, after
<1> QED BY <1>2, <1>9, <1>10, <1>11 DEF Node

\* apply_changes, up to the children's own.
LEMMA ArrangedKeeps ==
  ASSUME NEW g, IsGroup(g), SortedIn(g), ~ApplyPanics(g)
  PROVE  /\ IsGroup(Arranged(g)) /\ SortedIn(Arranged(g))
         /\ Len(Arranged(g).children) = Len(g.children)
         /\ FreshlyIn(g) => FreshlyIn(Arranged(g))
<1> DEFINE n == Len(g.children)
           h == Arranged(g)
<1>1. g.children \in Seq(Node) /\ n \in Nat
  BY DEF IsGroup
<1>2. CASE ChangesMade(g)
  <2> DEFINE lengths == Lengths(g)
             c == [k \in 1 .. n |-> Configured(g, lengths, k)]
             t == PartialSums(lengths)[n]
             after == TakeChanges(g)
  <2>1. lengths \in Seq(Int) /\ Len(lengths) = n
    BY <1>2, LengthsAre
  <2>2. h = [after EXCEPT !.children = c, !.total = t]
    BY <1>2 DEF Arranged
  <2> HIDE DEF lengths, h
  <2>3. t \in Int
    <3>1. IsSums(PartialSums(lengths), lengths, Len(lengths))
      BY <2>1, Sums
    <3>2. n \in 0 .. Len(lengths)
      BY <1>1, <2>1
    <3> QED BY <3>1, <3>2 DEF IsSums
  <2> HIDE DEF t
  <2>4. \A k \in 1 .. n : /\ Configured(g, lengths, k) \in Node
                          /\ ~Configured(g, lengths, k).fresh
    BY <2>1, ConfiguredIs
  <2>5. c \in Seq(Node) /\ Len(c) = n /\ \A k \in 1 .. n : ~c[k].fresh
    BY <1>1, <2>4
  <2> HIDE DEF c
  <2>6. IsGroup(after) /\ after.additions = <<>>
    BY TakenGroup
  <2> HIDE DEF after
  <2>7. h.children = c /\ h.additions = <<>>
    BY <2>2, <2>6 DEF IsGroup
  <2>8. IsGroup(h)
    BY <2>2, <2>3, <2>5, <2>6 DEF IsGroup
  <2>9. Increasing(h.additions) /\ Members(h.additions) = {}
    BY <2>7 DEF Increasing, Members
  <2>10. FreshIn(h.children) = {}
    BY <1>1, <2>5, <2>7 DEF FreshIn
  <2> QED BY <2>5, <2>7, <2>8, <2>9, <2>10 DEF SortedIn, FreshlyIn, h
<1>3. CASE ~ChangesMade(g)
  BY <1>3 DEF Arranged
<1> QED BY <1>2, <1>3

\* apply_changes.
LEMMA ApplyKeeps ==
  ASSUME NEW g, IsGroup(g), SortedIn(g), ~ApplyPanics(g)
  PROVE  /\ IsGroup(Apply(g)) /\ SortedIn(Apply(g))
         /\ Len(Apply(g).children) = Len(g.children)
         /\ FreshlyIn(g) => FreshlyIn(Apply(g))
<1> DEFINE p == Arranged(g)
           n == Len(p.children)
           h == Apply(g)
           c == [k \in 1 .. n |-> Leaf(p.children[k])]
<1>1. /\ IsGroup(p) /\ SortedIn(p) /\ n = Len(g.children)
      /\ FreshlyIn(g) => FreshlyIn(p)
  BY ArrangedKeeps
<1> HIDE DEF p
<1>2. p.children \in Seq(Node) /\ n \in Nat
  BY <1>1 DEF IsGroup
<1>3. h = [p EXCEPT !.children = c]
  BY <1>2 DEF Apply, p
<1>4. \A k \in 1 .. n : /\ Leaf(p.children[k]) \in Node
                        /\ Leaf(p.children[k]).fresh = p.children[k].fresh
  <2>1. \A node \in Node : Leaf(node) \in Node /\ Leaf(node).fresh = node.fresh
    BY DEF Leaf, Node
  <2>2. \A k \in 1 .. n : p.children[k] \in Node
    BY <1>2
  <2> QED BY <2>1, <2>2
<1>5. c \in Seq(Node) /\ Len(c) = n /\ \A k \in 1 .. n : c[k].fresh = p.children[k].fresh
  BY <1>2, <1>4
<1> HIDE DEF c, h
<1>6. h.children = c /\ h.additions = p.additions
  BY <1>1, <1>3 DEF IsGroup
<1>7. IsGroup(h)
  BY <1>1, <1>3, <1>5 DEF IsGroup
<1>8. FreshIn(h.children) = FreshIn(p.children)
  BY <1>2, <1>5, <1>6 DEF FreshIn
<1> QED BY <1>1, <1>5, <1>6, <1>7, <1>8 DEF SortedIn, FreshlyIn, h

-----------------------------------------------------------------------------
(* The inductive invariant, and the steps that keep it.                    *)

\* The group has, and is given, only the orientations that the constants name.
TurnedIn(g) ==
  g.orientation \in {Start} \cup Turns /\ g.newOrientation \in Turns \cup {None}

\* No batch is pushed to a group that can be reversed: track_push_back and
\* track_push_front then follow the wrong end of the list.
NoReversedBatch ==
  \/ Calls \cap {"push_windows_back", "push_windows_front"} = {}
  \/ \A o \in {Start} \cup Turns : ~Reversed(o)

\* No node is popped: its room would stay in the total.
NoPops == Calls \cap {"pop_back", "pop_front"} = {}

\* The total covers the nodes, and those that were placed are where they were.
SpacedIn(g) ==
  /\ Grounded(g) /\ Laid(g) /\ Roomy(g)
  /\ SidesTotal(g) + g.removed <= g.total
  /\ NoPops => g.total = SidesTotal(g) + g.removed

HeldBy(g) == {g.children[k].window : k \in 1 .. Len(g.children)}

\* No window has two nodes.
OnceIn(g) ==
  \A j, k \in 1 .. Len(g.children) :
    g.children[j].window = g.children[k].window => j = k

Good(g) ==
  /\ IsGroup(g)
  /\ SortedIn(g)
  /\ TurnedIn(g)
  /\ NoReversedBatch => FreshlyIn(g)
  /\ SpacedIn(g)
  /\ OnceIn(g)

\* t has the place of each node that has been placed and not replaced since.
ToldIn(g, t) ==
  \A k \in 1 .. Len(g.children) :
    LET node == g.children[k]
    IN  ~node.fresh /\ ~node.changed =>
          /\ node.window \in DOMAIN t
          /\ t[node.window] = [at |-> node.at, size |-> node.size]

Inv ==
  /\ TypeOK
  /\ Good(group)
  /\ ToldIn(group, told)

\* u is t but for the windows of W.
Spares(t, u, W) == \A w \in DOMAIN t \ W : w \in DOMAIN u /\ u[w] = t[w]

\* h is good, and what was told of g is right of h when the windows of W, and
\* no others, are forgotten.
Follows(g, h, W) ==
  Good(h) /\ \A t, u : ToldIn(g, t) /\ Spares(t, u, W) => ToldIn(h, u)

\* The nodes of h that have been placed are nodes of g, of other windows than W.
LEMMA FollowsIs ==
  ASSUME NEW g, NEW h, Good(h), NEW W,
         \A k \in 1 .. Len(h.children) :
           ~h.children[k].fresh /\ ~h.children[k].changed =>
             \E x \in 1 .. Len(g.children) : /\ h.children[k] = g.children[x]
                                             /\ g.children[x].window \notin W
  PROVE  Follows(g, h, W)
<1> SUFFICES ASSUME NEW t, NEW u, ToldIn(g, t), Spares(t, u, W) PROVE ToldIn(h, u)
  BY DEF Follows
<1> SUFFICES ASSUME NEW k \in 1 .. Len(h.children),
                    ~h.children[k].fresh, ~h.children[k].changed
             PROVE  /\ h.children[k].window \in DOMAIN u
                    /\ u[h.children[k].window] =
                         [at |-> h.children[k].at, size |-> h.children[k].size]
  BY DEF ToldIn
<1>1. PICK x \in 1 .. Len(g.children) : /\ h.children[k] = g.children[x]
                                        /\ g.children[x].window \notin W
  OBVIOUS
<1> DEFINE node == g.children[x]
<1>2. node.window \in DOMAIN t /\ t[node.window] = [at |-> node.at, size |-> node.size]
  BY <1>1 DEF ToldIn
<1>3. node.window \in DOMAIN u /\ u[node.window] = t[node.window]
  BY <1>1, <1>2 DEF Spares
<1> QED BY <1>1, <1>2, <1>3

\* An orientation of a good group is one of those that the constants name.
LEMMA OrientationIs ==
  ASSUME NEW g, Good(g)
  PROVE  OrientationOf(g) \in {Start} \cup Turns
  BY DEF Good, TurnedIn, OrientationOf

\* The k-th node of d is the x-th of c, which n nodes after the first i leave.
Stays(c, d, i, n, k, x) ==
  x \in 1 .. Len(c) /\ d[k] = c[x] /\ ((k = x /\ k <= i) \/ (k = n + x /\ k > i + n))

\* It is the x-th of those nodes.
Comes(d, i, n, V, k, x) == x \in 1 .. n /\ k = i + x /\ d[k].window \in V

\* Where each node comes from when nodes are added.
LEMMA OpenedFrom ==
  ASSUME NEW c, NEW d, Len(c) \in Nat, NEW i, NEW n \in Nat, NEW V, NodesOpened(c, d, i, n, V),
         NEW k \in 1 .. Len(d)
  PROVE  (\E x : Stays(c, d, i, n, k, x)) \/ (\E x : Comes(d, i, n, V, k, x))
<1> DEFINE m == Len(c)
<1>1. /\ m \in Nat /\ i \in 0 .. m /\ Len(d) = m + n /\ k \in 1 .. m + n
      /\ \A l \in 1 .. i : d[l] = c[l]
      /\ \A l \in 1 .. n : d[i + l].window \in V
      /\ \A l \in i + 1 .. m : d[n + l] = c[l]
  BY DEF NodesOpened, IsNew
<1> HIDE DEF m
<1>2. CASE k <= i
  <2>1. Stays(c, d, i, n, k, k)
    BY <1>1, <1>2 DEF Stays, m
  <2> QED BY <2>1
<1>3. CASE i < k /\ k <= i + n
  <2>1. k - i \in 1 .. n /\ k = i + (k - i)
    BY <1>1, <1>3
  <2>2. Comes(d, i, n, V, k, k - i)
    BY <1>1, <2>1 DEF Comes
  <2> QED BY <2>2
<1>4. CASE i + n < k
  <2>1. k - n \in i + 1 .. m /\ n + (k - n) = k /\ k - n \in 1 .. m
    BY <1>1, <1>4
  <2>2. Stays(c, d, i, n, k, k - n)
    BY <1>1, <1>4, <2>1 DEF Stays, m
  <2> QED BY <2>2
<1> QED BY <1>1, <1>2, <1>3, <1>4

\* New nodes of other windows leave each window one node.
LEMMA GrownOnce ==
  ASSUME NEW g, OnceIn(g), Len(g.children) \in Nat, NEW h, NEW i, NEW n \in Nat, NEW V,
         NodesOpened(g.children, h.children, i, n, V), V \cap HeldBy(g) = {}
  PROVE  OnceIn(h)
<1> DEFINE c == g.children
           d == h.children
           m == Len(c)
<1>1. /\ m \in Nat /\ i \in 0 .. m /\ Len(d) = m + n
      /\ \A x, y \in 1 .. n : d[i + x].window = d[i + y].window => x = y
  BY DEF NodesOpened
<1>2. /\ \A x, y \in 1 .. m : c[x].window = c[y].window => x = y
      /\ \A x \in 1 .. m : c[x].window \notin V
  BY DEF OnceIn, HeldBy
<1>3. \A k \in 1 .. Len(d) :
        (\E x : Stays(c, d, i, n, k, x)) \/ (\E x : Comes(d, i, n, V, k, x))
  BY OpenedFrom
<1> HIDE DEF c, d
<1>4. ASSUME NEW k \in 1 .. Len(d), NEW l \in 1 .. Len(d), d[k].window = d[l].window
      PROVE  k = l
  <2>1. ASSUME NEW x, Stays(c, d, i, n, k, x), NEW y, Stays(c, d, i, n, l, y) PROVE k = l
    <3>1. x = y
      BY <1>2, <1>4, <2>1 DEF Stays
    <3> QED BY <1>1, <2>1, <3>1 DEF Stays
  <2>2. ASSUME NEW x, Comes(d, i, n, V, k, x), NEW y, Comes(d, i, n, V, l, y) PROVE k = l
    BY <1>1, <1>4, <2>2 DEF Comes
  <2>3. ASSUME NEW x, Stays(c, d, i, n, k, x), NEW y, Comes(d, i, n, V, l, y) PROVE FALSE
    BY <1>2, <1>4, <2>3 DEF Stays, Comes
  <2>4. ASSUME NEW x, Comes(d, i, n, V, k, x), NEW y, Stays(c, d, i, n, l, y) PROVE FALSE
    BY <1>2, <1>4, <2>4 DEF Stays, Comes
  <2> QED BY <1>3, <2>1, <2>2, <2>3, <2>4
<1> QED BY <1>4 DEF OnceIn, d

\* The node that becomes the k-th when the one of index i is taken.
Before(i, k) == IF k <= i THEN k ELSE k + 1

\* The node that is at k once another was removed, by where it was.
LEMMA ClosedFrom ==
  ASSUME NEW c, NEW d, Len(c) \in Nat, NEW i, NodesClosed(c, d, i), NEW k \in 1 .. Len(d)
  PROVE  Before(i, k) \in 1 .. Len(c) /\ Before(i, k) # i + 1 /\ d[k] = c[Before(i, k)]
<1> DEFINE m == Len(c)
<1>1. /\ m \in Nat /\ i \in 0 .. m - 1 /\ Len(d) = m - 1 /\ k \in 1 .. m - 1
      /\ \A l \in 1 .. i : d[l] = c[l]
      /\ \A l \in i + 2 .. m : d[l - 1] = c[l]
  BY DEF NodesClosed
<1> HIDE DEF m
<1>2. CASE k <= i
  BY <1>1, <1>2 DEF Before, m
<1>3. CASE i < k
  <2>1. k + 1 \in i + 2 .. m /\ (k + 1) - 1 = k /\ k + 1 \in 1 .. m /\ ~(k <= i)
    BY <1>1, <1>3
  <2> QED BY <1>1, <2>1 DEF Before, m
<1> QED BY <1>1, <1>2, <1>3

\* A window is in a group once, still, when a node is removed.
LEMMA ShrunkOnce ==
  ASSUME NEW g, OnceIn(g), Len(g.children) \in Nat, NEW h, NEW i,
         NodesClosed(g.children, h.children, i)
  PROVE  OnceIn(h)
<1>1. ASSUME NEW k \in 1 .. Len(h.children), NEW l \in 1 .. Len(h.children),
             h.children[k].window = h.children[l].window
      PROVE  k = l
  <2>1. /\ Before(i, k) \in 1 .. Len(g.children) /\ Before(i, l) \in 1 .. Len(g.children)
        /\ h.children[k] = g.children[Before(i, k)] /\ h.children[l] = g.children[Before(i, l)]
    BY ClosedFrom
  <2>2. Before(i, k) = Before(i, l)
    BY <1>1, <2>1 DEF OnceIn
  <2>3. i \in Int /\ k \in Int /\ l \in Int
    BY DEF NodesClosed
  <2> QED BY <2>2, <2>3 DEF Before
<1> QED BY <1>1 DEF OnceIn

\* The new nodes have no size and no place yet.
LEMMA GrownSpaced ==
  ASSUME NEW g, IsGroup(g), SpacedIn(g), NEW h, NEW i, NEW j, NEW n \in Nat,
         NEW V, Grown(g, h, i, j, n, V)
  PROVE  SpacedIn(h)
<1>1. /\ h.orientation = g.orientation /\ h.at = g.at /\ h.size = g.size
      /\ h.total = g.total /\ h.removed = g.removed
      /\ NodesOpened(g.children, h.children, i, n, V)
  BY DEF Grown, IsGroup
<1>2. Grounded(h) /\ SidesTotal(h) = SidesTotal(g)
  BY <1>1, SidesOpened DEF SpacedIn
<1>3. Laid(h)
  BY <1>1, LaidOpened DEF SpacedIn, Grounded
<1>4. Roomy(h)
  BY <1>1, RoomyOpened DEF SpacedIn, Grounded
<1> QED BY <1>1, <1>2, <1>3, <1>4 DEF SpacedIn

\* Only `remove` records the room of the node.
LEMMA ShrunkSpaced ==
  ASSUME NEW g, IsGroup(g), SpacedIn(g), NEW h, NEW i, Shrunk(g, h, i),
         \/ h.removed = g.removed + g.children[i + 1].size[Axis(g.orientation)]
         \/ ~NoPops /\ h.removed = g.removed
  PROVE  SpacedIn(h)
<1> DEFINE size == g.children[i + 1].size[Axis(g.orientation)]
<1>1. /\ h.orientation = g.orientation /\ h.at = g.at /\ h.size = g.size
      /\ h.total = g.total /\ NodesClosed(g.children, h.children, i)
  BY DEF Shrunk, IsGroup
<1>2. Grounded(h) /\ SidesTotal(h) = SidesTotal(g) - size
  BY <1>1, SidesClosed DEF SpacedIn
<1>3. Laid(h)
  BY <1>1, LaidClosed DEF SpacedIn, Grounded
<1>4. size \in Nat /\ SidesTotal(g) \in Nat /\ g.removed \in Int /\ g.total \in Int
  <2>1. i + 1 \in 1 .. Len(g.children)
    BY <1>1 DEF NodesClosed, SpacedIn, Grounded
  <2>2. size \in Nat
    BY <2>1 DEF SpacedIn, Grounded
  <2>3. SidesTotal(g) \in Nat
    BY SidesAre DEF SpacedIn, Grounded
  <2> QED BY <2>2, <2>3 DEF IsGroup
<1>5. \/ h.removed = g.removed + size
      \/ ~NoPops /\ h.removed = g.removed
  OBVIOUS
<1> HIDE DEF size
<1>6. /\ SidesTotal(h) + h.removed <= h.total
      /\ NoPops => h.total = SidesTotal(h) + h.removed
  <2>1. CASE h.removed = g.removed + size
    BY <1>1, <1>2, <1>4, <2>1 DEF SpacedIn
  <2>2. CASE ~NoPops /\ h.removed = g.removed
    BY <1>1, <1>2, <1>4, <2>2 DEF SpacedIn
  <2> QED BY <1>5, <2>1, <2>2
<1>7. Roomy(h)
  <2>1. h.removed \in Int /\ h.removed >= g.removed
    BY <1>4, <1>5
  <2>2. g.size[Axis(g.orientation)] \in Int
    BY AxisIs DEF IsGroup
  <2>3. Roomy(g) /\ Len(g.children) \in Nat
    BY DEF SpacedIn, Grounded
  <2> QED BY <1>1, <1>4, <2>1, <2>2, <2>3, RoomyClosed
<1> QED BY <1>2, <1>3, <1>6, <1>7 DEF SpacedIn

\* Calls that add nodes where they track them.
LEMMA GrownGood ==
  ASSUME NEW g, Good(g), NEW h, NEW i, NEW j \in 0 .. Len(g.children), NEW n \in Nat,
         NEW V, V \cap HeldBy(g) = {},
         Grown(g, h, i, j, n, V), NoReversedBatch => i = j
  PROVE  Follows(g, h, {})
<1>1. /\ IsGroup(h) /\ SortedIn(h)
      /\ i = j /\ FreshlyIn(g) => FreshlyIn(h)
  BY GrownKeeps DEF Good
<1>2. TurnedIn(h)
  <2>1. h.orientation = g.orientation /\ h.newOrientation = g.newOrientation
    BY DEF Grown, Good, IsGroup
  <2> QED BY <2>1 DEF Good, TurnedIn
<1>3. SpacedIn(h)
  BY GrownSpaced DEF Good
<1>4. NodesOpened(g.children, h.children, i, n, V) /\ Len(g.children) \in Nat
  BY DEF Good, Grown, IsGroup
<1>5. OnceIn(h)
  BY <1>4, GrownOnce DEF Good
<1>6. Good(h)
  BY <1>1, <1>2, <1>3, <1>5 DEF Good
<1>7. ASSUME NEW k \in 1 .. Len(h.children), ~h.children[k].fresh
      PROVE  \E x \in 1 .. Len(g.children) : h.children[k] = g.children[x]
  <2>1. CASE \E x : Stays(g.children, h.children, i, n, k, x)
    BY <2>1 DEF Stays
  <2>2. CASE \E x : Comes(h.children, i, n, V, k, x)
    <3>1. PICK x \in 1 .. n : k = i + x
      BY <2>2 DEF Comes
    <3>2. h.children[k].fresh
      BY <1>4, <3>1 DEF NodesOpened, IsNew
    <3> QED BY <1>7, <3>2
  <2> QED BY <1>4, <2>1, <2>2, OpenedFrom
<1> QED BY <1>6, <1>7, FollowsIs

\* Calls that take a node.
LEMMA ShrunkGood ==
  ASSUME NEW g, Good(g), NEW h, NEW i \in 0 .. Len(g.children) - 1, Shrunk(g, h, i),
         \/ h.removed = g.removed + g.children[i + 1].size[Axis(g.orientation)]
         \/ ~NoPops /\ h.removed = g.removed
  PROVE  Follows(g, h, {g.children[i + 1].window})
<1>1. /\ IsGroup(h) /\ SortedIn(h)
      /\ FreshlyIn(g) => FreshlyIn(h)
  BY ShrunkKeeps DEF Good
<1>2. TurnedIn(h)
  <2>1. h.orientation = g.orientation /\ h.newOrientation = g.newOrientation
    BY DEF Shrunk, Good, IsGroup
  <2> QED BY <2>1 DEF Good, TurnedIn
<1>3. SpacedIn(h)
  BY ShrunkSpaced DEF Good
<1>4. NodesClosed(g.children, h.children, i) /\ Len(g.children) \in Nat
  BY DEF Good, Shrunk, IsGroup
<1>5. OnceIn(h)
  BY <1>4, ShrunkOnce DEF Good
<1>6. Good(h)
  BY <1>1, <1>2, <1>3, <1>5 DEF Good
<1>7. ASSUME NEW k \in 1 .. Len(h.children)
      PROVE  \E x \in 1 .. Len(g.children) :
               /\ h.children[k] = g.children[x]
               /\ g.children[x].window \notin {g.children[i + 1].window}
  <2>1. /\ Before(i, k) \in 1 .. Len(g.children) /\ Before(i, k) # i + 1
        /\ h.children[k] = g.children[Before(i, k)]
    BY <1>4, ClosedFrom
  <2>2. i + 1 \in 1 .. Len(g.children)
    BY <1>4
  <2>3. g.children[Before(i, k)].window # g.children[i + 1].window
    BY <2>1, <2>2 DEF Good, OnceIn
  <2> QED BY <2>1, <2>3
<1> QED BY <1>6, <1>7, FollowsIs

\* Calls that change neither list but in the windows of its nodes, and nothing
\* of the group that its nodes are placed by.
LEMMA SameListsGood ==
  ASSUME NEW g, Good(g), NEW h, IsGroup(h), TurnedIn(h), OnceIn(h),
         h.additions = g.additions, Len(h.children) = Len(g.children),
         h.orientation = g.orientation, h.at = g.at, h.size = g.size,
         h.total = g.total, h.removed = g.removed,
         \A k \in 1 .. Len(g.children) :
           /\ h.children[k].fresh = g.children[k].fresh
           /\ h.children[k].at = g.children[k].at
           /\ h.children[k].size = g.children[k].size
  PROVE  Good(h)
<1>1. FreshIn(h.children) = FreshIn(g.children)
  <2>1. \A k \in 0 .. Len(g.children) - 1 : k + 1 \in 1 .. Len(g.children)
    BY DEF Good, IsGroup
  <2>2. \A k \in 0 .. Len(g.children) - 1 : h.children[k + 1].fresh = g.children[k + 1].fresh
    BY <2>1
  <2> QED BY <2>2 DEF FreshIn
<1>2. Grounded(g) /\ Laid(g)
  BY DEF Good, SpacedIn
<1>3. Grounded(h)
  BY <1>2 DEF Grounded
<1>4. Laid(h)
  <2> DEFINE f == [k \in 1 .. Len(g.children) |-> k]
  <2>1. \A k \in 1 .. Len(h.children) : f[k] = k
    OBVIOUS
  <2> HIDE DEF f
  <2>2. \A k \in 1 .. Len(h.children) :
          ~h.children[k].fresh =>
            /\ f[k] \in 1 .. Len(g.children) /\ ~g.children[f[k]].fresh
            /\ h.children[k].at = g.children[f[k]].at
            /\ h.children[k].size = g.children[f[k]].size
    BY <2>1
  <2>3. \A j, k \in 1 .. Len(h.children) :
          j < k /\ ~h.children[j].fresh /\ ~h.children[k].fresh => f[j] < f[k]
    BY <2>1
  <2> QED BY <1>2, <2>2, <2>3, LaidKept
<1>5. SidesTotal(h) = SidesTotal(g)
  <2>1. Sides(h) = Sides(g)
    BY DEF Sides
  <2> QED BY <2>1 DEF SidesTotal
<1>6. PlacedCount(h) = PlacedCount(g)
  <2>1. Ones(h) = Ones(g)
    BY DEF Ones
  <2> QED BY <2>1 DEF PlacedCount
<1>7. SpacedIn(h)
  BY <1>3, <1>4, <1>5, <1>6 DEF SpacedIn, Good, Roomy
<1> QED BY <1>1, <1>7 DEF Good, SortedIn, FreshlyIn

\* The initial group.
LEMMA InitGood ==
  Good(GroupOf(Start, Both(0), Size))
<1> DEFINE g == GroupOf(Start, Both(0), Size)
<1>1. /\ g.orientation = Start /\ g.newOrientation = None
      /\ g.children = <<>> /\ g.additions = <<>> /\ g.total = 0 /\ g.removed = 0
      /\ g.newSize = Unchanged /\ g.newAt = Unchanged /\ g.at = Both(0) /\ g.size = Size
      /\ DOMAIN g = {"kind", "orientation", "newOrientation", "children", "total", "additions",
                     "removed", "newSize", "newAt", "at", "size", "fresh"}
  BY DEF GroupOf
<1>2. Both(0) \in [Axes -> Int] /\ Size \in [Axes -> Int]
  BY CallsAssumption DEF Both
<1>3. \E D \in SUBSET Axes : Unchanged \in [D -> Int]
  <2>1. Unchanged \in [{} -> Int]
    BY DEF Unchanged
  <2> QED BY <2>1
<1>4. <<>> \in Seq(Node) /\ <<>> \in Seq(Int) /\ Len(<<>>) = 0
  OBVIOUS
<1> HIDE DEF g
<1>5. IsGroup(g)
  <2>1. \E D \in SUBSET Axes : g.newSize \in [D -> Int]
    BY <1>1, <1>3
  <2>2. \E D \in SUBSET Axes : g.newAt \in [D -> Int]
    BY <1>1, <1>3
  <2>3. g.orientation \in Orientations /\ g.newOrientation \in Orientations \cup {None}
    BY <1>1, CallsAssumption
  <2> QED BY <1>1, <1>2, <1>4, <2>1, <2>2, <2>3 DEF IsGroup
<1>6. Increasing(g.additions) /\ Members(g.additions) = {} /\ FreshIn(g.children) = {}
  BY <1>1, <1>4 DEF Increasing, Members, FreshIn
<1>7. TurnedIn(g)
  BY <1>1 DEF TurnedIn
<1>8. \A k \in 1 .. Len(g.children) : FALSE
  BY <1>1, <1>4
<1>9. SpacedIn(g) /\ OnceIn(g)
  <2>1. Grounded(g) /\ Laid(g) /\ OnceIn(g)
    BY <1>1, <1>4, <1>8 DEF Grounded, Laid, OnceIn
  <2>2. SidesTotal(g) = 0
    <3>1. IsSums(PartialSums(Sides(g)), Sides(g), Len(g.children))
      BY <1>1, <1>4, <1>8, SidesAre
    <3> QED BY <1>1, <1>4, <3>1 DEF SidesTotal, IsSums
  <2>3. Roomy(g)
    <3>1. PlacedCount(g) = 0
      BY <1>1, <1>4, <1>8, CountFull
    <3>2. Size[Axis(Start)] \in Nat
      BY AxisIs, CallsAssumption
    <3> QED BY <1>1, <3>1, <3>2 DEF Roomy, TotalGap
  <2> QED BY <1>1, <2>1, <2>2, <2>3 DEF SpacedIn
<1> QED BY <1>5, <1>6, <1>7, <1>9 DEF Good, SortedIn, FreshlyIn, g

\* The pushes of one node.
LEMMA PushGood ==
  ASSUME NEW g, Good(g), NEW w \in Windows \ HeldBy(g)
  PROVE  /\ Follows(g, PushNodeBack(g, WindowNode(w)), {})
         /\ Follows(g, PushNodeFront(g, WindowNode(w)), {})
<1>1. WindowNode(w) \in Node /\ AllNew(<<WindowNode(w)>>, {w})
  BY NodeIs
<1>2. /\ IsGroup(g) /\ SortedIn(g) /\ Len(g.children) \in 0 .. Len(g.children)
      /\ {w} \cap HeldBy(g) = {}
  BY DEF Good, IsGroup
<1>3. Follows(g, PushLast(g, WindowNode(w)), {})
  BY <1>1, <1>2, PushLastGrows, GrownGood
<1>4. Follows(g, PushFirst(g, WindowNode(w)), {})
  <2>1. 0 \in 0 .. Len(g.children)
    BY <1>2 DEF IsGroup
  <2> QED BY <1>1, <1>2, <2>1, PushFirstGrows, GrownGood
<1> QED BY <1>3, <1>4 DEF PushNodeBack, PushNodeFront

\* The pushes of a batch: in a reversed group they leave the additions only
\* sorted.
LEMMA PushManyGood ==
  ASSUME NEW g, Good(g), NEW nodes \in Seq(Node), NEW V, AllNew(nodes, V),
         V \cap HeldBy(g) = {}
  PROVE  /\ "push_windows_back" \in Calls => Follows(g, PushNodesBack(g, nodes), {})
         /\ "push_windows_front" \in Calls => Follows(g, PushNodesFront(g, nodes), {})
<1>1. IsGroup(g) /\ SortedIn(g)
  BY DEF Good
<1>2. Len(g.children) \in 0 .. Len(g.children) /\ 0 \in 0 .. Len(g.children) /\ Len(nodes) \in Nat
  BY <1>1 DEF IsGroup
<1>3. OrientationOf(g) \in {Start} \cup Turns
  BY OrientationIs
<1>4. ASSUME "push_windows_back" \in Calls PROVE Follows(g, PushNodesBack(g, nodes), {})
  <2>1. PICK i \in {0, Len(g.children)} :
          /\ Grown(g, PushNodesBack(g, nodes), i, Len(g.children), Len(nodes), V)
          /\ ~Reversed(OrientationOf(g)) => i = Len(g.children)
    BY <1>1, PushNodesBackGrows
  <2>2. NoReversedBatch => i = Len(g.children)
    BY <1>3, <1>4, <2>1 DEF NoReversedBatch
  <2> QED BY <1>2, <2>1, <2>2, GrownGood
<1>5. ASSUME "push_windows_front" \in Calls PROVE Follows(g, PushNodesFront(g, nodes), {})
  <2>1. PICK i \in {0, Len(g.children)} :
          /\ Grown(g, PushNodesFront(g, nodes), i, 0, Len(nodes), V)
          /\ ~Reversed(OrientationOf(g)) => i = 0
    BY <1>1, PushNodesFrontGrows
  <2>2. NoReversedBatch => i = 0
    BY <1>3, <1>5, <2>1 DEF NoReversedBatch
  <2> QED BY <1>2, <2>1, <2>2, GrownGood
<1> QED BY <1>4, <1>5

\* Insertions.
LEMMA InsertGood ==
  ASSUME NEW g, Good(g), NEW nodes \in Seq(Node), NEW V, AllNew(nodes, V),
         V \cap HeldBy(g) = {},
         NEW i \in 0 .. Len(g.children), ~InsertPanics(g, i)
  PROVE  Follows(g, InsertNodes(g, i, nodes), {})
<1>1. IsGroup(g) /\ SortedIn(g) /\ Len(nodes) \in Nat
  BY DEF Good
<1>2. PICK slot \in 0 .. Len(g.children) :
        Grown(g, InsertNodes(g, i, nodes), slot, slot, Len(nodes), V)
  BY <1>1, InsertNodesGrows
<1> QED BY <1>1, <1>2, GrownGood

\* Removals.
LEMMA RemoveGood ==
  ASSUME NEW g, Good(g), NEW i \in 0 .. Len(g.children) - 1
  PROVE  Follows(g, RemoveNode(g, i),
                 {g.children[Slot(g.orientation, Len(g.children), i) + 1].window})
<1> DEFINE slot == Slot(g.orientation, Len(g.children), i)
           h == RemoveNode(g, i)
<1>1. IsGroup(g) /\ SortedIn(g)
  BY DEF Good
<1>2. /\ slot \in 0 .. Len(g.children) - 1
      /\ Shrunk(g, h, slot)
      /\ h.removed = g.removed + g.children[slot + 1].size[Axis(g.orientation)]
  BY <1>1, RemoveNodeShrinks
<1> HIDE DEF slot, h
<1>3. Follows(g, h, {g.children[slot + 1].window})
  BY <1>2, ShrunkGood
<1> QED BY <1>3 DEF h, slot

\* Pops.
LEMMA PopGood ==
  ASSUME NEW g, Good(g), g.children # <<>>, ~NoPops
  PROVE  /\ Follows(g, PopLast(g), {g.children[Len(g.children)].window})
         /\ Follows(g, PopFirst(g), {g.children[1].window})
<1>1. IsGroup(g) /\ SortedIn(g)
  BY DEF Good
<1>2. 0 \in 0 .. Len(g.children) - 1 /\ Len(g.children) - 1 \in 0 .. Len(g.children) - 1
  BY <1>1 DEF IsGroup
<1>3. Follows(g, PopLast(g), {g.children[Len(g.children)].window})
  <2> DEFINE i == Len(g.children) - 1
  <2>1. i \in 0 .. Len(g.children) - 1 /\ i + 1 = Len(g.children)
    BY <1>2
  <2>2. Shrunk(g, PopLast(g), i) /\ PopLast(g).removed = g.removed
    BY <1>1, PopLastShrinks
  <2> HIDE DEF i
  <2>3. Follows(g, PopLast(g), {g.children[i + 1].window})
    BY <2>1, <2>2, ShrunkGood
  <2> QED BY <2>1, <2>3
<1>4. Follows(g, PopFirst(g), {g.children[1].window})
  <2> DEFINE i == 0
  <2>1. Shrunk(g, PopFirst(g), i) /\ PopFirst(g).removed = g.removed
    BY <1>1, PopFirstShrinks
  <2>2. i \in 0 .. Len(g.children) - 1 /\ i + 1 = 1
    BY <1>2
  <2> HIDE DEF i
  <2>3. Follows(g, PopFirst(g), {g.children[i + 1].window})
    BY <2>1, <2>2, ShrunkGood
  <2> QED BY <2>2, <2>3
<1> QED BY <1>3, <1>4

\* replace_window.
LEMMA ReplaceGood ==
  ASSUME NEW g, Good(g), NEW k \in 1 .. Len(g.children), NEW w \in Windows \ HeldBy(g), NEW h,
         h = [g EXCEPT !.children[k].window = w, !.children[k].changed = TRUE]
  PROVE  Follows(g, h, {g.children[k].window})
<1> DEFINE c == g.children
           node == [c[k] EXCEPT !.window = w, !.changed = TRUE]
           d == [c EXCEPT ![k] = node]
<1>1. c \in Seq(Node) /\ Len(c) \in Nat /\ k \in 1 .. Len(c)
  BY DEF Good, IsGroup
<1>2. h = [g EXCEPT !.children = d]
  BY <1>1 DEF Good, IsGroup
<1>3. c[k] \in Node
  BY <1>1
<1>4. /\ node \in Node /\ node.fresh = c[k].fresh /\ node.window = w /\ node.changed
      /\ node.at = c[k].at /\ node.size = c[k].size
  BY <1>3 DEF Node
<1> HIDE DEF node
<1>5. /\ d \in Seq(Node) /\ Len(d) = Len(c) /\ d[k] = node
      /\ \A j \in 1 .. Len(c) : j # k => d[j] = c[j]
  BY <1>1, <1>4
<1> HIDE DEF d
<1>6. /\ h.children = d /\ h.additions = g.additions
      /\ h.orientation = g.orientation /\ h.newOrientation = g.newOrientation
      /\ h.at = g.at /\ h.size = g.size /\ h.total = g.total /\ h.removed = g.removed
  BY <1>2 DEF Good, IsGroup
<1>7. IsGroup(h) /\ TurnedIn(h)
  BY <1>2, <1>5, <1>6 DEF Good, IsGroup, TurnedIn
<1>8. \A j \in 1 .. Len(c) : /\ d[j].fresh = c[j].fresh
                             /\ d[j].at = c[j].at /\ d[j].size = c[j].size
  BY <1>4, <1>5
<1>9. OnceIn(h)
  <2>1. \A j \in 1 .. Len(c) : c[j].window # w
    BY DEF HeldBy
  <2>2. \A i, j \in 1 .. Len(c) : c[i].window = c[j].window => i = j
    BY DEF Good, OnceIn
  <2>3. \A i, j \in 1 .. Len(c) : d[i].window = d[j].window => i = j
    BY <1>4, <1>5, <2>1, <2>2
  <2>4. Len(h.children) = Len(c) /\ h.children = d
    BY <1>5, <1>6
  <2> HIDE DEF c
  <2> QED BY <2>3, <2>4 DEF OnceIn
<1>10. Good(h)
  BY <1>5, <1>6, <1>7, <1>8, <1>9, SameListsGood
<1>11. ASSUME NEW j \in 1 .. Len(c), ~d[j].changed
       PROVE  d[j] = c[j] /\ c[j].window \notin {c[k].window}
  <2>1. j # k
    BY <1>4, <1>5, <1>11
  <2>2. c[j].window # c[k].window
    BY <1>1, <2>1 DEF Good, OnceIn
  <2> QED BY <1>5, <2>1, <2>2
<1> QED BY <1>5, <1>6, <1>10, <1>11, FollowsIs

\* The calls that leave their effect to apply_changes leave all the rest.
SameNodes(g, h) ==
  /\ h.children = g.children /\ h.additions = g.additions
  /\ h.total = g.total /\ h.removed = g.removed
  /\ h.orientation = g.orientation /\ h.at = g.at /\ h.size = g.size

\* A call that keeps the nodes keeps a group good.
LEMMA SameNodesGood ==
  ASSUME NEW g, Good(g), NEW h, IsGroup(h), TurnedIn(h), SameNodes(g, h)
  PROVE  Follows(g, h, {})
<1>1. OnceIn(h)
  BY DEF SameNodes, OnceIn, Good
<1>2. Good(h)
  BY <1>1, SameListsGood DEF SameNodes
<1> QED BY <1>2, FollowsIs DEF SameNodes

\* A pending side or corner.
LEMMA WithIs ==
  ASSUME NEW pending, NEW D \in SUBSET Axes, pending \in [D -> Int],
         NEW axis \in Axes, NEW value \in Int
  PROVE  \E E \in SUBSET Axes : With(pending, axis, value) \in [E -> Int]
<1>1. With(pending, axis, value) \in [D \cup {axis} -> Int]
  BY DEF With
<1> QED BY <1>1

\* set_orientation and rotate_by; the setters of sides and corner.
LEMMA SettersGood ==
  ASSUME NEW g, Good(g)
  PROVE  /\ \A o \in Turns : Follows(g, SetOrientation(g, o), {})
         /\ \A axis \in Axes, value \in Int :
              /\ Follows(g, SetSize(g, axis, value), {})
              /\ Follows(g, SetPlace(g, axis, value), {})
<1>1. IsGroup(g) /\ TurnedIn(g)
  BY DEF Good
<1>2. ASSUME NEW o \in Turns PROVE Follows(g, SetOrientation(g, o), {})
  <2> DEFINE h == SetOrientation(g, o)
  <2>1. h = [g EXCEPT !.newOrientation = o]
    BY DEF SetOrientation
  <2> HIDE DEF h
  <2>2. SameNodes(g, h) /\ h.newOrientation = o
    BY <1>1, <2>1 DEF SameNodes, IsGroup
  <2>3. IsGroup(h) /\ TurnedIn(h)
    BY <1>1, <2>1, <2>2, CallsAssumption DEF SameNodes, IsGroup, TurnedIn
  <2> QED BY <2>2, <2>3, SameNodesGood DEF h
<1>3. ASSUME NEW axis \in Axes, NEW value \in Int
      PROVE  /\ Follows(g, SetSize(g, axis, value), {})
             /\ Follows(g, SetPlace(g, axis, value), {})
  <2>1. PICK D \in SUBSET Axes : g.newSize \in [D -> Int]
    BY <1>1 DEF IsGroup
  <2>2. PICK E \in SUBSET Axes : g.newAt \in [E -> Int]
    BY <1>1 DEF IsGroup
  <2>3. \E F \in SUBSET Axes : With(g.newSize, axis, value) \in [F -> Int]
    BY <2>1, WithIs
  <2>4. \E F \in SUBSET Axes : With(g.newAt, axis, value) \in [F -> Int]
    BY <2>2, WithIs
  <2>5. Follows(g, SetSize(g, axis, value), {})
    <3> DEFINE size == With(g.newSize, axis, value)
               h == SetSize(g, axis, value)
    <3>1. h = [g EXCEPT !.newSize = size]
      BY DEF SetSize
    <3> HIDE DEF h, size
    <3>2. SameNodes(g, h) /\ h.newOrientation = g.newOrientation
      BY <1>1, <3>1 DEF SameNodes, IsGroup
    <3>3. IsGroup(h) /\ TurnedIn(h)
      BY <1>1, <2>3, <3>1, <3>2 DEF SameNodes, IsGroup, TurnedIn, size
    <3> QED BY <3>2, <3>3, SameNodesGood DEF h
  <2>6. Follows(g, SetPlace(g, axis, value), {})
    <3> DEFINE at == With(g.newAt, axis, value)
               h == SetPlace(g, axis, value)
    <3>1. h = [g EXCEPT !.newAt = at]
      BY DEF SetPlace
    <3> HIDE DEF h, at
    <3>2. SameNodes(g, h) /\ h.newOrientation = g.newOrientation
      BY <1>1, <3>1 DEF SameNodes, IsGroup
    <3>3. IsGroup(h) /\ TurnedIn(h)
      BY <1>1, <2>4, <3>1, <3>2 DEF SameNodes, IsGroup, TurnedIn, at
    <3> QED BY <3>2, <3>3, SameNodesGood DEF h
  <2> QED BY <2>5, <2>6
<1> QED BY <1>2, <1>3

\* What apply_changes relies on holds of a good group.
LEMMA MeasuredIs ==
  ASSUME NEW g, Good(g)
  PROVE  Measured(g) /\ Sized(g)
<1>1. IsGroup(g) /\ SortedIn(g) /\ Grounded(g) /\ SidesTotal(g) + g.removed <= g.total
  BY DEF Good, SpacedIn
<1>2. IsGroup(TakeChanges(g))
  BY <1>1, TakenGroup
<1>3. NewSide(g) \in Int
  <2> DEFINE after == TakeChanges(g)
  <2>1. Axis(after.orientation) \in Axes
    BY AxisIs
  <2> HIDE DEF after
  <2>2. after.size[Axis(after.orientation)] \in Int
    BY <1>2, <2>1 DEF IsGroup, after
  <2> QED BY <2>2 DEF NewSide, after
<1>4. Measured(g)
  BY <1>1, <1>3 DEF Measured, IsGroup, SortedIn, Grounded
<1>5. \A k \in 1 .. Len(g.children) : {"at", "size", "fresh"} \subseteq DOMAIN g.children[k]
  <2>1. \A k \in 1 .. Len(g.children) : g.children[k] \in Node
    BY <1>1 DEF IsGroup
  <2>2. \A node \in Node : {"at", "size", "fresh"} \subseteq DOMAIN node
    BY DEF Node
  <2> QED BY <2>1, <2>2
<1>6. Sized(g)
  BY <1>1, <1>2, <1>5 DEF Sized, IsGroup, GroupFields
<1> QED BY <1>4, <1>6

\* apply_changes, up to the children's own.
LEMMA ArrangedGood ==
  ASSUME NEW g, Good(g), ~ApplyPanics(g)
  PROVE  /\ Good(Arranged(g)) /\ Len(Arranged(g).children) = Len(g.children)
         /\ \A k \in 1 .. Len(g.children) :
              /\ Arranged(g).children[k].window = g.children[k].window
              /\ Arranged(g).children[k].changed = g.children[k].changed
<1>1. CASE ~ChangesMade(g)
  BY <1>1 DEF Arranged
<1>2. CASE ChangesMade(g)
  <2> DEFINE h == Arranged(g)
             m == Len(g.children)
  <2>1. Measured(g) /\ Sized(g) /\ m \in Nat
    BY MeasuredIs DEF Measured
  <2>2. /\ h.orientation = OrientationOf(g) /\ h.newOrientation = None /\ h.removed = 0
        /\ \A k \in 1 .. m : h.children[k] = Configured(g, Lengths(g), k)
        /\ h.size[Axis(h.orientation)] = NewSide(g)
        /\ h.total = PartialSums(Lengths(g))[m]
    <3>1. TakeChanges(g).orientation = OrientationOf(g)
      BY <2>1, TakenFields DEF Sized
    <3> QED BY <1>2, <2>1, <3>1, ArrangedFields DEF NewSide
  <2>3. Lengths(g) \in Seq(Nat) /\ Len(Lengths(g)) = m
    BY <1>2, <2>1, LengthsFit
  <2>4. ASSUME NEW k \in 1 .. m
        PROVE  /\ h.children[k].window = g.children[k].window
               /\ h.children[k].changed = g.children[k].changed
    <3> DEFINE x == Configured(g, Lengths(g), k)
    <3>1. x = [g.children[k] EXCEPT !.at = x.at, !.size = x.size, !.fresh = FALSE]
      BY <2>1, <2>3, ConfiguredAt
    <3>2. g.children[k] \in Node
      BY DEF Good, IsGroup
    <3> HIDE DEF x
    <3>3. x.window = g.children[k].window /\ x.changed = g.children[k].changed
      BY <3>1, <3>2 DEF Node
    <3> QED BY <2>2, <3>3 DEF x
  <2>5. /\ Laid(h) /\ \A k \in 1 .. m : ~h.children[k].fresh
        /\ Len(h.children) = m
        /\ \A k \in 1 .. m : Sides(h)[k] = Lengths(g)[k]
        /\ h.total = SidesTotal(h)
    BY <1>2, <2>1, ArrangedLaid
  <2>6. /\ IsGroup(h) /\ SortedIn(h)
        /\ FreshlyIn(g) => FreshlyIn(h)
    BY ArrangedKeeps DEF Good
  <2>7. TurnedIn(h)
    BY <2>2, OrientationIs DEF TurnedIn
  <2> HIDE DEF h
  <2>8. Grounded(h)
    <3>1. \A k \in 1 .. m : Lengths(g)[k] \in Nat
      BY <2>3
    <3>2. \A k \in 1 .. m : h.children[k].size[Axis(h.orientation)] \in Nat
      BY <2>5, <3>1 DEF Sides
    <3> QED BY <2>1, <2>5, <3>2 DEF Grounded
  <2>9. SpacedIn(h)
    <3>1. SidesTotal(h) \in Nat
      BY <2>8, SidesAre DEF Grounded
    <3>2. Roomy(h)
      <4>1. PlacedCount(h) = m
        BY <2>1, <2>5, CountFull
      <4>2. NewSide(g) \in Int /\ TotalGap(m) \in Nat
        BY <2>1, GapsGrow DEF Measured
      <4>3. h.total <= NewSide(g) - TotalGap(m)
        <5>1. CASE m = 0
          <6>1. IsSums(PartialSums(Sides(h)), Sides(h), 0)
            BY <2>5, <2>8, <5>1, SidesAre DEF Grounded
          <6>2. h.total = 0
            BY <2>5, <5>1, <6>1 DEF IsSums, SidesTotal
          <6>3. ~(NewSide(g) < TotalGap(m))
            BY <1>2 DEF ApplyPanics, NewSide
          <6> QED BY <4>2, <6>2, <6>3
        <5>2. CASE m > 0
          BY <1>2, <2>1, <2>2, <5>2, LengthsFit DEF Free
        <5> QED BY <2>1, <5>1, <5>2
      <4> QED BY <2>2, <2>5, <3>1, <4>1, <4>2, <4>3 DEF Roomy
    <3> QED BY <2>2, <2>5, <2>8, <3>1, <3>2 DEF SpacedIn
  <2>10. OnceIn(h)
    BY <2>4, <2>5 DEF OnceIn, Good
  <2> QED BY <2>4, <2>5, <2>6, <2>7, <2>9, <2>10 DEF Good, h
<1> QED BY <1>1, <1>2

\* apply_changes.
LEMMA ApplyGood ==
  ASSUME NEW g, Good(g), ~ApplyPanics(g)
  PROVE  /\ Good(Apply(g)) /\ Len(Apply(g).children) = Len(g.children)
         /\ \A k \in 1 .. Len(g.children) :
              /\ Apply(g).children[k] = Leaf(Arranged(g).children[k])
              /\ Apply(g).children[k].window = g.children[k].window
<1> DEFINE p == Arranged(g)
           h == Apply(g)
           m == Len(g.children)
           c == [k \in 1 .. m |-> Leaf(p.children[k])]
<1>1. /\ Good(p) /\ Len(p.children) = m
      /\ \A k \in 1 .. m : p.children[k].window = g.children[k].window
  BY ArrangedGood
<1>2. IsGroup(h)
  BY ApplyKeeps DEF Good
<1> HIDE DEF p
<1>3. m \in Nat /\ DOMAIN p.children = 1 .. m /\ \A k \in 1 .. m : p.children[k] \in Node
  BY <1>1 DEF Good, IsGroup
<1> HIDE DEF m
<1>4. h = [p EXCEPT !.children = c] /\ Len(c) = m
  BY <1>3 DEF Apply, p
<1>5. \A node \in Node : /\ Leaf(node).fresh = node.fresh /\ Leaf(node).window = node.window
                         /\ Leaf(node).at = node.at /\ Leaf(node).size = node.size
  BY DEF Leaf, Node
<1>6. \A k \in 1 .. m : /\ c[k] = Leaf(p.children[k])
                        /\ c[k].fresh = p.children[k].fresh
                        /\ c[k].window = p.children[k].window
                        /\ c[k].at = p.children[k].at /\ c[k].size = p.children[k].size
  BY <1>3, <1>5
<1> HIDE DEF c, h
<1>7. /\ h.children = c /\ h.additions = p.additions
      /\ h.orientation = p.orientation /\ h.newOrientation = p.newOrientation
      /\ h.at = p.at /\ h.size = p.size /\ h.total = p.total /\ h.removed = p.removed
  BY <1>1, <1>4 DEF Good, IsGroup
<1>8. TurnedIn(h)
  BY <1>1, <1>7 DEF Good, TurnedIn
<1>9. OnceIn(h)
  BY <1>1, <1>4, <1>6, <1>7 DEF Good, OnceIn
<1>10. Good(h)
  <2>1. Len(h.children) = Len(p.children)
    BY <1>1, <1>4, <1>7
  <2>2. \A k \in 1 .. Len(p.children) : /\ h.children[k].fresh = p.children[k].fresh
                                        /\ h.children[k].at = p.children[k].at
                                        /\ h.children[k].size = p.children[k].size
    BY <1>1, <1>6, <1>7
  <2> QED BY <1>1, <1>2, <1>7, <1>8, <1>9, <2>1, <2>2, SameListsGood
<1> QED BY <1>1, <1>4, <1>6, <1>7, <1>10 DEF h, p, m

-----------------------------------------------------------------------------
(* The invariant of every run.                                             *)

Places == [at : [Axes -> Int], size : [Axes -> Int]]
ToldIs(t) == \E D \in SUBSET Windows : t \in [D -> Places]

\* What is forgotten leaves the rest of `told` as it was.
LEMMA ForgetIs ==
  ASSUME TypeOK, NEW windows
  PROVE  ToldIs(Forget(windows)) /\ Spares(told, Forget(windows), windows)
<1>1. PICK D \in SUBSET Windows : told \in [D -> Places]
  BY DEF TypeOK, Places
<1>2. Forget(windows) \in [D \ windows -> Places]
  BY <1>1 DEF Forget
<1>3. Spares(told, Forget(windows), windows)
  BY DEF Spares, Forget
<1> QED BY <1>2, <1>3 DEF ToldIs

\* Each window that is reconfigured is told the place of its node, and no other
\* node that was placed has moved.
LEMMA AppliedTold ==
  ASSUME Inv, ApplyChanges
  PROVE  ToldIs(told') /\ ToldIn(group', told')
<1> DEFINE c == group.children
           d == group'.children
           n == Len(c)
           reached == {c[k].window : k \in Reconfigured(group)}
           Placed(w) == d[CHOOSE k \in DOMAIN c : c[k].window = w]
<1>1. PICK D \in SUBSET Windows : told \in [D -> Places]
  BY DEF Inv, TypeOK, Places
<1>2. told' = [w \in D \cup reached |->
                 IF w \in reached THEN [at |-> Placed(w).at, size |-> Placed(w).size]
                 ELSE told[w]]
  BY <1>1 DEF ApplyChanges
<1>3. /\ Good(group) /\ ~ApplyPanics(group) /\ group' = Apply(group)
      /\ ToldIn(group, told)
  BY DEF Inv, ApplyChanges
<1>4. /\ Good(group') /\ Len(d) = n
      /\ \A k \in 1 .. n : /\ d[k] = Leaf(Arranged(group).children[k])
                           /\ d[k].window = c[k].window
  BY <1>3, ApplyGood
<1>5. /\ DOMAIN c = 1 .. n
      /\ \A k \in 1 .. n : c[k] \in Node /\ d[k] \in Node
  BY <1>3, <1>4 DEF Good, IsGroup
<1>6. \A k \in 1 .. n : k \in Reconfigured(group) <=> ChangesMade(group) \/ c[k].changed
  BY <1>5 DEF Reconfigured, Node
<1>7. Reconfigured(group) \subseteq 1 .. n
  BY <1>5 DEF Reconfigured
<1> HIDE DEF d
<1>8. ASSUME NEW k \in 1 .. n PROVE Placed(c[k].window) = d[k]
  <2>1. \A j \in 1 .. n : c[j].window = c[k].window => j = k
    BY <1>3 DEF Good, OnceIn
  <2> QED BY <1>5, <2>1
<1> HIDE DEF Placed
<1>9. ToldIs(told')
  <2>1. reached \subseteq Windows
    BY <1>5, <1>7 DEF Node
  <2>2. \A w \in reached : Placed(w) \in Node
    BY <1>5, <1>7, <1>8
  <2>3. \A w \in reached : [at |-> Placed(w).at, size |-> Placed(w).size] \in Places
    BY <2>2 DEF Node, Places
  <2> HIDE DEF reached
  <2>4. told' \in [D \cup reached -> Places] /\ D \cup reached \in SUBSET Windows
    BY <1>1, <1>2, <2>1, <2>3
  <2> QED BY <2>4 DEF ToldIs
<1>10. ASSUME NEW k \in 1 .. n, ~d[k].fresh, ~d[k].changed
       PROVE  /\ d[k].window \in DOMAIN told'
              /\ told'[d[k].window] = [at |-> d[k].at, size |-> d[k].size]
  <2> DEFINE w == c[k].window
  <2>1. d[k].window = w
    BY <1>4
  <2>2. CASE k \in Reconfigured(group)
    <3>1. w \in reached /\ Placed(w) = d[k]
      BY <1>8, <2>2
    <3> HIDE DEF reached, w
    <3>2. w \in DOMAIN told' /\ told'[w] = [at |-> d[k].at, size |-> d[k].size]
      BY <1>2, <3>1
    <3> QED BY <2>1, <3>2
  <2>3. CASE k \notin Reconfigured(group)
    <3>1. ~ChangesMade(group) /\ ~c[k].changed
      BY <1>6, <2>3
    <3>2. d[k] = Leaf(c[k])
      BY <1>4, <3>1 DEF Arranged
    <3>3. d[k].fresh = c[k].fresh /\ d[k].at = c[k].at /\ d[k].size = c[k].size
      BY <1>5, <3>2 DEF Leaf, Node
    <3>4. w \in DOMAIN told /\ told[w] = [at |-> c[k].at, size |-> c[k].size]
      BY <1>3, <1>10, <3>1, <3>3 DEF ToldIn
    <3>5. w \notin reached
      <4>1. \A j \in 1 .. n : c[j].window = c[k].window => j = k
        BY <1>3 DEF Good, OnceIn
      <4> QED BY <1>7, <2>3, <4>1
    <3> HIDE DEF reached, w
    <3>6. w \in DOMAIN told' /\ told'[w] = told[w]
      BY <1>1, <1>2, <3>4, <3>5
    <3> QED BY <2>1, <3>3, <3>4, <3>6
  <2> QED BY <2>2, <2>3
<1>11. ToldIn(group', told')
  BY <1>4, <1>10 DEF ToldIn, d
<1> QED BY <1>9, <1>11

\* A call keeps the invariant when what was told is right of the group that it
\* leaves, but for the windows that it forgets.
LEMMA CallKeeps ==
  ASSUME Inv, NEW W, Follows(group, group', W), panicked' \in BOOLEAN,
         told' = told \/ told' = Forget(W)
  PROVE  Inv'
<1>1. ToldIs(told') /\ Spares(told, told', W)
  <2>1. CASE told' = told
    BY <2>1 DEF Inv, TypeOK, ToldIs, Places, Spares
  <2>2. CASE told' = Forget(W)
    BY <2>2, ForgetIs DEF Inv
  <2> QED BY <2>1, <2>2
<1>2. Good(group') /\ ToldIn(group', told')
  BY <1>1 DEF Follows, Inv
<1> QED BY <1>1, <1>2 DEF Inv, TypeOK, Good, ToldIs, Places

\* Nothing that is left alone is wrong.
LEMMA SameKeeps ==
  ASSUME Inv, group' = group, told' = told, panicked' \in BOOLEAN
  PROVE  Inv'
  BY DEF Inv, TypeOK

\* A batch of windows that the group does not have.
LEMMA BatchIs ==
  ASSUME NEW batch \in Batches
  PROVE  /\ Nodes(batch) \in Seq(Node)
         /\ AllNew(Nodes(batch), Windows \ Held)
<1>1. PICK n \in 1 .. 2 : batch \in [1 .. n -> Windows \ Held]
  BY DEF Batches
<1>2. \A j, k \in 1 .. n : batch[j] = batch[k] => j = k
  BY <1>1 DEF Batches, IsInjective
<1>3. \A k \in 1 .. n : WindowNode(batch[k]) \in Node
  BY <1>1, NodeIs
<1>4. \A k \in 1 .. n : IsNew(WindowNode(batch[k]), Windows \ Held)
  BY <1>1 DEF WindowNode, IsNew
<1>5. Nodes(batch) = [k \in 1 .. n |-> WindowNode(batch[k])]
  BY <1>1 DEF Nodes
<1>6. /\ Nodes(batch) \in Seq(Node) /\ Len(Nodes(batch)) = n
      /\ \A k \in 1 .. n : Nodes(batch)[k] = WindowNode(batch[k])
  BY <1>3, <1>5
<1>7. \A k \in 1 .. n : Nodes(batch)[k].window = batch[k]
  BY <1>6 DEF WindowNode
<1> DEFINE nodes == Nodes(batch)
           V == Windows \ Held
<1>8. \A k \in 1 .. Len(nodes) : IsNew(nodes[k], V)
  BY <1>4, <1>6
<1>9. \A j, k \in 1 .. Len(nodes) : nodes[j].window = nodes[k].window => j = k
  BY <1>2, <1>6, <1>7
<1> HIDE DEF nodes, V
<1>10. AllNew(nodes, V)
  BY <1>8, <1>9 DEF AllNew
<1> QED BY <1>6, <1>10 DEF nodes, V

\* The invariant is inductive.
LEMMA Inductive ==
  Inv /\ [Next]_vars => Inv'
<1> SUFFICES ASSUME Inv, [Next]_vars PROVE Inv'
  OBVIOUS
<1>1. Good(group) /\ panicked \in BOOLEAN
  BY DEF Inv, TypeOK
<1>2. /\ group.children \in Seq(Node) /\ Len(group.children) \in Nat
      /\ Held = HeldBy(group) /\ (Windows \ Held) \cap HeldBy(group) = {}
  BY <1>1 DEF Good, IsGroup, Held, HeldBy
<1>3. CASE UNCHANGED vars
  BY <1>1, <1>3, SameKeeps DEF vars
<1>4. ASSUME NEW w \in Windows \ Held, PushBack(w) \/ PushFront(w)
      PROVE  Inv'
  <2>1. Follows(group, group', {}) /\ told' = told /\ panicked' = panicked
    BY <1>1, <1>2, <1>4, PushGood DEF PushBack, PushFront, Becomes
  <2> QED BY <1>1, <2>1, CallKeeps
<1>5. ASSUME NEW w \in Windows \ Held, NEW i \in Indices \cup {Len(group.children)}, Insert(i, w)
      PROVE  Inv'
  <2>1. WindowNode(w) \in Node /\ AllNew(<<WindowNode(w)>>, {w})
    BY NodeIs
  <2>2. /\ i \in 0 .. Len(group.children) /\ <<WindowNode(w)>> \in Seq(Node)
        /\ {w} \cap HeldBy(group) = {}
    BY <1>2, <2>1 DEF Indices
  <2>3. Follows(group, InsertNodes(group, i, <<WindowNode(w)>>), {})
    BY <1>1, <1>5, <2>1, <2>2, InsertGood DEF Insert
  <2>4. Follows(group, group', {}) /\ told' = told /\ panicked' = panicked
    BY <1>5, <2>3 DEF Insert, InsertNode, Becomes
  <2> QED BY <1>1, <2>4, CallKeeps
<1>6. ASSUME NEW w \in Windows \ Held, NEW i \in Indices, ReplaceWindow(i, w)
      PROVE  Inv'
  <2> DEFINE slot == Slot(OrientationOf(group), Len(group.children), i)
             k == slot + 1
  <2>1. k \in 1 .. Len(group.children)
    BY <1>2 DEF Indices, Slot
  <2>2. group' = [group EXCEPT !.children[k].window = w, !.children[k].changed = TRUE]
    BY <1>6 DEF ReplaceWindow
  <2>3. told' = Forget({group.children[k].window}) /\ panicked' = panicked
    BY <1>6 DEF ReplaceWindow
  <2> HIDE DEF k
  <2>4. Follows(group, group', {group.children[k].window})
    BY <1>1, <1>2, <2>1, <2>2, ReplaceGood
  <2> QED BY <1>1, <2>3, <2>4, CallKeeps
<1>7. ASSUME NEW batch \in Batches,
             \/ PushManyBack(batch)
             \/ PushManyFront(batch)
             \/ \E i \in Indices \cup {Len(group.children)} : InsertMany(i, batch)
      PROVE  Inv'
  <2>1. Nodes(batch) \in Seq(Node) /\ AllNew(Nodes(batch), Windows \ Held)
    BY BatchIs
  <2>2. Follows(group, group', {}) /\ told' = told /\ panicked' = panicked
    <3>1. CASE PushManyBack(batch)
      BY <1>1, <1>2, <2>1, <3>1, PushManyGood DEF PushManyBack, Becomes
    <3>2. CASE PushManyFront(batch)
      BY <1>1, <1>2, <2>1, <3>2, PushManyGood DEF PushManyFront, Becomes
    <3>3. ASSUME NEW i \in Indices \cup {Len(group.children)}, InsertMany(i, batch)
          PROVE  Follows(group, group', {}) /\ told' = told /\ panicked' = panicked
      <4>1. i \in 0 .. Len(group.children)
        BY <1>2 DEF Indices
      <4>2. Follows(group, InsertNodes(group, i, Nodes(batch)), {})
        BY <1>1, <1>2, <2>1, <3>3, <4>1, InsertGood DEF InsertMany
      <4> QED BY <3>3, <4>2 DEF InsertMany, Becomes
    <3> QED BY <1>7, <3>1, <3>2, <3>3
  <2> QED BY <1>1, <2>2, CallKeeps
<1>8. ASSUME NEW i \in Indices \cup {Len(group.children)}, InsertFails(i)
      PROVE  Inv'
  BY <1>8, SameKeeps DEF InsertFails
<1>9. ASSUME NEW i \in Indices, RemoveNth(i)
      PROVE  Inv'
  <2> DEFINE w == group.children[Slot(group.orientation, Len(group.children), i) + 1].window
  <2>1. Follows(group, RemoveNode(group, i), {w})
    BY <1>1, RemoveGood DEF Indices
  <2>2. group' = RemoveNode(group, i) /\ told' = Forget({w}) /\ panicked' = panicked
    BY <1>9 DEF RemoveNth, Discard
  <2> HIDE DEF w
  <2> QED BY <1>1, <2>1, <2>2, CallKeeps
<1>10. ASSUME PopAtBack \/ PopAtFront
       PROVE  Inv'
  <2>1. ~NoPops /\ group.children # <<>>
    BY <1>10 DEF PopAtBack, PopAtFront, NoPops
  <2>2. \/ /\ group' = PopLast(group)
           /\ told' = Forget({group.children[Len(group.children)].window})
        \/ /\ group' = PopFirst(group)
           /\ told' = Forget({group.children[1].window})
    BY <1>10 DEF PopAtBack, PopAtFront, PopBack, PopFront, Popped, Discard
  <2>3. panicked' = panicked
    BY <1>10 DEF PopAtBack, PopAtFront, Discard
  <2>4. /\ Follows(group, PopLast(group), {group.children[Len(group.children)].window})
        /\ Follows(group, PopFirst(group), {group.children[1].window})
    BY <1>1, <2>1, PopGood
  <2> QED BY <1>1, <2>2, <2>3, <2>4, CallKeeps
<1>11. ASSUME NEW o \in Turns, Turn(o)
       PROVE  Inv'
  <2>1. Follows(group, group', {}) /\ told' = told /\ panicked' = panicked
    BY <1>1, <1>11, SettersGood DEF Turn, Becomes
  <2> QED BY <1>1, <2>1, CallKeeps
<1>12. ASSUME NEW rotations \in {-1, 1, 2}, Rotate(rotations)
       PROVE  Inv'
  <2>1. Follows(group, group', {}) /\ told' = told /\ panicked' = panicked
    BY <1>1, <1>12, SettersGood DEF Rotate, Becomes
  <2> QED BY <1>1, <2>1, CallKeeps
<1>13. ASSUME NEW resize \in Resizes, Resize(resize[1], resize[2])
       PROVE  Inv'
  <2>1. resize[1] \in Axes /\ resize[2] \in Int
    BY CallsAssumption
  <2>2. Follows(group, group', {}) /\ told' = told /\ panicked' = panicked
    BY <1>1, <1>13, <2>1, SettersGood DEF Resize, Becomes
  <2> QED BY <1>1, <2>2, CallKeeps
<1>14. ASSUME NEW move \in Moves, Move(move[1], move[2])
       PROVE  Inv'
  <2>1. move[1] \in Axes /\ move[2] \in Int
    BY CallsAssumption
  <2>2. Follows(group, group', {}) /\ told' = told /\ panicked' = panicked
    BY <1>1, <1>14, <2>1, SettersGood DEF Move, Becomes
  <2> QED BY <1>1, <2>2, CallKeeps
<1>15. CASE ApplyChanges
  <2>1. Good(group')
    BY <1>1, <1>15, ApplyGood DEF ApplyChanges
  <2>2. ToldIs(told') /\ ToldIn(group', told') /\ panicked' = panicked
    BY <1>15, AppliedTold DEF ApplyChanges
  <2> QED BY <1>1, <2>1, <2>2 DEF Inv, TypeOK, Good, ToldIs, Places
<1>16. CASE ApplyFails
  BY <1>16, SameKeeps DEF ApplyFails
<1>17. QED
  BY <1>3, <1>4, <1>5, <1>6, <1>7, <1>8, <1>9, <1>10, <1>11, <1>12, <1>13, <1>14, <1>15, <1>16
  DEF Next

\* It holds of every state.
LEMMA Invariance ==
  Spec => []Inv
<1>1. Init => Inv
  <2> SUFFICES ASSUME Init PROVE Inv
    OBVIOUS
  <2>1. Good(group)
    BY InitGood DEF Init
  <2>2. told \in [{} -> Places]
    BY DEF Init
  <2>3. ToldIn(group, told)
    BY DEF ToldIn, Init, GroupOf
  <2> QED BY <2>1, <2>2, <2>3 DEF Inv, Init, TypeOK, Good, Places
<1>2. Inv /\ [Next]_vars => Inv'
  BY Inductive
<1> QED BY <1>1, <1>2, PTL DEF Spec

\* Whatever is called and in whatever order, for any windows and sizes, the
\* fields of the group and of its nodes stay of their types: the arithmetic of
\* apply_changes never divides by zero or leaves the integers unless the step
\* is the one that panics.
THEOREM TypeCorrect == Spec => []TypeOK
<1>1. Inv => TypeOK
  BY DEF Inv
<1> QED BY <1>1, Invariance, PTL

\* `additions` is always sorted and within the list of nodes, as the searches
\* of track_insert and track_remove and the walk of apply_changes rely on:
\* batches pushed to reversed groups included.
THEOREM Sorted == Spec => []AdditionsSorted
<1>1. Inv => AdditionsSorted
  BY DEF Inv, Good, SortedIn, AdditionsSorted, Indices
<1> QED BY <1>1, Invariance, PTL

\* When no batch is pushed to a group that can be reversed, `additions` names
\* the nodes that are new, all of them and no others, whatever else is called
\* in between: turning the group round, insertions, removals and pops.
THEOREM Fresh ==
  ASSUME NoReversedBatch
  PROVE  Spec => []AdditionsAreFresh
<1>1. Inv => AdditionsAreFresh
  BY DEF Inv, Good, FreshlyIn, FreshIn, AdditionsAreFresh, Indices
<1> QED BY <1>1, Invariance, PTL

-----------------------------------------------------------------------------
(* The room of the group.                                                  *)

\* The sizes of the nodes, under the names that the properties have for them.
LEMMA PrimariesAre ==
  ASSUME Inv
  PROVE  /\ PrimarySizes = Sides(group) /\ PrimaryTotal = SidesTotal(group)
         /\ Primary = group.size[Axis(group.orientation)]
         /\ DOMAIN group.children = 1 .. Lasts /\ Lasts \in Nat
         /\ PrimaryTotal \in Nat
         /\ \A k \in 1 .. Lasts : /\ PrimarySizes[k] \in Nat
                                  /\ PrimarySizes[k] <= PrimaryTotal
<1>1. DOMAIN group.children = 1 .. Lasts /\ Lasts \in Nat
  BY DEF Inv, Good, IsGroup, Lasts
<1>2. PrimarySizes = Sides(group)
  BY <1>1 DEF PrimarySizes, Sides, Lasts
<1>3. PrimaryTotal = SidesTotal(group)
  BY <1>2 DEF PrimaryTotal, SidesTotal, Lasts
<1>4. /\ \A k \in 1 .. Len(group.children) : Sides(group)[k] \in Nat
      /\ SidesTotal(group) \in Nat
      /\ \A k \in 1 .. Len(group.children) : Sides(group)[k] <= SidesTotal(group)
  BY SidesAre DEF Inv, Good, SpacedIn, Grounded
<1> QED BY <1>1, <1>2, <1>3, <1>4 DEF Primary, Lasts

\* Where there is nothing to apply every node has been placed.
LEMMA AllPlaced ==
  ASSUME Inv, NoReversedBatch, group.additions = <<>>
  PROVE  \A k \in 1 .. Lasts : ~group.children[k].fresh
<1>1. Members(group.additions) = {}
  BY DEF Members
<1>2. FreshIn(group.children) = {}
  BY <1>1 DEF Inv, Good, FreshlyIn
<1> SUFFICES ASSUME NEW k \in 1 .. Lasts, group.children[k].fresh PROVE FALSE
  OBVIOUS
<1>3. k - 1 \in 0 .. Len(group.children) - 1 /\ (k - 1) + 1 = k
  BY PrimariesAre DEF Lasts
<1> QED BY <1>2, <1>3 DEF FreshIn

\* Whatever is called, pops and batches pushed to reversed groups included, the
\* total never falls below the sizes of the nodes that are there and of those
\* that `remove` took: what apply_changes divides by total_node_primary is
\* never more than the room.
THEOREM TotalCovers == Spec => []TotalCoversNodes
<1>1. Inv => TotalCoversNodes
  <2> SUFFICES ASSUME Inv PROVE TotalCoversNodes
    OBVIOUS
  <2>1. PrimaryTotal = SidesTotal(group) /\ PrimaryTotal \in Nat
    BY PrimariesAre
  <2>2. SidesTotal(group) + group.removed <= group.total
    BY DEF Inv, Good, SpacedIn
  <2>3. group.total \in Int /\ group.removed \in Int
    BY DEF Inv, Good, IsGroup
  <2> QED BY <2>1, <2>2, <2>3 DEF TotalCoversNodes
<1> QED BY <1>1, Invariance, PTL

\* When no node is popped the total is their sum, to the pixel.
THEOREM TotalExact ==
  ASSUME NoPops
  PROVE  Spec => []TotalIsSum
<1>1. Inv => TotalIsSum
  BY PrimariesAre DEF TotalIsSum, Inv, Good, SpacedIn
<1> QED BY <1>1, Invariance, PTL

\* Whatever is called but a batch pushed to a group that can be reversed, once
\* changes are applied the nodes are inside the group, in its order, the gap
\* between each and the next: the divisions round so that they never overlap
\* or leave it, and a group that is turned or reversed is laid out as one that
\* is not.
THEOREM NodesFit ==
  ASSUME NoReversedBatch
  PROVE  Spec => []Fits
<1>1. Inv => Fits
  <2> SUFFICES ASSUME Inv, ~ChangesMade(group) PROVE Fits
    BY DEF Fits
  <2> DEFINE axis == Axis(group.orientation)
             other == OtherAxis(axis)
             Place(k) == IF Reversed(group.orientation) THEN Lasts + 1 - k ELSE k
  <2>1. Lasts \in Nat /\ Primary = group.size[axis]
    BY PrimariesAre
  <2>2. \A k \in 1 .. Lasts : ~group.children[k].fresh
    BY AllPlaced DEF ChangesMade
  <2>3. Laid(group)
    BY DEF Inv, Good, SpacedIn
  <2>4. \A k \in 1 .. Lasts : Inside(group, group.children[k])
    BY <2>2, <2>3 DEF Laid, Lasts
  <2>5. \A j, k \in 1 .. Lasts :
          j < k => IF Reversed(group.orientation)
                   THEN Apart(axis, group.children[k], group.children[j])
                   ELSE Apart(axis, group.children[j], group.children[k])
    BY <2>2, <2>3 DEF Laid, Lasts
  <2>6. \A k : InPlace(k) = group.children[Place(k)]
    BY DEF InPlace
  <2>7. Gap \in Int
    BY GapAssumption
  <2>8. ASSUME NEW k \in 1 .. Lasts
        PROVE  LET x == InPlace(k)
               IN  /\ x.size[axis] >= 0
                   /\ x.at[axis] >= group.at[axis]
                   /\ x.at[axis] + x.size[axis] <= group.at[axis] + Primary
                   /\ x.at[other] = group.at[other]
                   /\ x.size[other] = group.size[other]
    <3>1. Place(k) \in 1 .. Lasts
      BY <2>1
    <3>2. Inside(group, InPlace(k))
      BY <2>4, <2>6, <3>1
    <3> QED BY <2>1, <3>2 DEF Inside
  <2>9. ASSUME NEW k \in 1 .. Lasts, k < Lasts
        PROVE  InPlace(k).at[axis] + InPlace(k).size[axis] + Gap <= InPlace(k + 1).at[axis]
    <3>1. Place(k) \in 1 .. Lasts /\ Place(k + 1) \in 1 .. Lasts
      BY <2>1, <2>9
    <3>2. IF Reversed(group.orientation) THEN Place(k + 1) < Place(k) ELSE Place(k) < Place(k + 1)
      BY <2>1, <2>9
    <3> HIDE DEF Place
    <3>3. Apart(axis, group.children[Place(k)], group.children[Place(k + 1)])
      BY <2>5, <3>1, <3>2
    <3> QED BY <2>6, <3>3 DEF Apart
  <2> QED BY <2>8, <2>9 DEF Fits
<1> QED BY <1>1, Invariance, PTL

\* Whatever is called but a batch pushed to a group that can be reversed, once
\* changes are applied every window that was not replaced since has last been
\* told the place that its node has: a window that takes another's node is
\* reconfigured though nothing else has changed, and no node moves untold.
THEOREM WindowsTold ==
  ASSUME NoReversedBatch
  PROVE  Spec => []ToldTheTruth
<1>1. Inv => ToldTheTruth
  <2> SUFFICES ASSUME Inv, ~ChangesMade(group) PROVE ToldTheTruth
    BY DEF ToldTheTruth
  <2>1. \A k \in 1 .. Lasts : ~group.children[k].fresh
    BY AllPlaced DEF ChangesMade
  <2>2. DOMAIN group.children = 1 .. Lasts /\ ToldIn(group, told)
    BY PrimariesAre DEF Inv
  <2> QED BY <2>1, <2>2 DEF ToldTheTruth, ToldIn, Lasts
<1> QED BY <1>1, Invariance, PTL

\* Whatever is called, the unsigned subtractions of apply_changes underflow
\* only where the gaps alone need more than the group has, and it divides by
\* zero only where no node has any size: that of the total and the room of the
\* removed nodes never underflows.
THEOREM PanicsForRoom ==
  Spec => PanicsOnlyWithoutRoom
<1> DEFINE Excused == LET after == TakeChanges(group)
                      IN  \/ after.size[Axis(after.orientation)] < TotalGap(Lasts)
                          \/ \A k \in DOMAIN PrimarySizes : PrimarySizes[k] = 0
<1>1. Inv /\ [Next]_vars => [ApplyFails => Excused]_vars
  <2> SUFFICES ASSUME Inv, ApplyPanics(group) PROVE Excused
    BY DEF ApplyFails
  <2>1. /\ PrimaryTotal = SidesTotal(group) /\ Lasts \in Nat /\ PrimaryTotal \in Nat
        /\ \A k \in 1 .. Lasts : PrimarySizes[k] \in Nat /\ PrimarySizes[k] <= PrimaryTotal
    BY PrimariesAre
  <2>2. DOMAIN PrimarySizes = 1 .. Lasts
    BY PrimariesAre DEF PrimarySizes
  <2>3. /\ group.total \in Int /\ group.removed \in Int
        /\ SidesTotal(group) + group.removed <= group.total
    BY DEF Inv, Good, SpacedIn, IsGroup
  <2>4. \/ group.total < group.removed
        \/ TakeChanges(group).size[Axis(TakeChanges(group).orientation)] < TotalGap(Lasts)
        \/ group.total = group.removed
    BY DEF ApplyPanics, Lasts
  <2>5. ~(group.total < group.removed)
    BY <2>1, <2>3
  <2>6. CASE group.total = group.removed
    <3>1. PrimaryTotal = 0
      BY <2>1, <2>3, <2>6
    <3> QED BY <2>1, <2>2, <3>1
  <2> QED BY <2>4, <2>5, <2>6
<1> QED BY <1>1, Invariance, PTL DEF Spec, PanicsOnlyWithoutRoom

\* When no node is popped, and no batch pushed to a group that can be reversed,
\* the divisions leave less than a pixel for each node unused.
THEOREM NothingWasted ==
  ASSUME NoPops, NoReversedBatch
  PROVE  Spec => WastesNothing
<1>1. Inv /\ Inv' /\ [Next]_vars =>
        [ApplyChanges /\ ChangesMade(group) /\ Lasts > 0 =>
           (Primary - TotalGap(Lasts) - PrimaryTotal)' < Lasts]_vars
  <2> SUFFICES ASSUME Inv, Inv', ApplyChanges, ChangesMade(group), Lasts > 0
               PROVE  Primary' - TotalGap(Lasts') - PrimaryTotal' < Lasts
    OBVIOUS
  <2>1. Good(group) /\ Measured(group) /\ Sized(group) /\ ~ApplyPanics(group)
    BY MeasuredIs DEF Inv, ApplyChanges
  <2>2. Exact(group)
    <3>1. group.total = SidesTotal(group) + group.removed
      BY <2>1 DEF Good, SpacedIn
    <3>2. ASSUME NEW k \in 1 .. Len(group.children), IsAddition(group, k)
          PROVE  Sides(group)[k] = 0
      <4>1. k - 1 \in Members(group.additions)
        BY <3>2 DEF IsAddition, Members
      <4>2. k - 1 \in FreshIn(group.children) /\ (k - 1) + 1 = k
        BY <2>1, <4>1 DEF Good, FreshlyIn
      <4>3. group.children[k].fresh
        BY <4>2 DEF FreshIn
      <4> QED BY <2>1, <4>3 DEF Good, SpacedIn, Grounded, Sides
    <3> QED BY <3>1, <3>2 DEF Exact
  <2>3. Free(group) - PartialSums(Lengths(group))[Lasts] < Lasts
    BY <2>1, <2>2, LengthsFit DEF Lasts
  <2>4. group' = Apply(group)
    BY DEF ApplyChanges
  <2> DEFINE p == Arranged(group)
  <2>5. /\ p.size[Axis(p.orientation)] = NewSide(group)
        /\ p.total = PartialSums(Lengths(group))[Lasts]
    BY <2>1, ArrangedFields DEF NewSide, Lasts, Measured
  <2>6. /\ group'.orientation = p.orientation /\ group'.size = p.size
        /\ group'.total = p.total /\ group'.removed = p.removed
    <3>1. IsGroup(p)
      BY <2>1, ArrangedGood DEF Good
    <3> QED BY <2>4, <3>1 DEF Apply, IsGroup
  <2>7. p.removed = 0
    BY <2>1, ArrangedFields DEF Measured
  <2>8. group'.total = PrimaryTotal' + group'.removed /\ PrimaryTotal' \in Nat
    <3>1. (PrimaryTotal = SidesTotal(group) /\ PrimaryTotal \in Nat)'
      BY PrimariesAre, PTL
    <3>2. (group.total = SidesTotal(group) + group.removed)'
      BY DEF Inv, Good, SpacedIn
    <3> QED BY <3>1, <3>2
  <2>9. Lasts' = Lasts
    BY <2>1, <2>4, ApplyGood DEF Lasts
  <2>10. Primary' = NewSide(group)
    BY <2>5, <2>6 DEF Primary
  <2> QED BY <2>3, <2>5, <2>6, <2>7, <2>8, <2>9, <2>10 DEF Free, Lasts
<1> QED BY <1>1, Invariance, PTL DEF Spec, WastesNothing

\* Whatever is called but a batch pushed to a group that can be reversed, where
\* nodes were removed or popped, and none added, no other node shrinks: the
\* room that the total still has for those that are gone is never more than
\* the group has.
THEOREM RoomGiven ==
  ASSUME NoReversedBatch
  PROVE  Spec => RemovalGivesRoom
<1>1. Inv /\ [Next]_vars =>
        [ApplyChanges /\ ~Resized /\ group.additions = <<>> =>
           \A k \in DOMAIN PrimarySizes : PrimarySizes'[k] >= PrimarySizes[k]]_vars
  <2> SUFFICES ASSUME Inv, ApplyChanges, ~Resized, group.additions = <<>>,
                      NEW k \in DOMAIN PrimarySizes
               PROVE  PrimarySizes'[k] >= PrimarySizes[k]
    OBVIOUS
  <2> DEFINE p == Arranged(group)
  <2>1. Good(group) /\ Measured(group) /\ Sized(group) /\ ~ApplyPanics(group)
    BY MeasuredIs DEF Inv, ApplyChanges
  <2>2. k \in 1 .. Lasts /\ PrimarySizes[k] = Sides(group)[k] /\ PrimarySizes[k] \in Nat
    BY PrimariesAre DEF PrimarySizes
  <2>3. /\ OrientationOf(group) = group.orientation
        /\ NewSide(group) = group.size[Axis(group.orientation)]
    <3>1. group.newOrientation = None /\ DOMAIN group.newSize = {}
      BY DEF Resized
    <3>2. group.size \in [Axes -> Int] /\ DOMAIN group = GroupFields
      BY <2>1 DEF Good, IsGroup, GroupFields
    <3>3. Taken(group.newSize, group.size) = group.size
      BY <3>1, <3>2 DEF Taken
    <3>4. OrientationOf(group) = group.orientation
      BY <3>1 DEF OrientationOf
    <3> QED BY <3>2, <3>3, <3>4, TakenFields DEF NewSide
  <2>4. \A j \in 1 .. Lasts : ~group.children[j].fresh
    BY AllPlaced
  <2>5. Sides(p)[k] >= Sides(group)[k] /\ p.orientation = group.orientation
    <3>1. CASE ~ChangesMade(group)
      BY <2>2, <3>1 DEF Arranged
    <3>2. CASE ChangesMade(group)
      <4>1. Sides(p)[k] = Lengths(group)[k]
        BY <2>1, <2>2, <3>2, ArrangedLaid DEF Lasts
      <4>2. Roomy(group)
        BY <2>1 DEF Good, SpacedIn
      <4>3. Lengths(group)[k] >= Sides(group)[k]
        BY <2>1, <2>2, <2>3, <2>4, <3>2, <4>2, LengthsGrow DEF Lasts
      <4>4. TakeChanges(group).orientation = OrientationOf(group)
        BY <2>1, TakenFields DEF Sized
      <4>5. p.orientation = group.orientation
        BY <2>1, <2>3, <3>2, <4>4, ArrangedFields DEF Measured
      <4> QED BY <4>1, <4>3, <4>5
    <3> QED BY <3>1, <3>2
  <2>6. PrimarySizes'[k] = Sides(p)[k]
    <3>1. Good(p) /\ Len(p.children) = Lasts
      BY <2>1, ArrangedGood DEF Lasts
    <3>2. group' = Apply(group)
      BY DEF ApplyChanges
    <3>3. /\ Good(group') /\ Len(group'.children) = Lasts
          /\ group'.children[k] = Leaf(p.children[k])
      BY <2>1, <2>2, <3>2, ApplyGood DEF Lasts
    <3>4. group'.orientation = p.orientation
      BY <3>1, <3>2 DEF Apply, Good, IsGroup
    <3> HIDE DEF p
    <3>5. p.children[k] \in Node /\ DOMAIN group'.children = 1 .. Lasts
      BY <2>2, <3>1, <3>3 DEF Good, IsGroup
    <3>6. group'.children[k].size = p.children[k].size
      BY <3>3, <3>5 DEF Leaf, Node
    <3> QED BY <2>2, <3>1, <3>4, <3>5, <3>6 DEF PrimarySizes, Sides
  <2> QED BY <2>2, <2>5, <2>6
<1> QED BY <1>1, Invariance, PTL DEF Spec, RemovalGivesRoom

-----------------------------------------------------------------------------
(* The group as the list of NodeList.                                      *)

\* r is s with b after its first i elements.
Put(s, r, i, b) ==
  /\ i \in 0 .. Len(s) /\ Len(r) = Len(s) + Len(b)
  /\ \A k \in 1 .. i : r[k] = s[k]
  /\ \A k \in 1 .. Len(b) : r[i + k] = b[k]
  /\ \A k \in i + 1 .. Len(s) : r[Len(b) + k] = s[k]

\* r is s without its k-th element.
Cut(s, r, k) ==
  /\ k \in 1 .. Len(s) /\ Len(r) = Len(s) - 1
  /\ \A j \in 1 .. k - 1 : r[j] = s[j]
  /\ \A j \in k + 1 .. Len(s) : r[j - 1] = s[j]

\* That says which sequence it is.
LEMMA PutOnce ==
  ASSUME NEW S, NEW s \in Seq(S), NEW r \in Seq(S), NEW q \in Seq(S), NEW b \in Seq(S), NEW i,
         Put(s, r, i, b), Put(s, q, i, b)
  PROVE  r = q
<1> DEFINE n == Len(s)
           m == Len(b)
<1>1. /\ n \in Nat /\ m \in Nat /\ i \in 0 .. n
      /\ Len(r) = n + m /\ Len(q) = n + m
  BY DEF Put
<1>2. ASSUME NEW k \in 1 .. n + m PROVE r[k] = q[k]
  <2>1. CASE k <= i
    BY <1>1, <2>1 DEF Put
  <2>2. CASE i < k /\ k <= i + m
    <3>1. k - i \in 1 .. m /\ i + (k - i) = k
      BY <1>1, <2>2
    <3>2. r[i + (k - i)] = b[k - i] /\ q[i + (k - i)] = b[k - i]
      BY <3>1 DEF Put
    <3> QED BY <3>1, <3>2
  <2>3. CASE i + m < k
    <3>1. k - m \in i + 1 .. n /\ m + (k - m) = k
      BY <1>1, <2>3
    <3>2. r[m + (k - m)] = s[k - m] /\ q[m + (k - m)] = s[k - m]
      BY <3>1 DEF Put
    <3> QED BY <3>1, <3>2
  <2> QED BY <1>1, <2>1, <2>2, <2>3
<1> QED BY <1>1, <1>2, SeqEqual

\* So does Cut.
LEMMA CutOnce ==
  ASSUME NEW S, NEW s \in Seq(S), NEW r \in Seq(S), NEW q \in Seq(S), NEW k,
         Cut(s, r, k), Cut(s, q, k)
  PROVE  r = q
<1>1. /\ Len(s) \in Nat /\ k \in 1 .. Len(s)
      /\ Len(r) = Len(s) - 1 /\ Len(q) = Len(s) - 1
  BY DEF Cut
<1>2. ASSUME NEW j \in 1 .. Len(s) - 1 PROVE r[j] = q[j]
  <2>1. CASE j <= k - 1
    BY <1>1, <2>1 DEF Cut
  <2>2. CASE k <= j
    <3>1. j + 1 \in k + 1 .. Len(s) /\ (j + 1) - 1 = j
      BY <1>1, <2>2
    <3>2. r[(j + 1) - 1] = s[j + 1] /\ q[(j + 1) - 1] = s[j + 1]
      BY <3>1 DEF Cut
    <3> QED BY <3>1, <3>2
  <2> QED BY <1>1, <2>1, <2>2
<1> QED BY <1>1, <1>2, SeqEqual

\* Concatenation puts one sequence at an end of the other.
LEMMA PutAtEnds ==
  ASSUME NEW S, NEW s \in Seq(S), NEW b \in Seq(S)
  PROVE  /\ s \o b \in Seq(S) /\ Put(s, s \o b, Len(s), b)
         /\ b \o s \in Seq(S) /\ Put(s, b \o s, 0, b)
<1>1. /\ Len(s) \in Nat /\ Len(b) \in Nat
      /\ s \o b \in Seq(S) /\ Len(s \o b) = Len(s) + Len(b)
      /\ b \o s \in Seq(S) /\ Len(b \o s) = Len(s) + Len(b)
  OBVIOUS
<1>2. /\ \A k \in 1 .. Len(s) : (s \o b)[k] = s[k]
      /\ \A k \in 1 .. Len(b) : (s \o b)[Len(s) + k] = b[k]
  OBVIOUS
<1>3. /\ \A k \in 1 .. Len(b) : (b \o s)[k] = b[k]
      /\ \A k \in 1 .. Len(s) : (b \o s)[Len(b) + k] = s[k]
  OBVIOUS
<1> QED BY <1>1, <1>2, <1>3 DEF Put

\* Splice puts one sequence into the other.
LEMMA PutIn ==
  ASSUME NEW S, NEW s \in Seq(S), NEW b \in Seq(S), NEW i \in 0 .. Len(s)
  PROVE  Splice(s, i, b) \in Seq(S) /\ Put(s, Splice(s, i, b), i, b)
<1>1. /\ Splice(s, i, b) \in Seq(S)
      /\ Len(Splice(s, i, b)) = Len(s) + Len(b)
      /\ \A k \in 1 .. i : Splice(s, i, b)[k] = s[k]
      /\ \A k \in 1 .. Len(b) : Splice(s, i, b)[i + k] = b[k]
      /\ \A k \in i + 1 .. Len(s) : Splice(s, i, b)[Len(b) + k] = s[k]
  BY SpliceIs
<1> DEFINE r == Splice(s, i, b)
<1> HIDE DEF r
<1>2. /\ r \in Seq(S) /\ Len(r) = Len(s) + Len(b)
      /\ \A k \in 1 .. i : r[k] = s[k]
      /\ \A k \in 1 .. Len(b) : r[i + k] = b[k]
      /\ \A k \in i + 1 .. Len(s) : r[Len(b) + k] = s[k]
  BY <1>1 DEF r
<1> QED BY <1>2 DEF Put, r

\* What takes one element out.
LEMMA CutOut ==
  ASSUME NEW S, NEW s \in Seq(S)
  PROVE  /\ \A k \in 1 .. Len(s) : RemoveAt(s, k) \in Seq(S) /\ Cut(s, RemoveAt(s, k), k)
         /\ s # <<>> => /\ Tail(s) \in Seq(S) /\ Cut(s, Tail(s), 1)
                        /\ SubSeq(s, 1, Len(s) - 1) \in Seq(S)
                        /\ Cut(s, SubSeq(s, 1, Len(s) - 1), Len(s))
<1>1. ASSUME NEW k \in 1 .. Len(s)
      PROVE  RemoveAt(s, k) \in Seq(S) /\ Cut(s, RemoveAt(s, k), k)
  BY RemoveAtIs DEF Cut
<1>2. ASSUME s # <<>>
      PROVE  /\ Tail(s) \in Seq(S) /\ Cut(s, Tail(s), 1)
             /\ SubSeq(s, 1, Len(s) - 1) \in Seq(S)
             /\ Cut(s, SubSeq(s, 1, Len(s) - 1), Len(s))
  <2>1. Len(s) \in Nat /\ Len(s) >= 1
    BY <1>2
  <2>2. /\ Tail(s) \in Seq(S) /\ Len(Tail(s)) = Len(s) - 1
        /\ \A j \in 1 .. Len(s) - 1 : Tail(s)[j] = s[j + 1]
    BY <1>2, HeadTailProperties
  <2>3. ASSUME NEW j \in 2 .. Len(s) PROVE Tail(s)[j - 1] = s[j]
    <3>1. j - 1 \in 1 .. Len(s) - 1 /\ (j - 1) + 1 = j
      BY <2>1
    <3> QED BY <2>2, <3>1
  <2>4. /\ SubSeq(s, 1, Len(s) - 1) \in Seq(S) /\ Len(SubSeq(s, 1, Len(s) - 1)) = Len(s) - 1
        /\ \A j \in 1 .. Len(s) - 1 : SubSeq(s, 1, Len(s) - 1)[j] = s[j]
    <3>1. Len(s) - 1 \in 0 .. Len(s)
      BY <2>1
    <3> QED BY <3>1, PartsAre
  <2> QED BY <2>1, <2>2, <2>3, <2>4 DEF Cut
<1> QED BY <1>1, <1>2

\* A list from its other end.
LEMMA Backwards ==
  ASSUME NEW S, NEW s \in Seq(S)
  PROVE  /\ Reverse(s) \in Seq(S) /\ Len(Reverse(s)) = Len(s)
         /\ \A k \in 1 .. Len(s) : /\ Reverse(s)[k] = s[Len(s) + 1 - k]
                                   /\ Reverse(s)[Len(s) + 1 - k] = s[k]
         /\ Reverse(Reverse(s)) = s
<1> DEFINE n == Len(s)
           r == Reverse(s)
<1>1. n \in Nat /\ \A k \in 1 .. n : s[k] \in S /\ n + 1 - k \in 1 .. n /\ (n - k) + 1 = n + 1 - k
  OBVIOUS
<1>2. r = [k \in 1 .. n |-> s[(n - k) + 1]]
  BY DEF Reverse
<1>3. r \in Seq(S) /\ Len(r) = n /\ \A k \in 1 .. n : r[k] = s[n + 1 - k]
  <2> HIDE DEF n, r
  <2>1. \A k \in 1 .. n : s[(n - k) + 1] \in S
    BY <1>1
  <2> QED BY <1>1, <1>2, <2>1
<1>4. \A k \in 1 .. n : r[n + 1 - k] = s[k]
  <2> HIDE DEF n, r
  <2>1. \A k \in 1 .. n : n + 1 - k \in 1 .. n /\ n + 1 - (n + 1 - k) = k
    BY <1>1
  <2> QED BY <1>3, <2>1
<1> DEFINE q == Reverse(r)
<1>5. q = [k \in 1 .. Len(r) |-> r[(Len(r) - k) + 1]]
  BY DEF Reverse
<1> HIDE DEF n, r, q
<1>6. q = [k \in 1 .. n |-> r[(n - k) + 1]]
  BY <1>3, <1>5
<1>7. \A k \in 1 .. n : r[(n - k) + 1] = s[k] /\ s[k] \in S
  BY <1>1, <1>4
<1>8. q \in Seq(S) /\ Len(q) = n /\ \A k \in 1 .. n : q[k] = s[k]
  BY <1>1, <1>6, <1>7
<1>9. q = s
  BY <1>8, SeqEqual DEF n
<1> QED BY <1>3, <1>4, <1>9 DEF n, r, q

\* The windows of a list of nodes; and a list as a group shows it, in its
\* orientation.
Names(c) == [k \in 1 .. Len(c) |-> c[k].window]
Seen(s, reversed) == IF reversed THEN Reverse(s) ELSE s

\* The windows of nodes are a sequence of windows.
LEMMA NamesAre ==
  ASSUME NEW c \in Seq(Node)
  PROVE  /\ Names(c) \in Seq(Windows) /\ Len(Names(c)) = Len(c)
         /\ \A k \in 1 .. Len(c) : Names(c)[k] = c[k].window
<1>1. Len(c) \in Nat /\ \A k \in 1 .. Len(c) : c[k] \in Node
  OBVIOUS
<1>2. \A k \in 1 .. Len(c) : c[k].window \in Windows
  BY <1>1 DEF Node
<1> QED BY <1>1, <1>2 DEF Names

\* Their windows are put where the nodes are.
LEMMA NamesPut ==
  ASSUME NEW c \in Seq(Node), NEW d \in Seq(Node), NEW t \in Seq(Node), NEW i, Put(c, d, i, t)
  PROVE  Put(Names(c), Names(d), i, Names(t))
<1>1. Len(c) \in Nat /\ Len(t) \in Nat /\ i \in 0 .. Len(c) /\ Len(d) = Len(c) + Len(t)
  BY DEF Put
<1>2. /\ Len(Names(c)) = Len(c) /\ Len(Names(d)) = Len(d) /\ Len(Names(t)) = Len(t)
      /\ \A k \in 1 .. Len(c) : Names(c)[k] = c[k].window
      /\ \A k \in 1 .. Len(d) : Names(d)[k] = d[k].window
      /\ \A k \in 1 .. Len(t) : Names(t)[k] = t[k].window
  BY NamesAre
<1>3. /\ \A k \in 1 .. i : k \in 1 .. Len(c) /\ k \in 1 .. Len(d)
      /\ \A k \in 1 .. Len(t) : i + k \in 1 .. Len(d)
      /\ \A k \in i + 1 .. Len(c) : k \in 1 .. Len(c) /\ Len(t) + k \in 1 .. Len(d)
  BY <1>1
<1> DEFINE x == Names(c)
           y == Names(d)
           z == Names(t)
<1> HIDE DEF x, y, z
<1>4. \A k \in 1 .. i : y[k] = x[k]
  BY <1>2, <1>3 DEF Put, x, y
<1>5. \A k \in 1 .. Len(t) : y[i + k] = z[k]
  BY <1>2, <1>3 DEF Put, y, z
<1>6. \A k \in i + 1 .. Len(c) : y[Len(t) + k] = x[k]
  BY <1>2, <1>3 DEF Put, x, y
<1>7. Len(x) = Len(c) /\ Len(y) = Len(d) /\ Len(z) = Len(t)
  BY <1>2 DEF x, y, z
<1> QED BY <1>1, <1>4, <1>5, <1>6, <1>7 DEF Put, x, y, z

\* The window goes with its node.
LEMMA NamesCut ==
  ASSUME NEW c \in Seq(Node), NEW d \in Seq(Node), NEW k, Cut(c, d, k)
  PROVE  Cut(Names(c), Names(d), k)
<1>1. Len(c) \in Nat /\ k \in 1 .. Len(c) /\ Len(d) = Len(c) - 1
  BY DEF Cut
<1>2. /\ Len(Names(c)) = Len(c) /\ Len(Names(d)) = Len(d)
      /\ \A j \in 1 .. Len(c) : Names(c)[j] = c[j].window
      /\ \A j \in 1 .. Len(d) : Names(d)[j] = d[j].window
  BY NamesAre
<1>3. /\ \A j \in 1 .. k - 1 : j \in 1 .. Len(c) /\ j \in 1 .. Len(d)
      /\ \A j \in k + 1 .. Len(c) : j \in 1 .. Len(c) /\ j - 1 \in 1 .. Len(d)
  BY <1>1
<1> QED BY <1>1, <1>2, <1>3 DEF Cut

\* What is put into a list, or taken from it, seen from the other end.
LEMMA PutSeen ==
  ASSUME NEW S, NEW s \in Seq(S), NEW r \in Seq(S), NEW b \in Seq(S), NEW i, Put(s, r, i, b)
  PROVE  Put(Reverse(s), Reverse(r), Len(s) - i, Reverse(b))
<1> DEFINE n == Len(s)
           m == Len(b)
           j == n - i
           x == Reverse(s)
           y == Reverse(r)
           z == Reverse(b)
<1>1. /\ n \in Nat /\ m \in Nat /\ i \in 0 .. n /\ Len(r) = n + m /\ j \in 0 .. n
      /\ Len(x) = n /\ Len(y) = n + m /\ Len(z) = m
  BY Backwards DEF Put
<1>2. /\ \A k \in 1 .. n : x[k] = s[n + 1 - k]
      /\ \A k \in 1 .. n + m : y[k] = r[n + m + 1 - k]
      /\ \A k \in 1 .. m : z[k] = b[m + 1 - k]
  <2>1. \A q \in Seq(S) : \A k \in 1 .. Len(q) : Reverse(q)[k] = q[Len(q) + 1 - k]
    BY Backwards
  <2>2. s \in Seq(S) /\ r \in Seq(S) /\ b \in Seq(S)
    OBVIOUS
  <2> HIDE DEF n, m, j
  <2>3. \A k \in 1 .. Len(r) : y[k] = r[Len(r) + 1 - k]
    BY <2>1, <2>2
  <2>4. \A k \in 1 .. n + m : y[k] = r[n + m + 1 - k]
    BY <1>1, <2>3
  <2> QED BY <2>1, <2>2, <2>4 DEF n, m
<1>3. /\ \A k \in 1 .. i : r[k] = s[k]
      /\ \A k \in 1 .. m : r[i + k] = b[k]
      /\ \A k \in i + 1 .. n : r[m + k] = s[k]
  BY DEF Put
<1> HIDE DEF n, m, x, y, z
<1>4. ASSUME NEW k \in 1 .. j PROVE y[k] = x[k]
  <2>1. /\ k \in 1 .. n /\ k \in 1 .. n + m /\ n + 1 - k \in i + 1 .. n
        /\ n + m + 1 - k = m + (n + 1 - k)
    BY <1>1
  <2> QED BY <1>2, <1>3, <2>1
<1>5. ASSUME NEW k \in 1 .. m PROVE y[j + k] = z[k]
  <2>1. j + k \in 1 .. n + m /\ m + 1 - k \in 1 .. m /\ n + m + 1 - (j + k) = i + (m + 1 - k)
    BY <1>1
  <2> QED BY <1>2, <1>3, <2>1
<1>6. ASSUME NEW k \in j + 1 .. n PROVE y[m + k] = x[k]
  <2>1. /\ k \in 1 .. n /\ m + k \in 1 .. n + m /\ n + 1 - k \in 1 .. i
        /\ n + m + 1 - (m + k) = n + 1 - k
    BY <1>1
  <2> QED BY <1>2, <1>3, <2>1
<1> QED BY <1>1, <1>4, <1>5, <1>6 DEF Put, n, m, x, y, z

\* So is what is taken from it.
LEMMA CutSeen ==
  ASSUME NEW S, NEW s \in Seq(S), NEW r \in Seq(S), NEW k, Cut(s, r, k)
  PROVE  Cut(Reverse(s), Reverse(r), Len(s) + 1 - k)
<1> DEFINE n == Len(s)
           i == n + 1 - k
           x == Reverse(s)
           y == Reverse(r)
<1>1. /\ n \in Nat /\ k \in 1 .. n /\ Len(r) = n - 1 /\ i \in 1 .. n
      /\ Len(x) = n /\ Len(y) = n - 1
  BY Backwards DEF Cut
<1>2. /\ \A j \in 1 .. n : x[j] = s[n + 1 - j]
      /\ \A j \in 1 .. n - 1 : y[j] = r[(n - 1) + 1 - j]
  <2>1. \A q \in Seq(S) : \A j \in 1 .. Len(q) : Reverse(q)[j] = q[Len(q) + 1 - j]
    BY Backwards
  <2>2. s \in Seq(S) /\ r \in Seq(S)
    OBVIOUS
  <2> HIDE DEF n
  <2>3. \A j \in 1 .. Len(r) : y[j] = r[Len(r) + 1 - j]
    BY <2>1, <2>2
  <2>4. \A j \in 1 .. n - 1 : y[j] = r[(n - 1) + 1 - j]
    BY <1>1, <2>3
  <2> QED BY <2>1, <2>2, <2>4 DEF n
<1>3. /\ \A j \in 1 .. k - 1 : r[j] = s[j]
      /\ \A j \in k + 1 .. n : r[j - 1] = s[j]
  BY DEF Cut
<1> HIDE DEF n, x, y
<1>4. ASSUME NEW j \in 1 .. i - 1 PROVE y[j] = x[j]
  <2>1. /\ j \in 1 .. n /\ j \in 1 .. n - 1 /\ n + 1 - j \in k + 1 .. n
        /\ (n - 1) + 1 - j = (n + 1 - j) - 1
    BY <1>1
  <2> QED BY <1>2, <1>3, <2>1
<1>5. ASSUME NEW j \in i + 1 .. n PROVE y[j - 1] = x[j]
  <2>1. /\ j \in 1 .. n /\ j - 1 \in 1 .. n - 1 /\ n + 1 - j \in 1 .. k - 1
        /\ (n - 1) + 1 - (j - 1) = n + 1 - j
    BY <1>1
  <2> QED BY <1>2, <1>3, <2>1
<1> QED BY <1>1, <1>4, <1>5 DEF Cut, n, x, y

-----------------------------------------------------------------------------
(* The list that a group shows, and what is still to be applied to it.     *)

\* Visible, and the windows of the additions, of any group.
ListOf(g) ==
  [k \in DOMAIN g.children |->
     g.children[Slot(OrientationOf(g), Len(g.children), k - 1) + 1].window]
Awaited(g) == {g.children[i + 1].window : i \in Members(g.additions)}

\* The windows of the new nodes of a list.
FreshNames(c) == {c[k].window : k \in {k \in 1 .. Len(c) : c[k].fresh}}

\* It is the list of the windows, from the end that the orientation says.
LEMMA ListIs ==
  ASSUME NEW g, IsGroup(g)
  PROVE  /\ ListOf(g) = Seen(Names(g.children), Reversed(OrientationOf(g)))
         /\ ListOf(g) \in Seq(Windows) /\ Len(ListOf(g)) = Len(g.children)
         /\ ToSet(ListOf(g)) = HeldBy(g)
<1> DEFINE c == g.children
           n == Len(c)
           s == Names(c)
           o == OrientationOf(g)
<1>1. n \in Nat /\ DOMAIN c = 1 .. n /\ c \in Seq(Node)
  BY DEF IsGroup
<1>2. s \in Seq(Windows) /\ Len(s) = n /\ \A k \in 1 .. n : s[k] = c[k].window
  BY <1>1, NamesAre
<1>3. ListOf(g) = [k \in 1 .. n |-> c[Slot(o, n, k - 1) + 1].window]
  BY <1>1 DEF ListOf
<1> HIDE DEF c, n, s, o
<1>4. CASE Reversed(o)
  <2>1. \A k \in 1 .. n : Slot(o, n, k - 1) + 1 = (n - k) + 1 /\ (n - k) + 1 \in 1 .. n
    BY <1>1, <1>4 DEF Slot
  <2>2. \A k \in 1 .. n : c[Slot(o, n, k - 1) + 1].window = s[(n - k) + 1]
    BY <1>2, <2>1
  <2>3. ListOf(g) = [k \in 1 .. n |-> s[(n - k) + 1]]
    BY <1>3, <2>2
  <2>4. ListOf(g) = Reverse(s)
    BY <1>2, <2>3 DEF Reverse
  <2>5. /\ Reverse(s) \in Seq(Windows) /\ Len(Reverse(s)) = n
        /\ \A k \in 1 .. n : n + 1 - k \in 1 .. n /\ Reverse(s)[k] = s[n + 1 - k]
                                                /\ Reverse(s)[n + 1 - k] = s[k]
    BY <1>1, <1>2, Backwards
  <2>6. ToSet(Reverse(s)) = {c[k].window : k \in 1 .. n}
    <3> DEFINE r == Reverse(s)
    <3> HIDE DEF r
    <3>1. DOMAIN r = 1 .. n
      BY <2>5 DEF r
    <3>2. /\ \A k \in 1 .. n : n + 1 - k \in 1 .. n /\ r[k] = c[n + 1 - k].window
          /\ \A k \in 1 .. n : r[n + 1 - k] = c[k].window
      BY <1>2, <2>5 DEF r
    <3>3. \A k \in 1 .. n : r[k] \in {c[j].window : j \in 1 .. n}
      BY <3>2
    <3>4. \A k \in 1 .. n : c[k].window \in {r[j] : j \in 1 .. n}
      BY <3>2
    <3> QED BY <3>1, <3>3, <3>4 DEF ToSet, r
  <2> QED BY <1>4, <2>4, <2>5, <2>6 DEF Seen, HeldBy, c, n, s, o
<1>5. CASE ~Reversed(o)
  <2>1. \A k \in 1 .. n : Slot(o, n, k - 1) + 1 = k
    BY <1>1, <1>5 DEF Slot
  <2>2. ListOf(g) = [k \in 1 .. n |-> c[k].window]
    BY <1>3, <2>1
  <2>3. ListOf(g) = s
    BY <2>2 DEF Names, s, n
  <2>4. ToSet(s) = {c[k].window : k \in 1 .. n}
    <3>1. DOMAIN s = 1 .. n
      BY <1>2
    <3> QED BY <1>2, <3>1 DEF ToSet
  <2> QED BY <1>2, <1>5, <2>3, <2>4 DEF Seen, HeldBy, c, n, s, o
<1> QED BY <1>4, <1>5

\* Where the additions are the new nodes it is their windows that are awaited.
LEMMA AwaitedIs ==
  ASSUME NEW g, Len(g.children) \in Nat, FreshlyIn(g)
  PROVE  Awaited(g) = FreshNames(g.children)
<1> DEFINE c == g.children
           n == Len(c)
<1>1. Members(g.additions) = {k \in 0 .. n - 1 : c[k + 1].fresh} /\ n \in Nat
  BY DEF FreshlyIn, FreshIn
<1>2. \A i \in 0 .. n - 1 : i + 1 \in 1 .. n
  BY <1>1
<1>3. \A k \in 1 .. n : k - 1 \in 0 .. n - 1 /\ (k - 1) + 1 = k
  BY <1>1
<1> HIDE DEF c, n
<1>4. Awaited(g) \subseteq FreshNames(c)
  BY <1>1, <1>2 DEF Awaited, FreshNames, c, n
<1>5. FreshNames(c) \subseteq Awaited(g)
  <2> SUFFICES ASSUME NEW k \in 1 .. n, c[k].fresh PROVE c[k].window \in Awaited(g)
    BY DEF FreshNames, n
  <2>1. k - 1 \in Members(g.additions)
    BY <1>1, <1>3
  <2> QED BY <1>3, <2>1 DEF Awaited, c
<1> QED BY <1>4, <1>5 DEF c

\* New nodes are put into the list: all of them are awaited.
LEMMA FreshPut ==
  ASSUME NEW c \in Seq(Node), NEW d \in Seq(Node), NEW t \in Seq(Node), NEW i, Put(c, d, i, t),
         \A k \in 1 .. Len(t) : t[k].fresh
  PROVE  FreshNames(d) = FreshNames(c) \cup {t[k].window : k \in 1 .. Len(t)}
<1> DEFINE n == Len(c)
           m == Len(t)
<1>1. n \in Nat /\ m \in Nat /\ i \in 0 .. n /\ Len(d) = n + m
  BY DEF Put
<1>2. /\ \A k \in 1 .. i : d[k] = c[k]
      /\ \A k \in 1 .. m : d[i + k] = t[k]
      /\ \A k \in i + 1 .. n : d[m + k] = c[k]
  BY DEF Put
<1> HIDE DEF n, m
<1>3. ASSUME NEW k \in 1 .. n + m, d[k].fresh
      PROVE  d[k].window \in FreshNames(c) \cup {t[j].window : j \in 1 .. m}
  <2>1. CASE k <= i
    <3>1. k \in 1 .. n /\ d[k] = c[k]
      BY <1>1, <1>2, <2>1
    <3> QED BY <1>3, <3>1 DEF FreshNames, n
  <2>2. CASE i < k /\ k <= i + m
    <3>1. k - i \in 1 .. m /\ i + (k - i) = k
      BY <1>1, <2>2
    <3> QED BY <1>2, <3>1
  <2>3. CASE i + m < k
    <3>1. k - m \in i + 1 .. n /\ k - m \in 1 .. n /\ m + (k - m) = k
      BY <1>1, <2>3
    <3>2. d[k] = c[k - m]
      BY <1>2, <3>1
    <3> QED BY <1>3, <3>1, <3>2 DEF FreshNames, n
  <2> QED BY <1>1, <2>1, <2>2, <2>3
<1>4. ASSUME NEW k \in 1 .. n, c[k].fresh PROVE c[k].window \in FreshNames(d)
  <2>1. CASE k <= i
    <3>1. k \in 1 .. n + m /\ d[k] = c[k]
      BY <1>1, <1>2, <2>1
    <3> QED BY <1>1, <1>4, <3>1 DEF FreshNames
  <2>2. CASE i < k
    <3>1. k \in i + 1 .. n /\ m + k \in 1 .. n + m
      BY <1>1, <2>2
    <3>2. d[m + k] = c[k]
      BY <1>2, <3>1
    <3> QED BY <1>1, <1>4, <3>1, <3>2 DEF FreshNames
  <2> QED BY <1>1, <2>1, <2>2
<1>5. ASSUME NEW k \in 1 .. m PROVE t[k].window \in FreshNames(d)
  <2>1. i + k \in 1 .. n + m /\ d[i + k] = t[k] /\ t[k].fresh
    BY <1>1, <1>2 DEF m
  <2> QED BY <1>1, <2>1 DEF FreshNames
<1>6. FreshNames(d) \subseteq FreshNames(c) \cup {t[j].window : j \in 1 .. m}
  BY <1>1, <1>3 DEF FreshNames
<1>7. FreshNames(c) \subseteq FreshNames(d)
  BY <1>4 DEF FreshNames, n
<1> QED BY <1>5, <1>6, <1>7 DEF m

\* A node is taken from the list: its window is not awaited any more.
LEMMA FreshCut ==
  ASSUME NEW c \in Seq(Node), NEW d \in Seq(Node), NEW k, Cut(c, d, k),
         \A i, j \in 1 .. Len(c) : c[i].window = c[j].window => i = j
  PROVE  FreshNames(d) = FreshNames(c) \ {c[k].window}
<1> DEFINE n == Len(c)
<1>1. n \in Nat /\ k \in 1 .. n /\ Len(d) = n - 1
  BY DEF Cut
<1>2. /\ \A j \in 1 .. k - 1 : d[j] = c[j]
      /\ \A j \in k + 1 .. n : d[j - 1] = c[j]
  BY DEF Cut
<1>3. \A i, j \in 1 .. n : c[i].window = c[j].window => i = j
  OBVIOUS
<1> HIDE DEF n
<1>4. ASSUME NEW j \in 1 .. n - 1, d[j].fresh
      PROVE  d[j].window \in FreshNames(c) \ {c[k].window}
  <2>1. PICK i \in 1 .. n : i # k /\ d[j] = c[i]
    <3>1. CASE j <= k - 1
      <4>1. j \in 1 .. k - 1 /\ j \in 1 .. n /\ j # k
        BY <1>1, <3>1
      <4> QED BY <1>2, <4>1
    <3>2. CASE k <= j
      <4>1. j + 1 \in k + 1 .. n /\ j + 1 \in 1 .. n /\ j + 1 # k /\ (j + 1) - 1 = j
        BY <1>1, <3>2
      <4>2. d[(j + 1) - 1] = c[j + 1]
        BY <1>2, <4>1
      <4> QED BY <4>1, <4>2
    <3> QED BY <1>1, <3>1, <3>2
  <2>2. c[i].window # c[k].window
    BY <1>1, <1>3, <2>1
  <2> QED BY <1>4, <2>1, <2>2 DEF FreshNames, n
<1>5. ASSUME NEW i \in 1 .. n, c[i].fresh, c[i].window # c[k].window
      PROVE  c[i].window \in FreshNames(d)
  <2>1. PICK j \in 1 .. n - 1 : d[j] = c[i]
    <3>1. CASE i <= k - 1
      <4>1. i \in 1 .. k - 1 /\ i \in 1 .. n - 1
        BY <1>1, <3>1
      <4> QED BY <1>2, <4>1
    <3>2. CASE k + 1 <= i
      <4>1. i \in k + 1 .. n /\ i - 1 \in 1 .. n - 1
        BY <1>1, <3>2
      <4> QED BY <1>2, <4>1
    <3>3. i # k
      BY <1>5
    <3> QED BY <1>1, <3>1, <3>2, <3>3
  <2> QED BY <1>1, <1>5, <2>1 DEF FreshNames
<1>6. FreshNames(d) \subseteq FreshNames(c) \ {c[k].window}
  BY <1>1, <1>4 DEF FreshNames
<1>7. FreshNames(c) \ {c[k].window} \subseteq FreshNames(d)
  BY <1>5 DEF FreshNames, n
<1> QED BY <1>6, <1>7

-----------------------------------------------------------------------------
(* What each call does to them.                                            *)

\* New nodes are put into the nodes of a group.
LEMMA AddedShown ==
  ASSUME NEW g, NEW h, IsGroup(g), IsGroup(h), OrientationOf(h) = OrientationOf(g),
         FreshlyIn(g), FreshlyIn(h),
         NEW t \in Seq(Node), \A k \in 1 .. Len(t) : t[k].fresh,
         NEW i, Put(g.children, h.children, i, t),
         NEW batch \in Seq(Windows), Names(t) = Seen(batch, Reversed(OrientationOf(g)))
  PROVE  LET n == Len(g.children)
             j == IF Reversed(OrientationOf(g)) THEN n - i ELSE i
         IN  /\ ListOf(h) = Splice(ListOf(g), j, batch)
             /\ Awaited(h) = Awaited(g) \cup ToSet(batch)
<1> DEFINE c == g.children
           d == h.children
           n == Len(c)
           rev == Reversed(OrientationOf(g))
           j == IF rev THEN n - i ELSE i
<1>1. c \in Seq(Node) /\ d \in Seq(Node) /\ n \in Nat /\ Len(d) \in Nat
  BY DEF IsGroup
<1>2. /\ Names(c) \in Seq(Windows) /\ Names(d) \in Seq(Windows) /\ Names(t) \in Seq(Windows)
      /\ Len(Names(c)) = n /\ Len(Names(t)) = Len(t)
      /\ \A k \in 1 .. Len(t) : Names(t)[k] = t[k].window
  BY <1>1, NamesAre
<1>3. Put(Names(c), Names(d), i, Names(t))
  BY <1>1, NamesPut
<1>4. ListOf(g) = Seen(Names(c), rev) /\ ListOf(h) = Seen(Names(d), rev)
  BY ListIs
<1>5. ListOf(g) \in Seq(Windows) /\ ListOf(h) \in Seq(Windows) /\ Len(ListOf(g)) = n
  BY ListIs
<1>6. Put(ListOf(g), ListOf(h), j, batch)
  <2>1. CASE rev
    <3>1. Put(Reverse(Names(c)), Reverse(Names(d)), n - i, Reverse(Names(t)))
      BY <1>2, <1>3, PutSeen
    <3>2. Reverse(Names(t)) = batch
      BY <2>1, Backwards DEF Seen
    <3> QED BY <1>4, <2>1, <3>1, <3>2 DEF Seen
  <2>2. CASE ~rev
    BY <1>3, <1>4, <2>2 DEF Seen
  <2> QED BY <2>1, <2>2
<1> HIDE DEF n, rev, j
<1>7. j \in 0 .. Len(ListOf(g))
  BY <1>6 DEF Put
<1>8. /\ Splice(ListOf(g), j, batch) \in Seq(Windows)
      /\ Put(ListOf(g), Splice(ListOf(g), j, batch), j, batch)
  BY <1>5, <1>7, PutIn
<1>9. ListOf(h) = Splice(ListOf(g), j, batch)
  BY <1>5, <1>6, <1>8, PutOnce
<1>10. {t[k].window : k \in 1 .. Len(t)} = ToSet(batch)
  <2>1. DOMAIN Names(t) = 1 .. Len(t)
    BY DEF Names
  <2>2. {t[k].window : k \in 1 .. Len(t)} = ToSet(Names(t))
    BY <1>2, <2>1 DEF ToSet
  <2>3. ToSet(Reverse(batch)) = ToSet(batch)
    <3> DEFINE r == Reverse(batch)
               m == Len(batch)
    <3>1. /\ m \in Nat /\ r \in Seq(Windows) /\ Len(r) = m
          /\ \A k \in 1 .. m : r[k] = batch[m + 1 - k] /\ r[m + 1 - k] = batch[k]
      BY Backwards
    <3> HIDE DEF r, m
    <3>2. DOMAIN r = 1 .. m /\ DOMAIN batch = 1 .. m
      BY <3>1 DEF m
    <3>3. \A k \in 1 .. m : m + 1 - k \in 1 .. m
      BY <3>1
    <3>4. \A k \in 1 .. m : r[k] \in {batch[l] : l \in 1 .. m} /\ batch[k] \in {r[l] : l \in 1 .. m}
      BY <3>1, <3>3
    <3> QED BY <3>2, <3>4 DEF ToSet, r
  <2> QED BY <2>2, <2>3 DEF Seen
<1>11. Awaited(g) = FreshNames(c) /\ Awaited(h) = FreshNames(d)
  BY <1>1, AwaitedIs DEF n
<1>12. FreshNames(d) = FreshNames(c) \cup {t[k].window : k \in 1 .. Len(t)}
  BY <1>1, FreshPut
<1> QED BY <1>9, <1>10, <1>11, <1>12 DEF n, rev, j

\* A node is taken from those of a group.
LEMMA TakenShown ==
  ASSUME NEW g, NEW h, IsGroup(g), IsGroup(h), OrientationOf(h) = OrientationOf(g),
         FreshlyIn(g), FreshlyIn(h), OnceIn(g),
         NEW k, Cut(g.children, h.children, k)
  PROVE  LET j == IF Reversed(OrientationOf(g)) THEN Len(g.children) + 1 - k ELSE k
         IN  /\ j \in 1 .. Len(ListOf(g))
             /\ ListOf(h) = RemoveAt(ListOf(g), j)
             /\ Awaited(h) = Awaited(g) \ {ListOf(g)[j]}
<1> DEFINE c == g.children
           d == h.children
           n == Len(c)
           rev == Reversed(OrientationOf(g))
           j == IF rev THEN n + 1 - k ELSE k
<1>1. c \in Seq(Node) /\ d \in Seq(Node) /\ n \in Nat /\ Len(d) \in Nat
  BY DEF IsGroup
<1>2. /\ Names(c) \in Seq(Windows) /\ Names(d) \in Seq(Windows) /\ Len(Names(c)) = n
      /\ \A i \in 1 .. n : Names(c)[i] = c[i].window
  BY <1>1, NamesAre
<1>3. Cut(Names(c), Names(d), k)
  BY <1>1, NamesCut
<1>4. ListOf(g) = Seen(Names(c), rev) /\ ListOf(h) = Seen(Names(d), rev)
  BY ListIs
<1>5. ListOf(g) \in Seq(Windows) /\ ListOf(h) \in Seq(Windows)
  BY ListIs
<1>6. Cut(ListOf(g), ListOf(h), j)
  <2>1. CASE rev
    <3>1. Cut(Reverse(Names(c)), Reverse(Names(d)), n + 1 - k)
      BY <1>2, <1>3, CutSeen
    <3> QED BY <1>4, <2>1, <3>1 DEF Seen
  <2>2. CASE ~rev
    BY <1>3, <1>4, <2>2 DEF Seen
  <2> QED BY <2>1, <2>2
<1>7. ListOf(g)[j] = c[k].window
  <2>1. k \in 1 .. n
    BY <1>2, <1>3 DEF Cut
  <2>2. CASE rev
    <3>1. Reverse(Names(c))[n + 1 - k] = Names(c)[k]
      <4>1. \A l \in 1 .. Len(Names(c)) :
              Reverse(Names(c))[Len(Names(c)) + 1 - l] = Names(c)[l]
        BY <1>2, Backwards
      <4> QED BY <1>2, <2>1, <4>1
    <3> QED BY <1>2, <1>4, <2>1, <2>2, <3>1 DEF Seen
  <2>3. CASE ~rev
    BY <1>2, <1>4, <2>1, <2>3 DEF Seen
  <2> QED BY <2>2, <2>3
<1> HIDE DEF n, rev, j
<1>8. j \in 1 .. Len(ListOf(g))
  BY <1>6 DEF Cut
<1>9. RemoveAt(ListOf(g), j) \in Seq(Windows) /\ Cut(ListOf(g), RemoveAt(ListOf(g), j), j)
  BY <1>5, <1>8, CutOut
<1>10. ListOf(h) = RemoveAt(ListOf(g), j)
  BY <1>5, <1>6, <1>9, CutOnce
<1>11. Awaited(g) = FreshNames(c) /\ Awaited(h) = FreshNames(d)
  BY <1>1, AwaitedIs DEF n
<1>12. FreshNames(d) = FreshNames(c) \ {c[k].window}
  <2>1. \A i, l \in 1 .. Len(c) : c[i].window = c[l].window => i = l
    BY DEF OnceIn
  <2> QED BY <1>1, <2>1, FreshCut
<1> QED BY <1>7, <1>8, <1>10, <1>11, <1>12 DEF n, rev, j

\* The nodes stay: so does what is shown, or it is shown from the other end.
LEMMA KeptShown ==
  ASSUME NEW g, NEW h, IsGroup(g), IsGroup(h), Len(h.children) = Len(g.children),
         \A k \in 1 .. Len(g.children) : h.children[k].window = g.children[k].window
  PROVE  ListOf(h) = IF Reversed(OrientationOf(h)) = Reversed(OrientationOf(g))
                     THEN ListOf(g) ELSE Reverse(ListOf(g))
<1> DEFINE s == Names(g.children)
           x == Reversed(OrientationOf(g))
           y == Reversed(OrientationOf(h))
<1>1. Names(h.children) = s
  BY DEF Names
<1>2. ListOf(g) = Seen(s, x) /\ ListOf(h) = Seen(s, y)
  BY <1>1, ListIs
<1>3. Reverse(Reverse(s)) = s
  BY NamesAre, Backwards DEF IsGroup
<1>4. x \in BOOLEAN /\ y \in BOOLEAN
  BY DEF Reversed
<1> HIDE DEF s, x, y
<1>5. ListOf(h) = IF y = x THEN ListOf(g) ELSE Reverse(ListOf(g))
  BY <1>2, <1>3, <1>4 DEF Seen
<1> QED BY <1>5 DEF x, y

\* set_window, on the node that get_mut finds.
LEMMA ReplacedShown ==
  ASSUME NEW g, Good(g), FreshlyIn(g), NEW i \in 0 .. Len(g.children) - 1,
         NEW w \in Windows \ HeldBy(g), NEW h, IsGroup(h), FreshlyIn(h),
         h = [g EXCEPT !.children[Slot(OrientationOf(g), Len(g.children), i) + 1].window = w,
                       !.children[Slot(OrientationOf(g), Len(g.children), i) + 1].changed = TRUE]
  PROVE  LET old == ListOf(g)[i + 1]
         IN  /\ ListOf(h) = ReplaceAt(ListOf(g), i + 1, w)
             /\ Awaited(h) = IF old \in Awaited(g) THEN (Awaited(g) \ {old}) \cup {w}
                             ELSE Awaited(g)
<1> DEFINE c == g.children
           d == h.children
           n == Len(c)
           o == OrientationOf(g)
           k == Slot(o, n, i) + 1
<1>1. c \in Seq(Node) /\ n \in Nat /\ DOMAIN c = 1 .. n /\ DOMAIN g = GroupFields
  BY DEF Good, IsGroup, GroupFields
<1>2. k \in 1 .. n
  BY <1>1 DEF Slot
<1>3. c[k] \in Node
  BY <1>1, <1>2
<1>4. /\ d = [c EXCEPT ![k].window = w, ![k].changed = TRUE]
      /\ h.newOrientation = g.newOrientation /\ h.orientation = g.orientation
  BY <1>1 DEF GroupFields
<1>5. OrientationOf(h) = o
  BY <1>4 DEF OrientationOf
<1> HIDE DEF c, d, n, o, k
<1>6. /\ DOMAIN d = 1 .. n /\ d[k].window = w /\ d[k].fresh = c[k].fresh
      /\ \A j \in 1 .. n : j # k => d[j] = c[j]
  BY <1>1, <1>2, <1>3, <1>4 DEF Node
<1>7. Len(d) = n
  <2>1. Len(d) \in Nat /\ DOMAIN d = 1 .. Len(d)
    BY DEF IsGroup, d
  <2> QED BY <1>1, <1>6, <2>1
<1>8. \A j \in 1 .. n : /\ Slot(o, n, j - 1) + 1 \in 1 .. n
                        /\ Slot(o, n, j - 1) + 1 = k <=> j = i + 1
  BY <1>1 DEF Slot, k, n
<1>9. /\ ListOf(g) = [j \in 1 .. n |-> c[Slot(o, n, j - 1) + 1].window]
      /\ ListOf(h) = [j \in 1 .. n |-> d[Slot(o, n, j - 1) + 1].window]
  BY <1>1, <1>5, <1>6, <1>7 DEF ListOf, c, d, n, o
<1>10. ListOf(h) = ReplaceAt(ListOf(g), i + 1, w)
  <2>1. \A j \in 1 .. n : d[Slot(o, n, j - 1) + 1].window
                            = IF j = i + 1 THEN w ELSE c[Slot(o, n, j - 1) + 1].window
    BY <1>6, <1>8
  <2>2. ListOf(h) = [j \in 1 .. n |-> IF j = i + 1 THEN w ELSE c[Slot(o, n, j - 1) + 1].window]
    BY <1>9, <2>1
  <2>3. [ListOf(g) EXCEPT ![i + 1] = w]
          = [j \in 1 .. n |-> IF j = i + 1 THEN w ELSE c[Slot(o, n, j - 1) + 1].window]
    BY <1>9
  <2> QED BY <2>2, <2>3 DEF ReplaceAt
<1>11. ListOf(g)[i + 1] = c[k].window
  <2>1. i + 1 \in 1 .. n
    BY <1>1 DEF n, c
  <2> QED BY <1>8, <1>9, <2>1
<1>12. Awaited(g) = FreshNames(c) /\ Awaited(h) = FreshNames(d)
  BY <1>1, <1>7, AwaitedIs DEF c, d, n
<1>13. \A j \in 1 .. n : c[j].window = c[k].window => j = k
  BY <1>2 DEF Good, OnceIn, c, n
<1>14. FreshNames(c) = {c[j].window : j \in {j \in 1 .. n : c[j].fresh}}
  BY DEF FreshNames, n
<1>15. FreshNames(d) = {d[j].window : j \in {j \in 1 .. n : d[j].fresh}}
  BY <1>7 DEF FreshNames
<1>16. c[k].window \in FreshNames(c) <=> c[k].fresh
  BY <1>2, <1>13, <1>14
<1>17. FreshNames(d) \ {w} = FreshNames(c) \ {c[k].window}
  <2>1. \A j \in 1 .. n : c[j].window # w
    BY DEF HeldBy, c, n
  <2>2. ASSUME NEW j \in 1 .. n, d[j].fresh, d[j].window # w
        PROVE  d[j].window \in FreshNames(c) \ {c[k].window}
    <3>1. j # k /\ d[j] = c[j]
      BY <1>6, <2>2
    <3> QED BY <1>13, <1>14, <2>2, <3>1
  <2>3. ASSUME NEW j \in 1 .. n, c[j].fresh, c[j].window # c[k].window
        PROVE  c[j].window \in FreshNames(d) \ {w}
    <3>1. j # k /\ d[j] = c[j]
      BY <1>6, <2>3
    <3> QED BY <1>15, <2>1, <2>3, <3>1
  <2>4. FreshNames(d) \ {w} \subseteq FreshNames(c) \ {c[k].window}
    BY <1>15, <2>2
  <2>5. FreshNames(c) \ {c[k].window} \subseteq FreshNames(d) \ {w}
    BY <1>14, <2>3
  <2> QED BY <2>4, <2>5
<1>18. w \in FreshNames(d) <=> c[k].fresh
  <2>1. c[k].fresh => w \in FreshNames(d)
    BY <1>2, <1>6, <1>15
  <2>2. ASSUME NEW j \in 1 .. n, d[j].fresh, d[j].window = w PROVE j = k
    <3>1. c[j].window # w
      BY DEF HeldBy, c, n
    <3> QED BY <1>6, <2>2, <3>1
  <2> QED BY <1>6, <1>15, <2>1, <2>2
<1> DEFINE old == c[k].window
           F == FreshNames(c)
           G == FreshNames(d)
<1>19. G = IF old \in F THEN (F \ {old}) \cup {w} ELSE F
  <2>1. (old \in F <=> c[k].fresh) /\ (w \in G <=> c[k].fresh) /\ G \ {w} = F \ {old}
    BY <1>16, <1>17, <1>18
  <2> HIDE DEF old, F, G
  <2>2. CASE c[k].fresh
    <3>1. G = (G \ {w}) \cup {w} /\ old \in F
      BY <2>1, <2>2
    <3> QED BY <2>1, <3>1
  <2>3. CASE ~c[k].fresh
    <3>1. G = G \ {w} /\ F = F \ {old} /\ old \notin F
      BY <2>1, <2>3
    <3> QED BY <2>1, <3>1
  <2> QED BY <2>2, <2>3
<1> QED BY <1>10, <1>11, <1>12, <1>19

\* apply_changes.
LEMMA AppliedShown ==
  ASSUME NEW g, Good(g), NEW h, Good(h), h = Apply(g), ~ApplyPanics(g)
  PROVE  ListOf(h) = ListOf(g) /\ Awaited(h) = {}
<1>1. /\ Len(h.children) = Len(g.children)
      /\ \A k \in 1 .. Len(g.children) : h.children[k].window = g.children[k].window
  BY ApplyGood
<1> DEFINE p == Arranged(g)
<1>2. h = [p EXCEPT !.children = [k \in DOMAIN p.children |-> Leaf(p.children[k])]]
  BY DEF Apply
<1>3. DOMAIN p = GroupFields
  BY ArrangedGood DEF Good, IsGroup, GroupFields
<1>4. /\ h.orientation = p.orientation /\ h.newOrientation = p.newOrientation
      /\ h.additions = p.additions
  <2> HIDE DEF p
  <2> QED BY <1>2, <1>3 DEF GroupFields
<1>5. DOMAIN g = GroupFields
  BY DEF Good, IsGroup, GroupFields
<1>6. p.additions = <<>> /\ p.newOrientation = None /\ p.orientation = OrientationOf(g)
  <2>1. CASE ChangesMade(g)
    <3>1. /\ DOMAIN TakeChanges(g) = GroupFields
          /\ TakeChanges(g).additions = <<>> /\ TakeChanges(g).newOrientation = None
          /\ TakeChanges(g).orientation = OrientationOf(g)
      BY <1>5 DEF TakeChanges, GroupFields
    <3> DEFINE lengths == Lengths(g)
               q == TakeChanges(g)
    <3>2. p = [q EXCEPT !.children = [k \in 1 .. Len(g.children) |-> Configured(g, lengths, k)],
                        !.total    = PartialSums(lengths)[Len(g.children)]]
      BY <2>1 DEF Arranged
    <3> HIDE DEF p, q, lengths
    <3> QED BY <3>1, <3>2 DEF GroupFields, q
  <2>2. CASE ~ChangesMade(g)
    <3>1. p = g /\ g.additions = <<>> /\ g.newOrientation = None
      BY <2>2 DEF Arranged, ChangesMade
    <3> QED BY <3>1 DEF OrientationOf
  <2> QED BY <2>1, <2>2
<1>7. OrientationOf(h) = OrientationOf(g)
  BY <1>4, <1>6 DEF OrientationOf
<1>8. ListOf(h) = ListOf(g)
  BY <1>1, <1>7, KeptShown DEF Good
<1>9. Awaited(h) = {}
  BY <1>4, <1>6 DEF Awaited, Members
<1> QED BY <1>8, <1>9

-----------------------------------------------------------------------------
(* The steps of GroupNode are those of NodeList.                           *)

\* What NodeList is shown of the group.
LEMMA MappedIs ==
  /\ Visible = ListOf(group)
  /\ {group.children[i + 1].window : i \in Members(group.additions)} = Awaited(group)
BY DEF Visible, ListOf, Awaited, Lasts

\* Nodes that are put at an end.
LEMMA EndsAre ==
  ASSUME NEW s \in Seq(Windows), NEW b \in Seq(Windows)
  PROVE  Splice(s, Len(s), b) = s \o b /\ Splice(s, 0, b) = b \o s
<1>1. Len(s) \in 0 .. Len(s) /\ 0 \in 0 .. Len(s)
  OBVIOUS
<1>2. /\ Splice(s, Len(s), b) \in Seq(Windows) /\ Put(s, Splice(s, Len(s), b), Len(s), b)
      /\ Splice(s, 0, b) \in Seq(Windows) /\ Put(s, Splice(s, 0, b), 0, b)
  BY <1>1, PutIn
<1>3. /\ s \o b \in Seq(Windows) /\ Put(s, s \o b, Len(s), b)
      /\ b \o s \in Seq(Windows) /\ Put(s, b \o s, 0, b)
  BY PutAtEnds
<1> QED BY <1>2, <1>3, PutOnce

\* Nodes that are put into the group are put into the list.
LEMMA AddsAt ==
  ASSUME Inv, Inv', NoReversedBatch, OrientationOf(group') = OrientationOf(group),
         NEW t \in Seq(Node), \A k \in 1 .. Len(t) : t[k].fresh,
         NEW i, Put(group.children, group'.children, i, t),
         NEW batch \in Seq(Windows), Names(t) = Seen(batch, Reversed(OrientationOf(group))),
         NEW j, j = IF Reversed(OrientationOf(group)) THEN Len(group.children) - i ELSE i
  PROVE  /\ List!AddAt(j, batch)
         /\ j = Len(group.children) => \A b \in Seq(Windows) : b = batch => List!AddLast(b)
         /\ j = 0 => \A b \in Seq(Windows) : Reverse(b) = batch /\ ToSet(b) = ToSet(batch)
                                               => List!AddFirst(b)
<1> DEFINE n == Len(group.children)
           s == ListOf(group)
<1>1. /\ IsGroup(group) /\ IsGroup(group')
      /\ FreshlyIn(group) /\ FreshlyIn(group')
  BY DEF Inv, Good
<1>2. /\ ListOf(group') = Splice(s, j, batch)
      /\ Awaited(group') = Awaited(group) \cup ToSet(batch)
  BY <1>1, AddedShown
<1>3. s \in Seq(Windows) /\ Len(s) = n
  BY <1>1, ListIs
<1>4. Visible = s /\ Visible' = ListOf(group')
  BY DEF Visible, ListOf, Lasts
<1>5. /\ {group.children[l + 1].window : l \in Members(group.additions)} = Awaited(group)
      /\ {group'.children[l + 1].window : l \in Members(group'.additions)} = Awaited(group')
  BY DEF Awaited
<1> HIDE DEF n, s
<1>6. List!AddAt(j, batch)
  BY <1>2, <1>4, <1>5 DEF List!AddAt, List!Add, List!ToSet, ToSet, Splice
<1>7. j = n => List!AddLast(batch)
  BY <1>2, <1>3, <1>4, <1>5, EndsAre DEF List!AddLast, List!Add, List!ToSet, ToSet
<1>8. ASSUME j = 0, NEW b \in Seq(Windows), Reverse(b) = batch, ToSet(b) = ToSet(batch)
      PROVE  List!AddFirst(b)
  BY <1>2, <1>3, <1>4, <1>5, <1>8, EndsAre DEF List!AddFirst, List!Add, List!ToSet, ToSet, List!Reverse, Reverse
<1> QED BY <1>6, <1>7, <1>8 DEF n

\* A node that is taken from the group is dropped from the list.
LEMMA DropsAt ==
  ASSUME Inv, Inv', NoReversedBatch, OrientationOf(group') = OrientationOf(group),
         NEW k, Cut(group.children, group'.children, k),
         NEW j, j = IF Reversed(OrientationOf(group)) THEN Len(group.children) + 1 - k ELSE k
  PROVE  j \in 1 .. Len(Visible) /\ List!Drop(j)
<1> DEFINE s == ListOf(group)
<1>1. /\ IsGroup(group) /\ IsGroup(group') /\ OnceIn(group)
      /\ FreshlyIn(group) /\ FreshlyIn(group')
  BY DEF Inv, Good
<1>2. /\ j \in 1 .. Len(s) /\ ListOf(group') = RemoveAt(s, j)
      /\ Awaited(group') = Awaited(group) \ {s[j]}
  BY <1>1, TakenShown
<1>3. Visible = s /\ Visible' = ListOf(group')
  BY DEF Visible, ListOf, Lasts
<1>4. /\ {group.children[l + 1].window : l \in Members(group.additions)} = Awaited(group)
      /\ {group'.children[l + 1].window : l \in Members(group'.additions)} = Awaited(group')
  BY DEF Awaited
<1> HIDE DEF s
<1>5. j \in 1 .. Len(Visible) /\ List!Drop(j)
  BY <1>2, <1>3, <1>4 DEF List!Drop, List!RemoveAt, RemoveAt
<1> QED BY <1>5

\* The windows of new nodes, in either order.
LEMMA BatchNames ==
  /\ \A w \in Windows : LET t == <<WindowNode(w)>>
                        IN  /\ t \in Seq(Node) /\ \A k \in 1 .. Len(t) : t[k].fresh
                            /\ Names(t) = <<w>> /\ Reverse(t) = t
                            /\ <<w>> \in Seq(Windows) /\ Reverse(<<w>>) = <<w>>
  /\ \A batch \in Batches :
       LET t == Nodes(batch)
       IN  /\ t \in Seq(Node) /\ \A k \in 1 .. Len(t) : t[k].fresh
           /\ Names(t) = batch /\ batch \in Seq(Windows)
           /\ Reverse(t) \in Seq(Node) /\ \A k \in 1 .. Len(Reverse(t)) : Reverse(t)[k].fresh
           /\ Names(Reverse(t)) = Reverse(batch) /\ Reverse(batch) \in Seq(Windows)
           /\ Reverse(Reverse(batch)) = batch /\ ToSet(Reverse(batch)) = ToSet(batch)
<1>1. ASSUME NEW w \in Windows
      PROVE  LET t == <<WindowNode(w)>>
             IN  /\ t \in Seq(Node) /\ \A k \in 1 .. Len(t) : t[k].fresh
                 /\ Names(t) = <<w>> /\ Reverse(t) = t
                 /\ <<w>> \in Seq(Windows) /\ Reverse(<<w>>) = <<w>>
  <2> DEFINE x == WindowNode(w)
  <2>1. x \in Node /\ x.window = w /\ x.fresh
    BY NodeIs DEF WindowNode
  <2> HIDE DEF x
  <2>2. \A y : Reverse(<<y>>) = <<y>>
    BY DEF Reverse
  <2>3. /\ <<x>> \in Seq(Node) /\ Len(<<x>>) = 1 /\ <<x>>[1] = x
        /\ <<w>> \in Seq(Windows)
    BY <2>1
  <2>4. Names(<<x>>) = <<w>>
    BY <2>1, <2>3 DEF Names
  <2> QED BY <2>1, <2>2, <2>3, <2>4 DEF x
<1>2. ASSUME NEW batch \in Batches
      PROVE  LET t == Nodes(batch)
             IN  /\ t \in Seq(Node) /\ \A k \in 1 .. Len(t) : t[k].fresh
                 /\ Names(t) = batch /\ batch \in Seq(Windows)
                 /\ Reverse(t) \in Seq(Node) /\ \A k \in 1 .. Len(Reverse(t)) : Reverse(t)[k].fresh
                 /\ Names(Reverse(t)) = Reverse(batch) /\ Reverse(batch) \in Seq(Windows)
                 /\ Reverse(Reverse(batch)) = batch /\ ToSet(Reverse(batch)) = ToSet(batch)
  <2> DEFINE t == Nodes(batch)
             m == Len(batch)
             r == Reverse(t)
             b == Reverse(batch)
  <2>1. PICK l \in 1 .. 2 : batch \in [1 .. l -> Windows \ Held]
    BY DEF Batches
  <2>2. /\ batch \in Seq(Windows) /\ m \in Nat /\ DOMAIN batch = 1 .. m
        /\ \A k \in 1 .. m : batch[k] \in Windows
    BY <2>1
  <2>3. t = [k \in 1 .. m |-> WindowNode(batch[k])]
    BY <2>2 DEF Nodes
  <2> HIDE DEF t, m, r, b
  <2>4. \A k \in 1 .. m : LET x == WindowNode(batch[k])
                          IN  x \in Node /\ x.window = batch[k] /\ x.fresh
    BY <2>2, NodeIs DEF WindowNode
  <2>5. /\ t \in Seq(Node) /\ Len(t) = m
        /\ \A k \in 1 .. m : t[k].window = batch[k] /\ t[k].fresh
    BY <2>2, <2>3, <2>4
  <2>6. Names(t) = batch
    <3>1. batch = [k \in 1 .. m |-> batch[k]]
      BY <2>2
    <3> QED BY <2>5, <3>1 DEF Names
  <2>7. r \in Seq(Node) /\ Len(r) = m /\ \A k \in 1 .. m : r[k] = t[m + 1 - k]
    BY <2>5, Backwards DEF r
  <2>8. /\ b \in Seq(Windows) /\ Len(b) = m /\ Reverse(b) = batch
        /\ \A k \in 1 .. m : b[k] = batch[m + 1 - k] /\ b[m + 1 - k] = batch[k]
    BY <2>2, Backwards DEF b, m
  <2>9. \A k \in 1 .. m : m + 1 - k \in 1 .. m
    BY <2>2
  <2>10. Names(r) = b
    <3>1. Len(Names(r)) = m /\ Names(r) \in Seq(Windows)
      BY <2>7, NamesAre
    <3>2. ASSUME NEW k \in 1 .. m PROVE Names(r)[k] = b[k]
      <4>1. Names(r)[k] = r[k].window
        BY <2>7, NamesAre
      <4>2. r[k].window = batch[m + 1 - k]
        BY <2>5, <2>7, <2>9
      <4> QED BY <4>1, <4>2, <2>8
    <3> QED BY <2>8, <3>1, <3>2, SeqEqual
  <2>11. ToSet(b) = ToSet(batch)
    <3>1. DOMAIN b = 1 .. m
      BY <2>8
    <3>2. \A k \in 1 .. m : b[k] \in {batch[j] : j \in 1 .. m} /\ batch[k] \in {b[j] : j \in 1 .. m}
      BY <2>8, <2>9
    <3> QED BY <2>2, <3>1, <3>2 DEF ToSet
  <2>12. \A k \in 1 .. Len(r) : r[k].fresh
    BY <2>5, <2>7, <2>9
  <2>13. \A k \in 1 .. Len(t) : t[k].fresh
    BY <2>5
  <2> QED BY <2>2, <2>5, <2>6, <2>7, <2>8, <2>10, <2>11, <2>12, <2>13 DEF t, r, b
<1> QED BY <1>1, <1>2

\* The calls that add nodes keep the rest of the group.
LEMMA RelistedIs ==
  ASSUME NEW g, IsGroup(g), NEW c, NEW a
  PROVE  /\ Relisted(g, c, a).children = c
         /\ OrientationOf(Relisted(g, c, a)) = OrientationOf(g)
<1>1. DOMAIN g = GroupFields
  BY DEF IsGroup, GroupFields
<1> QED BY <1>1 DEF GroupFields, OrientationOf, Relisted

\* push_window_back and push_window_front add a window at the end they name, in
\* whichever orientation the group is to have.
LEMMA PushSteps ==
  ASSUME Inv, Inv', NoReversedBatch, NEW w \in Windows
  PROVE  /\ PushBack(w) => List!AddLast(<<w>>)
         /\ PushFront(w) => List!AddFirst(<<w>>)
<1> DEFINE g == group
           c == g.children
           n == Len(c)
           node == WindowNode(w)
           t == <<node>>
           rev == Reversed(OrientationOf(g))
<1>1. c \in Seq(Node) /\ n \in Nat /\ IsGroup(g)
  BY DEF Inv, Good, IsGroup
<1>2. /\ t \in Seq(Node) /\ \A k \in 1 .. Len(t) : t[k].fresh
      /\ Names(t) = <<w>> /\ Reverse(t) = t
      /\ <<w>> \in Seq(Windows) /\ Reverse(<<w>>) = <<w>>
  BY BatchNames
<1>3. node \in Node /\ Append(c, node) = c \o t
  <2>1. node \in Node
    BY NodeIs
  <2> HIDE DEF node
  <2> QED BY <1>1, <2>1, AppendIsConcat
<1>4. Names(t) = Seen(<<w>>, rev)
  BY <1>2 DEF Seen
<1>5. Put(c, c \o t, n, t) /\ Put(c, t \o c, 0, t)
  BY <1>1, <1>2, PutAtEnds
<1>6. ASSUME PushBack(w) PROVE List!AddLast(<<w>>)
  <2>1. group' = PushNodeBack(g, node)
    BY <1>6 DEF PushBack, Becomes
  <2>2. CASE rev
    <3>1. group' = Relisted(g, t \o c, TrackPushFront(g.additions))
      BY <2>1, <2>2 DEF PushNodeBack, PushFirst, Relisted
    <3>2. group'.children = t \o c /\ OrientationOf(group') = OrientationOf(g)
      <4> HIDE DEF t
      <4> QED BY <1>1, <3>1, RelistedIs
    <3>3. Put(g.children, group'.children, 0, t)
      BY <1>5, <3>2
    <3>4. n - 0 = n
      BY <1>1
    <3> HIDE DEF t
    <3> QED BY <1>2, <1>4, <2>2, <3>2, <3>3, <3>4, AddsAt
  <2>3. CASE ~rev
    <3>1. group' = Relisted(g, Append(c, node), TrackPushBack(g.additions, Len(c) + 1))
      BY <2>1, <2>3 DEF PushNodeBack, PushLast, Relisted
    <3>2. group'.children = Append(c, node) /\ OrientationOf(group') = OrientationOf(g)
      <4> HIDE DEF node
      <4> QED BY <1>1, <3>1, RelistedIs
    <3>3. Put(g.children, group'.children, n, t)
      BY <1>3, <1>5, <3>2
    <3> HIDE DEF t
    <3> QED BY <1>2, <1>4, <2>3, <3>2, <3>3, AddsAt
  <2> QED BY <2>2, <2>3
<1>7. ASSUME PushFront(w) PROVE List!AddFirst(<<w>>)
  <2>1. group' = PushNodeFront(g, node)
    BY <1>7 DEF PushFront, Becomes
  <2>2. CASE ~rev
    <3>1. group' = Relisted(g, t \o c, TrackPushFront(g.additions))
      BY <2>1, <2>2 DEF PushNodeFront, PushFirst, Relisted
    <3>2. group'.children = t \o c /\ OrientationOf(group') = OrientationOf(g)
      <4> HIDE DEF t
      <4> QED BY <1>1, <3>1, RelistedIs
    <3>3. Put(g.children, group'.children, 0, t)
      BY <1>5, <3>2
    <3> HIDE DEF t
    <3> QED BY <1>2, <1>4, <2>2, <3>2, <3>3, AddsAt
  <2>3. CASE rev
    <3>1. group' = Relisted(g, Append(c, node), TrackPushBack(g.additions, Len(c) + 1))
      BY <2>1, <2>3 DEF PushNodeFront, PushLast, Relisted
    <3>2. group'.children = Append(c, node) /\ OrientationOf(group') = OrientationOf(g)
      <4> HIDE DEF node
      <4> QED BY <1>1, <3>1, RelistedIs
    <3>3. Put(g.children, group'.children, n, t) /\ n - n = 0
      BY <1>1, <1>3, <1>5, <3>2
    <3> HIDE DEF t
    <3> QED BY <1>2, <1>4, <2>3, <3>2, <3>3, AddsAt
  <2> QED BY <2>2, <2>3
<1> QED BY <1>6, <1>7

\* So do push_windows_back and push_windows_front, where the group is upright.
LEMMA PushManySteps ==
  ASSUME Inv, Inv', NoReversedBatch, NEW batch \in Batches
  PROVE  /\ PushManyBack(batch) => List!AddLast(batch)
         /\ PushManyFront(batch) => List!AddFirst(batch)
<1> DEFINE g == group
           c == g.children
           n == Len(c)
           t == Nodes(batch)
           rev == Reversed(OrientationOf(g))
<1>1. c \in Seq(Node) /\ n \in Nat /\ IsGroup(g)
  BY DEF Inv, Good, IsGroup
<1>2. /\ t \in Seq(Node) /\ \A k \in 1 .. Len(t) : t[k].fresh
      /\ Names(t) = batch /\ batch \in Seq(Windows)
      /\ Reverse(t) \in Seq(Node) /\ \A k \in 1 .. Len(Reverse(t)) : Reverse(t)[k].fresh
      /\ Names(Reverse(t)) = Reverse(batch) /\ Reverse(batch) \in Seq(Windows)
      /\ Reverse(Reverse(batch)) = batch /\ ToSet(Reverse(batch)) = ToSet(batch)
  BY BatchNames
<1> HIDE DEF t
<1>3. PushManyBack(batch) \/ PushManyFront(batch) => ~rev
  <2> SUFFICES ASSUME PushManyBack(batch) \/ PushManyFront(batch) PROVE ~rev
    OBVIOUS
  <2>1. \A o \in {Start} \cup Turns : ~Reversed(o)
    BY DEF PushManyBack, PushManyFront, NoReversedBatch
  <2>2. OrientationOf(g) \in {Start} \cup Turns
    BY DEF Inv, Good, TurnedIn, OrientationOf
  <2> QED BY <2>1, <2>2
<1>4. ASSUME PushManyBack(batch) PROVE List!AddLast(batch)
  <2>1. group' = Relisted(g, c \o t, g.additions \o Run(Len(c), Len(t)))
    BY <1>3, <1>4 DEF PushManyBack, Becomes, PushNodesBack, t, Relisted
  <2>2. group'.children = c \o t /\ OrientationOf(group') = OrientationOf(g)
    BY <1>1, <2>1, RelistedIs
  <2>3. Put(g.children, group'.children, n, t)
    BY <1>1, <1>2, <2>2, PutAtEnds
  <2>4. Names(t) = Seen(batch, rev) /\ ~rev
    BY <1>2, <1>3, <1>4 DEF Seen
  <2> QED BY <1>2, <2>2, <2>3, <2>4, AddsAt
<1>5. ASSUME PushManyFront(batch) PROVE List!AddFirst(batch)
  <2> DEFINE r == Reverse(t)
  <2>1. group' = Relisted(g, r \o c, Run(0, Len(t)) \o ShiftFrom(g.additions, 1, Len(t)))
    BY <1>3, <1>5 DEF PushManyFront, Becomes, PushNodesFront, t, Relisted
  <2> HIDE DEF r
  <2>2. group'.children = r \o c /\ OrientationOf(group') = OrientationOf(g)
    BY <1>1, <2>1, RelistedIs
  <2>3. Put(g.children, group'.children, 0, r)
    BY <1>1, <1>2, <2>2, PutAtEnds DEF r
  <2>4. Names(r) = Seen(Reverse(batch), rev) /\ ~rev
    BY <1>2, <1>3, <1>5 DEF Seen, r
  <2>5. r \in Seq(Node) /\ \A k \in 1 .. Len(r) : r[k].fresh
    BY <1>2 DEF r
  <2> DEFINE b == Reverse(batch)
  <2>6. b \in Seq(Windows) /\ Names(r) = Seen(b, rev) /\ ToSet(batch) = ToSet(b)
    BY <1>2, <2>4
  <2> HIDE DEF b
  <2>7. \A q \in Seq(Windows) : Reverse(q) = b /\ ToSet(q) = ToSet(b) => List!AddFirst(q)
    BY <2>2, <2>3, <2>4, <2>5, <2>6, AddsAt
  <2> QED BY <1>2, <2>6, <2>7 DEF b
<1> QED BY <1>4, <1>5

\* insert_windows puts the batch at its index; in a reversed group, where the
\* nodes after the index are those before it in the list, one further on.
LEMMA InsertSteps ==
  ASSUME Inv, Inv', NoReversedBatch, NEW i \in 0 .. Len(group.children), ~InsertPanics(group, i),
         NEW batch \in Batches, group' = InsertNodes(group, i, Nodes(batch)),
         NEW j, j = IF Reversed(OrientationOf(group)) THEN i + 1 ELSE i
  PROVE  j \in 0 .. Len(group.children) /\ List!AddAt(j, batch)
<1> DEFINE g == group
           c == g.children
           n == Len(c)
           t == Nodes(batch)
           rev == Reversed(OrientationOf(g))
           slot == Slot(OrientationOf(g), n, i)
           new == IF rev THEN Reverse(t) ELSE t
<1>1. c \in Seq(Node) /\ n \in Nat /\ IsGroup(g)
  BY DEF Inv, Good, IsGroup
<1>2. /\ t \in Seq(Node) /\ \A k \in 1 .. Len(t) : t[k].fresh
      /\ Names(t) = batch /\ batch \in Seq(Windows)
      /\ Reverse(t) \in Seq(Node) /\ \A k \in 1 .. Len(Reverse(t)) : Reverse(t)[k].fresh
      /\ Names(Reverse(t)) = Reverse(batch)
  BY BatchNames
<1>3. /\ slot \in 0 .. n /\ j \in 0 .. n
      /\ j = IF rev THEN n - slot ELSE slot
  BY <1>1 DEF InsertPanics, Slot
<1>4. group' = Relisted(g, Splice(c, slot, new), TrackInsert(g.additions, slot, Len(t)))
  BY DEF InsertNodes, Relisted
<1> HIDE DEF t, slot, g
<1>5. /\ new \in Seq(Node) /\ \A k \in 1 .. Len(new) : new[k].fresh
      /\ Names(new) = Seen(batch, rev)
  BY <1>2 DEF Seen
<1> HIDE DEF new
<1>6. group'.children = Splice(c, slot, new) /\ OrientationOf(group') = OrientationOf(g)
  BY <1>1, <1>4, RelistedIs
<1>7. Put(c, group'.children, slot, new)
  BY <1>1, <1>3, <1>5, <1>6, PutIn
<1>8. PICK p : p = slot
  OBVIOUS
<1>9. Put(c, group'.children, p, new) /\ j = IF rev THEN n - p ELSE p
  BY <1>3, <1>7, <1>8
<1>10. List!AddAt(j, batch)
  BY <1>2, <1>5, <1>6, <1>9, AddsAt DEF g
<1> QED BY <1>3, <1>10 DEF g

\* insert_window does it with one window.
LEMMA InsertStep ==
  ASSUME Inv, Inv', NoReversedBatch, NEW i \in 0 .. Len(group.children),
         NEW batch \in Batches, InsertMany(i, batch) \/ (Len(batch) = 1 /\ Insert(i, batch[1])),
         NEW j, j = IF Reversed(OrientationOf(group)) THEN i + 1 ELSE i
  PROVE  j \in 0 .. Len(group.children) /\ List!AddAt(j, batch)
<1>1. CASE InsertMany(i, batch)
  BY <1>1, InsertSteps DEF InsertMany, Becomes
<1>2. CASE Len(batch) = 1 /\ Insert(i, batch[1])
  <2>1. DOMAIN batch = 1 .. 1
    BY <1>2 DEF Batches
  <2>2. Nodes(batch) = <<WindowNode(batch[1])>>
    BY <2>1 DEF Nodes
  <2>3. ~InsertPanics(group, i) /\ group' = InsertNodes(group, i, Nodes(batch))
    BY <1>2, <2>2 DEF Insert, Becomes, InsertNode
  <2> QED BY <2>3, InsertSteps
<1> QED BY <1>1, <1>2

\* The group with other nodes, additions and room of removed nodes.
Lessened(g, c, a, r) == [g EXCEPT !.children = c, !.additions = a, !.removed = r]

\* The calls that take nodes keep the rest of the group.
LEMMA LessenedIs ==
  ASSUME NEW g, IsGroup(g), NEW c, NEW a, NEW r
  PROVE  /\ Lessened(g, c, a, r).children = c
         /\ OrientationOf(Lessened(g, c, a, r)) = OrientationOf(g)
<1>1. DOMAIN g = GroupFields
  BY DEF IsGroup, GroupFields
<1> QED BY <1>1 DEF GroupFields, OrientationOf, Lessened

\* remove takes the node of its index, unless the group is about to be turned
\* round: then the one as far from the other end.
LEMMA RemoveSteps ==
  ASSUME Inv, Inv', NoReversedBatch, NEW i \in Indices, RemoveNth(i)
  PROVE  /\ \E j \in 1 .. Len(Visible) : List!Drop(j)
         /\ Reversed(group.orientation) = Reversed(OrientationOf(group)) => List!Drop(i + 1)
<1> DEFINE g == group
           c == g.children
           n == Len(c)
           slot == Slot(g.orientation, n, i)
<1>1. c \in Seq(Node) /\ n \in Nat /\ IsGroup(g) /\ i \in 0 .. n - 1
  BY DEF Inv, Good, IsGroup, Indices
<1>2. slot + 1 \in 1 .. n /\ (slot + 1) - 1 = slot
  BY <1>1 DEF Slot
<1>3. group' = Lessened(g, RemoveAt(c, slot + 1), TrackRemove(g.additions, slot),
                        g.removed + c[slot + 1].size[Axis(g.orientation)])
  BY DEF RemoveNth, Discard, RemoveNode, Lessened
<1>4. Reversed(g.orientation) => n + 1 - (slot + 1) = i + 1
  <2>1. Reversed(g.orientation) => slot = n - 1 - i
    BY DEF Slot
  <2> HIDE DEF slot
  <2> QED BY <1>1, <2>1
<1>5. Reversed(g.orientation) \/ slot + 1 = i + 1
  BY DEF Slot
<1> HIDE DEF slot, g
<1>6. group'.children = RemoveAt(c, slot + 1) /\ OrientationOf(group') = OrientationOf(g)
  BY <1>1, <1>3, LessenedIs
<1>7. Cut(c, group'.children, slot + 1)
  BY <1>1, <1>2, <1>6, CutOut
<1>8. PICK k : k = slot + 1
  OBVIOUS
<1>9. PICK j : j = IF Reversed(OrientationOf(g)) THEN n + 1 - k ELSE k
  OBVIOUS
<1>10. j \in 1 .. Len(Visible) /\ List!Drop(j)
  BY <1>6, <1>7, <1>8, <1>9, DropsAt DEF g
<1>11. Reversed(g.orientation) = Reversed(OrientationOf(g)) => j = i + 1
  BY <1>4, <1>5, <1>8, <1>9 DEF Reversed
<1> QED BY <1>10, <1>11 DEF g

\* pop_back takes the last node and pop_front the first, with the same proviso.
LEMMA PopSteps ==
  ASSUME Inv, Inv', NoReversedBatch, PopAtBack \/ PopAtFront
  PROVE  /\ \E j \in 1 .. Len(Visible) : List!Drop(j)
         /\ Reversed(group.orientation) = Reversed(OrientationOf(group)) =>
              /\ PopAtBack => List!Drop(Lasts)
              /\ PopAtFront => List!Drop(1)
<1> DEFINE g == group
           c == g.children
           n == Len(c)
           rev == Reversed(OrientationOf(g))
<1>1. c \in Seq(Node) /\ n \in Nat /\ n > 0 /\ IsGroup(g)
  BY DEF Inv, Good, IsGroup, PopAtBack, PopAtFront
<1>2. /\ Cut(c, Tail(c), 1) /\ Cut(c, SubSeq(c, 1, n - 1), n)
  BY <1>1, CutOut
<1>3. ASSUME group' = PopFirst(g), NEW j, j = IF rev THEN n ELSE 1
      PROVE  j \in 1 .. Len(Visible) /\ List!Drop(j)
  <2>1. group' = Relisted(g, Tail(c), TrackPopFront(g.additions))
    BY <1>3 DEF PopFirst, Relisted
  <2>2. group'.children = Tail(c) /\ OrientationOf(group') = OrientationOf(g)
    BY <1>1, <2>1, RelistedIs
  <2>3. Cut(group.children, group'.children, 1) /\ n + 1 - 1 = n
    BY <1>1, <1>2, <2>2
  <2> QED BY <1>3, <2>2, <2>3, DropsAt
<1>4. ASSUME group' = PopLast(g), NEW j, j = IF rev THEN 1 ELSE n
      PROVE  j \in 1 .. Len(Visible) /\ List!Drop(j)
  <2>1. group' = Relisted(g, SubSeq(c, 1, n - 1), TrackPopBack(g.additions, n - 1))
    BY <1>4 DEF PopLast, Relisted
  <2>2. group'.children = SubSeq(c, 1, n - 1) /\ OrientationOf(group') = OrientationOf(g)
    BY <1>1, <2>1, RelistedIs
  <2>3. PICK k : k = n
    OBVIOUS
  <2>4. Cut(group.children, group'.children, k) /\ n + 1 - k = 1
    BY <1>1, <1>2, <2>2, <2>3
  <2> QED BY <1>4, <2>2, <2>3, <2>4, DropsAt
<1>5. PICK last, first : last = n /\ first = 1
  OBVIOUS
<1>6. ASSUME PopAtBack
      PROVE  IF Reversed(g.orientation) <=> rev
             THEN last \in 1 .. Len(Visible) /\ List!Drop(last)
             ELSE first \in 1 .. Len(Visible) /\ List!Drop(first)
  <2>1. group' = IF Reversed(g.orientation) THEN PopFirst(g) ELSE PopLast(g)
    BY <1>6 DEF PopAtBack, Discard, PopBack
  <2>2. CASE Reversed(g.orientation)
    BY <1>3, <1>5, <2>1, <2>2
  <2>3. CASE ~Reversed(g.orientation)
    BY <1>4, <1>5, <2>1, <2>3
  <2> QED BY <2>2, <2>3
<1>7. ASSUME PopAtFront
      PROVE  IF Reversed(g.orientation) <=> rev
             THEN first \in 1 .. Len(Visible) /\ List!Drop(first)
             ELSE last \in 1 .. Len(Visible) /\ List!Drop(last)
  <2>1. group' = IF Reversed(g.orientation) THEN PopLast(g) ELSE PopFirst(g)
    BY <1>7 DEF PopAtFront, Discard, PopFront
  <2>2. CASE Reversed(g.orientation)
    BY <1>4, <1>5, <2>1, <2>2
  <2>3. CASE ~Reversed(g.orientation)
    BY <1>3, <1>5, <2>1, <2>3
  <2> QED BY <2>2, <2>3
<1>8. last = Lasts /\ first = 1
  BY <1>5 DEF Lasts
<1> QED BY <1>6, <1>7, <1>8 DEF List!Drop, Reversed

\* set_window replaces the window that `get` finds at its index.
LEMMA ReplaceSteps ==
  ASSUME Inv, Inv', NoReversedBatch, NEW i \in Indices, NEW w \in Windows \ Held,
         ReplaceWindow(i, w)
  PROVE  List!Replace(i + 1, w)
<1> DEFINE s == ListOf(group)
<1>1. /\ Good(group) /\ FreshlyIn(group) /\ IsGroup(group') /\ FreshlyIn(group')
      /\ i \in 0 .. Len(group.children) - 1 /\ w \in Windows \ HeldBy(group)
  BY DEF Inv, Good, Indices, Held, HeldBy
<1>2. group' = [group EXCEPT
                  !.children[Slot(OrientationOf(group), Len(group.children), i) + 1].window = w,
                  !.children[Slot(OrientationOf(group), Len(group.children), i) + 1].changed = TRUE]
  BY DEF ReplaceWindow
<1>3. LET old == s[i + 1]
      IN  /\ ListOf(group') = ReplaceAt(s, i + 1, w)
          /\ Awaited(group') = IF old \in Awaited(group) THEN (Awaited(group) \ {old}) \cup {w}
                               ELSE Awaited(group)
  BY <1>1, <1>2, ReplacedShown
<1>4. Visible = s /\ Visible' = ListOf(group')
  BY DEF Visible, ListOf, Lasts
<1>5. /\ {group.children[l + 1].window : l \in Members(group.additions)} = Awaited(group)
      /\ {group'.children[l + 1].window : l \in Members(group'.additions)} = Awaited(group')
  BY DEF Awaited
<1> HIDE DEF s
<1> QED BY <1>3, <1>4, <1>5 DEF List!Replace, List!ReplaceAt, ReplaceAt

\* A step that keeps the nodes shows the list as it was, or from its other end.
LEMMA SameNodesShown ==
  ASSUME Inv, Inv', group'.children = group.children, group'.additions = group.additions
  PROVE  IF Reversed(OrientationOf(group')) <=> Reversed(OrientationOf(group))
         THEN UNCHANGED List!vars ELSE List!Flip
<1>1. IsGroup(group) /\ IsGroup(group')
  BY DEF Inv, Good
<1>2. ListOf(group') = IF Reversed(OrientationOf(group')) = Reversed(OrientationOf(group))
                       THEN ListOf(group) ELSE Reverse(ListOf(group))
  BY <1>1, KeptShown
<1>3. Visible = ListOf(group) /\ Visible' = ListOf(group')
  BY DEF Visible, ListOf, Lasts
<1>4. {group'.children[l + 1].window : l \in Members(group'.additions)}
        = {group.children[l + 1].window : l \in Members(group.additions)}
  OBVIOUS
<1> QED BY <1>2, <1>3, <1>4 DEF List!vars, List!Flip, List!Reverse, Reverse, Reversed

\* set_orientation and rotate_by, set_size and set_place.
LEMMA SetterSteps ==
  ASSUME Inv, Inv'
  PROVE  /\ \A o : group' = SetOrientation(group, o) /\ o \in Orientations =>
              IF Reversed(o) <=> Reversed(OrientationOf(group))
              THEN UNCHANGED List!vars ELSE List!Flip
         /\ \A axis, value : Resize(axis, value) \/ Move(axis, value) => UNCHANGED List!vars
<1>1. IsGroup(group) /\ DOMAIN group = GroupFields /\ None \notin Orientations
  BY DEF Inv, Good, IsGroup, GroupFields, None, Orientations
<1>2. ASSUME NEW o, group' = SetOrientation(group, o), o \in Orientations
      PROVE  IF Reversed(o) <=> Reversed(OrientationOf(group))
             THEN UNCHANGED List!vars ELSE List!Flip
  <2>1. /\ group'.children = group.children /\ group'.additions = group.additions
        /\ OrientationOf(group') = o
    BY <1>1, <1>2 DEF SetOrientation, OrientationOf, GroupFields
  <2> QED BY <2>1, SameNodesShown
<1>3. ASSUME NEW axis, NEW value, Resize(axis, value) \/ Move(axis, value)
      PROVE  UNCHANGED List!vars
  <2>1. /\ group'.children = group.children /\ group'.additions = group.additions
        /\ OrientationOf(group') = OrientationOf(group)
    BY <1>1, <1>3 DEF Resize, Move, Becomes, SetSize, SetPlace, OrientationOf, GroupFields
  <2> QED BY <2>1, SameNodesShown
<1> QED BY <1>2, <1>3

\* apply_changes settles what was added and leaves the list alone.
LEMMA ApplySteps ==
  ASSUME Inv, Inv', ApplyChanges
  PROVE  List!Settle
<1>1. Good(group) /\ Good(group') /\ group' = Apply(group) /\ ~ApplyPanics(group)
  BY DEF Inv, ApplyChanges
<1>2. ListOf(group') = ListOf(group) /\ Awaited(group') = {}
  BY <1>1, AppliedShown
<1>3. Visible = ListOf(group) /\ Visible' = ListOf(group')
  BY DEF Visible, ListOf, Lasts
<1>4. {group'.children[l + 1].window : l \in Members(group'.additions)} = Awaited(group')
  BY DEF Awaited
<1> QED BY <1>2, <1>3, <1>4 DEF List!Settle

\* The batches that NodeList allows are those that the group does.
LEMMA BatchesAre ==
  ASSUME Inv
  PROVE  /\ List!Unused = Windows \ Held /\ List!Batches = Batches
         /\ \A w \in Windows \ Held : <<w>> \in Batches
         /\ Len(Visible) = Len(group.children)
<1>1. /\ IsGroup(group) /\ Visible = ListOf(group)
  BY DEF Inv, Good, Visible, ListOf, Lasts
<1>2. ToSet(Visible) = Held /\ Len(Visible) = Len(group.children)
  <2>1. DOMAIN group.children = 1 .. Len(group.children)
    BY <1>1 DEF IsGroup
  <2> QED BY <1>1, <2>1, ListIs DEF HeldBy, Held
<1>3. List!Unused = Windows \ Held
  BY <1>2 DEF List!Unused, List!ToSet, ToSet
<1>4. List!Batches = Batches
  BY <1>3 DEF List!Batches, Batches, List!IsInjective, IsInjective
<1>5. ASSUME NEW w \in Windows \ Held PROVE <<w>> \in Batches
  <2>1. <<w>> \in [1 .. 1 -> Windows \ Held] /\ IsInjective(<<w>>)
    BY DEF IsInjective
  <2> QED BY <2>1 DEF Batches
<1> QED BY <1>2, <1>3, <1>4, <1>5

\* Whatever a step does to the group, to the list it does what NodeList allows.
LEMMA ListSteps ==
  ASSUME Inv, Inv', NoReversedBatch, [Next]_vars
  PROVE  [List!Next]_(List!vars)
<1> USE DEF List!Next
<1>1. /\ List!Unused = Windows \ Held /\ List!Batches = Batches
      /\ \A w \in Windows \ Held : <<w>> \in Batches
      /\ Len(Visible) = Len(group.children)
  BY BatchesAre
<1>2. ASSUME UNCHANGED group PROVE UNCHANGED List!vars
  <2>1. Visible' = Visible
    BY <1>2 DEF Visible, Lasts
  <2> QED BY <1>2, <2>1 DEF List!vars
<1>3. ASSUME NEW w \in Windows \ Held, PushBack(w) \/ PushFront(w) PROVE List!Next
  BY <1>1, <1>3, PushSteps
<1>4. ASSUME NEW batch \in Batches, PushManyBack(batch) \/ PushManyFront(batch) PROVE List!Next
  BY <1>1, <1>4, PushManySteps
<1>5. ASSUME NEW batch \in Batches, NEW i \in Indices \cup {Len(group.children)},
             InsertMany(i, batch) \/ (Len(batch) = 1 /\ Insert(i, batch[1]))
      PROVE  List!Next
  <2>1. i \in 0 .. Len(group.children)
    <3>1. Len(group.children) \in Nat
      BY DEF Inv, Good, IsGroup
    <3> QED BY <3>1 DEF Indices
  <2>2. PICK j : j = IF Reversed(OrientationOf(group)) THEN i + 1 ELSE i
    OBVIOUS
  <2>3. j \in 0 .. Len(group.children) /\ List!AddAt(j, batch)
    BY <1>5, <2>1, <2>2, InsertStep
  <2> QED BY <1>1, <2>3
<1>6. ASSUME NEW w \in Windows \ Held, NEW i \in Indices, ReplaceWindow(i, w) PROVE List!Next
  <2>1. i + 1 \in 1 .. Len(Visible) /\ w \in List!Unused
    <3>1. Len(group.children) \in Nat
      BY DEF Inv, Good, IsGroup
    <3> QED BY <1>1, <3>1 DEF Indices
  <2>2. PICK k : k = i + 1
    OBVIOUS
  <2>3. List!Replace(k, w)
    BY <1>6, <2>2, ReplaceSteps
  <2> QED BY <2>1, <2>2, <2>3
<1>7. ASSUME NEW i \in Indices, RemoveNth(i) PROVE List!Next
  BY <1>7, RemoveSteps
<1>8. ASSUME PopAtBack \/ PopAtFront PROVE List!Next
  BY <1>8, PopSteps
<1>9. ASSUME NEW o \in Turns, group' = SetOrientation(group, o)
      PROVE  List!Next \/ UNCHANGED List!vars
  <2>1. o \in Orientations
    BY CallsAssumption
  <2> QED BY <1>9, <2>1, SetterSteps
<1>10. ASSUME NEW axis, NEW value, Resize(axis, value) \/ Move(axis, value)
       PROVE  UNCHANGED List!vars
  BY <1>10, SetterSteps
<1>11. ASSUME ApplyChanges PROVE List!Next
  BY <1>11, ApplySteps
<1>12. CASE UNCHANGED vars
  BY <1>2, <1>12 DEF vars
<1>13. CASE Next
  <2>1. ASSUME NEW w \in Windows \ Held, NEW i \in Indices \cup {Len(group.children)}, Insert(i, w)
        PROVE  List!Next
    <3>1. PICK batch \in Batches : batch = <<w>>
      BY <1>1
    <3>2. Len(batch) = 1 /\ Insert(i, batch[1])
      BY <2>1, <3>1
    <3> HIDE DEF List!Next
    <3> QED BY <1>5, <3>2
  <2>2. ASSUME NEW i, InsertFails(i) PROVE UNCHANGED group
    BY <2>2 DEF InsertFails
  <2>3. ApplyFails => UNCHANGED group
    BY DEF ApplyFails
  <2>4. \A o \in Turns : Turn(o) => group' = SetOrientation(group, o)
    BY DEF Turn, Becomes
  <2>5. \A rotations : Rotate(rotations) => \E o \in Turns : group' = SetOrientation(group, o)
    BY DEF Rotate, Becomes
  <2> HIDE DEF List!Next
  <2> QED BY <1>2, <1>3, <1>4, <1>5, <1>6, <1>7, <1>8, <1>9, <1>10, <1>11, <1>13,
             <2>1, <2>2, <2>3, <2>4, <2>5 DEF Next
<1> QED BY <1>12, <1>13

\* The group that a layout manager starts with shows the empty list.
LEMMA ListStarts == Init => List!Init
<1> SUFFICES ASSUME Init PROVE List!Init
  OBVIOUS
<1>1. group.children = <<>> /\ group.additions = <<>>
  BY DEF Init, GroupOf
<1>2. Visible = <<>> /\ Members(group.additions) = {}
  BY <1>1 DEF Visible, Members, Lasts
<1> QED BY <1>2 DEF List!Init

\* ImplementsNodeList: a group keeps the list that NodeList describes, whatever
\* calls are made on it in whatever order, if no batch is pushed to a group that
\* can be reversed.  Nodes are pushed, inserted, removed and replaced as in a
\* list, that turning the group round flips and applying changes leaves alone;
\* what is awaited is what was added and neither removed nor applied.
THEOREM ListKept ==
  ASSUME NoReversedBatch
  PROVE  Spec => ImplementsNodeList
<1>1. Inv /\ Inv' /\ [Next]_vars => [List!Next]_(List!vars)
  BY ListSteps
<1> QED BY <1>1, Invariance, ListStarts, PTL DEF Spec, ImplementsNodeList, List!Spec

\* No call removes a node by its index while the group may be about to be turned
\* round: remove and pop still index it as it was.
NoTurnedRemoval ==
  \/ Calls \cap {"remove", "pop_back", "pop_front"} = {}
  \/ \A o, p \in {Start} \cup Turns : Reversed(o) <=> Reversed(p)

\* No node is inserted into a group that can be reversed: it is put one further
\* on than the index says.
NoReversedInsert ==
  \/ Calls \cap {"insert_window", "insert_windows"} = {}
  \/ \A o \in {Start} \cup Turns : ~Reversed(o)

\* CallsDoWhatTheySay: each call does to the list what its name says, at the
\* index it is given, in whichever direction the group runs, if no batch is
\* pushed to a group that can be reversed, and nothing is inserted into one, and
\* no node is removed from a group that is about to be turned round.
THEOREM CallsKept ==
  ASSUME NoReversedBatch, NoTurnedRemoval, NoReversedInsert
  PROVE  Spec => CallsDoWhatTheySay
<1> DEFINE Rev == Reversed(OrientationOf(group))
<1>1. ASSUME Inv, Inv', NEW batch \in Batches
      PROVE  LET single == Len(batch) = 1
             IN  /\ PushManyBack(batch) \/ (single /\ PushBack(batch[1])) => List!AddLast(batch)
                 /\ PushManyFront(batch) \/ (single /\ PushFront(batch[1])) => List!AddFirst(batch)
                 /\ \A i \in 0 .. Lasts :
                      InsertMany(i, batch) \/ (single /\ Insert(i, batch[1])) => List!AddAt(i, batch)
  <2>1. Len(batch) = 1 => batch = <<batch[1]>> /\ batch[1] \in Windows
    BY DEF Batches
  <2>2. PushManyBack(batch) => List!AddLast(batch)
    BY <1>1, PushManySteps
  <2>3. PushManyFront(batch) => List!AddFirst(batch)
    BY <1>1, PushManySteps
  <2>4. ASSUME Len(batch) = 1
        PROVE  /\ PushBack(batch[1]) => List!AddLast(batch)
               /\ PushFront(batch[1]) => List!AddFirst(batch)
    <3>1. PICK w \in Windows : w = batch[1] /\ batch = <<w>>
      BY <2>1, <2>4
    <3>2. /\ PushBack(w) => List!AddLast(<<w>>)
          /\ PushFront(w) => List!AddFirst(<<w>>)
      BY <1>1, PushSteps
    <3> QED BY <3>1, <3>2
  <2>5. ASSUME NEW i \in 0 .. Lasts, InsertMany(i, batch) \/ (Len(batch) = 1 /\ Insert(i, batch[1]))
        PROVE  List!AddAt(i, batch)
    <3>1. OrientationOf(group) \in {Start} \cup Turns
      BY <1>1 DEF Inv, Good, TurnedIn, OrientationOf
    <3>2. i = IF Rev THEN i + 1 ELSE i
      BY <2>5, <3>1 DEF NoReversedInsert, InsertMany, Insert
    <3> QED BY <1>1, <2>5, <3>2, InsertStep DEF Lasts
  <2> QED BY <2>2, <2>3, <2>4, <2>5
<1>2. ASSUME Inv, "remove" \in Calls \/ "pop_back" \in Calls \/ "pop_front" \in Calls
      PROVE  Reversed(group.orientation) = Rev
  <2>1. OrientationOf(group) \in {Start} \cup Turns /\ group.orientation \in {Start} \cup Turns
    BY <1>2 DEF Inv, Good, TurnedIn, OrientationOf
  <2> QED BY <1>2, <2>1 DEF NoTurnedRemoval, Reversed
<1>3. ASSUME Inv, Inv', NEW i \in Indices
      PROVE  /\ RemoveNth(i) => List!Drop(i + 1)
             /\ \A w \in Windows \ Held : ReplaceWindow(i, w) => List!Replace(i + 1, w)
  <2>1. RemoveNth(i) => List!Drop(i + 1)
    <3>1. RemoveNth(i) => "remove" \in Calls
      BY DEF RemoveNth
    <3> QED BY <1>2, <1>3, <3>1, RemoveSteps
  <2>2. ASSUME NEW w \in Windows \ Held, ReplaceWindow(i, w) PROVE List!Replace(i + 1, w)
    BY <1>3, <2>2, ReplaceSteps
  <2> QED BY <2>1, <2>2
<1>4. ASSUME Inv, Inv'
      PROVE  /\ PopAtBack => List!Drop(Lasts)
             /\ PopAtFront => List!Drop(1)
  <2>1. /\ PopAtBack => "pop_back" \in Calls
        /\ PopAtFront => "pop_front" \in Calls
    BY DEF PopAtBack, PopAtFront
  <2> QED BY <1>2, <1>4, <2>1, PopSteps
<1>5. ASSUME Inv, Inv', NEW o \in Turns, Turn(o)
      PROVE  IF Reversed(o) = Reversed(OrientationOf(group))
             THEN UNCHANGED List!vars ELSE List!Flip
  <2>1. o \in Orientations /\ group' = SetOrientation(group, o)
    BY <1>5, CallsAssumption DEF Turn, Becomes
  <2>2. IF Reversed(o) <=> Reversed(OrientationOf(group))
        THEN UNCHANGED List!vars ELSE List!Flip
    BY <1>5, <2>1, SetterSteps
  <2> QED BY <2>2 DEF Reversed
<1>6. ASSUME Inv, Inv', ApplyChanges PROVE List!Settle
  BY <1>6, ApplySteps
<1>7. Inv /\ Inv' =>
        [/\ \A batch \in Batches :
              LET single == Len(batch) = 1
              IN  /\ PushManyBack(batch) \/ (single /\ PushBack(batch[1])) => List!AddLast(batch)
                  /\ PushManyFront(batch) \/ (single /\ PushFront(batch[1])) => List!AddFirst(batch)
                  /\ \A i \in 0 .. Lasts :
                       InsertMany(i, batch) \/ (single /\ Insert(i, batch[1])) => List!AddAt(i, batch)
         /\ \A i \in Indices :
              /\ RemoveNth(i) => List!Drop(i + 1)
              /\ \A w \in Windows \ Held : ReplaceWindow(i, w) => List!Replace(i + 1, w)
         /\ PopAtBack => List!Drop(Lasts)
         /\ PopAtFront => List!Drop(1)
         /\ \A o \in Turns : Turn(o) => IF Reversed(o) = Reversed(OrientationOf(group))
                                        THEN UNCHANGED List!vars ELSE List!Flip
         /\ ApplyChanges => List!Settle]_vars
  BY <1>1, <1>3, <1>4, <1>5, <1>6
<1> QED BY <1>7, Invariance, PTL DEF CallsDoWhatTheySay

=============================================================================
