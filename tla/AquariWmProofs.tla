--------------------------- MODULE AquariWmProofs ---------------------------
(***************************************************************************)
(* AquariWM's calls keep the layout and the states of the windows in step, *)
(* and do what the trait of a layout manager promises: for any windows,    *)
(* any screen and any gap, where no window is added that is tracked.       *)
(***************************************************************************)
EXTENDS AquariWm, PlaceLemmas

\* The inductive invariant: besides that the layout holds the windows that are
\* mapped, that it has the shape the methods of Stack rely on.
Inv == Good(wm)

\* The state that AquariWm::new returns is good.
LEMMA InitGood == Init => Inv
  BY NewWmIs DEF Init, Inv

\* What each step does: the layout stays, or the window that comes is not in it
\* yet and is put last, or one is taken out where it is.
LEMMA StepIs ==
  ASSUME ~Recreates, Inv, Next
  PROVE  /\ Inv'
         /\ \/ Tiled(wm') = Tiled(wm)
            \/ \E w \in Windows : w \notin ToSet(Tiled(wm)) /\ Tiled(wm') = Append(Tiled(wm), w)
            \/ \E w \in Windows : Without(Tiled(wm), w, Tiled(wm'))
<1> DEFINE Steps == \/ Tiled(wm') = Tiled(wm)
                    \/ \E w \in Windows : /\ w \notin ToSet(Tiled(wm))
                                          /\ Tiled(wm') = Append(Tiled(wm), w)
                    \/ \E w \in Windows : Without(Tiled(wm), w, Tiled(wm'))
<1>0. ToSet(Tiled(wm)) = MappedIn(wm)
  BY DEF Inv, Good
<1>1. ASSUME NEW w \in Windows, NEW mapped \in MapStates, Create(w, mapped)
      PROVE  Inv' /\ Steps
  <2>1. w \notin MappedIn(wm) /\ wm' = AddWindow(wm, w, mapped)
    BY <1>1 DEF Create, Call, MappedIn
  <2>2. /\ Good(wm')
        /\ Tiled(wm') = IF mapped = "Mapped" THEN Append(Tiled(wm), w) ELSE Tiled(wm)
    BY <2>1, AddWindowIs DEF Inv
  <2> QED BY <1>0, <2>1, <2>2 DEF Inv
<1>2. ASSUME NEW w \in Windows, Destroy(w) PROVE Inv' /\ Steps
  <2>1. wm' = RemoveWindow(wm, w)
    BY <1>2 DEF Destroy, Call
  <2>2. Good(wm') /\ Without(Tiled(wm), w, Tiled(wm'))
    BY <2>1, RemoveWindowIs DEF Inv
  <2> QED BY <2>2 DEF Inv
<1>3. ASSUME NEW w \in Windows, Map(w) PROVE Inv' /\ Steps
  <2>1. w \in Tracked(wm) /\ wm' = MapWindow(wm, w)
    BY <1>3 DEF Map, Call
  <2>2. /\ Good(wm')
        /\ Tiled(wm') = IF w \in MappedIn(wm) THEN Tiled(wm) ELSE Append(Tiled(wm), w)
    BY <2>1, MapWindowIs DEF Inv
  <2> QED BY <1>0, <2>2 DEF Inv
<1>4. ASSUME NEW w \in Windows, Unmap(w) PROVE Inv' /\ Steps
  <2>1. w \in Tracked(wm) /\ wm' = UnmapWindow(wm, w)
    BY <1>4 DEF Unmap, Call
  <2>2. Good(wm') /\ Without(Tiled(wm), w, Tiled(wm'))
    BY <2>1, UnmapWindowIs DEF Inv
  <2> QED BY <2>2 DEF Inv
<1>5. ASSUME ApplyChanges PROVE Inv' /\ Steps
  <2>1. wm' = [wm EXCEPT !.layout = Applied(@)]
    BY <1>5 DEF ApplyChanges
  <2>2. Good(wm') /\ Tiled(wm') = Tiled(wm)
    BY <2>1, AppliedWmIs DEF Inv
  <2> QED BY <2>2 DEF Inv
<1>6. ASSUME wm' = wm PROVE Inv' /\ Steps
  BY <1>6 DEF Inv
<1>7. ASSUME \E w \in Windows : CallFails(w) PROVE Inv' /\ Steps
  BY <1>6, <1>7 DEF CallFails
<1>8. ASSUME ApplyFails PROVE Inv' /\ Steps
  BY <1>6, <1>8 DEF ApplyFails
<1> DEFINE Goal == Inv' /\ Steps
<1> HIDE DEF Goal
<1>9. /\ \A w \in Windows, mapped \in MapStates : Create(w, mapped) => Goal
      /\ \A w \in Windows : Destroy(w) \/ Map(w) \/ Unmap(w) => Goal
      /\ ApplyChanges \/ ApplyFails \/ (\E w \in Windows : CallFails(w)) => Goal
  BY <1>1, <1>2, <1>3, <1>4, <1>5, <1>7, <1>8 DEF Goal
<1>10. Goal
  BY <1>9 DEF Next
<1> QED BY <1>10 DEF Goal

\* Every call keeps the state good (StackLemmas has what each method does).
LEMMA Inductive == ~Recreates /\ Inv /\ [Next]_vars => Inv'
<1>1. CASE Next
  BY <1>1, StepIs
<1>2. CASE UNCHANGED vars
  BY <1>2 DEF vars, Inv
<1> QED BY <1>1, <1>2

\* So it is good in every behavior.
LEMMA Invariance == ~Recreates => (Spec => []Inv)
<1> SUFFICES ASSUME ~Recreates PROVE Spec => []Inv
  OBVIOUS
<1>1. Inv /\ [Next]_vars => Inv'
  BY Inductive
<1> QED BY <1>1, InitGood, PTL DEF Spec

\* The windows in the layout are at all times those that are recorded as
\* mapped, each once: add_window, map_window, unmap_window and remove_window
\* keep the two in step, whichever window leaves first and wherever it was.
THEOREM TiledMapped == ~Recreates => (Spec => []TiledAreMapped)
<1> SUFFICES ASSUME ~Recreates PROVE Spec => []TiledAreMapped
  OBVIOUS
<1>1. Inv => TiledAreMapped
  BY DEF Inv, Good, MappedIn, TiledAreMapped
<1> QED BY <1>1, Invariance, PTL

-----------------------------------------------------------------------------
(* The places of the windows.                                              *)

\* Besides, the groups of the layout are sound, and `told` has the place of each
\* node that has been placed and not replaced since.
PlacedInv ==
  /\ Inv
  /\ Spaced(wm.layout)
  /\ Known(NodesOf(wm.layout), told)

\* The layout that AquariWm::new returns has nothing to place.
LEMMA InitPlaced == Init => PlacedInv
<1> SUFFICES ASSUME Init PROVE PlacedInv
  OBVIOUS
<1>1. wm.layout = NewLayout
  BY DEF Init, NewWm
<1>2. Inv
  BY InitGood
<1> QED BY <1>1, <1>2, NewLayoutSpaced DEF PlacedInv, Known

\* A call leaves the nodes that were placed where they are, and what is told of
\* them.
LEMMA CallKeeps ==
  ASSUME PlacedInv, NEW after, Good(after), Moves(wm.layout, after.layout), Call(after)
  PROVE  PlacedInv' /\ MainStays(wm.layout, wm'.layout)
<1>1. /\ wm' = after
      /\ told' = [w \in DOMAIN told \cap ToSet(Tiled(after)) |-> told[w]]
  BY DEF Call
<1>2. Shaped(after.layout) /\ Tiled(after) = HeldIn(after.layout)
  BY TiledIs DEF Good
<1>3. Known(NodesOf(wm.layout), told) /\ Stay(wm.layout, after.layout)
  BY DEF PlacedInv, Moves
<1>4. Known(NodesOf(after.layout), [w \in DOMAIN told \cap ToSet(HeldIn(after.layout)) |-> told[w]])
  BY <1>2, <1>3, StayKnown
<1>5. Known(NodesOf(wm'.layout), told')
  BY <1>1, <1>2, <1>4
<1> QED BY <1>1, <1>5 DEF PlacedInv, Inv, Moves

\* Changes are applied.
LEMMA ApplyKeeps ==
  ASSUME PlacedInv, ApplyChanges
  PROVE  /\ PlacedInv' /\ MainStays(wm.layout, wm'.layout)
         /\ \A node \in NodesOf(wm.layout)' : ~node.fresh /\ ~node.changed
<1> DEFINE L == wm.layout
           M == Applied(L)
           nodes == ToReconfigure(L)
           reached == {node.window : node \in nodes}
           u == [w \in DOMAIN told \cup reached |->
                   IF w \in reached THEN Place(CHOOSE node \in nodes : node.window = w)
                                    ELSE told[w]]
<1>1. /\ ~AppliedPanics(L) /\ wm' = [wm EXCEPT !.layout = Applied(@)]
      /\ told' = u
  BY DEF ApplyChanges
<1>2. Good(wm) /\ Shaped(L) /\ Spaced(L) /\ Known(NodesOf(L), told)
  BY DEF PlacedInv, Inv, Good
<1>3. Good(wm')
  BY <1>1, <1>2, AppliedWmIs
<1>4. wm'.layout = M
  BY <1>1, <1>2 DEF Good
<1>5. Spaced(M) /\ MainStays(L, M) /\ Telling(L, M, nodes)
  BY <1>1, <1>2, AppliedSpaced
<1> HIDE DEF M, nodes
<1>6. Shaped(M) /\ IsInjective(HeldIn(M))
  BY <1>3, <1>4, TiledIs DEF Good
<1> HIDE DEF reached, u, L
<1>7. Known(NodesOf(M), u)
  <2>1. reached = {node.window : node \in nodes}
    BY DEF reached
  <2>2. u = [w \in DOMAIN told \cup reached |->
               IF w \in reached THEN Place(CHOOSE node \in nodes : node.window = w)
                                ELSE told[w]]
    BY DEF u
  <2> QED BY <1>2, <1>5, <1>6, <2>1, <2>2, TellKnown
<1>8. NodesOf(wm.layout)' = NodesOf(M)
  BY <1>4
<1> QED BY <1>1, <1>3, <1>4, <1>5, <1>7, <1>8 DEF PlacedInv, Inv, Telling, L

\* Every call keeps the nodes apart and the windows told.
LEMMA StepPlaced ==
  ASSUME ~Recreates, PlacedInv, [Next]_vars
  PROVE  PlacedInv' /\ MainStays(wm.layout, wm'.layout)
<1> DEFINE Goal == PlacedInv' /\ MainStays(wm.layout, wm'.layout)
<1>1. ASSUME wm' = wm, told' = told PROVE Goal
  BY <1>1, StaysSame DEF PlacedInv, Inv
<1>2. Good(wm) /\ Spaced(wm.layout)
  BY DEF PlacedInv, Inv
<1>3. ASSUME NEW after, Call(after), Moves(wm.layout, after.layout), Next PROVE Goal
  <2>1. Good(after)
    BY <1>3, StepIs DEF PlacedInv, Inv, Call
  <2> QED BY <1>3, <2>1, CallKeeps
<1> HIDE DEF Goal
<1>4. ASSUME Next, NEW w \in Windows, NEW mapped \in MapStates, Create(w, mapped) PROVE Goal
  BY <1>2, <1>3, <1>4, CallsMove DEF Create
<1>5. ASSUME Next, NEW w \in Windows, Destroy(w) PROVE Goal
  BY <1>2, <1>3, <1>5, CallsMove DEF Destroy
<1>6. ASSUME Next, NEW w \in Windows, Map(w) PROVE Goal
  BY <1>2, <1>3, <1>6, CallsMove DEF Map
<1>7. ASSUME Next, NEW w \in Windows, Unmap(w) PROVE Goal
  BY <1>2, <1>3, <1>7, CallsMove DEF Unmap
<1>8. ASSUME NEW w \in Windows, CallFails(w) PROVE Goal
  BY <1>1, <1>8 DEF CallFails
<1>9. ASSUME ApplyChanges PROVE Goal
  BY <1>9, ApplyKeeps DEF Goal
<1>10. ASSUME ApplyFails PROVE Goal
  BY <1>1, <1>10 DEF ApplyFails
<1>11. ASSUME UNCHANGED vars PROVE Goal
  BY <1>1, <1>11 DEF vars
<1>12. Goal
  BY <1>4, <1>5, <1>6, <1>7, <1>8, <1>9, <1>10, <1>11 DEF Next
<1> QED BY <1>12 DEF Goal

\* So they are in every behavior.
LEMMA PlacesHold == ~Recreates => (Spec => []PlacedInv)
<1> SUFFICES ASSUME ~Recreates PROVE Spec => []PlacedInv
  OBVIOUS
<1>1. PlacedInv /\ [Next]_vars => PlacedInv'
  BY StepPlaced
<1> QED BY <1>1, InitPlaced, PTL DEF Spec

\* When nothing is to be applied, nothing is to be to the root or to the stack,
\* and no window's node is new or was replaced.
LEMMA SettledIs ==
  ASSUME PlacedInv, Settled
  PROVE  /\ Rests(wm.layout)
         /\ \A node \in NodesOf(wm.layout) : ~node.fresh /\ ~node.changed
<1> DEFINE L == wm.layout
           c == L.children
<1>1. Shaped(L) /\ Spaced(L)
  BY DEF PlacedInv, Inv, Good
<1>2. ~ChangesMade(L) /\ \A k \in DOMAIN c : IF c[k].kind = "group" THEN ~ChangesMade(c[k])
                                                                    ELSE ~c[k].changed
  BY DEF Settled
<1>3. DOMAIN c = 1 .. Len(c)
  BY <1>1, ShapedIs
<1>4. Rests(L)
  BY <1>2, <1>3 DEF Rests, IsStack
<1>5. \A node \in NodesOf(L) : ~node.fresh
  BY <1>1, <1>4, PlacesApart
<1>6. ASSUME NEW node \in NodesOf(L) PROVE ~node.changed
  <2>1. \/ Len(c) >= 1 /\ IsWindow(c[1]) /\ node = c[1]
        \/ Len(c) = 2 /\ \E j \in 1 .. Len(c[2].children) : node = c[2].children[j]
    BY <1>1, <1>6, NodesAre
  <2>2. Len(c) = 2 => SoundStack(c[2])
    <3>1. Len(c) = 2 => 2 \in 1 .. Len(c) /\ IsStack(c[2])
      BY <1>1 DEF Shaped
    <3> QED BY <1>1, <3>1 DEF Spaced
  <2>3. Len(c) >= 1 => 1 \in DOMAIN c
    BY <1>1, <1>3, ShapedIs
  <2>4. Len(c) >= 1 /\ IsWindow(c[1]) => ~c[1].changed
    BY <1>2, <2>3 DEF IsWindow
  <2> HIDE DEF c
  <2> QED BY <2>1, <2>2, <2>4 DEF SoundStack
<1> QED BY <1>4, <1>5, <1>6

\* Whenever nothing is to be applied, each window that is tiled was told where
\* its node is: no call moves a window without telling it, and none that takes
\* the main window's place is forgotten.
THEOREM WindowsTold == ~Recreates => (Spec => []ToldTheTruth)
<1> SUFFICES ASSUME ~Recreates PROVE Spec => []ToldTheTruth
  OBVIOUS
<1>1. ASSUME PlacedInv PROVE ToldTheTruth
  <2>1. SUFFICES ASSUME Settled, NEW k \in DOMAIN WindowNodes(wm.layout)
                 PROVE  LET node == WindowNodes(wm.layout)[k]
                        IN  node.window \in DOMAIN told /\ told[node.window] = Place(node)
    BY DEF ToldTheTruth
  <2>2. WindowNodes(wm.layout)[k] \in NodesOf(wm.layout)
    BY DEF NodesOf, ToSet
  <2> QED BY <1>1, <2>1, <2>2, SettledIs DEF PlacedInv, Known
<1> QED BY <1>1, PlacesHold, PTL

\* Then the windows are on the screen, inside its padding, and no two of them
\* overlap, however many there are and however small the screen is: what does
\* not fit makes apply_changes panic, and never places a window over another.
THEOREM NodesApart == ~Recreates => (Spec => []NoneOverlap)
<1> SUFFICES ASSUME ~Recreates PROVE Spec => []NoneOverlap
  OBVIOUS
<1>1. ASSUME PlacedInv PROVE NoneOverlap
  <2> DEFINE N == WindowNodes(wm.layout)
  <2>1. SUFFICES ASSUME Settled
                 PROVE  \A j, k \in DOMAIN N :
                          /\ \A axis \in Axes : /\ N[j].at[axis] >= Gap
                                                /\ N[j].size[axis] >= 0
                                                /\ N[j].at[axis] + N[j].size[axis]
                                                     <= Screen[axis] - Gap
                          /\ j < k => \E axis \in Axes : Before(N[j], N[k], axis)
    BY DEF NoneOverlap
  <2>2. Shaped(wm.layout) /\ Spaced(wm.layout)
    BY <1>1 DEF PlacedInv, Inv, Good
  <2>3. /\ \A node \in NodesOf(wm.layout) : OnScreen(node)
        /\ InOrder(N)
    BY <1>1, <2>1, <2>2, SettledIs, PlacesApart
  <2>4. IsList(N)
    BY <2>2, HeldIs
  <2>5. \A k \in DOMAIN N : N[k] \in NodesOf(wm.layout)
    BY DEF NodesOf, ToSet
  <2> HIDE DEF N
  <2>6. DOMAIN N = 1 .. Len(N)
    BY <2>4 DEF IsList
  <2>7. ASSUME NEW k \in DOMAIN N, NEW axis \in Axes
        PROVE  /\ N[k].at[axis] >= Gap /\ N[k].size[axis] >= 0
               /\ N[k].at[axis] + N[k].size[axis] <= Screen[axis] - Gap
    BY <2>3, <2>5 DEF OnScreen
  <2>8. \A j, k \in DOMAIN N : j < k => \E axis \in Axes : Before(N[j], N[k], axis)
    BY <2>3, <2>6 DEF InOrder, Apart, Before
  <2> QED BY <2>7, <2>8
<1> QED BY <1>1, PlacesHold, PTL

\* Which windows come to the stack, leave it or become the main window does not
\* move the place of the main window.
THEOREM MainPlaceKept == ~Recreates => (Spec => MainKeepsItsPlace)
<1> SUFFICES ASSUME ~Recreates PROVE Spec => MainKeepsItsPlace
  OBVIOUS
<1>1. ASSUME PlacedInv, [Next]_vars
      PROVE  Placed(wm.layout) /\ HasStack(wm.layout) /\ ~wm.layout.children[2].fresh
               /\ HasStack(wm'.layout)
               => HasMain(wm'.layout) /\ Place(Main(wm'.layout)) = Place(Main(wm.layout))
  BY <1>1, StepPlaced DEF MainStays, Placed
<1> QED BY <1>1, PlacesHold, PTL DEF Spec, MainKeepsItsPlace

\* apply_changes panics only where the gaps alone are wider than the root, or
\* than the stack where the root puts it, or where no node has any size.
THEOREM PanicsForRoom == ~Recreates => (Spec => PanicsOnlyWithoutRoom)
<1> SUFFICES ASSUME ~Recreates PROVE Spec => PanicsOnlyWithoutRoom
  OBVIOUS
<1> DEFINE Tight(g) ==
             LET axis == Axis(g.orientation)
             IN  \/ g.size[axis] < TotalGap(Len(g.children))
                 \/ \A k \in DOMAIN g.children : g.children[k].size[axis] = 0
           L == wm.layout
           stack == {Arranged(L).children[2] : k \in {k \in {2} : HasStack(L)}}
<1>1. ASSUME PlacedInv, ApplyFails
      PROVE  \E group \in {L} \cup stack : Tight(group)
  <2>1. Shaped(L) /\ Spaced(L) /\ AppliedPanics(L)
    BY <1>1 DEF PlacedInv, Inv, Good, ApplyFails
  <2>2. Tight(L) \/ (HasStack(L) /\ Tight(Arranged(L).children[2]))
    BY <2>1, LayoutPanics
  <2>3. HasStack(L) => Arranged(L).children[2] \in stack
    OBVIOUS
  <2> HIDE DEF stack, Tight, L
  <2> QED BY <2>2, <2>3
<1>2. ASSUME PlacedInv
      PROVE  ApplyFails =>
               \E group \in {wm.layout} \cup {Arranged(wm.layout).children[2] : k \in
                                                {k \in {2} : HasStack(wm.layout)}} :
                 LET axis == Axis(group.orientation)
                 IN  \/ group.size[axis] < TotalGap(Len(group.children))
                     \/ \A k \in DOMAIN group.children : group.children[k].size[axis] = 0
  BY <1>1, <1>2
<1> QED BY <1>2, PlacesHold, PTL DEF Spec, PanicsOnlyWithoutRoom

-----------------------------------------------------------------------------
(* The refinement.                                                         *)

\* AquariWM starts with no windows, as TilingContract does.
LEMMA InitContract == Init => Contract!Init
  BY NewWmIs DEF Init, Contract!Init

\* Every call is a step of TilingContract, or none.
LEMMA StepContract ==
  ~Recreates /\ Inv /\ [Next]_vars => [Contract!Next]_(Tiled(wm))
<1> SUFFICES ASSUME ~Recreates, Inv, [Next]_vars PROVE Contract!Next \/ Tiled(wm)' = Tiled(wm)
  OBVIOUS
<1>1. CASE UNCHANGED vars
  BY <1>1 DEF vars
<1>2. CASE Next
  <2>1. \/ Tiled(wm') = Tiled(wm)
        \/ \E w \in Windows : w \notin ToSet(Tiled(wm)) /\ Tiled(wm') = Append(Tiled(wm), w)
        \/ \E w \in Windows : Without(Tiled(wm), w, Tiled(wm'))
    BY <1>2, StepIs
  <2>2. ASSUME NEW w \in Windows, w \notin ToSet(Tiled(wm)), Tiled(wm') = Append(Tiled(wm), w)
        PROVE  Contract!Next
    BY <2>2 DEF Contract!Next, Contract!Add, Contract!ToSet, ToSet
  <2>3. ASSUME NEW w \in Windows, Without(Tiled(wm), w, Tiled(wm'))
        PROVE  Contract!Next \/ Tiled(wm)' = Tiled(wm)
    <3>1. CASE Tiled(wm') = Tiled(wm)
      BY <3>1
    <3>2. ASSUME NEW p \in 1 .. Len(Tiled(wm)), Tiled(wm)[p] = w,
                 Tiled(wm') = RemoveAt(Tiled(wm), p)
          PROVE  Contract!Next
      <4>1. p \in DOMAIN Tiled(wm)
        BY TiledIs DEF Inv, Good, IsList
      <4>2. Contract!Drop(w)
        BY <3>2, <4>1 DEF Contract!Drop, Contract!RemoveAt, RemoveAt
      <4> QED BY <4>2 DEF Contract!Next
    <3> QED BY <2>3, <3>1, <3>2 DEF Without
  <2> QED BY <2>1, <2>2, <2>3
<1> QED BY <1>1, <1>2

\* Main + Stack keeps the promise of TilingLayoutManager, and the order in which
\* windows were mapped: whatever becomes of the main window and the stack, the
\* tiled windows change only by a window that comes last and by one that leaves
\* its place to those behind it.
THEOREM KeepsContract == ~Recreates => (Spec => ImplementsContract)
<1> SUFFICES ASSUME ~Recreates PROVE Spec => ImplementsContract
  OBVIOUS
<1>1. Inv /\ [Next]_vars => [Contract!Next]_(Tiled(wm))
  BY StepContract
<1>2. Spec => Contract!Init /\ [][Contract!Next]_(Tiled(wm))
  BY <1>1, InitContract, Invariance, PTL DEF Spec
<1> QED BY <1>2 DEF ImplementsContract, Contract!Spec

=============================================================================
