----------------------------- MODULE X11Proofs -----------------------------
(***************************************************************************)
(* AquariWM on an X server, for any number of windows and any queue: what  *)
(* it knows of the windows agrees with the server once it is idle, and the *)
(* layout holds the windows that it knows to be mapped.                    *)
(***************************************************************************)
EXTENDS X11, PlaceLemmas, FiniteSetTheorems

-----------------------------------------------------------------------------
(* The queue of events, by what is in it and what is before what.          *)

In(q, e) == \E k \in 1 .. Len(q) : q[k] = e
Before(q, d, e) == \E j, k \in 1 .. Len(q) : j < k /\ q[j] = d /\ q[k] = e

\* The queue r is q with the event x at its end.
Longer(q, r, x) ==
  /\ \A e : In(r, e) <=> In(q, e) \/ e = x
  /\ \A d, e : Before(r, d, e) <=> Before(q, d, e) \/ (In(q, d) /\ e = x)

\* The queue r is q without its first event x.
Shorter(q, r, x) ==
  /\ In(q, x)
  /\ \A e : In(r, e) => In(q, e) /\ Before(q, x, e)
  /\ \A e : In(q, e) => In(r, e) \/ e = x
  /\ \A d, e : Before(r, d, e) => Before(q, d, e)

\* Append makes a queue longer.
LEMMA LongerIs ==
  ASSUME NEW S, NEW q \in Seq(S), NEW x \in S
  PROVE  /\ Append(q, x) \in Seq(S) /\ Len(Append(q, x)) = Len(q) + 1
         /\ Longer(q, Append(q, x), x)
<1> DEFINE r == Append(q, x)
<1>1. /\ Len(q) \in Nat /\ r \in Seq(S) /\ Len(r) = Len(q) + 1
      /\ \A k \in 1 .. Len(q) : r[k] = q[k]
      /\ r[Len(q) + 1] = x
  OBVIOUS
<1> HIDE DEF r
<1>2. \A k \in 1 .. Len(r) : k \in 1 .. Len(q) \/ k = Len(q) + 1
  BY <1>1
<1>3. \A k \in 1 .. Len(q) : k \in 1 .. Len(r) /\ k < Len(q) + 1
  BY <1>1
<1>4. Len(q) + 1 \in 1 .. Len(r)
  BY <1>1
<1>5. ASSUME NEW e PROVE In(r, e) <=> In(q, e) \/ e = x
  BY <1>1, <1>2, <1>3, <1>4 DEF In
<1>6. ASSUME NEW d, NEW e PROVE Before(r, d, e) <=> Before(q, d, e) \/ (In(q, d) /\ e = x)
  <2>1. ASSUME Before(r, d, e) PROVE Before(q, d, e) \/ (In(q, d) /\ e = x)
    <3>1. PICK j, k \in 1 .. Len(r) : j < k /\ r[j] = d /\ r[k] = e
      BY <2>1 DEF Before
    <3>2. j \in 1 .. Len(q)
      BY <1>1, <3>1
    <3>3. CASE k \in 1 .. Len(q)
      BY <1>1, <3>1, <3>2, <3>3 DEF Before
    <3>4. CASE k = Len(q) + 1
      BY <1>1, <3>1, <3>2, <3>4 DEF In
    <3> QED BY <1>2, <3>3, <3>4
  <2>2. Before(q, d, e) => Before(r, d, e)
    BY <1>1, <1>3 DEF Before
  <2>3. In(q, d) /\ e = x => Before(r, d, e)
    BY <1>1, <1>3, <1>4 DEF Before, In
  <2> QED BY <2>1, <2>2, <2>3
<1> QED BY <1>1, <1>5, <1>6 DEF Longer, r

\* Tail makes it shorter.
LEMMA ShorterIs ==
  ASSUME NEW S, NEW q \in Seq(S), q # <<>>
  PROVE  /\ Tail(q) \in Seq(S) /\ Len(Tail(q)) = Len(q) - 1
         /\ Head(q) \in S
         /\ Shorter(q, Tail(q), Head(q))
<1> DEFINE r == Tail(q)
           x == Head(q)
<1>1. /\ Len(q) \in Nat /\ Len(q) >= 1 /\ r \in Seq(S) /\ Len(r) = Len(q) - 1
      /\ \A k \in 1 .. Len(q) - 1 : r[k] = q[k + 1]
      /\ q[1] = x /\ x \in S
  OBVIOUS
<1> HIDE DEF r, x
<1>2. \A k \in 1 .. Len(r) : k + 1 \in 1 .. Len(q) /\ 1 < k + 1 /\ r[k] = q[k + 1]
  BY <1>1
<1>3. \A k \in 1 .. Len(q) : k = 1 \/ (k - 1 \in 1 .. Len(r) /\ r[k - 1] = q[k])
  <2> SUFFICES ASSUME NEW k \in 1 .. Len(q), k # 1
               PROVE  k - 1 \in 1 .. Len(r) /\ r[k - 1] = q[k]
    OBVIOUS
  <2>1. k - 1 \in 1 .. Len(q) - 1 /\ (k - 1) + 1 = k
    BY <1>1
  <2>2. r[k - 1] = q[(k - 1) + 1]
    BY <1>1, <2>1
  <2> QED BY <1>1, <2>1, <2>2
<1>4. 1 \in 1 .. Len(q)
  BY <1>1
<1>5. In(q, x)
  BY <1>1, <1>4 DEF In
<1>6. ASSUME NEW e, In(r, e) PROVE In(q, e) /\ Before(q, x, e)
  BY <1>1, <1>2, <1>4, <1>6 DEF In, Before
<1>7. ASSUME NEW e, In(q, e) PROVE In(r, e) \/ e = x
  BY <1>1, <1>3, <1>7 DEF In
<1>8. ASSUME NEW d, NEW e, Before(r, d, e) PROVE Before(q, d, e)
  <2>1. PICK j, k \in 1 .. Len(r) : j < k /\ r[j] = d /\ r[k] = e
    BY <1>8 DEF Before
  <2>2. /\ j + 1 \in 1 .. Len(q) /\ k + 1 \in 1 .. Len(q) /\ j + 1 < k + 1
        /\ q[j + 1] = d /\ q[k + 1] = e
    BY <1>1, <1>2, <2>1
  <2> QED BY <2>2 DEF Before
<1> QED BY <1>1, <1>5, <1>6, <1>7, <1>8 DEF Shorter, r, x

\* Nothing is in an empty queue, or before anything.
LEMMA EmptyIs ==
  /\ \A e : ~In(<<>>, e)
  /\ \A d, e : ~Before(<<>>, d, e)
  BY DEF In, Before

\* In, of a sequence of S, is to be an element of it.
LEMMA InIs ==
  ASSUME NEW S, NEW q \in Seq(S), NEW e
  PROVE  e \in ToSet(q) <=> In(q, e)
  BY DEF ToSet, In

\* Two events are the same when their types and windows are, and so for the
\* requests to map a window.
LEMMA EventsAre ==
  /\ \A s, t, v, w : Event(s, v) = Event(t, w) <=> s = t /\ v = w
  /\ \A s, v : Event(s, v).type = s /\ Event(s, v).window = v
  /\ \A v, w : MapIt(v) = MapIt(w) <=> v = w
  /\ \A node, w : Configure(node) # MapIt(w)
<1>1. ASSUME NEW s, NEW t, NEW v, NEW w, Event(s, v) = Event(t, w) PROVE s = t /\ v = w
  <2>1. Event(s, v).type = Event(t, w).type /\ Event(s, v).window = Event(t, w).window
    BY <1>1
  <2> QED BY <2>1 DEF Event
<1>2. ASSUME NEW s, NEW v PROVE Event(s, v).type = s /\ Event(s, v).window = v
  BY DEF Event
<1>3. ASSUME NEW v, NEW w, MapIt(v) = MapIt(w) PROVE v = w
  <2>1. MapIt(v).window = MapIt(w).window
    BY <1>3
  <2> QED BY <2>1 DEF MapIt
<1>4. ASSUME NEW node, NEW w PROVE Configure(node) # MapIt(w)
  <2>1. Configure(node).type # MapIt(w).type
    BY DEF Configure, MapIt
  <2> QED BY <2>1
<1> QED BY <1>1, <1>2, <1>3, <1>4

-----------------------------------------------------------------------------
(* The state once the windows of the tree are added.                       *)

\* What add_windows has after each of the first n windows.
IsAdded(f, n) ==
  /\ f = [k \in 0 .. n |-> f[k]]
  /\ f[0] = NewWm
  /\ \A k \in 1 .. n : f[k] = AddWindow(f[k - 1], tree[k], known[k])

\* There is such a function: each of its values is made from the last.
LEMMA AddedExists ==
  ASSUME NEW n \in Nat
  PROVE  \E f : IsAdded(f, n)
<1> DEFINE T == {m \in Nat : \E f : IsAdded(f, m)}
<1>1. 0 \in T
  <2> DEFINE f == [k \in 0 .. 0 |-> NewWm]
  <2>1. f[0] = NewWm /\ f = [k \in 0 .. 0 |-> f[k]]
    OBVIOUS
  <2>2. IsAdded(f, 0)
    BY <2>1 DEF IsAdded
  <2> QED BY <2>2
<1>2. ASSUME NEW m \in Nat, m \in T PROVE m + 1 \in T
  <2>1. PICK f : IsAdded(f, m)
    BY <1>2
  <2> DEFINE next == AddWindow(f[m], tree[m + 1], known[m + 1])
             g == [k \in 0 .. m + 1 |-> IF k = m + 1 THEN next ELSE f[k]]
  <2>2. g = [k \in 0 .. m + 1 |-> g[k]] /\ g[m + 1] = next /\ \A k \in 0 .. m : g[k] = f[k]
    <3> HIDE DEF next
    <3> QED OBVIOUS
  <2> HIDE DEF g
  <2>3. g[0] = NewWm
    <3>1. f[0] = NewWm
      BY <2>1 DEF IsAdded
    <3>2. 0 \in 0 .. m
      OBVIOUS
    <3> QED BY <2>2, <3>1, <3>2
  <2>4. ASSUME NEW k \in 1 .. m + 1 PROVE g[k] = AddWindow(g[k - 1], tree[k], known[k])
    <3>1. CASE k = m + 1
      <4>1. k - 1 = m /\ m \in 0 .. m
        BY <3>1
      <4> QED BY <2>2, <3>1, <4>1
    <3>2. CASE k # m + 1
      <4>1. k \in 1 .. m /\ k - 1 \in 0 .. m /\ k \in 0 .. m
        BY <3>2
      <4>2. f[k] = AddWindow(f[k - 1], tree[k], known[k])
        BY <2>1, <4>1 DEF IsAdded
      <4> QED BY <2>2, <4>1, <4>2
    <3> QED BY <3>1, <3>2
  <2>5. IsAdded(g, m + 1)
    BY <2>2, <2>3, <2>4 DEF IsAdded
  <2> QED BY <2>5
<1>3. Nat \subseteq T
  <2> HIDE DEF T
  <2> QED BY <1>1, <1>2, SetInduction
<1> QED BY <1>3

\* add_windows returns the last.
LEMMA AddedIsLast ==
  ASSUME Len(tree) \in Nat
  PROVE  \E f : IsAdded(f, Len(tree)) /\ AddWindows = f[Len(tree)]
<1> DEFINE n == Len(tree)
           Rec(f) == [k \in 0 .. n |-> IF k = 0 THEN NewWm
                                       ELSE AddWindow(f[k - 1], tree[k], known[k])]
           f == CHOOSE f : f = Rec(f)
<1>1. PICK g : IsAdded(g, n)
  BY AddedExists
<1>2. g = Rec(g)
  BY <1>1 DEF IsAdded
<1>3. f = Rec(f)
  BY <1>2
<1>4. AddWindows = f[n]
  BY DEF AddWindows
<1> HIDE DEF f
<1>5. IsAdded(f, n)
  <2> DEFINE r == Rec(f)
  <2>1. /\ r = [k \in 0 .. n |-> r[k]]
        /\ r[0] = NewWm
        /\ \A k \in 1 .. n : r[k] = AddWindow(f[k - 1], tree[k], known[k])
    OBVIOUS
  <2>2. f = r
    BY <1>3
  <2> HIDE DEF r
  <2> QED BY <2>1, <2>2 DEF IsAdded
<1> QED BY <1>4, <1>5

\* The windows of the tree, and those of them that were found to be mapped.
FoundIn(k) == {tree[j] : j \in 1 .. k}
FoundMapped(k) == {tree[j] : j \in {j \in 1 .. k : known[j] = "Mapped"}}

\* A window that is added is tracked, and mapped as it is said to be.
LEMMA AddedWindow ==
  ASSUME NEW state, Good(state), NEW w, w \notin MappedIn(state), NEW m \in MapStates
  PROVE  LET after == AddWindow(state, w, m)
         IN  /\ Good(after)
             /\ Tracked(after) = Tracked(state) \cup {w}
             /\ MappedIn(after) = IF m = "Mapped" THEN MappedIn(state) \cup {w}
                                  ELSE MappedIn(state)
<1> DEFINE after == AddWindow(state, w, m)
<1>1. Good(after) /\ Tracks(state, after, w, m)
  BY AddWindowIs
<1> HIDE DEF after
<1>2. /\ Tracked(after) = Tracked(state) \cup {w}
      /\ \A v \in Tracked(after) : after.windows[v] = IF v = w THEN m ELSE state.windows[v]
  BY <1>1 DEF Tracks
<1>3. ASSUME NEW v
      PROVE  v \in MappedIn(after) <=> v \in MappedIn(state) \/ (v = w /\ m = "Mapped")
  BY <1>2 DEF MappedIn
<1> QED BY <1>1, <1>2, <1>3 DEF after

\* The children of its layout are all new, and stay so.
Untouched(L) == Spaced(L) /\ AllFresh(L)

\* A window that is added before anything is placed leaves nothing placed.
LEMMA AddedUntouched ==
  ASSUME NEW state, Good(state), Untouched(state.layout), NEW w, NEW m
  PROVE  Untouched(AddWindow(state, w, m).layout)
<1> DEFINE L == state.layout
           A == AddToLayout(L, w)
           grown == [state EXCEPT !.layout = A]
<1>1. DOMAIN state = {"layout", "windows"} /\ Shaped(L) /\ Spaced(L) /\ AllFresh(L)
  BY DEF Good, Untouched
<1>2. AllFresh(A)
  BY <1>1, AllFreshIs
<1>3. Spaced(A)
  BY <1>1, AddedSpaced
<1> HIDE DEF A, L
<1>4. DOMAIN grown = {"layout", "windows"} /\ grown.layout = A
  BY <1>1
<1>5. AddWindow(state, w, m) = Track(IF m = "Mapped" THEN grown ELSE state, w, m)
  BY DEF AddWindow, A, L
<1> HIDE DEF grown
<1>6. \/ AddWindow(state, w, m).layout = grown.layout
      \/ AddWindow(state, w, m).layout = state.layout
  BY <1>1, <1>4, <1>5, TrackIs
<1> QED BY <1>1, <1>2, <1>3, <1>4, <1>6 DEF Untouched, L

\* add_windows: AquariWM knows the windows of the tree, and which were mapped.
LEMMA AddWindowsIs ==
  ASSUME NEW S, tree \in Seq(S), IsInjective(tree), known \in Seq(MapStates),
         Len(known) = Len(tree)
  PROVE  /\ Good(AddWindows)
         /\ Tracked(AddWindows) = FoundIn(Len(tree))
         /\ MappedIn(AddWindows) = FoundMapped(Len(tree))
         /\ Untouched(AddWindows.layout)
<1> DEFINE n == Len(tree)
<1>0. n \in Nat /\ DOMAIN tree = 1 .. n /\ \A k \in 1 .. n : known[k] \in MapStates
  OBVIOUS
<1>1. PICK f : IsAdded(f, n) /\ AddWindows = f[n]
  BY <1>0, AddedIsLast
<1> DEFINE P(k) == /\ Good(f[k])
                   /\ Tracked(f[k]) = FoundIn(k)
                   /\ MappedIn(f[k]) = FoundMapped(k)
                   /\ Untouched(f[k].layout)
           T == {k \in Nat : k <= n => P(k)}
<1>2. 0 \in T
  <2>1. f[0] = NewWm /\ MappedIn(NewWm) = {}
    BY <1>1, NewWmIs DEF IsAdded, MappedIn
  <2>2. FoundIn(0) = {} /\ FoundMapped(0) = {}
    BY DEF FoundIn, FoundMapped
  <2>3. NewWm.layout = NewLayout /\ Len(NewLayout.children) = 0
    BY DEF NewWm, NewLayout, GroupOf
  <2>4. Untouched(NewWm.layout)
    BY <2>3, NewLayoutSpaced DEF Untouched, AllFresh
  <2> QED BY <2>1, <2>2, <2>4, NewWmIs
<1>3. ASSUME NEW k \in Nat, k \in T PROVE k + 1 \in T
  <2> SUFFICES ASSUME k + 1 <= n PROVE P(k + 1)
    OBVIOUS
  <2> DEFINE w == tree[k + 1]
             m == known[k + 1]
             state == f[k]
             after == f[k + 1]
  <2>1. P(k) /\ k + 1 \in 1 .. n /\ (k + 1) - 1 = k
    BY <1>0, <1>3
  <2>2. m \in MapStates /\ after = AddWindow(state, w, m)
    BY <1>0, <1>1, <2>1 DEF IsAdded
  <2>3. \A j \in 1 .. k : j \in 1 .. n /\ tree[j] # w
    BY <1>0, <2>1 DEF IsInjective
  <2>4. w \notin MappedIn(state)
    BY <2>1, <2>3 DEF FoundMapped
  <2>5. /\ Good(after)
        /\ Tracked(after) = Tracked(state) \cup {w}
        /\ MappedIn(after) = IF m = "Mapped" THEN MappedIn(state) \cup {w}
                             ELSE MappedIn(state)
    <3>1. Good(state)
      BY <2>1
    <3> HIDE DEF w, m, state, after
    <3> QED BY <2>2, <2>4, <3>1, AddedWindow
  <2>6. \A j : j \in 1 .. k + 1 <=> j \in 1 .. k \/ j = k + 1
    OBVIOUS
  <2>7. FoundIn(k + 1) = FoundIn(k) \cup {w}
    BY <2>6 DEF FoundIn
  <2>8. FoundMapped(k + 1) = IF m = "Mapped" THEN FoundMapped(k) \cup {w} ELSE FoundMapped(k)
    BY <2>6 DEF FoundMapped
  <2>9. Untouched(after.layout)
    <3>1. Good(state) /\ Untouched(state.layout)
      BY <2>1
    <3> HIDE DEF w, m, state, after
    <3> QED BY <2>2, <3>1, AddedUntouched
  <2> HIDE DEF w, m
  <2> QED BY <2>1, <2>5, <2>7, <2>8, <2>9
<1>4. Nat \subseteq T
  <2> HIDE DEF T
  <2> QED BY <1>2, <1>3, SetInduction
<1>5. P(n)
  BY <1>0, <1>4
<1> QED BY <1>1, <1>5

-----------------------------------------------------------------------------
(* The inductive invariant.  It says nothing once AquariWM is over, and    *)
(* speaks of what AquariWM knows in all of its phases: first nothing, then *)
(* the tree and the attributes that it has read, then its state.           *)

EventsOf(S) == [type : EventTypes, window : S]

\* The windows that AquariWM has found, or will find when it looks.
Held(w) ==
  IF phase = "running" THEN w \in Tracked(wm)
  ELSE IF phase = "querying" THEN \E k \in 1 .. Len(tree) : tree[k] = w
  ELSE w \in exists

\* Those whose attributes it has read, and those it takes to be mapped.
Seen(w) ==
  IF phase = "querying" THEN \E k \in 1 .. Len(known) : tree[k] = w ELSE phase = "running"
Believed(w) ==
  IF phase = "querying" THEN \E k \in 1 .. Len(known) : tree[k] = w /\ known[k] = "Mapped"
  ELSE phase = "running" /\ w \in MappedIn(wm)

Values ==
  /\ mapped \subseteq exists /\ exists \subseteq created /\ created \subseteq Windows
  /\ Existing \subseteq created
  /\ DOMAIN placed \subseteq exists
  /\ events \in Seq(EventsOf(created)) /\ Len(events) <= MaxEvents
  /\ phase \in Phases
  /\ tree \in Seq(created) /\ IsInjective(tree)
  /\ known \in Seq(MapStates) /\ Len(known) <= Len(tree)
  /\ Good(wm) /\ Tracked(wm) \subseteq created
  /\ \A request \in requests :
       /\ request.window \in created
       /\ request = MapIt(request.window) \/ request.type = "configure"
  /\ phase = "starting" => events = <<>>
  /\ phase \in {"starting", "registered"} => tree = <<>> /\ known = <<>>
  /\ phase \in {"starting", "registered", "querying"} => wm = NewWm /\ requests = {}

\* The first event of a window is that it was created, the last that it was
\* destroyed.
Ordered ==
  \A w \in Windows, type \in EventTypes :
    /\ ~Before(events, Event(type, w), Event("CreateNotify", w))
    /\ ~Before(events, Event("DestroyNotify", w), Event(type, w))

\* A window is not mapped, nor taken to be, before its creation is handled.
News ==
  \A w \in Windows :
    In(events, Event("CreateNotify", w)) =>
      w \notin Existing /\ w \notin mapped /\ MapIt(w) \notin requests /\ ~Believed(w)

\* AquariWM has found the windows there are, or is to hear of them, and is to
\* hear of the end of those that are gone.
Tracking ==
  \A w \in Windows :
    /\ w \in exists => /\ ~In(events, Event("DestroyNotify", w))
                       /\ Held(w) \/ In(events, Event("CreateNotify", w))
    /\ w \notin exists /\ (Held(w) \/ In(events, Event("CreateNotify", w)))
         => In(events, Event("DestroyNotify", w))

Inv == Values /\ (~Over => Ordered /\ News /\ Tracking)

-----------------------------------------------------------------------------
(* What the event loop does.                                               *)

\* An event is handled: the first of the queue is gone, and unless AquariWM is
\* over it knows the windows as the event tells it.
Handled(type, w) ==
  /\ type \in EventTypes /\ w \in created
  /\ phase = "running" /\ requests = {}
  /\ Shorter(events, events', Event(type, w))
  /\ UNCHANGED <<exists, created, mapped, tree, known>>
  /\ \/ phase' \in {"exited", "panicked"}
     \/ /\ phase' = "running"
        /\ Tracked(wm') = IF type = "CreateNotify" THEN Tracked(wm) \cup {w}
                          ELSE IF type = "DestroyNotify" THEN Tracked(wm) \ {w} ELSE Tracked(wm)
        /\ MappedIn(wm') = IF type = "MapRequest" THEN MappedIn(wm) \cup {w}
                           ELSE IF type \in {"UnmapNotify", "DestroyNotify"}
                                THEN MappedIn(wm) \ {w} ELSE MappedIn(wm)
        /\ \A v : MapIt(v) \in requests' <=> type = "MapRequest" /\ v = w

\* An event is read when AquariWM has no request to wait for.
LEMMA ReadIs ==
  ASSUME Values, NEW type, NEW w, Read(type, w)
  PROVE  /\ type \in EventTypes /\ w \in created
         /\ phase = "running" /\ requests = {}
         /\ Shorter(events, events', Event(type, w))
         /\ events' \in Seq(EventsOf(created)) /\ Len(events') <= MaxEvents
         /\ UNCHANGED <<exists, created, mapped, tree, known>>
         /\ In(events, Event(type, w))
<1>1. /\ events # <<>> /\ Head(events) = Event(type, w) /\ events' = Tail(events)
      /\ phase = "running" /\ requests = {}
      /\ UNCHANGED <<exists, created, mapped, tree, known>>
  BY DEF Read
<1>2. events \in Seq(EventsOf(created)) /\ Len(events) <= MaxEvents /\ Len(events) \in Nat
  BY DEF Values
<1>3. /\ events' \in Seq(EventsOf(created)) /\ Len(events') = Len(events) - 1
      /\ Head(events) \in EventsOf(created)
      /\ Shorter(events, events', Event(type, w))
  BY <1>1, <1>2, ShorterIs
<1>4. type \in EventTypes /\ w \in created
  <2>1. Event(type, w) \in EventsOf(created)
    BY <1>1, <1>3
  <2>2. Event(type, w).type \in EventTypes /\ Event(type, w).window \in created
    BY <2>1 DEF EventsOf
  <2> QED BY <2>2, EventsAre
<1>5. MaxEvents \in Nat
  BY ClientsAssumption
<1> QED BY <1>1, <1>2, <1>3, <1>4, <1>5 DEF Shorter

\* Changes are applied to the state that a handler leaves: its windows stay, and
\* only those that it has mapped are configured.
LEMMA AppliesWell ==
  ASSUME phase = "running", requests = {}, Good(wm),
         NEW after, Good(after), NEW others, ThenApply(after, others)
  PROVE  \/ phase' = "panicked" /\ UNCHANGED <<wm, requests>>
         \/ /\ phase' = "running"
            /\ Good(wm')
            /\ Tracked(wm') = Tracked(after) /\ MappedIn(wm') = MappedIn(after)
            /\ \A v : MapIt(v) \in requests' <=> MapIt(v) \in others
            /\ \A request \in requests' :
                 \/ request \in others
                 \/ request.type = "configure" /\ request.window \in MappedIn(after)
<1>1. CASE AppliedPanics(after.layout)
  BY <1>1 DEF ThenApply
<1>2. CASE ~AppliedPanics(after.layout)
  <2> DEFINE nodes == ToReconfigure(after.layout)
  <2>1. /\ wm' = [after EXCEPT !.layout = Applied(@)]
        /\ requests' = others \cup {Configure(node) : node \in nodes}
        /\ phase' = "running"
    BY <1>2 DEF ThenApply
  <2>2. Good(wm') /\ wm'.windows = after.windows
    BY <2>1, AppliedWmIs
  <2>3. Tracked(wm') = Tracked(after) /\ MappedIn(wm') = MappedIn(after)
    BY <2>2 DEF Tracked, MappedIn
  <2>4. ASSUME NEW node \in nodes
        PROVE  Configure(node).type = "configure" /\ Configure(node).window \in MappedIn(after)
    <3>1. Shaped(after.layout) /\ Tiled(after) = HeldIn(after.layout)
      BY TiledIs DEF Good
    <3>2. node.window \in ToSet(HeldIn(after.layout))
      BY <3>1, ReconfiguredIs
    <3>3. node.window \in MappedIn(after)
      BY <3>1, <3>2 DEF Good
    <3> QED BY <3>3 DEF Configure
  <2> HIDE DEF nodes
  <2>5. \A v : MapIt(v) \in requests' <=> MapIt(v) \in others
    BY <2>1, EventsAre
  <2> QED BY <2>1, <2>2, <2>3, <2>4, <2>5
<1> QED BY <1>1, <1>2

\* What is left of the values once the event loop goes on.
LEMMA RunningValues ==
  ASSUME Values, phase = "running",
         events' \in Seq(EventsOf(created)), Len(events') <= MaxEvents,
         UNCHANGED <<exists, created, mapped, tree, known>>,
         placed' = placed \/ \E w \in exists : placed' = With(placed, w, Asked),
         phase' \in {"running", "exited", "panicked"},
         Good(wm'), Tracked(wm') \subseteq created,
         \A request \in requests' :
           /\ request.window \in created
           /\ request = MapIt(request.window) \/ request.type = "configure"
  PROVE  Values'
<1>1. DOMAIN placed' \subseteq exists'
  BY DEF Values, With
<1>2. phase' \notin {"starting", "registered", "querying"} /\ phase' \in Phases
  BY DEF Phases
<1> QED BY <1>1, <1>2 DEF Values

\* A state of which w is tracked, with or without being taken to be mapped.
LEMMA StateOf ==
  ASSUME NEW state, Good(state), NEW w, NEW after, NEW m
  PROVE  /\ Tracks(state, after, w, m) =>
              /\ Tracked(after) = Tracked(state) \cup {w}
              /\ MappedIn(after) = IF m = "Mapped" THEN MappedIn(state) \cup {w}
                                   ELSE MappedIn(state) \ {w}
         /\ w \in Tracked(state) => Tracked(state) \cup {w} = Tracked(state)
<1>1. ASSUME Tracks(state, after, w, m)
      PROVE  /\ Tracked(after) = Tracked(state) \cup {w}
             /\ MappedIn(after) = IF m = "Mapped" THEN MappedIn(state) \cup {w}
                                  ELSE MappedIn(state) \ {w}
  <2>1. /\ Tracked(after) = Tracked(state) \cup {w}
        /\ \A v \in Tracked(after) : after.windows[v] = IF v = w THEN m ELSE state.windows[v]
    BY <1>1 DEF Tracks
  <2>2. ASSUME NEW v
        PROVE  v \in MappedIn(after) <=> IF v = w THEN m = "Mapped" ELSE v \in MappedIn(state)
    BY <2>1 DEF MappedIn
  <2> QED BY <2>1, <2>2
<1> QED BY <1>1

\* AquariWm::remove_window, by the windows that are known and mapped.
LEMMA RemovedState ==
  ASSUME NEW state, Good(state), NEW w
  PROVE  LET after == RemoveWindow(state, w)
         IN  /\ Good(after) /\ Tracked(after) = Tracked(state) \ {w}
             /\ MappedIn(after) = MappedIn(state) \ {w}
<1> DEFINE after == RemoveWindow(state, w)
<1>1. /\ Good(after) /\ Tracked(after) = Tracked(state) \ {w}
      /\ \A v \in Tracked(after) : after.windows[v] = state.windows[v]
  BY RemoveWindowIs
<1> HIDE DEF after
<1>2. ASSUME NEW v PROVE v \in MappedIn(after) <=> v \in MappedIn(state) /\ v # w
  BY <1>1 DEF MappedIn
<1> QED BY <1>1, <1>2 DEF after

\* The handler's state of the windows is applied.
LEMMA HandledWith ==
  ASSUME Values, NEW type, NEW w, Read(type, w), UNCHANGED placed,
         NEW after, Good(after), NEW others, ThenApply(after, others),
         others = IF type = "MapRequest" THEN {MapIt(w)} ELSE {},
         Tracked(after) = IF type = "CreateNotify" THEN Tracked(wm) \cup {w}
                          ELSE IF type = "DestroyNotify" THEN Tracked(wm) \ {w} ELSE Tracked(wm),
         MappedIn(after) = IF type = "MapRequest" THEN MappedIn(wm) \cup {w}
                           ELSE IF type \in {"UnmapNotify", "DestroyNotify"}
                                THEN MappedIn(wm) \ {w} ELSE MappedIn(wm)
  PROVE  Handled(type, w) /\ Values'
<1>1. /\ type \in EventTypes /\ w \in created
      /\ phase = "running" /\ requests = {}
      /\ Shorter(events, events', Event(type, w))
      /\ events' \in Seq(EventsOf(created)) /\ Len(events') <= MaxEvents
      /\ UNCHANGED <<exists, created, mapped, tree, known>>
  BY ReadIs
<1>2. Good(wm) /\ Tracked(wm) \subseteq created
  BY DEF Values
<1>3. Tracked(after) \subseteq created /\ MappedIn(after) \subseteq created
  BY <1>1, <1>2 DEF MappedIn
<1>4. \/ phase' = "panicked" /\ UNCHANGED <<wm, requests>>
      \/ /\ phase' = "running"
         /\ Good(wm')
         /\ Tracked(wm') = Tracked(after) /\ MappedIn(wm') = MappedIn(after)
         /\ \A v : MapIt(v) \in requests' <=> MapIt(v) \in others
         /\ \A request \in requests' :
              \/ request \in others
              \/ request.type = "configure" /\ request.window \in MappedIn(after)
  BY <1>1, <1>2, AppliesWell
<1>5. \A request \in others : request.window \in created /\ request = MapIt(request.window)
  BY <1>1 DEF MapIt
<1>6. /\ Good(wm') /\ Tracked(wm') \subseteq created
      /\ \A request \in requests' :
           /\ request.window \in created
           /\ request = MapIt(request.window) \/ request.type = "configure"
      /\ phase' \in {"running", "exited", "panicked"}
  BY <1>1, <1>2, <1>3, <1>4, <1>5
<1>7. Values'
  BY <1>1, <1>6, RunningValues
<1>8. \A v : MapIt(v) \in others <=> type = "MapRequest" /\ v = w
  BY EventsAre
<1>9. Handled(type, w)
  BY <1>1, <1>4, <1>8 DEF Handled
<1> QED BY <1>7, <1>9

\* The loop ends at an event, or goes on as it was.
LEMMA HandledSo ==
  ASSUME Values, NEW type \in {"MapRequest", "UnmapNotify", "ConfigureRequest", "CirculateRequest"},
         NEW w, Read(type, w),
         placed' = placed \/ (w \in exists /\ placed' = With(placed, w, Asked)),
         UNCHANGED <<wm, requests>>,
         \/ phase' \in {"exited", "panicked"}
         \/ phase' = phase /\ type = "ConfigureRequest"
  PROVE  Handled(type, w) /\ Values'
<1>1. /\ type \in EventTypes /\ w \in created
      /\ phase = "running" /\ requests = {}
      /\ Shorter(events, events', Event(type, w))
      /\ events' \in Seq(EventsOf(created)) /\ Len(events') <= MaxEvents
      /\ UNCHANGED <<exists, created, mapped, tree, known>>
  BY ReadIs
<1>2. Values'
  <2>1. /\ Good(wm') /\ Tracked(wm') \subseteq created /\ requests' = {}
        /\ phase' \in {"running", "exited", "panicked"}
    BY <1>1 DEF Values
  <2> QED BY <1>1, <2>1, RunningValues
<1>3. Handled(type, w)
  BY <1>1 DEF Handled
<1> QED BY <1>2, <1>3

\* What each handler does, and that the values stay what they are to be.
LEMMA HandledIs ==
  ASSUME Inv, Handle
  PROVE  Values' /\ \E w \in Windows, type \in EventTypes : Handled(type, w)
<1>0. /\ Values /\ Good(wm) /\ created \subseteq Windows
      /\ \A w : w \in created => w \in Windows
  BY DEF Inv, Values
<1> DEFINE Goal == Values' /\ \E w \in Windows, type \in EventTypes : Handled(type, w)
<1>1. ASSUME NEW type, NEW w, Handled(type, w), Values' PROVE Goal
  BY <1>0, <1>1 DEF Handled
<1> HIDE DEF Goal
<1>2. ASSUME NEW w \in Windows, HandleCreate(w) PROVE Goal
  <2> DEFINE after == AddWindow(wm, w, "Unmapped")
  <2>1. Read("CreateNotify", w) /\ ThenApply(after, {}) /\ UNCHANGED placed
    BY <1>2 DEF HandleCreate
  <2>2. In(events, Event("CreateNotify", w)) /\ phase = "running"
    BY <1>0, <2>1, ReadIs
  <2>3. w \notin MappedIn(wm)
    BY <2>2 DEF Inv, Over, News, Believed
  <2>4. "Unmapped" \in MapStates
    BY DEF MapStates
  <2>5. /\ Good(after) /\ Tracked(after) = Tracked(wm) \cup {w}
        /\ MappedIn(after) = MappedIn(wm)
    BY <1>0, <2>3, <2>4, AddedWindow
  <2> HIDE DEF after
  <2>6. Handled("CreateNotify", w) /\ Values'
    BY <1>0, <2>1, <2>5, HandledWith
  <2> QED BY <1>1, <2>6
<1>3. ASSUME NEW w \in Windows, HandleDestroy(w) PROVE Goal
  <2> DEFINE after == RemoveWindow(wm, w)
  <2>1. Read("DestroyNotify", w) /\ ThenApply(after, {}) /\ UNCHANGED placed
    BY <1>3 DEF HandleDestroy
  <2>2. /\ Good(after) /\ Tracked(after) = Tracked(wm) \ {w}
        /\ MappedIn(after) = MappedIn(wm) \ {w}
    BY <1>0, RemovedState
  <2> HIDE DEF after
  <2>3. Handled("DestroyNotify", w) /\ Values'
    BY <1>0, <2>1, <2>2, HandledWith
  <2> QED BY <1>1, <2>3
<1>4. ASSUME NEW w \in Windows, HandleMapRequest(w) PROVE Goal
  <2> DEFINE after == MapWindow(wm, w)
  <2>1. Read("MapRequest", w) /\ UNCHANGED placed
    BY <1>4 DEF HandleMapRequest
  <2>2. ASSUME w \in Tracked(wm) PROVE Goal
    <3>1. ThenApply(after, {MapIt(w)})
      BY <1>4, <2>2 DEF HandleMapRequest
    <3>2. Good(after) /\ Tracks(wm, after, w, "Mapped")
      BY <1>0, <2>2, MapWindowIs
    <3> HIDE DEF after
    <3>3. Tracked(after) = Tracked(wm) /\ MappedIn(after) = MappedIn(wm) \cup {w}
      BY <1>0, <2>2, <3>2, StateOf
    <3>4. Handled("MapRequest", w) /\ Values'
      BY <1>0, <2>1, <3>1, <3>2, <3>3, HandledWith
    <3> QED BY <1>1, <3>4
  <2>3. ASSUME w \notin Tracked(wm) PROVE Goal
    <3>1. phase' = "panicked" /\ UNCHANGED <<wm, requests>>
      BY <1>4, <2>3 DEF HandleMapRequest, Ends
    <3>2. Handled("MapRequest", w) /\ Values'
      BY <1>0, <2>1, <3>1, HandledSo
    <3> QED BY <1>1, <3>2
  <2> QED BY <2>2, <2>3
<1>5. ASSUME NEW w \in Windows, HandleUnmap(w) PROVE Goal
  <2> DEFINE after == UnmapWindow(wm, w)
  <2>1. Read("UnmapNotify", w) /\ UNCHANGED placed
    BY <1>5 DEF HandleUnmap
  <2>2. ASSUME w \in Tracked(wm) PROVE Goal
    <3>1. ThenApply(after, {})
      BY <1>5, <2>2 DEF HandleUnmap
    <3>2. Good(after) /\ Tracks(wm, after, w, "Unmapped")
      BY <1>0, <2>2, UnmapWindowIs
    <3> HIDE DEF after
    <3>3. Tracked(after) = Tracked(wm) /\ MappedIn(after) = MappedIn(wm) \ {w}
      BY <1>0, <2>2, <3>2, StateOf
    <3>4. Handled("UnmapNotify", w) /\ Values'
      BY <1>0, <2>1, <3>1, <3>2, <3>3, HandledWith
    <3> QED BY <1>1, <3>4
  <2>3. ASSUME w \notin Tracked(wm) PROVE Goal
    <3>1. phase' = "panicked" /\ UNCHANGED <<wm, requests>>
      BY <1>5, <2>3 DEF HandleUnmap, Ends
    <3>2. Handled("UnmapNotify", w) /\ Values'
      BY <1>0, <2>1, <3>1, HandledSo
    <3> QED BY <1>1, <3>2
  <2> QED BY <2>2, <2>3
<1>6. ASSUME NEW w \in Windows, HandleConfigureRequest(w) PROVE Goal
  <2>1. /\ Read("ConfigureRequest", w) /\ UNCHANGED <<phase, wm, requests>>
        /\ placed' = IF w \in exists THEN With(placed, w, Asked) ELSE placed
    BY <1>6 DEF HandleConfigureRequest
  <2>2. Handled("ConfigureRequest", w) /\ Values'
    BY <1>0, <2>1, HandledSo
  <2> QED BY <1>1, <2>2
<1>7. ASSUME NEW w \in Windows, HandleCirculateRequest(w) PROVE Goal
  <2>1. /\ Read("CirculateRequest", w) /\ UNCHANGED <<placed, wm, requests>>
        /\ phase' \in {"exited", "panicked"}
    BY <1>7 DEF HandleCirculateRequest, Ends
  <2>2. Handled("CirculateRequest", w) /\ Values'
    BY <1>0, <2>1, HandledSo
  <2> QED BY <1>1, <2>2
<1>8. Goal
  BY <1>2, <1>3, <1>4, <1>5, <1>6, <1>7 DEF Handle
<1> QED BY <1>8 DEF Goal

\* A request is answered: AquariWM is over, or the window is mapped or placed.
Served(request) ==
  /\ phase = "running" /\ request \in requests
  /\ UNCHANGED <<exists, created, events, tree, known, wm>>
  /\ \/ phase' = "exited"
     \/ /\ phase' = "running"
        /\ \A v : MapIt(v) \in requests' <=> MapIt(v) \in requests /\ MapIt(v) # request
        /\ \A v : v \in mapped' <=> v \in mapped \/ MapIt(v) = request

\* What the answer to a request does.
LEMMA ServedIs ==
  ASSUME Inv, ServeOne
  PROVE  Values' /\ \E request \in requests : Served(request)
<1>1. PICK request \in requests : Serve(request)
  BY DEF ServeOne
<1> DEFINE w == request.window
           fails == \/ w \notin exists
                    \/ request.type = "configure" /\ \E axis \in Axes : request.place.size[axis] = 0
<1>2. /\ phase = "running"
      /\ requests' = requests \ {request}
      /\ phase' = IF fails THEN "exited" ELSE phase
      /\ mapped' = IF request.type = "map" /\ ~fails THEN mapped \cup {w} ELSE mapped
      /\ placed' = IF request.type = "configure" /\ ~fails THEN With(placed, w, request.place)
                   ELSE placed
      /\ UNCHANGED <<exists, created, events, tree, known, wm>>
  BY <1>1 DEF Serve
<1>3. fails \/ w \in exists
  OBVIOUS
<1>4. Values
  BY DEF Inv
<1>5. request = MapIt(w) \/ request.type = "configure"
  BY <1>4 DEF Values
<1>6. MapIt(w).type = "map" /\ "map" # "configure"
  BY DEF MapIt
<1>7. \A v : MapIt(v) = request <=> request.type = "map" /\ v = w
  <2>1. \A v : MapIt(v).type = "map" /\ MapIt(v).window = v
    BY DEF MapIt
  <2> QED BY <1>5, <1>6, <2>1
<1>8. DOMAIN With(placed, w, request.place) = DOMAIN placed \cup {w}
  BY DEF With
<1> HIDE DEF w, fails
<1>9. Values'
  <2>1. mapped' \subseteq exists' /\ DOMAIN placed' \subseteq exists'
    BY <1>2, <1>3, <1>4, <1>8 DEF Values
  <2>2. phase' \in Phases /\ phase' \notin {"starting", "registered", "querying"}
    BY <1>2 DEF Phases
  <2> QED BY <1>2, <1>4, <2>1, <2>2 DEF Values
<1>10. Served(request)
  BY <1>2, <1>7 DEF Served
<1> QED BY <1>9, <1>10

-----------------------------------------------------------------------------
(* What clients do.                                                        *)

\* AquariWM is sent an event, if it has registered.
Sends(type, w) ==
  /\ type \in EventTypes
  /\ IF phase = "starting" THEN UNCHANGED events ELSE Longer(events, events', Event(type, w))

\* The events are of windows that were created.
SentWell(S) == events' \in Seq(EventsOf(S)) /\ Len(events') <= MaxEvents

\* One event sent makes the queue longer by it, once AquariWM has registered.
LEMMA SendIs ==
  ASSUME Values, NEW S, created \subseteq S, NEW type \in EventTypes, NEW w \in S,
         Send(<<Event(type, w)>>)
  PROVE  Sends(type, w) /\ SentWell(S)
<1> DEFINE x == Event(type, w)
<1>1. x \in EventsOf(S) /\ EventsOf(created) \subseteq EventsOf(S)
  BY DEF Event, EventsOf
<1>2. events \in Seq(EventsOf(S)) /\ Len(events) <= MaxEvents
  BY <1>1 DEF Values
<1>3. CASE phase = "starting"
  BY <1>2, <1>3 DEF Send, Sends, SentWell
<1>4. CASE phase # "starting"
  <2>1. Len(events) + Len(<<x>>) <= MaxEvents /\ events' = events \o <<x>>
    BY <1>4 DEF Send
  <2> HIDE DEF x
  <2>2. events' = Append(events, x) /\ Len(<<x>>) = 1
    BY <1>1, <1>2, <2>1, AppendIsConcat
  <2>3. /\ events' \in Seq(EventsOf(S)) /\ Len(events') = Len(events) + 1
        /\ Longer(events, events', x)
    BY <1>1, <1>2, <2>2, LongerIs
  <2> QED BY <1>4, <2>1, <2>2, <2>3 DEF Sends, SentWell, x
<1> QED BY <1>3, <1>4

\* Two events at once.
SendsBoth(type, other, w) ==
  /\ type \in EventTypes /\ other \in EventTypes
  /\ IF phase = "starting" THEN UNCHANGED events
     ELSE \E q : Longer(events, q, Event(type, w)) /\ Longer(q, events', Event(other, w))

\* Two make it longer by the first and then by the second.
LEMMA SendBothIs ==
  ASSUME Values, NEW type \in EventTypes, NEW other \in EventTypes, NEW w \in created,
         Send(<<Event(type, w)>> \o <<Event(other, w)>>)
  PROVE  SendsBoth(type, other, w) /\ SentWell(created)
<1> DEFINE x == Event(type, w)
           y == Event(other, w)
           S == EventsOf(created)
           q == Append(events, x)
<1>1. x \in S /\ y \in S
  BY DEF Event, EventsOf
<1>2. events \in Seq(S) /\ Len(events) <= MaxEvents
  BY DEF Values
<1>3. CASE phase = "starting"
  BY <1>2, <1>3 DEF Send, SendsBoth, SentWell
<1>4. CASE phase # "starting"
  <2>1. /\ Len(events) + Len(<<x>> \o <<y>>) <= MaxEvents
        /\ events' = events \o (<<x>> \o <<y>>)
    BY <1>4 DEF Send
  <2> HIDE DEF x, y, S
  <2>2. q \in Seq(S) /\ Len(q) = Len(events) + 1 /\ Longer(events, q, x)
    BY <1>1, <1>2, LongerIs
  <2>3. <<x>> \in Seq(S) /\ <<y>> \in Seq(S) /\ Len(<<x>>) = 1 /\ Len(<<y>>) = 1
    BY <1>1
  <2>4. Len(<<x>> \o <<y>>) = 2
    BY <2>3, ConcatProperties
  <2>5. events' = Append(q, y)
    <3>1. events' = (events \o <<x>>) \o <<y>>
      BY <1>2, <2>1, <2>3, ConcatAssociative
    <3>2. q = events \o <<x>>
      BY <1>1, <1>2, AppendIsConcat
    <3>3. Append(q, y) = q \o <<y>>
      <4> HIDE DEF q
      <4> QED BY <1>1, <2>2, AppendIsConcat
    <3> QED BY <3>1, <3>2, <3>3
  <2> HIDE DEF q
  <2>6. Append(q, y) \in Seq(S) /\ Len(Append(q, y)) = Len(q) + 1 /\ Longer(q, Append(q, y), y)
    BY <1>1, <2>2, LongerIs
  <2>7. Len(events) \in Nat
    BY <1>2
  <2>8. Len(events') <= MaxEvents
    BY <2>1, <2>2, <2>4, <2>5, <2>6, <2>7
  <2> QED BY <1>4, <2>2, <2>5, <2>6, <2>8 DEF SendsBoth, SentWell, x, y, S
<1> QED BY <1>3, <1>4

\* The values once a client has done something.
LEMMA ClientValues ==
  ASSUME Values, UNCHANGED client, created \subseteq created', created' \subseteq Windows,
         mapped' \subseteq exists', exists' \subseteq created', DOMAIN placed' \subseteq exists',
         SentWell(created'), phase = "starting" => UNCHANGED events
  PROVE  Values'
<1>1. tree' \in Seq(created')
  <2>1. tree \in Seq(created) /\ tree' = tree
    BY DEF Values, client
  <2> QED BY <2>1
<1> QED BY <1>1 DEF Values, client, SentWell

\* What each of their actions is to AquariWM.
Creates(w) ==
  /\ w \notin created
  /\ exists' = exists \cup {w} /\ created' = created \cup {w} /\ UNCHANGED mapped
  /\ Sends("CreateNotify", w)
Maps(w) ==
  /\ w \in exists \ mapped /\ UNCHANGED <<exists, created>>
  /\ MapPending(w) => "remap" \in Clients
  /\ IF phase # "starting" /\ w \notin OverrideRedirect
     THEN Sends("MapRequest", w) /\ UNCHANGED mapped
     ELSE mapped' = mapped \cup {w} /\ UNCHANGED events
Unmaps(w) ==
  /\ w \in mapped /\ mapped' = mapped \ {w} /\ UNCHANGED <<exists, created>>
  /\ Sends("UnmapNotify", w)
Destroys(w) ==
  /\ w \in exists
  /\ exists' = exists \ {w} /\ mapped' = mapped \ {w} /\ UNCHANGED created
  /\ IF w \in mapped THEN SendsBoth("UnmapNotify", "DestroyNotify", w)
     ELSE Sends("DestroyNotify", w)
Asks(type, w) ==
  /\ type \in {"ConfigureRequest", "CirculateRequest"} /\ w \in exists
  /\ UNCHANGED <<exists, created, mapped>> /\ Sends(type, w)

ClientDoes(w) ==
  /\ UNCHANGED client
  /\ \/ Creates(w) \/ Maps(w) \/ Unmaps(w) \/ Destroys(w)
     \/ \E type \in {"ConfigureRequest", "CirculateRequest"} : Asks(type, w)

\* The types of events there are.
LEMMA TypesAre ==
  {"CreateNotify", "DestroyNotify", "MapRequest", "UnmapNotify", "ConfigureRequest",
   "CirculateRequest"} = EventTypes
  BY DEF EventTypes

\* Each action of a client is one of those above.
LEMMA ClientIs ==
  ASSUME Inv, ClientStep
  PROVE  Values' /\ ~Over /\ \E w \in Windows : ClientDoes(w)
<1>0. Values /\ mapped \subseteq exists /\ exists \subseteq created /\ created \subseteq Windows
  BY DEF Inv, Values
<1> DEFINE Goal == Values' /\ ~Over /\ \E w \in Windows : ClientDoes(w)
<1>1. ASSUME NEW w \in Windows, ClientCreates(w) PROVE Goal
  <2>1. /\ ~Over /\ w \notin created
        /\ exists' = exists \cup {w} /\ created' = created \cup {w}
        /\ Send(<<Event("CreateNotify", w)>>) /\ UNCHANGED <<mapped, placed, client>>
    BY <1>1 DEF ClientCreates, Does
  <2>2. Sends("CreateNotify", w) /\ SentWell(created')
    BY <1>0, <2>1, TypesAre, SendIs
  <2>3. phase = "starting" => UNCHANGED events
    BY <2>2 DEF Sends
  <2>4. DOMAIN placed' \subseteq exists'
    BY <2>1 DEF Inv, Values
  <2>5. Values'
    BY <1>0, <2>1, <2>2, <2>3, <2>4, ClientValues
  <2> QED BY <2>1, <2>2, <2>5 DEF Creates, ClientDoes
<1>2. ASSUME NEW w \in Windows, ClientMaps(w) PROVE Goal
  <2>1. /\ ~Over /\ w \in exists \ mapped
        /\ MapPending(w) => "remap" \in Clients
        /\ IF phase # "starting" /\ w \notin OverrideRedirect
           THEN Send(<<Event("MapRequest", w)>>) /\ UNCHANGED mapped
           ELSE mapped' = mapped \cup {w} /\ UNCHANGED events
        /\ UNCHANGED <<exists, created, placed, client>>
    BY <1>2 DEF ClientMaps, Does
  <2>2. DOMAIN placed' \subseteq exists' /\ mapped' \subseteq exists'
    BY <1>0, <2>1 DEF Inv, Values
  <2>3. CASE phase # "starting" /\ w \notin OverrideRedirect
    <3>1. Sends("MapRequest", w) /\ SentWell(created')
      BY <1>0, <2>1, <2>3, TypesAre, SendIs
    <3>2. Values'
      BY <1>0, <2>1, <2>2, <2>3, <3>1, ClientValues
    <3> QED BY <2>1, <2>3, <3>1, <3>2 DEF Maps, ClientDoes
  <2>4. CASE ~(phase # "starting" /\ w \notin OverrideRedirect)
    <3>1. SentWell(created') /\ UNCHANGED events
      BY <1>0, <2>1, <2>4 DEF SentWell, Values
    <3>2. Values'
      BY <1>0, <2>1, <2>2, <3>1, ClientValues
    <3> QED BY <2>1, <2>4, <3>2 DEF Maps, ClientDoes
  <2> QED BY <2>3, <2>4
<1>3. ASSUME NEW w \in Windows, ClientUnmaps(w) PROVE Goal
  <2>1. /\ ~Over /\ w \in mapped /\ mapped' = mapped \ {w}
        /\ Send(<<Event("UnmapNotify", w)>>)
        /\ UNCHANGED <<exists, created, placed, client>>
    BY <1>3 DEF ClientUnmaps, Does
  <2>2. Sends("UnmapNotify", w) /\ SentWell(created')
    BY <1>0, <2>1, TypesAre, SendIs
  <2>3. DOMAIN placed' \subseteq exists' /\ (phase = "starting" => UNCHANGED events)
    BY <2>1, <2>2 DEF Inv, Values, Sends
  <2>4. Values'
    BY <1>0, <2>1, <2>2, <2>3, ClientValues
  <2> QED BY <2>1, <2>2, <2>4 DEF Unmaps, ClientDoes
<1>4. ASSUME NEW w \in Windows, ClientDestroys(w) PROVE Goal
  <2>1. /\ ~Over /\ w \in exists
        /\ exists' = exists \ {w} /\ mapped' = mapped \ {w}
        /\ placed' = [v \in DOMAIN placed \ {w} |-> placed[v]]
        /\ Send((IF w \in mapped THEN <<Event("UnmapNotify", w)>> ELSE <<>>)
                  \o <<Event("DestroyNotify", w)>>)
        /\ UNCHANGED <<created, client>>
    BY <1>4 DEF ClientDestroys, Does
  <2>2. DOMAIN placed' \subseteq exists' /\ mapped' \subseteq exists' /\ exists' \subseteq created'
    BY <1>0, <2>1 DEF Inv, Values
  <2>3. /\ IF w \in mapped THEN SendsBoth("UnmapNotify", "DestroyNotify", w)
           ELSE Sends("DestroyNotify", w)
        /\ SentWell(created')
    <3>1. CASE w \in mapped
      BY <1>0, <2>1, <3>1, TypesAre, SendBothIs
    <3>2. CASE w \notin mapped
      <4>1. <<>> \o <<Event("DestroyNotify", w)>> = <<Event("DestroyNotify", w)>>
        <5> DEFINE s == <<Event("DestroyNotify", w)>>
        <5>1. s \in Seq({Event("DestroyNotify", w)})
          OBVIOUS
        <5> HIDE DEF s
        <5> QED BY <5>1, ConcatEmptySeq DEF s
      <4> QED BY <1>0, <2>1, <3>2, <4>1, TypesAre, SendIs
    <3> QED BY <3>1, <3>2
  <2>4. phase = "starting" => UNCHANGED events
    BY <2>3 DEF Sends, SendsBoth
  <2>5. Values'
    BY <1>0, <2>1, <2>2, <2>3, <2>4, ClientValues
  <2> QED BY <2>1, <2>3, <2>5 DEF Destroys, ClientDoes
<1>5. ASSUME NEW w \in Windows, ClientAsks(w) PROVE Goal
  <2>1. /\ ~Over /\ w \in exists
        /\ UNCHANGED <<exists, created, mapped, placed, client>>
    BY <1>5 DEF ClientAsks, Does
  <2>2. PICK type \in {"ConfigureRequest", "CirculateRequest"} : Send(<<Event(type, w)>>)
    BY <1>5 DEF ClientAsks
  <2>3. Sends(type, w) /\ SentWell(created')
    BY <1>0, <2>1, <2>2, TypesAre, SendIs
  <2>4. DOMAIN placed' \subseteq exists' /\ (phase = "starting" => UNCHANGED events)
    BY <2>1, <2>3 DEF Inv, Values, Sends
  <2>5. Values'
    BY <1>0, <2>1, <2>3, <2>4, ClientValues
  <2> QED BY <2>1, <2>3, <2>5 DEF Asks, ClientDoes
<1> HIDE DEF Goal
<1>6. Goal
  BY <1>1, <1>2, <1>3, <1>4, <1>5 DEF ClientStep
<1> QED BY <1>6 DEF Goal

-----------------------------------------------------------------------------
(* How AquariWM starts.                                                    *)

\* One more step of it, by what AquariWM has found.
Started ==
  /\ requests = {}
  /\ UNCHANGED <<exists, created, mapped, events, requests>>
  /\ \/ phase = "starting" /\ phase' \in {"registered", "exited"} /\ UNCHANGED wm
     \/ /\ phase = "registered" /\ phase' = "querying"
        /\ \A w : (Held(w)' <=> w \in exists) /\ ~Seen(w)' /\ ~Believed(w)'
     \/ phase = "querying" /\ phase' = "exited"
     \/ /\ phase = "querying" /\ phase' = "querying"
        /\ \E v \in exists : \A w : /\ Held(w)' <=> Held(w)
                                    /\ Seen(w)' <=> Seen(w) \/ w = v
                                    /\ Believed(w)' <=> Believed(w) \/ (w = v /\ v \in mapped)
     \/ /\ phase = "querying" /\ phase' = "running"
        /\ \A w : (Held(w)' <=> Held(w)) /\ (Believed(w)' <=> Believed(w)) /\ (Seen(w) <=> Held(w))

\* A sequence of all windows has each, once.
LEMMA AllOf ==
  ASSUME NEW S, IsFiniteSet(S), NEW s \in SetToSeqs(S)
  PROVE  s \in Seq(S) /\ IsInjective(s) /\ \A w : (\E k \in 1 .. Len(s) : s[k] = w) <=> w \in S
<1> DEFINE n == Cardinality(S)
           D == 1 .. n
<1>1. n \in Nat
  BY FS_CardinalityType
<1>2. s \in [D -> S] /\ \A i, j \in D : i # j => s[i] # s[j]
  BY DEF SetToSeqs
<1> HIDE DEF n
<1>3. s \in Seq(S) /\ Len(s) = n /\ DOMAIN s = D
  BY <1>1, <1>2
<1>4. IsInjective(s)
  BY <1>2, <1>3 DEF IsInjective
<1>5. s \in Injection(D, S)
  BY <1>2 DEF Injection, IsInjective
<1>6. IsFiniteSet(D) /\ Cardinality(D) = n
  <2>1. 1 \in Int /\ n \in Int /\ (IF 1 > n THEN 0 ELSE n - 1 + 1) = n
    BY <1>1
  <2> QED BY <2>1, FS_Interval
<1>7. s \in Surjection(D, S)
  BY <1>5, <1>6, FS_Injection DEF n
<1>8. \A w \in S : \E k \in D : s[k] = w
  BY <1>7 DEF Surjection
<1> QED BY <1>2, <1>3, <1>4, <1>8

\* Each step of AquariWM's start is one of those above.
LEMMA StartedIs ==
  ASSUME Inv, Start
  PROVE  Values' /\ ~Over /\ Started
<1>0. /\ Values
      /\ phase \in {"starting", "registered", "querying"} => wm = NewWm /\ requests = {}
      /\ phase \in {"starting", "registered"} => tree = <<>> /\ known = <<>>
      /\ tree \in Seq(created) /\ IsInjective(tree)
      /\ known \in Seq(MapStates) /\ Len(known) <= Len(tree)
  BY DEF Inv, Values
<1> DEFINE Goal == Values' /\ ~Over /\ Started
<1>1. ASSUME Register PROVE Goal
  <2>1. /\ phase = "starting" /\ phase' \in {"registered", "exited"}
        /\ UNCHANGED <<exists, created, mapped, placed, events, tree, known, wm, requests>>
    BY <1>1 DEF Register, server
  <2>2. Values'
    BY <1>0, <2>1 DEF Values, Phases
  <2> QED BY <1>0, <2>1, <2>2 DEF Started, Over
<1>2. ASSUME QueryTree PROVE Goal
  <2>1. /\ phase = "registered" /\ phase' = "querying" /\ tree' \in SetToSeqs(exists)
        /\ UNCHANGED <<exists, created, mapped, placed, events, known, wm, requests>>
    BY <1>2 DEF QueryTree, server
  <2>2. IsFiniteSet(exists)
    <3>1. exists \in SUBSET Windows
      BY <1>0 DEF Values
    <3> QED BY <3>1, ClientsAssumption, FS_Subset
  <2>3. /\ tree' \in Seq(exists) /\ IsInjective(tree')
        /\ \A w : (\E k \in 1 .. Len(tree') : tree'[k] = w) <=> w \in exists
    BY <2>1, <2>2, AllOf
  <2>4. tree' \in Seq(created) /\ known' = <<>> /\ Len(known') = 0 /\ Len(tree') \in Nat
    <3>1. exists \subseteq created
      BY <1>0 DEF Values
    <3> QED BY <1>0, <2>1, <2>3, <3>1
  <2>5. Values'
    <3>1. IsInjective(tree)'
      BY <2>3 DEF IsInjective
    <3> QED BY <1>0, <2>1, <2>4, <3>1 DEF Values, Phases
  <2>6. \A w : (Held(w)' <=> w \in exists) /\ ~Seen(w)' /\ ~Believed(w)'
    BY <2>1, <2>3, <2>4 DEF Held, Seen, Believed
  <2> QED BY <1>0, <2>1, <2>5, <2>6 DEF Started, Over
<1>3. ASSUME QueryAttributes PROVE Goal
  <2> DEFINE n == Len(known)
             v == tree[n + 1]
             m == IF v \in mapped THEN "Mapped" ELSE "Unmapped"
  <2>1. /\ phase = "querying" /\ n < Len(tree)
        /\ UNCHANGED <<exists, created, mapped, placed, events, tree, wm, requests>>
        /\ IF v \in exists THEN known' = Append(known, m) /\ UNCHANGED phase
           ELSE phase' = "exited" /\ UNCHANGED known
    BY <1>3 DEF QueryAttributes, server
  <2>2. n \in Nat /\ Len(tree) \in Nat /\ m \in MapStates
    BY <1>0 DEF MapStates
  <2>3. CASE v \in exists
    <3>1. /\ known' \in Seq(MapStates) /\ Len(known') = n + 1
          /\ \A k \in 1 .. n : known'[k] = known[k]
          /\ known'[n + 1] = m
      <4>1. known' = Append(known, m)
        BY <2>1, <2>3
      <4> HIDE DEF m
      <4> QED BY <1>0, <2>2, <4>1
    <3>2. Values'
      BY <1>0, <2>1, <2>2, <2>3, <3>1 DEF Values
    <3>3. \A k : k \in 1 .. Len(known') <=> k \in 1 .. n \/ k = n + 1
      BY <2>2, <3>1
    <3>4. m = "Mapped" <=> v \in mapped
      OBVIOUS
    <3> HIDE DEF n, v, m
    <3>5. ASSUME NEW w
          PROVE  /\ Held(w)' <=> Held(w)
                 /\ Seen(w)' <=> Seen(w) \/ w = v
                 /\ Believed(w)' <=> Believed(w) \/ (w = v /\ v \in mapped)
      <4>1. phase' = "querying" /\ phase = "querying" /\ tree' = tree
        BY <2>1, <2>3
      <4>2. Held(w)' <=> Held(w)
        BY <4>1 DEF Held
      <4>3. /\ Seen(w) <=> \E k \in 1 .. n : tree[k] = w
            /\ Seen(w)' <=> \E k \in 1 .. Len(known') : tree[k] = w
            /\ Believed(w) <=> \E k \in 1 .. n : tree[k] = w /\ known[k] = "Mapped"
            /\ Believed(w)' <=> \E k \in 1 .. Len(known') : tree[k] = w /\ known'[k] = "Mapped"
        BY <4>1 DEF Seen, Believed, n
      <4>4. tree[n + 1] = v
        BY DEF v
      <4>5. Seen(w)' <=> Seen(w) \/ w = v
        BY <3>3, <4>3, <4>4
      <4>6. Believed(w)' <=> Believed(w) \/ (w = v /\ v \in mapped)
        BY <3>1, <3>3, <3>4, <4>3, <4>4
      <4> QED BY <4>2, <4>5, <4>6
    <3> QED BY <1>0, <2>1, <2>3, <3>2, <3>5 DEF Started, Over
  <2>4. CASE v \notin exists
    <3>1. Values'
      BY <1>0, <2>1, <2>4 DEF Values, Phases
    <3> QED BY <1>0, <2>1, <2>4, <3>1 DEF Started, Over
  <2> QED BY <2>3, <2>4
<1>4. ASSUME StartLoop PROVE Goal
  <2> DEFINE n == Len(tree)
  <2>1. /\ phase = "querying" /\ Len(known) = Len(tree)
        /\ phase' = "running" /\ wm' = AddWindows /\ known' = <<>>
        /\ UNCHANGED <<exists, created, mapped, placed, events, tree, requests>>
    BY <1>4 DEF StartLoop, server
  <2>2. Good(wm') /\ Tracked(wm') = FoundIn(n) /\ MappedIn(wm') = FoundMapped(n)
    BY <1>0, <2>1, AddWindowsIs
  <2>3. n \in Nat /\ \A k \in 1 .. n : tree[k] \in created
    BY <1>0
  <2>4. Tracked(wm') \subseteq created /\ known' \in Seq(MapStates) /\ Len(known') = 0
    BY <2>1, <2>2, <2>3 DEF FoundIn
  <2>5. Values'
    BY <1>0, <2>1, <2>2, <2>3, <2>4 DEF Values, Phases
  <2>6. ASSUME NEW w
        PROVE  (Held(w)' <=> Held(w)) /\ (Believed(w)' <=> Believed(w)) /\ (Seen(w) <=> Held(w))
    <3>1. Held(w)' <=> Held(w)
      BY <2>1, <2>2 DEF Held, FoundIn
    <3>2. Believed(w)' <=> Believed(w)
      BY <2>1, <2>2 DEF Believed, FoundMapped
    <3>3. Seen(w) <=> Held(w)
      BY <2>1 DEF Seen, Held
    <3> QED BY <3>1, <3>2, <3>3
  <2> QED BY <1>0, <2>1, <2>5, <2>6 DEF Started, Over
<1> HIDE DEF Goal
<1>5. Goal
  BY <1>1, <1>2, <1>3, <1>4 DEF Start
<1> QED BY <1>5 DEF Goal

-----------------------------------------------------------------------------
(* The invariant holds, unless there are windows of override-redirect that *)
(* come after AquariWM: their mapping is not redirected, and AquariWM may  *)
(* see it before it hears of them (the run x11_override).                  *)

OnlyKnownOverride == OverrideRedirect \subseteq Existing

\* What AquariWM knows is what it knew.
LEMMA SameViews ==
  ASSUME UNCHANGED client
  PROVE  /\ phase' = phase /\ requests' = requests
         /\ \A w : (Seen(w)' <=> Seen(w)) /\ (Believed(w)' <=> Believed(w))
         /\ phase \in {"querying", "running"} => \A w : Held(w)' <=> Held(w)
         /\ phase \notin {"querying", "running"} => \A w : /\ Held(w) <=> w \in exists
                                                           /\ Held(w)' <=> w \in exists'
  BY DEF client, Seen, Believed, Held

\* A window that is not there yet is not heard of.
LEMMA UnheardOf ==
  ASSUME Values, NEW w, w \notin created
  PROVE  /\ \A type : ~In(events, Event(type, w))
         /\ MapIt(w) \notin requests
         /\ ~Believed(w) /\ w \notin exists /\ w \notin mapped
<1>1. ASSUME NEW type, In(events, Event(type, w)) PROVE FALSE
  <2>1. PICK k \in 1 .. Len(events) : events[k] = Event(type, w)
    BY <1>1 DEF In
  <2>2. events[k] \in EventsOf(created)
    BY <2>1 DEF Values
  <2>3. Event(type, w).window \in created
    BY <2>1, <2>2 DEF EventsOf
  <2> QED BY <2>3, EventsAre
<1>2. MapIt(w) \notin requests
  BY DEF Values, MapIt
<1>3. \A k \in 1 .. Len(known) : tree[k] # w
  <2>1. /\ tree \in Seq(created) /\ Len(known) <= Len(tree)
        /\ Len(known) \in Nat /\ Len(tree) \in Nat
    BY DEF Values
  <2>2. \A k \in 1 .. Len(known) : k \in 1 .. Len(tree)
    BY <2>1
  <2> QED BY <2>1, <2>2
<1>4. w \notin Tracked(wm) /\ w \notin MappedIn(wm) /\ w \notin exists /\ w \notin mapped
  BY DEF Values, MappedIn
<1>5. ~Believed(w)
  BY <1>3, <1>4 DEF Believed
<1> QED BY <1>1, <1>2, <1>4, <1>5

\* A window is created: if AquariWM has registered it is to hear of it.
LEMMA CreatesKeeps ==
  ASSUME Inv, ~Over, NEW w \in Windows, Creates(w), UNCHANGED client
  PROVE  Ordered' /\ News' /\ Tracking'
<1>1. /\ Values /\ Ordered /\ News /\ Tracking
      /\ w \notin created /\ UNCHANGED mapped
      /\ exists' = exists \cup {w}
      /\ IF phase = "starting" THEN events' = events
         ELSE Longer(events, events', Event("CreateNotify", w))
      /\ phase = "starting" => events = <<>>
      /\ Existing \subseteq created
  BY DEF Inv, Creates, Sends, Values
<1>2. /\ \A type : ~In(events, Event(type, w))
      /\ MapIt(w) \notin requests
      /\ ~Believed(w) /\ w \notin exists /\ w \notin mapped
  BY <1>1, UnheardOf
<1>3. /\ phase' = phase /\ requests' = requests
      /\ \A v : Believed(v)' <=> Believed(v)
      /\ phase \in {"querying", "running"} => \A v : Held(v)' <=> Held(v)
      /\ phase \notin {"querying", "running"} => \A v : /\ Held(v) <=> v \in exists
                                                        /\ Held(v)' <=> v \in exists'
  BY SameViews
<1>4. CASE phase = "starting"
  <2>1. events' = <<>> /\ \A v : ~In(events', v)
    BY <1>1, <1>4, EmptyIs
  <2>2. Ordered' /\ News'
    BY <2>1, EmptyIs DEF Ordered, News
  <2>3. Tracking'
    BY <1>1, <1>2, <1>3, <1>4, <2>1, EmptyIs DEF Tracking
  <2> QED BY <2>2, <2>3
<1>5. CASE phase # "starting"
  <2>1. /\ \A e : In(events', e) <=> In(events, e) \/ e = Event("CreateNotify", w)
        /\ \A d, e : Before(events', d, e)
             <=> Before(events, d, e) \/ (In(events, d) /\ e = Event("CreateNotify", w))
    BY <1>1, <1>5 DEF Longer
  <2>2. Ordered'
    BY <1>1, <1>2, <2>1, EventsAre, TypesAre DEF Ordered
  <2>3. News'
    BY <1>1, <1>2, <1>3, <2>1, EventsAre DEF News
  <2>4. Tracking'
    BY <1>1, <1>2, <1>3, <2>1, EventsAre DEF Tracking
  <2> QED BY <2>2, <2>3, <2>4
<1> QED BY <1>4, <1>5

\* A window is mapped, or asks to be; one of override-redirect was there first.
LEMMA MapsKeeps ==
  ASSUME OnlyKnownOverride, Inv, ~Over, NEW w \in Windows, Maps(w), UNCHANGED client
  PROVE  Ordered' /\ News' /\ Tracking'
<1>1. /\ Values /\ Ordered /\ News /\ Tracking
      /\ UNCHANGED exists
      /\ IF phase # "starting" /\ w \notin OverrideRedirect
         THEN Longer(events, events', Event("MapRequest", w)) /\ UNCHANGED mapped
         ELSE mapped' = mapped \cup {w} /\ UNCHANGED events
      /\ phase = "starting" => events = <<>>
      /\ w \in exists
  BY DEF Inv, Maps, Sends, Values
<1>2. /\ phase' = phase /\ requests' = requests
      /\ \A v : Believed(v)' <=> Believed(v)
      /\ \A v : Held(v)' <=> Held(v)
  BY <1>1, SameViews
<1>3. CASE phase # "starting" /\ w \notin OverrideRedirect
  <2>1. /\ UNCHANGED mapped
        /\ \A e : In(events', e) <=> In(events, e) \/ e = Event("MapRequest", w)
        /\ \A d, e : Before(events', d, e)
             <=> Before(events, d, e) \/ (In(events, d) /\ e = Event("MapRequest", w))
    BY <1>1, <1>3 DEF Longer
  <2>2. ~In(events, Event("DestroyNotify", w))
    BY <1>1 DEF Tracking
  <2>3. Ordered'
    BY <1>1, <2>1, <2>2, EventsAre DEF Ordered
  <2>4. News'
    BY <1>1, <1>2, <2>1, EventsAre DEF News
  <2>5. Tracking'
    BY <1>1, <1>2, <2>1, EventsAre DEF Tracking
  <2> QED BY <2>3, <2>4, <2>5
<1>4. CASE ~(phase # "starting" /\ w \notin OverrideRedirect)
  <2>1. /\ mapped' = mapped \cup {w} /\ events' = events
        /\ phase = "starting" => \A e : ~In(events, e)
        /\ phase # "starting" => w \in Existing
    BY <1>1, <1>4, EmptyIs DEF OnlyKnownOverride
  <2>2. News'
    BY <1>1, <1>2, <2>1 DEF News
  <2>3. Ordered' /\ Tracking'
    BY <1>1, <1>2, <2>1 DEF Ordered, Tracking
  <2> QED BY <2>2, <2>3
<1> QED BY <1>3, <1>4

\* An event that is sent of a window that is there.
LEMMA SendsKeeps ==
  ASSUME Inv, ~Over, NEW w \in exists, UNCHANGED client, UNCHANGED exists, mapped' \subseteq mapped,
         NEW type \in EventTypes \ {"CreateNotify", "DestroyNotify"}, Sends(type, w)
  PROVE  Ordered' /\ News' /\ Tracking'
<1>1. /\ Values /\ Ordered /\ News /\ Tracking
      /\ IF phase = "starting" THEN events' = events ELSE Longer(events, events', Event(type, w))
      /\ w \in Windows
  BY DEF Inv, Sends, Values
<1>2. /\ phase' = phase /\ requests' = requests
      /\ \A v : Believed(v)' <=> Believed(v)
      /\ \A v : Held(v)' <=> Held(v)
  BY SameViews
<1>3. CASE phase = "starting"
  BY <1>1, <1>2, <1>3 DEF Ordered, News, Tracking
<1>4. CASE phase # "starting"
  <2>1. /\ \A e : In(events', e) <=> In(events, e) \/ e = Event(type, w)
        /\ \A d, e : Before(events', d, e)
             <=> Before(events, d, e) \/ (In(events, d) /\ e = Event(type, w))
    BY <1>1, <1>4 DEF Longer
  <2>2. ~In(events, Event("DestroyNotify", w))
    BY <1>1 DEF Tracking
  <2>3. Ordered'
    BY <1>1, <2>1, <2>2, EventsAre DEF Ordered
  <2>4. News'
    BY <1>1, <1>2, <2>1, EventsAre DEF News
  <2>5. Tracking'
    BY <1>1, <1>2, <2>1, EventsAre DEF Tracking
  <2> QED BY <2>3, <2>4, <2>5
<1> QED BY <1>3, <1>4

\* A window is destroyed: that is the last event of it.
LEMMA DestroysKeeps ==
  ASSUME Inv, ~Over, NEW w \in Windows, Destroys(w), UNCHANGED client
  PROVE  Ordered' /\ News' /\ Tracking'
<1>1. /\ Values /\ Ordered /\ News /\ Tracking
      /\ w \in exists /\ exists' = exists \ {w} /\ mapped' = mapped \ {w}
      /\ phase = "starting" => events' = events /\ events = <<>>
      /\ phase # "starting" =>
           IF w \in mapped
           THEN \E q : /\ Longer(events, q, Event("UnmapNotify", w))
                       /\ Longer(q, events', Event("DestroyNotify", w))
           ELSE Longer(events, events', Event("DestroyNotify", w))
  BY DEF Inv, Destroys, Sends, SendsBoth, Values
<1>2. /\ phase' = phase /\ requests' = requests
      /\ \A v : Believed(v)' <=> Believed(v)
      /\ phase \in {"querying", "running"} => \A v : Held(v)' <=> Held(v)
      /\ phase \notin {"querying", "running"} => \A v : /\ Held(v) <=> v \in exists
                                                        /\ Held(v)' <=> v \in exists'
  BY SameViews
<1>3. CASE phase = "starting"
  <2>1. events' = <<>> /\ \A v : ~In(events', v)
    BY <1>1, <1>3, EmptyIs
  <2>2. Ordered' /\ News'
    BY <2>1, EmptyIs DEF Ordered, News
  <2>3. Tracking'
    BY <1>1, <1>2, <1>3, <2>1 DEF Tracking
  <2> QED BY <2>2, <2>3
<1>4. CASE phase # "starting"
  <2>1. /\ \A e : In(events, e) => In(events', e)
        /\ \A e : In(events', e) => \/ In(events, e)
                                    \/ e = Event("UnmapNotify", w) \/ e = Event("DestroyNotify", w)
        /\ In(events', Event("DestroyNotify", w))
        /\ \A d, e : Before(events', d, e) =>
             \/ Before(events, d, e)
             \/ (In(events, d) \/ d = Event("UnmapNotify", w))
                  /\ (e = Event("UnmapNotify", w) \/ e = Event("DestroyNotify", w))
    <3>1. CASE w \in mapped
      <4>1. PICK q : /\ Longer(events, q, Event("UnmapNotify", w))
                     /\ Longer(q, events', Event("DestroyNotify", w))
        BY <1>1, <1>4, <3>1
      <4> QED BY <4>1 DEF Longer
    <3>2. CASE w \notin mapped
      <4>1. Longer(events, events', Event("DestroyNotify", w))
        BY <1>1, <1>4, <3>2
      <4> QED BY <4>1 DEF Longer
    <3> QED BY <3>1, <3>2
  <2>2. ~In(events, Event("DestroyNotify", w))
    BY <1>1 DEF Tracking
  <2>3. Ordered'
    BY <1>1, <2>1, <2>2, EventsAre DEF Ordered
  <2>4. News'
    BY <1>1, <1>2, <2>1, EventsAre DEF News
  <2>5. Tracking'
    BY <1>1, <1>2, <2>1, EventsAre DEF Tracking
  <2> QED BY <2>3, <2>4, <2>5
<1> QED BY <1>3, <1>4

\* Whatever a client does, the queue tells AquariWM what it has to know.
LEMMA ClientKeeps ==
  ASSUME OnlyKnownOverride, Inv, ~Over, NEW w \in Windows, ClientDoes(w)
  PROVE  Ordered' /\ News' /\ Tracking'
<1> DEFINE Goal == Ordered' /\ News' /\ Tracking'
<1>0. UNCHANGED client /\ mapped \subseteq exists
  BY DEF ClientDoes, Inv, Values
<1>1. ASSUME Creates(w) PROVE Goal
  BY <1>0, <1>1, CreatesKeeps
<1>2. ASSUME Maps(w) PROVE Goal
  BY <1>0, <1>2, MapsKeeps
<1>3. ASSUME Unmaps(w) PROVE Goal
  <2>1. w \in exists /\ UNCHANGED exists /\ mapped' \subseteq mapped /\ Sends("UnmapNotify", w)
    BY <1>0, <1>3 DEF Unmaps
  <2> QED BY <1>0, <2>1, TypesAre, SendsKeeps
<1>4. ASSUME Destroys(w) PROVE Goal
  BY <1>0, <1>4, DestroysKeeps
<1>5. ASSUME NEW type \in {"ConfigureRequest", "CirculateRequest"}, Asks(type, w) PROVE Goal
  <2>1. w \in exists /\ UNCHANGED exists /\ mapped' \subseteq mapped /\ Sends(type, w)
    BY <1>5 DEF Asks
  <2>2. type \in EventTypes \ {"CreateNotify", "DestroyNotify"}
    BY TypesAre
  <2> QED BY <1>0, <2>1, <2>2, SendsKeeps
<1> HIDE DEF Goal
<1>6. Goal
  BY <1>1, <1>2, <1>3, <1>4, <1>5 DEF ClientDoes
<1> QED BY <1>6 DEF Goal

\* So it does through the start: what the tree has not, an event has.
LEMMA StartedKeeps ==
  ASSUME Inv, ~Over, ~Over', Started
  PROVE  Ordered' /\ News' /\ Tracking'
<1>1. /\ Values /\ Ordered /\ News /\ Tracking
      /\ requests = {} /\ UNCHANGED <<exists, mapped, events, requests>>
      /\ phase = "starting" => events = <<>>
  BY DEF Inv, Started, Values
<1>2. Ordered'
  BY <1>1 DEF Ordered
<1>3. ASSUME \A w : (Held(w)' <=> Held(w)) /\ (Believed(w)' => Believed(w))
      PROVE  News' /\ Tracking'
  BY <1>1, <1>3 DEF News, Tracking
<1>4. ASSUME phase = "starting", phase' = "registered" PROVE News' /\ Tracking'
  <2>1. \A w : (Held(w)' <=> Held(w)) /\ ~Believed(w)'
    BY <1>1, <1>4 DEF Held, Believed
  <2> QED BY <1>3, <2>1
<1>5. ASSUME phase = "registered",
             \A w : (Held(w)' <=> w \in exists) /\ ~Seen(w)' /\ ~Believed(w)'
      PROVE  News' /\ Tracking'
  <2>1. \A w : (Held(w)' <=> Held(w)) /\ ~Believed(w)'
    BY <1>5 DEF Held
  <2> QED BY <1>3, <2>1
<1>6. ASSUME NEW v \in exists,
             \A w : /\ Held(w)' <=> Held(w)
                    /\ Seen(w)' <=> Seen(w) \/ w = v
                    /\ Believed(w)' <=> Believed(w) \/ (w = v /\ v \in mapped)
      PROVE  News' /\ Tracking'
  <2>1. News'
    BY <1>1, <1>6 DEF News
  <2>2. Tracking'
    BY <1>1, <1>6 DEF Tracking
  <2> QED BY <2>1, <2>2
<1>7. ASSUME \A w : /\ (Held(w)' <=> Held(w)) /\ (Believed(w)' <=> Believed(w))
                    /\ (Seen(w) <=> Held(w))
      PROVE  News' /\ Tracking'
  BY <1>3, <1>7
<1>8. phase' # "exited"
  BY DEF Over
<1> QED BY <1>2, <1>4, <1>5, <1>6, <1>7, <1>8 DEF Started

\* So it does when an event is taken from it and handled.
LEMMA HandledKeeps ==
  ASSUME Inv, ~Over, ~Over', NEW w \in Windows, NEW type \in EventTypes, Handled(type, w)
  PROVE  Ordered' /\ News' /\ Tracking'
<1>1. /\ Values /\ Ordered /\ News /\ Tracking
      /\ requests = {} /\ UNCHANGED <<exists, mapped>>
      /\ phase = "running" /\ phase' = "running"
      /\ Tracked(wm') = IF type = "CreateNotify" THEN Tracked(wm) \cup {w}
                        ELSE IF type = "DestroyNotify" THEN Tracked(wm) \ {w} ELSE Tracked(wm)
      /\ MappedIn(wm') = IF type = "MapRequest" THEN MappedIn(wm) \cup {w}
                         ELSE IF type \in {"UnmapNotify", "DestroyNotify"}
                              THEN MappedIn(wm) \ {w} ELSE MappedIn(wm)
      /\ \A v : MapIt(v) \in requests' <=> type = "MapRequest" /\ v = w
      /\ In(events, Event(type, w))
      /\ \A e : In(events', e) => In(events, e) /\ Before(events, Event(type, w), e)
      /\ \A e : In(events, e) => In(events', e) \/ e = Event(type, w)
      /\ \A d, e : Before(events', d, e) => Before(events, d, e)
  BY DEF Inv, Handled, Over, Shorter
<1>2. /\ \A v : Held(v) <=> v \in Tracked(wm)
      /\ \A v : Held(v)' <=> v \in Tracked(wm')
      /\ \A v : Believed(v) <=> v \in MappedIn(wm)
      /\ \A v : Believed(v)' <=> v \in MappedIn(wm')
  BY <1>1 DEF Held, Believed
<1>3. Ordered'
  BY <1>1 DEF Ordered
<1>4. ~In(events', Event("CreateNotify", w))
  BY <1>1 DEF Ordered
<1>5. ASSUME NEW v \in Windows, In(events', Event("CreateNotify", v))
      PROVE  v \notin Existing /\ v \notin mapped' /\ MapIt(v) \notin requests' /\ ~Believed(v)'
  <2>1. v # w /\ In(events, Event("CreateNotify", v))
    BY <1>1, <1>4, <1>5
  <2>2. v \notin Existing /\ v \notin mapped /\ ~Believed(v)
    BY <1>1, <2>1 DEF News
  <2> QED BY <1>1, <1>2, <2>1, <2>2
<1>6. News'
  BY <1>5 DEF News
<1>7. ASSUME NEW v \in Windows
      PROVE  /\ v \in exists' => /\ ~In(events', Event("DestroyNotify", v))
                                 /\ Held(v)' \/ In(events', Event("CreateNotify", v))
             /\ v \notin exists' /\ (Held(v)' \/ In(events', Event("CreateNotify", v)))
                  => In(events', Event("DestroyNotify", v))
  <2>1. /\ v \in exists => /\ ~In(events, Event("DestroyNotify", v))
                           /\ Held(v) \/ In(events, Event("CreateNotify", v))
        /\ v \notin exists /\ (Held(v) \/ In(events, Event("CreateNotify", v)))
             => In(events, Event("DestroyNotify", v))
    BY <1>1 DEF Tracking
  <2>2. CASE v # w
    <3>1. Held(v)' <=> Held(v)
      BY <1>1, <1>2, <2>2
    <3>2. \A t : In(events', Event(t, v)) <=> In(events, Event(t, v))
      BY <1>1, <2>2, EventsAre
    <3> QED BY <1>1, <2>1, <3>1, <3>2
  <2>3. CASE v = w /\ type = "CreateNotify"
    <3>1. Held(v)'
      BY <1>1, <1>2, <2>3
    <3>2. In(events', Event("DestroyNotify", v)) <=> In(events, Event("DestroyNotify", v))
      BY <1>1, <2>3, EventsAre
    <3> QED BY <1>1, <2>1, <2>3, <3>1, <3>2
  <2>4. CASE v = w /\ type = "DestroyNotify"
    <3>1. ~Held(v)' /\ v \notin exists
      BY <1>1, <1>2, <2>1, <2>4
    <3> QED BY <1>1, <1>4, <2>4, <3>1
  <2>5. CASE v = w /\ type # "CreateNotify" /\ type # "DestroyNotify"
    <3>1. Held(v)' <=> Held(v)
      BY <1>1, <1>2, <2>5
    <3>2. \A t \in {"CreateNotify", "DestroyNotify"} :
            In(events', Event(t, v)) <=> In(events, Event(t, v))
      BY <1>1, <2>5, EventsAre
    <3> QED BY <1>1, <2>1, <3>1, <3>2
  <2> QED BY <2>2, <2>3, <2>4, <2>5
<1>8. Tracking'
  BY <1>7 DEF Tracking
<1> QED BY <1>3, <1>6, <1>8

\* So it does when a request is answered.
LEMMA ServedKeeps ==
  ASSUME Inv, ~Over, ~Over', NEW request, Served(request)
  PROVE  Ordered' /\ News' /\ Tracking'
<1>1. /\ Values /\ Ordered /\ News /\ Tracking
      /\ phase = "running" /\ phase' = "running"
      /\ UNCHANGED <<exists, events, wm>>
      /\ request \in requests
      /\ \A v : MapIt(v) \in requests' <=> MapIt(v) \in requests /\ MapIt(v) # request
      /\ \A v : v \in mapped' <=> v \in mapped \/ MapIt(v) = request
  BY DEF Inv, Served, Over
<1>2. \A w : (Held(w)' <=> Held(w)) /\ (Believed(w)' <=> Believed(w))
  BY <1>1 DEF Held, Believed
<1>3. Ordered'
  BY <1>1 DEF Ordered
<1>4. Tracking'
  BY <1>1, <1>2 DEF Tracking
<1>5. News'
  BY <1>1, <1>2 DEF News
<1> QED BY <1>3, <1>4, <1>5

\* The invariant holds at first.
LEMMA InitInv == Init => Inv
<1> SUFFICES ASSUME Init PROVE Inv
  OBVIOUS
<1>1. /\ exists = Existing /\ created = Existing /\ mapped = Existing
      /\ placed = [w \in {} |-> 0]
      /\ events = <<>> /\ phase = "starting" /\ tree = <<>> /\ known = <<>>
      /\ wm = NewWm /\ requests = {}
  BY DEF Init
<1>2. Good(wm) /\ Tracked(wm) = {}
  BY <1>1, NewWmIs
<1>3. /\ <<>> \in Seq(EventsOf(created)) /\ <<>> \in Seq(created) /\ <<>> \in Seq(MapStates)
      /\ Len(<<>>) = 0 /\ IsInjective(<<>>)
  BY DEF IsInjective
<1>4. Existing \subseteq Windows /\ MaxEvents \in Nat
  BY ClientsAssumption
<1>5. Values
  BY <1>1, <1>2, <1>3, <1>4 DEF Values, Phases
<1>6. \A w : Held(w) <=> w \in exists
  BY <1>1 DEF Held
<1>7. Ordered /\ News /\ Tracking
  BY <1>1, <1>6, EmptyIs DEF Ordered, News, Tracking
<1> QED BY <1>5, <1>7 DEF Inv

\* Every step is one of these.
LEMMA StepIs ==
  ASSUME Inv, Next
  PROVE  /\ Values'
         /\ \/ ~Over /\ \E w \in Windows : ClientDoes(w)
            \/ ~Over /\ Started
            \/ ~Over /\ \E w \in Windows, type \in EventTypes : Handled(type, w)
            \/ ~Over /\ \E request \in requests : Served(request)
<1>1. CASE ClientStep
  BY <1>1, ClientIs
<1>2. CASE Start
  BY <1>2, StartedIs
<1>3. CASE Handle
  <2>1. Values' /\ \E w \in Windows, type \in EventTypes : Handled(type, w)
    BY <1>3, HandledIs
  <2>2. ~Over
    BY <2>1 DEF Handled, Over
  <2> QED BY <2>1, <2>2
<1>4. CASE ServeOne
  <2>1. Values' /\ \E request \in requests : Served(request)
    BY <1>4, ServedIs
  <2>2. ~Over
    BY <2>1 DEF Served, Over
  <2> QED BY <2>1, <2>2
<1> QED BY <1>1, <1>2, <1>3, <1>4 DEF Next

\* Every step keeps it.
LEMMA Inductive ==
  ASSUME OnlyKnownOverride, Inv, [Next]_vars
  PROVE  Inv'
<1>1. CASE UNCHANGED vars
  <2>1. UNCHANGED <<exists, created, mapped, placed, events, phase, tree, known, wm, requests>>
    BY <1>1 DEF vars, server, client
  <2>2. Values'
    BY <2>1 DEF Inv, Values
  <2>3. \A w : (Held(w)' <=> Held(w)) /\ (Believed(w)' <=> Believed(w))
    BY <2>1 DEF Held, Believed
  <2>4. ~Over' => Ordered' /\ News' /\ Tracking'
    BY <2>1, <2>3 DEF Inv, Over, Ordered, News, Tracking
  <2> QED BY <2>2, <2>4 DEF Inv
<1>2. CASE Next
  <2>1. ASSUME ~Over' PROVE Ordered' /\ News' /\ Tracking'
    BY <1>2, <2>1, StepIs, ClientKeeps, StartedKeeps, HandledKeeps, ServedKeeps
  <2>2. Values'
    BY <1>2, StepIs
  <2> QED BY <2>1, <2>2 DEF Inv
<1> QED BY <1>1, <1>2

\* So it holds in every behavior.
LEMMA Invariance == OnlyKnownOverride => (Spec => []Inv)
<1>1. ASSUME OnlyKnownOverride PROVE Inv /\ [Next]_vars => Inv'
  BY <1>1, Inductive
<1>2. ASSUME OnlyKnownOverride PROVE Spec => []Inv
  <2>1. Inv /\ [Next]_vars => Inv'
    BY <1>1, <1>2
  <2> QED BY InitInv, <2>1, PTL DEF Spec
<1> QED BY <1>2

\* The variables keep to their values.
THEOREM TypesKept == OnlyKnownOverride => (Spec => []TypeOK)
<1>1. Inv => TypeOK
  <2> SUFFICES ASSUME Inv PROVE TypeOK
    OBVIOUS
  <2>1. Values /\ created \subseteq Windows
    BY DEF Inv, Values
  <2>2. events \in Seq([type : EventTypes, window : Windows])
    <3>1. EventsOf(created) \subseteq [type : EventTypes, window : Windows]
      BY <2>1 DEF EventsOf
    <3>2. events \in Seq(EventsOf(created))
      BY <2>1 DEF Values
    <3> QED BY <3>1, <3>2, SeqMonotonic
  <2>3. tree \in Seq(Windows)
    <3>1. tree \in Seq(created)
      BY <2>1 DEF Values
    <3> QED BY <2>1, <3>1
  <2>4. \A request \in requests :
          request.type \in {"map", "configure"} /\ request.window \in Windows
    <3>1. \A w : MapIt(w).type = "map"
      BY DEF MapIt
    <3>2. ASSUME NEW request \in requests
          PROVE  request.type \in {"map", "configure"} /\ request.window \in Windows
      <4>1. /\ request.window \in created
            /\ request = MapIt(request.window) \/ request.type = "configure"
        BY <2>1 DEF Values
      <4>2. request.type \in {"map", "configure"}
        BY <3>1, <4>1
      <4> QED BY <2>1, <4>1, <4>2
    <3> QED BY <3>2
  <2> QED BY <2>1, <2>2, <2>3, <2>4 DEF Values, TypeOK
<1> QED BY <1>1, Invariance, PTL

\* While its event loop runs the layout holds the windows that AquariWM knows to
\* be mapped, each once, whatever clients did while it started and however many
\* events are on their way: unless a window of override-redirect comes after it.
THEOREM TiledMapped == OnlyKnownOverride => (Spec => []TiledAreMapped)
<1>1. Inv => TiledAreMapped
  BY DEF Inv, Values, Good, MappedIn, TiledAreMapped
<1> QED BY <1>1, Invariance, PTL

\* The window whose destruction is handled is in no layout any more.  Without the
\* hypothesis this is what the run x11_override shows to fail.
THEOREM DestroyHandled == OnlyKnownOverride => (Spec => DestroyIsHandled)
<1>1. ASSUME Inv, [Next]_vars
      PROVE  \A w \in Windows : HandleDestroy(w) /\ phase' = phase => w \notin ToSet(Tiled(wm'))
  <2> SUFFICES ASSUME NEW w \in Windows, HandleDestroy(w), phase' = phase
               PROVE  w \notin ToSet(Tiled(wm'))
    OBVIOUS
  <2> DEFINE after == RemoveWindow(wm, w)
  <2>1. /\ Read("DestroyNotify", w) /\ ThenApply(after, {})
        /\ phase = "running" /\ requests = {} /\ Good(wm)
    BY <1>1 DEF HandleDestroy, Read, Inv, Values
  <2>2. Good(after) /\ MappedIn(after) = MappedIn(wm) \ {w}
    BY <2>1, RemovedState
  <2> HIDE DEF after
  <2>3. Good(wm') /\ MappedIn(wm') = MappedIn(after)
    <3>1. phase' = "running"
      BY <2>1
    <3> QED BY <2>1, <2>2, <3>1, AppliesWell
  <2> QED BY <2>2, <2>3 DEF Good
<1>2. ASSUME OnlyKnownOverride PROVE Spec => DestroyIsHandled
  <2>1. Spec => []Inv
    BY <1>2, Invariance
  <2> QED BY <1>1, <2>1, PTL DEF Spec, DestroyIsHandled
<1> QED BY <1>2

-----------------------------------------------------------------------------
(* What AquariWM knows of the state of a window whose mapping is redirected.*)
(* It takes a window to be mapped from when it reads the request to map it, *)
(* and maps it later: what keeps the two apart no longer than this is that  *)
(* no event that says otherwise comes behind the request.                   *)

MapsOf(w) ==
  /\ In(events, Event("MapRequest", w)) => w \notin mapped /\ MapIt(w) \notin requests
  /\ \A type \in {"CreateNotify", "UnmapNotify", "MapRequest"} :
       ~Before(events, Event("MapRequest", w), Event(type, w))
  /\ MapIt(w) \in requests =>
       w \notin mapped /\ Believed(w) /\ ~In(events, Event("UnmapNotify", w))
  /\ w \in mapped => ~In(events, Event("UnmapNotify", w)) /\ (Seen(w) => Believed(w))
  /\ Believed(w) /\ w \in exists \ mapped =>
       \/ In(events, Event("MapRequest", w)) \/ MapIt(w) \in requests
       \/ In(events, Event("UnmapNotify", w))

Mapping == \A w \in Windows \ OverrideRedirect : MapsOf(w)

Inv2 == Inv /\ (~Over => Mapping)

NoneRemaps == "remap" \notin Clients

\* A mapping is under way: asked for in the queue, or requested of the server.
LEMMA PendingIs ==
  ASSUME Values, NEW w
  PROVE  MapPending(w) <=> In(events, Event("MapRequest", w)) \/ MapIt(w) \in requests
<1>1. events \in Seq(EventsOf(created))
  BY DEF Values
<1>2. Event("MapRequest", w) \in ToSet(events) <=> In(events, Event("MapRequest", w))
  BY <1>1, InIs
<1> QED BY <1>2 DEF MapPending

\* What clients do to other windows does not matter.
LEMMA OthersKeep ==
  ASSUME UNCHANGED client, NEW v, MapsOf(v),
         v \in exists' <=> v \in exists, v \in mapped' <=> v \in mapped,
         \A type : In(events', Event(type, v)) <=> In(events, Event(type, v)),
         \A type, other : Before(events', Event(type, v), Event(other, v))
                            => Before(events, Event(type, v), Event(other, v))
  PROVE  MapsOf(v)'
<1>1. /\ requests' = requests
      /\ (Seen(v)' <=> Seen(v)) /\ (Believed(v)' <=> Believed(v))
  BY SameViews
<1> QED BY <1>1 DEF MapsOf

\* An event of one window is none of another.
LEMMA SendsOther ==
  ASSUME NEW type, NEW w, Sends(type, w), NEW v, v # w
  PROVE  /\ \A t : In(events', Event(t, v)) <=> In(events, Event(t, v))
         /\ \A s, t : Before(events', Event(s, v), Event(t, v))
                        => Before(events, Event(s, v), Event(t, v))
<1>1. CASE phase = "starting"
  BY <1>1 DEF Sends
<1>2. CASE phase # "starting"
  BY <1>2, EventsAre DEF Sends, Longer
<1> QED BY <1>1, <1>2

\* Whatever a client does, MapsOf holds of each window.
LEMMA ClientMapping ==
  ASSUME Inv2, NoneRemaps, ~Over, NEW w \in Windows, ClientDoes(w),
         NEW v \in Windows \ OverrideRedirect
  PROVE  MapsOf(v)'
<1>0. /\ Values /\ News /\ MapsOf(v) /\ UNCHANGED client
      /\ mapped \subseteq exists /\ exists \subseteq created
      /\ phase = "starting" => events = <<>>
  BY DEF Inv2, Inv, Values, Mapping, ClientDoes
<1>1. /\ phase' = phase /\ requests' = requests
      /\ (Seen(v)' <=> Seen(v)) /\ (Believed(v)' <=> Believed(v))
  BY <1>0, SameViews
<1>2. ASSUME Creates(w) PROVE MapsOf(v)'
  <2>1. w \notin created /\ UNCHANGED mapped /\ exists' = exists \cup {w} /\ Sends("CreateNotify", w)
    BY <1>2 DEF Creates
  <2>2. CASE v # w
    BY <1>0, <2>1, <2>2, SendsOther, OthersKeep
  <2>3. CASE v = w
    <3>1. /\ \A type : ~In(events, Event(type, v))
          /\ MapIt(v) \notin requests
          /\ ~Believed(v) /\ v \notin mapped
      BY <1>0, <2>1, <2>3, UnheardOf
    <3>2. \A type : type # "CreateNotify" => ~In(events', Event(type, v))
      <4>1. CASE phase = "starting"
        BY <2>1, <3>1, <4>1 DEF Sends
      <4>2. CASE phase # "starting"
        BY <2>1, <3>1, <4>2, EventsAre DEF Sends, Longer
      <4> QED BY <4>1, <4>2
    <3>3. \A type : ~Before(events', Event("MapRequest", v), Event(type, v))
      BY <3>2 DEF Before, In
    <3> QED BY <1>1, <2>1, <3>1, <3>2, <3>3 DEF MapsOf
  <2> QED BY <2>2, <2>3
<1>3. ASSUME Maps(w) PROVE MapsOf(v)'
  <2>1. /\ w \in exists \ mapped /\ UNCHANGED exists /\ ~MapPending(w)
        /\ IF phase # "starting" /\ w \notin OverrideRedirect
           THEN Sends("MapRequest", w) /\ UNCHANGED mapped
           ELSE mapped' = mapped \cup {w} /\ UNCHANGED events
    BY <1>3 DEF Maps, NoneRemaps
  <2>2. CASE v # w
    <3>1. CASE phase # "starting" /\ w \notin OverrideRedirect
      BY <1>0, <2>1, <2>2, <3>1, SendsOther, OthersKeep
    <3>2. CASE ~(phase # "starting" /\ w \notin OverrideRedirect)
      BY <1>0, <2>1, <2>2, <3>2, OthersKeep
    <3> QED BY <3>1, <3>2
  <2>3. CASE v = w
    <3>1. ~In(events, Event("MapRequest", v)) /\ MapIt(v) \notin requests
      BY <1>0, <2>1, <2>3, PendingIs
    <3>2. CASE phase # "starting"
      <4>1. Longer(events, events', Event("MapRequest", v)) /\ UNCHANGED mapped
        BY <2>1, <2>3, <3>2 DEF Sends
      <4>2. /\ \A e : In(events', e) <=> In(events, e) \/ e = Event("MapRequest", v)
            /\ \A e : ~Before(events', Event("MapRequest", v), e)
                        \/ Before(events, Event("MapRequest", v), e)
        BY <3>1, <4>1 DEF Longer
      <4> QED BY <1>0, <1>1, <2>1, <2>3, <3>1, <4>1, <4>2, EventsAre DEF MapsOf
    <3>3. CASE phase = "starting"
      <4>1. events' = <<>> /\ requests' = requests
        BY <1>0, <1>1, <2>1, <3>3
      <4>2. ~Seen(v) /\ ~Believed(v)
        BY <3>3 DEF Seen, Believed
      <4> QED BY <1>1, <3>1, <4>1, <4>2, EmptyIs DEF MapsOf
    <3> QED BY <3>2, <3>3
  <2> QED BY <2>2, <2>3
<1>4. ASSUME Unmaps(w) PROVE MapsOf(v)'
  <2>1. w \in mapped /\ mapped' = mapped \ {w} /\ UNCHANGED exists /\ Sends("UnmapNotify", w)
    BY <1>4 DEF Unmaps
  <2>2. CASE v # w
    BY <1>0, <2>1, <2>2, SendsOther, OthersKeep
  <2>3. CASE v = w
    <3>1. ~In(events, Event("MapRequest", v)) /\ MapIt(v) \notin requests
      BY <1>0, <2>1, <2>3 DEF MapsOf
    <3>2. CASE phase # "starting"
      <4>1. /\ \A e : In(events', e) <=> In(events, e) \/ e = Event("UnmapNotify", v)
            /\ \A e : Before(events', Event("MapRequest", v), e)
                        => Before(events, Event("MapRequest", v), e)
        BY <2>1, <2>3, <3>1, <3>2 DEF Sends, Longer
      <4> QED BY <1>0, <1>1, <2>1, <2>3, <3>1, <4>1, EventsAre DEF MapsOf
    <3>3. CASE phase = "starting"
      <4>1. events' = <<>>
        BY <1>0, <2>1, <3>3 DEF Sends
      <4>2. ~Believed(v)
        BY <3>3 DEF Believed
      <4> QED BY <1>1, <2>1, <2>3, <3>1, <4>1, <4>2, EmptyIs DEF MapsOf
    <3> QED BY <3>2, <3>3
  <2> QED BY <2>2, <2>3
<1>5. ASSUME Destroys(w) PROVE MapsOf(v)'
  <2>1. /\ w \in exists /\ exists' = exists \ {w} /\ mapped' = mapped \ {w}
        /\ IF w \in mapped THEN SendsBoth("UnmapNotify", "DestroyNotify", w)
           ELSE Sends("DestroyNotify", w)
    BY <1>5 DEF Destroys
  <2>2. CASE v # w
    <3>1. /\ \A t : In(events', Event(t, v)) <=> In(events, Event(t, v))
          /\ \A s, t : Before(events', Event(s, v), Event(t, v))
                         => Before(events, Event(s, v), Event(t, v))
      <4>1. CASE w \notin mapped
        BY <2>1, <2>2, <4>1, SendsOther
      <4>2. CASE w \in mapped /\ phase = "starting"
        BY <2>1, <4>2 DEF SendsBoth
      <4>3. CASE w \in mapped /\ phase # "starting"
        <5>1. PICK q : /\ Longer(events, q, Event("UnmapNotify", w))
                       /\ Longer(q, events', Event("DestroyNotify", w))
          BY <2>1, <4>3 DEF SendsBoth
        <5>2. /\ \A t : In(q, Event(t, v)) <=> In(events, Event(t, v))
              /\ \A s, t : Before(q, Event(s, v), Event(t, v))
                             => Before(events, Event(s, v), Event(t, v))
          BY <2>2, <5>1, EventsAre DEF Longer
        <5>3. /\ \A t : In(events', Event(t, v)) <=> In(q, Event(t, v))
              /\ \A s, t : Before(events', Event(s, v), Event(t, v))
                             => Before(q, Event(s, v), Event(t, v))
          BY <2>2, <5>1, EventsAre DEF Longer
        <5> QED BY <5>2, <5>3
      <4> QED BY <4>1, <4>2, <4>3
    <3> QED BY <1>0, <2>1, <2>2, <3>1, OthersKeep
  <2>3. CASE v = w /\ v \in mapped
    <3>1. ~In(events, Event("MapRequest", v)) /\ MapIt(v) \notin requests
      BY <1>0, <2>3 DEF MapsOf
    <3>2. ~In(events', Event("MapRequest", v))
      <4>1. CASE phase = "starting"
        BY <2>1, <2>3, <3>1, <4>1 DEF SendsBoth
      <4>2. CASE phase # "starting"
        <5>1. PICK q : /\ Longer(events, q, Event("UnmapNotify", v))
                       /\ Longer(q, events', Event("DestroyNotify", v))
          BY <2>1, <2>3, <4>2 DEF SendsBoth
        <5> QED BY <3>1, <5>1, EventsAre DEF Longer
      <4> QED BY <4>1, <4>2
    <3>3. \A e : ~Before(events', Event("MapRequest", v), e)
      BY <3>2 DEF Before, In
    <3> QED BY <1>1, <2>1, <2>3, <3>1, <3>2, <3>3 DEF MapsOf
  <2>4. CASE v = w /\ v \notin mapped
    <3>1. /\ \A type \in {"CreateNotify", "UnmapNotify", "MapRequest"} :
               /\ In(events', Event(type, v)) <=> In(events, Event(type, v))
               /\ Before(events', Event("MapRequest", v), Event(type, v))
                    => Before(events, Event("MapRequest", v), Event(type, v))
      <4>1. CASE phase = "starting"
        BY <2>1, <2>4, <4>1 DEF Sends
      <4>2. CASE phase # "starting"
        BY <2>1, <2>4, <4>2, EventsAre DEF Sends, Longer
      <4> QED BY <4>1, <4>2
    <3> QED BY <1>0, <1>1, <2>1, <2>4, <3>1 DEF MapsOf
  <2> QED BY <2>2, <2>3, <2>4
<1>6. ASSUME NEW type \in {"ConfigureRequest", "CirculateRequest"}, Asks(type, w)
      PROVE  MapsOf(v)'
  <2>1. UNCHANGED <<exists, mapped>> /\ Sends(type, w)
    BY <1>6 DEF Asks
  <2>2. \A t \in {"CreateNotify", "UnmapNotify", "MapRequest"} :
          /\ In(events', Event(t, v)) <=> In(events, Event(t, v))
          /\ Before(events', Event("MapRequest", v), Event(t, v))
               => Before(events, Event("MapRequest", v), Event(t, v))
    <3>1. CASE phase = "starting"
      BY <2>1, <3>1 DEF Sends
    <3>2. CASE phase # "starting"
      BY <2>1, <3>2, EventsAre DEF Sends, Longer
    <3> QED BY <3>1, <3>2
  <2> QED BY <1>0, <1>1, <2>1, <2>2 DEF MapsOf
<1> QED BY <1>2, <1>3, <1>4, <1>5, <1>6 DEF ClientDoes

\* So it does through the start.
LEMMA StartedMapping ==
  ASSUME Inv2, ~Over, ~Over', Started, NEW v \in Windows \ OverrideRedirect
  PROVE  MapsOf(v)'
<1>1. /\ MapsOf(v) /\ News /\ Tracking /\ requests = {}
      /\ UNCHANGED <<exists, mapped, events, requests>>
      /\ mapped \subseteq exists
  BY DEF Inv2, Inv, Mapping, Started, Values
<1>2. ASSUME Seen(v)' /\ v \in mapped => Believed(v)',
             Believed(v)' /\ v \in exists \ mapped =>
               In(events, Event("MapRequest", v)) \/ In(events, Event("UnmapNotify", v))
      PROVE  MapsOf(v)'
  BY <1>1, <1>2 DEF MapsOf
<1>3. ASSUME phase' = "registered" PROVE MapsOf(v)'
  <2>1. ~Seen(v)' /\ ~Believed(v)'
    BY <1>3 DEF Seen, Believed
  <2> QED BY <1>2, <2>1
<1>4. ASSUME ~Seen(v)' /\ ~Believed(v)' PROVE MapsOf(v)'
  BY <1>2, <1>4
<1>5. ASSUME NEW u \in exists,
             Seen(v)' <=> Seen(v) \/ v = u,
             Believed(v)' <=> Believed(v) \/ (v = u /\ u \in mapped)
      PROVE  MapsOf(v)'
  BY <1>1, <1>2, <1>5 DEF MapsOf
<1>6. ASSUME Believed(v)' <=> Believed(v), Seen(v) <=> Held(v) PROVE MapsOf(v)'
  <2>1. v \in mapped => Held(v)
    BY <1>1 DEF News, Tracking
  <2> QED BY <1>1, <1>2, <1>6, <2>1 DEF MapsOf
<1>7. phase' # "exited"
  BY DEF Over
<1> QED BY <1>3, <1>4, <1>5, <1>6, <1>7 DEF Started

\* So it does when an event is handled.
LEMMA HandledMapping ==
  ASSUME Inv2, ~Over, ~Over', NEW w \in Windows, NEW type \in EventTypes, Handled(type, w),
         NEW v \in Windows \ OverrideRedirect
  PROVE  MapsOf(v)'
<1>1. /\ MapsOf(v) /\ News /\ Tracking /\ Ordered
      /\ requests = {} /\ UNCHANGED <<exists, mapped>>
      /\ phase = "running" /\ phase' = "running"
      /\ MappedIn(wm') = IF type = "MapRequest" THEN MappedIn(wm) \cup {w}
                         ELSE IF type \in {"UnmapNotify", "DestroyNotify"}
                              THEN MappedIn(wm) \ {w} ELSE MappedIn(wm)
      /\ \A u : MapIt(u) \in requests' <=> type = "MapRequest" /\ u = w
      /\ In(events, Event(type, w))
      /\ \A e : In(events', e) => In(events, e) /\ Before(events, Event(type, w), e)
      /\ \A e : In(events, e) => In(events', e) \/ e = Event(type, w)
      /\ \A d, e : Before(events', d, e) => Before(events, d, e)
      /\ mapped \subseteq exists
  BY DEF Inv2, Inv, Mapping, Values, Handled, Over, Shorter
<1>2. /\ Seen(v) /\ Seen(v)'
      /\ Believed(v) <=> v \in MappedIn(wm)
      /\ Believed(v)' <=> v \in MappedIn(wm')
  BY <1>1 DEF Seen, Believed
<1>3. CASE v # w
  <2>1. \A t : In(events', Event(t, v)) <=> In(events, Event(t, v))
    BY <1>1, <1>3, EventsAre
  <2>2. (Believed(v)' <=> Believed(v)) /\ MapIt(v) \notin requests'
    BY <1>1, <1>2, <1>3
  <2> QED BY <1>1, <1>2, <2>1, <2>2 DEF MapsOf
<1>4. CASE v = w /\ type = "MapRequest"
  <2>1. /\ v \notin mapped /\ MapIt(v) \in requests' /\ Believed(v)'
    BY <1>1, <1>2, <1>4 DEF MapsOf
  <2>2. \A t \in {"CreateNotify", "UnmapNotify", "MapRequest"} : ~In(events', Event(t, v))
    BY <1>1, <1>4 DEF MapsOf
  <2> QED BY <1>1, <2>1, <2>2 DEF MapsOf
<1>5. CASE v = w /\ type # "MapRequest"
  <2>1. MapIt(v) \notin requests' /\ MapIt(v) \notin requests
    BY <1>1, <1>5
  <2>2. In(events', Event("MapRequest", v)) <=> In(events, Event("MapRequest", v))
    BY <1>1, <1>5, EventsAre
  <2>3. CASE type = "UnmapNotify"
    <3>1. ~Believed(v)' /\ v \notin mapped
      BY <1>1, <1>2, <1>5, <2>3 DEF MapsOf
    <3> QED BY <1>1, <2>1, <2>2, <3>1 DEF MapsOf
  <2>4. CASE type = "DestroyNotify"
    <3>1. ~Believed(v)' /\ v \notin mapped
      BY <1>1, <1>2, <1>5, <2>4 DEF Tracking
    <3> QED BY <1>1, <2>1, <2>2, <3>1 DEF MapsOf
  <2>5. CASE type \notin {"UnmapNotify", "DestroyNotify"}
    <3>1. Believed(v)' <=> Believed(v)
      BY <1>1, <1>2, <1>5, <2>5
    <3>2. In(events', Event("UnmapNotify", v)) <=> In(events, Event("UnmapNotify", v))
      BY <1>1, <2>5, EventsAre
    <3> QED BY <1>1, <1>2, <2>1, <2>2, <3>1, <3>2 DEF MapsOf
  <2> QED BY <2>3, <2>4, <2>5
<1> QED BY <1>3, <1>4, <1>5

\* So it does when a request is answered.
LEMMA ServedMapping ==
  ASSUME Inv2, ~Over, ~Over', NEW request, Served(request), NEW v \in Windows \ OverrideRedirect
  PROVE  MapsOf(v)'
<1>1. /\ MapsOf(v)
      /\ phase = "running" /\ phase' = "running"
      /\ UNCHANGED <<exists, events, wm>>
      /\ request \in requests
      /\ \A u : MapIt(u) \in requests' <=> MapIt(u) \in requests /\ MapIt(u) # request
      /\ \A u : u \in mapped' <=> u \in mapped \/ MapIt(u) = request
  BY DEF Inv2, Mapping, Served, Over
<1>2. /\ Seen(v) /\ Seen(v)' /\ (Believed(v)' <=> Believed(v))
  BY <1>1 DEF Seen, Believed
<1>3. CASE MapIt(v) = request
  BY <1>1, <1>2, <1>3 DEF MapsOf
<1>4. CASE MapIt(v) # request
  BY <1>1, <1>2, <1>4 DEF MapsOf
<1> QED BY <1>3, <1>4

\* Every step keeps what the two take to be mapped together.
LEMMA MappingInductive ==
  ASSUME OnlyKnownOverride, NoneRemaps, Inv2, [Next]_vars
  PROVE  Inv2'
<1>1. Inv'
  BY Inductive DEF Inv2
<1>2. CASE UNCHANGED vars
  <2>1. UNCHANGED <<exists, mapped, events, phase, tree, known, wm, requests>>
    BY <1>2 DEF vars, server, client
  <2>2. \A w : (Seen(w)' <=> Seen(w)) /\ (Believed(w)' <=> Believed(w))
    BY <2>1 DEF Seen, Believed
  <2>3. \A w : MapsOf(w) => MapsOf(w)'
    BY <2>1, <2>2 DEF MapsOf
  <2>4. ~Over' => Mapping'
    BY <2>1, <2>3 DEF Inv2, Over, Mapping
  <2> QED BY <1>1, <2>4 DEF Inv2
<1>3. CASE Next
  <2>1. ASSUME ~Over', NEW v \in Windows \ OverrideRedirect PROVE MapsOf(v)'
    <3>1. Inv
      BY DEF Inv2
    <3> QED BY <1>3, <2>1, <3>1, StepIs, ClientMapping, StartedMapping, HandledMapping, ServedMapping
  <2> QED BY <1>1, <2>1 DEF Inv2, Mapping
<1> QED BY <1>2, <1>3

\* Once AquariWM is idle, every event handled and every request answered, it
\* knows the windows of the server, and which of them are mapped: whatever was
\* created, mapped, unmapped or destroyed before it registered, between that and
\* its look at the tree, or while it read the attributes, and in what order the
\* events then came.  For clients that wait for one request to be mapped before
\* they make the next.
THEOREM Agreement == OnlyKnownOverride /\ NoneRemaps => (Spec => []Agrees)
<1>1. Init => Inv2
  <2> SUFFICES ASSUME Init PROVE Inv2
    OBVIOUS
  <2>1. Inv /\ events = <<>> /\ phase = "starting" /\ requests = {}
    BY InitInv DEF Init
  <2>2. \A w : ~Seen(w) /\ ~Believed(w)
    BY <2>1 DEF Seen, Believed
  <2> QED BY <2>1, <2>2, EmptyIs DEF Inv2, Mapping, MapsOf
<1>2. Inv2 => Agrees
  <2> SUFFICES ASSUME Inv2, Idle PROVE Tracked(wm) = exists /\ \A w \in exists \ OverrideRedirect :
                                           w \in mapped <=> wm.windows[w] = "Mapped"
    BY DEF Agrees
  <2>1. /\ phase = "running" /\ requests = {} /\ \A e : ~In(events, e)
        /\ Tracking /\ Mapping /\ Tracked(wm) \subseteq Windows /\ exists \subseteq Windows
    BY EmptyIs DEF Inv2, Inv, Values, Over, Idle, Running
  <2>2. \A w : (Held(w) <=> w \in Tracked(wm)) /\ (Believed(w) <=> w \in MappedIn(wm)) /\ Seen(w)
    BY <2>1 DEF Held, Believed, Seen
  <2>3. \A w \in Windows : w \in exists <=> Held(w)
    BY <2>1 DEF Tracking
  <2>4. Tracked(wm) = exists
    BY <2>1, <2>2, <2>3
  <2>5. ASSUME NEW w \in exists \ OverrideRedirect
        PROVE  w \in mapped <=> wm.windows[w] = "Mapped"
    <3>1. w \in mapped <=> Believed(w)
      BY <2>1, <2>2 DEF Mapping, MapsOf
    <3> QED BY <2>2, <2>4, <3>1 DEF MappedIn
  <2> QED BY <2>4, <2>5
<1>3. ASSUME OnlyKnownOverride, NoneRemaps PROVE Spec => []Agrees
  <2>1. Inv2 /\ [Next]_vars => Inv2'
    BY <1>3, MappingInductive
  <2> QED BY <1>1, <1>2, <2>1, PTL DEF Spec
<1> QED BY <1>3

-----------------------------------------------------------------------------
(* Where AquariWM put the windows.  The place of a node is what it is to   *)
(* be: until the request about it is answered the window is not there.     *)

\* A node is where its window is, unless a request about it is on its way; and
\* the server has its place, unless its client chose one since.
PlacesOf(node) ==
  /\ ~node.fresh /\ ~node.changed
  /\ \/ Configure(node) \in requests
     \/ node.window \in exists => /\ node.window \in DOMAIN placed
                                  /\ placed[node.window] \in {Place(node), Asked}

\* Nor has AquariWM put a window anywhere before the changes are first applied.
NonePlaced == \A w \in DOMAIN placed : placed[w] = Asked

Places ==
  /\ Spaced(wm.layout)
  /\ \/ AllFresh(wm.layout) /\ NonePlaced /\ requests = {}
     \/ phase = "running" /\ \A node \in NodesOf(wm.layout) : PlacesOf(node)
  /\ \A request \in requests :
       request.type = "configure" => \E node \in NodesOf(wm.layout) : request = Configure(node)

Inv3 == Inv /\ (~Over => Places)

\* What clients do to the places.
ClientMoves ==
  /\ DOMAIN placed' \subseteq DOMAIN placed
  /\ \A v \in DOMAIN placed' : placed'[v] = placed[v]
  /\ \A v \in created : v \in exists' => v \in exists /\ (v \in DOMAIN placed => v \in DOMAIN placed')

\* A client changes no place: what it asks for is AquariWM's to do.
LEMMA ClientMovesIs ==
  ASSUME Inv, ClientStep
  PROVE  ClientMoves /\ UNCHANGED client /\ ~Over
<1>0. DOMAIN placed \subseteq exists
  BY DEF Inv, Values
<1>1. PICK w \in Windows : \/ ClientCreates(w) \/ ClientMaps(w) \/ ClientUnmaps(w)
                            \/ ClientDestroys(w) \/ ClientAsks(w)
  BY DEF ClientStep
<1>2. ~Over /\ UNCHANGED client
  BY <1>1 DEF ClientCreates, ClientMaps, ClientUnmaps, ClientDestroys, ClientAsks, Does
<1>3. CASE ClientCreates(w)
  BY <1>0, <1>2, <1>3 DEF ClientCreates, ClientMoves
<1>4. CASE ClientDestroys(w)
  BY <1>0, <1>2, <1>4 DEF ClientDestroys, ClientMoves
<1>5. CASE ClientMaps(w) \/ ClientUnmaps(w) \/ ClientAsks(w)
  BY <1>0, <1>2, <1>5 DEF ClientMaps, ClientUnmaps, ClientAsks, ClientMoves
<1> QED BY <1>1, <1>3, <1>4, <1>5

\* A node of the layout is of a window that AquariWM knows.
LEMMA NodesTracked ==
  ASSUME NEW state, Good(state), NEW node \in NodesOf(state.layout)
  PROVE  node.window \in MappedIn(state) /\ node.window \in Tracked(state)
<1>1. Shaped(state.layout) /\ ToSet(HeldIn(state.layout)) = MappedIn(state)
  BY TiledIs DEF Good
<1> QED BY <1>1, HeldNodes DEF MappedIn

\* Whatever a client does, the nodes of the layout are where their windows are.
LEMMA ClientPlaces ==
  ASSUME Inv3, ClientStep
  PROVE  Places'
<1>1. ClientMoves /\ UNCHANGED <<phase, wm, requests>> /\ Inv /\ Places
  BY ClientMovesIs DEF Inv3, client
<1>2. Good(wm) /\ Tracked(wm) \subseteq created
  BY <1>1 DEF Inv, Values
<1>3. ASSUME NEW node \in NodesOf(wm.layout), PlacesOf(node) PROVE PlacesOf(node)'
  <2>1. node.window \in created
    BY <1>2, NodesTracked
  <2> QED BY <1>1, <1>3, <2>1 DEF PlacesOf, ClientMoves
<1>4. NonePlaced => NonePlaced'
  BY <1>1 DEF ClientMoves, NonePlaced
<1>5. ~(phase = "running" /\ \A node \in NodesOf(wm.layout) : PlacesOf(node))
        => AllFresh(wm.layout) /\ NonePlaced /\ requests = {}
  BY <1>1 DEF Places
<1>6. \A node : node \in NodesOf(wm.layout)' <=> node \in NodesOf(wm.layout)
  BY <1>1
<1>7. \/ AllFresh(wm.layout)' /\ NonePlaced' /\ requests' = {}
      \/ phase' = "running" /\ \A node \in NodesOf(wm.layout)' : PlacesOf(node)'
  <2>1. CASE phase = "running" /\ \A node \in NodesOf(wm.layout) : PlacesOf(node)
    BY <1>1, <1>3, <1>6, <2>1
  <2>2. CASE ~(phase = "running" /\ \A node \in NodesOf(wm.layout) : PlacesOf(node))
    BY <1>1, <1>4, <1>5, <2>2
  <2> QED BY <2>1, <2>2
<1> QED BY <1>1, <1>7 DEF Places, ClientMoves

\* No window is placed before the event loop runs.
LEMMA StartedPlaces ==
  ASSUME Inv3, Start, ~Over'
  PROVE  Places'
<1>1. Inv /\ Places /\ phase \in {"starting", "registered", "querying"}
  BY DEF Inv3, Start, Register, QueryTree, QueryAttributes, StartLoop, Over
<1>2. AllFresh(wm.layout) /\ NonePlaced /\ requests = {}
  BY <1>1 DEF Places
<1>3. UNCHANGED <<exists, placed, events, requests>>
  BY DEF Start, Register, QueryTree, QueryAttributes, StartLoop, server
<1>4. Spaced(wm.layout)' /\ AllFresh(wm.layout)'
  <2>1. CASE StartLoop
    <3>1. /\ tree \in Seq(created) /\ IsInjective(tree)
          /\ known \in Seq(MapStates) /\ Len(known) = Len(tree)
          /\ wm' = AddWindows
      BY <1>1, <2>1 DEF StartLoop, Inv, Values
    <3>2. Untouched(AddWindows.layout)
      BY <3>1, AddWindowsIs
    <3> QED BY <3>1, <3>2 DEF Untouched
  <2>2. CASE ~StartLoop
    <3>1. wm' = wm
      BY <2>2 DEF Start, Register, QueryTree, QueryAttributes
    <3> QED BY <1>1, <1>2, <3>1 DEF Places
  <2> QED BY <2>1, <2>2
<1> QED BY <1>1, <1>2, <1>3, <1>4 DEF Places, NonePlaced

\* The changes that a handler makes are applied: each node is asked about, or
\* stays where its window was put.
LEMMA AppliedPlaces ==
  ASSUME Inv, Places, phase = "running", requests = {},
         NEW after, Good(after), Moves(wm.layout, after.layout),
         NEW others, \A request \in others : request.type # "configure",
         ThenApply(after, others), ~Over', UNCHANGED <<exists, placed>>,
         \A e : In(events', e) => In(events, e)
  PROVE  Places'
<1> DEFINE L == wm.layout
           M == after.layout
           N == Applied(M)
           nodes == ToReconfigure(M)
<1>1. /\ ~AppliedPanics(M)
      /\ wm' = [after EXCEPT !.layout = Applied(@)]
      /\ requests' = others \cup {Configure(node) : node \in nodes}
      /\ phase' = "running"
  BY DEF ThenApply, Over
<1>2. Shaped(M) /\ Spaced(M) /\ Stay(L, M) /\ DOMAIN after = {"layout", "windows"}
  BY DEF Good, Moves
<1>3. Spaced(N) /\ Telling(M, N, nodes)
  BY <1>1, <1>2, AppliedSpaced
<1>4. wm'.layout = N
  BY <1>1, <1>2
<1> HIDE DEF N, nodes
<1>5. Shaped(L) /\ Spaced(L)
  BY DEF Inv, Values, Good, Places
<1>6. ASSUME NEW x \in NodesOf(L), ~x.fresh PROVE PlacesOf(x)
  <2>1. ~AllFresh(L)
    BY <1>5, <1>6, AllFreshIs
  <2> QED BY <2>1 DEF Places
<1>7. ASSUME NEW node \in NodesOf(N) PROVE PlacesOf(node)'
  <2>1. ~node.fresh /\ ~node.changed
    BY <1>3 DEF Telling
  <2>2. CASE node \in nodes
    <3>1. Configure(node) \in requests'
      BY <1>1, <2>2
    <3> QED BY <2>1, <3>1 DEF PlacesOf
  <2>3. CASE node \notin nodes
    <3>1. PICK x \in NodesOf(M) : Stayed(x, node)
      BY <1>3, <2>3 DEF Telling
    <3>2. x \in NodesOf(L) /\ ~x.fresh
      BY <1>2, <3>1 DEF Stay, Stayed
    <3>3. PlacesOf(x)
      BY <1>6, <3>2
    <3>4. node.window = x.window /\ Place(node) = Place(x)
      BY <3>1 DEF Stayed, Place
    <3> QED BY <2>1, <3>3, <3>4 DEF PlacesOf
  <2> QED BY <2>2, <2>3
<1>8. ASSUME NEW request \in requests', request.type = "configure"
      PROVE  \E node \in NodesOf(N) : request = Configure(node)
  BY <1>1, <1>3, <1>8 DEF Telling
<1>10. NodesOf(wm.layout)' = NodesOf(N)
  BY <1>4
<1> QED BY <1>1, <1>3, <1>4, <1>7, <1>8, <1>10 DEF Places

\* An event is handled.
LEMMA HandledPlaces ==
  ASSUME Inv3, Handle, ~Over'
  PROVE  Places'
<1>0. Handle => phase = "running"
  BY DEF Handle, HandleCreate, HandleDestroy, HandleMapRequest, HandleUnmap,
         HandleConfigureRequest, HandleCirculateRequest, Read
<1>1. Inv /\ Values /\ Places /\ Good(wm) /\ Spaced(wm.layout) /\ ~Over
  BY <1>0 DEF Inv3, Inv, Values, Places, Over
<1>2. ASSUME NEW type, NEW w, Read(type, w)
      PROVE  /\ phase = "running" /\ requests = {} /\ UNCHANGED exists
             /\ \A e : In(events', e) => In(events, e)
             /\ In(events, Event(type, w))
  BY <1>1, <1>2, ReadIs DEF Shorter
<1>3. ASSUME NEW type, NEW w, Read(type, w), UNCHANGED placed,
             NEW after, Good(after), Moves(wm.layout, after.layout),
             NEW others, others = {} \/ others = {MapIt(w)}, ThenApply(after, others)
      PROVE  Places'
  <2>1. \A request \in others : request.type # "configure"
    BY <1>3 DEF MapIt
  <2>2. /\ phase = "running" /\ requests = {} /\ UNCHANGED <<exists, placed>>
        /\ \A e : In(events', e) => In(events, e)
    BY <1>2, <1>3
  <2> QED BY <1>1, <1>3, <2>1, <2>2, AppliedPlaces
<1>4. ASSUME NEW w \in Windows, HandleCreate(w) PROVE Places'
  <2> DEFINE after == AddWindow(wm, w, "Unmapped")
  <2>1. Read("CreateNotify", w) /\ ThenApply(after, {}) /\ UNCHANGED placed
    BY <1>4 DEF HandleCreate
  <2>2. w \notin MappedIn(wm)
    BY <1>1, <1>2, <2>1 DEF Inv, News, Believed
  <2>3. Good(after)
    BY <1>1, <2>2, AddedWindow DEF MapStates
  <2>4. Moves(wm.layout, after.layout)
    BY <1>1, CallsMove
  <2> HIDE DEF after
  <2> QED BY <1>3, <2>1, <2>3, <2>4
<1>5. ASSUME NEW w \in Windows, HandleDestroy(w) PROVE Places'
  <2> DEFINE after == RemoveWindow(wm, w)
  <2>1. Read("DestroyNotify", w) /\ ThenApply(after, {}) /\ UNCHANGED placed
    BY <1>5 DEF HandleDestroy
  <2>2. Good(after)
    BY <1>1, RemovedState
  <2>3. Moves(wm.layout, after.layout)
    BY <1>1, CallsMove
  <2> HIDE DEF after
  <2> QED BY <1>3, <2>1, <2>2, <2>3
<1>6. ASSUME NEW w \in Windows, HandleMapRequest(w) PROVE Places'
  <2> DEFINE after == MapWindow(wm, w)
  <2>1. Read("MapRequest", w) /\ UNCHANGED placed
    BY <1>6 DEF HandleMapRequest
  <2>2. w \in Tracked(wm) /\ ThenApply(after, {MapIt(w)})
    BY <1>6 DEF HandleMapRequest, Ends, Over
  <2>3. Good(after)
    BY <1>1, <2>2, MapWindowIs
  <2>4. Moves(wm.layout, after.layout)
    BY <1>1, CallsMove
  <2> HIDE DEF after
  <2> QED BY <1>3, <2>1, <2>2, <2>3, <2>4
<1>7. ASSUME NEW w \in Windows, HandleUnmap(w) PROVE Places'
  <2> DEFINE after == UnmapWindow(wm, w)
  <2>1. Read("UnmapNotify", w) /\ UNCHANGED placed
    BY <1>7 DEF HandleUnmap
  <2>2. w \in Tracked(wm) /\ ThenApply(after, {})
    BY <1>7 DEF HandleUnmap, Ends, Over
  <2>3. Good(after)
    BY <1>1, <2>2, UnmapWindowIs
  <2>4. Moves(wm.layout, after.layout)
    BY <1>1, CallsMove
  <2> HIDE DEF after
  <2> QED BY <1>3, <2>1, <2>2, <2>3, <2>4
<1>8. ASSUME NEW w \in Windows, HandleConfigureRequest(w) PROVE Places'
  <2>1. /\ Read("ConfigureRequest", w) /\ UNCHANGED <<phase, wm, requests>>
        /\ placed' = IF w \in exists THEN With(placed, w, Asked) ELSE placed
    BY <1>8 DEF HandleConfigureRequest
  <2>2. UNCHANGED exists /\ phase = "running"
    BY <1>2, <2>1
  <2>3. ASSUME NEW node, PlacesOf(node) PROVE PlacesOf(node)'
    <3>1. \A v \in DOMAIN placed : /\ v \in DOMAIN placed'
                                   /\ placed'[v] \in {placed[v], Asked}
      BY <2>1 DEF With
    <3> QED BY <2>1, <2>2, <2>3, <3>1 DEF PlacesOf
  <2>4. NonePlaced => NonePlaced'
    BY <2>1 DEF With, NonePlaced
  <2> QED BY <1>1, <2>1, <2>2, <2>3, <2>4 DEF Places
<1>9. ASSUME NEW w \in Windows, HandleCirculateRequest(w) PROVE FALSE
  BY <1>9 DEF HandleCirculateRequest, Ends, Over
<1> QED BY <1>4, <1>5, <1>6, <1>7, <1>8, <1>9 DEF Handle

\* A request is answered, and not by an error.
LEMMA ServedPlaces ==
  ASSUME Inv3, ServeOne, ~Over'
  PROVE  Places'
<1>1. PICK request \in requests : Serve(request)
  BY DEF ServeOne
<1> DEFINE w == request.window
<1>2. /\ phase = "running" /\ requests' = requests \ {request}
      /\ placed' = IF request.type = "configure" THEN With(placed, w, request.place) ELSE placed
      /\ UNCHANGED <<exists, events, wm, phase>>
  BY <1>1 DEF Serve, Over
<1>3. Inv /\ Places /\ Good(wm)
  BY <1>2 DEF Inv3, Inv, Values, Over
<1>4. \A node \in NodesOf(wm.layout) : PlacesOf(node)
  BY <1>3 DEF Places
<1>5. request.type = "configure" => \E node \in NodesOf(wm.layout) : request = Configure(node)
  BY <1>3 DEF Places
<1>6. \A x, y \in NodesOf(wm.layout) : x.window = y.window => x = y
  BY <1>3, TiledIs, HeldNodes DEF Good
<1>7. ASSUME NEW node \in NodesOf(wm.layout) PROVE PlacesOf(node)'
  <2>1. PlacesOf(node)
    BY <1>4
  <2>2. CASE request.type # "configure"
    <3>1. Configure(node) # request
      BY <2>2 DEF Configure
    <3> QED BY <1>2, <2>1, <2>2, <3>1 DEF PlacesOf
  <2>3. CASE request.type = "configure"
    <3>1. PICK other \in NodesOf(wm.layout) : request = Configure(other)
      BY <1>5, <2>3
    <3>2. w = other.window /\ request.place = Place(other)
      BY <3>1 DEF Configure
    <3> HIDE DEF w
    <3>3. /\ DOMAIN placed' = DOMAIN placed \cup {w}
          /\ placed'[w] = Place(other)
          /\ \A v \in DOMAIN placed : v # w => placed'[v] = placed[v]
      BY <1>2, <2>3, <3>2 DEF With
    <3>4. CASE node.window = w
      <4>1. node = other
        BY <1>6, <3>2, <3>4
      <4> QED BY <2>1, <3>3, <3>4, <4>1 DEF PlacesOf
    <3>5. CASE node.window # w
      <4>1. Configure(node) # request
        BY <3>1, <3>2, <3>5 DEF Configure
      <4> QED BY <1>2, <2>1, <3>3, <3>5, <4>1 DEF PlacesOf
    <3> QED BY <3>4, <3>5
  <2> QED BY <2>2, <2>3
<1>8. NodesOf(wm.layout)' = NodesOf(wm.layout) /\ phase' = "running"
  BY <1>2
<1> QED BY <1>2, <1>3, <1>7, <1>8 DEF Places

\* Every step keeps the places together.
LEMMA PlacesInductive ==
  ASSUME OnlyKnownOverride, Inv3, [Next]_vars
  PROVE  Inv3'
<1>1. Inv'
  BY Inductive DEF Inv3
<1>2. CASE Over'
  BY <1>1, <1>2 DEF Inv3
<1>3. CASE ~Over' /\ UNCHANGED vars
  <2>1. UNCHANGED <<exists, created, mapped, placed, events, phase, tree, known, wm, requests>>
    BY <1>3 DEF vars, server, client
  <2>2. ~Over
    BY <1>3, <2>1 DEF Over
  <2> QED BY <1>1, <2>1, <2>2 DEF Inv3, Places, PlacesOf, NonePlaced
<1>4. CASE ~Over' /\ Next
  BY <1>1, <1>4, ClientPlaces, StartedPlaces, HandledPlaces, ServedPlaces DEF Inv3, Next
<1> QED BY <1>2, <1>3, <1>4

\* Once AquariWM is idle each tiled window is where its node is in the layout,
\* however many events and requests were on their way: unless its client asked
\* for another place, or no event has come since AquariWM started.
THEOREM PlacesKept == OnlyKnownOverride => (Spec => []PlacedAsTiled)
<1>1. Init => Inv3
  <2> SUFFICES ASSUME Init PROVE Inv3
    OBVIOUS
  <2>1. Inv /\ requests = {} /\ DOMAIN placed = {} /\ events = <<>> /\ wm.layout = NewLayout
    BY InitInv DEF Init, NewWm
  <2>2. Len(NewLayout.children) = 0
    BY DEF NewLayout, GroupOf
  <2>3. Spaced(wm.layout) /\ AllFresh(wm.layout)
    BY <2>1, <2>2, NewLayoutSpaced DEF AllFresh
  <2> QED BY <2>1, <2>3, EmptyIs DEF Inv3, Places, NonePlaced
<1>2. Inv3 => PlacedAsTiled
  <2> DEFINE N == WindowNodes(wm.layout)
  <2> SUFFICES ASSUME Inv3, Idle, NEW k \in DOMAIN N
               PROVE  IF N[k].window \in DOMAIN placed
                      THEN placed[N[k].window] \in {Place(N[k]), Asked}
                      ELSE ChangesMade(wm.layout)
    BY DEF PlacedAsTiled
  <2>1. /\ phase = "running" /\ requests = {} /\ (\A e : ~In(events, e))
        /\ Tracking /\ Places /\ Good(wm) /\ Tracked(wm) \subseteq Windows
    BY EmptyIs DEF Inv3, Inv, Values, Over, Idle, Running
  <2> DEFINE node == N[k]
  <2>2. node \in NodesOf(wm.layout)
    BY DEF NodesOf, ToSet
  <2> HIDE DEF N, node
  <2>3. node.window \in exists
    <3>1. node.window \in Windows /\ Held(node.window)
      BY <2>1, <2>2, NodesTracked DEF Held
    <3> QED BY <2>1, <3>1 DEF Tracking
  <2>4. CASE AllFresh(wm.layout) /\ NonePlaced
    <3>1. ChangesMade(wm.layout)
      BY <2>1, <2>2, <2>4, AllFreshIs DEF Good, Places
    <3> QED BY <2>4, <3>1 DEF NonePlaced, node
  <2>5. CASE ~(AllFresh(wm.layout) /\ NonePlaced)
    <3>1. PlacesOf(node)
      BY <2>1, <2>2, <2>5 DEF Places
    <3>2. node.window \in DOMAIN placed /\ placed[node.window] \in {Place(node), Asked}
      BY <2>1, <2>3, <3>1 DEF PlacesOf
    <3> QED BY <3>2 DEF node
  <2> QED BY <2>4, <2>5
<1>3. ASSUME OnlyKnownOverride PROVE Spec => []PlacedAsTiled
  <2>1. Inv3 /\ [Next]_vars => Inv3'
    BY <1>3, PlacesInductive
  <2> QED BY <1>1, <1>2, <2>1, PTL DEF Spec
<1> QED BY <1>3

-----------------------------------------------------------------------------
(* Why AquariWM would panic.  Its arithmetic does not, on a screen with    *)
(* room for the windows: no window is placed without a size and stays so,  *)
(* since the server ends the loop for it.  What is left is an event of a   *)
(* window that AquariWM does not know.                                     *)

\* A window that was placed has a size, or a request about it is on its way.
SizeOf(node) ==
  node.fresh \/ Configure(node) \in requests \/ \A axis \in Axes : node.size[axis] # 0

Sizes == Funded(wm.layout) /\ \A node \in NodesOf(wm.layout) : SizeOf(node)

\* A window of the tree that AquariWM does not know is gone, and so are its events.
GoneFor(w) == w \notin exists /\ \A type \in EventTypes : ~In(events, Event(type, w))

TreeTracked ==
  phase = "running" => \A k \in 1 .. Len(tree) : tree[k] \in Tracked(wm) \/ GoneFor(tree[k])

Inv4 == Inv3 /\ (~Over => Sizes /\ TreeTracked)

\* Room on the screen for two windows side by side, and for the gaps between all.
RoomyScreen == RoomFor(Cardinality(Windows))

\* The stack has no more windows than there can be.
LEMMA StackFits ==
  ASSUME NEW state, Good(state), Tracked(state) \subseteq Windows,
         Len(state.layout.children) = 2
  PROVE  Len(state.layout.children[2].children) <= Cardinality(Windows)
<1> DEFINE L == state.layout
           x == L.children[1]
           y == L.children[2]
           held == HeldIn(L)
<1>1. /\ Shaped(L) /\ IsList(held) /\ IsInjective(held)
      /\ ToSet(held) \subseteq Windows
      /\ held = FirstIn(x) \o Names(y.children)
  BY HeldIs, TiledIs DEF Good, MappedIn
<1>2. IsFirst(x) /\ IsStack(y)
  BY <1>1 DEF Shaped
<1>3. IsList(FirstIn(x)) /\ IsList(y.children)
  BY <1>2, FrontIs, StackIs
<1>4. Len(y.children) \in Nat /\ Len(FirstIn(x)) \in Nat
  BY <1>3 DEF IsList
<1>5. IsList(Names(y.children)) /\ Len(Names(y.children)) = Len(y.children)
  BY <1>3, NamesAre
<1>6. Len(held) = Len(FirstIn(x)) + Len(y.children)
  <2> DEFINE p == FirstIn(x)
             q == Names(y.children)
  <2>1. IsList(p) /\ IsList(q) /\ held = p \o q /\ Len(q) = Len(y.children)
    BY <1>1, <1>3, <1>5
  <2> HIDE DEF p, q, held
  <2>2. Len(held) = Len(p) + Len(q)
    BY <2>1, JoinedIs
  <2> QED BY <2>1, <2>2 DEF p
<1> HIDE DEF x, y, held, L
<1>7. Len(held) \in Nat /\ held \in [1 .. Len(held) -> ToSet(held)]
  <2>1. \A S, s : s \in Seq(S) => Len(s) \in Nat /\ s \in [1 .. Len(s) -> S]
    OBVIOUS
  <2> QED BY <1>1, <2>1, Zenon DEF IsList
<1>8. held \in [1 .. Len(held) -> Windows]
  BY <1>1, <1>7
<1>9. held \in Injection(1 .. Len(held), Windows)
  BY <1>1, <1>8 DEF Injection
<1>10. Cardinality(1 .. Len(held)) <= Cardinality(Windows)
  BY <1>9, FS_Injection, ClientsAssumption
<1>11. Cardinality(1 .. Len(held)) = Len(held)
  BY <1>7, FS_Interval
<1>12. Cardinality(Windows) \in Nat
  BY ClientsAssumption, FS_CardinalityType
<1>13. Len(y.children) <= Cardinality(Windows)
  BY <1>4, <1>6, <1>7, <1>10, <1>11, <1>12
<1> QED BY <1>13 DEF y, L

\* Changes are applied without a panic when every request has been answered.
LEMMA ChangesApply ==
  ASSUME RoomyScreen, Sizes, requests = {}, Shaped(wm.layout),
         NEW after, Good(after), Tracked(after) \subseteq Windows,
         Moves(wm.layout, after.layout)
  PROVE  /\ ~AppliedPanics(after.layout)
         /\ Stout(after.layout) /\ Funded(Applied(after.layout))
<1> DEFINE n == Cardinality(Windows)
           M == after.layout
<1>1. Funded(wm.layout) /\ Stout(wm.layout)
  BY DEF Sizes, SizeOf, Stout
<1>2. /\ Spaced(M) /\ Funded(M) /\ Stout(M)
  BY <1>1, LastsIs DEF Moves
<1>3. n \in Nat /\ RoomFor(n)
  BY ClientsAssumption, FS_CardinalityType DEF RoomyScreen
<1>4. Shaped(M)
  BY DEF Good
<1>5. Len(M.children) = 2 => Len(M.children[2].children) <= n
  BY StackFits
<1> HIDE DEF n, M
<1>6. ~AppliedPanics(M)
  BY <1>2, <1>3, <1>4, <1>5, NoPanic
<1>7. Funded(Applied(M))
  BY <1>2, <1>3, <1>4, <1>6, AppliedFunded
<1> QED BY <1>2, <1>6, <1>7 DEF M

\* A call was made on the layout, and the changes are applied.
Applies ==
  \E after, others :
    /\ Good(after) /\ Tracked(after) \subseteq Windows
    /\ Moves(wm.layout, after.layout)
    /\ ThenApply(after, others)

\* The event is of a window that AquariWM does not know, and is not of its creation.
Unknown(type, w) == phase' = "panicked" /\ type # "CreateNotify" /\ w \notin Tracked(wm)

\* What each handler does, but for what it does to the window.
LEMMA HandleCalls ==
  ASSUME Inv3, Handle
  PROVE  \E w \in Windows, type \in EventTypes :
           /\ Read(type, w)
           /\ \/ Unknown(type, w)
              \/ phase' # "panicked" /\ UNCHANGED <<wm, requests>>
              \/ Applies
<1>0. Handle => phase = "running"
  BY DEF Handle, HandleCreate, HandleDestroy, HandleMapRequest, HandleUnmap,
         HandleConfigureRequest, HandleCirculateRequest, Read
<1>1. /\ Inv /\ Values /\ Good(wm) /\ Spaced(wm.layout) /\ News /\ Tracked(wm) \subseteq Windows
  BY <1>0 DEF Inv3, Inv, Values, Places, Over
<1> DEFINE Does3(type, w) == Unknown(type, w) \/ (phase' # "panicked" /\ UNCHANGED <<wm, requests>>) \/ Applies
           Goal == \E w \in Windows, type \in EventTypes : Read(type, w) /\ Does3(type, w)
<1>2. ASSUME NEW type, NEW w \in Windows, Read(type, w), Does3(type, w) PROVE Goal
  <2>1. type \in EventTypes
    BY <1>1, <1>2, ReadIs
  <2> QED BY <1>2, <2>1
<1> HIDE DEF Goal
<1>3. ASSUME NEW w \in Windows, HandleCreate(w) PROVE Goal
  <2> DEFINE after == AddWindow(wm, w, "Unmapped")
  <2>1. Read("CreateNotify", w) /\ ThenApply(after, {})
    BY <1>3 DEF HandleCreate
  <2>2. w \notin MappedIn(wm)
    <3>1. In(events, Event("CreateNotify", w)) /\ phase = "running"
      BY <1>1, <2>1, ReadIs
    <3> QED BY <1>1, <3>1 DEF News, Believed
  <2>3. Good(after) /\ Tracked(after) = Tracked(wm) \cup {w}
    BY <1>1, <2>2, AddedWindow DEF MapStates
  <2>4. Moves(wm.layout, after.layout)
    BY <1>1, CallsMove
  <2> HIDE DEF after
  <2>5. Applies
    BY <1>1, <2>1, <2>3, <2>4 DEF Applies
  <2> QED BY <1>2, <2>1, <2>5
<1>4. ASSUME NEW w \in Windows, HandleDestroy(w) PROVE Goal
  <2> DEFINE after == RemoveWindow(wm, w)
  <2>1. Read("DestroyNotify", w) /\ ThenApply(after, {})
    BY <1>4 DEF HandleDestroy
  <2>2. Good(after) /\ Tracked(after) = Tracked(wm) \ {w}
    BY <1>1, RemovedState
  <2>3. Moves(wm.layout, after.layout)
    BY <1>1, CallsMove
  <2> HIDE DEF after
  <2>4. Applies
    BY <1>1, <2>1, <2>2, <2>3 DEF Applies
  <2> QED BY <1>2, <2>1, <2>4
<1>5. ASSUME NEW w \in Windows, HandleMapRequest(w) PROVE Goal
  <2> DEFINE after == MapWindow(wm, w)
  <2>1. Read("MapRequest", w)
    BY <1>5 DEF HandleMapRequest
  <2>2. CASE w \in Tracked(wm)
    <3>1. ThenApply(after, {MapIt(w)})
      BY <1>5, <2>2 DEF HandleMapRequest
    <3>2. Good(after) /\ Tracked(after) = Tracked(wm) \cup {w}
      BY <1>1, <2>2, MapWindowIs DEF Tracks
    <3>3. Moves(wm.layout, after.layout)
      BY <1>1, CallsMove
    <3> HIDE DEF after
    <3>4. Applies
      BY <1>1, <3>1, <3>2, <3>3 DEF Applies
    <3> QED BY <1>2, <2>1, <3>4
  <2>3. CASE w \notin Tracked(wm)
    <3>1. Unknown("MapRequest", w)
      BY <1>5, <2>3 DEF HandleMapRequest, Ends, Unknown
    <3> QED BY <1>2, <2>1, <3>1
  <2> QED BY <2>2, <2>3
<1>6. ASSUME NEW w \in Windows, HandleUnmap(w) PROVE Goal
  <2> DEFINE after == UnmapWindow(wm, w)
  <2>1. Read("UnmapNotify", w)
    BY <1>6 DEF HandleUnmap
  <2>2. CASE w \in Tracked(wm)
    <3>1. ThenApply(after, {})
      BY <1>6, <2>2 DEF HandleUnmap
    <3>2. Good(after) /\ Tracked(after) = Tracked(wm) \cup {w}
      BY <1>1, <2>2, UnmapWindowIs DEF Tracks
    <3>3. Moves(wm.layout, after.layout)
      BY <1>1, CallsMove
    <3> HIDE DEF after
    <3>4. Applies
      BY <1>1, <3>1, <3>2, <3>3 DEF Applies
    <3> QED BY <1>2, <2>1, <3>4
  <2>3. CASE w \notin Tracked(wm)
    <3>1. Unknown("UnmapNotify", w)
      BY <1>6, <2>3 DEF HandleUnmap, Ends, Unknown
    <3> QED BY <1>2, <2>1, <3>1
  <2> QED BY <2>2, <2>3
<1>7. ASSUME NEW w \in Windows, HandleConfigureRequest(w) PROVE Goal
  <2>1. Read("ConfigureRequest", w) /\ UNCHANGED <<phase, wm, requests>>
    BY <1>7 DEF HandleConfigureRequest
  <2>2. phase' # "panicked"
    BY <2>1 DEF Read
  <2> QED BY <1>2, <2>1, <2>2
<1>8. ASSUME NEW w \in Windows, HandleCirculateRequest(w) PROVE Goal
  <2>1. Read("CirculateRequest", w)
    BY <1>8 DEF HandleCirculateRequest
  <2>2. Unknown("CirculateRequest", w) \/ (phase' # "panicked" /\ UNCHANGED <<wm, requests>>)
    BY <1>8 DEF HandleCirculateRequest, Ends, Unknown
  <2> QED BY <1>2, <2>1, <2>2
<1>9. Goal
  BY <1>3, <1>4, <1>5, <1>6, <1>7, <1>8 DEF Handle
<1> QED BY <1>9 DEF Goal

\* A handler keeps the sizes: what it gives another size it asks to have it.
LEMMA HandledSizes ==
  ASSUME RoomyScreen, Inv4, Handle, ~Over'
  PROVE  Sizes'
<1>1. PICK w \in Windows, type \in EventTypes :
        Read(type, w) /\ (Unknown(type, w) \/ UNCHANGED <<wm, requests>> \/ Applies)
  BY HandleCalls DEF Inv4
<1>2. phase = "running" /\ requests = {} /\ Sizes /\ Shaped(wm.layout)
  BY <1>1 DEF Read, Inv4, Inv3, Inv, Values, Good, Over
<1>3. CASE UNCHANGED <<wm, requests>>
  BY <1>2, <1>3 DEF Sizes, SizeOf
<1>4. CASE Applies
  <2>1. PICK after, others : /\ Good(after) /\ Tracked(after) \subseteq Windows
                             /\ Moves(wm.layout, after.layout) /\ ThenApply(after, others)
    BY <1>4 DEF Applies
  <2> DEFINE M == after.layout
             N == Applied(M)
             nodes == ToReconfigure(M)
  <2>2. ~AppliedPanics(M) /\ Stout(M) /\ Funded(N)
    BY <1>2, <2>1, ChangesApply
  <2>3. /\ wm' = [after EXCEPT !.layout = Applied(@)]
        /\ requests' = others \cup {Configure(node) : node \in nodes}
    BY <2>1, <2>2 DEF ThenApply
  <2>4. Shaped(M) /\ Spaced(M) /\ DOMAIN after = {"layout", "windows"}
    BY <2>1 DEF Good, Moves
  <2>5. Telling(M, N, nodes)
    BY <2>2, <2>4, AppliedSpaced
  <2>6. wm'.layout = N
    BY <2>3, <2>4
  <2> HIDE DEF N, nodes, M
  <2>7. ASSUME NEW node \in NodesOf(N) PROVE SizeOf(node)'
    <3>1. CASE node \in nodes
      <4>1. Configure(node) \in requests'
        BY <2>3, <3>1
      <4> QED BY <4>1 DEF SizeOf
    <3>2. CASE node \notin nodes
      <4>1. PICK x \in NodesOf(M) : Stayed(x, node)
        BY <2>5, <3>2 DEF Telling
      <4>2. \A axis \in Axes : node.size[axis] # 0
        BY <2>2, <4>1 DEF Stout, Stayed
      <4> QED BY <4>2 DEF SizeOf
    <3> QED BY <3>1, <3>2
  <2>8. NodesOf(wm.layout)' = NodesOf(N) /\ Funded(wm.layout)'
    BY <2>2, <2>6
  <2> QED BY <2>7, <2>8 DEF Sizes
<1>5. ~Unknown(type, w)
  BY DEF Unknown, Over
<1> QED BY <1>1, <1>3, <1>4, <1>5

\* A request is answered, and not by an error: the window has the size it was to have.
LEMMA ServedSizes ==
  ASSUME Inv4, ServeOne, ~Over'
  PROVE  Sizes'
<1>1. PICK request \in requests : Serve(request)
  BY DEF ServeOne
<1>2. /\ phase = "running" /\ requests' = requests \ {request} /\ UNCHANGED wm
      /\ request.type = "configure" => \A axis \in Axes : request.place.size[axis] # 0
  BY <1>1 DEF Serve, Over
<1>3. Sizes
  BY <1>2 DEF Inv4, Over
<1>4. ASSUME NEW node, SizeOf(node) PROVE SizeOf(node)'
  <2>1. CASE Configure(node) = request
    <3>1. request.type = "configure" /\ request.place.size = node.size
      BY <2>1 DEF Configure, Place
    <3> QED BY <1>2, <3>1 DEF SizeOf
  <2>2. CASE Configure(node) # request
    BY <1>2, <1>4, <2>2 DEF SizeOf
  <2> QED BY <2>1, <2>2
<1>5. NodesOf(wm.layout)' = NodesOf(wm.layout) /\ (Funded(wm.layout)' <=> Funded(wm.layout))
  BY <1>2
<1> QED BY <1>3, <1>4, <1>5 DEF Sizes

\* While AquariWM starts nothing is placed.
LEMMA StartedSizes ==
  ASSUME Inv4, Start, ~Over'
  PROVE  Sizes'
<1>1. Inv3 /\ phase \in {"starting", "registered", "querying"}
  BY DEF Inv4, Start, Register, QueryTree, QueryAttributes, StartLoop
<1>2. Spaced(wm.layout)' /\ AllFresh(wm.layout)'
  <2>1. CASE StartLoop
    <3>1. /\ tree \in Seq(created) /\ IsInjective(tree)
          /\ known \in Seq(MapStates) /\ Len(known) = Len(tree)
          /\ wm' = AddWindows
      BY <1>1, <2>1 DEF StartLoop, Inv3, Inv, Values
    <3>2. Untouched(AddWindows.layout)
      BY <3>1, AddWindowsIs
    <3> QED BY <3>1, <3>2 DEF Untouched
  <2>2. CASE ~StartLoop
    <3>1. wm' = wm
      BY <2>2 DEF Start, Register, QueryTree, QueryAttributes
    <3>2. Places /\ phase # "running"
      BY <1>1 DEF Inv3, Over
    <3> QED BY <3>1, <3>2 DEF Places
  <2> QED BY <2>1, <2>2
<1>3. Shaped(wm.layout)'
  BY <1>1, StartedIs DEF Inv3, Values, Good
<1>4. \A node \in NodesOf(wm.layout)' : node.fresh
  BY <1>2, <1>3, AllFreshIs
<1> QED BY <1>2, <1>4 DEF Sizes, SizeOf, Funded

\* A client makes nothing of a window that is gone.
LEMMA ClientGone ==
  ASSUME Inv, ClientStep, NEW v \in created, GoneFor(v)
  PROVE  GoneFor(v)'
<1>1. PICK w \in Windows : ClientDoes(w)
  BY ClientIs
<1>2. ASSUME NEW type, w # v, Sends(type, w), v \notin exists' PROVE GoneFor(v)'
  <2>1. \A t : In(events', Event(t, v)) <=> In(events, Event(t, v))
    BY <1>2, SendsOther
  <2> QED BY <1>2, <2>1 DEF GoneFor
<1>3. v \notin exists /\ v \notin mapped
  BY DEF GoneFor, Inv, Values
<1>4. CASE Creates(w)
  <2>1. w # v /\ v \notin exists'
    BY <1>3, <1>4 DEF Creates
  <2> QED BY <1>2, <1>4, <2>1 DEF Creates
<1>5. CASE Maps(w)
  <2>1. w # v /\ v \notin exists'
    BY <1>3, <1>5 DEF Maps
  <2>2. CASE phase # "starting" /\ w \notin OverrideRedirect
    BY <1>2, <1>5, <2>1, <2>2 DEF Maps
  <2>3. CASE ~(phase # "starting" /\ w \notin OverrideRedirect)
    BY <1>5, <2>1, <2>3 DEF Maps, GoneFor
  <2> QED BY <2>2, <2>3
<1>6. CASE Unmaps(w)
  <2>1. w # v /\ v \notin exists'
    BY <1>3, <1>6 DEF Unmaps
  <2> QED BY <1>2, <1>6, <2>1 DEF Unmaps
<1>7. CASE Destroys(w)
  <2>1. w # v /\ v \notin exists'
    BY <1>3, <1>7 DEF Destroys
  <2>2. CASE w \notin mapped
    BY <1>2, <1>7, <2>1, <2>2 DEF Destroys
  <2>3. CASE w \in mapped /\ phase = "starting"
    BY <1>7, <2>1, <2>3 DEF Destroys, SendsBoth, GoneFor
  <2>4. CASE w \in mapped /\ phase # "starting"
    <3>1. PICK q : /\ Longer(events, q, Event("UnmapNotify", w))
                   /\ Longer(q, events', Event("DestroyNotify", w))
      BY <1>7, <2>4 DEF Destroys, SendsBoth
    <3>2. \A t : In(q, Event(t, v)) <=> In(events, Event(t, v))
      BY <2>1, <3>1, EventsAre DEF Longer
    <3>3. \A t : In(events', Event(t, v)) <=> In(q, Event(t, v))
      BY <2>1, <3>1, EventsAre DEF Longer
    <3> QED BY <2>1, <3>2, <3>3 DEF GoneFor
  <2> QED BY <2>2, <2>3, <2>4
<1>8. ASSUME NEW type, Asks(type, w) PROVE GoneFor(v)'
  <2>1. w # v /\ v \notin exists'
    BY <1>3, <1>8 DEF Asks
  <2> QED BY <1>2, <1>8, <2>1 DEF Asks
<1> QED BY <1>1, <1>4, <1>5, <1>6, <1>7, <1>8 DEF ClientDoes

\* AquariWM knows the windows of the tree until they are gone.
LEMMA TreeStays ==
  ASSUME OnlyKnownOverride, Inv4, Next, ~Over'
  PROVE  TreeTracked'
<1> SUFFICES ASSUME phase' = "running", NEW k \in 1 .. Len(tree')
             PROVE  (tree[k] \in Tracked(wm) \/ GoneFor(tree[k]))'
  BY DEF TreeTracked
<1>1. Inv /\ Values
  BY DEF Inv4, Inv3, Inv
<1>2. ASSUME phase = "running", tree' = tree
      PROVE  /\ tree[k] \in created /\ tree[k] \in Windows
             /\ tree[k] \in Tracked(wm) \/ GoneFor(tree[k])
             /\ Ordered /\ Tracking
  <2>1. k \in 1 .. Len(tree)
    BY <1>2
  <2>2. tree \in Seq(created) /\ created \subseteq Windows
    BY <1>1 DEF Values
  <2>3. TreeTracked /\ Ordered /\ Tracking
    BY <1>1, <1>2 DEF Inv4, Over, Inv
  <2> QED BY <1>2, <2>1, <2>2, <2>3 DEF TreeTracked
<1>3. ASSUME UNCHANGED tree, NEW v, v = tree[k], v \in Tracked(wm') \/ GoneFor(v)'
      PROVE  (tree[k] \in Tracked(wm) \/ GoneFor(tree[k]))'
  BY <1>3 DEF GoneFor
<1>4. CASE ClientStep
  <2>1. UNCHANGED <<phase, tree, wm>>
    BY <1>1, <1>4, ClientMovesIs DEF client
  <2>2. PICK v : v = tree[k]
    OBVIOUS
  <2>3. v \in created /\ (v \in Tracked(wm) \/ GoneFor(v))
    BY <1>2, <2>1, <2>2
  <2>4. v \in Tracked(wm) \/ GoneFor(v)'
    BY <1>1, <1>4, <2>3, ClientGone
  <2> QED BY <1>3, <2>1, <2>2, <2>4
<1>5. CASE Start
  <2>1. StartLoop
    BY <1>5 DEF Start, Register, QueryTree, QueryAttributes
  <2>2. /\ tree \in Seq(created) /\ IsInjective(tree)
        /\ known \in Seq(MapStates) /\ Len(known) = Len(tree)
        /\ wm' = AddWindows /\ tree' = tree
    BY <1>1, <2>1 DEF StartLoop, Values
  <2>3. Tracked(wm') = FoundIn(Len(tree))
    BY <2>2, AddWindowsIs
  <2>4. tree[k] \in FoundIn(Len(tree))
    BY <2>2 DEF FoundIn
  <2>5. tree'[k] \in Tracked(wm')
    BY <2>2, <2>3, <2>4
  <2> QED BY <2>5
<1>6. CASE Handle
  <2>1. PICK w \in Windows, type \in EventTypes : Handled(type, w)
    BY <1>1, <1>6, HandledIs
  <2>2. /\ phase = "running" /\ UNCHANGED <<exists, tree>>
        /\ Shorter(events, events', Event(type, w))
        /\ Tracked(wm') = IF type = "CreateNotify" THEN Tracked(wm) \cup {w}
                          ELSE IF type = "DestroyNotify" THEN Tracked(wm) \ {w} ELSE Tracked(wm)
    BY <2>1 DEF Handled
  <2>3. PICK v : v = tree[k]
    OBVIOUS
  <2>4. /\ v \in Windows /\ (v \in Tracked(wm) \/ GoneFor(v))
        /\ Ordered /\ Tracking
    BY <1>2, <2>2, <2>3
  <2>5. ASSUME v \notin exists, \A t \in EventTypes : ~In(events', Event(t, v)) PROVE GoneFor(v)'
    BY <2>2, <2>5 DEF GoneFor
  <2>6. CASE GoneFor(v)
    <3>1. v \notin exists /\ \A t \in EventTypes : ~In(events', Event(t, v))
      BY <2>2, <2>6 DEF GoneFor, Shorter
    <3> QED BY <1>3, <2>2, <2>3, <2>5, <3>1
  <2>7. CASE v \in Tracked(wm) /\ ~(type = "DestroyNotify" /\ v = w)
    <3>1. v \in Tracked(wm')
      BY <2>2, <2>7
    <3> QED BY <1>3, <2>2, <2>3, <3>1
  <2>8. CASE type = "DestroyNotify" /\ v = w
    <3>1. v \notin exists
      BY <2>2, <2>4, <2>8 DEF Tracking, Shorter
    <3>2. \A t \in EventTypes : ~In(events', Event(t, v))
      BY <2>2, <2>4, <2>8 DEF Ordered, Shorter
    <3> QED BY <1>3, <2>2, <2>3, <2>5, <3>1, <3>2
  <2> QED BY <2>4, <2>6, <2>7, <2>8
<1>7. CASE ServeOne
  <2>1. phase = "running" /\ UNCHANGED <<exists, events, tree, wm>>
    BY <1>7 DEF ServeOne, Serve
  <2>2. PICK v : v = tree[k]
    OBVIOUS
  <2>3. v \in Tracked(wm') \/ GoneFor(v)'
    BY <1>2, <2>1, <2>2 DEF GoneFor
  <2> QED BY <1>3, <2>1, <2>2, <2>3
<1> QED BY <1>4, <1>5, <1>6, <1>7 DEF Next

\* Every step keeps the sizes and the windows of the tree.
LEMMA SizesInductive ==
  ASSUME OnlyKnownOverride, RoomyScreen, Inv4, [Next]_vars
  PROVE  Inv4'
<1>1. Inv3'
  BY PlacesInductive DEF Inv4
<1>2. CASE Over'
  BY <1>1, <1>2 DEF Inv4
<1>3. CASE ~Over' /\ UNCHANGED vars
  <2>1. UNCHANGED <<exists, created, mapped, placed, events, phase, tree, known, wm, requests>>
    BY <1>3 DEF vars, server, client
  <2>2. Sizes /\ TreeTracked
    BY <1>3, <2>1 DEF Over, Inv4
  <2> QED BY <1>1, <2>1, <2>2 DEF Inv4, Sizes, SizeOf, TreeTracked, GoneFor
<1>4. CASE ~Over' /\ Next
  <2>1. TreeTracked'
    BY <1>4, TreeStays
  <2>2. CASE ClientStep
    <3>1. UNCHANGED <<phase, wm, requests>>
      BY <2>2, ClientMovesIs DEF client, Inv4, Inv3
    <3>2. Sizes
      BY <1>4, <3>1 DEF Over, Inv4
    <3> QED BY <1>1, <2>1, <3>1, <3>2 DEF Inv4, Sizes, SizeOf
  <2> QED BY <1>1, <1>4, <2>1, <2>2, StartedSizes, HandledSizes, ServedSizes DEF Inv4, Next
<1> QED BY <1>2, <1>3, <1>4

\* AquariWM panics only at an event of a window that was gone before AquariWM looked
\* for windows: no arithmetic of the layout panics, if the screen has room for the
\* gaps between the windows there can be, nor does an event that comes too early or
\* too late for a window of the tree or of a creation that was handled.
THEOREM PanicsForTheGone == OnlyKnownOverride /\ RoomyScreen => (Spec => PanicsOnlyForTheGone)
<1>1. Init => Inv4
  <2> SUFFICES ASSUME Init PROVE Inv4
    OBVIOUS
  <2>1. Inv /\ requests = {} /\ DOMAIN placed = {} /\ events = <<>> /\ wm.layout = NewLayout
    BY InitInv DEF Init, NewWm
  <2>2. Len(NewLayout.children) = 0
    BY DEF NewLayout, GroupOf
  <2>3. Spaced(wm.layout) /\ AllFresh(wm.layout) /\ Shaped(wm.layout)
    BY <2>1, <2>2, NewLayoutSpaced DEF AllFresh, Inv, Values, Good
  <2>4. Inv3
    BY <2>1, <2>3, EmptyIs DEF Inv3, Places, NonePlaced
  <2>5. Sizes
    BY <2>3, AllFreshIs DEF Sizes, SizeOf, Funded
  <2>6. TreeTracked
    BY DEF Init, TreeTracked
  <2> QED BY <2>4, <2>5, <2>6 DEF Inv4
<1>2. ASSUME RoomyScreen, Inv4, [Next]_vars, phase' = "panicked", ~Over
      PROVE  \E w \in created \ (exists \cup ToSet(tree)) : Head(events).window = w
  <2>1. /\ Inv3 /\ Inv /\ Values /\ Ordered /\ Tracking /\ Sizes /\ TreeTracked
    BY <1>2 DEF Inv4, Inv3, Inv
  <2>2. Handle
    <3>1. phase # phase'
      BY <1>2 DEF Over
    <3>2. Next
      BY <1>2, <3>1 DEF vars, client
    <3>3. ~ClientStep
      BY <2>1, <3>1, ClientMovesIs DEF client
    <3>4. ~Start
      BY <1>2, <3>1 DEF Start, Register, QueryTree, QueryAttributes, StartLoop
    <3>5. ~ServeOne
      BY <1>2, <3>1 DEF ServeOne, Serve
    <3> QED BY <3>2, <3>3, <3>4, <3>5 DEF Next
  <2>3. PICK w \in Windows, type \in EventTypes : Read(type, w) /\ (Unknown(type, w) \/ Applies)
    BY <1>2, <2>1, <2>2, HandleCalls
  <2>4. /\ phase = "running" /\ requests = {} /\ w \in created
        /\ Shorter(events, events', Event(type, w)) /\ In(events, Event(type, w))
    BY <2>1, <2>3, ReadIs
  <2>5. ~Applies
    <3> SUFFICES ASSUME NEW after, NEW others, Good(after), Tracked(after) \subseteq Windows,
                        Moves(wm.layout, after.layout), ThenApply(after, others)
                 PROVE  FALSE
      BY DEF Applies
    <3>1. Shaped(wm.layout)
      BY <2>1 DEF Values, Good
    <3>2. ~AppliedPanics(after.layout)
      BY <1>2, <2>1, <2>4, <3>1, ChangesApply
    <3> QED BY <1>2, <2>4, <3>2 DEF ThenApply
  <2>6. w \notin Tracked(wm)
    BY <2>3, <2>5 DEF Unknown
  <2>7. Head(events).window = w
    BY <2>3, EventsAre DEF Read
  <2>8. w \notin exists
    <3> SUFFICES ASSUME w \in exists PROVE FALSE
      OBVIOUS
    <3>1. In(events, Event("CreateNotify", w))
      BY <2>1, <2>4, <2>6 DEF Tracking, Held
    <3>2. Event("CreateNotify", w) # Event(type, w)
      BY <2>3, <2>5, EventsAre DEF Unknown
    <3>3. Before(events, Event(type, w), Event("CreateNotify", w))
      BY <2>4, <3>1, <3>2 DEF Shorter
    <3> QED BY <2>1, <3>3 DEF Ordered
  <2>9. w \notin ToSet(tree)
    <3> SUFFICES ASSUME w \in ToSet(tree) PROVE FALSE
      OBVIOUS
    <3>1. tree \in Seq(created)
      BY <2>1 DEF Values
    <3>2. PICK k \in 1 .. Len(tree) : tree[k] = w
      BY <3>1, InIs DEF In
    <3>3. tree[k] \in Tracked(wm) \/ GoneFor(tree[k])
      BY <2>1, <2>4 DEF TreeTracked
    <3> QED BY <2>4, <2>6, <3>2, <3>3 DEF GoneFor
  <2> QED BY <2>4, <2>7, <2>8, <2>9
<1>3. ASSUME OnlyKnownOverride, RoomyScreen PROVE Spec => PanicsOnlyForTheGone
  <2>1. Inv4 /\ [Next]_vars => Inv4'
    BY <1>3, SizesInductive
  <2>2. Inv4 /\ [Next]_vars =>
          (phase' = "panicked" /\ ~Over
             => \E w \in created \ (exists \cup ToSet(tree)) : Head(events).window = w)
    BY <1>2, <1>3
  <2> QED BY <1>1, <2>1, <2>2, PTL DEF Spec, PanicsOnlyForTheGone
<1> QED BY <1>3

=============================================================================
