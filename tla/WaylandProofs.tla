--------------------------- MODULE WaylandProofs ---------------------------
(***************************************************************************)
(* Of Wayland, for any windows, clients, limits, places, buttons and       *)
(* number of presses: its invariants, the steps by which windows become    *)
(* active and are moved, and that it implements Dragging.                  *)
(***************************************************************************)
EXTENDS Wayland, TLAPS

\* The values that a window's state to be sent can have.
LEMMA States_Update ==
  ASSUME NEW f \in [Windows -> States], NEW w \in Windows,
         NEW resizing \in BOOLEAN, NEW size \in Int
  PROVE  /\ [f EXCEPT ![w].resizing = resizing] \in [Windows -> States]
         /\ [f EXCEPT ![w].resizing = resizing, ![w].size = size] \in [Windows -> States]
  BY DEF States

\* To tell a window is to keep what it was told.
LEMMA Sent_Update ==
  ASSUME NEW f \in [Windows -> States], NEW g \in [Windows -> States], NEW w \in Windows
  PROVE  [f EXCEPT ![w] = g[w]] \in [Windows -> States]
  OBVIOUS

\* OnTop keeps the space a stack, and has the window in it.
LEMMA OnTop_Stacked ==
  ASSUME NEW w \in Windows, space \subseteq Windows, above \subseteq space \X space, Stacked,
         OnTop(w)
  PROVE  /\ space' \subseteq Windows /\ space \subseteq space' /\ w \in space'
         /\ above' \subseteq space' \X space' /\ Stacked'
<1>1. space' = space \cup {w}
  BY DEF OnTop
<1>2. above' \subseteq space' \X space'
  BY <1>1 DEF OnTop
<1>3. ASSUME NEW u \in space', NEW v \in space', u # v
      PROVE  <<u, v>> \in above' <=> <<v, u>> \notin above'
  <2>1. CASE u = w
    BY <2>1, <1>1, <1>3 DEF OnTop
  <2>2. CASE v = w
    BY <2>2, <1>1, <1>3 DEF OnTop
  <2>3. CASE u # w /\ v # w
    <3>1. u \in space /\ v \in space
      BY <2>3, <1>1
    <3>2. <<u, v>> \in above' <=> <<u, v>> \in above
      BY <2>3 DEF OnTop
    <3>3. <<v, u>> \in above' <=> <<v, u>> \in above
      BY <2>3 DEF OnTop
    <3> QED
      BY <3>1, <3>2, <3>3, <1>3 DEF Stacked
  <2> QED
    BY <2>1, <2>2, <2>3
<1> QED
  BY <1>1, <1>2, <1>3 DEF Stacked

-----------------------------------------------------------------------------
(* The type invariant.                                                     *)

LEMMA TypeOK_Init == Init => TypeOK
<1> SUFFICES ASSUME Init PROVE TypeOK
  OBVIOUS
<1>1. pending \in [Windows -> States] /\ sent \in [Windows -> States]
  BY DEF Init, States, Plain, NotSent
<1>2. grab \in Grabs
  BY DEF Init, Grabs
<1>3. Stacked
  BY DEF Init, Stacked
<1> QED
  BY <1>1, <1>2, <1>3, WaylandAssumption DEF Init, TypeOK, Focusable

LEMMA Type_NewToplevel ==
  ASSUME TypeOK, NEW w \in Windows, NewToplevel(w)
  PROVE  TypeOK'
<1>1. /\ space' \subseteq Windows /\ above' \subseteq space' \X space' /\ Stacked'
  BY OnTop_Stacked DEF TypeOK, NewToplevel
<1>2. /\ life' \in [Windows -> {"unborn", "alive", "dead"}]
      /\ loc' \in [Windows -> Int]
  BY DEF TypeOK, NewToplevel
<1> QED
  BY <1>1, <1>2 DEF TypeOK, NewToplevel, seat, Focusable

LEMMA Type_Destroy ==
  ASSUME TypeOK, NEW w \in Windows, Destroy(w)
  PROVE  TypeOK'
BY DEF TypeOK, Destroy, desktop, seat, Stacked

LEMMA Type_Commit ==
  ASSUME TypeOK, NEW w \in Windows, NEW size \in Sizes, NEW limit \in Limits,
         Commit(w, size, limit)
  PROVE  TypeOK'
<1>1. size \in Nat /\ limit \in Nat \X Nat
  BY WaylandAssumption
<1> QED
  BY <1>1 DEF TypeOK, Commit, desktop, seat, Stacked

\* A request that is granted comes while there is a grab.
LEMMA Granted ==
  ASSUME TypeOK, NEW w \in Windows, NEW s \in 1 .. serial, Asks(w, s)
  PROVE  /\ grab.kind # "none" /\ s = grab.serial /\ s \in Serials
         /\ grab.focus \in Focusable /\ grab.start \in Int
<1>1. grab \in Grabs /\ grab # NoGrab
  BY DEF TypeOK, Asks, CheckGrab, NoGrab
<1> QED
  BY <1>1 DEF Asks, CheckGrab, Grabs, NoGrab

LEMMA Type_MoveRequest ==
  ASSUME TypeOK, NEW w \in Windows, NEW s \in 1 .. serial, MoveRequest(w, s)
  PROVE  TypeOK'
<1>1. grab' \in Grabs
  <2>1. Asks(w, s) /\ grab' = Move(w, s)
    BY DEF MoveRequest
  <2>2. loc[w] \in Int
    BY DEF TypeOK
  <2> QED
    BY <2>1, <2>2, Granted DEF Move, Grabs
<1> QED
  BY <1>1 DEF TypeOK, MoveRequest, clients, desktop, Stacked, Focusable

LEMMA Type_ResizeRequest ==
  ASSUME TypeOK, NEW w \in Windows, NEW s \in 1 .. serial, NEW edge \in Edges,
         ResizeRequest(w, s, edge)
  PROVE  TypeOK'
<1>1. grab' \in Grabs
  <2>1. Asks(w, s) /\ grab' = Resize(w, s, edge)
    BY DEF ResizeRequest
  <2>2. shown[w] \in Nat
    BY DEF TypeOK
  <2> QED
    BY <2>1, <2>2, Granted DEF Resize, Grabs
<1>2. pending' \in [Windows -> States]
  BY States_Update DEF TypeOK, ResizeRequest
<1>3. sent' \in [Windows -> States]
  BY <1>2, Sent_Update DEF TypeOK, ResizeRequest
<1>4. surface' \in [Windows -> {"Idle", "Resizing", "WaitingForFinalCommit"}]
  BY DEF TypeOK, ResizeRequest
<1> QED
  BY <1>1, <1>2, <1>3, <1>4 DEF TypeOK, ResizeRequest, clients, Stacked, Focusable

\* The grab in force is the grab, or none.
LEMMA InForce_Grab ==
  ASSUME TypeOK
  PROVE  InForce \in {grab, NoGrab}
BY DEF InForce

\* What is counted in positions of the pointer is so many pixels, to half of one when
\* it is rounded.
LEMMA Pixels ==
  ASSUME NEW d \in Int
  PROVE  /\ Trunc(d) \in Int
         /\ Round(d) \in Int
         /\ 2 * (Round(d) * Fine - d) <= Fine
         /\ 2 * (Round(d) * Fine - d) >= -Fine
<1>1. Fine \in Nat \ {0}
  BY WaylandAssumption
<1>2. Trunc(d) \in Int
  BY <1>1 DEF Trunc
<1>3. ASSUME NEW n \in Int
      PROVE  /\ n \div (2 * Fine) \in Int
             /\ (n \div (2 * Fine)) * (2 * Fine) <= n
             /\ n < (n \div (2 * Fine)) * (2 * Fine) + 2 * Fine
  BY <1>1
<1>4. CASE d >= 0
  <2> DEFINE q == (2 * d + Fine) \div (2 * Fine)
  <2>0. 2 * d + Fine \in Int
    BY <1>1
  <2>1. q \in Int /\ q * (2 * Fine) <= 2 * d + Fine /\ 2 * d + Fine < q * (2 * Fine) + 2 * Fine
    BY <1>3, <2>0, Zenon
  <2>2. Round(d) = q
    BY <1>4 DEF Round
  <2>3. q * (2 * Fine) = 2 * (q * Fine) /\ q * Fine \in Int
    BY <1>1, <2>1
  <2> HIDE DEF q
  <2> QED
    BY <1>1, <1>2, <2>1, <2>2, <2>3
<1>5. CASE d < 0
  <2> DEFINE q == (Fine - 2 * d) \div (2 * Fine)
  <2>0. Fine - 2 * d \in Int
    BY <1>1
  <2>1. q \in Int /\ q * (2 * Fine) <= Fine - 2 * d /\ Fine - 2 * d < q * (2 * Fine) + 2 * Fine
    BY <1>3, <2>0, Zenon
  <2>2. Round(d) = -q
    BY <1>5 DEF Round
  <2>3. q * (2 * Fine) = 2 * (q * Fine) /\ q * Fine \in Int /\ (-q) * Fine = -(q * Fine)
    BY <1>1, <2>1
  <2> HIDE DEF q
  <2> QED
    BY <1>1, <1>2, <2>1, <2>2, <2>3
<1> QED
  BY <1>4, <1>5

\* What a client states are limits.
LimitsKept ==
  \A w \in Windows : limits[w][2] = 0 \/ limits[w][1] <= limits[w][2]

LEMMA LimitsKept_Step ==
  ASSUME TypeOK, LimitsKept, [Next]_vars
  PROVE  LimitsKept'
<1>1. ASSUME NEW w \in Windows, NEW size \in Sizes, NEW limit \in Limits,
             Commit(w, size, limit)
      PROVE  LimitsKept'
  <2>1. limit[2] = 0 \/ limit[1] <= limit[2]
    BY WaylandAssumption
  <2>2. \A v \in Windows : limits'[v] = IF v = w THEN limit ELSE limits[v]
    BY <1>1 DEF TypeOK, Commit
  <2> QED
    BY <2>1, <2>2 DEF LimitsKept
<1>2. CASE UNCHANGED limits
  BY <1>2 DEF LimitsKept
<1> QED
  BY <1>1, <1>2
    DEF Next, Client, User, vars, clients, NewToplevel, Destroy, MoveRequest, ResizeRequest,
        Motion, Press, Release, Redraw

\* The size that a pointer asks for is an integer, and within the limits.
LEMMA Target_Size ==
  ASSUME TypeOK, grab.kind = "resize", NEW p \in Int
  PROVE  /\ Target(p) \in Int
         /\ LimitsKept => Within(limits[grab.window], Target(p))
<1>1. /\ grab.initial \in Nat /\ grab.start \in Int /\ grab.window \in Windows
  BY DEF TypeOK, Grabs, NoGrab
<1>2. Growth(p) \in Int
  <2>1. grab.start - p \in Int /\ p - grab.start \in Int
    BY <1>1
  <2> QED
    BY <2>1, Pixels DEF Growth
<1>3. limits[grab.window][1] \in Nat /\ limits[grab.window][2] \in Nat
  BY <1>1 DEF TypeOK
<1>4. LimitsKept => \/ limits[grab.window][2] = 0
                    \/ limits[grab.window][1] <= limits[grab.window][2]
  BY <1>1 DEF LimitsKept
<1> HIDE DEF Growth
<1> QED
  BY <1>1, <1>2, <1>3, <1>4 DEF Target, Clamp, Within

LEMMA Activated_States ==
  ASSUME TypeOK, NEW w \in Windows
  PROVE  Activated(w) \in [Windows -> States]
<1> DEFINE Active(v) == [pending[v] EXCEPT !.activated = (v = w)]
<1>1. ASSUME NEW v \in Windows
      PROVE  Active(v) \in States /\ pending[v] \in States
  <2>1. pending[v] \in States /\ (v = w) \in BOOLEAN
    BY DEF TypeOK
  <2> QED
    BY <2>1 DEF States
<1> HIDE DEF Active
<1>2. Activated(w) = [v \in Windows |-> IF v \in space \cup {w} THEN Active(v) ELSE pending[v]]
  BY DEF Activated, Active
<1> QED
  BY <1>1, <1>2

LEMMA Hits_Focusable ==
  ASSUME TypeOK, NEW p \in Int, NEW w \in Hits(p)
  PROVE  w \in Focusable
  BY DEF TypeOK, Hits, Topmost, Focusable

LEMMA Type_MoveTo ==
  ASSUME TypeOK, grab.kind = "move", NEW p \in Places, MoveTo(p)
  PROVE  /\ space' \subseteq Windows /\ above' \subseteq space' \X space' /\ Stacked'
         /\ loc' \in [Windows -> Int] /\ pending' \in [Windows -> States]
<1>1. grab.window \in Windows /\ grab.initial \in Int /\ grab.start \in Int
  BY DEF TypeOK, Grabs, NoGrab
<1>2. loc' \in [Windows -> Int]
  <2>1. grab.initial * Fine + (p - grab.start) \in Int
    BY <1>1, WaylandAssumption
  <2> QED
    BY <2>1, Pixels DEF TypeOK, MoveTo
<1>3. pending' \in [Windows -> States]
  BY <1>1, Activated_States DEF MoveTo
<1> QED
  BY <1>1, <1>2, <1>3, OnTop_Stacked DEF TypeOK, MoveTo

LEMMA Type_ResizeTo ==
  ASSUME TypeOK, grab.kind = "resize", NEW p \in Places, ResizeTo(p)
  PROVE  /\ pending' \in [Windows -> States] /\ sent' \in [Windows -> States]
         /\ grab' \in Grabs
<1>1. Target(p) \in Int
  BY Target_Size, WaylandAssumption
<1>2. grab.window \in Windows
  BY DEF TypeOK, Grabs, NoGrab
<1>3. pending' \in [Windows -> States]
  BY <1>1, <1>2, States_Update DEF TypeOK, ResizeTo
<1>4. sent' \in [Windows -> States]
  BY <1>2, <1>3, Sent_Update DEF TypeOK, ResizeTo
<1>5. grab' \in Grabs
  BY <1>1 DEF TypeOK, ResizeTo, Grabs, NoGrab
<1> QED
  BY <1>3, <1>4, <1>5

LEMMA Type_Motion ==
  ASSUME TypeOK, NEW p \in Places, Motion(p)
  PROVE  TypeOK'
<1>1. p \in Int
  BY WaylandAssumption
<1>2. under' \in Focusable
  BY <1>1, Hits_Focusable DEF Motion
<1>3. NoGrab \in Grabs
  BY DEF Grabs
<1>4. InForce # NoGrab => InForce = grab
  BY InForce_Grab
<1>5. CASE InForce.kind = "none"
  BY <1>2, <1>3, <1>5 DEF TypeOK, Motion, desktop, clients, Stacked, Focusable
<1>6. CASE InForce.kind = "click"
  <2>1. grab.focus \in Focusable
    BY <1>4, <1>6 DEF TypeOK, Grabs, NoGrab
  <2> QED
    BY <1>2, <1>6, <2>1 DEF TypeOK, Motion, desktop, clients, Stacked, Focusable
<1>7. CASE InForce.kind = "move"
  <2>1. grab.kind = "move" /\ MoveTo(p) /\ focus' = None
    BY <1>4, <1>7 DEF Motion, NoGrab
  <2> QED
    BY <1>2, <2>1, Type_MoveTo DEF TypeOK, Motion, MoveTo, clients, Focusable
<1>8. CASE InForce.kind = "resize"
  <2>1. grab.kind = "resize" /\ ResizeTo(p) /\ focus' = None
    BY <1>4, <1>8 DEF Motion, NoGrab
  <2> QED
    BY <1>2, <2>1, Type_ResizeTo DEF TypeOK, Motion, ResizeTo, clients, Stacked, Focusable
<1>9. InForce.kind \in {"none", "click", "move", "resize"}
  BY InForce_Grab DEF TypeOK, Grabs, NoGrab
<1> QED
  BY <1>5, <1>6, <1>7, <1>8, <1>9

\* What `button` of a grab does to the state that windows are sent.
LEMMA Type_GrabButton ==
  ASSUME TypeOK, InForce # NoGrab, GrabButton
  PROVE  /\ pending' \in [Windows -> States] /\ sent' \in [Windows -> States]
         /\ surface' \in [Windows -> {"Idle", "Resizing", "WaitingForFinalCommit"}]
         /\ grab' \in Grabs /\ focus' \in Focusable
<1>1. grab' \in Grabs /\ focus' \in Focusable
  BY DEF TypeOK, GrabButton, Unset, Grabs
<1>2. CASE FinishResize /\ grab.kind = "resize"
  <2>1. grab.window \in Windows /\ grab.target \in Int
    BY <1>2 DEF TypeOK, Grabs, NoGrab
  <2>2. pending' \in [Windows -> States]
    BY <1>2, <2>1, States_Update DEF TypeOK, FinishResize
  <2>3. sent' \in [Windows -> States]
    BY <1>2, <2>1, <2>2, Sent_Update DEF TypeOK, FinishResize
  <2> QED
    BY <1>1, <1>2, <2>1, <2>2, <2>3 DEF TypeOK, FinishResize
<1>3. CASE UNCHANGED <<pending, sent, surface>>
  BY <1>1, <1>3 DEF TypeOK
<1> QED
  BY <1>2, <1>3 DEF GrabButton

LEMMA TellAll_States ==
  ASSUME TypeOK, pending' \in [Windows -> States], TellAll
  PROVE  sent' \in [Windows -> States]
BY DEF TypeOK, TellAll

\* A press while there is no grab changes at most which windows are active.
LEMMA Press_Pending ==
  ASSUME TypeOK, NEW b \in Buttons, Press(b), grab.kind = "none", NEW v \in Windows
  PROVE  pending'[v].size = pending[v].size /\ pending'[v].resizing = pending[v].resizing
<1>1. PICK w \in Hits(pointer) : IF w = None THEN ClickNothing ELSE ClickWindow(w)
  BY DEF Press
<1>2. pending[v] \in States
  BY DEF TypeOK
<1>3. CASE ClickNothing
  BY <1>2, <1>3 DEF States, ClickNothing
<1>4. CASE ClickWindow(w)
  BY <1>2, <1>4 DEF States, ClickWindow, Activated
<1> QED
  BY <1>1, <1>3, <1>4

LEMMA Type_Press ==
  ASSUME TypeOK, NEW b \in Buttons, Press(b)
  PROVE  TypeOK'
<1>1. /\ serial' \in Serials /\ serial' \in 0 .. MaxPresses /\ released' \in 0 .. serial'
      /\ pressed' \subseteq Buttons
  <2>1. serial' = serial + 1 /\ serial < MaxPresses /\ released' = released
    BY DEF Press
  <2>2. pressed' = pressed \cup {b}
    BY DEF Press
  <2> QED
    BY <2>1, <2>2, WaylandAssumption DEF TypeOK, Serials
<1>frame. UNCHANGED <<owner, life, shown, limits, loc, pointer, under>>
  BY DEF Press, clients
<1>2. pointer \in Int
  BY WaylandAssumption DEF TypeOK
<1>3. Click(serial') \in Grabs
  BY <1>1, <1>2 DEF TypeOK, Click, Grabs
<1>4. CASE grab.kind = "none"
  <2>1. grab' = Click(serial') /\ UNCHANGED <<surface, focus>>
    BY <1>4 DEF Press
  <2>2. PICK w \in Hits(pointer) : IF w = None THEN ClickNothing ELSE ClickWindow(w)
    BY <1>4 DEF Press
  <2>3. CASE w = None
    <3>1. ClickNothing
      BY <2>2, <2>3
    <3>2. ASSUME NEW v \in Windows
          PROVE  [pending[v] EXCEPT !.activated = FALSE] \in States /\ pending[v] \in States
      <4>1. pending[v] \in States
        BY DEF TypeOK
      <4> QED
        BY <4>1 DEF States
    <3>3. pending' \in [Windows -> States]
      BY <3>1, <3>2 DEF ClickNothing
    <3>4. sent' \in [Windows -> States]
      BY <3>1, <3>3, TellAll_States DEF ClickNothing
    <3> QED
      BY <1>frame, <1>1, <1>3, <2>1, <3>1, <3>3, <3>4 DEF TypeOK, ClickNothing, Stacked, Focusable
  <2>4. CASE w # None
    <3>1. ClickWindow(w) /\ w \in Windows
      BY <1>2, <2>2, <2>4, Hits_Focusable DEF Focusable
    <3>2. pending' \in [Windows -> States]
      BY <3>1, Activated_States DEF ClickWindow
    <3>3. sent' \in [Windows -> States]
      BY <3>1, <3>2, TellAll_States DEF ClickWindow
    <3>4. space' \subseteq Windows /\ above' \subseteq space' \X space' /\ Stacked'
      BY <3>1, OnTop_Stacked DEF TypeOK, ClickWindow
    <3> QED
      BY <1>frame, <1>1, <1>3, <2>1, <3>1, <3>2, <3>3, <3>4 DEF TypeOK, ClickWindow, Focusable
  <2> QED
    BY <2>3, <2>4
<1>5. CASE grab.kind # "none" /\ InForce = NoGrab
  <2>1. grab' = Click(serial') /\ UNCHANGED <<space, above, pending, sent, surface, focus, keyboard>>
    BY <1>5 DEF Press
  <2> QED
    BY <1>frame, <1>1, <1>3, <2>1 DEF TypeOK, Stacked, Focusable
<1>6. CASE grab.kind # "none" /\ InForce # NoGrab
  <2>1. GrabButton /\ UNCHANGED <<space, above, keyboard>>
    BY <1>6 DEF Press
  <2> QED
    BY <1>frame, <1>1, <1>6, <2>1, Type_GrabButton DEF TypeOK, Stacked, Focusable
<1> QED
  BY <1>4, <1>5, <1>6

LEMMA Type_Release ==
  ASSUME TypeOK, NEW b \in Buttons, Release(b)
  PROVE  TypeOK'
<1>1. released' \in 0 .. serial /\ serial' = serial /\ pressed' \subseteq Buttons
  BY DEF TypeOK, Release
<1>2. CASE InForce = NoGrab
  <2>1. grab' \in Grabs
    BY <1>2 DEF Release, Grabs
  <2> QED
    BY <1>1, <1>2, <2>1 DEF TypeOK, Release, clients, Stacked, Focusable
<1>3. CASE InForce # NoGrab
  <2>1. GrabButton
    BY <1>3 DEF Release
  <2> QED
    BY <1>1, <1>3, <2>1, Type_GrabButton DEF TypeOK, Release, clients, Stacked, Focusable
<1> QED
  BY <1>2, <1>3

LEMMA Type_Redraw ==
  ASSUME TypeOK, Redraw
  PROVE  TypeOK'
<1>1. space' \subseteq space /\ above' \subseteq space' \X space'
  BY DEF TypeOK, Redraw
<1>2. Stacked'
  BY DEF TypeOK, Redraw, Stacked
<1> QED
  BY <1>1, <1>2 DEF TypeOK, Redraw, clients, seat, Focusable

LEMMA Type_Stutter == TypeOK /\ UNCHANGED vars => TypeOK'
  BY DEF TypeOK, vars, clients, desktop, seat, Stacked

\* The values of the variables: AquariWM as a compositor never leaves them.
THEOREM Wayland_TypeOK == Spec => []TypeOK
<1>1. Init => TypeOK
  BY TypeOK_Init
<1>2. TypeOK /\ [Next]_vars => TypeOK'
  <2> SUFFICES ASSUME TypeOK, [Next]_vars PROVE TypeOK'
    OBVIOUS
  <2>1. ASSUME NEW w \in Windows, Client(w) PROVE TypeOK'
    BY <2>1, Type_NewToplevel, Type_Destroy, Type_Commit, Type_MoveRequest, Type_ResizeRequest
      DEF Client
  <2>2. CASE User
    BY <2>2, Type_Motion, Type_Press, Type_Release DEF User
  <2> QED
    BY <2>1, <2>2, Type_Redraw, Type_Stutter DEF Next
<1> QED
  BY <1>1, <1>2, PTL DEF Spec

-----------------------------------------------------------------------------
(* A request finds its window, and a grab is held.                         *)

\* A client whose window is alive finds it in the space when it asks to move or to
\* resize it: the two calls of `unwrap` cannot fail.
THEOREM Wayland_RequestsFindTheirWindow == Spec => []RequestsFindTheirWindow
<1>1. Init => RequestsFindTheirWindow
  BY DEF Init, RequestsFindTheirWindow, Alive
<1>2. TypeOK /\ RequestsFindTheirWindow /\ [Next]_vars => RequestsFindTheirWindow'
  <2> SUFFICES ASSUME TypeOK, RequestsFindTheirWindow, [Next]_vars
               PROVE  RequestsFindTheirWindow'
    OBVIOUS
  <2> USE DEF RequestsFindTheirWindow, Alive
  <2>1. ASSUME NEW w \in Windows, NewToplevel(w) PROVE RequestsFindTheirWindow'
    BY <2>1 DEF TypeOK, NewToplevel, OnTop
  <2>2. ASSUME NEW w \in Windows, Destroy(w) PROVE RequestsFindTheirWindow'
    BY <2>2 DEF TypeOK, Destroy, desktop
  <2>3. ASSUME NEW w \in Windows, NEW size \in Sizes, NEW limit \in Limits, Commit(w, size, limit)
        PROVE  RequestsFindTheirWindow'
    BY <2>3 DEF Commit, desktop
  <2>4. ASSUME NEW w \in Windows, NEW s \in 1 .. serial, MoveRequest(w, s)
        PROVE  RequestsFindTheirWindow'
    BY <2>4 DEF MoveRequest, clients, desktop
  <2>5. ASSUME NEW w \in Windows, NEW s \in 1 .. serial, NEW edge \in Edges,
               ResizeRequest(w, s, edge)
        PROVE  RequestsFindTheirWindow'
    BY <2>5 DEF ResizeRequest, clients
  <2>6. ASSUME NEW p \in Places, Motion(p) PROVE RequestsFindTheirWindow'
    BY <2>6 DEF Motion, MoveTo, ResizeTo, OnTop, clients, desktop
  <2>7. ASSUME NEW b \in Buttons, Press(b) PROVE RequestsFindTheirWindow'
    <3>1. space \subseteq space'
      BY <2>7 DEF Press, ClickNothing, ClickWindow, OnTop
    <3> QED
      BY <2>7, <3>1 DEF Press, clients
  <2>8. ASSUME NEW b \in Buttons, Release(b) PROVE RequestsFindTheirWindow'
    BY <2>8 DEF Release, clients
  <2>9. CASE Redraw
    BY <2>9 DEF Redraw, clients
  <2>10. CASE UNCHANGED vars
    BY <2>10 DEF vars, clients, desktop
  <2> QED
    BY <2>1, <2>2, <2>3, <2>4, <2>5, <2>6, <2>7, <2>8, <2>9, <2>10 DEF Next, Client, User
<1> QED
  BY <1>1, <1>2, Wayland_TypeOK, PTL DEF Spec

\* What `button` makes of a grab that is in force.
LEMMA GrabButton_Grab ==
  ASSUME TypeOK, InForce # NoGrab, GrabButton
  PROVE  \/ grab' = NoGrab
         \/ grab' = grab /\ (pressed' # {} \/ grab.kind = "none")
BY InForce_Grab DEF GrabButton, Unset

\* A grab lasts no longer than some button is down since the press that it began
\* with, and a late request is given nothing.
LEMMA GrabIsHeld_Step ==
  ASSUME TypeOK, GrabIsHeld, [Next]_vars
  PROVE  GrabIsHeld'
<1>1. ASSUME NEW w \in Windows, NEW s \in 1 .. serial, Asks(w, s), grab'.serial = s,
             UNCHANGED <<pressed, serial, released>>
      PROVE  GrabIsHeld'
  BY <1>1, Granted DEF GrabIsHeld
<1>2. ASSUME NEW w \in Windows, NEW s \in 1 .. serial, MoveRequest(w, s) PROVE GrabIsHeld'
  BY <1>1, <1>2 DEF MoveRequest, Move
<1>3. ASSUME NEW w \in Windows, NEW s \in 1 .. serial, NEW edge \in Edges,
             ResizeRequest(w, s, edge)
      PROVE  GrabIsHeld'
  BY <1>1, <1>3 DEF ResizeRequest, Resize
<1>4. ASSUME NEW p \in Places, Motion(p) PROVE GrabIsHeld'
  <2>1. UNCHANGED <<pressed, serial, released>>
    BY <1>4 DEF Motion
  <2>2. CASE grab' \in {grab, NoGrab}
    BY <2>1, <2>2 DEF GrabIsHeld, NoGrab
  <2>3. CASE InForce.kind = "resize" /\ ResizeTo(p)
    <3>1. grab.kind = "resize"
      BY <2>3, InForce_Grab DEF NoGrab
    <3>2. grab'.kind = grab.kind /\ grab'.serial = grab.serial
      BY <2>3, <3>1 DEF TypeOK, ResizeTo, Grabs, NoGrab
    <3> QED
      BY <2>1, <3>2 DEF GrabIsHeld
  <2> QED
    BY <1>4, <2>2, <2>3 DEF Motion, MoveTo
<1>5. ASSUME NEW b \in Buttons, Press(b) PROVE GrabIsHeld'
  <2>1. pressed' # {} /\ released' = released /\ serial' = serial + 1
    BY <1>5 DEF Press
  <2>2. grab' \in {Click(serial'), grab, NoGrab}
    BY <1>5, GrabButton_Grab DEF Press
  <2>3. serial \in Nat /\ released \in 0 .. serial
    BY DEF TypeOK
  <2>4. CASE grab' = Click(serial')
    BY <2>1, <2>3, <2>4 DEF GrabIsHeld, Click
  <2>5. CASE grab' = grab /\ grab.kind # "none"
    <3>1. grab.serial \in Int
      BY <2>5 DEF TypeOK, Grabs, Serials, NoGrab
    <3> QED
      BY <2>1, <2>3, <2>5, <3>1 DEF GrabIsHeld
  <2>6. CASE grab'.kind = "none"
    BY <2>6 DEF GrabIsHeld
  <2> QED
    BY <2>2, <2>4, <2>5, <2>6 DEF NoGrab
<1>6. ASSUME NEW b \in Buttons, Release(b) PROVE GrabIsHeld'
  <2>1. CASE InForce = NoGrab
    BY <1>6, <2>1 DEF Release, GrabIsHeld, NoGrab
  <2>2. CASE InForce # NoGrab
    <3>1. GrabButton /\ serial' = serial /\ (pressed' # {} => released' = released)
      BY <1>6, <2>2 DEF Release
    <3> QED
      BY <2>2, <3>1, GrabButton_Grab DEF GrabIsHeld, NoGrab
  <2> QED
    BY <2>1, <2>2
<1>7. CASE UNCHANGED seat
  BY <1>7 DEF seat, GrabIsHeld
<1> QED
  BY <1>2, <1>3, <1>4, <1>5, <1>6, <1>7
    DEF Next, Client, User, vars, NewToplevel, Destroy, Commit, Redraw

THEOREM Wayland_GrabIsHeld == Spec => []GrabIsHeld
<1>1. Init => GrabIsHeld
  BY DEF Init, GrabIsHeld, NoGrab
<1> QED
  BY <1>1, GrabIsHeld_Step, Wayland_TypeOK, PTL DEF Spec

-----------------------------------------------------------------------------
(* A window that is resized is the one that is grabbed.                    *)

\* The press that began a grab went to a surface of the client that asked for it.
GrabOfOneClient ==
  grab.kind \in {"move", "resize"}
    => grab.focus \in Windows /\ owner[grab.focus] = owner[grab.window]

LEMMA GrabOfOneClient_Step ==
  ASSUME TypeOK, GrabOfOneClient, [Next]_vars
  PROVE  GrabOfOneClient'
<1>1. ASSUME NEW w \in Windows, NEW s \in 1 .. serial, Asks(w, s),
             grab'.focus = grab.focus, grab'.window = w, owner' = owner
      PROVE  GrabOfOneClient'
  <2>1. grab.focus \in Windows /\ owner[grab.focus] = owner[w]
    BY <1>1, Granted DEF Asks, CheckGrab, Focusable
  <2> QED
    BY <1>1, <2>1 DEF GrabOfOneClient
<1>2. ASSUME NEW w \in Windows, NEW s \in 1 .. serial, MoveRequest(w, s) PROVE GrabOfOneClient'
  BY <1>1, <1>2 DEF MoveRequest, Move, clients
<1>3. ASSUME NEW w \in Windows, NEW s \in 1 .. serial, NEW edge \in Edges,
             ResizeRequest(w, s, edge)
      PROVE  GrabOfOneClient'
  BY <1>1, <1>3 DEF ResizeRequest, Resize, clients
<1>4. ASSUME NEW p \in Places, Motion(p) PROVE GrabOfOneClient'
  <2>1. owner' = owner
    BY <1>4 DEF Motion, clients
  <2>2. CASE grab' \in {grab, NoGrab}
    BY <2>1, <2>2 DEF GrabOfOneClient, NoGrab
  <2>3. CASE InForce.kind = "resize" /\ ResizeTo(p)
    <3>1. grab.kind = "resize"
      BY <2>3, InForce_Grab DEF NoGrab
    <3>2. grab'.focus = grab.focus /\ grab'.window = grab.window
      BY <2>3, <3>1 DEF TypeOK, ResizeTo, Grabs, NoGrab
    <3> QED
      BY <2>1, <3>1, <3>2 DEF GrabOfOneClient
  <2> QED
    BY <1>4, <2>2, <2>3 DEF Motion, MoveTo
<1>5. ASSUME NEW b \in Buttons, Press(b) \/ Release(b) PROVE GrabOfOneClient'
  <2>1. owner' = owner
    BY <1>5 DEF Press, Release, clients
  <2>2. grab' \in {grab, NoGrab} \/ grab'.kind = "click"
    BY <1>5 DEF Press, Release, GrabButton, Unset, Click
  <2> QED
    BY <2>1, <2>2 DEF GrabOfOneClient, NoGrab
<1>6. CASE UNCHANGED <<owner, grab>>
  BY <1>6 DEF GrabOfOneClient
<1> QED
  BY <1>2, <1>3, <1>4, <1>5, <1>6
    DEF Next, Client, User, vars, clients, seat, NewToplevel, Destroy, Commit, Redraw

\* Whatever the pointer meets was created.
Met(w) == w = None \/ life[w] # "unborn"
AllMet ==
  /\ \A w \in space : Met(w)
  /\ Met(under) /\ Met(focus)
  /\ grab.kind # "none" => Met(grab.focus)
  /\ grab.kind \in {"move", "resize"} => Met(grab.window)

LEMMA AllMet_Step ==
  ASSUME TypeOK, AllMet, [Next]_vars
  PROVE  AllMet'
<1>1. ASSUME NEW w \in Windows, NewToplevel(w) PROVE AllMet'
  BY <1>1 DEF TypeOK, Focusable, NewToplevel, OnTop, seat, AllMet, Met
<1>2. ASSUME NEW w \in Windows, Destroy(w) PROVE AllMet'
  BY <1>2 DEF TypeOK, Focusable, Destroy, desktop, seat, AllMet, Met
<1>3. ASSUME NEW w \in Windows, NEW size \in Sizes, NEW limit \in Limits, Commit(w, size, limit) PROVE AllMet'
  BY <1>3 DEF Commit, desktop, seat, AllMet, Met
<1>4. ASSUME NEW w \in Windows, NEW s \in 1 .. serial, MoveRequest(w, s) PROVE AllMet'
  BY <1>4, Granted DEF MoveRequest, Move, Asks, Alive, clients, desktop, AllMet, Met
<1>5. ASSUME NEW w \in Windows, NEW s \in 1 .. serial, NEW edge \in Edges,
             ResizeRequest(w, s, edge)
      PROVE  AllMet'
  BY <1>5, Granted DEF ResizeRequest, Resize, Asks, Alive, clients, AllMet, Met
<1>6. ASSUME NEW p, NEW w \in Hits(p) PROVE Met(w)
  BY <1>6 DEF Hits, Topmost, AllMet, Met
<1>7. ASSUME NEW p \in Places, Motion(p) PROVE AllMet'
  <2>1. life' = life /\ Met(under)'
    BY <1>6, <1>7 DEF Motion, clients, Met
  <2>2. CASE InForce.kind = "none" /\ grab' = NoGrab /\ focus' = under' /\ UNCHANGED desktop
    BY <2>1, <2>2 DEF AllMet, Met, NoGrab, desktop
  <2>3. CASE InForce.kind = "click" /\ focus' = grab.focus /\ UNCHANGED <<grab, desktop>>
    BY <2>1, <2>3, InForce_Grab DEF AllMet, Met, NoGrab, desktop
  <2>4. CASE InForce.kind = "move" /\ focus' = None /\ MoveTo(p)
    <3>1. Met(grab.window)
      BY <2>4, InForce_Grab DEF AllMet, NoGrab
    <3> QED
      BY <2>1, <2>4, <3>1 DEF AllMet, Met, MoveTo, OnTop
  <2>5. CASE InForce.kind = "resize" /\ focus' = None /\ ResizeTo(p)
    <3>1. grab.kind = "resize"
      BY <2>5, InForce_Grab DEF NoGrab
    <3>2. grab'.focus = grab.focus /\ grab'.window = grab.window
      BY <2>5, <3>1 DEF TypeOK, ResizeTo, Grabs, NoGrab
    <3> QED
      BY <2>1, <2>5, <3>1, <3>2 DEF AllMet, Met, ResizeTo
  <2> QED
    BY <1>7, <2>2, <2>3, <2>4, <2>5 DEF Motion
<1>8. ASSUME NEW b \in Buttons, Press(b) PROVE AllMet'
  <2>1. life' = life /\ under' = under
    BY <1>8 DEF Press, clients
  <2>2. \A w \in space' : Met(w)
    BY <1>6, <1>8 DEF Press, ClickNothing, ClickWindow, OnTop, AllMet
  <2>3. focus' \in {focus, under}
    BY <1>8 DEF Press, GrabButton, Unset
  <2>4. grab' \in {Click(serial'), grab, NoGrab}
    BY <1>8 DEF Press, GrabButton, Unset
  <2> QED
    BY <2>1, <2>2, <2>3, <2>4 DEF AllMet, Met, Click, NoGrab
<1>9. ASSUME NEW b \in Buttons, Release(b) PROVE AllMet'
  <2>1. UNCHANGED <<life, space, under>> /\ focus' \in {focus, under} /\ grab' \in {grab, NoGrab}
    BY <1>9 DEF Release, GrabButton, Unset, clients
  <2> QED
    BY <2>1 DEF AllMet, Met, NoGrab
<1>10. CASE Redraw
  BY <1>10 DEF Redraw, clients, seat, AllMet, Met
<1>11. CASE UNCHANGED vars
  BY <1>11 DEF vars, clients, desktop, seat, AllMet, Met
<1> QED
  BY <1>1, <1>2, <1>3, <1>4, <1>5, <1>7, <1>8, <1>9, <1>10, <1>11 DEF Next, Client, User

\* A window that is to be resized, by AquariWM or by its client.
Resizing(w) == surface[w] = "Resizing" \/ pending[w].resizing \/ sent[w].resizing

\* What excuses it: its grab is gone with the window that was clicked.
Strayed(w) == \E v \in Windows \ {w} : owner[v] = owner[w] /\ life[v] = "dead"

\* A step that leaves the grab of a resize, and makes no window resize, keeps the
\* invariant.
LEMMA Resizing_Kept ==
  ASSUME ResizingIsGrabbed, owner' = owner, life' = life,
         \A w \in Windows : Resizing(w)' => Resizing(w),
         grab.kind = "resize" => grab'.kind = "resize" /\ grab'.window = grab.window
  PROVE  ResizingIsGrabbed'
BY DEF ResizingIsGrabbed, Resizing, Alive

\* A grab that is dropped was of a window that is gone, or excused.
LEMMA Resizing_Dropped ==
  ASSUME TypeOK, GrabOfOneClient, AllMet, ResizingIsGrabbed, InForce # grab,
         owner' = owner, life' = life,
         \A w \in Windows : Resizing(w)' => Resizing(w)
  PROVE  ResizingIsGrabbed'
<1>1. grab.kind # "none" /\ grab.focus # None /\ ~Alive(grab.focus)
  BY DEF InForce, NoGrab
<1> SUFFICES ASSUME NEW w \in Windows, Alive(w), Resizing(w), ~Strayed(w)
             PROVE  FALSE
  BY DEF ResizingIsGrabbed, Resizing, Strayed, Alive
<1>2. grab.kind = "resize" /\ grab.window = w
  BY DEF ResizingIsGrabbed, Resizing, Strayed
<1>3. grab.focus \in Windows /\ owner[grab.focus] = owner[w]
  BY <1>2 DEF GrabOfOneClient
<1> QED
  BY <1>1, <1>2, <1>3 DEF TypeOK, AllMet, Met, Strayed, Alive

LEMMA Resizing_Request ==
  ASSUME TypeOK, ResizingIsGrabbed, ~Regrabs,
         NEW w \in Windows, NEW s \in 1 .. serial,
         MoveRequest(w, s) \/ \E edge \in Edges : ResizeRequest(w, s, edge)
  PROVE  ResizingIsGrabbed'
<1>1. grab.kind = "click"
  BY DEF MoveRequest, ResizeRequest, Asks
<1>2. owner' = owner /\ life' = life
  BY DEF MoveRequest, ResizeRequest, clients
<1>3. CASE MoveRequest(w, s)
  <2>1. UNCHANGED <<surface, pending, sent>>
    BY <1>3 DEF MoveRequest, desktop
  <2> QED
    BY <1>1, <1>2, <2>1 DEF ResizingIsGrabbed, Alive
<1>4. ASSUME NEW edge \in Edges, ResizeRequest(w, s, edge) PROVE ResizingIsGrabbed'
  <2>1. grab'.kind = "resize" /\ grab'.window = w
    BY <1>4 DEF ResizeRequest, Resize
  <2>2. ASSUME NEW v \in Windows \ {w} PROVE UNCHANGED <<surface[v], pending[v], sent[v]>>
    BY <1>4, <2>2 DEF TypeOK, ResizeRequest
  <2> QED
    BY <1>1, <1>2, <2>1, <2>2 DEF ResizingIsGrabbed, Alive
<1> QED
  BY <1>3, <1>4

LEMMA Resizing_Motion ==
  ASSUME TypeOK, AllMet, GrabOfOneClient, ResizingIsGrabbed, NEW p \in Places, Motion(p)
  PROVE  ResizingIsGrabbed'
<1>1. owner' = owner /\ life' = life
  BY DEF Motion, clients
<1>2. CASE InForce.kind = "none"
  <2>1. UNCHANGED <<surface, pending, sent>> /\ grab' = NoGrab
    BY <1>2 DEF Motion, desktop
  <2>2. CASE InForce = grab
    BY <1>1, <1>2, <2>1, <2>2 DEF ResizingIsGrabbed, Alive
  <2>3. CASE InForce # grab
    BY <1>1, <2>1, <2>3, Resizing_Dropped DEF Resizing
  <2> QED
    BY <2>2, <2>3
<1>3. CASE InForce.kind = "click"
  <2>1. UNCHANGED <<surface, pending, sent, grab>>
    BY <1>3 DEF Motion, desktop
  <2> QED
    BY <1>1, <2>1, Resizing_Kept DEF Resizing
<1>4. CASE InForce.kind = "move"
  <2>1. grab.kind = "move" /\ MoveTo(p)
    BY <1>4, InForce_Grab DEF Motion, NoGrab
  <2>2. ASSUME NEW v \in Windows PROVE pending'[v].resizing = pending[v].resizing
    BY <2>1 DEF TypeOK, States, MoveTo, Activated
  <2>3. UNCHANGED <<surface, sent, grab>>
    BY <2>1 DEF MoveTo
  <2> QED
    BY <1>1, <2>2, <2>3, Resizing_Kept DEF Resizing
<1>5. CASE InForce.kind = "resize"
  <2>1. grab.kind = "resize" /\ ResizeTo(p)
    BY <1>5, InForce_Grab DEF Motion, NoGrab
  <2>2. grab'.kind = "resize" /\ grab'.window = grab.window
    BY <2>1 DEF TypeOK, ResizeTo, Grabs, NoGrab
  <2>3. ASSUME NEW v \in Windows \ {grab.window} PROVE UNCHANGED <<surface[v], pending[v], sent[v]>>
    BY <2>1, <2>3 DEF TypeOK, ResizeTo
  <2> QED
    BY <1>1, <2>1, <2>2, <2>3 DEF ResizingIsGrabbed, Alive
<1> QED
  BY <1>2, <1>3, <1>4, <1>5 DEF Motion

\* The button that ends a resize tells the client.
LEMMA Resizing_Button ==
  ASSUME TypeOK, ResizingIsGrabbed, InForce # NoGrab, GrabButton, owner' = owner, life' = life
  PROVE  ResizingIsGrabbed'
<1>1. CASE grab.kind = "resize" /\ FinishResize
  <2>1. grab.window \in Windows
    BY <1>1 DEF TypeOK, Grabs, NoGrab
  <2>2. ASSUME NEW v \in Windows \ {grab.window} PROVE UNCHANGED <<surface[v], pending[v], sent[v]>>
    BY <1>1, <2>2 DEF TypeOK, FinishResize
  <2>3. ~pending'[grab.window].resizing /\ surface'[grab.window] # "Resizing"
    BY <1>1, <2>1 DEF TypeOK, States, FinishResize
  <2>4. ~sent'[grab.window].resizing
    BY <1>1, <2>1, <2>3 DEF TypeOK, FinishResize
  <2> QED
    BY <1>1, <2>1, <2>2, <2>3, <2>4 DEF ResizingIsGrabbed, Alive
<1>2. CASE grab.kind # "resize" /\ UNCHANGED <<pending, sent, surface>>
  BY <1>2 DEF ResizingIsGrabbed, Alive
<1>3. CASE grab' = grab /\ UNCHANGED <<pending, sent, surface>>
  BY <1>3 DEF ResizingIsGrabbed, Alive
<1> QED
  BY <1>1, <1>2, <1>3 DEF GrabButton

LEMMA Resizing_Press ==
  ASSUME TypeOK, AllMet, GrabOfOneClient, ResizingIsGrabbed, NEW b \in Buttons, Press(b)
  PROVE  ResizingIsGrabbed'
<1>1. owner' = owner /\ life' = life
  BY DEF Press, clients
<1>2. CASE grab.kind = "none"
  <2>1. surface' = surface /\ TellAll
    BY <1>2 DEF Press, ClickNothing, ClickWindow
  <2>2. ASSUME NEW v \in Windows PROVE pending'[v].resizing = pending[v].resizing
    BY <1>2, Press_Pending
  <2>3. ASSUME NEW v \in Windows, sent'[v].resizing PROVE sent[v].resizing \/ pending[v].resizing
    BY <2>1, <2>2, <2>3 DEF TellAll
  <2> QED
    BY <1>1, <1>2, <2>1, <2>2, <2>3, Resizing_Kept DEF Resizing
<1>3. CASE grab.kind # "none" /\ InForce = NoGrab
  <2>1. UNCHANGED <<pending, sent, surface>> /\ InForce # grab
    BY <1>3 DEF Press, NoGrab
  <2> QED
    BY <1>1, <2>1, Resizing_Dropped DEF Resizing
<1>4. CASE grab.kind # "none" /\ InForce # NoGrab
  BY <1>1, <1>4, Resizing_Button DEF Press
<1> QED
  BY <1>2, <1>3, <1>4

LEMMA Resizing_Release ==
  ASSUME TypeOK, AllMet, GrabOfOneClient, ResizingIsGrabbed, NEW b \in Buttons, Release(b)
  PROVE  ResizingIsGrabbed'
<1>1. owner' = owner /\ life' = life
  BY DEF Release, clients
<1>2. CASE InForce = NoGrab
  <2>1. UNCHANGED <<pending, sent, surface>> /\ grab' = NoGrab
    BY <1>2 DEF Release
  <2>2. CASE InForce = grab
    BY <1>1, <1>2, <2>1, <2>2, Resizing_Kept DEF Resizing, NoGrab
  <2>3. CASE InForce # grab
    BY <1>1, <2>1, <2>3, Resizing_Dropped DEF Resizing
  <2> QED
    BY <2>2, <2>3
<1>3. CASE InForce # NoGrab
  BY <1>1, <1>3, Resizing_Button DEF Release
<1> QED
  BY <1>2, <1>3

\* No window is resized before it is created.
Untouched == \A w \in Windows : life[w] = "unborn" => ~Resizing(w)

\* Only a client that asks, or a pointer that resizes, makes a window resize.
LEMMA Resizing_Begins ==
  ASSUME TypeOK, [Next]_vars, NEW v \in Windows, Resizing(v)', ~Resizing(v)
  PROVE  Alive(v) \/ (grab.kind = "resize" /\ grab.window = v)
<1>1. SUFFICES ASSUME ~(UNCHANGED <<surface[v], pending[v], sent[v]>>),
                      ~Alive(v), ~(grab.kind = "resize" /\ grab.window = v)
               PROVE  FALSE
  BY DEF Resizing
<1>2. ASSUME NEW w \in Windows, NEW s \in 1 .. serial, NEW edge \in Edges,
             ResizeRequest(w, s, edge)
      PROVE  FALSE
  <2>1. w # v
    BY <1>1, <1>2 DEF ResizeRequest, Asks
  <2> QED
    BY <1>1, <1>2, <2>1 DEF TypeOK, ResizeRequest
<1>3. ASSUME NEW w \in Windows, Client(w) PROVE FALSE
  BY <1>1, <1>2, <1>3
    DEF Client, NewToplevel, Destroy, Commit, MoveRequest, desktop
<1>4. ASSUME NEW p \in Places, Motion(p) PROVE FALSE
  <2>1. CASE grab.kind = "resize" /\ ResizeTo(p)
    BY <1>1, <2>1 DEF TypeOK, ResizeTo
  <2>2. CASE MoveTo(p)
    <3>1. pending'[v].resizing = pending[v].resizing
      BY <2>2 DEF TypeOK, States, MoveTo, Activated
    <3> QED
      BY <2>2, <3>1 DEF MoveTo, Resizing
  <2>3. CASE UNCHANGED desktop
    BY <1>1, <2>3 DEF desktop
  <2> QED
    BY <1>4, <2>1, <2>2, <2>3, InForce_Grab DEF Motion, NoGrab
<1>5. CASE GrabButton
  <2>1. CASE grab.kind = "resize" /\ FinishResize
    BY <1>1, <2>1 DEF TypeOK, FinishResize
  <2> QED
    BY <1>1, <1>5, <2>1 DEF GrabButton
<1>6. ASSUME NEW b \in Buttons, Press(b) PROVE FALSE
  <2>1. CASE surface' = surface /\ TellAll /\ \E w : ClickNothing \/ ClickWindow(w)
    <3>1. pending'[v].resizing = pending[v].resizing
      BY <2>1 DEF TypeOK, States, ClickNothing, ClickWindow, Activated
    <3>2. sent'[v].resizing => sent[v].resizing \/ pending[v].resizing
      BY <2>1, <3>1 DEF TellAll
    <3> QED
      BY <2>1, <3>1, <3>2 DEF Resizing
  <2>2. CASE UNCHANGED <<pending, sent, surface>>
    BY <1>1, <2>2
  <2> QED
    BY <1>5, <1>6, <2>1, <2>2 DEF Press, ClickNothing, ClickWindow
<1>7. ASSUME NEW b \in Buttons, Release(b) PROVE FALSE
  BY <1>1, <1>5, <1>7 DEF Release
<1>8. CASE UNCHANGED <<pending, sent, surface>>
  BY <1>1, <1>8
<1> QED
  BY <1>3, <1>4, <1>6, <1>7, <1>8 DEF Next, User, Redraw, vars, desktop

LEMMA Untouched_Step ==
  ASSUME TypeOK, AllMet, Untouched, [Next]_vars
  PROVE  Untouched'
<1> SUFFICES ASSUME NEW v \in Windows, life'[v] = "unborn", Resizing(v)'
             PROVE  FALSE
  BY DEF Untouched, Resizing
<1>1. life[v] = "unborn"
  BY DEF TypeOK, Next, Client, User, vars, clients, NewToplevel, Destroy, Commit,
         MoveRequest, ResizeRequest, Motion, Press, Release, Redraw
<1>2. ~Resizing(v) /\ ~Alive(v)
  BY <1>1 DEF Untouched, Alive
<1>3. grab.kind = "resize" /\ grab.window = v
  BY <1>2, Resizing_Begins
<1> QED
  BY <1>1, <1>3, WaylandAssumption DEF AllMet, Met

LEMMA Resizing_Client ==
  ASSUME TypeOK, ResizingIsGrabbed, Untouched, ~Regrabs, NEW w \in Windows, Client(w)
  PROVE  ResizingIsGrabbed'
<1>1. CASE NewToplevel(w)
  <2>1. UNCHANGED <<owner, surface, pending, sent, grab>>
    BY <1>1 DEF NewToplevel, seat
  <2>2. ~Resizing(w)
    BY <1>1 DEF NewToplevel, Untouched
  <2>3. \A v \in Windows \ {w} : life'[v] = life[v]
    BY <1>1 DEF TypeOK, NewToplevel
  <2>4. \A v \in Windows : life[v] = "dead" => life'[v] = "dead"
    BY <1>1 DEF TypeOK, NewToplevel
  <2> QED
    BY <2>1, <2>2, <2>3, <2>4 DEF ResizingIsGrabbed, Resizing, Alive
<1>2. CASE Destroy(w)
  <2>1. UNCHANGED <<owner, surface, pending, sent, grab>>
    BY <1>2 DEF Destroy, desktop, seat
  <2>2. \A v \in Windows : /\ life'[v] = "alive" => life[v] = "alive"
                           /\ life[v] = "dead" => life'[v] = "dead"
    BY <1>2 DEF TypeOK, Destroy
  <2> QED
    BY <2>1, <2>2 DEF ResizingIsGrabbed, Alive
<1>3. ASSUME NEW size \in Sizes, NEW limit \in Limits, Commit(w, size, limit) PROVE ResizingIsGrabbed'
  BY <1>3 DEF Commit, desktop, seat, ResizingIsGrabbed, Alive
<1> QED
  BY <1>1, <1>2, <1>3, Resizing_Request DEF Client

LEMMA Resizing_Step ==
  ASSUME TypeOK, AllMet, GrabOfOneClient, Untouched, ResizingIsGrabbed, ~Regrabs, [Next]_vars
  PROVE  ResizingIsGrabbed'
<1>1. CASE UNCHANGED <<owner, life, surface, pending, sent, grab>>
  BY <1>1 DEF ResizingIsGrabbed, Alive
<1> QED
  BY <1>1, Resizing_Client, Resizing_Motion, Resizing_Press, Resizing_Release
    DEF Next, User, Redraw, vars, clients, desktop, seat

\* Of clients that ask once within a grab: a window that is taken to be resized is
\* the one that the pointer is resizing, or the clicked window of its client is gone.
THEOREM Wayland_ResizingIsGrabbed == ~Regrabs => (Spec => []ResizingIsGrabbed)
<1> DEFINE Inv == AllMet /\ GrabOfOneClient /\ Untouched /\ ResizingIsGrabbed
<1> SUFFICES ASSUME ~Regrabs PROVE Spec => []ResizingIsGrabbed
  OBVIOUS
<1>1. Init => Inv
  BY DEF Init, AllMet, Met, GrabOfOneClient, Untouched, Resizing, ResizingIsGrabbed, Alive,
         NoGrab, Plain, NotSent
<1>2. TypeOK /\ Inv /\ [Next]_vars => Inv'
  BY AllMet_Step, GrabOfOneClient_Step, Untouched_Step, Resizing_Step
<1>3. Inv => ResizingIsGrabbed
  OBVIOUS
<1> QED
  BY <1>1, <1>2, <1>3, Wayland_TypeOK, PTL DEF Spec

-----------------------------------------------------------------------------
(* The sizes that clients are asked for.                                   *)

\* What a window is to be sent has no size that it was not sent, and a resize aims at the
\* size it began with or at the one that it asked for last.
SizesAsked ==
  /\ \A w \in Windows : pending[w].size \in {0, sent[w].size}
  /\ grab.kind = "resize" => grab.target \in {grab.initial, sent[grab.window].size}

\* A new size is within the limits, or the one that the resize began with.
Allowed(w) ==
  sent'[w].size \notin {0, sent[w].size} =>
    \/ Within(limits[w], sent'[w].size)
    \/ /\ grab.kind = "resize" /\ grab.window = w /\ grab'.kind = "none"
       /\ sent'[w].size = grab.initial

\* To tell a window what it is to be sent is no new size, unless its size changes.
LEMMA Sizes_Told ==
  ASSUME SizesAsked, NEW v \in Windows, pending'[v].size = pending[v].size,
         sent'[v] \in {pending'[v], sent[v]}
  PROVE  pending'[v].size \in {0, sent'[v].size} /\ Allowed(v)
BY DEF SizesAsked, Allowed

\* The state of one window changes, to one with another size, and it is told.
LEMMA Sizes_New ==
  ASSUME TypeOK, SizesAsked, NEW w \in Windows, NEW resizing, NEW size,
         pending' = [pending EXCEPT ![w].resizing = resizing, ![w].size = size],
         sent' = [sent EXCEPT ![w] = pending'[w]],
         \/ Within(limits[w], size)
         \/ size = sent[w].size
         \/ grab.kind = "resize" /\ grab.window = w /\ grab'.kind = "none" /\ size = grab.initial,
         NEW v \in Windows
  PROVE  /\ pending'[v].size \in {0, sent'[v].size} /\ Allowed(v)
         /\ sent'[w].size = size
<1>1. pending'[w].size = size /\ sent'[w] = pending'[w]
  BY DEF TypeOK, States
<1>2. CASE v = w
  BY <1>1, <1>2 DEF Allowed
<1>3. CASE v # w
  <2>1. pending'[v] = pending[v] /\ sent'[v] = sent[v]
    BY <1>3 DEF TypeOK
  <2> QED
    BY <1>1, <2>1, Sizes_Told
<1> QED
  BY <1>2, <1>3

LEMMA Sizes_Step ==
  ASSUME TypeOK, LimitsKept, SizesAsked, [Next]_vars
  PROVE  SizesAsked' /\ \A w \in Windows : Allowed(w)
<1> DEFINE Goal == SizesAsked' /\ \A w \in Windows : Allowed(w)
           Each == \A v \in Windows : pending'[v].size \in {0, sent'[v].size} /\ Allowed(v)
<1>1. ASSUME UNCHANGED <<pending, sent>>, grab' = grab \/ grab'.kind # "resize" PROVE Goal
  BY <1>1 DEF SizesAsked, Allowed
<1>2. ASSUME Each, grab'.kind = "resize" => grab'.target \in {grab'.initial, sent'[grab'.window].size}
      PROVE  Goal
  BY <1>2 DEF SizesAsked
<1> HIDE DEF Goal
<1>3. ASSUME NEW w \in Windows, NEW s \in 1 .. serial, NEW edge \in Edges,
             ResizeRequest(w, s, edge)
      PROVE  Goal
  <2>1. ASSUME NEW v \in Windows
        PROVE  pending'[v].size = pending[v].size /\ sent'[v] \in {pending'[v], sent[v]}
    BY <1>3 DEF TypeOK, States, ResizeRequest
  <2>2. grab'.target = grab'.initial
    BY <1>3 DEF ResizeRequest, Resize
  <2> QED
    BY <1>2, <2>1, <2>2, Sizes_Told
<1>4. ASSUME NEW p \in Places, Motion(p) PROVE Goal
  <2>1. CASE UNCHANGED desktop /\ grab' \in {grab, NoGrab}
    BY <1>1, <2>1 DEF desktop, NoGrab
  <2>2. CASE grab.kind = "move" /\ MoveTo(p)
    <3>1. \A v \in Windows : pending'[v].size = pending[v].size
      BY <2>2 DEF TypeOK, States, MoveTo, Activated
    <3>2. sent' = sent /\ grab' = grab
      BY <2>2 DEF MoveTo
    <3> QED
      BY <1>2, <2>2, <3>1, <3>2, Sizes_Told
  <2>3. CASE grab.kind = "resize" /\ ResizeTo(p)
    <3>1. grab.window \in Windows /\ Within(limits[grab.window], Target(p))
      BY <2>3, Target_Size, WaylandAssumption DEF TypeOK, Grabs, NoGrab
    <3>2. grab'.window = grab.window /\ grab'.target = Target(p)
      BY <2>3 DEF TypeOK, ResizeTo, Grabs, NoGrab
    <3>3. /\ pending' = [pending EXCEPT ![grab.window].resizing = TRUE,
                                       ![grab.window].size = Target(p)]
          /\ sent' = [sent EXCEPT ![grab.window] = pending'[grab.window]]
      BY <2>3 DEF ResizeTo
    <3>4. ASSUME NEW v \in Windows
          PROVE  /\ pending'[v].size \in {0, sent'[v].size} /\ Allowed(v)
                 /\ sent'[grab.window].size = Target(p)
      <4> DEFINE w == grab.window
                 t == Target(p)
      <4>1. w \in Windows /\ Within(limits[w], t)
        BY <3>1
      <4>2. /\ pending' = [pending EXCEPT ![w].resizing = TRUE, ![w].size = t]
            /\ sent' = [sent EXCEPT ![w] = pending'[w]]
        BY <3>3
      <4> HIDE DEF w, t
      <4>3. /\ pending'[v].size \in {0, sent'[v].size} /\ Allowed(v)
            /\ sent'[w].size = t
        BY <4>1, <4>2, Sizes_New
      <4> QED
        BY <4>3 DEF w, t
    <3>5. Each /\ sent'[grab.window].size = Target(p)
      BY <3>1, <3>4
    <3> QED
      BY <1>2, <3>2, <3>5
  <2> QED
    BY <1>4, <2>1, <2>2, <2>3, InForce_Grab DEF Motion, NoGrab
<1>5. ASSUME GrabButton PROVE Goal
  <2>1. CASE grab.kind = "resize" /\ FinishResize /\ grab' = NoGrab
    <3>1. grab.window \in Windows /\ grab.target \in {grab.initial, sent[grab.window].size}
      BY <2>1 DEF TypeOK, Grabs, NoGrab, SizesAsked
    <3>2. grab'.kind = "none"
      BY <2>1 DEF NoGrab
    <3>3. Each
      BY <2>1, <3>1, <3>2, Sizes_New DEF FinishResize
    <3> QED
      BY <1>2, <3>2, <3>3
  <2> QED
    BY <1>1, <1>5, <2>1 DEF GrabButton, Unset, NoGrab
<1>6. ASSUME NEW b \in Buttons, Press(b) PROVE Goal
  <2>1. CASE grab.kind = "none"
    <3>1. TellAll /\ grab'.kind # "resize"
      BY <1>6, <2>1 DEF Press, ClickNothing, ClickWindow, Click
    <3>2. ASSUME NEW v \in Windows PROVE pending'[v].size = pending[v].size
      BY <1>6, <2>1, Press_Pending
    <3>3. \A v \in Windows : sent'[v] \in {pending'[v], sent[v]}
      BY <3>1 DEF TellAll
    <3> QED
      BY <1>2, <3>1, <3>2, <3>3, Sizes_Told
  <2>2. CASE grab' = Click(serial') /\ UNCHANGED <<pending, sent>>
    BY <1>1, <2>2 DEF Click
  <2> QED
    BY <1>5, <1>6, <2>1, <2>2 DEF Press
<1>7. ASSUME NEW b \in Buttons, Release(b) PROVE Goal
  <2>1. CASE grab' = NoGrab /\ UNCHANGED <<pending, sent>>
    BY <1>1, <2>1 DEF NoGrab
  <2> QED
    BY <1>5, <1>7, <2>1 DEF Release
<1>8. ASSUME NEW w \in Windows, Client(w) PROVE Goal
  <2>1. ASSUME NEW s \in 1 .. serial, MoveRequest(w, s) PROVE Goal
    BY <1>1, <2>1 DEF MoveRequest, Move, desktop
  <2>2. CASE \/ NewToplevel(w) \/ Destroy(w)
             \/ \E size \in Sizes, limit \in Limits : Commit(w, size, limit)
    <3>1. UNCHANGED <<pending, sent, grab>>
      BY <2>2 DEF NewToplevel, Destroy, Commit, desktop, seat
    <3> QED
      BY <1>1, <3>1
  <2> QED
    BY <1>3, <1>8, <2>1, <2>2 DEF Client
<1>9. ASSUME Redraw \/ UNCHANGED vars PROVE Goal
  <2>1. UNCHANGED <<pending, sent, grab>>
    BY <1>9 DEF Redraw, vars, clients, desktop, seat
  <2> QED
    BY <1>1, <2>1
<1>10. ASSUME User PROVE Goal
  BY <1>4, <1>6, <1>7, <1>10 DEF User
<1>11. Goal
  BY <1>8, <1>9, <1>10 DEF Next
<1> QED
  BY <1>11 DEF Goal

\* No window is asked for a new size outside of the limits that its client has stated by
\* then, but for the one with which a resize began: whatever the limits are, whenever
\* they change, and however far the pointer goes.
THEOREM Wayland_SizesAreAllowed == Spec => SizesAreAllowed
<1>1. Init => LimitsKept /\ SizesAsked
  BY DEF Init, LimitsKept, SizesAsked, Plain, NotSent, NoGrab
<1>2. TypeOK /\ LimitsKept /\ SizesAsked /\ [Next]_vars
        => LimitsKept' /\ SizesAsked' /\ [\A w \in Windows : Allowed(w)]_vars
  BY LimitsKept_Step, Sizes_Step
<1>3. Spec => [][\A w \in Windows : Allowed(w)]_vars
  BY <1>1, <1>2, Wayland_TypeOK, PTL DEF Spec
<1> QED
  BY <1>3 DEF SizesAreAllowed, Allowed

-----------------------------------------------------------------------------
(* The steps that the pointer drags a window by.                           *)

LEMMA Wayland_AllMet == Spec => []AllMet
<1>1. Init => AllMet
  BY DEF Init, AllMet, Met, NoGrab
<1> QED
  BY <1>1, AllMet_Step, Wayland_TypeOK, PTL DEF Spec

\* A grab that moves a window goes on as it is, or ends; without a second request.
LEMMA Move_Goes_On ==
  ASSUME TypeOK, ~Regrabs, [Next]_vars, grab.kind = "move", grab'.kind = "move"
  PROVE  grab' = grab
BY DEF Next, Client, User, vars, clients, seat, NewToplevel, Destroy, Commit, MoveRequest,
       ResizeRequest, Asks, Resize, Motion, InForce, MoveTo, NoGrab, Press, Release, GrabButton,
       Unset, Click, Redraw

LEMMA Follows_Step ==
  ASSUME TypeOK, AllMet, ~Regrabs, [Next]_vars, grab.kind = "move", grab'.kind = "move",
         Follows \/ pointer' # pointer
  PROVE  Follows'
<1> DEFINE Stays == loc'[grab.window] = loc[grab.window] /\ pointer' = pointer
<1>1. grab' = grab
  BY Move_Goes_On
<1>2. /\ grab.window \in Windows /\ grab.initial \in Int /\ grab.start \in Int
      /\ Fine \in Int
  BY <1>1, WaylandAssumption DEF TypeOK, Grabs, NoGrab
<1>3. ASSUME NEW p \in Places, Motion(p) PROVE pointer' = p /\ MoveTo(p)
  BY <1>1, <1>3, InForce_Grab DEF Motion, InForce, NoGrab, ResizeTo
<1>4. ASSUME NEW p \in Places, pointer' = p, MoveTo(p)
      PROVE  Follows'
  <2> DEFINE d == grab.initial * Fine + (p - grab.start)
  <2>1. p \in Int /\ d \in Int
    BY <1>2, WaylandAssumption
  <2>2. loc'[grab.window] = Round(d)
    BY <1>2, <1>4 DEF TypeOK, MoveTo
  <2>3. /\ Round(d) \in Int /\ Round(d) * Fine \in Int /\ grab.initial * Fine \in Int
        /\ 2 * (Round(d) * Fine - d) <= Fine /\ 2 * (Round(d) * Fine - d) >= -Fine
    BY <1>2, <2>1, Pixels
  <2>4. (Round(d) - grab.initial) * Fine = Round(d) * Fine - grab.initial * Fine
    BY <1>2, <2>3
  <2>5. Off' = Round(d) * Fine - d
    <3>1. Off' = (Round(d) - grab.initial) * Fine - (p - grab.start)
      BY <1>1, <1>4, <2>2 DEF Off
    <3> HIDE DEF Off
    <3> QED
      BY <1>2, <2>1, <2>3, <2>4, <3>1
  <2> HIDE DEF d, Off
  <2> QED
    BY <1>1, <2>3, <2>5 DEF Follows
<1>5. ASSUME NEW w \in Windows, NewToplevel(w) PROVE Stays
  <2>1. w # grab.window
    BY <1>1, <1>5, WaylandAssumption DEF NewToplevel, AllMet, Met
  <2> QED
    BY <1>5, <2>1 DEF TypeOK, NewToplevel, seat
<1>6. CASE Stays
  BY <1>1, <1>6 DEF Follows, Off
<1>7. CASE \E p \in Places : pointer' = p /\ MoveTo(p)
  BY <1>4, <1>7
<1>8. CASE User
  <2>1. CASE \E p \in Places : Motion(p)
    BY <1>3, <1>7, <2>1
  <2>2. CASE \E b \in Buttons : Press(b) \/ Release(b)
    BY <1>6, <2>2 DEF Press, Release
  <2> QED
    BY <1>8, <2>1, <2>2 DEF User
<1>9. ASSUME NEW w \in Windows, Client(w) PROVE Stays
  BY <1>5, <1>9
    DEF Client, Destroy, Commit, MoveRequest, ResizeRequest, desktop, seat
<1>10. CASE Redraw \/ UNCHANGED vars
  BY <1>6, <1>10 DEF Redraw, vars, desktop, seat
<1> HIDE DEF Stays
<1> QED
  BY <1>6, <1>8, <1>9, <1>10 DEF Next

\* Of clients that ask once within a grab: a window that is moved stays under the pointer
\* to half a pixel, wherever they are and however finely the pointer moves.
THEOREM Wayland_MovesWithThePointer == ~Regrabs => (Spec => MovesWithThePointer)
<1> SUFFICES ASSUME ~Regrabs PROVE Spec => MovesWithThePointer
  OBVIOUS
<1>1. TypeOK /\ AllMet /\ [Next]_vars
        => [grab.kind = "move" /\ grab'.kind = "move" /\ (Follows \/ pointer' # pointer)
              => Follows']_vars
  BY Follows_Step
<1> QED
  BY <1>1, Wayland_TypeOK, Wayland_AllMet, PTL DEF Spec, MovesWithThePointer

-----------------------------------------------------------------------------
(* The active window, and the keys.                                        *)

\* Only a click, or a grab that moves a window, changes which windows are active.
LEMMA Activity ==
  ASSUME TypeOK, [Next]_vars
  PROVE  \/ \A v \in Windows : pending'[v].activated = pending[v].activated
         \/ grab.kind = "move" /\ \E p \in Places : MoveTo(p) /\ UNCHANGED <<life, keyboard>>
         \/ ClickNothing /\ life' = life
         \/ \E w \in Hits(pointer) : w # None /\ ClickWindow(w) /\ life' = life
<1> DEFINE Same == \A v \in Windows : pending'[v].activated = pending[v].activated
<1>1. ASSUME NEW w \in Windows, Client(w) PROVE Same
  BY <1>1 DEF Client, NewToplevel, Destroy, Commit, MoveRequest, ResizeRequest, TypeOK, States,
              desktop
<1>2. ASSUME UNCHANGED pending PROVE Same
  BY <1>2
<1>3. ASSUME GrabButton PROVE Same
  <2>1. CASE FinishResize
    <3>1. PICK w : pending' = [pending EXCEPT ![w].resizing = FALSE, ![w].size = grab.target]
      BY <2>1 DEF FinishResize
    <3>2. pending \in [Windows -> States]
      BY DEF TypeOK
    <3> QED
      BY <3>1, <3>2 DEF States
  <2> QED
    BY <1>2, <1>3, <2>1 DEF GrabButton
<1>4. ASSUME NEW p \in Places, Motion(p)
      PROVE  \/ Same
             \/ grab.kind = "move" /\ MoveTo(p) /\ UNCHANGED <<life, keyboard>>
  <2>1. CASE ResizeTo(p)
    BY <2>1 DEF ResizeTo, TypeOK, States
  <2> QED
    BY <1>2, <1>4, <2>1, InForce_Grab DEF Motion, desktop, clients, NoGrab
<1> HIDE DEF Same
<1>5. ASSUME NEW b \in Buttons, Press(b)
      PROVE  \/ Same
             \/ ClickNothing /\ life' = life
             \/ \E w \in Hits(pointer) : w # None /\ ClickWindow(w) /\ life' = life
  <2>1. CASE grab.kind = "none"
    BY <1>5, <2>1 DEF Press, clients
  <2>2. CASE grab.kind # "none"
    BY <1>2, <1>3, <1>5, <2>2 DEF Press
  <2> QED
    BY <2>1, <2>2
<1>6. ASSUME NEW b \in Buttons, Release(b) PROVE Same
  BY <1>2, <1>3, <1>6 DEF Release
<1>7. CASE User
  <2>1. CASE \E p \in Places : Motion(p)
    BY <1>4, <2>1 DEF Same
  <2>2. CASE \E b \in Buttons : Press(b) \/ Release(b)
    BY <1>5, <1>6, <2>2 DEF Same
  <2> QED
    BY <1>7, <2>1, <2>2 DEF User
<1> QED
  BY <1>1, <1>2, <1>7 DEF Next, Redraw, vars, desktop, Same

\* No window is active before it is created.
Unclicked == \A w \in Windows : life[w] = "unborn" => ~pending[w].activated

LEMMA Unclicked_Step ==
  ASSUME TypeOK, AllMet, Unclicked, [Next]_vars
  PROVE  Unclicked'
<1>1. \A v \in Windows : life'[v] = "unborn" => life[v] = "unborn"
  BY DEF TypeOK, Next, Client, User, vars, clients, NewToplevel, Destroy, Commit,
         MoveRequest, ResizeRequest, Motion, Press, Release, Redraw
<1>2. ASSUME NEW v \in Windows, life[v] = "unborn"
      PROVE  /\ v \notin space /\ ~pending[v].activated
             /\ grab.kind = "move" => v # grab.window
             /\ \A p : v \notin Hits(p)
  BY <1>2, WaylandAssumption DEF AllMet, Met, Unclicked, Hits, Topmost
<1> SUFFICES ASSUME NEW v \in Windows, life[v] = "unborn" PROVE ~pending'[v].activated
  BY <1>1 DEF Unclicked
<1>3. CASE \E p \in Places : grab.kind = "move" /\ MoveTo(p)
  BY <1>2, <1>3 DEF MoveTo, Activated
<1>4. CASE ClickNothing
  BY <1>2, <1>4 DEF ClickNothing
<1>5. CASE \E w \in Hits(pointer) : ClickWindow(w)
  BY <1>2, <1>5 DEF ClickWindow, Activated
<1> QED
  BY <1>2, <1>3, <1>4, <1>5, Activity

\* The windows of the space, and the keys, change by a click or with the space.
LEMMA Keys_Step ==
  ASSUME TypeOK, AllMet, Unclicked, ActiveHasTheKeys, [Next]_vars
  PROVE  ActiveHasTheKeys' \/ (grab.kind = "move" /\ grab.window # keyboard)
<1>1. ASSUME NEW w \in Windows, NEW v \in Windows, pending' = Activated(w), space' = space \cup {w},
             v \in space', pending'[v].activated
      PROVE  v = w
  BY <1>1 DEF TypeOK, States, Activated
<1>2. CASE grab.kind = "move" /\ \E p \in Places : MoveTo(p) /\ UNCHANGED <<life, keyboard>>
  <2>1. grab.window \in Windows /\ space' = space \cup {grab.window} /\ pending' = Activated(grab.window)
    BY <1>2 DEF TypeOK, Grabs, NoGrab, MoveTo, OnTop
  <2> QED
    BY <1>1, <1>2, <2>1 DEF ActiveHasTheKeys
<1>3. CASE ClickNothing
  BY <1>3 DEF TypeOK, States, ClickNothing, ActiveHasTheKeys
<1>4. CASE \E w \in Hits(pointer) : w # None /\ ClickWindow(w)
  <2>1. PICK w \in Hits(pointer) : w # None /\ ClickWindow(w)
    BY <1>4
  <2>2. w \in Windows
    BY <2>1, Hits_Focusable, WaylandAssumption DEF TypeOK, Focusable
  <2>3. keyboard' = w /\ space' = space \cup {w} /\ pending' = Activated(w)
    BY <2>1 DEF ClickWindow, OnTop
  <2> QED
    BY <1>1, <2>2, <2>3 DEF ActiveHasTheKeys
<1>5. CASE /\ \A v \in Windows : pending'[v].activated = pending[v].activated
           /\ keyboard' = keyboard
           /\ \A v \in space' \ space : ~pending[v].activated
  BY <1>5 DEF ActiveHasTheKeys
<1>6. ASSUME NEW w \in Windows, NewToplevel(w) PROVE ActiveHasTheKeys'
  <2>1. space' = space \cup {w} /\ UNCHANGED <<pending, keyboard>> /\ ~pending[w].activated
    BY <1>6 DEF NewToplevel, OnTop, seat, Unclicked
  <2> QED
    BY <2>1 DEF ActiveHasTheKeys
<1>7. ASSUME \A v \in Windows : pending'[v].activated = pending[v].activated,
             ~ \E w \in Windows : NewToplevel(w), ~ClickNothing,
             ~ \E w \in Hits(pointer) : w # None /\ ClickWindow(w),
             ~(grab.kind = "move" /\ \E p \in Places : MoveTo(p) /\ UNCHANGED <<life, keyboard>>)
      PROVE  keyboard' = keyboard /\ space' \subseteq space
  <2>1. ASSUME NEW p \in Places, Motion(p) PROVE UNCHANGED <<keyboard, space>>
    BY <1>7, <2>1, InForce_Grab DEF Motion, ResizeTo, desktop, clients, NoGrab
  <2>2. ASSUME NEW b \in Buttons, Press(b) PROVE UNCHANGED <<keyboard, space>>
    BY <1>7, <2>2 DEF Press
  <2> QED
    BY <1>7, <2>1, <2>2 DEF Next, Client, User, Destroy, Commit, MoveRequest, ResizeRequest,
       Release, Redraw, vars, clients, desktop, seat
<1> QED
  BY <1>2, <1>3, <1>4, <1>5, <1>6, <1>7, Activity

\* While the window shown as active gets the keys, only moving a window that was not
\* clicked parts the two.
THEOREM Wayland_ActivatedByAClickOrAMove == Spec => ActivatedByAClickOrAMove
<1>1. Init => Unclicked
  BY DEF Init, Unclicked, Plain
<1>2. TypeOK /\ AllMet /\ Unclicked /\ [Next]_vars
        => [ActiveHasTheKeys => \/ ActiveHasTheKeys'
                                \/ grab.kind = "move" /\ grab.window # keyboard]_vars
  BY Keys_Step
<1> QED
  BY <1>1, <1>2, Unclicked_Step, Wayland_TypeOK, Wayland_AllMet, PTL
    DEF Spec, ActivatedByAClickOrAMove

-----------------------------------------------------------------------------
(* Dragging, as it is promised.                                            *)

\* What becomes of the dragged window when a button's event is handled.
LEMMA Drags_Hold ==
  ASSUME UNCHANGED <<life, loc>>, grab' \in {grab, NoGrab} \/ grab'.kind \in {"click", "resize"},
         GrabIsHeld'
  PROVE  Drags!Hold
<1>1. Dragged' \in {Dragged, None} /\ (pressed' # {} \/ Dragged' = None)
  BY DEF Dragged, GrabIsHeld, NoGrab
<1> QED
  BY <1>1 DEF Drags!Hold, Alive

LEMMA Drags_Step ==
  ASSUME TypeOK, GrabIsHeld, GrabIsHeld', [Next]_vars
  PROVE  [Drags!Next]_<<pressed # {}, Dragged, {w \in Windows : Alive(w)}, loc>>
<1>1. ASSUME NEW w \in Windows, NewToplevel(w) PROVE Drags!Appear(w)
  BY <1>1 DEF TypeOK, NewToplevel, seat, Drags!Appear, Dragged, Alive
<1>2. ASSUME NEW w \in Windows, Destroy(w) PROVE Drags!Vanish(w)
  BY <1>2 DEF TypeOK, Destroy, desktop, seat, Drags!Vanish, Dragged, Alive
<1>3. ASSUME NEW w \in Windows, NEW s \in 1 .. serial, MoveRequest(w, s) PROVE Drags!Take(w)
  <2>1. grab.kind # "none" /\ pressed' = pressed /\ UNCHANGED <<life, loc>> /\ Dragged' = w
    BY <1>3, Granted DEF MoveRequest, Move, clients, desktop, Dragged
  <2> QED
    BY <2>1 DEF GrabIsHeld, Drags!Take, Alive
<1>4. ASSUME NEW w \in Windows, NEW s \in 1 .. serial, NEW edge \in Edges,
             ResizeRequest(w, s, edge)
      PROVE  Drags!Hold
  BY <1>4, Drags_Hold DEF ResizeRequest, Resize, clients
<1>5. ASSUME NEW p \in Places, Motion(p) PROVE Drags!Hold \/ Drags!Drag
  <2>1. UNCHANGED <<life, pressed>>
    BY <1>5 DEF Motion, clients
  <2>2. CASE UNCHANGED desktop /\ grab' \in {grab, NoGrab}
    BY <2>1, <2>2, Drags_Hold DEF desktop
  <2>3. CASE grab.kind = "move" /\ MoveTo(p)
    <3>1. Dragged = grab.window /\ grab.window \in Windows /\ Dragged' = Dragged
      BY <2>3 DEF TypeOK, Grabs, NoGrab, Dragged, MoveTo
    <3>2. \A v \in Windows \ {grab.window} : loc'[v] = loc[v]
      BY <2>3 DEF TypeOK, MoveTo
    <3> QED
      BY <2>1, <2>3, <3>1, <3>2, WaylandAssumption DEF GrabIsHeld, Drags!Drag, Alive
  <2>4. CASE grab.kind = "resize" /\ ResizeTo(p)
    <3>1. loc' = loc /\ grab'.kind = "resize"
      BY <2>4 DEF TypeOK, ResizeTo, Grabs, NoGrab
    <3> QED
      BY <2>1, <3>1, Drags_Hold
  <2> QED
    BY <1>5, <2>2, <2>3, <2>4, InForce_Grab DEF Motion, NoGrab
<1>6. ASSUME NEW b \in Buttons, Press(b) \/ Release(b) PROVE Drags!Hold
  <2>1. UNCHANGED <<life, loc>>
    BY <1>6 DEF Press, Release, clients
  <2>2. grab' \in {grab, NoGrab} \/ grab'.kind = "click"
    BY <1>6 DEF Press, Release, GrabButton, Unset, Click
  <2> QED
    BY <2>1, <2>2, Drags_Hold
<1>7. CASE UNCHANGED <<pressed, grab, life, loc>>
  BY <1>7 DEF Dragged, Alive
<1> QED
  BY <1>1, <1>2, <1>3, <1>4, <1>5, <1>6, <1>7
    DEF Next, Client, User, vars, clients, desktop, seat, Commit, Redraw, Drags!Next

\* The compositor implements what is promised of dragging.
THEOREM Wayland_DragsAsPromised == Spec => DragsAsPromised
<1>1. Init => Drags!Init
  BY DEF Init, Drags!Init, Dragged, NoGrab, Alive
<1>2. TypeOK /\ GrabIsHeld /\ GrabIsHeld' /\ [Next]_vars
        => [Drags!Next]_<<pressed # {}, Dragged, {w \in Windows : Alive(w)}, loc>>
  BY Drags_Step
<1> QED
  BY <1>1, <1>2, Wayland_TypeOK, Wayland_GrabIsHeld, PTL DEF Spec, DragsAsPromised, Drags!Spec

=============================================================================
