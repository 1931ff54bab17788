------------------------------ MODULE Wayland ------------------------------
(***************************************************************************)
(* AquariWM as a Wayland compositor (src/src/display_server/wayland.rs and *)
(* wayland/): its toplevels in smithay's space, the seat's pointer and     *)
(* keyboard focus, and the grabs with which windows are moved and resized. *)
(* Clients and the user act beside it; each of their requests and events   *)
(* is handled by one callback of a single event loop.                      *)
(*                                                                         *)
(* The two axes are handled alike and independently: one is modelled.  A   *)
(* surface is its toplevel; there are no subsurfaces and no popups.        *)
(***************************************************************************)
EXTENDS Integers

CONSTANTS
  Windows,            \* the toplevels there can be
  None,               \* no window
  Owners,             \* the ways in which clients may own them
  Fine,               \* the positions of the pointer there are to a pixel
  Places,             \* where the pointer can be, counted in those
  Sizes,              \* the sizes a client may give its window
  Limits,             \* the <<least, most>> sizes it may state; 0 is no limit
  Buttons, Primary,   \* the buttons of the pointer
  Edges,              \* what a client asks to resize, of the set below
  MaxPresses,         \* how many times a button is pressed
  Regrabs             \* whether a client asks twice within one grab

EdgesThereAre == {"left", "right", "neither"}

ASSUME WaylandAssumption ==
  /\ None \notin Windows
  /\ Fine \in Nat \ {0}
  /\ Places \subseteq Int /\ 0 \in Places
  /\ Sizes \subseteq Nat \ {0}
  /\ Limits \subseteq {limit \in Nat \X Nat : limit[2] = 0 \/ limit[1] <= limit[2]}
  /\ Primary \in Buttons
  /\ Edges \subseteq EdgesThereAre
  /\ MaxPresses \in Nat
  /\ Regrabs \in BOOLEAN

VARIABLES
  \* The clients.
  owner,              \* the client of each toplevel
  life,               \* "unborn", "alive" or "dead"
  shown, limits,      \* the size and the limits that each last committed; 0 if none
  \* AquariWM.
  space, above,       \* the windows of the space, and which is above which
  loc,                \* where each is
  pending, sent,      \* the state each is to be given, and the last it was sent
  surface,            \* the state of each one's resize, of ResizeSurfaceState
  \* The seat.
  pointer, pressed,   \* where the pointer is, and the buttons that are down
  under,              \* the window that was under it when it last moved
  focus, keyboard,    \* the windows with the focus of the pointer, of the keyboard
  grab,               \* who gets the pointer's events
  serial,             \* that of the last press
  released            \* ghost: that of the last press before all buttons were up

clients == <<owner, life, shown, limits>>
desktop == <<space, above, loc, pending, sent, surface>>
seat == <<pointer, pressed, under, focus, keyboard, grab, serial, released>>
vars == <<clients, desktop, seat>>

Alive(w) == life[w] = "alive"

\* A configure tells the whole state; size 0 leaves it to the client.
NotSent == [activated |-> FALSE, resizing |-> FALSE, size |-> -1]
Plain == [activated |-> FALSE, resizing |-> FALSE, size |-> 0]

NoGrab == [kind |-> "none"]

\* A grab has the start data of the press that began it: what it went to, where.
Click(s) == [kind |-> "click", serial |-> s, focus |-> focus, start |-> pointer]
Move(w, s) ==
  [kind |-> "move", serial |-> s, focus |-> grab.focus, start |-> grab.start,
   window |-> w, initial |-> loc[w]]
Resize(w, s, edge) ==
  [kind |-> "resize", serial |-> s, focus |-> grab.focus, start |-> grab.start,
   window |-> w, edge |-> edge, initial |-> shown[w], target |-> shown[w]]

Init ==
  /\ owner \in Owners
  /\ life = [w \in Windows |-> "unborn"]
  /\ shown = [w \in Windows |-> 0] /\ limits = [w \in Windows |-> <<0, 0>>]
  /\ space = {} /\ above = {}
  /\ loc = [w \in Windows |-> 0]
  /\ pending = [w \in Windows |-> Plain]
  /\ sent = [w \in Windows |-> NotSent]
  /\ surface = [w \in Windows |-> "Idle"]
  /\ pointer = 0 /\ pressed = {}
  /\ under = None /\ focus = None /\ keyboard = None
  /\ grab = NoGrab
  /\ serial = 0 /\ released = 0

-----------------------------------------------------------------------------
(* The space.                                                              *)

\* Slip: the window stays below those that were above it, too.
OnTopOfAll(w) ==
  /\ space' = space \cup {w}
  /\ above' = above \cup ({w} \X (space \ {w}))

\* `Space::map_element` and `raise_element`: the window becomes the topmost.
OnTop(w) ==
  /\ space' = space \cup {w}
  /\ above' = {pair \in above : w \notin {pair[1], pair[2]}} \cup ({w} \X (space \ {w}))

\* and, to activate it, the others of the space are deactivated.
Activated(w) ==
  [v \in Windows |-> IF v \in space \cup {w} THEN [pending[v] EXCEPT !.activated = (v = w)]
                                            ELSE pending[v]]

\* `Space::element_under`: the topmost that covers the place, or none.
Topmost(p, windows) ==
  LET covering == {w \in space \cap windows :
                     loc[w] * Fine <= p /\ p < (loc[w] + shown[w]) * Fine}
  IN  IF covering = {} THEN {None}
      ELSE {w \in covering : \A v \in covering \ {w} : <<w, v>> \in above}

\* A window that is gone may be found until the space is refreshed.
Hits(p) == Topmost(p, Windows) \cup Topmost(p, {w \in Windows : Alive(w)})

-----------------------------------------------------------------------------
(* Clients.                                                                *)

\* Slip: the window is tracked, but not mapped.
NewToplevelUnmapped(w) ==
  /\ life[w] = "unborn"
  /\ life' = [life EXCEPT ![w] = "alive"]
  /\ UNCHANGED <<owner, shown, limits, desktop, seat>>

\* new_toplevel: mapped at the origin, neither activated nor configured.
NewToplevel(w) ==
  /\ life[w] = "unborn"
  /\ life' = [life EXCEPT ![w] = "alive"]
  /\ OnTop(w)
  /\ loc' = [loc EXCEPT ![w] = 0]
  /\ UNCHANGED <<owner, shown, limits, pending, sent, surface, seat>>

\* The window stays in the space until it is refreshed.
Destroy(w) ==
  /\ Alive(w)
  /\ life' = [life EXCEPT ![w] = "dead"]
  /\ UNCHANGED <<owner, shown, limits, desktop, seat>>

Within(limit, size) == size >= limit[1] /\ (limit[2] # 0 => size <= limit[2])

\* commit: smithay keeps the new size and limits, and nothing else is done.  A client
\* shows nothing before it is configured, and keeps to the limits that it states.
Commit(w, size, limit) ==
  /\ Alive(w) /\ sent[w] # NotSent
  /\ Within(limit, size)
  /\ shown' = [shown EXCEPT ![w] = size]
  /\ limits' = [limits EXCEPT ![w] = limit]
  /\ UNCHANGED <<owner, life, desktop, seat>>

\* Slip: the serial is not looked at.
CheckAnyGrab(w, s) ==
  /\ grab.kind # "none"
  /\ grab.focus # None /\ owner[grab.focus] = owner[w]

\* check_grab: there is a grab of that serial, and the press that began it went
\* to a surface of the same client.
CheckGrab(w, s) ==
  /\ grab.kind # "none" /\ grab.serial = s
  /\ grab.focus # None /\ owner[grab.focus] = owner[w]

Asks(w, s) == Alive(w) /\ CheckGrab(w, s) /\ (Regrabs \/ grab.kind = "click")

\* move_request, with a serial that the client was given once.
MoveRequest(w, s) ==
  /\ Asks(w, s)
  /\ grab' = Move(w, s)
  /\ focus' = None
  /\ UNCHANGED <<clients, desktop, pointer, pressed, under, keyboard, serial, released>>

\* resize_request
ResizeRequest(w, s, edge) ==
  /\ Asks(w, s)
  /\ pending' = [pending EXCEPT ![w].resizing = TRUE]
  /\ sent' = [sent EXCEPT ![w] = pending'[w]]
  /\ surface' = [surface EXCEPT ![w] = "Resizing"]
  /\ grab' = Resize(w, s, edge)
  /\ focus' = None
  /\ UNCHANGED <<clients, space, above, loc, pointer, pressed, under, keyboard, serial, released>>

-----------------------------------------------------------------------------
(* The pointer.                                                            *)

\* smithay drops a grab whose press went to a surface that is gone; it finds out
\* at the next event.
InForce == IF grab.kind # "none" /\ grab.focus # None /\ ~Alive(grab.focus) THEN NoGrab ELSE grab

\* `to_i32_round`: the nearest pixel, of two the one further from zero.
Round(d) == IF d >= 0 THEN (2 * d + Fine) \div (2 * Fine) ELSE -((Fine - 2 * d) \div (2 * Fine))

\* `as i32`: the whole pixels.
Trunc(d) == IF d >= 0 THEN d \div Fine ELSE -((-d) \div Fine)

Clamp(limit, size) ==
  LET least   == IF limit[1] > 1 THEN limit[1] ELSE 1
      atLeast == IF size > least THEN size ELSE least
  IN  IF limit[2] # 0 /\ atLeast > limit[2] THEN limit[2] ELSE atLeast

\* How much a pointer at p has made the window larger.
Growth(p) ==
  CASE grab.edge = "left"  -> Trunc(grab.start - p)
    [] grab.edge = "right" -> Trunc(p - grab.start)
    [] OTHER               -> 0

\* Slip: the size is not held within the limits.
TargetAnySize(p) == grab.initial + Growth(p)

Target(p) == Clamp(limits[grab.window], grab.initial + Growth(p))

\* Slip: the way of the pointer is added up again at every step.
MoveFurther(p) ==
  LET w == grab.window
  IN  /\ OnTop(w)
      /\ loc' = [loc EXCEPT ![w] = Round(@ * Fine + (p - grab.start))]
      /\ pending' = Activated(w)
      /\ UNCHANGED <<sent, surface, grab>>

\* MoveSurfaceGrab::motion
MoveTo(p) ==
  LET w == grab.window
  IN  /\ OnTop(w)
      /\ loc' = [loc EXCEPT ![w] = Round(grab.initial * Fine + (p - grab.start))]
      /\ pending' = Activated(w)
      /\ UNCHANGED <<sent, surface, grab>>

\* ResizeSurfaceGrab::motion
ResizeTo(p) ==
  LET w == grab.window
  IN  /\ grab' = [grab EXCEPT !.target = Target(p)]
      /\ pending' = [pending EXCEPT ![w].resizing = TRUE, ![w].size = Target(p)]
      /\ sent' = [sent EXCEPT ![w] = pending'[w]]
      /\ UNCHANGED <<space, above, loc, surface>>

\* PointerMotionAbsolute
Motion(p) ==
  /\ pointer' = p
  /\ under' \in Hits(p)
  /\ \/ InForce.kind = "none" /\ grab' = NoGrab /\ focus' = under' /\ UNCHANGED desktop
     \/ InForce.kind = "click" /\ focus' = grab.focus /\ UNCHANGED <<grab, desktop>>
     \/ InForce.kind = "move" /\ focus' = None /\ MoveTo(p)
     \/ InForce.kind = "resize" /\ focus' = None /\ ResizeTo(p)
  /\ UNCHANGED <<clients, pressed, keyboard, serial, released>>

\* The state each window of the space is sent, where it differs from the last.
TellAll == sent' = [w \in Windows |-> IF w \in space THEN pending'[w] ELSE sent[w]]

\* Slip: the window that was active is not deactivated.
ClickNothingKept ==
  pending' = pending /\ keyboard' = None /\ TellAll /\ UNCHANGED <<space, above>>

\* A press, while there is no grab, on no window.
ClickNothing ==
  /\ pending' = [w \in Windows |-> IF w \in space THEN [pending[w] EXCEPT !.activated = FALSE]
                                               ELSE pending[w]]
  /\ keyboard' = None
  /\ TellAll
  /\ UNCHANGED <<space, above>>

\* and on a window.
ClickWindow(w) ==
  /\ OnTop(w)
  /\ pending' = Activated(w)
  /\ keyboard' = w
  /\ TellAll

\* Slip: the client is not told that the resize is over.
FinishResizeUntold ==
  /\ surface' = [surface EXCEPT ![grab.window] = "WaitingForFinalCommit"]
  /\ UNCHANGED <<pending, sent>>

\* The end of ResizeSurfaceGrab::button
FinishResize ==
  LET w == grab.window
  IN  /\ pending' = [pending EXCEPT ![w].resizing = FALSE, ![w].size = grab.target]
      /\ sent' = [sent EXCEPT ![w] = pending'[w]]
      /\ surface' = [surface EXCEPT ![w] = "WaitingForFinalCommit"]

Unset == grab' = NoGrab /\ focus' = under

\* Slip: the buttons are tested the wrong way round.
GrabButtonSticky ==
  /\ IF pressed' # {} THEN Unset ELSE UNCHANGED <<grab, focus>>
  /\ UNCHANGED <<pending, sent, surface>>

\* `button` of the grab in force, for a grab that there already was.
GrabButton ==
  LET over == IF InForce.kind = "click" THEN pressed' = {} ELSE Primary \notin pressed'
  IN  /\ IF over THEN Unset ELSE UNCHANGED <<grab, focus>>
      /\ IF over /\ grab.kind = "resize" THEN FinishResize ELSE UNCHANGED <<pending, sent, surface>>

\* PointerButton, pressed: `is_grabbed` counts a grab that is about to be dropped.
Press(b) ==
  /\ b \in Buttons \ pressed
  /\ serial < MaxPresses
  /\ serial' = serial + 1
  /\ pressed' = pressed \cup {b}
  /\ IF grab.kind = "none"
     THEN /\ \E w \in Hits(pointer) : IF w = None THEN ClickNothing ELSE ClickWindow(w)
          /\ grab' = Click(serial')
          /\ UNCHANGED <<surface, focus>>
     ELSE /\ IF InForce = NoGrab
             THEN grab' = Click(serial') /\ UNCHANGED <<pending, sent, surface, focus>>
             ELSE GrabButton
          /\ UNCHANGED <<space, above, keyboard>>
  /\ UNCHANGED <<clients, loc, pointer, under, released>>

\* PointerButton, released
Release(b) ==
  /\ b \in pressed
  /\ pressed' = pressed \ {b}
  /\ IF InForce = NoGrab
     THEN grab' = NoGrab /\ UNCHANGED <<pending, sent, surface, focus>>
     ELSE GrabButton
  /\ released' = IF pressed' = {} THEN serial ELSE released
  /\ UNCHANGED <<clients, space, above, loc, pointer, under, keyboard, serial>>

\* Slip: the space is drawn and not refreshed.
RedrawStale == UNCHANGED vars

\* Redraw: `Space::refresh` drops the windows that are gone.
Redraw ==
  /\ space' = {w \in space : Alive(w)}
  /\ above' = {pair \in above : Alive(pair[1]) /\ Alive(pair[2])}
  /\ UNCHANGED <<clients, loc, pending, sent, surface, seat>>

-----------------------------------------------------------------------------

Client(w) ==
  \/ NewToplevel(w)
  \/ Destroy(w)
  \/ \E size \in Sizes, limit \in Limits : Commit(w, size, limit)
  \/ \E s \in 1 .. serial : MoveRequest(w, s) \/ \E edge \in Edges : ResizeRequest(w, s, edge)

User == (\E p \in Places : Motion(p)) \/ \E b \in Buttons : Press(b) \/ Release(b)

Next == (\E w \in Windows : Client(w)) \/ User \/ Redraw

\* Every redraw asks for the next one.
Fairness == WF_vars(Redraw)

Spec == Init /\ [][Next]_vars /\ Fairness

\* Clients that were configured go on to commit.
ClientsCommit == \A w \in Windows : WF_vars(\E size \in Sizes, limit \in Limits : Commit(w, size, limit))

SpecWithClients == Spec /\ ClientsCommit

-----------------------------------------------------------------------------
(* Properties.                                                             *)

States == [activated : BOOLEAN, resizing : BOOLEAN, size : Int]

Focusable == Windows \cup {None}
Serials == 1 .. MaxPresses

Grabs ==
  {NoGrab}
  \cup [kind : {"click"}, serial : Serials, focus : Focusable, start : Int]
  \cup [kind : {"move"}, serial : Serials, focus : Focusable, start : Int,
        window : Windows, initial : Int]
  \cup [kind : {"resize"}, serial : Serials, focus : Focusable, start : Int,
        window : Windows, edge : Edges, initial : Nat, target : Int]

\* Of two windows of the space one is above the other.
Stacked == \A v, w \in space : v # w => (<<v, w>> \in above <=> <<w, v>> \notin above)

\* The values of the variables.
TypeOK ==
  /\ owner \in Owners
  /\ life \in [Windows -> {"unborn", "alive", "dead"}]
  /\ shown \in [Windows -> Nat] /\ limits \in [Windows -> Nat \X Nat]
  /\ space \subseteq Windows /\ above \subseteq space \X space
  /\ Stacked
  /\ loc \in [Windows -> Int]
  /\ pending \in [Windows -> States] /\ sent \in [Windows -> States]
  /\ surface \in [Windows -> {"Idle", "Resizing", "WaitingForFinalCommit"}]
  /\ pointer \in Places /\ pressed \subseteq Buttons
  /\ under \in Focusable /\ focus \in Focusable /\ keyboard \in Focusable
  /\ grab \in Grabs
  /\ serial \in 0 .. MaxPresses /\ released \in 0 .. serial

\* A request of a client that is granted finds its window in the space, as the
\* two calls of `unwrap` in move_request and resize_request expect, whatever was
\* destroyed, brought back by a grab or refreshed before.
RequestsFindTheirWindow == \A w \in Windows : Alive(w) => w \in space

\* A grab is held: it began with a press since which some button has always been
\* down.  A client that answers a press late, when it is over, is given nothing.
GrabIsHeld ==
  grab.kind # "none" => pressed # {} /\ released < grab.serial /\ grab.serial <= serial

\* "Currently in the process of resizing": a window that is taken to be resized,
\* by AquariWM or by its client, is the one that the pointer is resizing; unless
\* the press went to another window of the same client, which is gone since.
ResizingIsGrabbed ==
  \A w \in Windows :
    Alive(w) /\ (surface[w] = "Resizing" \/ pending[w].resizing \/ sent[w].resizing)
      => \/ grab.kind = "resize" /\ grab.window = w
         \/ \E v \in Windows \ {w} : owner[v] = owner[w] /\ life[v] = "dead"

\* A client is not asked for a new size outside the limits that it has stated by then,
\* but for the size it had when the resize began, which it is asked for when the button
\* is released without a motion.
SizesAreAllowed ==
  [][\A w \in Windows :
       sent'[w].size \notin {0, sent[w].size} =>
         \/ Within(limits[w], sent'[w].size)
         \/ /\ grab.kind = "resize" /\ grab.window = w /\ grab'.kind = "none"
            /\ sent'[w].size = grab.initial]_vars

\* The window shown as active is the one that gets the keys.
ActiveHasTheKeys ==
  \A w \in Windows : w \in space /\ pending[w].activated => keyboard = w

\* Only a window that is moved without having been clicked becomes active without
\* getting the keys.
ActivatedByAClickOrAMove ==
  [][ActiveHasTheKeys => \/ ActiveHasTheKeys'
                         \/ grab.kind = "move" /\ grab.window # keyboard]_vars

\* A window that is moved stays under the pointer where it was taken, to half a pixel:
\* what is rounded does not add up over the motions, and a window that was not there
\* (it was moved by a grab before) is as soon as the pointer moves.
Off == (loc[grab.window] - grab.initial) * Fine - (pointer - grab.start)
Follows == grab.kind = "move" /\ 2 * Off <= Fine /\ 2 * Off >= -Fine
MovesWithThePointer ==
  [][grab.kind = "move" /\ grab'.kind = "move" /\ (Follows \/ pointer' # pointer)
       => Follows']_vars

\* A window stays where it is unless it is dragged, and is dragged no longer than a
\* button is down.
Dragged == IF grab.kind = "move" THEN grab.window ELSE None
Drags ==
  INSTANCE Dragging WITH
    held <- pressed # {}, dragged <- Dragged,
    there <- {w \in Windows : Alive(w)}, place <- loc
DragsAsPromised == Drags!Spec

\* A window that is gone leaves the screen for good once no grab moves it: a grab
\* may bring it back after it was dropped.
LeavesTheScreen ==
  \A w \in Windows :
    <>[](life[w] = "dead" /\ Dragged # w) => <>[](w \notin space)

\* "Resizing is complete, currently waiting for the final commit before we can do
\* the final move": the commit ends the wait, if the window lives.
FinalCommitEndsResize ==
  \A w \in Windows :
    surface[w] = "WaitingForFinalCommit"
      ~> surface[w] # "WaitingForFinalCommit" \/ ~Alive(w)

=============================================================================
