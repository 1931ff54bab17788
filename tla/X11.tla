-------------------------------- MODULE X11 --------------------------------
(***************************************************************************)
(* AquariWM on an X server (src/src/display_server/x11.rs): how it starts, *)
(* its event loop, and the requests each event makes it send.  Clients and *)
(* the X server run beside it: they change windows while it starts and     *)
(* while events and requests are on their way.                             *)
(***************************************************************************)
EXTENDS State, FiniteSets

CONSTANTS
  Windows,            \* the windows there can be
  Existing,           \* those that are there, mapped, before AquariWM starts
  OverrideRedirect,   \* those whose mapping the server does not redirect
  Clients,            \* what clients do, of the set below
  MaxEvents           \* how many events there may be in the queue

\* "remap": to map a window again before the first request is answered.
ClientRequests == {"create", "map", "remap", "unmap", "destroy", "configure", "circulate"}

ASSUME ClientsAssumption ==
  /\ IsFiniteSet(Windows)
  /\ Existing \subseteq Windows /\ OverrideRedirect \subseteq Windows
  /\ Clients \subseteq ClientRequests
  /\ MaxEvents \in Nat \ {0}

VARIABLES
  \* The X server.
  exists,             \* the windows that are there
  created,            \* and those that ever were
  mapped,             \* the windows that are mapped
  placed,             \* where those are that AquariWM or a client has placed since
  events,             \* what is still to be read by AquariWM
  \* AquariWM.
  phase,              \* how far `run` has come
  tree, known,        \* the windows it found, and those whose state it has read
  wm,                 \* its state, once it has one
  requests            \* the requests of the event it is handling

server == <<exists, created, mapped, placed, events>>
client == <<phase, tree, known, wm, requests>>
vars == <<server, client>>

Phases == {"starting", "registered", "querying", "running", "exited", "panicked"}
Over == phase \in {"exited", "panicked"}

-----------------------------------------------------------------------------
(* The X server and its clients.                                           *)

Init ==
  /\ exists = Existing /\ created = Existing /\ mapped = Existing
  /\ placed = [w \in {} |-> 0]
  /\ events = <<>>
  /\ phase = "starting"
  /\ tree = <<>> /\ known = <<>>
  /\ wm = NewWm
  /\ requests = {}

Event(type, w) == [type |-> type, window |-> w]

\* The requests of AquariWM that it waits for.
Configure(node) == [type |-> "configure", window |-> node.window, place |-> Place(node)]
MapIt(w) == [type |-> "map", window |-> w]

\* Once AquariWM has registered it is sent the events of the root's children.
Send(new) ==
  IF phase = "starting" THEN UNCHANGED events
  ELSE /\ Len(events) + Len(new) <= MaxEvents
       /\ events' = events \o new

Does(request) == request \in Clients /\ ~Over

ClientCreates(w) ==
  /\ Does("create")
  /\ w \notin created
  /\ exists' = exists \cup {w} /\ created' = created \cup {w}
  /\ Send(<<Event("CreateNotify", w)>>)
  /\ UNCHANGED <<mapped, placed, client>>

\* A request to map the window is on its way to AquariWM, or back from it.
MapPending(w) ==
  Event("MapRequest", w) \in ToSet(events) \/ \E request \in requests : request = MapIt(w)

\* The server maps a window itself unless mapping it is redirected.
ClientMaps(w) ==
  /\ Does(IF MapPending(w) THEN "remap" ELSE "map")
  /\ w \in exists \ mapped
  /\ IF phase # "starting" /\ w \notin OverrideRedirect
     THEN Send(<<Event("MapRequest", w)>>) /\ UNCHANGED mapped
     ELSE mapped' = mapped \cup {w} /\ UNCHANGED events
  /\ UNCHANGED <<exists, created, placed, client>>

ClientUnmaps(w) ==
  /\ Does("unmap")
  /\ w \in mapped
  /\ mapped' = mapped \ {w}
  /\ Send(<<Event("UnmapNotify", w)>>)
  /\ UNCHANGED <<exists, created, placed, client>>

\* A mapped window is unmapped before it is destroyed.
ClientDestroys(w) ==
  /\ Does("destroy")
  /\ w \in exists
  /\ exists' = exists \ {w} /\ mapped' = mapped \ {w}
  /\ placed' = [v \in DOMAIN placed \ {w} |-> placed[v]]
  /\ Send((IF w \in mapped THEN <<Event("UnmapNotify", w)>> ELSE <<>>)
            \o <<Event("DestroyNotify", w)>>)
  /\ UNCHANGED <<created, client>>

\* A client asks for a place, or an order, of its window.
ClientAsks(w) ==
  /\ w \in exists \ OverrideRedirect
  /\ phase # "starting"
  /\ \/ Does("configure") /\ Send(<<Event("ConfigureRequest", w)>>)
     \/ Does("circulate") /\ Send(<<Event("CirculateRequest", w)>>)
  /\ UNCHANGED <<exists, created, mapped, placed, client>>

ClientStep ==
  \E w \in Windows :
    ClientCreates(w) \/ ClientMaps(w) \/ ClientUnmaps(w) \/ ClientDestroys(w) \/ ClientAsks(w)

-----------------------------------------------------------------------------
(* How AquariWM starts.                                                    *)

\* An error where another window manager has registered before.
Register ==
  /\ phase = "starting"
  /\ phase' \in {"registered", "exited"}
  /\ UNCHANGED <<server, tree, known, wm, requests>>

QueryTree ==
  /\ phase = "registered"
  /\ tree' \in SetToSeqs(exists)
  /\ phase' = "querying"
  /\ UNCHANGED <<server, known, wm, requests>>

\* Slip: every window is taken to be mapped.
QueryAttributesMapped ==
  /\ phase = "querying"
  /\ Len(known) < Len(tree)
  /\ IF tree[Len(known) + 1] \in exists
     THEN known' = Append(known, "Mapped") /\ UNCHANGED phase
     ELSE phase' = "exited" /\ UNCHANGED known
  /\ UNCHANGED <<server, tree, wm, requests>>

\* The reply about a window is an error once the window is gone.
QueryAttributes ==
  /\ phase = "querying"
  /\ Len(known) < Len(tree)
  /\ LET w == tree[Len(known) + 1]
     IN  IF w \in exists
         THEN /\ known' = Append(known, IF w \in mapped THEN "Mapped" ELSE "Unmapped")
              /\ UNCHANGED phase
         ELSE phase' = "exited" /\ UNCHANGED known
  /\ UNCHANGED <<server, tree, wm, requests>>

\* add_windows
AddWindows ==
  LET Added[k \in 0 .. Len(tree)] ==
        IF k = 0 THEN NewWm ELSE AddWindow(Added[k - 1], tree[k], known[k])
  IN  Added[Len(tree)]

\* The windows are in the layout; no changes are applied until an event comes.
StartLoop ==
  /\ phase = "querying"
  /\ Len(known) = Len(tree)
  /\ phase' = "running"
  /\ wm' = AddWindows
  /\ known' = <<>>
  /\ UNCHANGED <<server, tree, requests>>

-----------------------------------------------------------------------------
(* The event loop: one event at a time, and the next only once every       *)
(* request that it made has been answered.                                 *)

\* apply_changes_async, and the other requests of the handler.
ThenApply(after, others) ==
  IF AppliedPanics(after.layout)
  THEN phase' = "panicked" /\ UNCHANGED <<wm, requests>>
  ELSE /\ wm' = [after EXCEPT !.layout = Applied(@)]
       /\ requests' = others \cup {Configure(node) : node \in ToReconfigure(after.layout)}
       /\ UNCHANGED phase

Ends(how) == phase' = how /\ UNCHANGED <<wm, requests>>

Read(type, w) ==
  /\ phase = "running" /\ requests = {}
  /\ events # <<>> /\ Head(events) = Event(type, w)
  /\ events' = Tail(events)
  /\ UNCHANGED <<exists, created, mapped, tree, known>>

\* Slip: new windows are not tracked.
IgnoreCreate(w) == Read("CreateNotify", w) /\ UNCHANGED <<placed, phase, wm, requests>>

HandleCreate(w) ==
  /\ Read("CreateNotify", w)
  /\ ThenApply(AddWindow(wm, w, "Unmapped"), {})
  /\ UNCHANGED placed

\* Slip: windows stay tracked once they are destroyed.
IgnoreDestroy(w) == Read("DestroyNotify", w) /\ UNCHANGED <<placed, phase, wm, requests>>

HandleDestroy(w) ==
  /\ Read("DestroyNotify", w)
  /\ ThenApply(RemoveWindow(wm, w), {})
  /\ UNCHANGED placed

\* Slip: the window is laid out and never mapped.
HandleMapRequestUnmapped(w) ==
  /\ Read("MapRequest", w)
  /\ IF w \in Tracked(wm) THEN ThenApply(MapWindow(wm, w), {}) ELSE Ends("panicked")
  /\ UNCHANGED placed

HandleMapRequest(w) ==
  /\ Read("MapRequest", w)
  /\ IF w \in Tracked(wm) THEN ThenApply(MapWindow(wm, w), {MapIt(w)}) ELSE Ends("panicked")
  /\ UNCHANGED placed

HandleUnmap(w) ==
  /\ Read("UnmapNotify", w)
  /\ IF w \in Tracked(wm) THEN ThenApply(UnmapWindow(wm, w), {}) ELSE Ends("panicked")
  /\ UNCHANGED placed

\* Any place that a client chooses for its window.
Asked == [by |-> "client"]

\* Honoured as it is, and without waiting for an error.
HandleConfigureRequest(w) ==
  /\ Read("ConfigureRequest", w)
  /\ placed' = IF w \in exists THEN With(placed, w, Asked) ELSE placed
  /\ UNCHANGED <<phase, wm, requests>>

\* circulate_window: every window is tiled, so that it is an error.
HandleCirculateRequest(w) ==
  /\ Read("CirculateRequest", w)
  /\ Ends(IF w \in Tracked(wm) THEN "exited" ELSE "panicked")
  /\ UNCHANGED placed

\* Slip: errors are not looked at, and what was asked is taken to be done.
ServeUnchecked(request) ==
  /\ phase = "running"
  /\ requests' = requests \ {request}
  /\ IF request.type = "map"
     THEN mapped' = mapped \cup {request.window} /\ UNCHANGED placed
     ELSE placed' = With(placed, request.window, request.place) /\ UNCHANGED mapped
  /\ UNCHANGED <<exists, created, events, phase, tree, known, wm>>

\* The server answers a request with an error when the window is gone, or when
\* it is to have no width or no height; `?` then ends the loop.
Serve(request) ==
  LET w     == request.window
      fails == \/ w \notin exists
               \/ request.type = "configure" /\ \E axis \in Axes : request.place.size[axis] = 0
  IN  /\ phase = "running"
      /\ requests' = requests \ {request}
      /\ phase' = IF fails THEN "exited" ELSE phase
      /\ mapped' = IF request.type = "map" /\ ~fails THEN mapped \cup {w} ELSE mapped
      /\ placed' = IF request.type = "configure" /\ ~fails THEN With(placed, w, request.place)
                   ELSE placed
      /\ UNCHANGED <<exists, created, events, tree, known, wm>>

Start == Register \/ QueryTree \/ QueryAttributes \/ StartLoop

Handle ==
  \E w \in Windows :
    \/ HandleCreate(w) \/ HandleDestroy(w)
    \/ HandleMapRequest(w) \/ HandleUnmap(w)
    \/ HandleConfigureRequest(w) \/ HandleCirculateRequest(w)

ServeOne == \E request \in requests : Serve(request)

Next == ClientStep \/ Start \/ Handle \/ ServeOne

\* What Handle and ServeOne, and no other step, do to the queues: a step of one
\* is possible exactly when a step of the other is.
TakesAnEvent == phase = "running" /\ requests = {} /\ events # <<>> /\ events' = Tail(events)
TakesARequest == phase = "running" /\ \E request \in requests : requests' = requests \ {request}

\* `run` is a task that nothing but the server keeps waiting, and the server
\* answers; clients may do nothing.
Fairness == WF_vars(Start) /\ WF_events(TakesAnEvent) /\ WF_requests(TakesARequest)

Spec == Init /\ [][Next]_vars /\ Fairness

-----------------------------------------------------------------------------
(* Properties.                                                             *)

EventTypes == {"CreateNotify", "DestroyNotify", "MapRequest", "UnmapNotify",
               "ConfigureRequest", "CirculateRequest"}

\* The values of the variables.
TypeOK ==
  /\ mapped \subseteq exists /\ exists \subseteq created /\ created \subseteq Windows
  /\ DOMAIN placed \subseteq exists
  /\ events \in Seq([type : EventTypes, window : Windows]) /\ Len(events) <= MaxEvents
  /\ phase \in Phases
  /\ tree \in Seq(Windows) /\ known \in Seq(MapStates) /\ Len(known) <= Len(tree)
  /\ Tracked(wm) \subseteq Windows
  /\ \A request \in requests : request.type \in {"map", "configure"} /\ request.window \in Windows

Running == phase = "running"
Idle == Running /\ events = <<>> /\ requests = {}

\* The layout holds the windows that AquariWM knows to be mapped, each once.
TiledAreMapped ==
  Running => /\ IsInjective(Tiled(wm))
             /\ ToSet(Tiled(wm)) = {w \in Tracked(wm) : wm.windows[w] = "Mapped"}

\* Whatever happened while it started and while events were on their way, once
\* all are handled AquariWM knows the windows of the server, and which are mapped.
Agrees ==
  Idle => /\ Tracked(wm) = exists
          /\ \A w \in exists \ OverrideRedirect : w \in mapped <=> wm.windows[w] = "Mapped"

\* Once AquariWM is idle a tiled window is where its node is in the layout,
\* unless its client asked for another place since, or the node of the window
\* was there when AquariWM started and no event has come.
PlacedAsTiled ==
  Idle => LET nodes == WindowNodes(wm.layout)
          IN  \A k \in DOMAIN nodes :
                IF nodes[k].window \in DOMAIN placed
                THEN placed[nodes[k].window] \in {Place(nodes[k]), Asked}
                ELSE ChangesMade(wm.layout)

\* AquariWM panics, map_window and unmap_window expecting their window to be
\* tracked, only for a window that went away before it looked for windows.
PanicsOnlyForTheGone ==
  [][phase' = "panicked" /\ ~Over
       => \E w \in created \ (exists \cup ToSet(tree)) : Head(events).window = w]_vars

\* A window that a client asks to be mapped is mapped in the end, or is gone, or
\* AquariWM is.
MapRequestIsAnswered ==
  \A w \in Windows :
    Event("MapRequest", w) \in ToSet(events) ~> w \in mapped \/ w \notin exists \/ Over

\* A window that is destroyed leaves the layout in the end, unless AquariWM ends.
DestroyedIsForgotten ==
  \A w \in Windows :
    w \in created \ exists ~> Over \/ (w \notin Tracked(wm) /\ w \notin ToSet(Tiled(wm)))

\* Once its destruction is handled, a window is in no layout.
DestroyIsHandled ==
  [][\A w \in Windows : HandleDestroy(w) /\ phase' = phase => w \notin ToSet(Tiled(wm'))]_vars

=============================================================================
