# A verification of AquariWM

AquariWM is a tiling window manager in Rust, for X11 and (in progress) Wayland.
This directory holds TLA+ modules that model its layout engine, its layout
manager, its state, its X11 display server, its Wayland compositor and its derive
macros, the TLC configurations that check them, and TLAPS proofs about all of these:
each safety property and each refinement that a passing run checks is a theorem. Paths
below are relative to the repository's root; `node_changes.rs` is
`src/layout/implementations/node_changes.rs`.

## The system

| part | where | state | operations |
|---|---|---|---|
| group of a tiling layout | `layout.rs`, `layout/implementations.rs`, `node_changes.rs` | a list of nodes (windows or groups), an orientation, sizes and coordinates, and what is still to be applied: `additions`, `total_removed_primary`, a new orientation, size, place | push, insert, remove and pop of nodes, one or many; `set_window`; `set_orientation`, `rotate_by`; `apply_changes` |
| layout manager | `layout/managers.rs` | a root group; `Stack`: a main window and a stack of the others; `Spiral`: unfinished and unused | `init`, `add_window`, `remove_window` |
| window manager state | `state.rs` | the layout, and the tracked windows with their map state and mode | `add_window`, `remove_window`, `map_window`, `unmap_window`, `apply_changes`, `apply_changes_async` |
| X11 display server | `display_server/x11.rs` | the connection and the state above | registration, query of the windows, one handler per event |
| Wayland compositor | `display_server/wayland.rs`, `wayland/state.rs`, `wayland/input.rs` | smithay's space (the windows, their places, which is above which) and seat (pointer, pressed buttons, focus, grab); the state each toplevel is to be sent | `new_toplevel`, `commit`, `move_request`, `resize_request`; pointer motion and buttons; redraw |
| move and resize grabs | `wayland/grabs/*` | the press that began the grab, the window, its place or its size then, the size aimed at; per surface, the state of its resize | `motion`, `button`; `handle_commit`, which nothing calls |
| derive macros | `derive-extras/src/lib.rs`, `numbers_to_words.rs` | none: they go through an item once | `Default`, `builder`; `encode`, `encode_ordinal` |
| the rest | `main.rs`, `cli.rs`, `x11/testing.rs` | none | arguments, a nested server for tests |

**How they interact.** The display server calls the state's methods, one per
event; each of these calls the layout manager, which edits the tree of groups;
nothing moves on the screen until `apply_changes` walks the tree, works out where
each node is to be, and calls back the display server for each window that it
placed. Under X11 the server's events are queued, handled one at a time, and the
next is read only once the server has answered every request of the last. Under
Wayland one event loop calls a handler for each request of a client, each event of
a pointer and each redraw. A grab sits between the pointer and the windows: while
there is one, the pointer's events go to its `motion` and `button`. The compositor
does not use the layout yet: it tells the state of each new toplevel, and reads
nothing back.

**What is hard.**
- A group is edited many times between two applications, and in each edit four
  fields have to stay consistent (`children`, `additions`,
  `total_removed_primary`, `total_node_primary`), in four orientations, two of
  which index the list from its end.
- `apply_changes` rescales by unsigned integer division, again and again.
- `Stack` moves windows between two groups, and reuses nodes.
- X clients and AquariWM run concurrently: windows appear, change and disappear
  while AquariWM starts, while events wait in the queue and while requests are
  under way, and every answer may be an error.
- Wayland clients ask for a grab in answer to a press that they saw some time ago;
  they destroy their windows during it; a press may have gone to another window of
  the same client; several buttons go down and up; what a window is to be sent,
  what it was sent and what it shows are three states.

**What makes each part correct.**
- Group: it behaves as the list that `get` indexes (`NodeList`), `additions` is
  exactly the set of new nodes, the total is the sum of the sizes, and after
  `apply_changes` the nodes fit in the group without overlap and each window was
  told its place.
- Layout manager: what the trait `TilingLayoutManager` promises
  (`TilingContract`), and the main window keeps its place.
- State: the layout holds the mapped windows, once each.
- X11: whatever is interleaved, AquariWM's state comes to agree with the
  server's, requests to map are answered, destroyed windows are forgotten, and
  it does not end by itself.
- Wayland: a request finds its window; a grab belongs to a press that is not over,
  and a window moves and resizes only under its grab, as far as the pointer goes
  and within the limits of its client; a window that is gone leaves the screen.
- Derive macros: the default variant is the marked one, an error has the cause it
  names, the n-th method has the name of the n-th ordinal.

The hazards, each with its line, are in `PROJECT.json`.

## The modules

| module | models | correspondence |
|---|---|---|
| `Group` | `GroupNode`, `WindowNode`: the operations as operators from a group to a group | a group is a record of the struct's fields; `x, y` and `width, height` are functions of the axis; indices are the code's, from 0 |
| `GroupNode` | one group, any calls in any order | an action per public method; `told` is what `reconfigure_window` last got for each window; `panicked` that a call panicked |
| `NodeList` | abstract: the list a group promises to be | `nodes` as `get` shows them; `new`, those still to be applied |
| `Stack` | the manager `Stack`, on a root group whose second node is a group | `AddToLayout`, `RemoveFromLayout`; `Applied` applies the root and, through it, the stack |
| `State` | `AquariWm` as a value, and its methods | `wm.layout`, `wm.windows` |
| `TilingContract` | abstract: the trait's guarantees, and that windows keep their order | `tiled`, the windows of the layout |
| `AquariWm` | the calls of a display server, any in any order | an action per method |
| `X11` | the X server, its clients, AquariWM's start and its event loop | below |
| `Wayland` | the compositor, its clients and its user | below |
| `Dragging` | abstract: what is promised of windows and the mouse | `dragged` is the window of a move grab, `held` whether a button is down |
| `NumbersToWords` | `encode`, `encode_ordinal` as functions on the numbers of `usize` | a text is a sequence of words and separators; `Powers` are the `successors` that are zipped with `ORDERS` |
| `DeriveExtras` | the loops of the two macros over an item | a step per attribute, variant, field or method; `outcome` is the error, if any |
| `MC*` | small instances for TLC | |
| `GroupLemmas` | lemmas on the operators of `Group` | sums, lists of indices, the lengths and places that nodes are given |
| `StackLemmas`, `PlaceLemmas` | lemmas on the operators of `Stack` and `State` | which windows the layout holds; where their nodes are |
| `GroupNodeProofs`, `AquariWmProofs`, `X11Proofs`, `WaylandProofs`, `DeriveExtrasProofs` | theorems on the specification of that name | |

Definitions whose comment begins with `Slip:` are no part of the model. Each is
the definition that follows it as a likely mistake would make it; put in its
place, it makes TLC find a property violated. They show that the properties tell
right code from wrong.

**AquariWm.** `add_window` has no guard: of a window that is tracked it overwrites the
state. `Create` is that, and `Recreates` says whether a display server makes such
calls. X11 makes them only for a window that it found itself and then reads the
creation of; `X11.HandleCreate` has that call in full, and `x11_override` shows what
comes of it, so that `Recreates` is false in the runs of `AquariWm`.

**X11.** `exists`, `created`, `mapped` and `placed` are the X server's; `events`
is the queue from it to AquariWM, a `CreateNotify`, `MapRequest`, `UnmapNotify`
and so on for each change from registration on. `phase` is how far `run` has
come: "starting", "registered", "querying" (`tree` is the answer to QueryTree,
`known` the attributes that were read), "running"; registration fails where another
window manager is there. A handler (`HandleCreate`, ...)
reads an event, changes `wm`, applies the changes and leaves its requests in
`requests`; `Serve` is the server's answer to one of them, an error if the window
is gone or is to have no width, which ends the loop (`?`). No event is read while
`requests` is not empty. Clients act between any two steps. Modelled from how the
code uses the protocol, and marked external: the server and its clients. A client
that maps a window again before the first request is answered is one of the
`Clients` that may be chosen ("remap"); a window of `OverrideRedirect` is mapped
by the server without a request. `placed` has where AquariWM or a client put each
window last, which is `Asked` where it was the client, whatever place it asked for:
`HandleConfigureRequest` passes that on as it is, for a tiled window too.

**Wayland.** `owner`, `life`, `shown` and `limits` are the clients': whose each
toplevel is, whether it lives, and the size and the limits it last committed; a
`Commit` brings a size with the limits it keeps to, and either may change at any
time. `space`, `above` and `loc` are smithay's `Space`. `pending` is the state that each toplevel is to be sent and
`sent` the last it was sent (`NotSent` before the first), of which "activated",
"resizing" and the size are kept; `surface` is the `ResizeSurfaceState`. `under`
is the window that was under the pointer at its last motion, which is where the
focus goes when a grab ends; `grab` has the data of the press that began it, and
for a move or a resize those of the struct. Handlers are actions: `NewToplevel`,
`Commit`, `MoveRequest`, `ResizeRequest`, `Motion` (with `MoveTo` or `ResizeTo` of
the grab), `Press`, `Release` (with `GrabButton`), `Redraw`. The pointer is between
the pixels that windows are placed and sized by: its places are counted in parts of a
pixel, `Fine` of them to each. `MoveTo` rounds what it has come to the nearest pixel
(`to_i32_round`), `ResizeTo` cuts it off towards zero (`as i32`).

smithay is a library, modelled from how it is used and marked external: a press
with no grab begins a click grab, which ends when every button is up; a grab whose
press went to a surface that is gone is dropped, at the next event (`InForce`; but
`is_grabbed`, which `input.rs:80` asks, still counts it); a configure is sent only
when it differs from the last; `refresh` drops the windows that are gone, and until
then `element_under` may find them. The first configure of a window waits for the
first press outside of a grab ("TODO: configure window", `state.rs:136`), and no
client shows anything before.

**Derive macros.** An attribute is whether it is `#[default]`, and its form. The
words of a text are joined by the code; words are never parted, so that a sequence
stands for one text. Named fields have their own names for methods, and are left
out, and so is the documentation that is generated.

**Abstractions.** A window is a model value. `u32` and `i32` are integers, with
every unsigned subtraction that underflows and every division by zero a panic
(`ApplyPanics`, `InsertPanics`; a debug build panics on both, a release build
wraps in the first case): screens are far below 2^31, so that nothing else
overflows. `Mode` is left out, for every window is tiled. `fresh`, in a node, is
a ghost: no operation reads it; so is `released` in `Wayland`. In `Wayland` one of
the two axes is modelled, for the code treats them alike; a surface is its
toplevel.

## What TLC checks

Twelve runs. Eight must pass:

| run | what it explores | properties |
|---|---|---|
| `group_upright` | every call but pops, on a group that turns between left-to-right and top-to-bottom and shrinks | `TypeOK`, `AdditionsAreFresh`, `TotalIsSum`, `Fits`, `ToldTheTruth`, `RemovalGivesRoom`, `WastesNothing`, refinement of `NodeList`, `CallsDoWhatTheySay` |
| `group_reversed` | pushes, removals, pops, replacements and turns on a group that stays reversed and is moved | `Fits`, refinement of `NodeList`, `CallsDoWhatTheySay` |
| `group_all_calls` | every push, insertion, removal and pop, in all orientations, with turns and a resize | `AdditionsSorted`, `TotalCoversNodes`, `PanicsOnlyWithoutRoom` |
| `aquariwm` | five windows created, mapped, unmapped and destroyed in any order, changes applied at any time | `TiledAreMapped`, `ToldTheTruth`, `NoneOverlap`, refinement of `TilingContract`, `MainKeepsItsPlace`, `PanicsOnlyWithoutRoom` |
| `x11_existing` | AquariWM starts among two windows, one of override-redirect, and a third comes | `TypeOK`, `TiledAreMapped`, `Agrees`, `PlacedAsTiled`, `PanicsOnlyForTheGone` |
| `x11_live` | any clients, two new windows: those too that ask for places of their own, or again before they are answered | `PlacedAsTiled`, `MapRequestIsAnswered`, `DestroyedIsForgotten` |
| `wayland` | two windows, of one client or two, are created, clicked, moved, resized and destroyed; two buttons, three presses | `TypeOK`, `RequestsFindTheirWindow`, `GrabIsHeld`, `ResizingIsGrabbed`, `SizesAreAllowed`, `ActivatedByAClickOrAMove`, `MovesWithThePointer`, refinement of `Dragging`, `LeavesTheScreen` |
| `derive` | enums of up to two variants with up to two attributes each, structs, and a tuple of a thousand fields | `DefaultIsTheMarked`, `NamedForTheirPlace` |

Four find the code at odds with what the repository says of it (the lines are
quoted in `PROJECT.json`, "findings"):

| run | property | what happens |
|---|---|---|
| `popped_stack` | `LeavingIsAChange` | when the stack's last window leaves, the stack is popped, which is no change to `changes_made`; the main window keeps half the screen |
| `x11_override` | `DestroyIsHandled` | a window mapped by the server between registration and query has its state overwritten by its `CreateNotify`, and stays in the layout after it is destroyed |
| `x11_remap` | `Agrees` | a client that asks twice for its window to be mapped and unmaps it in between ends with a mapped window that AquariWM has unmapped: the second `MapRequest` is read before the `UnmapNotify` that came before its mapping |
| `wayland_resize` | `FinalCommitEndsResize` | a resize that is over waits for the final commit, which `commit` hands to smithay only; `handle_commit` is called from nowhere |

More disagreements were met. Of the group, the layout and X11:
- A batch pushed to a reversed group is tracked at the other end of the list
  (`push_nodes_back`, `push_nodes_front`, lines 342 and 361): `additions` names old
  nodes in place of the new ones, which get no room. `group_reversed` has no batches;
  `group_all_calls` has them, and checks what holds all the same.
- `insert_node` of a reversed group counts the index back from the last node, not from
  behind it (line 386): the window stands one place off, and in an empty group or at
  the end the index underflows. `group_reversed` has no insertions, and
  `CallsDoWhatTheySay` would not hold with them.
- `remove` and `pop_*` go by the orientation the group has, `get`, `push` and `insert`
  by the one it is to have: the runs that check `CallsDoWhatTheySay` turn a group
  within the upright or within the reversed orientations only.
- `pop_*` does not take the node's size from the total, so that `TotalIsSum` is
  checked without pops; what holds of every call is `TotalCoversNodes`, on which
  `Fits` rests.
- Removing the main window promotes the first of the stack even when it is the only
  one; removing it again leaves a root whose first node is an empty stack, which
  `add_window` takes for a main window (`managers.rs:105`, "Main, no stack").
- A mapped window that is destroyed between registration and the query of the tree
  is not in the tree, but its `UnmapNotify` is in the queue, and `unmap_window`
  panics (`state.rs:222`). `PanicsOnlyForTheGone` says that nothing else does.
- A client that asks for a place of its tiled window gets it (`x11.rs:235`), where the
  comment above (lines 232-233) says that a tiling layout should place it; the layout
  goes on as if it had not. `PlacedAsTiled` allows a window the place that its client
  asked for, and nothing to the others; `x11_live` has such clients.
- `circulate_window` returns an error for a tiled window, which ends AquariWM, where
  `x11.rs:238-240` says that the request is rejected.

Of the compositor, all found by TLC as states that `Wayland` reaches:
- `check_grab` takes a press on any window of the client, where its comment says
  "for the same surface" (`state.rs:239`). A client may so move one window by a
  press on another; when that one dies during the grab the moved one stays, and
  when the moved one dies the grab maps it again, after the redraw had dropped it,
  and until it ends. `LeavesTheScreen` allows for that, as `ResizingIsGrabbed` does
  for a window whose grab was dropped while it was resized: it stays "resizing".
- A second request within one grab takes the place of the window anew but the press
  of the old grab, so that the window jumps by what it had moved; and a move
  that replaces a resize leaves its window "resizing". `Regrabs`, false in the runs,
  allows for such clients.
- The end of a resize sends the last size again, without a look at limits that were
  stated since the last motion (`resize_grab.rs:294`); if there was no motion, that is
  the size at which the resize began, in its limits or not. `SizesAreAllowed`, which
  is about sizes that are new to the client, has this last case as its exception.
- A grab ends when the primary button is up, where its comment says "No more
  buttons are pressed" (`move_grab.rs:81`); the promise that windows are dragged
  only while a button is down holds of both.
- A move activates its window and does not give it the keys:
  `ActivatedByAClickOrAMove` says that this is the only way in which the two part.

Of the macros:
- A number from 1000 on is named one order too high (`numbers_to_words.rs:194`):
  `encode_ordinal(1_782, ' ')` is "one million seven hundred and eighty second",
  where line 154 has "one thousand ...". `encode` joins "and" to the next word (line
  128), where line 99 has a space. Both need fields from the thousandth on, and
  `NamedForTheirPlace` ends before.
- An attribute of a variant that is no path is an error unless it comes after the
  `#[default]` of its variant: a variant with a comment, which the built-in `Default`
  takes, fails to derive (`lib.rs:159`), against "In addition to the functionality
  allowed by the built-in" (line 32).

**Bounds and why they are enough.** Three windows in a group give every position of a
new node among old ones (first, middle, last) and batches of two; the group is 7 by 5
pixels with gaps of 1 and shrinks to 2, so that shares round down, nodes get no size,
and the gaps alone do not fit. Five windows under `Stack` give a stack of four; the
screen of 23 by 13 with gaps of 3 leaves the stack's third window no height and its
fourth no gap. Two windows under X11 give a window whose events interleave with
requests about another; `MaxEvents`, 2 or 3, is the bound of the queue, two of which
are the events of one destruction. It bounds clients, not AquariWM, which only takes
events. A window that was destroyed does not come again (`created`): X reuses
identifiers only after they are used up.

Two windows under Wayland are one that is pressed and one that is moved, above or
below each other, of one client or of two. `Fine` is 2, so that the pointer goes in
half pixels; its two places, a pixel and a half apart, are on a window that was not
moved; on one that was, the pointer is still on it or just beside it, for what it went
is rounded, up or down, on either side of zero. Windows show one size, and a client
states limits with it, from two to three, where it stated none before: a window that
has shown nothing can be resized already, by a press on another window of its client,
and may state them during that, so that a resize goes beyond each limit, and from
before they are stated to after. Three presses (`MaxPresses`) give a late answer to a
press, a second button within a grab, and a click after it, and bound what the user
does and nothing else. That run visits 0.57 million states. `wayland_resize` needs one
window, one button, two presses.

The tuple of 1000 fields passes every boundary of the tables (19, 20, 99, 100, 999),
and `UsizeMax` is the largest number TLC has, far above what these fields need.
Symmetry of the windows is used where no property is temporal. `CHECK_DEADLOCK FALSE`
everywhere but in the runs of Wayland, for the program ends when it panics, the macros
end, and the X11 loop waits when nothing happens. The compositor always redraws.

**Fairness.** `X11` and `Wayland` have it. In `X11`, AquariWM's start goes on, an event that can be
read is read in the end, a request that waits is answered in the end. `run` is one
task that waits for nothing but the server, the connection is driven by a task of
its own, and the server answers requests in turn. Clients are not fair. The
fairness conditions name what a step does to the queues (`TakesAnEvent`,
`TakesARequest`), which only `Handle` and `ServeOne` do, and which is possible
exactly when they are. In `Wayland`, a redraw comes again and again: each asks for
the next (`wayland.rs:215-216`). In `wayland_resize` clients that were configured go on
to commit (`SpecWithClients`): the wait for a commit is then not their fault.

## What is proved

With TLAPS, for every value of the constants. The assumptions on these say no more
than their types (`GapAssumption`, `CallsAssumption`), that the padding fits on the
screen (`ScreenAssumption`), that there are finitely many windows
(`ClientsAssumption`), that no limits have a least size above the greatest
(`WaylandAssumption`), that an item to derive for has the parts of its kind
(`ItemsAssumption`), and that `usize` has at least 16 bits and no more numbers than
there are names for (`UsizeAssumption`: 64 bits need seven of the twelve orders). Some
theorems have a hypothesis besides; each is named
below, with why the code needs it.

| theorem | hypothesis | states |
|---|---|---|
| `GroupNodeProofs`: `TypeCorrect`, `Sorted`, `TotalCovers`, `PanicsForRoom` | | `TypeOK`, `AdditionsSorted`, `TotalCoversNodes`, `PanicsOnlyWithoutRoom` |
| `Fresh`, `NodesFit`, `WindowsTold`, `RoomGiven`, `ListKept` | `NoReversedBatch` | `AdditionsAreFresh`, `Fits`, `ToldTheTruth`, `RemovalGivesRoom`, `ImplementsNodeList` |
| `TotalExact` | `NoPops` | `TotalIsSum` |
| `NothingWasted` | both | `WastesNothing` |
| `CallsKept` | `NoReversedBatch`, `NoReversedInsert`, `NoTurnedRemoval` | `CallsDoWhatTheySay` |
| `AquariWmProofs`: `TiledMapped`, `KeepsContract`, `WindowsTold`, `NodesApart`, `MainPlaceKept`, `PanicsForRoom` | `~Recreates` | `TiledAreMapped`, `ImplementsContract`, `ToldTheTruth`, `NoneOverlap`, `MainKeepsItsPlace`, `PanicsOnlyWithoutRoom` |
| `X11Proofs`: `TypesKept`, `TiledMapped`, `PlacesKept`, `DestroyHandled` | `OnlyKnownOverride` | `TypeOK`, `TiledAreMapped`, `PlacedAsTiled`, `DestroyIsHandled` |
| `Agreement` | that and `NoneRemaps` | `Agrees` |
| `PanicsForTheGone` | that and `RoomyScreen` | `PanicsOnlyForTheGone` |
| `WaylandProofs`: `Wayland_P` for a property P | | `TypeOK`, `RequestsFindTheirWindow`, `GrabIsHeld`, `SizesAreAllowed`, `ActivatedByAClickOrAMove`, `DragsAsPromised` |
| | `~Regrabs` | `MovesWithThePointer`, `ResizingIsGrabbed` |
| `DeriveExtrasProofs`: `DefaultMarked`, `MethodsNamed` | | `DefaultIsTheMarked`, `NamedForTheirPlace` |

**The group.** The inductive invariant is `Inv == TypeOK /\ Good(group) /\
ToldIn(group, told)`. No property of the list is inductive alone: `additions` is
right after a removal only if `partition_point` searched a sorted list, sorted only
if the tracking shifted it, and a node is where it should be only if the total was
right when it was placed. `Good` has all of that: the type, that `additions` is
sorted indices (`SortedIn`), those of the new nodes where no batch goes to a
reversed group (`FreshlyIn`), the room (`SpacedIn`), and that no window has two
nodes (`OnceIn`). A call that adds or takes nodes opens or closes a range of
indices, in the nodes and in `additions` (`Grown`, `Shrunk`, one lemma per
operation of `Group`); the invariant survives because the ranges are the same.

The geometry goes by `SpacedIn`: nodes that are new have no size, the total covers
the sizes of the others and what `remove` took, and those that were placed lie
where they were put (`Laid`, `Roomy`), from one application of the changes to the
next. `apply_changes` gives each new node its share and each old one the floor of
its part of the rest. The lemmas of `GroupLemmas` bound what that adds up to: parts
of a total that covers them never exceed the rest (`Fits`), fall short of it by
less than one for each if the total is their sum (`WastesNothing`), and are no less
than the nodes were if the rest is no less than the total (`RemovalGivesRoom`).
The sums are recursive functions; what they give is proved by induction over a set
of naturals (`SetInduction`, from the well-founded order of the naturals), which
needs no operator as a parameter.

`ListKept` shows that `GroupNode` implements `NodeList`. A call that adds puts
nodes somewhere into the nodes (`Put`), one that takes cuts one out (`Cut`); both
say which sequence results, and a sequence that is put in or cut out of the nodes
is put in or cut out of the list that is read from the other end, at the index
counted from there (`PutSeen`, `CutSeen`). The abstract set of new windows is that
of the nodes of `additions`, which `FreshlyIn` makes the new ones. `CallsKept`
adds which index it is.

The hypotheses are conditions on the calls that are made, as in the runs.
`NoReversedBatch`: batches are not pushed to a group that can be reversed, where they
are tracked at the wrong end (`additions` that are wrong give a new node the place of
an old one). `NoPops`: a pop leaves the room of its node in the total.
`NoReversedInsert`: the index of a reversed insertion is one off.
`NoTurnedRemoval`: `remove` goes by the orientation the group has and `get` by the
one it is to have. `Inv` has the first two as implications within it, so that it
holds of every call, and so do the theorems without hypothesis.

**The layout manager and the state.** `Good(wm)` (`StackLemmas`) is inductive for
the calls of a display server: the layout has the shape that the methods of
`Stack` rely on (`Shaped`: a main window, or an empty stack in its place, and
behind it a stack whose group is upright), its windows are once each, and they are
those recorded as mapped. From what each method does to the list of the tiled
windows follows the refinement of `TilingContract`: it stays, a window comes last,
or one is taken from where it is.

The hypothesis `~Recreates` is that no window is added that is tracked: `add_window`
would record it anew as unmapped and leave its nodes, so that the layout held a window
that is not mapped, and twice once it is.

Where the windows are needs `Spaced` (`PlaceLemmas`): both groups are `Sound`, that
is, their additions are their new nodes, the total covers what was placed, and what
was placed is still where it was. The root is given a new node only while none of
its nodes with windows has been placed (the first window, or a stack beside it
again), so that no window moves because its group does. `Known` adds that each
window whose node was placed, and not replaced since, was told that place;
`apply_changes` tells each window it moves, or none that it leaves (`Telling`).
That the windows are apart is then the geometry of the root and that of the stack
within its second node.

**X11.** The invariant has the queue in it. `Ordered`: the creation of a window is
its first event, its destruction its last. `News`: before its creation is handled
nothing is believed of it. `Tracking`: AquariWM has found each window that there is
or is to hear of it, and is to hear of the end of each that is gone. They hold from
registration through the query of the tree and of the attributes on, whatever
clients do in between. `MapsOf` adds what is known of the state of a window: it is
right but for an event or a request that is under way, and no event behind a
request to map says otherwise. `Places` adds the places: a window is where its node
is, or a request to put it there is under way, or its client's own request.

`OnlyKnownOverride`: windows of override-redirect were there before AquariWM. One
that comes while it starts is mapped by the server without a request, and the
state that the query finds is overwritten by the `CreateNotify` behind it
(`x11_override`). `NoneRemaps`: a client waits for its window to be mapped before it
asks again; one that does not ends with a window that AquariWM takes for unmapped
(`x11_remap`).

`PanicsForTheGone` has two halves, for a handler may panic in the state's method or
in applying the changes. The first: each window of the `tree` is tracked, or is gone
and has no event in the queue (`TreeTracked`), so that with `Tracking` the method finds
the window of every event, but for one that was gone before AquariWM looked for windows.
The second is `Sizes`: the root has a total once something was placed (`Funded`), and a
window that was placed has a size, or the request that says otherwise is under way, for
which the server's error ends AquariWM (`Serve`). No event is handled before that
request is answered, so that the next changes meet windows with sizes; as the stack has
no more windows than there are (`StackFits`), no gap and no division is too much for
them (`NoPanic`). `RoomyScreen` is the hypothesis: the screen has room for two windows
side by side with their gaps and for the gaps of all windows below each other, as that
of `x11_existing` has. On one that does not, the gaps alone may be wider than a group,
and `apply_changes` underflows (`PanicsOnlyWithoutRoom`).

**Wayland.**
- `Wayland_TypeOK` has in it that the space is a stack.
- `Wayland_RequestsFindTheirWindow`: only a redraw takes windows from the space, and
  only those that are gone; so neither `unwrap` of a request panics.
- `Wayland_GrabIsHeld`, from the type alone: a press begins a grab, a request only
  replaces it by one with the same serial, and the last button that comes up ends it.
- `Wayland_SizesAreAllowed`, by the invariant `SizesAsked`: a size that is pending is
  the one that was sent last, so that any step but a motion or a release sends none that
  is new; a motion sends `Target`, which is within the limits of then (`Target_Size`,
  from `LimitsKept`: the least is not above the greatest), and a release sends what
  the last motion did, or the size at which the resize began.
- `Wayland_ActivatedByAClickOrAMove`, by `Activity`: which steps change what is active.
- `Wayland_DragsAsPromised`, the refinement of `Dragging`: every step maps to one of
  its steps, by `GrabIsHeld` before the step and after it.
- With `~Regrabs`, that is, for clients that ask once within a grab:
  `Wayland_MovesWithThePointer` and `Wayland_ResizingIsGrabbed`. The first is from
  `Pixels`: `Round` is within half a pixel of what it rounds, whatever `Fine` is, and as
  each motion starts from where the grab began, what is lost does not add up. The latter
  is not inductive; its strengthening adds that a grab went to a window of the same client
  (`GrabOfOneClient`), that windows in the space or under the pointer or a grab were
  created (`AllMet`), and that no other window is resized (`Untouched`). The
  assumption is needed: a second request breaks both.

**The macros.** `DefaultMarked` has one invariant for both loops, `ChoiceKept`: of the
variants before the current one, the marked ones are the one that is chosen, or there
are none (`ChosenOf`); of the attributes before the current one, none marks its
variant. The break after the first `#[default]` is what makes the first half survive:
the variant is counted once, whatever follows in it.

`MethodsNamed` goes from words to names. No word is in two tables, so that each has
one meaning (`MeaningsAre`) and reading it adds that (`ReadsAre`); the text of an
ordinal below a hundred adds the number to what was read before (`AddsBelowHundred`),
and behind its hundreds it still does (`SaysHundreds`). `encode_ordinal` is a
recursive function, and that it is what its definition says of it (`OrdinalIs`) is
proved from the order of the naturals: each call is for a smaller number. For numbers
from 1000 on this is `DivIs`: the power of a thousand that `find` takes is never above
the number, so that the rest is smaller; that there is one, on which the `unwrap` there
relies, is `UsizeAssumption`. The invariant of the loop (`MethodsKept`) is that the i-th method has the
name of the i-th ordinal. The property ends before the thousandth field, where the
code names the wrong order (above).

**Only model-checked.** Liveness under fairness is out of the prover's reach:
`MapRequestIsAnswered`, `DestroyedIsForgotten`, `LeavesTheScreen`. The runs that expect
a violation are about what does not hold; `AdditionsAreFresh` and `DestroyIsHandled`
are proved where they do.

## Not modelled

- `Spiral`: no display server uses it, and its `add_window` panics in every call.
- `update_settings`, which is called from nowhere, and with it groups that are
  resized after they are settled; groups deeper than the stack.
- `handle_commit` of the resize grab and `ResizeSurfaceState::commit`: called from
  nowhere; `wayland_resize` shows what follows.
- Of the compositor: popups, whose grab is unwritten and whose rest is smithay's; the
  size of the output; keys and scrolling, which are forwarded; the closing of the
  test window, which stops the loop. Start-up has no clients yet.
- The iterators, the command line, the nested test server: no state.
- Focus and key bindings under X11, which change no state of AquariWM.

## The plan

Done: `Group`, `GroupNode`, `NodeList`; `Stack`, `State`, `TilingContract`,
`AquariWm`; `X11`; `Wayland`, `Dragging`; `NumbersToWords`, `DeriveExtras`. Every
safety property of the runs is proved. What is left waits for the code:

1. `LayoutTree`: groups in groups with `update_settings`, whose sizes reach a
   nested group without being seen by it, once something calls it; `Spiral` on top
   of it, once it is finished.
2. The layout under Wayland, once the compositor uses it: `State` and `Wayland`
   composed as `State` and `X11` are.
