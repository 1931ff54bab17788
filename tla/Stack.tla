------------------------------- MODULE Stack -------------------------------
(***************************************************************************)
(* The Main + Stack layout manager, `Stack` of src/src/layout/managers.rs, *)
(* as operators on its layout: the root group, whose first node is to be   *)
(* the main window and whose second is to be the group of the others.      *)
(***************************************************************************)
EXTENDS Group, FiniteSetsExt

CONSTANT Screen         \* the size of the screen, a function of the axis

\* TilingLayout::new subtracts the padding from the screen, unsigned.
ASSUME ScreenAssumption ==
  Screen \in [Axes -> Nat] /\ \A axis \in Axes : Screen[axis] >= 2 * Gap

\* TilingLayout::new, with the orientation of Stack.
NewLayout == GroupOf("LeftToRight", Both(Gap), [axis \in Axes |-> Screen[axis] - 2 * Gap])

-----------------------------------------------------------------------------
(* The manager.                                                            *)

\* main() and stack() return something.
HasMain(layout) == layout.children # <<>> /\ layout.children[1].kind = "window"
HasStack(layout) == Len(layout.children) > 1 /\ layout.children[2].kind = "group"

Main(layout) == layout.children[1]
Others(layout) == layout.children[2].children

NewStack(w) == PushNodeBack(GroupOf("TopToBottom", Both(0), Both(0)), WindowNode(w))

AddToLayout(layout, w) ==
  IF layout.children = <<>> THEN PushNodeBack(layout, WindowNode(w))
  ELSE IF HasStack(layout)
       THEN [layout EXCEPT !.children[2] = PushNodeBack(@, WindowNode(w))]
       ELSE PushNodeBack(layout, NewStack(w))

IsMain(layout, w) == HasMain(layout) /\ Main(layout).window = w

\* Slip: the main window's node is not marked as changed.
PromoteSilently(layout) ==
  [layout EXCEPT !.children[1].window = Others(layout)[1].window,
                 !.children[2] = RemoveNode(@, 0)]

\* Slip: the last of the stack takes the place of the main window.
PromoteLast(layout) ==
  LET n == Len(Others(layout))
  IN  [layout EXCEPT !.children[1].window  = Others(layout)[n].window,
                     !.children[1].changed = TRUE,
                     !.children[2] = RemoveNode(@, n - 1)]

\* Slip: the node of the first of the stack is moved, and not its window only.
PromoteNode(layout) ==
  [layout EXCEPT !.children[1] = [Others(layout)[1] EXCEPT !.changed = TRUE],
                 !.children[2] = RemoveNode(@, 0)]

\* The first of the stack takes the place of the main window.
Promote(layout) ==
  [layout EXCEPT !.children[1].window  = Others(layout)[1].window,
                 !.children[1].changed = TRUE,
                 !.children[2] = RemoveNode(@, 0)]

RemoveMain(layout) ==
  IF HasStack(layout) /\ Others(layout) # <<>> THEN Promote(layout) ELSE PopFront(layout)

\* The indices in the stack at which w is.
Occurrences(layout, w) ==
  IF HasStack(layout)
  THEN {i \in 0 .. Len(Others(layout)) - 1 : Others(layout)[i + 1].window = w}
  ELSE {}

RemoveOther(layout, w) ==
  IF Occurrences(layout, w) = {} THEN layout
  ELSE IF Len(Others(layout)) > 1
       THEN [layout EXCEPT !.children[2] = RemoveNode(@, Min(Occurrences(layout, w)))]
       ELSE PopBack(layout)

RemoveFromLayout(layout, w) ==
  IF IsMain(layout, w) THEN RemoveMain(layout) ELSE RemoveOther(layout, w)

-----------------------------------------------------------------------------
(* apply_changes of the root, and through it of the stack.                 *)

Nested(node) == IF node.kind = "group" THEN Apply(node) ELSE Leaf(node)

Applied(layout) ==
  LET placed == Arranged(layout)
  IN  [placed EXCEPT !.children = [k \in DOMAIN placed.children |-> Nested(placed.children[k])]]

\* The root's arithmetic panics or, once the stack is placed, the stack's does.
AppliedPanics(layout) ==
  \/ ApplyPanics(layout)
  \/ /\ ~ApplyPanics(layout)
     /\ LET placed == Arranged(layout).children
        IN  \E k \in DOMAIN placed : placed[k].kind = "group" /\ ApplyPanics(placed[k])

\* The nodes of the windows, the main's and then the stack's.
WindowNodes(layout) ==
  FlattenSeq([k \in DOMAIN layout.children |->
                LET node == layout.children[k]
                IN  IF node.kind = "window" THEN <<node>> ELSE node.children])

\* Slip: only the root's own windows are reconfigured.
ToReconfigureAtRoot(layout) ==
  LET after == Applied(layout).children IN {after[k] : k \in Reconfigured(layout)}

\* The nodes for which apply_changes calls reconfigure_window, as it does.
ToReconfigure(layout) ==
  LET after == Applied(layout).children
  IN  {after[k] : k \in Reconfigured(layout)} \cup
      UNION {{after[k].children[j] : j \in Reconfigured(layout.children[k])} :
               k \in {k \in DOMAIN after : after[k].kind = "group"}}

Place(node) == [at |-> node.at, size |-> node.size]

=============================================================================
