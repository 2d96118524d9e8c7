----------------------------- MODULE BoxReorderer -----------------------------
(***************************************************************************)
(* Reordering the items of a toolbar with the mouse.  An item that is      *)
(* dragged changes places with those it passes, fires no event meanwhile,  *)
(* and is given its events back by afterBoxReflow, which runs later, once  *)
(* the boxes have moved, on whatever item was pressed last.                *)
(***************************************************************************)
EXTENDS Integers, Sequences, FiniteSetsExt

CONSTANTS
    Columns,     \* the items that can be moved: one button per column
    Fixed,       \* those that cannot
    MaxReflows   \* bound of the drops whose boxes still move, and of suspended

Nobody == "nobody"

ASSUME ReordererAssumption ==
    /\ Columns \cap Fixed = {}
    /\ Nobody \notin Columns
    /\ MaxReflows \in Nat

VARIABLES
    items,       \* the toolbar
    mouse,       \* "up", "down" on dragCmp, or "drag"
    dragCmp,     \* the item pressed last
    startIndex,  \* where it was
    curIndex,    \* where it is
    reflows,     \* how many afterBoxReflow are still to run
    suspended,   \* how often the events of an item are suspended
    abandoned    \* the items that lost a reflow to another one

dragVars == <<mouse, dragCmp, startIndex, curIndex, reflows, suspended, abandoned>>

ReordererTypeOK ==
    /\ items \in Seq(Columns \cup Fixed)
    /\ mouse \in {"up", "down", "drag"}
    /\ dragCmp \in Columns \cup {Nobody}
    /\ {startIndex, curIndex} \subseteq 0..Len(items)
    /\ reflows \in 0..MaxReflows
    /\ suspended \in [Columns -> 0..MaxReflows]
    /\ abandoned \subseteq Columns

ReordererInit ==
    /\ mouse = "up"
    /\ dragCmp = Nobody
    /\ startIndex = 0
    /\ curIndex = 0
    /\ reflows = 0
    /\ suspended = [c \in Columns |-> 0]
    /\ abandoned = {}

Reorderable(i) == items[i] \notin Fixed

\* clickValidator and onMouseDown: the item pressed is the one that later
\* callbacks speak of.
MouseDown(i) ==
    /\ mouse = "up"
    /\ Reorderable(i)
    /\ mouse' = "down"
    /\ dragCmp' = items[i]
    /\ startIndex' = i
    /\ curIndex' = i
    /\ abandoned' = IF reflows > 0 /\ dragCmp # items[i]
                      THEN (abandoned \cup {dragCmp}) \ {Nobody}
                      ELSE abandoned
    /\ UNCHANGED <<items, reflows, suspended>>

StartDrag ==
    /\ mouse = "down"
    /\ reflows < MaxReflows
    /\ suspended[dragCmp] < MaxReflows
    /\ mouse' = "drag"
    /\ suspended' = [suspended EXCEPT ![dragCmp] = @ + 1]
    /\ UNCHANGED <<items, dragCmp, startIndex, curIndex, reflows, abandoned>>

\* findReorderable: from the index, away from where the drag began.
FindReorderable(n) ==
    IF n > startIndex \/ Reorderable(n)
      THEN {i \in n..Len(items) : Reorderable(i)}
      ELSE {i \in 1..n : Reorderable(i)}

\* Variant: the items between the two shift, and one that cannot be moved with
\* them.
DoSwap_Shifts(n) ==
    LET rest == SubSeq(items, 1, curIndex - 1)
                \o SubSeq(items, curIndex + 1, Len(items))
    IN SubSeq(rest, 1, n - 1) \o <<items[curIndex]>> \o SubSeq(rest, n, Len(rest))

\* doSwap: the item and the one at n, taken out and put in again, change places.
DoSwap(n) ==
    [items EXCEPT ![curIndex] = items[n], ![n] = items[curIndex]]

\* onDrag, over the item at n: the nearest that can be moved, if there is one.
Drag(n) ==
    /\ mouse = "drag"
    /\ n # curIndex
    /\ LET found == FindReorderable(n)
           near == IF n > startIndex \/ Reorderable(n) THEN Min(found)
                                                       ELSE Max(found)
       IN /\ found # {}
          /\ items' = DoSwap(near)
          /\ curIndex' = near
    /\ UNCHANGED <<mouse, dragCmp, startIndex, reflows, suspended, abandoned>>

\* endDrag: the clean-up waits for the boxes to move.
EndDrag ==
    /\ mouse = "drag"
    /\ mouse' = "up"
    /\ reflows' = reflows + 1
    /\ UNCHANGED <<items, dragCmp, startIndex, curIndex, suspended, abandoned>>

\* Variant: the clean-up is left out for an item that was not moved.
AfterBoxReflow_OnlyMoved ==
    /\ reflows > 0
    /\ reflows' = reflows - 1
    /\ suspended' = IF dragCmp = Nobody \/ startIndex = curIndex THEN suspended
                    ELSE [suspended EXCEPT ![dragCmp] = Max({@ - 1, 0})]
    /\ UNCHANGED <<items, mouse, dragCmp, startIndex, curIndex, abandoned>>

\* afterBoxReflow: the events of the item pressed last are resumed.
AfterBoxReflow ==
    /\ reflows > 0
    /\ reflows' = reflows - 1
    /\ suspended' = IF dragCmp = Nobody THEN suspended
                    ELSE [suspended EXCEPT ![dragCmp] = Max({@ - 1, 0})]
    /\ UNCHANGED <<items, mouse, dragCmp, startIndex, curIndex, abandoned>>

\* The mouse is released where it was pressed.
Release ==
    /\ mouse = "down"
    /\ mouse' = "up"
    /\ UNCHANGED <<dragCmp, startIndex, curIndex, reflows, suspended, abandoned>>

\* A button that is taken away takes its suspended events with it.
Forget(buttons) ==
    /\ suspended' = [c \in Columns |-> IF c \in buttons THEN 0 ELSE suspended[c]]
    /\ abandoned' = abandoned \ buttons
    /\ dragCmp' = IF dragCmp \in buttons THEN Nobody ELSE dragCmp
    /\ startIndex' = 0
    /\ curIndex' = 0

=============================================================================
