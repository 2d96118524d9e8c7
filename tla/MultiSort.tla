------------------------------ MODULE MultiSort ------------------------------
(***************************************************************************)
(* The sorting toolbar of a grid: a button for each column the store is    *)
(* sorted by, in their order.  Buttons come from clicks on headers and     *)
(* from headers dropped on the toolbar, are reordered with the mouse, and  *)
(* go with their arrow, their column or all at once.  The order that the   *)
(* disk button saves is never read back, and left out.                     *)
(***************************************************************************)
EXTENDS BoxReorderer, SequencesExt

CONSTANTS
    AvoidSort    \* the columns whose headers do not sort when they are clicked

ASSUME MultiSortAssumption == {"text", "fill", "disk", "reset"} \subseteq Fixed

VARIABLES
    enablePersistance,  \* configuration: there is a button to save the order
    direction,          \* of the button of each column
    sorted,             \* the sorters the store was sorted by
    unsorted            \* a reset or a new store came since

sortVars == <<items, enablePersistance, direction,
              sorted, unsorted, dragVars>>

Directions == {"ASC", "DESC"}
Sorters == [property : Columns, direction : Directions]

MultiSortTypeOK ==
    /\ ReordererTypeOK
    /\ {enablePersistance, unsorted} \subseteq BOOLEAN
    /\ direction \in [Columns -> Directions]
    /\ sorted \in Seq(Sorters)

\* The items of a toolbar without sorters.
Frame == <<"text", "fill">>
         \o IF enablePersistance THEN <<"disk", "reset">> ELSE <<"reset">>

MultiSortInit ==
    /\ enablePersistance \in BOOLEAN
    /\ items = Frame
    /\ direction = [c \in Columns |-> "ASC"]
    /\ sorted = <<>>
    /\ unsorted = TRUE
    /\ ReordererInit

\* getSorters: the buttons of a toolbar, in its order.
GetSorters(toolbar, dir) ==
    LET sorters[n \in 0..Len(toolbar)] ==
          IF n = 0 THEN <<>>
          ELSE IF toolbar[n] \in Columns
            THEN Append(sorters[n - 1],
                        [property |-> toolbar[n], direction |-> dir[toolbar[n]]])
          ELSE sorters[n - 1]
    IN sorters[Len(toolbar)]

HasButton(c) == Contains(items, c)

ButtonIndex(c) == CHOOSE i \in DOMAIN items : items[i] = c

-----------------------------------------------------------------------------
\* Steps of several handlers.

\* doSort, once items and direction are what they become.
DoSort ==
    /\ sorted' = GetSorters(items', direction')
    /\ unsorted' = FALSE

\* changeSortDirection of a button.
Toggle(c) ==
    /\ direction' = [direction EXCEPT ![c] = IF @ = "ASC" THEN "DESC" ELSE "ASC"]
    /\ UNCHANGED items
    /\ DoSort

\* A new button before the item at position i, or at the end if there is no
\* such position.
Insert(c, i) ==
    /\ items' = IF i < 1 THEN Append(items, c) ELSE InsertAt(items, i, c)
    /\ direction' = [direction EXCEPT ![c] = "ASC"]
    /\ DoSort

\* Variant: the store is sorted before the button is gone.
RemoveBtn_SortsFirst(c) ==
    /\ items' = RemoveAt(items, ButtonIndex(c))
    /\ UNCHANGED direction
    /\ sorted' = GetSorters(items, direction)
    /\ unsorted' = FALSE
    /\ Forget({c})

\* _removeBtn.
RemoveBtn(c) ==
    /\ items' = RemoveAt(items, ButtonIndex(c))
    /\ UNCHANGED direction
    /\ DoSort
    /\ Forget({c})

-----------------------------------------------------------------------------
\* Handlers.

\* onSortChange, from a click on a header: a button that is there changes its
\* direction, one that is not is added after the others.
OnSortChange(c) ==
    /\ mouse = "up"
    /\ c \notin AvoidSort
    /\ IF HasButton(c) THEN Toggle(c)
       ELSE Insert(c, Len(items) - IF enablePersistance THEN 2 ELSE 1)
    /\ UNCHANGED <<enablePersistance, dragVars>>

\* Variant: only the buttons before the place of the drop are looked at.
CanDrop_Before(c, i) ==
    \A j \in 1..(i - 1) : items[j] # c

\* canDrop: a column has one button.
CanDrop(c, i) == ~HasButton(c)

\* calculateEntryIndex: never before the text, and never after the button
\* before the last one.
EntryIndexes == {Max({2, Min({i, Len(items) - 1})}) : i \in DOMAIN items}

\* notifyDrop of a header on the toolbar, and afterLayout.
NotifyDrop(c, i) ==
    /\ mouse = "up"
    /\ CanDrop(c, i)
    /\ Insert(c, i)
    /\ UNCHANGED <<enablePersistance, dragVars>>

\* A click on a button or on its arrow, unless its events are suspended.
ClickButton ==
    /\ Release
    /\ IF suspended[dragCmp] = 0 THEN Toggle(dragCmp)
                                 ELSE UNCHANGED <<items, direction, sorted, unsorted>>
    /\ UNCHANGED enablePersistance

\* arrowclick: the item under the mouse is the button, which is then removed
\* a second time, in vain.
ArrowClick ==
    /\ mouse = "down"
    /\ suspended[dragCmp] = 0
    /\ mouse' = "up"
    /\ RemoveBtn(dragCmp)
    /\ UNCHANGED <<enablePersistance, reflows>>

\* onColumnHide.
OnColumnHide(c) ==
    /\ mouse = "up"
    /\ HasButton(c)
    /\ RemoveBtn(c)
    /\ UNCHANGED <<enablePersistance, mouse, reflows>>

\* Variant: the count forgets the button to save the order.
KeptByReset_ForgetsText(toolbar) ==
    SubSeq(toolbar, Len(toolbar) - Len(Frame) + 1, Len(toolbar))

\* The second item is removed until there are as many as in an empty toolbar.
KeptByReset(toolbar) ==
    <<toolbar[1]>> \o SubSeq(toolbar, Len(toolbar) - Len(Frame) + 2, Len(toolbar))

\* resetSort: the store stays as it was sorted.
ResetSort ==
    /\ mouse = "up"
    /\ Len(items) > Len(Frame)
    /\ items' = KeptByReset(items)
    /\ unsorted' = TRUE
    /\ Forget({c \in Columns : HasButton(c) /\ ~Contains(items', c)})
    /\ UNCHANGED <<enablePersistance, direction, sorted,
                   mouse, reflows>>

\* onAfterReconfigure: the grid has another store; the buttons stay.
OnAfterReconfigure ==
    /\ mouse = "up"
    /\ sorted' = <<>>
    /\ unsorted' = TRUE
    /\ UNCHANGED <<items, enablePersistance, direction,
                   dragVars>>

\* Variant: the order is left for the next sort.
Dropped_NotSorted ==
    /\ EndDrag
    /\ UNCHANGED <<enablePersistance, direction, sorted,
                   unsorted>>

\* The drop event of the reorderer.
Dropped ==
    /\ EndDrag
    /\ UNCHANGED <<enablePersistance, direction>>
    /\ DoSort

Reordering ==
    /\ \/ \E i \in DOMAIN items : MouseDown(i) \/ Drag(i)
       \/ StartDrag
       \/ AfterBoxReflow
    /\ UNCHANGED <<enablePersistance, direction, sorted,
                   unsorted>>

MultiSortNext ==
    \/ \E c \in Columns : OnSortChange(c) \/ OnColumnHide(c)
    \/ \E c \in Columns, i \in EntryIndexes : NotifyDrop(c, i)
    \/ ClickButton
    \/ ArrowClick
    \/ ResetSort
    \/ OnAfterReconfigure
    \/ Reordering
    \/ Dropped

MultiSortSpec == MultiSortInit /\ [][MultiSortNext]_sortVars

-----------------------------------------------------------------------------
\* Properties.

\* The store is sorted by the buttons of the toolbar, in their order, once it
\* was sorted after a reset or a new store and no button is being dragged.
StoreFollowsToolbar ==
    unsorted \/ mouse = "drag" \/ sorted = GetSorters(items, direction)

\* However headers are clicked and dropped and buttons dragged, a column has
\* one button, and a reset leaves the toolbar as it was at first.  The last is
\* lost with the button to save the order: headers can be dropped between it
\* and the filler, and a reset then takes the filler and leaves their buttons.
ToolbarWellFormed ==
    /\ \A c \in Columns : Cardinality({i \in DOMAIN items : items[i] = c}) <= 1
    /\ ~enablePersistance => KeptByReset(items) = Frame

\* A button whose events are suspended is being dragged, waits for its reflow,
\* or was abandoned by it because another button was pressed first.
EventsComeBack ==
    \A c \in Columns :
      suspended[c] > 0 => \/ c = dragCmp /\ (mouse = "drag" \/ reflows > 0)
                          \/ c \in abandoned

=============================================================================
