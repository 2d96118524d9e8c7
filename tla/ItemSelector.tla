----------------------------- MODULE ItemSelector -----------------------------
(***************************************************************************)
(* A form field of two lists: the records of its store that are not        *)
(* selected, and those that are, in an order the user chooses with buttons *)
(* and by dragging.  The value of the field is the list of the selected    *)
(* ones; it may be set before the store is loaded, and the store may be    *)
(* loaded again while the user is at work.                                 *)
(*                                                                         *)
(* Records are keyed by their value.  Layout, tooltips and the marks on    *)
(* the rows are left out.                                                  *)
(***************************************************************************)
EXTENDS Integers, Sequences, SequencesExt, FiniteSetsExt

CONSTANTS
    Items,      \* the records, in the order of the store
    Unknown     \* a value no record has

VARIABLES
    store,      \* the records of the field's store; none until it is loaded
    listening,  \* it had none when it was bound: each load is followed
    from, to,   \* the records of the two lists
    fromSel,    \* those selected in each list
    toSel,
    populated,  \* the left list was filled
    waiting,    \* the value to set once it is, or NoValue
    value,      \* the value of the field
    wanted,      \* the last value set, until the user moves records; or NoValue
    disabled,
    reloaded    \* the store was loaded since the lists were made from it

selectorVars == <<store, listening, from, to, fromSel, toSel, populated, waiting,
                  value, wanted, disabled, reloaded>>
lists == <<from, to, fromSel, toSel, value>>

NoValue == <<"no value">>
NoRecord == "no record"

ASSUME SelectorAssumption ==
    /\ Items \in Seq(Range(Items)) \ {<<>>}
    /\ IsInjective(Items)
    /\ \A r \in Range(Items) : r # Unknown /\ r # NoRecord /\ <<r>> # NoValue
    /\ <<Unknown>> # NoValue

\* The records of a list that are chosen, in its order.
Among(list, chosen) ==
    LET kept[n \in 0..Len(list)] ==
          IF n = 0 THEN <<>>
          ELSE IF list[n] \in chosen THEN Append(kept[n - 1], list[n])
          ELSE kept[n - 1]
    IN kept[Len(list)]

Without(list, gone) == Among(list, Range(list) \ gone)

\* Variant: what the store has is added again.
Put_Again(list, records) == list \o records

\* A store holds a key once: what it has is not added again.
Put(list, records) == list \o Without(records, Range(list))

InsertAll(list, at, records) ==
    SubSeq(list, 1, at - 1) \o records \o SubSeq(list, at, Len(list))

IndexOfRecord(list, r) == CHOOSE i \in DOMAIN list : list[i] = r

Listed(list, keys) == list \in Seq(keys) /\ IsInjective(list)

SelectorTypeOK ==
    /\ Listed(store, Range(Items))
    /\ Listed(from, Range(Items)) /\ Listed(to, Range(Items))
    /\ fromSel \subseteq Range(from) /\ toSel \subseteq Range(to)
    /\ waiting = NoValue \/ waiting \in Seq(Range(Items) \union {Unknown})
    /\ wanted = NoValue \/ wanted \in Seq(Range(Items) \union {Unknown})
    /\ Listed(value, Range(Items) \union {Unknown})
    /\ {listening, populated, disabled, reloaded} \subseteq BOOLEAN

\* initComponent: bound to a store that is loaded, or not yet.
SelectorInit ==
    /\ store \in {<<>>, Items}
    /\ listening = (store = <<>>)
    /\ from = store
    /\ to = <<>>
    /\ fromSel = {} /\ toSel = {}
    /\ populated = (store # <<>>)
    /\ waiting = NoValue
    /\ value = <<>>
    /\ wanted = NoValue
    /\ disabled = FALSE
    /\ reloaded = FALSE

-----------------------------------------------------------------------------
\* The value.

\* setupValue and getRecordsForValue: keys, each once, and the records of the
\* store that have them.
SetupValue(keys) ==
    LET out[n \in 0..Len(keys)] ==
          IF n = 0 THEN <<>>
          ELSE LET done == out[n - 1]
               IN IF keys[n] \in Range(done) THEN done ELSE Append(done, keys[n])
    IN out[Len(keys)]

RecordsForValue(keys, held) == Among(keys, Range(held))

\* setValue on a list that is filled: both lists are made anew.
SetNow(keys, held) ==
    /\ value' = SetupValue(keys)
    /\ to' = RecordsForValue(SetupValue(keys), held)
    /\ from' = Without(held, Range(to'))
    /\ fromSel' = fromSel \intersect Range(from')
    /\ toSel' = toSel \intersect Range(to')
    /\ reloaded' = FALSE

\* setValue: before that it waits, and of several waits, which all run, the last
\* has the last word.
SetValue(keys) ==
    /\ IF populated
         THEN SetNow(keys, store) /\ UNCHANGED waiting
         ELSE waiting' = keys /\ UNCHANGED <<lists, reloaded>>
    /\ wanted' = keys
    /\ UNCHANGED <<store, listening, populated, disabled>>

\* Variant: the value that waits is forgotten.
PopulateFromStore_Forgets(held) ==
    /\ populated' = TRUE
    /\ from' = Put(from, held)
    /\ reloaded' = populated
    /\ UNCHANGED <<to, fromSel, toSel, value, waiting>>

\* populateFromStore: every record goes to the left list, those of the right one
\* too, and then the values that wait are set.
PopulateFromStore(held) ==
    /\ populated' = TRUE
    /\ IF waiting # NoValue
         THEN SetNow(waiting, held) /\ waiting' = NoValue
         ELSE /\ from' = Put(from, held)
              /\ reloaded' = populated
              /\ UNCHANGED <<to, fromSel, toSel, value, waiting>>

\* onBindStore: the load event of the store, the first one or a later one.  A load
\* may bring nothing; one that fails has the same event and leaves the records.
Load ==
    \E held \in SUBSET Range(Items) :
      /\ store' = Among(Items, held)
      /\ IF listening
           THEN PopulateFromStore(store')
           ELSE /\ reloaded' = TRUE
                /\ UNCHANGED <<lists, populated, waiting>>
      /\ UNCHANGED <<wanted, listening, disabled>>

\* syncValue, after each change of the lists; there is nothing to move before
\* they are filled.
SyncValue ==
    /\ value' = SetupValue(to')
    /\ wanted' = IF populated THEN NoValue ELSE wanted

-----------------------------------------------------------------------------
\* What the user does.  Every one of these leaves the store alone.

Kept == UNCHANGED <<store, listening, populated, waiting, disabled, reloaded>>

\* getSelections: in the order of the list, whatever the order of the clicks.
Selections(list, sel) == Among(list, sel)

Select(sel, list) ==
    /\ sel \subseteq Range(list) /\ ~disabled
    /\ UNCHANGED <<from, to, value, wanted>> /\ Kept

Click ==
    \/ \E sel \in SUBSET Range(from) : Select(sel, from) /\ fromSel' = sel /\ UNCHANGED toSel
    \/ \E sel \in SUBSET Range(to) : Select(sel, to) /\ toSel' = sel /\ UNCHANGED fromSel

Reorder(list) ==
    /\ ~disabled
    /\ to' = list
    /\ SyncValue
    /\ UNCHANGED <<from, fromSel, toSel>> /\ Kept

OnTop == Reorder(Selections(to, toSel) \o Without(to, toSel))

OnBottom == Reorder(Without(to, toSel) \o Selections(to, toSel))

MoveTo(list, r, at) == InsertAll(Without(list, {r}), at, <<r>>)

\* Variant: the index is not kept from one record to the next.
MovedUp_Forgets(list, sel) ==
    FoldLeft(LAMBDA l, r : MoveTo(l, r, Max({1, IndexOfRecord(l, r) - 1})),
             list, Selections(list, sel))

\* One turn of the loops of onUpBtnClick and onDownBtnClick: a record goes one place
\* on, but not beyond the place next to that of the record before it.
MoveOne(a, r, step) ==
    LET there == IndexOfRecord(a.list, r) + step
        at == IF step = -1 THEN Max({a.index, there}) ELSE Min({a.index, there})
    IN [list |-> MoveTo(a.list, r, at), index |-> at - step]

Moved(list, chosen, start, step) ==
    LET moved[n \in 0..Len(chosen)] ==
          IF n = 0 THEN [list |-> list, index |-> start]
          ELSE MoveOne(moved[n - 1], chosen[n], step)
    IN moved[Len(chosen)].list

\* onUpBtnClick: from the first.
MovedUp(list, sel) == Moved(list, Selections(list, sel), 1, -1)

OnUp == Reorder(MovedUp(to, toSel))

\* onDownBtnClick: from the last.
MovedDown(list, sel) == Moved(list, Reverse(Selections(list, sel)), Len(list), 1)

OnDown == Reorder(MovedDown(to, toSel))

\* moveRec: at the end of the other list.
MoveRec(add, records) ==
    /\ ~disabled
    /\ IF add THEN /\ from' = Without(from, Range(records))
                   /\ to' = Put(to, records)
              ELSE /\ to' = Without(to, Range(records))
                   /\ from' = Put(from, records)
    /\ SyncValue
    /\ Kept

OnAdd ==
    /\ MoveRec(TRUE, Selections(from, fromSel))
    /\ fromSel' = {} /\ toSel' = fromSel

OnRemove ==
    /\ MoveRec(FALSE, Selections(to, toSel))
    /\ toSel' = {} /\ fromSel' = toSel

\* onItemDblClick: the selections keep what is still in their list.
OnItemDblClick ==
    /\ \/ \E r \in Range(from) : MoveRec(TRUE, <<r>>)
       \/ \E r \in Range(to) : MoveRec(FALSE, <<r>>)
    /\ fromSel' = fromSel \intersect Range(from')
    /\ toSel' = toSel \intersect Range(to')

\* The list with the records that are dropped before or after another of its
\* records, or in it when it is empty.
DroppedIn(list, records, target, after) ==
    LET left == Without(list, Range(records))
    IN IF target = NoRecord THEN records
       ELSE InsertAll(left, IndexOfRecord(left, target) + (IF after THEN 1 ELSE 0), records)

Target(list, moved, target) ==
    IF list = <<>> THEN target = NoRecord ELSE target \in Range(list) \ moved

\* What is dragged comes in the order in which it was selected.
InAnyOrder(sel) ==
    {records \in SeqOf(sel, Cardinality(sel)) :
       IsInjective(records) /\ Range(records) = sel}

\* handleNodeDrop in the right list, of its own records or of those of the other
\* one; then the drop event.
DropInTo(target, after, other) ==
    LET sel == IF other THEN fromSel ELSE toSel
    IN /\ ~disabled /\ sel # {} /\ Target(to, sel, target)
       /\ other => sel \intersect Range(to) = {}
       /\ \E records \in InAnyOrder(sel) : to' = DroppedIn(to, records, target, after)
       /\ from' = IF other THEN Without(from, sel) ELSE from
       /\ fromSel' = fromSel \intersect Range(from') /\ toSel' = sel
       /\ SyncValue
       /\ Kept

DropInFrom(target, after, other) ==
    LET sel == IF other THEN toSel ELSE fromSel
    IN /\ ~disabled /\ sel # {} /\ Target(from, sel, target)
       /\ other => sel \intersect Range(from) = {}
       /\ \E records \in InAnyOrder(sel) :
            from' = DroppedIn(from, records, target, after)
       /\ to' = IF other THEN Without(to, sel) ELSE to
       /\ toSel' = toSel \intersect Range(to') /\ fromSel' = sel
       /\ SyncValue
       /\ Kept

Drop ==
    \E target \in Range(Items) \union {NoRecord}, after, other \in BOOLEAN :
      DropInTo(target, after, other) \/ DropInFrom(target, after, other)

\* onEnable and onDisable, of both lists and the buttons.
Enable(on) ==
    /\ disabled = on /\ disabled' = ~on
    /\ UNCHANGED <<store, listening, lists, populated, waiting, wanted, reloaded>>

SelectorNext ==
    \/ \E keys \in {<<>>, <<Unknown, Items[1], Items[1]>>, Reverse(Items)} : SetValue(keys)
    \/ Load
    \/ Click
    \/ OnTop \/ OnBottom \/ OnUp \/ OnDown
    \/ OnAdd \/ OnRemove \/ OnItemDblClick \/ Drop
    \/ \E on \in BOOLEAN : Enable(on)

SelectorSpec == SelectorInit /\ [][SelectorNext]_selectorVars

-----------------------------------------------------------------------------
\* Properties.

\* However records are moved, dropped and set, none is lost and none is in both
\* lists, as long as the store is not loaded a second time; and the value is the
\* right list, in its order, but for values no record has.  A value that waits for
\* the store is set when it is loaded, and once: what was set last is the
\* value until the user moves records.
EachInOneList ==
    populated =>
      /\ waiting = NoValue
      /\ wanted # NoValue => value = SetupValue(wanted)
      /\ ~reloaded => /\ Range(from) \intersect Range(to) = {}
                      /\ Range(from) \union Range(to) = Range(store)
      /\ Among(value, Range(to)) = to
      /\ ~reloaded => Range(value) \subseteq Range(to) \union {Unknown} \union
                                             (Range(Items) \ Range(store))

\* Up and down, of any choice of records: each record chosen moves one place at
\* most, and does unless it stands with chosen ones only at the end; nobody
\* overtakes one of its own kind.
OnePlace(list, moved, sel, step) ==
    /\ Without(moved, sel) = Without(list, sel)
    /\ Among(moved, sel) = Among(list, sel)
    /\ \A i \in DOMAIN list : list[i] \in sel =>
         LET beyond == {j \in DOMAIN list : (j - i) * step > 0}
         IN IndexOfRecord(moved, list[i]) - i =
              IF \A j \in beyond : list[j] \in sel THEN 0 ELSE step

UpAndDownByOne ==
    /\ OnePlace(to, MovedUp(to, toSel), toSel, -1)
    /\ OnePlace(to, MovedDown(to, toSel), toSel, 1)

=============================================================================
