----------------------------- MODULE GridButtons -----------------------------
(***************************************************************************)
(* The buttons of a grid and their plugins, which check the selection or   *)
(* ask the user before the action of the button runs, with the messages of *)
(* the page.                                                               *)
(*                                                                         *)
(* A plugin is a listener of the click that may stop it; one that asks     *)
(* always does, and resumes the click from the answer.  Meanwhile the      *)
(* store may be reloaded and answers may arrive: only the user is kept     *)
(* from the grid by the modal box.                                         *)
(***************************************************************************)
EXTENDS MessageManager, Naturals, Sequences

CONSTANTS
    Rows,          \* the records of the grid
    Buttons,       \* each a sequence of plugins
    Actions,       \* the messages of the actions of the server
    Values,        \* of the column the plugins read
    Allowed,       \* those grid-validate-property lets through
    Risky,         \* those grid-checker-message-box asks about
    NotSelected,   \* message of grid-selected-one and grid-selected-at-least-one
    NotValid       \* message of grid-validate-property

ASSUME ButtonsAssumption ==
    /\ {NotSelected, NotValid} \subseteq Messages
    /\ Actions \subseteq MessageLists
    /\ Allowed \cup Risky \subseteq Values

VARIABLES
    value,       \* the column the plugins read, of each record
    selection,   \* the selection of the grid
    unasked      \* the values of the last action a checker let through at once

buttonVars == <<value, selection, unasked>>
vars == <<managerVars, buttonVars>>

Plugins == {"selectedOne", "selectedAtLeastOne", "validateProperty",
            "messageBox", "checkerMessageBox", "checkerWithoutConfirm"}

TypeOK ==
    /\ panel \in Panels
    /\ kept \in MessageLists
    /\ dialog \in Dialogs
    /\ value \in [Rows -> Values]
    /\ selection \subseteq Rows
    /\ unasked \subseteq Values

Init ==
    /\ ManagerInit
    /\ value \in [Rows -> Values]
    /\ selection = {}
    /\ unasked = {}

-----------------------------------------------------------------------------
\* The plugins.

SelectedValues == {value[r] : r \in selection}

\* The click listener of a plugin returns false.
Stops(plugin) ==
    CASE plugin = "selectedOne" -> Cardinality(selection) # 1
      [] plugin = "selectedAtLeastOne" -> selection = {}
      [] plugin = "validateProperty" -> ~(SelectedValues \subseteq Allowed)
      [] OTHER -> TRUE

Error(text) == [NoMessages EXCEPT !["errors"] = {text}]

\* processIndividualMessages: messages of a page are those of an action that
\* succeeded.
SelectionError(p) ==
    /\ Succeed(Clean(p), dialog, Error(NotSelected), "panel", "inline")
    /\ UNCHANGED buttonVars

\* The messages of the clicks before are not cleaned.
PropertyError ==
    /\ Succeed(panel, dialog, Error(NotValid), "panel", "inline")
    /\ UNCHANGED buttonVars

Ask(question) ==
    /\ dialog' = question
    /\ UNCHANGED <<panel, kept, buttonVars>>

\* Variant: the records are not looked at again.
FirstBoxAccepted_NotChecked ==
    /\ dialog' = "none"
    /\ unasked' = SelectedValues
    /\ UNCHANGED <<panel, kept, value, selection>>

\* _firstBoxAccepted: the records that are selected now decide on the second
\* box; without one the click resumes.
FirstBoxAccepted ==
    IF Risky \cap SelectedValues # {}
      THEN Ask("check")
      ELSE /\ dialog' = "none"
           /\ unasked' = SelectedValues
           /\ UNCHANGED <<panel, kept, value, selection>>

StoppedBy(plugin) ==
    \/ plugin \in {"selectedOne", "selectedAtLeastOne"} /\ SelectionError(panel)
    \/ plugin = "validateProperty" /\ PropertyError
    \/ plugin = "messageBox" /\ Ask("box")
    \/ plugin = "checkerMessageBox" /\ Ask("confirm")
    \/ plugin = "checkerWithoutConfirm" /\ FirstBoxAccepted

\* The first plugin that stops the click keeps it from those after it, and from
\* the action.
Click(button) ==
    /\ dialog = "none"
    /\ panel.rendered
    /\ \E i \in DOMAIN button :
         /\ Stops(button[i])
         /\ \A j \in 1..(i - 1) : ~Stops(button[j])
         /\ StoppedBy(button[i])

-----------------------------------------------------------------------------
\* The message box.

\* OK of a text, no, or the cross of any box.
CloseDialog ==
    /\ dialog # "none"
    /\ dialog' = "none"
    /\ UNCHANGED <<panel, kept, buttonVars>>

\* Yes to the only question of a button, or to the second: the click resumes.
SayYes ==
    \/ dialog = "confirm" /\ FirstBoxAccepted
    \/ /\ dialog = "check"
       /\ dialog' = "none"
       /\ unasked' = {}
       /\ UNCHANGED <<panel, kept, value, selection>>

-----------------------------------------------------------------------------
\* The grid.

SelectRows(rows) ==
    /\ dialog = "none"
    /\ selection' = rows
    /\ UNCHANGED <<managerVars, value, unasked>>

\* The store is loaded again: a record has another value, or is gone and not
\* selected any more.  Several that change are several steps.
Reload(r) ==
    /\ \/ \E v \in Values : value' = [value EXCEPT ![r] = v]
                            /\ UNCHANGED selection
       \/ selection' = selection \ {r} /\ UNCHANGED value
    /\ UNCHANGED <<managerVars, unasked>>

\* The grid of the next page has nothing selected.
OpenNextPage ==
    /\ NextPage
    /\ selection' = {}
    /\ UNCHANGED <<value, unasked>>

MessageStep ==
    \/ \E action \in Actions, target \in Targets, mode \in Modes :
         \/ ActionSucceeds(action, target, mode)
         \/ ActionFails(action, target, mode)
    \/ ActionAlerts
    \/ \E action \in Actions : KeepMessages(action)
    \/ Render
    \/ CleanMessages
    \/ \E k \in Kinds : UserClicksIcon(k) \/ UserClosesBox(k)

Next ==
    \/ MessageStep /\ UNCHANGED buttonVars
    \/ \E button \in Buttons : Click(button)
    \/ CloseDialog
    \/ SayYes
    \/ \E rows \in SUBSET Rows : SelectRows(rows)
    \/ \E r \in Rows : Reload(r)
    \/ OpenNextPage

Spec == Init /\ [][Next]_vars

-----------------------------------------------------------------------------
\* Properties.

\* XORIconMessage: an icon and its box are never shown together, whatever is
\* clicked, closed, cleaned or delivered.
IconXorBox == panel.XORIconMessage => panel.box \cap panel.icon = {}

\* With icons, no message the panel holds is out of reach: its box is shown or
\* its icon can be clicked, unless the user closed the box of a panel that is
\* configured to forget the icon then.
EveryMessageReachable ==
    panel.showIcon =>
      \A k \in Present(panel.actionData) :
        \/ k \in panel.box \cup SeenIcons(panel)
        \/ panel.closeHideIcon /\ k \in panel.dismissed

\* Messages kept for a later page leave the session storage for the panel or
\* for a message box only, however pages, answers and clicks follow.
KeptNotLost ==
    [][kept # NoMessages /\ kept' = NoMessages =>
         \/ \A k \in Kinds : kept[k] \subseteq panel'.actionData[k]
         \/ dialog' = "message"]_vars

\* The checker never lets an action run on a record it must ask about without
\* the second answer, even when the records change while the first is open.
RiskyIsAsked == Risky \cap unasked = {}

=============================================================================
