-------------------------- MODULE MessagesManagement --------------------------
(***************************************************************************)
(* The message panel of an ExtJS page: three boxes (errors, warnings,      *)
(* informations), three icons that stand for boxes that are not shown, and *)
(* the bar that holds the icons.  A panel is a record; its methods are     *)
(* operators from a panel to the next one, for MessageManager calls        *)
(* several of them in one go.  Texts, titles and tips are left out.        *)
(***************************************************************************)
EXTENDS FiniteSets

CONSTANT Messages   \* what can be said

\* The most serious first: one box is shown, of the first kind there is.
Kinds == {"errors", "warnings", "infos"}

MoreSerious(k) ==
    CASE k = "errors" -> {}
      [] k = "warnings" -> {"errors"}
      [] k = "infos" -> {"errors", "warnings"}

\* The messages of an action, or of a panel, by kind.
MessageLists == [Kinds -> SUBSET Messages]

NoMessages == [k \in Kinds |-> {}]

Present(lists) == {k \in Kinds : lists[k] # {}}

First(lists) == {k \in Present(lists) : MoreSerious(k) \cap Present(lists) = {}}

\* dismissed belongs to the properties: the boxes the user closed since they
\* were filled.
Panels ==
    [showIcon : BOOLEAN, XORIconMessage : BOOLEAN, closeHideIcon : BOOLEAN,
     rendered : BOOLEAN, actionData : MessageLists,
     box : SUBSET Kinds, icon : SUBSET Kinds, bar : BOOLEAN,
     dismissed : SUBSET Kinds]

\* init: a box that takes its icon with it needs the exclusive mode, and the
\* exclusive mode needs icons.
Configured(showIcon, exclusive, closeHides) ==
    LET xor == exclusive \/ closeHides IN
      [showIcon |-> showIcon \/ xor, XORIconMessage |-> xor,
       closeHideIcon |-> closeHides, rendered |-> FALSE,
       actionData |-> NoMessages, box |-> {}, icon |-> {}, bar |-> FALSE,
       dismissed |-> {}]

\* Messages accumulate, each of them once.
Merge(lists, action) == [k \in Kinds |-> lists[k] \cup action[k]]

\* Variant: the box of every kind is shown, whatever the icons.
Process_AllBoxes(panel, action) ==
    LET lists == Merge(panel.actionData, action)
        icons == IF panel.XORIconMessage THEN Present(lists) \ First(lists)
                                         ELSE Present(lists)
    IN [panel EXCEPT
          !.actionData = lists,
          !.box = Present(lists),
          !.icon = icons,
          !.bar = (@ \/ panel.showIcon) /\ icons # {},
          !.dismissed = {}]

\* processMessages: everything is hidden first; then the box of the first kind
\* is shown, the icons of the others, and its own icon unless that excludes its
\* box.  Without showIcon nothing opens the bar.
Process(panel, action) ==
    LET lists == Merge(panel.actionData, action)
        icons == IF panel.XORIconMessage THEN Present(lists) \ First(lists)
                                         ELSE Present(lists)
    IN [panel EXCEPT
          !.actionData = lists,
          !.box = First(lists),
          !.icon = icons,
          !.bar = (@ \/ panel.showIcon) /\ icons # {},
          !.dismissed = {}]

\* cleanAllMessages: the icons stay when the bar is not rendered yet.
Clean(panel) ==
    [panel EXCEPT
       !.actionData = NoMessages,
       !.box = {},
       !.icon = IF panel.rendered THEN {} ELSE @,
       !.bar = @ /\ ~panel.rendered,
       !.dismissed = {}]

\* Variant: an icon that was clicked takes the bar with it.
ClickIcon_HidesBar(panel, k) ==
    [panel EXCEPT
       !.box = @ \cup {k},
       !.icon = IF panel.XORIconMessage THEN @ \ {k} ELSE @,
       !.bar = ~panel.XORIconMessage]

\* _doIconClick: the box of an icon is shown, in its place when they exclude
\* each other.
ClickIcon(panel, k) ==
    LET icons == IF panel.XORIconMessage THEN panel.icon \ {k} ELSE panel.icon
    IN [panel EXCEPT !.box = @ \cup {k}, !.icon = icons,
                     !.bar = @ /\ icons # {}]

\* _doCloseMessage and the closing of the box: its icon comes back, unless
\* closeHideIcon.
CloseBox(panel, k) ==
    LET back == panel.XORIconMessage /\ ~panel.closeHideIcon
    IN [panel EXCEPT
          !.box = @ \ {k},
          !.icon = IF back THEN @ \cup {k} ELSE @,
          !.bar = @ \/ back,
          !.dismissed = @ \cup {k}]

\* The icons the user sees: those in a bar that is shown.
SeenIcons(panel) == IF panel.bar THEN panel.icon ELSE {}

=============================================================================
