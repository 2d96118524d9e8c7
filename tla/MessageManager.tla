---------------------------- MODULE MessageManager ----------------------------
(***************************************************************************)
(* The singleton that brings the messages of an action to the panel of the *)
(* page, or to the one message box Ext.Msg there is.                       *)
(*                                                                         *)
(* kept is what a page left in the session storage for the next one.       *)
(***************************************************************************)
EXTENDS MessagesManagement

VARIABLES
    panel,    \* the panel registered under the item id of the page
    kept,     \* Pblink_Messages of the session storage
    dialog    \* what the message box asks or says

managerVars == <<panel, kept, dialog>>

\* A question of a button, a text to acknowledge, or no box.
Dialogs == {"none", "message", "box", "confirm", "check"}

\* How a caller names its target: the panel, the panel to be cleaned before, or
\* an item id nothing is registered under (simpleInfo and simpleError pass
\* their callback there).
Targets == {"panel", "cleaned panel", "unknown"}

Modes == {"inline", "popup"}

ManagerInit ==
    /\ panel \in {Configured(s, x, c) : s, x, c \in BOOLEAN}
    /\ kept = NoMessages
    /\ dialog = "none"

\* The panel and the message box while the messages of a call are delivered.
Screen(p, d) == [panel |-> p, dialog |-> d]

\* _processActionMessagesPopup: one box, for the first kind there is; what the
\* box said or asked before is gone.
Popup(screen, action) ==
    IF action = NoMessages THEN screen
                           ELSE [screen EXCEPT !.dialog = "message"]

\* processMessageMethod and _processActionMessagesInline.
Deliver(screen, action, target, mode) ==
    IF mode = "inline" /\ target # "unknown"
      THEN [screen EXCEPT !.panel = Process(@, action)]
      ELSE Popup(screen, action)

CleanedFor(p, target) == IF target = "cleaned panel" THEN Clean(p) ELSE p

\* Variant: the panel is cleaned once the kept messages are in it.
Delivered_CleanLast(p, d, action, target, mode) ==
    LET first == IF kept = NoMessages THEN Screen(p, d)
                 ELSE Deliver(Screen(p, d), kept, target, mode)
        next == Screen(CleanedFor(first.panel, target), first.dialog)
    IN Deliver(next, action, target, mode)

\* processMessages, of an action that succeeded: what was kept comes first.
Delivered(p, d, action, target, mode) ==
    LET clean == Screen(CleanedFor(p, target), d)
        first == IF kept = NoMessages THEN clean
                 ELSE Deliver(clean, kept, target, mode)
    IN Deliver(first, action, target, mode)

Succeed(p, d, action, target, mode) ==
    LET screen == Delivered(p, d, action, target, mode) IN
      /\ panel' = screen.panel
      /\ dialog' = screen.dialog
      /\ kept' = NoMessages

\* The answer of an action that succeeded.
ActionSucceeds(action, target, mode) ==
    Succeed(panel, dialog, action, target, mode)

\* _processActionFailure: the panel is not cleaned and what was kept stays.  An
\* action without a result, whose success cannot be read, brings no message, nor
\* does an exception of the server: TryCatch, which is to show it, is not defined.
ActionFails(action, target, mode) ==
    LET screen == Deliver(Screen(panel, dialog), action, target, mode) IN
      /\ panel' = screen.panel
      /\ dialog' = screen.dialog
      /\ UNCHANGED kept

\* _processActionFailure of a form that is not valid, a request that is not
\* answered or a failure of another type: an alert, in the one message box.
ActionAlerts ==
    /\ dialog' = "message"
    /\ UNCHANGED <<panel, kept>>

\* Variant: the kinds without messages are not kept.
KeepMessages_Present(action) ==
    /\ action # NoMessages
    /\ kept' = [k \in Present(action) |-> action[k]]
    /\ UNCHANGED <<panel, dialog>>

\* keepMessages: they replace what was kept.
KeepMessages(action) ==
    /\ action # NoMessages
    /\ kept' = action
    /\ UNCHANGED <<panel, dialog>>

\* The next page of the same type: another panel registers under the item id.
NextPage ==
    /\ panel' = Configured(panel.showIcon, panel.XORIconMessage,
                           panel.closeHideIcon)
    /\ dialog' = "none"
    /\ UNCHANGED kept

\* The panel is added to the page, with its boxes and icons.
Render ==
    /\ ~panel.rendered
    /\ panel' = [panel EXCEPT !.rendered = TRUE]
    /\ UNCHANGED <<kept, dialog>>

\* cleanMessages of the page.
CleanMessages ==
    /\ panel' = Clean(panel)
    /\ UNCHANGED <<kept, dialog>>

UserClicksIcon(k) ==
    /\ panel.rendered
    /\ dialog = "none"
    /\ k \in SeenIcons(panel)
    /\ panel' = ClickIcon(panel, k)
    /\ UNCHANGED <<kept, dialog>>

UserClosesBox(k) ==
    /\ panel.rendered
    /\ dialog = "none"
    /\ k \in panel.box
    /\ panel' = CloseBox(panel, k)
    /\ UNCHANGED <<kept, dialog>>

=============================================================================
