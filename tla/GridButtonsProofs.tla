-------------------------- MODULE GridButtonsProofs --------------------------
(***************************************************************************)
(* Theorems about the messages of a page and the buttons of its grid, for  *)
(* any messages, actions, records, values and buttons.                     *)
(***************************************************************************)
EXTENDS GridButtons, TLAPS

\* What holds of a panel whatever its methods did to it: closing a box can
\* only forget its icon where they exclude each other, which needs icons;
\* where they do not, every kind of message has its icon in an open bar.
WellConfigured(p) ==
    /\ p.closeHideIcon => p.XORIconMessage
    /\ p.XORIconMessage => p.showIcon

Exclusive(p) == p.XORIconMessage => p.box \cap p.icon = {}

Reachable(p) ==
    p.showIcon =>
      \A k \in Present(p.actionData) :
        \/ k \in p.box \cup SeenIcons(p)
        \/ p.closeHideIcon /\ k \in p.dismissed

IconsStay(p) ==
    p.showIcon /\ ~p.XORIconMessage =>
      Present(p.actionData) \subseteq SeenIcons(p)

PanelInv(p) ==
    /\ p \in Panels
    /\ WellConfigured(p)
    /\ Exclusive(p)
    /\ Reachable(p)
    /\ IconsStay(p)

Inv ==
    /\ TypeOK
    /\ PanelInv(panel)
    /\ RiskyIsAsked

-----------------------------------------------------------------------------
\* The methods of a panel.

LEMMA NoMessagesTyped == NoMessages \in MessageLists
  BY DEF NoMessages, MessageLists, Kinds

LEMMA NothingPresent == Present(NoMessages) = {}
  BY DEF NoMessages, Present

\* A new panel is empty.
LEMMA ConfiguredInv ==
  ASSUME NEW s \in BOOLEAN, NEW x \in BOOLEAN, NEW c \in BOOLEAN
  PROVE  PanelInv(Configured(s, x, c))
<1>1. Configured(s, x, c) \in Panels
  BY NoMessagesTyped DEF Configured, Panels
<1>2. WellConfigured(Configured(s, x, c))
  BY DEF Configured, WellConfigured
<1>3. Exclusive(Configured(s, x, c))
  BY DEF Configured, Exclusive
<1>4. Reachable(Configured(s, x, c)) /\ IconsStay(Configured(s, x, c))
  BY NothingPresent DEF Configured, Reachable, IconsStay
<1> QED
  BY <1>1, <1>2, <1>3, <1>4 DEF PanelInv

LEMMA MergeTyped ==
  ASSUME NEW a \in MessageLists, NEW b \in MessageLists
  PROVE  Merge(a, b) \in MessageLists
  BY DEF Merge, MessageLists

\* processMessages: one box, the icons of the other kinds, and the bar with
\* them.
LEMMA ProcessInv ==
  ASSUME NEW p, PanelInv(p), NEW action \in MessageLists
  PROVE  PanelInv(Process(p, action))
<1> DEFINE lists == Merge(p.actionData, action)
           icons == IF p.XORIconMessage THEN Present(lists) \ First(lists)
                                        ELSE Present(lists)
           q == Process(p, action)
<1>1. p \in Panels
  BY DEF PanelInv
<1>2. lists \in MessageLists
  BY <1>1, MergeTyped DEF Panels
<1>3. First(lists) \subseteq Present(lists) /\ Present(lists) \subseteq Kinds
  BY DEF First, Present
<1>4. q = [p EXCEPT !.actionData = lists, !.box = First(lists), !.icon = icons,
                    !.bar = (@ \/ p.showIcon) /\ icons # {}, !.dismissed = {}]
  BY DEF Process
<1> HIDE DEF lists, q
<1>5. q \in Panels
  BY <1>1, <1>2, <1>3, <1>4 DEF Panels
<1>6. /\ q.actionData = lists /\ q.box = First(lists) /\ q.icon = icons
      /\ q.bar = ((p.bar \/ p.showIcon) /\ icons # {})
      /\ q.showIcon = p.showIcon /\ q.XORIconMessage = p.XORIconMessage
      /\ q.closeHideIcon = p.closeHideIcon
  BY <1>1, <1>4 DEF Panels
<1>7. WellConfigured(q)
  BY <1>6 DEF PanelInv, WellConfigured
<1>8. Exclusive(q)
  BY <1>6 DEF Exclusive
<1>9. q.showIcon => SeenIcons(q) = icons
  BY <1>6 DEF SeenIcons
<1>10. Reachable(q)
  BY <1>6, <1>9 DEF Reachable
<1>11. IconsStay(q)
  BY <1>6, <1>9 DEF IconsStay
<1> QED
  BY <1>5, <1>7, <1>8, <1>10, <1>11 DEF PanelInv, q

\* cleanAllMessages: nothing is left to be reached.
LEMMA CleanInv ==
  ASSUME NEW p, PanelInv(p)
  PROVE  PanelInv(Clean(p))
<1> DEFINE q == Clean(p)
<1>1. p \in Panels
  BY DEF PanelInv
<1>2. q \in Panels
  BY <1>1, NoMessagesTyped DEF Clean, Panels
<1>3. /\ q.actionData = NoMessages /\ q.box = {}
      /\ q.showIcon = p.showIcon /\ q.XORIconMessage = p.XORIconMessage
      /\ q.closeHideIcon = p.closeHideIcon
  BY <1>1 DEF Clean, Panels
<1> HIDE DEF q
<1>4. WellConfigured(q)
  BY <1>3 DEF PanelInv, WellConfigured
<1>5. Exclusive(q)
  BY <1>3 DEF Exclusive
<1>6. Reachable(q) /\ IconsStay(q)
  BY <1>3, NothingPresent DEF Reachable, IconsStay
<1> QED
  BY <1>2, <1>4, <1>5, <1>6 DEF PanelInv, q

\* A click on an icon: its box takes its place.
LEMMA ClickIconInv ==
  ASSUME NEW p, PanelInv(p), NEW k \in Kinds
  PROVE  PanelInv(ClickIcon(p, k))
<1> DEFINE q == ClickIcon(p, k)
           icons == IF p.XORIconMessage THEN p.icon \ {k} ELSE p.icon
<1>1. p \in Panels
  BY DEF PanelInv
<1>2. q \in Panels
  BY <1>1 DEF ClickIcon, Panels
<1>3. /\ q.box = p.box \cup {k} /\ q.icon = icons
      /\ q.bar = (p.bar /\ icons # {})
      /\ q.actionData = p.actionData /\ q.dismissed = p.dismissed
      /\ q.showIcon = p.showIcon /\ q.XORIconMessage = p.XORIconMessage
      /\ q.closeHideIcon = p.closeHideIcon
  BY <1>1 DEF ClickIcon, Panels
<1> HIDE DEF q
<1>4. WellConfigured(q)
  BY <1>3 DEF PanelInv, WellConfigured
<1>5. Exclusive(q)
  BY <1>3 DEF PanelInv, Exclusive
<1>6. SeenIcons(p) \ {k} \subseteq SeenIcons(q)
  BY <1>3 DEF SeenIcons
<1>7. Reachable(q)
  BY <1>3, <1>6 DEF PanelInv, Reachable
<1>8. ~p.XORIconMessage => SeenIcons(q) = SeenIcons(p)
  BY <1>3 DEF SeenIcons
<1>9. IconsStay(q)
  BY <1>3, <1>8 DEF PanelInv, IconsStay
<1> QED
  BY <1>2, <1>4, <1>5, <1>7, <1>9 DEF PanelInv, q

\* A box that is closed leaves its icon, or was dismissed for good.
LEMMA CloseBoxInv ==
  ASSUME NEW p, PanelInv(p), NEW k \in Kinds
  PROVE  PanelInv(CloseBox(p, k))
<1> DEFINE q == CloseBox(p, k)
           back == p.XORIconMessage /\ ~p.closeHideIcon
<1>1. p \in Panels
  BY DEF PanelInv
<1>2. q \in Panels
  BY <1>1 DEF CloseBox, Panels
<1>3. /\ q.box = p.box \ {k}
      /\ q.icon = (IF back THEN p.icon \cup {k} ELSE p.icon)
      /\ q.bar = (p.bar \/ back)
      /\ q.actionData = p.actionData /\ q.dismissed = p.dismissed \cup {k}
      /\ q.showIcon = p.showIcon /\ q.XORIconMessage = p.XORIconMessage
      /\ q.closeHideIcon = p.closeHideIcon
  BY <1>1 DEF CloseBox, Panels
<1> HIDE DEF q
<1>4. WellConfigured(q)
  BY <1>3 DEF PanelInv, WellConfigured
<1>5. Exclusive(q)
  BY <1>3 DEF PanelInv, Exclusive
<1>6. SeenIcons(p) \subseteq SeenIcons(q) /\ (back => k \in SeenIcons(q))
  BY <1>3 DEF SeenIcons
<1>7. IconsStay(q)
  BY <1>3, <1>6 DEF PanelInv, IconsStay
<1>8. Reachable(q)
  <2> SUFFICES ASSUME q.showIcon, NEW j \in Present(q.actionData)
               PROVE  \/ j \in q.box \cup SeenIcons(q)
                      \/ q.closeHideIcon /\ j \in q.dismissed
    BY DEF Reachable
  <2>1. \/ j \in p.box \cup SeenIcons(p)
        \/ p.closeHideIcon /\ j \in p.dismissed
    BY <1>3 DEF PanelInv, Reachable
  <2>2. CASE j # k
    BY <2>1, <2>2, <1>3, <1>6
  <2>3. CASE j = k /\ p.XORIconMessage
    BY <2>3, <1>3, <1>6
  <2>4. CASE ~p.XORIconMessage
    BY <2>4, <1>3, <1>7 DEF IconsStay
  <2> QED
    BY <2>2, <2>3, <2>4
<1> QED
  BY <1>2, <1>4, <1>5, <1>7, <1>8 DEF PanelInv, q

-----------------------------------------------------------------------------
\* The manager.

ScreenInv(s) == s \in [panel : Panels, dialog : Dialogs] /\ PanelInv(s.panel)

LEMMA DeliverInv ==
  ASSUME NEW s, ScreenInv(s), NEW action \in MessageLists, NEW target, NEW mode
  PROVE  ScreenInv(Deliver(s, action, target, mode))
<1>1. PanelInv(Process(s.panel, action)) /\ Process(s.panel, action) \in Panels
  BY ProcessInv DEF ScreenInv, PanelInv
<1>2. CASE mode = "inline" /\ target # "unknown"
  BY <1>1, <1>2 DEF ScreenInv, Deliver
<1>3. CASE ~(mode = "inline" /\ target # "unknown")
  BY <1>3 DEF ScreenInv, Deliver, Popup, Dialogs
<1> QED
  BY <1>2, <1>3

LEMMA DeliveredInv ==
  ASSUME NEW p, PanelInv(p), NEW d \in Dialogs, kept \in MessageLists,
         NEW action \in MessageLists, NEW target, NEW mode
  PROVE  ScreenInv(Delivered(p, d, action, target, mode))
<1> DEFINE clean == Screen(CleanedFor(p, target), d)
           first == IF kept = NoMessages THEN clean
                    ELSE Deliver(clean, kept, target, mode)
<1>1. ScreenInv(clean)
  <2>1. PanelInv(CleanedFor(p, target))
    BY CleanInv DEF CleanedFor
  <2> QED
    BY <2>1 DEF ScreenInv, Screen, PanelInv
<1>2. ScreenInv(first)
  BY <1>1, DeliverInv
<1>3. Delivered(p, d, action, target, mode) = Deliver(first, action, target, mode)
  BY DEF Delivered
<1> QED
  BY <1>2, <1>3, DeliverInv

\* What succeeds leaves a panel, a message box and nothing kept.
LEMMA SucceedInv ==
  ASSUME NEW p, PanelInv(p), NEW d \in Dialogs, kept \in MessageLists,
         NEW action \in MessageLists, NEW target, NEW mode,
         Succeed(p, d, action, target, mode)
  PROVE  PanelInv(panel') /\ dialog' \in Dialogs /\ kept' \in MessageLists
  BY DeliveredInv, NoMessagesTyped DEF Succeed, ScreenInv

\* What a delivery puts on the screen is not taken away by the next one.
Brought(s, lists) ==
    \/ \A k \in Kinds : lists[k] \subseteq s.panel.actionData[k]
    \/ s.dialog = "message"

LEMMA DeliverBrings ==
  ASSUME NEW s, ScreenInv(s), NEW action \in MessageLists,
         action # NoMessages, NEW target, NEW mode
  PROVE  Brought(Deliver(s, action, target, mode), action)
<1>1. CASE mode = "inline" /\ target # "unknown"
  <2>1. Deliver(s, action, target, mode).panel = Process(s.panel, action)
    BY <1>1 DEF ScreenInv, Deliver
  <2>2. Process(s.panel, action).actionData = Merge(s.panel.actionData, action)
    BY DEF ScreenInv, Process, Panels
  <2> QED
    BY <2>1, <2>2 DEF Brought, Merge
<1>2. CASE ~(mode = "inline" /\ target # "unknown")
  BY <1>2 DEF ScreenInv, Deliver, Popup, Brought
<1> QED
  BY <1>1, <1>2

LEMMA DeliverKeeps ==
  ASSUME NEW s, ScreenInv(s), NEW action \in MessageLists, NEW lists,
         Brought(s, lists), NEW target, NEW mode
  PROVE  Brought(Deliver(s, action, target, mode), lists)
<1>1. CASE mode = "inline" /\ target # "unknown"
  <2>1. /\ Deliver(s, action, target, mode).panel = Process(s.panel, action)
        /\ Deliver(s, action, target, mode).dialog = s.dialog
    BY <1>1 DEF ScreenInv, Deliver
  <2>2. Process(s.panel, action).actionData = Merge(s.panel.actionData, action)
    BY DEF ScreenInv, Process, Panels
  <2> QED
    BY <2>1, <2>2 DEF Brought, Merge
<1>2. CASE ~(mode = "inline" /\ target # "unknown")
  <2>1. Deliver(s, action, target, mode) = Popup(s, action)
    BY <1>2 DEF Deliver
  <2>2. CASE action = NoMessages
    BY <2>1, <2>2 DEF Popup
  <2>3. CASE action # NoMessages
    BY <2>1, <2>3 DEF ScreenInv, Popup, Brought
  <2> QED
    BY <2>2, <2>3
<1> QED
  BY <1>1, <1>2

\* The messages that were kept come first, on a panel that is cleaned before.
LEMMA SucceedBrings ==
  ASSUME NEW p, PanelInv(p), NEW d \in Dialogs, kept \in MessageLists,
         kept # NoMessages,
         NEW action \in MessageLists, NEW target, NEW mode,
         Succeed(p, d, action, target, mode)
  PROVE  \/ \A k \in Kinds : kept[k] \subseteq panel'.actionData[k]
         \/ dialog' = "message"
<1> DEFINE clean == Screen(CleanedFor(p, target), d)
           first == Deliver(clean, kept, target, mode)
           last == Deliver(first, action, target, mode)
<1>1. ScreenInv(clean)
  <2>1. PanelInv(CleanedFor(p, target))
    BY CleanInv DEF CleanedFor
  <2> QED
    BY <2>1 DEF ScreenInv, Screen, PanelInv
<1>2. ScreenInv(first) /\ Brought(first, kept)
  BY <1>1, DeliverInv, DeliverBrings
<1>3. Brought(last, kept)
  BY <1>2, DeliverKeeps
<1>4. Delivered(p, d, action, target, mode) = last
  BY DEF Delivered
<1> QED
  BY <1>3, <1>4 DEF Succeed, Brought

-----------------------------------------------------------------------------
\* The steps.

LEMMA ErrorTyped ==
  ASSUME NEW text \in Messages
  PROVE  Error(text) \in MessageLists
  BY DEF Error, NoMessages, MessageLists, Kinds

LEMMA InitInv == Init => Inv
<1> SUFFICES ASSUME Init PROVE Inv
  OBVIOUS
<1>1. PanelInv(panel) /\ kept = NoMessages /\ dialog = "none"
  BY ConfiguredInv DEF Init, ManagerInit
<1>2. TypeOK
  BY <1>1, NoMessagesTyped DEF TypeOK, Init, PanelInv, Dialogs
<1> QED
  BY <1>1, <1>2 DEF Inv, Init, RiskyIsAsked

\* The answer to the first question lets the click go only if no record that
\* is selected by then is risky.
LEMMA AcceptedInv ==
  ASSUME Inv, FirstBoxAccepted
  PROVE  Inv'
<1>1. CASE Risky \cap SelectedValues # {}
  BY <1>1 DEF Inv, TypeOK, RiskyIsAsked, FirstBoxAccepted, Ask, buttonVars, Dialogs
<1>2. CASE Risky \cap SelectedValues = {}
  <2>1. SelectedValues \subseteq Values
    BY DEF Inv, TypeOK, SelectedValues
  <2> QED
    BY <1>2, <2>1 DEF Inv, TypeOK, RiskyIsAsked, FirstBoxAccepted, Dialogs
<1> QED
  BY <1>1, <1>2

LEMMA ClickInv ==
  ASSUME Inv, NEW plugin, StoppedBy(plugin)
  PROVE  Inv'
<1> USE DEF Inv
<1>1. CASE SelectionError(panel)
  <2>1. PanelInv(Clean(panel)) /\ Error(NotSelected) \in MessageLists
    BY CleanInv, ErrorTyped, ButtonsAssumption
  <2>2. PanelInv(panel') /\ dialog' \in Dialogs /\ kept' \in MessageLists
    BY <1>1, <2>1, SucceedInv DEF SelectionError, TypeOK
  <2> QED
    BY <1>1, <2>2 DEF SelectionError, TypeOK, PanelInv, RiskyIsAsked, buttonVars
<1>2. CASE PropertyError
  <2>1. Error(NotValid) \in MessageLists
    BY ErrorTyped, ButtonsAssumption
  <2>2. PanelInv(panel') /\ dialog' \in Dialogs /\ kept' \in MessageLists
    BY <1>2, <2>1, SucceedInv DEF PropertyError, TypeOK
  <2> QED
    BY <1>2, <2>2 DEF PropertyError, TypeOK, PanelInv, RiskyIsAsked, buttonVars
<1>3. CASE Ask("box") \/ Ask("confirm")
  BY <1>3 DEF Ask, TypeOK, Dialogs, RiskyIsAsked, buttonVars
<1>4. CASE FirstBoxAccepted
  BY <1>4, AcceptedInv
<1> QED
  BY <1>1, <1>2, <1>3, <1>4 DEF StoppedBy

LEMMA MessageStepInv ==
  ASSUME Inv, MessageStep, UNCHANGED buttonVars
  PROVE  Inv'
<1> USE DEF Inv
<1> SUFFICES PanelInv(panel') /\ dialog' \in Dialogs /\ kept' \in MessageLists
  BY DEF TypeOK, PanelInv, RiskyIsAsked, buttonVars
<1>1. ASSUME NEW action \in Actions, NEW target \in Targets, NEW mode \in Modes,
             ActionSucceeds(action, target, mode)
      PROVE  PanelInv(panel') /\ dialog' \in Dialogs /\ kept' \in MessageLists
  BY <1>1, SucceedInv, ButtonsAssumption DEF ActionSucceeds, TypeOK
<1>2. ASSUME NEW action \in Actions, NEW target \in Targets, NEW mode \in Modes,
             ActionFails(action, target, mode)
      PROVE  PanelInv(panel') /\ dialog' \in Dialogs /\ kept' \in MessageLists
  <2>1. ScreenInv(Screen(panel, dialog))
    BY DEF ScreenInv, Screen, TypeOK
  <2>2. ScreenInv(Deliver(Screen(panel, dialog), action, target, mode))
    BY <2>1, DeliverInv, ButtonsAssumption
  <2> QED
    BY <1>2, <2>2 DEF ActionFails, ScreenInv, TypeOK
<1>3. ASSUME NEW action \in Actions, KeepMessages(action)
      PROVE  PanelInv(panel') /\ dialog' \in Dialogs /\ kept' \in MessageLists
  BY <1>3, ButtonsAssumption DEF KeepMessages, TypeOK
<1>4. CASE Render
  <2>1. panel' \in Panels
    BY <1>4 DEF Render, TypeOK, Panels
  <2>2. /\ \A f \in {"showIcon", "XORIconMessage", "closeHideIcon", "actionData",
                     "box", "icon", "bar", "dismissed"} : panel'[f] = panel[f]
    BY <1>4 DEF Render, TypeOK, Panels
  <2>3. PanelInv(panel')
    BY <2>1, <2>2 DEF PanelInv, WellConfigured, Exclusive, Reachable, IconsStay, SeenIcons
  <2> QED
    BY <1>4, <2>3 DEF Render, TypeOK
<1>5. CASE CleanMessages
  BY <1>5, CleanInv DEF CleanMessages, TypeOK
<1>6. ASSUME NEW k \in Kinds, UserClicksIcon(k)
      PROVE  PanelInv(panel') /\ dialog' \in Dialogs /\ kept' \in MessageLists
  BY <1>6, ClickIconInv DEF UserClicksIcon, TypeOK
<1>7. ASSUME NEW k \in Kinds, UserClosesBox(k)
      PROVE  PanelInv(panel') /\ dialog' \in Dialogs /\ kept' \in MessageLists
  BY <1>7, CloseBoxInv DEF UserClosesBox, TypeOK
<1>8. CASE ActionAlerts
  BY <1>8 DEF ActionAlerts, TypeOK, Dialogs
<1> QED
  BY <1>1, <1>2, <1>3, <1>4, <1>5, <1>6, <1>7, <1>8 DEF MessageStep

LEMMA NextInv == Inv /\ [Next]_vars => Inv'
<1> SUFFICES ASSUME Inv, [Next]_vars PROVE Inv'
  OBVIOUS
<1>1. CASE MessageStep /\ UNCHANGED buttonVars
  BY <1>1, MessageStepInv
<1>2. ASSUME NEW button \in Buttons, Click(button) PROVE Inv'
  BY <1>2, ClickInv DEF Click
<1>3. CASE CloseDialog
  BY <1>3 DEF Inv, CloseDialog, TypeOK, Dialogs, RiskyIsAsked, buttonVars
<1>4. CASE SayYes
  <2>1. CASE dialog = "confirm" /\ FirstBoxAccepted
    BY <2>1, AcceptedInv
  <2>2. CASE dialog = "check" /\ dialog' = "none" /\ unasked' = {}
             /\ UNCHANGED <<panel, kept, value, selection>>
    BY <2>2 DEF Inv, TypeOK, Dialogs, RiskyIsAsked
  <2> QED
    BY <1>4, <2>1, <2>2 DEF SayYes
<1>5. ASSUME NEW rows \in SUBSET Rows, SelectRows(rows) PROVE Inv'
  BY <1>5 DEF Inv, SelectRows, managerVars, TypeOK, RiskyIsAsked
<1>6. ASSUME NEW r \in Rows, Reload(r) PROVE Inv'
  BY <1>6 DEF Inv, Reload, managerVars, TypeOK, RiskyIsAsked
<1>7. CASE OpenNextPage
  <2>1. PanelInv(panel')
    BY <1>7, ConfiguredInv DEF OpenNextPage, NextPage, Inv, TypeOK, Panels
  <2> QED
    BY <1>7, <2>1 DEF OpenNextPage, NextPage, Inv, TypeOK, PanelInv, Dialogs, RiskyIsAsked
<1>8. CASE UNCHANGED vars
  BY <1>8 DEF vars, managerVars, buttonVars, Inv, TypeOK, RiskyIsAsked
<1> QED
  BY <1>1, <1>2, <1>3, <1>4, <1>5, <1>6, <1>7, <1>8 DEF Next

LEMMA Invariance == Spec => []Inv
  BY InitInv, NextInv, PTL DEF Spec

-----------------------------------------------------------------------------
\* Theorems.

\* The state of a page, its panel and its grid has the values the code gives it.
THEOREM TypeCorrect == Spec => []TypeOK
<1>1. Inv => TypeOK
  BY DEF Inv
<1> QED
  BY <1>1, Invariance, PTL

\* An icon and its box are never shown together where they exclude each other
\* (XORIconMessage).
THEOREM IconsExcludeBoxes == Spec => []IconXorBox
<1>1. Inv => IconXorBox
  BY DEF Inv, PanelInv, Exclusive, IconXorBox
<1> QED
  BY <1>1, Invariance, PTL

\* With icons every message of the panel can be reached, unless the user closed
\* its box for good.
THEOREM MessagesStayReachable == Spec => []EveryMessageReachable
<1>1. Inv => EveryMessageReachable
  BY DEF Inv, PanelInv, Reachable, EveryMessageReachable
<1> QED
  BY <1>1, Invariance, PTL

\* grid-checker-message-box asks the second question for every risky record,
\* whatever was loaded and selected while the first was open.
THEOREM RiskyRecordsAreAsked == Spec => []RiskyIsAsked
<1>1. Inv => RiskyIsAsked
  BY DEF Inv
<1> QED
  BY <1>1, Invariance, PTL

\* Messages that leave the session storage are in the panel or in the message
\* box.
THEOREM KeptMessagesAreShown == Spec => KeptNotLost
<1> DEFINE Shown == \/ \A k \in Kinds : kept[k] \subseteq panel'.actionData[k]
                    \/ dialog' = "message"
           Lost == kept # NoMessages /\ kept' = NoMessages
<1>1. ASSUME Inv, Next, Lost PROVE Shown
  <2>1. ASSUME NEW action \in Actions, NEW target \in Targets, NEW mode \in Modes,
               ActionSucceeds(action, target, mode)
        PROVE  Shown
    BY <1>1, <2>1, SucceedBrings, ButtonsAssumption DEF ActionSucceeds, Inv, TypeOK
  <2>2. ASSUME NEW button \in Buttons, Click(button)
        PROVE  Shown
    <3>1. CASE SelectionError(panel)
      <4>1. PanelInv(Clean(panel)) /\ Error(NotSelected) \in MessageLists
        BY <1>1, CleanInv, ErrorTyped, ButtonsAssumption DEF Inv
      <4> QED
        BY <1>1, <3>1, <4>1, SucceedBrings DEF SelectionError, Inv, TypeOK
    <3>2. CASE PropertyError
      <4>1. Error(NotValid) \in MessageLists
        BY ErrorTyped, ButtonsAssumption
      <4> QED
        BY <1>1, <3>2, <4>1, SucceedBrings DEF PropertyError, Inv, TypeOK
    <3>3. CASE UNCHANGED kept
      BY <1>1, <3>3
    <3> QED
      BY <2>2, <3>1, <3>2, <3>3 DEF Click, StoppedBy, Ask, FirstBoxAccepted
  <2>3. ASSUME NEW action \in Actions, KeepMessages(action)
        PROVE  Shown
    BY <1>1, <2>3 DEF KeepMessages
  <2>4. CASE UNCHANGED kept
    BY <1>1, <2>4
  <2> QED
    BY <1>1, <2>1, <2>2, <2>3, <2>4
    DEF Next, MessageStep, ActionFails, ActionAlerts, Render, CleanMessages, UserClicksIcon,
        UserClosesBox, CloseDialog, SayYes, FirstBoxAccepted, Ask, SelectRows,
        Reload, OpenNextPage, NextPage, managerVars, buttonVars
<1>2. ASSUME Inv, UNCHANGED vars PROVE ~Lost
  BY <1>2 DEF vars, managerVars
<1>3. Inv /\ [Next]_vars => [Lost => Shown]_vars
  BY <1>1, <1>2
<1> QED
  BY <1>3, Invariance, PTL DEF Spec, KeptNotLost

=============================================================================
