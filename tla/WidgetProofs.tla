------------------------------ MODULE WidgetProofs ------------------------------
(***************************************************************************)
(* Theorems about the plugins of the grid, and their proofs: the toolbar   *)
(* that sorts it, and the quick search.  With those about the fields and   *)
(* the messages they give the theorems about the widgets side by side.     *)
(***************************************************************************)
EXTENDS MCWidgets, FormProofs

-----------------------------------------------------------------------------
\* The sorting toolbar.

\* A column has one button.
OneButton(toolbar) ==
    \A i, j \in 1..Len(toolbar) :
      toolbar[i] = toolbar[j] /\ toolbar[i] \in Columns => i = j

\* The items around the buttons are where they were at first.
Ends(toolbar) ==
    /\ Len(toolbar) >= 3
    /\ toolbar[1] = "text"
    /\ toolbar[Len(toolbar) - 1] = "fill"
    /\ toolbar[Len(toolbar)] = "reset"

Lawful(toolbar, persists) ==
    /\ toolbar \in Seq(Columns \cup Fixed)
    /\ OneButton(toolbar)
    /\ ~persists => Ends(toolbar)

\* The item pressed last is where the reorderer believes it to be.
Pressed ==
    mouse # "up" => /\ dragCmp \in Columns
                    /\ curIndex \in 1..Len(items)
                    /\ items[curIndex] = dragCmp

\* Whose events are suspended, and how often.
Suspensions ==
    /\ \A c \in Columns : suspended[c] > 0 => c = dragCmp \/ c \in abandoned
    /\ dragCmp \in Columns \ abandoned =>
         suspended[dragCmp] <= reflows + IF mouse = "drag" THEN 1 ELSE 0

ToolbarInv ==
    /\ ReordererTypeOK
    /\ enablePersistance \in BOOLEAN
    /\ direction \in [Columns -> Directions]
    /\ mouse = "drag" => reflows < MaxReflows
    /\ Lawful(items, enablePersistance)
    /\ Pressed
    /\ Suspensions

\* The items that are no buttons.
LEMMA FixedItems ==
    /\ {"text", "fill", "disk", "reset"} \subseteq Columns \cup Fixed
    /\ \A c \in Columns : c \notin {"text", "fill", "disk", "reset"} /\ c # Nobody
  BY ReordererAssumption, MultiSortAssumption

\* A button comes before the filler, or anywhere if there is no order to keep.
LEMMA InsertKeeps ==
    ASSUME NEW tb, NEW persists, Lawful(tb, persists),
           NEW c \in Columns, \A k \in 1..Len(tb) : tb[k] # c,
           NEW i \in 1..(Len(tb) + 1), ~persists => i \in 2..(Len(tb) - 1)
    PROVE  Lawful(InsertAt(tb, i, c), persists) /\ Len(InsertAt(tb, i, c)) = Len(tb) + 1
  <1>. DEFINE new == InsertAt(tb, i, c)
  <1>. DEFINE S == Columns \cup Fixed
  <1>1. tb \in Seq(S) /\ c \in S
    BY DEF Lawful
  <1>. HIDE DEF S
  <1>2. /\ new \in Seq(S)
        /\ Len(new) = Len(tb) + 1
        /\ \A j \in 1..(Len(tb) + 1) :
             new[j] = IF j < i THEN tb[j] ELSE IF j = i THEN c ELSE tb[j - 1]
    <2>1. InsertAt(tb, i, c) \in Seq(S) /\ Len(InsertAt(tb, i, c)) = Len(tb) + 1
      BY <1>1, InsertedAt
    <2>2. \A j \in 1..(Len(tb) + 1) :
            InsertAt(tb, i, c)[j] =
              IF j < i THEN tb[j] ELSE IF j = i THEN c ELSE tb[j - 1]
      BY <1>1, InsertedAt
    <2>. QED
      BY <2>1, <2>2
  <1>3. Len(tb) \in Nat /\ i \in Nat
    BY <1>1, LenProperties
  <1>. HIDE DEF new
  <1>4. OneButton(new)
    <2>. SUFFICES ASSUME NEW j \in 1..Len(new), NEW k \in 1..Len(new),
                         new[j] = new[k], new[j] \in Columns
                  PROVE  j = k
      BY DEF OneButton
    <2>. DEFINE at(m) == IF m < i THEN m ELSE m - 1
    <2>1. \A m \in 1..Len(new) : m # i => at(m) \in 1..Len(tb) /\ new[m] = tb[at(m)]
      BY <1>2, <1>3
    <2>2. new[i] = c
      BY <1>2, <1>3
    <2>3. CASE j = i \/ k = i
      BY <2>1, <2>2, <2>3
    <2>4. CASE j # i /\ k # i
      <3>1. at(j) = at(k)
        BY <2>1, <2>4 DEF Lawful, OneButton
      <3>. QED
        BY <3>1, <2>4, <1>2, <1>3
    <2>. QED
      BY <2>3, <2>4
  <1>5. ASSUME ~persists PROVE Ends(new)
    <2>1. Ends(tb) /\ i \in 2..(Len(tb) - 1)
      BY <1>5 DEF Lawful
    <2>. QED
      BY <2>1, <1>2, <1>3 DEF Ends
  <1>. QED
    BY <1>2, <1>4, <1>5 DEF Lawful, new, S

\* So does one at the end, with the button to save the order.
LEMMA AppendKeeps ==
    ASSUME NEW tb, Lawful(tb, TRUE),
           NEW c \in Columns, \A k \in 1..Len(tb) : tb[k] # c
    PROVE  Lawful(Append(tb, c), TRUE) /\ Len(Append(tb, c)) = Len(tb) + 1
  <1>1. tb \in Seq(Columns \cup Fixed) /\ c \in Columns \cup Fixed
    BY DEF Lawful
  <1>2. /\ Append(tb, c) \in Seq(Columns \cup Fixed)
        /\ Len(Append(tb, c)) = Len(tb) + 1
        /\ \A j \in 1..Len(tb) : Append(tb, c)[j] = tb[j]
        /\ Append(tb, c)[Len(tb) + 1] = c
    BY <1>1, AppendProperties
  <1>3. Len(tb) \in Nat
    BY <1>1, LenProperties
  <1>. DEFINE new == Append(tb, c)
  <1>4. /\ Len(new) = Len(tb) + 1
        /\ \A j \in 1..Len(tb) : new[j] = tb[j]
        /\ new[Len(tb) + 1] = c
    BY <1>2
  <1>. HIDE DEF new
  <1>5. OneButton(new)
    <2>. SUFFICES ASSUME NEW j \in 1..Len(new), NEW k \in 1..Len(new),
                         new[j] = new[k], new[j] \in Columns
                  PROVE  j = k
      BY DEF OneButton
    <2>. QED
      BY <1>3, <1>4 DEF Lawful, OneButton
  <1>. QED
    BY <1>2, <1>5 DEF Lawful, new

\* A button that goes leaves the others and the ends.
LEMMA RemoveKeeps ==
    ASSUME NEW tb, NEW persists, Lawful(tb, persists),
           NEW i \in 1..Len(tb), tb[i] \in Columns
    PROVE  Lawful(RemoveAt(tb, i), persists)
  <1>. DEFINE new == RemoveAt(tb, i)
  <1>1. tb \in Seq(Columns \cup Fixed)
    BY DEF Lawful
  <1>2. /\ new \in Seq(Columns \cup Fixed)
        /\ Len(new) = Len(tb) - 1
        /\ \A j \in 1..(Len(tb) - 1) :
             new[j] = IF j < i THEN tb[j] ELSE tb[j + 1]
    BY <1>1, RemovedAt
  <1>3. Len(tb) \in Nat /\ i \in Nat
    BY <1>1, LenProperties
  <1>. HIDE DEF new
  <1>4. OneButton(new)
    <2>. SUFFICES ASSUME NEW j \in 1..Len(new), NEW k \in 1..Len(new),
                         new[j] = new[k], new[j] \in Columns
                  PROVE  j = k
      BY DEF OneButton
    <2>. DEFINE at(m) == IF m < i THEN m ELSE m + 1
    <2>1. \A m \in 1..Len(new) : at(m) \in 1..Len(tb) /\ new[m] = tb[at(m)]
      BY <1>2, <1>3
    <2>2. at(j) = at(k)
      BY <2>1 DEF Lawful, OneButton
    <2>. QED
      BY <2>2, <1>2, <1>3
  <1>5. ASSUME ~persists PROVE Ends(new)
    <2>1. Ends(tb)
      BY <1>5 DEF Lawful
    <2>2. i # 1 /\ i # Len(tb) - 1 /\ i # Len(tb)
      BY <2>1, FixedItems DEF Ends
    <2>. QED
      BY <2>1, <2>2, <1>2, <1>3 DEF Ends
  <1>. QED
    BY <1>2, <1>4, <1>5 DEF Lawful, new

\* Two buttons that change places do not touch the ends.
Swapped(tb, i, j) == [tb EXCEPT ![i] = tb[j], ![j] = tb[i]]

\* Two buttons change places.
LEMMA SwapKeeps ==
    ASSUME NEW tb, NEW persists, Lawful(tb, persists),
           NEW i \in 1..Len(tb), NEW j \in 1..Len(tb),
           tb[i] \in Columns, tb[j] \in Columns
    PROVE  /\ Lawful(Swapped(tb, i, j), persists)
           /\ Len(Swapped(tb, i, j)) = Len(tb)
           /\ Swapped(tb, i, j)[j] = tb[i]
  <1>. DEFINE half == [tb EXCEPT ![i] = tb[j]]
              new == Swapped(tb, i, j)
              at(m) == IF m = j THEN i ELSE IF m = i THEN j ELSE m
  <1>1. tb \in Seq(Columns \cup Fixed) /\ {tb[i], tb[j]} \subseteq Columns \cup Fixed
    BY DEF Lawful
  <1>2. /\ half \in Seq(Columns \cup Fixed)
        /\ Len(half) = Len(tb)
        /\ \A m \in 1..Len(tb) : half[m] = IF m = i THEN tb[j] ELSE tb[m]
    BY <1>1, ExceptSeq
  <1>3. new = [half EXCEPT ![j] = tb[i]]
    BY DEF Swapped
  <1>. HIDE DEF new
  <1>. HIDE DEF half
  <1>4. /\ [half EXCEPT ![j] = tb[i]] \in Seq(Columns \cup Fixed)
        /\ Len([half EXCEPT ![j] = tb[i]]) = Len(half)
        /\ \A m \in 1..Len(half) :
             [half EXCEPT ![j] = tb[i]][m] = IF m = j THEN tb[i] ELSE half[m]
    BY <1>1, <1>2, ExceptSeq
  <1>5. /\ new \in Seq(Columns \cup Fixed) /\ Len(new) = Len(tb)
        /\ \A m \in 1..Len(tb) : at(m) \in 1..Len(tb) /\ new[m] = tb[at(m)]
    BY <1>2, <1>3, <1>4
  <1>6. OneButton(new)
    <2>. SUFFICES ASSUME NEW k \in 1..Len(new), NEW m \in 1..Len(new),
                         new[k] = new[m], new[k] \in Columns
                  PROVE  k = m
      BY DEF OneButton
    <2>1. at(k) = at(m)
      BY <1>5 DEF Lawful, OneButton
    <2>. QED
      BY <2>1
  <1>7. ASSUME ~persists PROVE Ends(new)
    <2>1. Ends(tb) /\ Len(tb) \in Nat
      BY <1>7, <1>1, LenProperties DEF Lawful
    <2>2. \A k \in {1, Len(tb) - 1, Len(tb)} : k # i /\ k # j
      BY <2>1, FixedItems DEF Ends
    <2>. QED
      BY <2>1, <2>2, <1>5 DEF Ends
  <1>8. new[j] = tb[i]
    BY <1>5
  <1>. QED
    BY <1>5, <1>6, <1>7, <1>8 DEF Lawful, new

\* The toolbar as it is built.
LEMMA FrameIs ==
    /\ enablePersistance => Frame = <<"text", "fill", "disk", "reset">> /\ Len(Frame) = 4
    /\ ~enablePersistance => Frame = <<"text", "fill", "reset">> /\ Len(Frame) = 3
  <1>. DEFINE S == {"text", "fill", "disk", "reset"}
              left == <<"text", "fill">>
              both == <<"disk", "reset">>
              one == <<"reset">>
              four == <<"text", "fill", "disk", "reset">>
              three == <<"text", "fill", "reset">>
  <1>1. /\ {left, both, one, four, three} \subseteq Seq(S)
        /\ Len(left) = 2 /\ Len(both) = 2 /\ Len(one) = 1
        /\ Len(four) = 4 /\ Len(three) = 3
    OBVIOUS
  <1>2. /\ left \o both \in Seq(S) /\ Len(left \o both) = 4
        /\ \A j \in 1..4 : (left \o both)[j] = IF j <= 2 THEN left[j] ELSE both[j - 2]
    BY <1>1, ConcatProperties
  <1>3. /\ left \o one \in Seq(S) /\ Len(left \o one) = 3
        /\ \A j \in 1..3 : (left \o one)[j] = IF j <= 2 THEN left[j] ELSE one[j - 2]
    BY <1>1, ConcatProperties
  <1>4. \A j \in 1..4 : (IF j <= 2 THEN left[j] ELSE both[j - 2]) = four[j]
    OBVIOUS
  <1>5. \A j \in 1..3 : (IF j <= 2 THEN left[j] ELSE one[j - 2]) = three[j]
    OBVIOUS
  <1>. HIDE DEF S, left, both, one, four, three
  <1>6. left \o both = four
    BY <1>1, <1>2, <1>4, SeqEqual
  <1>7. left \o one = three
    BY <1>1, <1>3, <1>5, SeqEqual
  <1>. QED
    BY <1>1, <1>6, <1>7 DEF Frame, left, both, one, four, three

\* What a reset leaves is lawful, and is the frame unless there is an order to
\* keep.
LEMMA ResetKeeps ==
    ASSUME enablePersistance \in BOOLEAN, Lawful(items, enablePersistance)
    PROVE  /\ Len(items) > Len(Frame) => Lawful(KeptByReset(items), enablePersistance)
           /\ ~enablePersistance => KeptByReset(items) = Frame
  <1>. DEFINE S == Columns \cup Fixed
              n == Len(items)
              f == Len(Frame)
              kept == SubSeq(items, n - f + 2, n)
              new == KeptByReset(items)
  <1>1. items \in Seq(S)
    BY DEF Lawful
  <1>2. n \in Nat /\ f \in {3, 4} /\ (~enablePersistance => f = 3 /\ n >= 3)
    BY <1>1, LenProperties, FrameIs DEF Lawful, Ends
  <1>3. ASSUME n >= f
        PROVE  /\ new \in Seq(S) /\ Len(new) = f
               /\ new[1] = items[1]
               /\ \A j \in 2..f : new[j] = items[n - f + j]
    <2>. DEFINE one == <<items[1]>>
    <2>1. one \in Seq(S) /\ Len(one) = 1 /\ one[1] = items[1]
      <3>1. items[1] \in S
        BY <1>1, <1>2, <1>3, ElementOfSeq
      <3>. HIDE DEF S
      <3>. QED
        BY <3>1
    <2>2. /\ kept \in Seq(S) /\ Len(kept) = f - 1
          /\ \A j \in 1..(f - 1) : kept[j] = items[n - f + 1 + j]
      <3>. HIDE DEF S, n, f
      <3>1. /\ n - f + 2 \in Nat \ {0} /\ n - f + 2 <= n
            /\ n - (n - f + 2) + 1 = f - 1
        BY <1>2, <1>3
      <3>2. /\ kept \in Seq(S)
            /\ Len(kept) = IF n - f + 2 <= n THEN n - (n - f + 2) + 1 ELSE 0
            /\ \A j \in 1..(n - (n - f + 2) + 1) :
                 kept[j] = items[n - f + 2 + j - 1]
        BY <1>1, <1>2, <3>1, PieceOf DEF n
      <3>3. \A j \in 1..(f - 1) : n - f + 2 + j - 1 = n - f + 1 + j
        BY <1>2
      <3>. QED
        BY <3>1, <3>2, <3>3
    <2>. HIDE DEF one, kept, S
    <2>3. /\ one \o kept \in Seq(S)
          /\ Len(one \o kept) = Len(one) + Len(kept)
          /\ \A j \in 1..(Len(one) + Len(kept)) :
               (one \o kept)[j] = IF j <= Len(one) THEN one[j] ELSE kept[j - Len(one)]
      BY <2>1, <2>2, ConcatProperties
    <2>4. new = one \o kept
      BY DEF KeptByReset, new, one, kept
    <2>. HIDE DEF new, n, f
    <2>5. Len(new) = f /\ new[1] = items[1]
      BY <1>2, <2>1, <2>2, <2>3, <2>4
    <2>6. ASSUME NEW j \in 2..f PROVE new[j] = items[n - f + j]
      <3>1. j - 1 \in 1..(f - 1) /\ n - f + 1 + (j - 1) = n - f + j
        BY <1>2
      <3>2. new[j] = kept[j - 1]
        BY <1>2, <2>1, <2>2, <2>3, <2>4
      <3>. QED
        BY <2>2, <3>1, <3>2
    <2>. QED
      BY <2>3, <2>4, <2>5, <2>6
  <1>4. ASSUME ~enablePersistance PROVE Ends(items) /\ new = Frame /\ Ends(new)
    <2>1. Ends(items)
      BY <1>4 DEF Lawful
    <2>2. Frame = <<"text", "fill", "reset">> /\ f = 3 /\ n >= 3
      BY <1>2, <1>4, FrameIs
    <2>3. /\ new \in Seq(S) /\ Len(new) = 3 /\ new[1] = "text"
          /\ new[2] = items[n - 3 + 2] /\ new[3] = items[n - 3 + 3]
      BY <1>3, <2>1, <2>2 DEF Ends
    <2>4. n - 3 + 2 = n - 1 /\ n - 3 + 3 = n
      BY <1>2
    <2>5. new[2] = "fill" /\ new[3] = "reset"
      BY <2>1, <2>3, <2>4 DEF Ends
    <2>. HIDE DEF new
    <2>6. /\ Frame \in Seq(S) /\ Len(Frame) = 3
          /\ \A j \in 1..3 : Frame[j] = new[j]
      BY <2>2, <2>3, <2>5, FixedItems
    <2>7. new = Frame
      BY <2>3, <2>6, SeqEqual
    <2>. QED
      BY <2>1, <2>3, <2>5, <2>7 DEF Ends
  <1>5. ASSUME n > f PROVE OneButton(new)
    <2>. SUFFICES ASSUME NEW j \in 1..Len(new), NEW k \in 1..Len(new),
                         new[j] = new[k], new[j] \in Columns
                  PROVE  j = k
      BY DEF OneButton
    <2>. DEFINE at(m) == IF m = 1 THEN 1 ELSE n - f + m
    <2>1. \A m \in 1..Len(new) : at(m) \in 1..n /\ new[m] = items[at(m)]
      <3>. HIDE DEF new, n, f
      <3>. QED
        BY <1>2, <1>3, <1>5
    <2>2. at(j) = at(k)
      BY <2>1 DEF Lawful, OneButton
    <2>3. Len(new) = f
      BY <1>2, <1>3, <1>5
    <2>. HIDE DEF new, n, f
    <2>. QED
      BY <2>2, <2>3, <1>2, <1>5
  <1>. QED
    BY <1>2, <1>3, <1>4, <1>5 DEF Lawful

\* So it is lawful at first.
LEMMA InitToolbar ==
    ASSUME MultiSortInit
    PROVE  ToolbarInv
  <1>. USE ReordererAssumption DEF MultiSortInit, ReordererInit
  <1>1. Lawful(items, enablePersistance)
    <2>1. CASE enablePersistance
      <3>1. items = <<"text", "fill", "disk", "reset">>
        BY <2>1, FrameIs
      <3>2. items \in Seq(Fixed) /\ Len(items) = 4
        BY <3>1, MultiSortAssumption
      <3>3. items \in Seq(Columns \cup Fixed)
        BY <3>2, SeqMonotonic
      <3>4. \A i \in 1..4 : items[i] \notin Columns
        BY <3>1, FixedItems
      <3>. QED
        BY <2>1, <3>2, <3>3, <3>4 DEF Lawful, OneButton
    <2>2. CASE ~enablePersistance
      <3>1. items = <<"text", "fill", "reset">>
        BY <2>2, FrameIs
      <3>2. items \in Seq(Fixed) /\ Len(items) = 3
        BY <3>1, MultiSortAssumption
      <3>3. items \in Seq(Columns \cup Fixed)
        BY <3>2, SeqMonotonic
      <3>4. \A i \in 1..3 : items[i] \notin Columns
        BY <3>1, FixedItems
      <3>5. Ends(items)
        BY <3>1 DEF Ends
      <3>. QED
        BY <2>2, <3>2, <3>3, <3>4, <3>5 DEF Lawful, OneButton
    <2>. QED
      BY <2>1, <2>2
  <1>2. ReordererTypeOK
    <2>1. items \in Seq(Columns \cup Fixed) /\ Len(items) \in Nat
      BY <1>1, LenProperties DEF Lawful
    <2>. QED
      BY <2>1 DEF ReordererTypeOK
  <1>. QED
    BY <1>1, <1>2 DEF ToolbarInv, Pressed, Suspensions, Directions

\* A new button of a column that has none, while the mouse is up.
LEMMA NewButton ==
    ASSUME ToolbarInv, mouse = "up", NEW c \in Columns, ~HasButton(c),
           NEW i \in Int, i <= Len(items) + 1,
           ~enablePersistance => i \in 2..(Len(items) - 1),
           Insert(c, i), UNCHANGED <<enablePersistance, dragVars>>
    PROVE  ToolbarInv'
  <1>. USE DEF ToolbarInv, ReordererTypeOK
  <1>1. Len(items) \in Nat /\ \A k \in 1..Len(items) : items[k] # c
    BY LenProperties DEF HasButton, Contains
  <1>2. Lawful(items', enablePersistance) /\ Len(items') = Len(items) + 1
    <2>1. CASE i < 1
      <3>1. enablePersistance = TRUE /\ items' = Append(items, c)
        BY <2>1, <1>1 DEF Insert
      <3>. QED
        BY <3>1, <1>1, AppendKeeps
    <2>2. CASE ~(i < 1)
      <3>1. i \in 1..(Len(items) + 1) /\ items' = InsertAt(items, i, c)
        BY <2>2, <1>1 DEF Insert
      <3>2. Lawful(items, enablePersistance)
        OBVIOUS
      <3>3. /\ Lawful(InsertAt(items, i, c), enablePersistance)
            /\ Len(InsertAt(items, i, c)) = Len(items) + 1
        BY <3>1, <3>2, <1>1, InsertKeeps
      <3>. QED
        BY <3>1, <3>3
    <2>. QED
      BY <2>1, <2>2
  <1>3. ReordererTypeOK'
    <2>1. items' \in Seq(Columns \cup Fixed)
      BY <1>2 DEF Lawful
    <2>. QED
      BY <2>1, <1>1, <1>2 DEF dragVars
  <1>4. direction' \in [Columns -> Directions]
    BY DEF Insert, Directions
  <1>5. Lawful(items, enablePersistance)'
    BY <1>2 DEF Lawful, OneButton, Ends
  <1>6. Pressed' /\ Suspensions'
    BY DEF Pressed, Suspensions, dragVars
  <1>. QED
    BY <1>3, <1>4, <1>5, <1>6 DEF dragVars

\* A button that goes, once the mouse is up.
LEMMA ButtonGone ==
    ASSUME ToolbarInv, NEW c \in Columns, HasButton(c), RemoveBtn(c),
           mouse' = "up", UNCHANGED <<enablePersistance, reflows>>,
           mouse # "drag"
    PROVE  ToolbarInv'
  <1>. USE DEF ToolbarInv, ReordererTypeOK
  <1>. DEFINE i == ButtonIndex(c)
  <1>1. i \in 1..Len(items) /\ items[i] = c
    <2>1. DOMAIN items = 1..Len(items)
      BY LenProperties
    <2>. QED
      BY <2>1 DEF ButtonIndex, HasButton, Contains
  <1>2. Lawful(items', enablePersistance)
    <2>1. items' = RemoveAt(items, i)
      BY DEF RemoveBtn
    <2>. HIDE DEF i
    <2>2. Lawful(items, enablePersistance)
      OBVIOUS
    <2>. QED
      BY <2>1, <2>2, <1>1, RemoveKeeps
  <1>3. /\ suspended' = [d \in Columns |-> IF d = c THEN 0 ELSE suspended[d]]
        /\ abandoned' = abandoned \ {c}
        /\ dragCmp' = IF dragCmp = c THEN Nobody ELSE dragCmp
        /\ startIndex' = 0 /\ curIndex' = 0
        /\ direction' = direction
    BY DEF RemoveBtn, Forget
  <1>4. items' \in Seq(Columns \cup Fixed) /\ Len(items') \in Nat
    BY <1>2, LenProperties DEF Lawful
  <1>5. suspended' \in [Columns -> 0..MaxReflows]
    BY <1>3, ReordererAssumption
  <1>6. ReordererTypeOK'
    BY <1>3, <1>4, <1>5
  <1>7. Lawful(items, enablePersistance)'
    BY <1>2 DEF Lawful, OneButton, Ends
  <1>8. Suspensions'
    <2>1. ASSUME NEW d \in Columns, suspended'[d] > 0
          PROVE  d = dragCmp' \/ d \in abandoned'
      <3>1. d # c /\ suspended[d] > 0
        BY <2>1, <1>3
      <3>. QED
        BY <3>1, <1>3 DEF Suspensions
    <2>2. ASSUME dragCmp' \in Columns \ abandoned'
          PROVE  suspended'[dragCmp'] <= reflows'
      <3>1. dragCmp' = dragCmp /\ dragCmp # c /\ dragCmp \in Columns \ abandoned
        BY <2>2, <1>3, ReordererAssumption
      <3>2. suspended'[dragCmp'] = suspended[dragCmp]
        BY <3>1, <1>3
      <3>. QED
        BY <3>1, <3>2 DEF Suspensions
    <2>. QED
      BY <2>1, <2>2 DEF Suspensions
  <1>. QED
    BY <1>3, <1>6, <1>7, <1>8 DEF Pressed

\* The steps of the reorderer.
LEMMA PressKeeps ==
    ASSUME ToolbarInv, NEW n \in 1..Len(items), MouseDown(n),
           UNCHANGED <<enablePersistance, direction, sorted, unsorted>>
    PROVE  ToolbarInv'
  <1>. USE DEF ToolbarInv, ReordererTypeOK, MouseDown
  <1>1. items[n] \in Columns
    <2>1. items[n] \in Columns \cup Fixed
      BY ElementOfSeq
    <2>. QED
      BY <2>1 DEF Reorderable
  <1>2. Len(items) \in Nat
    BY LenProperties
  <1>3. ReordererTypeOK'
    BY <1>1, <1>2
  <1>4. Lawful(items, enablePersistance)' /\ Pressed'
    BY <1>1 DEF Lawful, OneButton, Ends, Pressed
  <1>5. Suspensions'
    <2>1. ASSUME NEW d \in Columns, suspended[d] > 0
          PROVE  d = items[n] \/ d \in abandoned'
      <3>1. CASE d = dragCmp
        <4>1. d # Nobody
          BY ReordererAssumption
        <4>2. reflows = 0 /\ d \notin abandoned => FALSE
          BY <2>1, <3>1 DEF Suspensions
        <4>. QED
          BY <3>1, <4>1, <4>2
      <3>2. CASE d # dragCmp
        <4>1. d \in abandoned /\ d # Nobody
          BY <2>1, <3>2, ReordererAssumption DEF Suspensions
        <4>. QED
          BY <4>1
      <3>. QED
        BY <3>1, <3>2
    <2>2. ASSUME items[n] \notin abandoned'
          PROVE  suspended[items[n]] <= reflows
      <3>1. items[n] \notin abandoned /\ items[n] # Nobody
        BY <1>1, <2>2, ReordererAssumption
      <3>2. CASE items[n] = dragCmp
        BY <1>1, <3>1, <3>2 DEF Suspensions
      <3>3. CASE items[n] # dragCmp
        BY <1>1, <3>1, <3>3 DEF Suspensions
      <3>. QED
        BY <3>2, <3>3
    <2>. QED
      BY <2>1, <2>2 DEF Suspensions
  <1>. QED
    BY <1>3, <1>4, <1>5

\* The item under the mouse changes places with one that can be moved.
LEMMA DragKeeps ==
    ASSUME ToolbarInv, NEW n \in 1..Len(items), Drag(n),
           UNCHANGED <<enablePersistance, direction, sorted, unsorted>>
    PROVE  ToolbarInv'
  <1>. USE DEF ToolbarInv, ReordererTypeOK
  <1>. DEFINE found == FindReorderable(n)
              near == IF n > startIndex \/ Reorderable(n) THEN Min(found)
                                                          ELSE Max(found)
  <1>1. Len(items) \in Nat /\ n \in Nat
    BY LenProperties
  <1>2. /\ found # {}
        /\ found \subseteq 1..Len(items)
        /\ \A k \in found : items[k] \in Columns
    <2>1. \A k \in 1..Len(items) : items[k] \in Columns \cup Fixed
      BY ElementOfSeq
    <2>. QED
      BY <1>1, <2>1 DEF Drag, FindReorderable, Reorderable
  <1>3. near \in found
    <2>. HIDE DEF found
    <2>1. found \in SUBSET Nat /\ \A k \in found : k <= Len(items)
      BY <1>1, <1>2
    <2>2. Min(found) \in found
      BY <1>2, <2>1, MinOf
    <2>3. Max(found) \in found
      BY <1>1, <1>2, <2>1, MaxOf
    <2>. QED
      BY <2>2, <2>3
  <1>4. items' = DoSwap(near) /\ curIndex' = near
    BY DEF Drag
  <1>5. near \in 1..Len(items) /\ items[near] \in Columns
    BY <1>2, <1>3
  <1>. HIDE DEF near
  <1>6. mouse = "drag" /\ UNCHANGED <<mouse, dragCmp, startIndex, reflows, suspended, abandoned>>
    BY DEF Drag
  <1>7. curIndex \in 1..Len(items) /\ items[curIndex] = dragCmp /\ dragCmp \in Columns
    BY <1>6 DEF Pressed
  <1>8. /\ Lawful(items', enablePersistance)
        /\ Len(items') = Len(items)
        /\ items'[near] = dragCmp
    <2>1. /\ Lawful(items, enablePersistance) /\ items[curIndex] \in Columns
          /\ items' = Swapped(items, curIndex, near)
      BY <1>4, <1>7 DEF DoSwap, Swapped
    <2>2. /\ Lawful(Swapped(items, curIndex, near), enablePersistance)
          /\ Len(Swapped(items, curIndex, near)) = Len(items)
          /\ Swapped(items, curIndex, near)[near] = items[curIndex]
      BY <1>5, <1>7, <2>1, SwapKeeps
    <2>. QED
      BY <2>1, <2>2, <1>7
  <1>9. ReordererTypeOK'
    <2>1. items' \in Seq(Columns \cup Fixed)
      BY <1>8 DEF Lawful
    <2>. QED
      BY <2>1, <1>1, <1>4, <1>5, <1>6, <1>8
  <1>10. Lawful(items, enablePersistance)'
    BY <1>8 DEF Lawful, OneButton, Ends
  <1>11. Pressed' /\ Suspensions'
    BY <1>4, <1>5, <1>6, <1>7, <1>8 DEF Pressed, Suspensions
  <1>. QED
    BY <1>6, <1>9, <1>10, <1>11

\* Every step of the mouse keeps the invariant.
LEMMA ReorderingKeeps ==
    ASSUME ToolbarInv, \/ Reordering
                       \/ Dropped
    PROVE  ToolbarInv'
  <1>. USE DEF ToolbarInv, ReordererTypeOK
  <1>1. ASSUME UNCHANGED <<items, enablePersistance, direction, startIndex>>
        PROVE  Lawful(items, enablePersistance)'
    BY <1>1 DEF Lawful, OneButton, Ends
  <1>2. Len(items) \in Nat /\ DOMAIN items = 1..Len(items)
    BY LenProperties
  <1>3. ASSUME StartDrag, UNCHANGED <<enablePersistance, direction>>
        PROVE  ToolbarInv'
    <2>1. dragCmp \in Columns
      BY <1>3 DEF StartDrag, Pressed
    <2>2. ReordererTypeOK'
      BY <1>3, <2>1, ReordererAssumption DEF StartDrag
    <2>3. Pressed' /\ Suspensions'
      BY <1>3, <2>1, ReordererAssumption DEF StartDrag, Pressed, Suspensions
    <2>. QED
      BY <1>1, <1>3, <2>2, <2>3 DEF StartDrag
  <1>4. ASSUME AfterBoxReflow, UNCHANGED <<enablePersistance, direction>>
        PROVE  ToolbarInv'
    <2>1. ASSUME NEW n \in Nat PROVE Max({n - 1, 0}) = IF n = 0 THEN 0 ELSE n - 1
      <3>1. Max({n - 1, 0}) = IF n - 1 >= 0 THEN n - 1 ELSE 0
        BY MaxOfTwo
      <3>. QED
        BY <3>1
    <2>9. ASSUME dragCmp # Nobody
          PROVE  suspended' = [suspended EXCEPT
                   ![dragCmp] = IF suspended[dragCmp] = 0 THEN 0
                                ELSE suspended[dragCmp] - 1]
      <3>1. dragCmp \in Columns /\ suspended[dragCmp] \in Nat
        BY <2>9, ReordererAssumption
      <3>2. Max({suspended[dragCmp] - 1, 0}) = IF suspended[dragCmp] = 0 THEN 0
                                               ELSE suspended[dragCmp] - 1
        BY <2>1, <3>1
      <3>. QED
        BY <1>4, <2>9, <3>2 DEF AfterBoxReflow
    <2>2. suspended' \in [Columns -> 0..MaxReflows]
      BY <1>4, <2>9, ReordererAssumption DEF AfterBoxReflow
    <2>3. reflows' \in 0..MaxReflows
      BY <1>4, ReordererAssumption DEF AfterBoxReflow
    <2>4. ReordererTypeOK'
      BY <1>4, <2>2, <2>3 DEF AfterBoxReflow
    <2>5. \A d \in Columns : d # dragCmp => suspended'[d] = suspended[d]
      BY <1>4 DEF AfterBoxReflow
    <2>6. dragCmp \in Columns =>
            suspended'[dragCmp] = IF suspended[dragCmp] = 0 THEN 0
                                  ELSE suspended[dragCmp] - 1
      BY <2>9, ReordererAssumption
    <2>7. Suspensions'
      BY <1>4, <2>5, <2>6 DEF AfterBoxReflow, Suspensions
    <2>8. Pressed'
      BY <1>4 DEF AfterBoxReflow, Pressed
    <2>. QED
      BY <1>1, <1>4, <2>4, <2>7, <2>8, ReordererAssumption DEF AfterBoxReflow
  <1>5. ASSUME EndDrag, UNCHANGED <<enablePersistance, direction>>
        PROVE  ToolbarInv'
    <2>1. ReordererTypeOK'
      BY <1>5, ReordererAssumption DEF EndDrag
    <2>2. Pressed' /\ Suspensions'
      BY <1>5 DEF EndDrag, Pressed, Suspensions
    <2>. QED
      BY <1>1, <1>5, <2>1, <2>2 DEF EndDrag
  <1>. QED
    BY <1>2, <1>3, <1>4, <1>5, PressKeeps, DragKeeps DEF Reordering, Dropped

\* The invariant is kept by every step.
LEMMA NextToolbar ==
    ASSUME ToolbarInv, [MultiSortNext]_sortVars
    PROVE  ToolbarInv'
  <1>. USE DEF ToolbarInv, ReordererTypeOK
  <1>0. Len(items) \in Nat /\ DOMAIN items = 1..Len(items)
    BY LenProperties
  <1>1. ASSUME UNCHANGED <<items, enablePersistance>>
        PROVE  Lawful(items, enablePersistance)'
    BY <1>1 DEF Lawful, OneButton, Ends
  <1>2. ASSUME NEW c \in Columns, Toggle(c), UNCHANGED enablePersistance,
               \/ UNCHANGED dragVars
               \/ Release
        PROVE  ToolbarInv'
    <2>1. direction' \in [Columns -> Directions] /\ items' = items
      BY <1>2 DEF Toggle, Directions
    <2>2. ReordererTypeOK' /\ Pressed' /\ Suspensions'
      BY <1>2, <2>1 DEF dragVars, Release, Pressed, Suspensions
    <2>. QED
      BY <1>1, <1>2, <2>1, <2>2 DEF dragVars, Release
  <1>3. ASSUME NEW c \in Columns, OnSortChange(c) PROVE ToolbarInv'
    <2>1. CASE HasButton(c)
      BY <1>2, <1>3, <2>1 DEF OnSortChange
    <2>2. CASE ~HasButton(c)
      <3>. DEFINE i == Len(items) - IF enablePersistance THEN 2 ELSE 1
      <3>1. i \in Int /\ i <= Len(items) + 1
        BY <1>0
      <3>2. ~enablePersistance => i \in 2..(Len(items) - 1)
        BY <1>0 DEF Lawful, Ends
      <3>3. Insert(c, i) /\ mouse = "up" /\ UNCHANGED <<enablePersistance, dragVars>>
        BY <1>3, <2>2 DEF OnSortChange
      <3>. HIDE DEF i
      <3>. QED
        BY <2>2, <3>1, <3>2, <3>3, NewButton
    <2>. QED
      BY <2>1, <2>2
  <1>4. ASSUME NEW c \in Columns, NEW i \in EntryIndexes, NotifyDrop(c, i)
        PROVE  ToolbarInv'
    <2>1. PICK k \in 1..Len(items) : i = Max({2, Min({k, Len(items) - 1})})
      BY <1>0 DEF EntryIndexes
    <2>2. Min({k, Len(items) - 1}) = IF k <= Len(items) - 1 THEN k ELSE Len(items) - 1
      BY <1>0, MinOfTwo
    <2>3. i = IF 2 >= Min({k, Len(items) - 1}) THEN 2 ELSE Min({k, Len(items) - 1})
      <3>. DEFINE m == Min({k, Len(items) - 1})
      <3>1. m \in Int /\ i = Max({2, m})
        BY <1>0, <2>1, <2>2
      <3>. HIDE DEF m
      <3>2. Max({2, m}) = IF 2 >= m THEN 2 ELSE m
        BY <3>1, MaxOfTwo
      <3>. QED
        BY <3>1, <3>2 DEF m
    <2>4. i \in Int /\ i <= Len(items) + 1
      BY <1>0, <2>2, <2>3
    <2>5. ~enablePersistance => i \in 2..(Len(items) - 1)
      BY <1>0, <2>2, <2>3 DEF Lawful, Ends
    <2>. QED
      BY <1>4, <2>4, <2>5, NewButton DEF NotifyDrop, CanDrop
  <1>5. ASSUME ClickButton PROVE ToolbarInv'
    <2>1. dragCmp \in Columns /\ Release
      BY <1>5 DEF ClickButton, Release, Pressed
    <2>2. CASE suspended[dragCmp] = 0
      BY <1>2, <1>5, <2>1, <2>2 DEF ClickButton
    <2>3. CASE suspended[dragCmp] # 0
      <3>1. UNCHANGED <<items, direction, enablePersistance>>
        BY <1>5, <2>3 DEF ClickButton
      <3>2. ReordererTypeOK' /\ Pressed' /\ Suspensions'
        BY <2>1, <3>1 DEF Release, Pressed, Suspensions
      <3>. QED
        BY <1>1, <2>1, <3>1, <3>2 DEF Release
    <2>. QED
      BY <2>2, <2>3
  <1>6. ASSUME ArrowClick PROVE ToolbarInv'
    <2>1. dragCmp \in Columns /\ HasButton(dragCmp)
      BY <1>6 DEF ArrowClick, Pressed, HasButton, Contains
    <2>2. /\ RemoveBtn(dragCmp) /\ mouse' = "up" /\ mouse # "drag"
          /\ UNCHANGED <<enablePersistance, reflows>>
      BY <1>6 DEF ArrowClick
    <2>. QED
      BY <2>1, <2>2, ButtonGone
  <1>7. ASSUME NEW c \in Columns, OnColumnHide(c) PROVE ToolbarInv'
    <2>1. /\ HasButton(c) /\ RemoveBtn(c) /\ mouse' = "up" /\ mouse # "drag"
          /\ UNCHANGED <<enablePersistance, reflows>>
      BY <1>7 DEF OnColumnHide
    <2>. QED
      BY <2>1, ButtonGone
  <1>8. ASSUME ResetSort PROVE ToolbarInv'
    <2>. DEFINE gone == {c \in Columns : HasButton(c) /\ ~Contains(items', c)}
    <2>1. Forget(gone) /\ UNCHANGED <<enablePersistance, direction, mouse, reflows>>
      BY <1>8 DEF ResetSort
    <2>2. Lawful(items', enablePersistance)
      BY <1>8, ResetKeeps DEF ResetSort
    <2>3. gone \subseteq Columns
      OBVIOUS
    <2>. HIDE DEF gone
    <2>4. items' \in Seq(Columns \cup Fixed) /\ Len(items') \in Nat
      BY <2>2, LenProperties DEF Lawful
    <2>5. suspended' \in [Columns -> 0..MaxReflows]
      BY <2>1, ReordererAssumption DEF Forget
    <2>6. ReordererTypeOK'
      BY <2>1, <2>4, <2>5 DEF Forget
    <2>7. Lawful(items, enablePersistance)'
      BY <2>1, <2>2 DEF Lawful, OneButton, Ends
    <2>8. mouse = "up" /\ Pressed'
      BY <1>8, <2>1 DEF ResetSort, Pressed
    <2>9. Suspensions'
      BY <2>1, <2>3, <2>8, ReordererAssumption DEF Forget, Suspensions
    <2>. QED
      BY <2>1, <2>6, <2>7, <2>8, <2>9
  <1>9. ASSUME OnAfterReconfigure \/ UNCHANGED sortVars PROVE ToolbarInv'
    BY <1>1, <1>9 DEF OnAfterReconfigure, sortVars, dragVars, Pressed, Suspensions
  <1>. QED
    BY <1>3, <1>4, <1>5, <1>6, <1>7, <1>8, <1>9, ReorderingKeeps DEF MultiSortNext

\* What the store is sorted by are sorters.
LEMMA SortersTyped ==
    ASSUME NEW toolbar \in Seq(Columns \cup Fixed), NEW dir \in [Columns -> Directions]
    PROVE  GetSorters(toolbar, dir) \in Seq(Sorters)
  <1>. DEFINE n == Len(toolbar)
              X == Seq(Sorters)
              Sorter(k) == [property |-> toolbar[k], direction |-> dir[toolbar[k]]]
              On(x, k) == IF toolbar[k] \in Columns THEN Append(x, Sorter(k)) ELSE x
              Map(g) == [k \in 0..n |-> IF k = 0 THEN <<>> ELSE On(g[k - 1], k)]
              all == CHOOSE g : g = Map(g)
              step == [p \in Nat \X X |-> On(p[2], p[1])]
              first == <<>>
  <1>1. n \in Nat
    BY LenProperties
  <1>2. first \in X
    BY EmptySeq
  <1>3. ASSUME NEW x \in X, NEW k \in Nat PROVE On(x, k) \in X
    <2>1. CASE toolbar[k] \in Columns
      <3>1. Sorter(k) \in Sorters
        BY <2>1 DEF Sorters
      <3>. HIDE DEF Sorter
      <3>. QED
        BY <2>1, <3>1, AppendProperties
    <2>. QED
      BY <2>1
  <1>4. GetSorters(toolbar, dir) = all[n]
    BY DEF GetSorters
  <1>. HIDE DEF X, first, On
  <1>5. step \in [Nat \X X -> X]
    BY <1>3
  <1>6. \A x \in X, k \in 1..n : step[<<k, x>>] = On(x, k)
    <2>. TAKE x \in X, k \in 1..n
    <2>1. <<k, x>> \in Nat \X X /\ <<k, x>>[1] = k /\ <<k, x>>[2] = x
      BY <1>1
    <2>. QED
      BY <2>1
  <1>. HIDE DEF step, n
  <1>7. PICK f \in [0..n -> X] :
          /\ f[0] = first
          /\ \A k \in 0..n : k # 0 => f[k] = step[<<k, f[k - 1]>>]
    <2>1. Iterable(X, first, step, n)
      BY <1>1, <1>2, <1>5, RecursionExists
    <2>. QED
      BY <2>1 DEF Iterable
  <1>8. ASSUME NEW k \in 1..n PROVE f[k] = On(f[k - 1], k)
    <2>1. k - 1 \in 0..n /\ k \in 0..n /\ k # 0
      BY <1>1
    <2>. DEFINE x == f[k - 1]
    <2>2. x \in X /\ f[k] = step[<<k, x>>]
      BY <1>7, <2>1
    <2>. HIDE DEF x
    <2>3. f[k] = On(x, k)
      BY <1>6, <2>2
    <2>. QED
      BY <2>3 DEF x
  <1>9. f = Map(f)
    <2>1. ASSUME NEW k \in 0..n, k # 0 PROVE f[k] = On(f[k - 1], k)
      <3>1. k \in 1..n
        BY <1>1, <2>1
      <3>. QED
        BY <1>8, <3>1
    <2>. QED
      BY <1>7, <2>1 DEF first
  <1>10. all = Map(all)
    <2>. HIDE DEF Map
    <2>. QED
      BY <1>9
  <1>. HIDE DEF all
  <1>11. ASSUME NEW k \in 0..n
         PROVE  all[k] = IF k = 0 THEN <<>> ELSE On(all[k - 1], k)
    <2>1. all[k] = Map(all)[k]
      BY <1>10
    <2>2. Map(all)[k] = IF k = 0 THEN <<>> ELSE On(all[k - 1], k)
      OBVIOUS
    <2>. QED
      BY <2>1, <2>2
  <1>. HIDE DEF Map
  <1>. DEFINE P == {m \in Nat : m <= n => all[m] \in X}
  <1>12. 0 \in P
    <2>1. 0 \in 0..n
      BY <1>1
    <2>. QED
      BY <1>2, <1>11, <2>1 DEF first
  <1>13. ASSUME NEW m \in P PROVE m + 1 \in P
    <2>. SUFFICES ASSUME m + 1 <= n PROVE all[m + 1] \in X
      OBVIOUS
    <2>1. m + 1 \in 0..n /\ m + 1 \in Nat /\ (m + 1) - 1 = m /\ all[m] \in X /\ m + 1 # 0
      BY <1>1
    <2>2. all[m + 1] = On(all[m], m + 1)
      BY <1>11, <2>1
    <2>. QED
      BY <1>3, <2>1, <2>2
  <1>14. P \in SUBSET Nat
    OBVIOUS
  <1>. HIDE DEF P
  <1>15. n \in P
    BY <1>1, <1>12, <1>13, <1>14, InSet
  <1>. QED
    BY <1>1, <1>4, <1>15 DEF P, X

\* The state of the toolbar: its buttons, their directions, and what the store was
\* sorted by, whatever is clicked, dropped and dragged.
THEOREM ToolbarTyped == MultiSortSpec => []MultiSortTypeOK
  <1>. DEFINE Sorted == sorted \in Seq(Sorters) /\ unsorted \in BOOLEAN
              Typed == ToolbarInv /\ Sorted
  <1>1. ASSUME MultiSortInit PROVE Typed
    <2>1. Sorted
      BY <1>1, EmptySeq DEF MultiSortInit
    <2>. QED
      BY <1>1, <2>1, InitToolbar
  <1>2. ASSUME Typed, [MultiSortNext]_sortVars PROVE Typed'
    <2>1. ToolbarInv'
      BY <1>2, NextToolbar
    <2>2. items' \in Seq(Columns \cup Fixed) /\ direction' \in [Columns -> Directions]
      BY <2>1 DEF ToolbarInv, ReordererTypeOK
    <2>3. ASSUME DoSort PROVE Sorted'
      BY <2>2, <2>3, SortersTyped DEF DoSort
    <2>4. ASSUME UNCHANGED <<sorted, unsorted>> PROVE Sorted'
      BY <1>2, <2>4
    <2>5. ASSUME NEW c \in Columns, OnSortChange(c) \/ OnColumnHide(c) PROVE Sorted'
      BY <2>3, <2>5 DEF OnSortChange, OnColumnHide, Toggle, Insert, RemoveBtn
    <2>6. ASSUME NEW c \in Columns, NEW i \in EntryIndexes, NotifyDrop(c, i) PROVE Sorted'
      BY <2>3, <2>6 DEF NotifyDrop, Insert
    <2>7. ASSUME ClickButton PROVE Sorted'
      BY <2>3, <2>4, <2>7 DEF ClickButton, Toggle
    <2>8. ASSUME ArrowClick PROVE Sorted'
      BY <2>3, <2>8 DEF ArrowClick, RemoveBtn
    <2>9. ASSUME ResetSort PROVE Sorted'
      BY <1>2, <2>9 DEF ResetSort
    <2>10. ASSUME OnAfterReconfigure PROVE Sorted'
      BY <2>10, EmptySeq DEF OnAfterReconfigure
    <2>11. ASSUME Reordering PROVE Sorted'
      BY <2>4, <2>11 DEF Reordering
    <2>12. ASSUME Dropped PROVE Sorted'
      BY <2>3, <2>12 DEF Dropped
    <2>13. ASSUME UNCHANGED sortVars PROVE Sorted'
      BY <2>4, <2>13 DEF sortVars
    <2>14. Sorted'
      <3>. HIDE DEF Sorted
      <3>. QED
        BY <1>2, <2>5, <2>6, <2>7, <2>8, <2>9, <2>10, <2>11, <2>12, <2>13 DEF MultiSortNext
    <2>. QED
      BY <2>1, <2>14
  <1>3. Typed => MultiSortTypeOK
    BY DEF ToolbarInv, MultiSortTypeOK
  <1>. HIDE DEF Typed
  <1>. QED
    BY <1>1, <1>2, <1>3, PTL DEF MultiSortSpec

\* ToolbarWellFormed: for any number of columns, a column has one button and a
\* reset restores the toolbar.
THEOREM ToolbarsAreWellFormed == MultiSortSpec => []ToolbarWellFormed
  <1>1. ASSUME ToolbarInv PROVE ToolbarWellFormed
    <2>1. ASSUME NEW c \in Columns
          PROVE  Cardinality({i \in DOMAIN items : items[i] = c}) <= 1
      <3>. DEFINE at == {i \in DOMAIN items : items[i] = c}
      <3>1. \A i, j \in at : i = j
        BY <1>1, LenProperties DEF ToolbarInv, Lawful, OneButton
      <3>2. at = {} \/ \E i : at = {i}
        BY <3>1
      <3>. HIDE DEF at
      <3>3. Cardinality(at) \in {0, 1}
        BY <3>2, FS_EmptySet, FS_Singleton
      <3>. QED
        BY <3>3 DEF at
    <2>2. ~enablePersistance => KeptByReset(items) = Frame
      BY <1>1, ResetKeeps DEF ToolbarInv
    <2>. QED
      BY <2>1, <2>2 DEF ToolbarWellFormed
  <1>. QED
    BY <1>1, InitToolbar, NextToolbar, PTL DEF MultiSortSpec

\* EventsComeBack: no button loses its events but the one that is dragged, one
\* that waits for its reflow, and those another press has taken it from.
THEOREM EventsAreResumed == MultiSortSpec => []EventsComeBack
  <1>1. ASSUME ToolbarInv PROVE EventsComeBack
    BY <1>1 DEF ToolbarInv, ReordererTypeOK, Suspensions, EventsComeBack
  <1>. QED
    BY <1>1, InitToolbar, NextToolbar, PTL DEF MultiSortSpec

\* StoreFollowsToolbar: the store is sorted by the buttons, in their order,
\* whenever none is dragged and no reset or new store came since.
THEOREM StoreIsSortedByToolbar == MultiSortSpec => []StoreFollowsToolbar
  <1>. DEFINE Same == UNCHANGED <<items, direction, sorted, unsorted>>
  <1>1. ASSUME MultiSortInit PROVE StoreFollowsToolbar
    BY <1>1 DEF MultiSortInit, StoreFollowsToolbar
  <1>2. ASSUME StoreFollowsToolbar, [MultiSortNext]_sortVars
        PROVE  StoreFollowsToolbar'
    <2>. USE <1>2
    <2>1. ASSUME DoSort PROVE StoreFollowsToolbar'
      BY <2>1 DEF DoSort, StoreFollowsToolbar
    <2>2. ASSUME Same, mouse' # mouse => mouse' = "drag" \/ mouse # "drag"
          PROVE  StoreFollowsToolbar'
      BY <2>2 DEF StoreFollowsToolbar
    <2>3. ASSUME NEW c \in Columns, OnSortChange(c) \/ OnColumnHide(c)
          PROVE  StoreFollowsToolbar'
      BY <2>1, <2>3 DEF OnSortChange, OnColumnHide, Toggle, Insert, RemoveBtn
    <2>4. ASSUME NEW c \in Columns, NEW i \in EntryIndexes, NotifyDrop(c, i)
          PROVE  StoreFollowsToolbar'
      BY <2>1, <2>4 DEF NotifyDrop, Insert
    <2>5. CASE ClickButton
      BY <2>1, <2>2, <2>5 DEF ClickButton, Release, Toggle
    <2>6. CASE ArrowClick
      BY <2>1, <2>6 DEF ArrowClick, RemoveBtn
    <2>7. CASE ResetSort \/ OnAfterReconfigure
      BY <2>7 DEF ResetSort, OnAfterReconfigure, StoreFollowsToolbar
    <2>8. ASSUME NEW n \in DOMAIN items, Reordering, MouseDown(n)
          PROVE  StoreFollowsToolbar'
      BY <2>2, <2>8 DEF Reordering, MouseDown
    <2>9. ASSUME NEW n \in DOMAIN items, Drag(n) PROVE StoreFollowsToolbar'
      BY <2>9 DEF Drag, StoreFollowsToolbar
    <2>10. CASE Reordering /\ (StartDrag \/ AfterBoxReflow)
      BY <2>2, <2>10 DEF Reordering, StartDrag, AfterBoxReflow
    <2>11. CASE Dropped
      BY <2>1, <2>11 DEF Dropped
    <2>12. CASE UNCHANGED sortVars
      BY <2>2, <2>12 DEF sortVars, dragVars
    <2>. QED
      BY <2>3, <2>4, <2>5, <2>6, <2>7, <2>8, <2>9, <2>10, <2>11, <2>12
         DEF MultiSortNext, Reordering
  <1>. QED
    BY <1>1, <1>2, PTL DEF MultiSortSpec

-----------------------------------------------------------------------------
\* The quick search.

\* The words of an expression as one word are a text.
LEMMA JoinedTyped ==
    ASSUME NEW words \in Seq(Seq(Characters))
    PROVE  Joined(words) \in Seq(Characters)
  <1>. DEFINE n == Len(words)
              X == Seq(Characters)
              Next1(g, k) == IF g[k - 1] = <<>> THEN words[k]
                             ELSE g[k - 1] \o <<" ">> \o words[k]
              Map(g) == [k \in 0..n |-> IF k = 0 THEN <<>> ELSE Next1(g, k)]
              joined == CHOOSE g : g = Map(g)
              step == [p \in Nat \X X |->
                         IF p[1] \in 1..n
                           THEN IF p[2] = <<>> THEN words[p[1]]
                                ELSE p[2] \o <<" ">> \o words[p[1]]
                           ELSE <<>>]
  <1>1. n \in Nat /\ \A k \in 1..n : words[k] \in X
    BY LenProperties, ElementOfSeq
  <1>2. <<>> \in X /\ <<" ">> \in X
    <2>1. " " \in Characters
      BY SearchAssumption
    <2>2. <<" ">> \in X
      <3>. DEFINE blank == " "
      <3>1. blank \in Characters
        BY <2>1
      <3>. HIDE DEF blank
      <3>2. <<blank>> \in X
        BY <3>1
      <3>. QED
        BY <3>2 DEF blank
    <2>3. <<>> \in X
      BY EmptySeq
    <2>. QED
      BY <2>2, <2>3
  <1>. HIDE DEF X
  <1>3. ASSUME NEW x \in X, NEW k \in 1..n
        PROVE  (IF x = <<>> THEN words[k] ELSE x \o <<" ">> \o words[k]) \in X
    <2>1. words[k] \in X
      BY <1>1
    <2>2. x \o <<" ">> \in X
      BY <1>2, ConcatProperties DEF X
    <2>3. (x \o <<" ">>) \o words[k] \in X
      BY <2>1, <2>2, ConcatProperties DEF X
    <2>. QED
      BY <2>1, <2>3
  <1>4. step \in [Nat \X X -> X]
    BY <1>2, <1>3
  <1>5. \A p \in Nat \X X : p[1] \in 1..n =>
          step[p] = IF p[2] = <<>> THEN words[p[1]] ELSE p[2] \o <<" ">> \o words[p[1]]
    OBVIOUS
  <1>. DEFINE first == <<>>
  <1>. HIDE DEF step, n
  <1>6. PICK f \in [0..n -> X] :
          /\ f[0] = first
          /\ \A k \in 0..n : k # 0 => f[k] = step[<<k, f[k - 1]>>]
    <2>1. first \in X /\ n \in Nat
      BY <1>1, <1>2
    <2>. HIDE DEF first
    <2>2. Iterable(X, first, step, n)
      BY <2>1, <1>4, RecursionExists
    <2>. QED
      BY <2>2 DEF Iterable
  <1>7. f = Map(f)
    <2>1. ASSUME NEW k \in 0..n, k # 0 PROVE f[k] = Next1(f, k)
      <3>1. k \in 1..n /\ k \in Nat /\ k - 1 \in 0..n
        BY <1>1, <2>1
      <3>. DEFINE x == f[k - 1]
      <3>2. x \in X
        BY <3>1
      <3>. HIDE DEF x
      <3>3. step[<<k, x>>] = IF x = <<>> THEN words[k] ELSE x \o <<" ">> \o words[k]
        <4>1. <<k, x>> \in Nat \X X /\ <<k, x>>[1] = k /\ <<k, x>>[2] = x
          BY <3>1, <3>2
        <4>. QED
          BY <1>5, <3>1, <4>1
      <3>. QED
        BY <1>6, <2>1, <3>3 DEF x
    <2>. HIDE DEF Next1
    <2>. QED
      BY <1>6, <2>1
  <1>8. joined = Map(joined)
    <2>. HIDE DEF Map
    <2>. QED
      BY <1>7
  <1>. HIDE DEF joined
  <1>9. /\ joined[0] = <<>>
        /\ \A k \in 1..n : joined[k] = Next1(joined, k)
    <2>1. ASSUME NEW k \in 0..n
          PROVE  joined[k] = IF k = 0 THEN <<>> ELSE Next1(joined, k)
      <3>1. joined[k] = Map(joined)[k]
        BY <1>8
      <3>. HIDE DEF Next1
      <3>2. Map(joined)[k] = IF k = 0 THEN <<>> ELSE Next1(joined, k)
        OBVIOUS
      <3>. QED
        BY <3>1, <3>2
    <2>. HIDE DEF Next1
    <2>. QED
      BY <1>1, <2>1
  <1>. DEFINE Typed == {m \in Nat : m <= n => joined[m] \in X}
  <1>10. Typed = Nat
    <2>1. 0 \in Typed
      BY <1>2, <1>9
    <2>2. ASSUME NEW m \in Typed PROVE m + 1 \in Typed
      <3>. SUFFICES ASSUME m + 1 <= n PROVE joined[m + 1] \in X
        OBVIOUS
      <3>1. m + 1 \in 1..n /\ joined[m] \in X /\ (m + 1) - 1 = m
        BY <1>1
      <3>2. joined[m + 1] = IF joined[m] = <<>> THEN words[m + 1]
                            ELSE joined[m] \o <<" ">> \o words[m + 1]
        BY <1>9, <3>1
      <3>. QED
        BY <1>3, <3>1, <3>2
    <2>3. Typed \in SUBSET Nat
      OBVIOUS
    <2>. HIDE DEF Typed
    <2>. QED
      BY <2>1, <2>2, <2>3, InSet
  <1>11. Joined(words) = joined[n]
    BY DEF Joined, joined, n
  <1>12. n \in Typed
    BY <1>1, <1>10
  <1>13. joined[n] \in X
    BY <1>1, <1>12
  <1>. QED
    BY <1>11, <1>13 DEF X

\* A letter of a text in upper case is a letter, and stays as it is.
LEMMA FoldTyped ==
    ASSUME NEW text \in Seq(Characters), NEW ignoring
    PROVE  /\ Fold(text, ignoring) \in Seq(Characters)
           /\ Len(Fold(text, ignoring)) = Len(text)
           /\ Fold(Fold(text, ignoring), ignoring) = Fold(text, ignoring)
           /\ \A other : Fold(text, other) \in {text, Fold(text, TRUE)}
  <1>. DEFINE upper == [i \in DOMAIN text |-> UpperOf[text[i]]]
  <1>1. /\ Len(text) \in Nat /\ DOMAIN text = 1..Len(text)
        /\ \A i \in 1..Len(text) : text[i] \in Characters
    BY LenProperties, ElementOfSeq
  <1>2. /\ UpperOf \in [Characters -> Characters]
        /\ \A c \in Characters : UpperOf[UpperOf[c]] = UpperOf[c]
    BY SearchAssumption
  <1>3. \A i \in 1..Len(text) : UpperOf[text[i]] \in Characters
    BY <1>1, <1>2
  <1>4. upper \in Seq(Characters) /\ Len(upper) = Len(text)
    <2>1. upper = [i \in 1..Len(text) |-> UpperOf[text[i]]]
      BY <1>1
    <2>. HIDE DEF upper
    <2>. QED
      BY <1>1, <1>3, <2>1
  <1>5. [i \in DOMAIN upper |-> UpperOf[upper[i]]] = upper
    BY <1>1, <1>2
  <1>. QED
    BY <1>4, <1>5 DEF Fold

\* What is searched is an expression, as one word or as several, as they are or
\* in upper case.
LEMMA WordsTyped ==
    ASSUME NEW e \in Expressions
    PROVE  /\ \A ticked : /\ Words(e, ticked) \in WordsOf(e)
                          /\ Words(e, ticked) \in Seq(Seq(Characters))
                          /\ "ignoreCase" \in ticked =>
                               \A i \in DOMAIN Words(e, ticked) :
                                 Fold(Words(e, ticked)[i], TRUE) = Words(e, ticked)[i]
           /\ WordsOf(e) \subseteq Seq(Seq(Characters))
  <1>. DEFINE X == Seq(Characters)
  <1>1. e \in Seq(X)
    BY SearchAssumption
  <1>2. Joined(e) \in X
    BY <1>1, JoinedTyped
  <1>3. ASSUME NEW ticked
        PROVE  /\ Words(e, ticked) \in Seq(X)
               /\ Words(e, ticked) \in WordsOf(e)
               /\ "ignoreCase" \in ticked =>
                    \A i \in DOMAIN Words(e, ticked) :
                      Fold(Words(e, ticked)[i], TRUE) = Words(e, ticked)[i]
    <2>. DEFINE Is(t) == e # Nothing /\ "matchMultiword" \in t
                words(t) == IF Is(t) THEN e ELSE <<Joined(e)>>
                kept == ticked \cap {"matchMultiword", "ignoreCase"}
    <2>1. words(ticked) \in Seq(X)
      <3>. HIDE DEF X
      <3>. QED
        BY <1>1, <1>2
    <2>2. Words(e, ticked) = [i \in DOMAIN words(ticked) |->
                                Fold(words(ticked)[i], "ignoreCase" \in ticked)]
      BY DEF Words
    <2>3. Words(e, ticked) = Words(e, kept) /\ Words(e, kept) \in WordsOf(e)
      <3>1. /\ "matchMultiword" \in ticked <=> "matchMultiword" \in kept
            /\ "ignoreCase" \in ticked <=> "ignoreCase" \in kept
            /\ kept \in SUBSET {"matchMultiword", "ignoreCase"}
        OBVIOUS
      <3>2. ("ignoreCase" \in ticked) = ("ignoreCase" \in kept)
        BY <3>1
      <3>. HIDE DEF kept
      <3>3. Words(e, kept) \in WordsOf(e)
        BY <3>1 DEF WordsOf
      <3>4. Words(e, ticked) = Words(e, kept)
        BY <3>1, <3>2, Zenon DEF Words
      <3>. QED
        BY <3>3, <3>4
    <2>. HIDE DEF words
    <2>4. /\ Len(words(ticked)) \in Nat
          /\ DOMAIN words(ticked) = 1..Len(words(ticked))
          /\ \A i \in 1..Len(words(ticked)) : words(ticked)[i] \in X
      <3>. HIDE DEF X
      <3>. QED
        BY <2>1, LenProperties, ElementOfSeq
    <2>5. \A i \in 1..Len(words(ticked)) :
            /\ Fold(words(ticked)[i], "ignoreCase" \in ticked) \in X
            /\ "ignoreCase" \in ticked =>
                 Fold(Fold(words(ticked)[i], "ignoreCase" \in ticked), TRUE)
                   = Fold(words(ticked)[i], "ignoreCase" \in ticked)
      BY <2>4, FoldTyped
    <2>6. Words(e, ticked) \in Seq(X)
      <3>. DEFINE folded == [i \in 1..Len(words(ticked)) |->
                               Fold(words(ticked)[i], "ignoreCase" \in ticked)]
      <3>1. \A i \in 1..Len(words(ticked)) :
              Fold(words(ticked)[i], "ignoreCase" \in ticked) \in X
        BY <2>5
      <3>2. Words(e, ticked) = folded
        BY <2>2, <2>4
      <3>. HIDE DEF X
      <3>3. folded \in Seq(X)
        BY <2>4, <3>1
      <3>. QED
        BY <3>2, <3>3
    <2>. QED
      BY <2>2, <2>3, <2>4, <2>5, <2>6
  <1>. QED
    BY <1>3 DEF WordsOf, X

\* The assumptions on constants without a quantifier.
LEMMA SearchConstants ==
    <<>> \in Expressions /\ NoExpression \notin Expressions /\ MaxTimers \in Nat
  BY SearchAssumption

\* The field is empty at first.
LEMMA InitSearch ==
    ASSUME SearchInit
    PROVE  SearchTypeOK
  <1>1. Nothing \in Expressions /\ MaxTimers \in Nat
    BY SearchConstants DEF Nothing
  <1>2. searchArray \in UNION {WordsOf(e) : e \in Expressions}
    BY <1>1, WordsTyped DEF SearchInit
  <1>. QED
    <2>1. /\ field \in Expressions /\ lastSearchExpr = NoExpression
          /\ caseIgnored \in BOOLEAN
          /\ flags \subseteq Flags /\ evaluated \subseteq Flags
          /\ filtered \in BOOLEAN /\ missed \in BOOLEAN
          /\ records = Records /\ shown = records
      BY <1>1 DEF SearchInit
    <2>2. timers \in 0..MaxTimers
      BY <1>1 DEF SearchInit
    <2>. QED
      BY <1>2, <2>1, <2>2 DEF SearchTypeOK

\* Every step keeps the types.
LEMMA NextSearch ==
    ASSUME SearchTypeOK, [SearchNext]_searchVars
    PROVE  SearchTypeOK'
  <1>. USE DEF SearchTypeOK
  <1>0. Nothing \in Expressions /\ MaxTimers \in Nat
    BY SearchConstants DEF Nothing
  <1>1. ASSUME NEW e \in Expressions, Search(e), records' = records
        PROVE  /\ searchArray' \in UNION {WordsOf(x) : x \in Expressions}
               /\ caseIgnored' \in BOOLEAN
               /\ filtered' \in BOOLEAN /\ evaluated' \subseteq Flags
               /\ shown' \subseteq records'
    <2>0. caseIgnored' = ("ignoreCase" \in flags) /\ filtered' = TRUE
      BY <1>1 DEF Search
    <2>1. caseIgnored' \in BOOLEAN /\ filtered' \in BOOLEAN
      <3>1. ("ignoreCase" \in flags) \in BOOLEAN
        OBVIOUS
      <3>. QED
        BY <2>0, <3>1
    <2>. QED
      BY <1>1, <2>1, WordsTyped DEF Search, Matching
  <1>2. ASSUME NEW e \in Expressions, TypeKey(e) \/ TypeInGrid(e)
        PROVE  SearchTypeOK'
    <2>1. CASE TypeKey(e)
      <3>1. timers' \in 0..MaxTimers
        BY <1>0, <2>1 DEF TypeKey, PlanSearch
      <3>. QED
        BY <2>1, <3>1 DEF TypeKey
    <2>2. CASE TypeInGrid(e)
      <3>1. timers' \in 0..MaxTimers
        BY <1>0, <2>2 DEF TypeInGrid, PlanSearch
      <3>2. missed' \in BOOLEAN
        BY <2>2 DEF TypeInGrid
      <3>. QED
        BY <2>2, <3>1, <3>2 DEF TypeInGrid
    <2>. QED
      BY <1>2, <2>1, <2>2
  <1>3. ASSUME Enter PROVE SearchTypeOK'
    BY <1>0, <1>1, <1>3 DEF Enter, PlanSearch
  <1>4. ASSUME LiveSearch PROVE SearchTypeOK'
    <2>1. timers' \in 0..MaxTimers
      BY <1>0, <1>4 DEF LiveSearch
    <2>2. CASE lastSearchExpr # field
      BY <1>1, <1>4, <2>1, <2>2 DEF LiveSearch
    <2>3. CASE lastSearchExpr = field
      BY <1>4, <2>1, <2>3 DEF LiveSearch
    <2>. QED
      BY <2>2, <2>3
  <1>5. ASSUME Close PROVE SearchTypeOK'
    BY <1>0, <1>5 DEF Close
  <1>6. ASSUME NEW flag \in Flags, OnItemCheck(flag) PROVE SearchTypeOK'
    BY <1>6 DEF OnItemCheck, SymDiff
  <1>7. ASSUME NEW r \in Records, Reload(r) PROVE SearchTypeOK'
    BY <1>7 DEF Reload, SymDiff, Matching
  <1>8. ASSUME UNCHANGED searchVars PROVE SearchTypeOK'
    BY <1>8 DEF searchVars
  <1>. QED
    BY <1>2, <1>3, <1>4, <1>5, <1>6, <1>7, <1>8 DEF SearchNext

\* SearchTypeOK: the state of the search, whatever is typed and ticked.
THEOREM SearchTyped == SearchSpec => []SearchTypeOK
  BY InitSearch, NextSearch, PTL DEF SearchSpec

\* What the live search knows of the grid, unless something passed it by.
LiveSearchInv ==
    ~missed =>
      /\ lastSearchExpr \notin {Nothing, NoExpression} =>
           filtered /\ searchArray \in WordsOf(lastSearchExpr)
      /\ timers = 0 =>
           \/ lastSearchExpr = field
           \/ lastSearchExpr = NoExpression /\ field = Nothing

\* LiveSearchCatchesUp: the grid shows what the field asks for once the timers
\* have run, however many were planned and whatever they found to do.
THEOREM TheLiveSearchCatchesUp == SearchSpec => []LiveSearchCatchesUp
  <1>. DEFINE Inv == SearchTypeOK /\ LiveSearchInv
  <1>1. SearchInit => Inv
    BY InitSearch DEF SearchInit, LiveSearchInv
  <1>2. ASSUME Inv, [SearchNext]_searchVars PROVE Inv'
    <2>. USE <1>2 DEF LiveSearchInv
    <2>1. timers \in Nat /\ field \in Expressions
      BY SearchConstants DEF SearchTypeOK
    <2>2. ASSUME Search(field) PROVE filtered' /\ searchArray' \in WordsOf(field)
      BY <2>1, <2>2, WordsTyped DEF Search
    <2>3. ASSUME NEW e \in Expressions, TypeKey(e) \/ TypeInGrid(e)
          PROVE  LiveSearchInv'
      BY <2>1, <2>3 DEF TypeKey, TypeInGrid, PlanSearch
    <2>4. ASSUME Enter PROVE LiveSearchInv'
      <3>1. /\ filtered' /\ searchArray' \in WordsOf(field)
            /\ timers' # 0 /\ lastSearchExpr' = lastSearchExpr
            /\ missed' = (missed \/ field # lastSearchExpr)
        BY <2>1, <2>2, <2>4 DEF Enter, PlanSearch
      <3>. QED
        BY <3>1
    <2>5. ASSUME LiveSearch PROVE LiveSearchInv'
      <3>1. CASE lastSearchExpr # field
        <4>1. filtered' /\ searchArray' \in WordsOf(field) /\ lastSearchExpr' = field
              /\ field' = field
          BY <2>2, <2>5, <3>1 DEF LiveSearch
        <4>. QED
          BY <4>1
      <3>2. CASE lastSearchExpr = field
        BY <2>5, <3>2 DEF LiveSearch
      <3>. QED
        BY <3>1, <3>2
    <2>6. ASSUME NEW flag \in Flags, OnItemCheck(flag) PROVE LiveSearchInv'
      BY <2>6 DEF OnItemCheck
    <2>7. ASSUME NEW r \in Records, Reload(r) PROVE LiveSearchInv'
      BY <2>7 DEF Reload
    <2>8. ASSUME Close \/ UNCHANGED searchVars PROVE LiveSearchInv'
      BY <2>8 DEF Close, searchVars
    <2>. QED
      BY <2>3, <2>4, <2>5, <2>6, <2>7, <2>8, NextSearch DEF SearchNext
  <1>3. Inv => LiveSearchCatchesUp
    BY SearchConstants DEF LiveSearchInv, LiveSearchCatchesUp, SearchTypeOK
  <1>. QED
    BY <1>1, <1>2, <1>3, PTL DEF SearchSpec

\* The places of a word in a text are naturals.
LEMMA OccurrencesTyped ==
    ASSUME NEW text \in Seq(Characters), NEW word \in Seq(Characters)
    PROVE  /\ Len(text) \in Nat /\ Len(word) \in Nat
           /\ \A i \in Occurrences(text, word) :
                i \in Nat \ {0} /\ i <= Len(text) - Len(word) + 1
  BY LenProperties DEF Occurrences

\* The first of them at or after a position.
LEMMA IndexIsFirst ==
    ASSUME NEW text \in Seq(Characters), NEW word \in Seq(Characters), NEW pos \in Nat
    PROVE  LET found == {i \in Occurrences(text, word) : i >= pos}
               index == IndexOf(text, word, pos)
           IN /\ index = 0 <=> found = {}
              /\ index # 0 => index \in found
  <1>. DEFINE found == {i \in Occurrences(text, word) : i >= pos}
  <1>1. found \in SUBSET (Nat \ {0})
    BY OccurrencesTyped
  <1>2. IndexOf(text, word, pos) = IF found = {} THEN 0 ELSE Min(found)
    BY DEF IndexOf
  <1>. HIDE DEF found
  <1>3. found # {} => Min(found) \in found
    BY <1>1, MinOf
  <1>. QED
    BY <1>1, <1>2, <1>3 DEF found

\* A word is found in a text only where it is, in a place that is ticked.
LEMMA FoundIsThere ==
    ASSUME NEW text \in Seq(Characters), NEW word \in Seq(Characters), NEW ticked,
           MatchPlace(word, text, ticked)
    PROVE  \E i \in Occurrences(text, word) : Place(text, word, i) \in ticked
  <1>. DEFINE found == Occurrences(text, word)
              end == Len(text) - Len(word) + 1
              first == IndexOf(text, word, 1)
              second == IndexOf(text, word, Min({2, Len(text) + 1}))
              pos == IF "matchBegin" \notin ticked /\ first = 1 THEN second ELSE first
  <1>1. /\ Len(text) \in Nat /\ Len(word) \in Nat
        /\ \A i \in found : i \in Nat \ {0} /\ i <= end
    BY OccurrencesTyped
  <1>2. first \in found
    BY IndexIsFirst DEF MatchPlace
  <1>3. Min({2, Len(text) + 1}) = IF Len(text) = 0 THEN 1 ELSE 2
    <2>1. Min({2, Len(text) + 1}) = IF 2 <= Len(text) + 1 THEN 2 ELSE Len(text) + 1
      BY <1>1, MinOfTwo
    <2>. QED
      BY <1>1, <2>1
  <1>4. second # 0 => second \in found /\ (second = 1 => Len(text) = 0)
    <2>1. second # 0 => second \in found /\ second >= Min({2, Len(text) + 1})
      BY <1>3, IndexIsFirst
    <2>. QED
      BY <1>1, <1>3, <2>1
  <1>5. IF pos = end THEN "matchEnd" \in ticked
                     ELSE pos = 1 \/ (pos # 0 /\ "matchMiddle" \in ticked)
    BY DEF MatchPlace
  <1>. HIDE DEF found, end, first, second
  <1>6. end \in Nat \ {0}
    BY <1>1, <1>2 DEF end
  <1>7. pos # 0
    BY <1>5, <1>6
  <1>8. pos \in found
    BY <1>2, <1>4, <1>7
  <1>9. ASSUME pos # end, pos = 1 PROVE "matchBegin" \in ticked
    <2>1. "matchBegin" \notin ticked => pos = second
      BY <1>9
    <2>2. pos = second => Len(text) = 0
      BY <1>4, <1>7, <1>9
    <2>3. Len(text) = 0 => end <= 1
      BY <1>1 DEF end
    <2>. QED
      BY <1>6, <1>9, <2>1, <2>2, <2>3
  <1>10. Place(text, word, pos) \in ticked
    <2>. HIDE DEF pos
    <2>. QED
      BY <1>5, <1>7, <1>9 DEF Place, end
  <1>. QED
    BY <1>8, <1>10 DEF found

\* It finds a word that is there, as long as every place is ticked.
LEMMA ThereIsFound ==
    ASSUME NEW text \in Seq(Characters), NEW word \in Seq(Characters), NEW ticked,
           {"matchBegin", "matchEnd", "matchMiddle"} \subseteq ticked,
           Occurrences(text, word) # {}
    PROVE  MatchPlace(word, text, ticked)
  <1>1. \A i \in Occurrences(text, word) : i >= 1
    BY OccurrencesTyped
  <1>2. IndexOf(text, word, 1) # 0
    BY <1>1, IndexIsFirst
  <1>. QED
    BY <1>2 DEF MatchPlace

\* Where a word is in a text, it is when case is ignored.
LEMMA OccursFolded ==
    ASSUME NEW text \in Seq(Characters), NEW word \in Seq(Characters),
           NEW i \in Occurrences(text, word), NEW ignoring
    PROVE  /\ i \in Occurrences(Fold(text, ignoring), Fold(word, ignoring))
           /\ Place(Fold(text, ignoring), Fold(word, ignoring), i) = Place(text, word, i)
  <1>. DEFINE upper(t) == Fold(t, TRUE)
              end == i + Len(word) - 1
  <1>1. /\ Len(text) \in Nat /\ Len(word) \in Nat
        /\ DOMAIN text = 1..Len(text) /\ DOMAIN word = 1..Len(word)
    BY LenProperties
  <1>2. /\ i \in Nat \ {0} /\ i <= Len(text) - Len(word) + 1
        /\ SubSeq(text, i, end) = word
    BY OccurrencesTyped DEF Occurrences
  <1>3. /\ upper(text) \in Seq(Characters) /\ Len(upper(text)) = Len(text)
        /\ upper(word) \in Seq(Characters) /\ Len(upper(word)) = Len(word)
    BY FoldTyped
  <1>4. \A k \in 1..Len(word) : word[k] = text[i + k - 1]
    <2>1. \A k \in 1..Len(word) : SubSeq(text, i, end)[k] = text[i + k - 1]
      BY <1>1, <1>2
    <2>. QED
      BY <1>2, <2>1
  <1>5. /\ \A k \in 1..Len(text) : upper(text)[k] = UpperOf[text[k]]
        /\ \A k \in 1..Len(word) : upper(word)[k] = UpperOf[word[k]]
    BY <1>1 DEF Fold
  <1>. HIDE DEF upper
  <1>6. SubSeq(upper(text), i, end) = upper(word)
    <2>1. /\ SubSeq(upper(text), i, end) \in Seq(Characters)
          /\ Len(SubSeq(upper(text), i, end)) = Len(word)
          /\ \A k \in 1..Len(word) : SubSeq(upper(text), i, end)[k] = upper(text)[i + k - 1]
      BY <1>1, <1>2, <1>3
    <2>2. \A k \in 1..Len(word) : upper(text)[i + k - 1] = upper(word)[k]
      BY <1>1, <1>2, <1>4, <1>5
    <2>3. \A k \in 1..Len(word) : SubSeq(upper(text), i, end)[k] = upper(word)[k]
      BY <2>1, <2>2
    <2>. QED
      BY <1>3, <2>1, <2>3, SeqEqual
  <1>7. i \in Occurrences(upper(text), upper(word))
    BY <1>1, <1>2, <1>3, <1>6 DEF Occurrences
  <1>8. Place(upper(text), upper(word), i) = Place(text, word, i)
    BY <1>3 DEF Place
  <1>. QED
    BY <1>7, <1>8 DEF upper, Fold

\* matchValue finds a word only in a cell that has it, in any case if that of
\* the word or of the cell was ignored.
LEMMA MatchedIsThere ==
    ASSUME NEW cell \in Cell, NEW word \in Seq(Characters), NEW ticked,
           MatchValue(word, cell, ticked),
           NEW ignoring \in BOOLEAN, "ignoreCase" \in ticked => ignoring
    PROVE  HasAt(cell, word, ticked, ignoring)
  <1>. DEFINE ignores == "ignoreCase" \in ticked
              text == Fold(cell.text, ignores)
  <1>1. cell.text \in Seq(Characters)
    BY DEF Cell
  <1>2. text \in Seq(Characters) /\ Fold(text, ignoring) = Fold(cell.text, ignoring)
    <2>1. CASE ignores
      <3>1. ignoring = TRUE /\ ignores = TRUE
        BY <2>1
      <3>2. text = Fold(cell.text, TRUE)
        BY <3>1
      <3>. QED
        BY <1>1, <3>1, <3>2, FoldTyped
    <2>2. CASE ~ignores
      <3>1. text = cell.text
        BY <2>2 DEF Fold
      <3>. QED
        BY <1>1, <3>1
    <2>. QED
      BY <2>1, <2>2
  <1>3. ASSUME NEW i \in Occurrences(text, word)
        PROVE  /\ i \in Occurrences(Fold(cell.text, ignoring), Fold(word, ignoring))
               /\ Place(Fold(cell.text, ignoring), word, i) = Place(text, word, i)
    <2>1. /\ i \in Occurrences(Fold(cell.text, ignoring), Fold(word, ignoring))
          /\ Place(Fold(cell.text, ignoring), Fold(word, ignoring), i) = Place(text, word, i)
      <3>. HIDE DEF text
      <3>. QED
        BY <1>2, OccursFolded
    <2>2. Len(Fold(word, ignoring)) = Len(word)
      BY FoldTyped
    <2>. QED
      BY <2>1, <2>2 DEF Place
  <1>4. CASE cell.kind = "icon" /\ Occurrences(text, word) # {}
    BY <1>3, <1>4 DEF HasAt
  <1>5. CASE cell.kind = "text" /\ MatchPlace(word, text, ticked)
    <2>. HIDE DEF text
    <2>1. \E i \in Occurrences(text, word) : Place(text, word, i) \in ticked
      BY <1>2, <1>5, FoundIsThere
    <2>. QED
      BY <1>3, <1>5, <2>1 DEF HasAt
  <1>6. CASE \/ cell.kind = "fails"
             \/ cell.kind = "custom" /\ <<word, cell.text>> \in CustomMatches
    BY <1>6 DEF HasAt
  <1>. QED
    BY <1>4, <1>5, <1>6 DEF MatchValue

\* It finds a word that is there in the case it looks for, as long as every
\* place is ticked.
LEMMA ThereIsMatched ==
    ASSUME NEW cell \in Cell, NEW word \in Seq(Characters), NEW ticked,
           {"matchBegin", "matchEnd", "matchMiddle"} \subseteq ticked,
           Fold(word, "ignoreCase" \in ticked) = word,
           HasAt(cell, word, ticked, "ignoreCase" \in ticked)
    PROVE  MatchValue(word, cell, ticked)
  <1>. DEFINE text == Fold(cell.text, "ignoreCase" \in ticked)
  <1>1. text \in Seq(Characters)
    BY FoldTyped DEF Cell
  <1>. HIDE DEF text
  <1>2. Occurrences(text, word) # {} => MatchPlace(word, text, ticked)
    BY <1>1, ThereIsFound
  <1>. QED
    BY <1>2 DEF HasAt, MatchValue, text

\* The grid shows what the words searched last match, by the flags with which
\* its filters ran.
FiltersInv ==
    /\ filtered => shown = Matching(searchArray, records, evaluated)
    /\ caseIgnored =>
         \A i \in DOMAIN searchArray : Fold(searchArray[i], TRUE) = searchArray[i]

\* ShownAreMatches: the position matchValue decides on is a place of the word,
\* every record is filtered by the words searched last, and these are in upper
\* case whenever the cells are compared so.
THEOREM TheShownAreMatches == SearchSpec => []ShownAreMatches
  <1>. DEFINE Inv == SearchTypeOK /\ FiltersInv
  <1>1. ASSUME SearchInit PROVE Inv
    <2>1. /\ Nothing \in Expressions /\ "ignoreCase" \in Flags
          /\ searchArray = Words(Nothing, Flags)
      BY <1>1, SearchConstants DEF SearchInit, Nothing, Flags
    <2>. QED
      BY <1>1, <2>1, InitSearch, WordsTyped DEF SearchInit, FiltersInv
  <1>2. ASSUME Inv, [SearchNext]_searchVars PROVE Inv'
    <2>. SUFFICES FiltersInv'
      BY <1>2, NextSearch
    <2>. USE <1>2 DEF FiltersInv
    <2>0. ASSUME UNCHANGED <<searchArray, caseIgnored, filtered, records, shown, evaluated>>
          PROVE  FiltersInv'
      BY <2>0
    <2>1. ASSUME NEW e \in Expressions, TypeKey(e) \/ TypeInGrid(e)
          PROVE  FiltersInv'
      <3>. HIDE DEF FiltersInv
      <3>. QED
        BY <2>0, <2>1 DEF TypeKey, TypeInGrid
    <2>2. ASSUME NEW e \in Expressions, Search(e), records' = records PROVE FiltersInv'
      BY <2>2, WordsTyped DEF Search
    <2>. field \in Expressions
      BY DEF SearchTypeOK
    <2>3. CASE Enter
      BY <2>2, <2>3 DEF Enter
    <2>4. CASE LiveSearch
      <3>1. CASE lastSearchExpr # field
        BY <2>2, <2>4, <3>1 DEF LiveSearch
      <3>2. CASE lastSearchExpr = field
        BY <2>4, <3>2 DEF LiveSearch
      <3>. QED
        BY <3>1, <3>2
    <2>7. CASE Close
      BY <2>7 DEF Close
    <2>8. CASE UNCHANGED searchVars
      BY <2>8 DEF searchVars
    <2>5. ASSUME NEW flag \in Flags, OnItemCheck(flag) PROVE FiltersInv'
      BY <2>5 DEF OnItemCheck
    <2>6. ASSUME NEW r \in Records, Reload(r) PROVE FiltersInv'
      BY <2>6 DEF Reload
    <2>. QED
      BY <2>1, <2>3, <2>4, <2>5, <2>6, <2>7, <2>8 DEF SearchNext
  <1>3. ASSUME Inv PROVE ShownAreMatches
    <2>. SUFFICES ASSUME filtered PROVE ShownAreMatches
      BY DEF ShownAreMatches
    <2>. DEFINE ignores == "ignoreCase" \in evaluated
                Has(r, ignoring) ==
                  \A i \in DOMAIN searchArray :
                    \E cell \in Cells[r] : HasAt(cell, searchArray[i], evaluated, ignoring)
    <2>1. \A i \in DOMAIN searchArray : searchArray[i] \in Seq(Characters)
      <3>1. searchArray \in Seq(Seq(Characters))
        BY <1>3, WordsTyped DEF SearchTypeOK
      <3>. QED
        BY <3>1, LenProperties, ElementOfSeq
    <2>2. \A r \in records : Cells[r] \subseteq Cell
      BY <1>3, SearchAssumption DEF SearchTypeOK
    <2>3. shown = {r \in records : MatchLine(searchArray, r, evaluated)}
      BY <1>3 DEF FiltersInv, Matching
    <2>4. caseIgnored \in BOOLEAN
      BY <1>3 DEF SearchTypeOK
    <2>5. ASSUME NEW r \in shown PROVE Has(r, caseIgnored \/ ignores)
      <3>1. r \in records /\ MatchLine(searchArray, r, evaluated)
        BY <2>3
      <3>2. ASSUME NEW i \in DOMAIN searchArray
            PROVE  \E cell \in Cells[r] :
                     HasAt(cell, searchArray[i], evaluated, caseIgnored \/ ignores)
        <4>1. PICK cell \in Cells[r] : MatchValue(searchArray[i], cell, evaluated)
          BY <3>1 DEF MatchLine
        <4>2. cell \in Cell
          BY <2>2, <3>1
        <4>3. (caseIgnored \/ ignores) \in BOOLEAN
          OBVIOUS
        <4>. QED
          BY <2>1, <4>1, <4>2, <4>3, MatchedIsThere
      <3>. QED
        BY <3>2
    <2>6. ASSUME {"matchBegin", "matchEnd", "matchMiddle"} \subseteq evaluated,
                 caseIgnored = ignores,
                 NEW r \in records, Has(r, ignores)
          PROVE  r \in shown
      <3>1. ASSUME NEW i \in DOMAIN searchArray
            PROVE  \E cell \in Cells[r] : MatchValue(searchArray[i], cell, evaluated)
        <4>1. PICK cell \in Cells[r] : HasAt(cell, searchArray[i], evaluated, ignores)
          BY <2>6
        <4>2. cell \in Cell
          BY <2>2
        <4>3. Fold(searchArray[i], ignores) = searchArray[i]
          <5>1. CASE ignores
            BY <1>3, <2>6, <5>1 DEF FiltersInv, Fold
          <5>2. CASE ~ignores
            BY <5>2 DEF Fold
          <5>. QED
            BY <5>1, <5>2
        <4>. QED
          BY <2>1, <2>6, <4>1, <4>2, <4>3, ThereIsMatched
      <3>. QED
        BY <2>3, <3>1 DEF MatchLine
    <2>. QED
      BY <2>5, <2>6 DEF ShownAreMatches
  <1>. QED
    BY <1>1, <1>2, <1>3, PTL DEF SearchSpec

-----------------------------------------------------------------------------
\* The widgets side by side.

\* Each widget runs as its own specification says, or rests.
LEMMA EachOnItsOwn ==
    Spec => MultiSortSpec /\ SearchSpec /\ SelectorSpec /\ DatesSpec /\ BundleSpec
  <1>1. Init => MultiSortInit /\ SearchInit /\ SelectorInit /\ DatesInit /\ BundleInit
    BY DEF Init
  <1>2. [Next]_vars => /\ [MultiSortNext]_sortVars
                       /\ [SearchNext]_searchVars
                       /\ [SelectorNext]_selectorVars
                       /\ [DatesNext]_dateVars
                       /\ [BundleNext]_bundleVars
    BY DEF Next, vars
  <1>. QED
    BY <1>1, <1>2, PTL DEF Spec, MultiSortSpec, SearchSpec, SelectorSpec, DatesSpec, BundleSpec

\* The state of all the widgets is typed: of what the toolbar sorted the store by,
\* the words searched, the lists and the value, the dates, and the messages.
THEOREM WidgetsTyped == Spec => []TypeOK
  <1>1. /\ MultiSortTypeOK /\ SearchTypeOK /\ SelectorTypeOK /\ DatesTypeOK /\ BundleTypeOK
          => TypeOK
    BY DEF TypeOK
  <1>. QED
    BY <1>1, EachOnItsOwn, ToolbarTyped, SearchTyped, SelectorTyped, DatesTyped,
       BundleTypeCorrect, PTL

\* So what is proved of each widget holds of all of them on one page.
THEOREM WidgetsTogether ==
    Spec => [](/\ StoreFollowsToolbar /\ ToolbarWellFormed /\ EventsComeBack
               /\ ShownAreMatches /\ LiveSearchCatchesUp
               /\ EachInOneList /\ UpAndDownByOne
               /\ DecodedIsMeant /\ CalledBackWithMessages)
  BY EachOnItsOwn, StoreIsSortedByToolbar, ToolbarsAreWellFormed, EventsAreResumed,
     TheShownAreMatches, TheLiveSearchCatchesUp, RecordsAreInOneList, UpAndDownAreByOne,
     CodedDatesAreMeant, MessagesBeforeCallback, PTL

===============================================================================
