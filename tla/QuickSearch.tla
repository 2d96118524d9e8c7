----------------------------- MODULE QuickSearch -----------------------------
(***************************************************************************)
(* The quick search of a grid: a text field that is searched on enter and, *)
(* some time after every key, live; five places and ways to search that    *)
(* can be unticked; and the filters it leaves in the store, which all read *)
(* the words searched last.                                                *)
(*                                                                         *)
(* A text is a sequence of letters and an expression a sequence of words,  *)
(* the blanks between which are one blank.                                 *)
(* Highlights and layout are left out.                                     *)
(***************************************************************************)
EXTENDS Integers, Sequences, FiniteSets, SequencesExt, FiniteSetsExt

CONSTANTS
    Characters,     \* of the texts and the words, the blank among them
    UpperOf,        \* the upper-case letter of each
    Records,        \* what the store may hold
    Cells,          \* of each record, those in the columns that are searched
    CustomMatches,  \* <<word, text>> that the matchers of their own columns find
    Expressions,    \* what the user may type, <<>> among it
    NoExpression,   \* what the live search has searched before it ever did
    MaxTimers,      \* bound of the live searches to come
    MaxUnticked     \* bound of the items not ticked

\* A cell shows its text; or it only draws tags, and its raw value is searched;
\* or its column has a matcher of its own; or its renderer or its matcher fails.
Cell == [kind : {"text", "icon", "custom", "fails"}, text : Seq(Characters)]

ASSUME SearchAssumption ==
    /\ " " \in Characters
    /\ UpperOf \in [Characters -> Characters]
    /\ \A c \in Characters : UpperOf[UpperOf[c]] = UpperOf[c]
    /\ UpperOf[" "] = " "
    /\ \A r \in Records : Cells[r] \subseteq Cell
    /\ Expressions \subseteq Seq(Seq(Characters))
    /\ <<>> \in Expressions
    /\ NoExpression \notin Expressions
    /\ MaxTimers \in Nat
    /\ MaxUnticked \in Nat

VARIABLES
    field,           \* the expression in the text field
    flags,           \* the items of the menu that are ticked
    searchArray,     \* the words searched last
    caseIgnored,     \* whether their case was ignored
    filtered,        \* the store has filters of the search
    records,         \* the records of the store
    shown,           \* those that pass its filters
    evaluated,       \* the flags when they last ran
    lastSearchExpr,  \* what the live search has searched last
    timers,          \* the live searches to come
    missed           \* the live search does not know what was done since it ran

searchVars == <<field, flags, searchArray, caseIgnored, filtered, records, shown,
                evaluated, lastSearchExpr, timers, missed>>

Flags == {"matchBegin", "matchEnd", "matchMiddle", "matchMultiword", "ignoreCase"}

\* toUpperCase, or not.
Fold(text, ignoring) ==
    IF ignoring THEN [i \in DOMAIN text |-> UpperOf[text[i]]] ELSE text

Nothing == <<>>

Joined(words) ==
    LET joined[n \in 0..Len(words)] ==
          IF n = 0 THEN <<>>
          ELSE IF joined[n - 1] = <<>> THEN words[n]
          ELSE joined[n - 1] \o <<" ">> \o words[n]
    IN joined[Len(words)]

\* The expression as words to search: an empty one is one empty word.
Words(expression, ticked) ==
    LET words == IF expression # Nothing /\ "matchMultiword" \in ticked
                   THEN expression ELSE <<Joined(expression)>>
    IN [i \in DOMAIN words |-> Fold(words[i], "ignoreCase" \in ticked)]

\* What an expression is searched as: several words or one, as they are or not.
WordsOf(expression) ==
    {Words(expression, ticked) : ticked \in SUBSET {"matchMultiword", "ignoreCase"}}

SearchTypeOK ==
    /\ field \in Expressions
    /\ lastSearchExpr \in Expressions \cup {NoExpression}
    /\ flags \subseteq Flags /\ evaluated \subseteq Flags
    /\ searchArray \in UNION {WordsOf(e) : e \in Expressions}
    /\ {caseIgnored, filtered, missed} \subseteq BOOLEAN
    /\ shown \subseteq records
    /\ records \subseteq Records
    /\ timers \in 0..MaxTimers

SearchInit ==
    /\ field = Nothing
    /\ flags = Flags
    /\ searchArray = Words(Nothing, Flags)
    /\ caseIgnored = TRUE
    /\ filtered = FALSE
    /\ records = Records
    /\ shown = Records
    /\ evaluated = Flags
    /\ lastSearchExpr = NoExpression
    /\ timers = 0
    /\ missed = FALSE

-----------------------------------------------------------------------------
\* Matching.

\* Where a word begins in a text.
Occurrences(text, word) ==
    {i \in 1..(Len(text) - Len(word) + 1) :
       SubSeq(text, i, i + Len(word) - 1) = word}

\* indexOf: the first at or after a position, or 0.
IndexOf(text, word, from) ==
    LET found == {i \in Occurrences(text, word) : i >= from}
    IN IF found = {} THEN 0 ELSE Min(found)

\* The place of a word in a cell that shows its text: the first occurrence
\* decides, or the next one if the beginning is not searched; one that reaches
\* the end is at the end, even the whole text.
MatchPlace(word, text, ticked) ==
    LET first == IndexOf(text, word, 1)
        pos == IF "matchBegin" \notin ticked /\ first = 1
                 THEN IndexOf(text, word, Min({2, Len(text) + 1})) ELSE first
    IN first # 0 /\ IF pos = Len(text) - Len(word) + 1
                      THEN "matchEnd" \in ticked
                      ELSE pos = 1 \/ (pos # 0 /\ "matchMiddle" \in ticked)

\* matchValue, and whether matchLine takes it for found: it does when it fails
\* (false is not -1), and wherever an icon's value has the word (-2 is not -1).
MatchValue(word, cell, ticked) ==
    LET text == Fold(cell.text, "ignoreCase" \in ticked)
    IN \/ cell.kind = "fails"
       \/ cell.kind = "custom" /\ <<word, cell.text>> \in CustomMatches
       \/ cell.kind = "icon" /\ Occurrences(text, word) # {}
       \/ cell.kind = "text" /\ MatchPlace(word, text, ticked)

\* matchLine: every word, each in any column.
MatchLine(words, r, ticked) ==
    \A i \in DOMAIN words :
      \E cell \in Cells[r] : MatchValue(words[i], cell, ticked)

Matching(words, held, ticked) ==
    {r \in held : MatchLine(words, r, ticked)}

-----------------------------------------------------------------------------
\* Searches.

\* Variant: a filter holds the words it was made for, so that they add up.
Search_KeepsWords(expression) ==
    LET words == Words(expression, flags)
        before == IF expression = Nothing THEN records ELSE shown
    IN /\ searchArray' = words
       /\ caseIgnored' = ("ignoreCase" \in flags)
       /\ filtered' = TRUE
       /\ shown' = Matching(words, before, flags)
       /\ evaluated' = flags

\* search: one more filter, and all of them run on the words of this one; the
\* filters before an empty expression are cleared, but it has one as well.
Search(expression) ==
    LET words == Words(expression, flags) IN
      /\ searchArray' = words
      /\ caseIgnored' = ("ignoreCase" \in flags)
      /\ filtered' = TRUE
      /\ shown' = Matching(words, records, flags)
      /\ evaluated' = flags

\* keyup in the field: one more live search, however many are to come.
PlanSearch == timers' = timers + 1

TypeKey(expression) ==
    /\ timers < MaxTimers
    /\ field' = expression
    /\ PlanSearch
    /\ UNCHANGED <<flags, searchArray, caseIgnored, filtered, records, shown,
                   evaluated, lastSearchExpr, missed>>

\* keydown of enter, and its keyup.
Enter ==
    /\ timers < MaxTimers
    /\ Search(field)
    /\ PlanSearch
    /\ missed' = (missed \/ field # lastSearchExpr)
    /\ UNCHANGED <<field, flags, records, lastSearchExpr>>

\* keypress in the grid: the letter reaches the field later, perhaps after its
\* keyup.
TypeInGrid(expression) ==
    /\ field' = expression
    /\ \/ PlanSearch /\ timers < MaxTimers /\ UNCHANGED missed
       \/ missed' = TRUE /\ UNCHANGED timers
    /\ UNCHANGED <<flags, searchArray, caseIgnored, filtered, records, shown,
                   evaluated, lastSearchExpr>>

\* Variant: a live search is dropped when another key was pressed after it was
\* planned, whether or not that one is still to come.
LiveSearch_LastWins ==
    /\ timers > 0
    /\ timers' = 0
    /\ UNCHANGED <<field, flags, searchArray, caseIgnored, filtered, records,
                   shown, evaluated, lastSearchExpr, missed>>

\* A timer of planSearch: the test of liveSearchWakeUp is always true, so each
\* looks at the field, and searches what the live search has not searched last.
LiveSearch ==
    /\ timers > 0
    /\ timers' = timers - 1
    /\ lastSearchExpr' = field
    /\ IF lastSearchExpr # field
         THEN Search(field) /\ missed' = FALSE
         ELSE UNCHANGED <<searchArray, caseIgnored, filtered, shown, evaluated,
                        missed>>
    /\ UNCHANGED <<field, flags, records>>

\* close: lastSearchExpr stays, so the live search does not search the same
\* expression again.
Close ==
    /\ field' = Nothing
    /\ filtered' = FALSE
    /\ shown' = records
    /\ missed' = TRUE
    /\ UNCHANGED <<flags, searchArray, caseIgnored, records, evaluated,
                   lastSearchExpr, timers>>

\* onItemCheck: nothing is searched again, and the words stay as they are.
OnItemCheck(flag) ==
    /\ flags' = SymDiff(flags, {flag})
    /\ Cardinality(Flags \ flags') <= MaxUnticked
    /\ UNCHANGED <<field, searchArray, caseIgnored, filtered, records, shown,
                   evaluated, lastSearchExpr, timers, missed>>

\* The store gets or loses a record, and its filters run with the flags of now.
Reload(r) ==
    /\ records' = SymDiff(records, {r})
    /\ shown' = IF filtered THEN Matching(searchArray, records', flags)
                            ELSE records'
    /\ evaluated' = flags
    /\ UNCHANGED <<field, flags, searchArray, caseIgnored, filtered,
                   lastSearchExpr, timers, missed>>

SearchNext ==
    \/ \E e \in Expressions : TypeKey(e) \/ TypeInGrid(e)
    \/ Enter
    \/ LiveSearch
    \/ Close
    \/ \E flag \in Flags : OnItemCheck(flag)
    \/ \E r \in Records : Reload(r)

SearchSpec == SearchInit /\ [][SearchNext]_searchVars

-----------------------------------------------------------------------------
\* Properties.

\* The places where an occurrence of a word is.
Place(text, word, i) ==
    IF i = Len(text) - Len(word) + 1 THEN "matchEnd"
    ELSE IF i = 1 THEN "matchBegin" ELSE "matchMiddle"

\* A cell has a word in one of some places, as they are or in any case; an icon
\* anywhere, a column with a matcher where that says, a cell that fails always.
HasAt(cell, word, places, ignoring) ==
    LET text == Fold(cell.text, ignoring)
        found == Occurrences(text, Fold(word, ignoring))
    IN \/ cell.kind = "fails"
       \/ cell.kind = "custom" /\ <<word, cell.text>> \in CustomMatches
       \/ cell.kind = "icon" /\ found # {}
       \/ cell.kind = "text" /\ \E i \in found : Place(text, word, i) \in places

\* However often expressions follow one another, and whatever was unticked in
\* between, the grid shows no record without every word of the last one, each in
\* a place that is searched: in the same case, unless case was ignored when the
\* words were searched or is when the filters run.  It shows all those that have
\* them as long as every place is searched, and case is ignored both then and
\* now or neither then nor now.
ShownAreMatches ==
    filtered =>
      LET Has(r, ignoring) ==
            \A i \in DOMAIN searchArray :
              \E cell \in Cells[r] : HasAt(cell, searchArray[i], evaluated, ignoring)
          ignores == "ignoreCase" \in evaluated
      IN /\ \A r \in shown : Has(r, caseIgnored \/ ignores)
         /\ /\ {"matchBegin", "matchEnd", "matchMiddle"} \subseteq evaluated
            /\ caseIgnored = ignores
            => \A r \in records : Has(r, ignores) => r \in shown

\* Once the timers have run the grid shows what the field asks for, unless the
\* live search, which compares with what it searched last itself, was passed
\* by: by enter, by closing, by a letter of the grid that came after its keyup.
LiveSearchCatchesUp ==
    timers = 0 /\ ~missed /\ field # Nothing =>
      filtered /\ searchArray \in WordsOf(field)

=============================================================================
