------------------------------- MODULE MCWidgets -------------------------------
(***************************************************************************)
(* The widgets of the ExtJS application side by side: they share nothing,  *)
(* so a behavior is of one of them, and the others rest.                   *)
(***************************************************************************)
EXTENDS MultiSort, QuickSearch, ItemSelector, DateUtils, Bundle

VARIABLE focus   \* the widget in use

MCFixed == {"text", "fill", "disk", "reset"}

\* A letter in either case.
MCUpperOf == [c \in {"a", "A", "b", "B", " "} |->
                IF c = "a" THEN "A" ELSE IF c = "b" THEN "B" ELSE c]

\* A record of which one column cannot be drawn, and one with a word in the
\* middle of a cell and as a whole one, in either case, another in an icon, and
\* both in a column with a matcher.
MCCells ==
    [r1 |-> {[kind |-> "fails", text |-> <<>>]},
     r2 |-> {[kind |-> "text", text |-> <<"B", "a", "B">>],
             [kind |-> "text", text |-> <<"A">>],
             [kind |-> "icon", text |-> <<"b">>],
             [kind |-> "custom", text |-> <<"b">>]}]
MCCustomMatches == {<<<<"A", " ", "B">>, <<"b">>>>}
MCExpressions == {<<>>, <<<<"a">>>>, <<<<"a">>, <<"b">>>>}

MCItems == <<"a", "b", "c">>

\* Two components of one page and one of another.
MCPageOf == [c1 |-> "p", c2 |-> "p", c3 |-> "q"]

\* From November 2015 to December 2016: a leap year.
MCTodays == 1400..1800

Date(year, month, day) == FirstDay(12 * (year - 2012) + month - 1) + day - 1

\* The examples of testCaseScenarios, which are of 6 October 2014.
Scenarios ==
    LET Is(number, letter, date) ==
          GetDateDecoded([number |-> number, letter |-> letter],
                               Date(2014, 10, 6)) = date
    IN /\ Is(1, "D", Date(2014, 10, 7)) /\ Is(-2, "D", Date(2014, 10, 4))
       /\ Is(-1, "W", Date(2014, 10, 3)) /\ Is(1, "W", Date(2014, 10, 7))
       /\ Is(-1, "M", Date(2014, 9, 6)) /\ Is(1, "M", Date(2014, 11, 6))
       /\ Is(2, "Y", Date(2016, 10, 6)) /\ Is(-2, "Y", Date(2012, 10, 6))
       /\ Is(1, "P", Date(2014, 11, 3)) /\ Is(-2, "P", Date(2014, 8, 1))
       /\ Is(-1, "F", Date(2014, 9, 30)) /\ Is(-2, "F", Date(2014, 8, 29))
       /\ Is(1, "B", Date(2014, 11, 1)) /\ Is(-1, "L", Date(2014, 9, 30))

ASSUME ScenariosAssumption == Scenarios

Init ==
    /\ focus \in {"sort", "quick", "selector", "dates", "messages"}
    /\ MultiSortInit /\ (focus # "sort" => enablePersistance)
    /\ SearchInit
    /\ SelectorInit /\ (focus # "selector" => listening)
    /\ BundleInit /\ (focus # "messages" => format = "json")
    /\ DatesInit
    /\ focus # "dates" => today = 1400 /\ coded = [number |-> 0, letter |-> "D"]

Next ==
    /\ UNCHANGED focus
    /\ \/ /\ focus = "sort" /\ MultiSortNext
          /\ UNCHANGED <<searchVars, selectorVars, dateVars, bundleVars>>
       \/ /\ focus = "quick" /\ SearchNext
          /\ UNCHANGED <<sortVars, selectorVars, dateVars, bundleVars>>
       \/ /\ focus = "selector" /\ SelectorNext
          /\ UNCHANGED <<sortVars, searchVars, dateVars, bundleVars>>
       \/ /\ focus = "dates" /\ DatesNext
          /\ UNCHANGED <<sortVars, searchVars, selectorVars, bundleVars>>
       \/ /\ focus = "messages" /\ BundleNext
          /\ UNCHANGED <<sortVars, searchVars, selectorVars, dateVars>>

vars == <<focus, sortVars, searchVars, selectorVars, dateVars, bundleVars>>

Spec == Init /\ [][Next]_vars

-----------------------------------------------------------------------------
\* The state of every widget has the values its code gives it.
TypeOK ==
    /\ MultiSortTypeOK
    /\ SearchTypeOK
    /\ SelectorTypeOK
    /\ DatesTypeOK
    /\ BundleTypeOK

================================================================================
