----------------------------- MODULE AccountPages -----------------------------
(***************************************************************************)
(* One browser tab of the Angular application: the search, credit and debit *)
(* pages, the HTTP calls they have in flight and the bank that answers     *)
(* them, which is Account.                                                 *)
(*                                                                         *)
(* Callbacks run one at a time, so an action is a user's gesture or one    *)
(* callback with everything it does.  A call holds on to the component that *)
(* made it: leaving a page stops none of them.  Searches are of all dates.  *)
(***************************************************************************)
EXTENDS Integers, FiniteSets

CONSTANTS
    MaxSubmissions, \* the credits and debits the user submits, at most
    Users,          \* the users of the list
    NoUser,         \* "Define your choice here"
    Limit,          \* the largest credit
    Opening,        \* the balances at first
    MaxCalls,       \* HTTP calls the browser runs at once, at most
    MaxVisits       \* bound of the pages the user opens

ASSUME PagesAssumption ==
    /\ NoUser \notin Users
    /\ Opening \in [Users -> Nat]
    /\ {MaxSubmissions, Limit, MaxCalls, MaxVisits} \subseteq Nat

Submissions == 1..MaxSubmissions

VARIABLES
    page,          \* the page shown
    visit,         \* its component: one more for each one created
    initUser,      \* initUserCode, from the route
    user,          \* identifierUser of the form
    launchAction,  \* the button is disabled
    listed,        \* the table: of whom, and which operations
    shown,         \* balanceUser: of whom, and after which operations
    call,          \* the HTTP calls in flight
    asked,         \* what each submission asks, once it is made
    told,          \* the submissions the user was told to have succeeded
    since,         \* the submissions told before the component was created
    failed,        \* some call of this component failed
    crossed,       \* two balance calls of this component were in flight at once
    balance, fate  \* the bank

pageVars == <<page, visit, initUser, user, launchAction, listed, shown, since,
              failed, crossed>>
bank == <<balance, fate>>
vars == <<pageVars, call, asked, told, bank>>

Bank == INSTANCE Account WITH Requests <- Submissions, Identifiers <- Users

Pages == {"search", "credit", "debit"}
Operations == {"credit", "debit"}
Slots == 1..MaxCalls

Idle == [kind |-> "idle"]
Nothing == [of |-> NoUser, rows |-> {}]
NotAsked == [kind |-> "none"]

\* A table or a balance: of a user, after some of his operations.
View == [of : Users \cup {NoUser}, rows : SUBSET Submissions]

\* A call in flight: which component made it, and, of a query, what the bank
\* has answered.
Calls ==
    [kind : {"list", "balance"}, user : Users, visit : Nat,
     answered : BOOLEAN, rows : SUBSET Submissions]
    \cup
    [kind : Operations, user : Users, visit : Nat, sub : Submissions]

TypeOK ==
    /\ page \in Pages
    /\ visit \in Nat
    /\ {initUser, user} \subseteq Users \cup {NoUser}
    /\ {launchAction, failed, crossed} \subseteq BOOLEAN
    /\ {listed, shown} \subseteq View
    /\ call \in [Slots -> Calls \cup {Idle}]
    /\ asked \in [Submissions -> {NotAsked} \cup
                    [kind : Operations, user : Users, visit : Nat]]
    /\ since \subseteq told
    /\ told \subseteq Submissions
    /\ balance \in [Users -> Nat]
    /\ fate \in [Submissions -> {"open", "applied", "closed"}]

\* The application opens on the search page, without a user.
Init ==
    /\ Bank!Init
    /\ page = "search"
    /\ visit = 1
    /\ initUser = NoUser
    /\ user = NoUser
    /\ launchAction = FALSE
    /\ listed = Nothing
    /\ shown = Nothing
    /\ call = [i \in Slots |-> Idle]
    /\ asked = [s \in Submissions |-> NotAsked]
    /\ told = {}
    /\ since = {}
    /\ failed = FALSE
    /\ crossed = FALSE

-----------------------------------------------------------------------------
\* Calls.

\* The first connection of the browser that is free carries the next call.
IsFree(i) ==
    /\ call[i] = Idle
    /\ \A j \in 1..(i - 1) : call[j] # Idle

\* Submissions are numbered in their order.
IsNext(s) ==
    /\ asked[s] = NotAsked
    /\ \A t \in 1..(s - 1) : asked[t] # NotAsked

Alive(i) == call[i].visit = visit

Query(kind, u, v) ==
    [kind |-> kind, user |-> u, visit |-> v, answered |-> FALSE, rows |-> {}]

Send(i, c) == call' = [call EXCEPT ![i] = c]
Finish(i) == Send(i, Idle)

BalanceCalls == {i \in Slots : call[i] # Idle /\ call[i].kind = "balance"
                                 /\ Alive(i)}

-----------------------------------------------------------------------------
\* Navigation.

\* Variant: the router keeps the page that was left, with its table.
Create_KeepsTable(p, u, i) ==
    /\ page' = p
    /\ visit' = visit + 1
    /\ initUser' = u
    /\ user' = u
    /\ UNCHANGED <<listed, shown>>
    /\ since' = told'
    /\ failed' = FALSE
    /\ crossed' = FALSE
    /\ LET searches == p = "search" /\ u # NoUser IN
         /\ launchAction' = searches
         /\ IF searches THEN Send(i, Query("list", u, visit + 1))
                        ELSE Finish(i)

\* A component is created; a search page with a user in its route searches at
\* once, in its constructor, with call i.
Create(p, u, i) ==
    /\ page' = p
    /\ visit' = visit + 1
    /\ initUser' = u
    /\ user' = u
    /\ listed' = Nothing
    /\ shown' = Nothing
    /\ since' = told'
    /\ failed' = FALSE
    /\ crossed' = FALSE
    /\ LET searches == p = "search" /\ u # NoUser IN
         /\ launchAction' = searches
         /\ IF searches THEN Send(i, Query("list", u, visit + 1))
                        ELSE Finish(i)

\* The route changes but not the page: the component stays, the new user goes
\* to the form, and nothing is searched.
Reuse(u, i) ==
    /\ initUser' = u
    /\ user' = IF u # initUser THEN u ELSE user
    /\ Finish(i)
    /\ UNCHANGED <<page, visit, launchAction, listed, shown, since, failed,
                   crossed>>

\* The router shows page p for user u; slot i serves the search it may start.
Navigate(p, u, i) == IF p = page THEN Reuse(u, i) ELSE Create(p, u, i)

\* openCreditAccount, openDebitAccount: for the user of the form, or for none.
OpenOperation(p, i) ==
    /\ page = "search"
    /\ p \in Operations
    /\ visit < MaxVisits
    /\ IsFree(i)
    /\ UNCHANGED <<asked, told, bank>>
    /\ Navigate(p, user, i)

\* The back button of the browser, to a search page shown before.
Back(u, i) ==
    /\ visit < MaxVisits
    /\ IsFree(i)
    /\ UNCHANGED <<asked, told, bank>>
    /\ Navigate("search", u, i)

-----------------------------------------------------------------------------
\* Gestures.

\* The user picks a user in the list.  Going back to "Define your choice here"
\* only disables what one need not press.
Choose(u) ==
    /\ user' = u
    /\ UNCHANGED <<page, visit, initUser, launchAction, listed, shown, since,
                   failed, crossed, call, asked, told, bank>>

\* The form is valid and the button is not disabled.
CanSubmit == user # NoUser /\ ~launchAction

\* searchaccountoperation, from the button.
Search(i) ==
    /\ page = "search"
    /\ CanSubmit
    /\ IsFree(i)
    /\ launchAction' = TRUE
    /\ Send(i, Query("list", user, visit))
    /\ UNCHANGED <<page, visit, initUser, user, listed, shown, since, failed,
                   crossed, asked, told, bank>>

\* creditAccountController, debitAccountController.
Submit(s, i) ==
    /\ page \in Operations
    /\ CanSubmit
    /\ IsFree(i)
    /\ IsNext(s)
    /\ launchAction' = TRUE
    /\ asked' = [asked EXCEPT ![s] = [kind |-> page, user |-> user,
                                      visit |-> visit]]
    /\ Send(i, [kind |-> page, user |-> user, visit |-> visit, sub |-> s])
    /\ UNCHANGED <<page, visit, initUser, user, listed, shown, since, failed,
                   crossed, told, bank>>

-----------------------------------------------------------------------------
\* The bank.

\* It applies or refuses what was submitted, whether or not the browser still
\* waits for the answer.
Settle(s) ==
    /\ asked[s] # NotAsked
    /\ \/ asked[s].kind = "credit" /\ Bank!Credit(s, asked[s].user)
       \/ asked[s].kind = "debit" /\ Bank!Debit(s, asked[s].user)
       \/ Bank!Close(s)
    /\ UNCHANGED <<pageVars, call, asked, told>>

AppliedTo(u) ==
    {s \in Submissions : fate[s] = "applied" /\ asked[s].user = u}

\* It reads the operations, or the sums, of a user.
Read(i) ==
    /\ call[i] # Idle
    /\ call[i].kind \in {"list", "balance"}
    /\ ~call[i].answered
    /\ call' = [call EXCEPT ![i].answered = TRUE,
                            ![i].rows = AppliedTo(call[i].user)]
    /\ UNCHANGED <<pageVars, asked, told, bank>>

-----------------------------------------------------------------------------
\* Callbacks.

Answered(i, kind) ==
    /\ call[i] # Idle
    /\ call[i].kind = kind
    /\ call[i].answered

\* Variant: the balance is asked for the user the form holds by now.
ListArrives_FormUser(i) ==
    /\ Answered(i, "list")
    /\ Send(i, Query("balance", IF Alive(i) THEN user ELSE call[i].user,
                     call[i].visit))
    /\ IF Alive(i)
         THEN /\ listed' = [of |-> call[i].user, rows |-> call[i].rows]
              /\ launchAction' = FALSE
              /\ crossed' = (crossed \/ BalanceCalls # {})
         ELSE UNCHANGED <<listed, launchAction, crossed>>
    /\ UNCHANGED <<page, visit, initUser, user, shown, since, failed, asked,
                   told, bank>>

\* The operations arrive: the table shows them, the button comes back, and the
\* balance of the same user is asked for.
ListArrives(i) ==
    /\ Answered(i, "list")
    /\ Send(i, Query("balance", call[i].user, call[i].visit))
    /\ IF Alive(i)
         THEN /\ listed' = [of |-> call[i].user, rows |-> call[i].rows]
              /\ launchAction' = FALSE
              /\ crossed' = (crossed \/ BalanceCalls # {})
         ELSE UNCHANGED <<listed, launchAction, crossed>>
    /\ UNCHANGED <<page, visit, initUser, user, shown, since, failed, asked,
                   told, bank>>

\* The balance arrives, in whatever order balances do.
BalanceArrives(i) ==
    /\ Answered(i, "balance")
    /\ Finish(i)
    /\ IF Alive(i)
         THEN shown' = [of |-> call[i].user, rows |-> call[i].rows]
         ELSE UNCHANGED shown
    /\ UNCHANGED <<page, visit, initUser, user, launchAction, listed, since,
                   failed, crossed, asked, told, bank>>

\* Variant: success is announced without waiting for the answer.
Succeeds_Early(i) ==
    /\ call[i] # Idle
    /\ call[i].kind \in Operations
    /\ told' = told \cup {call[i].sub}
    /\ Navigate("search", call[i].user, i)
    /\ UNCHANGED <<asked, bank>>

\* The operation was done: the user is told, and the router goes to the search
\* page of that user, from whichever page is shown by now.
Succeeds(i) ==
    /\ call[i] # Idle
    /\ call[i].kind \in Operations
    /\ fate[call[i].sub] = "applied"
    /\ told' = told \cup {call[i].sub}
    /\ Navigate("search", call[i].user, i)
    /\ UNCHANGED <<asked, bank>>

\* Variant: the button comes back after a success only.
Refused_StaysDisabled(i) ==
    /\ call[i] # Idle
    /\ call[i].kind \in Operations
    /\ fate[call[i].sub] = "closed"
    /\ Finish(i)
    /\ UNCHANGED <<pageVars, asked, told, bank>>

\* The operation was refused: the user is told why, and the button comes back.
Refused(i) ==
    /\ call[i] # Idle
    /\ call[i].kind \in Operations
    /\ fate[call[i].sub] = "closed"
    /\ Finish(i)
    /\ launchAction' = (launchAction /\ ~Alive(i))
    /\ UNCHANGED <<page, visit, initUser, user, listed, shown, since, failed,
                   crossed, asked, told, bank>>

\* Variant: the button comes back after an error too.
CallFails_ButtonBack(i) ==
    /\ call[i] # Idle
    /\ Finish(i)
    /\ failed' = (failed \/ Alive(i))
    /\ launchAction' = (launchAction /\ ~Alive(i))
    /\ UNCHANGED <<page, visit, initUser, user, listed, shown, since, crossed,
                   asked, told, bank>>

\* An error, a balance that is refused or an answer that is lost: it is logged,
\* if anything, and nothing of the page changes.
CallFails(i) ==
    /\ call[i] # Idle
    /\ Finish(i)
    /\ failed' = (failed \/ Alive(i))
    /\ UNCHANGED <<page, visit, initUser, user, launchAction, listed, shown,
                   since, crossed, asked, told, bank>>

Callback(i) ==
    \/ ListArrives(i)
    \/ BalanceArrives(i)
    \/ Succeeds(i)
    \/ Refused(i)

Next ==
    \/ \E i \in Slots :
         \/ \E p \in Operations : OpenOperation(p, i)
         \/ \E u \in Users \cup {NoUser} : Back(u, i)
         \/ \E s \in Submissions : Submit(s, i)
         \/ Search(i)
         \/ Read(i)
         \/ Callback(i)
         \/ CallFails(i)
    \/ \E u \in Users : Choose(u)
    \/ \E s \in Submissions : Settle(s)

Spec == Init /\ [][Next]_vars

\* The bank answers, and the browser runs the callbacks of what is answered.  A
\* submission settles once, so one fairness condition is enough for all.
LiveSpec ==
    /\ Spec
    /\ \A i \in Slots : WF_vars(Read(i) \/ Callback(i))
    /\ WF_vars(\E s \in Submissions : Settle(s))

-----------------------------------------------------------------------------
\* Properties.

\* What the user was told before the page was opened is in what it shows, in
\* the table as in the balance.
OwnOperationsShown ==
    \A view \in {listed, shown} :
      {s \in since : asked[s].user = view.of} \subseteq view.rows

\* The balance is that of the operations beside it as soon as it has arrived,
\* unless a call of the page failed or its balances overtook one another.
BalanceOfListed ==
    listed.of # NoUser /\ BalanceCalls = {} /\ ~failed /\ ~crossed
      => shown.of = listed.of

\* However answers are lost, the bank never works on two operations submitted
\* from one opened page: the button that no error gives back sees to it.
OneOpenPerVisit ==
    \A s, t \in Submissions :
      /\ asked[s] # NotAsked /\ fate[s] = "open"
      /\ asked[t] # NotAsked /\ fate[t] = "open"
      /\ asked[s].visit = asked[t].visit
      => s = t

\* The button comes back, unless a call of the page failed.
ButtonComesBack == launchAction ~> ~launchAction \/ failed

=============================================================================
