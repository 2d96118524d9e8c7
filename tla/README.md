# BanqueUserProject in TLA+

Specifications, model-checking configurations and machine-checked proofs for the
bank-account system of this repository. Paths below are relative to the
repository root; `banque`, `user` and `web` stand for `BanqueSpringMicroService`,
`UserSpringMicroService` and `BanqueUserSpringWeb`.

## 1. Inventory

| Component | State | Operations | What is hard | What makes it correct |
|---|---|---|---|---|
| **banque-service**, accounts (`banque/.../BanqueServiceImpl`, `BanqueController`, `BanqueDaoImpl`, `BanqueUserDaoImpl`) | rows of `OPERATION_USER_TABLE` (credits and debits; the balance is never stored, it is the difference of two sums) | credit (transaction, limit 500), debit, balance, list | one thread per request, no lock; a debit is two lookups, two queries and an insert that are not one transaction; failures between any two | the balance stays positive; an answer and the table agree; a reported balance is covered |
| **banque-service**, data source (`BanqueConfig`, `db-data-h2-banque.sql`) | connections of the container's pool | borrow, open, give back | the JDBC url runs a script that drops and reloads the table on *every* connection opened; a credit holds its connection during a remote call | no row lost once the pool is full; no reset inside a transaction; nobody waits for ever |
| **banque-service**, Mongo store (`BanqueMongoDaoImpl`, profile `mongo`) | the documents; amounts as doubles | the same | pseudo transactions, lost answers, rounding up of credits and down of debits | what was acknowledged is stored; the balance is off by bounded cents |
| **user-service** (`user/.../UserServiceImpl`, `UserDaoImpl`, `RoleDaoImpl`, `UserController`) | `USER_TABLE` (code not unique), `USER_ROLE_TABLE` (no constraint), `ROLE_TABLE` (constant) | insert, update, delete (transactions), retrieve by code, lists | lookup before write; two orders of row locks; waits that time out | one user per code; roles of one writer; a deleted user stays deleted; no role without a user |
| **web gateway** (`web/.../ExabanqueServiceImpl`, `ExauserServiceImpl`, `ExabanqueController`) | none | forwards each call, translates error codes | which error reaches the client | the client can tell a refusal from a failure |
| **Angular pages** (`web/src/main/angular`) | form, `launchAction`, table, balance, calls in flight | search, credit, debit, navigation | answers out of order, answers after the page is left, error callbacks that only log | the balance shown belongs to the operations shown; the button comes back |
| **display date** (`banque/.../websocket`) | one `session` field | connect, scheduled send, CLOSE | scheduler and connection threads share the field | the most recent client is served |
| **ExtJS: messages and grid buttons** (`web/.../exabanque-js/ux/plugin/messages`, `ux/plugin/button/Grid*.js`) | message boxes and icons of a panel, messages kept in the session storage, the one message box, selection | deliver, keep, clean, show, close; click through a chain of plugins, answer | boxes and icons are decided by four methods each; a question is answered after the store was loaded again | icon xor box; every message reachable; risky records are asked about; kept messages are not lost |
| **ExtJS: sorting toolbar** (`ux/plugin/grid/MultiSort.js`, `MultiSortDroppable.js`, `ToolbarDroppable.js`, `ux/BoxReorderer.js`) | buttons of the toolbar, drag in progress, suspended events, order of the store | click, drop, drag, arrow, hide, reset | the end of a drag is two callbacks, and another button can be pressed in between | the store is sorted by the toolbar; one button per column; events come back |
| **ExtJS: quick search** (`ux/plugin/grid/QuickSearch.js`) | the field, the words searched last, filters, timers | key, enter, live search, tick, close | timers that end after another search; filters added one on another, all reading the last words | the grid shows what matches; a live search catches up |
| **ExtJS: item selector** (`ux/form/PblinkItemSelector.js`, `MultiSelect.js`) | two lists, their selections, the value, the store | add, remove, up, down, top, bottom, drag, set the value | the value may come before the store, the store may be loaded again | no record lost or twice; the value is the right list; up and down keep the order |
| **ExtJS: coded dates** (`ux/date/DateUtils.js`) | none | decode, add days | months of 28 to 31 days, weekends, negative numbers | a code is decoded to what its letter means |
| **ExtJS: bundle of messages** (`ux/Bundle.js`, `ux/reader/*Bundle.js`) | the messages, the pages loaded, requests in flight | load, fall back, launch, messages of a page | several components ask for one page; answers in any order, unreadable or never | who is called back finds the messages of its page |
| ExtJS search page and other extensions, Eureka server, security configuration | none, or layout | | | |

How they interact: the Angular pages call the banque-service (REST, JSON), the
ExtJS page calls it through the web gateway. The banque-service asks the
user-service whether a user exists, once for a credit or a list or a balance, twice for a
debit, and keeps nothing of the answer. The services share no database. The
websocket pushes dates to the Angular search page.

## 2. Modules and the code

    Account            what the accounts promise: every call is one atomic step
    BanqueService      the service: one action per remote call or statement
    BanqueAccount      the mapping of BanqueService to Account
    BanqueServiceProofs                            its theorems, the refinement among them
    BanquePool         BanqueService composed with the connection pool
    UserService        the user-service and its transactions
    AccountPages       a browser tab of the Angular application over Account
    MessagesManagement the message panel of an ExtJS page, as operators on a record
    MessageManager     the manager over one panel, with the session storage
    GridButtons        the buttons of a grid and their plugins over the manager
    BoxReorderer, MultiSort   moving toolbar items; the sorting toolbar built on it
    QuickSearch, ItemSelector, DateUtils, Bundle  one widget or library each
    MCBanqueService, MCBanquePool, MCUserService, MCAccountPages,
    MCGridButtons, MCWidgets                      instances for TLC
    BanquePoolProofs, UserServiceProofs, AccountPagesProofs,
    GridButtonsProofs                             theorems of the module they extend
    FormProofs         theorems about DateUtils, Bundle and ItemSelector
    WidgetProofs       theorems about MultiSort, QuickSearch and MCWidgets
    WidgetLemmas       what those two need of numbers, sequences and recursion

**BanqueService.** `pc[r]` is the next call request `r` makes. `Receive` is the
arrival at the controller; `Validate` the assertions and the limit of
`creditAmount` (lines 45-58), which come before the user is looked up;
`UserFound`/`UserNotFound` are `callRetrieveUser`; `ReadCredits` and `ReadDebits`
are the two queries of `retrieveBalanceAmount` (132, 133), the second with the
decision of `debitAmount` (104-112); `InsertDebit`, `InsertCredit` and `Commit`
write the row. A credit is invisible until its commit (READ_COMMITTED); a debit
commits by itself, since `debitAmount` has no `@Transactional`. `CallFails` ends a request with an
HTTP 500 at any call. `InsertAnswerLost` (Mongo only) stores the row and
loses the answer. `RegistryChanges` is the user-service as the bank sees it:
users come and go at any moment. `credited` and `debited` are what
`SELECT SUM(amount)` returns, `operations` the set of requests whose row exists. Amounts are whole
cents; labels, dates and the filter of the list are left out. The initial state is that of the
data script in small.
`Transactional = FALSE` is the Mongo profile: the insert is visible at once, and a sum that is
read may be a cent too high for credits and a cent too low for debits
(`CreditSums`, `DebitSums`: `BanqueMongoDaoImpl.java:85-96` rounds the sums of doubles up and
down). That the error of the doubles stays below a cent is assumed, not modelled.

The answer of an unknown user follows the code, not its intent: the credit and
debit handlers ask `messages.properties` for a key that is not there, so they end
in an HTTP 500, while the balance handler answers the error code.

**BanquePool** refines where each step gets its connection. `Borrow` reuses an idle
connection, `OpenConnection` opens one and runs the script (`RunScript` puts the
seed rows back), `OpenTimesOut` is the script giving up on a table another
transaction has locked, `Work` is a step of BanqueService done with the
connection. A reset between the test of a debit and its insert takes away the credits the debit was granted on. A credit holds its connection from before `Validate` to its end, so also
during the call to the user-service. That the script is atomic for the other
sessions, waits for uncommitted rows and then times out is what we take of H2.

**UserService.** Each request has its own workspace: the rows it wrote and removed,
per table, invisible until `Commit`. `UpdateUser`, `DeleteRoles` and `DeleteUser`
wait while another transaction has changed the row; `LockTimesOut` ends the
wait. `insertListRolesUser` is one action: its inserts are private to the
transaction, and an unknown code rolls all of it back. `nextId` is taken at the
insert and never given back. Names and locale are represented by the request
that wrote them (`by`). The model starts with the pool of the user-service full;
its url resets the tables as the bank's does (`UserApplication.java:59`), which BanquePool
studies.

**AccountPages** is one tab: the page shown, its component, the calls in flight and
the bank behind them, which is `Account`. A call remembers the component that made
it (`visit`), because leaving a page neither cancels its calls nor unsubscribes
their callbacks. `Create` is a constructor (the search page with a user in its
route searches at once), `Reuse` what the router does when only the parameters
change, `Navigate` chooses between the two. `Succeeds` is the callback of a credit or debit
that was done: it navigates from whichever page is shown by then. `CallFails` is every
error callback of `banque.service.ts`, which only logs, and an answer that never
comes. `Settle` and `Read` are the bank. A table or a balance is represented by the user
and the operations it was computed from. Dates, labels and amounts in the form, the
list of users (loaded before the tab is used) and the date message are left out.
The model stands on `Account`, which the service implements when clients run one
debit of an account at a time; `OneOpenPerVisit` says how far one tab keeps to
that: as long as the user stays on the page.

**MessagesManagement, MessageManager, GridButtons.** A panel is a record of its
configuration (`showIcon`, `XORIconMessage`, `closeHideIcon`), its messages by
kind, and which boxes and icons are visible; `dismissed` remembers the boxes the user
closed. Its methods are operators from panel to panel (`Process`, `Clean`,
`ClickIcon`, `CloseBox`), since the manager calls several in one callback.
MessageManager adds the session storage (`kept`) and `Ext.Msg`, of which there is one
(`dialog`): a second question, text or alert replaces the first. `Delivered` is what
`processActionMessages` does for a target that may not be registered. In GridButtons a
button is a sequence of plugins; `Click` runs their listeners in order, and the first
to return false (`Stops`) keeps the click from the rest. `grid-checker-message-box`
reads the selected records when the first question is answered, so `Reload`, answers of
the server and pages kept for later may come between. What the user cannot do while a modal box
is open has `dialog = "none"` as its guard.

**BoxReorderer, MultiSort.** `mouse`, `dragCmp`, `startIndex` and `curIndex` are the
drag in progress; `reflows` counts the drops whose boxes still move, after which
`AfterBoxReflow` gives the events back to whatever `dragCmp` is by then. MultiSort
adds the direction of each button and what the store was sorted by. `abandoned` and
`unsorted` are for the properties: a button that `AfterBoxReflow` passed over, and a store
that has been reset or replaced since it was sorted.

**QuickSearch.** A text is a sequence of letters, an expression one of words, which
`Fold` brings to upper case when case is ignored. A cell of a record shows its text; or is an icon,
whose renderer draws tags only, so that the raw value is searched and found wherever it has the word
(`matchValue` answers -2, which `matchLine` takes for found); or stands in a column with a matcher of its
own, which is any relation of words and values (`CustomMatches`); or fails, and `matchValue` answers false,
which counts as found as well. Every
search leaves one more filter in the store, and all of them read `searchArray`, so that
the grid shows the last words, with the flags of the moment (`evaluated`), which need not be those
the words were searched with (`caseIgnored`). `timers` are the live searches to come; `missed` says that the
live search does not know what was done since it ran: it compares the field with what it searched
itself, not with what enter or closing searched.

**ItemSelector.** Lists are sequences of keys; `waiting` is a value set before the store
was loaded, `reloaded` a store that was loaded again. `wanted`, which is for the properties, is the value set last
until the user moves records. A load may bring nothing or fail, which fills the lists all the same; records that
are dragged come in any order, since they come in that of their selection. `MovedUp` and `MovedDown` translate the
loops over the selection. MultiSelect is modelled as the selector uses it.

**DateUtils.** A date is a day number, with the calendar spelled out (`DaysInMonth`,
`FirstDay`); `AddMonths` is Ext.Date.add, which clips to the end of the month. The
examples that the code keeps in `testCaseScenarios` are an assumption TLC evaluates.

**Bundle.** `requests` are the page requests in flight, one per component that asked
before the page was loaded. `misread` marks the pages whose answer could not be read;
the reader of properties never reads one.

**MCWidgets** puts the widgets that share nothing side by side: `focus` says whose
behavior this is, and the others rest. The state space is the sum of theirs, and a step of
it is a step of one widget's own specification (`MultiSortSpec`, `SearchSpec`, ...) and a
stutter of the others' (`EachOnItsOwn`, proved), so what is proved of those holds of the run (`WidgetsTogether`).

## 3. Runs

| Run | Instance | Shows |
|---|---|---|
| `bank_serial` | 3 requests, 1 account (4 credited, 1 debited), amounts -1, 2, 3, 4, limit 3, JDBC, one debit at a time | `TypeOK`, `NonNegative`, `SuccessIffStored`, `SumsMatchRows`, `NeverOverstated`, `DebitAnswerCovered`, refinement of Account |
| `bank_mongo` | 3 requests, 2 accounts (4 and 3 credited, 1 debited each), amount 4, two debits of an account at a time, Mongo: sums a cent too high or too low | `OverdraftBound`, `AcknowledgedStored` |
| `bank_concurrent` | as `bank_serial`, two debits at a time | `NonNegative` is **violated** |
| `bank_pool` | 3 requests, 1 account (1 credited, 1 debited), amount 2, pool of 2, one debit at a time | `PoolTypeOK`, `OverdraftBoundWithResets`, `StableOnceFull`, `ScriptWaitsForTransactions`, `EveryCallAnswered` |
| `bank_pool_growth` | the same | `AcknowledgedStored` is **violated** |
| `user_service` | 3 requests, 1 code (with a role at first), role lists: none, one, one with an unknown code, inserts one at a time | `TypeOK`, `UniqueCodes`, `RolesOfOneWriter`, `DeletedForGood`, `EveryCallAnswered` |
| `user_concurrent` | 3 requests, no user, two inserts at a time | `DuplicateBound` |
| `user_duplicates` | 3 requests, no user, two inserts at a time | `UniqueCodes` is **violated** |
| `user_orphans` | 3 requests, a user without roles | `NoOrphanRoles` is **violated** |
| `pages` | 2 submissions, 2 users without money at first, limit 1, two calls at once, pages opened by the user up to the third | `TypeOK`, `OwnOperationsShown`, `BalanceOfListed`, `OneOpenPerVisit`, `ButtonComesBack` |
| `ext_messages` | 2 rows, 1 text, actions with no message, a warning, or an error and an information, 3 buttons with all plugins among them | `TypeOK`, `IconXorBox`, `EveryMessageReachable`, `RiskyIsAsked`, `KeptNotLost` |
| `ext_widgets` | 2 columns (one whose header does not sort), 2 drops still moving; 2 records, 2 timers; 3 items; every day from November 2015 to December 2016, numbers -2 to 2, every letter; 3 components on 2 pages | `TypeOK`, `StoreFollowsToolbar`, `ToolbarWellFormed`, `EventsComeBack`, `ShownAreMatches`, `LiveSearchCatchesUp`, `EachInOneList`, `UpAndDownByOne`, `DecodedIsMeant`, `CalledBackWithMessages` |

*Bounds.* Three requests are one more than any interference here needs: two that
conflict, and one that observes or restores (a credit between the two reads of a debit; a
delete and an insert around an update). The balance of 3 makes a debit of 3 exact,
2 and then 2 an overdraft, 4 a refusal; a credit of 3 meets the limit and one of 4 passes it.
In `bank_mongo` the bound is met: an account of 2 that looks like one of 4 grants two debits of 4 at once and is left at -6,
the largest debit and the two cents of the roundings. So it is in `bank_pool`: from 0, a debit of 2 granted on a credit
that a reset erases leaves -2. A pool of 2 is full,
growing or exhausted with three calls. `DebitsInFlight` and `InsertsInFlight`
bound what the clients do, not the service; the two values of each separate what holds
under careful clients from what the service guarantees by itself. Requests are symmetric,
and symmetry is used in the safety runs only.

In `pages` two submissions and two users are what it takes to mix up answers; two calls
are what one page has at once, so a late answer meets a newer call; three visits let a page
be left for another and a callback come back to a third (a success
may open more).

In `ext_messages` two rows make none, one and two selected, an allowed and a risky value; one text is
enough, because every decision of the panel is about which kinds have messages. Rows are symmetric.
In `ext_widgets` two movable columns can change places and be abandoned by each other's reflow; a
record has a word at both ends of a cell, in the middle of it and as a whole cell, in either case, an icon and a column
with a matcher, and another a cell that fails; at most two of the five items of the menu are unticked at once
(`MaxUnticked`), which makes every pair of them meet; three items give a choice of neighbours and of items apart; the days hold a leap February, both ends of a year
and months that begin and end on a weekend; two components of a page ask for it at once.

*Deadlock.* The user runs end with all calls answered, so deadlock is not checked
there; `EveryCallAnswered` is the stronger statement. In the bank runs
the registry can always change. `ext_widgets` does not check deadlock either: once every
component has its messages, or a date was decoded, the widget in use has nothing more to do.
`ext_messages` does check it.

*Fairness.* `LivePoolSpec` and `LiveSpec` assume that a thread which can go on
does (weak fairness of the steps of each request: the container's threads run, a
remote call or a statement ends in an answer or an error). For the pool we
assume strong fairness of getting a connection: the pool serves its waiters, so
one that could be served again and again is. No fairness is given to arrivals, to the registry or to
`StatementFails`. A lock wait ends because H2's lock timeout makes `LockTimesOut`
a step of the request. `LiveSpec` of AccountPages assumes that the bank answers and
that the browser runs the callback; nothing is assumed of the user, nor that calls
succeed.

*What the page properties leave open.* `ButtonComesBack` and `BalanceOfListed` except
a page one of whose calls failed: the error callbacks only log, so the button stays
disabled and an old balance may stay beside a new table. `BalanceOfListed` also
excepts two balance calls in flight at once, whose answers can come in either
order. `OneOpenPerVisit` shows the good side: because no error gives the button
back, a credit whose answer was lost cannot be sent again from the same page; from a page
opened again it can.

*What the ExtJS properties leave open.* Each excepts a case in which the code does not keep
it, marked by a variable of the model so that the rest is still checked. `ToolbarWellFormed`: with the
button that saves the order, a column can be dropped between it and the filler, and a reset leaves its
button. `EventsComeBack`: a button whose reflow ends after another was pressed stays without
events (`abandoned`). `LiveSearchCatchesUp`: a live search passed by another compares with itself (`missed`).
`ShownAreMatches` says in every state that no record is shown without the words, but that none is hidden only
while every place is searched and case is treated by the filters as it was when the words were searched: with `ignoreCase` unticked
after a search the words are in upper case and the cells are not, and records that match stay hidden until the next search.
`EachInOneList`: a store loaded a second time fills the left list again (`reloaded`).
`KeptNotLost` says that kept messages reach the panel or the message box; that the messages of the action
then take the same box over at once, it does not exclude.
`CalledBackWithMessages`: a page whose answer was unreadable counts as loaded (`misread`); that a request that
fails calls nobody back is in the hazards, for the code promises nothing then.
`EveryMessageReachable` excepts a box the user closed on a panel told to forget its icon.

*What the violated properties mean.*
- `bank_concurrent`: two debits read the same balance, each passes the test, both are
  inserted. `debitAmount` is neither synchronized nor transactional, and
  READ_COMMITTED alone would not help. `OverdraftBound` says how bad it gets:
  (k-1) times the largest amount, for k debits at once, and two cents more with the Mongo store.
- `bank_pool_growth`: a credit answered success is erased when a concurrent call
  makes the pool open its next connection. `StableOnceFull` bounds when, and
  `OverdraftBoundWithResets` what a debit granted on such a credit does to the account.
- `user_duplicates`: two inserts of a code, both looked up before either
  commit. Afterwards every lookup of the code fails (`queryForObject`).
  `DuplicateBound` says how bad it gets.
- `user_orphans`: a delete that has already removed the committed roles of a user
  deletes the user after an update has given it new ones.

## 4. Proofs

Every theorem is for all values of the constants that satisfy the named assumptions: any finite set of
requests, any accounts, amounts, pool size, roles, users, pages opened, calls at once, messages, rows and
buttons.

`Transactional` is the JDBC store, whose sums are exact. The other theorems are for both stores:
`NeverOverstated`, `DebitAnswerCovered` and `OverdraftBound` contain `Drift`, which is zero for JDBC and two cents for Mongo.

| Module | Theorem | Statement | Assumes |
|---|---|---|---|
| BanqueServiceProofs | `TypeCorrect` | `Spec => []TypeOK` | |
| | `NeverNegative` | `Spec => []NonNegative` | `DebitsInFlight = 1`, `Transactional` |
| | `ReportsAreCovered` | `Spec => NeverOverstated` | |
| | `DebitAnswersAreCovered` | `Spec => DebitAnswerCovered` | `DebitsInFlight = 1` |
| | `AnswersTellTheStore` | `Spec => []SuccessIffStored` | |
| | `AcknowledgedAreStored` | `Spec => []AcknowledgedStored` | |
| | `SumsAreOfRows` | `Spec => []SumsMatchRows` | |
| | `OverdraftsAreBounded` | `Spec => []OverdraftBound` | |
| | `Refinement` | `Spec => ImplementsAccount` | `DebitsInFlight = 1`, `Transactional` |
| BanquePoolProofs | `PoolTypeCorrect` | `PoolSpec => []PoolTypeOK` | |
| | `OverdraftsAreBoundedInPool` | `PoolSpec => []OverdraftBoundWithResets` | |
| | `RowsStayOnceFull` | `PoolSpec => StableOnceFull` | |
| | `ScriptWaits` | `PoolSpec => ScriptWaitsForTransactions` | |
| | `SumsAreOfRowsInPool` | `PoolSpec => []SumsMatchRows` | |
| UserServiceProofs | `TypeCorrect` | `Spec => []TypeOK` | |
| | `DeletedUsersStayDeleted` | `Spec => DeletedForGood` | |
| | `DuplicatesAreBounded` | `Spec => []DuplicateBound` | |
| | `CodesAreUnique` | `Spec => []UniqueCodes` | `InsertsInFlight = 1` |
| | `RolesAreNotMixed` | `Spec => []RolesOfOneWriter` | |
| AccountPagesProofs | `TypeCorrect` | `Spec => []TypeOK` | |
| | `OneOpenSubmission` | `Spec => []OneOpenPerVisit` | |
| | `ToldIsShown` | `Spec => []OwnOperationsShown` | |
| | `BalanceBesideTable` | `Spec => []BalanceOfListed` | |
| GridButtonsProofs | `TypeCorrect` | `Spec => []TypeOK` | |
| | `IconsExcludeBoxes` | `Spec => []IconXorBox` | |
| | `MessagesStayReachable` | `Spec => []EveryMessageReachable` | |
| | `RiskyRecordsAreAsked` | `Spec => []RiskyIsAsked` | |
| | `KeptMessagesAreShown` | `Spec => KeptNotLost` | |
| WidgetProofs | `ToolbarTyped` | `MultiSortSpec => []MultiSortTypeOK` | |
| | `ToolbarsAreWellFormed` | `MultiSortSpec => []ToolbarWellFormed` | |
| | `EventsAreResumed` | `MultiSortSpec => []EventsComeBack` | |
| | `StoreIsSortedByToolbar` | `MultiSortSpec => []StoreFollowsToolbar` | |
| | `SearchTyped` | `SearchSpec => []SearchTypeOK` | |
| | `TheLiveSearchCatchesUp` | `SearchSpec => []LiveSearchCatchesUp` | |
| | `TheShownAreMatches` | `SearchSpec => []ShownAreMatches` | |
| | `WidgetsTyped` | `Spec => []TypeOK`, in MCWidgets | |
| | `WidgetsTogether` | `Spec => []` the nine invariants of the widgets, in MCWidgets | |
| FormProofs | `DatesTyped` | `DatesSpec => []DatesTypeOK` | |
| | `CodedDatesAreMeant` | `DatesSpec => []DecodedIsMeant` | |
| | `MessagesBeforeCallback` | `BundleSpec => []CalledBackWithMessages` | |
| | `BundleTypeCorrect` | `BundleSpec => []BundleTypeOK` | |
| | `SelectorTyped` | `SelectorSpec => []SelectorTypeOK` | |
| | `RecordsAreInOneList` | `SelectorSpec => []EachInOneList` | |
| | `UpAndDownAreByOne` | `SelectorSpec => []UpAndDownByOne` | |

*Accounts.* `TypeOK` is not inductive: that the sums stay natural numbers
needs that what is inserted was validated. `Core` adds `Validated` (a request
past validation has a positive amount, within the limit for a credit), `OnTrack` (a request only
reaches the steps of its own operation) and `StoredLate` (the row of
a request is in the table only if the request has inserted it); `Inv` adds `CreditsRead` (the local sum of the
credits is at most the stored one and `Rounding`: credits only grow). `NonNegative`
needs two more: `OneDebit`, and `DebitCovered`, which says that a debit about to
be inserted was decided on the debits there are now, and that its
amount is covered by the credits it read. Between the read of the
debits and the insert only another debit could break it, and there is none.
For `Refinement` every action maps to a stutter except those that settle a
request; `DebitCovered` gives the witness of the abstract debit.

`SumsMatchRows` compares a stored sum with the sum over the rows. What rows are worth is counted,
cent by cent: `SumOf(rows)` is the number of pairs of a row and one of its cents, so that adding a row or
bounding the sum is a fact about cardinalities of finite sets, and no induction over the rows
is needed. `OverdraftBound` rests on `GrantedBound`: what the account will hold once the debits
that were granted (and not yet inserted) are inserted is at least minus
(`DebitsInFlight` - 1) times the largest amount, and `Drift`, which does not add up because each debit is granted
on sums that count all rows before it. A debit is granted only for what the account held when its
debits were read, and what was taken from under it since is what the other debits in flight,
at most `DebitsInFlight` - 1 of them, were granted.

*Pool.* The script takes rows away under the feet of a request that has read them, so
`CreditsRead` and `NonNegative` do not survive in BanquePool, and they are not claimed;
`Core` does, which is why it stands apart. With `CreditsHold` (a credit that goes on has the
connection of its transaction) it is inductive. For `OverdraftBoundWithResets` the place of `CreditsRead` is taken by
`Stale`, the debits that have counted credits a reset took away: they may still be granted whatever the account holds, so
`PendingBound` takes what was granted and the largest amount for each stale debit off the balance, and all of them are among the
`DebitsInFlight` debits on their way. A reset makes debits stale, but brings the account back to a seed balance that is not
negative. The bound on connections is a
cardinality argument over `Holders`. The script takes a row and its cents out together
(`SumsAreOfRowsInPool`).

*User-service.* `Workspaces` says what a transaction wrote and removed at each of its steps; `Locks`
that two transactions never removed the same row, and that a removed row is still there;
`Named` that the identifier a request found belongs to the code it asked for; `Keys` that identifiers are
unique and never used again, which gives `DeletedForGood`. `Bounded` counts: the inserts of a code
that have passed their lookup and the users of that code are together at most
`InsertsInFlight`. `RoleWork` says, step by step, which roles of its user a request has
removed and which it has written. The row of the user protects them: an update changes the row before it
touches the roles, so once it has removed them nobody else can change them; a delete takes
the roles first but must have the row to commit; an insert finds none. So no two writers' roles meet.

*Pages.* `Past` orders components; `Button` ties the disabled button to the submission that is
open or called for, from which `OneOpenPerVisit` follows at a new submission; `Own` says
that an answer on its way to the page holds what the user was told before the page was
created (the bank applied it before it told him, and the query was made after);
`Beside` that one balance at a time is on its way, and it is that of the table.

*Messages and buttons.* `PanelInv` has four parts: the configuration is consistent, `Exclusive` (icon xor box),
`Reachable`, and `IconsStay` (where boxes and icons do not exclude each other, every kind that has messages
keeps its icon in an open bar), which is what `Reachable` needs when a box is closed. The methods of the panel are proved one by one, and the manager
uses those lemmas for the sequences it calls.

*Sorting toolbar.* `Lawful` is the shape of the toolbar (one button per column; text first, filler and reset
button last, when the order is not saved); each way to change a sequence (insert, append, remove, swap two
buttons, reset) has a lemma that keeps it, for a toolbar of any length.
`Pressed` says that the reorderer's index is that of the button pressed last, and `Suspensions` whose events
are suspended and how often: only those of the button pressed last or of an abandoned one, and as
often as drops are still moving. That a drop ends in a swap of two buttons, never of an item
that is none, is what makes `Lawful` inductive. `StoreFollowsToolbar` follows step by step: each
handler that changes the items or a direction sorts the store in the same step. What it is sorted by is computed by
recursion over the toolbar, and typed by induction (`SortersTyped`).

*Quick search.* `JoinedTyped` shows, word by word, that a joined expression is a text. For `LiveSearchCatchesUp`
the invariant says that, unless something was missed, the words searched are those of `lastSearchExpr`, and that with no
timer running that is what the field holds. For `ShownAreMatches` the position that `matchValue` works with is one at which the
word occurs (`FoundIsThere`), and there is one if the word occurs at all (`ThereIsFound`); `MatchedIsThere` and `ThereIsMatched`
lift both to the kinds of cells. A word that was found stays found when case is ignored too, because upper-casing twice is
upper-casing once (`OccursFolded`); the converse is what the code does not have.

*Coded dates.* `FirstDayIs` gives the first day of a month from its year and its place in the year, and
`NextMonth` that months follow one another, from which the month of a day is found. A month has 28 days at
least, so its first and last working days are within three days of its ends (`WorkingEnds`). For working
days the loop of the code is a walk over days; `Walked` is its invariant, with a slack that pays for
weekends, so that the bound on the steps in the model is never what ends it.

*Bundle.* `LaunchedFirst` (nothing is asked for before the launch, so that the load replaces no
page's messages) and `PagesRead` (a page counts as loaded only with its messages, or unreadable).

*Item selector.* `AmongIs`, `AmongAgrees` and `AmongAll` say what is kept of a list: the chosen records, all of them, in its
order. Every move is proved to keep the records (`RecordsKept`: none lost, the lists still apart); the value is
then set to the right list, which has no record twice, so it is that list (`SetupIs`). `SelectorInv` adds to
`EachInOneList` that nothing is in the lists before they are filled, that they are apart by then too, and that what is
wanted by then is what waits (`WantedIsSet`). For up and
down, `Route` gives the chosen records in the order in which the loop takes them, and `Shift` how far each should go: not at all
if only chosen ones are before it, else by one. `Halfway` is the invariant of the loop: those taken are where
they should be, the places not yet reached are as they were, and the index leaves the next one room exactly when it
should move (`NextPlace`). Each turn leaves the list alone or exchanges a chosen record with a neighbour that is
none, which changes neither the order of the chosen nor that of the others (`AmongSwap`).

*Induction.* The provers cannot instantiate a theorem that takes an operator. Where a proof goes by induction over
numbers, WidgetLemmas states it of a set: a set of naturals that holds 0 and every successor is `Nat` (`InSet`),
and a function defined by recursion up to a bound exists (`RecursionExists`, of a function that
gives the step). Both are proved from the well-foundedness of the naturals.

*Assumptions.* Each is named in the module that declares the constant. The toolbar's items have
distinct ids, and nobody is not one of them (`ReordererAssumption`, `MultiSortAssumption`). Cells and expressions
are texts over `Characters`, which has the blank that separates words, the upper-case letter of an upper-case letter is
itself and that of the blank the blank, and nothing at all may be searched
(`SearchAssumption`). Days are counted from 2012 and late enough that no code leads to an earlier one
(`DatesAssumption`; the calendar is right until 2099). The records of
the selector's store are distinct, and differ from the marks for no record and no value (`SelectorAssumption`). Every component belongs to a page (`PagesOpened`).

*Only model-checked:* liveness (`EveryCallAnswered`, `ButtonComesBack`, under fairness).

## 5. Not modelled

- The web gateway, for the bank and for the users: calls and error codes are forwarded, no state is kept.
- The display date: one session field, which the scheduler reads and connections write.
- The doubles of the Mongo store: the error of their sum is taken to be less than a cent, of which the two roundings of the
  code make at most one cent each.
- What a client does with an answer that was lost: nothing makes a call idempotent, and no property claims it.
- A restart of the banque-service: the pool of BanquePool starts empty, and what its first connection does
  to the table is what a restart does.
- In the ExtJS part: the search page (one handler that loads the store of a grid, with the hazard
  that `BalanceOfListed` is about in the Angular page), layout, rendering, column and menu configuration,
  the iframe, the two translations of date formats in DateUtils, MultiSelect as a field of its own.
- The Eureka server and the security configuration: no state. Vendored and generated code.

## 6. Plan

Done: the accounts, their abstract specification, proofs and refinement; the pool; the
user-service; the pages; the stateful ExtJS extensions; proofs for every component that is modelled.

Next, in this order:
1. How many rows it takes until the error of a sum of doubles reaches the cent that `Rounding` allows it.
2. `ExabanqueGateway`: which answer of the bank becomes which answer of the
   gateway, composed with the answers of BanqueService.
3. `DisplayDate`: the session field shared by the scheduler and the connections.
4. Restarts in BanquePool: what is left after the first connection of a new life.
5. Theorems about those modules.
