---------------------------- MODULE BanqueService ----------------------------
(***************************************************************************)
(* The banque-service: BanqueServiceImpl behind BanqueController, over the *)
(* operation store.  Every REST request runs on a thread of its own; one   *)
(* action is one call a request makes to the user-service or to the store, *)
(* with the local computation that follows it.                             *)
(*                                                                         *)
(* The store is kept as the set of the rows the requests inserted          *)
(* (operations) and as what SELECT SUM(amount) answers per account and     *)
(* operation type (credited, debited).  Amounts are cents.                 *)
(***************************************************************************)
EXTENDS Integers, FiniteSets

CONSTANTS
    Requests,              \* the REST calls of a behaviour, each made once
    Identifiers,           \* the user identifiers calls may name
    Amounts,               \* the amounts calls may carry
    MAX_AMOUNT_AUTORIZED,  \* the largest credit
    SeedCredits,           \* per account, credits of the initial data script
    SeedDebits,            \* per account, debits of the initial data script
    DebitsInFlight,        \* debits of one account that run at once, at most
    Transactional          \* TRUE: JDBC store; FALSE: Mongo (pseudo transactions)

ASSUME RequestsAssumption == IsFiniteSet(Requests)

ASSUME AmountsAssumption ==
    /\ Amounts \subseteq Int
    /\ MAX_AMOUNT_AUTORIZED \in Nat

ASSUME SeedAssumption ==
    /\ SeedCredits \in [Identifiers -> Nat]
    /\ SeedDebits \in [Identifiers -> Nat]
    /\ \A u \in Identifiers : SeedDebits[u] <= SeedCredits[u]

ASSUME ClientsAssumption ==
    /\ DebitsInFlight \in Nat \ {0}
    /\ Transactional \in BOOLEAN

Operations == {"credit", "debit", "balance", "list"}

Request == [op : Operations, user : Identifiers, amount : Amounts]

NoRequest == [op |-> "none"]

Steps == {"new", "received", "checkUser", "checkAgain", "readCredits",
          "readDebits", "readRows", "insert", "commit", "done"}

Answers == {"none", "success", "maxAmount", "negativeBalance",
            "userNotFound", "http500"}

VARIABLES
    registered,   \* the users the user-service knows
    operations,   \* the requests whose row is in OPERATION_USER_TABLE
    credited,     \* SUM(amount) of an account's CRED rows
    debited,      \* SUM(amount) of an account's DEBI rows
    req,          \* what each request asks
    pc,           \* the next call each request makes
    credits,      \* the local sumCreditAccount of a request
    debits,       \* the local sumDebitAccount of a request
    answer        \* what the controller answered

store == <<operations, credited, debited>>
vars == <<registered, operations, credited, debited, req, pc, credits,
          debits, answer>>

Balance(u) == credited[u] - debited[u]

InFlight(u) ==
    {r \in Requests : /\ pc[r] \notin {"new", "done"}
                      /\ req[r].op = "debit"
                      /\ req[r].user = u}

TypeOK ==
    /\ registered \subseteq Identifiers
    /\ operations \subseteq Requests
    /\ credited \in [Identifiers -> Nat]
    /\ debited \in [Identifiers -> Nat]
    /\ req \in [Requests -> Request \cup {NoRequest}]
    /\ pc \in [Requests -> Steps]
    /\ credits \in [Requests -> Int]
    /\ debits \in [Requests -> Int]
    /\ answer \in [Requests -> Answers]
    /\ \A r \in Requests : pc[r] # "new" => req[r] \in Request

Init ==
    /\ registered \in SUBSET Identifiers
    /\ operations = {}
    /\ credited = SeedCredits
    /\ debited = SeedDebits
    /\ req = [r \in Requests |-> NoRequest]
    /\ pc = [r \in Requests |-> "new"]
    /\ credits = [r \in Requests |-> 0]
    /\ debits = [r \in Requests |-> 0]
    /\ answer = [r \in Requests |-> "none"]

-----------------------------------------------------------------------------
\* Control of one request.

Goto(r, step) ==
    /\ pc' = [pc EXCEPT ![r] = step]
    /\ UNCHANGED answer

\* The controller writes its answer and the request is over.
Answer(r, a) ==
    /\ pc' = [pc EXCEPT ![r] = "done"]
    /\ answer' = [answer EXCEPT ![r] = a]

\* The controllers translate UserBanqueNotFoundException.  The balance
\* handler puts the code in the result; the credit and debit handlers look
\* the code up in messages.properties, which has no such key, and the
\* NoSuchMessageException leaves the handler; the list handler throws.
NotFoundAnswer(op) ==
    IF op = "balance" THEN "userNotFound" ELSE "http500"

\* A REST call arrives.  The bound stands for how many debits of one account
\* the clients have running at once; the service itself sets no limit.
Receive(r, q) ==
    /\ pc[r] = "new"
    /\ q.op = "debit" => Cardinality(InFlight(q.user)) < DebitsInFlight
    /\ req' = [req EXCEPT ![r] = q]
    /\ Goto(r, "received")
    /\ UNCHANGED <<registered, store, credits, debits>>

NeedsAmount(q) == q.op \in {"credit", "debit"}

\* Variant: the sign of the amount is not checked.
NotPositive_Unchecked(q) == FALSE

NotPositive(q) == NeedsAmount(q) /\ q.amount <= 0

\* Variant: the limit itself is one too high.
OverMax_OffByOne(q) == q.op = "credit" /\ q.amount > MAX_AMOUNT_AUTORIZED + 1

OverMax(q) == q.op = "credit" /\ q.amount > MAX_AMOUNT_AUTORIZED

\* The argument assertions, then, for a credit, the maximum amount: all of
\* it before the user is looked up.
Validate(r) ==
    /\ pc[r] = "received"
    /\ IF NotPositive(req[r]) THEN Answer(r, "http500")
       ELSE IF OverMax(req[r]) THEN Answer(r, "maxAmount")
       ELSE Goto(r, "checkUser")
    /\ UNCHANGED <<registered, store, req, credits, debits>>

AfterUserCheck(op, step) ==
    IF op = "credit" THEN "insert"
    ELSE IF op = "list" THEN "readRows"
    ELSE IF op = "debit" /\ step = "checkUser" THEN "checkAgain"
    ELSE "readCredits"

\* callRetrieveUser.  A debit makes the call twice: in debitAmount, and again
\* in the retrieveBalanceAmount it calls.
UserFound(r) ==
    /\ pc[r] \in {"checkUser", "checkAgain"}
    /\ req[r].user \in registered
    /\ Goto(r, AfterUserCheck(req[r].op, pc[r]))
    /\ UNCHANGED <<registered, store, req, credits, debits>>

\* An empty body means that the user is unknown; the DAO says the same of a
\* 401 or a 403, whoever the user is.
UserNotFound(r) ==
    /\ pc[r] \in {"checkUser", "checkAgain"}
    /\ Answer(r, NotFoundAnswer(req[r].op))
    /\ UNCHANGED <<registered, store, req, credits, debits>>

-----------------------------------------------------------------------------
\* The store.

\* Variant: the sum takes the last amount instead of adding it.
Add_Overwrites(total, r) == [total EXCEPT ![req[r].user] = req[r].amount]

Add(total, r) == [total EXCEPT ![req[r].user] = @ + req[r].amount]

\* The row of r becomes visible to the other requests.
StoreRow(r) ==
    /\ operations' = operations \cup {r}
    /\ credited' = IF req[r].op = "credit" THEN Add(credited, r) ELSE credited
    /\ debited' = IF req[r].op = "debit" THEN Add(debited, r) ELSE debited

\* Variant: a dirty read, which counts a credit that is not yet committed.
ReadCredits_Dirty(r) ==
    /\ pc[r] = "readCredits"
    /\ \E c \in {c \in Requests : pc[c] = "commit" /\ req[c].user = req[r].user} :
         credits' = [credits EXCEPT ![r] = credited[req[r].user] + req[c].amount]
    /\ Goto(r, "readDebits")
    /\ UNCHANGED <<registered, store, req, debits>>

\* How far a sum that is read may be from the sum of the rows, in cents.  Mongo
\* adds doubles, whose error is taken to be less than a cent.
Rounding == IF Transactional THEN 0 ELSE 1

\* retrieveSumAmountOperTypeByIdentifierUser: a sum of doubles is rounded up
\* for credits and down for debits; without a row it is zero.
CreditSums(total) == IF total = 0 THEN {0} ELSE total..(total + Rounding)

\* Variant: the sum of the debits is rounded down to one decimal.
DebitSums_OneDecimal(total) ==
    IF total = 0 THEN {0} ELSE {total - 9 * Rounding, total}

DebitSums(total) == IF total = 0 THEN {0} ELSE (total - Rounding)..total

\* retrieveBalanceAmount, first query: the sum of the credits.
ReadCredits(r) ==
    /\ pc[r] = "readCredits"
    /\ \E sum \in CreditSums(credited[req[r].user]) :
         credits' = [credits EXCEPT ![r] = sum]
    /\ Goto(r, "readDebits")
    /\ UNCHANGED <<registered, store, req, debits>>

\* Variant: only the balance before the debit is looked at.
Overdrawn_BeforeOnly(before, amount) == before < 0

\* Variant: one test instead of two, its operands swapped.
Overdrawn_Swapped(before, amount) == amount - before < 0

\* debitAmount, lines 104-112: the balance before and after the debit.
Overdrawn(before, amount) == before < 0 \/ before - amount < 0

\* Variant: the sum of the debits comes from a cache filled at startup.
ReadDebits_Cached(r) ==
    /\ pc[r] = "readDebits"
    /\ debits' = [debits EXCEPT ![r] = SeedDebits[req[r].user]]
    /\ IF req[r].op = "balance" THEN Answer(r, "success")
       ELSE IF Overdrawn(credits[r] - SeedDebits[req[r].user], req[r].amount)
         THEN Answer(r, "negativeBalance")
       ELSE Goto(r, "insert")
    /\ UNCHANGED <<registered, store, req, credits>>

\* retrieveBalanceAmount, second query: the sum of the debits; then the
\* answer of the balance request, or the decision of the debit.
ReadDebits(r) ==
    /\ pc[r] = "readDebits"
    /\ \E sum \in DebitSums(debited[req[r].user]) :
         /\ debits' = [debits EXCEPT ![r] = sum]
         /\ IF req[r].op = "balance" THEN Answer(r, "success")
            ELSE IF Overdrawn(credits[r] - sum, req[r].amount)
              THEN Answer(r, "negativeBalance")
            ELSE Goto(r, "insert")
    /\ UNCHANGED <<registered, store, req, credits>>

\* retrieveOperations: one query.
ReadRows(r) ==
    /\ pc[r] = "readRows"
    /\ Answer(r, "success")
    /\ UNCHANGED <<registered, store, req, credits, debits>>

\* insertAccountOperation of a debit: the statement commits by itself.
InsertDebit(r) ==
    /\ pc[r] = "insert"
    /\ req[r].op = "debit"
    /\ StoreRow(r)
    /\ Answer(r, "success")
    /\ UNCHANGED <<registered, req, credits, debits>>

\* Variant: the insert is not part of the transaction.
InsertCredit_AutoCommit(r) ==
    /\ pc[r] = "insert"
    /\ req[r].op = "credit"
    /\ StoreRow(r)
    /\ Goto(r, "commit")
    /\ UNCHANGED <<registered, req, credits, debits>>

\* Variant: the insert is left to a transaction that is only a pseudo one.
InsertCredit_Deferred(r) ==
    /\ pc[r] = "insert"
    /\ req[r].op = "credit"
    /\ Goto(r, "commit")
    /\ UNCHANGED <<registered, store, req, credits, debits>>

\* insertAccountOperation of a credit, inside the transaction: nobody else
\* sees the row before the commit, unless the transactions are pseudo.
InsertCredit(r) ==
    /\ pc[r] = "insert"
    /\ req[r].op = "credit"
    /\ IF Transactional THEN UNCHANGED store ELSE StoreRow(r)
    /\ Goto(r, "commit")
    /\ UNCHANGED <<registered, req, credits, debits>>

Commit(r) ==
    /\ pc[r] = "commit"
    /\ IF Transactional THEN StoreRow(r) ELSE UNCHANGED store
    /\ Answer(r, "success")
    /\ UNCHANGED <<registered, req, credits, debits>>

\* A call to the user-service or to the store fails: TechnicalException, and
\* the transaction of a credit is rolled back.
CallFails(r) ==
    /\ pc[r] \in {"checkUser", "checkAgain", "readCredits", "readDebits",
                  "readRows", "insert", "commit"}
    /\ pc[r] = "commit" => Transactional
    /\ Answer(r, "http500")
    /\ UNCHANGED <<registered, store, req, credits, debits>>

\* A Mongo server is across the network: it may have applied the insert
\* whose answer is lost.
InsertAnswerLost(r) ==
    /\ ~Transactional
    /\ pc[r] = "insert"
    /\ StoreRow(r)
    /\ Answer(r, "http500")
    /\ UNCHANGED <<registered, req, credits, debits>>

\* The user-service registers and deletes users at any time.
RegistryChanges ==
    /\ \E u \in Identifiers :
        registered' = IF u \in registered THEN registered \ {u}
                                          ELSE registered \cup {u}
    /\ UNCHANGED <<store, req, pc, credits, debits, answer>>

Handle(r) ==
    \/ Validate(r)
    \/ UserFound(r)
    \/ UserNotFound(r)
    \/ ReadCredits(r)
    \/ ReadDebits(r)
    \/ ReadRows(r)
    \/ InsertDebit(r)
    \/ InsertCredit(r)
    \/ Commit(r)
    \/ CallFails(r)
    \/ InsertAnswerLost(r)

Next ==
    \/ \E r \in Requests, q \in Request : Receive(r, q)
    \/ \E r \in Requests : Handle(r)
    \/ RegistryChanges

Spec == Init /\ [][Next]_vars

-----------------------------------------------------------------------------
\* Properties.

\* How far a balance computed from two sums may be above the account's.
Drift == 2 * Rounding

\* The balance of no account is ever negative: what debitAmount's two tests
\* are for, and what the refusal's text promises.
NonNegative == \A u \in Identifiers : Balance(u) >= 0

\* Debits of one account that run at once can overdraw it, but never by more
\* than all of them but one ask, if each asks the most that calls may carry,
\* and what the rounded sums hide: that does not add up from debit to debit.
OverdraftBound ==
    \A u \in Identifiers, most \in Amounts \cup {0} :
      (\A a \in Amounts \cup {0} : a <= most)
        => Balance(u) >= -((DebitsInFlight - 1) * most) - Drift

\* A balance that is answered, and the balance a debit is granted or refused
\* on, is never more than what the account holds when its debits are read, but
\* for the rounding: the credits are read first, so a credit between the two
\* queries is missed and none is counted that is not there.
NeverOverstated ==
    [][\A r \in Requests :
         /\ pc[r] = "readDebits"
         /\ pc'[r] # "readDebits"
         /\ answer'[r] # "http500"
         => credits[r] - debits'[r] <= Balance(req[r].user) + Drift]_vars

\* The amount debitAmount returns, computed from sums read before its insert,
\* is never more than what is left on the account once the row is stored, but
\* for the rounding.
DebitAnswerCovered ==
    [][\A r \in Requests :
         /\ r \in operations' \ operations
         /\ req[r].op = "debit"
         => credits[r] - debits[r] - req[r].amount
              <= Balance(req[r].user)' + Drift]_vars

\* With a JDBC store, an operation is answered success exactly when its row
\* is stored: an error, wherever it strikes, leaves nothing behind.
SuccessIffStored ==
    Transactional =>
      \A r \in Requests : r \in operations <=>
        /\ pc[r] = "done"
        /\ answer[r] = "success"
        /\ NeedsAmount(req[r])

\* Whatever the store, an acknowledged credit or debit is in the table.
AcknowledgedStored ==
    \A r \in Requests :
      pc[r] = "done" /\ answer[r] = "success" /\ NeedsAmount(req[r])
        => r \in operations

\* The stored rows of an account, and their sum, counted cent by cent.
RowsOf(op, u) == {r \in operations : req[r].op = op /\ req[r].user = u}
Cents(rows, of) == UNION {{r} \X (1..of[r].amount) : r \in rows}
SumOf(rows) == Cardinality(Cents(rows, req))

\* The sums the balance is made of are the initial data and every stored row
\* exactly once: no row is counted twice or for another account.
SumsMatchRows ==
    \A u \in Identifiers :
      /\ credited[u] = SeedCredits[u] + SumOf(RowsOf("credit", u))
      /\ debited[u] = SeedDebits[u] + SumOf(RowsOf("debit", u))

=============================================================================
