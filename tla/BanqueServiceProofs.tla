------------------------- MODULE BanqueServiceProofs -------------------------
(***************************************************************************)
(* TLAPS proofs about BanqueService, for every value of its constants.     *)
(*                                                                         *)
(* Inv holds whatever the clients do.  SerialInv adds what holds while the *)
(* clients run one debit of an account at a time: then the debits a        *)
(* request read are still the debits of the account when it inserts, and   *)
(* the credits can only have grown.                                        *)
(***************************************************************************)
EXTENDS BanqueAccount, FiniteSetTheorems, TLAPS

\* Past Validate, a request carries a lawful amount.
Validated ==
    \A r \in Requests :
      pc[r] \in Steps \ {"new", "received", "done"} =>
        /\ ~NotPositive(req[r])
        /\ ~OverMax(req[r])

\* The calls a request is about to make are those of its operation.
OnTrack ==
    \A r \in Requests :
      /\ pc[r] \in {"checkAgain", "readCredits", "readDebits"}
           => req[r].op \in {"debit", "balance"}
      /\ pc[r] = "insert" => req[r].op \in {"credit", "debit"}
      /\ pc[r] = "commit" => req[r].op = "credit"
      /\ pc[r] = "readRows" => req[r].op = "list"

\* The sum of the credits a request read is one the account has had, rounded.
CreditsRead ==
    \A r \in Requests :
      \/ pc[r] = "readDebits"
      \/ pc[r] = "insert" /\ req[r].op = "debit"
      => credits[r] <= credited[req[r].user] + Rounding

\* A request has a row only once it is over, or between the insert and the
\* end of a pseudo transaction; and there it has one.
StoredLate ==
    \A r \in Requests :
      /\ r \in operations =>
           \/ pc[r] = "done"
           \/ pc[r] = "commit" /\ ~Transactional
      /\ pc[r] = "commit" /\ ~Transactional => r \in operations

\* What holds even if the table is reset under the requests.
Core == TypeOK /\ Validated /\ OnTrack /\ StoredLate

Inv == Core /\ CreditsRead

\* One debit of an account at a time.
OneDebit ==
    \A u \in Identifiers : \A r, s \in InFlight(u) : r = s

\* A debit about to be inserted is covered by the sums it was decided on, and
\* no other debit came in between: the debits are those it read, but for the
\* rounding.
DebitCovered ==
    \A r \in Requests :
      pc[r] = "insert" /\ req[r].op = "debit" =>
        /\ debited[req[r].user] <= debits[r] + Rounding
        /\ req[r].amount <= credits[r] - debits[r]

\* Nor is more missing than the rounded sums hide.
NotOverdrawn == \A u \in Identifiers : Balance(u) >= -Drift

SerialInv == Inv /\ OneDebit /\ DebitCovered /\ NotOverdrawn

-----------------------------------------------------------------------------

\* A sum that is read is a number, within the rounding of the sum of the rows.
LEMMA SumsRead ==
    /\ Rounding \in 0..1 /\ Drift \in 0..2 /\ Drift = Rounding + Rounding
    /\ Transactional => Rounding = 0 /\ Drift = 0
    /\ \A total \in Nat :
         /\ \A sum \in CreditSums(total) : sum \in Int /\ sum <= total + Rounding
         /\ \A sum \in DebitSums(total) : sum \in Int /\ total <= sum + Rounding
  <1>1. Rounding \in 0..1 /\ (Transactional => Rounding = 0)
    BY ClientsAssumption DEF Rounding
  <1>2. Drift = Rounding + Rounding /\ Drift \in 0..2
    BY <1>1 DEF Drift
  <1>3. ASSUME NEW total \in Nat
        PROVE  /\ \A sum \in CreditSums(total) : sum \in Int /\ sum <= total + Rounding
               /\ \A sum \in DebitSums(total) : sum \in Int /\ total <= sum + Rounding
    BY <1>1 DEF CreditSums, DebitSums
  <1>. QED
    BY <1>1, <1>2, <1>3

\* The query of the debits: what it reads, and what is decided on it.
LEMMA DebitsAreRead ==
    ASSUME TypeOK, NEW r \in Requests, ReadDebits(r)
    PROVE  /\ pc[r] = "readDebits" /\ req[r].user \in Identifiers
           /\ \E sum \in Int :
                /\ debits' = [debits EXCEPT ![r] = sum]
                /\ debited[req[r].user] <= sum + Rounding
                /\ pc'[r] = "insert" =>
                     /\ req[r].op # "balance"
                     /\ ~Overdrawn(credits[r] - sum, req[r].amount)
           /\ UNCHANGED <<registered, store, req, credits>>
           /\ \/ pc' = [pc EXCEPT ![r] = "done"]
              \/ pc' = [pc EXCEPT ![r] = "insert"] /\ UNCHANGED answer
           /\ answer' \in [Requests -> Answers]
           /\ \A s \in Requests \ {r} : answer'[s] = answer[s]
           /\ pc'[r] = "done" /\ answer'[r] = "success" => req[r].op = "balance"
  <1>1. /\ pc[r] = "readDebits"
        /\ req[r].user \in Identifiers
        /\ debited[req[r].user] \in Nat
    BY DEF ReadDebits, TypeOK, Request
  <1>2. PICK sum \in DebitSums(debited[req[r].user]) :
          /\ debits' = [debits EXCEPT ![r] = sum]
          /\ IF req[r].op = "balance" THEN Answer(r, "success")
             ELSE IF Overdrawn(credits[r] - sum, req[r].amount)
               THEN Answer(r, "negativeBalance")
             ELSE Goto(r, "insert")
    BY DEF ReadDebits
  <1>3. sum \in Int /\ debited[req[r].user] <= sum + Rounding
    BY <1>1, SumsRead
  <1>4. /\ \/ pc' = [pc EXCEPT ![r] = "done"]
           \/ pc' = [pc EXCEPT ![r] = "insert"] /\ UNCHANGED answer
        /\ answer' \in [Requests -> Answers]
        /\ \A s \in Requests \ {r} : answer'[s] = answer[s]
        /\ pc'[r] = "done" /\ answer'[r] = "success" => req[r].op = "balance"
        /\ pc'[r] = "insert" => /\ req[r].op # "balance"
                               /\ ~Overdrawn(credits[r] - sum, req[r].amount)
    BY <1>2 DEF Answer, Goto, TypeOK, Answers
  <1>5. UNCHANGED <<registered, store, req, credits>>
    BY DEF ReadDebits
  <1>. QED
    BY <1>1, <1>2, <1>3, <1>4, <1>5

\* Init establishes the invariants.
LEMMA InitInv == Init => SerialInv
  <1>. SUFFICES ASSUME Init PROVE SerialInv
    OBVIOUS
  <1>1. TypeOK
    BY SeedAssumption DEF Init, TypeOK, Steps, Answers
  <1>2. Validated /\ OnTrack /\ CreditsRead /\ StoredLate
    BY DEF Init, Validated, OnTrack, CreditsRead, StoredLate
  <1>3. OneDebit /\ DebitCovered
    BY DEF Init, OneDebit, InFlight, DebitCovered
  <1>4. NotOverdrawn
    <2>1. \A u \in Identifiers : Balance(u) \in Nat
      BY SeedAssumption DEF Init, Balance
    <2>. HIDE DEF Balance
    <2>. QED
      BY <2>1, SumsRead DEF NotOverdrawn
  <1>. QED
    BY <1>1, <1>2, <1>3, <1>4 DEF SerialInv, Inv, Core

\* What storing a row does to the sums: the sum of the operation's own type
\* and account grows by the amount, which is not negative.
LEMMA StoreRowGrows ==
    ASSUME TypeOK, Validated, NEW r \in Requests, StoreRow(r),
           pc[r] \in Steps \ {"new", "received", "done"},
           req[r].op \in {"credit", "debit"}
    PROVE  /\ req[r].user \in Identifiers
           /\ req[r].amount \in Nat \ {0}
           /\ operations' \subseteq Requests
           /\ credited' \in [Identifiers -> Nat]
           /\ debited' \in [Identifiers -> Nat]
           /\ \A u \in Identifiers : credited[u] <= credited'[u]
  <1>1. /\ req[r] \in Request
        /\ req[r].amount \in Int
        /\ req[r].user \in Identifiers
    BY AmountsAssumption DEF TypeOK, Request
  <1>2. req[r].amount \in Nat \ {0}
    BY <1>1 DEF Validated, NotPositive, NeedsAmount
  <1>3. operations' \subseteq Requests
    BY DEF StoreRow, TypeOK
  <1>4. CASE req[r].op = "credit"
    BY <1>1, <1>2, <1>3, <1>4 DEF StoreRow, Add, TypeOK
  <1>5. CASE req[r].op = "debit"
    BY <1>1, <1>2, <1>3, <1>5 DEF StoreRow, Add, TypeOK
  <1>. QED
    BY <1>4, <1>5

\* Every step preserves Core, one step of the proof per action.
LEMMA NextCore == Core /\ [Next]_vars => Core'
  <1>. SUFFICES ASSUME Core, [Next]_vars PROVE Core'
    OBVIOUS
  <1>. USE DEF Core
  <1>1. ASSUME NEW r \in Requests, NEW q \in Request, Receive(r, q)
        PROVE  Core'
    <2>1. TypeOK'
      BY <1>1 DEF Receive, Goto, TypeOK, Steps, store
    <2>2. Validated' /\ OnTrack' /\ StoredLate'
      BY <1>1 DEF Receive, Goto, TypeOK, Steps, store, Validated, NotPositive,
                  OverMax, NeedsAmount, OnTrack, StoredLate
    <2>. QED
      BY <2>1, <2>2
  <1>2. ASSUME NEW r \in Requests, Validate(r)
        PROVE  Core'
    <2>1. TypeOK'
      BY <1>2 DEF Validate, Goto, Answer, TypeOK, Steps, Answers, store
    <2>2. Validated' /\ OnTrack' /\ StoredLate'
      BY <1>2 DEF Validate, Goto, Answer, TypeOK, Steps, store, Validated,
                  NotPositive, OverMax, NeedsAmount, OnTrack, StoredLate
    <2>. QED
      BY <2>1, <2>2
  <1>3. ASSUME NEW r \in Requests, UserFound(r)
        PROVE  Core'
    <2>. req[r].op \in Operations
      BY <1>3 DEF UserFound, TypeOK, Request
    <2>1. TypeOK'
      BY <1>3 DEF UserFound, Goto, AfterUserCheck, TypeOK, Steps, store
    <2>2. Validated' /\ OnTrack' /\ StoredLate'
      BY <1>3 DEF UserFound, Goto, AfterUserCheck, Operations, TypeOK, Steps,
                  store, Validated, NotPositive, OverMax, NeedsAmount, OnTrack,
                  StoredLate
    <2>. QED
      BY <2>1, <2>2
  <1>4. ASSUME NEW r \in Requests, UserNotFound(r) \/ CallFails(r) \/ ReadRows(r)
        PROVE  Core'
    <2>1. TypeOK'
      BY <1>4 DEF UserNotFound, CallFails, ReadRows, Answer, NotFoundAnswer,
                  TypeOK, Steps, Answers, store
    <2>2. Validated' /\ OnTrack' /\ StoredLate'
      BY <1>4 DEF UserNotFound, CallFails, ReadRows, Answer, TypeOK, Steps,
                  store, Validated, NotPositive, OverMax, NeedsAmount, OnTrack,
                  StoredLate
    <2>. QED
      BY <2>1, <2>2
  <1>5. ASSUME NEW r \in Requests, ReadCredits(r)
        PROVE  Core'
    <2>1. TypeOK'
      BY <1>5, SumsRead DEF ReadCredits, Goto, TypeOK, Request, Steps, store
    <2>2. Validated' /\ OnTrack' /\ StoredLate'
      BY <1>5 DEF ReadCredits, Goto, TypeOK, Request, Steps, store, Validated,
                  NotPositive, OverMax, NeedsAmount, OnTrack, StoredLate
    <2>. QED
      BY <2>1, <2>2
  <1>6. ASSUME NEW r \in Requests, ReadDebits(r)
        PROVE  Core'
    <2>. pc[r] = "readDebits" /\ UNCHANGED <<registered, store, req, credits>>
      BY <1>6, DebitsAreRead
    <2>1. TypeOK'
      BY <1>6, DebitsAreRead DEF TypeOK, Steps, store
    <2>2. Validated' /\ OnTrack' /\ StoredLate'
      BY <1>6, DebitsAreRead DEF TypeOK, Steps, store,
                  Validated, NotPositive, OverMax, NeedsAmount, OnTrack, StoredLate
    <2>. QED
      BY <2>1, <2>2
  <1>7. ASSUME NEW r \in Requests,
               InsertDebit(r) \/ InsertCredit(r) \/ Commit(r) \/ InsertAnswerLost(r)
        PROVE  Core'
    <2>1. /\ pc[r] \in {"insert", "commit"}
          /\ req[r].op \in {"credit", "debit"}
      BY <1>7 DEF InsertDebit, InsertCredit, Commit, InsertAnswerLost, OnTrack
    <2>2. StoreRow(r) \/ UNCHANGED store
      BY <1>7 DEF InsertDebit, InsertCredit, Commit, InsertAnswerLost
    <2>3. /\ operations' \subseteq Requests
          /\ credited' \in [Identifiers -> Nat]
          /\ debited' \in [Identifiers -> Nat]
      <3>1. CASE StoreRow(r)
        BY <3>1, <2>1, StoreRowGrows DEF Steps
      <3>2. CASE UNCHANGED store
        BY <3>2 DEF TypeOK, store
      <3>. QED
        BY <2>2, <3>1, <3>2
    <2>4. /\ UNCHANGED <<registered, req, credits, debits>>
          /\ pc' \in {[pc EXCEPT ![r] = "done"], [pc EXCEPT ![r] = "commit"]}
          /\ pc'[r] = "commit" => req[r].op = "credit"
          /\ answer' \in [Requests -> Answers]
      BY <1>7 DEF InsertDebit, InsertCredit, Commit, InsertAnswerLost, Goto,
                  Answer, TypeOK, Answers
    <2>5. TypeOK'
      BY <2>1, <2>3, <2>4 DEF TypeOK, Steps
    <2>6. Validated' /\ OnTrack'
      BY <2>1, <2>4 DEF TypeOK, Steps, Validated, NotPositive, OverMax,
                        NeedsAmount, OnTrack
    <2>7. operations' = IF pc'[r] = "done" /\ pc[r] = "commit" /\ ~Transactional
                          THEN operations
                        ELSE IF pc'[r] = "commit" /\ Transactional THEN operations
                        ELSE operations \cup {r}
      BY <1>7, <2>4 DEF InsertDebit, InsertCredit, Commit, InsertAnswerLost,
                        StoreRow, store, Goto, Answer, TypeOK
    <2>8. StoredLate'
      BY <2>1, <2>4, <2>7, ClientsAssumption DEF StoredLate, TypeOK
    <2>. QED
      BY <2>5, <2>6, <2>8
  <1>8. CASE RegistryChanges
    BY <1>8 DEF RegistryChanges, store, TypeOK, Validated, NotPositive, OverMax,
                NeedsAmount, OnTrack, StoredLate
  <1>9. CASE UNCHANGED vars
    BY <1>9 DEF vars, TypeOK, Validated, NotPositive, OverMax, NeedsAmount,
                OnTrack, StoredLate
  <1>. QED
    BY <1>1, <1>2, <1>3, <1>4, <1>5, <1>6, <1>7, <1>8, <1>9 DEF Next, Handle

\* The sums of the credits only grow, so what a request read stays a lower
\* bound of them: every step preserves Inv.
LEMMA NextInv == Inv /\ [Next]_vars => Inv'
  <1>. SUFFICES ASSUME Inv, [Next]_vars PROVE CreditsRead'
    BY NextCore DEF Inv
  <1>. USE DEF Inv, Core
  <1>1. ASSUME NEW r \in Requests, NEW q \in Request, Receive(r, q)
        PROVE  CreditsRead'
    BY <1>1 DEF Receive, Goto, TypeOK, store, CreditsRead
  <1>2. ASSUME NEW r \in Requests,
               \/ Validate(r) \/ UserFound(r) \/ UserNotFound(r) \/ CallFails(r)
               \/ ReadRows(r)
        PROVE  CreditsRead'
    BY <1>2 DEF Validate, UserFound, AfterUserCheck, UserNotFound, CallFails, ReadRows,
                Goto, Answer, TypeOK, store, CreditsRead, OnTrack
  <1>3. ASSUME NEW r \in Requests, ReadCredits(r) \/ ReadDebits(r)
        PROVE  CreditsRead'
    <2>1. CASE ReadCredits(r)
      BY <2>1, SumsRead DEF ReadCredits, Goto, TypeOK, Request, store, CreditsRead
    <2>2. CASE ReadDebits(r)
      BY <2>2, DebitsAreRead DEF TypeOK, Request, store, CreditsRead
    <2>. QED
      BY <1>3, <2>1, <2>2
  <1>4. ASSUME NEW r \in Requests,
               InsertDebit(r) \/ InsertCredit(r) \/ Commit(r) \/ InsertAnswerLost(r)
        PROVE  CreditsRead'
    <2>1. \A u \in Identifiers : credited[u] <= credited'[u]
      <3>1. CASE StoreRow(r)
        <4>1. /\ pc[r] \in Steps \ {"new", "received", "done"}
              /\ req[r].op \in {"credit", "debit"}
          BY <1>4 DEF InsertDebit, InsertCredit, Commit, InsertAnswerLost, OnTrack, Steps
        <4>. QED
          BY <3>1, <4>1, StoreRowGrows
      <3>2. CASE UNCHANGED store
        BY <3>2 DEF TypeOK, store
      <3>. QED
        BY <1>4, <3>1, <3>2 DEF InsertDebit, InsertCredit, Commit, InsertAnswerLost
    <2>2. /\ UNCHANGED <<req, credits>>
          /\ pc' \in {[pc EXCEPT ![r] = "done"], [pc EXCEPT ![r] = "commit"]}
      BY <1>4 DEF InsertDebit, InsertCredit, Commit, InsertAnswerLost, Goto, Answer
    <2>3. credited' \in [Identifiers -> Nat]
      BY NextCore DEF TypeOK
    <2>. QED
      BY <2>1, <2>2, <2>3, SumsRead DEF TypeOK, Request, CreditsRead
  <1>5. CASE RegistryChanges \/ UNCHANGED vars
    BY <1>5 DEF RegistryChanges, vars, store, CreditsRead
  <1>. QED
    BY <1>1, <1>2, <1>3, <1>4, <1>5 DEF Next, Handle

\* Type correctness, whatever the constants and the number of debits at once.
THEOREM TypeCorrect == Spec => []TypeOK
  <1>1. Spec => []Inv
    BY InitInv, NextInv, PTL DEF Spec, SerialInv
  <1>2. Inv => TypeOK
    BY DEF Inv, Core
  <1>. QED
    BY <1>1, <1>2, PTL


-----------------------------------------------------------------------------
\* One debit of an account at a time.

\* A debit is only received when none of its account is running.
LEMMA ReceiveAlone ==
    ASSUME DebitsInFlight = 1, NEW r \in Requests, NEW q \in Request,
           Receive(r, q), q.op = "debit"
    PROVE  InFlight(q.user) = {}
  <1>1. IsFiniteSet(InFlight(q.user))
    BY RequestsAssumption, FS_Subset DEF InFlight
  <1>2. Cardinality(InFlight(q.user)) < 1
    BY DEF Receive
  <1>. QED
    BY <1>1, <1>2, FS_CardinalityType, FS_EmptySet

\* A step that receives nothing puts no debit in flight: the debits that run
\* after it ran before it.
LEMMA HandleAlone ==
    ASSUME Inv, OneDebit, UNCHANGED req,
           \A s \in Requests : pc'[s] \notin {"new", "done"} => pc[s] \notin {"new", "done"}
    PROVE  OneDebit'
  BY DEF OneDebit, InFlight

\* Storing a row of a covered debit leaves its account covered, and every
\* other debit about to be inserted is one of another account.
LEMMA StoreRowCovered ==
    ASSUME SerialInv, NEW r \in Requests, StoreRow(r),
           \/ pc[r] = "insert"
           \/ pc[r] = "commit" /\ req[r].op = "credit",
           pc' \in {[pc EXCEPT ![r] = "done"], [pc EXCEPT ![r] = "commit"]},
           pc'[r] = "commit" => req[r].op = "credit",
           UNCHANGED <<req, credits, debits>>
    PROVE  DebitCovered' /\ NotOverdrawn'
  <1>. USE DEF SerialInv, Inv, Core
  <1>1. /\ req[r].op \in {"credit", "debit"}
        /\ pc[r] \in Steps \ {"new", "received", "done"}
        /\ req[r].user \in Identifiers
        /\ req[r].amount \in Nat \ {0}
    BY StoreRowGrows DEF OnTrack, Steps
  <1>2. \A u \in Identifiers : credited[u] \in Nat /\ debited[u] \in Nat
    BY DEF TypeOK
  <1>3. CASE req[r].op = "credit"
    <2>1. /\ credited' = [credited EXCEPT ![req[r].user] = @ + req[r].amount]
          /\ debited' = debited
      BY <1>3 DEF StoreRow, Add
    <2>2. NotOverdrawn'
      BY <1>1, <1>2, <2>1, SumsRead DEF NotOverdrawn, Balance, TypeOK
    <2>3. DebitCovered'
      BY <1>3, <2>1 DEF DebitCovered, TypeOK
    <2>. QED
      BY <2>2, <2>3
  <1>4. CASE req[r].op = "debit"
    <2>1. /\ credited' = credited
          /\ debited' = [debited EXCEPT ![req[r].user] = @ + req[r].amount]
          /\ pc[r] = "insert"
      BY <1>4 DEF StoreRow, Add
    <2>2. /\ debited[req[r].user] <= debits[r] + Rounding
          /\ req[r].amount <= credits[r] - debits[r]
          /\ credits[r] <= credited[req[r].user] + Rounding
          /\ credits[r] \in Int /\ debits[r] \in Int
      BY <1>4, <2>1 DEF DebitCovered, CreditsRead, TypeOK
    <2>3. NotOverdrawn'
      BY <1>1, <1>2, <2>1, <2>2, SumsRead DEF NotOverdrawn, Balance, TypeOK
    <2>4. ASSUME NEW s \in Requests, pc'[s] = "insert", req[s].op = "debit"
          PROVE  req[s].user # req[r].user /\ pc[s] = "insert"
      <3>1. s # r /\ pc[s] = "insert"
        BY <2>4, <1>4 DEF TypeOK
      <3>2. req[s].user = req[r].user => s \in InFlight(req[r].user)
                                         /\ r \in InFlight(req[r].user)
        BY <3>1, <2>4, <2>1, <1>4 DEF InFlight
      <3>. QED
        BY <3>1, <3>2, <1>1 DEF OneDebit
    <2>5. DebitCovered'
      BY <1>2, <2>1, <2>4, <1>1 DEF DebitCovered, TypeOK, Request
    <2>. QED
      BY <2>3, <2>5
  <1>. QED
    BY <1>1, <1>3, <1>4

\* Every step preserves SerialInv.
LEMMA NextSerialInv ==
    ASSUME DebitsInFlight = 1
    PROVE  SerialInv /\ [Next]_vars => SerialInv'
  <1>. SUFFICES ASSUME SerialInv, [Next]_vars
                PROVE  OneDebit' /\ DebitCovered' /\ NotOverdrawn'
    BY NextInv DEF SerialInv
  <1>. USE DEF SerialInv, Inv, Core
  <1>1. ASSUME NEW r \in Requests, NEW q \in Request, Receive(r, q)
        PROVE  OneDebit' /\ DebitCovered' /\ NotOverdrawn'
    <2>1. OneDebit'
      <3>. SUFFICES ASSUME NEW u \in Identifiers,
                           NEW s \in InFlight(u)', NEW t \in InFlight(u)'
                    PROVE  s = t
        BY DEF OneDebit
      <3>1. /\ s \in InFlight(u) \/ (s = r /\ q.op = "debit" /\ q.user = u)
            /\ t \in InFlight(u) \/ (t = r /\ q.op = "debit" /\ q.user = u)
        BY <1>1 DEF Receive, Goto, InFlight, TypeOK
      <3>2. q.op = "debit" /\ q.user = u => InFlight(u) = {}
        BY <1>1, ReceiveAlone
      <3>. QED
        BY <3>1, <3>2 DEF OneDebit
    <2>2. DebitCovered' /\ NotOverdrawn'
      BY <1>1 DEF Receive, Goto, DebitCovered, NotOverdrawn, Balance, TypeOK, store
    <2>. QED
      BY <2>1, <2>2
  <1>2. ASSUME NEW r \in Requests,
               \/ Validate(r) \/ UserFound(r) \/ UserNotFound(r)
               \/ ReadCredits(r) \/ ReadRows(r) \/ CallFails(r)
        PROVE  OneDebit' /\ DebitCovered' /\ NotOverdrawn'
    <2>1. OneDebit'
      BY <1>2, HandleAlone DEF Validate, UserFound, UserNotFound, ReadCredits,
               ReadRows, CallFails, Goto, Answer, TypeOK
    <2>2. NotOverdrawn'
      BY <1>2 DEF Validate, UserFound, UserNotFound, ReadCredits, ReadRows,
                  CallFails, store, NotOverdrawn, Balance
    <2>3. DebitCovered'
      BY <1>2 DEF Validate, UserFound, AfterUserCheck, UserNotFound,
                  ReadCredits, ReadRows, CallFails, Goto, Answer, store,
                  DebitCovered, TypeOK, OnTrack
    <2>. QED
      BY <2>1, <2>2, <2>3
  <1>3. ASSUME NEW r \in Requests, ReadDebits(r)
        PROVE  OneDebit' /\ DebitCovered' /\ NotOverdrawn'
    <2>0. /\ pc[r] = "readDebits"
          /\ UNCHANGED <<store, req, credits>>
          /\ pc' \in {[pc EXCEPT ![r] = "done"], [pc EXCEPT ![r] = "insert"]}
      BY <1>3, DebitsAreRead
    <2>1. OneDebit'
      BY <2>0, HandleAlone DEF TypeOK
    <2>2. NotOverdrawn'
      BY <2>0 DEF store, NotOverdrawn, Balance
    <2>3. DebitCovered'
      <3>. SUFFICES ASSUME NEW s \in Requests, pc'[s] = "insert", req'[s].op = "debit"
                    PROVE  /\ debited'[req'[s].user] <= debits'[s] + Rounding
                           /\ req'[s].amount <= credits'[s] - debits'[s]
        BY DEF DebitCovered
      <3>0. PICK sum \in Int :
              /\ debits' = [debits EXCEPT ![r] = sum]
              /\ debited[req[r].user] <= sum + Rounding
              /\ pc'[r] = "insert" => ~Overdrawn(credits[r] - sum, req[r].amount)
        BY <1>3, DebitsAreRead
      <3>1. CASE s = r
        <4>1. /\ req[r] \in Request
              /\ req[r].amount \in Int
              /\ credits[r] \in Int
          BY <2>0, AmountsAssumption DEF TypeOK, Request
        <4>2. ~Overdrawn(credits[r] - sum, req[r].amount)
          BY <3>0, <3>1
        <4>3. debits'[r] = sum /\ UNCHANGED <<debited, credits, req>>
          BY <2>0, <3>0 DEF store, TypeOK
        <4>. QED
          BY <3>0, <3>1, <4>1, <4>2, <4>3 DEF Overdrawn
      <3>2. CASE s # r
        BY <2>0, <3>0, <3>2 DEF store, DebitCovered, TypeOK
      <3>. QED
        BY <3>1, <3>2
    <2>. QED
      BY <2>1, <2>2, <2>3
  <1>4. ASSUME NEW r \in Requests,
               InsertDebit(r) \/ InsertCredit(r) \/ Commit(r) \/ InsertAnswerLost(r)
        PROVE  OneDebit' /\ DebitCovered' /\ NotOverdrawn'
    <2>1. /\ pc[r] = "insert" \/ (pc[r] = "commit" /\ req[r].op = "credit")
          /\ pc' \in {[pc EXCEPT ![r] = "done"], [pc EXCEPT ![r] = "commit"]}
          /\ pc'[r] = "commit" => req[r].op = "credit"
          /\ UNCHANGED <<req, credits, debits>>
      BY <1>4 DEF InsertDebit, InsertCredit, Commit, InsertAnswerLost, Goto,
                  Answer, OnTrack, TypeOK
    <2>2. OneDebit'
      BY <2>1, HandleAlone DEF TypeOK
    <2>3. CASE StoreRow(r)
      BY <2>1, <2>2, <2>3, StoreRowCovered
    <2>4. CASE UNCHANGED store
      BY <2>1, <2>2, <2>4 DEF store, DebitCovered, NotOverdrawn, Balance, TypeOK
    <2>. QED
      BY <1>4, <2>3, <2>4 DEF InsertDebit, InsertCredit, Commit, InsertAnswerLost
  <1>5. CASE RegistryChanges \/ UNCHANGED vars
    BY <1>5 DEF RegistryChanges, vars, store, OneDebit, InFlight, DebitCovered,
                NotOverdrawn, Balance
  <1>. QED
    BY <1>1, <1>2, <1>3, <1>4, <1>5 DEF Next, Handle

\* With the JDBC store, whose sums are exact, and while the clients run one debit
\* of an account at a time, no account is ever overdrawn: the two sums and the
\* insert of debitAmount need no transaction.
THEOREM NeverNegative ==
    ASSUME DebitsInFlight = 1, Transactional
    PROVE  Spec => []NonNegative
  <1>1. SerialInv => NonNegative
    <2>1. Drift = 0
      BY SumsRead
    <2>2. NotOverdrawn => NonNegative
      BY <2>1 DEF NotOverdrawn, NonNegative
    <2>. QED
      BY <2>2 DEF SerialInv
  <1>. QED
    BY <1>1, InitInv, NextSerialInv, PTL DEF Spec


-----------------------------------------------------------------------------
\* Action properties.

\* The step of another request leaves the control of this one alone.
LEMMA OtherStep ==
    ASSUME TypeOK, [Next]_vars, NEW r \in Requests, pc[r] # "new",
           pc'[r] # pc[r]
    PROVE  Handle(r)
  <1>1. ASSUME NEW s \in Requests, NEW q \in Request, Receive(s, q)
        PROVE  FALSE
    BY <1>1 DEF Receive, Goto, TypeOK
  <1>2. ASSUME NEW s \in Requests, s # r, Handle(s)
        PROVE  FALSE
    BY <1>2 DEF Handle, Validate, UserFound, UserNotFound, ReadCredits, ReadDebits,
                ReadRows, InsertDebit, InsertCredit, Commit, CallFails,
                InsertAnswerLost, Goto, Answer, TypeOK
  <1>3. CASE RegistryChanges \/ UNCHANGED vars
    BY <1>3 DEF RegistryChanges, vars
  <1>. QED
    BY <1>1, <1>2, <1>3 DEF Next

\* The sums a balance is computed from never overstate the account: the
\* credits that were read are still there when the debits are read.  With the
\* Mongo store they may, by the two cents of its roundings.
THEOREM ReportsAreCovered == Spec => NeverOverstated
  <1>1. ASSUME Inv, [Next]_vars, NEW r \in Requests, pc[r] = "readDebits",
               pc'[r] # "readDebits", answer'[r] # "http500"
        PROVE  credits[r] - debits'[r] <= Balance(req[r].user) + Drift
    <2>. USE DEF Inv, Core
    <2>1. Handle(r)
      BY <1>1, OtherStep
    <2>2. ReadDebits(r)
      BY <1>1, <2>1 DEF Handle, Validate, UserFound, UserNotFound, ReadCredits,
           ReadRows, InsertDebit, InsertCredit, Commit, CallFails,
           InsertAnswerLost, Answer, TypeOK
    <2>3. /\ debits'[r] \in Int
          /\ debited[req[r].user] <= debits'[r] + Rounding
          /\ credits[r] <= credited[req[r].user] + Rounding
      BY <1>1, <2>2, DebitsAreRead DEF TypeOK, CreditsRead
    <2>4. /\ credits[r] \in Int
          /\ credited[req[r].user] \in Int
          /\ debited[req[r].user] \in Int
      BY <1>1 DEF TypeOK, Request
    <2>. QED
      BY <2>3, <2>4, SumsRead DEF Balance
  <1>2. Inv /\ [Next]_vars =>
          [\A r \in Requests :
             /\ pc[r] = "readDebits"
             /\ pc'[r] # "readDebits"
             /\ answer'[r] # "http500"
             => credits[r] - debits'[r] <= Balance(req[r].user) + Drift]_vars
    BY <1>1
  <1>. QED
    BY <1>2, InitInv, NextInv, PTL DEF Spec, NeverOverstated, SerialInv

\* The amount a debit answers is on the account once its row is stored, but for
\* the roundings of the Mongo store.
THEOREM DebitAnswersAreCovered ==
    ASSUME DebitsInFlight = 1
    PROVE  Spec => DebitAnswerCovered
  <1>1. ASSUME SerialInv, [Next]_vars, NEW r \in Requests,
               r \in operations' \ operations, req[r].op = "debit"
        PROVE  credits[r] - debits[r] - req[r].amount <= Balance(req[r].user)' + Drift
    <2>. USE DEF SerialInv, Inv, Core
    <2>1. InsertDebit(r) \/ InsertAnswerLost(r)
      BY <1>1 DEF Next, Handle, Receive, Validate, UserFound, UserNotFound,
           ReadCredits, ReadDebits, ReadRows, InsertDebit, InsertCredit, Commit,
           CallFails, InsertAnswerLost, RegistryChanges, StoreRow, store, vars,
           OnTrack
    <2>2. /\ credited' = credited
          /\ debited' = [debited EXCEPT ![req[r].user] = @ + req[r].amount]
          /\ req' = req
          /\ pc[r] = "insert"
      BY <1>1, <2>1 DEF InsertDebit, InsertAnswerLost, StoreRow, Add
    <2>3. /\ debited[req[r].user] <= debits[r] + Rounding
          /\ credits[r] <= credited[req[r].user] + Rounding
      BY <1>1, <2>2 DEF DebitCovered, CreditsRead
    <2>4. /\ req[r].user \in Identifiers
          /\ req[r].amount \in Int
      BY <1>1, <2>2, AmountsAssumption DEF TypeOK, Request
    <2>5. /\ credits[r] \in Int /\ debits[r] \in Int
          /\ credited[req[r].user] \in Nat
          /\ debited[req[r].user] \in Nat
      BY <1>1, <2>4 DEF TypeOK
    <2>6. Balance(req[r].user)' = credited[req[r].user]
                                    - (debited[req[r].user] + req[r].amount)
      BY <1>1, <2>2, <2>4 DEF Balance, TypeOK
    <2>. QED
      BY <2>3, <2>4, <2>5, <2>6, SumsRead
  <1>2. SerialInv /\ [Next]_vars =>
          [\A r \in Requests :
             /\ r \in operations' \ operations
             /\ req[r].op = "debit"
             => credits[r] - debits[r] - req[r].amount
                  <= Balance(req[r].user)' + Drift]_vars
    BY <1>1
  <1>. QED
    BY <1>2, InitInv, NextSerialInv, PTL DEF Spec, DebitAnswerCovered


-----------------------------------------------------------------------------
\* With a JDBC store an answer tells whether the row is there, for every step
\* at which a call can fail.
THEOREM AnswersTellTheStore == Spec => []SuccessIffStored
  <1>1. Init => SuccessIffStored
    BY DEF Init, SuccessIffStored
  <1>2. ASSUME Inv, SuccessIffStored, [Next]_vars, Transactional
        PROVE  SuccessIffStored'
    <2>. USE DEF Inv, Core
    <2>1. ASSUME NEW r \in Requests, NEW q \in Request, Receive(r, q)
          PROVE  SuccessIffStored'
      BY <1>2, <2>1 DEF Receive, Goto, store, TypeOK, SuccessIffStored, NeedsAmount
    <2>2. ASSUME NEW r \in Requests,
                 \/ Validate(r) \/ UserFound(r) \/ UserNotFound(r)
                 \/ ReadCredits(r) \/ CallFails(r)
          PROVE  SuccessIffStored'
      BY <1>2, <2>2 DEF Validate, UserFound, UserNotFound, NotFoundAnswer,
           ReadCredits, CallFails, Goto, Answer, AfterUserCheck, store, TypeOK,
           SuccessIffStored, NeedsAmount
    <2>3. ASSUME NEW r \in Requests, ReadDebits(r) \/ ReadRows(r)
          PROVE  SuccessIffStored'
      <3>1. CASE ReadDebits(r)
        BY <1>2, <3>1, DebitsAreRead DEF store, TypeOK, OnTrack, SuccessIffStored, NeedsAmount
      <3>2. CASE ReadRows(r)
        BY <1>2, <3>2 DEF ReadRows, Answer, store, TypeOK, OnTrack, SuccessIffStored, NeedsAmount
      <3>. QED
        BY <2>3, <3>1, <3>2
    <2>4. ASSUME NEW r \in Requests, InsertDebit(r) \/ InsertCredit(r) \/ Commit(r)
          PROVE  SuccessIffStored'
      BY <1>2, <2>4 DEF InsertDebit, InsertCredit, Commit, StoreRow, Goto, Answer,
           store, TypeOK, OnTrack, SuccessIffStored, NeedsAmount
    <2>5. ASSUME NEW r \in Requests, InsertAnswerLost(r)
          PROVE  SuccessIffStored'
      BY <1>2, <2>5 DEF InsertAnswerLost
    <2>6. CASE RegistryChanges \/ UNCHANGED vars
      BY <1>2, <2>6 DEF RegistryChanges, vars, store, SuccessIffStored, NeedsAmount
    <2>. QED
      BY <1>2, <2>1, <2>2, <2>3, <2>4, <2>5, <2>6 DEF Next, Handle
  <1>3. Inv /\ SuccessIffStored /\ [Next]_vars => SuccessIffStored'
    BY <1>2 DEF SuccessIffStored
  <1>. QED
    BY <1>1, <1>3, InitInv, NextInv, PTL DEF Spec, SerialInv

\* Whatever the store, an operation answered success is in the table: a credit
\* commits what it inserted, or had stored it at once.
THEOREM AcknowledgedAreStored == Spec => []AcknowledgedStored
  <1>1. Init => AcknowledgedStored
    BY DEF Init, AcknowledgedStored
  <1>2. Inv /\ AcknowledgedStored /\ [Next]_vars => AcknowledgedStored'
    <2>. SUFFICES ASSUME Inv, AcknowledgedStored, [Next]_vars PROVE AcknowledgedStored'
      OBVIOUS
    <2>. USE DEF Inv, Core
    <2>1. ASSUME NEW r \in Requests, NEW q \in Request, Receive(r, q)
          PROVE  AcknowledgedStored'
      BY <2>1 DEF Receive, Goto, store, TypeOK, AcknowledgedStored, NeedsAmount
    <2>2. ASSUME NEW r \in Requests,
                 \/ Validate(r) \/ UserFound(r) \/ UserNotFound(r)
                 \/ ReadCredits(r) \/ CallFails(r)
          PROVE  AcknowledgedStored'
      BY <2>2 DEF Validate, UserFound, UserNotFound, NotFoundAnswer,
           ReadCredits, CallFails, Goto, Answer, AfterUserCheck, store, TypeOK,
           AcknowledgedStored, NeedsAmount
    <2>3. ASSUME NEW r \in Requests, ReadDebits(r) \/ ReadRows(r)
          PROVE  AcknowledgedStored'
      <3>1. CASE ReadDebits(r)
        BY <3>1, DebitsAreRead DEF store, TypeOK, OnTrack, AcknowledgedStored, NeedsAmount
      <3>2. CASE ReadRows(r)
        BY <3>2 DEF ReadRows, Answer, store, TypeOK, OnTrack, AcknowledgedStored, NeedsAmount
      <3>. QED
        BY <2>3, <3>1, <3>2
    <2>4. ASSUME NEW r \in Requests,
                 \/ InsertDebit(r) \/ InsertCredit(r) \/ Commit(r) \/ InsertAnswerLost(r)
          PROVE  AcknowledgedStored'
      BY <2>4, ClientsAssumption DEF InsertDebit, InsertCredit, Commit, InsertAnswerLost,
           StoreRow, Goto, Answer, store, TypeOK, StoredLate, AcknowledgedStored, NeedsAmount
    <2>5. CASE RegistryChanges \/ UNCHANGED vars
      BY <2>5 DEF RegistryChanges, vars, store, AcknowledgedStored, NeedsAmount
    <2>. QED
      BY <2>1, <2>2, <2>3, <2>4, <2>5 DEF Next, Handle
  <1>. QED
    BY <1>1, <1>2, InitInv, NextInv, PTL DEF Spec, SerialInv


-----------------------------------------------------------------------------
\* The service implements Account while the clients run one debit of an account
\* at a time: every step of a request settles the request as one step of
\* Account does, or changes nothing Account sees.

Balances == [u \in Identifiers |-> Balance(u)]
Fates == [r \in Requests |-> Fate(r)]

\* A step that changes neither the store nor what is over is a stutter.
LEMMA StutterStep ==
    ASSUME UNCHANGED store,
           \A s \in Requests : s \notin operations => (pc'[s] = "done" <=> pc[s] = "done")
    PROVE  UNCHANGED <<Balances, Fates>>
  BY DEF store, Balances, Balance, Fates, Fate

\* A request that ends without a row is closed.
LEMMA CloseStep ==
    ASSUME UNCHANGED store, NEW r \in Requests, r \notin operations, pc[r] # "done",
           pc' = [pc EXCEPT ![r] = "done"], TypeOK
    PROVE  Abstract!Close(r)
  <1>1. Balances' = Balances
    BY DEF store, Balances, Balance
  <1>2. Fates[r] = "open"
    BY DEF Fates, Fate
  <1>3. Fates' = [Fates EXCEPT ![r] = "closed"]
    BY DEF Fates, Fate, store, TypeOK
  <1>. QED
    BY <1>1, <1>2, <1>3 DEF Abstract!Close, Abstract!Settle, Balances, Fates

\* Storing the row of a request applies it: a credit within the limit, or a
\* debit the balance covers.
LEMMA ApplyStep ==
    ASSUME SerialInv, Transactional, NEW r \in Requests, r \notin operations, StoreRow(r),
           \/ pc[r] = "insert"
           \/ pc[r] = "commit" /\ req[r].op = "credit",
           \A s \in Requests \ {r} : pc'[s] = pc[s]
    PROVE  \E u \in Identifiers : Abstract!Credit(r, u) \/ Abstract!Debit(r, u)
  <1>. USE DEF SerialInv, Inv, Core
  <1>1. /\ req[r].op \in {"credit", "debit"}
        /\ pc[r] \in Steps \ {"new", "received", "done"}
        /\ req[r].user \in Identifiers
        /\ req[r].amount \in Nat \ {0}
    BY StoreRowGrows DEF OnTrack, Steps
  <1>2. \A u \in Identifiers : credited[u] \in Nat /\ debited[u] \in Nat
    BY DEF TypeOK
  <1>3. Abstract!Settle(r, "applied")
    <2>1. Fates[r] = "open"
      BY <1>1 DEF Fates, Fate
    <2>2. Fates' = [Fates EXCEPT ![r] = "applied"]
      BY DEF Fates, Fate, StoreRow
    <2>. QED
      BY <2>1, <2>2 DEF Abstract!Settle, Fates
  <1>4. CASE req[r].op = "credit"
    <2>1. req[r].amount \in 1..MAX_AMOUNT_AUTORIZED
      BY <1>1, <1>4, AmountsAssumption DEF Validated, OverMax
    <2>2. Balances' = [Balances EXCEPT ![req[r].user] = @ + req[r].amount]
      BY <1>1, <1>2, <1>4 DEF Balances, Balance, StoreRow, Add, TypeOK
    <2>3. Abstract!Credit(r, req[r].user)
      BY <1>3, <2>1, <2>2 DEF Abstract!Credit, Balances
    <2>. QED
      BY <1>1, <2>3
  <1>5. CASE req[r].op = "debit"
    <2>1. /\ pc[r] = "insert"
          /\ debited[req[r].user] <= debits[r] + Rounding
          /\ req[r].amount <= credits[r] - debits[r]
          /\ credits[r] <= credited[req[r].user] + Rounding
          /\ credits[r] \in Int /\ debits[r] \in Int
      BY <1>5 DEF DebitCovered, CreditsRead, TypeOK
    <2>2. req[r].amount \in 1..Balances[req[r].user]
      BY <1>1, <1>2, <2>1, SumsRead DEF Balances, Balance
    <2>3. Balances' = [Balances EXCEPT ![req[r].user] = @ - req[r].amount]
      <3>1. /\ credited' = credited
            /\ debited' = [debited EXCEPT ![req[r].user] = @ + req[r].amount]
        BY <1>5 DEF StoreRow, Add
      <3>2. \A u \in Identifiers :
              credited'[u] - debited'[u] =
                IF u = req[r].user THEN credited[u] - debited[u] - req[r].amount
                                   ELSE credited[u] - debited[u]
        BY <1>1, <1>2, <3>1 DEF TypeOK
      <3>. QED
        BY <1>1, <3>2 DEF Balances, Balance
    <2>4. Abstract!Debit(r, req[r].user)
      BY <1>3, <2>2, <2>3 DEF Abstract!Debit, Balances
    <2>. QED
      BY <1>1, <2>4
  <1>. QED
    BY <1>1, <1>4, <1>5

\* Every step of the service is a step of Account, or one it does not see.
LEMMA NextRefines ==
    ASSUME SerialInv, Transactional, [Next]_vars
    PROVE  [Abstract!Next]_<<Balances, Fates>>
  <1>. USE DEF SerialInv, Inv, Core
  <1>1. ASSUME NEW r \in Requests, NEW q \in Request, Receive(r, q)
        PROVE  UNCHANGED <<Balances, Fates>>
    BY <1>1, StutterStep DEF Receive, Goto, store, TypeOK
  <1>2. ASSUME NEW r \in Requests, Handle(r), UNCHANGED store, pc'[r] = "done",
               r \notin operations
        PROVE  Abstract!Close(r)
    <2>1. pc[r] # "done"
      BY <1>2 DEF Handle, Validate, UserFound, UserNotFound, ReadCredits, ReadDebits,
           ReadRows, InsertDebit, InsertCredit, Commit, CallFails, InsertAnswerLost
    <2>2. pc' = [pc EXCEPT ![r] = "done"]
      BY <1>2 DEF Handle, Validate, UserFound, UserNotFound, ReadCredits, ReadDebits,
           ReadRows, InsertDebit, InsertCredit, Commit, CallFails, InsertAnswerLost,
           Goto, Answer, TypeOK
    <2>. QED
      BY <1>2, <2>1, <2>2, CloseStep
  <1>3. ASSUME NEW r \in Requests, Handle(r), UNCHANGED store,
               pc'[r] # "done" \/ r \in operations
        PROVE  UNCHANGED <<Balances, Fates>>
    <2>1. \A s \in Requests \ {r} : pc'[s] = pc[s]
      BY <1>3 DEF Handle, Validate, UserFound, UserNotFound, ReadCredits, ReadDebits,
           ReadRows, InsertDebit, InsertCredit, Commit, CallFails, InsertAnswerLost,
           Goto, Answer, TypeOK
    <2>2. pc[r] # "done"
      BY <1>3 DEF Handle, Validate, UserFound, UserNotFound, ReadCredits, ReadDebits,
           ReadRows, InsertDebit, InsertCredit, Commit, CallFails, InsertAnswerLost
    <2>. QED
      BY <1>3, <2>1, <2>2, StutterStep
  <1>4. ASSUME NEW r \in Requests, Handle(r), StoreRow(r), ~UNCHANGED store
        PROVE  \E u \in Identifiers : Abstract!Credit(r, u) \/ Abstract!Debit(r, u)
    <2>1. InsertDebit(r) \/ InsertCredit(r) \/ Commit(r) \/ InsertAnswerLost(r)
      BY <1>4 DEF Handle, Validate, UserFound, UserNotFound, ReadCredits, ReadDebits,
           ReadRows, CallFails
    <2>2. /\ r \notin operations
          /\ pc[r] = "insert" \/ (pc[r] = "commit" /\ req[r].op = "credit")
          /\ \A s \in Requests \ {r} : pc'[s] = pc[s]
      BY <1>4, <2>1, ClientsAssumption DEF InsertDebit, InsertCredit, Commit,
           InsertAnswerLost, Goto, Answer, StoredLate, OnTrack, TypeOK
    <2>. QED
      BY <1>4, <2>2, ApplyStep
  <1>5. ASSUME NEW r \in Requests, Handle(r)
        PROVE  StoreRow(r) \/ UNCHANGED store
    BY <1>5 DEF Handle, Validate, UserFound, UserNotFound, ReadCredits, ReadDebits,
         ReadRows, InsertDebit, InsertCredit, Commit, CallFails, InsertAnswerLost
  <1>6. CASE RegistryChanges \/ UNCHANGED vars
    BY <1>6, StutterStep DEF RegistryChanges, vars, store
  <1>. QED
    BY <1>1, <1>2, <1>3, <1>4, <1>5, <1>6 DEF Next, Abstract!Next

\* The initial sums are the opening balances.
LEMMA InitRefines == Init => Abstract!Init
  BY DEF Init, Abstract!Init, Balance, Fate

\* With the JDBC store and while the clients run one debit of an account at a
\* time, the service does what Account promises.
THEOREM Refinement ==
    ASSUME DebitsInFlight = 1, Transactional
    PROVE  Spec => ImplementsAccount
  <1>1. SerialInv /\ [Next]_vars =>
          [Abstract!Next]_<<[u \in Identifiers |-> Balance(u)],
                            [r \in Requests |-> Fate(r)]>>
    BY NextRefines DEF Balances, Fates
  <1>. QED
    BY <1>1, InitRefines, InitInv, NextSerialInv, PTL
    DEF Spec, ImplementsAccount, Abstract!Spec

-----------------------------------------------------------------------------
\* Sums of rows, counted cent by cent: what one more row adds.

LEMMA UpTo ==
    ASSUME NEW n \in Int
    PROVE  /\ IsFiniteSet(1..n)
           /\ n >= 0 => Cardinality(1..n) = n
  <1>1. IsFiniteSet(1..n) /\ Cardinality(1..n) = IF 1 > n THEN 0 ELSE n - 1 + 1
    BY FS_Interval
  <1>. QED
    BY <1>1

\* A finite set of rows has finitely many cents.
LEMMA CentsFinite ==
    ASSUME NEW rows, IsFiniteSet(rows), NEW of, \A r \in rows : of[r].amount \in Int
    PROVE  IsFiniteSet(Cents(rows, of))
  <1>. DEFINE Own(r) == {r} \X (1..of[r].amount)
              All == {Own(r) : r \in rows}
              f == [r \in rows |-> Own(r)]
  <1>1. IsFiniteSet(All)
    <2>1. f \in Surjection(rows, All)
      BY DEF Surjection
    <2>. QED
      BY <2>1, FS_Surjection
  <1>2. ASSUME NEW r \in rows
        PROVE  IsFiniteSet(Own(r))
    <2>1. IsFiniteSet({r}) /\ IsFiniteSet(1..of[r].amount)
      BY FS_Singleton, UpTo
    <2>. QED
      BY <2>1, FS_Product
  <1>3. IsFiniteSet(UNION All)
    BY <1>1, <1>2, FS_UNION
  <1>. QED
    BY <1>3 DEF Cents

\* One more row adds its amount.
LEMMA CentsAdd ==
    ASSUME NEW rows, IsFiniteSet(rows), NEW of, NEW r, r \notin rows,
           \A s \in rows \cup {r} : of[s].amount \in Int,
           of[r].amount \in Nat
    PROVE  /\ Cardinality(Cents(rows, of)) \in Nat
           /\ Cardinality(Cents(rows \cup {r}, of))
                = Cardinality(Cents(rows, of)) + of[r].amount
  <1>. DEFINE Own == {r} \X (1..of[r].amount)
  <1>1. IsFiniteSet(Cents(rows, of)) /\ Cardinality(Cents(rows, of)) \in Nat
    BY CentsFinite, FS_CardinalityType
  <1>2. IsFiniteSet(Own) /\ Cardinality(Own) = of[r].amount
    <2>1. IsFiniteSet({r}) /\ Cardinality({r}) = 1
      BY FS_Singleton
    <2>2. IsFiniteSet(1..of[r].amount) /\ Cardinality(1..of[r].amount) = of[r].amount
      BY UpTo
    <2>3. IsFiniteSet(Own) /\ Cardinality(Own) = Cardinality({r}) * Cardinality(1..of[r].amount)
      BY <2>1, <2>2, FS_Product
    <2>. QED
      BY <2>1, <2>2, <2>3
  <1>3. Cents(rows \cup {r}, of) = Cents(rows, of) \cup Own
    BY DEF Cents
  <1>4. Cents(rows, of) \cap Own = {}
    BY DEF Cents
  <1>5. Cardinality({}) = 0
    BY FS_EmptySet
  <1>. HIDE DEF Own
  <1>6. Cardinality(Cents(rows, of) \cup Own)
          = Cardinality(Cents(rows, of)) + Cardinality(Own) - Cardinality({})
    BY <1>1, <1>2, <1>4, FS_Union
  <1>7. Cardinality(Cents(rows \cup {r}, of)) = Cardinality(Cents(rows, of)) + of[r].amount - 0
    BY <1>2, <1>3, <1>5, <1>6
  <1>. QED
    BY <1>1, <1>7

\* And one row less takes its amount.
LEMMA CentsRemove ==
    ASSUME NEW rows, IsFiniteSet(rows), NEW of, NEW r \in rows,
           \A s \in rows : of[s].amount \in Nat
    PROVE  /\ Cardinality(Cents(rows \ {r}, of)) \in Nat
           /\ Cardinality(Cents(rows, of))
                = Cardinality(Cents(rows \ {r}, of)) + of[r].amount
  <1>. DEFINE rest == rows \ {r}
  <1>1. /\ IsFiniteSet(rest) /\ r \notin rest
        /\ rows = rest \cup {r}
    BY FS_Subset
  <1>2. /\ \A s \in rest \cup {r} : of[s].amount \in Int
        /\ of[r].amount \in Nat
    OBVIOUS
  <1>. HIDE DEF rest
  <1>3. /\ Cardinality(Cents(rest, of)) \in Nat
        /\ Cardinality(Cents(rest \cup {r}, of)) = Cardinality(Cents(rest, of)) + of[r].amount
    BY <1>1, <1>2, CentsAdd
  <1>. QED
    BY <1>1, <1>3 DEF rest

\* Rows of at most an amount each are worth at most as many times that amount.
LEMMA CentsBound ==
    ASSUME NEW rows, IsFiniteSet(rows), NEW of, NEW most \in Nat,
           \A r \in rows : of[r].amount \in Int /\ of[r].amount <= most
    PROVE  Cardinality(Cents(rows, of)) <= Cardinality(rows) * most
  <1>1. IsFiniteSet(1..most) /\ Cardinality(1..most) = most
    BY UpTo
  <1>2. /\ IsFiniteSet(rows \X (1..most))
        /\ Cardinality(rows \X (1..most)) = Cardinality(rows) * most
    BY <1>1, FS_Product
  <1>3. Cents(rows, of) \subseteq rows \X (1..most)
    BY DEF Cents
  <1>. QED
    BY <1>2, <1>3, FS_Subset

-----------------------------------------------------------------------------
\* The sums match the rows.

\* A stored row is one of a lawful amount of a credit or a debit.
RowsLawful ==
    \A r \in operations :
      /\ req[r] \in Request
      /\ req[r].op \in {"credit", "debit"}
      /\ req[r].amount \in Nat \ {0}

SumsInv == Core /\ RowsLawful /\ SumsMatchRows

\* What a step does to the store: nothing, and then it rewrites no request that
\* has a row; or it stores the row of one request, which had none.
LEMMA StoreSteps ==
    ASSUME Core, [Next]_vars
    PROVE  \/ /\ UNCHANGED store
              /\ \A r \in operations : req'[r] = req[r]
           \/ \E r \in Requests :
                /\ r \notin operations
                /\ StoreRow(r)
                /\ UNCHANGED req
                /\ pc[r] \in {"insert", "commit"}
                /\ req[r] \in Request
                /\ req[r].op \in {"credit", "debit"}
                /\ req[r].amount \in Nat \ {0}
  <1>. USE DEF Core
  <1>1. ASSUME NEW r \in Requests, NEW q \in Request, Receive(r, q)
        PROVE  UNCHANGED store /\ \A s \in operations : req'[s] = req[s]
    <2>1. r \notin operations
      BY <1>1 DEF Receive, StoredLate
    <2>. QED
      BY <1>1, <2>1 DEF Receive, TypeOK
  <1>2. ASSUME NEW r \in Requests,
               \/ Validate(r) \/ UserFound(r) \/ UserNotFound(r)
               \/ ReadCredits(r) \/ ReadDebits(r) \/ ReadRows(r) \/ CallFails(r)
        PROVE  UNCHANGED <<store, req>>
    BY <1>2 DEF Validate, UserFound, UserNotFound, ReadCredits, ReadDebits, ReadRows,
                CallFails
  <1>3. ASSUME NEW r \in Requests,
               InsertDebit(r) \/ InsertCredit(r) \/ Commit(r) \/ InsertAnswerLost(r)
        PROVE  /\ UNCHANGED req
               /\ \/ UNCHANGED store
                  \/ /\ r \notin operations
                     /\ StoreRow(r)
                     /\ pc[r] \in {"insert", "commit"}
                     /\ req[r] \in Request
                     /\ req[r].op \in {"credit", "debit"}
                     /\ req[r].amount \in Nat \ {0}
    <2>1. /\ UNCHANGED req
          /\ pc[r] \in {"insert", "commit"}
          /\ pc[r] = "commit" /\ ~UNCHANGED store => Transactional
          /\ UNCHANGED store \/ StoreRow(r)
      BY <1>3 DEF InsertDebit, InsertCredit, Commit, InsertAnswerLost
    <2>2. /\ req[r] \in Request
          /\ req[r].op \in {"credit", "debit"}
          /\ pc[r] \in Steps \ {"new", "received", "done"}
      BY <2>1 DEF TypeOK, OnTrack, Steps
    <2>3. req[r].amount \in Nat \ {0}
      <3>1. req[r].amount \in Int
        BY <2>2, AmountsAssumption DEF Request
      <3>. QED
        BY <2>2, <3>1 DEF Validated, NotPositive, NeedsAmount
    <2>4. UNCHANGED store \/ r \notin operations
      BY <2>1 DEF StoredLate
    <2>. QED
      BY <2>1, <2>2, <2>3, <2>4
  <1>4. CASE RegistryChanges \/ UNCHANGED vars
    BY <1>4 DEF RegistryChanges, vars, store
  <1>. QED
    BY <1>1, <1>2, <1>3, <1>4 DEF Next, Handle

\* Storing a row adds its amount to the sum of its account and kind.
LEMMA RowAdds ==
    ASSUME TypeOK, RowsLawful, SumsMatchRows, NEW r \in Requests, r \notin operations,
           StoreRow(r), UNCHANGED req, req[r] \in Request,
           req[r].op \in {"credit", "debit"}, req[r].amount \in Nat \ {0}
    PROVE  RowsLawful' /\ SumsMatchRows'
  <1>1. RowsLawful'
    BY DEF RowsLawful, StoreRow
  <1>2. ASSUME NEW op \in {"credit", "debit"}, NEW u \in Identifiers
        PROVE  SumOf(RowsOf(op, u))' =
                 IF req[r].op = op /\ req[r].user = u
                   THEN SumOf(RowsOf(op, u)) + req[r].amount
                   ELSE SumOf(RowsOf(op, u))
    <2>1. IsFiniteSet(RowsOf(op, u)) /\ r \notin RowsOf(op, u)
      BY RequestsAssumption, FS_Subset DEF RowsOf, TypeOK
    <2>2. \A s \in RowsOf(op, u) \cup {r} : req[s].amount \in Int
      BY DEF RowsLawful, RowsOf
    <2>3. CASE req[r].op = op /\ req[r].user = u
      <3>1. RowsOf(op, u)' = RowsOf(op, u) \cup {r}
        BY <2>3 DEF RowsOf, StoreRow
      <3>2. Cardinality(Cents(RowsOf(op, u) \cup {r}, req))
              = Cardinality(Cents(RowsOf(op, u), req)) + req[r].amount
        BY <2>1, <2>2, CentsAdd
      <3>. QED
        BY <2>3, <3>1, <3>2 DEF SumOf, Cents
    <2>4. CASE ~(req[r].op = op /\ req[r].user = u)
      <3>1. RowsOf(op, u)' = RowsOf(op, u)
        BY <2>4 DEF RowsOf, StoreRow
      <3>. QED
        BY <2>4, <3>1 DEF SumOf, Cents
    <2>. QED
      BY <2>3, <2>4
  <1>3. \A op \in {"credit", "debit"}, u \in Identifiers : SumOf(RowsOf(op, u)) \in Nat
    <2>. SUFFICES ASSUME NEW op \in {"credit", "debit"}, NEW u \in Identifiers
                  PROVE  SumOf(RowsOf(op, u)) \in Nat
      OBVIOUS
    <2>1. IsFiniteSet(RowsOf(op, u))
      BY RequestsAssumption, FS_Subset DEF RowsOf, TypeOK
    <2>2. \A s \in RowsOf(op, u) : req[s].amount \in Int
      BY DEF RowsLawful, RowsOf
    <2>3. IsFiniteSet(Cents(RowsOf(op, u), req))
      BY <2>1, <2>2, CentsFinite
    <2>. QED
      BY <2>3, FS_CardinalityType DEF SumOf
  <1>4. ASSUME NEW u \in Identifiers
        PROVE  /\ credited'[u] = SeedCredits[u] + SumOf(RowsOf("credit", u))'
               /\ debited'[u] = SeedDebits[u] + SumOf(RowsOf("debit", u))'
    <2>1. /\ credited[u] = SeedCredits[u] + SumOf(RowsOf("credit", u))
          /\ debited[u] = SeedDebits[u] + SumOf(RowsOf("debit", u))
      BY DEF SumsMatchRows
    <2>2. /\ SeedCredits[u] \in Nat /\ SeedDebits[u] \in Nat
          /\ credited[u] \in Nat /\ debited[u] \in Nat
      BY SeedAssumption DEF TypeOK
    <2>3. credited'[u] = IF req[r].op = "credit" /\ req[r].user = u
                           THEN credited[u] + req[r].amount ELSE credited[u]
      BY DEF StoreRow, Add, TypeOK
    <2>4. debited'[u] = IF req[r].op = "debit" /\ req[r].user = u
                          THEN debited[u] + req[r].amount ELSE debited[u]
      BY DEF StoreRow, Add, TypeOK
    <2>5. credited'[u] = SeedCredits[u] + SumOf(RowsOf("credit", u))'
      BY <1>2, <1>3, <2>1, <2>2, <2>3
    <2>6. debited'[u] = SeedDebits[u] + SumOf(RowsOf("debit", u))'
      BY <1>2, <1>3, <2>1, <2>2, <2>4
    <2>. QED
      BY <2>5, <2>6
  <1>5. SumsMatchRows'
    BY <1>4 DEF SumsMatchRows
  <1>. QED
    BY <1>1, <1>5

\* A step that leaves the store and the requests with a row alone changes no sum.
LEMMA RowsStay ==
    ASSUME RowsLawful, SumsMatchRows, UNCHANGED store,
           \A r \in operations : req'[r] = req[r]
    PROVE  RowsLawful' /\ SumsMatchRows'
  <1>1. RowsLawful'
    BY DEF RowsLawful, store
  <1>2. ASSUME NEW op, NEW u
        PROVE  SumOf(RowsOf(op, u))' = SumOf(RowsOf(op, u))
    <2>1. RowsOf(op, u)' = RowsOf(op, u)
      BY DEF RowsOf, store
    <2>2. Cents(RowsOf(op, u), req') = Cents(RowsOf(op, u), req)
      BY DEF Cents, RowsOf
    <2>. QED
      BY <2>1, <2>2 DEF SumOf, Cents
  <1>3. SumsMatchRows'
    BY <1>2 DEF SumsMatchRows, store
  <1>. QED
    BY <1>1, <1>3

\* At first there are no rows and the sums are those of the data script.
LEMMA InitSums == Init => SumsInv
  <1>. SUFFICES ASSUME Init PROVE SumsInv
    OBVIOUS
  <1>1. Core
    BY InitInv DEF SerialInv, Inv
  <1>2. ASSUME NEW op, NEW u
        PROVE  SumOf(RowsOf(op, u)) = 0
    <2>1. Cents(RowsOf(op, u), req) = {}
      BY DEF Init, Cents, RowsOf
    <2>. QED
      BY <2>1, FS_EmptySet DEF SumOf
  <1>3. SumsMatchRows
    BY <1>2, SeedAssumption DEF SumsMatchRows, Init
  <1>4. RowsLawful
    BY DEF RowsLawful, Init
  <1>. QED
    BY <1>1, <1>3, <1>4 DEF SumsInv

LEMMA NextSums == SumsInv /\ [Next]_vars => SumsInv'
  <1>. SUFFICES ASSUME SumsInv, [Next]_vars
                PROVE  RowsLawful' /\ SumsMatchRows'
    BY NextCore DEF SumsInv
  <1>. QED
    BY StoreSteps, RowAdds, RowsStay DEF SumsInv, Core

\* Whatever the store and the number of debits at once, the sums the balance is
\* made of count every stored row once, for its own account.
THEOREM SumsAreOfRows == Spec => []SumsMatchRows
  <1>1. SumsInv => SumsMatchRows
    BY DEF SumsInv
  <1>. QED
    BY <1>1, InitSums, NextSums, PTL DEF Spec


-----------------------------------------------------------------------------
\* How far debits at once can overdraw an account.

\* The debits of an account that were granted and not inserted yet.
Granted(u) == {r \in InFlight(u) : pc[r] = "insert"}

\* At most DebitsInFlight debits of an account run at once.
InFlightBounded ==
    \A u \in Identifiers : Cardinality(InFlight(u)) <= DebitsInFlight

\* What the account will hold once the granted debits are inserted: every one
\* of them was covered when it was granted, but by a balance from which those
\* granted before it were not yet taken, and which the rounding overstated.
GrantedBound(most) ==
    \A u \in Identifiers :
      Balance(u) - SumOf(Granted(u)) >= -((DebitsInFlight - 1) * most) - Drift

OverdraftInv(most) == Inv /\ InFlightBounded /\ GrantedBound(most)

\* The same of every amount that no call exceeds.
IsMost(most) == most \in Nat /\ \A a \in Amounts : a <= most
AllOverdrafts == Inv /\ InFlightBounded /\ \A most \in Nat : IsMost(most) => GrantedBound(most)

\* A product grows with its first factor.
LEMMA TimesGrows ==
    ASSUME NEW m \in Nat, NEW n \in Int, NEW most \in Nat, m <= n
    PROVE  m * most <= n * most
  OBVIOUS

\* The granted debits of an account are finitely many, of lawful amounts.
LEMMA GrantedTyped ==
    ASSUME Core, NEW u \in Identifiers
    PROVE  /\ IsFiniteSet(InFlight(u)) /\ IsFiniteSet(Granted(u))
           /\ Granted(u) \subseteq InFlight(u) /\ InFlight(u) \subseteq Requests
           /\ Cardinality(InFlight(u)) \in Nat
           /\ \A r \in Granted(u) : /\ req[r].amount \in Nat \ {0}
                                    /\ req[r].amount \in Amounts
           /\ IsFiniteSet(Cents(Granted(u), req))
           /\ SumOf(Granted(u)) \in Nat
           /\ Balance(u) \in Int
  <1>. USE DEF Core
  <1>1. /\ Granted(u) \subseteq InFlight(u)
        /\ InFlight(u) \subseteq Requests
    BY DEF Granted, InFlight
  <1>2. IsFiniteSet(InFlight(u)) /\ IsFiniteSet(Granted(u))
    BY <1>1, RequestsAssumption, FS_Subset
  <1>3. ASSUME NEW r \in Granted(u)
        PROVE  req[r].amount \in Nat \ {0} /\ req[r].amount \in Amounts
    <2>1. /\ r \in Requests /\ pc[r] = "insert" /\ req[r].op = "debit"
          /\ req[r] \in Request
      BY <1>3 DEF Granted, InFlight, TypeOK
    <2>2. req[r].amount \in Amounts /\ req[r].amount \in Int
      BY <2>1, AmountsAssumption DEF Request
    <2>3. ~NotPositive(req[r])
      BY <2>1 DEF Validated, Steps
    <2>. QED
      BY <2>1, <2>2, <2>3 DEF NotPositive, NeedsAmount
  <1>4. \A r \in Granted(u) : req[r].amount \in Int
    BY <1>3
  <1>5. IsFiniteSet(Cents(Granted(u), req))
    BY <1>2, <1>4, CentsFinite
  <1>6. Balance(u) \in Int
    BY DEF Balance, TypeOK
  <1>. QED
    BY <1>1, <1>2, <1>3, <1>5, <1>6, FS_CardinalityType DEF SumOf

\* Only a debit that arrives adds to the debits that run, and it only arrives
\* while there is room.
LEMMA NextInFlight ==
    ASSUME Core, InFlightBounded, [Next]_vars
    PROVE  InFlightBounded'
  <1>. SUFFICES ASSUME NEW u \in Identifiers
                PROVE  Cardinality(InFlight(u)') <= DebitsInFlight
    BY DEF InFlightBounded
  <1>. USE DEF Core
  <1>0. /\ IsFiniteSet(InFlight(u)) /\ Cardinality(InFlight(u)) \in Nat
        /\ Cardinality(InFlight(u)) <= DebitsInFlight
        /\ DebitsInFlight \in Nat
    BY GrantedTyped, ClientsAssumption DEF InFlightBounded
  <1>1. ASSUME InFlight(u)' \subseteq InFlight(u)
        PROVE  Cardinality(InFlight(u)') <= DebitsInFlight
    <2>1. IsFiniteSet(InFlight(u)') /\ Cardinality(InFlight(u)') <= Cardinality(InFlight(u))
      BY <1>0, <1>1, FS_Subset
    <2>2. Cardinality(InFlight(u)') \in Nat
      BY <2>1, FS_CardinalityType
    <2>. QED
      BY <1>0, <2>1, <2>2
  <1>2. ASSUME NEW r \in Requests, NEW q \in Request, Receive(r, q)
        PROVE  Cardinality(InFlight(u)') <= DebitsInFlight
    <2>1. CASE q.op = "debit" /\ q.user = u
      <3>1. InFlight(u)' = InFlight(u) \cup {r} /\ r \notin InFlight(u)
        BY <1>2, <2>1 DEF Receive, Goto, InFlight, TypeOK
      <3>2. Cardinality(InFlight(u)) < DebitsInFlight
        BY <1>2, <2>1 DEF Receive
      <3>3. Cardinality(InFlight(u) \cup {r}) = Cardinality(InFlight(u)) + 1
        BY <1>0, <3>1, FS_AddElement
      <3>. QED
        BY <1>0, <3>1, <3>2, <3>3
    <2>2. CASE ~(q.op = "debit" /\ q.user = u)
      <3>1. InFlight(u)' \subseteq InFlight(u)
        BY <1>2, <2>2 DEF Receive, Goto, InFlight, TypeOK
      <3>. QED
        BY <3>1, <1>1
    <2>. QED
      BY <2>1, <2>2
  <1>3. ASSUME NEW r \in Requests, Handle(r)
        PROVE  Cardinality(InFlight(u)') <= DebitsInFlight
    <2>1. /\ UNCHANGED req
          /\ \A s \in Requests : pc'[s] \notin {"new", "done"} => pc[s] \notin {"new", "done"}
      BY <1>3 DEF Handle, Validate, UserFound, UserNotFound, ReadCredits, ReadDebits,
           ReadRows, InsertDebit, InsertCredit, Commit, CallFails, InsertAnswerLost,
           Goto, Answer, TypeOK
    <2>2. InFlight(u)' \subseteq InFlight(u)
      BY <2>1 DEF InFlight
    <2>. QED
      BY <2>2, <1>1
  <1>4. CASE RegistryChanges \/ UNCHANGED vars
    <2>1. InFlight(u)' \subseteq InFlight(u)
      BY <1>4 DEF RegistryChanges, vars, InFlight
    <2>. QED
      BY <2>1, <1>1
  <1>. QED
    BY <1>2, <1>3, <1>4 DEF Next

\* Fewer granted debits and no smaller balance keep the bound.
LEMMA FewerGranted ==
    ASSUME Core, Core', NEW most \in Nat, GrantedBound(most),
           \A u \in Identifiers : /\ Granted(u)' \subseteq Granted(u)
                                  /\ Balance(u)' >= Balance(u),
           \A u \in Identifiers : \A r \in Granted(u) : req'[r] = req[r]
    PROVE  GrantedBound(most)'
  <1>. SUFFICES ASSUME NEW u \in Identifiers
                PROVE  (Balance(u) - SumOf(Granted(u)))'
                         >= -((DebitsInFlight - 1) * most) - Drift
    BY DEF GrantedBound, Drift, Rounding
  <1>1. /\ SumOf(Granted(u)) \in Nat
        /\ Balance(u) \in Int
        /\ IsFiniteSet(Cents(Granted(u), req))
    BY GrantedTyped
  <1>2. Balance(u)' \in Int
    BY DEF Balance, Core, TypeOK
  <1>3. SumOf(Granted(u))' \in Nat /\ SumOf(Granted(u))' <= SumOf(Granted(u))
    <2>1. Cents(Granted(u), req)' \subseteq Cents(Granted(u), req)
      BY DEF Cents
    <2>2. IsFiniteSet(Cents(Granted(u), req)')
      BY <1>1, <2>1, FS_Subset
    <2>. QED
      BY <1>1, <2>1, <2>2, FS_Subset, FS_CardinalityType DEF SumOf
  <1>4. (DebitsInFlight - 1) * most \in Int /\ Drift \in Int
    BY ClientsAssumption, SumsRead
  <1>. HIDE DEF Balance, SumOf
  <1>. QED
    BY <1>1, <1>2, <1>3, <1>4 DEF GrantedBound

\* A debit is granted on a balance that covers it: beside it there are at most
\* DebitsInFlight - 1 others.
LEMMA GrantOne ==
    ASSUME NEW most \in Nat, OverdraftInv(most), InFlightBounded', Core',
           \A a \in Amounts : a <= most,
           NEW r \in Requests, ReadDebits(r), pc'[r] = "insert"
    PROVE  GrantedBound(most)'
  <1>. USE DEF OverdraftInv, Inv, Core
  <1>. SUFFICES ASSUME NEW u \in Identifiers
                PROVE  (Balance(u) - SumOf(Granted(u)))'
                         >= -((DebitsInFlight - 1) * most) - Drift
    BY DEF GrantedBound, Drift, Rounding
  <1>1. /\ IsFiniteSet(InFlight(u)) /\ IsFiniteSet(Granted(u))
        /\ Granted(u) \subseteq InFlight(u) /\ InFlight(u) \subseteq Requests
        /\ Cardinality(InFlight(u)) \in Nat
        /\ SumOf(Granted(u)) \in Nat
        /\ Balance(u) \in Int
    BY GrantedTyped
  <1>2. \A s \in Granted(u) : req[s].amount \in Nat \ {0} /\ req[s].amount \in Amounts
    BY GrantedTyped
  <1>3. /\ UNCHANGED <<store, req, credits>>
        /\ pc[r] = "readDebits"
        /\ pc' = [pc EXCEPT ![r] = "insert"]
        /\ req[r].op = "debit"
        /\ \E sum \in Int :
             /\ debited[req[r].user] <= sum + Rounding
             /\ ~Overdrawn(credits[r] - sum, req[r].amount)
    BY DebitsAreRead DEF OnTrack, TypeOK
  <1>4. Balance(u)' = Balance(u)
    BY <1>3 DEF Balance, store
  <1>5. CASE u # req[r].user
    <2>1. Granted(u)' = Granted(u)
      BY <1>3, <1>5 DEF Granted, InFlight, TypeOK
    <2>2. SumOf(Granted(u))' = SumOf(Granted(u))
      BY <1>3, <2>1 DEF SumOf, Cents
    <2>. QED
      BY <1>4, <2>2 DEF GrantedBound
  <1>6. CASE u = req[r].user
    <2>1. Granted(u)' = Granted(u) \cup {r} /\ r \notin Granted(u) /\ r \in InFlight(u)
      BY <1>3, <1>6 DEF Granted, InFlight, TypeOK
    <2>2. /\ req[r].amount \in Nat \ {0} /\ req[r].amount \in Int
          /\ req[r].amount <= Balance(u) + Drift
      <3>1. /\ req[r].amount \in Int
            /\ credits[r] \in Int /\ credited[u] \in Nat /\ debited[u] \in Nat
        BY <1>3, <1>6, AmountsAssumption DEF TypeOK, Request
      <3>2. ~NotPositive(req[r])
        BY <1>3 DEF Validated, Steps
      <3>3. credits[r] <= credited[u] + Rounding
        BY <1>3, <1>6 DEF CreditsRead
      <3>4. PICK sum \in Int : /\ debited[u] <= sum + Rounding
                               /\ ~Overdrawn(credits[r] - sum, req[r].amount)
        BY <1>3, <1>6
      <3>5. req[r].amount <= credits[r] - sum
        BY <3>1, <3>4 DEF Overdrawn
      <3>. QED
        BY <1>3, <1>6, <3>1, <3>2, <3>3, <3>4, <3>5, SumsRead
           DEF NotPositive, NeedsAmount, Balance
    <2>3. SumOf(Granted(u))' = SumOf(Granted(u)) + req[r].amount
      <3>1. \A s \in Granted(u) \cup {r} : req[s].amount \in Int
        BY <1>2, <2>2
      <3>2. Cardinality(Cents(Granted(u) \cup {r}, req))
              = Cardinality(Cents(Granted(u), req)) + req[r].amount
        BY <1>1, <2>1, <2>2, <3>1, CentsAdd
      <3>. QED
        BY <1>3, <2>1, <3>2 DEF SumOf, Cents
    <2>4. SumOf(Granted(u)) <= (DebitsInFlight - 1) * most
      <3>1. Cardinality(Granted(u)) \in Nat /\ Cardinality(Granted(u)) <= DebitsInFlight - 1
        <4>1. Granted(u) \subseteq InFlight(u) \ {r}
          BY <1>1, <2>1
        <4>2. /\ IsFiniteSet(InFlight(u) \ {r})
              /\ Cardinality(InFlight(u) \ {r}) = Cardinality(InFlight(u)) - 1
          BY <1>1, <2>1, FS_RemoveElement
        <4>3. Cardinality(Granted(u)) <= Cardinality(InFlight(u) \ {r})
          BY <4>1, <4>2, FS_Subset
        <4>4. Cardinality(InFlight(u)) <= DebitsInFlight
          BY DEF InFlightBounded
        <4>5. Cardinality(Granted(u)) \in Nat
          BY <1>1, FS_CardinalityType
        <4>. QED
          BY <1>1, <4>2, <4>3, <4>4, <4>5, ClientsAssumption
      <3>2. SumOf(Granted(u)) <= Cardinality(Granted(u)) * most
        <4>1. \A s \in Granted(u) : req[s].amount \in Int /\ req[s].amount <= most
          BY <1>2
        <4>. QED
          BY <1>1, <4>1, CentsBound DEF SumOf
      <3>3. Cardinality(Granted(u)) * most <= (DebitsInFlight - 1) * most
        BY <3>1, ClientsAssumption, TimesGrows
      <3>. QED
        BY <1>1, <3>1, <3>2, <3>3, ClientsAssumption
    <2>5. (DebitsInFlight - 1) * most \in Int /\ Drift \in Int
      BY ClientsAssumption, SumsRead
    <2>. QED
      BY <1>1, <1>4, <2>2, <2>3, <2>4, <2>5
  <1>. QED
    BY <1>5, <1>6

\* The row of a granted debit takes from the balance what was set aside for it.
LEMMA InsertGranted ==
    ASSUME NEW most \in Nat, OverdraftInv(most), Core',
           NEW r \in Requests, StoreRow(r), pc[r] = "insert", req[r].op = "debit",
           pc' = [pc EXCEPT ![r] = "done"], UNCHANGED req
    PROVE  GrantedBound(most)'
  <1>. USE DEF OverdraftInv, Inv, Core
  <1>. SUFFICES ASSUME NEW u \in Identifiers
                PROVE  (Balance(u) - SumOf(Granted(u)))'
                         >= -((DebitsInFlight - 1) * most) - Drift
    BY DEF GrantedBound, Drift, Rounding
  <1>1. /\ IsFiniteSet(Granted(u))
        /\ SumOf(Granted(u)) \in Nat
        /\ Balance(u) \in Int
    BY GrantedTyped
  <1>2. \A s \in Granted(u) : req[s].amount \in Nat \ {0} /\ req[s].amount \in Amounts
    BY GrantedTyped
  <1>3. CASE u # req[r].user
    <2>1. Granted(u)' = Granted(u)
      BY <1>3 DEF Granted, InFlight, TypeOK
    <2>2. SumOf(Granted(u))' = SumOf(Granted(u))
      BY <2>1 DEF SumOf, Cents
    <2>3. Balance(u)' = Balance(u)
      BY <1>3 DEF Balance, StoreRow, Add, TypeOK
    <2>. QED
      BY <2>2, <2>3 DEF GrantedBound
  <1>4. CASE u = req[r].user
    <2>1. r \in Granted(u) /\ Granted(u)' = Granted(u) \ {r}
      BY <1>4 DEF Granted, InFlight, TypeOK
    <2>2. req[r].amount \in Nat
      BY <1>2, <2>1
    <2>3. SumOf(Granted(u)) = SumOf(Granted(u))' + req[r].amount
          /\ SumOf(Granted(u))' \in Nat
      <3>1. \A s \in Granted(u) : req[s].amount \in Nat
        BY <1>2
      <3>2. /\ Cardinality(Cents(Granted(u), req))
                 = Cardinality(Cents(Granted(u) \ {r}, req)) + req[r].amount
            /\ Cardinality(Cents(Granted(u) \ {r}, req)) \in Nat
        BY <1>1, <2>1, <3>1, CentsRemove
      <3>. QED
        BY <2>1, <3>2 DEF SumOf, Cents
    <2>4. Balance(u)' = Balance(u) - req[r].amount
      BY <1>4, <2>2 DEF Balance, StoreRow, Add, TypeOK
    <2>5. (DebitsInFlight - 1) * most \in Int /\ Drift \in Int
      BY ClientsAssumption, SumsRead
    <2>. QED
      BY <1>1, <2>2, <2>3, <2>4, <2>5 DEF GrantedBound
  <1>. QED
    BY <1>3, <1>4

\* Every step preserves the bound, one step of the proof per kind of action.
LEMMA NextGranted ==
    ASSUME NEW most \in Nat, \A a \in Amounts : a <= most
    PROVE  OverdraftInv(most) /\ [Next]_vars => OverdraftInv(most)'
  <1>. SUFFICES ASSUME OverdraftInv(most), [Next]_vars
                PROVE  OverdraftInv(most)'
    OBVIOUS
  <1>. USE DEF OverdraftInv
  <1>1. Inv' /\ InFlightBounded'
    BY NextInv, NextInFlight DEF Inv
  <1>. USE DEF Inv
  <1>2. \A u \in Identifiers : Balance(u) \in Int
    BY DEF Balance, Core, TypeOK
  <1>3. ASSUME NEW r \in Requests, NEW q \in Request, Receive(r, q)
        PROVE  GrantedBound(most)'
    <2>1. \A u \in Identifiers : /\ Granted(u)' \subseteq Granted(u)
                                 /\ Balance(u)' >= Balance(u)
      BY <1>2, <1>3 DEF Receive, Goto, Granted, InFlight, Balance, store, Core, TypeOK
    <2>2. \A u \in Identifiers : \A s \in Granted(u) : req'[s] = req[s]
      BY <1>3 DEF Receive, Goto, Granted, InFlight, Core, TypeOK
    <2>. QED
      BY <1>1, <2>1, <2>2, FewerGranted
  <1>4. ASSUME NEW r \in Requests,
               \/ Validate(r) \/ UserFound(r) \/ UserNotFound(r) \/ ReadCredits(r)
               \/ ReadRows(r) \/ CallFails(r)
        PROVE  GrantedBound(most)'
    <2>1. /\ UNCHANGED <<store, req>>
          /\ \A s \in Requests : pc'[s] = "insert" /\ req[s].op = "debit" => pc[s] = "insert"
      BY <1>4 DEF Validate, UserFound, AfterUserCheck, UserNotFound, ReadCredits,
           ReadRows, CallFails, Goto, Answer, Core, TypeOK
    <2>2. \A u \in Identifiers : Granted(u)' \subseteq Granted(u) /\ Balance(u)' = Balance(u)
      BY <2>1 DEF Granted, InFlight, Balance, store
    <2>. QED
      BY <1>1, <1>2, <2>1, <2>2, FewerGranted
  <1>5. ASSUME NEW r \in Requests, ReadDebits(r)
        PROVE  GrantedBound(most)'
    <2>1. CASE pc'[r] = "insert"
      BY <1>1, <1>5, <2>1, GrantOne
    <2>2. CASE pc'[r] # "insert"
      <3>1. /\ UNCHANGED <<store, req>>
            /\ \A s \in Requests : pc'[s] = "insert" => pc[s] = "insert"
        BY <1>5, <2>2, DebitsAreRead DEF Core, TypeOK
      <3>2. \A u \in Identifiers : Granted(u)' \subseteq Granted(u) /\ Balance(u)' = Balance(u)
        BY <3>1 DEF Granted, InFlight, Balance, store
      <3>. QED
        BY <1>1, <1>2, <3>1, <3>2, FewerGranted
    <2>. QED
      BY <2>1, <2>2
  <1>6. ASSUME NEW r \in Requests,
               InsertDebit(r) \/ InsertCredit(r) \/ Commit(r) \/ InsertAnswerLost(r)
        PROVE  GrantedBound(most)'
    <2>1. /\ UNCHANGED req
          /\ pc[r] \in {"insert", "commit"}
          /\ pc' \in {[pc EXCEPT ![r] = "done"], [pc EXCEPT ![r] = "commit"]}
          /\ StoreRow(r) \/ UNCHANGED store
      BY <1>6 DEF InsertDebit, InsertCredit, Commit, InsertAnswerLost, Goto, Answer
    <2>2. \A u \in Identifiers : Granted(u)' \subseteq Granted(u)
      BY <2>1 DEF Granted, InFlight, Core, TypeOK
    <2>3. CASE UNCHANGED store
      <3>1. \A u \in Identifiers : Balance(u)' = Balance(u)
        BY <2>3 DEF Balance, store
      <3>. QED
        BY <1>1, <1>2, <2>1, <2>2, <3>1, FewerGranted
    <2>4. CASE StoreRow(r) /\ req[r].op = "debit"
      <3>1. pc[r] = "insert" /\ pc' = [pc EXCEPT ![r] = "done"]
        BY <1>6, <2>4 DEF InsertDebit, InsertCredit, Commit, InsertAnswerLost, Answer,
             Core, OnTrack
      <3>. QED
        BY <1>1, <2>1, <2>4, <3>1, InsertGranted
    <2>5. CASE StoreRow(r) /\ req[r].op # "debit"
      <3>1. /\ req[r].op = "credit"
            /\ req[r].user \in Identifiers
            /\ req[r].amount \in Nat
        BY <2>1, <2>5, StoreRowGrows DEF Core, OnTrack, Steps
      <3>2. /\ credited' = [credited EXCEPT ![req[r].user] = @ + req[r].amount]
            /\ debited' = debited
        BY <2>5, <3>1 DEF StoreRow, Add
      <3>3. \A u \in Identifiers : Balance(u)' >= Balance(u)
        BY <3>1, <3>2 DEF Balance, Core, TypeOK
      <3>. QED
        BY <1>1, <2>1, <2>2, <3>3, FewerGranted
    <2>. QED
      BY <2>1, <2>3, <2>4, <2>5
  <1>7. CASE RegistryChanges \/ UNCHANGED vars
    <2>1. \A u \in Identifiers : Granted(u)' \subseteq Granted(u) /\ Balance(u)' = Balance(u)
      BY <1>7 DEF RegistryChanges, vars, store, Granted, InFlight, Balance
    <2>2. UNCHANGED req
      BY <1>7 DEF RegistryChanges, vars
    <2>. QED
      BY <1>1, <1>2, <2>1, <2>2, FewerGranted
  <1>. QED
    BY <1>1, <1>3, <1>4, <1>5, <1>6, <1>7 DEF Next, Handle

\* At first no debit runs and no account is overdrawn.
LEMMA InitGranted ==
    ASSUME NEW most \in Nat
    PROVE  Init => OverdraftInv(most)
  <1>. SUFFICES ASSUME Init PROVE OverdraftInv(most)
    OBVIOUS
  <1>1. Inv
    BY InitInv DEF SerialInv
  <1>2. ASSUME NEW u \in Identifiers
        PROVE  /\ Cardinality(InFlight(u)) = 0
               /\ SumOf(Granted(u)) = 0
    <2>1. InFlight(u) = {}
      BY DEF Init, InFlight
    <2>2. Cents(Granted(u), req) = {}
      BY <2>1 DEF Granted, Cents
    <2>. QED
      BY <2>1, <2>2, FS_EmptySet DEF SumOf
  <1>3. InFlightBounded
    BY <1>2, ClientsAssumption DEF InFlightBounded
  <1>4. (DebitsInFlight - 1) * most \in Nat
    BY ClientsAssumption
  <1>5. \A u \in Identifiers : Balance(u) \in Nat
    BY SeedAssumption DEF Init, Balance
  <1>6. GrantedBound(most)
    BY <1>2, <1>4, <1>5, SumsRead DEF GrantedBound
  <1>. QED
    BY <1>1, <1>3, <1>6 DEF OverdraftInv

\* Debits at once overdraw an account by at most all of them but one, and with
\* the Mongo store by the two cents its rounding hides.
THEOREM OverdraftsAreBounded == Spec => []OverdraftBound
  <1>1. Init => AllOverdrafts
    BY InitGranted, InitInv DEF AllOverdrafts, OverdraftInv, IsMost, SerialInv
  <1>2. AllOverdrafts /\ [Next]_vars => AllOverdrafts'
    <2>. SUFFICES ASSUME AllOverdrafts, [Next]_vars PROVE AllOverdrafts'
      OBVIOUS
    <2>1. Inv' /\ InFlightBounded'
      BY NextInv, NextInFlight DEF AllOverdrafts, Inv
    <2>2. ASSUME NEW most \in Nat, IsMost(most)
          PROVE  GrantedBound(most)'
      BY <2>2, NextGranted DEF AllOverdrafts, OverdraftInv, IsMost
    <2>. QED
      BY <2>1, <2>2 DEF AllOverdrafts, IsMost
  <1>3. AllOverdrafts => OverdraftBound
    <2>. SUFFICES ASSUME AllOverdrafts, NEW u \in Identifiers, NEW most \in Amounts \cup {0},
                         \A a \in Amounts \cup {0} : a <= most
                  PROVE  Balance(u) >= -((DebitsInFlight - 1) * most) - Drift
      BY DEF OverdraftBound
    <2>1. most \in Nat /\ IsMost(most)
      BY AmountsAssumption DEF IsMost
    <2>2. SumOf(Granted(u)) \in Nat /\ Balance(u) \in Int
      BY GrantedTyped DEF AllOverdrafts, Inv
    <2>3. (DebitsInFlight - 1) * most \in Int /\ Drift \in Int
      BY <2>1, ClientsAssumption, SumsRead
    <2>4. Balance(u) - SumOf(Granted(u)) >= -((DebitsInFlight - 1) * most) - Drift
      BY <2>1 DEF AllOverdrafts, GrantedBound
    <2>. HIDE DEF Balance, SumOf
    <2>. QED
      BY <2>2, <2>3, <2>4
  <1>. QED
    BY <1>1, <1>2, <1>3, PTL DEF Spec

=============================================================================
