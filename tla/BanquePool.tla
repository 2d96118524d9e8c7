----------------------------- MODULE BanquePool ------------------------------
(***************************************************************************)
(* BanqueService over its H2 data source: the connection pool the container *)
(* binds to JNDI, and the script the JDBC url runs on every connection it  *)
(* opens.                                                                  *)
(*                                                                         *)
(* A credit takes its connection when its transaction begins and keeps it  *)
(* until it is over, the call to the user-service included.  Any other     *)
(* call borrows a connection for each statement.                           *)
(***************************************************************************)
EXTENDS BanqueService

CONSTANT MaxTotal   \* the connections the pool opens, at most

ASSUME PoolAssumption == MaxTotal \in Nat \ {0} /\ Transactional

VARIABLES
    opened,   \* how many physical connections are open
    conn      \* whether a request holds one

poolVars == <<vars, opened, conn>>

Holders == {r \in Requests : conn[r]}

PoolTypeOK ==
    /\ TypeOK
    /\ opened \in 0..MaxTotal
    /\ conn \in [Requests -> BOOLEAN]
    /\ Cardinality(Holders) <= opened

\* The pool opens no connection before one is asked for.
PoolInit ==
    /\ Init
    /\ opened = 0
    /\ conn = [r \in Requests |-> FALSE]

\* The steps that talk to the database, and the start of the transaction.
NeedsConnection(r) ==
    \/ pc[r] \in {"readCredits", "readDebits", "readRows", "insert", "commit"}
    \/ pc[r] = "received" /\ req[r].op = "credit"

\* What DROP, CREATE and the INSERTs of db-data-h2-banque.sql leave.
RunScript ==
    /\ operations' = {}
    /\ credited' = SeedCredits
    /\ debited' = SeedDebits

\* A connection has inserted a row that is not committed: it has locked the
\* table, and DROP TABLE waits.
TableLocked == \E s \in Requests : conn[s] /\ pc[s] = "commit"

\* An idle connection is reused as it is.
Borrow(r) ==
    /\ NeedsConnection(r)
    /\ ~conn[r]
    /\ Cardinality(Holders) < opened
    /\ conn' = [conn EXCEPT ![r] = TRUE]
    /\ UNCHANGED <<vars, opened>>

\* Variant: a connection is opened although the pool has reached its limit.
OpenConnection_Unbounded(r) ==
    /\ NeedsConnection(r)
    /\ ~conn[r]
    /\ Cardinality(Holders) >= opened
    /\ opened < MaxTotal + 1
    /\ ~TableLocked
    /\ RunScript
    /\ opened' = opened + 1
    /\ conn' = [conn EXCEPT ![r] = TRUE]
    /\ UNCHANGED <<registered, req, pc, credits, debits, answer>>

\* Variant: the pool does not keep the connections that are idle: the one that
\* is asked for is a new one.
OpenConnection_Evicts(r) ==
    /\ NeedsConnection(r)
    /\ ~conn[r]
    /\ Cardinality(Holders) < MaxTotal
    /\ ~TableLocked
    /\ RunScript
    /\ opened' = IF opened < MaxTotal THEN opened + 1 ELSE opened
    /\ conn' = [conn EXCEPT ![r] = TRUE]
    /\ UNCHANGED <<registered, req, pc, credits, debits, answer>>

\* None is idle and the limit is not reached: a connection is opened, and its
\* INIT runs the script.
OpenConnection(r) ==
    /\ NeedsConnection(r)
    /\ ~conn[r]
    /\ Cardinality(Holders) = opened
    /\ opened < MaxTotal
    /\ ~TableLocked
    /\ RunScript
    /\ opened' = opened + 1
    /\ conn' = [conn EXCEPT ![r] = TRUE]
    /\ UNCHANGED <<registered, req, pc, credits, debits, answer>>

\* The script gives up waiting for the table: the connection is not opened
\* and the call that wanted it fails.
OpenTimesOut(r) ==
    /\ NeedsConnection(r)
    /\ ~conn[r]
    /\ Cardinality(Holders) = opened
    /\ opened < MaxTotal
    /\ TableLocked
    /\ Answer(r, "http500")
    /\ UNCHANGED <<registered, store, req, credits, debits, opened, conn>>

\* Variant: a request that ends in an error keeps its connection.
KeepsConnection_OnError(r) ==
    req[r].op = "credit" /\ (pc'[r] # "done" \/ answer'[r] = "http500")

\* Variant: a credit gives its connection back before it commits.
KeepsConnection_UntilInsert(r) ==
    req[r].op = "credit" /\ pc'[r] \notin {"commit", "done"}

\* The transaction of a credit lasts until the credit is over.
KeepsConnection(r) == req[r].op = "credit" /\ pc'[r] # "done"

\* One step of the service, which gives its connection back unless it is
\* inside a transaction that goes on.
Work(r) ==
    /\ NeedsConnection(r) => conn[r]
    /\ Handle(r)
    /\ conn' = [conn EXCEPT ![r] = @ /\ KeepsConnection(r)]
    /\ UNCHANGED opened

PoolNext ==
    \/ /\ \E r \in Requests, q \in Request : Receive(r, q)
       /\ UNCHANGED <<opened, conn>>
    \/ \E r \in Requests :
         \/ Borrow(r)
         \/ OpenConnection(r)
         \/ OpenTimesOut(r)
         \/ Work(r)
    \/ RegistryChanges /\ UNCHANGED <<opened, conn>>

PoolSpec == PoolInit /\ [][PoolNext]_poolVars

\* A thread that can go on does; a thread that waits for a connection gets
\* one if connections come back again and again.
PoolFairness ==
    \A r \in Requests :
      /\ WF_poolVars(Work(r))
      /\ SF_poolVars(Borrow(r) \/ OpenConnection(r) \/ OpenTimesOut(r))

LivePoolSpec == PoolSpec /\ PoolFairness

-----------------------------------------------------------------------------
\* Properties.

\* Once the pool has opened all its connections, no stored row is lost: the
\* script runs at most MaxTotal times.
StableOnceFull ==
    [][opened >= MaxTotal => operations \subseteq operations']_poolVars

\* The script never runs between the insert and the commit of a credit: the
\* commit stores the row in the table the insert went to.
ScriptWaitsForTransactions ==
    [][(\E r \in Requests : pc[r] = "commit") => opened' = opened]_poolVars

\* A reset takes away the credits that a debit on its way has counted, so that
\* even one debit at a time may overdraw its account: but never by more than
\* all the debits of the account on their way ask, however often the table is
\* reset, if each asks the most that calls may carry.
OverdraftBoundWithResets ==
    \A u \in Identifiers, most \in Amounts \cup {0} :
      (\A a \in Amounts \cup {0} : a <= most)
        => Balance(u) >= -(DebitsInFlight * most)

\* Every call is answered, though calls wait for one another's connections
\* and hold them while they wait for the user-service.
EveryCallAnswered ==
    \A r \in Requests : pc[r] = "received" ~> pc[r] = "done"

=============================================================================
