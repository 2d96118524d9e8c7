---------------------------- MODULE BanqueAccount ----------------------------
(***************************************************************************)
(* BanqueService seen as Account: the balance is credits minus debits, and *)
(* a request is settled when its row is stored or when it ends without one.*)
(***************************************************************************)
EXTENDS BanqueService

Fate(r) ==
    IF r \in operations THEN "applied"
    ELSE IF pc[r] = "done" THEN "closed"
    ELSE "open"

Abstract == INSTANCE Account WITH
    Limit <- MAX_AMOUNT_AUTORIZED,
    Opening <- [u \in Identifiers |-> SeedCredits[u] - SeedDebits[u]],
    balance <- [u \in Identifiers |-> Balance(u)],
    fate <- [r \in Requests |-> Fate(r)]

\* With the JDBC store, and while the clients run one debit of an account at a
\* time, the service does what Account promises: the several calls of a request
\* amount to one step.
ImplementsAccount == Abstract!Spec

=============================================================================
