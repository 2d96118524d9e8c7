------------------------------- MODULE Account -------------------------------
(***************************************************************************)
(* What the banque-service promises of its accounts, whatever its threads  *)
(* do in between: every call settles once, in one step, and a call that    *)
(* changes a balance is a credit within the limit or a debit the balance   *)
(* covers at that very step.                                               *)
(***************************************************************************)
EXTENDS Integers

CONSTANTS
    Requests,     \* the calls
    Identifiers,  \* the accounts
    Limit,        \* the largest credit
    Opening       \* the balance every account starts with

VARIABLES
    balance,      \* the balance of every account
    fate          \* "open", then "applied" (the account changed) or "closed"

Settle(r, f) ==
    /\ fate[r] = "open"
    /\ fate' = [fate EXCEPT ![r] = f]

Init ==
    /\ balance = Opening
    /\ fate = [r \in Requests |-> "open"]

Credit(r, u) ==
    /\ Settle(r, "applied")
    /\ \E a \in 1..Limit : balance' = [balance EXCEPT ![u] = @ + a]

Debit(r, u) ==
    /\ Settle(r, "applied")
    /\ \E a \in 1..balance[u] : balance' = [balance EXCEPT ![u] = @ - a]

\* A refused call, a failed one, or one that only reads.
Close(r) ==
    /\ Settle(r, "closed")
    /\ UNCHANGED balance

Next ==
    \E r \in Requests :
      \/ Close(r)
      \/ \E u \in Identifiers : Credit(r, u) \/ Debit(r, u)

Spec == Init /\ [][Next]_<<balance, fate>>

=============================================================================
