--------------------------- MODULE MCBanqueService ---------------------------
(***************************************************************************)
(* Instances of BanqueService for TLC, with its refinement of Account.     *)
(***************************************************************************)
EXTENDS BanqueAccount, TLC

\* The first account of the data script in small: credits 4, debits 1; any
\* other account starts with credits 3 and debits 1.
Main == CHOOSE u \in Identifiers : TRUE
MCSeedCredits == [u \in Identifiers |-> IF u = Main THEN 4 ELSE 3]
MCSeedDebits == [u \in Identifiers |-> 1]

\* A negative amount, a lawful one, one over the maximum credit of 3.
MCAmounts == {-1, 2, 3, 4}

\* Fewer of them, where two debits of an account run at once.
MCFewAmounts == {2, 4}

Symmetry == Permutations(Requests)

=============================================================================
