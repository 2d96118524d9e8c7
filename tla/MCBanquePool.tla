----------------------------- MODULE MCBanquePool -----------------------------
(***************************************************************************)
(* Instances of BanquePool for TLC.                                        *)
(***************************************************************************)
EXTENDS BanquePool, TLC

MCSeedCredits == [u \in Identifiers |-> 1]
MCSeedDebits == [u \in Identifiers |-> 1]

Symmetry == Permutations(Requests)

=============================================================================
