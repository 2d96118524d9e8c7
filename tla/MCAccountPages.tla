---------------------------- MODULE MCAccountPages ----------------------------
(***************************************************************************)
(* Instances of AccountPages for TLC.                                      *)
(***************************************************************************)
EXTENDS AccountPages

MCOpening == [u \in Users |-> 0]

=============================================================================
