---------------------------- MODULE MCGridButtons ----------------------------
(***************************************************************************)
(* Instances of GridButtons for TLC.                                       *)
(***************************************************************************)
EXTENDS GridButtons, TLC

\* One message of each of some kinds.
MCActions ==
    {[k \in Kinds |-> IF k \in kinds THEN {"said"} ELSE {}] :
       kinds \in {{}, {"warnings"}, {"errors", "infos"}}}

MCButtons ==
    {<<"selectedOne", "validateProperty", "messageBox">>,
     <<"selectedAtLeastOne", "checkerMessageBox">>,
     <<"checkerWithoutConfirm">>}

RowSymmetry == Permutations(Rows)

=============================================================================
