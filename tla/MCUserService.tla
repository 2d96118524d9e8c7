---------------------------- MODULE MCUserService ----------------------------
(***************************************************************************)
(* Instances of UserService for TLC.                                       *)
(***************************************************************************)
EXTENDS UserService, TLC

CONSTANTS c1, role1, role2, role9

\* The user of the data script has a role; an update may leave it without.
MCSeedRoles == c1 :> {role1}

\* A user of the data script that has no role.
MCSeedNoRoles == c1 :> {}

MCNoUsers == [c \in {} |-> {}]

\* No role (or no list), known roles, and a code ROLE_TABLE does not have.
MCRoleLists == {{}, {role2}, {role2, role9}}

Symmetry == Permutations(Requests)

=============================================================================
