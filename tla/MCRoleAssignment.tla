-------------------------- MODULE MCRoleAssignment --------------------------
(* Small instance of RoleAssignment for TLC. *)
EXTENDS RoleAssignment, TLC

\* Two of the three roles that Bootstrap separates, and their rule: the third one is treated alike.
SeparatedRoles == {"system_admin", "auditor"}
SeparationRules == {SeparatedRoles}

CallSymmetry == Permutations(Calls)

=============================================================================
