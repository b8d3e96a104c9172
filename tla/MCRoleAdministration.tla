------------------------- MODULE MCRoleAdministration -------------------------
(* Small instances of RoleAdministration for TLC.                          *)
EXTENDS RoleAdministration, TLC

CONSTANT editor

\* No role but the base role, the custom one, or the administrator's.
MCWishes == {{}, {editor}, {"super_admin"}}

\* Requests and processes are interchangeable.
Symmetry == Permutations(Requests) \cup Permutations(Processes)
=============================================================================
