------------------------ MODULE MCBqConnectionManager ------------------------
(* Callers, roles and the retry bound for model checking the connection   *)
(* manager.                                                               *)
EXTENDS BqConnectionManager, TLC

CONSTANTS p1, p2, p3, r1, r2, rx

MCProcs2 == {p1, p2}
MCProcs3 == {p1, p2, p3}
MCRoles == {r1, r2}
\* rx: a role name IAM rejects, besides the two it knows.
MCRolesUnknown == {r1, r2, rx}
MCUnknownRoles == {rx}
\* Only p3 may pass the unknown role, and p3 passes r1 rather than r2:
\* the two known roles are interchangeable (the owners hold both), so a
\* behaviour where p3 passes r2 is one where it passes r1 with the roles
\* renamed.  role never changes, so this only selects initial states.
RoleChoices ==
  /\ \A p \in {p1, p2} : role[p] \notin MCUnknownRoles
  /\ role[p3] # r2

\* Callers are interchangeable: each picks its role in Init.
MCSymmetry2 == Permutations(MCProcs2)
================================================================================
