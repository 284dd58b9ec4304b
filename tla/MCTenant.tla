------------------------------ MODULE MCTenant ------------------------------
(***************************************************************************)
(* Instances of Tenant for TLC: the two names that the code knows and one  *)
(* or two tenants, whose rows are edited.                                  *)
(***************************************************************************)
EXTENDS Tenant, TLC

CONSTANTS r1, r2, master, default, acme, d1, d2, main, none

\* Every name is a tenant's, "default" as well.
MCRows == [p \in Paths |-> CASE p = master -> main [] p = default -> d2 [] OTHER -> d1]

\* acme moves, loses its database, goes and comes back.
MCEdits == {<<acme, d2>>, <<acme, none>>, <<acme, Undefined>>}
=============================================================================
