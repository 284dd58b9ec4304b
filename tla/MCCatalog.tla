----------------------------- MODULE MCCatalog -----------------------------
(***************************************************************************)
(* Instances of Catalog for TLC: two content types, two permissions and    *)
(* two groups, of which some are there at the start.                       *)
(***************************************************************************)
EXTENDS Catalog, TLC

CONSTANTS a, b, r1, r2, r3

\* Type 1 has permission 1, which group 1 has.
MCPermissions == (1 :> [type |-> 1]) @@ (2 :> Undefined)
MCGroups == (1 :> [name |-> a, perms |-> {1}]) @@ (2 :> Undefined)
MCMembers == (1 :> {1}) @@ (2 :> {})

MCPermissionBodies ==
    {[id |-> Undefined, type |-> 1], [id |-> Undefined, type |-> Undefined],
     [id |-> 1, type |-> 2], [id |-> 1, type |-> Null]}

MCGroupBodies ==
    {[id |-> Undefined, name |-> b, perms |-> {1}],
     [id |-> 1, name |-> a, perms |-> Undefined]}

Plain == [group |-> Undefined, type |-> Undefined, q |-> Undefined,
          sort |-> Undefined, cur |-> Undefined, per |-> Undefined]

MCQueries ==
    {Plain,
     [Plain EXCEPT !.group = 1, !.q = 2],
     [Plain EXCEPT !.q = Text],
     [Plain EXCEPT !.cur = 2, !.per = 1, !.sort = "id"],
     [Plain EXCEPT !.cur = 0],
     [Plain EXCEPT !.group = 1, !.type = 1, !.per = 0]}

Symmetry == Permutations({r1, r2, r3})
=============================================================================
