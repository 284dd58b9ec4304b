------------------------------ MODULE MCAccess ------------------------------
(***************************************************************************)
(* Small instances of AccessControl for TLC: user 1 is a superuser that no *)
(* request changes, user 2 is one that requests change and that belongs to *)
(* the only group.                                                         *)
(***************************************************************************)
EXTENDS AccessControl

CONSTANT editor     \* the name of the group of the start

MCRolesOf ==
    [e \in Endpoints |-> IF e = "todo" THEN {} ELSE {"isSuperuser"}]

\* TenantController asks for a role only, the "todo" handler for nothing.
MCPermissionsOf ==
    [e \in Endpoints |->
        IF e \in {"todo", "tenant"} \/ "edit" \notin Permissions THEN {} ELSE {"edit"}]

MCUserBodies == [flags: SUBSET Roles, groups: SUBSET GroupIds]

MCSeedUsers ==
    [u \in Ids |-> IF u = 1 THEN [flags |-> {"isSuperuser"}, groups |-> {}]
                   ELSE [flags |-> {"isSuperuser"}, groups |-> {1}]]

MCSeedGroups ==
    [g \in GroupIds |-> IF g = 1 THEN [name |-> editor, permissions |-> Permissions]
                        ELSE Undefined]
=============================================================================
