------------------------------ MODULE Catalog ------------------------------
(***************************************************************************)
(* Content types, permissions and groups: the requests of their three      *)
(* controllers, each a sequence of database round trips that interleaves   *)
(* with the others, as in Users; and the lists of all four controllers.    *)
(* A body names the row it is about, or does not; PUT saves whatever id    *)
(* its path names; deleting a group or a content type is a find, a save()  *)
(* that lets go of its permissions (a SELECT, then a transaction), and a   *)
(* DELETE.                                                                 *)
(*                                                                         *)
(* Names and titles matter where they are unique: a group's name stands    *)
(* for both of its.                                                        *)
(* Definitions marked "Fault" are bugs the code does not have; no action   *)
(* uses them.                                                              *)
(***************************************************************************)
EXTENDS Lists

CONSTANTS
    Requests,     \* the HTTP requests of a behaviour
    TypeIds, PermissionIds, GroupIds,
    Names,        \* the names (and titles) of groups
    Kinds,        \* the kinds of request that clients send
    PathIds,      \* the ids that paths name
    PermissionBodies, GroupBodies,
    Queries,      \* the query strings of lists
    SeedTypes, SeedPermissions, SeedGroups,   \* the tables at the start
    Users,        \* the ids of users
    SeedMembers,  \* the users of each group at the start
    MaxFaults,    \* bound: failed queries in a behaviour
    Text,         \* a search that is not a number
    Null          \* the JSON null, SQL's NULL in content_type_id

Optional(S) == {Undefined} \cup S

Ids == TypeIds \cup PermissionIds \cup GroupIds

\* A permission's row, and a body of one: a content type that is not given is
\* left as it is, null takes it away.
Permission == [type: TypeIds \cup {Null}]

PermissionBody == [id: Optional(PermissionIds), type: TypeIds \cup {Null, Undefined}]

\* A group's row with its group_permissions, and a body of one.  InGroupDto
\* declares no permissions, but nothing strips them from the body.
Group == [name: Names, perms: SUBSET PermissionIds]

GroupBody == [id: Optional(GroupIds), name: Names, perms: Optional(SUBSET PermissionIds)]

AllKinds ==
    {"getPermission", "createPermission", "updatePermission", "deletePermission",
     "getGroup", "createGroup", "updateGroup", "deleteGroup",
     "getType", "createType", "updateType", "deleteType",
     "listPermissions", "listGroups", "listTypes", "listUsers"}

PermissionKinds == {"createPermission", "updatePermission"}
GroupKinds == {"createGroup", "updateGroup", "deleteGroup"}
TypeKinds == {"createType", "updateType", "deleteType"}
DeleteKinds == {"deletePermission", "deleteGroup", "deleteType"}
ListKinds == {"listPermissions", "listGroups", "listTypes", "listUsers"}

Steps == {"idle", "find", "load", "write", "remove", "page", "count", "done"}

\* 200/201/204, 404, 405 and 500.
Answers == {"ok", "notFound", "notAllowed", "error"}

\* No two groups of a table share a name.
DistinctNames(T) ==
    \A g, h \in GroupIds :
        /\ g # h
        /\ T[g] # Undefined
        /\ T[h] # Undefined
        => T[g].name # T[h].name

\* Whatever a row refers to is there.
References(ts, ps, gs) ==
    /\ \A p \in PermissionIds : ps[p] # Undefined => ps[p].type \in ts \cup {Null}
    /\ \A g \in GroupIds : gs[g] # Undefined =>
          \A p \in gs[g].perms : ps[p] # Undefined

\* The rows that are there.
Rows(table) == {id \in DOMAIN table : table[id] # Undefined}

ASSUME CatalogAssumption ==
    /\ Ids \cup Users \subseteq Nat
    /\ MaxFaults \in Nat
    /\ Kinds \subseteq AllKinds
    /\ PathIds \subseteq Ids
    /\ PermissionBodies \subseteq PermissionBody
    /\ GroupBodies \subseteq GroupBody
    /\ \A query \in Queries :
          /\ query.group \in Optional(GroupIds)
          /\ query.type \in Optional(TypeIds)
          /\ query.q \in Optional(Ids \cup {Text})
          /\ query.cur \in Optional(Int)
          /\ query.per \in Optional(Int)
    /\ SeedTypes \subseteq TypeIds
    /\ SeedPermissions \in [PermissionIds -> Optional(Permission)]
    /\ SeedGroups \in [GroupIds -> Optional(Group)]
    /\ SeedMembers \in [GroupIds -> SUBSET Users]
    /\ \A g \in GroupIds : SeedGroups[g] = Undefined => SeedMembers[g] = {}
    /\ DistinctNames(SeedGroups)
    /\ References(SeedTypes, SeedPermissions, SeedGroups)
    /\ Null \notin TypeIds
    /\ Undefined # Null
    /\ Undefined \notin Ids \cup Names \cup Permission \cup Group
    /\ Undefined \notin Answers \cup AllKinds
    /\ \A ps \in SUBSET PermissionIds : Undefined # ps /\ Undefined # [attached |-> ps]

\* Tables are finite.
ASSUME CatalogFinite ==
    /\ IsFiniteSet(Users)
    /\ IsFiniteSet(SeedTypes)
    /\ IsFiniteSet(Rows(SeedPermissions))
    /\ IsFiniteSet(Rows(SeedGroups))

VARIABLES
    types,    \* the ids present in content_types
    perms,    \* perms[p]: the row of permission p, or Undefined
    groups,   \* groups[g]: the row of group g and its permissions, or Undefined
    members,  \* members[g]: the users of group g, in user_groups
    demo,     \* coreConfig.demo, which no step changes
    req,      \* req[r]: the state of request r
    faults,   \* failed queries so far
    late      \* observation: permissions that got the content type which
              \* request r deletes, after its SELECT

tables == <<types, perms, groups, members>>

vars == <<tables, demo, req, faults, late>>

Idle == [kind |-> Undefined, pc |-> "idle",
         target |-> Undefined,   \* options.id, or the id of the item to save
         item |-> Undefined,     \* the entity in memory, or the query of a list
         base |-> Undefined,     \* the row that save() loaded, the page of a list
         answer |-> Undefined]

Init ==
    /\ types = SeedTypes
    /\ perms = SeedPermissions
    /\ groups = SeedGroups
    /\ members = SeedMembers
    /\ demo \in BOOLEAN
    /\ req = [r \in Requests |-> Idle]
    /\ faults = 0
    /\ late = [r \in Requests |-> {}]

At(r, step) == req[r].pc = step

Become(r, state) == req' = [req EXCEPT ![r] = state]

Goto(r, step) == Become(r, [req[r] EXCEPT !.pc = step])

Answer(r, a) ==
    Become(r, [req[r] EXCEPT !.pc = "done", !.answer = a,
                             !.item = Undefined, !.base = Undefined])

-----------------------------------------------------------------------------
(***************************************************************************)
(* The controllers' handlers.                                              *)
(***************************************************************************)

Begin(r, kind, step, target, item) ==
    /\ At(r, "idle")
    /\ kind \in Kinds
    /\ Become(r, [Idle EXCEPT !.kind = kind, !.pc = step, !.target = target,
                              !.item = item])
    /\ UNCHANGED <<tables, demo, faults, late>>

\* DEMO mode refuses PUT and DELETE, but not POST.
BeginUnlessDemo(r, kind, step, target, item) ==
    IF demo
    THEN /\ At(r, "idle")
         /\ kind \in Kinds
         /\ Become(r, [Idle EXCEPT !.kind = kind, !.pc = "done",
                                   !.answer = "notAllowed"])
         /\ UNCHANGED <<tables, demo, faults, late>>
    ELSE Begin(r, kind, step, target, item)

\* save() of an entity without an id loads nothing.
FirstStep(id) == IF id = Undefined THEN "write" ELSE "load"

CreatePermission(r) ==
    \E body \in PermissionBodies :
        Begin(r, "createPermission", FirstStep(body.id), body.id, [type |-> body.type])

UpdatePermission(r) ==
    \E body \in PermissionBodies, id \in PathIds \cap PermissionIds :
        BeginUnlessDemo(r, "updatePermission", "load", id, [type |-> body.type])

\* Nothing is looked up first.
DeletePermission(r) ==
    \E id \in PathIds \cap PermissionIds :
        BeginUnlessDemo(r, "deletePermission", "remove", id, Undefined)

CreateGroup(r) ==
    \E body \in GroupBodies :
        Begin(r, "createGroup", FirstStep(body.id), body.id,
              [name |-> body.name, perms |-> body.perms])

UpdateGroup(r) ==
    \E body \in GroupBodies, id \in PathIds \cap GroupIds :
        BeginUnlessDemo(r, "updateGroup", "load", id,
                        [name |-> body.name, perms |-> body.perms])

DeleteGroup(r) ==
    \E id \in PathIds \cap GroupIds :
        BeginUnlessDemo(r, "deleteGroup", "find", id, Undefined)

CreateType(r) ==
    \E id \in Optional(PathIds \cap TypeIds) :
        Begin(r, "createType", FirstStep(id), id, Undefined)

UpdateType(r) ==
    \E id \in PathIds \cap TypeIds :
        BeginUnlessDemo(r, "updateType", "load", id, Undefined)

DeleteType(r) ==
    \E id \in PathIds \cap TypeIds :
        BeginUnlessDemo(r, "deleteType", "find", id, Undefined)

GetPermission(r) ==
    \E id \in PathIds \cap PermissionIds :
        Begin(r, "getPermission", "find", id, Undefined)

GetGroup(r) ==
    \E id \in PathIds \cap GroupIds : Begin(r, "getGroup", "find", id, Undefined)

GetType(r) ==
    \E id \in PathIds \cap TypeIds : Begin(r, "getType", "find", id, Undefined)

ListPermissions(r) ==
    \E query \in Queries : Begin(r, "listPermissions", "page", Undefined, query)

\* The other lists have fewer filters.
ListGroups(r) ==
    \E query \in Queries :
        /\ query.group = Undefined /\ query.type = Undefined
        /\ Begin(r, "listGroups", "page", Undefined, query)

ListTypes(r) ==
    \E query \in Queries :
        /\ query.group = Undefined /\ query.type = Undefined
        /\ Begin(r, "listTypes", "page", Undefined, query)

ListUsers(r) ==
    \E query \in Queries :
        /\ query.type = Undefined
        /\ Begin(r, "listUsers", "page", Undefined, query)

-----------------------------------------------------------------------------
(***************************************************************************)
(* Reads.                                                                  *)
(***************************************************************************)

\* The permissions that refer to a content type.
Attached(t) == {p \in PermissionIds : perms[p] # Undefined /\ perms[p].type = t}

Present(kind, id) ==
    IF kind \in {"getPermission"} THEN perms[id] # Undefined
    ELSE IF kind \in {"getGroup", "deleteGroup"} THEN groups[id] # Undefined
    ELSE id \in types

\* Fault: delete() keeps the permissions of the group it found.
EmptiedNot(group) == group

\* delete() sets permissions to none.
Emptied(group) == [group EXCEPT !.perms = {}]

\* findOneOrFail() of GET /:id, and of the two deletes.  Those go on with the
\* entity they found, less its permissions.
Find(r) ==
    /\ At(r, "find")
    /\ LET kind == req[r].kind
           id == req[r].target
       IN  IF ~Present(kind, id) THEN Answer(r, "notFound")
           ELSE IF kind = "deleteGroup"
           THEN Become(r, [req[r] EXCEPT !.pc = "load", !.item = Emptied(groups[id])])
           ELSE IF kind = "deleteType" THEN Goto(r, "load")
           ELSE Answer(r, "ok")
    /\ UNCHANGED <<tables, demo, faults, late>>

\* What save()'s SELECT returns: the row, and of a content type that is about
\* to be deleted the permissions that refer to it.
Stored(kind, id) ==
    IF kind \in PermissionKinds THEN perms[id]
    ELSE IF kind \in GroupKinds THEN groups[id]
    ELSE IF id \in types THEN [attached |-> Attached(id)]
    ELSE Undefined

Load(r) ==
    /\ At(r, "load")
    /\ Become(r, [req[r] EXCEPT !.pc = "write",
                                !.base = Stored(req[r].kind, req[r].target)])
    /\ UNCHANGED <<tables, demo, faults, late>>

-----------------------------------------------------------------------------
(***************************************************************************)
(* Lists.                                                                  *)
(***************************************************************************)

\* A filter that was not given admits nothing of its own: it is Undefined.
If(parameter, rows) == IF parameter = Undefined THEN Undefined ELSE rows

\* The three where() calls of PermissionsService.findAll().
PermissionsFilters(query) ==
    << If(query.group,
          IF query.group = Undefined \/ groups[query.group] = Undefined THEN {}
          ELSE groups[query.group].perms),
       If(query.q, {query.q}),
       If(query.type, Attached(query.type)) >>

\* The two of UsersService.findAll().
UsersFilters(query) ==
    << If(query.group, IF query.group = Undefined THEN {} ELSE members[query.group]),
       If(query.q, {query.q}) >>

GroupsFilters(query) == << If(query.q, {query.q}) >>

TypesFilters(query) == << If(query.q, {query.q}) >>

Matching(kind, query) ==
    CASE kind = "listPermissions" -> Where(Rows(perms), PermissionsFilters(query))
      [] kind = "listGroups" -> Where(Rows(groups), GroupsFilters(query))
      [] kind = "listTypes" -> Where(types, TypesFilters(query))
      [] kind = "listUsers" -> Where(Users, UsersFilters(query))

\* A search for a text compares the id column with NaN; one of users names a
\* column that does not exist.
SearchFails(kind, query) ==
    \/ query.q = Text
    \/ kind = "listUsers" /\ query.q # Undefined

CurPage(query) == Parsed(query.cur, 1)
PerPage(query) == Parsed(query.per, 10)

\* The first query of getManyAndCount().
Page(r) ==
    /\ At(r, "page")
    /\ LET kind == req[r].kind
           query == req[r].item
       IN  IF SearchFails(kind, query) \/ PageFails(CurPage(query), PerPage(query))
           THEN Answer(r, "error")
           ELSE Become(r, [req[r] EXCEPT
                    !.pc = "count",
                    !.base = [rows |-> PageOf(Matching(kind, query), SortBy(query.sort),
                                              CurPage(query), PerPage(query))]])
    /\ UNCHANGED <<tables, demo, faults, late>>

\* The second one; the answer keeps the query, the page and meta.
Count(r) ==
    /\ At(r, "count")
    /\ LET total == Cardinality(Matching(req[r].kind, req[r].item)) IN
       Become(r, [req[r] EXCEPT
                    !.pc = "done", !.answer = "ok",
                    !.base = [rows |-> @.rows, total |-> total,
                              pages |-> TotalPages(total, PerPage(req[r].item))]])
    /\ UNCHANGED <<tables, demo, faults, late>>

-----------------------------------------------------------------------------
(***************************************************************************)
(* Repository.save(): the transaction.                                     *)
(***************************************************************************)

\* A column is written when it is set and differs from the loaded row.
Column(set, loaded, current) ==
    IF set \in {Undefined, loaded} THEN current ELSE set

\* Fault: columns that are not set have no default.
NoDefault(set, value) == set

Default(set, value) == IF set = Undefined THEN value ELSE set

Added(item, base) ==
    IF item.perms = Undefined THEN {} ELSE item.perms \ base.perms

Dropped(item, base) ==
    IF item.perms = Undefined THEN {} ELSE base.perms \ item.perms

\* The transaction commits: a delete goes on to its DELETE.
Committed(r, id) ==
    IF req[r].kind \in DeleteKinds
    THEN Become(r, [req[r] EXCEPT !.pc = "remove", !.item = Undefined,
                                  !.base = Undefined])
    ELSE Become(r, [req[r] EXCEPT !.pc = "done", !.answer = "ok", !.target = id,
                                  !.item = Undefined, !.base = Undefined])

\* The id that an INSERT gets: the item's, or the next of the table's sequence,
\* which is any id: it may be one that a body named before.
InsertIds(r, all) == IF req[r].target = Undefined THEN all ELSE {req[r].target}

NoSuchType(type) == type \in TypeIds \ types

\* Permission p gets a content type: a DELETE of that type which has loaded
\* its permissions does not know.
Attaching(p, type) ==
    late' = [s \in Requests |->
               IF /\ req[s].kind = "deleteType"
                  /\ req[s].target = type
                  /\ req[s].pc \in {"write", "remove"}
               THEN late[s] \cup {p}
               ELSE late[s]]

InsertPermission(r) ==
    /\ At(r, "write")
    /\ req[r].kind \in PermissionKinds
    /\ req[r].base = Undefined
    /\ \E id \in InsertIds(r, PermissionIds) :
         LET row == [type |-> Default(req[r].item.type, Null)] IN
         IF perms[id] # Undefined \/ NoSuchType(row.type)
         THEN Answer(r, "error") /\ UNCHANGED <<perms, late>>
         ELSE /\ perms' = [perms EXCEPT ![id] = row]
              /\ Attaching(id, row.type)
              /\ Committed(r, id)
    /\ UNCHANGED <<types, groups, demo, members, faults>>

\* An UPDATE of a row that is gone changes nothing.
OverwritePermission(r) ==
    /\ At(r, "write")
    /\ req[r].kind \in PermissionKinds
    /\ req[r].base # Undefined
    /\ LET id == req[r].target
           set == req[r].item.type
       IN  IF perms[id] = Undefined
           THEN Committed(r, id) /\ UNCHANGED <<perms, late>>
           ELSE LET type == Column(set, req[r].base.type, perms[id].type) IN
                IF type # perms[id].type /\ NoSuchType(type)
                THEN Answer(r, "error") /\ UNCHANGED <<perms, late>>
                ELSE /\ perms' = [perms EXCEPT ![id].type = type]
                     /\ Attaching(id, type)
                     /\ Committed(r, id)
    /\ UNCHANGED <<types, groups, demo, members, faults>>

NameTaken(id, name) ==
    \E g \in GroupIds \ {id} : groups[g] # Undefined /\ groups[g].name = name

NoSuchPermission(ps) == \E p \in ps : perms[p] = Undefined

InsertGroup(r) ==
    /\ At(r, "write")
    /\ req[r].kind \in GroupKinds
    /\ req[r].base = Undefined
    /\ \E id \in InsertIds(r, GroupIds) :
         LET row == [name |-> req[r].item.name,
                     perms |-> Default(req[r].item.perms, {})] IN
         IF \/ groups[id] # Undefined
            \/ NameTaken(id, row.name)
            \/ NoSuchPermission(row.perms)
         THEN Answer(r, "error") /\ UNCHANGED groups
         ELSE /\ groups' = [groups EXCEPT ![id] = row]
              /\ Committed(r, id)
    /\ UNCHANGED <<types, perms, demo, members, faults, late>>

\* Rows of group_permissions that are there already cannot be added, rows that
\* are gone need no removing.
OverwriteGroup(r) ==
    /\ At(r, "write")
    /\ req[r].kind \in GroupKinds
    /\ req[r].base # Undefined
    /\ LET id == req[r].target
           item == req[r].item
           added == Added(item, req[r].base)
       IN  IF groups[id] = Undefined
           THEN /\ IF added = {} THEN Committed(r, id) ELSE Answer(r, "error")
                /\ UNCHANGED groups
           ELSE LET name == Column(item.name, req[r].base.name, groups[id].name) IN
                IF \/ NameTaken(id, name)
                   \/ NoSuchPermission(added)
                   \/ added \cap groups[id].perms # {}
                THEN Answer(r, "error") /\ UNCHANGED groups
                ELSE /\ groups' = [groups EXCEPT ![id] =
                           [name |-> name,
                            perms |-> (@.perms \cup added) \ Dropped(item, req[r].base)]]
                     /\ Committed(r, id)
    /\ UNCHANGED <<types, perms, demo, members, faults, late>>

\* Fault: delete() keeps the permissions of the content type it found.
DetachedKept(r) == {}

\* The permissions that a content type lets go of: delete() sets permissions
\* to none, so that save() clears the foreign key of each that it loaded.
Detached(r) == IF req[r].kind = "deleteType" THEN req[r].base.attached ELSE {}

InsertType(r) ==
    /\ At(r, "write")
    /\ req[r].kind \in TypeKinds
    /\ req[r].base = Undefined
    /\ \E id \in InsertIds(r, TypeIds) :
         IF id \in types
         THEN Answer(r, "error") /\ UNCHANGED types
         ELSE types' = types \cup {id} /\ Committed(r, id)
    /\ UNCHANGED <<perms, groups, demo, members, faults, late>>

OverwriteType(r) ==
    /\ At(r, "write")
    /\ req[r].kind \in TypeKinds
    /\ req[r].base # Undefined
    /\ perms' = [p \in PermissionIds |->
                   IF perms[p] # Undefined /\ p \in Detached(r)
                   THEN [perms[p] EXCEPT !.type = Null] ELSE perms[p]]
    /\ Committed(r, req[r].target)
    /\ UNCHANGED <<types, groups, demo, members, faults, late>>

-----------------------------------------------------------------------------
(***************************************************************************)
(* Repository.delete(), failures, the specification.                       *)
(***************************************************************************)

\* The rows of group_permissions go with their permission.
WithoutPermission(id) ==
    [g \in GroupIds |->
        IF groups[g] = Undefined THEN Undefined
        ELSE [groups[g] EXCEPT !.perms = @ \ {id}]]

RemovePermission(r) ==
    /\ At(r, "remove")
    /\ req[r].kind = "deletePermission"
    /\ perms' = [perms EXCEPT ![req[r].target] = Undefined]
    /\ groups' = WithoutPermission(req[r].target)
    /\ Answer(r, "ok")
    /\ UNCHANGED <<types, demo, members, faults, late>>

\* The rows of group_permissions and user_groups go with their group.
RemoveGroup(r) ==
    /\ At(r, "remove")
    /\ req[r].kind = "deleteGroup"
    /\ groups' = [groups EXCEPT ![req[r].target] = Undefined]
    /\ members' = [members EXCEPT ![req[r].target] = {}]
    /\ Answer(r, "ok")
    /\ UNCHANGED <<types, perms, demo, faults, late>>

\* Fault: permissions has no foreign key to content_types.
InUseIgnored(t) == FALSE

\* ON DELETE NO ACTION: a content type that is referred to cannot go.
InUse(t) == Attached(t) # {}

RemoveType(r) ==
    /\ At(r, "remove")
    /\ req[r].kind = "deleteType"
    /\ IF InUse(req[r].target)
       THEN Answer(r, "error") /\ UNCHANGED types
       ELSE types' = types \ {req[r].target} /\ Answer(r, "ok")
    /\ UNCHANGED <<perms, groups, demo, members, faults, late>>

\* A query fails, or the request is cut off before it: its transaction is
\* rolled back, what it committed before stays.
QueryFails(r) ==
    /\ faults < MaxFaults
    /\ req[r].pc \notin {"idle", "done"}
    /\ faults' = faults + 1
    /\ Answer(r, "error")
    /\ UNCHANGED <<tables, demo, late>>

Arrive(r) ==
    \/ CreatePermission(r) \/ UpdatePermission(r) \/ DeletePermission(r)
    \/ CreateGroup(r) \/ UpdateGroup(r) \/ DeleteGroup(r)
    \/ CreateType(r) \/ UpdateType(r) \/ DeleteType(r)
    \/ GetPermission(r) \/ GetGroup(r) \/ GetType(r)
    \/ ListPermissions(r) \/ ListGroups(r) \/ ListTypes(r) \/ ListUsers(r)

Step(r) ==
    \/ Arrive(r)
    \/ Find(r) \/ Load(r) \/ Page(r) \/ Count(r)
    \/ InsertPermission(r) \/ OverwritePermission(r) \/ RemovePermission(r)
    \/ InsertGroup(r) \/ OverwriteGroup(r) \/ RemoveGroup(r)
    \/ InsertType(r) \/ OverwriteType(r) \/ RemoveType(r)
    \/ QueryFails(r)

\* Every request was answered.
Quiescent == (\A r \in Requests : At(r, "done")) /\ UNCHANGED vars

Next == (\E r \in Requests : Step(r)) \/ Quiescent

Spec == Init /\ [][Next]_vars
-----------------------------------------------------------------------------
(***************************************************************************)
(* Properties.                                                             *)
(***************************************************************************)

\* The tables, the observations and the steps are what they are declared to be.
TypeOK ==
    /\ types \in SUBSET TypeIds
    /\ perms \in [PermissionIds -> Optional(Permission)]
    /\ groups \in [GroupIds -> Optional(Group)]
    /\ members \in [GroupIds -> SUBSET Users]
    /\ demo \in BOOLEAN
    /\ faults \in 0..MaxFaults
    /\ late \in [Requests -> SUBSET PermissionIds]
    /\ \A r \in Requests :
          /\ req[r].kind \in Optional(AllKinds)
          /\ req[r].pc \in Steps
          /\ req[r].target \in Optional(Ids)
          /\ req[r].answer \in Optional(Answers)

\* The permissions that a group gives to its users.
Held(g) == IF groups[g] = Undefined THEN {} ELSE groups[g].perms

\* Whatever saves and deletes interleave, group names are unique and nothing
\* refers to what is not there.
Integrity == DistinctNames(groups) /\ References(types, perms, groups)

\* A DELETE only takes away.  Those of groups and content types save() an entity
\* that they found earlier, before they delete it: whatever others changed or
\* deleted meanwhile (a group may be inserted anew), no step of a DELETE gives
\* a permission or a user to any group, makes a permission or a content type,
\* or gives a content type to a permission (groups.service.ts, delete()).
DeletesGiveNothing ==
    [][\A r \in Requests :
          req[r].kind \in DeleteKinds /\ req'[r] # req[r]
          => /\ \A g \in GroupIds : Held(g)' \subseteq Held(g)
             /\ \A g \in GroupIds : members'[g] \subseteq members[g]
             /\ \A p \in PermissionIds :
                   perms'[p] # Undefined
                   => /\ perms[p] # Undefined
                      /\ perms'[p].type \in {perms[p].type, Null}]_vars

\* DELETE of a content type, whose queries all work, fails only if somebody
\* gave that type to a permission after the DELETE's save() had looked
\* (content-types.service.ts: permissions = [], save, delete).
DeleteFailsOnlyIfLate ==
    [][\A r \in Requests :
          /\ req[r].kind = "deleteType"
          /\ At(r, "remove")
          /\ req'[r].answer = "error"
          /\ UNCHANGED faults
          => \E p \in late[r] : perms[p] # Undefined /\ perms[p].type = req[r].target]_vars

\* The pages 1..totalPages of a list divide what it matches, however it is
\* filtered and ordered: each row is on one page, no page is empty unless there
\* is nothing to show, none comes after the last.
PagesDivide ==
    \A rows \in {Matching(kind, query) : kind \in ListKinds, query \in Queries},
       sort \in {"id", "-id"}, per \in 1..3 :
        Divided(rows, sort, per)

-----------------------------------------------------------------------------
(***************************************************************************)
(* What the documentation says and the code does not keep.                 *)
(***************************************************************************)

\* "Group id for filter data by group": a list that is asked for one group's
\* permissions shows no others (permissions.controller.ts).
GroupFilterFilters ==
    [][\A r \in Requests :
          /\ At(r, "page")
          /\ req[r].kind = "listPermissions"
          /\ req[r].item.group # Undefined
          /\ ~At(r, "page")'
          /\ req'[r].base # Undefined
          => /\ groups[req[r].item.group] # Undefined
             /\ req'[r].base.rows \subseteq groups[req[r].item.group].perms]_vars
=============================================================================
