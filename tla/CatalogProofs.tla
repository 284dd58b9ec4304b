--------------------------- MODULE CatalogProofs ---------------------------
(***************************************************************************)
(* Theorems about Catalog for every number of requests, content types,     *)
(* permissions and groups, and whatever fails: nothing refers to what is   *)
(* not there (Integrity), a DELETE gives nothing to anybody                *)
(* (DeletesGiveNothing), that of a content type fails only when it lost a  *)
(* race (DeleteFailsOnlyIfLate), and the pages of a list divide it         *)
(* (PagesDivide).                                                          *)
(*                                                                         *)
(* Shape says what a request has in memory at each of its steps, Lag which *)
(* permissions a DELETE of a content type cannot know of.                  *)
(***************************************************************************)
EXTENDS Catalog, ListsProofs, TLAPS

PermissionItem == [type: TypeIds \cup {Null, Undefined}]

GroupItem == [name: Names, perms: Optional(SUBSET PermissionIds)]

Attachment == [attached: SUBSET PermissionIds]

\* A request's fields; item and base hold whatever they hold.
Fields(q) == q \in [kind: Optional(AllKinds), pc: Steps, target: Optional(Ids),
                    item: {q.item}, base: {q.base}, answer: Optional(Answers)]

\* The target of a request that is on its way.
Targets(q) ==
    /\ q.kind \in PermissionKinds \cup {"getPermission", "deletePermission"}
       => q.target \in Optional(PermissionIds)
    /\ q.kind \in GroupKinds \cup {"getGroup"} => q.target \in Optional(GroupIds)
    /\ q.kind \in TypeKinds \cup {"getType"} => q.target \in Optional(TypeIds)
    /\ \/ q.kind \in DeleteKinds \cup {"getPermission", "getGroup", "getType"}
       \/ q.pc = "load"
       \/ q.pc = "write" /\ q.base # Undefined
       => q.target # Undefined

\* What a request is about to save, and what save() has loaded.
Carries(q) ==
    /\ q.kind \in PermissionKinds \cup GroupKinds \cup TypeKinds
    /\ q.kind \in PermissionKinds =>
         /\ q.item \in PermissionItem
         /\ q.pc = "write" => q.base \in Optional(Permission)
    /\ q.kind \in GroupKinds =>
         /\ q.item \in GroupItem
         /\ q.kind = "deleteGroup" => q.item.perms = {}
         /\ q.pc = "write" => q.base \in Optional(Group)
    /\ q.kind \in TypeKinds /\ q.pc = "write" => q.base \in Optional(Attachment)

\* A request as far as its own steps determine it.
Proper(q) ==
    /\ Fields(q)
    /\ q.pc # "done" => q.answer = Undefined
    /\ q.pc # "idle" => q.kind # Undefined
    /\ q.pc \notin {"idle", "done"} => Targets(q)
    /\ q.pc = "find" =>
         q.kind \in {"getPermission", "getGroup", "getType", "deleteGroup", "deleteType"}
    /\ q.pc \in {"page", "count"} => q.kind \in ListKinds
    /\ q.pc = "remove" => q.kind \in DeleteKinds
    /\ q.pc \in {"load", "write"} => Carries(q)

Shape ==
    /\ req = [r \in Requests |-> req[r]]
    /\ \A r \in Requests : Proper(req[r])

TypeInv == TypeOK /\ Shape

USE DEF PermissionKinds, GroupKinds, TypeKinds, DeleteKinds, ListKinds

-----------------------------------------------------------------------------
(***************************************************************************)
(* Types.                                                                  *)
(***************************************************************************)

\* Every request is proper again when the one that moves stays so.
LEMMA BecomeProper ==
    ASSUME Shape, NEW r \in Requests, NEW q, Become(r, q), Proper(q)
    PROVE  /\ Shape'
           /\ \A s \in Requests : /\ req'[s].kind \in Optional(AllKinds)
                                  /\ req'[s].pc \in Steps
                                  /\ req'[s].target \in Optional(Ids)
                                  /\ req'[s].answer \in Optional(Answers)
           /\ req'[r] = q
           /\ \A s \in Requests \ {r} : req'[s] = req[s]
<1>1. req' = [req EXCEPT ![r] = q] /\ req = [s \in Requests |-> req[s]]
  BY DEF Become, Shape
<1>2. /\ req' = [s \in Requests |-> req'[s]]
      /\ \A s \in Requests : req'[s] = IF s = r THEN q ELSE req[s]
  BY <1>1
<1>3. \A s \in Requests : Proper(req'[s])
  BY <1>2 DEF Shape
<1>4. QED
  BY <1>2, <1>3 DEF Shape, Proper, Fields

\* A request that is answered carries nothing more.
LEMMA AnswerProper ==
    ASSUME NEW q, Proper(q), q.pc # "idle", NEW a \in Answers
    PROVE  Proper([q EXCEPT !.pc = "done", !.answer = a, !.item = Undefined,
                            !.base = Undefined])
BY DEF Proper, Fields, Steps, Optional

LEMMA AnswerMoves ==
    ASSUME Shape, NEW r \in Requests, NEW a \in Answers, ~At(r, "idle"), Answer(r, a)
    PROVE  /\ Shape'
           /\ \A s \in Requests : /\ req'[s].kind \in Optional(AllKinds)
                                  /\ req'[s].pc \in Steps
                                  /\ req'[s].target \in Optional(Ids)
                                  /\ req'[s].answer \in Optional(Answers)
           /\ req'[r].pc = "done" /\ req'[r].answer = a
           /\ \A s \in Requests \ {r} : req'[s] = req[s]
<1> DEFINE q == [req[r] EXCEPT !.pc = "done", !.answer = a, !.item = Undefined,
                               !.base = Undefined]
<1>1. Proper(req[r]) /\ req[r].pc # "idle"
  BY DEF Shape, At
<1>2. Proper(q)
  BY <1>1, AnswerProper
<1>3. Become(r, q)
  BY DEF Answer
<1>4. q.pc = "done" /\ q.answer = a
  BY <1>1 DEF Proper, Fields
<1>5. QED
  BY <1>2, <1>3, <1>4, BecomeProper

LEMMA InitTypeInv == Init => TypeInv
<1> SUFFICES ASSUME Init PROVE TypeInv
  OBVIOUS
<1>1. Proper(Idle)
  BY DEF Proper, Fields, Idle, Steps, Optional
<1>2. Shape
  BY <1>1 DEF Shape, Init
<1>3. \A r \in Requests : Idle.kind \in Optional(AllKinds) /\ Idle.pc \in Steps
        /\ Idle.target \in Optional(Ids) /\ Idle.answer \in Optional(Answers)
  BY DEF Idle, Steps, Optional
<1>4. TypeOK
  BY <1>3, CatalogAssumption DEF TypeOK, Init
<1>5. QED
  BY <1>2, <1>4 DEF TypeInv

\* The tables keep their types.
Typed ==
    /\ types \in SUBSET TypeIds
    /\ perms \in [PermissionIds -> Optional(Permission)]
    /\ groups \in [GroupIds -> Optional(Group)]
    /\ members \in [GroupIds -> SUBSET Users]
    /\ demo \in BOOLEAN
    /\ faults \in 0..MaxFaults
    /\ late \in [Requests -> SUBSET PermissionIds]

LEMMA BecomeTyped ==
    ASSUME TypeInv, NEW r \in Requests, NEW q, Become(r, q), Proper(q), Typed'
    PROVE  TypeInv'
BY BecomeProper DEF TypeInv, TypeOK, Typed

LEMMA AnswerTyped ==
    ASSUME TypeInv, NEW r \in Requests, NEW a \in Answers, ~At(r, "idle"),
           Answer(r, a), Typed'
    PROVE  TypeInv'
BY AnswerMoves DEF TypeInv, TypeOK, Typed

Unmoved == UNCHANGED <<tables, demo, faults, late>>

LEMMA UnmovedTyped == ASSUME TypeInv, Unmoved PROVE Typed'
BY DEF TypeInv, TypeOK, Typed, Unmoved, tables

-----------------------------------------------------------------------------
(***************************************************************************)
(* Types: the handlers and the reads.                                      *)
(***************************************************************************)

\* A request that has just begun.
Fresh(q, kind, step, target, item) ==
    /\ Fields(q)
    /\ q.kind = kind /\ q.pc = step /\ q.target = target /\ q.item = item
    /\ q.base = Undefined /\ q.answer = Undefined

LEMMA BeginTyped ==
    ASSUME TypeInv, NEW r \in Requests, NEW kind \in AllKinds, NEW step \in Steps,
           NEW target \in Optional(Ids), NEW item,
           \A q : Fresh(q, kind, step, target, item) => Proper(q),
           Begin(r, kind, step, target, item)
    PROVE  TypeInv'
<1> DEFINE q == [Idle EXCEPT !.kind = kind, !.pc = step, !.target = target,
                             !.item = item]
<1>1. Idle \in [kind: Optional(AllKinds), pc: Steps, target: Optional(Ids),
                item: Optional({item}), base: {Undefined}, answer: {Undefined}]
  BY DEF Idle, Optional, Steps
<1>2. /\ q \in [kind: Optional(AllKinds), pc: Steps, target: Optional(Ids),
                item: Optional({item}), base: {Undefined}, answer: {Undefined}]
      /\ q.kind = kind /\ q.pc = step /\ q.target = target /\ q.item = item
  BY <1>1 DEF Optional
<1>3. Become(r, q) /\ Unmoved
  BY DEF Begin, Unmoved
<1> HIDE DEF q
<1>4. Fresh(q, kind, step, target, item)
  BY <1>2 DEF Fresh, Fields, Optional
<1>5. QED
  BY <1>3, <1>4, BecomeTyped, UnmovedTyped

LEMMA BeginUnlessDemoTyped ==
    ASSUME TypeInv, NEW r \in Requests, NEW kind \in AllKinds, NEW step \in Steps,
           NEW target \in Optional(Ids), NEW item,
           \A q : Fresh(q, kind, step, target, item) => Proper(q),
           BeginUnlessDemo(r, kind, step, target, item)
    PROVE  TypeInv'
<1>1. CASE demo
  <2>1. /\ Become(r, [Idle EXCEPT !.kind = kind, !.pc = "done",
                                  !.answer = "notAllowed"])
        /\ Unmoved
    BY <1>1 DEF BeginUnlessDemo, Unmoved
  <2>2. Proper([Idle EXCEPT !.kind = kind, !.pc = "done", !.answer = "notAllowed"])
    BY CatalogAssumption DEF Proper, Fields, Idle, Steps, Optional, Answers
  <2>3. QED
    BY <2>1, <2>2, BecomeTyped, UnmovedTyped
<1>2. CASE ~demo
  BY <1>2, BeginTyped DEF BeginUnlessDemo
<1>3. QED
  BY <1>1, <1>2

LEMMA SubsetsOfIds ==
    /\ TypeIds \subseteq Ids /\ PermissionIds \subseteq Ids /\ GroupIds \subseteq Ids
    /\ Undefined \notin Ids \cup AllKinds
BY CatalogAssumption DEF Ids

LEMMA PermissionArrivalTyped ==
    ASSUME TypeInv, NEW r \in Requests,
           CreatePermission(r) \/ UpdatePermission(r) \/ DeletePermission(r)
           \/ GetPermission(r)
    PROVE  TypeInv'
<1>1. CASE CreatePermission(r)
  <2>1. PICK body \in PermissionBodies :
           Begin(r, "createPermission", FirstStep(body.id), body.id, [type |-> body.type])
    BY <1>1 DEF CreatePermission
  <2>2. body \in PermissionBody
    BY CatalogAssumption
  <2>3. ASSUME NEW q, Fresh(q, "createPermission", FirstStep(body.id), body.id,
                  [type |-> body.type])
        PROVE  Proper(q)
    BY <2>2, <2>3, SubsetsOfIds DEF Fresh, Proper, Fields, Targets, Carries, Steps, Optional,
       AllKinds, FirstStep, PermissionBody, PermissionItem, Permission
  <2>4. QED
    BY <2>1, <2>2, <2>3, SubsetsOfIds, BeginTyped
       DEF AllKinds, Steps, Optional, FirstStep, PermissionBody
<1>2. CASE UpdatePermission(r)
  <2>1. PICK body \in PermissionBodies, id \in PathIds \cap PermissionIds :
           BeginUnlessDemo(r, "updatePermission", "load", id, [type |-> body.type])
    BY <1>2 DEF UpdatePermission
  <2>2. body \in PermissionBody
    BY CatalogAssumption
  <2>3. ASSUME NEW q, Fresh(q, "updatePermission", "load", id, [type |-> body.type])
        PROVE  Proper(q)
    BY <2>2, <2>3, SubsetsOfIds DEF Fresh, Proper, Fields, Targets, Carries, Steps, Optional,
       AllKinds, PermissionBody, PermissionItem
  <2>4. QED
    BY <2>1, <2>3, SubsetsOfIds, BeginUnlessDemoTyped
       DEF AllKinds, Steps, Optional
<1>3. CASE DeletePermission(r)
  <2>1. PICK id \in PathIds \cap PermissionIds :
           BeginUnlessDemo(r, "deletePermission", "remove", id, Undefined)
    BY <1>3 DEF DeletePermission
  <2>2. ASSUME NEW q, Fresh(q, "deletePermission", "remove", id, Undefined)
        PROVE  Proper(q)
    BY <2>2, SubsetsOfIds DEF Fresh, Proper, Fields, Targets, Steps, Optional, AllKinds
  <2>3. QED
    BY <2>1, <2>2, SubsetsOfIds, BeginUnlessDemoTyped
       DEF AllKinds, Steps, Optional
<1>4. CASE GetPermission(r)
  <2>1. PICK id \in PathIds \cap PermissionIds :
           Begin(r, "getPermission", "find", id, Undefined)
    BY <1>4 DEF GetPermission
  <2>2. ASSUME NEW q, Fresh(q, "getPermission", "find", id, Undefined)
        PROVE  Proper(q)
    BY <2>2, SubsetsOfIds DEF Fresh, Proper, Fields, Targets, Steps, Optional, AllKinds
  <2>3. QED
    BY <2>1, <2>2, SubsetsOfIds, BeginTyped DEF AllKinds, Steps, Optional
<1>5. QED
  BY <1>1, <1>2, <1>3, <1>4

LEMMA GroupArrivalTyped ==
    ASSUME TypeInv, NEW r \in Requests,
           CreateGroup(r) \/ UpdateGroup(r) \/ DeleteGroup(r) \/ GetGroup(r)
    PROVE  TypeInv'
<1>1. CASE CreateGroup(r)
  <2>1. PICK body \in GroupBodies :
           Begin(r, "createGroup", FirstStep(body.id), body.id,
                 [name |-> body.name, perms |-> body.perms])
    BY <1>1 DEF CreateGroup
  <2>2. body \in GroupBody
    BY CatalogAssumption
  <2>3. ASSUME NEW q, Fresh(q, "createGroup", FirstStep(body.id), body.id,
                           [name |-> body.name, perms |-> body.perms])
        PROVE  Proper(q)
    BY <2>2, <2>3, SubsetsOfIds
       DEF Fresh, Proper, Fields, Targets, Steps, Optional,
           AllKinds, FirstStep, Carries, GroupBody, GroupItem
  <2>4. QED
    BY <2>1, <2>2, <2>3, SubsetsOfIds, BeginTyped
       DEF AllKinds, Steps, Optional, FirstStep, GroupBody, GroupItem
<1>2. CASE UpdateGroup(r)
  <2>1. PICK body \in GroupBodies, id \in PathIds \cap GroupIds :
           BeginUnlessDemo(r, "updateGroup", "load", id, [name |-> body.name, perms |-> body.perms])
    BY <1>2 DEF UpdateGroup
  <2>2. body \in GroupBody
    BY CatalogAssumption
  <2>3. ASSUME NEW q, Fresh(q, "updateGroup", "load", id,
                           [name |-> body.name, perms |-> body.perms])
        PROVE  Proper(q)
    BY <2>2, <2>3, SubsetsOfIds
       DEF Fresh, Proper, Fields, Targets, Steps, Optional, AllKinds, Carries, GroupBody, GroupItem
  <2>4. QED
    BY <2>1, <2>2, <2>3, SubsetsOfIds, BeginUnlessDemoTyped
       DEF AllKinds, Steps, Optional
<1>3. CASE DeleteGroup(r)
  <2>1. PICK id \in PathIds \cap GroupIds :
           BeginUnlessDemo(r, "deleteGroup", "find", id, Undefined)
    BY <1>3 DEF DeleteGroup
  <2>2. ASSUME NEW q, Fresh(q, "deleteGroup", "find", id,
                           Undefined)
        PROVE  Proper(q)
    BY <2>2, SubsetsOfIds
       DEF Fresh, Proper, Fields, Targets, Steps, Optional, AllKinds
  <2>3. QED
    BY <2>1, <2>2, SubsetsOfIds, BeginUnlessDemoTyped
       DEF AllKinds, Steps, Optional
<1>4. CASE GetGroup(r)
  <2>1. PICK id \in PathIds \cap GroupIds :
           Begin(r, "getGroup", "find", id, Undefined)
    BY <1>4 DEF GetGroup
  <2>2. ASSUME NEW q, Fresh(q, "getGroup", "find", id,
                           Undefined)
        PROVE  Proper(q)
    BY <2>2, SubsetsOfIds
       DEF Fresh, Proper, Fields, Targets, Steps, Optional, AllKinds
  <2>3. QED
    BY <2>1, <2>2, SubsetsOfIds, BeginTyped
       DEF AllKinds, Steps, Optional
<1>5. QED
  BY <1>1, <1>2, <1>3, <1>4

LEMMA TypeArrivalTyped ==
    ASSUME TypeInv, NEW r \in Requests,
           CreateType(r) \/ UpdateType(r) \/ DeleteType(r) \/ GetType(r)
    PROVE  TypeInv'
<1>1. CASE CreateType(r)
  <2>1. PICK id \in Optional(PathIds \cap TypeIds) :
           Begin(r, "createType", FirstStep(id), id, Undefined)
    BY <1>1 DEF CreateType
  <2>2. ASSUME NEW q, Fresh(q, "createType", FirstStep(id), id,
                           Undefined)
        PROVE  Proper(q)
    BY <2>2, SubsetsOfIds
       DEF Fresh, Proper, Fields, Targets, Steps, Optional, AllKinds, FirstStep, Carries
  <2>3. QED
    BY <2>1, <2>2, SubsetsOfIds, BeginTyped
       DEF AllKinds, Steps, Optional, FirstStep
<1>2. CASE UpdateType(r)
  <2>1. PICK id \in PathIds \cap TypeIds :
           BeginUnlessDemo(r, "updateType", "load", id, Undefined)
    BY <1>2 DEF UpdateType
  <2>2. ASSUME NEW q, Fresh(q, "updateType", "load", id,
                           Undefined)
        PROVE  Proper(q)
    BY <2>2, SubsetsOfIds
       DEF Fresh, Proper, Fields, Targets, Steps, Optional, AllKinds, Carries
  <2>3. QED
    BY <2>1, <2>2, SubsetsOfIds, BeginUnlessDemoTyped
       DEF AllKinds, Steps, Optional
<1>3. CASE DeleteType(r)
  <2>1. PICK id \in PathIds \cap TypeIds :
           BeginUnlessDemo(r, "deleteType", "find", id, Undefined)
    BY <1>3 DEF DeleteType
  <2>2. ASSUME NEW q, Fresh(q, "deleteType", "find", id,
                           Undefined)
        PROVE  Proper(q)
    BY <2>2, SubsetsOfIds
       DEF Fresh, Proper, Fields, Targets, Steps, Optional, AllKinds
  <2>3. QED
    BY <2>1, <2>2, SubsetsOfIds, BeginUnlessDemoTyped
       DEF AllKinds, Steps, Optional
<1>4. CASE GetType(r)
  <2>1. PICK id \in PathIds \cap TypeIds :
           Begin(r, "getType", "find", id, Undefined)
    BY <1>4 DEF GetType
  <2>2. ASSUME NEW q, Fresh(q, "getType", "find", id,
                           Undefined)
        PROVE  Proper(q)
    BY <2>2, SubsetsOfIds
       DEF Fresh, Proper, Fields, Targets, Steps, Optional, AllKinds
  <2>3. QED
    BY <2>1, <2>2, SubsetsOfIds, BeginTyped
       DEF AllKinds, Steps, Optional
<1>5. QED
  BY <1>1, <1>2, <1>3, <1>4

LEMMA ListArrivalTyped ==
    ASSUME TypeInv, NEW r \in Requests,
           ListPermissions(r) \/ ListGroups(r) \/ ListTypes(r) \/ ListUsers(r)
    PROVE  TypeInv'
<1>1. CASE ListPermissions(r)
  <2>1. PICK query \in Queries :
           Begin(r, "listPermissions", "page", Undefined, query)
    BY <1>1 DEF ListPermissions
  <2>2. ASSUME NEW q, Fresh(q, "listPermissions", "page", Undefined,
                           query)
        PROVE  Proper(q)
    BY <2>2, SubsetsOfIds
       DEF Fresh, Proper, Fields, Targets, Steps, Optional, AllKinds
  <2>3. QED
    BY <2>1, <2>2, SubsetsOfIds, BeginTyped
       DEF AllKinds, Steps, Optional
<1>2. CASE ListGroups(r)
  <2>1. PICK query \in Queries :
           Begin(r, "listGroups", "page", Undefined, query)
    BY <1>2 DEF ListGroups
  <2>2. ASSUME NEW q, Fresh(q, "listGroups", "page", Undefined,
                           query)
        PROVE  Proper(q)
    BY <2>2, SubsetsOfIds
       DEF Fresh, Proper, Fields, Targets, Steps, Optional, AllKinds
  <2>3. QED
    BY <2>1, <2>2, SubsetsOfIds, BeginTyped
       DEF AllKinds, Steps, Optional
<1>3. CASE ListTypes(r)
  <2>1. PICK query \in Queries :
           Begin(r, "listTypes", "page", Undefined, query)
    BY <1>3 DEF ListTypes
  <2>2. ASSUME NEW q, Fresh(q, "listTypes", "page", Undefined,
                           query)
        PROVE  Proper(q)
    BY <2>2, SubsetsOfIds
       DEF Fresh, Proper, Fields, Targets, Steps, Optional, AllKinds
  <2>3. QED
    BY <2>1, <2>2, SubsetsOfIds, BeginTyped
       DEF AllKinds, Steps, Optional
<1>4. CASE ListUsers(r)
  <2>1. PICK query \in Queries :
           Begin(r, "listUsers", "page", Undefined, query)
    BY <1>4 DEF ListUsers
  <2>2. ASSUME NEW q, Fresh(q, "listUsers", "page", Undefined,
                           query)
        PROVE  Proper(q)
    BY <2>2, SubsetsOfIds
       DEF Fresh, Proper, Fields, Targets, Steps, Optional, AllKinds
  <2>3. QED
    BY <2>1, <2>2, SubsetsOfIds, BeginTyped
       DEF AllKinds, Steps, Optional
<1>5. QED
  BY <1>1, <1>2, <1>3, <1>4

LEMMA ArriveTyped ==
    ASSUME TypeInv, NEW r \in Requests, Arrive(r)
    PROVE  TypeInv'
BY PermissionArrivalTyped, GroupArrivalTyped, TypeArrivalTyped, ListArrivalTyped
   DEF Arrive

LEMMA FindTyped ==
    ASSUME TypeInv, NEW r \in Requests, Find(r)
    PROVE  TypeInv'
<1> DEFINE kind == req[r].kind
           id == req[r].target
<1>1. At(r, "find") /\ Unmoved /\ Proper(req[r]) /\ ~At(r, "idle")
  BY DEF Find, Unmoved, TypeInv, Shape, At
<1>2. CASE Answer(r, "notFound") \/ Answer(r, "ok")
  BY <1>1, <1>2, AnswerTyped, UnmovedTyped DEF Answers
<1>3. CASE /\ kind = "deleteGroup" /\ groups[id] # Undefined
           /\ Become(r, [req[r] EXCEPT !.pc = "load",
                                       !.item = Emptied(groups[id])])
  <2> DEFINE item == Emptied(groups[id])
             q == [req[r] EXCEPT !.pc = "load", !.item = item]
  <2>1. id \in GroupIds
    BY <1>1, <1>3, CatalogAssumption DEF Proper, Targets, At, Optional
  <2>2. groups[id] \in Group
    BY <1>3, <2>1 DEF TypeInv, TypeOK, Optional
  <2>3. item \in GroupItem /\ item.perms = {}
    BY <2>2 DEF Emptied, Group, GroupItem, Optional
  <2> HIDE DEF item
  <2>4. /\ q \in [kind: Optional(AllKinds), pc: Steps, target: Optional(Ids),
                  item: {item}, base: {req[r].base}, answer: Optional(Answers)]
        /\ q.kind = "deleteGroup" /\ q.pc = "load" /\ q.target = id /\ q.item = item
        /\ q.answer = req[r].answer
    BY <1>1, <1>3 DEF Proper, Fields, Steps
  <2> HIDE DEF q
  <2>5. Proper(q)
    BY <1>1, <2>1, <2>3, <2>4, SubsetsOfIds
       DEF Proper, Fields, Targets, Carries, At, Optional, AllKinds
  <2>6. Become(r, q)
    BY <1>3 DEF q, item
  <2>7. QED
    BY <1>1, <2>5, <2>6, BecomeTyped, UnmovedTyped
<1>4. CASE kind = "deleteType" /\ Goto(r, "load")
  <2> DEFINE q == [req[r] EXCEPT !.pc = "load"]
  <2>1. /\ q \in [kind: Optional(AllKinds), pc: Steps, target: Optional(Ids),
                  item: {req[r].item}, base: {req[r].base}, answer: Optional(Answers)]
        /\ q.kind = "deleteType" /\ q.pc = "load" /\ q.target = id
        /\ q.answer = req[r].answer
    BY <1>1, <1>4 DEF Proper, Fields, Steps
  <2> HIDE DEF q
  <2>2. Proper(q)
    BY <1>1, <1>4, <2>1, SubsetsOfIds
       DEF Proper, Fields, Targets, Carries, At, Optional, AllKinds
  <2>3. Become(r, q)
    BY <1>4 DEF q, Goto
  <2>4. QED
    BY <1>1, <2>2, <2>3, BecomeTyped, UnmovedTyped
<1>5. QED
  BY <1>2, <1>3, <1>4 DEF Find, Present

\* What save() loads has the type of the table.
LEMMA StoredTyped ==
    ASSUME TypeInv, NEW r \in Requests, At(r, "load")
    PROVE  /\ req[r].kind \in PermissionKinds =>
                Stored(req[r].kind, req[r].target) \in Optional(Permission)
           /\ req[r].kind \in GroupKinds =>
                Stored(req[r].kind, req[r].target) \in Optional(Group)
           /\ req[r].kind \in TypeKinds =>
                Stored(req[r].kind, req[r].target) \in Optional(Attachment)
<1>1. Proper(req[r]) /\ Targets(req[r]) /\ req[r].target # Undefined
  BY DEF TypeInv, Shape, Proper, Targets, At
<1>2. CASE req[r].kind \in PermissionKinds
  BY <1>1, <1>2 DEF Stored, Targets, Optional, TypeInv, TypeOK
<1>3. CASE req[r].kind \in GroupKinds
  BY <1>1, <1>3 DEF Stored, Targets, Optional, TypeInv, TypeOK
<1>4. CASE req[r].kind \in TypeKinds
  <2>1. [attached |-> Attached(req[r].target)] \in Attachment
    BY DEF Attached, Attachment
  <2>2. Stored(req[r].kind, req[r].target)
          \in {[attached |-> Attached(req[r].target)], Undefined}
    BY <1>4 DEF Stored
  <2>3. QED
    BY <1>4, <2>1, <2>2 DEF Optional
<1>5. QED
  BY <1>2, <1>3, <1>4

LEMMA LoadTyped ==
    ASSUME TypeInv, NEW r \in Requests, Load(r)
    PROVE  TypeInv'
<1> DEFINE base == Stored(req[r].kind, req[r].target)
           q == [req[r] EXCEPT !.pc = "write", !.base = base]
<1>1. At(r, "load") /\ Unmoved /\ Proper(req[r]) /\ Become(r, q)
  BY DEF Load, Unmoved, TypeInv, Shape
<1> HIDE DEF base
<1>2. /\ q \in [kind: Optional(AllKinds), pc: Steps, target: Optional(Ids),
                item: {req[r].item}, base: {base}, answer: Optional(Answers)]
      /\ q.kind = req[r].kind /\ q.pc = "write" /\ q.target = req[r].target
      /\ q.item = req[r].item /\ q.base = base /\ q.answer = req[r].answer
  BY <1>1 DEF Proper, Fields, Steps
<1> HIDE DEF q
<1>3. Carries(q)
  BY <1>1, <1>2, StoredTyped DEF Proper, Carries, At, base
<1>4. Proper(q)
  BY <1>1, <1>2, <1>3 DEF Proper, Fields, Targets, At
<1>5. QED
  BY <1>1, <1>4, BecomeTyped, UnmovedTyped

LEMMA PageTyped ==
    ASSUME TypeInv, NEW r \in Requests, Page(r)
    PROVE  TypeInv'
<1>1. At(r, "page") /\ Unmoved /\ Proper(req[r]) /\ ~At(r, "idle")
  BY DEF Page, Unmoved, TypeInv, Shape, At
<1>2. CASE Answer(r, "error")
  BY <1>1, <1>2, AnswerTyped, UnmovedTyped DEF Answers
<1>3. CASE ~Answer(r, "error")
  <2>1. PICK base : Become(r, [req[r] EXCEPT !.pc = "count", !.base = base])
    BY <1>3 DEF Page
  <2> DEFINE q == [req[r] EXCEPT !.pc = "count", !.base = base]
  <2>2. /\ q \in [kind: Optional(AllKinds), pc: Steps, target: Optional(Ids),
                  item: {req[r].item}, base: {base}, answer: Optional(Answers)]
        /\ q.kind = req[r].kind /\ q.pc = "count" /\ q.target = req[r].target
        /\ q.answer = req[r].answer
    BY <1>1 DEF Proper, Fields, Steps
  <2>3. Become(r, q)
    BY <2>1
  <2> HIDE DEF q
  <2>4. Proper(q)
    BY <1>1, <2>2 DEF Proper, Fields, Targets, At
  <2>5. QED
    BY <1>1, <2>3, <2>4, BecomeTyped, UnmovedTyped
<1>4. QED
  BY <1>2, <1>3

LEMMA CountTyped ==
    ASSUME TypeInv, NEW r \in Requests, Count(r)
    PROVE  TypeInv'
<1>1. At(r, "count") /\ Unmoved /\ Proper(req[r])
  BY DEF Count, Unmoved, TypeInv, Shape
<1>2. PICK base : Become(r, [req[r] EXCEPT !.pc = "done", !.answer = "ok", !.base = base])
  BY DEF Count
<1> DEFINE q == [req[r] EXCEPT !.pc = "done", !.answer = "ok", !.base = base]
<1>3. /\ q \in [kind: Optional(AllKinds), pc: Steps, target: Optional(Ids),
                item: {req[r].item}, base: {base}, answer: Optional(Answers)]
      /\ q.kind = req[r].kind /\ q.pc = "done" /\ q.answer = "ok"
  BY <1>1 DEF Proper, Fields, Steps, Optional, Answers
<1>4. Become(r, q)
  BY <1>2
<1> HIDE DEF q
<1>5. Proper(q)
  BY <1>1, <1>3 DEF Proper, Fields, At
<1>6. QED
  BY <1>1, <1>4, <1>5, BecomeTyped, UnmovedTyped

-----------------------------------------------------------------------------
(***************************************************************************)
(* Types: the transactions.                                                *)
(***************************************************************************)

LEMMA CommittedTyped ==
    ASSUME TypeInv, NEW r \in Requests, At(r, "write"), NEW id \in Ids,
           Committed(r, id), Typed'
    PROVE  TypeInv'
<1>1. Proper(req[r])
  BY DEF TypeInv, Shape
<1>2. CASE req[r].kind \in DeleteKinds
  <2> DEFINE q == [req[r] EXCEPT !.pc = "remove", !.item = Undefined,
                                 !.base = Undefined]
  <2>1. /\ q \in [kind: Optional(AllKinds), pc: Steps, target: Optional(Ids),
                  item: {Undefined}, base: {Undefined}, answer: Optional(Answers)]
        /\ q.kind = req[r].kind /\ q.pc = "remove" /\ q.target = req[r].target
        /\ q.item = Undefined /\ q.base = Undefined /\ q.answer = req[r].answer
    BY <1>1 DEF Proper, Fields, Steps
  <2>2. Become(r, q)
    BY <1>2 DEF Committed
  <2> HIDE DEF q
  <2>3. Proper(q)
    BY <1>1, <1>2, <2>1 DEF Proper, Fields, Targets, At
  <2>4. QED
    BY <2>2, <2>3, BecomeTyped
<1>3. CASE req[r].kind \notin DeleteKinds
  <2> DEFINE q == [req[r] EXCEPT !.pc = "done", !.answer = "ok", !.target = id,
                                 !.item = Undefined, !.base = Undefined]
  <2>1. /\ q \in [kind: Optional(AllKinds), pc: Steps, target: Optional(Ids),
                  item: {Undefined}, base: {Undefined}, answer: Optional(Answers)]
        /\ q.kind = req[r].kind /\ q.pc = "done" /\ q.item = Undefined
        /\ q.base = Undefined /\ q.answer = "ok"
    BY <1>1 DEF Proper, Fields, Steps, Optional, Answers
  <2>2. Become(r, q)
    BY <1>3 DEF Committed
  <2> HIDE DEF q
  <2>3. Proper(q)
    BY <1>1, <2>1 DEF Proper, Fields, At
  <2>4. QED
    BY <2>2, <2>3, BecomeTyped
<1>4. QED
  BY <1>2, <1>3

LEMMA RefusedTyped ==
    ASSUME TypeInv, NEW r \in Requests, ~At(r, "idle"), Answer(r, "error"), Typed'
    PROVE  TypeInv'
BY AnswerTyped DEF Answers

LEMMA AttachingTyped ==
    ASSUME TypeInv, NEW p \in PermissionIds, NEW type, Attaching(p, type)
    PROVE  late' \in [Requests -> SUBSET PermissionIds]
BY DEF Attaching, TypeInv, TypeOK

LEMMA WritingPermission ==
    ASSUME TypeInv, NEW r \in Requests, At(r, "write"), req[r].kind \in PermissionKinds
    PROVE  /\ req[r].item \in PermissionItem
           /\ req[r].target \in Optional(PermissionIds)
           /\ req[r].base \in Optional(Permission)
           /\ req[r].base # Undefined => req[r].target \in PermissionIds
BY DEF TypeInv, Shape, Proper, Targets, Carries, At, Optional

LEMMA InsertPermissionTyped ==
    ASSUME TypeInv, NEW r \in Requests, InsertPermission(r)
    PROVE  TypeInv'
<1>1. /\ At(r, "write") /\ ~At(r, "idle") /\ req[r].kind \in PermissionKinds
      /\ UNCHANGED <<types, groups, demo, members, faults>>
  BY DEF InsertPermission, At
<1> DEFINE row == [type |-> Default(req[r].item.type, Null)]
<1>2. PICK id \in InsertIds(r, PermissionIds) :
         IF perms[id] # Undefined \/ NoSuchType(row.type)
         THEN Answer(r, "error") /\ UNCHANGED <<perms, late>>
         ELSE /\ perms' = [perms EXCEPT ![id] = row]
              /\ Attaching(id, row.type)
              /\ Committed(r, id)
  BY DEF InsertPermission
<1>3. id \in PermissionIds /\ id \in Ids
  BY <1>1, WritingPermission, SubsetsOfIds DEF InsertIds, Optional
<1>4. row \in Permission
  BY <1>1, WritingPermission DEF PermissionItem, Permission, Default
<1> HIDE DEF row
<1>5. CASE perms[id] # Undefined \/ NoSuchType(row.type)
  BY <1>1, <1>2, <1>5, RefusedTyped DEF Typed, TypeInv, TypeOK
<1>6. CASE ~(perms[id] # Undefined \/ NoSuchType(row.type))
  <2>1. Typed'
    BY <1>1, <1>2, <1>3, <1>4, <1>6, AttachingTyped DEF Typed, TypeInv, TypeOK, Optional
  <2>2. QED
    BY <1>1, <1>2, <1>3, <1>6, <2>1, CommittedTyped
<1>7. QED
  BY <1>5, <1>6

\* The value that an UPDATE leaves in a permission's foreign key.
LEMMA ColumnTyped ==
    ASSUME NEW set \in TypeIds \cup {Null, Undefined}, NEW loaded,
           NEW current \in TypeIds \cup {Null}
    PROVE  Column(set, loaded, current) \in TypeIds \cup {Null}
BY DEF Column

LEMMA OverwritePermissionTyped ==
    ASSUME TypeInv, NEW r \in Requests, OverwritePermission(r)
    PROVE  TypeInv'
<1> DEFINE id == req[r].target
           type == Column(req[r].item.type, req[r].base.type, perms[id].type)
<1>1. /\ At(r, "write") /\ ~At(r, "idle") /\ req[r].kind \in PermissionKinds
      /\ req[r].base # Undefined
      /\ UNCHANGED <<types, groups, demo, members, faults>>
  BY DEF OverwritePermission, At
<1>2. id \in PermissionIds /\ id \in Ids
  BY <1>1, WritingPermission, SubsetsOfIds
<1>3. CASE Answer(r, "error") /\ UNCHANGED <<perms, late>>
  BY <1>1, <1>3, RefusedTyped DEF Typed, TypeInv, TypeOK
<1>4. CASE Committed(r, id) /\ UNCHANGED <<perms, late>>
  BY <1>1, <1>2, <1>4, CommittedTyped DEF Typed, TypeInv, TypeOK
<1>5. CASE /\ perms[id] # Undefined
           /\ perms' = [perms EXCEPT ![id].type = type]
           /\ Attaching(id, type)
           /\ Committed(r, id)
  <2>1. perms[id] \in Permission
    BY <1>2, <1>5 DEF TypeInv, TypeOK, Optional
  <2>2. type \in TypeIds \cup {Null}
    BY <1>1, <2>1, WritingPermission, ColumnTyped DEF PermissionItem, Permission
  <2> HIDE DEF type
  <2>3. [perms[id] EXCEPT !.type = type] \in Permission
    BY <2>1, <2>2 DEF Permission
  <2>4. Typed'
    BY <1>1, <1>2, <1>5, <2>3, AttachingTyped DEF Typed, TypeInv, TypeOK, Optional
  <2>5. QED
    BY <1>1, <1>2, <1>5, <2>4, CommittedTyped
<1>6. QED
  BY <1>3, <1>4, <1>5 DEF OverwritePermission

LEMMA WritingGroup ==
    ASSUME TypeInv, NEW r \in Requests, At(r, "write"), req[r].kind \in GroupKinds
    PROVE  /\ req[r].item \in GroupItem
           /\ req[r].target \in Optional(GroupIds)
           /\ req[r].base \in Optional(Group)
           /\ req[r].base # Undefined => req[r].target \in GroupIds
BY DEF TypeInv, Shape, Proper, Targets, Carries, At, Optional

LEMMA InsertGroupTyped ==
    ASSUME TypeInv, NEW r \in Requests, InsertGroup(r)
    PROVE  TypeInv'
<1> DEFINE row == [name |-> req[r].item.name, perms |-> Default(req[r].item.perms, {})]
<1>1. /\ At(r, "write") /\ ~At(r, "idle") /\ req[r].kind \in GroupKinds
      /\ UNCHANGED <<types, perms, demo, members, faults, late>>
  BY DEF InsertGroup, At
<1>2. PICK id \in InsertIds(r, GroupIds) :
         \/ Answer(r, "error") /\ UNCHANGED groups
         \/ groups' = [groups EXCEPT ![id] = row] /\ Committed(r, id)
  BY DEF InsertGroup
<1>3. id \in GroupIds /\ id \in Ids
  BY <1>1, WritingGroup, SubsetsOfIds DEF InsertIds, Optional
<1>4. row \in Group
  BY <1>1, WritingGroup DEF GroupItem, Group, Default, Optional
<1>5. CASE Answer(r, "error") /\ UNCHANGED groups
  BY <1>1, <1>5, RefusedTyped DEF Typed, TypeInv, TypeOK
<1>6. CASE groups' = [groups EXCEPT ![id] = row] /\ Committed(r, id)
  <2> HIDE DEF row
  <2>1. Typed'
    BY <1>1, <1>3, <1>4, <1>6 DEF Typed, TypeInv, TypeOK, Optional
  <2>2. QED
    BY <1>1, <1>3, <1>6, <2>1, CommittedTyped
<1>7. QED
  BY <1>2, <1>5, <1>6

\* What an UPDATE of a group may add.
LEMMA AddedTyped ==
    ASSUME NEW item \in GroupItem, NEW base \in Group
    PROVE  Added(item, base) \in SUBSET PermissionIds
BY DEF Added, GroupItem, Optional

LEMMA OverwriteGroupTyped ==
    ASSUME TypeInv, NEW r \in Requests, OverwriteGroup(r)
    PROVE  TypeInv'
<1> DEFINE id == req[r].target
           item == req[r].item
           base == req[r].base
           added == Added(item, base)
           name == Column(item.name, base.name, groups[id].name)
           row == [name |-> name,
                   perms |-> (groups[id].perms \cup added) \ Dropped(item, base)]
<1>1. /\ At(r, "write") /\ ~At(r, "idle") /\ req[r].kind \in GroupKinds
      /\ base # Undefined
      /\ UNCHANGED <<types, perms, demo, members, faults, late>>
  BY DEF OverwriteGroup, At
<1>2. /\ id \in GroupIds /\ id \in Ids
      /\ base \in Group /\ item \in GroupItem
      /\ added \in SUBSET PermissionIds
  BY <1>1, WritingGroup, SubsetsOfIds, AddedTyped DEF Optional
<1>3. CASE Answer(r, "error") /\ UNCHANGED groups
  BY <1>1, <1>3, RefusedTyped DEF Typed, TypeInv, TypeOK
<1>4. CASE Committed(r, id) /\ UNCHANGED groups
  BY <1>1, <1>2, <1>4, CommittedTyped DEF Typed, TypeInv, TypeOK
<1>5. CASE /\ groups[id] # Undefined
           /\ groups' = [groups EXCEPT ![id] = row]
           /\ Committed(r, id)
  <2>1. groups[id] \in Group
    BY <1>2, <1>5 DEF TypeInv, TypeOK, Optional
  <2>2. name \in Names
    BY <1>2, <2>1 DEF GroupItem, Group, Column
  <2>3. row \in Group
    BY <1>2, <2>1, <2>2 DEF Group
  <2> HIDE DEF row, added
  <2>4. Typed'
    BY <1>1, <1>2, <1>5, <2>3 DEF Typed, TypeInv, TypeOK, Optional
  <2>5. QED
    BY <1>1, <1>2, <1>5, <2>4, CommittedTyped
<1>6. QED
  BY <1>3, <1>4, <1>5 DEF OverwriteGroup

LEMMA InsertTypeTyped ==
    ASSUME TypeInv, NEW r \in Requests, InsertType(r)
    PROVE  TypeInv'
<1>1. /\ At(r, "write") /\ ~At(r, "idle") /\ req[r].kind \in TypeKinds
      /\ UNCHANGED <<perms, groups, demo, members, faults, late>>
  BY DEF InsertType, At
<1>2. PICK id \in InsertIds(r, TypeIds) :
         \/ Answer(r, "error") /\ UNCHANGED types
         \/ types' = types \cup {id} /\ Committed(r, id)
  BY DEF InsertType
<1>3. id \in TypeIds /\ id \in Ids
  BY <1>1, SubsetsOfIds DEF InsertIds, Optional, TypeInv, Shape, Proper, Targets, At
<1>4. Typed'
  BY <1>1, <1>2, <1>3 DEF Typed, TypeInv, TypeOK
<1>5. QED
  BY <1>1, <1>2, <1>3, <1>4, RefusedTyped, CommittedTyped

LEMMA OverwriteTypeTyped ==
    ASSUME TypeInv, NEW r \in Requests, OverwriteType(r)
    PROVE  TypeInv'
<1>1. /\ At(r, "write") /\ req[r].kind \in TypeKinds /\ req[r].base # Undefined
      /\ perms' = [p \in PermissionIds |->
                     IF perms[p] # Undefined /\ p \in Detached(r)
                     THEN [perms[p] EXCEPT !.type = Null] ELSE perms[p]]
      /\ Committed(r, req[r].target)
      /\ UNCHANGED <<types, groups, demo, members, faults, late>>
  BY DEF OverwriteType
<1>2. req[r].target \in Ids
  BY <1>1 DEF TypeInv, Shape, Proper, Fields, Targets, At, Optional
<1>3. \A p \in PermissionIds :
        perms[p] # Undefined => [perms[p] EXCEPT !.type = Null] \in Permission
  BY DEF TypeInv, TypeOK, Optional, Permission
<1>4. Typed'
  BY <1>1, <1>3 DEF Typed, TypeInv, TypeOK, Optional
<1>5. QED
  BY <1>1, <1>2, <1>4, CommittedTyped

LEMMA RemoveTyped ==
    ASSUME TypeInv, NEW r \in Requests,
           RemovePermission(r) \/ RemoveGroup(r) \/ RemoveType(r)
    PROVE  TypeInv'
<1>1. At(r, "remove") /\ ~At(r, "idle") /\ (Answer(r, "ok") \/ Answer(r, "error"))
  BY DEF RemovePermission, RemoveGroup, RemoveType, At
<1>2. CASE RemovePermission(r)
  <2>1. \A g \in GroupIds : groups[g] # Undefined =>
          [groups[g] EXCEPT !.perms = @ \ {req[r].target}] \in Group
    BY DEF TypeInv, TypeOK, Optional, Group
  <2>2. Typed'
    BY <1>2, <2>1 DEF RemovePermission, WithoutPermission, Typed, TypeInv, TypeOK, Optional
  <2>3. QED
    BY <1>1, <2>2, AnswerTyped DEF Answers
<1>3. CASE RemoveGroup(r)
  <2>1. Typed'
    BY <1>3 DEF RemoveGroup, Typed, TypeInv, TypeOK, Optional
  <2>2. QED
    BY <1>1, <2>1, AnswerTyped DEF Answers
<1>4. CASE RemoveType(r)
  <2>1. Typed'
    BY <1>4 DEF RemoveType, Typed, TypeInv, TypeOK
  <2>2. QED
    BY <1>1, <2>1, AnswerTyped DEF Answers
<1>5. QED
  BY <1>2, <1>3, <1>4

LEMMA QueryFailsTyped ==
    ASSUME TypeInv, NEW r \in Requests, QueryFails(r)
    PROVE  TypeInv'
<1>1. ~At(r, "idle") /\ Answer(r, "error")
  BY DEF QueryFails, At
<1>2. faults + 1 \in 0..MaxFaults
  BY CatalogAssumption DEF QueryFails, TypeInv, TypeOK
<1>3. Typed'
  BY <1>2 DEF QueryFails, tables, Typed, TypeInv, TypeOK
<1>4. QED
  BY <1>1, <1>3, RefusedTyped

LEMMA StutterTyped == TypeInv /\ UNCHANGED vars => TypeInv'
BY DEF TypeInv, TypeOK, Shape, Proper, Fields, Targets, Carries, vars, tables

LEMMA NextTyped == TypeInv /\ [Next]_vars => TypeInv'
<1> SUFFICES ASSUME TypeInv, [Next]_vars PROVE TypeInv'
  OBVIOUS
<1>1. ASSUME NEW r \in Requests, Step(r) PROVE TypeInv'
  BY <1>1, ArriveTyped, FindTyped, LoadTyped, PageTyped, CountTyped,
     InsertPermissionTyped, OverwritePermissionTyped, InsertGroupTyped,
     OverwriteGroupTyped, InsertTypeTyped, OverwriteTypeTyped, RemoveTyped,
     QueryFailsTyped
     DEF Step
<1>2. QED
  BY <1>1, StutterTyped DEF Next, Quiescent

\* The tables, the observations and the requests' fields are of their types,
\* for every number of requests and rows.
THEOREM CatalogTypeCorrect == Spec => []TypeOK
<1>1. TypeInv => TypeOK
  BY DEF TypeInv
<1>2. QED
  BY <1>1, InitTypeInv, NextTyped, PTL DEF Spec


-----------------------------------------------------------------------------
(***************************************************************************)
(* Integrity: one lemma for each transaction that changes a table.         *)
(***************************************************************************)

LEMMA InitIntegrity == Init => Integrity
BY CatalogAssumption DEF Init, Integrity

LEMMA SameTablesIntegrity ==
    ASSUME Integrity, UNCHANGED <<types, perms, groups>> PROVE Integrity'
BY DEF Integrity, DistinctNames, References

LEMMA InsertPermissionIntegrity ==
    ASSUME TypeInv, Integrity, NEW r \in Requests, InsertPermission(r)
    PROVE  Integrity'
<1> DEFINE row == [type |-> Default(req[r].item.type, Null)]
<1>1. /\ At(r, "write") /\ req[r].kind \in PermissionKinds
      /\ UNCHANGED <<types, groups>>
  BY DEF InsertPermission
<1>2. PICK id \in InsertIds(r, PermissionIds) :
         \/ UNCHANGED perms
         \/ /\ ~NoSuchType(row.type)
            /\ perms' = [perms EXCEPT ![id] = row]
  BY DEF InsertPermission
<1>3. row \in Permission
  BY <1>1, WritingPermission DEF PermissionItem, Permission, Default
<1> HIDE DEF row
<1>4. CASE UNCHANGED perms
  BY <1>1, <1>4, SameTablesIntegrity
<1>5. CASE ~NoSuchType(row.type) /\ perms' = [perms EXCEPT ![id] = row]
  <2>1. row.type \in types \cup {Null} /\ row # Undefined
    BY <1>3, <1>5, CatalogAssumption DEF Permission, NoSuchType
  <2>2. \A p \in PermissionIds : perms'[p] = perms[p] \/ perms'[p] = row
    BY <1>5 DEF TypeInv, TypeOK
  <2>3. References(types, perms, groups)'
    BY <1>1, <2>1, <2>2 DEF Integrity, References, TypeInv, TypeOK, Optional, Group
  <2>4. QED
    BY <1>1, <2>3 DEF Integrity, DistinctNames
<1>6. QED
  BY <1>2, <1>4, <1>5

LEMMA OverwritePermissionIntegrity ==
    ASSUME TypeInv, Integrity, NEW r \in Requests, OverwritePermission(r)
    PROVE  Integrity'
<1> DEFINE id == req[r].target
           type == Column(req[r].item.type, req[r].base.type, perms[id].type)
<1>1. /\ At(r, "write") /\ req[r].kind \in PermissionKinds
      /\ req[r].base # Undefined
      /\ UNCHANGED <<types, groups>>
  BY DEF OverwritePermission
<1>2. id \in PermissionIds
  BY <1>1, WritingPermission
<1>3. CASE UNCHANGED perms
  BY <1>1, <1>3, SameTablesIntegrity
<1>4. CASE /\ perms[id] # Undefined
           /\ type = perms[id].type \/ ~NoSuchType(type)
           /\ perms' = [perms EXCEPT ![id].type = type]
  <2>1. perms[id] \in Permission
    BY <1>2, <1>4 DEF TypeInv, TypeOK, Optional
  <2>2. type \in TypeIds \cup {Null}
    BY <1>1, <2>1, WritingPermission, ColumnTyped DEF PermissionItem, Permission
  <2> HIDE DEF type
  <2>3. type \in types \cup {Null}
    BY <1>2, <1>4, <2>2 DEF NoSuchType, Integrity, References
  <2> DEFINE row == [perms[id] EXCEPT !.type = type]
  <2>4. row \in Permission /\ row.type = type /\ row # Undefined
    BY <2>1, <2>2, CatalogAssumption DEF Permission
  <2>5. perms' = [perms EXCEPT ![id] = row]
    BY <1>4
  <2> HIDE DEF row
  <2>6. \A p \in PermissionIds : perms'[p] = perms[p] \/ perms'[p] = row
    BY <2>5 DEF TypeInv, TypeOK
  <2>7. References(types, perms, groups)'
    BY <1>1, <2>3, <2>4, <2>6 DEF Integrity, References, TypeInv, TypeOK, Optional, Group
  <2>8. QED
    BY <1>1, <2>7 DEF Integrity, DistinctNames
<1>5. QED
  BY <1>3, <1>4 DEF OverwritePermission

\* A group that is written keeps its table sound if its name is free and its
\* permissions are there.
LEMMA GroupWritten ==
    ASSUME TypeInv, Integrity, NEW id \in GroupIds, NEW row \in Group,
           ~NameTaken(id, row.name),
           \A p \in row.perms : perms[p] # Undefined,
           groups' = [groups EXCEPT ![id] = row],
           UNCHANGED <<types, perms>>
    PROVE  Integrity'
<1>1. \A g \in GroupIds : groups'[g] = IF g = id THEN row ELSE groups[g]
  BY DEF TypeInv, TypeOK
<1>2. DistinctNames(groups')
  BY <1>1 DEF Integrity, DistinctNames, NameTaken
<1>3. References(types, perms, groups')
  BY <1>1 DEF Integrity, References
<1>4. QED
  BY <1>2, <1>3 DEF Integrity

LEMMA InsertGroupIntegrity ==
    ASSUME TypeInv, Integrity, NEW r \in Requests, InsertGroup(r)
    PROVE  Integrity'
<1> DEFINE row == [name |-> req[r].item.name, perms |-> Default(req[r].item.perms, {})]
<1>1. /\ At(r, "write") /\ req[r].kind \in GroupKinds
      /\ UNCHANGED <<types, perms>>
  BY DEF InsertGroup
<1>2. PICK id \in InsertIds(r, GroupIds) :
         \/ UNCHANGED groups
         \/ /\ ~NameTaken(id, row.name) /\ ~NoSuchPermission(row.perms)
            /\ groups' = [groups EXCEPT ![id] = row]
  BY DEF InsertGroup
<1>3. id \in GroupIds
  BY <1>1, WritingGroup DEF InsertIds, Optional
<1>4. row \in Group
  BY <1>1, WritingGroup DEF GroupItem, Group, Default, Optional
<1> HIDE DEF row
<1>5. CASE UNCHANGED groups
  BY <1>1, <1>5, SameTablesIntegrity
<1>6. CASE /\ ~NameTaken(id, row.name) /\ ~NoSuchPermission(row.perms)
           /\ groups' = [groups EXCEPT ![id] = row]
  BY <1>1, <1>3, <1>4, <1>6, GroupWritten DEF NoSuchPermission
<1>7. QED
  BY <1>2, <1>5, <1>6

LEMMA OverwriteGroupIntegrity ==
    ASSUME TypeInv, Integrity, NEW r \in Requests, OverwriteGroup(r)
    PROVE  Integrity'
<1> DEFINE id == req[r].target
           item == req[r].item
           base == req[r].base
           added == Added(item, base)
           name == Column(item.name, base.name, groups[id].name)
           row == [name |-> name,
                   perms |-> (groups[id].perms \cup added) \ Dropped(item, base)]
<1>1. /\ At(r, "write") /\ req[r].kind \in GroupKinds /\ base # Undefined
      /\ UNCHANGED <<types, perms>>
  BY DEF OverwriteGroup
<1>2. /\ id \in GroupIds /\ base \in Group /\ item \in GroupItem
      /\ added \in SUBSET PermissionIds
  BY <1>1, WritingGroup, AddedTyped DEF Optional
<1>3. CASE UNCHANGED groups
  BY <1>1, <1>3, SameTablesIntegrity
<1>4. CASE /\ groups[id] # Undefined
           /\ ~NameTaken(id, name) /\ ~NoSuchPermission(added)
           /\ groups' = [groups EXCEPT ![id] = row]
  <2>1. groups[id] \in Group
    BY <1>2, <1>4 DEF TypeInv, TypeOK, Optional
  <2>2. name \in Names
    BY <1>2, <2>1 DEF GroupItem, Group, Column
  <2> HIDE DEF name, added
  <2>3. row \in Group /\ row.name = name
    BY <1>2, <2>1, <2>2 DEF Group
  <2>4. \A p \in row.perms : perms[p] # Undefined
    BY <1>2, <1>4 DEF NoSuchPermission, Integrity, References
  <2> HIDE DEF row
  <2>5. QED
    BY <1>1, <1>2, <1>4, <2>3, <2>4, GroupWritten
<1>5. QED
  BY <1>3, <1>4 DEF OverwriteGroup

LEMMA TypeWrittenIntegrity ==
    ASSUME TypeInv, Integrity, NEW r \in Requests, InsertType(r) \/ OverwriteType(r)
    PROVE  Integrity'
<1>1. CASE InsertType(r)
  <2>1. UNCHANGED <<perms, groups>> /\ types \subseteq types'
    BY <1>1 DEF InsertType
  <2>2. QED
    BY <2>1 DEF Integrity, References, DistinctNames
<1>2. CASE OverwriteType(r)
  <2>1. /\ perms' = [p \in PermissionIds |->
                       IF perms[p] # Undefined /\ p \in Detached(r)
                       THEN [perms[p] EXCEPT !.type = Null] ELSE perms[p]]
        /\ UNCHANGED <<types, groups>>
    BY <1>2 DEF OverwriteType
  <2>2. \A p \in PermissionIds : perms[p] # Undefined =>
          /\ [perms[p] EXCEPT !.type = Null] \in Permission
          /\ [perms[p] EXCEPT !.type = Null].type = Null
          /\ [perms[p] EXCEPT !.type = Null] # Undefined
    BY CatalogAssumption DEF TypeInv, TypeOK, Optional, Permission
  <2>3. \A p \in PermissionIds :
          /\ perms'[p] = Undefined <=> perms[p] = Undefined
          /\ perms[p] # Undefined => perms'[p].type \in {Null, perms[p].type}
    BY <2>1, <2>2
  <2>4. References(types, perms, groups)'
    BY <2>1, <2>3 DEF Integrity, References, TypeInv, TypeOK, Optional, Group
  <2>5. QED
    BY <2>1, <2>4 DEF Integrity, DistinctNames
<1>3. QED
  BY <1>1, <1>2

LEMMA RemovePermissionIntegrity ==
    ASSUME TypeInv, Integrity, NEW r \in Requests, RemovePermission(r)
    PROVE  Integrity'
<1> DEFINE id == req[r].target
<1>1. /\ perms' = [perms EXCEPT ![id] = Undefined]
      /\ groups' = [g \in GroupIds |->
                      IF groups[g] = Undefined THEN Undefined
                      ELSE [groups[g] EXCEPT !.perms = @ \ {id}]]
      /\ types' = types
  BY DEF RemovePermission, WithoutPermission
<1>2. \A g \in GroupIds : groups[g] # Undefined =>
        /\ [groups[g] EXCEPT !.perms = @ \ {id}].name = groups[g].name
        /\ [groups[g] EXCEPT !.perms = @ \ {id}].perms = groups[g].perms \ {id}
        /\ groups[g].perms \subseteq PermissionIds
  BY DEF TypeInv, TypeOK, Optional, Group
<1>3. \A g \in GroupIds : groups'[g] # Undefined =>
        /\ groups[g] # Undefined
        /\ groups'[g].name = groups[g].name
        /\ groups'[g].perms = groups[g].perms \ {id}
        /\ groups[g].perms \subseteq PermissionIds
  BY <1>1, <1>2
<1>4. \A p \in PermissionIds : perms'[p] = IF p = id THEN Undefined ELSE perms[p]
  BY <1>1 DEF TypeInv, TypeOK
<1>5. DistinctNames(groups')
  BY <1>3 DEF Integrity, DistinctNames
<1>6. References(types', perms', groups')
  BY <1>1, <1>3, <1>4 DEF Integrity, References
<1>7. QED
  BY <1>5, <1>6 DEF Integrity

LEMMA RemoveGroupIntegrity ==
    ASSUME TypeInv, Integrity, NEW r \in Requests, RemoveGroup(r)
    PROVE  Integrity'
<1>1. /\ groups' = [groups EXCEPT ![req[r].target] = Undefined]
      /\ UNCHANGED <<types, perms>>
  BY DEF RemoveGroup
<1>2. \A g \in GroupIds : groups'[g] # Undefined => groups'[g] = groups[g]
  BY <1>1 DEF TypeInv, TypeOK
<1>3. QED
  BY <1>1, <1>2 DEF Integrity, DistinctNames, References

LEMMA RemoveTypeIntegrity ==
    ASSUME TypeInv, Integrity, NEW r \in Requests, RemoveType(r)
    PROVE  Integrity'
<1>1. /\ UNCHANGED <<perms, groups>>
      /\ \/ types' = types
         \/ types' = types \ {req[r].target} /\ Attached(req[r].target) = {}
  BY DEF RemoveType, InUse
<1>2. QED
  BY <1>1 DEF Integrity, DistinctNames, References, Attached

LEMMA ArriveKeepsTables ==
    ASSUME NEW r \in Requests, Arrive(r) PROVE UNCHANGED <<types, perms, groups>>
BY DEF Arrive, Begin, BeginUnlessDemo, tables, CreatePermission,
   UpdatePermission, DeletePermission, GetPermission, CreateGroup, UpdateGroup,
   DeleteGroup, GetGroup, CreateType, UpdateType, DeleteType, GetType,
   ListPermissions, ListGroups, ListTypes, ListUsers

LEMMA NextIntegrity == TypeInv /\ Integrity /\ [Next]_vars => Integrity'
<1> SUFFICES ASSUME TypeInv, Integrity, [Next]_vars PROVE Integrity'
  OBVIOUS
<1>1. ASSUME NEW r \in Requests, Arrive(r) PROVE UNCHANGED <<types, perms, groups>>
  BY <1>1, ArriveKeepsTables
<1>2. ASSUME NEW r \in Requests, Find(r) \/ Load(r) \/ Page(r) \/ Count(r) \/ QueryFails(r)
      PROVE  UNCHANGED <<types, perms, groups>>
  BY <1>2 DEF Find, Load, Page, Count, QueryFails, tables
<1>3. ASSUME NEW r \in Requests, Step(r) PROVE Integrity'
  BY <1>1, <1>2, <1>3, SameTablesIntegrity, InsertPermissionIntegrity,
     OverwritePermissionIntegrity, InsertGroupIntegrity, OverwriteGroupIntegrity,
     TypeWrittenIntegrity, RemovePermissionIntegrity, RemoveGroupIntegrity,
     RemoveTypeIntegrity
     DEF Step
<1>4. CASE UNCHANGED vars
  BY <1>4, SameTablesIntegrity DEF vars, tables
<1>5. QED
  BY <1>3, <1>4 DEF Next, Quiescent

\* Group names are unique and no row refers to one that is not there, however
\* the requests of Catalog interleave and whichever of their queries fail.
THEOREM CatalogKeepsIntegrity == Spec => []Integrity
<1>1. Init => TypeInv /\ Integrity
  BY InitTypeInv, InitIntegrity
<1>2. TypeInv /\ Integrity /\ [Next]_vars => TypeInv' /\ Integrity'
  BY NextTyped, NextIntegrity
<1>3. QED
  BY <1>1, <1>2, PTL DEF Spec


-----------------------------------------------------------------------------
(***************************************************************************)
(* A DELETE of a content type and the permissions it does not know.        *)
(***************************************************************************)

AttachedIn(ps, t) == {p \in PermissionIds : ps[p] # Undefined /\ ps[p].type = t}

\* The permissions that save() loaded with the content type.
Known(q) == IF q.base = Undefined THEN {} ELSE q.base.attached

\* Whatever is attached to the content type that r deletes, r knows of or it
\* came late; after save() has let go of those it knew, the rest came late.
LagOf(r) ==
    req[r].kind = "deleteType" =>
      /\ At(r, "write") =>
           AttachedIn(perms, req[r].target) \subseteq late[r] \cup Known(req[r])
      /\ At(r, "remove") =>
           AttachedIn(perms, req[r].target) \subseteq late[r]

Lag == \A r \in Requests : LagOf(r)

\* Nothing is attached to a content type under deletion without being late.
NothingUnnoticed ==
    \A s \in Requests :
      /\ late[s] \subseteq late'[s]
      /\ req[s].kind = "deleteType" /\ req[s].pc \in {"write", "remove"} =>
           AttachedIn(perms', req[s].target)
             \subseteq AttachedIn(perms, req[s].target) \cup late'[s]

LEMMA Others ==
    ASSUME TypeInv, NEW r \in Requests, NEW q, Become(r, q)
    PROVE  /\ req'[r] = q
           /\ \A s \in Requests \ {r} : req'[s] = req[s]
BY DEF TypeInv, Shape, Become

\* Lag survives a step of r that leaves r itself sound.
LEMMA LagMoves ==
    ASSUME TypeInv, Lag, NothingUnnoticed, NEW r \in Requests, NEW q, Become(r, q),
           LagOf(r)'
    PROVE  Lag'
<1>1. ASSUME NEW s \in Requests \ {r} PROVE LagOf(s)'
  <2>1. req'[s] = req[s]
    BY Others
  <2>2. LagOf(s)
    BY DEF Lag
  <2>3. QED
    BY <2>1, <2>2 DEF LagOf, NothingUnnoticed, At, Known
<1>2. QED
  BY <1>1 DEF Lag

\* r is not about to save or to remove a content type.
Settled(q) == q.kind = "deleteType" => q.pc \notin {"write", "remove"}

LEMMA SettledMoves ==
    ASSUME TypeInv, Lag, NothingUnnoticed, NEW r \in Requests, NEW q, Become(r, q),
           Settled(q)
    PROVE  Lag'
<1>1. LagOf(r)'
  BY Others DEF LagOf, Settled, At
<1>2. QED
  BY <1>1, LagMoves

LEMMA SamePermissionsUnnoticed ==
    ASSUME UNCHANGED <<perms, late>> PROVE NothingUnnoticed
BY DEF NothingUnnoticed

LEMMA AnswerSettles ==
    ASSUME TypeInv, NEW r \in Requests, NEW a,
           NEW q, q = [req[r] EXCEPT !.pc = "done", !.answer = a, !.item = Undefined,
                                     !.base = Undefined]
    PROVE  Settled(q)
<1>1. Fields(req[r])
  BY DEF TypeInv, Shape, Proper
<1>2. q.pc = "done"
  BY <1>1 DEF Fields
<1>3. QED
  BY <1>2 DEF Settled

LEMMA AnswerLag ==
    ASSUME TypeInv, Lag, NothingUnnoticed, NEW r \in Requests, NEW a, Answer(r, a)
    PROVE  Lag'
BY AnswerSettles, SettledMoves DEF Answer

LEMMA BeginLag ==
    ASSUME TypeInv, Lag, NEW r \in Requests, NEW kind \in AllKinds, NEW step \in Steps,
           NEW target \in Optional(Ids), NEW item, kind = "deleteType" => step = "find",
           Begin(r, kind, step, target, item) \/ BeginUnlessDemo(r, kind, step, target, item)
    PROVE  Lag'
<1>1. NothingUnnoticed
  BY SamePermissionsUnnoticed DEF Begin, BeginUnlessDemo, tables
<1>2. Idle \in [kind: Optional(AllKinds), pc: Steps, target: Optional(Ids),
                item: Optional({item}), base: {Undefined}, answer: Optional(Answers)]
  BY DEF Idle, Optional, Steps
<1>3. CASE Begin(r, kind, step, target, item)
  <2> DEFINE q == [Idle EXCEPT !.kind = kind, !.pc = step, !.target = target,
                               !.item = item]
  <2>1. q.kind = kind /\ q.pc = step
    BY <1>2 DEF Optional
  <2>2. Become(r, q)
    BY <1>3 DEF Begin
  <2> HIDE DEF q
  <2>3. QED
    BY <1>1, <2>1, <2>2, SettledMoves DEF Settled
<1>4. CASE Become(r, [Idle EXCEPT !.kind = kind, !.pc = "done", !.answer = "notAllowed"])
  <2> DEFINE q == [Idle EXCEPT !.kind = kind, !.pc = "done", !.answer = "notAllowed"]
  <2>1. q.pc = "done"
    BY <1>2
  <2>2. Become(r, q)
    BY <1>4
  <2> HIDE DEF q
  <2>3. QED
    BY <1>1, <2>1, <2>2, SettledMoves DEF Settled
<1>5. QED
  BY <1>3, <1>4 DEF BeginUnlessDemo

LEMMA ArriveLag ==
    ASSUME TypeInv, Lag, NEW r \in Requests, Arrive(r)
    PROVE  Lag'
<1>1. PICK kind, step, target, item :
        /\ kind \in AllKinds /\ step \in Steps /\ target \in Optional(Ids)
        /\ kind = "deleteType" => step = "find"
        /\ \/ Begin(r, kind, step, target, item)
           \/ BeginUnlessDemo(r, kind, step, target, item)
  <2>1. CASE CreatePermission(r)
    <3>1. PICK body \in PermissionBodies :
             Begin(r, "createPermission", FirstStep(body.id), body.id, [type |-> body.type])
      BY <2>1 DEF CreatePermission
    <3>2. body.id \in Optional(Ids) /\ FirstStep(body.id) \in Steps
      BY CatalogAssumption, SubsetsOfIds
         DEF PermissionBody, FirstStep, Steps, Optional
    <3>3. QED
      BY <3>1, <3>2 DEF AllKinds
  <2>2. CASE CreateGroup(r)
    <3>1. PICK body \in GroupBodies :
             Begin(r, "createGroup", FirstStep(body.id), body.id,
                   [name |-> body.name, perms |-> body.perms])
      BY <2>2 DEF CreateGroup
    <3>2. body.id \in Optional(Ids) /\ FirstStep(body.id) \in Steps
      BY CatalogAssumption, SubsetsOfIds DEF GroupBody, FirstStep, Steps, Optional
    <3>3. QED
      BY <3>1, <3>2 DEF AllKinds
  <2>3. CASE CreateType(r)
    <3>1. PICK id \in Optional(PathIds \cap TypeIds) :
             Begin(r, "createType", FirstStep(id), id, Undefined)
      BY <2>3 DEF CreateType
    <3>2. id \in Optional(Ids) /\ FirstStep(id) \in Steps
      BY SubsetsOfIds DEF FirstStep, Steps, Optional
    <3>3. QED
      BY <3>1, <3>2 DEF AllKinds
  <2>4. CASE UpdatePermission(r) \/ DeletePermission(r) \/ GetPermission(r)
    BY <2>4, SubsetsOfIds
       DEF UpdatePermission, DeletePermission, GetPermission, AllKinds, Steps, Optional
  <2>5. CASE UpdateGroup(r) \/ DeleteGroup(r) \/ GetGroup(r)
    BY <2>5, SubsetsOfIds DEF UpdateGroup, DeleteGroup, GetGroup, AllKinds, Steps, Optional
  <2>6. CASE UpdateType(r) \/ DeleteType(r) \/ GetType(r)
    BY <2>6, SubsetsOfIds DEF UpdateType, DeleteType, GetType, AllKinds, Steps, Optional
  <2>7. CASE ListPermissions(r) \/ ListGroups(r) \/ ListTypes(r) \/ ListUsers(r)
    BY <2>7
       DEF ListPermissions, ListGroups, ListTypes, ListUsers, AllKinds, Steps, Optional
  <2>8. QED
    BY <2>1, <2>2, <2>3, <2>4, <2>5, <2>6, <2>7 DEF Arrive
<1>2. QED
  BY <1>1, BeginLag

LEMMA FindLag ==
    ASSUME TypeInv, Lag, NEW r \in Requests, Find(r)
    PROVE  Lag'
<1>1. NothingUnnoticed /\ Fields(req[r])
  BY SamePermissionsUnnoticed DEF Find, tables, TypeInv, Shape, Proper
<1>2. CASE Answer(r, "notFound") \/ Answer(r, "ok")
  BY <1>1, <1>2, AnswerLag
<1>3. CASE ~(Answer(r, "notFound") \/ Answer(r, "ok"))
  <2>1. PICK item : Become(r, [req[r] EXCEPT !.pc = "load", !.item = item])
                    \/ Become(r, [req[r] EXCEPT !.pc = "load"])
    BY <1>3 DEF Find, Goto
  <2>2. /\ [req[r] EXCEPT !.pc = "load", !.item = item].pc = "load"
        /\ [req[r] EXCEPT !.pc = "load"].pc = "load"
    BY <1>1 DEF Fields
  <2>3. QED
    BY <1>1, <2>1, <2>2, SettledMoves DEF Settled
<1>4. QED
  BY <1>2, <1>3

\* The SELECT of save() finds every permission of the content type: there are
\* none when the content type is not there.
LEMMA LoadLag ==
    ASSUME TypeInv, Integrity, Lag, NEW r \in Requests, Load(r)
    PROVE  Lag'
<1> DEFINE base == Stored(req[r].kind, req[r].target)
           q == [req[r] EXCEPT !.pc = "write", !.base = base]
<1>1. /\ NothingUnnoticed /\ Fields(req[r]) /\ At(r, "load") /\ Become(r, q)
      /\ UNCHANGED <<perms, late>>
  BY SamePermissionsUnnoticed DEF Load, tables, TypeInv, Shape, Proper
<1> HIDE DEF base
<1>2. /\ q.kind = req[r].kind /\ q.pc = "write" /\ q.target = req[r].target
      /\ q.base = base
  BY <1>1 DEF Fields
<1> HIDE DEF q
<1>3. CASE req[r].kind # "deleteType"
  BY <1>1, <1>2, <1>3, SettledMoves DEF Settled
<1>4. CASE req[r].kind = "deleteType"
  <2>1. req[r].target \in TypeIds
    BY <1>1, <1>4 DEF TypeInv, Shape, Proper, Targets, At, Optional
  <2>2. base = IF req[r].target \in types
               THEN [attached |-> AttachedIn(perms, req[r].target)] ELSE Undefined
    BY <1>4 DEF base, Stored, Attached, AttachedIn
  <2>3. CASE req[r].target \in types
    <3>1. [attached |-> AttachedIn(perms, req[r].target)].attached
            = AttachedIn(perms, req[r].target)
      OBVIOUS
    <3>2. AttachedIn(perms, req[r].target) \subseteq Known(q) \/ base = Undefined
      BY <1>2, <2>2, <2>3, <3>1 DEF Known
    <3>3. base # Undefined
      BY <2>2, <2>3, CatalogAssumption DEF AttachedIn
    <3>4. LagOf(r)'
      BY <1>1, <1>2, <3>2, <3>3, Others DEF LagOf, At
    <3>5. QED
      BY <1>1, <3>4, LagMoves
  <2>4. CASE req[r].target \notin types
    <3>1. AttachedIn(perms, req[r].target) = {}
      BY <2>1, <2>4, CatalogAssumption DEF Integrity, References, AttachedIn
    <3>2. LagOf(r)'
      BY <1>1, <1>2, <3>1, Others DEF LagOf, At
    <3>3. QED
      BY <1>1, <3>2, LagMoves
  <2>5. QED
    BY <2>3, <2>4
<1>5. QED
  BY <1>3, <1>4


LEMMA PageCountLag ==
    ASSUME TypeInv, Lag, NEW r \in Requests, Page(r) \/ Count(r)
    PROVE  Lag'
<1>1. NothingUnnoticed /\ Fields(req[r])
  BY SamePermissionsUnnoticed DEF Page, Count, tables, TypeInv, Shape, Proper
<1>2. CASE Answer(r, "error")
  BY <1>1, <1>2, AnswerLag
<1>3. CASE ~Answer(r, "error")
  <2>1. PICK base :
          \/ Become(r, [req[r] EXCEPT !.pc = "count", !.base = base])
          \/ Become(r, [req[r] EXCEPT !.pc = "done", !.answer = "ok", !.base = base])
    BY <1>3 DEF Page, Count
  <2>2. /\ [req[r] EXCEPT !.pc = "count", !.base = base].pc = "count"
        /\ [req[r] EXCEPT !.pc = "done", !.answer = "ok", !.base = base].pc = "done"
    BY <1>1 DEF Fields
  <2>3. QED
    BY <1>1, <2>1, <2>2, SettledMoves DEF Settled
<1>4. QED
  BY <1>2, <1>3

\* A commit that is not a content type's deletion ends its request.
LEMMA CommittedLag ==
    ASSUME TypeInv, Lag, NothingUnnoticed, NEW r \in Requests, NEW id,
           req[r].kind # "deleteType", Committed(r, id)
    PROVE  Lag'
<1>1. Fields(req[r])
  BY DEF TypeInv, Shape, Proper
<1>2. PICK q : /\ Become(r, q)
               /\ \/ q = [req[r] EXCEPT !.pc = "remove", !.item = Undefined,
                                        !.base = Undefined]
                  \/ q = [req[r] EXCEPT !.pc = "done", !.answer = "ok", !.target = id,
                                        !.item = Undefined, !.base = Undefined]
  BY DEF Committed
<1>3. Settled(q)
  BY <1>1, <1>2 DEF Fields, Settled
<1>4. QED
  BY <1>2, <1>3, SettledMoves

LEMMA AttachingUnnoticed ==
    ASSUME TypeInv, NEW p \in PermissionIds, NEW row,
           perms' = [perms EXCEPT ![p] = row], Attaching(p, row.type)
    PROVE  NothingUnnoticed
<1>1. \A q \in PermissionIds : perms'[q] = IF q = p THEN row ELSE perms[q]
  BY DEF TypeInv, TypeOK
<1>2. QED
  BY <1>1 DEF NothingUnnoticed, Attaching, AttachedIn

LEMMA PermissionLag ==
    ASSUME TypeInv, Lag, NEW r \in Requests,
           InsertPermission(r) \/ OverwritePermission(r)
    PROVE  Lag'
<1>1. At(r, "write") /\ req[r].kind \in PermissionKinds
  BY DEF InsertPermission, OverwritePermission
<1>2. CASE UNCHANGED <<perms, late>>
  <2>1. \/ Answer(r, "error")
        \/ \E id : Committed(r, id)
    BY <1>2 DEF InsertPermission, OverwritePermission
  <2>2. QED
    BY <1>1, <1>2, <2>1, SamePermissionsUnnoticed, AnswerLag, CommittedLag
<1>3. CASE ~UNCHANGED <<perms, late>>
  <2>1. PICK p, row :
          /\ p \in PermissionIds
          /\ perms' = [perms EXCEPT ![p] = row]
          /\ Attaching(p, row.type)
          /\ Committed(r, p)
    <3>1. CASE InsertPermission(r)
      <4>1. PICK id \in InsertIds(r, PermissionIds) :
              LET row == [type |-> Default(req[r].item.type, Null)] IN
              /\ perms' = [perms EXCEPT ![id] = row]
              /\ Attaching(id, row.type)
              /\ Committed(r, id)
        BY <1>3, <3>1 DEF InsertPermission
      <4>2. id \in PermissionIds
        BY <1>1, WritingPermission DEF InsertIds, Optional
      <4>3. QED
        BY <4>1, <4>2
    <3>2. CASE OverwritePermission(r)
      <4> DEFINE id == req[r].target
                 type == Column(req[r].item.type, req[r].base.type, perms[id].type)
                 row == [perms[id] EXCEPT !.type = type]
      <4>1. /\ perms[id] # Undefined
            /\ perms' = [perms EXCEPT ![id] = row]
            /\ Attaching(id, type)
            /\ Committed(r, id)
        BY <1>3, <3>2 DEF OverwritePermission
      <4>2. id \in PermissionIds
        BY <1>1, <3>2, WritingPermission DEF OverwritePermission
      <4>3. perms[id] \in Permission
        BY <4>1, <4>2 DEF TypeInv, TypeOK, Optional
      <4>4. row.type = type
        BY <4>3 DEF Permission
      <4>5. QED
        BY <4>1, <4>2, <4>4
    <3>3. QED
      BY <3>1, <3>2
  <2>2. QED
    BY <1>1, <2>1, AttachingUnnoticed, CommittedLag
<1>4. QED
  BY <1>2, <1>3

LEMMA GroupLag ==
    ASSUME TypeInv, Lag, NEW r \in Requests, InsertGroup(r) \/ OverwriteGroup(r)
    PROVE  Lag'
<1>1. req[r].kind \in GroupKinds /\ UNCHANGED <<perms, late>>
  BY DEF InsertGroup, OverwriteGroup
<1>2. Answer(r, "error") \/ \E id : Committed(r, id)
  BY DEF InsertGroup, OverwriteGroup
<1>3. QED
  BY <1>1, <1>2, SamePermissionsUnnoticed, AnswerLag, CommittedLag

\* A delete's save() lets go of the permissions it loaded.
LEMMA DetachLag ==
    ASSUME TypeInv, Lag, NothingUnnoticed, NEW r \in Requests,
           At(r, "write"), req[r].kind = "deleteType", NEW id, Committed(r, id),
           UNCHANGED late,
           AttachedIn(perms', req[r].target)
             \subseteq AttachedIn(perms, req[r].target) \ Known(req[r])
    PROVE  Lag'
<1> DEFINE q == [req[r] EXCEPT !.pc = "remove", !.item = Undefined, !.base = Undefined]
<1>1. Become(r, q)
  BY DEF Committed
<1>2. Fields(req[r])
  BY DEF TypeInv, Shape, Proper
<1>3. q.pc = "remove" /\ q.target = req[r].target
  BY <1>2 DEF Fields
<1> HIDE DEF q
<1>4. AttachedIn(perms, req[r].target) \subseteq late[r] \cup Known(req[r])
  BY DEF Lag, LagOf
<1>5. LagOf(r)'
  BY <1>1, <1>3, <1>4, Others DEF LagOf, At
<1>6. QED
  BY <1>1, <1>5, LagMoves

LEMMA InsertTypeLag ==
    ASSUME TypeInv, Lag, NEW r \in Requests, InsertType(r)
    PROVE  Lag'
<1>1. /\ NothingUnnoticed /\ UNCHANGED <<perms, late>> /\ At(r, "write")
      /\ req[r].base = Undefined
  BY SamePermissionsUnnoticed DEF InsertType
<1>2. Answer(r, "error") \/ \E id : Committed(r, id)
  BY DEF InsertType
<1>3. Known(req[r]) = {}
  BY <1>1 DEF Known
<1>4. QED
  BY <1>1, <1>2, <1>3, AnswerLag, CommittedLag, DetachLag

LEMMA OverwriteTypeLag ==
    ASSUME TypeInv, Lag, NEW r \in Requests, OverwriteType(r)
    PROVE  Lag'
<1>1. /\ At(r, "write") /\ req[r].kind \in TypeKinds /\ req[r].base # Undefined
      /\ perms' = [p \in PermissionIds |->
                     IF perms[p] # Undefined /\ p \in Detached(r)
                     THEN [perms[p] EXCEPT !.type = Null] ELSE perms[p]]
      /\ Committed(r, req[r].target)
      /\ UNCHANGED <<types, groups, demo, members, faults, late>>
  BY DEF OverwriteType
<1>2. \A p \in PermissionIds :
        perms[p] # Undefined => [perms[p] EXCEPT !.type = Null].type = Null
  BY DEF TypeInv, TypeOK, Optional, Permission
<1>3. \A p \in PermissionIds :
        \/ perms'[p] = perms[p] /\ (p \in Detached(r) => perms[p] = Undefined)
        \/ perms[p] # Undefined /\ perms'[p].type = Null
  <2> DEFINE let == Detached(r)
  <2>1. perms' = [p \in PermissionIds |->
                   IF perms[p] # Undefined /\ p \in let
                   THEN [perms[p] EXCEPT !.type = Null] ELSE perms[p]]
    BY <1>1
  <2> HIDE DEF let
  <2>2. \A p \in PermissionIds :
          perms'[p] = IF perms[p] # Undefined /\ p \in let
                      THEN [perms[p] EXCEPT !.type = Null] ELSE perms[p]
    BY <2>1
  <2>3. QED
    BY <1>2, <2>2 DEF let
<1>4. ASSUME NEW s \in Requests, req[s].kind = "deleteType",
             req[s].pc \in {"write", "remove"}
      PROVE  AttachedIn(perms', req[s].target)
               \subseteq AttachedIn(perms, req[s].target) \ Detached(r)
  <2>1. req[s].target \in TypeIds
    BY <1>4 DEF TypeInv, Shape, Proper, Targets, Optional
  <2>2. req[s].target # Null
    BY <2>1, CatalogAssumption
  <2>3. QED
    BY <1>3, <2>2 DEF AttachedIn
<1>5. NothingUnnoticed
  BY <1>1, <1>4 DEF NothingUnnoticed
<1>6. CASE req[r].kind # "deleteType"
  BY <1>1, <1>5, <1>6, CommittedLag
<1>7. CASE req[r].kind = "deleteType"
  <2>1. Detached(r) = Known(req[r])
    BY <1>1, <1>7 DEF Detached, Known
  <2>2. QED
    BY <1>1, <1>4, <1>5, <1>7, <2>1, DetachLag DEF At
<1>8. QED
  BY <1>6, <1>7

LEMMA RemoveLag ==
    ASSUME TypeInv, Lag, NEW r \in Requests,
           RemovePermission(r) \/ RemoveGroup(r) \/ RemoveType(r) \/ QueryFails(r)
    PROVE  Lag'
<1>1. \E a : Answer(r, a)
  BY DEF RemovePermission, RemoveGroup, RemoveType, QueryFails
<1>2. CASE RemovePermission(r)
  <2>1. \A p \in PermissionIds : perms'[p] = perms[p] \/ perms'[p] = Undefined
    BY <1>2 DEF RemovePermission, TypeInv, TypeOK
  <2>2. NothingUnnoticed
    BY <1>2, <2>1 DEF RemovePermission, NothingUnnoticed, AttachedIn
  <2>3. QED
    BY <1>1, <2>2, AnswerLag
<1>3. CASE ~RemovePermission(r)
  <2>1. UNCHANGED <<perms, late>>
    BY <1>3 DEF RemoveGroup, RemoveType, QueryFails, tables
  <2>2. QED
    BY <1>1, <2>1, SamePermissionsUnnoticed, AnswerLag
<1>4. QED
  BY <1>2, <1>3

LEMMA NextLag == TypeInv /\ Integrity /\ Lag /\ [Next]_vars => Lag'
<1> SUFFICES ASSUME TypeInv, Integrity, Lag, [Next]_vars PROVE Lag'
  OBVIOUS
<1>1. ASSUME NEW r \in Requests, Step(r) PROVE Lag'
  BY <1>1, ArriveLag, FindLag, LoadLag, PageCountLag, PermissionLag, GroupLag,
     InsertTypeLag, OverwriteTypeLag, RemoveLag
     DEF Step
<1>2. CASE UNCHANGED vars
  BY <1>2 DEF Lag, LagOf, At, vars, tables
<1>3. QED
  BY <1>1, <1>2 DEF Next, Quiescent

LEMMA InitLag == Init => Lag
BY DEF Init, Lag, LagOf, At, Idle


\* A step moves one request.
LEMMA StepBecomes ==
    ASSUME NEW r \in Requests, Step(r) PROVE \E q : Become(r, q)
<1>1. CASE Arrive(r)
  BY <1>1 DEF Arrive, Begin, BeginUnlessDemo, CreatePermission, UpdatePermission,
     DeletePermission, GetPermission, CreateGroup, UpdateGroup, DeleteGroup, GetGroup,
     CreateType, UpdateType, DeleteType, GetType, ListPermissions, ListGroups,
     ListTypes, ListUsers
<1>2. CASE Find(r) \/ Load(r) \/ Page(r) \/ Count(r)
  BY <1>2 DEF Find, Load, Page, Count, Goto, Answer
<1>3. CASE InsertPermission(r) \/ OverwritePermission(r) \/ RemovePermission(r)
  BY <1>3 DEF InsertPermission, OverwritePermission, RemovePermission, Answer, Committed
<1>4. CASE InsertGroup(r) \/ OverwriteGroup(r) \/ RemoveGroup(r)
  BY <1>4 DEF InsertGroup, OverwriteGroup, RemoveGroup, Answer, Committed
<1>5. CASE InsertType(r) \/ OverwriteType(r) \/ RemoveType(r) \/ QueryFails(r)
  BY <1>5 DEF InsertType, OverwriteType, RemoveType, QueryFails, Answer, Committed
<1>6. QED
  BY <1>1, <1>2, <1>3, <1>4, <1>5 DEF Step

\* Of the steps of a request whose next query is the DELETE of a content type,
\* only that DELETE is answered with an error, unless a query fails.
LEMMA Removing ==
    ASSUME TypeInv, NEW r \in Requests, Step(r), At(r, "remove"),
           req[r].kind = "deleteType", UNCHANGED faults
    PROVE  RemoveType(r)
<1>1. ~QueryFails(r)
  BY CatalogAssumption DEF QueryFails, TypeInv, TypeOK
<1>2. ~Arrive(r)
  BY DEF Arrive, At, Begin, BeginUnlessDemo, CreatePermission, UpdatePermission,
     DeletePermission, GetPermission, CreateGroup, UpdateGroup, DeleteGroup, GetGroup,
     CreateType, UpdateType, DeleteType, GetType, ListPermissions, ListGroups,
     ListTypes, ListUsers
<1>3. QED
  BY <1>1, <1>2 DEF Step, At, Find, Load, Page, Count, InsertPermission,
     OverwritePermission, RemovePermission, InsertGroup, OverwriteGroup, RemoveGroup,
     InsertType, OverwriteType

\* Deleting a content type fails only if somebody gave it to a permission after
\* the request had read the permissions it lets go of, or if a query fails.
THEOREM DeletesFailOnlyIfLate == Spec => DeleteFailsOnlyIfLate
<1> DEFINE Refused(r) ==
             /\ req[r].kind = "deleteType"
             /\ At(r, "remove")
             /\ req'[r].answer = "error"
             /\ UNCHANGED faults
           Late(r) == \E p \in late[r] : perms[p] # Undefined /\ perms[p].type = req[r].target
<1>1. ASSUME TypeInv, Lag, [Next]_vars, NEW r \in Requests, Refused(r) PROVE Late(r)
  <2>1. req[r].answer # "error"
    BY <1>1, CatalogAssumption DEF TypeInv, Shape, Proper, At, Answers
  <2>2. PICK s \in Requests : Step(s)
    BY <1>1, <2>1 DEF Next, Quiescent, vars
  <2>3. s = r
    BY <1>1, <2>1, <2>2, StepBecomes, Others
  <2>4. RemoveType(r)
    BY <1>1, <2>2, <2>3, Removing
  <2>5. CASE InUse(req[r].target)
    <3>1. AttachedIn(perms, req[r].target) \subseteq late[r]
      BY <1>1 DEF Lag, LagOf
    <3>2. QED
      BY <2>5, <3>1 DEF InUse, Attached, AttachedIn
  <2>6. CASE ~InUse(req[r].target)
    <3>1. Answer(r, "ok")
      BY <2>4, <2>6 DEF RemoveType
    <3>2. req'[r].answer = "ok"
      BY <1>1, <3>1, AnswerMoves DEF Answers, TypeInv, At
    <3>3. QED
      BY <1>1, <3>2
  <2>7. QED
    BY <2>5, <2>6
<1>2. TypeInv /\ Lag /\ [Next]_vars => [\A r \in Requests : Refused(r) => Late(r)]_vars
  BY <1>1
<1>3. Init => TypeInv /\ Integrity /\ Lag
  BY InitTypeInv, InitIntegrity, InitLag
<1>4. TypeInv /\ Integrity /\ Lag /\ [Next]_vars => TypeInv' /\ Integrity' /\ Lag'
  BY NextTyped, NextIntegrity, NextLag
<1>5. QED
  BY <1>2, <1>3, <1>4, PTL DEF Spec, DeleteFailsOnlyIfLate

-----------------------------------------------------------------------------
(***************************************************************************)
(* A DELETE gives nothing.                                                 *)
(***************************************************************************)

\* What DeletesGiveNothing forbids a step.
GivesNothing ==
    /\ \A g \in GroupIds : Held(g)' \subseteq Held(g)
    /\ \A g \in GroupIds : members'[g] \subseteq members[g]
    /\ \A p \in PermissionIds :
          perms'[p] # Undefined
          => /\ perms[p] # Undefined
             /\ perms'[p].type \in {perms[p].type, Null}

LEMMA UnmovedGivesNothing ==
    ASSUME UNCHANGED tables PROVE GivesNothing
BY DEF GivesNothing, Held, tables

\* delete() has emptied the group that its save() inserts.
LEMMA InsertGroupGivesNothing ==
    ASSUME TypeInv, NEW r \in Requests, InsertGroup(r), req[r].kind = "deleteGroup"
    PROVE  GivesNothing
<1>1. req[r].item.perms = {} /\ UNCHANGED <<perms, members>>
  BY DEF InsertGroup, TypeInv, Shape, Proper, Carries, At
<1>2. PICK id : \/ UNCHANGED groups
                \/ groups' = [groups EXCEPT ![id] =
                     [name |-> req[r].item.name,
                      perms |-> Default(req[r].item.perms, {})]]
  BY DEF InsertGroup
<1>3. Default(req[r].item.perms, {}) = {}
  BY <1>1 DEF Default
<1>4. \A g \in GroupIds : Held(g)' \subseteq Held(g)
  BY <1>2, <1>3 DEF Held, TypeInv, TypeOK
<1>5. QED
  BY <1>1, <1>4 DEF GivesNothing

\* So there is nothing that save() adds to a row that it has loaded.
LEMMA OverwriteGroupGivesNothing ==
    ASSUME TypeInv, NEW r \in Requests, OverwriteGroup(r), req[r].kind = "deleteGroup"
    PROVE  GivesNothing
<1> DEFINE id == req[r].target
           dropped == Dropped(req[r].item, req[r].base)
<1>1. req[r].item.perms = {} /\ UNCHANGED <<perms, members>>
  BY DEF OverwriteGroup, TypeInv, Shape, Proper, Carries, At
<1>2. Added(req[r].item, req[r].base) = {}
  BY <1>1 DEF Added
<1>3. PICK name : \/ UNCHANGED groups
                  \/ /\ groups[id] # Undefined
                     /\ groups' = [groups EXCEPT ![id] =
                          [name |-> name,
                           perms |-> (groups[id].perms \cup {}) \ dropped]]
  BY <1>2 DEF OverwriteGroup
<1> HIDE DEF dropped
<1>4. ASSUME NEW g \in GroupIds PROVE Held(g)' \subseteq Held(g)
  <2>1. CASE UNCHANGED groups \/ g # id
    <3>1. groups'[g] = groups[g]
      BY <1>3, <2>1 DEF TypeInv, TypeOK
    <3>2. QED
      BY <3>1 DEF Held
  <2>2. CASE groups' # groups /\ g = id
    <3>1. /\ groups[g] # Undefined
          /\ groups'[g] = [name |-> name, perms |-> (groups[g].perms \cup {}) \ dropped]
      BY <1>3, <2>2 DEF TypeInv, TypeOK
    <3>2. groups'[g].perms \subseteq groups[g].perms
      BY <3>1
    <3>3. QED
      BY <3>1, <3>2 DEF Held
  <2>3. QED
    BY <2>1, <2>2
<1>5. QED
  BY <1>1, <1>4 DEF GivesNothing

\* The save() of a content type's delete takes it off permissions.
LEMMA OverwriteTypeGivesNothing ==
    ASSUME TypeInv, NEW r \in Requests, OverwriteType(r)
    PROVE  GivesNothing
<1>1. UNCHANGED <<groups, members>>
  BY DEF OverwriteType
<1>2. \A p \in PermissionIds :
        perms[p] # Undefined => [perms[p] EXCEPT !.type = Null].type = Null
  BY DEF TypeInv, TypeOK, Optional, Permission
<1>3. \A p \in PermissionIds :
        \/ perms'[p] = perms[p]
        \/ perms[p] # Undefined /\ perms'[p] = [perms[p] EXCEPT !.type = Null]
  BY DEF OverwriteType
<1>4. QED
  BY <1>1, <1>2, <1>3 DEF GivesNothing, Held

LEMMA RemoveGivesNothing ==
    ASSUME TypeInv, NEW r \in Requests,
           RemovePermission(r) \/ RemoveGroup(r) \/ RemoveType(r)
    PROVE  GivesNothing
<1>1. CASE RemovePermission(r)
  <2> DEFINE id == req[r].target
  <2>1. \A g \in GroupIds : groups[g] # Undefined =>
          [groups[g] EXCEPT !.perms = @ \ {id}].perms = groups[g].perms \ {id}
    BY DEF TypeInv, TypeOK, Optional, Group
  <2>2. \A g \in GroupIds :
          groups'[g] = IF groups[g] = Undefined THEN Undefined
                       ELSE [groups[g] EXCEPT !.perms = @ \ {id}]
    BY <1>1 DEF RemovePermission, WithoutPermission
  <2>3. \A g \in GroupIds : Held(g)' \subseteq Held(g)
    BY <2>1, <2>2 DEF Held
  <2>4. \A p \in PermissionIds : perms'[p] \in {perms[p], Undefined}
    BY <1>1 DEF RemovePermission, TypeInv, TypeOK
  <2>5. UNCHANGED members
    BY <1>1 DEF RemovePermission
  <2>6. QED
    BY <2>3, <2>4, <2>5 DEF GivesNothing
<1>2. CASE RemoveGroup(r)
  BY <1>2 DEF RemoveGroup, GivesNothing, Held, TypeInv, TypeOK
<1>3. CASE RemoveType(r)
  BY <1>3 DEF RemoveType, GivesNothing, Held
<1>4. QED
  BY <1>1, <1>2, <1>3

\* Steps that leave the tables alone.
LEMMA QuietSteps ==
    ASSUME NEW r \in Requests,
           Arrive(r) \/ Find(r) \/ Load(r) \/ Page(r) \/ Count(r) \/ QueryFails(r)
    PROVE  UNCHANGED tables
BY DEF Arrive, Begin, BeginUnlessDemo, tables, CreatePermission,
   UpdatePermission, DeletePermission, GetPermission, CreateGroup, UpdateGroup,
   DeleteGroup, GetGroup, CreateType, UpdateType, DeleteType, GetType,
   ListPermissions, ListGroups, ListTypes, ListUsers, Find, Load, Page, Count,
   QueryFails

LEMMA StepGivesNothing ==
    ASSUME TypeInv, NEW r \in Requests, Step(r), req[r].kind \in DeleteKinds
    PROVE  GivesNothing
<1>1. CASE Arrive(r) \/ Find(r) \/ Load(r) \/ Page(r) \/ Count(r) \/ QueryFails(r)
  BY <1>1, QuietSteps, UnmovedGivesNothing
<1>2. ~InsertPermission(r) /\ ~OverwritePermission(r)
  BY DEF InsertPermission, OverwritePermission
<1>3. CASE InsertGroup(r)
  BY <1>3, InsertGroupGivesNothing DEF InsertGroup
<1>4. CASE OverwriteGroup(r)
  BY <1>4, OverwriteGroupGivesNothing DEF OverwriteGroup
<1>5. CASE InsertType(r)
  BY <1>5 DEF InsertType, GivesNothing, Held
<1>6. QED
  BY <1>1, <1>2, <1>3, <1>4, <1>5, OverwriteTypeGivesNothing, RemoveGivesNothing
     DEF Step

\* However the steps of a DELETE interleave with other requests, and whatever
\* has become stale of what it found, it gives nothing to anybody.
THEOREM DeletesGive == Spec => DeletesGiveNothing
<1>1. ASSUME TypeInv, [Next]_vars, NEW r \in Requests,
             req[r].kind \in DeleteKinds, req'[r] # req[r]
      PROVE  GivesNothing
  <2>1. PICK s \in Requests : Step(s)
    BY <1>1 DEF Next, Quiescent, vars
  <2>2. s = r
    BY <1>1, <2>1, StepBecomes, Others
  <2>3. QED
    BY <1>1, <2>1, <2>2, StepGivesNothing
<1>2. TypeInv /\ [Next]_vars =>
        [\A r \in Requests :
           req[r].kind \in DeleteKinds /\ req'[r] # req[r]
           => /\ \A g \in GroupIds : Held(g)' \subseteq Held(g)
              /\ \A g \in GroupIds : members'[g] \subseteq members[g]
              /\ \A p \in PermissionIds :
                    perms'[p] # Undefined
                    => /\ perms[p] # Undefined
                       /\ perms'[p].type \in {perms[p].type, Null}]_vars
  BY <1>1 DEF GivesNothing
<1>3. QED
  BY <1>2, InitTypeInv, NextTyped, PTL DEF Spec, DeletesGiveNothing

-----------------------------------------------------------------------------
(***************************************************************************)
(* PagesDivide: the tables stay finite, what a list matches is part of a   *)
(* table, and ListsProofs says how the pages of a finite set divide it.    *)
(***************************************************************************)

Finite ==
    /\ IsFiniteSet(types)
    /\ IsFiniteSet(Rows(perms))
    /\ IsFiniteSet(Rows(groups))

\* T has at most one element that S does not have.
Grows(S, T) == \E x : T \subseteq S \cup {x}

LEMMA FiniteGrows ==
    ASSUME NEW S, NEW T, IsFiniteSet(S), Grows(S, T) PROVE IsFiniteSet(T)
<1>1. PICK x : T \subseteq S \cup {x}
  BY DEF Grows
<1>2. IsFiniteSet(S \cup {x})
  BY FS_AddElement
<1>3. T \in SUBSET (S \cup {x})
  BY <1>1
<1>4. QED
  BY <1>2, <1>3, FS_Subset

LEMMA RowWritten ==
    ASSUME NEW D, NEW table, DOMAIN table = D, NEW id, NEW row
    PROVE  Grows(Rows(table), Rows([table EXCEPT ![id] = row]))
<1>1. Rows([table EXCEPT ![id] = row]) \subseteq Rows(table) \cup {id}
  BY DEF Rows
<1>2. QED
  BY <1>1 DEF Grows

LEMMA NoGrowth ==
    ASSUME NEW S, NEW T, T \subseteq S PROVE Grows(S, T)
BY DEF Grows

\* A step adds at most one row to a table.
LEMMA PermissionsGrow ==
    ASSUME TypeInv, NEW r \in Requests,
           \/ InsertPermission(r) \/ OverwritePermission(r)
           \/ OverwriteType(r) \/ RemovePermission(r)
    PROVE  Grows(Rows(perms), Rows(perms'))
<1>1. DOMAIN perms = PermissionIds
  BY DEF TypeInv, TypeOK
<1>2. CASE perms' = perms
  BY <1>2, NoGrowth
<1>3. CASE \E id, row : perms' = [perms EXCEPT ![id] = row]
  BY <1>1, <1>3, RowWritten
<1>4. CASE OverwriteType(r)
  <2>1. perms' = [p \in PermissionIds |->
                   IF perms[p] # Undefined /\ p \in Detached(r)
                   THEN [perms[p] EXCEPT !.type = Null] ELSE perms[p]]
    BY <1>4 DEF OverwriteType
  <2>2. \A p \in DOMAIN perms' : p \in DOMAIN perms
          /\ (perms'[p] # Undefined => perms[p] # Undefined)
    BY <1>1, <2>1
  <2>3. Rows(perms') \subseteq Rows(perms)
    BY <2>2 DEF Rows
  <2>4. QED
    BY <2>3, NoGrowth
<1>5. CASE InsertPermission(r)
  BY <1>2, <1>3, <1>5 DEF InsertPermission
<1>6. CASE OverwritePermission(r)
  BY <1>2, <1>3, <1>6 DEF OverwritePermission
<1>7. CASE RemovePermission(r)
  BY <1>3, <1>7 DEF RemovePermission
<1>8. QED
  BY <1>4, <1>5, <1>6, <1>7

LEMMA GroupsGrow ==
    ASSUME TypeInv, NEW r \in Requests,
           \/ InsertGroup(r) \/ OverwriteGroup(r)
           \/ RemoveGroup(r) \/ RemovePermission(r)
    PROVE  Grows(Rows(groups), Rows(groups'))
<1>1. DOMAIN groups = GroupIds
  BY DEF TypeInv, TypeOK
<1>2. CASE groups' = groups
  BY <1>2, NoGrowth
<1>3. CASE \E id, row : groups' = [groups EXCEPT ![id] = row]
  BY <1>1, <1>3, RowWritten
<1>4. CASE RemovePermission(r)
  <2>1. groups' = [g \in GroupIds |->
                    IF groups[g] = Undefined THEN Undefined
                    ELSE [groups[g] EXCEPT !.perms = @ \ {req[r].target}]]
    BY <1>4 DEF RemovePermission, WithoutPermission
  <2>2. \A g \in DOMAIN groups' : g \in DOMAIN groups
          /\ (groups'[g] # Undefined => groups[g] # Undefined)
    BY <1>1, <2>1
  <2>3. Rows(groups') \subseteq Rows(groups)
    BY <2>2 DEF Rows
  <2>4. QED
    BY <2>3, NoGrowth
<1>5. CASE InsertGroup(r)
  BY <1>2, <1>3, <1>5 DEF InsertGroup
<1>6. CASE OverwriteGroup(r)
  BY <1>2, <1>3, <1>6 DEF OverwriteGroup
<1>7. CASE RemoveGroup(r)
  BY <1>3, <1>7 DEF RemoveGroup
<1>8. QED
  BY <1>4, <1>5, <1>6, <1>7

LEMMA TypesGrow ==
    ASSUME NEW r \in Requests, InsertType(r) \/ RemoveType(r)
    PROVE  Grows(types, types')
BY DEF InsertType, RemoveType, Grows

LEMMA NextFinite == TypeInv /\ Finite /\ [Next]_vars => Finite'
<1> SUFFICES ASSUME TypeInv, Finite, [Next]_vars PROVE Finite'
  OBVIOUS
<1> DEFINE allGrow == /\ Grows(types, types')
                      /\ Grows(Rows(perms), Rows(perms'))
                      /\ Grows(Rows(groups), Rows(groups'))
<1>1. ASSUME UNCHANGED <<types, perms, groups>> PROVE allGrow
  BY <1>1, NoGrowth
<1>2. ASSUME NEW r \in Requests, Step(r) PROVE allGrow
  <2>1. CASE Arrive(r)
    BY <1>1, <2>1, ArriveKeepsTables
  <2>2. CASE Find(r) \/ Load(r) \/ Page(r) \/ Count(r) \/ QueryFails(r)
    <3>1. UNCHANGED <<types, perms, groups>>
      BY <2>2 DEF Find, Load, Page, Count, QueryFails, tables
    <3>2. QED
      BY <1>1, <3>1
  <2>3. CASE InsertPermission(r) \/ OverwritePermission(r) \/ OverwriteType(r)
    <3>1. UNCHANGED <<types, groups>>
      BY <2>3 DEF InsertPermission, OverwritePermission, OverwriteType
    <3>2. QED
      BY <2>3, <3>1, NoGrowth, PermissionsGrow
  <2>4. CASE InsertGroup(r) \/ OverwriteGroup(r) \/ RemoveGroup(r)
    <3>1. UNCHANGED <<types, perms>>
      BY <2>4 DEF InsertGroup, OverwriteGroup, RemoveGroup
    <3>2. QED
      BY <2>4, <3>1, NoGrowth, GroupsGrow
  <2>5. CASE RemovePermission(r)
    <3>1. UNCHANGED types
      BY <2>5 DEF RemovePermission
    <3>2. QED
      BY <2>5, <3>1, NoGrowth, PermissionsGrow, GroupsGrow
  <2>6. CASE InsertType(r) \/ RemoveType(r)
    <3>1. UNCHANGED <<perms, groups>>
      BY <2>6 DEF InsertType, RemoveType
    <3>2. QED
      BY <2>6, <3>1, NoGrowth, TypesGrow
  <2>7. QED
    BY <1>2, <2>1, <2>2, <2>3, <2>4, <2>5, <2>6 DEF Step
<1>3. allGrow
  <2>1. CASE UNCHANGED vars
    BY <1>1, <2>1 DEF vars, tables
  <2>2. QED
    BY <1>2, <2>1 DEF Next, Quiescent
<1>4. QED
  BY <1>3, FiniteGrows DEF Finite

LEMMA InitFinite == Init => Finite
BY CatalogFinite DEF Init, Finite

\* The filters of a list leave a part of its table.
LEMMA MatchingIsFinite ==
    ASSUME TypeInv, Finite, NEW kind \in ListKinds, NEW query \in Queries
    PROVE  /\ Matching(kind, query) \in SUBSET Int
           /\ IsFiniteSet(Matching(kind, query))
<1>1. \A all, filters : Where(all, filters) \in SUBSET all
  BY DEF Where
<1>2. PICK table \in {Rows(perms), Rows(groups), types, Users} :
         Matching(kind, query) \in SUBSET table
  BY <1>1 DEF Matching
<1>3. IsFiniteSet(table)
  BY <1>2, CatalogFinite DEF Finite
<1>4. table \in SUBSET Int
  <2>1. PermissionIds \cup GroupIds \cup TypeIds \cup Users \subseteq Int
    BY CatalogAssumption DEF Ids
  <2>2. QED
    BY <1>2, <2>1 DEF Rows, TypeInv, TypeOK
<1>5. QED
  BY <1>2, <1>3, <1>4, FS_Subset

LEMMA FiniteDivides == TypeInv /\ Finite => PagesDivide
<1> SUFFICES ASSUME TypeInv, Finite,
                    NEW rows \in {Matching(kind, query) :
                                    kind \in ListKinds, query \in Queries},
                    NEW sort \in {"id", "-id"}, NEW per \in 1..3
             PROVE  Divided(rows, sort, per)
  BY DEF PagesDivide
<1>1. rows \in SUBSET Int /\ IsFiniteSet(rows)
  BY MatchingIsFinite
<1>2. per \in Nat \ {0}
  OBVIOUS
<1>3. QED
  BY <1>1, <1>2, PagesDivideAnyRows

\* Whatever is in the tables, and however a list is filtered and ordered, its
\* pages divide what it matches.
THEOREM CatalogPagesDivide == Spec => []PagesDivide
<1>1. Init => TypeInv /\ Finite
  BY InitTypeInv, InitFinite
<1>2. TypeInv /\ Finite /\ [Next]_vars => TypeInv' /\ Finite'
  BY NextTyped, NextFinite
<1>3. QED
  BY <1>1, <1>2, FiniteDivides, PTL DEF Spec
=============================================================================
