------------------------------- MODULE Users -------------------------------
(***************************************************************************)
(* The user accounts of the master database: the requests of               *)
(* UsersController, AccountController and the sign-in and sign-up          *)
(* strategies, each a sequence of database round trips that interleaves    *)
(* with the others.  A request is an asynchronous call of a Node process;  *)
(* between two of its awaits any other request may run, so every await on  *)
(* the database is a step of its own.  Repository.save() is two steps: it  *)
(* loads the stored row, then writes, in one transaction, what differs     *)
(* between the entity in memory and the row it loaded.                     *)
(*                                                                         *)
(* The lastLogin column is left out: it makes update() always write, which *)
(* no property tells apart.  Definitions marked "Fault" are bugs the code  *)
(* does not have; no action uses them.  They show that the properties can  *)
(* fail.                                                                   *)
(***************************************************************************)
EXTENDS Naturals

CONSTANTS
    Requests,       \* the HTTP requests of a behaviour
    MaxId,          \* bound: primary keys are 1..MaxId
    Emails, Usernames, Passwords,
    InvalidEmails,  \* the emails that @IsEmail() rejects
    FlagColumns,    \* isSuperuser, isStaff, isActive: columns of their own
    Groups,         \* group ids
    UserGroup,      \* the id of the group named 'user'
    Kinds,          \* the kinds of request that clients send
    Bodies,         \* the JSON bodies that clients send
    PathIds,        \* the ids that clients name
    Seed,           \* the users table at the start
    SeedSeq,        \* the value of the id sequence at the start
    MaxFaults,      \* bound: failed queries in a behaviour
    Demo,           \* coreConfig.demo
    Undefined       \* JavaScript's undefined, an absent row, SQL NULL

Ids == 1..MaxId

Optional(S) == {Undefined} \cup S

\* A row of users with the group ids of its user_groups rows.
Entity == [email: Emails, username: Usernames, password: Passwords,
           flags: [FlagColumns -> BOOLEAN], groups: SUBSET Groups]

\* The flags of an entity in memory or of a body: any of them may be left out.
SomeFlags == [FlagColumns -> Optional(BOOLEAN)]

NoFlags == [c \in FlagColumns |-> Undefined]

\* A User instance to be saved: columns left undefined are not written.
Item == [email: Emails, username: Optional(Usernames),
         password: Optional(Passwords), flags: SomeFlags,
         groups: Optional(SUBSET Groups)]

\* A validated request body.
Body == [email: Emails, username: Usernames, password: Optional(Passwords),
         flags: SomeFlags, groups: Optional(SUBSET Groups)]

AllKinds == {"create", "update", "delete", "account", "signIn", "signUp"}

Steps == {"idle", "preload", "preEmail", "preUsername", "find", "email",
          "username", "load", "write", "read", "remove", "done"}

\* 200/201/204, 400, 404, 405, 409 and 500.
Answers == {"ok", "invalid", "notFound", "notAllowed", "conflict", "error"}

\* No two rows of a table T share an email or a username.
DistinctAccounts(T) ==
    \A u, v \in Ids :
        /\ u # v
        /\ T[u] # Undefined
        /\ T[v] # Undefined
        => /\ T[u].email # T[v].email
           /\ T[u].username # T[v].username

ASSUME UsersAssumption ==
    /\ MaxId \in Nat
    /\ SeedSeq \in 0..MaxId
    /\ MaxFaults \in Nat
    /\ Demo \in BOOLEAN
    /\ InvalidEmails \subseteq Emails
    /\ "isSuperuser" \in FlagColumns
    /\ UserGroup \in Groups
    /\ Kinds \subseteq AllKinds
    /\ Bodies \subseteq Body
    /\ PathIds \subseteq Ids
    /\ Seed \in [Ids -> Optional(Entity)]
    /\ DistinctAccounts(Seed)
    /\ \A u \in Ids : Seed[u] # Undefined => Seed[u].email \notin InvalidEmails
    /\ Undefined \notin Usernames \cup Passwords \cup Groups \cup Ids
    /\ Undefined \notin BOOLEAN /\ Undefined \notin FlagColumns \X BOOLEAN
    /\ \A gs \in SUBSET Groups : Undefined # gs
    /\ Undefined \notin Item
    /\ Undefined \notin Answers \cup AllKinds

\* What a user can be given.
Grants == (FlagColumns \X BOOLEAN) \cup Passwords \cup Groups

VARIABLES
    users,    \* users[id]: the row and its groups, or Undefined
    groups,   \* the ids present in the groups table
    linked,   \* the users that an oauth_tokens_accesstoken row refers to
    seq,      \* the last value of users_id_seq
    req,      \* req[r]: the state of request r
    faults,   \* failed queries so far
    granted   \* observation: what administrators and sign-up gave to an id

vars == <<users, groups, linked, seq, req, faults, granted>>

Request ==
    [kind: Optional(AllKinds), pc: Steps,
     target: Optional(Ids),    \* options.id, or the id of the item to save
     self: Optional(Ids),      \* the id passed to assertUsernameAndEmail
     item: Optional(Item),     \* the entity in memory
     base: Optional(Entity),   \* the row that save() loaded
     wrote: BOOLEAN,           \* observation: save() committed
     answer: Optional(Answers)]

Idle == [kind |-> Undefined, pc |-> "idle", target |-> Undefined,
         self |-> Undefined, item |-> Undefined, base |-> Undefined,
         wrote |-> FALSE, answer |-> Undefined]

\* The flags that are set, as pairs of a column and its value.
Given(flags) == {<<c, flags[c]>> : c \in {d \in FlagColumns : flags[d] # Undefined}}

\* What a row gives to its user.
Held(row) == Given(row.flags) \cup {row.password} \cup row.groups

Init ==
    /\ users = Seed
    /\ groups = Groups
    /\ linked = {}
    /\ seq = SeedSeq
    /\ req = [r \in Requests |-> Idle]
    /\ faults = 0
    /\ granted = [u \in Ids |->
                    IF Seed[u] = Undefined THEN {} ELSE Held(Seed[u])]

database == <<users, groups, linked, seq, granted>>

At(r, step) == req[r].pc = step

Become(r, state) == req' = [req EXCEPT ![r] = state]

Goto(r, step) == Become(r, [req[r] EXCEPT !.pc = step])

\* The answer ends the request; its local variables die with it.
Answer(r, a) ==
    Become(r, [req[r] EXCEPT !.pc = "done", !.answer = a,
                             !.self = Undefined, !.item = Undefined,
                             !.base = Undefined])

-----------------------------------------------------------------------------
(***************************************************************************)
(* Arrivals: the controller's checks and what it hands to the service.     *)
(***************************************************************************)

Begin(r, kind, step, target, self, item) ==
    /\ At(r, "idle")
    /\ kind \in Kinds
    /\ Become(r, [Idle EXCEPT !.kind = kind, !.pc = step, !.target = target,
                              !.self = self, !.item = item])
    /\ UNCHANGED <<database, faults>>

NotAllowed(r, kind) ==
    /\ At(r, "idle")
    /\ kind \in Kinds
    /\ Become(r, [Idle EXCEPT !.kind = kind, !.pc = "done",
                              !.answer = "notAllowed"])
    /\ UNCHANGED <<database, faults>>

\* Fault: create() without its DEMO check.
CreateIgnoringDemo(r) ==
    \E body \in Bodies, id \in Optional(PathIds) :
        /\ body.password # Undefined
        /\ Begin(r, "create", "email", id, id, body)

\* POST /users: InCreateUserDto keeps an id of the body and needs a password.
Create(r) ==
    \E body \in Bodies, id \in Optional(PathIds) :
        /\ body.password # Undefined
        /\ IF Demo /\ body.flags["isSuperuser"] = TRUE
           THEN NotAllowed(r, "create")
           ELSE Begin(r, "create", "email", id, id, body)

\* Fault: InUserDto without @Exclude().
UpdateItemWithPassword(body) == body

\* The User made of a PUT body: @Exclude() drops the password.
UpdateItem(body) == [body EXCEPT !.password = Undefined]

\* The id whose row a PUT exempts from the uniqueness check: item.id, which
\* still is the body's, not the path's.
UpdateSelf(path, own) == own

\* PUT /users/:id.
Update(r) ==
    \E body \in Bodies, path \in PathIds, own \in Optional(PathIds) :
        IF Demo
        THEN NotAllowed(r, "update")
        ELSE Begin(r, "update", "email", path, UpdateSelf(path, own),
                   UpdateItem(body))

\* DELETE /users/:id.
Delete(r) ==
    \E id \in PathIds :
        IF Demo
        THEN NotAllowed(r, "delete")
        ELSE Begin(r, "delete", "find", id, Undefined, Undefined)

\* POST /account/update: the id is the caller's.
Account(r) ==
    \E body \in Bodies, caller \in PathIds :
        /\ body.email \notin InvalidEmails
        /\ IF Demo
           THEN NotAllowed(r, "account")
           ELSE Begin(r, "account", "preEmail", caller, caller,
                      [body EXCEPT !.password = Undefined, !.flags = NoFlags,
                                   !.groups = Undefined])

Credentials(email, password) ==
    [email |-> email, username |-> Undefined, password |-> password,
     flags |-> NoFlags, groups |-> Undefined]

\* POST /auth/signin.
SignIn(r) ==
    \E email \in Emails, password \in Passwords :
        Begin(r, "signIn", "find", Undefined, Undefined,
              Credentials(email, password))

\* The User made of a SignUpDto, which has no flags and no groups.
SignUpItem(body) == [body EXCEPT !.flags = NoFlags, !.groups = Undefined]

\* POST /auth/signup: the passport middleware, which asks for no more than a
\* password, comes before ValidationPipe.
SignUp(r) ==
    \E body \in Bodies :
        /\ body.password # Undefined
        /\ Begin(r, "signUp", "preload", Undefined, Undefined, SignUpItem(body))

-----------------------------------------------------------------------------
(***************************************************************************)
(* Reads.                                                                  *)
(***************************************************************************)

\* Fault: the assertion forgets whom it is asked for.
EmailTakenByAnyone(self, item) ==
    \E u \in Ids : users[u] # Undefined /\ users[u].email = item.email

\* groupsService.preloadAll(): the request's own copy of the groups.
Preload(r) ==
    /\ At(r, "preload")
    /\ Become(r, [req[r] EXCEPT
                    !.pc = "preEmail",
                    !.item.groups = IF UserGroup \in groups THEN {UserGroup}
                                    ELSE Undefined])
    /\ UNCHANGED <<database, faults>>

EmailTaken(self, item) ==
    \E u \in Ids : /\ users[u] # Undefined
                   /\ users[u].email = item.email
                   /\ u # self

UsernameTaken(self, item) ==
    \E u \in Ids : /\ users[u] # Undefined
                   /\ users[u].username = item.username
                   /\ u # self

AfterEmail(r) == Goto(r, IF At(r, "preEmail") THEN "preUsername" ELSE "username")

\* What follows the username check: the caller's own work after its own
\* assertion, save() after the one inside create() and update().
AfterUsername(r) ==
    IF At(r, "username") THEN Goto(r, "load")
    ELSE IF req[r].kind = "account" THEN Goto(r, "find")
    ELSE IF req[r].item.groups = Undefined THEN Answer(r, "notFound")
    ELSE Goto(r, "email")

AssertEmail(r) ==
    /\ req[r].pc \in {"preEmail", "email"}
    /\ IF EmailTaken(req[r].self, req[r].item)
       THEN Answer(r, "conflict")
       ELSE AfterEmail(r)
    /\ UNCHANGED <<database, faults>>

AssertUsername(r) ==
    /\ req[r].pc \in {"preUsername", "username"}
    /\ IF UsernameTaken(req[r].self, req[r].item)
       THEN Answer(r, "conflict")
       ELSE AfterUsername(r)
    /\ UNCHANGED <<database, faults>>

\* signIn(): findByEmail, then validatePassword; the whole entity goes on to
\* update().
FindByEmail(r) ==
    /\ At(r, "find")
    /\ req[r].kind = "signIn"
    /\ \/ /\ \A u \in Ids : users[u] # Undefined => users[u].email # req[r].item.email
          /\ Answer(r, "notFound")
       \/ \E u \in Ids :
            /\ users[u] # Undefined
            /\ users[u].email = req[r].item.email
            /\ IF users[u].password # req[r].item.password
               THEN Answer(r, "invalid")
               ELSE Become(r, [req[r] EXCEPT !.pc = "email", !.target = u,
                                             !.self = u, !.item = users[u]])
    /\ UNCHANGED <<database, faults>>

\* plainToClassFromExist(): the body's columns over those of the found user;
\* the password, which @Exclude() made undefined, is copied like the others.
AccountItem(found, body) ==
    [found EXCEPT !.email = body.email, !.username = body.username,
                  !.password = body.password]

\* AccountService.update(): findById, then update() of the merged entity.
FindAccount(r) ==
    /\ At(r, "find")
    /\ req[r].kind = "account"
    /\ LET found == users[req[r].target] IN
       IF found = Undefined
       THEN Answer(r, "notFound")
       ELSE Become(r, [req[r] EXCEPT !.pc = "email",
                                     !.item = AccountItem(found, req[r].item)])
    /\ UNCHANGED <<database, faults>>

\* delete(): findOneOrFail, then groups = [].
FindDoomed(r) ==
    /\ At(r, "find")
    /\ req[r].kind = "delete"
    /\ LET found == users[req[r].target] IN
       IF found = Undefined
       THEN Answer(r, "notFound")
       ELSE Become(r, [req[r] EXCEPT !.pc = "load",
                                     !.item = [found EXCEPT !.groups = {}]])
    /\ UNCHANGED <<database, faults>>

\* What is answered for a user that was saved and found.  ValidationPipe comes
\* after the passport middleware: a SignInDto or a SignUpDto that it refuses is
\* refused when all is done.
Answered(kind) == IF kind \in {"signIn", "signUp"} THEN {"ok", "invalid"} ELSE {"ok"}

\* findById() of the saved user, for the answer.
ReadBack(r) ==
    /\ At(r, "read")
    /\ \/ users[req[r].target] = Undefined /\ Answer(r, "notFound")
       \/ /\ users[req[r].target] # Undefined
          /\ \E a \in Answered(req[r].kind) : Answer(r, a)
    /\ UNCHANGED <<database, faults>>

-----------------------------------------------------------------------------
(***************************************************************************)
(* Repository.save() and delete().                                         *)
(***************************************************************************)

\* The SELECT of save(): what the entity is compared with.
Load(r) ==
    /\ At(r, "load")
    /\ LET id == req[r].target IN
       Become(r, [req[r] EXCEPT
                    !.pc = "write",
                    !.base = IF id = Undefined THEN Undefined ELSE users[id]])
    /\ UNCHANGED <<database, faults>>

\* A column of the entity is written when it is set and differs from the
\* loaded row; any other keeps its current value.
Column(set, loaded, current) ==
    IF set \in {Undefined, loaded} THEN current ELSE set

Default(set, value) == IF set = Undefined THEN value ELSE set

Added(item, base) ==
    IF item.groups = Undefined THEN {} ELSE item.groups \ base.groups

Dropped(item, base) ==
    IF item.groups = Undefined THEN {} ELSE base.groups \ item.groups

\* Fault: the columns have no defaults.
InsertedAsGiven(item) == item

Inserted(item) ==
    [email |-> item.email, username |-> item.username,
     password |-> item.password,
     flags |-> [c \in FlagColumns |-> Default(item.flags[c], FALSE)],
     groups |-> Default(item.groups, {})]

Updated(current, item, base) ==
    [email |-> Column(item.email, base.email, current.email),
     username |-> Column(item.username, base.username, current.username),
     password |-> Column(item.password, base.password, current.password),
     flags |-> [c \in FlagColumns |->
                  Column(item.flags[c], base.flags[c], current.flags[c])],
     groups |-> (current.groups \cup Added(item, base)) \ Dropped(item, base)]

Collides(id, row) ==
    \E u \in Ids \ {id} :
        /\ users[u] # Undefined
        /\ \/ users[u].email = row.email
           \/ users[u].username = row.username

\* doBeforeInsertion() and doBeforeUpdate(); an email equal to the stored one
\* was valid when it was stored.
Invalid(item, base) ==
    /\ item.email \in InvalidEmails
    /\ base # Undefined => item.email # base.email

\* Fault: username and email have no UNIQUE constraint, the assertion alone
\* keeps them apart.
InsertFailsUnindexed(id, item) ==
    \/ users[id] # Undefined
    \/ item.password = Undefined
    \/ ~(Default(item.groups, {}) \subseteq groups)

\* Fault: the INSERT is an upsert.
InsertFailsUpsert(id, item) ==
    \/ item.password = Undefined
    \/ Collides(id, item)
    \/ ~(Default(item.groups, {}) \subseteq groups)

\* The constraints that make the INSERT of a row fail.
InsertFails(id, item) ==
    \/ users[id] # Undefined
    \/ item.password = Undefined
    \/ Collides(id, item)
    \/ ~(Default(item.groups, {}) \subseteq groups)

\* The constraints that make the UPDATE fail.  A row that is gone is no
\* failure, unless a user_groups row has to be added to it.
UpdateFails(id, item, base) ==
    \/ /\ users[id] = Undefined
       /\ Added(item, base) # {}
    \/ /\ users[id] # Undefined
       /\ \/ Collides(id, Updated(users[id], item, base))
          \/ ~(Added(item, base) \subseteq groups \ users[id].groups)

\* What the request is entitled to give to the row it writes: the flags that
\* its body sets and no other, its groups, and a password where it may set one.
Confers(kind, given) ==
    (CASE kind = "create" ->
             Given(given.flags) \cup {given.password} \cup Default(given.groups, {})
       [] kind = "signUp" ->
             (FlagColumns \X {FALSE}) \cup {given.password, UserGroup}
       [] kind = "update" -> Given(given.flags) \cup Default(given.groups, {})
       [] OTHER -> {}) \ {Undefined}

Save(r, id, row, given) ==
    /\ users' = [users EXCEPT ![id] = row]
    /\ granted' = [granted EXCEPT ![id] = @ \cup Confers(req[r].kind, given)]

\* The transaction of save() commits.
Committed(r, id) ==
    Become(r, [req[r] EXCEPT
                 !.pc = IF req[r].kind = "delete" THEN "remove" ELSE "read",
                 !.target = id, !.wrote = TRUE,
                 !.item = Undefined, !.base = Undefined])

RejectInvalid(r) ==
    /\ At(r, "write")
    /\ Invalid(req[r].item, req[r].base)
    /\ Answer(r, "invalid")
    /\ UNCHANGED <<database, faults>>

InsertId(r) == IF req[r].target = Undefined THEN seq + 1 ELSE req[r].target

\* The row was absent when save() loaded it.
Insert(r) ==
    /\ At(r, "write")
    /\ req[r].base = Undefined
    /\ ~Invalid(req[r].item, Undefined)
    /\ InsertId(r) \in Ids
    /\ seq' = IF req[r].target = Undefined THEN seq + 1 ELSE seq
    /\ LET id == InsertId(r) IN
       IF InsertFails(id, req[r].item)
       THEN Answer(r, "error") /\ UNCHANGED <<users, granted>>
       ELSE LET row == Inserted(req[r].item) IN
            Save(r, id, row, row) /\ Committed(r, id)
    /\ UNCHANGED <<groups, linked, faults>>

\* The row was there when save() loaded it.
Overwrite(r) ==
    /\ At(r, "write")
    /\ req[r].base # Undefined
    /\ ~Invalid(req[r].item, req[r].base)
    /\ LET id == req[r].target
           item == req[r].item
           base == req[r].base
       IN  IF UpdateFails(id, item, base)
           THEN Answer(r, "error") /\ UNCHANGED <<users, granted>>
           ELSE /\ IF users[id] = Undefined
                   THEN UNCHANGED <<users, granted>>
                   ELSE Save(r, id, Updated(users[id], item, base), item)
                /\ Committed(r, id)
    /\ UNCHANGED <<groups, linked, seq, faults>>

\* The DELETE of delete(): user_groups rows go with the user, an
\* oauth_tokens_accesstoken row forbids it.
Remove(r) ==
    /\ At(r, "remove")
    /\ LET id == req[r].target IN
       IF id \in linked
       THEN Answer(r, "error") /\ UNCHANGED users
       ELSE /\ users' = [users EXCEPT ![id] = Undefined]
            /\ Answer(r, "ok")
    /\ UNCHANGED <<groups, linked, seq, faults, granted>>

-----------------------------------------------------------------------------
(***************************************************************************)
(* The rest of the system.                                                 *)
(***************************************************************************)

\* Fault: save() runs outside a transaction: when the INSERT of a user_groups
\* row fails, the UPDATE of the user stays.
QueryFailsHalfway(r) ==
    /\ faults < MaxFaults
    /\ faults' = faults + 1
    /\ At(r, "write")
    /\ LET id == req[r].target
           item == req[r].item
           base == req[r].base
       IN  /\ base # Undefined
           /\ ~UpdateFails(id, item, base)
           /\ users[id] # Undefined
           /\ Save(r, id, [Updated(users[id], item, base) EXCEPT
                             !.groups = users[id].groups], item)
    /\ Answer(r, "error")
    /\ UNCHANGED <<groups, linked, seq>>

\* A query fails.  assertUsernameAndEmail() swallows the error and takes the
\* account to be free; findByEmail() turns it into "not founded"; elsewhere
\* the request fails, its open transaction rolled back.
QueryFails(r) ==
    /\ faults < MaxFaults
    /\ faults' = faults + 1
    /\ \/ req[r].pc \in {"preEmail", "email"} /\ AfterEmail(r)
       \/ req[r].pc \in {"preUsername", "username"} /\ AfterUsername(r)
       \/ At(r, "preload") /\ Answer(r, "invalid")
       \/ /\ At(r, "find")
          /\ Answer(r, IF req[r].kind = "signIn" THEN "notFound" ELSE "error")
       \/ /\ req[r].pc \in {"load", "write", "read", "remove"}
          /\ Answer(r, "error")
    /\ UNCHANGED database

\* The DELETE of GroupsService.delete() cascades to user_groups.
DropGroup(g) ==
    /\ g \in groups
    /\ groups' = groups \ {g}
    /\ users' = [u \in Ids |->
                   IF users[u] = Undefined THEN Undefined
                   ELSE [users[u] EXCEPT !.groups = @ \ {g}]]
    /\ UNCHANGED <<linked, seq, req, faults, granted>>

\* OauthTokensAccesstokensService.create() of the Google strategy.
LinkToken(u) ==
    /\ users[u] # Undefined
    /\ u \notin linked
    /\ linked' = linked \cup {u}
    /\ UNCHANGED <<users, groups, seq, req, faults, granted>>

Step(r) ==
    \/ Create(r) \/ Update(r) \/ Delete(r) \/ Account(r) \/ SignIn(r) \/ SignUp(r)
    \/ Preload(r) \/ AssertEmail(r) \/ AssertUsername(r)
    \/ FindByEmail(r) \/ FindAccount(r) \/ FindDoomed(r) \/ ReadBack(r)
    \/ Load(r) \/ RejectInvalid(r) \/ Insert(r) \/ Overwrite(r) \/ Remove(r)
    \/ QueryFails(r)

\* Every request was answered.
Quiescent == (\A r \in Requests : At(r, "done")) /\ UNCHANGED vars

Next ==
    \/ \E r \in Requests : Step(r)
    \/ \E g \in Groups : DropGroup(g)
    \/ \E u \in Ids : LinkToken(u)
    \/ Quiescent

Spec == Init /\ [][Next]_vars
-----------------------------------------------------------------------------
(***************************************************************************)
(* Properties.                                                             *)
(***************************************************************************)

\* Type correctness of the tables and of the requests in flight.
TypeOK ==
    /\ users \in [Ids -> Optional(Entity)]
    /\ groups \in SUBSET Groups
    /\ linked \in SUBSET Ids
    /\ seq \in 0..MaxId
    /\ req \in [Requests -> Request]
    /\ faults \in 0..MaxFaults
    /\ granted \in [Ids -> SUBSET Grants]

\* Whatever requests interleave and whichever of their checks went stale or
\* failed, the tables stay consistent: no two users share an email or a
\* username, stored emails are valid, memberships and tokens refer to rows
\* that exist (assertUsernameAndEmail alone does not give this).
Integrity ==
    /\ DistinctAccounts(users)
    /\ \A u \in Ids : users[u] # Undefined =>
            /\ users[u].email \notin InvalidEmails
            /\ users[u].groups \subseteq groups
    /\ \A u \in linked : users[u] # Undefined

\* A user never holds a flag, a group or a password that no administrator's
\* request and no sign-up ever gave to that id, each flag for itself: sign-in,
\* account update and the save() inside delete() write a whole stale entity
\* back, and save() writes only the columns that differ, so that a row may mix
\* what several requests gave, but nothing else; and PUT cannot set a password.
Provenance ==
    \A u \in Ids : users[u] # Undefined => Held(users[u]) \subseteq granted[u]

\* PUT /users/:id saves whatever id the path names, and so does an account
\* update whose user was deleted meanwhile; save() inserts a row it does not
\* find: only the missing password keeps them from creating users.
UpdateCreatesNoUser ==
    [][\A r \in Requests, u \in Ids :
          /\ req[r].kind \in {"update", "account"}
          /\ req'[r] # req[r]
          /\ users[u] = Undefined
          => users'[u] = Undefined]_vars

\* A 409 names another account: assertUsernameAndEmail never takes the user
\* a request is about for a rival, unless a PUT body leaves its id out.
ConflictIsAnother ==
    [][\A r \in Requests :
          /\ ~At(r, "done")
          /\ req'[r].answer = "conflict"
          /\ req[r].kind = "update" => req[r].self = req[r].target
          => \E u \in Ids :
                /\ u # req[r].target
                /\ users[u] # Undefined
                /\ \/ users[u].email = req[r].item.email
                   \/ users[u].username = req[r].item.username]_vars

\* A sign-up adds a user and touches no other, even when an administrator
\* used the id that the sequence hands out next.
SignUpOnlyAdds ==
    [][\A r \in Requests, u \in Ids :
          /\ req[r].kind = "signUp"
          /\ req'[r] # req[r]
          /\ users[u] # Undefined
          => users'[u] = users[u]]_vars

\* DEMO mode: no user of the start disappears, and nobody becomes a
\* superuser who was none, whatever the requests allowed there do.
DemoIsHarmless ==
    Demo => \A u \in Ids :
        /\ Seed[u] # Undefined => users[u] # Undefined
        /\ users[u] # Undefined /\ users[u].flags["isSuperuser"]
           => Seed[u] # Undefined /\ Seed[u].flags["isSuperuser"]

\* A request as Directory sees it: it is open until save() commits.
WorkOf(q) ==
    LET saved == q.pc = "read" \/ q.pc = "remove" IN
    [kind |-> q.kind,
     state |-> CASE q.pc = "idle" -> "none"
                 [] q.pc = "done" -> "closed"
                 [] saved -> "saved"
                 [] OTHER -> "open",
     id |-> IF saved THEN q.target ELSE Undefined,
     answer |-> q.answer]

Works == [r \in Requests |-> WorkOf(req[r])]

Accounts == INSTANCE Directory WITH
    Rows <- Entity, Standing <- Seed, accounts <- users, work <- Works

\* Stale checks, stale entities and failing queries never make a request that
\* is refused or fails change an account before its save(), one save() change
\* two of them, or an answer say what was not done.
OneSavePerRequest == Accounts!Spec

-----------------------------------------------------------------------------
(***************************************************************************)
(* What the documentation says and the code does not keep.                 *)
(***************************************************************************)

\* Sign-in "checks the veracity" of credentials: it leaves the flags and the
\* groups of the user as they are (auth.controller.ts).
SignInOnlyChecks ==
    [][\A r \in Requests, u \in Ids :
          /\ req[r].kind = "signIn"
          /\ req'[r] # req[r]
          /\ users[u] # Undefined
          /\ users'[u] # Undefined
          => /\ users'[u].flags = users[u].flags
             /\ users'[u].groups = users[u].groups]_vars

\* "The record has been successfully deleted": after the 204 a user stays
\* deleted until somebody creates it (users.controller.ts, user.e2e-spec.ts).
DeletedStaysDeleted ==
    [][\A r \in Requests, u \in Ids :
          /\ req'[r] # req[r]
          /\ users[u] = Undefined
          /\ users'[u] # Undefined
          => req[r].kind \in {"create", "signUp"}]_vars

\* "The record has been successfully created": POST /users makes a new
\* record and changes none (users.controller.ts).
CreateCreates ==
    [][\A r \in Requests, u \in Ids :
          /\ req[r].kind = "create"
          /\ req'[r] # req[r]
          /\ users[u] # Undefined
          => users'[u] = users[u]]_vars

=============================================================================
