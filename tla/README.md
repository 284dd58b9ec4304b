# A TLA+ model of NestPractice

NestPractice is a NestJS back end: users, groups, permissions and content types
in a PostgreSQL database (`libs/core`), sign-in, sign-up and access control by
JSON Web Tokens (`libs/auth`), one database connection per tenant
(`libs/tenant`), and three small applications that put these together (`apps/`;
`apps/fona` is the one that uses all of it).  This directory holds TLA+
specifications of its core, the instances that TLC checks and proofs that TLAPS
checks.

## Inventory

| Component | State | Operations | Hard behaviour |
|---|---|---|---|
| `UsersService`, `AccountService`, their controllers | tables `users`, `user_groups` | create, update, delete, account update, find | every handler is several queries without a transaction around them; `save()` writes back whole entities; queries fail in the middle |
| `AuthService`, the local strategies, `auth.module.ts` | the same tables, tokens | sign-in (which saves), sign-up, info | passport runs before the guard and the validation pipe; stale entities; renewed tokens |
| `TokenService`, `JwtStrategy`, `AccessGuard` | tokens held by clients | sign, verify, decide | a token outlives what it says; the groups are read between verification and decision; the guard replaces the user of a sign-in by that of a token in its header |
| `GroupsService` | tables `groups`, `group_permissions` | create, update, delete, preload | delete is a save and a DELETE; tokens refer to groups by name |
| `PermissionsService`, `ContentTypesService` | tables `permissions`, `content_types` | create, update, delete | deleting a content type first detaches its permissions |
| `TenantModule` | TypeORM's registry of connections, tables `tenant`, `database` | middleware, connection factory | connections opened by concurrent first requests, failed ones that stay registered, rows edited later; the tenant is looked up twice in a request |
| Google and Facebook strategies, `OauthTokensAccesstokensService` | table `oauth_tokens_accesstokens` | look up, sign up, save token | any error leads to a sign-up; the sign-up commits before the token; the server calls its own token route and waits |
| lists (`findAll`) | none | filter, sort, page | filters that replace each other, page counts at the boundary |
| `ValidationPipe`, exception filters | none | validate, map errors | the order with regard to passport |
| todo, company, GraphQL applications, configuration, logging, seeds | tables of their own | generated CRUD, wiring | none of their own |

The components meet in the database and in the tokens.  A request passes the
tenant and passport middleware, the guard, the pipe and then its handler;
`await` lets other requests run at every query.  Nothing is kept in the server
between requests but the tenant connections, and no handler opens a transaction:
the only atomic steps are single queries and the transaction inside TypeORM's
`save()`.

What makes the parts correct: the tables stay consistent whatever interleaves;
no user obtains a flag, group or password, and no group a permission, that
nobody gave it; a handler touches the rows it is about; who is admitted is or was
entitled, and what is taken away stays taken away; a request works on its own
tenant's database; a profile signs in to its own account; every request is
answered.  Some of these hold with exceptions only, which the properties name
(see "What the properties do not say").  `PROJECT.json` lists the hazards by
line.

## Modules

| Module | Models | Used by |
|---|---|---|
| `Users` | the six kinds of requests that write users, query by query | `MCUsers`, `UsersProofs` |
| `Directory` | what the account requests promise: the abstract specification of `Users` | `Users` |
| `AccessControl` | tokens, strategy, guard, and the handlers that change users and groups | `MCAccess`, `AccessAudit` |
| `AccessAudit` | `AccessControl` with a history of flags, memberships and permissions | `MCAudit`, `AccessProofs` |
| `Tenant` | the tenant middleware, the connection factory, TypeORM's registry | `MCTenant`, `TenantProofs` |
| `Tenancy` | what the tenant module promises: the abstract specification of `Tenant` | `Tenant` |
| `Lists` | filters, order, pages and `meta` of `findAll` as operators | `Catalog`, `ListsProofs` |
| `Catalog` | the requests on content types, permissions and groups, and all lists | `MCCatalog`, `CatalogProofs` |
| `OAuth` | the Google and Facebook routes, the code exchange, the strategies | `MCOAuth`, `OAuthProofs` |
| `MCUsers`, `MCAccess`, `MCAudit`, `MCTenant`, `MCCatalog`, `MCOAuth` | the constants of the small instances | the runs |
| `UsersProofs`, `UsersStepProofs`, `UsersDemoProofs`, `AccessProofs`, `TenantProofs`, `ListsProofs`, `CatalogProofs`, `OAuthProofs` | theorems | |

The tables are cut where the components meet.  `Users` keeps the groups only as
ids that may disappear (`DropGroup`), `Catalog` keeps their names and
permissions; `AccessControl` takes each handler of both as one step, and `OAuth`
takes everything that other requests do to users as `Register`, `RegisterAs`,
`Rename`, `SaveStale` and `Remove`.  In `Users` a token is no more than a row that forbids a DELETE
(`LinkToken`).

### Users and Directory

The variables `users`, `groups`, `linked` and `seq` are the tables (a row of
`users` carries its email, username, password, groups and a flag for each of
`FlagColumns`; `linked` are
the users an OAuth token refers to; `seq` is the id sequence).  `req[r]` is what
request r has in memory: its kind, the step it is at, the id of its target, the
id that the uniqueness check exempts (`self`), its entity (`item`) and the row
that `save()` loaded to compare with (`base`).  `faults` counts failed queries,
`granted[u]` collects, for the properties, what somebody gave to id u: passwords,
groups and pairs of a flag column and its value.

One action is one query with the code around it up to the next `await`:

| Actions | Code |
|---|---|
| `Create`, `Update`, `Delete`, `Account`, `SignIn`, `SignUp` | the controller's DEMO check, the DTO (what it drops), the strategies |
| `Preload`, `AssertEmail`, `AssertUsername` | `preloadAll`, `assertUsernameAndEmail` (twice for sign-up and account updates) |
| `FindByEmail`, `FindAccount`, `FindDoomed`, `ReadBack` | the reads of `signIn`, `AccountService.update`, `delete`, and `findById` at the end |
| `Load`, `RejectInvalid`, `Insert`, `Overwrite` | `save()`: its SELECT, the entity's listener, its transaction |
| `Remove` | the DELETE of `delete` |
| `QueryFails` | a query that fails, with what the code makes of it |
| `DropGroup`, `LinkToken` | `GroupsService.delete` and `OauthTokensAccesstokensService.create`, as far as they touch these tables |

How `save()` decides (insert if it found no row, otherwise write the columns
that differ from what it loaded and add and remove the memberships that differ)
is TypeORM's; its definitions are marked external in `PROJECT.json`.  Each flag
column is written, or left alone, by itself: a body may have all flags, one or
none.  A request
runs once.  Passwords stand for their hashes.

`Directory` is the promise, with the accounts and the state of each request
(open, saved, closed) as its only variables.  A request stores at most one row,
in one step, and only where nobody else has the row's email or username
(`Store`); an update of either kind stores where a row is, a sign-up where none
is; what is refused or fails before that changes nothing (`Refuse`, `Fail`);
afterwards the answer is true of the row (`Finish`), and only a DELETE removes
one (`Drop`).  Which values a row may get is left open: that is `Provenance`.
`OneSavePerRequest` is `Directory!Spec` under the mapping `Works`: a request is
open until its `save()` commits, saved until its answer.  All checks and reads
are stutters, the stale ones included.

### AccessControl

`token[u]` is the last token that was signed for user u, while it is valid;
`users` and `groups` are the tables, reduced to flags, memberships, names and
permissions.  `req[r]` has the payload of the token that came with the request
(`caller`, `claims`), the user that a strategy or `info()` has read and that the
controller will sign (`found`), and the handler with the grounds on which the
guard let it in.

| Actions | Code |
|---|---|
| `SignIn` | the passport middleware of a sign-in: its user is read; the request may bring the token of any user in its `Authorization` header |
| `SignUp` | `signUp()` and its row; its answer is like that of a sign-in |
| `Info`, `FindInfo` | POST /auth/info: the token of the body is verified, then `authService.info()` finds the user |
| `Sign` | `tokenService.create(req.user)` of the user that was read: `info()` always, a sign-in without a token or with one that is refused |
| `SignBearer` | the guard accepts the token in the header of a sign-in and puts the user of its payload into `req.user`, which the controller signs: the old claims, for the user they name |
| `Refuse` | `ValidationPipe` refuses the body, after all that |
| `Call`, `LoadGroups`, `LoadFails` | a request with a token: passport-jwt, the preload, the strategy and the guard |
| `CallAnonymously` | one whose token is missing or refused: the guard logs that and decides without a user |
| `AddUser`, `ChangeUser`, `DeleteUser`, `ChangeGroup`, `ClearGroup`, `DropGroup` | the handlers that change what guards decide by |
| `GiveUp` | one of these finds nothing, or fails |
| `Serve` | any other handler, such as those of `TenantController` |
| `Expire` | `expiresIn` |

Between the read of a user and the signature of its token any other request may
run, a demotion too.  Each handler is one step here, `GroupsService.delete` two:
what may happen inside a save is what `Users` is about, and the save of a sign-in
is left out.  The routes of Facebook and Google tokens sign like a sign-in; how
they find their user is in `OAuth`.  DEMO mode is off.  A client that keeps
several tokens of one user is not modelled: each request depends on one token
only, and each token expires.

### Tenant and Tenancy

`rows[p]` is the tenant of path p with its database, `conn[p]` the entry of that
name in TypeORM's registry with the progress of its `connect()`, `req[r]` the
request: its header (`path`), what it works on (`kind`), the tenant it found last
and the database that its repository belongs to.  `named[p]` remembers, for
`Isolation`, the databases that a row of path p named since the server started.

| Actions | Code |
|---|---|
| `Arrive` | a request with a header; `/admin` is excluded from the middleware |
| `Find`, `Reject`, `Pass`, `Open`, `Opened` | the middleware: `findOne`, the two 400s, `getConnection`, `createConnection` and its outcome |
| `Resolve`, `Bind`, `BindFails` | the factory of `TENANT_CONNECTION`: the second `findOne`, `getConnection(name)`, the repository |
| `Work`, `QueryFails` | the handler's query; a query that fails |
| `Connect` | `Connection.connect()`: connecting, synchronizing, ready, or failed at either |
| `Edit` | `/admin/tenant`, `/admin/database` |
| `Restart` | the process stops and starts: the registry and the requests are lost, the rows are not |

How Nest matches `forRoutes` and `exclude`, and what the registry does, belong to
libraries and are marked external.  A tenant whose path is `default` works on
the master database, whatever its row names: the name of its connection is that
of the default one (`ServedFrom`).  The header `master` opens a connection under
that name which the factory then does not use.
A request without the header is not modelled here (see `nameless` in `OAuth`).

`Tenancy` is the promise: a name gets a database once in the life of a server
(`Bind`), and a request is refused, or served by the database of its name.
`OneDatabasePerName` is `Tenancy!Spec` under the mapping `Bindings`, `Asks`: a
registry entry is the binding of its name, whatever the state of its connection;
a request waits until it has its answer.  `Find`, `Connect` and the rest are
stutters.

### Lists and Catalog

`Lists` has the arithmetic of `findAll`: `Where` (each `where()` replaces the
one before), `SortBy`, `PageOf`, `TotalPages`, `PageFails`.

In `Catalog`, `types`, `perms`, `groups` and `members` are the tables
`content_types`, `permissions`, `groups` with `group_permissions`, and
`user_groups`.  `req[r]` is as in `Users`.  `late[r]` collects the permissions
that got the content type which r is deleting, after r had read the ones it lets
go of.

| Actions | Code |
|---|---|
| `Create...`, `Update...`, `Delete...`, `Get...`, `List...` | the handlers of the three controllers, and GET /users: the DEMO check, the id of path or body |
| `Find` | `findOneOrFail` of a read or of the two deletes that go on with a `save()`, of the entity they found with nothing attached to it (`Emptied`, `Detached`) |
| `Load`, `Insert...`, `Overwrite...` | `save()`: its SELECT, then its transaction |
| `RemovePermission`, `RemoveGroup`, `RemoveType` | the DELETE with the cascades of the schema |
| `Page`, `Count` | the two queries of `getManyAndCount()`; a page read is one query |
| `QueryFails` | a query that fails |

A group's name stands for its name and its title, which are both unique; names of
permissions and content types are under no constraint and left out.  The next
value of a sequence is any id, since bodies may have named ids ahead of it.
`InGroupDto` declares no permissions, but nothing strips them from the body: they
are in the model.  The same holds for a content type's `permissions`, a
permission's `groups` and a group's `users`, which are not.  Searches are by id,
or for a text, which fails; a search of users always fails (the query names a
column `user.first_name` that is not there).  Sorting is by id.

### OAuth

`auth[r]` is a sign-in: `front` is the client's request to
`auth/.../signin`, which waits for the server's own token route; `pc`, `profile`,
`user`, `calls` (of `done()`), `answer`, `bearer` and `signed` belong to the token
request behind it, or to one that a client sends itself.  A user handed to
`done()` leaves the request "granted", on its way through the guard, until the
controller has signed somebody (`Sign`): that user, or `bearer`, the user of a
JWT that the guard accepted.  `fits` says whether the access token fits into its
column.  `users`, `tokens` and `nextId` are the tables and the sequence; `of` in
a row remembers the profile that it was signed up for.  `was[u]` are the earlier
rows of u, which requests may have in memory, and `again` the ids that were
inserted once more after the sequence had given them.

| Actions | Code |
|---|---|
| `Request`, `Exchange`, `Relay`, `Lost` | the controller, `AuthService.googleSignIn` and `facebookSignIn`, a lost connection between the two requests |
| `TurnedAway`, `VerifyGoogle`, `VerifyFacebook` | what answers before the strategy, or the strategy's callback begins |
| `Lookup`, `Info` | `findByProviderClientId`, `AuthService.info` |
| `Preload`, `Check` (twice), `Insert`, `Reread`, `Save` | `signUp` as far as it matters here, then the token's `save()` |
| `Sign` | `AccessGuard`, then the controller's `tokenService.create(req.user)` |
| `QueryFails` | a query that fails, with what the catch around it makes of that |
| `Register`, `RegisterAs` | a sign-up or POST /users; POST /users with the id of nobody, be it of a deleted user or one the sequence has yet to give |
| `Rename`, `SaveStale`, `Remove` | an update; a `save()` of an entity read earlier, which writes its row again or inserts a deleted one again; a DELETE |

Two questions are for Nest and TypeORM to answer and decide whether Google
sign-in works at all; both are left open, as variables that Init chooses and no
step changes: whether the request-scoped `GooglePlusStrategy` is ever constructed
(`constructed`), and whether a request without a tenant header, as the server's
own is, passes the tenant middleware (`nameless`).  Likewise a condition on an
undefined id either selects nothing or does not count.  Nothing assigns the
services of `FacebookStrategy`, so each of its sign-ins ends in an error.  The
email and the username check are one step here, two in `Users`.  A 400 or 409
inside the sign-up reaches the client as an error of the strategy.  `Insert` may
fail without a query's fault, since `User` limits the length of names and an
address must be one; `Save` may, since the token's entity limits the access token
to 500 characters.  The other limits of that entity are met by whatever came so
far: an id of more than 200 characters would have made a username that `User`
refuses.  Redirect URIs are strings and left out.

## What is checked

| Run | Instance | Shows |
|---|---|---|
| `users_all` | 2 requests of every kind, 1 failing query | `TypeOK`, `Integrity`, `Provenance`, `UpdateCreatesNoUser`, `ConflictIsAnother`, `SignUpOnlyAdds`, `OneSavePerRequest` (the refinement) |
| `users_demo` | 2 requests of every kind in DEMO mode, 1 failing query | `DemoIsHarmless` |
| `users_signin_writes` | violated: `SignInOnlyChecks` | a sign-in undoes a change of its user's flags |
| `users_delete_undone` | violated: `DeletedStaysDeleted` | a stale save brings a deleted user back |
| `users_create_overwrites` | violated: `CreateCreates` | POST /users with an id overwrites that user |
| `access_prevails` | 1 request, 2 groups, every handler, fair | `TypeOK`, `DemotionPrevails`, `RevocationPrevails` |
| `access_audit` | 2 requests, 1 group, 2 names | `AuditTypeOK`, `AdmittedWasEntitled`, `DemotionIsFinal` |
| `access_info` | violated: `InfoReturnsTheToken` | POST /auth/info answers with another token |
| `tenant` | 2 requests of 2 tenants and the master, 3 edits, restarts, fair | `TypeOK`, `Isolation`, `OneDatabasePerName` (the refinement), `Answered` |
| `catalog` | 3 requests of every kind, 1 failing query | `TypeOK`, `Integrity`, `DeletesGiveNothing`, `PagesDivide`, `DeleteFailsOnlyIfLate` |
| `list_filters` | violated: `GroupFilterFilters` | a search makes a list of permissions forget its group |
| `oauth` | 2 sign-ins of 3 profiles, 2 changes by others, 1 failure, fair | `TypeOK`, `DoneOnce`, `OwnAccount`, `OneTokenWhileNamed`, `TokenUnlessFault`, `EveryRequestEnds` |

**Bounds.**  Two requests are enough for every race of two handlers, one of which
is stale; in `Catalog`, three let a delete, a save that attaches to what is being
deleted, and a reader of neither meet.  In `Users` there are three ids in paths
and bodies and two left in the sequence (`MaxId`), so that explicit ids ahead of
the sequence and reuse of a deleted id happen and no request is stopped by the
bound; `users_all` names two of the three (`PathIds`), one of a user of the start
and one of nobody.  The bodies
collide with the users of the start or not, set all flags, one or none, promote,
demote, and set one or two groups.  Two flag columns are in the instance: the
third behaves like `isStaff`.  One failing query (`MaxFaults`) at any step is what a single error can
do; two are never independent hazards of one request, since the first mostly ends
it.  For access control, one user that requests change and one that carries the
changes out, two names and one permission suffice for renaming, taking over a
name, demotion and revocation; the liveness run keeps one request at a time so
that the graph stays small, has every handler, and tells a token from the one it
replaces (`Issues` is 2); what needs two requests, such as a demotion between the
read of a user and the signature, is in `access_audit`.  `DefaultName`, the
group of a sign-up, is one that comes and goes.  In `Tenant` there is one
ordinary tenant, whose row moves to another database, loses it, goes and comes
back, one tenant of the path `default` and the master's row: everything the code
distinguishes about a path.  Restarts are not bounded.  In `OAuth`, of three
profiles one brings an address and one no id, and the local accounts take a
profile's name or address; two changes by others (`MaxEdits`) register such an
account and rename or delete one, or delete one and bring it back; one id
(`NamedIds`) may be named by a body or belong to a JWT, that of the first user
whom the sequence gives; `MaxId` leaves each request and each change an id.

**Fairness.**  `Users` and `Catalog` have only safety properties and no fairness.
Elsewhere a step of a request is weakly fair: Node goes on with a request when
its query is answered or fails (`Work(r)` in `AccessControl`, `Step(r)` in
`Tenant` and `OAuth`), and in each model a query may fail.  `Connect(p)` is
weakly fair: `connect()` resolves or rejects.  `Expire(u, t)` of `AccessControl`
is weakly fair for each token value, the serial included: `sign()` is called with
`expiresIn`, so a token does not live for ever, but one that is replaced in time
never has to expire in the client's hands.  Nothing makes clients,
administrators or restarts act.

**What the properties do not say.**  `DemotionPrevails` and `RevocationPrevails`
are about what is gone *for good*.  Until its token expires a demoted, even a
deleted, user keeps its flags; and since a token names groups and the names are
resolved when it is used, a bearer may profit from a permission that a group of
that name obtained after the bearer left it, or from another group that took over
the name.  `AdmittedWasEntitled` states exactly what is left: some flag once held,
or some name once belonged to and some permission once carried by that name.

A lost flag can also be kept for ever.  Whoever sends a live token in the
`Authorization` header of a sign-in, with anybody's credentials, gets that token's
claims signed anew, because `AccessGuard` replaces `req.user` before the
controller signs it.  `DemotionPrevails` therefore speaks of users for whom such
sign-ins come to an end (`ResignedFor`), and `DemotionIsFinal` counts a token, a
request that carries one in its header, and a user read and not yet signed, as
bearing the flag: it says that none of these makes a flag out of nothing.

`OwnAccount` likewise excepts a sign-in with a JWT in its header, which is
answered with a token of that JWT's user, whatever profile was presented.  It and
`TokenUnlessFault` except ids that are inserted once more (`again`): when a user
is deleted before its token is saved, POST /users with its id, or a stale save,
puts a row there that the token then belongs to.  `OneTokenWhileNamed` and
`TokenUnlessFault` are guarded further because the code gives no more: a renamed
user lets its profile sign up again, and a failing query after the sign-up, or an
access token of more than 500 characters, leaves an account without its token.

`Isolation` allows a database that a row of the path named earlier in the life of
the server: a connection is not closed when its row is edited, and a row that
takes over a path takes over its connection.  The path `default` is served from
the master database, which is no tenant's.

`DeletesGiveNothing` says that a DELETE only takes away.  It may take too much: a
stale DELETE of a content type also detaches a permission that has moved to
another type, and a DELETE of a group that is gone inserts it for a moment.
Two PUTs of one group may merge what they say; no property speaks of that.

`ConflictIsAnother` excepts a PUT whose body names no id, or another's, than its
path: there a user may collide with itself.  `DoneOnce` excepts profiles without
an id, for which `done()` is called twice.

Every property of a passing run has a mutant in `PROJECT.json`: a definition
marked "Fault" in the modules that replaces a definition of the model the way a
bug would, and makes TLC find the property violated.

## What is proved

For every value of the constants that the named assumptions admit
(`UsersAssumption`, `AccessAssumption`, `TenantAssumption`, `CatalogAssumption`,
`OAuthAssumption`): any number of requests, rows and failing queries.  The
assumptions type the constants, say that Undefined (and Null) is no other value,
and that the tables of the start satisfy their constraints; `CatalogFinite` says
that they are finite.  In each module
`TypeOK` is not inductive, since a step relies on what an earlier one left in the
request: a Shape says, step by step, what that is.

* `UsersProofs`.  `TypeCorrect` and `IntegrityHolds`: `Integrity` follows from
  `Shape` and from what the constraints refuse, whatever the checks before them
  saw.  `CarriedHolds`, `ProvenanceHolds`: a request may carry a value that has
  left the table and write it back, so `Carried` adds that what it has in memory,
  each flag column for itself, was granted to the id it will be written to, or is
  conferred by that write.
  `UpdateNeverInserts`: neither a PUT nor an account update carries a password
  to an INSERT, not even when the row it read was deleted meanwhile.
* `UsersStepProofs`.  `AddressedHolds`: while a request checks or saves, the id
  it exempts from the check is the one it will save (PUT aside), and a sign-up
  has none.  `ConflictsAreOthers` and `SignUpsOnlyAdd` follow by going through
  the steps that answer 409, and those that write.  `UsersImplementDirectory`:
  the refinement.  Every action maps to one of `Directory` or to a stutter; that
  an update's row is there when its `save()` commits is `Carried` (an INSERT would
  need a password), that a sign-up's is not is `Addressed`, and that a row fits is
  what the unique columns refuse, since the request's own check may be stale.
* `UsersDemoProofs`.  `DemoKeepsUsers`: which requests DEMO mode refuses is not
  enough, because a sign-in still writes an entity back.  `Harmless` adds that an
  entity on its way with a superuser's flags is one of a user who was a superuser
  at the start, and that no request is about to remove.
* `AccessProofs`.  `AuditInvariant`, `OnlyTheEntitledAreAdmitted`,
  `AuditTypeCorrect`, `AccessTypeCorrect`: `AuditInv` says that the history covers
  the present and that tokens, and the claims of requests on their way, are of
  the history; the guard's decision on such claims admits only who was entitled
  once.  `DemotionsAreFinal`: `DemotionIsFinal` is the safety half
  of `DemotionPrevails`, for any number of users and requests.  A flag is gone for
  good once its user's token is, and the requests that carry it in a header, have
  read it to sign it, or were let in by it; every new token is made of one of
  these or of a row that lacks the flag.
* `TenantProofs`.  `TenantTypeCorrect`, `IsolationHolds`: `Registry` (the default
  connection is the master's, any other was opened with a database that a row of
  its path named) and `HoldsOf` (what a request found, or is bound to, is of its
  name).
  `TenantImplementsTenancy`: the initial state maps to `Tenancy!Init`, and each
  action, under the same invariant, to a step of `Tenancy` or a stutter.
* `ListsProofs`.  `PagesDivideAnyRows`, for every finite set of rows, either
  order and any page size.  The rank of a row in the list (how many come before
  it) is a bijection onto 0..n-1, by `RankMonotone` and `RankOnto`: a strictly
  monotone map of n rows into n ranks misses none, a counting argument that takes
  the place of an induction over the list.  The page of a row is its rank divided
  by `perPage`, and `LastPage` bounds it by the `totalPages` of the code.
* `CatalogProofs`.  `CatalogTypeCorrect`, `CatalogKeepsIntegrity`, and
  `DeletesGive`: a DELETE removes rows, and its saves write an entity with nothing
  attached (`Carries`), whatever has become of the row; what a save
  loads in between only decides what else it removes.  `DeletesFailOnlyIfLate`,
  whose invariant `Lag` says of a content type on its way out that each of its
  permissions is among those that its save() loaded, or is late; after the save
  only late ones are left.  `CatalogPagesDivide`: each step adds at most one row
  to a table, so that the tables stay finite (`Finite`) and `PagesDivideAnyRows`
  holds of every list, whichever filters are given.
* `OAuthProofs`.  `OAuthTypeCorrect`, `DoneIsCalledOnce`, `SignsInToOwnAccount`,
  `OneTokenPerNamedProfile`, `AccountsHaveTokens`: `Inv` is inductive: tokens
  belong to a user who is there and was made for their profile, or whose id was
  inserted again (`Owners`); nothing that has an id the sequence has yet to give,
  nor any earlier row of it, is a profile's (`Ahead`), so that an explicit id
  never gets ahead of a sign-up; no two users share a name or an address
  (`Distinct`); and a request which looked up or signed up a user has one of its
  profile's (`AllSound`).  A stale save that finds a row leaves it its
  profile, and one that finds none marks the id.  `Kept` adds, as long as no query
  failed, that a profile's user has its token or a request that will save it, was
  inserted again, or had an access token that did not fit.

Only model-checked: the liveness properties `Answered`, `EveryRequestEnds`,
`DemotionPrevails` and `RevocationPrevails`, since liveness under fairness and
ENABLED are out of the prover's reach.  Every other property of a passing run is
proved.  No module has a RECURSIVE operator.

## Not modelled

* Wording of answers and logs, hashing, the redirect to Google and Facebook,
  configuration and seeds: no state, or strings only.
* The handlers of todo and company and the resolvers of the GraphQL application:
  a library generates them.  `Tenant` covers where their repositories come from.
* The exception filters, beyond what an error becomes: the core filter maps the
  exceptions it lists, any other falls to Nest's default, a 500.
* The validation pipe, beyond when it runs and which bodies it refuses; columns
  that no constraint and no decision depends on.
* Several tokens of one user at a time, and DEMO mode, in `AccessControl`.
* `down()` of the migration, and the indexes that are not unique.
* Operations that nothing calls (most of `OauthTokensAccesstokensService`).
