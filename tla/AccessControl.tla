--------------------------- MODULE AccessControl ---------------------------
(***************************************************************************)
(* Who may do what: the JSON Web Tokens of TokenService, the JwtStrategy   *)
(* that turns one into a user, the AccessGuard in front of every handler,  *)
(* and the administrators' handlers that change what the guard decides     *)
(* by.                                                                     *)
(*                                                                         *)
(* A token carries its user's flags and the names of its user's groups as  *)
(* they were when it was signed; nothing revokes it before it expires.     *)
(* What a group allows is read anew for every request.  Between the read   *)
(* of a user and the signature of its token, between the guard and the     *)
(* handler, and between the queries of a handler, other requests run.      *)
(*                                                                         *)
(* The guard stands in front of the routes that sign tokens, too: it puts  *)
(* the user of a token in the Authorization header where the middleware    *)
(* had put the user that signed in.                                        *)
(*                                                                         *)
(* token[u] is the last token that was signed for user u; serial stands    *)
(* for its time of issue, which tells it from the one that it replaced.  A *)
(* save is one step here, and the save of a sign-in is left out; what may  *)
(* happen inside one is the subject of Users.  Definitions marked "Fault"  *)
(* are bugs the code does not have; no action uses them.                   *)
(***************************************************************************)
EXTENDS Naturals

CONSTANTS
    Requests,       \* the requests a server works on at a time
    Ids,            \* user ids
    GroupIds, Names,
    Roles,          \* the boolean columns that @Roles() names
    Permissions,    \* the names of permissions
    Endpoints,      \* the handlers
    RolesOf,        \* @Roles() of handler and class
    PermissionsOf,  \* @Permissions() of handler and class
    UserBodies,     \* what administrators make of a user
    GroupBodies,    \* what administrators make of a group
    Targets,        \* the users that administrators change
    DefaultName,    \* 'user', the name of the group that a sign-up asks for
    SeedUsers, SeedGroups,
    Issues,         \* bound: the times of issue of a token that are told apart
    Undefined       \* no row, no token, no user

Optional(S) == {Undefined} \cup S

Account == [flags: SUBSET Roles, groups: SUBSET GroupIds]

Group == [name: Names, permissions: SUBSET Permissions]

\* What the payload of a token says of its user.
Claims == [flags: SUBSET Roles, names: SUBSET Names]

Token == [claims: Claims, serial: 0..(Issues - 1)]

\* A user read from the database, as tokenService.create() will sign it.
Reading == [id: Ids, claims: Claims]

\* The User that JwtStrategy puts into the request.
Principal == [flags: SUBSET Roles, permissions: SUBSET Permissions]

\* Why the guard let a request pass.
Grounds == {"role", "permission", "open"}

Steps == {"idle", "groups", "handler", "dropGroup", "info", "signing",
          "answering"}

UniqueNames(T) ==
    \A g, h \in GroupIds :
        g # h /\ T[g] # Undefined /\ T[h] # Undefined => T[g].name # T[h].name

ASSUME AccessAssumption ==
    /\ RolesOf \in [Endpoints -> SUBSET Roles]
    /\ PermissionsOf \in [Endpoints -> SUBSET Permissions]
    /\ UserBodies \subseteq Account
    /\ GroupBodies \subseteq Group
    /\ Targets \subseteq Ids
    /\ Issues \in Nat \ {0}
    /\ DefaultName \in Names
    /\ SeedUsers \in [Ids -> Optional(Account)]
    /\ SeedGroups \in [GroupIds -> Optional(Group)]
    /\ UniqueNames(SeedGroups)
    /\ \A u \in Ids : SeedUsers[u] # Undefined =>
          \A g \in SeedUsers[u].groups : SeedGroups[g] # Undefined
    /\ Undefined \notin Ids \cup GroupIds
    /\ Undefined \notin Endpoints \cup Grounds
    /\ Undefined \notin Account \cup Group
    /\ Undefined \notin Claims \cup Token \cup Principal \cup Reading

VARIABLES
    users,    \* users[u]: its flags and groups, or Undefined
    groups,   \* groups[g]: its name and permissions, or Undefined
    token,    \* token[u]: the last token of user u while it is valid, or Undefined
    req       \* req[r]: the state of request r

vars == <<users, groups, token, req>>

Request ==
    [pc: Steps,
     caller: Optional(Ids),          \* payload.id
     endpoint: Optional(Endpoints),
     claims: Optional(Claims),       \* the payload
     found: Optional(Reading),       \* req.user of a strategy, user of info()
     grounds: Optional(Grounds),     \* observation: what the guard decided by
     doomed: Optional(GroupIds)]     \* the group being deleted

Idle == [pc |-> "idle", caller |-> Undefined, endpoint |-> Undefined,
         claims |-> Undefined, found |-> Undefined, grounds |-> Undefined,
         doomed |-> Undefined]

Init ==
    /\ users = SeedUsers
    /\ groups = SeedGroups
    /\ token = [u \in Ids |-> Undefined]
    /\ req = [r \in Requests |-> Idle]

At(r, step) == req[r].pc = step

Become(r, state) == req' = [req EXCEPT ![r] = state]

-----------------------------------------------------------------------------
(***************************************************************************)
(* Tokens.                                                                 *)
(***************************************************************************)

\* getGroupByName(): the groups of that name.
GroupsNamed(name) == {g \in GroupIds : groups[g] # Undefined /\ groups[g].name = name}

\* Fault: groups go into a payload by id.
NamesById(account) == account.groups

\* The groups of a user that exist, by name.
NamesOf(account) == {groups[g].name : g \in {h \in account.groups : groups[h] # Undefined}}

ClaimsOf(account) == [flags |-> account.flags, names |-> NamesOf(account)]

ReadingOf(u) == [id |-> u, claims |-> ClaimsOf(users[u])]

\* The next token of user u.
Signed(u, claims) ==
    [claims |-> claims,
     serial |-> IF token[u] = Undefined THEN 0 ELSE (token[u].serial + 1) % Issues]

\* tokenService.create(), and the answer.
CreateToken(r, u, claims) ==
    /\ token' = [token EXCEPT ![u] = Signed(u, claims)]
    /\ Become(r, Idle)
    /\ UNCHANGED <<users, groups>>

\* POST /auth/signin, facebook/token and google-plus/token, up to the end of
\* the passport middleware: the strategy found user u.  The request may carry
\* the token of a user v, not necessarily u, in its Authorization header.
SignIn(r, u, v) ==
    /\ At(r, "idle")
    /\ users[u] # Undefined
    /\ v # Undefined => token[v] # Undefined
    /\ Become(r, [Idle EXCEPT
                    !.pc = "signing", !.caller = v, !.found = ReadingOf(u),
                    !.claims = IF v = Undefined THEN Undefined ELSE token[v].claims])
    /\ UNCHANGED <<users, groups, token>>

\* signUp() and a strategy that found no user: a new row in the group 'user'.
\* What follows is the same as for a sign-in.
SignUp(u) ==
    /\ users[u] = Undefined
    /\ GroupsNamed(DefaultName) # {}
    /\ users' = [users EXCEPT ![u] = [flags |-> {}, groups |-> GroupsNamed(DefaultName)]]
    /\ UNCHANGED <<groups, token, req>>

\* expiresIn: verify() refuses token t of user u from now on.
Expire(u, t) ==
    /\ token[u] = t
    /\ token' = [token EXCEPT ![u] = Undefined]
    /\ UNCHANGED <<users, groups, req>>

\* POST /auth/info: tokenService.validate() of the token in the body.
Info(r, u) ==
    /\ At(r, "idle")
    /\ token[u] # Undefined
    /\ Become(r, [Idle EXCEPT !.pc = "info", !.caller = u,
                              !.claims = token[u].claims])
    /\ UNCHANGED <<users, groups, token>>

\* Fault: the new token repeats the payload of the old one.
RenewedFromPayload(r) == [id |-> req[r].caller, claims |-> req[r].claims]

\* The payload of the new token is made of the user that authService.info()
\* finds.
Renewed(r) == ReadingOf(req[r].caller)

\* authService.info().
FindInfo(r) ==
    /\ At(r, "info")
    /\ IF users[req[r].caller] = Undefined THEN Become(r, Idle)
       ELSE Become(r, [req[r] EXCEPT !.pc = "answering", !.found = Renewed(r)])
    /\ UNCHANGED <<users, groups, token>>

\* The controller signs the user that was found: info() always, a sign-in
\* when its request had no token, when the token was refused, or when
\* preloadAll() failed.
Sign(r) ==
    /\ req[r].pc \in {"signing", "answering"}
    /\ CreateToken(r, req[r].found.id, req[r].found.claims)

-----------------------------------------------------------------------------
(***************************************************************************)
(* The guard.                                                              *)
(***************************************************************************)

\* Fault: the groups were loaded once, when the server started.
ValidateCached(claims) ==
    LET named == {g \in GroupIds : SeedGroups[g] # Undefined /\ SeedGroups[g].name \in claims.names}
    IN  [flags |-> claims.flags,
         permissions |-> UNION {SeedGroups[g].permissions : g \in named}]

\* JwtStrategy.validate(): one name without a group, and there is no user.
Validate(claims) ==
    IF \E name \in claims.names : GroupsNamed(name) = {} THEN Undefined
    ELSE [flags |-> claims.flags,
          permissions |-> UNION {groups[g].permissions :
                                   g \in UNION {GroupsNamed(n) : n \in claims.names}}]

HasRole(e, user) == user # Undefined /\ user.flags \cap RolesOf[e] # {}

HasPermission(e, user) == user # Undefined /\ user.permissions \cap PermissionsOf[e] # {}

\* Fault: one list of requirements left empty opens the handler.
UnrestrictedByEither(e) == RolesOf[e] = {} \/ PermissionsOf[e] = {}

\* hasRole === null && hasPermission === null.
Unrestricted(e) == RolesOf[e] = {} /\ PermissionsOf[e] = {}

\* AccessGuard.canActivate() once request.user is known: a refused request is
\* answered 403.
Decide(r, u, e, user) ==
    \/ /\ HasRole(e, user) \/ HasPermission(e, user) \/ Unrestricted(e)
       /\ Become(r, [Idle EXCEPT
                       !.pc = "handler", !.caller = u, !.endpoint = e,
                       !.grounds = IF HasRole(e, user) THEN "role"
                                   ELSE IF HasPermission(e, user) THEN "permission"
                                   ELSE "open"])
    \/ /\ ~(HasRole(e, user) \/ HasPermission(e, user) \/ Unrestricted(e))
       /\ Become(r, Idle)

\* A request with the token of client u: passport-jwt verifies it.
Call(r, u, e) ==
    /\ At(r, "idle")
    /\ token[u] # Undefined
    /\ Become(r, [Idle EXCEPT !.pc = "groups", !.caller = u, !.endpoint = e,
                              !.claims = token[u].claims])
    /\ UNCHANGED <<users, groups, token>>

\* A request without a token, or with one that expired.
CallAnonymously(r, e) ==
    /\ At(r, "idle")
    /\ Decide(r, Undefined, e, Undefined)
    /\ UNCHANGED <<users, groups, token>>

\* groupsService.preloadAll(), then validate() and the guard's decision.
LoadGroups(r) ==
    /\ At(r, "groups")
    /\ Decide(r, req[r].caller, req[r].endpoint, Validate(req[r].claims))
    /\ UNCHANGED <<users, groups, token>>

\* preloadAll() fails: canActivate() logs the error and goes on without a user.
LoadFails(r) ==
    /\ At(r, "groups")
    /\ Decide(r, Undefined, req[r].endpoint, Undefined)
    /\ UNCHANGED <<users, groups, token>>

\* A sign-in whose request carries a token that is accepted: AuthGuard puts
\* the user of its payload into the request, and the controller signs that.
SignBearer(r) ==
    /\ At(r, "signing")
    /\ req[r].claims # Undefined
    /\ Validate(req[r].claims) # Undefined
    /\ CreateToken(r, req[r].caller, req[r].claims)

\* ValidationPipe, which comes last, refuses the body of a sign-in.
Refuse(r) ==
    /\ At(r, "signing")
    /\ Become(r, Idle)
    /\ UNCHANGED <<users, groups, token>>

-----------------------------------------------------------------------------
(***************************************************************************)
(* The handlers that change what the guard decides by.                     *)
(***************************************************************************)

Administration ==
    {"addUser", "changeUser", "deleteUser", "changeGroup", "deleteGroup"}

Handling(r, e) == At(r, "handler") /\ req[r].endpoint = e

\* PUT /users/:id; the groups of the body have to exist.
ChangeUser(r) ==
    /\ Handling(r, "changeUser")
    /\ \E u \in Targets, body \in UserBodies :
          /\ users[u] # Undefined
          /\ \A g \in body.groups : groups[g] # Undefined
          /\ users' = [users EXCEPT ![u] = body]
    /\ Become(r, Idle)
    /\ UNCHANGED <<groups, token>>

\* POST /users: a new row, or the one of the id that the body names.
AddUser(r) ==
    /\ Handling(r, "addUser")
    /\ \E u \in Targets, body \in UserBodies :
          /\ \A g \in body.groups : groups[g] # Undefined
          /\ users' = [users EXCEPT ![u] = body]
    /\ Become(r, Idle)
    /\ UNCHANGED <<groups, token>>

\* DELETE /users/:id.
DeleteUser(r) ==
    /\ Handling(r, "deleteUser")
    /\ \E u \in Targets : users' = [users EXCEPT ![u] = Undefined]
    /\ Become(r, Idle)
    /\ UNCHANGED <<groups, token>>

\* POST /groups and PUT /groups/:id; the name is unique.
ChangeGroup(r) ==
    /\ Handling(r, "changeGroup")
    /\ \E g \in GroupIds, body \in GroupBodies :
          /\ GroupsNamed(body.name) \subseteq {g}
          /\ groups' = [groups EXCEPT ![g] = body]
    /\ Become(r, Idle)
    /\ UNCHANGED <<users, token>>

\* DELETE /groups/:id: the save() with permissions = [] ...
ClearGroup(r) ==
    /\ Handling(r, "deleteGroup")
    /\ \E g \in GroupIds :
          /\ groups[g] # Undefined
          /\ groups' = [groups EXCEPT ![g].permissions = {}]
          /\ Become(r, [req[r] EXCEPT !.pc = "dropGroup", !.doomed = g])
    /\ UNCHANGED <<users, token>>

\* ... then the DELETE, which takes the memberships along.
DropGroup(r) ==
    /\ At(r, "dropGroup")
    /\ LET g == req[r].doomed IN
       /\ groups' = [groups EXCEPT ![g] = Undefined]
       /\ users' = [u \in Ids |->
                      IF users[u] = Undefined THEN Undefined
                      ELSE [users[u] EXCEPT !.groups = @ \ {g}]]
    /\ Become(r, Idle)
    /\ UNCHANGED token

\* One of these finds nothing to change, or fails.
GiveUp(r) ==
    /\ At(r, "handler") => req[r].endpoint \in Administration
    /\ req[r].pc \in {"handler", "dropGroup"}
    /\ Become(r, Idle)
    /\ UNCHANGED <<users, groups, token>>

\* Any other handler: it changes nothing that the guard decides by.
Serve(r) ==
    /\ At(r, "handler")
    /\ req[r].endpoint \notin Administration
    /\ Become(r, Idle)
    /\ UNCHANGED <<users, groups, token>>

\* What the server does of its own accord with a request it has.
Work(r) ==
    \/ FindInfo(r) \/ Sign(r) \/ SignBearer(r) \/ Refuse(r)
    \/ LoadGroups(r) \/ LoadFails(r)
    \/ AddUser(r) \/ ChangeUser(r) \/ DeleteUser(r) \/ ChangeGroup(r)
    \/ ClearGroup(r) \/ DropGroup(r) \/ GiveUp(r) \/ Serve(r)

Next ==
    \/ \E r \in Requests, u \in Ids, v \in Optional(Ids) : SignIn(r, u, v)
    \/ \E u \in Ids : SignUp(u)
    \/ \E u \in Ids, t \in Token : Expire(u, t)
    \/ \E r \in Requests, u \in Ids : Info(r, u)
    \/ \E r \in Requests, u \in Ids, e \in Endpoints : Call(r, u, e)
    \/ \E r \in Requests, e \in Endpoints : CallAnonymously(r, e)
    \/ \E r \in Requests : Work(r)

Spec == Init /\ [][Next]_vars

\* Every query is answered or fails, and every token expires in the end
\* unless it is replaced before.
Fairness ==
    /\ \A r \in Requests : WF_vars(Work(r))
    /\ \A u \in Ids, t \in Token : WF_vars(Expire(u, t))

FairSpec == Spec /\ Fairness
-----------------------------------------------------------------------------
(***************************************************************************)
(* Properties.                                                             *)
(***************************************************************************)

\* A request knows what its step needs.
Complete(q) ==
    /\ q.pc \in {"groups", "info"} => q.claims # Undefined
    /\ q.pc = "groups" => q.endpoint # Undefined
    /\ q.pc \in {"signing", "answering"} => q.found # Undefined
    /\ q.claims # Undefined => q.caller # Undefined

\* The tables, the tokens and the requests are what they are declared to be.
TypeOK ==
    /\ users \in [Ids -> Optional(Account)]
    /\ groups \in [GroupIds -> Optional(Group)]
    /\ token \in [Ids -> Optional(Token)]
    /\ req \in [Requests -> Request]
    /\ \A r \in Requests : Complete(req[r])

\* Request r of user u is in handler e, let through because of what.
Inside(r, u, e, what) ==
    /\ At(r, "handler")
    /\ req[r].caller = u
    /\ req[r].endpoint = e
    /\ req[r].grounds = what

LacksRole(u, e) == users[u] = Undefined \/ users[u].flags \cap RolesOf[e] = {}

\* A sign-in is under way whose request carries a token of user u.
ResignedFor(u) == \E r \in Requests : At(r, "signing") /\ req[r].caller = u

\* A user that loses the flags of a handler for good, or is deleted for good,
\* is sooner or later no longer let in because of them, unless sign-ins go on
\* to carry its token in their Authorization header and so have it signed
\* again: the tokens that still carry the flags expire, and neither a sign-in
\* without a header nor POST /auth/info signs another one.
DemotionPrevails ==
    \A u \in Ids, e \in Endpoints :
        <>[](LacksRole(u, e) /\ ~ResignedFor(u)) =>
            <>[](\A r \in Requests : ~Inside(r, u, e, "role"))

Claimed(claims, e) == claims.flags \cap RolesOf[e] # {}

\* Request r bears a flag of handler e for user u: the token in its header says
\* so, or the user that it read and will sign, or the flag has let it in.
Bears(r, u, e) ==
    \/ /\ req[r].pc \in {"groups", "signing"}
       /\ req[r].caller = u
       /\ Claimed(req[r].claims, e)
    \/ /\ req[r].pc \in {"signing", "answering"}
       /\ req[r].found.id = u
       /\ Claimed(req[r].found.claims, e)
    \/ Inside(r, u, e, "role")

\* Something of user u still bears a flag of handler e: its token or a request.
Lingers(u, e) ==
    \/ token[u] # Undefined /\ Claimed(token[u].claims, e)
    \/ \E r \in Requests : Bears(r, u, e)

\* While a user lacks the flags of a handler, once the last token and the last
\* request that bore one are gone, no renewal, sign-in, sign-up or call brings
\* one back: a token that is posted to POST /auth/info bears nothing, since
\* what is signed there is the row; only a header is signed as it is.
DemotionIsFinal ==
    [][\A u \in Ids, e \in Endpoints :
          LacksRole(u, e) /\ ~Lingers(u, e) => ~Lingers(u, e)']_vars

GrantedByNone(e) ==
    \A g \in GroupIds :
        groups[g] # Undefined => groups[g].permissions \cap PermissionsOf[e] = {}

\* Once no group carries a permission of a handler any more, nobody is let in
\* because of one, whatever the tokens in use say: JwtStrategy reads the
\* groups anew for every request.
RevocationPrevails ==
    \A e \in Endpoints :
        <>[]GrantedByNone(e) =>
            <>[](\A r \in Requests, u \in Ids : ~Inside(r, u, e, "permission"))

\* What the description of POST /auth/info says: it returns the token that it
\* checked.
InfoReturnsTheToken ==
    [][\A r \in Requests :
         At(r, "answering") /\ Sign(r) =>
             token'[req[r].caller].claims = req[r].claims]_vars
=============================================================================
