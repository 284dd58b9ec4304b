------------------------------- MODULE OAuth -------------------------------
(***************************************************************************)
(* Signing in with Google or Facebook.  A client posts an access token to  *)
(* auth/google-plus/token or auth/facebook/token; or it posts a code to    *)
(* auth/.../signin, and AuthService exchanges that for an access token and *)
(* posts it to the server's own token route (the front of the request, of  *)
(* which that token request is the back).  Passport fetches the profile    *)
(* and calls the strategy, which looks for a token of that profile, signs  *)
(* a new user up when the lookup fails for any reason, and calls done().   *)
(* The first call of done() decides the token request; nothing stops the   *)
(* strategy there.  A user that it hands over is signed by the controller, *)
(* after AccessGuard, which puts the user of a JWT in the request's        *)
(* Authorization header in its place.                                      *)
(*                                                                         *)
(* Every query is a step; other requests, local sign-ups, edited and       *)
(* deleted users, and deleted users that a stale save() inserts again come *)
(* between.  Definitions marked "Fault" are bugs the code does not have;   *)
(* no action uses them.                                                    *)
(***************************************************************************)
EXTENDS Integers, Sequences, FiniteSets

CONSTANTS
    Requests,
    ClientIds,        \* the ids that a provider gives its profiles
    NoId,             \* a profile without an id
    Profiles,         \* the profiles that the providers send
    Emails, Usernames,
    ProfileEmail,     \* `${profile.id}@google.com`
    ProfileName,      \* `google_${profile.id}`
    Locals,           \* the accounts that people register or rename to
    MaxId,            \* bound: users
    NamedIds,         \* bound: the users that bodies and JWTs name
    MaxEdits,         \* bound: sign-ups, edits and deletes of others
    MaxFaults,        \* bound: failed queries and lost connections
    Undefined

Optional(S) == {Undefined} \cup S

Clients == ClientIds \cup {NoId}

UserIds == 1..MaxId

Profile == [id: Clients, email: Optional(Emails)]

Account == [email: Emails, name: Usernames]

\* A row of users.  of: observation, the profile that it was signed up for.
Row == [email: Emails, name: Usernames, of: Optional(Clients)]

Token == [client: ClientIds, user: UserIds]

\* done(error, user)
Call == [error: BOOLEAN, user: Optional(UserIds)]

Providers == {"google", "facebook"}

Routes == {"token", "signin"}

Steps == {"idle", "exchange", "enter", "lookup", "info", "preload", "check",
          "recheck", "insert", "reread", "save", "done"}

\* 200, 400, 401, and what the exception filter makes of an error; "granted"
\* is a user on its way through the guard to the controller.
Answers == {"granted", "ok", "badRequest", "unauthorized", "error"}

ASSUME OAuthAssumption ==
    /\ Profiles \subseteq Profile
    /\ ProfileEmail \in [Clients -> Emails]
    /\ ProfileName \in [Clients -> Usernames]
    /\ \A c, d \in Clients : ProfileName[c] = ProfileName[d] => c = d
    /\ Locals \subseteq Account
    /\ NoId \notin ClientIds
    /\ MaxId \in Nat
    /\ NamedIds \subseteq UserIds
    /\ MaxEdits \in Nat
    /\ MaxFaults \in Nat
    /\ Undefined \notin UserIds \cup Row \cup Clients \cup Emails
    /\ Undefined \notin Profile \cup Answers \cup Providers

VARIABLES
    users,        \* users[u]: the row of user u, or Undefined
    nextId,       \* the sequence of users
    tokens,       \* the rows of oauth_tokens_accesstokens
    auth,         \* auth[r]: the state of request r
    constructed,  \* whether Nest constructed GooglePlusStrategy
    nameless,     \* whether a request without a tenant header gets through
    edits, faults,
    was,          \* was[u]: the rows that user u had, as some request read them
    again         \* observation: the ids that were inserted after the sequence
                  \* had given them

others == <<was, again>>

vars == <<users, nextId, tokens, auth, constructed, nameless, edits, faults, others>>

fixed == <<constructed, nameless>>

Idle == [provider |-> Undefined, route |-> "token", pc |-> "idle",
         profile |-> Undefined,
         fits |-> TRUE,          \* the access token has at most 500 characters
         bearer |-> Undefined,   \* the user of the JWT that the guard accepted
         user |-> Undefined,     \* the user found, or the one signed up
         calls |-> << >>,        \* the calls of done()
         answer |-> Undefined,   \* of the token request
         signed |-> Undefined,   \* the user that the answer's JWT is for
         front |-> Undefined]    \* of the request to auth/.../signin

Init ==
    /\ users = [u \in UserIds |-> Undefined]
    /\ nextId = 1
    /\ tokens = {}
    /\ auth = [r \in Requests |-> Idle]
    /\ constructed \in BOOLEAN
    /\ nameless \in BOOLEAN
    /\ edits = 0
    /\ faults = 0
    /\ was = [u \in UserIds |-> {}]
    /\ again = {}

At(r, step) == auth[r].pc = step

Become(r, state) == auth' = [auth EXCEPT ![r] = state]

Goto(r, step) == Become(r, [auth[r] EXCEPT !.pc = step])

\* Passport answers 401 when there is no user; a user goes on to the guard.
\* Only the first call counts.
AnswerOf(call) ==
    IF call.error THEN "error"
    ELSE IF call.user = Undefined THEN "unauthorized"
    ELSE "granted"

Called(q, call) ==
    [q EXCEPT !.calls = Append(@, call),
              !.answer = IF @ = Undefined THEN AnswerOf(call) ELSE @]

Nobody == [error |-> FALSE, user |-> Undefined]
Failed == [error |-> TRUE, user |-> Undefined]
Success(user) == [error |-> FALSE, user |-> user]

\* Fault: nobody catches what the sign-up throws.
RaiseUnhandled(r) == Goto(r, "done")

\* The outer catch: done(err, null).
Raise(r) == Become(r, [Called(auth[r], Failed) EXCEPT !.pc = "done"])

-----------------------------------------------------------------------------
(***************************************************************************)
(* The routes, and AuthService.googleSignIn() and facebookSignIn().        *)
(***************************************************************************)

Request(r) ==
    /\ At(r, "idle")
    /\ \E provider \in Providers, route \in Routes :
         Become(r, [Idle EXCEPT
                      !.provider = provider, !.route = route,
                      !.pc = IF route = "signin" THEN "exchange" ELSE "enter",
                      !.front = IF route = "signin" THEN "waiting" ELSE Undefined])
    /\ UNCHANGED <<users, nextId, tokens, fixed, edits, faults, others>>

\* The provider gives an access token for the code, or an error: 400.
Exchange(r) ==
    /\ At(r, "exchange")
    /\ \/ Goto(r, "enter")
       \/ Become(r, [auth[r] EXCEPT !.pc = "done", !.front = "badRequest"])
    /\ UNCHANGED <<users, nextId, tokens, fixed, edits, faults, others>>

\* What the own token route says is passed on; any error of it is a 400.
Relay(r) ==
    /\ auth[r].front = "waiting"
    /\ auth[r].answer \notin {Undefined, "granted"}
    /\ Become(r, [auth[r] EXCEPT
                    !.front = IF auth[r].answer = "ok" THEN "ok" ELSE "badRequest"])
    /\ UNCHANGED <<users, nextId, tokens, fixed, edits, faults, others>>

\* The connection between the two is lost: the token request goes on.
Lost(r) ==
    /\ faults < MaxFaults
    /\ auth[r].front = "waiting"
    /\ Become(r, [auth[r] EXCEPT
                    !.front = "badRequest",
                    !.pc = IF @ = "exchange" THEN "done" ELSE @])
    /\ faults' = faults + 1
    /\ UNCHANGED <<users, nextId, tokens, fixed, edits, others>>

\* The token request ends before the strategy is called.
Turn(r, answer) == Become(r, [auth[r] EXCEPT !.pc = "done", !.answer = answer])

\* AuthService sends no tenant header with the request that it makes.
Unnamed(r) == auth[r].route = "signin" /\ ~nameless

Registered(r) == auth[r].provider = "google" => constructed

\* 400 of the tenant middleware; 'Unknown authentication strategy'; no access
\* token; a provider that does not answer with a profile.
TurnedAway(r) ==
    /\ At(r, "enter")
    /\ IF Unnamed(r) THEN Turn(r, "badRequest")
       ELSE IF ~Registered(r) THEN Turn(r, "error")
       ELSE \/ auth[r].route = "token" /\ Turn(r, "unauthorized")
            \/ Turn(r, "error")
    /\ UNCHANGED <<users, nextId, tokens, fixed, edits, faults, others>>

\* The strategy is called.  A profile without an id is nobody's, and the
\* callback goes on all the same.
Noticed(q, profile) ==
    LET known == [q EXCEPT !.profile = profile] IN
    IF profile.id = NoId THEN Called(known, Nobody) ELSE known

VerifyGoogle(r) ==
    /\ At(r, "enter")
    /\ auth[r].provider = "google"
    /\ ~Unnamed(r)
    /\ constructed
    /\ \E profile \in Profiles :
         Become(r, [Noticed(auth[r], profile) EXCEPT !.pc = "lookup"])
    /\ UNCHANGED <<users, nextId, tokens, fixed, edits, faults, others>>

\* Nothing assigns FacebookStrategy's services: the lookup throws, and so does
\* the sign-up.
VerifyFacebook(r) ==
    /\ At(r, "enter")
    /\ auth[r].provider = "facebook"
    /\ ~Unnamed(r)
    /\ \E profile \in Profiles :
         Become(r, [Called(Noticed(auth[r], profile), Failed) EXCEPT !.pc = "done"])
    /\ UNCHANGED <<users, nextId, tokens, fixed, edits, faults, others>>

-----------------------------------------------------------------------------
(***************************************************************************)
(* GooglePlusStrategy's callback.                                          *)
(***************************************************************************)

\* Fault: the provider's id is not among the conditions.
TokensOfAnyone(client) == tokens

\* findByProviderClientId(), by the client id only.
TokensOf(client) == {token \in tokens : token.client = client}

\* A condition on undefined selects nothing, or does not count.
Candidates(client) == IF client = NoId THEN tokens ELSE TokensOf(client)

Lookup(r) ==
    /\ At(r, "lookup")
    /\ \/ \E token \in Candidates(auth[r].profile.id) :
            Become(r, [auth[r] EXCEPT !.pc = "info", !.user = token.user])
       \/ TokensOf(auth[r].profile.id) = {} /\ Goto(r, "preload")
    /\ UNCHANGED <<users, nextId, tokens, fixed, edits, faults, others>>

\* AuthService.info(), that is UsersService.findById().
Info(r) ==
    /\ At(r, "info")
    /\ IF users[auth[r].user] = Undefined
       THEN Become(r, [auth[r] EXCEPT !.pc = "preload", !.user = Undefined])
       ELSE Become(r, [Called(auth[r], Success(auth[r].user)) EXCEPT !.pc = "done"])
    /\ UNCHANGED <<users, nextId, tokens, fixed, edits, faults, others>>

\* The SignUpDto that is made of a profile.
SignUpAccount(profile) ==
    [email |-> IF profile.email = Undefined THEN ProfileEmail[profile.id]
               ELSE profile.email,
     name |-> ProfileName[profile.id]]

Taken(account, u) ==
    \E v \in UserIds \ {u} :
        /\ users[v] # Undefined
        /\ users[v].email = account.email \/ users[v].name = account.name

\* Fault: the columns are not unique.
NotUnique(account, u) == FALSE

\* The unique indexes of users.
Duplicate(account, u) == Taken(account, u)

\* GroupsService.preloadAll()
Preload(r) ==
    /\ At(r, "preload")
    /\ Goto(r, "check")
    /\ UNCHANGED <<users, nextId, tokens, fixed, edits, faults, others>>

\* assertUsernameAndEmail(), of AuthService.signUp() and again of
\* UsersService.create(): 409.
Check(r, step, next) ==
    /\ At(r, step)
    /\ IF Taken(SignUpAccount(auth[r].profile), 0) THEN Raise(r) ELSE Goto(r, next)
    /\ UNCHANGED <<users, nextId, tokens, fixed, edits, faults, others>>

RowOf(account, client) ==
    [email |-> account.email, name |-> account.name, of |-> client]

\* save() of the user: the entity's validation, then a transaction, whose
\* INSERT draws an id even if it fails.
Insert(r) ==
    /\ At(r, "insert")
    /\ \/ Raise(r) /\ UNCHANGED <<users, nextId>>   \* names that User refuses
       \/ /\ nextId <= MaxId
          /\ nextId' = nextId + 1
          /\ LET account == SignUpAccount(auth[r].profile) IN
             IF users[nextId] # Undefined \/ Duplicate(account, 0)
             THEN Raise(r) /\ UNCHANGED users
             ELSE /\ users' = [users EXCEPT ![nextId] =
                                 RowOf(account, auth[r].profile.id)]
                  /\ Become(r, [auth[r] EXCEPT !.pc = "reread", !.user = nextId])
    /\ UNCHANGED <<tokens, fixed, edits, faults, others>>

Rereading(r, state) ==
    /\ At(r, "reread")
    /\ IF users[auth[r].user] = Undefined THEN Raise(r) ELSE Become(r, state)
    /\ UNCHANGED <<users, nextId, tokens, fixed, edits, faults, others>>

\* Fault: the user is signed in before the token is saved.
RereadThenDone(r) ==
    Rereading(r, [Called(auth[r], Success(auth[r].user)) EXCEPT !.pc = "save"])

\* Fault: the token is forgotten.
RereadOnly(r) ==
    Rereading(r, [Called(auth[r], Success(auth[r].user)) EXCEPT !.pc = "done"])

\* UsersService.create() ends with findById().
Reread(r) == Rereading(r, [auth[r] EXCEPT !.pc = "save"])

\* Fault: the entity is not validated.
AcceptAny(client, fits) == TRUE

\* The validation of the token's entity: @IsNotEmpty() of providerClientId and
\* @MaxLength(500) of accessToken.  The others cannot fail here: the provider is
\* the strategy's, an access token was given, and an id of more than 200
\* characters makes a username that User does not accept.
Acceptable(client, fits) == client # NoId /\ fits

\* save() of the token, whose user_id is a foreign key.
Save(r) ==
    /\ At(r, "save")
    /\ \E fits \in BOOLEAN :
         LET client == auth[r].profile.id
             user == auth[r].user
             sent == [auth[r] EXCEPT !.fits = fits]
         IN  IF ~Acceptable(client, fits) \/ users[user] = Undefined
             THEN /\ Become(r, [Called(sent, Failed) EXCEPT !.pc = "done"])
                  /\ UNCHANGED tokens
             ELSE /\ tokens' = tokens \cup {[client |-> client, user |-> user]}
                  /\ Become(r, [Called(sent, Success(user)) EXCEPT !.pc = "done"])
    /\ UNCHANGED <<users, nextId, fixed, edits, faults, others>>

\* A query fails: the lookup's failure means an unknown profile, and that of
\* a check that nobody has the name; the others end the sign-up.
QueryFails(r) ==
    /\ faults < MaxFaults
    /\ \/ auth[r].pc \in {"lookup", "info"}
          /\ Become(r, [auth[r] EXCEPT !.pc = "preload", !.user = Undefined])
       \/ At(r, "check") /\ Goto(r, "recheck")
       \/ At(r, "recheck") /\ Goto(r, "insert")
       \/ auth[r].pc \in {"preload", "insert", "reread", "save"} /\ Raise(r)
    /\ faults' = faults + 1
    /\ UNCHANGED <<users, nextId, tokens, fixed, edits, others>>

-----------------------------------------------------------------------------
(***************************************************************************)
(* AccessGuard and the controller.                                         *)
(***************************************************************************)

\* The users whose JWT a request may carry; that of AuthService to the own
\* token route carries none.
Bearers(route) ==
    IF route = "signin" THEN {}
    ELSE {u \in NamedIds : users[u] # Undefined \/ was[u] # {}}

\* The user that done() handed over is signed, unless the guard accepts a JWT:
\* then its user is.  A JWT that is refused, for a group that is gone, say, stops
\* nobody: the route asks for no role and no permission.
Sign(r) ==
    /\ auth[r].answer = "granted"
    /\ \E bearer \in Optional(Bearers(auth[r].route)) :
         Become(r, [auth[r] EXCEPT
                      !.answer = "ok", !.bearer = bearer,
                      !.signed = IF bearer = Undefined THEN auth[r].calls[1].user
                                 ELSE bearer])
    /\ UNCHANGED <<users, nextId, tokens, fixed, edits, faults, others>>

-----------------------------------------------------------------------------
(***************************************************************************)
(* Everybody else, as far as the users table goes.                         *)
(***************************************************************************)

Edit ==
    /\ edits < MaxEdits
    /\ edits' = edits + 1
    /\ UNCHANGED <<tokens, auth, fixed, faults>>

\* A sign-up, or POST /users without an id.
Register ==
    /\ Edit
    /\ nextId <= MaxId
    /\ nextId' = nextId + 1
    /\ \E account \in Locals :
         IF users[nextId] # Undefined \/ Duplicate(account, 0)
         THEN UNCHANGED users
         ELSE users' = [users EXCEPT ![nextId] = RowOf(account, Undefined)]
    /\ UNCHANGED others

\* An INSERT that names its id.
InsertAs(u, row) ==
    /\ users[u] = Undefined
    /\ ~Duplicate(row, u)
    /\ users' = [users EXCEPT ![u] = row]
    /\ again' = IF u < nextId THEN again \cup {u} ELSE again

\* POST /users with the id of nobody: of a deleted user, or one that the
\* sequence has yet to give.
RegisterAs(u) ==
    /\ Edit
    /\ \E account \in Locals : InsertAs(u, RowOf(account, Undefined))
    /\ UNCHANGED <<nextId, was>>

\* The row and those before it stay in the memory of the requests that read it.
Remembered(u) == was' = [was EXCEPT ![u] = @ \cup {users[u]}]

Write(u, account) ==
    /\ users[u] # Undefined
    /\ ~Duplicate(account, u)
    /\ users' = [users EXCEPT ![u] = RowOf(account, @.of)]
    /\ Remembered(u)
    /\ UNCHANGED again

\* PUT /users/:id, and POST /users with the id of somebody.
Rename(u) ==
    /\ Edit
    /\ \E account \in Locals : Write(u, account)
    /\ UNCHANGED nextId

\* save() of an entity that was read before (a sign-in, a DELETE): the row as it
\* was then is written again, or inserted again.
SaveStale(u) ==
    /\ Edit
    /\ \E row \in was[u] :
         \/ Write(u, row)
         \/ InsertAs(u, row) /\ UNCHANGED was
    /\ UNCHANGED nextId

\* ON DELETE NO ACTION: a user who has a token stays.
Remove(u) ==
    /\ Edit
    /\ users[u] # Undefined
    /\ \A token \in tokens : token.user # u
    /\ users' = [users EXCEPT ![u] = Undefined]
    /\ Remembered(u)
    /\ UNCHANGED <<nextId, again>>

Step(r) ==
    \/ Exchange(r) \/ Relay(r) \/ TurnedAway(r) \/ VerifyGoogle(r) \/ VerifyFacebook(r)
    \/ Lookup(r) \/ Info(r) \/ Preload(r)
    \/ Check(r, "check", "recheck") \/ Check(r, "recheck", "insert")
    \/ Insert(r) \/ Reread(r) \/ Save(r) \/ QueryFails(r)
    \/ Sign(r)

\* Every request was answered.
Quiescent ==
    /\ \A r \in Requests :
          At(r, "done") /\ auth[r].answer # "granted" /\ auth[r].front # "waiting"
    /\ UNCHANGED vars

Next ==
    \/ \E r \in Requests : Request(r) \/ Step(r) \/ Lost(r)
    \/ Register
    \/ \E u \in NamedIds : RegisterAs(u)
    \/ \E u \in UserIds : Rename(u) \/ SaveStale(u) \/ Remove(u)
    \/ Quiescent

Spec == Init /\ [][Next]_vars

\* Queries and requests are answered or fail.
Fairness == \A r \in Requests : WF_vars(Step(r))

FairSpec == Spec /\ Fairness
-----------------------------------------------------------------------------
(***************************************************************************)
(* Properties.                                                             *)
(***************************************************************************)

Session == [provider: Optional(Providers), route: Routes, pc: Steps,
             profile: Optional(Profiles), fits: BOOLEAN,
             bearer: Optional(UserIds), user: Optional(UserIds),
             calls: Seq(Call), answer: Optional(Answers), signed: Optional(UserIds),
             front: Optional({"waiting", "ok", "badRequest"})]

\* The tables and the requests are what they are declared to be.
TypeOK ==
    /\ users \in [UserIds -> Optional(Row)]
    /\ nextId \in 1..(MaxId + 1)
    /\ tokens \in SUBSET Token
    /\ auth \in [Requests -> Session]
    /\ constructed \in BOOLEAN
    /\ nameless \in BOOLEAN
    /\ edits \in 0..MaxEdits
    /\ faults \in 0..MaxFaults
    /\ was \in [UserIds -> SUBSET Row]
    /\ again \in SUBSET UserIds

\* A callback calls done() once for a profile that has an id, whatever of its
\* queries fails, and not before it has finished: a second call would answer a
\* request that was answered.
DoneOnce ==
    \A r \in Requests :
        /\ auth[r].profile # Undefined
        /\ auth[r].profile.id # NoId
        => Len(auth[r].calls) = IF At(r, "done") THEN 1 ELSE 0

\* Whoever signs in with a profile, and sends nobody's JWT along, gets the
\* account that was made for that profile: not that of another profile, nor
\* that of a local user of the same name.  Only a body that names the id of a
\* new user, deleted before its token is saved, puts another row there.
OwnAccount ==
    \A r \in Requests :
        /\ auth[r].answer = "ok"
        /\ auth[r].bearer = Undefined
        => LET u == auth[r].signed IN
           users[u] # Undefined /\ (users[u].of = auth[r].profile.id \/ u \in again)

\* A profile has two tokens, of which a sign-in takes any, only if one of its
\* users was given another username in between: the unique usernames are what
\* keeps concurrent first sign-ins apart.
OneTokenWhileNamed ==
    \A s, t \in tokens :
        /\ s.client = t.client
        /\ \A u \in {s.user, t.user} : users[u].name = ProfileName[s.client]
        => s = t

\* Unless a query failed, the account of a profile has its token as soon as
\* the request that made it is done: without one nobody can sign in to it, as
\* every new attempt would fail to sign up.  Two accounts stay without: that of
\* a request whose access token is too long for the token's entity, which is
\* validated when the user is committed; and one that was deleted before its
\* token was saved, and came back.
TokenUnlessFault ==
    faults = 0 =>
        \A u \in UserIds \ again :
            /\ users[u] # Undefined
            /\ users[u].of \in ClientIds
            => \/ [client |-> users[u].of, user |-> u] \in tokens
               \/ \E r \in Requests :
                    /\ auth[r].user = u
                    /\ auth[r].pc \in {"reread", "save"} \/ ~auth[r].fits

\* Every token request is answered, and so is the sign-in that waits for it.
EveryRequestEnds ==
    \A r \in Requests :
        auth[r].pc \notin {"idle", "done"} ~>
            /\ At(r, "done")
            /\ \/ auth[r].front \in {"ok", "badRequest"}
               \/ auth[r].answer \notin {Undefined, "granted"}
            /\ auth[r].front # "waiting"
=============================================================================
