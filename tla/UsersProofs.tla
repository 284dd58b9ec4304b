---------------------------- MODULE UsersProofs ----------------------------
(***************************************************************************)
(* Theorems about Users for every number of requests, users, groups and    *)
(* column values: the tables stay consistent (Integrity), nobody holds     *)
(* what nobody gave (Provenance).                                          *)
(*                                                                         *)
(* Shape says what a request has in memory at each of its steps, Carried   *)
(* where the values of an entity on its way back to the database come      *)
(* from.  Both are needed: a step of Next may write whatever a request     *)
(* carries.                                                                *)
(***************************************************************************)
EXTENDS Users, TLAPS

\* The steps from the assertion inside create() and update() to the write.
Saving == {"email", "username", "load", "write"}

\* The steps of the assertion that AccountService and signUp() make first.
Asserting == {"preEmail", "preUsername"}

\* A request as far as its own steps determine it.
ShapeOf(q) ==
    /\ q.pc # "idle" => q.kind # Undefined
    /\ q.pc = "preload" => q.kind = "signUp" /\ q.item \in Body
    /\ q.pc \in Asserting => q.kind \in {"account", "signUp"} /\ q.item \in Body
    /\ q.pc = "find" =>
         /\ q.kind \in {"account", "delete", "signIn"}
         /\ q.kind = "account" => q.item \in Body
         /\ q.kind = "signIn" => q.item \in Item
    /\ q.pc \in Saving => q.item \in Body
    /\ /\ q.pc \in Asserting \cup Saving \cup {"find"}
       /\ q.kind \in {"account", "delete"}
       => q.target \in Ids
    /\ q.pc \in Saving /\ q.kind \in {"signIn", "update"} => q.target \in Ids
    /\ q.pc \in {"read", "remove"} => q.target \in Ids
    /\ q.pc = "write" /\ q.base # Undefined => q.target \in Ids

Shape == \A r \in Requests : ShapeOf(req[r])

\* The entity that a request is about to save holds, besides what the
\* request may give, only values that were given to its id.
CarriedBy(q, given) ==
    /\ q.pc \in Saving /\ q.kind \in {"account", "delete", "signIn"} =>
         /\ q.item.flags \in [FlagColumns -> BOOLEAN]
         /\ Given(q.item.flags) \subseteq given[q.target]
         /\ q.item.password \in given[q.target] \cup {Undefined}
         /\ q.item.groups \subseteq given[q.target]
    /\ q.pc \in Asserting \cup {"find"} /\ q.kind = "account" =>
         q.item.password = Undefined
    /\ q.pc \in Saving /\ q.kind \in {"update", "account"} =>
         q.item.password = Undefined
    /\ q.pc \in {"preload"} \cup Asserting \cup Saving /\ q.kind = "signUp" =>
         /\ q.item.flags = NoFlags
         /\ q.pc \in Asserting => q.item.groups \in {Undefined, {UserGroup}}
         /\ q.pc \in Saving => q.item.groups = {UserGroup}

Carried == \A r \in Requests : CarriedBy(req[r], granted)

Proper(q) == q \in Request /\ ShapeOf(q)

TypeInv == TypeOK /\ Shape

-----------------------------------------------------------------------------
(***************************************************************************)
(* Types.                                                                  *)
(***************************************************************************)

\* Every request is proper again when the one that moves stays so.
LEMMA BecomeProper ==
    ASSUME TypeInv, NEW r \in Requests, NEW q, Become(r, q), Proper(q)
    PROVE  req' \in [Requests -> Request] /\ Shape'
<1>1. req' = [req EXCEPT ![r] = q] /\ req \in [Requests -> Request]
  BY DEF Become, TypeInv, TypeOK
<1>2. \A s \in Requests : req'[s] = IF s = r THEN q ELSE req[s]
  BY <1>1
<1>3. QED
  BY <1>1, <1>2 DEF Proper, Shape, TypeInv

\* A request that is answered carries nothing more.
LEMMA AnswerProper ==
    ASSUME NEW q \in Request, q.kind # Undefined, NEW a \in Answers
    PROVE  Proper([q EXCEPT !.pc = "done", !.answer = a, !.self = Undefined,
                            !.item = Undefined, !.base = Undefined])
BY DEF Proper, ShapeOf, Request, Steps, Optional, Asserting, Saving

LEMMA BodyIsItem == Body \subseteq Item
BY DEF Body, Item, Optional

\* The pairs that a row or a body sets, column by column.
LEMMA FlagsGiven ==
    /\ [FlagColumns -> BOOLEAN] \subseteq SomeFlags
    /\ NoFlags \in SomeFlags /\ Given(NoFlags) = {}
    /\ \A flags \in SomeFlags : Given(flags) \subseteq FlagColumns \X BOOLEAN
    /\ \A flags \in [FlagColumns -> BOOLEAN] : \A c \in FlagColumns :
           <<c, flags[c]>> \in Given(flags)
<1>1. [FlagColumns -> BOOLEAN] \subseteq SomeFlags /\ NoFlags \in SomeFlags
  BY DEF SomeFlags, Optional, NoFlags
<1>2. Given(NoFlags) = {}
  BY DEF Given, NoFlags
<1>3. ASSUME NEW flags \in SomeFlags PROVE Given(flags) \subseteq FlagColumns \X BOOLEAN
  <2>1. \A c \in FlagColumns : flags[c] # Undefined => flags[c] \in BOOLEAN
    BY DEF SomeFlags, Optional
  <2>2. QED
    BY <2>1 DEF Given
<1>4. ASSUME NEW flags \in [FlagColumns -> BOOLEAN], NEW c \in FlagColumns
      PROVE  <<c, flags[c]>> \in Given(flags)
  <2>1. flags[c] \in BOOLEAN /\ flags[c] # Undefined
    BY UsersAssumption
  <2>2. QED
    BY <2>1 DEF Given
<1>5. QED
  BY <1>1, <1>2, <1>3, <1>4

\* A stored entity can be handed to save() as it is.
LEMMA EntityIsBody == Entity \subseteq Body
BY FlagsGiven DEF Body, Entity, Optional

\* What a row holds can be given.
LEMMA HeldType ==
    ASSUME NEW row \in Entity
    PROVE  Held(row) \in SUBSET Grants
<1>1. Given(row.flags) \subseteq FlagColumns \X BOOLEAN
  BY FlagsGiven DEF Entity
<1>2. row.password \in Passwords /\ row.groups \subseteq Groups
  BY DEF Entity
<1>3. QED
  BY <1>1, <1>2 DEF Held, Grants

LEMMA InitTypeInv == Init => TypeInv
<1> SUFFICES ASSUME Init PROVE TypeInv
  OBVIOUS
<1>1. Idle \in Request /\ ShapeOf(Idle)
  BY DEF Idle, Request, ShapeOf, Optional, Steps, Asserting, Saving
<1>2. req \in [Requests -> Request] /\ Shape
  BY <1>1 DEF Init, Shape
<1>3. granted \in [Ids -> SUBSET Grants]
  BY UsersAssumption, HeldType DEF Init, Optional
<1>4. QED
  BY <1>2, <1>3, UsersAssumption DEF Init, TypeInv, TypeOK

LEMMA AnswerMoves ==
    ASSUME TypeInv, NEW r \in Requests, NEW a \in Answers,
           ~At(r, "idle"), Answer(r, a)
    PROVE  req' \in [Requests -> Request] /\ Shape'
<1>1. req[r] \in Request /\ req[r].kind # Undefined
  BY DEF TypeInv, TypeOK, Shape, ShapeOf, At
<1>2. QED
  BY <1>1, AnswerProper, BecomeProper DEF Answer

\* The first state of an admitted request, one line for each kind.
LEMMA BeginMoves ==
    ASSUME TypeInv, NEW r \in Requests, NEW kind, NEW step,
           NEW target \in Optional(Ids), NEW self \in Optional(Ids), NEW item,
           Begin(r, kind, step, target, self, item),
           \/ kind = "create" /\ step = "email" /\ item \in Body
           \/ kind = "update" /\ step = "email" /\ item \in Body /\ target \in Ids
           \/ kind = "delete" /\ step = "find" /\ item = Undefined /\ target \in Ids
           \/ kind = "account" /\ step = "preEmail" /\ item \in Body /\ target \in Ids
           \/ kind = "signIn" /\ step = "find" /\ item \in Item
           \/ kind = "signUp" /\ step = "preload" /\ item \in Body
    PROVE  TypeInv'
<1> DEFINE q == [Idle EXCEPT !.kind = kind, !.pc = step, !.target = target,
                             !.self = self, !.item = item]
<1>1. /\ q.kind = kind /\ q.pc = step /\ q.target = target /\ q.self = self
      /\ q.item = item /\ q.base = Undefined
  BY DEF Idle
<1>2. kind \in AllKinds /\ kind # Undefined /\ item \in Optional(Item)
  BY UsersAssumption, BodyIsItem DEF AllKinds, Optional
<1>3. q \in Request
  BY <1>2 DEF Idle, Request, Optional, Steps
<1>4. ShapeOf(q)
  <2> HIDE DEF q
  <2>1. QED
    BY <1>1, <1>2 DEF ShapeOf, Asserting, Saving
<1>5. req' \in [Requests -> Request] /\ Shape'
  BY <1>3, <1>4, BecomeProper DEF Begin, Proper
<1>6. QED
  BY <1>5 DEF TypeInv, TypeOK, Begin, database

LEMMA NotAllowedMoves ==
    ASSUME TypeInv, NEW r \in Requests, NEW kind, NotAllowed(r, kind)
    PROVE  TypeInv'
<1> DEFINE q == [Idle EXCEPT !.kind = kind, !.pc = "done", !.answer = "notAllowed"]
<1>1. kind \in AllKinds /\ kind # Undefined
  BY UsersAssumption DEF NotAllowed, AllKinds
<1>2. Proper(q)
  BY <1>1 DEF Proper, ShapeOf, Idle, Request, Optional, Steps, Answers,
              Asserting, Saving
<1>3. req' \in [Requests -> Request] /\ Shape'
  BY <1>2, BecomeProper DEF NotAllowed
<1>4. QED
  BY <1>3 DEF TypeInv, TypeOK, NotAllowed, database

LEMMA ArrivalTypeInv ==
    ASSUME TypeInv, NEW r \in Requests,
           \/ Create(r) \/ Update(r) \/ Delete(r)
           \/ Account(r) \/ SignIn(r) \/ SignUp(r)
    PROVE  TypeInv'
<1>a. \A body \in Bodies : body \in Body
  BY UsersAssumption
<1>b. PathIds \subseteq Ids /\ Optional(PathIds) \subseteq Optional(Ids)
  BY UsersAssumption DEF Optional
<1>c. Undefined \in Optional(Ids) /\ Ids \subseteq Optional(Ids)
  BY DEF Optional
<1>1. CASE Create(r)
  <2>1. PICK body \in Bodies, id \in Optional(PathIds) :
            \/ NotAllowed(r, "create")
            \/ Begin(r, "create", "email", id, id, body)
    BY <1>1 DEF Create
  <2>2. QED
    BY <2>1, <1>a, <1>b, BeginMoves, NotAllowedMoves
<1>2. CASE Update(r)
  <2>1. PICK body \in Bodies, path \in PathIds, own \in Optional(PathIds) :
            \/ NotAllowed(r, "update")
            \/ Begin(r, "update", "email", path, own, UpdateItem(body))
    BY <1>2 DEF Update, UpdateSelf
  <2>2. UpdateItem(body) \in Body
    BY <1>a DEF UpdateItem, Body, Optional
  <2>3. path \in Ids /\ path \in Optional(Ids) /\ own \in Optional(Ids)
    BY <1>b, <1>c
  <2>4. QED
    BY <2>1, <2>2, <2>3, BeginMoves, NotAllowedMoves
<1>3. CASE Delete(r)
  <2>1. PICK id \in PathIds :
            \/ NotAllowed(r, "delete")
            \/ Begin(r, "delete", "find", id, Undefined, Undefined)
    BY <1>3 DEF Delete
  <2>2. QED
    BY <2>1, <1>b, <1>c, BeginMoves, NotAllowedMoves
<1>4. CASE Account(r)
  <2>1. PICK body \in Bodies, caller \in PathIds :
            \/ NotAllowed(r, "account")
            \/ Begin(r, "account", "preEmail", caller, caller,
                     [body EXCEPT !.password = Undefined, !.flags = NoFlags,
                                  !.groups = Undefined])
    BY <1>4 DEF Account
  <2>2. [body EXCEPT !.password = Undefined, !.flags = NoFlags,
                     !.groups = Undefined] \in Body
    BY <1>a, FlagsGiven DEF Body, Optional
  <2>3. caller \in Ids /\ caller \in Optional(Ids)
    BY <1>b, <1>c
  <2>4. QED
    BY <2>1, <2>2, <2>3, BeginMoves, NotAllowedMoves
<1>5. CASE SignIn(r)
  <2>1. PICK email \in Emails, password \in Passwords :
            Begin(r, "signIn", "find", Undefined, Undefined,
                  Credentials(email, password))
    BY <1>5 DEF SignIn
  <2>2. Credentials(email, password) \in Item
    BY FlagsGiven DEF Credentials, Item, Optional
  <2>3. QED
    BY <2>1, <2>2, <1>c, BeginMoves
<1>6. CASE SignUp(r)
  <2>1. PICK body \in Bodies :
            Begin(r, "signUp", "preload", Undefined, Undefined, SignUpItem(body))
    BY <1>6 DEF SignUp
  <2>2. SignUpItem(body) \in Body
    BY <1>a, FlagsGiven DEF SignUpItem, Body, Optional
  <2>3. QED
    BY <2>1, <2>2, <1>c, BeginMoves
<1>7. QED
  BY <1>1, <1>2, <1>3, <1>4, <1>5, <1>6

\* What every read of a request starts from.
LEMMA RequestProper ==
    ASSUME TypeInv, NEW r \in Requests
    PROVE  req[r] \in Request /\ ShapeOf(req[r])
BY DEF TypeInv, TypeOK, Shape

LEMMA AfterEmailMoves ==
    ASSUME TypeInv, NEW r \in Requests, req[r].pc \in {"preEmail", "email"},
           AfterEmail(r)
    PROVE  req' \in [Requests -> Request] /\ Shape'
<1> DEFINE q == [req[r] EXCEPT !.pc = IF At(r, "preEmail") THEN "preUsername"
                                      ELSE "username"]
<1>1. Proper(q)
  BY RequestProper DEF Proper, ShapeOf, Request, Steps, At, Asserting, Saving
<1>2. QED
  BY <1>1, BecomeProper DEF AfterEmail, Goto

LEMMA AfterUsernameMoves ==
    ASSUME TypeInv, NEW r \in Requests, req[r].pc \in {"preUsername", "username"},
           AfterUsername(r)
    PROVE  req' \in [Requests -> Request] /\ Shape'
<1>1. CASE At(r, "username")
  <2>1. Proper([req[r] EXCEPT !.pc = "load"])
    BY <1>1, RequestProper DEF Proper, ShapeOf, Request, Steps, At, Asserting, Saving
  <2>2. QED
    BY <1>1, <2>1, BecomeProper DEF AfterUsername, Goto
<1>2. CASE ~At(r, "username") /\ req[r].kind = "account"
  <2>1. Proper([req[r] EXCEPT !.pc = "find"])
    BY <1>2, RequestProper DEF Proper, ShapeOf, Request, Steps, At, Asserting, Saving
  <2>2. QED
    BY <1>2, <2>1, BecomeProper DEF AfterUsername, Goto
<1>3. CASE ~At(r, "username") /\ req[r].kind # "account" /\ req[r].item.groups = Undefined
  BY <1>3, AnswerMoves DEF AfterUsername, Answers, At
<1>4. CASE ~At(r, "username") /\ req[r].kind # "account" /\ req[r].item.groups # Undefined
  <2>1. Proper([req[r] EXCEPT !.pc = "email"])
    BY <1>4, RequestProper DEF Proper, ShapeOf, Request, Steps, At, Asserting, Saving
  <2>2. QED
    BY <1>4, <2>1, BecomeProper DEF AfterUsername, Goto
<1>5. QED
  BY <1>1, <1>2, <1>3, <1>4

LEMMA ReadTypeInv ==
    ASSUME TypeInv, NEW r \in Requests,
           \/ Preload(r) \/ AssertEmail(r) \/ AssertUsername(r)
           \/ FindByEmail(r) \/ FindAccount(r) \/ FindDoomed(r)
           \/ ReadBack(r) \/ Load(r)
    PROVE  TypeInv'
<1>a. \A u \in Ids : users[u] # Undefined => users[u] \in Entity /\ users[u] \in Body
  BY EntityIsBody DEF TypeInv, TypeOK, Optional
<1>b. UNCHANGED <<database, faults>>
  BY DEF Preload, AssertEmail, AssertUsername, FindByEmail, FindAccount,
         FindDoomed, ReadBack, Load
<1> SUFFICES req' \in [Requests -> Request] /\ Shape'
  BY <1>b DEF TypeInv, TypeOK, database
<1>c. "conflict" \in Answers /\ "notFound" \in Answers /\ "invalid" \in Answers /\ "ok" \in Answers
  BY DEF Answers
<1>1. CASE Preload(r)
  <2> DEFINE gs == IF UserGroup \in groups THEN {UserGroup} ELSE Undefined
             q == [req[r] EXCEPT !.pc = "preEmail", !.item.groups = gs]
  <2>1. req[r].item \in Body /\ req[r].kind = "signUp" /\ req[r] \in Request
    BY <1>1, RequestProper DEF Preload, At, ShapeOf
  <2>2. gs \in Optional(SUBSET Groups)
    BY UsersAssumption DEF Optional
  <2>3. [req[r].item EXCEPT !.groups = gs] \in Body
    BY <2>1, <2>2 DEF Body
  <2>4. q \in Request
    BY <2>1, <2>3, BodyIsItem DEF Request, Optional, Steps
  <2>5. q.pc = "preEmail" /\ q.kind = "signUp" /\ q.item \in Body
    BY <2>1, <2>3 DEF Request
  <2>6. ShapeOf(q)
    <3> HIDE DEF q
    <3>1. QED
      BY <2>5, UsersAssumption DEF ShapeOf, Asserting, Saving, AllKinds
  <2>7. QED
    BY <1>1, <2>4, <2>6, BecomeProper DEF Preload, Proper
<1>2. CASE AssertEmail(r)
  BY <1>2, <1>c, AnswerMoves, AfterEmailMoves DEF AssertEmail, At
<1>3. CASE AssertUsername(r)
  BY <1>3, <1>c, AnswerMoves, AfterUsernameMoves DEF AssertUsername, At
<1>4. CASE FindByEmail(r)
  <2>1. CASE Answer(r, "notFound") \/ Answer(r, "invalid")
    BY <1>4, <2>1, <1>c, AnswerMoves DEF FindByEmail, At
  <2>2. CASE \E u \in Ids : /\ users[u] # Undefined
                           /\ Become(r, [req[r] EXCEPT !.pc = "email", !.target = u,
                                                       !.self = u, !.item = users[u]])
    <3>1. PICK u \in Ids : /\ users[u] # Undefined
                           /\ Become(r, [req[r] EXCEPT !.pc = "email", !.target = u,
                                                       !.self = u, !.item = users[u]])
      BY <2>2
    <3>2. Proper([req[r] EXCEPT !.pc = "email", !.target = u, !.self = u,
                                !.item = users[u]])
      BY <1>4, <1>a, <3>1, RequestProper, BodyIsItem
         DEF FindByEmail, At, Proper, ShapeOf, Request, Optional, Steps, Asserting, Saving
    <3>3. QED
      BY <3>1, <3>2, BecomeProper
  <2>3. QED
    BY <1>4, <2>1, <2>2 DEF FindByEmail
<1>5. CASE FindAccount(r)
  <2> DEFINE found == users[req[r].target]
             item == AccountItem(found, req[r].item)
  <2>1. req[r].target \in Ids /\ req[r].item \in Body /\ req[r] \in Request
    BY <1>5, RequestProper DEF FindAccount, At, ShapeOf
  <2>2. CASE found = Undefined
    BY <1>5, <2>2, <1>c, AnswerMoves DEF FindAccount, At
  <2>3. CASE found # Undefined
    <3>1. item \in Body
      BY <2>1, <2>3, <1>a DEF AccountItem, Body, Entity
    <3>2. Proper([req[r] EXCEPT !.pc = "email", !.item = item])
      <4> HIDE DEF item, found
      <4>1. item \in Item /\ req[r].kind = "account"
        BY <1>5, <3>1, BodyIsItem DEF FindAccount
      <4>2. [req[r] EXCEPT !.pc = "email", !.item = item] \in Request
        BY <2>1, <4>1 DEF Request, Optional, Steps
      <4>3. ShapeOf([req[r] EXCEPT !.pc = "email", !.item = item])
        BY <2>1, <3>1, <4>1, UsersAssumption DEF ShapeOf, Request, Asserting, Saving, AllKinds
      <4>4. QED
        BY <4>2, <4>3 DEF Proper
    <3>3. QED
      BY <1>5, <2>3, <3>2, BecomeProper DEF FindAccount
  <2>4. QED
    BY <2>2, <2>3
<1>6. CASE FindDoomed(r)
  <2> DEFINE found == users[req[r].target]
             item == [found EXCEPT !.groups = {}]
  <2>1. req[r].target \in Ids /\ req[r] \in Request
    BY <1>6, RequestProper DEF FindDoomed, At, ShapeOf
  <2>2. CASE found = Undefined
    BY <1>6, <2>2, <1>c, AnswerMoves DEF FindDoomed, At
  <2>3. CASE found # Undefined
    <3>1. item \in Body
      BY <2>1, <2>3, <1>a DEF Body, Entity, Optional
    <3>2. Proper([req[r] EXCEPT !.pc = "load", !.item = item])
      <4> HIDE DEF item, found
      <4>1. item \in Item /\ req[r].kind = "delete"
        BY <1>6, <3>1, BodyIsItem DEF FindDoomed
      <4>2. [req[r] EXCEPT !.pc = "load", !.item = item] \in Request
        BY <2>1, <4>1 DEF Request, Optional, Steps
      <4>3. ShapeOf([req[r] EXCEPT !.pc = "load", !.item = item])
        BY <2>1, <3>1, <4>1, UsersAssumption DEF ShapeOf, Request, Asserting, Saving, AllKinds
      <4>4. QED
        BY <4>2, <4>3 DEF Proper
    <3>3. QED
      BY <1>6, <2>3, <3>2, BecomeProper DEF FindDoomed
  <2>4. QED
    BY <2>2, <2>3
<1>7. CASE ReadBack(r)
  <2>1. \A a \in Answered(req[r].kind) : a \in Answers
    BY DEF Answered, Answers
  <2>2. PICK a \in Answers : Answer(r, a)
    BY <1>7, <2>1 DEF ReadBack, Answers
  <2>3. QED
    BY <1>7, <1>c, <2>2, AnswerMoves DEF ReadBack, At
<1>8. CASE Load(r)
  <2> DEFINE id == req[r].target
             base == IF id = Undefined THEN Undefined ELSE users[id]
  <2>1. req[r] \in Request /\ ShapeOf(req[r]) /\ req[r].pc = "load"
    BY <1>8, RequestProper DEF Load, At
  <2>2. base \in Optional(Entity) /\ (base # Undefined => id \in Ids)
    BY <2>1 DEF Request, Optional, TypeInv, TypeOK
  <2>3. Proper([req[r] EXCEPT !.pc = "write", !.base = base])
    <3> HIDE DEF base
    <3>1. QED
      BY <2>1, <2>2 DEF Proper, ShapeOf, Request, Steps, Asserting, Saving
  <2>4. QED
    BY <1>8, <2>3, BecomeProper DEF Load
<1>9. QED
  BY <1>1, <1>2, <1>3, <1>4, <1>5, <1>6, <1>7, <1>8

-----------------------------------------------------------------------------
\* What save() stores is a row without gaps.
LEMMA InsertedEntity ==
    ASSUME NEW item \in Body, item.password # Undefined
    PROVE  Inserted(item) \in Entity /\ Inserted(item) \in Body
<1>1. [c \in FlagColumns |-> Default(item.flags[c], FALSE)] \in [FlagColumns -> BOOLEAN]
  BY DEF Body, SomeFlags, Default, Optional
<1>2. Default(item.groups, {}) \in SUBSET Groups
  BY DEF Body, Default, Optional
<1>3. Inserted(item) \in Entity
  BY <1>1, <1>2 DEF Inserted, Entity, Body, Optional
<1>4. QED
  BY <1>3, EntityIsBody

LEMMA UpdatedEntity ==
    ASSUME NEW current \in Entity, NEW item \in Body, NEW base \in Entity
    PROVE  Updated(current, item, base) \in Entity
<1>1. /\ Column(item.email, base.email, current.email) \in Emails
      /\ Column(item.username, base.username, current.username) \in Usernames
      /\ Column(item.password, base.password, current.password) \in Passwords
  BY DEF Column, Entity, Body, Optional
<1>2. ASSUME NEW c \in FlagColumns
      PROVE  Column(item.flags[c], base.flags[c], current.flags[c]) \in BOOLEAN
  BY DEF Column, Entity, Body, SomeFlags, Optional
<1>3. (current.groups \cup Added(item, base)) \ Dropped(item, base) \in SUBSET Groups
  BY DEF Added, Entity, Body, Optional
<1>4. QED
  BY <1>1, <1>2, <1>3 DEF Updated, Entity

LEMMA ConfersType ==
    ASSUME NEW kind, NEW given \in Body
    PROVE  Confers(kind, given) \in SUBSET Grants
<1>1. Default(given.groups, {}) \subseteq Groups
  BY DEF Default, Body, Optional
<1>2. Given(given.flags) \subseteq FlagColumns \X BOOLEAN
  BY FlagsGiven DEF Body
<1>3. {given.password} \ {Undefined} \subseteq Passwords
  BY DEF Body, Optional
<1>4. FlagColumns \X {FALSE} \subseteq FlagColumns \X BOOLEAN /\ UserGroup \in Groups
  BY UsersAssumption
<1>5. CASE kind = "create"
  BY <1>1, <1>2, <1>3, <1>5 DEF Confers, Grants
<1>6. CASE kind = "signUp"
  BY <1>3, <1>4, <1>6 DEF Confers, Grants
<1>7. CASE kind = "update"
  BY <1>1, <1>2, <1>7 DEF Confers, Grants
<1>8. CASE kind \notin {"create", "signUp", "update"}
  BY <1>8 DEF Confers
<1>9. QED
  BY <1>5, <1>6, <1>7, <1>8

LEMMA CommittedMoves ==
    ASSUME TypeInv, NEW r \in Requests, At(r, "write"), NEW id \in Ids, Committed(r, id)
    PROVE  req' \in [Requests -> Request] /\ Shape'
<1> DEFINE step == IF req[r].kind = "delete" THEN "remove" ELSE "read"
           q == [req[r] EXCEPT !.pc = step, !.target = id, !.wrote = TRUE,
                               !.item = Undefined, !.base = Undefined]
<1>1. req[r] \in Request /\ req[r].kind # Undefined
  BY RequestProper DEF ShapeOf, At
<1>2. q \in Request
  BY <1>1 DEF Request, Steps, Optional
<1>3. q.pc \in {"read", "remove"} /\ q.target = id /\ q.kind = req[r].kind
  BY <1>1 DEF Request
<1>4. ShapeOf(q)
  <2> HIDE DEF q
  <2>1. QED
    BY <1>1, <1>3 DEF ShapeOf, Asserting, Saving
<1>5. QED
  BY <1>2, <1>4, BecomeProper DEF Committed, Proper

LEMMA SaveTypes ==
    ASSUME TypeInv, NEW r, NEW id \in Ids, NEW row \in Entity, NEW given \in Body,
           Save(r, id, row, given)
    PROVE  /\ users' \in [Ids -> Optional(Entity)]
           /\ granted' \in [Ids -> SUBSET Grants]
<1>1. Confers(req[r].kind, given) \in SUBSET Grants
  BY ConfersType
<1>2. QED
  BY <1>1 DEF Save, TypeInv, TypeOK, Optional

LEMMA WriteTypeInv ==
    ASSUME TypeInv, NEW r \in Requests,
           \/ RejectInvalid(r) \/ Insert(r) \/ Overwrite(r) \/ Remove(r)
    PROVE  TypeInv'
<1>a. "invalid" \in Answers /\ "error" \in Answers /\ "ok" \in Answers
  BY DEF Answers
<1>1. CASE RejectInvalid(r)
  <2>1. req' \in [Requests -> Request] /\ Shape'
    BY <1>1, <1>a, AnswerMoves DEF RejectInvalid, At
  <2>2. QED
    BY <1>1, <2>1 DEF RejectInvalid, TypeInv, TypeOK, database
<1>2. CASE Insert(r)
  <2> DEFINE id == InsertId(r)
  <2>1. /\ req[r] \in Request /\ req[r].item \in Body /\ id \in Ids
        /\ UNCHANGED <<groups, linked, faults>>
    BY <1>2, RequestProper DEF Insert, At, ShapeOf, Saving
  <2>2. seq' \in 0..MaxId
    BY <1>2, UsersAssumption DEF Insert, InsertId, Ids, TypeInv, TypeOK
  <2>3. CASE InsertFails(id, req[r].item)
    <3>1. req' \in [Requests -> Request] /\ Shape' /\ UNCHANGED <<users, granted>>
      BY <1>2, <2>3, <1>a, AnswerMoves DEF Insert, At
    <3>2. QED
      BY <2>1, <2>2, <3>1 DEF TypeInv, TypeOK
  <2>4. CASE ~InsertFails(id, req[r].item)
    <3>1. Inserted(req[r].item) \in Entity /\ Inserted(req[r].item) \in Body
      BY <2>1, <2>4, InsertedEntity DEF InsertFails
    <3>2. /\ Save(r, id, Inserted(req[r].item), Inserted(req[r].item))
          /\ Committed(r, id)
      BY <1>2, <2>4 DEF Insert
    <3>3. req' \in [Requests -> Request] /\ Shape'
      BY <1>2, <2>1, <3>2, CommittedMoves DEF Insert
    <3>4. /\ users' \in [Ids -> Optional(Entity)]
          /\ granted' \in [Ids -> SUBSET Grants]
      BY <2>1, <3>1, <3>2, SaveTypes
    <3>5. QED
      BY <2>1, <2>2, <3>3, <3>4 DEF TypeInv, TypeOK
  <2>5. QED
    BY <2>3, <2>4
<1>3. CASE Overwrite(r)
  <2> DEFINE id == req[r].target
             item == req[r].item
             base == req[r].base
  <2>1. /\ item \in Body /\ base \in Entity /\ id \in Ids
        /\ UNCHANGED <<groups, linked, seq, faults>>
    BY <1>3, RequestProper DEF Overwrite, At, ShapeOf, Saving, Request, Optional
  <2>2. CASE UpdateFails(id, item, base)
    <3>1. req' \in [Requests -> Request] /\ Shape' /\ UNCHANGED <<users, granted>>
      BY <1>3, <2>2, <1>a, AnswerMoves DEF Overwrite, At
    <3>2. QED
      BY <2>1, <3>1 DEF TypeInv, TypeOK
  <2>3. CASE ~UpdateFails(id, item, base)
    <3>1. req' \in [Requests -> Request] /\ Shape'
      BY <1>3, <2>1, <2>3, CommittedMoves DEF Overwrite
    <3>2. CASE users[id] = Undefined
      <4>1. UNCHANGED <<users, granted>>
        BY <1>3, <2>3, <3>2 DEF Overwrite
      <4>2. QED
        BY <2>1, <3>1, <4>1 DEF TypeInv, TypeOK
    <3>3. CASE users[id] # Undefined
      <4>1. Save(r, id, Updated(users[id], item, base), item)
        BY <1>3, <2>3, <3>3 DEF Overwrite
      <4>2. users[id] \in Entity
        BY <2>1, <3>3 DEF TypeInv, TypeOK, Optional
      <4>3. Updated(users[id], item, base) \in Entity
        BY <2>1, <4>2, UpdatedEntity
      <4>4. /\ users' \in [Ids -> Optional(Entity)]
            /\ granted' \in [Ids -> SUBSET Grants]
        BY <2>1, <4>1, <4>3, SaveTypes
      <4>5. QED
        BY <2>1, <3>1, <4>4 DEF TypeInv, TypeOK
    <3>4. QED
      BY <3>2, <3>3
  <2>4. QED
    BY <2>2, <2>3
<1>4. CASE Remove(r)
  <2>1. req' \in [Requests -> Request] /\ Shape'
    BY <1>4, <1>a, AnswerMoves DEF Remove, At
  <2>2. users' \in [Ids -> Optional(Entity)]
    BY <1>4 DEF Remove, TypeInv, TypeOK, Optional
  <2>3. QED
    BY <1>4, <2>1, <2>2 DEF Remove, TypeInv, TypeOK
<1>5. QED
  BY <1>1, <1>2, <1>3, <1>4

LEMMA QueryFailsTypeInv ==
    ASSUME TypeInv, NEW r \in Requests, QueryFails(r)
    PROVE  TypeInv'
<1>a. "invalid" \in Answers /\ "error" \in Answers /\ "notFound" \in Answers
  BY DEF Answers
<1>1. faults' \in 0..MaxFaults
  BY UsersAssumption DEF QueryFails, TypeInv, TypeOK
<1>2. req' \in [Requests -> Request] /\ Shape'
  <2>1. CASE req[r].pc \in {"preEmail", "email"}
    BY <2>1, AfterEmailMoves DEF QueryFails, At
  <2>2. CASE req[r].pc \in {"preUsername", "username"}
    BY <2>2, AfterUsernameMoves DEF QueryFails, At
  <2>3. CASE At(r, "preload")
    BY <2>3, <1>a, AnswerMoves DEF QueryFails, At
  <2>4. CASE At(r, "find")
    BY <2>4, <1>a, AnswerMoves DEF QueryFails, At
  <2>5. CASE req[r].pc \in {"load", "write", "read", "remove"}
    BY <2>5, <1>a, AnswerMoves DEF QueryFails, At
  <2>6. QED
    BY <2>1, <2>2, <2>3, <2>4, <2>5 DEF QueryFails
<1>3. QED
  BY <1>1, <1>2 DEF QueryFails, TypeInv, TypeOK, database

LEMMA EnvironmentTypeInv ==
    ASSUME TypeInv,
           \/ \E g \in Groups : DropGroup(g)
           \/ \E u \in Ids : LinkToken(u)
           \/ UNCHANGED vars
    PROVE  TypeInv'
<1>1. CASE \E g \in Groups : DropGroup(g)
  <2>1. PICK g \in Groups : DropGroup(g)
    BY <1>1
  <2>2. users' \in [Ids -> Optional(Entity)]
    BY <2>1 DEF DropGroup, TypeInv, TypeOK, Optional, Entity
  <2>3. QED
    BY <2>1, <2>2 DEF DropGroup, TypeInv, TypeOK, Shape
<1>2. CASE \E u \in Ids : LinkToken(u)
  BY <1>2 DEF LinkToken, TypeInv, TypeOK, Shape
<1>3. CASE UNCHANGED vars
  BY <1>3 DEF vars, TypeInv, TypeOK, Shape
<1>4. QED
  BY <1>1, <1>2, <1>3

\* Every table and every request stays of its type, and a request carries at
\* each step what its code has in scope there.
THEOREM TypeCorrect == Spec => [](TypeOK /\ Shape)
<1>1. TypeInv /\ [Next]_vars => TypeInv'
  <2> SUFFICES ASSUME TypeInv, [Next]_vars PROVE TypeInv'
    OBVIOUS
  <2>1. ASSUME NEW r \in Requests, Step(r) PROVE TypeInv'
    BY <2>1, ArrivalTypeInv, ReadTypeInv, WriteTypeInv, QueryFailsTypeInv DEF Step
  <2>2. QED
    BY <2>1, EnvironmentTypeInv DEF Next, Quiescent
<1>2. QED
  BY <1>1, InitTypeInv, PTL DEF Spec, TypeInv

-----------------------------------------------------------------------------
(***************************************************************************)
(* Integrity.                                                              *)
(***************************************************************************)

\* Storing a row that the constraints admit keeps the tables consistent.
LEMMA StoreIntegrity ==
    ASSUME TypeInv, Integrity, NEW id \in Ids, NEW row \in Entity,
           users' = [users EXCEPT ![id] = row],
           UNCHANGED <<groups, linked>>,
           ~Collides(id, row), row.email \notin InvalidEmails,
           row.groups \subseteq groups
    PROVE  Integrity'
<1>1. row # Undefined
  BY EntityIsBody, BodyIsItem, UsersAssumption
<1>2. \A u \in Ids : users'[u] = IF u = id THEN row ELSE users[u]
  BY DEF TypeInv, TypeOK
<1>3. DistinctAccounts(users')
  <2> SUFFICES ASSUME NEW u \in Ids, NEW v \in Ids, u # v,
                      users'[u] # Undefined, users'[v] # Undefined
               PROVE  /\ users'[u].email # users'[v].email
                      /\ users'[u].username # users'[v].username
    BY DEF DistinctAccounts
  <2>1. CASE u = id
    BY <1>2, <2>1 DEF Collides
  <2>2. CASE v = id
    BY <1>2, <2>2 DEF Collides
  <2>3. CASE u # id /\ v # id
    BY <1>2, <2>3 DEF Integrity, DistinctAccounts
  <2>4. QED
    BY <2>1, <2>2, <2>3
<1>4. QED
  BY <1>1, <1>2, <1>3 DEF Integrity, TypeInv, TypeOK

LEMMA WriteIntegrity ==
    ASSUME TypeInv, Integrity, NEW r \in Requests,
           Insert(r) \/ Overwrite(r) \/ Remove(r)
    PROVE  Integrity'
<1>1. CASE Insert(r)
  <2> DEFINE id == InsertId(r)
             row == Inserted(req[r].item)
  <2>1. /\ req[r].item \in Body /\ id \in Ids
        /\ UNCHANGED <<groups, linked>>
    BY <1>1, RequestProper DEF Insert, At, ShapeOf, Saving
  <2>2. CASE InsertFails(id, req[r].item)
    <3>1. UNCHANGED users
      BY <1>1, <2>2 DEF Insert
    <3>2. QED
      BY <2>1, <3>1 DEF Integrity
  <2>3. CASE ~InsertFails(id, req[r].item)
    <3>1. row \in Entity
      BY <2>1, <2>3, InsertedEntity DEF InsertFails
    <3>2. users' = [users EXCEPT ![id] = row]
      BY <1>1, <2>3 DEF Insert, Save
    <3>3. ~Collides(id, row) /\ row.groups \subseteq groups
      BY <2>3 DEF InsertFails, Collides, Inserted
    <3>4. row.email \notin InvalidEmails
      BY <1>1 DEF Insert, Invalid, Inserted
    <3> HIDE DEF id, row
    <3>5. QED
      BY <2>1, <3>1, <3>2, <3>3, <3>4, StoreIntegrity
  <2>4. QED
    BY <2>2, <2>3
<1>2. CASE Overwrite(r)
  <2> DEFINE id == req[r].target
             item == req[r].item
             base == req[r].base
             row == Updated(users[id], item, base)
  <2>1. /\ item \in Body /\ base \in Entity /\ id \in Ids
        /\ UNCHANGED <<groups, linked>>
    BY <1>2, RequestProper DEF Overwrite, At, ShapeOf, Saving, Request, Optional
  <2>2. CASE UpdateFails(id, item, base) \/ users[id] = Undefined
    <3>1. UNCHANGED users
      BY <1>2, <2>2 DEF Overwrite
    <3>2. QED
      BY <2>1, <3>1 DEF Integrity
  <2>3. CASE ~UpdateFails(id, item, base) /\ users[id] # Undefined
    <3>1. users[id] \in Entity
      BY <2>1, <2>3 DEF TypeInv, TypeOK, Optional
    <3>2. row \in Entity
      BY <2>1, <3>1, UpdatedEntity
    <3>3. users' = [users EXCEPT ![id] = row]
      BY <1>2, <2>3 DEF Overwrite, Save
    <3>4. ~Collides(id, row) /\ Added(item, base) \subseteq groups
      BY <2>3 DEF UpdateFails
    <3>5. row.groups \subseteq groups
      BY <2>1, <2>3, <3>4 DEF Updated, Integrity
    <3>6. row.email \notin InvalidEmails
      <4>1. users[id].email \notin InvalidEmails
        BY <2>1, <2>3 DEF Integrity
      <4>2. item.email = base.email \/ item.email \notin InvalidEmails
        BY <1>2 DEF Overwrite, Invalid
      <4>3. QED
        BY <4>1, <4>2 DEF Updated, Column
    <3> HIDE DEF id, row
    <3>7. QED
      BY <2>1, <3>2, <3>3, <3>4, <3>5, <3>6, StoreIntegrity
  <2>4. QED
    BY <2>2, <2>3
<1>3. CASE Remove(r)
  <2>1. req[r].target \in Ids
    BY <1>3, RequestProper DEF Remove, At, ShapeOf
  <2>2. QED
    BY <1>3, <2>1 DEF Remove, Integrity, DistinctAccounts, TypeInv, TypeOK
<1>4. QED
  BY <1>1, <1>2, <1>3

LEMMA EnvironmentIntegrity ==
    ASSUME TypeInv, Integrity,
           \/ \E g \in Groups : DropGroup(g)
           \/ \E u \in Ids : LinkToken(u)
    PROVE  Integrity'
<1>1. CASE \E g \in Groups : DropGroup(g)
  <2>1. PICK g \in Groups : DropGroup(g)
    BY <1>1
  <2>2. \A u \in Ids :
          /\ users[u] = Undefined => users'[u] = Undefined
          /\ users[u] # Undefined =>
               /\ users'[u] = [users[u] EXCEPT !.groups = @ \ {g}]
               /\ users'[u].email = users[u].email
               /\ users'[u].username = users[u].username
               /\ users'[u].groups = users[u].groups \ {g}
               /\ users'[u] # Undefined
    <3> SUFFICES ASSUME NEW u \in Ids, users[u] # Undefined
                 PROVE  /\ users'[u] = [users[u] EXCEPT !.groups = @ \ {g}]
                        /\ users'[u].email = users[u].email
                        /\ users'[u].username = users[u].username
                        /\ users'[u].groups = users[u].groups \ {g}
                        /\ users'[u] # Undefined
      BY <2>1 DEF DropGroup
    <3>1. users[u] \in Entity
      BY DEF TypeInv, TypeOK, Optional
    <3>2. users'[u] = [users[u] EXCEPT !.groups = @ \ {g}]
      BY <2>1 DEF DropGroup
    <3>3. users'[u] \in Entity
      BY <3>1, <3>2 DEF Entity
    <3>4. users'[u] # Undefined
      BY <3>3, EntityIsBody, BodyIsItem, UsersAssumption
    <3>5. QED
      BY <3>1, <3>2, <3>4 DEF Entity
  <2>3. groups' = groups \ {g} /\ linked' = linked
    BY <2>1 DEF DropGroup
  <2>4. DistinctAccounts(users')
    BY <2>2 DEF Integrity, DistinctAccounts
  <2>5. QED
    BY <2>2, <2>3, <2>4 DEF Integrity, TypeInv, TypeOK
<1>2. CASE \E u \in Ids : LinkToken(u)
  BY <1>2 DEF LinkToken, Integrity
<1>3. QED
  BY <1>1, <1>2

LEMMA ArrivalsWriteNothing ==
    ASSUME NEW r,
           \/ Create(r) \/ Update(r) \/ Delete(r)
           \/ Account(r) \/ SignIn(r) \/ SignUp(r)
    PROVE  UNCHANGED database
BY DEF Create, Update, Delete, Account, SignIn, SignUp, Begin, NotAllowed, database

\* Whatever requests interleave and whichever checks of theirs failed or went
\* stale, no two users share an email or a username, stored emails are valid,
\* and memberships and tokens refer to rows that exist.
THEOREM IntegrityHolds == Spec => []Integrity
<1>1. Init => Integrity
  BY UsersAssumption DEF Init, Integrity, Optional, Entity
<1>2. TypeInv /\ Integrity /\ [Next]_vars => Integrity'
  <2> SUFFICES ASSUME TypeInv, Integrity, [Next]_vars PROVE Integrity'
    OBVIOUS
  <2>1. ASSUME NEW r \in Requests, Step(r) PROVE Integrity'
    <3>1. CASE Insert(r) \/ Overwrite(r) \/ Remove(r)
      BY <3>1, WriteIntegrity
    <3>2. CASE \/ Preload(r) \/ AssertEmail(r) \/ AssertUsername(r)
               \/ FindByEmail(r) \/ FindAccount(r) \/ FindDoomed(r) \/ ReadBack(r)
               \/ Load(r) \/ RejectInvalid(r) \/ QueryFails(r)
      <4>1. UNCHANGED database
        BY <3>2 DEF Preload, AssertEmail, AssertUsername, FindByEmail,
              FindAccount, FindDoomed, ReadBack, Load, RejectInvalid, QueryFails
      <4>2. QED
        BY <4>1 DEF database, Integrity
    <3>3. CASE \/ Create(r) \/ Update(r) \/ Delete(r)
               \/ Account(r) \/ SignIn(r) \/ SignUp(r)
      <4>1. UNCHANGED database
        BY <3>3, ArrivalsWriteNothing
      <4>2. QED
        BY <4>1 DEF database, Integrity
    <3>4. QED
      BY <2>1, <3>1, <3>2, <3>3 DEF Step
  <2>2. CASE UNCHANGED vars
    BY <2>2 DEF vars, Integrity
  <2>3. QED
    BY <2>1, <2>2, EnvironmentIntegrity DEF Next, Quiescent
<1>3. QED
  BY <1>1, <1>2, TypeCorrect, PTL DEF Spec, TypeInv

-----------------------------------------------------------------------------
(***************************************************************************)
(* Provenance.                                                             *)
(***************************************************************************)

ProvInv == TypeInv /\ Carried /\ Provenance

\* What was given to an id stays given to it, so the requests that do not
\* move still carry only what they may.
LEMMA BecomeCarried ==
    ASSUME TypeInv, Carried, NEW r \in Requests, NEW q, Become(r, q),
           \A u \in Ids : granted[u] \subseteq granted'[u],
           CarriedBy(q, granted')
    PROVE  Carried'
<1>1. \A s \in Requests : req'[s] = IF s = r THEN q ELSE req[s]
  BY DEF Become, TypeInv, TypeOK
<1>2. ASSUME NEW s \in Requests, s # r PROVE CarriedBy(req[s], granted')
  <2>1. CarriedBy(req[s], granted) /\ ShapeOf(req[s])
    BY RequestProper DEF Carried
  <2>2. req[s].pc \in Saving /\ req[s].kind \in {"account", "delete", "signIn"}
        => req[s].target \in Ids
    BY <2>1 DEF ShapeOf
  <2>3. QED
    BY <2>1, <2>2 DEF CarriedBy
<1>3. QED
  BY <1>1, <1>2 DEF Carried

LEMMA AnswerCarried ==
    ASSUME TypeInv, Carried, NEW r \in Requests, NEW a,
           \A u \in Ids : granted[u] \subseteq granted'[u],
           Answer(r, a)
    PROVE  Carried'
<1> DEFINE q == [req[r] EXCEPT !.pc = "done", !.answer = a, !.self = Undefined,
                               !.item = Undefined, !.base = Undefined]
<1>1. q.pc = "done"
  BY RequestProper DEF Request
<1>2. CarriedBy(q, granted')
  <2> HIDE DEF q
  <2>1. QED
    BY <1>1 DEF CarriedBy, Saving, Asserting
<1>3. QED
  BY <1>2, BecomeCarried DEF Answer

LEMMA BeginCarried ==
    ASSUME TypeInv, Carried, NEW r \in Requests, NEW kind, NEW step,
           NEW target, NEW self, NEW item,
           Begin(r, kind, step, target, self, item),
           \/ kind = "create" /\ step = "email"
           \/ kind = "update" /\ step = "email" /\ item.password = Undefined
           \/ kind \in {"delete", "signIn"} /\ step = "find"
           \/ kind = "account" /\ step = "preEmail" /\ item.password = Undefined
           \/ kind = "signUp" /\ step = "preload" /\ item.flags = NoFlags
    PROVE  Carried'
<1> DEFINE q == [Idle EXCEPT !.kind = kind, !.pc = step, !.target = target,
                             !.self = self, !.item = item]
<1>1. q.kind = kind /\ q.pc = step /\ q.item = item
  BY DEF Idle
<1>2. CarriedBy(q, granted')
  <2> HIDE DEF q
  <2>1. QED
    BY <1>1 DEF CarriedBy, Saving, Asserting
<1>3. QED
  BY <1>2, BecomeCarried DEF Begin, database

LEMMA NotAllowedCarried ==
    ASSUME TypeInv, Carried, NEW r \in Requests, NEW kind, NotAllowed(r, kind)
    PROVE  Carried'
<1> DEFINE q == [Idle EXCEPT !.kind = kind, !.pc = "done", !.answer = "notAllowed"]
<1>1. CarriedBy(q, granted')
  BY DEF Idle, CarriedBy, Saving, Asserting
<1>2. QED
  BY <1>1, BecomeCarried DEF NotAllowed, database

LEMMA ArrivalCarried ==
    ASSUME TypeInv, Carried, NEW r \in Requests,
           \/ Create(r) \/ Update(r) \/ Delete(r)
           \/ Account(r) \/ SignIn(r) \/ SignUp(r)
    PROVE  Carried'
<1>1. CASE Create(r)
  BY <1>1, BeginCarried, NotAllowedCarried DEF Create
<1>2. CASE Update(r)
  <2>1. PICK body \in Bodies, path \in PathIds, own \in Optional(PathIds) :
            \/ NotAllowed(r, "update")
            \/ Begin(r, "update", "email", path, own, UpdateItem(body))
    BY <1>2 DEF Update, UpdateSelf
  <2>2. UpdateItem(body).password = Undefined
    BY UsersAssumption DEF UpdateItem, Body
  <2>3. QED
    BY <2>1, <2>2, BeginCarried, NotAllowedCarried
<1>3. CASE Delete(r)
  BY <1>3, BeginCarried, NotAllowedCarried DEF Delete
<1>4. CASE Account(r)
  <2>1. PICK body \in Bodies, caller \in PathIds :
            \/ NotAllowed(r, "account")
            \/ Begin(r, "account", "preEmail", caller, caller,
                     [body EXCEPT !.password = Undefined, !.flags = NoFlags,
                                  !.groups = Undefined])
    BY <1>4 DEF Account
  <2>2. [body EXCEPT !.password = Undefined, !.flags = NoFlags,
                     !.groups = Undefined].password = Undefined
    BY UsersAssumption DEF Body
  <2>3. QED
    BY <2>1, <2>2, BeginCarried, NotAllowedCarried
<1>5. CASE SignIn(r)
  BY <1>5, BeginCarried DEF SignIn
<1>6. CASE SignUp(r)
  <2>1. PICK body \in Bodies :
            Begin(r, "signUp", "preload", Undefined, Undefined, SignUpItem(body))
    BY <1>6 DEF SignUp
  <2>2. SignUpItem(body).flags = NoFlags
    BY UsersAssumption DEF SignUpItem, Body
  <2>3. QED
    BY <2>1, <2>2, BeginCarried
<1>7. QED
  BY <1>1, <1>2, <1>3, <1>4, <1>5, <1>6

LEMMA AfterEmailCarried ==
    ASSUME TypeInv, Carried, NEW r \in Requests,
           req[r].pc \in {"preEmail", "email"}, AfterEmail(r), granted' = granted
    PROVE  Carried'
<1> DEFINE q == [req[r] EXCEPT !.pc = IF At(r, "preEmail") THEN "preUsername"
                                      ELSE "username"]
<1>1. CarriedBy(q, granted')
  BY RequestProper DEF Carried, CarriedBy, Request, At, Asserting, Saving
<1>2. QED
  BY <1>1, BecomeCarried DEF AfterEmail, Goto

LEMMA AfterUsernameCarried ==
    ASSUME TypeInv, Carried, NEW r \in Requests,
           req[r].pc \in {"preUsername", "username"}, AfterUsername(r),
           granted' = granted
    PROVE  Carried'
<1>0. req[r] \in Request /\ ShapeOf(req[r]) /\ CarriedBy(req[r], granted')
  BY RequestProper DEF Carried
<1>1. CASE At(r, "username")
  <2>1. CarriedBy([req[r] EXCEPT !.pc = "load"], granted')
    BY <1>0, <1>1 DEF CarriedBy, Request, At, Asserting, Saving
  <2>2. QED
    BY <1>1, <2>1, BecomeCarried DEF AfterUsername, Goto
<1>2. CASE ~At(r, "username") /\ req[r].kind = "account"
  <2>1. CarriedBy([req[r] EXCEPT !.pc = "find"], granted')
    BY <1>0, <1>2 DEF At, CarriedBy, Request, Asserting, Saving
  <2>2. QED
    BY <1>2, <2>1, BecomeCarried DEF AfterUsername, Goto
<1>3. CASE ~At(r, "username") /\ req[r].kind # "account" /\ req[r].item.groups = Undefined
  BY <1>3, AnswerCarried DEF AfterUsername
<1>4. CASE ~At(r, "username") /\ req[r].kind # "account" /\ req[r].item.groups # Undefined
  <2>1. req[r].kind = "signUp" /\ req[r].pc = "preUsername"
    BY <1>0, <1>4 DEF ShapeOf, At, Asserting
  <2>2. CarriedBy([req[r] EXCEPT !.pc = "email"], granted')
    BY <1>0, <1>4, <2>1 DEF CarriedBy, Request, Asserting, Saving
  <2>3. QED
    BY <1>4, <2>2, BecomeCarried DEF AfterUsername, Goto
<1>5. QED
  BY <1>1, <1>2, <1>3, <1>4

LEMMA ReadCarried ==
    ASSUME ProvInv, NEW r \in Requests,
           \/ Preload(r) \/ AssertEmail(r) \/ AssertUsername(r)
           \/ FindByEmail(r) \/ FindAccount(r) \/ FindDoomed(r)
           \/ ReadBack(r) \/ Load(r) \/ RejectInvalid(r) \/ QueryFails(r)
    PROVE  Carried'
<1>a. granted' = granted
  BY DEF Preload, AssertEmail, AssertUsername, FindByEmail, FindAccount,
         FindDoomed, ReadBack, Load, RejectInvalid, QueryFails, database
<1>b. /\ TypeInv /\ Carried /\ req[r] \in Request /\ ShapeOf(req[r])
      /\ CarriedBy(req[r], granted')
  BY <1>a, RequestProper DEF ProvInv, Carried
<1>c. \A a : Answer(r, a) => Carried'
  BY <1>a, <1>b, AnswerCarried
<1>d. \A u \in Ids : users[u] # Undefined =>
        /\ users[u] \in Entity
        /\ Given(users[u].flags) \subseteq granted'[u]
        /\ users[u].password \in granted'[u]
        /\ users[u].groups \subseteq granted'[u]
  BY <1>a DEF ProvInv, Provenance, Held, TypeInv, TypeOK, Optional
<1>1. CASE Preload(r)
  <2> DEFINE gs == IF UserGroup \in groups THEN {UserGroup} ELSE Undefined
             q == [req[r] EXCEPT !.pc = "preEmail", !.item.groups = gs]
  <2>1. req[r].item \in Body /\ req[r].kind = "signUp" /\ req[r].pc = "preload"
    BY <1>1, <1>b DEF Preload, At, ShapeOf
  <2>2. req[r].item.flags = NoFlags
    BY <1>b, <2>1 DEF CarriedBy
  <2>3. /\ q.pc = "preEmail" /\ q.kind = "signUp"
        /\ q.item.flags = NoFlags /\ q.item.groups = gs
    BY <1>b, <2>1, <2>2 DEF Request, Body
  <2>4. CarriedBy(q, granted')
    <3>1. gs \in {Undefined, {UserGroup}}
      OBVIOUS
    <3> HIDE DEF q, gs
    <3>2. QED
      BY <2>3, <3>1 DEF CarriedBy, Asserting, Saving
  <2>5. QED
    BY <1>1, <1>a, <1>b, <2>4, BecomeCarried DEF Preload
<1>2. CASE AssertEmail(r)
  BY <1>2, <1>a, <1>b, <1>c, AfterEmailCarried DEF AssertEmail
<1>3. CASE AssertUsername(r)
  BY <1>3, <1>a, <1>b, <1>c, AfterUsernameCarried DEF AssertUsername
<1>4. CASE FindByEmail(r)
  <2>1. CASE Answer(r, "notFound") \/ Answer(r, "invalid")
    BY <2>1, <1>c
  <2>2. CASE \E u \in Ids : /\ users[u] # Undefined
                           /\ Become(r, [req[r] EXCEPT !.pc = "email", !.target = u,
                                                       !.self = u, !.item = users[u]])
    <3>1. PICK u \in Ids : /\ users[u] # Undefined
                           /\ Become(r, [req[r] EXCEPT !.pc = "email", !.target = u,
                                                       !.self = u, !.item = users[u]])
      BY <2>2
    <3>2. CarriedBy([req[r] EXCEPT !.pc = "email", !.target = u, !.self = u,
                                   !.item = users[u]], granted')
      BY <1>4, <1>b, <1>d, <3>1
         DEF FindByEmail, CarriedBy, Request, Entity, Asserting, Saving
    <3>3. QED
      BY <1>a, <1>b, <3>1, <3>2, BecomeCarried
  <2>3. QED
    BY <1>4, <2>1, <2>2 DEF FindByEmail
<1>5. CASE FindAccount(r)
  <2> DEFINE found == users[req[r].target]
             item == AccountItem(found, req[r].item)
             q == [req[r] EXCEPT !.pc = "email", !.item = item]
  <2>1. CASE found = Undefined
    BY <1>5, <1>c, <2>1 DEF FindAccount
  <2>2. CASE found # Undefined
    <3>1. req[r].target \in Ids /\ req[r].kind = "account"
      BY <1>5, <1>b DEF FindAccount, At, ShapeOf
    <3>2. /\ item.flags = found.flags /\ item.password = Undefined
          /\ item.groups = found.groups
      <4>1. req[r].item.password = Undefined
        BY <1>5, <1>b DEF FindAccount, At, CarriedBy
      <4>2. QED
        BY <1>d, <2>2, <3>1, <4>1 DEF AccountItem, Entity
    <3>3. q.item = item /\ q.target = req[r].target /\ q.kind = "account"
      BY <1>b, <3>1 DEF Request
    <3>4. CarriedBy(q, granted')
      <4>1. /\ q.item.flags \in [FlagColumns -> BOOLEAN]
            /\ Given(q.item.flags) \subseteq granted'[q.target]
            /\ q.item.password = Undefined
            /\ q.item.groups \subseteq granted'[q.target]
        BY <1>d, <2>2, <3>1, <3>2, <3>3 DEF Entity
      <4> HIDE DEF q
      <4>2. QED
        BY <3>3, <4>1 DEF CarriedBy
    <3>5. QED
      BY <1>5, <1>a, <1>b, <2>2, <3>4, BecomeCarried DEF FindAccount
  <2>3. QED
    BY <2>1, <2>2
<1>6. CASE FindDoomed(r)
  <2> DEFINE found == users[req[r].target]
             item == [found EXCEPT !.groups = {}]
             q == [req[r] EXCEPT !.pc = "load", !.item = item]
  <2>1. CASE found = Undefined
    BY <1>6, <1>c, <2>1 DEF FindDoomed
  <2>2. CASE found # Undefined
    <3>1. req[r].target \in Ids /\ req[r].kind = "delete"
      BY <1>6, <1>b DEF FindDoomed, At, ShapeOf
    <3>2. /\ item.flags = found.flags /\ item.password = found.password
          /\ item.groups = {}
      BY <1>d, <2>2, <3>1 DEF Entity
    <3>3. q.item = item /\ q.target = req[r].target /\ q.kind = "delete"
      BY <1>b, <3>1 DEF Request
    <3>4. CarriedBy(q, granted')
      <4>1. /\ q.item.flags \in [FlagColumns -> BOOLEAN]
            /\ Given(q.item.flags) \subseteq granted'[q.target]
            /\ q.item.password \in granted'[q.target]
            /\ q.item.groups \subseteq granted'[q.target]
        BY <1>d, <2>2, <3>1, <3>2, <3>3 DEF Entity
      <4> HIDE DEF q
      <4>2. QED
        BY <3>3, <4>1 DEF CarriedBy
    <3>5. QED
      BY <1>6, <1>a, <1>b, <2>2, <3>4, BecomeCarried DEF FindDoomed
  <2>3. QED
    BY <2>1, <2>2
<1>7. CASE ReadBack(r) \/ RejectInvalid(r)
  BY <1>7, <1>c DEF ReadBack, RejectInvalid
<1>8. CASE Load(r)
  <2> DEFINE base == IF req[r].target = Undefined THEN Undefined ELSE users[req[r].target]
  <2>1. CarriedBy([req[r] EXCEPT !.pc = "write", !.base = base], granted')
    <3> HIDE DEF base
    <3>1. QED
      BY <1>8, <1>b DEF Load, At, CarriedBy, Request, Asserting, Saving
  <2>2. QED
    BY <1>8, <1>a, <1>b, <2>1, BecomeCarried DEF Load
<1>9. CASE QueryFails(r)
  BY <1>9, <1>a, <1>b, <1>c, AfterEmailCarried, AfterUsernameCarried DEF QueryFails
<1>10. QED
  BY <1>1, <1>2, <1>3, <1>4, <1>5, <1>6, <1>7, <1>8, <1>9

\* What save() may put into a row: what its item was given, what the request
\* may give, and what the row already holds.
LEMMA InsertedRightful ==
    ASSUME TypeInv, Carried, NEW r \in Requests, Insert(r),
           ~InsertFails(InsertId(r), req[r].item)
    PROVE  LET row == Inserted(req[r].item) IN
           Held(row)
             \subseteq granted[InsertId(r)] \cup Confers(req[r].kind, row)
<1> DEFINE item == req[r].item
           row == Inserted(item)
           kind == req[r].kind
<1> SUFFICES Held(row)
               \subseteq granted[InsertId(r)] \cup Confers(kind, row)
  OBVIOUS
<1>1. /\ item \in Body /\ item.password # Undefined
      /\ kind \in AllKinds
      /\ CarriedBy(req[r], granted) /\ ShapeOf(req[r]) /\ req[r].pc = "write"
  BY RequestProper
     DEF Insert, At, ShapeOf, Saving, InsertFails, Carried, Request, Optional
<1>2. /\ row \in Entity
      /\ row.flags = [c \in FlagColumns |-> Default(item.flags[c], FALSE)]
      /\ row.password = item.password
      /\ row.groups = Default(item.groups, {})
  BY <1>1, InsertedEntity DEF Inserted
<1>3. Undefined \notin Held(row)
  BY <1>2, HeldType, UsersAssumption DEF Grants
<1> HIDE DEF row
<1>4. CASE kind = "create"
  <2>1. row.groups # Undefined
    BY <1>2, UsersAssumption DEF Entity
  <2>2. QED
    BY <1>3, <1>4, <2>1 DEF Confers, Default, Held
<1>5. CASE kind = "signUp"
  <2>1. item.flags = NoFlags /\ item.groups = {UserGroup}
    BY <1>1, <1>5 DEF CarriedBy, Saving
  <2>2. row.groups = {UserGroup}
    BY <1>2, <2>1, UsersAssumption DEF Default
  <2>3. \A c \in FlagColumns : row.flags[c] = FALSE
    BY <1>2, <2>1 DEF Default, NoFlags
  <2>4. Given(row.flags) \subseteq FlagColumns \X {FALSE}
    <3>1. \A c \in FlagColumns : <<c, row.flags[c]>> \in FlagColumns \X {FALSE}
      BY <2>3
    <3>2. QED
      BY <3>1 DEF Given
  <2>5. QED
    BY <1>3, <1>5, <2>2, <2>4 DEF Confers, Held
<1>6. CASE kind = "update"
  BY <1>1, <1>6 DEF CarriedBy, Saving
<1>7. CASE kind \in {"account", "delete", "signIn"}
  <2>1. req[r].target \in Ids /\ InsertId(r) = req[r].target
    BY <1>1, <1>7, UsersAssumption DEF ShapeOf, Saving, InsertId
  <2>2. /\ item.flags \in [FlagColumns -> BOOLEAN]
        /\ Given(item.flags) \subseteq granted[InsertId(r)]
        /\ item.password \in granted[InsertId(r)] \cup {Undefined}
        /\ item.groups \subseteq granted[InsertId(r)]
    BY <1>1, <1>7, <2>1 DEF CarriedBy, Saving
  <2>3. \A c \in FlagColumns : item.flags[c] # Undefined
    BY <2>2, UsersAssumption
  <2>4. row.flags = item.flags
    BY <1>2, <2>2, <2>3 DEF Default
  <2>5. Undefined \notin granted[InsertId(r)]
    BY <2>1, UsersAssumption DEF TypeInv, TypeOK, Grants
  <2>6. QED
    BY <1>1, <1>2, <2>2, <2>4, <2>5 DEF Default, Held
<1>8. QED
  BY <1>1, <1>4, <1>5, <1>6, <1>7 DEF AllKinds

LEMMA UpdatedRightful ==
    ASSUME ProvInv, NEW r \in Requests, Overwrite(r), users[req[r].target] # Undefined
    PROVE  LET id == req[r].target
               item == req[r].item
               row == Updated(users[id], item, req[r].base)
           IN  Held(row)
                 \subseteq granted[id] \cup Confers(req[r].kind, item)
<1> DEFINE id == req[r].target
           item == req[r].item
           base == req[r].base
           kind == req[r].kind
           current == users[id]
<1>1. /\ item \in Body /\ base \in Entity /\ id \in Ids /\ kind \in AllKinds
      /\ CarriedBy(req[r], granted) /\ ShapeOf(req[r]) /\ req[r].pc = "write"
  BY RequestProper
     DEF ProvInv, Overwrite, At, ShapeOf, Saving, Carried, Request, Optional
<1>2. Held(current) \subseteq granted[id] /\ current \in Entity
  BY <1>1 DEF ProvInv, Provenance, TypeInv, TypeOK, Optional
<1>3. /\ Undefined \notin granted[id]
      /\ Undefined \notin Added(item, base)
      /\ Undefined \notin Given(item.flags)
  <2>1. Given(item.flags) \subseteq FlagColumns \X BOOLEAN
    BY <1>1, FlagsGiven DEF Body
  <2>2. QED
    BY <1>1, <2>1, UsersAssumption
       DEF ProvInv, TypeInv, TypeOK, Grants, Added, Body, Optional
<1> DEFINE own == granted[id] \cup Confers(kind, item)
<1>4. /\ Given(item.flags) \subseteq own
      /\ item.password # Undefined => item.password \in own
      /\ Added(item, base) \subseteq own
  <2>1. CASE kind = "create"
    BY <2>1, <1>3 DEF Confers, Default, Added
  <2>2. CASE kind = "signUp"
    <3>1. item.flags = NoFlags /\ item.groups = {UserGroup}
      BY <1>1, <2>2 DEF CarriedBy, Saving
    <3>2. QED
      BY <2>2, <3>1, <1>3, FlagsGiven DEF Confers, Added
  <2>3. CASE kind = "update"
    <3>1. item.password = Undefined
      BY <1>1, <2>3 DEF CarriedBy, Saving
    <3>2. QED
      BY <2>3, <3>1, <1>3 DEF Confers, Default, Added
  <2>4. CASE kind \in {"account", "delete", "signIn"}
    BY <1>1, <2>4 DEF CarriedBy, Saving, Added
  <2>5. QED
    BY <1>1, <2>1, <2>2, <2>3, <2>4 DEF AllKinds
<1>5. Given(Updated(current, item, base).flags)
        \subseteq Given(current.flags) \cup Given(item.flags)
  <2> DEFINE flags == Updated(current, item, base).flags
  <2>1. \A c \in FlagColumns :
            flags[c] = Column(item.flags[c], base.flags[c], current.flags[c])
    BY DEF Updated
  <2> HIDE DEF flags
  <2>2. \A c \in FlagColumns : flags[c] # Undefined =>
            <<c, flags[c]>> \in Given(current.flags) \cup Given(item.flags)
    BY <2>1 DEF Column, Given
  <2>3. QED
    BY <2>2 DEF Given, flags
<1>6. /\ Updated(current, item, base).password \in {current.password, item.password}
      /\ Updated(current, item, base).password = item.password
            => item.password # Undefined \/ item.password = current.password
      /\ Updated(current, item, base).groups \subseteq current.groups \cup Added(item, base)
  BY DEF Updated, Column
<1> HIDE DEF own
<1>7. QED
  BY <1>2, <1>4, <1>5, <1>6 DEF Held, own

\* A committed save() gives the row only what it may hold.
LEMMA SaveProvInv ==
    ASSUME ProvInv, NEW r \in Requests, NEW id \in Ids, NEW row, NEW given \in Body,
           At(r, "write"), TypeInv',
           Save(r, id, row, given), Committed(r, id),
           Held(row)
             \subseteq granted[id] \cup Confers(req[r].kind, given)
    PROVE  ProvInv'
<1>1. /\ \A u \in Ids : users'[u] = IF u = id THEN row ELSE users[u]
      /\ \A u \in Ids : granted'[u] = IF u = id
                                      THEN granted[u] \cup Confers(req[r].kind, given)
                                      ELSE granted[u]
  BY DEF Save, ProvInv, TypeInv, TypeOK
<1>2. Provenance'
  BY <1>1 DEF ProvInv, Provenance
<1>3. Carried'
  <2> DEFINE q == [req[r] EXCEPT
                     !.pc = IF req[r].kind = "delete" THEN "remove" ELSE "read",
                     !.target = id, !.wrote = TRUE,
                     !.item = Undefined, !.base = Undefined]
  <2>1. q.pc \in {"read", "remove"}
    BY RequestProper DEF ProvInv, Request
  <2>2. CarriedBy(q, granted')
    <3> HIDE DEF q
    <3>1. QED
      BY <2>1 DEF CarriedBy, Saving, Asserting
  <2>3. QED
    BY <1>1, <2>2, BecomeCarried DEF Committed, ProvInv
<1>4. QED
  BY <1>2, <1>3 DEF ProvInv

LEMMA WriteProvInv ==
    ASSUME ProvInv, NEW r \in Requests, Insert(r) \/ Overwrite(r) \/ Remove(r)
    PROVE  ProvInv'
<1>a. TypeInv' /\ TypeInv /\ Carried /\ req[r] \in Request /\ ShapeOf(req[r])
  BY WriteTypeInv, RequestProper DEF ProvInv
<1>b. \A a : Answer(r, a) /\ granted' = granted => Carried'
  BY <1>a, AnswerCarried
<1>1. CASE Insert(r)
  <2> DEFINE id == InsertId(r)
             row == Inserted(req[r].item)
  <2>1. CASE InsertFails(id, req[r].item)
    BY <1>1, <2>1, <1>a, <1>b DEF Insert, ProvInv, Provenance
  <2>2. CASE ~InsertFails(id, req[r].item)
    <3>1. Save(r, id, row, row) /\ Committed(r, id) /\ id \in Ids
      BY <1>1, <2>2 DEF Insert
    <3>2. row \in Body
      BY <1>1, <2>2, <1>a, InsertedEntity DEF Insert, At, ShapeOf, Saving, InsertFails
    <3>3. Held(row)
            \subseteq granted[id] \cup Confers(req[r].kind, row)
      BY <1>1, <2>2, <1>a, InsertedRightful
    <3>4. At(r, "write")
      BY <1>1 DEF Insert
    <3> HIDE DEF id, row
    <3>5. QED
      BY <3>1, <3>2, <3>3, <3>4, <1>a, SaveProvInv
  <2>3. QED
    BY <2>1, <2>2
<1>2. CASE Overwrite(r)
  <2> DEFINE id == req[r].target
             item == req[r].item
             base == req[r].base
             row == Updated(users[id], item, base)
  <2>0. item \in Body /\ id \in Ids
    BY <1>2, <1>a DEF Overwrite, At, ShapeOf, Saving
  <2>1. CASE UpdateFails(id, item, base)
    BY <1>2, <2>1, <1>a, <1>b DEF Overwrite, ProvInv, Provenance
  <2>2. CASE ~UpdateFails(id, item, base) /\ users[id] = Undefined
    <3>1. UNCHANGED <<users, granted>> /\ Committed(r, id)
      BY <1>2, <2>2 DEF Overwrite
    <3> DEFINE q == [req[r] EXCEPT
                       !.pc = IF req[r].kind = "delete" THEN "remove" ELSE "read",
                       !.target = id, !.wrote = TRUE,
                       !.item = Undefined, !.base = Undefined]
    <3>2. q.pc \in {"read", "remove"}
      BY <1>a DEF Request
    <3>3. CarriedBy(q, granted')
      <4> HIDE DEF q
      <4>1. QED
        BY <3>2 DEF CarriedBy, Saving, Asserting
    <3>4. QED
      BY <3>1, <3>3, <1>a, BecomeCarried DEF Committed, ProvInv, Provenance
  <2>3. CASE ~UpdateFails(id, item, base) /\ users[id] # Undefined
    <3>1. Save(r, id, row, item) /\ Committed(r, id) /\ At(r, "write")
      BY <1>2, <2>3 DEF Overwrite
    <3>2. Held(row)
            \subseteq granted[id] \cup Confers(req[r].kind, item)
      BY <1>2, <2>3, UpdatedRightful
    <3> HIDE DEF id, item, row
    <3>3. QED
      BY <2>0, <3>1, <3>2, <1>a, SaveProvInv
  <2>4. QED
    BY <2>1, <2>2, <2>3
<1>3. CASE Remove(r)
  <2>1. Carried'
    BY <1>3, <1>b DEF Remove
  <2>2. Provenance'
    BY <1>3, <1>a DEF Remove, ProvInv, Provenance, TypeInv, TypeOK
  <2>3. QED
    BY <2>1, <2>2, <1>a DEF ProvInv
<1>4. QED
  BY <1>1, <1>2, <1>3

LEMMA EnvironmentProvInv ==
    ASSUME ProvInv,
           \/ \E g \in Groups : DropGroup(g)
           \/ \E u \in Ids : LinkToken(u)
           \/ UNCHANGED vars
    PROVE  ProvInv'
<1>1. TypeInv'
  BY EnvironmentTypeInv DEF ProvInv
<1>2. Carried'
  BY DEF ProvInv, Carried, DropGroup, LinkToken, vars
<1>3. CASE \E g \in Groups : DropGroup(g)
  <2>1. PICK g \in Groups : DropGroup(g)
    BY <1>3
  <2>2. ASSUME NEW u \in Ids, users[u] # Undefined
        PROVE  Held(users'[u]) \subseteq Held(users[u])
    <3>1. users[u] \in Entity
      BY <2>2 DEF ProvInv, TypeInv, TypeOK, Optional
    <3>2. QED
      BY <2>1, <2>2, <3>1 DEF DropGroup, Entity, Held
  <2>3. Provenance'
    BY <2>1, <2>2 DEF DropGroup, ProvInv, Provenance
  <2>4. QED
    BY <1>1, <1>2, <2>3 DEF ProvInv
<1>4. CASE (\E u \in Ids : LinkToken(u)) \/ UNCHANGED vars
  BY <1>1, <1>2, <1>4 DEF ProvInv, Provenance, LinkToken, vars
<1>5. QED
  BY <1>3, <1>4

\* What requests carry and what rows hold was given to their ids: the
\* inductive invariant behind ProvenanceHolds and UpdateNeverInserts.
THEOREM CarriedHolds == Spec => []ProvInv
<1>1. Init => ProvInv
  <2> SUFFICES ASSUME Init PROVE ProvInv
    OBVIOUS
  <2>1. Carried
    BY DEF Init, Carried, CarriedBy, Idle, Saving, Asserting
  <2>2. QED
    BY <2>1, InitTypeInv DEF ProvInv, Provenance, Init
<1>2. ProvInv /\ [Next]_vars => ProvInv'
  <2> SUFFICES ASSUME ProvInv, [Next]_vars PROVE ProvInv'
    OBVIOUS
  <2>1. ASSUME NEW r \in Requests, Step(r) PROVE ProvInv'
    <3>1. CASE Insert(r) \/ Overwrite(r) \/ Remove(r)
      BY <3>1, WriteProvInv
    <3>2. CASE \/ Preload(r) \/ AssertEmail(r) \/ AssertUsername(r)
               \/ FindByEmail(r) \/ FindAccount(r) \/ FindDoomed(r) \/ ReadBack(r)
               \/ Load(r) \/ RejectInvalid(r) \/ QueryFails(r)
      <4>1. Carried'
        BY <3>2, ReadCarried
      <4>2. UNCHANGED database
        BY <3>2 DEF Preload, AssertEmail, AssertUsername, FindByEmail,
              FindAccount, FindDoomed, ReadBack, Load, RejectInvalid, QueryFails
      <4>3. TypeInv'
        BY <3>2, ReadTypeInv, WriteTypeInv, QueryFailsTypeInv DEF ProvInv
      <4>4. QED
        BY <4>1, <4>2, <4>3 DEF database, ProvInv, Provenance
    <3>3. CASE \/ Create(r) \/ Update(r) \/ Delete(r)
               \/ Account(r) \/ SignIn(r) \/ SignUp(r)
      <4>1. Carried' /\ TypeInv'
        BY <3>3, ArrivalCarried, ArrivalTypeInv DEF ProvInv
      <4>2. UNCHANGED database
        BY <3>3, ArrivalsWriteNothing
      <4>3. QED
        BY <4>1, <4>2 DEF database, ProvInv, Provenance
    <3>4. QED
      BY <2>1, <3>1, <3>2, <3>3 DEF Step
  <2>2. QED
    BY <2>1, EnvironmentProvInv DEF Next, Quiescent
<1>3. QED
  BY <1>1, <1>2, PTL DEF Spec, ProvInv

\* Nobody ever holds a flag, a group or a password that no administrator's
\* request and no sign-up gave to that id, whatever stale entities sign-in,
\* account update and delete() write back.
THEOREM ProvenanceHolds == Spec => []Provenance
BY CarriedHolds, PTL DEF ProvInv

\* The save() of a PUT or of an account update never inserts: a row that it
\* does not find needs a password, which neither carries.
LEMMA UpdateInsertsNothing ==
    ASSUME ProvInv, NEW r \in Requests, req[r].kind \in {"update", "account"},
           Insert(r)
    PROVE  /\ UNCHANGED users
           /\ InsertFails(InsertId(r), req[r].item)
<1>1. req[r].item.password = Undefined
  BY DEF ProvInv, Carried, CarriedBy, Insert, At, Saving
<1>2. InsertFails(InsertId(r), req[r].item)
  BY <1>1 DEF InsertFails
<1>3. QED
  BY <1>2 DEF Insert, InsertId

\* A step of one request leaves the others as they are.
LEMMA OwnStep ==
    ASSUME TypeInv, NEW s \in Requests, Step(s), NEW r \in Requests, r # s
    PROVE  req'[r] = req[r]
<1>1. \A q : Become(s, q) => req'[r] = req[r]
  BY DEF Become, TypeInv, TypeOK
<1>2. /\ \A a : Answer(s, a) => req'[r] = req[r]
      /\ \A step : Goto(s, step) => req'[r] = req[r]
      /\ \A id : Committed(s, id) => req'[r] = req[r]
      /\ \A kind : NotAllowed(s, kind) => req'[r] = req[r]
      /\ \A kind, step, target, self, item :
           Begin(s, kind, step, target, self, item) => req'[r] = req[r]
  BY <1>1 DEF Answer, Goto, Committed, NotAllowed, Begin
<1>3. /\ AfterEmail(s) => req'[r] = req[r]
      /\ AfterUsername(s) => req'[r] = req[r]
  BY <1>2 DEF AfterEmail, AfterUsername
<1>4. CASE Create(s) \/ Update(s) \/ Delete(s) \/ Account(s) \/ SignIn(s) \/ SignUp(s)
  BY <1>2, <1>4 DEF Create, Update, Delete, Account, SignIn, SignUp
<1>5. CASE Preload(s) \/ AssertEmail(s) \/ AssertUsername(s) \/ ReadBack(s) \/ Load(s)
  BY <1>1, <1>2, <1>3, <1>5 DEF Preload, AssertEmail, AssertUsername, ReadBack, Load
<1>6. CASE FindByEmail(s) \/ FindAccount(s) \/ FindDoomed(s)
  BY <1>1, <1>2, <1>6 DEF FindByEmail, FindAccount, FindDoomed
<1>7. CASE RejectInvalid(s) \/ Insert(s) \/ Overwrite(s) \/ Remove(s) \/ QueryFails(s)
  BY <1>2, <1>3, <1>7 DEF RejectInvalid, Insert, Overwrite, Remove, QueryFails
<1>8. QED
  BY <1>4, <1>5, <1>6, <1>7 DEF Step

\* PUT /users/:id and an account update never create a user, though their
\* save() may not find the row, or find it gone.
THEOREM UpdateNeverInserts == Spec => UpdateCreatesNoUser
<1> DEFINE Stays == \A r \in Requests, u \in Ids :
                      /\ req[r].kind \in {"update", "account"}
                      /\ req'[r] # req[r]
                      /\ users[u] = Undefined
                      => users'[u] = Undefined
<1>1. ProvInv /\ [Next]_vars => [Stays]_vars
  <2> SUFFICES ASSUME ProvInv, Next, NEW r \in Requests, NEW u \in Ids,
                      req[r].kind \in {"update", "account"}, req'[r] # req[r],
                      users[u] = Undefined
               PROVE  users'[u] = Undefined
    OBVIOUS
  <2>1. Step(r)
    BY OwnStep DEF Next, ProvInv, DropGroup, LinkToken, Quiescent, vars
  <2>2. CASE Insert(r)
    BY <2>2, UpdateInsertsNothing
  <2>3. CASE Overwrite(r)
    BY <2>3 DEF Overwrite, Save, ProvInv, TypeInv, TypeOK
  <2>4. CASE Remove(r)
    BY <2>4 DEF Remove, ProvInv, TypeInv, TypeOK
  <2>5. CASE \/ Preload(r) \/ AssertEmail(r) \/ AssertUsername(r)
             \/ FindByEmail(r) \/ FindAccount(r) \/ FindDoomed(r) \/ ReadBack(r)
             \/ Load(r) \/ RejectInvalid(r) \/ QueryFails(r)
    BY <2>5 DEF Preload, AssertEmail, AssertUsername, FindByEmail, FindAccount,
          FindDoomed, ReadBack, Load, RejectInvalid, QueryFails, database
  <2>6. CASE Create(r) \/ Update(r) \/ Delete(r) \/ Account(r) \/ SignIn(r) \/ SignUp(r)
    BY <2>6, ArrivalsWriteNothing DEF database
  <2>7. QED
    BY <2>1, <2>2, <2>3, <2>4, <2>5, <2>6 DEF Step
<1>2. QED
  BY <1>1, CarriedHolds, PTL DEF Spec, UpdateCreatesNoUser

=============================================================================
