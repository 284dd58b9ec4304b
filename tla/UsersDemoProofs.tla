-------------------------- MODULE UsersDemoProofs --------------------------
(***************************************************************************)
(* DEMO mode, for every number of requests and users: what is refused      *)
(* there is enough to keep the users and the superusers of the start.  A   *)
(* sign-in still writes a whole entity back, so the proof needs what a     *)
(* request carries (Harmless), not only which requests are refused.        *)
(***************************************************************************)
EXTENDS UsersProofs

\* The users who are superusers at the start.
SuperSeed(u) == u \in Ids /\ Seed[u] # Undefined /\ Seed[u].flags["isSuperuser"]

\* An entity that makes its user a superuser.
MakesSuperuser(item) == item # Undefined /\ item.flags["isSuperuser"] = TRUE

\* A request that DEMO mode lets in, with an entity that makes nobody a
\* superuser.
HarmlessBy(q) ==
    /\ q.pc \notin {"idle", "done"} => q.kind \in {"create", "signIn", "signUp"}
    /\ q.pc # "remove"
    /\ MakesSuperuser(q.item) => SuperSeed(q.target)

Harmless == \A r \in Requests : HarmlessBy(req[r])

DemoInv == TypeInv /\ (Demo => Harmless) /\ DemoIsHarmless

LEMMA Distinctions ==
    /\ Undefined # TRUE
    /\ NoFlags["isSuperuser"] # TRUE
    /\ Undefined \notin Ids
    /\ \A item \in Item : item # Undefined
BY UsersAssumption DEF NoFlags

\* The moves that a step is made of.
LEMMA MovesHarmless ==
    ASSUME DemoInv, Demo, NEW r \in Requests
    PROVE  /\ \A q : Become(r, q) => req'[r] = q
           /\ \A a : Answer(r, a) => HarmlessBy(req'[r])
           /\ \A id : At(r, "write") /\ Committed(r, id) => HarmlessBy(req'[r])
<1>1. req[r] \in Request /\ req \in [Requests -> Request] /\ HarmlessBy(req[r])
  BY DEF DemoInv, TypeInv, TypeOK, Harmless
<1>2. \A q : Become(r, q) => req'[r] = q
  BY <1>1 DEF Become
<1>3. ASSUME NEW a, Answer(r, a) PROVE HarmlessBy(req'[r])
  <2>1. req'[r].pc = "done" /\ req'[r].item = Undefined
    BY <1>1, <1>2, <1>3 DEF Answer, Request
  <2>2. QED
    BY <2>1 DEF HarmlessBy, MakesSuperuser
<1>4. ASSUME NEW id, At(r, "write"), Committed(r, id) PROVE HarmlessBy(req'[r])
  <2>1. req[r].kind \in {"create", "signIn", "signUp"}
    BY <1>1, <1>4 DEF HarmlessBy, MakesSuperuser, At
  <2>2. /\ req'[r].kind = req[r].kind
        /\ req'[r].pc = "read"
        /\ req'[r].item = Undefined
    BY <1>1, <1>2, <1>4, <2>1 DEF Committed, Request
  <2>3. QED
    BY <2>1, <2>2 DEF HarmlessBy, MakesSuperuser
<1>5. QED
  BY <1>2, <1>3, <1>4

LEMMA BeginHarmless ==
    ASSUME DemoInv, NEW r \in Requests, NEW kind \in {"create", "signIn", "signUp"},
           NEW step, step # "remove", NEW target, NEW self, NEW item,
           item.flags["isSuperuser"] # TRUE, Begin(r, kind, step, target, self, item)
    PROVE  HarmlessBy(req'[r])
<1>1. req'[r].kind = kind /\ req'[r].pc = step /\ req'[r].item = item
  BY DEF Begin, Become, Idle, DemoInv, TypeInv, TypeOK
<1>2. QED
  BY <1>1 DEF HarmlessBy, MakesSuperuser

LEMMA NotAllowedHarmless ==
    ASSUME DemoInv, NEW r \in Requests, NEW kind, NotAllowed(r, kind)
    PROVE  HarmlessBy(req'[r])
<1>1. req'[r].pc = "done" /\ req'[r].item = Undefined
  BY DEF NotAllowed, Become, Idle, DemoInv, TypeInv, TypeOK
<1>2. QED
  BY <1>1 DEF HarmlessBy, MakesSuperuser

LEMMA ArrivalHarmless ==
    ASSUME DemoInv, Demo, NEW r \in Requests,
           \/ Create(r) \/ Update(r) \/ Delete(r)
           \/ Account(r) \/ SignIn(r) \/ SignUp(r)
    PROVE  HarmlessBy(req'[r])
<1>1. CASE Create(r)
  BY <1>1, BeginHarmless, NotAllowedHarmless DEF Create
<1>2. CASE Update(r) \/ Delete(r) \/ Account(r)
  BY <1>2, NotAllowedHarmless DEF Update, Delete, Account
<1>3. CASE SignIn(r)
  <2>1. PICK email \in Emails, password \in Passwords :
            Begin(r, "signIn", "find", Undefined, Undefined,
                  Credentials(email, password))
    BY <1>3 DEF SignIn
  <2>2. Credentials(email, password).flags["isSuperuser"] # TRUE
    BY Distinctions DEF Credentials
  <2>3. QED
    BY <2>1, <2>2, BeginHarmless
<1>4. CASE SignUp(r)
  <2>1. PICK body \in Bodies :
            Begin(r, "signUp", "preload", Undefined, Undefined, SignUpItem(body))
    BY <1>4 DEF SignUp
  <2>2. SignUpItem(body).flags["isSuperuser"] # TRUE
    BY Distinctions, UsersAssumption DEF SignUpItem, Body
  <2>3. QED
    BY <2>1, <2>2, BeginHarmless
<1>5. QED
  BY <1>1, <1>2, <1>3, <1>4

\* A move along the steps with the entity as it is.
LEMMA GotoHarmless ==
    ASSUME DemoInv, Demo, NEW r \in Requests, NEW step, Goto(r, step),
           step # "remove", ~At(r, "idle"), ~At(r, "done")
    PROVE  HarmlessBy(req'[r])
<1>1. req[r] \in Request /\ HarmlessBy(req[r])
  BY DEF DemoInv, TypeInv, TypeOK, Harmless
<1>2. /\ req'[r].kind = req[r].kind /\ req'[r].pc = step
      /\ req'[r].target = req[r].target /\ req'[r].item = req[r].item
  BY <1>1, MovesHarmless DEF Goto, Request
<1>3. QED
  BY <1>1, <1>2 DEF HarmlessBy, MakesSuperuser, At

LEMMA AssertionHarmless ==
    ASSUME DemoInv, Demo, NEW r \in Requests,
           \/ req[r].pc \in {"preEmail", "email"} /\ AfterEmail(r)
           \/ req[r].pc \in {"preUsername", "username"} /\ AfterUsername(r)
    PROVE  HarmlessBy(req'[r])
<1>1. ~At(r, "idle") /\ ~At(r, "done")
  BY DEF At
<1>2. CASE req[r].pc \in {"preEmail", "email"} /\ AfterEmail(r)
  BY <1>1, <1>2, GotoHarmless DEF AfterEmail
<1>3. CASE req[r].pc \in {"preUsername", "username"} /\ AfterUsername(r)
  BY <1>1, <1>3, GotoHarmless, MovesHarmless DEF AfterUsername
<1>4. QED
  BY <1>2, <1>3

LEMMA ReadHarmless ==
    ASSUME DemoInv, Demo, NEW r \in Requests,
           \/ Preload(r) \/ AssertEmail(r) \/ AssertUsername(r)
           \/ FindByEmail(r) \/ FindAccount(r) \/ FindDoomed(r)
           \/ ReadBack(r) \/ Load(r)
    PROVE  HarmlessBy(req'[r])
<1>1. req[r] \in Request /\ HarmlessBy(req[r]) /\ ShapeOf(req[r])
  BY DEF DemoInv, TypeInv, TypeOK, Harmless, Shape
<1>2. CASE Preload(r)
  <2> DEFINE gs == IF UserGroup \in groups THEN {UserGroup} ELSE Undefined
             q == [req[r] EXCEPT !.pc = "preEmail", !.item.groups = gs]
  <2>1. req[r].item \in Body /\ req[r].item # Undefined
    BY <1>1, <1>2, BodyIsItem, Distinctions DEF Preload, At, ShapeOf
  <2>2. /\ q.pc = "preEmail" /\ q.kind = req[r].kind /\ q.target = req[r].target
        /\ q.item.flags = req[r].item.flags
    BY <1>1, <2>1 DEF Request, Body
  <2>3. req'[r] = q
    BY <1>2, MovesHarmless DEF Preload
  <2> HIDE DEF q
  <2>4. QED
    BY <1>1, <1>2, <2>1, <2>2, <2>3 DEF HarmlessBy, MakesSuperuser, Preload, At
<1>3. CASE AssertEmail(r)
  BY <1>3, MovesHarmless, AssertionHarmless DEF AssertEmail
<1>4. CASE AssertUsername(r)
  BY <1>4, MovesHarmless, AssertionHarmless DEF AssertUsername
<1>5. CASE FindByEmail(r)
  <2>1. CASE \E a : Answer(r, a)
    BY <2>1, MovesHarmless
  <2>2. CASE \E u \in Ids : /\ users[u] # Undefined
                           /\ Become(r, [req[r] EXCEPT !.pc = "email", !.target = u,
                                                       !.self = u, !.item = users[u]])
    <3>1. PICK u \in Ids : /\ users[u] # Undefined
                           /\ Become(r, [req[r] EXCEPT !.pc = "email", !.target = u,
                                                       !.self = u, !.item = users[u]])
      BY <2>2
    <3>2. /\ req'[r].pc = "email" /\ req'[r].kind = req[r].kind
          /\ req'[r].target = u /\ req'[r].item = users[u]
      BY <1>1, <3>1, MovesHarmless DEF Request
    <3>3. users[u].flags["isSuperuser"] = TRUE => SuperSeed(u)
      BY <3>1 DEF DemoInv, DemoIsHarmless, SuperSeed
    <3>4. QED
      BY <1>1, <1>5, <3>2, <3>3 DEF HarmlessBy, MakesSuperuser, FindByEmail, At
  <2>3. QED
    BY <1>5, <2>1, <2>2 DEF FindByEmail
<1>6. ~FindAccount(r) /\ ~FindDoomed(r)
  BY <1>1 DEF FindAccount, FindDoomed, At, HarmlessBy
<1>7. CASE ReadBack(r)
  BY <1>7, MovesHarmless DEF ReadBack
<1>8. CASE Load(r)
  <2>1. /\ req'[r].pc = "write" /\ req'[r].kind = req[r].kind
        /\ req'[r].target = req[r].target /\ req'[r].item = req[r].item
    BY <1>1, <1>8, MovesHarmless DEF Load, Request
  <2>2. QED
    BY <1>1, <1>8, <2>1 DEF HarmlessBy, MakesSuperuser, Load, At
<1>9. QED
  BY <1>2, <1>3, <1>4, <1>5, <1>6, <1>7, <1>8

LEMMA StepHarmless ==
    ASSUME DemoInv, Demo, NEW r \in Requests, Step(r)
    PROVE  HarmlessBy(req'[r])
<1>1. CASE Create(r) \/ Update(r) \/ Delete(r) \/ Account(r) \/ SignIn(r) \/ SignUp(r)
  BY <1>1, ArrivalHarmless
<1>2. CASE \/ Preload(r) \/ AssertEmail(r) \/ AssertUsername(r)
           \/ FindByEmail(r) \/ FindAccount(r) \/ FindDoomed(r)
           \/ ReadBack(r) \/ Load(r)
  BY <1>2, ReadHarmless
<1>3. CASE RejectInvalid(r) \/ Insert(r) \/ Overwrite(r)
  <2>1. (\E a : Answer(r, a)) \/ (At(r, "write") /\ \E id : Committed(r, id))
    BY <1>3 DEF RejectInvalid, Insert, Overwrite
  <2>2. QED
    BY <2>1, MovesHarmless
<1>4. ~Remove(r)
  BY DEF Remove, At, DemoInv, Harmless, HarmlessBy, MakesSuperuser
<1>5. CASE QueryFails(r)
  <2>1. \/ \E a : Answer(r, a)
        \/ req[r].pc \in {"preEmail", "email"} /\ AfterEmail(r)
        \/ req[r].pc \in {"preUsername", "username"} /\ AfterUsername(r)
    BY <1>5 DEF QueryFails
  <2>2. QED
    BY <2>1, MovesHarmless, AssertionHarmless
<1>6. QED
  BY <1>1, <1>2, <1>3, <1>4, <1>5 DEF Step

\* What is saved keeps the tables harmless when it keeps the one row so.
LEMMA SaveHarmless ==
    ASSUME DemoInv, Demo, NEW r \in Requests, NEW id \in Ids, NEW row, NEW given,
           Save(r, id, row, given), row # Undefined,
           row.flags["isSuperuser"] => SuperSeed(id)
    PROVE  DemoIsHarmless'
<1>1. \A u \in Ids : users'[u] = IF u = id THEN row ELSE users[u]
  BY DEF Save, DemoInv, TypeInv, TypeOK
<1>2. QED
  BY <1>1 DEF DemoInv, DemoIsHarmless, SuperSeed

LEMMA InsertHarmless ==
    ASSUME DemoInv, Demo, NEW r \in Requests, Insert(r)
    PROVE  DemoIsHarmless'
<1> DEFINE id == InsertId(r)
           item == req[r].item
           row == Inserted(item)
<1>1. req[r] \in Request /\ HarmlessBy(req[r]) /\ item \in Body /\ item # Undefined
  BY BodyIsItem, Distinctions
     DEF DemoInv, TypeInv, TypeOK, Harmless, Shape, ShapeOf, Saving, Insert, At
<1>2. id \in Ids
  BY DEF Insert
<1>3. ASSUME ~InsertFails(id, item) PROVE row # Undefined
  BY <1>1, <1>3, InsertedEntity, BodyIsItem, Distinctions DEF InsertFails
<1>4. row.flags["isSuperuser"] => SuperSeed(id)
  <2> SUFFICES ASSUME row.flags["isSuperuser"] PROVE SuperSeed(id)
    OBVIOUS
  <2>1. item.flags["isSuperuser"] = TRUE
    BY UsersAssumption DEF Inserted, Default
  <2>2. SuperSeed(req[r].target)
    BY <1>1, <2>1 DEF HarmlessBy, MakesSuperuser
  <2>3. req[r].target # Undefined
    BY <2>2, Distinctions DEF SuperSeed
  <2>4. QED
    BY <2>2, <2>3 DEF InsertId
<1>5. CASE UNCHANGED users
  BY <1>5 DEF DemoInv, DemoIsHarmless
<1>6. CASE ~InsertFails(id, item) /\ Save(r, id, row, row)
  <2>1. row # Undefined
    BY <1>3, <1>6
  <2> HIDE DEF id, row
  <2>2. QED
    BY <1>2, <1>4, <1>6, <2>1, SaveHarmless
<1>7. QED
  BY <1>5, <1>6 DEF Insert

LEMMA OverwriteHarmless ==
    ASSUME DemoInv, Demo, NEW r \in Requests, Overwrite(r)
    PROVE  DemoIsHarmless'
<1> DEFINE id == req[r].target
           item == req[r].item
           base == req[r].base
           row == Updated(users[id], item, base)
<1>1. /\ req[r] \in Request /\ HarmlessBy(req[r]) /\ item \in Body /\ item # Undefined
      /\ id \in Ids
  BY BodyIsItem, Distinctions
     DEF DemoInv, TypeInv, TypeOK, Harmless, Shape, ShapeOf, Saving, Overwrite, At
<1>2. CASE UNCHANGED users
  BY <1>2 DEF DemoInv, DemoIsHarmless
<1>3. CASE users[id] # Undefined /\ Save(r, id, row, item)
  <2>1. users[id] \in Entity /\ base \in Entity
    BY <1>1, <1>3 DEF DemoInv, TypeInv, TypeOK, Optional, Overwrite, Request
  <2>2. row # Undefined
    BY <1>1, <2>1, UpdatedEntity, EntityIsBody, BodyIsItem, Distinctions
  <2>3. row.flags["isSuperuser"] \in {item.flags["isSuperuser"], users[id].flags["isSuperuser"]}
    BY UsersAssumption DEF Updated, Column
  <2>4. row.flags["isSuperuser"] => SuperSeed(id)
    <3>1. item.flags["isSuperuser"] = TRUE => SuperSeed(id)
      BY <1>1 DEF HarmlessBy, MakesSuperuser
    <3>2. users[id].flags["isSuperuser"] = TRUE => SuperSeed(id)
      BY <1>1, <1>3 DEF DemoInv, DemoIsHarmless, SuperSeed
    <3>3. QED
      BY <2>3, <3>1, <3>2
  <2> HIDE DEF id, row
  <2>5. QED
    BY <1>1, <1>3, <2>2, <2>4, SaveHarmless
<1>4. QED
  BY <1>2, <1>3 DEF Overwrite

LEMMA StepKeepsUsers ==
    ASSUME DemoInv, Demo, NEW r \in Requests, Step(r)
    PROVE  DemoIsHarmless'
<1>1. CASE Create(r) \/ Update(r) \/ Delete(r) \/ Account(r) \/ SignIn(r) \/ SignUp(r)
  BY <1>1, ArrivalsWriteNothing DEF database, DemoInv, DemoIsHarmless
<1>2. CASE \/ Preload(r) \/ AssertEmail(r) \/ AssertUsername(r)
           \/ FindByEmail(r) \/ FindAccount(r) \/ FindDoomed(r) \/ ReadBack(r)
           \/ Load(r) \/ RejectInvalid(r) \/ QueryFails(r)
  <2>1. UNCHANGED users
    BY <1>2 DEF Preload, AssertEmail, AssertUsername, FindByEmail, FindAccount,
          FindDoomed, ReadBack, Load, RejectInvalid, QueryFails, database
  <2>2. QED
    BY <2>1 DEF DemoInv, DemoIsHarmless
<1>3. CASE Insert(r)
  BY <1>3, InsertHarmless
<1>4. CASE Overwrite(r)
  BY <1>4, OverwriteHarmless
<1>5. ~Remove(r)
  BY DEF Remove, At, DemoInv, Harmless, HarmlessBy, MakesSuperuser
<1>6. QED
  BY <1>1, <1>2, <1>3, <1>4, <1>5 DEF Step

LEMMA EnvironmentHarmless ==
    ASSUME DemoInv,
           \/ \E g \in Groups : DropGroup(g)
           \/ \E u \in Ids : LinkToken(u)
           \/ UNCHANGED vars
    PROVE  DemoIsHarmless' /\ (Demo => Harmless')
<1>1. UNCHANGED req
  BY DEF DropGroup, LinkToken, vars
<1>2. \A u \in Ids : /\ users[u] # Undefined <=> users'[u] # Undefined
                     /\ users[u] # Undefined => users'[u].flags = users[u].flags
  <2>1. CASE \E g \in Groups : DropGroup(g)
    <3>1. PICK g \in Groups : DropGroup(g)
      BY <2>1
    <3> SUFFICES ASSUME NEW u \in Ids
                 PROVE  /\ users[u] # Undefined <=> users'[u] # Undefined
                        /\ users[u] # Undefined => users'[u].flags = users[u].flags
      OBVIOUS
    <3>2. users'[u] = IF users[u] = Undefined THEN Undefined
                      ELSE [users[u] EXCEPT !.groups = @ \ {g}]
      BY <3>1 DEF DropGroup
    <3>3. CASE users[u] # Undefined
      <4>1. users[u] \in Entity
        BY <3>3 DEF DemoInv, TypeInv, TypeOK, Optional
      <4>2. users'[u] \in Entity /\ users'[u].flags = users[u].flags
        BY <3>2, <3>3, <4>1 DEF Entity
      <4>3. QED
        BY <3>3, <4>2, EntityIsBody, BodyIsItem, Distinctions
    <3>4. QED
      BY <3>2, <3>3
  <2>2. CASE UNCHANGED users
    BY <2>2
  <2>3. QED
    BY <2>1, <2>2 DEF LinkToken, vars
<1>3. QED
  BY <1>1, <1>2 DEF DemoInv, Harmless, DemoIsHarmless

\* The inductive invariant of DEMO mode.
LEMMA DemoInvariant == Spec => []DemoInv
<1>1. Init /\ TypeInv => DemoInv
  <2> SUFFICES ASSUME Init, TypeInv PROVE Harmless /\ DemoIsHarmless
    BY DEF DemoInv
  <2>1. \A r \in Requests : req[r] = Idle
    BY DEF Init
  <2>2. Harmless
    <3>1. Idle.pc = "idle" /\ Idle.item = Undefined
      BY DEF Idle
    <3>2. QED
      BY <2>1, <3>1 DEF Harmless, HarmlessBy, MakesSuperuser
  <2>3. DemoIsHarmless
    BY DEF Init, DemoIsHarmless
  <2>4. QED
    BY <2>2, <2>3
<1>2. DemoInv /\ TypeInv' /\ [Next]_vars => DemoInv'
  <2> SUFFICES ASSUME DemoInv, TypeInv', [Next]_vars
               PROVE  (Demo => Harmless') /\ DemoIsHarmless'
    BY DEF DemoInv
  <2>1. CASE \E r \in Requests : Step(r)
    <3> SUFFICES ASSUME Demo PROVE Harmless' /\ DemoIsHarmless'
      BY DEF DemoIsHarmless
    <3>1. PICK r \in Requests : Step(r)
      BY <2>1
    <3>2. ASSUME NEW s \in Requests PROVE HarmlessBy(req'[s])
      <4>1. CASE s = r
        BY <3>1, <4>1, StepHarmless
      <4>2. CASE s # r
        <5>1. req'[s] = req[s]
          BY <3>1, <4>2, OwnStep DEF DemoInv
        <5>2. QED
          BY <5>1 DEF DemoInv, Harmless
      <4>3. QED
        BY <4>1, <4>2
    <3>3. QED
      BY <3>1, <3>2, StepKeepsUsers DEF Harmless
  <2>2. CASE \/ \E g \in Groups : DropGroup(g)
             \/ \E u \in Ids : LinkToken(u)
             \/ UNCHANGED vars
    BY <2>2, EnvironmentHarmless
  <2>3. QED
    BY <2>1, <2>2 DEF Next, Quiescent
<1>3. Spec => []TypeInv
  BY TypeCorrect, PTL DEF TypeInv
<1>4. QED
  BY <1>1, <1>2, <1>3, PTL DEF Spec

\* DEMO mode keeps its users: none of the start disappears, and no request
\* that is allowed there, nor the stale entity that a sign-in writes back,
\* makes a superuser of anybody.
THEOREM DemoKeepsUsers == Spec => []DemoIsHarmless
BY DemoInvariant, PTL DEF DemoInv

=============================================================================
