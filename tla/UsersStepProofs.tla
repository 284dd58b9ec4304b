-------------------------- MODULE UsersStepProofs --------------------------
(***************************************************************************)
(* Theorems about the steps of Users: whom a conflict names, and what a    *)
(* sign-up leaves alone.  Both rest on whom a request is about while it    *)
(* checks and saves (Addressed).                                           *)
(***************************************************************************)
EXTENDS UsersProofs

Checking == {"preload", "preEmail", "preUsername", "email", "username"}

\* A request that checks exempts the row it will save, unless it is a PUT; a
\* sign-up is about no row that is there; an answer comes last.
AddressedBy(q) ==
    /\ q.pc # "done" => q.answer = Undefined
    /\ q.pc \in Checking => /\ q.kind # "delete"
                            /\ q.kind # "update" => q.self = q.target
    /\ q.pc = "find" /\ q.kind = "account" => q.self = q.target
    /\ q.kind = "signUp" =>
         /\ q.pc \notin {"find", "remove"}
         /\ q.pc \in Checking \cup Saving => q.target = Undefined /\ q.base = Undefined
    /\ q.pc = "remove" => q.kind = "delete"
    /\ q.pc = "read" => q.kind # "delete"

Addressed == \A r \in Requests : AddressedBy(req[r])

StepInv == TypeInv /\ Addressed

\* The moves that a step is made of.
LEMMA MovesAddressed ==
    ASSUME StepInv, NEW r \in Requests, ~At(r, "idle")
    PROVE  /\ \A q : Become(r, q) => req'[r] = q
           /\ \A a : Answer(r, a) => AddressedBy(req'[r])
           /\ \A id : ~At(r, "done") /\ Committed(r, id) => AddressedBy(req'[r])
<1>1. req[r] \in Request /\ req \in [Requests -> Request]
  BY DEF StepInv, TypeInv, TypeOK
<1>2. \A q : Become(r, q) => req'[r] = q
  BY <1>1 DEF Become
<1>3. ASSUME NEW a, Answer(r, a) PROVE AddressedBy(req'[r])
  <2>1. req'[r].pc = "done"
    BY <1>1, <1>2, <1>3 DEF Answer, Request
  <2>2. QED
    BY <2>1 DEF AddressedBy, Checking, Saving
<1>4. ASSUME NEW id, ~At(r, "done"), Committed(r, id) PROVE AddressedBy(req'[r])
  <2>1. /\ req'[r].kind = req[r].kind
        /\ req'[r].pc = IF req[r].kind = "delete" THEN "remove" ELSE "read"
        /\ req'[r].answer = req[r].answer
    BY <1>1, <1>2, <1>4 DEF Committed, Request
  <2>2. QED
    BY <1>4, <2>1 DEF AddressedBy, Checking, Saving, StepInv, Addressed, At
<1>5. QED
  BY <1>2, <1>3, <1>4

LEMMA BeginAddressed ==
    ASSUME StepInv, NEW r \in Requests, NEW kind, NEW step, NEW target, NEW self,
           NEW item, Begin(r, kind, step, target, self, item),
           \/ kind = "create" /\ step = "email" /\ self = target
           \/ kind = "update" /\ step = "email"
           \/ kind = "delete" /\ step = "find"
           \/ kind = "account" /\ step = "preEmail" /\ self = target
           \/ kind = "signIn" /\ step = "find"
           \/ kind = "signUp" /\ step = "preload" /\ self = target /\ target = Undefined
    PROVE  AddressedBy(req'[r])
<1>1. /\ req'[r].kind = kind /\ req'[r].pc = step /\ req'[r].target = target
      /\ req'[r].self = self /\ req'[r].base = Undefined
      /\ req'[r].answer = Undefined
  BY DEF Begin, Become, Idle, StepInv, TypeInv, TypeOK
<1>2. QED
  BY <1>1 DEF AddressedBy, Checking, Saving

LEMMA NotAllowedAddressed ==
    ASSUME StepInv, NEW r \in Requests, NEW kind, NotAllowed(r, kind)
    PROVE  AddressedBy(req'[r])
<1>1. req'[r].pc = "done"
  BY DEF NotAllowed, Become, Idle, StepInv, TypeInv, TypeOK
<1>2. QED
  BY <1>1 DEF AddressedBy, Checking, Saving

LEMMA ArrivalAddressed ==
    ASSUME StepInv, NEW r \in Requests,
           \/ Create(r) \/ Update(r) \/ Delete(r)
           \/ Account(r) \/ SignIn(r) \/ SignUp(r)
    PROVE  AddressedBy(req'[r])
<1>1. CASE Create(r)
  BY <1>1, BeginAddressed, NotAllowedAddressed DEF Create
<1>2. CASE Update(r)
  BY <1>2, BeginAddressed, NotAllowedAddressed DEF Update
<1>3. CASE Delete(r)
  BY <1>3, BeginAddressed, NotAllowedAddressed DEF Delete
<1>4. CASE Account(r)
  <2>1. PICK body \in Bodies, caller \in PathIds :
            \/ NotAllowed(r, "account")
            \/ \E item : Begin(r, "account", "preEmail", caller, caller, item)
    BY <1>4 DEF Account
  <2>2. QED
    BY <2>1, BeginAddressed, NotAllowedAddressed
<1>5. CASE SignIn(r)
  BY <1>5, BeginAddressed DEF SignIn
<1>6. CASE SignUp(r)
  BY <1>6, BeginAddressed DEF SignUp
<1>7. QED
  BY <1>1, <1>2, <1>3, <1>4, <1>5, <1>6

\* The two halves of the assertion, whether their queries work or fail.
LEMMA AssertionAddressed ==
    ASSUME StepInv, NEW r \in Requests,
           \/ req[r].pc \in {"preEmail", "email"} /\ AfterEmail(r)
           \/ req[r].pc \in {"preUsername", "username"} /\ AfterUsername(r)
    PROVE  AddressedBy(req'[r])
<1>1. req[r] \in Request /\ AddressedBy(req[r]) /\ ShapeOf(req[r]) /\ ~At(r, "idle")
  BY DEF StepInv, Addressed, TypeInv, TypeOK, Shape, At
<1>2. req[r].pc \in Checking
  BY DEF Checking
<1>3. \A step : Goto(r, step) => /\ req'[r].pc = step
                                 /\ req'[r].kind = req[r].kind
                                 /\ req'[r].self = req[r].self
                                 /\ req'[r].target = req[r].target
                                 /\ req'[r].base = req[r].base
                                 /\ req'[r].answer = req[r].answer
  BY <1>1, MovesAddressed DEF Goto, Request
<1>4. ASSUME NEW step \in {"preUsername", "email", "username", "load"}, Goto(r, step)
      PROVE  AddressedBy(req'[r])
  BY <1>1, <1>2, <1>3, <1>4 DEF AddressedBy, Checking, Saving
<1>5. ASSUME Goto(r, "find"), req[r].kind = "account" PROVE AddressedBy(req'[r])
  BY <1>1, <1>2, <1>3, <1>5 DEF AddressedBy, Checking, Saving
<1>6. CASE req[r].pc \in {"preEmail", "email"} /\ AfterEmail(r)
  BY <1>4, <1>6 DEF AfterEmail
<1>7. CASE req[r].pc \in {"preUsername", "username"} /\ AfterUsername(r)
  BY <1>1, <1>4, <1>5, <1>7, MovesAddressed DEF AfterUsername
<1>8. QED
  BY <1>6, <1>7

LEMMA ReadAddressed ==
    ASSUME StepInv, NEW r \in Requests,
           \/ Preload(r) \/ AssertEmail(r) \/ AssertUsername(r)
           \/ FindByEmail(r) \/ FindAccount(r) \/ FindDoomed(r)
           \/ ReadBack(r) \/ Load(r)
    PROVE  AddressedBy(req'[r])
<1>1. req[r] \in Request /\ AddressedBy(req[r]) /\ ShapeOf(req[r])
  BY DEF StepInv, Addressed, TypeInv, TypeOK, Shape
<1>2. ~At(r, "idle")
  BY DEF Preload, AssertEmail, AssertUsername, FindByEmail, FindAccount,
         FindDoomed, ReadBack, Load, At
<1>3. CASE Preload(r)
  <2>1. /\ req'[r].pc = "preEmail" /\ req'[r].kind = req[r].kind
        /\ req'[r].self = req[r].self /\ req'[r].target = req[r].target
        /\ req'[r].base = req[r].base /\ req'[r].answer = req[r].answer
    BY <1>1, <1>2, <1>3, MovesAddressed DEF Preload, Request
  <2>2. QED
    BY <1>1, <1>3, <2>1 DEF AddressedBy, Checking, Saving, Preload, At
<1>4. CASE AssertEmail(r)
  BY <1>2, <1>4, MovesAddressed, AssertionAddressed DEF AssertEmail
<1>5. CASE AssertUsername(r)
  BY <1>2, <1>5, MovesAddressed, AssertionAddressed DEF AssertUsername
<1>6. CASE FindByEmail(r)
  <2>1. CASE \E a : Answer(r, a)
    BY <1>2, <2>1, MovesAddressed
  <2>2. CASE \E u \in Ids : Become(r, [req[r] EXCEPT !.pc = "email", !.target = u,
                                                    !.self = u, !.item = users[u]])
    <3>1. PICK u \in Ids : Become(r, [req[r] EXCEPT !.pc = "email", !.target = u,
                                                   !.self = u, !.item = users[u]])
      BY <2>2
    <3>2. /\ req'[r].pc = "email" /\ req'[r].kind = req[r].kind
          /\ req'[r].self = u /\ req'[r].target = u /\ req'[r].answer = req[r].answer
      BY <1>1, <1>2, <3>1, MovesAddressed DEF Request
    <3>3. req[r].kind = "signIn" /\ At(r, "find")
      BY <1>6 DEF FindByEmail
    <3>4. QED
      BY <1>1, <3>2, <3>3 DEF At, AddressedBy, Checking, Saving
  <2>3. QED
    BY <1>6, <2>1, <2>2 DEF FindByEmail
<1>7. CASE FindAccount(r)
  <2>1. CASE Answer(r, "notFound")
    BY <1>2, <2>1, MovesAddressed
  <2>2. CASE \E item : Become(r, [req[r] EXCEPT !.pc = "email", !.item = item])
    <3>1. /\ req'[r].pc = "email" /\ req'[r].kind = req[r].kind
          /\ req'[r].self = req[r].self /\ req'[r].target = req[r].target
          /\ req'[r].answer = req[r].answer
      BY <1>1, <1>2, <2>2, MovesAddressed DEF Request
    <3>2. QED
      BY <1>1, <1>7, <3>1 DEF AddressedBy, Checking, Saving, FindAccount, At
  <2>3. QED
    BY <1>7, <2>1, <2>2 DEF FindAccount
<1>8. CASE FindDoomed(r)
  <2>1. CASE Answer(r, "notFound")
    BY <1>2, <2>1, MovesAddressed
  <2>2. CASE \E item : Become(r, [req[r] EXCEPT !.pc = "load", !.item = item])
    <3>1. /\ req'[r].pc = "load" /\ req'[r].kind = req[r].kind
          /\ req'[r].answer = req[r].answer
      BY <1>1, <1>2, <2>2, MovesAddressed DEF Request
    <3>2. QED
      BY <1>1, <1>8, <3>1 DEF AddressedBy, Checking, Saving, FindDoomed, At
  <2>3. QED
    BY <1>8, <2>1, <2>2 DEF FindDoomed
<1>9. CASE ReadBack(r)
  BY <1>2, <1>9, MovesAddressed DEF ReadBack
<1>10. CASE Load(r)
  <2>1. /\ req'[r].pc = "write" /\ req'[r].kind = req[r].kind
        /\ req'[r].target = req[r].target /\ req'[r].answer = req[r].answer
        /\ req[r].target = Undefined => req'[r].base = Undefined
    BY <1>1, <1>2, <1>10, MovesAddressed DEF Load, Request
  <2>2. QED
    BY <1>1, <1>10, <2>1 DEF AddressedBy, Checking, Saving, Load, At
<1>11. QED
  BY <1>3, <1>4, <1>5, <1>6, <1>7, <1>8, <1>9, <1>10

LEMMA StepAddressed ==
    ASSUME StepInv, NEW r \in Requests, Step(r)
    PROVE  AddressedBy(req'[r])
<1>1. CASE Create(r) \/ Update(r) \/ Delete(r) \/ Account(r) \/ SignIn(r) \/ SignUp(r)
  BY <1>1, ArrivalAddressed
<1>2. CASE \/ Preload(r) \/ AssertEmail(r) \/ AssertUsername(r)
           \/ FindByEmail(r) \/ FindAccount(r) \/ FindDoomed(r)
           \/ ReadBack(r) \/ Load(r)
  BY <1>2, ReadAddressed
<1>3. CASE RejectInvalid(r) \/ Insert(r) \/ Overwrite(r) \/ Remove(r)
  <2>1. ~At(r, "idle") /\ ~At(r, "done")
    BY <1>3 DEF RejectInvalid, Insert, Overwrite, Remove, At
  <2>2. (\E a : Answer(r, a)) \/ (\E id : Committed(r, id))
    BY <1>3 DEF RejectInvalid, Insert, Overwrite, Remove
  <2>3. QED
    BY <2>1, <2>2, MovesAddressed
<1>4. CASE QueryFails(r)
  <2>1. ~At(r, "idle")
    BY <1>4 DEF QueryFails, At
  <2>2. \/ \E a : Answer(r, a)
        \/ req[r].pc \in {"preEmail", "email"} /\ AfterEmail(r)
        \/ req[r].pc \in {"preUsername", "username"} /\ AfterUsername(r)
    BY <1>4 DEF QueryFails
  <2>3. QED
    BY <2>1, <2>2, MovesAddressed, AssertionAddressed
<1>5. QED
  BY <1>1, <1>2, <1>3, <1>4 DEF Step

\* Whom every request is about, at each of its steps.
THEOREM AddressedHolds == Spec => []StepInv
<1>1. Init => Addressed
  <2> SUFFICES ASSUME Init, NEW r \in Requests PROVE AddressedBy(req[r])
    BY DEF Addressed
  <2>1. req[r] = Idle
    BY DEF Init
  <2>2. Idle.kind # "signUp" /\ Idle.pc = "idle" /\ Idle.answer = Undefined
    BY UsersAssumption DEF Idle, AllKinds
  <2>3. QED
    BY <2>1, <2>2 DEF AddressedBy, Checking, Saving
<1>2. StepInv /\ TypeInv' /\ [Next]_vars => StepInv'
  <2> SUFFICES ASSUME StepInv, TypeInv', [Next]_vars, NEW r \in Requests
               PROVE  AddressedBy(req'[r])
    BY DEF StepInv, Addressed
  <2>1. AddressedBy(req[r])
    BY DEF StepInv, Addressed
  <2>2. CASE Step(r)
    BY <2>2, StepAddressed
  <2>3. CASE \E s \in Requests : s # r /\ Step(s)
    BY <2>1, <2>3, OwnStep DEF StepInv
  <2>4. CASE (\E g \in Groups : DropGroup(g)) \/ (\E u \in Ids : LinkToken(u))
             \/ UNCHANGED vars
    BY <2>1, <2>4 DEF DropGroup, LinkToken, vars
  <2>5. QED
    BY <2>2, <2>3, <2>4 DEF Next, Quiescent
<1>3. QED
  BY <1>1, <1>2, TypeCorrect, PTL DEF Spec, StepInv, TypeInv

-----------------------------------------------------------------------------

\* A 409 names another account: whoever is told that an email or a username is
\* taken is told so of a row that is not the one the request is about, unless
\* a PUT body names an id other than its path's.
THEOREM ConflictsAreOthers == Spec => ConflictIsAnother
<1> DEFINE Another == \A r \in Requests :
             /\ ~At(r, "done")
             /\ req'[r].answer = "conflict"
             /\ req[r].kind = "update" => req[r].self = req[r].target
             => \E u \in Ids :
                   /\ u # req[r].target
                   /\ users[u] # Undefined
                   /\ \/ users[u].email = req[r].item.email
                      \/ users[u].username = req[r].item.username
<1>1. StepInv /\ StepInv' /\ [Next]_vars => [Another]_vars
  <2> SUFFICES ASSUME StepInv, StepInv', [Next]_vars, NEW r \in Requests,
                      ~At(r, "done"), req'[r].answer = "conflict",
                      req[r].kind = "update" => req[r].self = req[r].target
               PROVE  \E u \in Ids :
                         /\ u # req[r].target
                         /\ users[u] # Undefined
                         /\ \/ users[u].email = req[r].item.email
                            \/ users[u].username = req[r].item.username
    OBVIOUS
  <2>1. AddressedBy(req[r]) /\ AddressedBy(req'[r]) /\ "conflict" # Undefined
    BY UsersAssumption DEF StepInv, Addressed, Answers
  <2>2. req'[r] # req[r] /\ req'[r].pc = "done"
    BY <2>1 DEF AddressedBy, At
  <2>3. Step(r)
    BY <2>2, OwnStep DEF Next, StepInv, DropGroup, LinkToken, Quiescent, vars
  <2>4. ASSUME NEW a, Answer(r, a) PROVE a = "conflict"
    BY <2>4 DEF Answer, Become, StepInv, TypeInv, TypeOK, Request
  <2>5. \A step : Goto(r, step) => step = "done"
    BY <2>2 DEF Goto, Become, StepInv, TypeInv, TypeOK, Request
  <2>6. ~AfterEmail(r) /\ ~AfterUsername(r)
    BY <2>4, <2>5 DEF AfterEmail, AfterUsername
  <2>7. CASE AssertEmail(r)
    <3>1. EmailTaken(req[r].self, req[r].item)
      BY <2>6, <2>7 DEF AssertEmail
    <3>2. req[r].self = req[r].target
      BY <2>1, <2>7 DEF AssertEmail, AddressedBy, Checking
    <3>3. QED
      BY <3>1, <3>2 DEF EmailTaken
  <2>8. CASE AssertUsername(r)
    <3>1. UsernameTaken(req[r].self, req[r].item)
      BY <2>6, <2>8 DEF AssertUsername
    <3>2. req[r].self = req[r].target
      BY <2>1, <2>8 DEF AssertUsername, AddressedBy, Checking
    <3>3. QED
      BY <3>1, <3>2 DEF UsernameTaken
  <2>9. /\ \A kind, step, target, self, item :
              ~Begin(r, kind, step, target, self, item)
        /\ \A kind : ~NotAllowed(r, kind)
    <3>1. \A q : Become(r, q) => req'[r] = q
      BY DEF Become, StepInv, TypeInv, TypeOK
    <3>2. QED
      BY <2>1, <3>1 DEF Begin, NotAllowed, Idle
  <2>10. ~(Create(r) \/ Update(r) \/ Delete(r) \/ Account(r) \/ SignIn(r) \/ SignUp(r))
    BY <2>9 DEF Create, Update, Delete, Account, SignIn, SignUp
  <2>11. req[r] \in Request /\ \A q : Become(r, q) => q.pc = "done"
    BY <2>2 DEF Become, StepInv, TypeInv, TypeOK
  <2>12. ~(Preload(r) \/ Load(r))
    <3>1. \A q, item : q = [req[r] EXCEPT !.pc = "preEmail", !.item = item] => q.pc # "done"
      BY <2>11 DEF Request
    <3>2. \A q, base : q = [req[r] EXCEPT !.pc = "write", !.base = base] => q.pc # "done"
      BY <2>11 DEF Request
    <3>3. QED
      BY <2>11, <3>1, <3>2 DEF Preload, Load
  <2>13. ~(FindByEmail(r) \/ FindAccount(r) \/ FindDoomed(r))
    <3>1. ~FindByEmail(r)
      <4>1. \A u : [req[r] EXCEPT !.pc = "email", !.target = u,
                                 !.self = u, !.item = users[u]].pc # "done"
        BY <2>11 DEF Request
      <4>2. \A u : ~Become(r, [req[r] EXCEPT !.pc = "email", !.target = u,
                                             !.self = u, !.item = users[u]])
        BY <2>11, <4>1
      <4>3. QED
        BY <2>4, <4>2 DEF FindByEmail
    <3>2. ~FindAccount(r)
      <4>1. \A item : [req[r] EXCEPT !.pc = "email", !.item = item].pc # "done"
        BY <2>11 DEF Request
      <4>2. \A item : ~Become(r, [req[r] EXCEPT !.pc = "email", !.item = item])
        BY <2>11, <4>1
      <4>3. QED
        BY <2>4, <4>2 DEF FindAccount
    <3>3. ~FindDoomed(r)
      <4>1. \A item : [req[r] EXCEPT !.pc = "load", !.item = item].pc # "done"
        BY <2>11 DEF Request
      <4>2. \A item : ~Become(r, [req[r] EXCEPT !.pc = "load", !.item = item])
        BY <2>11, <4>1
      <4>3. QED
        BY <2>4, <4>2 DEF FindDoomed
    <3>4. QED
      BY <3>1, <3>2, <3>3
  <2>14. ~ReadBack(r)
    BY <2>4 DEF ReadBack, Answered
  <2>15. \A id : ~Committed(r, id)
    <3>1. \A step, id : step # "done" =>
             [req[r] EXCEPT !.pc = step, !.target = id, !.wrote = TRUE,
                            !.item = Undefined, !.base = Undefined].pc # "done"
      BY <2>11 DEF Request
    <3>2. QED
      BY <2>11, <3>1 DEF Committed
  <2>16. ~(RejectInvalid(r) \/ Insert(r) \/ Overwrite(r) \/ Remove(r))
    BY <2>4, <2>15 DEF RejectInvalid, Insert, Overwrite, Remove
  <2>17. ~QueryFails(r)
    BY <2>4, <2>6 DEF QueryFails
  <2>18. QED
    BY <2>3, <2>7, <2>8, <2>10, <2>12, <2>13, <2>14, <2>16, <2>17 DEF Step
<1>2. QED
  BY <1>1, AddressedHolds, PTL DEF Spec, ConflictIsAnother

\* A sign-up adds a user and touches no other: its save() has no id to look
\* for, so it inserts, and an id that is taken makes the INSERT fail.
THEOREM SignUpsOnlyAdd == Spec => SignUpOnlyAdds
<1> DEFINE Kept == \A r \in Requests, u \in Ids :
                     /\ req[r].kind = "signUp"
                     /\ req'[r] # req[r]
                     /\ users[u] # Undefined
                     => users'[u] = users[u]
<1>1. StepInv /\ [Next]_vars => [Kept]_vars
  <2> SUFFICES ASSUME StepInv, Next, NEW r \in Requests, NEW u \in Ids,
                      req[r].kind = "signUp", req'[r] # req[r], users[u] # Undefined
               PROVE  users'[u] = users[u]
    OBVIOUS
  <2>1. Step(r) /\ AddressedBy(req[r])
    BY OwnStep DEF Next, StepInv, Addressed, DropGroup, LinkToken, Quiescent, vars
  <2>2. CASE Insert(r)
    BY <2>2 DEF Insert, InsertFails, Save, StepInv, TypeInv, TypeOK
  <2>3. ~Overwrite(r) /\ ~Remove(r)
    BY <2>1 DEF Overwrite, Remove, AddressedBy, Saving, At
  <2>4. CASE \/ Preload(r) \/ AssertEmail(r) \/ AssertUsername(r)
             \/ FindByEmail(r) \/ FindAccount(r) \/ FindDoomed(r) \/ ReadBack(r)
             \/ Load(r) \/ RejectInvalid(r) \/ QueryFails(r)
    BY <2>4 DEF Preload, AssertEmail, AssertUsername, FindByEmail, FindAccount,
          FindDoomed, ReadBack, Load, RejectInvalid, QueryFails, database
  <2>5. CASE Create(r) \/ Update(r) \/ Delete(r) \/ Account(r) \/ SignIn(r) \/ SignUp(r)
    BY <2>5, ArrivalsWriteNothing DEF database
  <2>6. QED
    BY <2>1, <2>2, <2>3, <2>4, <2>5 DEF Step
<1>2. QED
  BY <1>1, AddressedHolds, PTL DEF Spec, SignUpOnlyAdds

-----------------------------------------------------------------------------
(***************************************************************************)
(* The requests implement Directory: a request is open until its save()    *)
(* commits, and every step before that leaves the accounts alone.          *)
(***************************************************************************)

Pending == Steps \ {"idle", "read", "remove", "done"}

Committing == {"read", "remove"}

LEMMA WorkMoves ==
    ASSUME TypeInv, NEW r \in Requests, NEW q, Become(r, q)
    PROVE  /\ Works' = [Works EXCEPT ![r] = WorkOf(q)]
           /\ Works[r] = WorkOf(req[r])
           /\ Works'[r] = WorkOf(q)
<1>1. req \in [Requests -> Request]
  BY DEF TypeInv, TypeOK
<1>2. Works' = [Works EXCEPT ![r] = WorkOf(q)]
  BY <1>1 DEF Become, Works
<1>3. QED
  BY <1>2 DEF Works

LEMMA PendingWork ==
    ASSUME NEW q, q.pc \in Pending, q.answer = Undefined
    PROVE  WorkOf(q) = Accounts!Work(q.kind, "open", Undefined, Undefined)
BY DEF WorkOf, Pending, Accounts!Work

LEMMA CommittingWork ==
    ASSUME NEW q, q.pc \in Committing, q.answer = Undefined
    PROVE  WorkOf(q) = Accounts!Work(q.kind, "saved", q.target, Undefined)
BY DEF WorkOf, Committing, Accounts!Work

LEMMA DoneWork ==
    ASSUME NEW q, q.pc = "done"
    PROVE  WorkOf(q) = Accounts!Work(q.kind, "closed", Undefined, q.answer)
BY DEF WorkOf, Accounts!Work

\* A request that is neither new nor answered.
LEMMA OpenWork ==
    ASSUME StepInv, NEW r \in Requests, ~At(r, "idle"), ~At(r, "done")
    PROVE  /\ req[r] \in Request
           /\ req[r].answer = Undefined
           /\ req[r].pc \in Pending \cup Committing
BY DEF StepInv, TypeInv, TypeOK, Addressed, AddressedBy, At, Request, Pending,
       Committing, Steps

\* The moves that Directory does not see.
LEMMA StaysPending ==
    ASSUME StepInv, NEW r \in Requests, req[r].pc \in Pending, NEW q, Become(r, q),
           q.pc \in Pending, q.kind = req[r].kind, q.answer = req[r].answer,
           UNCHANGED users
    PROVE  UNCHANGED Accounts!vars
<1>1. req[r].answer = Undefined
  BY OpenWork DEF At, Pending
<1>2. WorkOf(q) = WorkOf(req[r])
  BY <1>1, PendingWork
<1>3. Works' = Works
  BY <1>2, WorkMoves DEF StepInv, Works
<1>4. QED
  BY <1>3 DEF Accounts!vars

\* An answer before save() commits is Directory's Fail, one after it its Finish.
LEMMA AnswerFails ==
    ASSUME StepInv, NEW r \in Requests, req[r].pc \in Pending,
           NEW a \in {"invalid", "notFound", "conflict", "error"},
           Answer(r, a), UNCHANGED users
    PROVE  Accounts!Next
<1> DEFINE q == [req[r] EXCEPT !.pc = "done", !.answer = a, !.self = Undefined,
                               !.item = Undefined, !.base = Undefined]
<1>1. req[r] \in Request /\ req[r].answer = Undefined
  BY OpenWork DEF At, Pending
<1>2. q.pc = "done" /\ q.kind = req[r].kind /\ q.answer = a
  BY <1>1 DEF Request
<1>3. /\ Works[r] = Accounts!Work(req[r].kind, "open", Undefined, Undefined)
      /\ Works'[r] = Accounts!Work(req[r].kind, "closed", Undefined, a)
      /\ Works' = [Works EXCEPT ![r] = Accounts!Work(req[r].kind, "closed", Undefined, a)]
  <2> HIDE DEF q
  <2>1. Become(r, q)
    BY DEF Answer, q
  <2>2. QED
    BY <1>1, <1>2, <2>1, WorkMoves, PendingWork, DoneWork DEF StepInv
<1>4. Accounts!Fail(r)
  <2> HIDE DEF q
  <2>1. Works[r].kind = req[r].kind /\ Accounts!Moves(r, "open", "closed")
    BY <1>3 DEF Accounts!Moves, Accounts!Work
  <2>2. Accounts!Turn(r, Works[r].kind, "closed", Undefined, a)
    BY <1>3, <2>1 DEF Accounts!Turn
  <2>3. QED
    BY <2>1, <2>2 DEF Accounts!Fail
<1>5. Works'[r] # Works[r]
  BY <1>3 DEF Accounts!Work
<1>6. QED
  BY <1>4, <1>5 DEF Accounts!Next, Accounts!Step

LEMMA AnswerFinishes ==
    ASSUME StepInv, NEW r \in Requests, req[r].pc \in Committing, NEW a, Answer(r, a)
    PROVE  LET kind == req[r].kind
               id == req[r].target
           IN  /\ Works[r] = Accounts!Work(kind, "saved", id, Undefined)
               /\ Works'[r] = Accounts!Work(kind, "closed", Undefined, a)
               /\ Works' = [Works EXCEPT ![r] = Accounts!Work(kind, "closed", Undefined, a)]
               /\ Works'[r] # Works[r]
<1> DEFINE q == [req[r] EXCEPT !.pc = "done", !.answer = a, !.self = Undefined,
                               !.item = Undefined, !.base = Undefined]
<1>1. req[r] \in Request /\ req[r].answer = Undefined
  BY OpenWork DEF At, Committing
<1>2. q.pc = "done" /\ q.kind = req[r].kind /\ q.answer = a
  BY <1>1 DEF Request
<1>3. /\ Works[r] = Accounts!Work(req[r].kind, "saved", req[r].target, Undefined)
      /\ Works'[r] = Accounts!Work(req[r].kind, "closed", Undefined, a)
      /\ Works' = [Works EXCEPT ![r] = Accounts!Work(req[r].kind, "closed", Undefined, a)]
  <2> HIDE DEF q
  <2>1. Become(r, q)
    BY DEF Answer, q
  <2>2. QED
    BY <1>1, <1>2, <2>1, WorkMoves, CommittingWork, DoneWork DEF StepInv
<1>4. Works'[r] # Works[r]
  BY <1>3 DEF Accounts!Work
<1>5. QED
  BY <1>3, <1>4

LEMMA CommitSaves ==
    ASSUME StepInv, NEW r \in Requests, req[r].pc \in Pending, NEW id, Committed(r, id)
    PROVE  LET kind == req[r].kind
           IN  /\ Works[r] = Accounts!Work(kind, "open", Undefined, Undefined)
               /\ Works'[r] = Accounts!Work(kind, "saved", id, Undefined)
               /\ Works' = [Works EXCEPT ![r] = Accounts!Work(kind, "saved", id, Undefined)]
               /\ Works'[r] # Works[r]
<1> DEFINE step == IF req[r].kind = "delete" THEN "remove" ELSE "read"
           q == [req[r] EXCEPT !.pc = step, !.target = id, !.wrote = TRUE,
                               !.item = Undefined, !.base = Undefined]
<1>1. req[r] \in Request /\ req[r].answer = Undefined
  BY OpenWork DEF At, Pending
<1>2. /\ q.pc \in Committing /\ q.kind = req[r].kind /\ q.answer = Undefined
      /\ q.target = id
  BY <1>1 DEF Request, Committing
<1>3. /\ Works[r] = Accounts!Work(req[r].kind, "open", Undefined, Undefined)
      /\ Works'[r] = Accounts!Work(req[r].kind, "saved", id, Undefined)
      /\ Works' = [Works EXCEPT ![r] = Accounts!Work(req[r].kind, "saved", id, Undefined)]
  <2> HIDE DEF q
  <2>1. Become(r, q)
    BY DEF Committed, q
  <2>2. QED
    BY <1>1, <1>2, <2>1, WorkMoves, CommittingWork, PendingWork DEF StepInv
<1>4. Works'[r] # Works[r]
  BY <1>3 DEF Accounts!Work
<1>5. QED
  BY <1>3, <1>4

LEMMA BeginAccepts ==
    ASSUME StepInv, NEW r \in Requests, NEW kind, NEW step \in Pending, NEW target,
           NEW self, NEW item, Begin(r, kind, step, target, self, item)
    PROVE  Accounts!Next
<1> DEFINE q == [Idle EXCEPT !.kind = kind, !.pc = step, !.target = target,
                             !.self = self, !.item = item]
<1>1. q.pc = step /\ q.kind = kind /\ q.answer = Undefined
  BY DEF Idle
<1>2. Become(r, q) /\ UNCHANGED users /\ req[r].pc = "idle" /\ kind \in Kinds
  BY DEF Begin, database, At
<1> HIDE DEF q
<1>3. /\ Works[r].state = "none"
      /\ Works'[r] = Accounts!Work(kind, "open", Undefined, Undefined)
      /\ Works' = [Works EXCEPT ![r] = Accounts!Work(kind, "open", Undefined, Undefined)]
  <2>1. WorkOf(req[r]).state = "none"
    BY <1>2 DEF WorkOf
  <2>2. QED
    BY <1>1, <1>2, <2>1, WorkMoves, PendingWork DEF StepInv
<1>4. Accounts!Accept(r)
  <2>1. Accounts!Moves(r, "none", "open")
    BY <1>3 DEF Accounts!Moves, Accounts!Work
  <2>2. Accounts!Turn(r, kind, "open", Undefined, Undefined)
    BY <1>3 DEF Accounts!Turn
  <2>3. QED
    BY <1>2, <2>1, <2>2 DEF Accounts!Accept
<1>5. Works'[r] # Works[r]
  BY <1>3 DEF Accounts!Work
<1>6. QED
  BY <1>4, <1>5 DEF Accounts!Next, Accounts!Step

LEMMA NotAllowedRefuses ==
    ASSUME StepInv, NEW r \in Requests, NEW kind, NotAllowed(r, kind)
    PROVE  Accounts!Next
<1> DEFINE q == [Idle EXCEPT !.kind = kind, !.pc = "done", !.answer = "notAllowed"]
<1>1. q.pc = "done" /\ q.kind = kind /\ q.answer = "notAllowed"
  BY DEF Idle
<1>2. Become(r, q) /\ UNCHANGED users /\ req[r].pc = "idle" /\ kind \in Kinds
  BY DEF NotAllowed, database, At
<1> HIDE DEF q
<1>3. /\ Works[r].state = "none"
      /\ Works'[r] = Accounts!Work(kind, "closed", Undefined, "notAllowed")
      /\ Works' = [Works EXCEPT
                     ![r] = Accounts!Work(kind, "closed", Undefined, "notAllowed")]
  <2>1. WorkOf(req[r]).state = "none"
    BY <1>2 DEF WorkOf
  <2>2. QED
    BY <1>1, <1>2, <2>1, WorkMoves, DoneWork DEF StepInv
<1>4. Accounts!Refuse(r)
  <2>1. Accounts!Moves(r, "none", "closed")
    BY <1>3 DEF Accounts!Moves, Accounts!Work
  <2>2. Accounts!Turn(r, kind, "closed", Undefined, "notAllowed")
    BY <1>3 DEF Accounts!Turn
  <2>3. QED
    BY <1>2, <2>1, <2>2 DEF Accounts!Refuse
<1>5. Works'[r] # Works[r]
  BY <1>3 DEF Accounts!Work
<1>6. QED
  BY <1>4, <1>5 DEF Accounts!Next, Accounts!Step

LEMMA ArrivalsRefine ==
    ASSUME StepInv, NEW r \in Requests,
           \/ Create(r) \/ Update(r) \/ Delete(r)
           \/ Account(r) \/ SignIn(r) \/ SignUp(r)
    PROVE  Accounts!Next
<1>1. {"email", "find", "preEmail", "preload"} \subseteq Pending
  BY DEF Pending, Steps
<1>2. ASSUME NEW kind, NEW step \in {"email", "find", "preEmail", "preload"},
             NEW target, NEW self, NEW item, Begin(r, kind, step, target, self, item)
      PROVE  Accounts!Next
  BY <1>1, <1>2, BeginAccepts
<1>3. CASE Create(r)
  BY <1>2, <1>3, NotAllowedRefuses DEF Create
<1>4. CASE Update(r)
  BY <1>2, <1>4, NotAllowedRefuses DEF Update
<1>5. CASE Delete(r)
  BY <1>2, <1>5, NotAllowedRefuses DEF Delete
<1>6. CASE Account(r)
  <2>1. \/ NotAllowed(r, "account")
        \/ \E caller, item : Begin(r, "account", "preEmail", caller, caller, item)
    BY <1>6 DEF Account
  <2>2. QED
    BY <1>2, <2>1, NotAllowedRefuses
<1>7. CASE SignIn(r)
  BY <1>2, <1>7 DEF SignIn
<1>8. CASE SignUp(r)
  BY <1>2, <1>8 DEF SignUp
<1>9. QED
  BY <1>3, <1>4, <1>5, <1>6, <1>7, <1>8

\* The assertion's steps, whether its queries work or fail.
LEMMA AssertionsRefine ==
    ASSUME StepInv, NEW r \in Requests, UNCHANGED users,
           \/ req[r].pc \in {"preEmail", "email"} /\ AfterEmail(r)
           \/ req[r].pc \in {"preUsername", "username"} /\ AfterUsername(r)
    PROVE  [Accounts!Next]_(Accounts!vars)
<1>1. req[r].pc \in Pending /\ req[r] \in Request
  BY DEF Pending, Steps, StepInv, TypeInv, TypeOK
<1>2. ASSUME NEW step \in {"preUsername", "email", "username", "load", "find"},
             Goto(r, step)
      PROVE  UNCHANGED Accounts!vars
  <2> DEFINE q == [req[r] EXCEPT !.pc = step]
  <2>1. q.pc \in Pending /\ q.kind = req[r].kind /\ q.answer = req[r].answer
    BY <1>1 DEF Request, Pending, Steps
  <2>2. Become(r, q)
    BY <1>2 DEF Goto
  <2> HIDE DEF q
  <2>3. QED
    BY <1>1, <2>1, <2>2, StaysPending
<1>3. Answer(r, "notFound") => Accounts!Next
  BY <1>1, AnswerFails
<1>4. QED
  BY <1>2, <1>3 DEF AfterEmail, AfterUsername

LEMMA ReadsRefine ==
    ASSUME StepInv, NEW r \in Requests,
           \/ Preload(r) \/ AssertEmail(r) \/ AssertUsername(r)
           \/ FindByEmail(r) \/ FindAccount(r) \/ FindDoomed(r)
           \/ ReadBack(r) \/ Load(r) \/ RejectInvalid(r)
    PROVE  [Accounts!Next]_(Accounts!vars)
<1>1. req[r] \in Request /\ UNCHANGED users
  BY DEF Preload, AssertEmail, AssertUsername, FindByEmail, FindAccount, FindDoomed,
         ReadBack, Load, RejectInvalid, database, StepInv, TypeInv, TypeOK
<1>2. ASSUME req[r].pc \in Pending, NEW a \in {"invalid", "notFound", "conflict"},
             Answer(r, a)
      PROVE  Accounts!Next
  BY <1>1, <1>2, AnswerFails
<1>3. ASSUME req[r].pc \in Pending, NEW q, Become(r, q), q.pc \in Pending,
             q.kind = req[r].kind, q.answer = req[r].answer
      PROVE  UNCHANGED Accounts!vars
  BY <1>1, <1>3, StaysPending
<1>4. CASE Preload(r)
  <2> DEFINE gs == IF UserGroup \in groups THEN {UserGroup} ELSE Undefined
             q == [req[r] EXCEPT !.pc = "preEmail", !.item.groups = gs]
  <2>1. /\ req[r].pc \in Pending /\ q.pc \in Pending
        /\ q.kind = req[r].kind /\ q.answer = req[r].answer
    BY <1>1, <1>4 DEF Preload, At, Request, Pending, Steps
  <2>2. Become(r, q)
    BY <1>4 DEF Preload
  <2> HIDE DEF q
  <2>3. QED
    BY <1>3, <2>1, <2>2
<1>5. CASE AssertEmail(r)
  <2>1. req[r].pc \in Pending
    BY <1>5 DEF AssertEmail, Pending, Steps
  <2>2. QED
    BY <1>1, <1>2, <1>5, <2>1, AssertionsRefine DEF AssertEmail
<1>6. CASE AssertUsername(r)
  <2>1. req[r].pc \in Pending
    BY <1>6 DEF AssertUsername, Pending, Steps
  <2>2. QED
    BY <1>1, <1>2, <1>6, <2>1, AssertionsRefine DEF AssertUsername
<1>7. CASE FindByEmail(r)
  <2>1. req[r].pc \in Pending
    BY <1>7 DEF FindByEmail, At, Pending, Steps
  <2>2. ASSUME NEW u \in Ids,
               Become(r, [req[r] EXCEPT !.pc = "email", !.target = u,
                                        !.self = u, !.item = users[u]])
        PROVE  UNCHANGED Accounts!vars
    <3> DEFINE q == [req[r] EXCEPT !.pc = "email", !.target = u,
                                   !.self = u, !.item = users[u]]
    <3>1. q.pc \in Pending /\ q.kind = req[r].kind /\ q.answer = req[r].answer
      BY <1>1 DEF Request, Pending, Steps
    <3>2. Become(r, q)
      BY <2>2
    <3> HIDE DEF q
    <3>3. QED
      BY <1>3, <2>1, <3>1, <3>2
  <2>3. QED
    BY <1>2, <1>7, <2>1, <2>2 DEF FindByEmail
<1>8. CASE FindAccount(r)
  <2>1. req[r].pc \in Pending
    BY <1>8 DEF FindAccount, At, Pending, Steps
  <2>2. ASSUME NEW item, Become(r, [req[r] EXCEPT !.pc = "email", !.item = item])
        PROVE  UNCHANGED Accounts!vars
    <3> DEFINE q == [req[r] EXCEPT !.pc = "email", !.item = item]
    <3>1. q.pc \in Pending /\ q.kind = req[r].kind /\ q.answer = req[r].answer
      BY <1>1 DEF Request, Pending, Steps
    <3>2. Become(r, q)
      BY <2>2
    <3> HIDE DEF q
    <3>3. QED
      BY <1>3, <2>1, <3>1, <3>2
  <2>3. QED
    BY <1>2, <1>8, <2>1, <2>2 DEF FindAccount
<1>9. CASE FindDoomed(r)
  <2>1. req[r].pc \in Pending
    BY <1>9 DEF FindDoomed, At, Pending, Steps
  <2>2. ASSUME NEW item, Become(r, [req[r] EXCEPT !.pc = "load", !.item = item])
        PROVE  UNCHANGED Accounts!vars
    <3> DEFINE q == [req[r] EXCEPT !.pc = "load", !.item = item]
    <3>1. q.pc \in Pending /\ q.kind = req[r].kind /\ q.answer = req[r].answer
      BY <1>1 DEF Request, Pending, Steps
    <3>2. Become(r, q)
      BY <2>2
    <3> HIDE DEF q
    <3>3. QED
      BY <1>3, <2>1, <3>1, <3>2
  <2>3. QED
    BY <1>2, <1>9, <2>1, <2>2 DEF FindDoomed
<1>10. CASE ReadBack(r)
  <2>1. req[r].pc \in Committing /\ req[r].kind # "delete"
    BY <1>10 DEF ReadBack, At, Committing, StepInv, Addressed, AddressedBy
  <2>2. PICK a \in {"ok", "invalid", "notFound"} :
            /\ Answer(r, a)
            /\ a = "notFound" <=> users[req[r].target] = Undefined
            /\ a = "invalid" => req[r].kind \in {"signIn", "signUp"}
    BY <1>10 DEF ReadBack, Answered
  <2>3. /\ Works[r] = Accounts!Work(req[r].kind, "saved", req[r].target, Undefined)
        /\ Works'[r] = Accounts!Work(req[r].kind, "closed", Undefined, a)
        /\ Works' = [Works EXCEPT ![r] = Accounts!Work(req[r].kind, "closed", Undefined, a)]
        /\ Works'[r] # Works[r]
    BY <2>1, <2>2, AnswerFinishes
  <2>4. /\ Works[r].kind = req[r].kind /\ Works[r].id = req[r].target
        /\ Accounts!Moves(r, "saved", "closed")
    BY <2>3 DEF Accounts!Work, Accounts!Moves
  <2>5. Accounts!Truthful(Works[r].kind, a, users[Works[r].id] # Undefined)
    BY <2>1, <2>2, <2>4 DEF Accounts!Truthful
  <2>6. Accounts!Turn(r, Works[r].kind, "closed", Undefined, a)
    BY <2>3, <2>4 DEF Accounts!Turn
  <2>7. Accounts!Finish(r)
    BY <1>1, <2>4, <2>5, <2>6 DEF Accounts!Finish
  <2>8. QED
    BY <2>3, <2>7 DEF Accounts!Next, Accounts!Step
<1>11. CASE Load(r)
  <2> DEFINE base == IF req[r].target = Undefined THEN Undefined ELSE users[req[r].target]
             q == [req[r] EXCEPT !.pc = "write", !.base = base]
  <2>1. /\ req[r].pc \in Pending /\ q.pc \in Pending
        /\ q.kind = req[r].kind /\ q.answer = req[r].answer
    BY <1>1, <1>11 DEF Load, At, Request, Pending, Steps
  <2>2. Become(r, q)
    BY <1>11 DEF Load
  <2> HIDE DEF q
  <2>3. QED
    BY <1>3, <2>1, <2>2
<1>12. CASE RejectInvalid(r)
  BY <1>2, <1>12 DEF RejectInvalid, At, Pending, Steps
<1>13. QED
  BY <1>4, <1>5, <1>6, <1>7, <1>8, <1>9, <1>10, <1>11, <1>12

\* What every row that save() may write has to keep clear of.
LEMMA ClearRowFits ==
    ASSUME NEW id \in Ids, NEW row, NEW item, ~Collides(id, item),
           row.email = item.email, row.username = item.username
    PROVE  Accounts!Fits(id, row)
BY DEF Collides, Accounts!Fits

\* A save() that stores a row.
LEMMA SaveStores ==
    ASSUME StepInv, NEW r \in Requests, req[r].pc \in Pending, NEW id \in Ids,
           NEW row \in Entity, NEW given, Save(r, id, row, given), Committed(r, id),
           Accounts!Fits(id, row),
           req[r].kind \in {"update", "account"} => users[id] # Undefined,
           req[r].kind = "signUp" => users[id] = Undefined
    PROVE  Accounts!Next
<1>1. /\ Works[r] = Accounts!Work(req[r].kind, "open", Undefined, Undefined)
      /\ Works'[r] = Accounts!Work(req[r].kind, "saved", id, Undefined)
      /\ Works' = [Works EXCEPT ![r] = Accounts!Work(req[r].kind, "saved", id, Undefined)]
      /\ Works'[r] # Works[r]
  BY CommitSaves
<1>2. Works[r].kind = req[r].kind /\ Accounts!Moves(r, "open", "saved")
  BY <1>1 DEF Accounts!Work, Accounts!Moves
<1>3. Accounts!Turn(r, Works[r].kind, "saved", id, Undefined)
  BY <1>1, <1>2 DEF Accounts!Turn
<1>4. users' = [users EXCEPT ![id] = row]
  BY DEF Save
<1>5. Accounts!Store(r)
  BY <1>2, <1>3, <1>4 DEF Accounts!Store
<1>6. QED
  BY <1>1, <1>5 DEF Accounts!Next, Accounts!Step

LEMMA InsertRefines ==
    ASSUME StepInv, ProvInv, NEW r \in Requests, Insert(r)
    PROVE  Accounts!Next
<1> DEFINE id == InsertId(r)
           item == req[r].item
<1>1. /\ req[r].pc \in Pending /\ id \in Ids /\ item \in Body
  BY DEF Insert, At, Pending, Steps, StepInv, TypeInv, Shape, ShapeOf, Saving, InsertId
<1>2. CASE InsertFails(id, item)
  BY <1>1, <1>2, AnswerFails DEF Insert
<1>3. CASE ~InsertFails(id, item)
  <2>1. /\ users[id] = Undefined /\ item.password # Undefined /\ ~Collides(id, item)
    BY <1>3 DEF InsertFails
  <2>2. /\ Inserted(item) \in Entity
        /\ Inserted(item).email = item.email
        /\ Inserted(item).username = item.username
    BY <1>1, <2>1, InsertedEntity DEF Inserted
  <2>3. Save(r, id, Inserted(item), Inserted(item)) /\ Committed(r, id)
    BY <1>3 DEF Insert
  <2>4. req[r].kind \notin {"update", "account"}
    BY <1>3, UpdateInsertsNothing
  <2>5. Accounts!Fits(id, Inserted(item))
    BY <1>1, <2>1, <2>2, ClearRowFits
  <2> HIDE DEF id, item
  <2>6. QED
    BY <1>1, <2>1, <2>2, <2>3, <2>4, <2>5, SaveStores
<1>4. QED
  BY <1>2, <1>3

LEMMA OverwriteRefines ==
    ASSUME StepInv, NEW r \in Requests, Overwrite(r)
    PROVE  Accounts!Next
<1> DEFINE id == req[r].target
           item == req[r].item
           base == req[r].base
           row == Updated(users[id], item, base)
<1>1. /\ req[r].pc \in Pending /\ id \in Ids /\ item \in Body /\ base \in Entity
      /\ req[r].kind # "signUp" /\ users[id] \in Optional(Entity)
  BY DEF Overwrite, At, Pending, Steps, StepInv, TypeInv, TypeOK, Shape, ShapeOf, Saving,
         Addressed, AddressedBy, Request, Optional
<1>2. CASE UpdateFails(id, item, base)
  BY <1>1, <1>2, AnswerFails DEF Overwrite
<1>3. CASE ~UpdateFails(id, item, base) /\ users[id] = Undefined
  <2>1. Committed(r, id) /\ UNCHANGED users
    BY <1>3 DEF Overwrite
  <2>2. /\ Works[r] = Accounts!Work(req[r].kind, "open", Undefined, Undefined)
        /\ Works'[r] = Accounts!Work(req[r].kind, "saved", id, Undefined)
        /\ Works' = [Works EXCEPT ![r] = Accounts!Work(req[r].kind, "saved", id, Undefined)]
        /\ Works'[r] # Works[r]
    BY <1>1, <2>1, CommitSaves
  <2>3. Works[r].kind = req[r].kind /\ Accounts!Moves(r, "open", "saved")
    BY <2>2 DEF Accounts!Work, Accounts!Moves
  <2>4. Accounts!Turn(r, Works[r].kind, "saved", id, Undefined)
    BY <2>2, <2>3 DEF Accounts!Turn
  <2>5. Accounts!Miss(r)
    BY <1>1, <1>3, <2>1, <2>3, <2>4 DEF Accounts!Miss
  <2>6. QED
    BY <2>2, <2>5 DEF Accounts!Next, Accounts!Step
<1>4. CASE ~UpdateFails(id, item, base) /\ users[id] # Undefined
  <2>1. Save(r, id, row, item) /\ Committed(r, id) /\ ~Collides(id, row)
    BY <1>4 DEF Overwrite, UpdateFails
  <2>2. row \in Entity
    BY <1>1, <1>4, UpdatedEntity DEF Optional
  <2> HIDE DEF id, item, base, row
  <2>3. Accounts!Fits(id, row)
    BY <1>1, <2>1, ClearRowFits
  <2>4. QED
    BY <1>1, <1>4, <2>1, <2>2, <2>3, SaveStores
<1>5. QED
  BY <1>2, <1>3, <1>4

\* An error after save() committed; the DELETE.
LEMMA LateErrorRefines ==
    ASSUME StepInv, NEW r \in Requests, req[r].pc \in Committing, Answer(r, "error"),
           UNCHANGED users
    PROVE  Accounts!Next
<1>1. /\ Works[r] = Accounts!Work(req[r].kind, "saved", req[r].target, Undefined)
      /\ Works'[r] = Accounts!Work(req[r].kind, "closed", Undefined, "error")
      /\ Works' = [Works EXCEPT ![r] = Accounts!Work(req[r].kind, "closed", Undefined, "error")]
      /\ Works'[r] # Works[r]
  BY AnswerFinishes
<1>2. Works[r].kind = req[r].kind /\ Accounts!Moves(r, "saved", "closed")
  BY <1>1 DEF Accounts!Work, Accounts!Moves
<1>3. Accounts!Turn(r, Works[r].kind, "closed", Undefined, "error")
  BY <1>1, <1>2 DEF Accounts!Turn
<1>4. Accounts!Finish(r)
  BY <1>2, <1>3 DEF Accounts!Finish, Accounts!Truthful
<1>5. QED
  BY <1>1, <1>4 DEF Accounts!Next, Accounts!Step

LEMMA RemoveRefines ==
    ASSUME StepInv, NEW r \in Requests, Remove(r)
    PROVE  Accounts!Next
<1>1. req[r].pc \in Committing /\ req[r].kind = "delete"
  BY DEF Remove, At, Committing, StepInv, Addressed, AddressedBy
<1>2. CASE req[r].target \in linked
  BY <1>1, <1>2, LateErrorRefines DEF Remove
<1>3. CASE req[r].target \notin linked
  <2>1. users' = [users EXCEPT ![req[r].target] = Undefined] /\ Answer(r, "ok")
    BY <1>3 DEF Remove
  <2>2. /\ Works[r] = Accounts!Work(req[r].kind, "saved", req[r].target, Undefined)
        /\ Works'[r] = Accounts!Work(req[r].kind, "closed", Undefined, "ok")
        /\ Works' = [Works EXCEPT ![r] = Accounts!Work(req[r].kind, "closed", Undefined, "ok")]
        /\ Works'[r] # Works[r]
    BY <1>1, <2>1, AnswerFinishes
  <2>3. /\ Works[r].kind = req[r].kind /\ Works[r].id = req[r].target
        /\ Accounts!Moves(r, "saved", "closed")
    BY <2>2 DEF Accounts!Work, Accounts!Moves
  <2>4. Accounts!Turn(r, Works[r].kind, "closed", Undefined, "ok")
    BY <2>2, <2>3 DEF Accounts!Turn
  <2>5. Accounts!Drop(r)
    BY <1>1, <2>1, <2>3, <2>4 DEF Accounts!Drop
  <2>6. QED
    BY <2>2, <2>5 DEF Accounts!Next, Accounts!Step
<1>4. QED
  BY <1>2, <1>3

LEMMA QueryFailsRefines ==
    ASSUME StepInv, NEW r \in Requests, QueryFails(r)
    PROVE  [Accounts!Next]_(Accounts!vars)
<1>1. UNCHANGED users
  BY DEF QueryFails, database
<1>2. CASE \/ req[r].pc \in {"preEmail", "email"} /\ AfterEmail(r)
           \/ req[r].pc \in {"preUsername", "username"} /\ AfterUsername(r)
  BY <1>1, <1>2, AssertionsRefine
<1>3. CASE req[r].pc \in Pending /\ \E a \in {"invalid", "notFound", "error"} : Answer(r, a)
  BY <1>1, <1>3, AnswerFails
<1>4. CASE req[r].pc \in Committing /\ Answer(r, "error")
  BY <1>1, <1>4, LateErrorRefines
<1>5. QED
  BY <1>2, <1>3, <1>4 DEF QueryFails, At, Pending, Committing, Steps

LEMMA StepRefines ==
    ASSUME StepInv, ProvInv, NEW r \in Requests, Step(r)
    PROVE  [Accounts!Next]_(Accounts!vars)
<1>1. CASE Create(r) \/ Update(r) \/ Delete(r) \/ Account(r) \/ SignIn(r) \/ SignUp(r)
  BY <1>1, ArrivalsRefine
<1>2. CASE \/ Preload(r) \/ AssertEmail(r) \/ AssertUsername(r)
           \/ FindByEmail(r) \/ FindAccount(r) \/ FindDoomed(r)
           \/ ReadBack(r) \/ Load(r) \/ RejectInvalid(r)
  BY <1>2, ReadsRefine
<1>3. CASE Insert(r) \/ Overwrite(r) \/ Remove(r)
  BY <1>3, InsertRefines, OverwriteRefines, RemoveRefines
<1>4. CASE QueryFails(r)
  BY <1>4, QueryFailsRefines
<1>5. QED
  BY <1>1, <1>2, <1>3, <1>4 DEF Step

\* What the API promises of accounts, the requests keep: each stores at most
\* one row, that nobody else's email or username is in, and only when its save()
\* commits; what is refused or fails before changes nothing, and an answer is
\* true of the row at that moment.
THEOREM UsersImplementDirectory == Spec => OneSavePerRequest
<1>1. Init => Accounts!Init
  <2> SUFFICES ASSUME Init PROVE Accounts!Init
    OBVIOUS
  <2>1. WorkOf(Idle) = Accounts!Nothing
    BY DEF WorkOf, Idle, Accounts!Nothing, Accounts!Work
  <2>2. \A r \in Requests : req[r] = Idle
    BY DEF Init
  <2>3. Works = [r \in Requests |-> Accounts!Nothing]
    BY <2>1, <2>2 DEF Works
  <2>4. QED
    BY <2>3 DEF Init, Accounts!Init
<1>2. StepInv /\ ProvInv /\ [Next]_vars => [Accounts!Next]_(Accounts!vars)
  <2> SUFFICES ASSUME StepInv, ProvInv, [Next]_vars PROVE [Accounts!Next]_(Accounts!vars)
    OBVIOUS
  <2>1. CASE \E r \in Requests : Step(r)
    BY <2>1, StepRefines
  <2>2. ASSUME NEW g \in Groups, DropGroup(g) PROVE Accounts!Next
    <3>1. Works' = Works
      BY <2>2 DEF DropGroup, Works
    <3>2. Accounts!Ungroup(g)
      BY <2>2, <3>1 DEF DropGroup, Accounts!Ungroup
    <3>3. QED
      BY <3>2 DEF Accounts!Next
  <2>3. CASE (\E u \in Ids : LinkToken(u)) \/ UNCHANGED vars
    BY <2>3 DEF LinkToken, vars, Accounts!vars, Works
  <2>4. QED
    BY <2>1, <2>2, <2>3 DEF Next, Quiescent
<1>3. QED
  BY <1>1, <1>2, AddressedHolds, CarriedHolds, PTL
     DEF Spec, OneSavePerRequest, Accounts!Spec

=============================================================================
