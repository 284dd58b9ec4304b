---------------------------- MODULE TenantProofs ----------------------------
(***************************************************************************)
(* Proofs about Tenant, for every value of the constants that              *)
(* TenantAssumption admits: types, isolation, and that the module          *)
(* implements Tenancy.                                                     *)
(***************************************************************************)
EXTENDS Tenant, TLAPS

\* A request that is idle or has failed has nothing in memory; one that is on
\* its way or was served has a path and a kind, and is not answered before
\* it is done.
ShapeOf(q) ==
    /\ q.pc = "idle" => q = Idle
    /\ q.pc = "done" <=> q.answer # Undefined
    /\ q.answer \in {"badRequest", "error"} =>
          q = [Idle EXCEPT !.pc = "done", !.answer = q.answer]
    /\ q.pc # "idle" /\ q.answer \in {Undefined, "ok"} =>
          q.path \in Paths /\ q.kind \in Kinds

\* What a request found was in the row of its path while this server ran; it
\* works on the connection that is registered under its name.
HoldsOf(q) ==
    /\ q.pc = "enter" /\ q.row \in Databases => q.row \in named[q.path]
    /\ q.pc = "query" \/ q.answer = "ok" =>
          /\ conn[NameFor(q.path)] # Undefined
          /\ q.database = conn[NameFor(q.path)].database
          /\ q.kind # "todo" => NameFor(q.path) = Default

\* The default connection is there and is the master's; any other was opened
\* with a database of its row.
Registry ==
    /\ conn[Default] = [database |-> Master, state |-> "ready"]
    /\ \A p \in Paths \ {Default} :
          conn[p] # Undefined => conn[p].database \in named[p]
    /\ \A p \in Paths : rows[p] \in Databases => rows[p] \in named[p]

TenantInv ==
    /\ TypeOK
    /\ Registry
    /\ \A r \in Requests : ShapeOf(req[r]) /\ HoldsOf(req[r])

(***************************************************************************)
(* Types.                                                                  *)
(***************************************************************************)

LEMMA IdleTyped == Idle \in Request
BY DEF Idle, Request, Optional, Steps

\* The records that failing requests and new connections are made of.
LEMMA RecordsTyped ==
    /\ \A a \in Answers : [Idle EXCEPT !.pc = "done", !.answer = a] \in Request
    /\ \A d \in Databases, s \in Progress : [database |-> d, state |-> s] \in Connection
BY DEF Idle, Request, Optional, Steps, Connection

\* The rows that the middleware goes on with are databases.
LEMMA ServableIsDatabase ==
    ASSUME NEW row \in Optional(Row), Servable(row)
    PROVE  row \in Databases
BY TenantAssumption DEF Servable, Optional, Row

(***************************************************************************)
(* What a step leaves alone.                                               *)
(***************************************************************************)

\* The registry loses no entry and changes none's database, and what a path
\* was given is not forgotten.
Grows ==
    /\ \A p \in Paths : conn[p] # Undefined =>
          conn'[p] # Undefined /\ conn'[p].database = conn[p].database
    /\ \A p \in Paths : named[p] \subseteq named'[p]

LEMMA UnchangedGrows ==
    ASSUME UNCHANGED <<rows, conn, named>>
    PROVE  Grows
BY DEF Grows

LEMMA NameIsAName ==
    ASSUME NEW path \in Paths
    PROVE  NameFor(path) \in Paths
BY TenantAssumption DEF NameFor

\* A request that does not move keeps what it holds.
LEMMA Bystander ==
    ASSUME TenantInv, Grows, NEW s \in Requests, req'[s] = req[s]
    PROVE  (ShapeOf(req[s]) /\ HoldsOf(req[s]))'
<1>1. ShapeOf(req[s]) /\ HoldsOf(req[s])
    BY DEF TenantInv
<1>2. ShapeOf(req[s])'
    BY <1>1 DEF ShapeOf
<1>3. CASE req[s].pc = "enter"
    <2>1. req[s].answer = Undefined /\ req[s].path \in Paths
        BY <1>1, <1>3 DEF ShapeOf
    <2>2. req[s].answer # "ok"
        BY <2>1, TenantAssumption DEF Answers
    <2> QED BY <1>1, <1>2, <1>3, <2>1, <2>2 DEF HoldsOf, Grows
<1>4. CASE req[s].pc = "query" \/ req[s].answer = "ok"
    <2>1. req[s].pc # "enter" /\ req[s].path \in Paths
        BY <1>1, <1>4, TenantAssumption DEF ShapeOf, Answers, Idle
    <2>2. NameFor(req[s].path) \in Paths
        BY <2>1, NameIsAName
    <2> QED BY <1>1, <1>2, <1>4, <2>1, <2>2 DEF HoldsOf, Grows
<1>5. CASE req[s].pc \notin {"enter", "query"} /\ req[s].answer # "ok"
    BY <1>2, <1>5 DEF HoldsOf
<1> QED BY <1>3, <1>4, <1>5

\* A step of one request keeps the invariant if its new state is in order.
LEMMA OneRequest ==
    ASSUME TenantInv, NEW r \in Requests, Grows, Registry',
           rows' \in [Paths -> Optional(Row)],
           conn' \in [Paths -> Optional(Connection)],
           named' \in [Paths -> SUBSET Databases],
           NEW q \in Request, Become(r, q), ShapeOf(q),
           req'[r] = q => HoldsOf(req[r])'
    PROVE  TenantInv'
<1>1. req \in [Requests -> Request]
    BY DEF TenantInv, TypeOK
<1>2. /\ req'[r] = q
      /\ \A s \in Requests \ {r} : req'[s] = req[s]
      /\ req' \in [Requests -> Request]
    BY <1>1 DEF Become
<1>3. ASSUME NEW s \in Requests
      PROVE  (ShapeOf(req[s]) /\ HoldsOf(req[s]))'
    <2>1. CASE s = r
        BY <1>2, <2>1 DEF ShapeOf
    <2>2. CASE s # r
        BY <1>2, <2>2, Bystander
    <2> QED BY <2>1, <2>2
<1> QED BY <1>2, <1>3 DEF TenantInv, TypeOK

\* The same for a step that leaves the registry and the table alone.
LEMMA OnlyRequest ==
    ASSUME TenantInv, NEW r \in Requests, UNCHANGED <<rows, conn, named>>,
           NEW q \in Request, Become(r, q), ShapeOf(q),
           req'[r] = q => HoldsOf(req[r])'
    PROVE  TenantInv'
<1>1. Registry'
    BY DEF TenantInv, Registry
<1> QED BY <1>1, UnchangedGrows, OneRequest DEF TenantInv, TypeOK

LEMMA FailStep ==
    ASSUME TenantInv, NEW r \in Requests, UNCHANGED <<rows, conn, named>>,
           NEW a \in {"badRequest", "error"}, Fail(r, a)
    PROVE  TenantInv'
<1> DEFINE q == [Idle EXCEPT !.pc = "done", !.answer = a]
<1>1. q \in Request /\ q.answer = a /\ q.pc = "done"
    BY RecordsTyped DEF Answers, Idle
<1>2. Become(r, q)
    BY DEF Fail
<1>3. ShapeOf(q)
    BY <1>1, TenantAssumption DEF ShapeOf, Answers
<1>4. req'[r] = q => HoldsOf(req[r])'
    BY <1>1 DEF HoldsOf
<1> HIDE DEF q
<1> QED BY <1>1, <1>2, <1>3, <1>4, OnlyRequest

(***************************************************************************)
(* The invariant is inductive.                                             *)
(***************************************************************************)

\* A request on its way has a path and a kind, and no answer.
LEMMA OnItsWay ==
    ASSUME TenantInv, NEW r \in Requests, req[r].pc \notin {"idle", "done"}
    PROVE  /\ req[r] \in Request
           /\ req[r].path \in Paths
           /\ req[r].kind \in Kinds
           /\ req[r].answer = Undefined
           /\ rows[req[r].path] \in Optional(Row)
<1>1. req[r] \in Request /\ ShapeOf(req[r])
    BY DEF TenantInv, TypeOK
<1>2. req[r].answer = Undefined
    BY <1>1 DEF ShapeOf
<1>3. req[r].path \in Paths /\ req[r].kind \in Kinds
    BY <1>1, <1>2 DEF ShapeOf
<1> QED BY <1>1, <1>2, <1>3 DEF TenantInv, TypeOK

\* Moving on to a step that holds nothing.
LEMMA GotoStep ==
    ASSUME TenantInv, NEW r \in Requests, req[r].pc \notin {"idle", "done"},
           NEW step \in {"opening", "resolve"}, Goto(r, step),
           Grows, Registry',
           rows' \in [Paths -> Optional(Row)],
           conn' \in [Paths -> Optional(Connection)],
           named' \in [Paths -> SUBSET Databases]
    PROVE  TenantInv'
<1> DEFINE q == [req[r] EXCEPT !.pc = step, !.row = Undefined]
<1>1. /\ q \in Request
      /\ q.pc = step /\ q.answer = Undefined
      /\ q.path \in Paths /\ q.kind \in Kinds
    BY OnItsWay DEF Request, Optional, Steps
<1>2. Become(r, q)
    BY DEF Goto
<1>3. ShapeOf(q)
    BY <1>1, TenantAssumption DEF ShapeOf, Answers
<1>4. req'[r] = q => HoldsOf(req[r])'
    BY <1>1, TenantAssumption DEF HoldsOf, Answers
<1> HIDE DEF q
<1> QED BY <1>1, <1>2, <1>3, <1>4, OneRequest

LEMMA ArriveStep ==
    ASSUME TenantInv, NEW r \in Requests, NEW kind \in Kinds, NEW path \in Paths,
           Arrive(r, kind, path)
    PROVE  TenantInv'
<1> DEFINE q == [Idle EXCEPT !.pc = IF kind = "admin" THEN "resolve" ELSE "find",
                             !.kind = kind, !.path = path]
<1>1. /\ q \in Request
      /\ q.pc \in {"find", "resolve"} /\ q.answer = Undefined
      /\ q.path \in Paths /\ q.kind \in Kinds
    BY DEF Idle, Request, Optional, Steps
<1>2. Become(r, q)
    BY DEF Arrive
<1>3. ShapeOf(q)
    BY <1>1, TenantAssumption DEF ShapeOf, Answers
<1>4. req'[r] = q => HoldsOf(req[r])'
    BY <1>1, TenantAssumption DEF HoldsOf, Answers
<1>5. UNCHANGED <<rows, conn, named>>
    BY DEF Arrive
<1> HIDE DEF q
<1> QED BY <1>1, <1>2, <1>3, <1>4, <1>5, OnlyRequest

LEMMA FindStep ==
    ASSUME TenantInv, NEW r \in Requests, Find(r)
    PROVE  TenantInv'
<1> DEFINE q == [req[r] EXCEPT !.pc = "enter", !.row = rows[req[r].path]]
<1>1. req[r].pc = "find" /\ UNCHANGED <<rows, conn, named>> /\ Become(r, q)
    BY DEF Find, At
<1>2. /\ q \in Request
      /\ q.pc = "enter" /\ q.answer = Undefined
      /\ q.path \in Paths /\ q.kind \in Kinds
      /\ q.row = rows[q.path]
    BY <1>1, OnItsWay DEF Request, Optional, Steps
<1>3. ShapeOf(q)
    BY <1>2, TenantAssumption DEF ShapeOf, Answers
<1>4. q.row \in Databases => q.row \in named[q.path]
    BY <1>2 DEF TenantInv, Registry
<1>5. req'[r] = q => HoldsOf(req[r])'
    BY <1>1, <1>2, <1>4, TenantAssumption DEF HoldsOf, Answers
<1> HIDE DEF q
<1> QED BY <1>1, <1>2, <1>3, <1>5, OnlyRequest

\* A connection is opened under a free name, which is not the default one,
\* with a database of the row that was found.
LEMMA OpenStep ==
    ASSUME TenantInv, NEW r \in Requests, Open(r)
    PROVE  TenantInv'
<1> DEFINE path == req[r].path
           row == req[r].row
<1>1. req[r].pc = "enter" /\ Servable(row) /\ conn[path] = Undefined
    BY DEF Open, At, Registered
<1>2. path \in Paths /\ row \in Databases
    <2>1. req[r] \in Request /\ path \in Paths
        BY <1>1, OnItsWay
    <2>2. row \in Optional(Row)
        BY <2>1 DEF Request
    <2> QED BY <1>1, <2>1, <2>2, ServableIsDatabase
<1>3. row \in named[path]
    BY <1>1, <1>2 DEF TenantInv, HoldsOf
<1>4. [database |-> row, state |-> "connecting"] \in Connection
    BY <1>2 DEF Connection, Progress
<1>5. conn' = [conn EXCEPT ![path] = [database |-> row, state |-> "connecting"]]
    BY DEF Open
<1>6. conn \in [Paths -> Optional(Connection)]
    BY DEF TenantInv, TypeOK
<1>7. UNCHANGED <<rows, named>> /\ Goto(r, "opening")
    BY DEF Open
<1>8. path # Default
    BY <1>1, <1>4, TenantAssumption DEF TenantInv, Registry, Connection, Progress
<1> HIDE DEF path, row
<1>9. conn' \in [Paths -> Optional(Connection)]
    BY <1>4, <1>5, <1>6 DEF Optional
<1>10. Grows
    BY <1>1, <1>5, <1>6, <1>7 DEF Grows
<1>11. Registry'
    BY <1>2, <1>3, <1>5, <1>6, <1>7, <1>8, TenantAssumption DEF TenantInv, Registry
<1>12. /\ rows' \in [Paths -> Optional(Row)]
       /\ named' \in [Paths -> SUBSET Databases]
    BY <1>7 DEF TenantInv, TypeOK
<1> QED BY <1>1, <1>7, <1>9, <1>10, <1>11, <1>12, GotoStep

LEMMA ResolveStep ==
    ASSUME TenantInv, NEW r \in Requests, Resolve(r)
    PROVE  TenantInv'
<1> DEFINE row == IF req[r].path = MasterPath THEN NoDatabase
                  ELSE rows[req[r].path]
           q == [req[r] EXCEPT !.pc = "bind", !.row = row]
<1>1. req[r].pc = "resolve" /\ UNCHANGED <<rows, conn, named>> /\ Become(r, q)
    BY DEF Resolve, At
<1>2. row \in Optional(Row)
    BY <1>1, OnItsWay DEF Optional, Row
<1> HIDE DEF row
<1>3. /\ q \in Request
      /\ q.pc = "bind" /\ q.answer = Undefined
      /\ q.path \in Paths /\ q.kind \in Kinds
    BY <1>1, <1>2, OnItsWay DEF Request, Steps
<1>4. ShapeOf(q)
    BY <1>3, TenantAssumption DEF ShapeOf, Answers
<1>5. req'[r] = q => HoldsOf(req[r])'
    BY <1>3, TenantAssumption DEF HoldsOf, Answers
<1> HIDE DEF q
<1> QED BY <1>1, <1>3, <1>4, <1>5, OnlyRequest

LEMMA BindStep ==
    ASSUME TenantInv, NEW r \in Requests, Bind(r)
    PROVE  TenantInv'
<1> DEFINE name == NameFor(req[r].path)
           q == [req[r] EXCEPT !.pc = "query", !.row = Undefined,
                               !.database = conn[name].database]
<1>1. /\ req[r].pc = "bind" /\ UNCHANGED <<rows, conn, named>> /\ Become(r, q)
      /\ HasRepository(name, req[r].kind)
    BY DEF Bind, At
<1>2. name \in Paths
    BY <1>1, OnItsWay, NameIsAName
<1>3. conn[name] # Undefined /\ conn[name].database \in Databases
    BY <1>1, <1>2 DEF HasRepository, TenantInv, TypeOK, Optional, Connection
<1>4. req[r].kind # "todo" => name = Default
    BY <1>1 DEF HasRepository, HasEntity
<1>5. /\ q \in Request
      /\ q.pc = "query" /\ q.answer = Undefined
      /\ q.path \in Paths /\ q.kind \in Kinds
      /\ NameFor(q.path) = name /\ q.database = conn[name].database
      /\ q.kind # "todo" => name = Default
    BY <1>1, <1>3, <1>4, OnItsWay DEF Request, Optional, Steps
<1>6. ShapeOf(q)
    BY <1>5, TenantAssumption DEF ShapeOf, Answers
<1> HIDE DEF name, q
<1>7. req'[r] = q => HoldsOf(req[r])'
    BY <1>1, <1>3, <1>5 DEF HoldsOf
<1> QED BY <1>1, <1>5, <1>6, <1>7, OnlyRequest

LEMMA WorkStep ==
    ASSUME TenantInv, NEW r \in Requests, Work(r)
    PROVE  TenantInv'
<1> DEFINE q == [req[r] EXCEPT !.pc = "done", !.answer = "ok"]
<1>1. req[r].pc = "query" /\ UNCHANGED <<rows, conn, named>> /\ Become(r, q)
    BY DEF Work, At
<1>2. HoldsOf(req[r])
    BY DEF TenantInv
<1>3. /\ q \in Request
      /\ q.pc = "done" /\ q.answer = "ok"
      /\ q.path \in Paths /\ q.kind \in Kinds
      /\ q.path = req[r].path /\ q.kind = req[r].kind
      /\ q.database = req[r].database
    BY <1>1, OnItsWay DEF Request, Optional, Steps, Answers
<1>4. ShapeOf(q)
    BY <1>3, TenantAssumption DEF ShapeOf, Answers
<1> HIDE DEF q
<1>5. req'[r] = q => HoldsOf(req[r])'
    BY <1>1, <1>2, <1>3 DEF HoldsOf
<1> QED BY <1>1, <1>3, <1>4, <1>5, OnlyRequest

LEMMA LeaveStep ==
    ASSUME TenantInv, NEW r \in Requests, Leave(r)
    PROVE  TenantInv'
<1>1. Become(r, Idle) /\ UNCHANGED <<rows, conn, named>>
    BY DEF Leave
<1>2. Idle.pc = "idle" /\ Idle.answer = Undefined
    BY DEF Idle
<1>3. ShapeOf(Idle)
    BY <1>2, TenantAssumption DEF ShapeOf, Answers
<1>4. req'[r] = Idle => HoldsOf(req[r])'
    BY <1>2, TenantAssumption DEF HoldsOf, Answers
<1> QED BY <1>1, <1>3, <1>4, IdleTyped, OnlyRequest

\* The environment: connections that make progress, edited rows, a restart.
LEMMA ConnectStep ==
    ASSUME TenantInv, NEW p \in Paths, Connect(p)
    PROVE  TenantInv'
<1>1. PICK from \in {"connecting", "synchronizing"}, to \in Progress : Reach(p, from, to)
    BY DEF Connect, Progress
<1>2. /\ conn[p] # Undefined /\ conn[p].state = from
      /\ conn' = [conn EXCEPT ![p].state = to]
      /\ UNCHANGED <<rows, req, named>>
    BY <1>1 DEF Reach
<1>3. conn \in [Paths -> Optional(Connection)] /\ TypeOK
    BY DEF TenantInv, TypeOK
<1>4. conn[p] \in Connection
    BY <1>2, <1>3 DEF Optional
<1>5. [conn[p] EXCEPT !.state = to] \in Connection
    BY <1>4 DEF Connection
<1>6. /\ conn'[p] = [conn[p] EXCEPT !.state = to]
      /\ conn'[p] # Undefined /\ conn'[p].database = conn[p].database
      /\ \A x \in Paths \ {p} : conn'[x] = conn[x]
      /\ conn' \in [Paths -> Optional(Connection)]
    BY <1>2, <1>3, <1>4, <1>5, TenantAssumption DEF Optional, Connection
<1>7. p # Default
    BY <1>2 DEF TenantInv, Registry
<1>8. Registry'
    BY <1>2, <1>6, <1>7, TenantAssumption DEF TenantInv, Registry
<1>9. Grows
    BY <1>2, <1>6 DEF Grows
<1>10. TypeOK'
    BY <1>2, <1>3, <1>6 DEF TypeOK
<1>11. \A r \in Requests : (ShapeOf(req[r]) /\ HoldsOf(req[r]))'
    BY <1>2, <1>9, Bystander
<1> QED BY <1>8, <1>10, <1>11 DEF TenantInv

LEMMA EditStep ==
    ASSUME TenantInv, NEW p \in Paths, NEW row \in Optional(Row), Edit(p, row)
    PROVE  TenantInv'
<1>1. /\ rows' = [rows EXCEPT ![p] = row]
      /\ named' = [named EXCEPT ![p] = @ \cup ({row} \cap Databases)]
      /\ UNCHANGED <<conn, req>>
    BY DEF Edit
<1>2. TypeOK /\ Registry
    BY DEF TenantInv
<1>3. TypeOK'
    BY <1>1, <1>2 DEF TypeOK
<1>4. Grows
    BY <1>1, <1>2 DEF Grows, TypeOK
<1>5. Registry'
    <2>1. \A x \in Paths : rows'[x] \in Databases => rows'[x] \in named'[x]
        BY <1>1, <1>2 DEF Registry, TypeOK
    <2>2. \A x \in Paths : named[x] \subseteq named'[x]
        BY <1>4 DEF Grows
    <2> QED BY <1>1, <1>2, <2>1, <2>2 DEF Registry
<1>6. \A r \in Requests : (ShapeOf(req[r]) /\ HoldsOf(req[r]))'
    BY <1>1, <1>4, Bystander
<1> QED BY <1>3, <1>5, <1>6 DEF TenantInv

\* A server starts in order, whatever the table says.
LEMMA StartIsInOrder ==
    ASSUME NEW table \in [Paths -> Optional(Row)]
    PROVE  /\ Started \in [Paths -> Optional(Connection)]
           /\ NamedBy(table) \in [Paths -> SUBSET Databases]
           /\ Started[Default] = [database |-> Master, state |-> "ready"]
           /\ \A p \in Paths \ {Default} : Started[p] = Undefined
           /\ \A p \in Paths : table[p] \in Databases => table[p] \in NamedBy(table)[p]
           /\ ShapeOf(Idle)
           /\ Idle.pc = "idle" /\ Idle.answer = Undefined
<1>1. Started \in [Paths -> Optional(Connection)]
    BY RecordsTyped, TenantAssumption DEF Started, Optional, Progress
<1>2. NamedBy(table) \in [Paths -> SUBSET Databases]
    BY DEF NamedBy
<1>3. ShapeOf(Idle) /\ Idle.pc = "idle" /\ Idle.answer = Undefined
    BY TenantAssumption DEF ShapeOf, Idle, Answers
<1> QED BY <1>1, <1>2, <1>3, TenantAssumption DEF Started, NamedBy

LEMMA InvInit ==
    ASSUME Init
    PROVE  TenantInv
<1>1. rows \in [Paths -> Optional(Row)]
    BY TenantAssumption DEF Init
<1>2. conn = Started /\ named = NamedBy(rows) /\ req = [r \in Requests |-> Idle]
    BY DEF Init
<1>3. \A r \in Requests : ShapeOf(req[r]) /\ HoldsOf(req[r])
    BY <1>1, <1>2, StartIsInOrder, TenantAssumption DEF HoldsOf, Answers
<1>4. Registry
    BY <1>1, <1>2, StartIsInOrder DEF Registry
<1> QED BY <1>1, <1>2, <1>3, <1>4, StartIsInOrder, IdleTyped DEF TenantInv, TypeOK

LEMMA RestartStep ==
    ASSUME TenantInv, Restart
    PROVE  TenantInv'
<1>1. rows \in [Paths -> Optional(Row)]
    BY DEF TenantInv, TypeOK
<1>2. /\ conn' = Started /\ named' = NamedBy(rows) /\ rows' = rows
      /\ req' = [r \in Requests |-> Idle]
    BY DEF Restart
<1>3. \A r \in Requests : (ShapeOf(req[r]) /\ HoldsOf(req[r]))'
    BY <1>1, <1>2, StartIsInOrder, TenantAssumption DEF HoldsOf, Answers, ShapeOf
<1>4. Registry'
    BY <1>1, <1>2, StartIsInOrder DEF Registry
<1> QED BY <1>1, <1>2, <1>3, <1>4, StartIsInOrder, IdleTyped DEF TenantInv, TypeOK

LEMMA RequestStep ==
    ASSUME TenantInv, NEW r \in Requests, Step(r) \/ Leave(r)
    PROVE  TenantInv'
<1>1. CASE Find(r)
    BY <1>1, FindStep
<1>2. CASE Reject(r)
    BY <1>2, FailStep DEF Reject
<1>3. CASE Pass(r)
    <2>1. Registry' /\ TypeOK /\ UNCHANGED <<rows, conn, named>>
        BY <1>3 DEF Pass, TenantInv, Registry
    <2>2. req[r].pc = "enter" /\ Goto(r, "resolve")
        BY <1>3 DEF Pass, At
    <2> QED BY <2>1, <2>2, UnchangedGrows, GotoStep DEF TypeOK
<1>4. CASE Open(r)
    BY <1>4, OpenStep
<1>5. CASE Opened(r)
    <2>1. Registry' /\ TypeOK /\ UNCHANGED <<rows, conn, named>>
        BY <1>5 DEF Opened, TenantInv, Registry
    <2>2. req[r].pc = "opening" /\ (Goto(r, "resolve") \/ Fail(r, "error"))
        BY <1>5 DEF Opened, Outcome, At
    <2>3. CASE Goto(r, "resolve")
        BY <2>1, <2>2, <2>3, UnchangedGrows, GotoStep DEF TypeOK
    <2>4. CASE Fail(r, "error")
        BY <2>1, <2>4, FailStep
    <2> QED BY <2>2, <2>3, <2>4
<1>6. CASE Resolve(r)
    BY <1>6, ResolveStep
<1>7. CASE Bind(r)
    BY <1>7, BindStep
<1>8. CASE BindFails(r)
    BY <1>8, FailStep DEF BindFails
<1>9. CASE Work(r)
    BY <1>9, WorkStep
<1>10. CASE QueryFails(r)
    BY <1>10, FailStep DEF QueryFails
<1>11. CASE Leave(r)
    BY <1>11, LeaveStep
<1> QED BY <1>1, <1>2, <1>3, <1>4, <1>5, <1>6, <1>7, <1>8, <1>9, <1>10, <1>11 DEF Step

LEMMA InvStep ==
    ASSUME TenantInv, [Next]_vars
    PROVE  TenantInv'
<1>1. ASSUME NEW r \in Requests, Step(r) \/ Leave(r)
      PROVE  TenantInv'
    BY <1>1, RequestStep
<1>2. ASSUME NEW r \in Requests, NEW kind \in Kinds, NEW path \in Paths,
             Arrive(r, kind, path)
      PROVE  TenantInv'
    BY <1>2, ArriveStep
<1>3. ASSUME NEW p \in Paths, Connect(p)
      PROVE  TenantInv'
    BY <1>3, ConnectStep
<1>4. ASSUME NEW e \in Edits, Edit(e[1], e[2])
      PROVE  TenantInv'
    <2>1. e[1] \in Paths /\ e[2] \in Optional(Row)
        BY TenantAssumption
    <2> QED BY <1>4, <2>1, EditStep
<1>5. CASE Restart
    BY <1>5, RestartStep
<1>6. CASE UNCHANGED vars
    BY <1>6 DEF vars, TenantInv, TypeOK, Registry, ShapeOf, HoldsOf
<1> QED BY <1>1, <1>2, <1>3, <1>4, <1>5, <1>6 DEF Next

LEMMA Inductive == Spec => []TenantInv
<1>1. Init => TenantInv
    BY InvInit
<1>2. TenantInv /\ [Next]_vars => TenantInv'
    BY InvStep
<1> QED BY <1>1, <1>2, PTL DEF Spec

\* The registry and the requests keep their types (TypeOK).
THEOREM TenantTypeCorrect == Spec => []TypeOK
<1>1. TenantInv => TypeOK
    BY DEF TenantInv
<1> QED BY <1>1, Inductive, PTL

\* Whoever is served works on a database of its own header (Isolation): the
\* names 'default' and the master's stand for the master database, any other
\* name is bound once, to a database that a row of its path named since the
\* server started.  Which row that was, the present one or one edited or
\* replaced since, the theorem leaves open.
THEOREM IsolationHolds == Spec => []Isolation
<1>1. ASSUME TenantInv, NEW r \in Requests, req[r].answer = "ok"
      PROVE  /\ req[r].database \in ServedFrom(req[r].path)
             /\ req[r].kind # "todo" => req[r].database = Master
    <2>1. ShapeOf(req[r]) /\ HoldsOf(req[r]) /\ Registry
        BY <1>1 DEF TenantInv
    <2>2. req[r].pc # "idle"
        BY <1>1, <2>1, TenantAssumption DEF ShapeOf, Idle, Answers
    <2>3. req[r].path \in Paths
        BY <1>1, <2>1, <2>2 DEF ShapeOf
    <2> QED BY <1>1, <2>1, <2>3, TenantAssumption DEF HoldsOf, Registry, NameFor, ServedFrom
<1>2. TenantInv => Isolation
    BY <1>1 DEF Isolation
<1> QED BY <1>2, Inductive, PTL

(***************************************************************************)
(* Tenant implements Tenancy.                                              *)
(***************************************************************************)

\* A request on its way waits; one that failed was refused.
LEMMA WaitingIsWaiting ==
    ASSUME NEW q, q.pc # "idle", q.answer = Undefined, q.path \in Paths
    PROVE  AskOf(q) = [state |-> "waiting", name |-> NameFor(q.path),
                       database |-> Undefined]
BY TenantAssumption DEF AskOf, Answers

LEMMA FailedIsRefused ==
    ASSUME NEW a \in {"badRequest", "error"}
    PROVE  AskOf([Idle EXCEPT !.pc = "done", !.answer = a]) =
              [state |-> "refused", name |-> Undefined, database |-> Undefined]
BY TenantAssumption DEF AskOf, Idle

LEMMA IdleIsNothing == AskOf(Idle) = Abstract!Nothing
BY TenantAssumption DEF AskOf, Idle, Abstract!Nothing, Answers

LEMMA BecomeAsks ==
    ASSUME TenantInv, NEW r \in Requests, NEW q, Become(r, q)
    PROVE  Asks' = [Asks EXCEPT ![r] = AskOf(q)]
<1>1. req \in [Requests -> Request]
    BY DEF TenantInv, TypeOK
<1>2. req' = [req EXCEPT ![r] = q]
    BY DEF Become
<1>3. Asks' = [s \in Requests |-> AskOf(req'[s])]
    BY DEF Asks
<1> QED BY <1>1, <1>2, <1>3 DEF Asks

LEMMA SameConnections ==
    ASSUME conn' = conn
    PROVE  Bindings' = Bindings
BY DEF Bindings

\* A request that goes on waits as before.
LEMMA GoesOn ==
    ASSUME TenantInv, NEW r \in Requests, req[r].pc \notin {"idle", "done"},
           NEW q, Become(r, q), q.pc # "idle", q.answer = Undefined,
           q.path = req[r].path
    PROVE  Asks' = Asks
<1>1. req[r].path \in Paths /\ req[r].answer = Undefined
    BY OnItsWay
<1>2. AskOf(q) = AskOf(req[r])
    BY <1>1, WaitingIsWaiting
<1>3. Asks' = [Asks EXCEPT ![r] = Asks[r]]
    BY <1>2, BecomeAsks DEF Asks
<1> QED BY <1>3 DEF Asks

\* A request that fails is refused.
LEMMA FailRefines ==
    ASSUME TenantInv, NEW r \in Requests, req[r].pc \notin {"idle", "done"},
           NEW a \in {"badRequest", "error"}, Fail(r, a), conn' = conn
    PROVE  Abstract!Refuse(r)
<1>1. Asks[r].state = "waiting"
    BY OnItsWay, WaitingIsWaiting DEF Asks
<1>2. Asks' = [Asks EXCEPT ![r] = [state |-> "refused", name |-> Undefined,
                                   database |-> Undefined]]
    BY BecomeAsks, FailedIsRefused DEF Fail
<1> QED BY <1>1, <1>2, SameConnections DEF Abstract!Refuse, Abstract!Nothing

LEMMA OpenRefines ==
    ASSUME TenantInv, NEW r \in Requests, Open(r)
    PROVE  \E p \in Paths, d \in Databases : Abstract!Bind(p, d)
<1> DEFINE path == req[r].path
           row == req[r].row
           q == [req[r] EXCEPT !.pc = "opening", !.row = Undefined]
<1>1. /\ req[r].pc = "enter" /\ Servable(row) /\ conn[path] = Undefined
      /\ conn' = [conn EXCEPT ![path] = [database |-> row, state |-> "connecting"]]
      /\ Become(r, q)
    BY DEF Open, At, Registered, Goto
<1>2. req[r] \in Request /\ path \in Paths /\ row \in Databases
    <2>1. req[r] \in Request /\ path \in Paths
        BY <1>1, OnItsWay
    <2>2. row \in Optional(Row)
        BY <2>1 DEF Request
    <2> QED BY <1>1, <2>1, <2>2, ServableIsDatabase
<1>3. q.pc # "idle" /\ q.answer = Undefined /\ q.path = req[r].path
    BY <1>1, <1>2, OnItsWay DEF Request
<1>4. Asks' = Asks
    BY <1>1, <1>3, GoesOn
<1>5. conn \in [Paths -> Optional(Connection)]
    BY DEF TenantInv, TypeOK
<1>6. [database |-> row, state |-> "connecting"] \in Connection
    BY <1>2 DEF Connection, Progress
<1> HIDE DEF path, row, q
<1>7. BoundTo([database |-> row, state |-> "connecting"]) = row
    BY <1>6, TenantAssumption DEF BoundTo
<1>8. Bindings[path] = Undefined
    BY <1>1, <1>2 DEF Bindings, BoundTo
<1>9. Bindings' = [Bindings EXCEPT ![path] = row]
    <2>1. conn'[path] = [database |-> row, state |-> "connecting"]
        BY <1>1, <1>2, <1>5
    <2>2. \A p \in Paths \ {path} : conn'[p] = conn[p]
        BY <1>1, <1>5
    <2>3. Bindings' = [p \in Paths |-> BoundTo(conn'[p])]
        BY DEF Bindings
    <2> QED BY <1>7, <2>1, <2>2, <2>3 DEF Bindings
<1> QED BY <1>2, <1>4, <1>8, <1>9 DEF Abstract!Bind

LEMMA WorkRefines ==
    ASSUME TenantInv, NEW r \in Requests, Work(r)
    PROVE  Abstract!Serve(r)
<1> DEFINE q == [req[r] EXCEPT !.pc = "done", !.answer = "ok"]
           name == NameFor(req[r].path)
<1>1. req[r].pc = "query" /\ Become(r, q) /\ conn' = conn
    BY DEF Work, At
<1>2. /\ req[r] \in Request /\ req[r].path \in Paths
      /\ req[r].answer = Undefined
    BY <1>1, OnItsWay
<1>3. AskOf(req[r]) = [state |-> "waiting", name |-> name, database |-> Undefined]
    BY <1>1, <1>2, WaitingIsWaiting
<1>4. AskOf(q) = [state |-> "served", name |-> name, database |-> req[r].database]
    BY <1>2, TenantAssumption DEF AskOf, Request
<1>5. name \in Paths
    BY <1>2, NameIsAName
<1>6. conn[name] # Undefined /\ req[r].database = conn[name].database
    BY <1>1 DEF TenantInv, HoldsOf
<1>7. Bindings[name] = req[r].database /\ Bindings[name] # Undefined
    <2>1. conn[name] \in Connection
        BY <1>5, <1>6 DEF TenantInv, TypeOK, Optional
    <2>2. conn[name].database \in Databases
        BY <2>1 DEF Connection
    <2> QED BY <1>5, <1>6, <2>2, TenantAssumption DEF Bindings, BoundTo, Row
<1>8. Asks' = [Asks EXCEPT ![r] = AskOf(q)]
    BY <1>1, BecomeAsks
<1> HIDE DEF q, name
<1>9. Asks[r] = [state |-> "waiting", name |-> name, database |-> Undefined]
    BY <1>3 DEF Asks
<1>10. [state |-> "served", name |-> Asks[r].name,
        database |-> Bindings[Asks[r].name]] = AskOf(q)
    BY <1>4, <1>7, <1>9
<1>11. Asks[r].state = "waiting" /\ Bindings[Asks[r].name] # Undefined
    BY <1>7, <1>9
<1>12. UNCHANGED Bindings
    BY <1>1, SameConnections
<1> QED BY <1>8, <1>10, <1>11, <1>12 DEF Abstract!Serve

LEMMA ArriveRefines ==
    ASSUME TenantInv, NEW r \in Requests, NEW kind \in Kinds, NEW path \in Paths,
           Arrive(r, kind, path)
    PROVE  Abstract!Arrive(r, NameFor(path))
<1> DEFINE q == [Idle EXCEPT !.pc = IF kind = "admin" THEN "resolve" ELSE "find",
                             !.kind = kind, !.path = path]
<1>1. req[r] = Idle /\ Become(r, q) /\ conn' = conn
    BY DEF Arrive, At, TenantInv, ShapeOf
<1>2. q.pc # "idle" /\ q.answer = Undefined /\ q.path = path
    BY DEF Idle
<1>3. AskOf(q) = [state |-> "waiting", name |-> NameFor(path), database |-> Undefined]
    BY <1>2, WaitingIsWaiting
<1>4. Asks[r].state = "none"
    BY <1>1, IdleIsNothing DEF Asks, Abstract!Nothing
<1>5. Asks' = [Asks EXCEPT ![r] = AskOf(q)]
    BY <1>1, BecomeAsks
<1> QED BY <1>1, <1>3, <1>4, <1>5, SameConnections DEF Abstract!Arrive

LEMMA LeaveRefines ==
    ASSUME TenantInv, NEW r \in Requests, Leave(r)
    PROVE  Abstract!Leave(r)
<1>1. req[r].pc = "done" /\ Become(r, Idle) /\ conn' = conn
    BY DEF Leave, At
<1>2. Asks' = [Asks EXCEPT ![r] = Abstract!Nothing]
    BY <1>1, BecomeAsks, IdleIsNothing
<1>3. Asks[r].state \in {"served", "refused"}
    <2>1. ShapeOf(req[r]) /\ req[r] \in Request
        BY DEF TenantInv, TypeOK
    <2>2. req[r].answer \in Answers
        BY <1>1, <2>1 DEF ShapeOf, Request, Optional
    <2>3. AskOf(req[r]).state \in {"served", "refused"}
        BY <1>1, <2>2 DEF AskOf, Answers
    <2> QED BY <2>3 DEF Asks
<1> QED BY <1>1, <1>2, <1>3, SameConnections DEF Abstract!Leave

LEMMA ConnectRefines ==
    ASSUME TenantInv, NEW p \in Paths, Connect(p)
    PROVE  UNCHANGED <<Bindings, Asks>>
<1>1. PICK from \in {"connecting", "synchronizing"}, to \in Progress : Reach(p, from, to)
    BY DEF Connect, Progress
<1>2. /\ conn[p] # Undefined
      /\ conn' = [conn EXCEPT ![p].state = to]
      /\ req' = req
    BY <1>1 DEF Reach
<1>3. conn \in [Paths -> Optional(Connection)]
    BY DEF TenantInv, TypeOK
<1>4. conn[p] \in Connection
    BY <1>2, <1>3 DEF Optional
<1>5. [conn[p] EXCEPT !.state = to] \in Connection
    BY <1>4 DEF Connection
<1>6. BoundTo(conn'[p]) = BoundTo(conn[p])
    BY <1>2, <1>3, <1>4, <1>5, TenantAssumption DEF BoundTo, Connection
<1>7. \A x \in Paths \ {p} : conn'[x] = conn[x]
    BY <1>2, <1>3
<1>8. \A x \in Paths : BoundTo(conn'[x]) = BoundTo(conn[x])
    BY <1>6, <1>7
<1>9. Bindings' = [x \in Paths |-> BoundTo(conn'[x])]
    BY DEF Bindings
<1> QED BY <1>2, <1>8, <1>9 DEF Bindings, Asks

\* What Tenancy sees of a server that starts.
LEMMA StartMaps ==
    /\ [p \in Paths |-> BoundTo(Started[p])] = MasterOnly
    /\ AskOf(Idle) = Abstract!Nothing
<1>1. \A p \in Paths : BoundTo(Started[p]) = IF p = Default THEN Master ELSE Undefined
    <2>1. [database |-> Master, state |-> "ready"] # Undefined
        BY RecordsTyped, TenantAssumption DEF Progress
    <2> QED BY <2>1 DEF BoundTo, Started
<1> QED BY <1>1, IdleIsNothing DEF MasterOnly

LEMMA RefinesInit ==
    ASSUME Init
    PROVE  Abstract!Init
BY StartMaps DEF Init, Abstract!Init, Bindings, Asks

LEMMA RestartRefines ==
    ASSUME Restart
    PROVE  Abstract!Restart
<1>1. Bindings' = [p \in Paths |-> BoundTo(conn'[p])]
    BY DEF Bindings
<1>2. Asks' = [r \in Requests |-> AskOf(req'[r])]
    BY DEF Asks
<1> QED BY <1>1, <1>2, StartMaps DEF Restart, Abstract!Restart

\* Every step of a request is one of Tenancy's or a stutter.
LEMMA StepRefines ==
    ASSUME TenantInv, NEW r \in Requests, Step(r)
    PROVE  \/ Abstract!Serve(r)
           \/ Abstract!Refuse(r)
           \/ \E p \in Paths, d \in Databases : Abstract!Bind(p, d)
           \/ UNCHANGED <<Bindings, Asks>>
<1>1. req[r] \in Request /\ ShapeOf(req[r])
    BY DEF TenantInv, TypeOK
<1>2. ASSUME req[r].pc \notin {"idle", "done"}, conn' = conn,
             NEW step \in {"opening", "resolve"}, Goto(r, step)
      PROVE  UNCHANGED <<Bindings, Asks>>
    <2> DEFINE q == [req[r] EXCEPT !.pc = step, !.row = Undefined]
    <2>1. /\ Become(r, q) /\ q.pc # "idle"
          /\ q.answer = Undefined /\ q.path = req[r].path
        BY <1>1, <1>2, OnItsWay DEF Goto, Request
    <2> HIDE DEF q
    <2> QED BY <1>2, <2>1, GoesOn, SameConnections
<1>3. CASE Find(r)
    <2> DEFINE q == [req[r] EXCEPT !.pc = "enter", !.row = rows[req[r].path]]
    <2>1. /\ req[r].pc = "find" /\ conn' = conn
          /\ Become(r, q) /\ q.pc # "idle"
        BY <1>1, <1>3 DEF Find, At, Request
    <2>2. q.answer = Undefined /\ q.path = req[r].path
        BY <1>1, <2>1, OnItsWay DEF Request
    <2> HIDE DEF q
    <2> QED BY <2>1, <2>2, GoesOn, SameConnections
<1>4. CASE Reject(r)
    BY <1>4, FailRefines DEF Reject, At
<1>5. CASE Pass(r)
    BY <1>2, <1>5 DEF Pass, At
<1>6. CASE Open(r)
    BY <1>6, OpenRefines
<1>7. CASE Opened(r)
    BY <1>2, <1>7, FailRefines DEF Opened, Outcome, At
<1>8. CASE Resolve(r)
    <2> DEFINE row == IF req[r].path = MasterPath THEN NoDatabase
                      ELSE rows[req[r].path]
               q == [req[r] EXCEPT !.pc = "bind", !.row = row]
    <2>1. /\ req[r].pc = "resolve" /\ conn' = conn
          /\ Become(r, q) /\ q.pc # "idle"
        BY <1>1, <1>8 DEF Resolve, At, Request
    <2>2. q.answer = Undefined /\ q.path = req[r].path
        BY <1>1, <2>1, OnItsWay DEF Request
    <2> HIDE DEF q
    <2> QED BY <2>1, <2>2, GoesOn, SameConnections
<1>9. CASE Bind(r)
    <2> DEFINE q == [req[r] EXCEPT !.pc = "query", !.row = Undefined,
                         !.database = conn[NameFor(req[r].path)].database]
    <2>1. /\ req[r].pc = "bind" /\ conn' = conn
          /\ Become(r, q) /\ q.pc # "idle"
        BY <1>1, <1>9 DEF Bind, At, Request
    <2>2. q.answer = Undefined /\ q.path = req[r].path
        BY <1>1, <2>1, OnItsWay DEF Request
    <2> HIDE DEF q
    <2> QED BY <2>1, <2>2, GoesOn, SameConnections
<1>10. CASE BindFails(r)
    BY <1>10, FailRefines DEF BindFails, At
<1>11. CASE Work(r)
    BY <1>11, WorkRefines
<1>12. CASE QueryFails(r)
    BY <1>12, FailRefines DEF QueryFails
<1> QED BY <1>3, <1>4, <1>5, <1>6, <1>7, <1>8, <1>9, <1>10, <1>11, <1>12 DEF Step

LEMMA NextRefines ==
    ASSUME TenantInv, [Next]_vars
    PROVE  [Abstract!Next]_(Abstract!vars)
<1>1. ASSUME NEW r \in Requests, Step(r)
      PROVE  [Abstract!Next]_(Abstract!vars)
    BY <1>1, StepRefines DEF Abstract!Next, Abstract!vars
<1>2. ASSUME NEW r \in Requests, Leave(r)
      PROVE  Abstract!Next
    BY <1>2, LeaveRefines DEF Abstract!Next
<1>3. ASSUME NEW r \in Requests, NEW kind \in Kinds, NEW path \in Paths,
             Arrive(r, kind, path)
      PROVE  Abstract!Next
    BY <1>3, ArriveRefines, NameIsAName DEF Abstract!Next
<1>4. ASSUME NEW p \in Paths, Connect(p)
      PROVE  UNCHANGED Abstract!vars
    BY <1>4, ConnectRefines DEF Abstract!vars
<1>5. ASSUME NEW e \in Edits, Edit(e[1], e[2])
      PROVE  UNCHANGED Abstract!vars
    BY <1>5 DEF Edit, Abstract!vars, Bindings, Asks
<1>6. CASE Restart
    BY <1>6, RestartRefines DEF Abstract!Next
<1>7. CASE UNCHANGED vars
    BY <1>7 DEF vars, Abstract!vars, Bindings, Asks
<1> QED BY <1>1, <1>2, <1>3, <1>4, <1>5, <1>6, <1>7 DEF Next

\* Tenant implements Tenancy (OneDatabasePerName): a name is given its database
\* once, and a request is refused or served by the database of its name.
THEOREM TenantImplementsTenancy == Spec => OneDatabasePerName
<1>1. Init => Abstract!Init
    BY RefinesInit
<1>2. TenantInv /\ [Next]_vars => [Abstract!Next]_(Abstract!vars)
    BY NextRefines
<1> QED BY <1>1, <1>2, Inductive, PTL DEF Spec, OneDatabasePerName, Abstract!Spec
=============================================================================
