------------------------------- MODULE Tenant -------------------------------
(***************************************************************************)
(* TenantModule: every request names its tenant in a header, and works on  *)
(* the connection of that tenant.  The middleware looks the tenant up and, *)
(* for the first request of a tenant, opens its connection; the factory of *)
(* TENANT_CONNECTION, further down the same request, looks the tenant up   *)
(* once more and takes the connection from TypeORM's registry by name.     *)
(* Every await is a step boundary: requests of one tenant run side by side *)
(* while its connection is being opened, fails to open, or is there, and   *)
(* administrators edit the tenants meanwhile.                              *)
(*                                                                         *)
(* The registry never loses an entry while the server runs: createConnec-  *)
(* tion() adds one before it connects, and leaves it there if that fails.  *)
(* Definitions marked "Fault" are bugs the code does not have; no action   *)
(* uses them.                                                              *)
(***************************************************************************)
CONSTANTS
    Requests,     \* the requests a server works on at a time
    Paths,        \* the values of the header, and the names of connections
    MasterPath,   \* MASTER_TNID
    Default,      \* the name of the connection to the master database
    Databases,
    Master,       \* the master database
    SeedRows,     \* the tenant table at the start
    Edits,        \* the rows that administrators write
    NoDatabase,   \* a tenant without a database
    Undefined     \* no row, no connection

Optional(S) == {Undefined} \cup S

Row == {NoDatabase} \cup Databases

\* "todo" works on the entities that every connection has, the other two on
\* those of the master database; the middleware is not for "admin".
Kinds == {"todo", "account", "admin"}

Steps == {"idle", "find", "enter", "opening", "resolve", "bind", "query", "done"}

\* 200, 400 and 500.
Answers == {"ok", "badRequest", "error"}

\* The life of a connection: driver.connect(), then the schema is brought up
\* to date; either may fail, and only the second leaves the metadata built.
Progress == {"connecting", "synchronizing", "ready", "unreachable", "closed"}

Connection == [database: Databases, state: Progress]

ASSUME TenantAssumption ==
    /\ {MasterPath, Default} \subseteq Paths
    /\ MasterPath # Default
    /\ Master \in Databases
    /\ NoDatabase \notin Databases
    /\ SeedRows \in [Paths -> Optional(Row)]
    /\ Edits \subseteq Paths \X Optional(Row)
    /\ Undefined \notin Paths \cup Row \cup Connection \cup Kinds \cup Answers

VARIABLES
    rows,     \* rows[p]: what the tenant of path p has, or Undefined
    conn,     \* conn[p]: the registry's entry of that name, or Undefined
    req,      \* req[r]: the state of request r
    named     \* observation: the databases a path had while this server ran

vars == <<rows, conn, req, named>>

Request ==
    [pc: Steps, kind: Optional(Kinds), path: Optional(Paths),
     row: Optional(Row),              \* the tenant found last
     database: Optional(Databases),   \* the database of its repository
     answer: Optional(Answers)]

Idle == [pc |-> "idle", kind |-> Undefined, path |-> Undefined,
         row |-> Undefined, database |-> Undefined, answer |-> Undefined]

\* bootstrap: TypeOrmModule has opened the default connection.
Started == [p \in Paths |->
              IF p = Default THEN [database |-> Master, state |-> "ready"]
              ELSE Undefined]

NamedBy(table) == [p \in Paths |-> {table[p]} \cap Databases]

Init ==
    /\ rows = SeedRows
    /\ conn = Started
    /\ req = [r \in Requests |-> Idle]
    /\ named = NamedBy(SeedRows)

At(r, step) == req[r].pc = step

Become(r, state) == req' = [req EXCEPT ![r] = state]

Goto(r, step) == Become(r, [req[r] EXCEPT !.pc = step, !.row = Undefined])

\* A request that fails; what it had in memory dies with it.
Fail(r, a) == Become(r, [Idle EXCEPT !.pc = "done", !.answer = a])

\* Fault: the factory asks for no name.
NameOmitted(path) == Default

\* The name under which the factory asks for a connection.
NameFor(path) == IF path = MasterPath THEN Default ELSE path

-----------------------------------------------------------------------------
(***************************************************************************)
(* The middleware.                                                         *)
(***************************************************************************)

Arrive(r, kind, path) ==
    /\ At(r, "idle")
    /\ Become(r, [Idle EXCEPT !.pc = IF kind = "admin" THEN "resolve" ELSE "find",
                              !.kind = kind, !.path = path])
    /\ UNCHANGED <<rows, conn, named>>

\* The middleware's findOne().
Find(r) ==
    /\ At(r, "find")
    /\ Become(r, [req[r] EXCEPT !.pc = "enter", !.row = rows[req[r].path]])
    /\ UNCHANGED <<rows, conn, named>>

\* Fault: only a connection that is ready counts as registered.
RegisteredReady(path) == conn[path] # Undefined /\ conn[path].state = "ready"

\* getConnection() finds whatever was created under the name.
Registered(path) == conn[path] # Undefined

\* Fault: a tenant without a database is not refused.
ServableIfFound(row) == row # Undefined

\* The two checks after findOne(): there is a tenant, and it has a database.
Servable(row) == row \notin {Undefined, NoDatabase}

Reject(r) ==
    /\ At(r, "enter")
    /\ ~Servable(req[r].row)
    /\ Fail(r, "badRequest")
    /\ UNCHANGED <<rows, conn, named>>

Pass(r) ==
    /\ At(r, "enter")
    /\ Servable(req[r].row)
    /\ Registered(req[r].path)
    /\ Goto(r, "resolve")
    /\ UNCHANGED <<rows, conn, named>>

\* createConnection() registers the connection at once, under the database
\* that was found, and awaits its connect().
Open(r) ==
    /\ At(r, "enter")
    /\ Servable(req[r].row)
    /\ ~Registered(req[r].path)
    /\ conn' = [conn EXCEPT ![req[r].path] =
                  [database |-> req[r].row, state |-> "connecting"]]
    /\ Goto(r, "opening")
    /\ UNCHANGED <<rows, named>>

\* Fault: the rejection of createConnection() is caught and forgotten.
OpenedWell(r) ==
    /\ conn[req[r].path].state = "ready"
    /\ Goto(r, "resolve")

\* createConnection() resolves, or rejects and the request with it: the 400
\* that the code has for a connection that is not there is out of reach.
Outcome(r) ==
    LET state == conn[req[r].path].state IN
    \/ state = "ready" /\ Goto(r, "resolve")
    \/ state \in {"unreachable", "closed"} /\ Fail(r, "error")

Opened(r) ==
    /\ At(r, "opening")
    /\ Outcome(r)
    /\ UNCHANGED <<rows, conn, named>>

-----------------------------------------------------------------------------
(***************************************************************************)
(* The factory of TENANT_CONNECTION and the handler.                       *)
(***************************************************************************)

\* The factory's findOne(), which the master's requests do without.
Resolve(r) ==
    /\ At(r, "resolve")
    /\ Become(r, [req[r] EXCEPT
                    !.pc = "bind",
                    !.row = IF req[r].path = MasterPath THEN NoDatabase
                            ELSE rows[req[r].path]])
    /\ UNCHANGED <<rows, conn, named>>

\* The entities that tenants' connections are opened with.
HasEntity(name, kind) == kind = "todo" \/ name = Default

\* getConnection(name) and getRepository(): the name is registered, and the
\* metadata of the entity are there.
HasRepository(name, kind) ==
    /\ conn[name] # Undefined
    /\ conn[name].state \in {"synchronizing", "ready", "closed"}
    /\ HasEntity(name, kind)

\* The service's constructor takes the repository of the tenant's connection.
Bind(r) ==
    /\ At(r, "bind")
    /\ req[r].row # Undefined
    /\ LET name == NameFor(req[r].path) IN
       /\ HasRepository(name, req[r].kind)
       /\ Become(r, [req[r] EXCEPT !.pc = "query", !.row = Undefined,
                                   !.database = conn[name].database])
    /\ UNCHANGED <<rows, conn, named>>

\* A tenant that is gone (tenant.path), a name that is not registered, a
\* repository that is not there: an exception each.
BindFails(r) ==
    /\ At(r, "bind")
    /\ \/ req[r].row = Undefined
       \/ ~HasRepository(NameFor(req[r].path), req[r].kind)
    /\ Fail(r, "error")
    /\ UNCHANGED <<rows, conn, named>>

\* The handler's query.
Work(r) ==
    /\ At(r, "query")
    /\ conn[NameFor(req[r].path)].state \in {"synchronizing", "ready"}
    /\ Become(r, [req[r] EXCEPT !.pc = "done", !.answer = "ok"])
    /\ UNCHANGED <<rows, conn, named>>

\* A query fails, as each does on a connection that is closed.
QueryFails(r) ==
    /\ req[r].pc \in {"find", "resolve", "query"}
    /\ Fail(r, "error")
    /\ UNCHANGED <<rows, conn, named>>

Leave(r) ==
    /\ At(r, "done")
    /\ Become(r, Idle)
    /\ UNCHANGED <<rows, conn, named>>

Step(r) ==
    \/ Find(r) \/ Reject(r) \/ Pass(r) \/ Open(r) \/ Opened(r)
    \/ Resolve(r) \/ Bind(r) \/ BindFails(r) \/ Work(r) \/ QueryFails(r)

-----------------------------------------------------------------------------
(***************************************************************************)
(* Connections, administrators, the process.                               *)
(***************************************************************************)

Reach(p, from, to) ==
    /\ conn[p] # Undefined
    /\ conn[p].state = from
    /\ conn' = [conn EXCEPT ![p].state = to]
    /\ UNCHANGED <<rows, req, named>>

\* Connection.connect().
Connect(p) ==
    \/ Reach(p, "connecting", "synchronizing")
    \/ Reach(p, "connecting", "unreachable")
    \/ Reach(p, "synchronizing", "ready")
    \/ Reach(p, "synchronizing", "closed")

\* /admin/tenant and /admin/database: a row is created, edited or deleted.
Edit(p, row) ==
    /\ rows[p] # row
    /\ rows' = [rows EXCEPT ![p] = row]
    /\ named' = [named EXCEPT ![p] = @ \cup ({row} \cap Databases)]
    /\ UNCHANGED <<conn, req>>

\* The process stops and starts again.
Restart ==
    /\ conn' = Started
    /\ req' = [r \in Requests |-> Idle]
    /\ named' = NamedBy(rows)
    /\ UNCHANGED rows

Next ==
    \/ \E r \in Requests : Step(r) \/ Leave(r)
    \/ \E r \in Requests, kind \in Kinds, path \in Paths : Arrive(r, kind, path)
    \/ \E p \in Paths : Connect(p)
    \/ \E e \in Edits : Edit(e[1], e[2])
    \/ Restart

Spec == Init /\ [][Next]_vars

\* A query is answered or fails; connect() resolves or rejects.
Fairness ==
    /\ \A r \in Requests : WF_vars(Step(r))
    /\ \A p \in Paths : WF_vars(Connect(p))

FairSpec == Spec /\ Fairness
-----------------------------------------------------------------------------
(***************************************************************************)
(* Properties.                                                             *)
(***************************************************************************)

\* The table, the registry and the requests are what they are declared to be.
TypeOK ==
    /\ rows \in [Paths -> Optional(Row)]
    /\ conn \in [Paths -> Optional(Connection)]
    /\ req \in [Requests -> Request]
    /\ named \in [Paths -> SUBSET Databases]

\* The databases that a request with this header may be served from.  A tenant
\* whose path is the name of the default connection is served from the master
\* database, whatever its row names; any other from a database that a row of
\* its path named at some time since the server started, be the row edited, or
\* gone and its path taken over, meanwhile.
ServedFrom(path) == IF path \in {MasterPath, Default} THEN {Master} ELSE named[path]

\* A request that was served worked on one of the databases of its own header,
\* and never on one that only rows of other paths named; what concerns users
\* and tenants was done in the master database, whatever the header said.
Isolation ==
    \A r \in Requests : req[r].answer = "ok" =>
        /\ req[r].database \in ServedFrom(req[r].path)
        /\ req[r].kind # "todo" => req[r].database = Master

\* Every request is answered in the end, by a connection that opened in time
\* or not: nobody waits for ever on a connection that somebody else opens.
Answered ==
    \A r \in Requests : req[r].pc \notin {"idle", "done"} ~> req[r].pc \in {"idle", "done"}

\* The registry's names, and the requests, as Tenancy sees them.
BoundTo(c) == IF c = Undefined THEN Undefined ELSE c.database

AskOf(q) ==
    [state |-> CASE q.pc = "idle" -> "none"
                 [] q.answer = "ok" -> "served"
                 [] q.answer \in {"badRequest", "error"} -> "refused"
                 [] OTHER -> "waiting",
     name |-> IF q.path = Undefined THEN Undefined ELSE NameFor(q.path),
     database |-> IF q.answer = "ok" THEN q.database ELSE Undefined]

Bindings == [p \in Paths |-> BoundTo(conn[p])]

Asks == [r \in Requests |-> AskOf(req[r])]

MasterOnly == [p \in Paths |-> IF p = Default THEN Master ELSE Undefined]

Abstract == INSTANCE Tenancy WITH
    Names <- Paths, Standing <- MasterOnly, bound <- Bindings, ask <- Asks

\* Concurrent first requests, failing connects and edited rows never make a
\* second connection of a name, and never serve a request from another one.
OneDatabasePerName == Abstract!Spec
=============================================================================
