------------------------------ MODULE Tenancy ------------------------------
(***************************************************************************)
(* What the tenant module promises, whatever its requests and connections  *)
(* do in between: while a server runs, a connection name stands for one    *)
(* database, chosen once; a request is refused, or it is served by the     *)
(* database that the name it uses stands for.                              *)
(***************************************************************************)
CONSTANTS
    Requests,     \* the requests a server works on at a time
    Names,        \* the names of connections
    Databases,
    Standing,     \* what the names stand for when a server starts
    Undefined

VARIABLES
    bound,        \* bound[n]: the database of name n, or Undefined
    ask           \* ask[r]: what has become of request r

vars == <<bound, ask>>

Nothing == [state |-> "none", name |-> Undefined, database |-> Undefined]

Init ==
    /\ bound = Standing
    /\ ask = [r \in Requests |-> Nothing]

Arrive(r, n) ==
    /\ ask[r].state = "none"
    /\ ask' = [ask EXCEPT ![r] = [state |-> "waiting", name |-> n,
                                  database |-> Undefined]]
    /\ UNCHANGED bound

\* A name is given its database, once.
Bind(n, d) ==
    /\ bound[n] = Undefined
    /\ bound' = [bound EXCEPT ![n] = d]
    /\ UNCHANGED ask

Serve(r) ==
    /\ ask[r].state = "waiting"
    /\ bound[ask[r].name] # Undefined
    /\ ask' = [ask EXCEPT ![r] = [state |-> "served", name |-> ask[r].name,
                                  database |-> bound[ask[r].name]]]
    /\ UNCHANGED bound

Refuse(r) ==
    /\ ask[r].state = "waiting"
    /\ ask' = [ask EXCEPT ![r] = [Nothing EXCEPT !.state = "refused"]]
    /\ UNCHANGED bound

Leave(r) ==
    /\ ask[r].state \in {"served", "refused"}
    /\ ask' = [ask EXCEPT ![r] = Nothing]
    /\ UNCHANGED bound

\* A server that stops forgets the names and the requests.
Restart ==
    /\ bound' = Standing
    /\ ask' = [r \in Requests |-> Nothing]

Next ==
    \/ \E r \in Requests : Serve(r) \/ Refuse(r) \/ Leave(r)
    \/ \E r \in Requests, n \in Names : Arrive(r, n)
    \/ \E n \in Names, d \in Databases : Bind(n, d)
    \/ Restart

Spec == Init /\ [][Next]_vars
=============================================================================
