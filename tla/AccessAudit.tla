---------------------------- MODULE AccessAudit ----------------------------
(***************************************************************************)
(* AccessControl with a history of what every user ever was: which flags   *)
(* it had, which groups it belonged to by name, and which permissions a    *)
(* group of a name ever carried.  The history only observes.               *)
(***************************************************************************)
EXTENDS AccessControl

VARIABLES
    flagged,    \* flagged[u]: the flags that user u ever had
    member,     \* member[u]: the names of the groups that u ever belonged to
    carried     \* carried[n]: the permissions that a group named n ever had

auditVars == <<users, groups, token, req, flagged, member, carried>>

Flagged(u) == IF users[u] = Undefined THEN {} ELSE users[u].flags

Member(u) == IF users[u] = Undefined THEN {} ELSE NamesOf(users[u])

Carried(n) == UNION {groups[g].permissions : g \in GroupsNamed(n)}

AuditInit ==
    /\ Init
    /\ flagged = [u \in Ids |-> Flagged(u)]
    /\ member = [u \in Ids |-> Member(u)]
    /\ carried = [n \in Names |-> Carried(n)]

\* The history after a step.
Observe ==
    /\ flagged' = [u \in Ids |-> flagged[u] \cup Flagged(u)']
    /\ member' = [u \in Ids |-> member[u] \cup Member(u)']
    /\ carried' = [n \in Names |-> carried[n] \cup Carried(n)']

AuditNext == Next /\ Observe

AuditSpec == AuditInit /\ [][AuditNext]_auditVars

AuditTypeOK ==
    /\ TypeOK
    /\ flagged \in [Ids -> SUBSET Roles]
    /\ member \in [Ids -> SUBSET Names]
    /\ carried \in [Names -> SUBSET Permissions]

\* User u once had a flag that handler e asks for, or once belonged to a group
\* of a name that once carried a permission e asks for.
OnceEntitled(u, e) ==
    /\ u # Undefined
    /\ \/ flagged[u] \cap RolesOf[e] # {}
       \/ \E n \in member[u] : carried[n] \cap PermissionsOf[e] # {}

Admitted(r) ==
    At(r, "handler") =>
        LET e == req[r].endpoint IN
        \/ RolesOf[e] = {} /\ PermissionsOf[e] = {}
        \/ OnceEntitled(req[r].caller, e)

\* Whoever is in a handler was entitled to it in some way, unless the handler
\* asks for nothing.  The membership and the permission need not have been
\* there at the same time: a token names a group, and what groups of that name
\* allow is decided later.
AdmittedWasEntitled == \A r \in Requests : Admitted(r)

\* What makes that inductive: the history covers the present, and the claims
\* of every token, and of every request on its way, are of the history.
Backed(u, claims) == claims.flags \subseteq flagged[u] /\ claims.names \subseteq member[u]

HistoryCoversNow ==
    /\ \A u \in Ids : Flagged(u) \subseteq flagged[u] /\ Member(u) \subseteq member[u]
    /\ \A n \in Names : Carried(n) \subseteq carried[n]

TokensBacked == \A u \in Ids : token[u] # Undefined => Backed(u, token[u].claims)

RequestBacked(r) ==
    /\ req[r].claims # Undefined => Backed(req[r].caller, req[r].claims)
    /\ req[r].found # Undefined => Backed(req[r].found.id, req[r].found.claims)

AuditInv ==
    /\ HistoryCoversNow
    /\ TokensBacked
    /\ \A r \in Requests : RequestBacked(r) /\ Admitted(r)
=============================================================================
