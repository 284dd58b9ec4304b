---------------------------- MODULE AccessProofs ----------------------------
(***************************************************************************)
(* Proofs about AccessAudit, for every value of the constants that         *)
(* AccessAssumption admits: types, and that whoever is in a handler was    *)
(* entitled to it.                                                         *)
(***************************************************************************)
EXTENDS AccessAudit, TLAPS

(***************************************************************************)
(* Types.                                                                  *)
(***************************************************************************)

\* The two functions that make claims make them of known flags and names.
LEMMA ClaimsAreClaims ==
    ASSUME TypeOK, NEW account \in Account
    PROVE  ClaimsOf(account) \in Claims
<1>1. \A g \in account.groups : g \in GroupIds
    BY DEF Account
<1>2. \A g \in GroupIds : groups[g] # Undefined => groups[g].name \in Names
    BY DEF TypeOK, Optional, Group
<1>3. NamesOf(account) \in SUBSET Names
    BY <1>1, <1>2 DEF NamesOf
<1>4. account.flags \in SUBSET Roles
    BY DEF Account
<1> QED BY <1>3, <1>4 DEF ClaimsOf, Claims

LEMMA ReadingsAreReadings ==
    ASSUME TypeOK, NEW u \in Ids, users[u] # Undefined
    PROVE  ReadingOf(u) \in Reading
<1>1. users[u] \in Account
    BY DEF TypeOK, Optional
<1> QED BY <1>1, ClaimsAreClaims DEF ReadingOf, Reading

\* A token that is signed is a token.
LEMMA SignedIsAToken ==
    ASSUME TypeOK, NEW u \in Ids, NEW claims \in Claims
    PROVE  Signed(u, claims) \in Token
<1>1. Issues \in Nat \ {0} /\ 0 \in 0..(Issues - 1)
    BY AccessAssumption
<1>2. token[u] # Undefined => token[u].serial \in 0..(Issues - 1)
    BY DEF TypeOK, Optional, Token
<1>3. token[u] # Undefined => (token[u].serial + 1) % Issues \in 0..(Issues - 1)
    <2> DEFINE n == token[u].serial + 1
    <2>1. SUFFICES ASSUME token[u] # Undefined PROVE n % Issues \in 0..(Issues - 1)
        OBVIOUS
    <2>2. n \in Nat
        BY <1>1, <1>2, <2>1
    <2> HIDE DEF n
    <2> QED BY <1>1, <2>2
<1>4. (IF token[u] = Undefined THEN 0 ELSE (token[u].serial + 1) % Issues) \in 0..(Issues - 1)
    BY <1>1, <1>3
<1> QED BY <1>4 DEF Signed, Token

RequestsTyped ==
    /\ req \in [Requests -> Request]
    /\ \A r \in Requests : Complete(req[r])

\* A request may always take a state that is declared and complete.
LEMMA BecomeTyped ==
    ASSUME TypeOK, NEW r \in Requests, NEW state \in Request, Complete(state),
           Become(r, state)
    PROVE  RequestsTyped'
<1>1. req' = [req EXCEPT ![r] = state]
    BY DEF Become
<1>2. \A q \in Requests : req'[q] = IF q = r THEN state ELSE req[q]
    BY <1>1 DEF TypeOK
<1>3. req' \in [Requests -> Request]
    BY <1>1 DEF TypeOK
<1>4. \A q \in Requests : Complete(req'[q])
    BY <1>2 DEF TypeOK
<1> QED BY <1>3, <1>4 DEF RequestsTyped

LEMMA IdleTyped == Idle \in Request /\ Complete(Idle)
BY DEF Idle, Request, Optional, Steps, Complete

LEMMA AnswerTyped ==
    ASSUME TypeOK, NEW r \in Requests, Become(r, Idle)
    PROVE  RequestsTyped'
BY IdleTyped, BecomeTyped

\* The guard's decision leaves a request in a state of the declared type.
LEMMA DecideTyped ==
    ASSUME TypeOK, NEW r \in Requests, NEW u \in Optional(Ids),
           NEW e \in Optional(Endpoints), NEW user, Decide(r, u, e, user)
    PROVE  RequestsTyped'
<1> DEFINE what == IF HasRole(e, user) THEN "role"
                   ELSE IF HasPermission(e, user) THEN "permission" ELSE "open"
           passed == [Idle EXCEPT !.pc = "handler", !.caller = u,
                                  !.endpoint = e, !.grounds = what]
<1>1. what \in Grounds
    BY DEF Grounds
<1> HIDE DEF what
<1>2. passed \in Request /\ Complete(passed)
    BY <1>1, IdleTyped DEF Request, Optional, Steps, Idle, Complete
<1>3. Become(r, passed) \/ Become(r, Idle)
    BY DEF Decide, what
<1> HIDE DEF passed
<1> QED BY <1>2, <1>3, AnswerTyped, BecomeTyped

\* What is signed leaves a token, and ends the request.
LEMMA CreateTokenTyped ==
    ASSUME TypeOK, NEW r \in Requests, NEW u \in Ids, NEW claims \in Claims,
           CreateToken(r, u, claims)
    PROVE  TypeOK'
<1>1. RequestsTyped'
    BY AnswerTyped DEF CreateToken
<1>2. token' \in [Ids -> Optional(Token)]
    BY SignedIsAToken DEF CreateToken, TypeOK, Optional
<1> QED BY <1>1, <1>2 DEF CreateToken, TypeOK, RequestsTyped

\* The state that a request takes when it arrives with the claims of a token.
LEMMA ArrivalTyped ==
    ASSUME TypeOK, NEW r \in Requests,
           \/ \E u \in Ids, v \in Optional(Ids) : SignIn(r, u, v)
           \/ \E u \in Ids : Info(r, u)
           \/ \E u \in Ids, e \in Endpoints : Call(r, u, e)
    PROVE  TypeOK'
<1> USE AccessAssumption
<1>1. \A u \in Ids : token[u] # Undefined => token[u].claims \in Claims
    BY DEF TypeOK, Optional, Token
<1>2. ASSUME NEW u \in Ids, NEW v \in Optional(Ids), SignIn(r, u, v) PROVE TypeOK'
    <2> DEFINE claims == IF v = Undefined THEN Undefined ELSE token[v].claims
               found == ReadingOf(u)
               state == [Idle EXCEPT !.pc = "signing", !.caller = v,
                                     !.found = found, !.claims = claims]
    <2>1. found \in Reading /\ found # Undefined
        BY <1>2, ReadingsAreReadings DEF SignIn
    <2>2. claims \in Optional(Claims) /\ (claims # Undefined => v # Undefined)
        BY <1>1, <1>2 DEF SignIn, Optional
    <2>3. Become(r, state)
        BY <1>2 DEF SignIn
    <2> HIDE DEF claims, found
    <2>4. state \in Request /\ Complete(state)
        BY <2>1, <2>2 DEF Idle, Request, Optional, Steps, Complete
    <2> HIDE DEF state
    <2>5. RequestsTyped'
        BY <2>3, <2>4, BecomeTyped
    <2> QED BY <1>2, <2>5 DEF SignIn, TypeOK, RequestsTyped
<1>3. ASSUME NEW u \in Ids, Info(r, u) PROVE TypeOK'
    <2> DEFINE state == [Idle EXCEPT !.pc = "info", !.caller = u, !.claims = token[u].claims]
    <2>1. token[u].claims \in Claims
        BY <1>1, <1>3 DEF Info
    <2>2. state \in Request /\ Complete(state)
        BY <2>1 DEF Idle, Request, Optional, Steps, Complete
    <2>3. RequestsTyped'
        BY <1>3, <2>2, BecomeTyped DEF Info
    <2> QED BY <1>3, <2>3 DEF Info, TypeOK, RequestsTyped
<1>4. ASSUME NEW u \in Ids, NEW e \in Endpoints, Call(r, u, e) PROVE TypeOK'
    <2> DEFINE state == [Idle EXCEPT !.pc = "groups", !.caller = u, !.endpoint = e,
                                     !.claims = token[u].claims]
    <2>1. token[u].claims \in Claims
        BY <1>1, <1>4 DEF Call
    <2>2. state \in Request /\ Complete(state)
        BY <2>1 DEF Idle, Request, Optional, Steps, Complete
    <2>3. RequestsTyped'
        BY <1>4, <2>2, BecomeTyped DEF Call
    <2> QED BY <1>4, <2>3 DEF Call, TypeOK, RequestsTyped
<1> QED BY <1>2, <1>3, <1>4

\* What is in the request when its user is signed.
LEMMA SignerTyped ==
    ASSUME TypeOK, NEW r \in Requests
    PROVE  /\ req[r].claims # Undefined => req[r].caller \in Ids /\ req[r].claims \in Claims
           /\ req[r].found # Undefined =>
                 req[r].found.id \in Ids /\ req[r].found.claims \in Claims
           /\ req[r].pc \in {"groups", "info"} => req[r].claims # Undefined
           /\ req[r].pc \in {"signing", "answering"} => req[r].found # Undefined
           /\ At(r, "groups") => req[r].endpoint \in Endpoints
<1>1. req[r] \in Request /\ Complete(req[r])
    BY DEF TypeOK
<1>2. req[r].found # Undefined => req[r].found \in Reading
    BY <1>1 DEF Request, Optional
<1> QED BY <1>1, <1>2 DEF Request, Optional, Complete, Reading, At

\* The steps that sign, renew and refuse keep the types.
LEMMA SigningTyped ==
    ASSUME TypeOK, NEW r \in Requests,
           FindInfo(r) \/ Sign(r) \/ SignBearer(r) \/ Refuse(r)
    PROVE  TypeOK'
<1> USE AccessAssumption
<1>1. CASE FindInfo(r)
    <2> DEFINE found == ReadingOf(req[r].caller)
               state == [req[r] EXCEPT !.pc = "answering", !.found = found]
    <2>1. CASE Become(r, Idle)
        BY <1>1, <2>1, AnswerTyped DEF FindInfo, TypeOK, RequestsTyped
    <2>2. CASE ~Become(r, Idle)
        <3>1. req[r].caller \in Ids
            BY <1>1, SignerTyped DEF FindInfo, At
        <3>2. found \in Reading /\ found # Undefined
            BY <1>1, <2>2, <3>1, ReadingsAreReadings DEF FindInfo
        <3>3. Become(r, state)
            BY <1>1, <2>2 DEF FindInfo, Renewed
        <3> HIDE DEF found
        <3>4. state \in Request /\ Complete(state)
            BY <3>2 DEF TypeOK, Request, Optional, Steps, Complete
        <3> HIDE DEF state
        <3>5. RequestsTyped'
            BY <3>3, <3>4, BecomeTyped
        <3> QED BY <1>1, <3>5 DEF FindInfo, TypeOK, RequestsTyped
    <2> QED BY <2>1, <2>2
<1>2. CASE Sign(r)
    BY <1>2, SignerTyped, CreateTokenTyped DEF Sign
<1>3. CASE SignBearer(r)
    BY <1>3, SignerTyped, CreateTokenTyped DEF SignBearer
<1>4. CASE Refuse(r)
    BY <1>4, AnswerTyped DEF Refuse, TypeOK, RequestsTyped
<1> QED BY <1>1, <1>2, <1>3, <1>4

\* Every step keeps the types.
LEMMA TypeStep ==
    ASSUME TypeOK, Next
    PROVE  TypeOK'
<1> USE AccessAssumption
<1>1. ASSUME NEW u \in Ids, SignUp(u)
      PROVE  TypeOK'
    <2>1. [flags |-> {}, groups |-> GroupsNamed(DefaultName)] \in Account
        BY DEF Account, GroupsNamed
    <2> QED BY <1>1, <2>1 DEF SignUp, TypeOK, Optional
<1>2. ASSUME NEW u \in Ids, NEW t \in Token, Expire(u, t)
      PROVE  TypeOK'
    BY <1>2 DEF Expire, TypeOK, Optional
<1>3. ASSUME NEW r \in Requests, NEW e \in Endpoints, CallAnonymously(r, e)
      PROVE  TypeOK'
    <2>1. RequestsTyped'
        BY <1>3, DecideTyped DEF CallAnonymously, Optional
    <2> QED BY <1>3, <2>1 DEF CallAnonymously, TypeOK, RequestsTyped
<1>4. ASSUME NEW r \in Requests, Work(r)
      PROVE  TypeOK'
    <2>1. req[r].caller \in Optional(Ids) /\ req[r].endpoint \in Optional(Endpoints)
        BY DEF TypeOK, Request
    <2>2. CASE LoadGroups(r) \/ LoadFails(r)
        <3>1. RequestsTyped'
            BY <2>1, <2>2, DecideTyped DEF LoadGroups, LoadFails, Optional
        <3> QED BY <2>2, <3>1 DEF LoadGroups, LoadFails, TypeOK, RequestsTyped
    <2>3. CASE AddUser(r) \/ ChangeUser(r) \/ DeleteUser(r)
        <3>1. RequestsTyped'
            BY <2>3, AnswerTyped DEF AddUser, ChangeUser, DeleteUser
        <3>2. users' \in [Ids -> Optional(Account)]
            BY <2>3 DEF AddUser, ChangeUser, DeleteUser, TypeOK, Optional
        <3> QED BY <2>3, <3>1, <3>2
                DEF AddUser, ChangeUser, DeleteUser, TypeOK, RequestsTyped
    <2>4. CASE ChangeGroup(r)
        <3>1. RequestsTyped'
            BY <2>4, AnswerTyped DEF ChangeGroup
        <3>2. groups' \in [GroupIds -> Optional(Group)]
            BY <2>4 DEF ChangeGroup, TypeOK, Optional
        <3> QED BY <2>4, <3>1, <3>2 DEF ChangeGroup, TypeOK, RequestsTyped
    <2>5. CASE ClearGroup(r)
        <3>1. PICK g \in GroupIds :
                 /\ groups[g] # Undefined
                 /\ groups' = [groups EXCEPT ![g].permissions = {}]
                 /\ Become(r, [req[r] EXCEPT !.pc = "dropGroup", !.doomed = g])
            BY <2>5 DEF ClearGroup
        <3> DEFINE state == [req[r] EXCEPT !.pc = "dropGroup", !.doomed = g]
        <3>2. state \in Request /\ Complete(state)
            BY DEF TypeOK, Request, Optional, Steps, Complete
        <3>3. Become(r, state)
            BY <3>1
        <3> HIDE DEF state
        <3>4. RequestsTyped'
            BY <3>2, <3>3, BecomeTyped
        <3>5. [groups[g] EXCEPT !.permissions = {}] \in Group
            BY <3>1 DEF TypeOK, Optional, Group
        <3>6. groups' = [groups EXCEPT ![g] = [groups[g] EXCEPT !.permissions = {}]]
            BY <3>1
        <3>7. groups' \in [GroupIds -> Optional(Group)]
            BY <3>5, <3>6 DEF TypeOK, Optional
        <3> QED BY <2>5, <3>4, <3>7 DEF ClearGroup, TypeOK, RequestsTyped
    <2>6. CASE DropGroup(r)
        <3>1. RequestsTyped'
            BY <2>6, AnswerTyped DEF DropGroup
        <3>2. groups' \in [GroupIds -> Optional(Group)]
            BY <2>6 DEF DropGroup, TypeOK, Optional
        <3>3. ASSUME NEW u \in Ids, users[u] # Undefined, NEW g
              PROVE  [users[u] EXCEPT !.groups = @ \ {g}] \in Account
            BY <3>3 DEF TypeOK, Optional, Account
        <3>4. users' \in [Ids -> Optional(Account)]
            BY <2>6, <3>3 DEF DropGroup, Optional
        <3> QED BY <2>6, <3>1, <3>2, <3>4 DEF DropGroup, TypeOK, RequestsTyped
    <2>7. CASE GiveUp(r) \/ Serve(r)
        BY <2>7, AnswerTyped DEF GiveUp, Serve, TypeOK, RequestsTyped
    <2> QED BY <1>4, <2>2, <2>3, <2>4, <2>5, <2>6, <2>7, SigningTyped DEF Work
<1> QED BY <1>1, <1>2, <1>3, <1>4, ArrivalTyped DEF Next
-----------------------------------------------------------------------------
(***************************************************************************)
(* The history.                                                            *)
(***************************************************************************)

PresentOK ==
    /\ \A u \in Ids : Flagged(u) \subseteq Roles /\ Member(u) \subseteq Names
    /\ \A n \in Names : Carried(n) \subseteq Permissions

\* What the history records at a time is of the declared type.
LEMMA PresentTyped == TypeOK => PresentOK
<1> SUFFICES ASSUME TypeOK PROVE PresentOK
    OBVIOUS
<1>1. ASSUME NEW u \in Ids
      PROVE  Flagged(u) \subseteq Roles /\ Member(u) \subseteq Names
    <2>1. CASE users[u] = Undefined
        BY <2>1 DEF Flagged, Member
    <2>2. CASE users[u] # Undefined
        <3>1. users[u] \in Account
            BY <2>2 DEF TypeOK, Optional
        <3>2. ClaimsOf(users[u]) \in Claims
            BY <3>1, ClaimsAreClaims
        <3> QED BY <2>2, <3>2 DEF ClaimsOf, Claims, Flagged, Member
    <2> QED BY <2>1, <2>2
<1>2. ASSUME NEW n \in Names
      PROVE  Carried(n) \subseteq Permissions
    <2>1. \A g \in GroupsNamed(n) : groups[g] \in Group
        BY DEF GroupsNamed, TypeOK, Optional
    <2> QED BY <2>1 DEF Carried, Group
<1> QED BY <1>1, <1>2 DEF PresentOK

\* A step of the history keeps its types, forgets nothing and covers the
\* state that the step leads to.
LEMMA HistoryStep ==
    ASSUME AuditTypeOK, TypeOK', Observe
    PROVE  /\ AuditTypeOK'
           /\ HistoryCoversNow'
           /\ \A u \in Ids : flagged[u] \subseteq flagged'[u] /\ member[u] \subseteq member'[u]
           /\ \A n \in Names : carried[n] \subseteq carried'[n]
<1>0. PresentOK'
    BY PresentTyped, PTL
<1>1. /\ \A u \in Ids : Flagged(u)' \subseteq Roles /\ Member(u)' \subseteq Names
      /\ \A n \in Names : Carried(n)' \subseteq Permissions
    BY <1>0 DEF PresentOK
<1>2. \A u \in Ids : flagged'[u] = flagged[u] \cup Flagged(u)'
    BY DEF Observe
<1>3. \A u \in Ids : member'[u] = member[u] \cup Member(u)'
    BY DEF Observe
<1>4. \A n \in Names : carried'[n] = carried[n] \cup Carried(n)'
    BY DEF Observe
<1>5. flagged' \in [Ids -> SUBSET Roles]
    BY <1>1, <1>2 DEF Observe, AuditTypeOK
<1>6. member' \in [Ids -> SUBSET Names]
    BY <1>1, <1>3 DEF Observe, AuditTypeOK
<1>7. carried' \in [Names -> SUBSET Permissions]
    BY <1>1, <1>4 DEF Observe, AuditTypeOK
<1>8. AuditTypeOK'
    BY <1>5, <1>6, <1>7 DEF AuditTypeOK
<1>9. HistoryCoversNow'
    BY <1>2, <1>3, <1>4 DEF HistoryCoversNow
<1> QED BY <1>2, <1>3, <1>4, <1>8, <1>9

\* What is of the history stays of the history.
LEMMA BackedStays ==
    ASSUME AuditTypeOK, TypeOK', Observe,
           NEW u \in Ids, NEW claims, Backed(u, claims)
    PROVE  Backed(u, claims)'
BY HistoryStep DEF Backed

\* Who was entitled once was entitled once.
LEMMA EntitledStays ==
    ASSUME AuditTypeOK, TypeOK', Observe,
           NEW u \in Ids, NEW e, OnceEntitled(u, e)
    PROVE  OnceEntitled(u, e)'
<1>1. member[u] \subseteq Names
    BY DEF AuditTypeOK
<1> QED BY <1>1, HistoryStep DEF OnceEntitled

\* What is signed for a user is what it is now.
LEMMA PresentBacked ==
    ASSUME HistoryCoversNow, NEW u \in Ids, users[u] # Undefined
    PROVE  Backed(u, ClaimsOf(users[u]))
BY DEF HistoryCoversNow, Backed, ClaimsOf, Flagged, Member

\* A request that a step leaves alone keeps what is claimed of it.
LEMMA RequestStays ==
    ASSUME AuditTypeOK, TypeOK', Observe, AuditInv,
           NEW q \in Requests, req'[q] = req[q]
    PROVE  (RequestBacked(q) /\ Admitted(q))'
<1>1. RequestBacked(q)'
    <2>1. /\ req[q].claims # Undefined => req[q].caller \in Ids
          /\ req[q].found # Undefined => req[q].found.id \in Ids
        BY SignerTyped DEF AuditTypeOK
    <2> QED BY <2>1, BackedStays DEF AuditInv, RequestBacked, Backed
<1>2. ASSUME At(q, "handler"), OnceEntitled(req[q].caller, req[q].endpoint)
      PROVE  OnceEntitled(req[q].caller, req[q].endpoint)'
    <2>1. req[q].caller \in Ids
        BY <1>2 DEF OnceEntitled, AuditTypeOK, TypeOK, Request, Optional
    <2> DEFINE u == req[q].caller
               e == req[q].endpoint
    <2>2. flagged[u] \subseteq flagged'[u] /\ member[u] \subseteq member'[u]
        BY <2>1, HistoryStep
    <2>3. \A n \in member[u] : carried[n] \subseteq carried'[n]
        BY <2>1, HistoryStep DEF AuditTypeOK
    <2> QED BY <1>2, <2>2, <2>3 DEF OnceEntitled
<1>3. Admitted(q)'
    BY <1>2 DEF AuditInv, Admitted, At
<1> QED BY <1>1, <1>3

\* So only the request that a step is about matters.
LEMMA OthersStay ==
    ASSUME AuditTypeOK, TypeOK', Observe, AuditInv,
           NEW r \in Requests, NEW state, Become(r, state),
           (RequestBacked(r) /\ Admitted(r))'
    PROVE  \A q \in Requests : (RequestBacked(q) /\ Admitted(q))'
<1>1. \A q \in Requests : q # r => req'[q] = req[q]
    BY DEF AuditTypeOK, TypeOK, Become
<1> QED BY <1>1, RequestStays

LEMMA NewState ==
    ASSUME TypeOK, NEW r \in Requests, NEW state, Become(r, state)
    PROVE  req'[r] = state
BY DEF TypeOK, Become

\* A request that is answered is nothing any more.
LEMMA AnsweredStays ==
    ASSUME AuditTypeOK, TypeOK', Observe, AuditInv,
           NEW r \in Requests, Become(r, Idle)
    PROVE  \A q \in Requests : (RequestBacked(q) /\ Admitted(q))'
<1>1. req'[r] = Idle
    BY NewState DEF AuditTypeOK
<1>2. (RequestBacked(r) /\ Admitted(r))'
    BY <1>1 DEF RequestBacked, Admitted, At, Idle
<1> QED BY <1>2, OthersStay

\* The tokens that a step leaves alone keep what is claimed of them.
LEMMA TokensStay ==
    ASSUME AuditTypeOK, TypeOK', Observe, AuditInv, UNCHANGED token
    PROVE  TokensBacked'
BY BackedStays DEF AuditInv, TokensBacked

-----------------------------------------------------------------------------
(***************************************************************************)
(* The steps keep the invariant.                                           *)
(***************************************************************************)

\* Whom the guard lets in on backed claims is entitled, and so is whom it lets
\* in without a user.
LEMMA GuardAdmitsTheEntitled ==
    ASSUME AuditTypeOK, HistoryCoversNow, NEW u \in Optional(Ids), NEW e \in Endpoints,
           NEW user,
           HasRole(e, user) \/ HasPermission(e, user) \/ Unrestricted(e),
           \/ user = Undefined
           \/ \E claims \in Claims :
                 u \in Ids /\ Backed(u, claims) /\ user = Validate(claims)
    PROVE  (RolesOf[e] = {} /\ PermissionsOf[e] = {}) \/ OnceEntitled(u, e)
<1>1. CASE Unrestricted(e)
    BY <1>1 DEF Unrestricted
<1>2. ASSUME user # Undefined, HasRole(e, user) \/ HasPermission(e, user)
      PROVE  OnceEntitled(u, e)
    <2>1. PICK claims \in Claims : u \in Ids /\ Backed(u, claims) /\ user = Validate(claims)
        BY <1>2
    <2>2. user = [flags |-> claims.flags,
                  permissions |-> UNION {groups[g].permissions :
                                    g \in UNION {GroupsNamed(n) : n \in claims.names}}]
        BY <1>2, <2>1 DEF Validate
    <2>3. u # Undefined
        BY <2>1, AccessAssumption
    <2>4. CASE HasRole(e, user)
        BY <2>1, <2>2, <2>3, <2>4 DEF HasRole, Backed, OnceEntitled
    <2>5. CASE HasPermission(e, user)
        <3>1. PICK p \in PermissionsOf[e] : p \in user.permissions
            BY <2>5 DEF HasPermission
        <3>2. PICK n \in claims.names : \E g \in GroupsNamed(n) : p \in groups[g].permissions
            BY <2>2, <3>1
        <3>3. n \in member[u] /\ n \in Names
            BY <2>1 DEF Backed, Claims
        <3>4. p \in Carried(n)
            BY <3>2 DEF Carried
        <3>5. p \in carried[n]
            BY <3>3, <3>4 DEF HistoryCoversNow
        <3> QED BY <2>3, <3>1, <3>3, <3>5 DEF OnceEntitled
    <2> QED BY <1>2, <2>4, <2>5
<1> QED BY <1>1, <1>2 DEF HasRole, HasPermission

\* So the guard's decision keeps what is claimed of the requests.
LEMMA DecisionKeeps ==
    ASSUME AuditTypeOK, TypeOK', Observe, AuditInv,
           NEW r \in Requests, NEW u \in Optional(Ids), NEW e \in Endpoints, NEW user,
           Decide(r, u, e, user), UNCHANGED <<users, groups, token>>,
           \/ user = Undefined
           \/ \E claims \in Claims :
                 u \in Ids /\ Backed(u, claims) /\ user = Validate(claims)
    PROVE  \A q \in Requests : (RequestBacked(q) /\ Admitted(q))'
<1>1. CASE Become(r, Idle)
    BY <1>1, AnsweredStays
<1>2. CASE ~Become(r, Idle)
    <2> DEFINE what == IF HasRole(e, user) THEN "role"
                       ELSE IF HasPermission(e, user) THEN "permission" ELSE "open"
               passed == [Idle EXCEPT !.pc = "handler", !.caller = u,
                                      !.endpoint = e, !.grounds = what]
    <2>1. /\ HasRole(e, user) \/ HasPermission(e, user) \/ Unrestricted(e)
          /\ Become(r, passed)
        BY <1>2 DEF Decide
    <2>2. (RolesOf[e] = {} /\ PermissionsOf[e] = {}) \/ OnceEntitled(u, e)
        BY <2>1, GuardAdmitsTheEntitled DEF AuditInv
    <2>3. (RolesOf[e] = {} /\ PermissionsOf[e] = {}) \/ OnceEntitled(u, e)'
        <3>1. OnceEntitled(u, e) => u \in Ids
            BY DEF OnceEntitled, Optional
        <3> QED BY <2>2, <3>1, EntitledStays
    <2>4. /\ passed.pc = "handler" /\ passed.caller = u /\ passed.endpoint = e
          /\ passed.claims = Undefined /\ passed.found = Undefined
        BY DEF Idle
    <2> HIDE DEF passed
    <2>5. req'[r] = passed
        BY <2>1, NewState DEF AuditTypeOK
    <2>6. (RequestBacked(r) /\ Admitted(r))'
        <3>1. Admitted(r)'
            BY <2>3, <2>4, <2>5 DEF Admitted, At
        <3>2. RequestBacked(r)'
            BY <2>4, <2>5 DEF RequestBacked, At
        <3> QED BY <3>1, <3>2
    <2> QED BY <2>1, <2>6, OthersStay
<1> QED BY <1>1, <1>2

\* A token that is signed from claims that are of the history keeps what is
\* claimed of the tokens.
LEMMA SigningKeeps ==
    ASSUME AuditTypeOK, TypeOK', Observe, AuditInv,
           NEW r \in Requests, NEW u \in Ids, NEW claims, Backed(u, claims),
           CreateToken(r, u, claims)
    PROVE  TokensBacked' /\ \A q \in Requests : (RequestBacked(q) /\ Admitted(q))'
<1>1. claims.flags \subseteq flagged'[u] /\ claims.names \subseteq member'[u]
    BY HistoryStep DEF Backed
<1>2. token'[u].claims = claims
    BY DEF AuditTypeOK, TypeOK, CreateToken, Signed
<1>3. Backed(u, token[u].claims)'
    BY <1>1, <1>2 DEF Backed
<1>4. ASSUME NEW v \in Ids, v # u, token'[v] # Undefined
      PROVE  Backed(v, token[v].claims)'
    <2>1. token'[v] = token[v]
        BY <1>4 DEF AuditTypeOK, TypeOK, CreateToken
    <2>2. Backed(v, token[v].claims)
        BY <1>4, <2>1 DEF AuditInv, TokensBacked
    <2>3. flagged[v] \subseteq flagged'[v] /\ member[v] \subseteq member'[v]
        BY HistoryStep
    <2> QED BY <2>1, <2>2, <2>3 DEF Backed
<1>5. TokensBacked'
    BY <1>3, <1>4 DEF TokensBacked
<1> QED BY <1>5, AnsweredStays DEF CreateToken

\* A request that takes with it the claims of a token, or what it read of a
\* user, keeps what is claimed of the requests.
LEMMA TakingKeeps ==
    ASSUME AuditTypeOK, TypeOK', Observe, AuditInv,
           NEW r \in Requests, NEW state, Become(r, state), state.pc # "handler",
           state.claims # Undefined =>
               state.caller \in Ids /\ Backed(state.caller, state.claims),
           state.found # Undefined =>
               state.found.id \in Ids /\ Backed(state.found.id, state.found.claims)
    PROVE  \A q \in Requests : (RequestBacked(q) /\ Admitted(q))'
<1>1. req'[r] = state
    BY NewState DEF AuditTypeOK
<1>2. state.claims # Undefined => Backed(state.caller, state.claims)'
    BY BackedStays DEF Backed
<1>3. state.found # Undefined => Backed(state.found.id, state.found.claims)'
    BY BackedStays DEF Backed
<1>4. RequestBacked(r)'
    BY <1>1, <1>2, <1>3 DEF RequestBacked
<1>5. Admitted(r)'
    BY <1>1 DEF Admitted, At
<1> QED BY <1>4, <1>5, OthersStay

\* Every step keeps the invariant.
LEMMA AuditStep ==
    ASSUME AuditTypeOK, AuditInv, AuditNext
    PROVE  AuditTypeOK' /\ AuditInv'
<1>1. TypeOK /\ TypeOK' /\ Observe
    BY TypeStep DEF AuditTypeOK, AuditNext
<1>2. AuditTypeOK' /\ HistoryCoversNow'
    BY <1>1, HistoryStep
<1>3. \A u \in Ids : token[u] # Undefined => Backed(u, token[u].claims)
    BY DEF AuditInv, TokensBacked
<1> DEFINE RequestsKeep == \A q \in Requests : (RequestBacked(q) /\ Admitted(q))'
<1>4. ASSUME NEW r \in Requests, NEW u \in Ids, NEW v \in Optional(Ids), SignIn(r, u, v)
      PROVE  TokensBacked' /\ RequestsKeep
    <2> DEFINE claims == IF v = Undefined THEN Undefined ELSE token[v].claims
               found == ReadingOf(u)
               state == [Idle EXCEPT !.pc = "signing", !.caller = v,
                                     !.found = found, !.claims = claims]
    <2>1. TokensBacked'
        BY <1>1, <1>4, TokensStay DEF SignIn
    <2>2. found.id = u /\ Backed(u, found.claims)
        BY <1>4, PresentBacked DEF SignIn, AuditInv, ReadingOf
    <2>3. claims # Undefined => v \in Ids /\ Backed(v, claims)
        BY <1>3, <1>4 DEF SignIn, Optional
    <2>4. Become(r, state)
        BY <1>4 DEF SignIn
    <2> HIDE DEF claims, found
    <2>5. /\ state.pc = "signing" /\ state.caller = v
          /\ state.found = found /\ state.claims = claims
        BY DEF Idle
    <2> HIDE DEF state
    <2> QED BY <1>1, <2>1, <2>2, <2>3, <2>4, <2>5, TakingKeeps
<1>5. ASSUME NEW u \in Ids, SignUp(u)
      PROVE  TokensBacked' /\ RequestsKeep
    <2>1. UNCHANGED token /\ \A q \in Requests : req'[q] = req[q]
        BY <1>5 DEF SignUp
    <2> QED BY <1>1, <2>1, TokensStay, RequestStays
<1>6. ASSUME NEW u \in Ids, NEW t \in Token, Expire(u, t)
      PROVE  TokensBacked' /\ RequestsKeep
    <2>1. \A v \in Ids : token'[v] # Undefined => token'[v] = token[v]
        BY <1>6 DEF Expire, AuditTypeOK, TypeOK
    <2>2. ASSUME NEW v \in Ids, token'[v] # Undefined
          PROVE  Backed(v, token[v].claims)'
        <3>1. Backed(v, token[v].claims)
            BY <1>3, <2>1, <2>2
        <3>2. flagged[v] \subseteq flagged'[v] /\ member[v] \subseteq member'[v]
            BY <1>1, HistoryStep
        <3> QED BY <2>1, <2>2, <3>1, <3>2 DEF Backed
    <2>3. \A q \in Requests : req'[q] = req[q]
        BY <1>6 DEF Expire
    <2> QED BY <1>1, <2>2, <2>3, RequestStays DEF TokensBacked
<1>7. ASSUME NEW r \in Requests, NEW u \in Ids, Info(r, u)
      PROVE  TokensBacked' /\ RequestsKeep
    <2>1. TokensBacked'
        BY <1>1, <1>7, TokensStay DEF Info
    <2> DEFINE state == [Idle EXCEPT !.pc = "info", !.caller = u, !.claims = token[u].claims]
    <2>2. /\ state.pc = "info" /\ state.caller = u
          /\ state.claims = token[u].claims /\ state.found = Undefined
        BY DEF Idle
    <2>3. Become(r, state) /\ token[u] # Undefined
        BY <1>7 DEF Info
    <2> HIDE DEF state
    <2> QED BY <1>1, <1>3, <2>1, <2>2, <2>3, TakingKeeps
<1>8. ASSUME NEW r \in Requests, NEW u \in Ids, NEW e \in Endpoints, Call(r, u, e)
      PROVE  TokensBacked' /\ RequestsKeep
    <2>1. TokensBacked'
        BY <1>1, <1>8, TokensStay DEF Call
    <2> DEFINE state == [Idle EXCEPT !.pc = "groups", !.caller = u, !.endpoint = e,
                                     !.claims = token[u].claims]
    <2>2. /\ state.pc = "groups" /\ state.caller = u
          /\ state.claims = token[u].claims /\ state.found = Undefined
        BY DEF Idle
    <2>3. Become(r, state) /\ token[u] # Undefined
        BY <1>8 DEF Call
    <2> HIDE DEF state
    <2> QED BY <1>1, <1>3, <2>1, <2>2, <2>3, TakingKeeps
<1>9. ASSUME NEW r \in Requests, NEW e \in Endpoints, CallAnonymously(r, e)
      PROVE  TokensBacked' /\ RequestsKeep
    BY <1>1, <1>9, TokensStay, DecisionKeeps DEF CallAnonymously, Optional
<1>10. ASSUME NEW r \in Requests, Work(r)
       PROVE  TokensBacked' /\ RequestsKeep
    <2>0. RequestBacked(r)
        BY DEF AuditInv
    <2>1. CASE FindInfo(r)
        <3>1. TokensBacked'
            BY <1>1, <2>1, TokensStay DEF FindInfo
        <3>2. CASE Become(r, Idle)
            BY <1>1, <3>1, <3>2, AnsweredStays
        <3>3. CASE ~Become(r, Idle)
            <4> DEFINE u == req[r].caller
                       found == ReadingOf(u)
                       state == [req[r] EXCEPT !.pc = "answering", !.found = found]
            <4>1. u \in Ids /\ users[u] # Undefined /\ Become(r, state)
                BY <1>1, <2>1, <3>3, SignerTyped DEF FindInfo, At, Renewed
            <4>2. found.id = u /\ Backed(u, found.claims)
                BY <4>1, PresentBacked DEF AuditInv, ReadingOf
            <4> HIDE DEF found
            <4>3. /\ state.pc = "answering" /\ state.found = found
                  /\ state.caller = u /\ state.claims = req[r].claims
                BY <1>1 DEF TypeOK, Request
            <4>4. req[r].claims # Undefined => Backed(u, req[r].claims)
                BY <2>0 DEF RequestBacked
            <4> HIDE DEF state, u
            <4> QED BY <1>1, <3>1, <4>1, <4>2, <4>3, <4>4, TakingKeeps
        <3> QED BY <3>2, <3>3
    <2>2. CASE Sign(r)
        BY <1>1, <2>0, <2>2, SignerTyped, SigningKeeps DEF Sign, RequestBacked
    <2>3. CASE SignBearer(r)
        BY <1>1, <2>0, <2>3, SignerTyped, SigningKeeps DEF SignBearer, RequestBacked
    <2>4. CASE LoadGroups(r) \/ LoadFails(r)
        <3>1. TokensBacked'
            BY <1>1, <2>4, TokensStay DEF LoadGroups, LoadFails
        <3>2. /\ req[r].caller \in Ids /\ req[r].claims \in Claims
              /\ Backed(req[r].caller, req[r].claims) /\ req[r].endpoint \in Endpoints
            BY <1>1, <2>0, <2>4, SignerTyped DEF LoadGroups, LoadFails, RequestBacked, At
        <3>3. CASE LoadGroups(r)
            <4>1. Decide(r, req[r].caller, req[r].endpoint, Validate(req[r].claims))
                BY <3>3 DEF LoadGroups
            <4>2. UNCHANGED <<users, groups, token>>
                BY <3>3 DEF LoadGroups
            <4> QED BY <1>1, <3>1, <3>2, <4>1, <4>2, DecisionKeeps DEF Optional
        <3>4. CASE LoadFails(r)
            BY <1>1, <3>1, <3>2, <3>4, DecisionKeeps DEF LoadFails, Optional
        <3> QED BY <2>4, <3>3, <3>4
    <2>5. CASE ClearGroup(r)
        <3>1. TokensBacked'
            BY <1>1, <2>5, TokensStay DEF ClearGroup
        <3>2. PICK g \in GroupIds :
                 Become(r, [req[r] EXCEPT !.pc = "dropGroup", !.doomed = g])
            BY <2>5 DEF ClearGroup
        <3> DEFINE state == [req[r] EXCEPT !.pc = "dropGroup", !.doomed = g]
        <3>3. /\ state.pc = "dropGroup" /\ state.caller = req[r].caller
              /\ state.claims = req[r].claims /\ state.found = req[r].found
            BY <1>1 DEF TypeOK, Request
        <3>4. Become(r, state)
            BY <3>2
        <3> HIDE DEF state
        <3> QED BY <1>1, <2>0, <3>1, <3>3, <3>4, SignerTyped, TakingKeeps DEF RequestBacked
    <2>6. CASE \/ Refuse(r) \/ AddUser(r) \/ ChangeUser(r) \/ DeleteUser(r)
               \/ ChangeGroup(r) \/ DropGroup(r) \/ GiveUp(r) \/ Serve(r)
        <3>1. Become(r, Idle) /\ UNCHANGED token
            BY <2>6 DEF Refuse, AddUser, ChangeUser, DeleteUser, ChangeGroup,
                        DropGroup, GiveUp, Serve
        <3> QED BY <1>1, <3>1, TokensStay, AnsweredStays
    <2> QED BY <1>10, <2>1, <2>2, <2>3, <2>4, <2>5, <2>6 DEF Work
<1>11. TokensBacked' /\ RequestsKeep
    BY <1>4, <1>5, <1>6, <1>7, <1>8, <1>9, <1>10 DEF AuditNext, Next
<1> QED BY <1>2, <1>11 DEF AuditInv

\* The history starts with the state it starts in, and nobody holds a token
\* or has sent a request.
LEMMA AuditStart == AuditInit => AuditTypeOK /\ AuditInv
<1> SUFFICES ASSUME AuditInit PROVE AuditTypeOK /\ AuditInv
    OBVIOUS
<1>1. TypeOK
    BY AccessAssumption, IdleTyped DEF AuditInit, Init, TypeOK, Optional
<1>2. AuditTypeOK
    BY <1>1, PresentTyped DEF AuditInit, AuditTypeOK, PresentOK
<1>3. HistoryCoversNow
    BY DEF AuditInit, HistoryCoversNow
<1>4. TokensBacked
    BY DEF AuditInit, Init, TokensBacked
<1>5. \A r \in Requests : RequestBacked(r) /\ Admitted(r)
    BY DEF AuditInit, Init, Idle, RequestBacked, Admitted, At
<1> QED BY <1>2, <1>3, <1>4, <1>5 DEF AuditInv

-----------------------------------------------------------------------------
(***************************************************************************)
(* The theorems.                                                           *)
(***************************************************************************)

\* In every behaviour the tables, the tokens, the requests and the history
\* have their types, the history covers the state, and the claims of tokens
\* and of requests are of the history.
THEOREM AuditInvariant == AuditSpec => [](AuditTypeOK /\ AuditInv)
<1>1. AuditTypeOK /\ AuditInv /\ [AuditNext]_auditVars => AuditTypeOK' /\ AuditInv'
    <2> SUFFICES ASSUME AuditTypeOK, AuditInv, [AuditNext]_auditVars
                 PROVE  AuditTypeOK' /\ AuditInv'
        OBVIOUS
    <2>1. CASE AuditNext
        BY <2>1, AuditStep
    <2>2. CASE UNCHANGED auditVars
        <3>1. AuditTypeOK'
            BY <2>2 DEF auditVars, AuditTypeOK, TypeOK
        <3>2. HistoryCoversNow'
            BY <2>2 DEF auditVars, AuditInv, HistoryCoversNow, Flagged, Member, NamesOf,
                        Carried, GroupsNamed
        <3>3. TokensBacked'
            BY <2>2 DEF auditVars, AuditInv, TokensBacked, Backed
        <3>4. \A r \in Requests : (RequestBacked(r) /\ Admitted(r))'
            BY <2>2 DEF auditVars, AuditInv, RequestBacked, Admitted, Backed, At, OnceEntitled
        <3> QED BY <3>1, <3>2, <3>3, <3>4 DEF AuditInv
    <2> QED BY <2>1, <2>2
<1> QED BY <1>1, AuditStart, PTL DEF AuditSpec

\* Whatever the users, groups and endpoints, and however many requests run at
\* a time: whoever is in a handler was entitled to it once, or the handler asks
\* for nothing.
THEOREM OnlyTheEntitledAreAdmitted == AuditSpec => []AdmittedWasEntitled
<1>1. AuditInv => AdmittedWasEntitled
    BY DEF AuditInv, AdmittedWasEntitled
<1> QED BY <1>1, AuditInvariant, PTL

\* The tables, the tokens, the requests and the history keep their types.
THEOREM AuditTypeCorrect == AuditSpec => []AuditTypeOK
BY AuditInvariant, PTL

\* Access control keeps its types without the history, too.
THEOREM AccessTypeCorrect == Spec => []TypeOK
<1>1. Init => TypeOK
    BY AccessAssumption, IdleTyped DEF Init, TypeOK, Optional
<1>2. TypeOK /\ [Next]_vars => TypeOK'
    BY TypeStep DEF vars, TypeOK
<1> QED BY <1>1, <1>2, PTL DEF Spec

-----------------------------------------------------------------------------
(***************************************************************************)
(* DemotionIsFinal: one lemma for the tokens, one for the requests.        *)
(***************************************************************************)

\* A request that has nothing of a token or of a user bears nothing.
LEMMA ElsewhereBearsNothing ==
    ASSUME TypeOK, NEW r \in Requests, NEW state, Become(r, state),
           state.pc \notin {"groups", "signing", "answering", "handler"}, NEW u, NEW e
    PROVE  ~Bears(r, u, e)'
BY NewState DEF Bears, Inside, At

\* The guard lets in by a flag only whom the claims give one.
LEMMA DecisionBears ==
    ASSUME TypeOK, NEW r \in Requests, NEW caller, NEW at, NEW user,
           Decide(r, caller, at, user),
           NEW u, NEW e, Bears(r, u, e)'
    PROVE  caller = u /\ at = e /\ HasRole(at, user)
<1> DEFINE what == IF HasRole(at, user) THEN "role"
                   ELSE IF HasPermission(at, user) THEN "permission" ELSE "open"
           passed == [Idle EXCEPT !.pc = "handler", !.caller = caller,
                                  !.endpoint = at, !.grounds = what]
<1>1. passed.pc = "handler" /\ passed.caller = caller /\ passed.endpoint = at
      /\ passed.grounds = what /\ Idle.pc = "idle"
    BY DEF Idle
<1>2. Become(r, passed) \/ Become(r, Idle)
    BY DEF Decide
<1>3. what = "role" => HasRole(at, user)
    OBVIOUS
<1> HIDE DEF passed, what
<1>4. req'[r] = passed \/ req'[r] = Idle
    BY <1>2, NewState
<1> QED BY <1>1, <1>3, <1>4 DEF Bears, Inside, At

\* What validate() returns has the flags of the claims.
LEMMA ValidatedFlags ==
    ASSUME NEW e, NEW claims, HasRole(e, Validate(claims)) PROVE Claimed(claims, e)
BY DEF HasRole, Validate, Claimed

\* What is read of a user without a flag does not bear it.
LEMMA ReadingBearsNothing ==
    ASSUME NEW u \in Ids, NEW e, LacksRole(u, e), users[u] # Undefined
    PROVE  ReadingOf(u).id = u /\ ~Claimed(ReadingOf(u).claims, e)
BY DEF LacksRole, Claimed, ReadingOf, ClaimsOf

\* A token signed for a user from claims without a flag does not bear it.
LEMMA CreatedBearsNothing ==
    ASSUME TypeOK, NEW r \in Requests, NEW v \in Ids, NEW claims,
           CreateToken(r, v, claims), NEW u \in Ids, NEW e,
           token[u] # Undefined => ~Claimed(token[u].claims, e),
           v = u => ~Claimed(claims, e)
    PROVE  token'[u] # Undefined => ~Claimed(token'[u].claims, e)
<1>1. CASE v = u
    <2>1. token'[u].claims = claims
        BY <1>1 DEF CreateToken, TypeOK, Signed
    <2> QED BY <1>1, <2>1
<1>2. CASE v # u
    BY <1>2 DEF CreateToken, TypeOK
<1> QED BY <1>1, <1>2

\* No step gives a user a token with a flag that nothing of the user bears.
LEMMA TokensForget ==
    ASSUME TypeOK, Next, NEW u \in Ids, NEW e \in Endpoints, ~Lingers(u, e)
    PROVE  token'[u] # Undefined => ~Claimed(token'[u].claims, e)
<1>1. token[u] # Undefined => ~Claimed(token[u].claims, e)
    BY DEF Lingers
<1>2. CASE token'[u] \in {Undefined, token[u]}
    BY <1>1, <1>2
<1>3. ASSUME NEW v \in Ids, NEW t \in Token, Expire(v, t)
      PROVE  token'[u] \in {Undefined, token[u]}
    BY <1>3 DEF Expire, TypeOK
<1>4. ASSUME NEW r \in Requests, Sign(r) \/ SignBearer(r)
      PROVE  token'[u] # Undefined => ~Claimed(token'[u].claims, e)
    <2>1. ~Bears(r, u, e)
        BY DEF Lingers
    <2>2. CASE Sign(r)
        <3>1. req[r].found.id \in Ids /\ (req[r].found.id = u => ~Claimed(req[r].found.claims, e))
            BY <2>1, <2>2, SignerTyped DEF Sign, Bears
        <3> QED BY <1>1, <2>2, <3>1, CreatedBearsNothing DEF Sign
    <2>3. CASE SignBearer(r)
        <3>1. req[r].caller \in Ids /\ (req[r].caller = u => ~Claimed(req[r].claims, e))
            BY <2>1, <2>3, SignerTyped DEF SignBearer, Bears, At
        <3> QED BY <1>1, <2>3, <3>1, CreatedBearsNothing DEF SignBearer
    <2> QED BY <1>4, <2>2, <2>3
<1>5. ASSUME NEW r \in Requests, Work(r), ~Sign(r), ~SignBearer(r) PROVE token' = token
    BY <1>5 DEF Work, FindInfo, Refuse, LoadGroups, LoadFails, AddUser, ChangeUser,
                DeleteUser, ChangeGroup, ClearGroup, DropGroup, GiveUp, Serve
<1> QED BY <1>2, <1>3, <1>4, <1>5 DEF Next, SignIn, SignUp, Info, Call, CallAnonymously

\* Of the steps that begin or go on with a request, none takes a flag along
\* that nothing of the user bears: what is taken is of a token or of the row.
LEMMA TakingBearsNothing ==
    ASSUME TypeOK, NEW u \in Ids, NEW e \in Endpoints, LacksRole(u, e), ~Lingers(u, e),
           NEW r \in Requests,
           \/ \E v \in Ids, w \in Optional(Ids) : SignIn(r, v, w)
           \/ \E v \in Ids, at \in Endpoints : Call(r, v, at)
           \/ FindInfo(r)
    PROVE  ~Bears(r, u, e)'
<1>1. token[u] # Undefined => ~Claimed(token[u].claims, e)
    BY DEF Lingers
<1>2. ASSUME NEW v \in Ids, NEW w \in Optional(Ids), SignIn(r, v, w)
      PROVE  ~Bears(r, u, e)'
    <2> DEFINE claims == IF w = Undefined THEN Undefined ELSE token[w].claims
               found == ReadingOf(v)
               state == [Idle EXCEPT !.pc = "signing", !.caller = w,
                                     !.found = found, !.claims = claims]
    <2>1. found.id = v /\ (v = u => ~Claimed(found.claims, e))
        BY <1>2, ReadingBearsNothing DEF SignIn, ReadingOf
    <2>2. w = u => ~Claimed(claims, e)
        BY <1>1, <1>2, AccessAssumption DEF SignIn
    <2>3. Become(r, state)
        BY <1>2 DEF SignIn
    <2> HIDE DEF claims, found
    <2>4. /\ state.pc = "signing" /\ state.caller = w
          /\ state.found = found /\ state.claims = claims
        BY DEF Idle
    <2> HIDE DEF state
    <2>5. req'[r] = state
        BY <2>3, NewState
    <2> QED BY <2>1, <2>2, <2>4, <2>5 DEF Bears, Inside, At
<1>3. ASSUME NEW v \in Ids, NEW at \in Endpoints, Call(r, v, at)
      PROVE  ~Bears(r, u, e)'
    <2> DEFINE state == [Idle EXCEPT !.pc = "groups", !.caller = v, !.endpoint = at,
                                     !.claims = token[v].claims]
    <2>1. state.pc = "groups" /\ state.caller = v /\ state.claims = token[v].claims
        BY DEF Idle
    <2>2. Become(r, state) /\ token[v] # Undefined
        BY <1>3 DEF Call
    <2> HIDE DEF state
    <2>3. req'[r] = state
        BY <2>2, NewState
    <2> QED BY <1>1, <2>1, <2>2, <2>3 DEF Bears, Inside, At
<1>4. CASE FindInfo(r)
    <2>1. CASE Become(r, Idle)
        BY <2>1, ElsewhereBearsNothing DEF Idle
    <2>2. CASE ~Become(r, Idle)
        <3> DEFINE v == req[r].caller
                   found == ReadingOf(v)
                   state == [req[r] EXCEPT !.pc = "answering", !.found = found]
        <3>1. v \in Ids /\ users[v] # Undefined /\ Become(r, state)
            BY <1>4, <2>2, SignerTyped DEF FindInfo, At, Renewed
        <3>2. found.id = v /\ (v = u => ~Claimed(found.claims, e))
            BY <3>1, ReadingBearsNothing DEF ReadingOf
        <3> HIDE DEF found
        <3>3. state.pc = "answering" /\ state.found = found
            BY DEF TypeOK, Request
        <3> HIDE DEF state
        <3>4. req'[r] = state
            BY <3>1, NewState
        <3> QED BY <3>2, <3>3, <3>4 DEF Bears, Inside, At
    <2> QED BY <2>1, <2>2
<1> QED BY <1>2, <1>3, <1>4

\* No step gives a user of whom nothing bears a flag a request that does.
LEMMA RequestsForget ==
    ASSUME TypeOK, Next, NEW u \in Ids, NEW e \in Endpoints,
           LacksRole(u, e), ~Lingers(u, e), NEW q \in Requests
    PROVE  ~Bears(q, u, e)'
<1>0. ~Bears(q, u, e)
    BY DEF Lingers
<1>1. CASE req'[q] = req[q]
    BY <1>0, <1>1 DEF Bears, Inside, At
<1>2. ASSUME NEW r \in Requests, NEW state, Become(r, state), r # q
      PROVE  ~Bears(q, u, e)'
    BY <1>1, <1>2 DEF Become, TypeOK
<1>3. ASSUME NEW r \in Requests, NEW state, Become(r, state),
             state.pc \notin {"groups", "signing", "answering", "handler"}
      PROVE  ~Bears(q, u, e)'
    BY <1>2, <1>3, ElsewhereBearsNothing
<1>4. ASSUME NEW r \in Requests, Become(r, Idle) PROVE ~Bears(q, u, e)'
    BY <1>3, <1>4 DEF Idle
<1>5. ASSUME NEW r \in Requests, NEW v \in Ids, Info(r, v) PROVE ~Bears(q, u, e)'
    <2>1. [Idle EXCEPT !.pc = "info", !.caller = v, !.claims = token[v].claims].pc = "info"
        BY DEF Idle
    <2> QED BY <1>3, <1>5, <2>1 DEF Info
<1>6. ASSUME NEW r \in Requests,
             \/ \E v \in Ids, w \in Optional(Ids) : SignIn(r, v, w)
             \/ \E v \in Ids, at \in Endpoints : Call(r, v, at)
             \/ FindInfo(r)
      PROVE  ~Bears(q, u, e)'
    <2>1. CASE r = q
        BY <1>6, <2>1, TakingBearsNothing
    <2>2. CASE r # q
        <3>1. \E state : Become(r, state)
            BY <1>6 DEF SignIn, Call, FindInfo
        <3> QED BY <1>2, <2>2, <3>1
    <2> QED BY <2>1, <2>2
<1>7. ASSUME NEW r \in Requests, NEW caller, NEW at, NEW user,
             Decide(r, caller, at, user),
             caller = u /\ at = e => ~HasRole(at, user)
      PROVE  ~Bears(q, u, e)'
    <2>1. CASE r = q
        BY <1>7, <2>1, DecisionBears
    <2>2. CASE r # q
        BY <1>2, <1>7, <2>2 DEF Decide
    <2> QED BY <2>1, <2>2
<1>8. \A at : ~HasRole(at, Undefined)
    BY DEF HasRole
<1>9. ASSUME NEW r \in Requests, LoadGroups(r) PROVE ~Bears(q, u, e)'
    <2>1. ~(At(r, "groups") /\ req[r].caller = u /\ Claimed(req[r].claims, e))
        BY DEF Lingers, Bears, At
    <2>2. req[r].caller = u /\ req[r].endpoint = e
          => ~HasRole(req[r].endpoint, Validate(req[r].claims))
        BY <1>9, <2>1, ValidatedFlags DEF LoadGroups
    <2> QED BY <1>7, <1>9, <2>2 DEF LoadGroups
<1>10. ASSUME NEW r \in Requests, Work(r), ~LoadGroups(r), ~FindInfo(r)
       PROVE  ~Bears(q, u, e)'
    <2>1. CASE LoadFails(r)
        BY <1>7, <1>8, <2>1 DEF LoadFails
    <2>2. CASE ClearGroup(r)
        <3>1. PICK g : Become(r, [req[r] EXCEPT !.pc = "dropGroup", !.doomed = g])
            BY <2>2 DEF ClearGroup
        <3>2. [req[r] EXCEPT !.pc = "dropGroup", !.doomed = g].pc = "dropGroup"
            BY DEF TypeOK, Request
        <3> QED BY <1>3, <3>1, <3>2
    <2>3. CASE ~LoadFails(r) /\ ~ClearGroup(r)
        <3>1. Become(r, Idle)
            BY <1>10, <2>3 DEF Work, Sign, SignBearer, CreateToken, Refuse, AddUser,
                               ChangeUser, DeleteUser, ChangeGroup, DropGroup, GiveUp, Serve
        <3> QED BY <1>4, <3>1
    <2> QED BY <2>1, <2>2, <2>3
<1>11. ASSUME NEW r \in Requests, NEW at \in Endpoints, CallAnonymously(r, at)
       PROVE  ~Bears(q, u, e)'
    BY <1>7, <1>8, <1>11 DEF CallAnonymously
<1>12. CASE req' = req
    BY <1>1, <1>12
<1> QED BY <1>5, <1>6, <1>9, <1>10, <1>11, <1>12 DEF Next, SignUp, Expire

\* For every number of users, handlers and requests at a time: a flag that is
\* lost and that no token, and no request in flight, bears any more does not
\* come back, however tokens are signed and renewed and whatever happens
\* between the read of a user and the signature, unless the row has it anew.
THEOREM DemotionsAreFinal == Spec => DemotionIsFinal
<1>1. TypeOK /\ [Next]_vars =>
        [\A u \in Ids, e \in Endpoints :
            LacksRole(u, e) /\ ~Lingers(u, e) => ~Lingers(u, e)']_vars
    <2> SUFFICES ASSUME TypeOK, Next, NEW u \in Ids, NEW e \in Endpoints,
                        LacksRole(u, e), ~Lingers(u, e)
                 PROVE  ~Lingers(u, e)'
        OBVIOUS
    <2>1. token'[u] # Undefined => ~Claimed(token'[u].claims, e)
        BY TokensForget
    <2>2. \A q \in Requests : ~Bears(q, u, e)'
        BY RequestsForget
    <2> QED BY <2>1, <2>2 DEF Lingers
<1> QED BY <1>1, AccessTypeCorrect, PTL DEF Spec, DemotionIsFinal
=============================================================================
