---------------------------- MODULE OAuthProofs ----------------------------
(***************************************************************************)
(* Theorems about OAuth for every number of requests, profiles and users,  *)
(* and whatever queries and connections fail: a callback calls done()      *)
(* once, a profile signs in to the account that was made for it, a profile *)
(* gets one token as long as its user keeps its name, and an account has   *)
(* its token unless a query failed, the token was refused, or the account  *)
(* was deleted and came back.                                              *)
(*                                                                         *)
(* The invariant is Inv: whose tokens there are (Owners), that an id which *)
(* the sequence has not given is no profile's (Ahead), that no two users   *)
(* share a name or an address (Distinct), and what a request has in memory *)
(* at its step (Sound).                                                    *)
(***************************************************************************)
EXTENDS OAuth, TLAPS

Callback == {"lookup", "info", "preload", "check", "recheck", "insert", "reread", "save"}

\* The sequence gave id u to the user of profile c, and whatever row is there now
\* is that user's, unless it was inserted again: n is nextId, us is users and ag
\* is again.
Owns(u, c, n, us, ag) ==
    /\ u \in UserIds
    /\ u < n
    /\ us[u] # Undefined => us[u].of = c \/ u \in ag

\* The calls of done() and the answer, of a profile that has an id; ts is tokens.
Answered(q, ts) ==
    /\ q.pc # "done" => q.calls = << >> /\ q.answer = Undefined
    /\ q.pc = "done" => Len(q.calls) = 1
    /\ q.answer \in {"granted", "ok"} =>
         [client |-> q.profile.id, user |-> q.calls[1].user] \in ts
    /\ q.answer = "ok" /\ q.bearer = Undefined => q.signed = q.calls[1].user

\* What a request has in memory.
Sound(q, n, us, ag, ts) ==
    /\ q \in Session
    /\ q.pc # "done" => q.fits
    /\ q.pc \in Callback => q.profile # Undefined
    /\ q.pc \in {"idle", "exchange", "enter"} => q.profile = Undefined
    /\ q.profile = Undefined =>
         /\ q.pc # "done" => q.calls = << >> /\ q.answer = Undefined
         /\ q.answer \notin {"granted", "ok"}
    /\ q.profile # Undefined /\ q.profile.id = NoId => q.answer = "unauthorized"
    /\ q.profile # Undefined /\ q.profile.id # NoId => Answered(q, ts)
    /\ q.pc = "info" =>
         /\ q.user \in UserIds
         /\ q.profile.id # NoId => [client |-> q.profile.id, user |-> q.user] \in ts
    /\ q.pc \in {"reread", "save"} => Owns(q.user, q.profile.id, n, us, ag)

AllSound ==
    /\ auth = [r \in Requests |-> auth[r]]
    /\ \A r \in Requests : Sound(auth[r], nextId, users, again, tokens)

\* The tables but the requests.
Tables ==
    /\ users \in [UserIds -> Optional(Row)]
    /\ nextId \in 1..(MaxId + 1)
    /\ tokens \in SUBSET Token
    /\ constructed \in BOOLEAN
    /\ nameless \in BOOLEAN
    /\ edits \in 0..MaxEdits
    /\ faults \in 0..MaxFaults
    /\ was \in [UserIds -> SUBSET Row]
    /\ again \in SUBSET UserIds

\* A token is of the profile and of a user who is there.
Owners ==
    \A t \in tokens :
        Owns(t.user, t.client, nextId, users, again) /\ users[t.user] # Undefined

\* What has an id that the sequence has yet to give is no profile's.
Ahead ==
    \A u \in UserIds : u >= nextId =>
        /\ users[u] # Undefined => users[u].of = Undefined
        /\ \A row \in was[u] : row.of = Undefined

Distinct ==
    \A u, v \in UserIds :
        u # v /\ users[u] # Undefined /\ users[v] # Undefined =>
          users[u].name # users[v].name /\ users[u].email # users[v].email

Inv == Tables /\ Owners /\ Ahead /\ Distinct /\ AllSound

-----------------------------------------------------------------------------
(***************************************************************************)
(* Requests: what a step of one of them leaves.                            *)
(***************************************************************************)

LEMMA Numbers == /\ MaxId \in Nat /\ MaxEdits \in Nat /\ MaxFaults \in Nat
                 /\ UserIds \subseteq Nat
                 /\ \A u \in UserIds : u # Undefined
BY OAuthAssumption DEF UserIds

\* What a step leaves of what requests know: tokens stay, and a row keeps what
\* it was signed up for unless it was inserted again.
Growing ==
    /\ nextId' \in Int /\ nextId <= nextId'
    /\ again \subseteq again'
    /\ tokens \subseteq tokens'
    /\ \A u \in UserIds : u < nextId /\ users'[u] # Undefined =>
         \/ u \in again'
         \/ users[u] # Undefined /\ users'[u].of = users[u].of

LEMMA OwnsGrows ==
    ASSUME Tables, Growing, NEW u, NEW c, Owns(u, c, nextId, users, again)
    PROVE  Owns(u, c, nextId', users', again')
<1>1. u \in UserIds /\ u \in Int /\ u < nextId /\ nextId \in Int
  BY Numbers DEF Owns, Tables
<1>2. u < nextId'
  BY <1>1 DEF Growing
<1>3. ASSUME users'[u] # Undefined PROVE users'[u].of = c \/ u \in again'
  BY <1>1, <1>3 DEF Owns, Growing
<1>4. QED
  BY <1>1, <1>2, <1>3 DEF Owns

LEMMA SoundGrows ==
    ASSUME Tables, Growing, NEW q, Sound(q, nextId, users, again, tokens)
    PROVE  Sound(q, nextId', users', again', tokens')
<1>1. tokens \subseteq tokens'
  BY DEF Growing
<1>2. q.pc \in {"reread", "save"} => Owns(q.user, q.profile.id, nextId', users', again')
  BY OwnsGrows DEF Sound
<1>3. QED
  BY <1>1, <1>2 DEF Sound, Answered

LEMMA Others ==
    ASSUME AllSound, NEW r \in Requests, NEW q, Become(r, q)
    PROVE  /\ auth' = [s \in Requests |-> auth'[s]]
           /\ auth'[r] = q
           /\ \A s \in Requests \ {r} : auth'[s] = auth[s]
BY DEF AllSound, Become

LEMMA AllStaySound ==
    ASSUME Tables, AllSound, Growing, NEW r \in Requests, NEW q, Become(r, q),
           Sound(q, nextId', users', again', tokens')
    PROVE  AllSound'
<1>1. /\ auth' = [s \in Requests |-> auth'[s]]
      /\ auth'[r] = q
      /\ \A s \in Requests \ {r} : auth'[s] = auth[s]
  BY Others
<1>2. \A s \in Requests : Sound(auth'[s], nextId', users', again', tokens')
  BY <1>1, SoundGrows DEF AllSound
<1>3. QED
  BY <1>1, <1>2 DEF AllSound

\* A request moves and the tables stay.
LEMMA QuietMove ==
    ASSUME Inv, NEW r \in Requests, NEW q, Become(r, q), Sound(q, nextId, users, again, tokens),
           UNCHANGED <<users, nextId, tokens, fixed, edits, others>>,
           faults' \in 0..MaxFaults
    PROVE  Inv'
<1>1. Growing
  BY DEF Growing, Inv, Tables, others
<1>2. AllSound'
  BY <1>1, SoundGrows, AllStaySound DEF Inv, others
<1>3. Tables' /\ Owners' /\ Ahead' /\ Distinct'
  BY DEF Inv, Tables, Owners, Owns, Ahead, Distinct, fixed, others
<1>4. QED
  BY <1>2, <1>3 DEF Inv

\* done() is called.
LEMMA CalledFields ==
    ASSUME NEW q \in Session, NEW call \in Call
    PROVE  /\ Called(q, call) \in Session
           /\ Called(q, call).provider = q.provider
           /\ Called(q, call).pc = q.pc
           /\ Called(q, call).profile = q.profile
           /\ Called(q, call).user = q.user
           /\ Called(q, call).fits = q.fits
           /\ Called(q, call).front = q.front
           /\ Called(q, call).calls = Append(q.calls, call)
           /\ Called(q, call).answer =
                IF q.answer = Undefined THEN AnswerOf(call) ELSE q.answer
<1> DEFINE calls == Append(q.calls, call)
           answer == IF q.answer = Undefined THEN AnswerOf(call) ELSE q.answer
<1>1. calls \in Seq(Call) /\ answer \in Optional(Answers)
  BY DEF Session, AnswerOf, Optional, Answers
<1>2. Called(q, call) = [q EXCEPT !.calls = calls, !.answer = answer]
  BY DEF Called, Session
<1> HIDE DEF calls, answer
<1>3. /\ [q EXCEPT !.calls = calls, !.answer = answer] \in Session
      /\ [q EXCEPT !.calls = calls, !.answer = answer].calls = calls
      /\ [q EXCEPT !.calls = calls, !.answer = answer].answer = answer
  BY <1>1 DEF Session
<1>4. QED
  BY <1>2, <1>3 DEF Session, calls, answer

LEMMA GotoFields ==
    ASSUME NEW q \in Session, NEW step \in Steps
    PROVE  /\ [q EXCEPT !.pc = step] \in Session
           /\ [q EXCEPT !.pc = step].pc = step
           /\ [q EXCEPT !.pc = step].provider = q.provider
           /\ [q EXCEPT !.pc = step].profile = q.profile
           /\ [q EXCEPT !.pc = step].user = q.user
           /\ [q EXCEPT !.pc = step].fits = q.fits
           /\ [q EXCEPT !.pc = step].bearer = q.bearer
           /\ [q EXCEPT !.pc = step].signed = q.signed
           /\ [q EXCEPT !.pc = step].calls = q.calls
           /\ [q EXCEPT !.pc = step].answer = q.answer
           /\ [q EXCEPT !.pc = step].front = q.front
BY DEF Session

\* The last call of done() ends the callback.
LEMMA EndCall ==
    ASSUME NEW n, NEW us, NEW ag, NEW ts, NEW q \in Session, q.profile # Undefined,
           q.profile.id = NoId => q.answer = "unauthorized",
           q.profile.id # NoId => q.calls = << >> /\ q.answer = Undefined,
           NEW call \in Call,
           q.profile.id # NoId /\ AnswerOf(call) = "granted"
             => [client |-> q.profile.id, user |-> call.user] \in ts
    PROVE  Sound([Called(q, call) EXCEPT !.pc = "done"], n, us, ag, ts)
<1> DEFINE s == [Called(q, call) EXCEPT !.pc = "done"]
<1>1. /\ q \in Session /\ q.profile # Undefined
      /\ q.profile.id = NoId => q.answer = "unauthorized"
      /\ q.profile.id # NoId => q.calls = << >> /\ q.answer = Undefined
  OBVIOUS
<1>2. /\ s \in Session /\ s.pc = "done" /\ s.profile = q.profile
      /\ s.calls = Append(q.calls, call)
      /\ s.answer = IF q.answer = Undefined THEN AnswerOf(call) ELSE q.answer
  <2> DEFINE c == Called(q, call)
  <2>1. /\ c \in Session /\ c.profile = q.profile
        /\ c.calls = Append(q.calls, call)
        /\ c.answer = IF q.answer = Undefined THEN AnswerOf(call) ELSE q.answer
    BY <1>1, CalledFields
  <2> HIDE DEF c
  <2>2. "done" \in Steps
    BY DEF Steps
  <2>3. /\ [c EXCEPT !.pc = "done"] \in Session /\ [c EXCEPT !.pc = "done"].pc = "done"
        /\ [c EXCEPT !.pc = "done"].profile = c.profile
        /\ [c EXCEPT !.pc = "done"].calls = c.calls
        /\ [c EXCEPT !.pc = "done"].answer = c.answer
    BY <2>1, <2>2, GotoFields
  <2>4. s = [c EXCEPT !.pc = "done"]
    BY DEF c
  <2> HIDE DEF s
  <2>5. QED
    BY <2>1, <2>3, <2>4
<1> HIDE DEF s
<1>3. ASSUME q.profile.id # NoId PROVE Answered(s, ts)
  <2>1. s.calls = Append(<< >>, call) /\ s.answer = AnswerOf(call)
    BY <1>1, <1>2, <1>3
  <2>2. Len(Append(<< >>, call)) = 1 /\ Append(<< >>, call)[1] = call
    OBVIOUS
  <2>3. QED
    BY <1>2, <1>3, <2>1, <2>2 DEF Answered, AnswerOf
<1>4. ASSUME q.profile.id = NoId PROVE s.answer = "unauthorized"
  BY <1>1, <1>2, <1>4, OAuthAssumption DEF Answers
<1>5. QED
  BY <1>1, <1>2, <1>3, <1>4 DEF Sound, Callback, s

LEMMA EndSound ==
    ASSUME Inv, NEW q, Sound(q, nextId, users, again, tokens), q.pc \in Callback, NEW call \in Call,
           q.profile.id # NoId /\ AnswerOf(call) = "granted"
             => [client |-> q.profile.id, user |-> call.user] \in tokens
    PROVE  Sound([Called(q, call) EXCEPT !.pc = "done"], nextId, users, again, tokens)
<1>1. /\ q \in Session /\ q.profile # Undefined
      /\ q.profile.id = NoId => q.answer = "unauthorized"
      /\ q.profile.id # NoId => q.calls = << >> /\ q.answer = Undefined
  BY DEF Sound, Answered, Callback
<1>2. QED
  BY <1>1, EndCall

LEMMA CallsTyped ==
    /\ Nobody \in Call /\ Failed \in Call
    /\ AnswerOf(Nobody) = "unauthorized" /\ AnswerOf(Failed) = "error"
    /\ \A u \in UserIds : /\ Success(u) \in Call /\ Success(u).user = u
                          /\ AnswerOf(Success(u)) = "granted"
BY Numbers DEF Nobody, Failed, Success, Call, AnswerOf, Optional

LEMMA RaiseMoves ==
    ASSUME Inv, NEW r \in Requests, auth[r].pc \in Callback, Raise(r),
           UNCHANGED <<users, nextId, tokens, fixed, edits, others>>,
           faults' \in 0..MaxFaults
    PROVE  Inv'
<1>1. Sound(auth[r], nextId, users, again, tokens)
  BY DEF Inv, AllSound
<1>2. Sound([Called(auth[r], Failed) EXCEPT !.pc = "done"], nextId, users, again, tokens)
  BY <1>1, CallsTyped, EndSound
<1>3. QED
  BY <1>2, QuietMove DEF Raise

LEMMA SuccessSound ==
    ASSUME Inv, NEW q, Sound(q, nextId, users, again, tokens), q.pc \in Callback,
           NEW u \in UserIds,
           q.profile.id = NoId \/ [client |-> q.profile.id, user |-> u] \in tokens
    PROVE  Sound([Called(q, Success(u)) EXCEPT !.pc = "done"], nextId, users, again, tokens)
BY CallsTyped, EndSound

\* From one query of the callback to the next, with nothing to carry.
LEMMA ProceedSound ==
    ASSUME Inv, NEW q, Sound(q, nextId, users, again, tokens), q.pc \in Callback,
           NEW step \in {"lookup", "preload", "check", "recheck", "insert"},
           NEW user \in Optional(UserIds)
    PROVE  /\ Sound([q EXCEPT !.pc = step], nextId, users, again, tokens)
           /\ Sound([q EXCEPT !.pc = step, !.user = user], nextId, users, again, tokens)
<1>1. /\ q \in Session /\ q.profile # Undefined /\ q.fits
      /\ q.profile.id = NoId => q.answer = "unauthorized"
      /\ q.profile.id # NoId => q.calls = << >> /\ q.answer = Undefined
  BY DEF Sound, Answered, Callback
<1>2. step \in Steps /\ step \in Callback /\ step # "done"
      /\ step \notin {"idle", "exchange", "enter", "info", "reread", "save"}
  BY DEF Steps, Callback
<1> DEFINE s == [q EXCEPT !.pc = step]
           t == [q EXCEPT !.pc = step, !.user = user]
<1>3. /\ s \in Session /\ s.pc = step /\ s.profile = q.profile /\ s.fits = q.fits
      /\ s.calls = q.calls /\ s.answer = q.answer
  BY <1>1, <1>2, GotoFields
<1>4. /\ t \in Session /\ t.pc = step /\ t.profile = q.profile /\ t.fits = q.fits
      /\ t.calls = q.calls /\ t.answer = q.answer
  BY <1>1, <1>2 DEF Session
<1> HIDE DEF s, t
<1>5. Undefined \notin {"granted", "ok"}
  BY OAuthAssumption DEF Answers
<1>6. Sound(s, nextId, users, again, tokens)
  BY <1>1, <1>2, <1>3, <1>5 DEF Sound, Answered, Callback
<1>7. Sound(t, nextId, users, again, tokens)
  BY <1>1, <1>2, <1>4, <1>5 DEF Sound, Answered, Callback
<1>8. QED
  BY <1>6, <1>7 DEF s, t

-----------------------------------------------------------------------------
(***************************************************************************)
(* The routes.                                                             *)
(***************************************************************************)

LEMMA InitInv == Init => Inv
<1> SUFFICES ASSUME Init PROVE Inv
  OBVIOUS
<1>1. Idle \in Session /\ Idle.pc = "idle" /\ Idle.profile = Undefined
      /\ Idle.calls = << >> /\ Idle.answer = Undefined /\ Idle.fits
  BY DEF Idle, Session, Optional, Routes, Steps
<1>2. Sound(Idle, nextId, users, again, tokens)
  BY <1>1, OAuthAssumption DEF Sound, Callback, Answers
<1>3. AllSound
  BY <1>2 DEF Init, AllSound
<1>4. Tables /\ Owners /\ Ahead /\ Distinct
  BY Numbers DEF Init, Tables, Owners, Ahead, Distinct, Optional
<1>5. QED
  BY <1>3, <1>4 DEF Inv

\* Without a profile nothing was called.
LEMMA PlainSound ==
    ASSUME NEW q \in Session, q.profile = Undefined, q.pc \notin Callback,
           q.pc # "done" => q.calls = << >> /\ q.answer = Undefined,
           q.pc # "done" => q.fits, q.answer \notin {"granted", "ok"},
           NEW n, NEW us, NEW ag, NEW ts
    PROVE  Sound(q, n, us, ag, ts)
BY DEF Sound, Callback

LEMMA SameFaults == Inv => faults \in 0..MaxFaults
BY DEF Inv, Tables

LEMMA RequestInv ==
    ASSUME Inv, NEW r \in Requests, Request(r)
    PROVE  Inv'
<1>1. PICK provider \in Providers, route \in Routes :
         Become(r, [Idle EXCEPT
                      !.provider = provider, !.route = route,
                      !.pc = IF route = "signin" THEN "exchange" ELSE "enter",
                      !.front = IF route = "signin" THEN "waiting" ELSE Undefined])
  BY DEF Request
<1> DEFINE pc == IF route = "signin" THEN "exchange" ELSE "enter"
           front == IF route = "signin" THEN "waiting" ELSE Undefined
           q == [Idle EXCEPT !.provider = provider, !.route = route,
                             !.pc = pc, !.front = front]
<1>2. Idle \in [provider: Optional(Providers), route: Routes, pc: Steps,
                profile: {Undefined}, fits: {TRUE}, bearer: {Undefined},
                user: {Undefined}, calls: {<< >>}, answer: {Undefined},
                signed: {Undefined},
                front: Optional({"waiting", "ok", "badRequest"})]
  BY DEF Idle, Optional, Routes, Steps
<1>3. pc \in Steps /\ pc \in {"exchange", "enter"}
      /\ front \in Optional({"waiting", "ok", "badRequest"})
  BY DEF Steps, Optional
<1> HIDE DEF pc, front
<1>4. /\ q \in [provider: Optional(Providers), route: Routes, pc: Steps,
                profile: {Undefined}, fits: {TRUE}, bearer: {Undefined},
                user: {Undefined}, calls: {<< >>}, answer: {Undefined},
                signed: {Undefined},
                front: Optional({"waiting", "ok", "badRequest"})]
      /\ q.pc = pc
  BY <1>2, <1>3 DEF Optional
<1>5. Become(r, q)
  BY <1>1 DEF pc, front
<1> HIDE DEF q
<1>6. << >> \in Seq(Call)
  OBVIOUS
<1>7. /\ q \in Session /\ q.profile = Undefined /\ q.calls = << >>
      /\ q.answer = Undefined /\ q.fits
  BY <1>4, <1>6 DEF Session, Optional
<1>8. Sound(q, nextId, users, again, tokens)
  BY <1>3, <1>4, <1>7, PlainSound, OAuthAssumption DEF Callback, Answers
<1>9. QED
  BY <1>5, <1>8, QuietMove, SameFaults DEF Request


LEMMA FrontSound ==
    ASSUME Inv, NEW q, Sound(q, nextId, users, again, tokens), NEW front \in {"ok", "badRequest"}
    PROVE  Sound([q EXCEPT !.front = front], nextId, users, again, tokens)
<1> DEFINE s == [q EXCEPT !.front = front]
<1>1. /\ s \in Session /\ s.pc = q.pc /\ s.profile = q.profile /\ s.user = q.user
      /\ s.calls = q.calls /\ s.answer = q.answer /\ s.fits = q.fits
      /\ s.bearer = q.bearer /\ s.signed = q.signed
  BY DEF Sound, Session, Optional
<1> HIDE DEF s
<1>2. Sound(s, nextId, users, again, tokens)
  BY <1>1 DEF Sound, Answered
<1>3. QED
  BY <1>2 DEF s

\* A request that ends before there is a profile.
LEMMA TurnSound ==
    ASSUME Inv, NEW q, Sound(q, nextId, users, again, tokens), q.pc \in {"exchange", "enter"}
    PROVE  /\ \A front \in {"ok", "badRequest"} :
                Sound([q EXCEPT !.pc = "done", !.front = front], nextId, users, again, tokens)
           /\ \A answer \in {"badRequest", "error", "unauthorized"} :
                Sound([q EXCEPT !.pc = "done", !.answer = answer], nextId, users, again, tokens)
           /\ Sound([q EXCEPT !.pc = "enter"], nextId, users, again, tokens)
<1>1. /\ q \in Session /\ q.profile = Undefined /\ q.calls = << >>
      /\ q.answer = Undefined /\ q.fits /\ Undefined \notin {"granted", "ok"}
  BY OAuthAssumption DEF Sound, Callback, Answers
<1>2. ASSUME NEW front \in {"ok", "badRequest"}
      PROVE  Sound([q EXCEPT !.pc = "done", !.front = front], nextId, users, again, tokens)
  <2> DEFINE s == [q EXCEPT !.pc = "done", !.front = front]
  <2>1. /\ s \in Session /\ s.pc = "done" /\ s.profile = Undefined
        /\ s.answer = Undefined
    BY <1>1 DEF Session, Optional, Steps
  <2> HIDE DEF s
  <2>2. Sound(s, nextId, users, again, tokens)
    BY <1>1, <2>1 DEF Sound, Callback
  <2>3. QED
    BY <2>2 DEF s
<1>3. ASSUME NEW answer \in {"badRequest", "error", "unauthorized"}
      PROVE  Sound([q EXCEPT !.pc = "done", !.answer = answer], nextId, users, again, tokens)
  <2> DEFINE s == [q EXCEPT !.pc = "done", !.answer = answer]
  <2>1. /\ s \in Session /\ s.pc = "done" /\ s.profile = Undefined
        /\ s.answer = answer
    BY <1>1 DEF Session, Optional, Steps, Answers
  <2> HIDE DEF s
  <2>2. Sound(s, nextId, users, again, tokens)
    BY <1>1, <2>1 DEF Sound, Callback
  <2>3. QED
    BY <2>2 DEF s
<1>4. Sound([q EXCEPT !.pc = "enter"], nextId, users, again, tokens)
  <2> DEFINE s == [q EXCEPT !.pc = "enter"]
  <2>1. /\ s \in Session /\ s.pc = "enter" /\ s.profile = Undefined
        /\ s.answer = Undefined /\ s.calls = << >> /\ s.fits
    BY <1>1 DEF Session, Steps
  <2> HIDE DEF s
  <2>2. Sound(s, nextId, users, again, tokens)
    BY <1>1, <2>1 DEF Sound, Callback
  <2>3. QED
    BY <2>2 DEF s
<1>5. QED
  BY <1>2, <1>3, <1>4

LEMMA FrontInv ==
    ASSUME Inv, NEW r \in Requests, Exchange(r) \/ Relay(r) \/ Lost(r) \/ TurnedAway(r)
    PROVE  Inv'
<1>1. Sound(auth[r], nextId, users, again, tokens)
  BY DEF Inv, AllSound
<1>2. /\ UNCHANGED <<users, nextId, tokens, fixed, edits, others>>
      /\ faults' \in 0..MaxFaults
  BY SameFaults, Numbers DEF Exchange, Relay, Lost, TurnedAway
<1>3. CASE Exchange(r)
  BY <1>1, <1>2, <1>3, TurnSound, QuietMove DEF Exchange, At, Goto
<1>4. CASE Relay(r)
  BY <1>1, <1>2, <1>4, FrontSound, QuietMove DEF Relay
<1>5. CASE Lost(r)
  <2>1. CASE auth[r].pc = "exchange"
    <3>1. Become(r, [auth[r] EXCEPT !.pc = "done", !.front = "badRequest"])
      BY <1>5, <2>1 DEF Lost, Become
    <3>2. QED
      BY <1>1, <1>2, <2>1, <3>1, TurnSound, QuietMove
  <2>2. CASE auth[r].pc # "exchange"
    <3>1. auth[r] \in Session
      BY <1>1 DEF Sound
    <3>2. [auth[r] EXCEPT !.front = "badRequest", !.pc = auth[r].pc]
            = [auth[r] EXCEPT !.front = "badRequest"]
      BY <3>1 DEF Session
    <3>3. Become(r, [auth[r] EXCEPT !.front = "badRequest"])
      BY <1>5, <2>2, <3>2 DEF Lost, Become
    <3>4. QED
      BY <1>1, <1>2, <3>3, FrontSound, QuietMove
  <2>3. QED
    BY <2>1, <2>2
<1>6. CASE TurnedAway(r)
  <2>1. PICK answer \in {"badRequest", "error", "unauthorized"} :
          Become(r, [auth[r] EXCEPT !.pc = "done", !.answer = answer])
    BY <1>6 DEF TurnedAway, Turn
  <2>2. auth[r].pc = "enter"
    BY <1>6 DEF TurnedAway, At
  <2>3. QED
    BY <1>1, <1>2, <2>1, <2>2, TurnSound, QuietMove
<1>7. QED
  BY <1>3, <1>4, <1>5, <1>6

\* A request whose profile has come.
LEMMA NoticedFields ==
    ASSUME Inv, NEW q, Sound(q, nextId, users, again, tokens),
           q.pc = "enter", NEW profile \in Profiles
    PROVE  /\ Noticed(q, profile) \in Session
           /\ Noticed(q, profile).profile = profile
           /\ profile # Undefined
           /\ Noticed(q, profile).fits
           /\ profile.id = NoId => Noticed(q, profile).answer = "unauthorized"
           /\ profile.id # NoId => /\ Noticed(q, profile).calls = << >>
                                   /\ Noticed(q, profile).answer = Undefined
<1> DEFINE known == [q EXCEPT !.profile = profile]
<1>1. /\ q \in Session /\ q.calls = << >> /\ q.answer = Undefined
      /\ q.fits /\ profile # Undefined
  BY OAuthAssumption DEF Sound, Callback
<1>2. /\ known \in Session /\ known.profile = profile /\ known.calls = << >>
      /\ known.answer = Undefined /\ known.fits
  BY <1>1 DEF Session, Optional
<1> HIDE DEF known
<1>3. CASE profile.id = NoId
  <2>1. Noticed(q, profile) = Called(known, Nobody)
    BY <1>3 DEF Noticed, known
  <2>2. /\ Called(known, Nobody) \in Session
        /\ Called(known, Nobody).profile = profile
        /\ Called(known, Nobody).answer = "unauthorized"
        /\ Called(known, Nobody).fits
    BY <1>2, CalledFields, CallsTyped
  <2>3. QED
    BY <1>1, <1>3, <2>1, <2>2
<1>4. CASE profile.id # NoId
  <2>1. Noticed(q, profile) = known
    BY <1>4 DEF Noticed, known
  <2>2. QED
    BY <1>1, <1>2, <1>4, <2>1
<1>5. QED
  BY <1>3, <1>4

LEMMA VerifyInv ==
    ASSUME Inv, NEW r \in Requests, VerifyGoogle(r) \/ VerifyFacebook(r)
    PROVE  Inv'
<1>1. Sound(auth[r], nextId, users, again, tokens) /\ auth[r].pc = "enter"
  BY DEF Inv, AllSound, VerifyGoogle, VerifyFacebook, At
<1>2. /\ UNCHANGED <<users, nextId, tokens, fixed, edits, others>>
      /\ faults' \in 0..MaxFaults
  BY SameFaults DEF VerifyGoogle, VerifyFacebook
<1>3. CASE VerifyGoogle(r)
  <2>1. PICK profile \in Profiles :
          Become(r, [Noticed(auth[r], profile) EXCEPT !.pc = "lookup"])
    BY <1>3 DEF VerifyGoogle
  <2> DEFINE c == Noticed(auth[r], profile)
             s == [c EXCEPT !.pc = "lookup"]
  <2>2. /\ c \in Session /\ c.profile = profile /\ profile # Undefined /\ c.fits
        /\ profile.id = NoId => c.answer = "unauthorized"
        /\ profile.id # NoId => c.calls = << >> /\ c.answer = Undefined
    BY <1>1, NoticedFields
  <2> HIDE DEF c
  <2>3. "lookup" \in Steps
    BY DEF Steps
  <2>4. /\ s \in Session /\ s.pc = "lookup" /\ s.profile = c.profile
        /\ s.calls = c.calls /\ s.answer = c.answer /\ s.fits = c.fits
    BY <2>2, <2>3, GotoFields
  <2> HIDE DEF s
  <2>5. Sound(s, nextId, users, again, tokens)
    BY <2>2, <2>4, OAuthAssumption DEF Sound, Answered, Answers, Callback
  <2>6. Become(r, s)
    BY <2>1 DEF s, c
  <2>7. QED
    BY <1>2, <2>5, <2>6, QuietMove
<1>4. CASE VerifyFacebook(r)
  <2>1. PICK profile \in Profiles :
          Become(r, [Called(Noticed(auth[r], profile), Failed) EXCEPT !.pc = "done"])
    BY <1>4 DEF VerifyFacebook
  <2> DEFINE c == Noticed(auth[r], profile)
  <2>2. /\ c \in Session /\ c.profile = profile /\ profile # Undefined
        /\ profile.id = NoId => c.answer = "unauthorized"
        /\ profile.id # NoId => c.calls = << >> /\ c.answer = Undefined
    BY <1>1, NoticedFields
  <2> HIDE DEF c
  <2>3. Sound([Called(c, Failed) EXCEPT !.pc = "done"], nextId, users, again, tokens)
    BY <2>2, CallsTyped, EndCall
  <2>4. Become(r, [Called(c, Failed) EXCEPT !.pc = "done"])
    BY <2>1 DEF c
  <2>5. QED
    BY <1>2, <2>3, <2>4, QuietMove
<1>5. QED
  BY <1>3, <1>4


-----------------------------------------------------------------------------
(***************************************************************************)
(* The callback.                                                           *)
(***************************************************************************)

LEMMA LookupInv ==
    ASSUME Inv, NEW r \in Requests, Lookup(r)
    PROVE  Inv'
<1> DEFINE client == auth[r].profile.id
<1>1. /\ Sound(auth[r], nextId, users, again, tokens)
      /\ auth[r].pc = "lookup"
      /\ auth[r].pc \in Callback
  BY DEF Inv, AllSound, Lookup, At, Callback
<1>2. /\ UNCHANGED <<users, nextId, tokens, fixed, edits, others>>
      /\ faults' \in 0..MaxFaults
  BY SameFaults DEF Lookup
<1>3. CASE Goto(r, "preload")
  BY <1>1, <1>2, <1>3, ProceedSound, QuietMove DEF Goto, Optional
<1>4. CASE \E token \in Candidates(client) :
             Become(r, [auth[r] EXCEPT !.pc = "info", !.user = token.user])
  <2>1. PICK token \in Candidates(client) :
             Become(r, [auth[r] EXCEPT !.pc = "info", !.user = token.user])
    BY <1>4
  <2> DEFINE s == [auth[r] EXCEPT !.pc = "info", !.user = token.user]
  <2>2. /\ token \in tokens
        /\ client # NoId => token.client = client
    BY DEF Candidates, TokensOf
  <2>3. token \in Token
    BY <2>2 DEF Inv, Tables
  <2>4. token.user \in UserIds /\ token = [client |-> token.client, user |-> token.user]
    BY <2>3 DEF Token
  <2>5. /\ auth[r] \in Session /\ auth[r].profile # Undefined /\ auth[r].fits
        /\ client = NoId => auth[r].answer = "unauthorized"
        /\ client # NoId => auth[r].calls = << >> /\ auth[r].answer = Undefined
    BY <1>1 DEF Sound, Answered
  <2>6. /\ s \in Session /\ s.pc = "info" /\ s.profile = auth[r].profile
        /\ s.user = token.user /\ s.calls = auth[r].calls
        /\ s.answer = auth[r].answer /\ s.fits
    BY <2>4, <2>5 DEF Session, Steps, Optional
  <2>7. Become(r, s)
    BY <2>1
  <2> HIDE DEF s
  <2>8. Sound(s, nextId, users, again, tokens)
    BY <2>2, <2>4, <2>5, <2>6, OAuthAssumption DEF Sound, Answered, Answers
  <2>9. QED
    BY <1>2, <2>7, <2>8, QuietMove
<1>5. QED
  BY <1>3, <1>4 DEF Lookup

LEMMA InfoInv ==
    ASSUME Inv, NEW r \in Requests, Info(r)
    PROVE  Inv'
<1>1. /\ Sound(auth[r], nextId, users, again, tokens) /\ auth[r].pc = "info"
      /\ auth[r].pc \in Callback
  BY DEF Inv, AllSound, Info, At, Callback
<1>2. /\ UNCHANGED <<users, nextId, tokens, fixed, edits, others>>
      /\ faults' \in 0..MaxFaults
  BY SameFaults DEF Info
<1>3. CASE Become(r, [auth[r] EXCEPT !.pc = "preload", !.user = Undefined])
  BY <1>1, <1>2, <1>3, ProceedSound, QuietMove DEF Optional
<1>4. CASE Become(r, [Called(auth[r], Success(auth[r].user)) EXCEPT !.pc = "done"])
  <2>1. /\ auth[r].user \in UserIds
        /\ \/ auth[r].profile.id = NoId
           \/ [client |-> auth[r].profile.id, user |-> auth[r].user] \in tokens
    BY <1>1 DEF Sound
  <2>2. QED
    BY <1>1, <1>2, <1>4, <2>1, SuccessSound, QuietMove
<1>5. QED
  BY <1>3, <1>4 DEF Info

LEMMA ChecksInv ==
    ASSUME Inv, NEW r \in Requests,
           Preload(r) \/ Check(r, "check", "recheck") \/ Check(r, "recheck", "insert")
    PROVE  Inv'
<1>1. Sound(auth[r], nextId, users, again, tokens) /\ auth[r].pc \in Callback
  BY DEF Inv, AllSound, Preload, Check, At, Callback
<1>2. /\ UNCHANGED <<users, nextId, tokens, fixed, edits, others>>
      /\ faults' \in 0..MaxFaults
  BY SameFaults DEF Preload, Check
<1>3. CASE Raise(r)
  BY <1>1, <1>2, <1>3, RaiseMoves
<1>4. CASE \E step \in {"check", "recheck", "insert"} :
             Become(r, [auth[r] EXCEPT !.pc = step])
  BY <1>1, <1>2, <1>4, ProceedSound, QuietMove DEF Optional
<1>5. QED
  BY <1>3, <1>4 DEF Preload, Check, Goto

LEMMA RereadInv ==
    ASSUME Inv, NEW r \in Requests, Reread(r)
    PROVE  Inv'
<1>1. /\ Sound(auth[r], nextId, users, again, tokens) /\ auth[r].pc = "reread"
      /\ auth[r].pc \in Callback
  BY DEF Inv, AllSound, Reread, Rereading, At, Callback
<1>2. /\ UNCHANGED <<users, nextId, tokens, fixed, edits, others>>
      /\ faults' \in 0..MaxFaults
  BY SameFaults DEF Reread, Rereading
<1>3. CASE Raise(r)
  BY <1>1, <1>2, <1>3, RaiseMoves
<1>4. CASE Become(r, [auth[r] EXCEPT !.pc = "save"])
  <2> DEFINE s == [auth[r] EXCEPT !.pc = "save"]
  <2>1. auth[r] \in Session /\ "save" \in Steps
    BY <1>1 DEF Sound, Steps
  <2>2. /\ s \in Session /\ s.pc = "save" /\ s.profile = auth[r].profile
        /\ s.user = auth[r].user /\ s.calls = auth[r].calls
        /\ s.answer = auth[r].answer /\ s.fits = auth[r].fits
    BY <2>1, GotoFields
  <2> HIDE DEF s
  <2>3. Sound(s, nextId, users, again, tokens)
    BY <1>1, <2>2, OAuthAssumption DEF Sound, Answered, Answers, Callback
  <2>4. QED
    BY <1>2, <1>4, <2>3, QuietMove DEF s
<1>5. QED
  BY <1>3, <1>4 DEF Reread, Rereading

LEMMA QueryFailsInv ==
    ASSUME Inv, NEW r \in Requests, QueryFails(r)
    PROVE  Inv'
<1>1. Sound(auth[r], nextId, users, again, tokens) /\ auth[r].pc \in Callback
  BY DEF Inv, AllSound, QueryFails, At, Callback
<1>2. /\ UNCHANGED <<users, nextId, tokens, fixed, edits, others>>
      /\ faults' \in 0..MaxFaults
  BY SameFaults, Numbers DEF QueryFails
<1>3. CASE Raise(r)
  BY <1>1, <1>2, <1>3, RaiseMoves
<1>4. CASE Become(r, [auth[r] EXCEPT !.pc = "preload", !.user = Undefined])
  BY <1>1, <1>2, <1>4, ProceedSound, QuietMove DEF Optional
<1>5. CASE \E step \in {"recheck", "insert"} : Become(r, [auth[r] EXCEPT !.pc = step])
  BY <1>1, <1>2, <1>5, ProceedSound, QuietMove DEF Optional
<1>6. QED
  BY <1>3, <1>4, <1>5 DEF QueryFails, Goto

\* The user that done() handed over has a token, so the guard has somebody to
\* let through or to replace.
LEMMA SignInv ==
    ASSUME Inv, NEW r \in Requests, Sign(r)
    PROVE  Inv'
<1>1. Sound(auth[r], nextId, users, again, tokens) /\ auth[r].answer = "granted"
  BY DEF Inv, AllSound, Sign
<1>2. /\ auth[r] \in Session /\ auth[r].pc = "done"
      /\ auth[r].profile # Undefined /\ auth[r].profile.id # NoId
      /\ Answered(auth[r], tokens)
  BY <1>1, OAuthAssumption DEF Sound, Answered, Answers
<1>3. /\ UNCHANGED <<users, nextId, tokens, fixed, edits, others>>
      /\ faults' \in 0..MaxFaults
  BY SameFaults DEF Sign
<1>4. [client |-> auth[r].profile.id, user |-> auth[r].calls[1].user] \in Token
  BY <1>1, <1>2 DEF Answered, Inv, Tables
<1>5. auth[r].calls[1].user \in UserIds
  BY <1>4 DEF Token
<1>6. PICK bearer \in Optional(UserIds) :
        Become(r, [auth[r] EXCEPT
                     !.answer = "ok", !.bearer = bearer,
                     !.signed = IF bearer = Undefined THEN auth[r].calls[1].user
                                ELSE bearer])
  <2>1. Optional(Bearers(auth[r].route)) \subseteq Optional(UserIds)
    BY OAuthAssumption DEF Bearers, Optional
  <2>2. QED
    BY <2>1 DEF Sign
<1> DEFINE signed == IF bearer = Undefined THEN auth[r].calls[1].user ELSE bearer
           s == [auth[r] EXCEPT !.answer = "ok", !.bearer = bearer, !.signed = signed]
<1>7. /\ signed \in Optional(UserIds)
      /\ bearer = Undefined => signed = auth[r].calls[1].user
  BY <1>5 DEF Optional
<1>8. Become(r, s)
  BY <1>6
<1> HIDE DEF signed
<1>9. /\ s \in Session /\ s.pc = "done" /\ s.profile = auth[r].profile
      /\ s.calls = auth[r].calls /\ s.answer = "ok" /\ s.bearer = bearer
      /\ s.signed = signed
  BY <1>2, <1>7 DEF Session, Optional, Answers
<1> HIDE DEF s
<1>10. Sound(s, nextId, users, again, tokens)
  BY <1>1, <1>2, <1>7, <1>9 DEF Sound, Answered, Callback
<1>11. QED
  BY <1>3, <1>8, <1>10, QuietMove

\* Where nobody has the row's name or address, it can be put.
LEMMA StillDistinct ==
    ASSUME Inv, NEW u \in UserIds, NEW row, ~Taken(row, u),
           users' = [users EXCEPT ![u] = row]
    PROVE  Distinct'
<1>1. \A v \in UserIds : users'[v] = IF v = u THEN row ELSE users[v]
  BY DEF Inv, Tables
<1>2. \A v \in UserIds \ {u} :
         users[v] # Undefined => users[v].email # row.email /\ users[v].name # row.name
  BY DEF Taken
<1>3. QED
  BY <1>1, <1>2 DEF Inv, Distinct

LEMMA RowsOf ==
    ASSUME NEW account, account.email \in Emails, account.name \in Usernames,
           NEW client \in Optional(Clients)
    PROVE  /\ RowOf(account, client) \in Row
           /\ RowOf(account, client).of = client
           /\ \A u \in Optional(UserIds) \cup {0} :
                ~Taken(account, u) => ~Taken(RowOf(account, client), u)
BY DEF RowOf, Row, Taken

\* What the tables are when an id was drawn and nothing was inserted.
LEMMA Drawn ==
    ASSUME Inv, nextId <= MaxId, nextId' = nextId + 1,
           UNCHANGED <<users, tokens, fixed, faults, others>>, edits' \in 0..MaxEdits
    PROVE  Growing /\ Tables' /\ Owners' /\ Ahead' /\ Distinct'
<1>1. Growing
  BY Numbers DEF Growing, Inv, Tables, others
<1>2. Tables'
  BY Numbers DEF Inv, Tables, fixed, others
<1>3. Owners'
  BY <1>1, OwnsGrows DEF Inv, Owners
<1>4. Ahead'
  <2>1. \A u \in UserIds : u >= nextId' => u >= nextId
    BY Numbers DEF Inv, Tables
  <2>2. QED
    BY <2>1 DEF Inv, Ahead, others
<1>5. Distinct'
  BY DEF Inv, Distinct
<1>6. QED
  BY <1>1, <1>2, <1>3, <1>4, <1>5

\* What the tables are when a row was put at u.
LEMMA Put ==
    ASSUME Inv, NEW u \in UserIds, NEW row \in Row, ~Taken(row, u),
           users' = [users EXCEPT ![u] = row],
           UNCHANGED <<tokens, fixed, faults>>, edits' \in 0..MaxEdits,
           nextId' \in 1..(MaxId + 1), nextId <= nextId',
           was' \in [UserIds -> SUBSET Row],
           again' \in SUBSET UserIds, again \subseteq again',
           u < nextId => u \in again' \/ (users[u] # Undefined /\ row.of = users[u].of),
           u >= nextId' => row.of = Undefined,
           \A v \in UserIds : v >= nextId' => \A old \in was'[v] : old.of = Undefined
    PROVE  Growing /\ Tables' /\ Owners' /\ Ahead' /\ Distinct'
<1>1. /\ \A v \in UserIds : users'[v] = IF v = u THEN row ELSE users[v]
      /\ row # Undefined
  BY OAuthAssumption DEF Inv, Tables
<1>2. Growing
  BY <1>1, Numbers DEF Growing, Inv, Tables
<1>3. Tables'
  BY <1>1 DEF Inv, Tables, fixed, Optional
<1>4. Owners'
  <2>1. SUFFICES ASSUME NEW t \in tokens
                 PROVE  /\ Owns(t.user, t.client, nextId', users', again')
                        /\ users'[t.user] # Undefined
    BY DEF Owners
  <2>2. Owns(t.user, t.client, nextId, users, again) /\ users[t.user] # Undefined
    BY DEF Inv, Owners
  <2>3. QED
    BY <1>1, <1>2, <2>2, OwnsGrows DEF Inv, Owns
<1>5. Ahead'
  <2>1. \A v \in UserIds : v >= nextId' => v >= nextId
    BY Numbers DEF Inv, Tables
  <2>2. QED
    BY <1>1, <2>1 DEF Inv, Ahead
<1>6. Distinct'
  BY StillDistinct
<1>7. QED
  BY <1>2, <1>3, <1>4, <1>5, <1>6

\* A request moves and the tables do not stay.
LEMMA Moved ==
    ASSUME Inv, Growing, Tables', Owners', Ahead', Distinct', NEW r \in Requests, NEW q,
           Become(r, q), Sound(q, nextId', users', again', tokens')
    PROVE  Inv'
BY AllStaySound DEF Inv

LEMMA InsertInv ==
    ASSUME Inv, NEW r \in Requests, Insert(r)
    PROVE  Inv'
<1> DEFINE client == auth[r].profile.id
           account == SignUpAccount(auth[r].profile)
           row == RowOf(account, client)
           s == [auth[r] EXCEPT !.pc = "reread", !.user = nextId]
           t == [Called(auth[r], Failed) EXCEPT !.pc = "done"]
<1>1. /\ Sound(auth[r], nextId, users, again, tokens) /\ auth[r].pc = "insert"
      /\ auth[r].pc \in Callback
  BY DEF Inv, AllSound, Insert, At, Callback
<1>2. UNCHANGED <<tokens, fixed, edits, faults, others>> /\ edits' \in 0..MaxEdits
  BY DEF Insert, Inv, Tables
<1>3. CASE Raise(r) /\ UNCHANGED <<users, nextId>>
  BY <1>1, <1>2, <1>3, RaiseMoves, SameFaults
<1>4. CASE nextId <= MaxId /\ nextId' = nextId + 1 /\ Raise(r) /\ UNCHANGED users
  <2>1. Growing /\ Tables' /\ Owners' /\ Ahead' /\ Distinct'
    BY <1>2, <1>4, Drawn
  <2>2. Sound(t, nextId, users, again, tokens)
    BY <1>1, CallsTyped, EndSound
  <2> HIDE DEF t
  <2>3. Sound(t, nextId', users', again', tokens')
    BY <2>1, <2>2, SoundGrows DEF Inv
  <2>4. Become(r, t)
    BY <1>4 DEF Raise, t
  <2>5. QED
    BY <2>1, <2>3, <2>4, Moved
<1>5. CASE /\ users[nextId] = Undefined /\ ~Taken(account, 0)
           /\ nextId <= MaxId /\ nextId' = nextId + 1
           /\ users' = [users EXCEPT ![nextId] = row]
           /\ Become(r, s)
  <2>1. nextId \in UserIds /\ nextId \in Nat
    BY <1>5, Numbers DEF Inv, Tables, UserIds
  <2>2. auth[r].profile \in Profile /\ auth[r] \in Session
    BY <1>1, OAuthAssumption DEF Sound, Session, Optional
  <2>3. client \in Clients /\ account.email \in Emails /\ account.name \in Usernames
    BY <2>2, OAuthAssumption DEF Profile, SignUpAccount, Optional
  <2> HIDE DEF account
  <2>4. row \in Row /\ row.of = client /\ ~Taken(row, 0)
    BY <1>5, <2>3, RowsOf DEF Optional
  <2> HIDE DEF row
  <2>5. ~Taken(row, nextId)
    BY <2>4, Numbers DEF Taken, UserIds
  <2>6. /\ auth[r].profile # Undefined /\ auth[r].fits
        /\ client = NoId => auth[r].answer = "unauthorized"
        /\ client # NoId => auth[r].calls = << >> /\ auth[r].answer = Undefined
    BY <1>1 DEF Sound, Answered
  <2>7. /\ s \in Session /\ s.pc = "reread" /\ s.profile = auth[r].profile
        /\ s.user = nextId /\ s.calls = auth[r].calls /\ s.answer = auth[r].answer
        /\ s.fits
    BY <2>1, <2>2, <2>6 DEF Session, Steps, Optional
  <2> HIDE DEF s
  <2>8. \A v \in UserIds : v >= nextId' => \A old \in was'[v] : old.of = Undefined
    <3>1. \A v \in UserIds : v >= nextId + 1 => v >= nextId
      BY <2>1, Numbers
    <3>2. QED
      BY <1>2, <1>5, <3>1 DEF Inv, Ahead, others
  <2>9. /\ ~(nextId < nextId) /\ ~(nextId >= nextId')
        /\ nextId' \in 1..(MaxId + 1) /\ nextId <= nextId'
    BY <1>5, <2>1, Numbers DEF Inv, Tables
  <2>10. /\ was' \in [UserIds -> SUBSET Row] /\ again' \in SUBSET UserIds
         /\ again \subseteq again'
    BY <1>2 DEF Inv, Tables, others
  <2>11. Growing /\ Tables' /\ Owners' /\ Ahead' /\ Distinct'
    BY <1>2, <1>5, <2>1, <2>4, <2>5, <2>8, <2>9, <2>10, Put
  <2>12. users'[nextId] = row /\ nextId < nextId'
    BY <1>5, <2>1 DEF Inv, Tables
  <2>13. Owns(nextId, client, nextId', users', again')
    BY <2>1, <2>4, <2>12 DEF Owns
  <2>14. Sound(s, nextId', users', again', tokens')
    BY <2>6, <2>7, <2>13, OAuthAssumption DEF Sound, Answered, Answers, Callback
  <2>15. QED
    BY <1>5, <2>11, <2>14, Moved
<1>6. QED
  BY <1>3, <1>4, <1>5 DEF Insert, Duplicate

LEMMA SaveInv ==
    ASSUME Inv, NEW r \in Requests, Save(r)
    PROVE  Inv'
<1> DEFINE client == auth[r].profile.id
           user == auth[r].user
<1>1. /\ Sound(auth[r], nextId, users, again, tokens) /\ auth[r].pc = "save"
      /\ auth[r].pc \in Callback
  BY DEF Inv, AllSound, Save, At, Callback
<1>2. UNCHANGED <<users, nextId, fixed, edits, faults, others>>
  BY DEF Save
<1>3. PICK fits \in BOOLEAN :
        \/ /\ Become(r, [Called([auth[r] EXCEPT !.fits = fits], Failed) EXCEPT !.pc = "done"])
           /\ UNCHANGED tokens
        \/ /\ client # NoId /\ users[user] # Undefined
           /\ tokens' = tokens \cup {[client |-> client, user |-> user]}
           /\ Become(r, [Called([auth[r] EXCEPT !.fits = fits], Success(user))
                           EXCEPT !.pc = "done"])
  BY DEF Save, Acceptable
<1> DEFINE sent == [auth[r] EXCEPT !.fits = fits]
<1>4. /\ sent \in Session /\ sent.profile = auth[r].profile /\ sent.profile # Undefined
      /\ client = NoId => sent.answer = "unauthorized"
      /\ client # NoId => sent.calls = << >> /\ sent.answer = Undefined
  BY <1>1 DEF Sound, Answered, Session
<1>5. Owns(user, client, nextId, users, again) /\ user \in UserIds
  BY <1>1 DEF Sound, Owns
<1> HIDE DEF sent
<1>6. CASE /\ Become(r, [Called(sent, Failed) EXCEPT !.pc = "done"])
           /\ UNCHANGED tokens
  <2>1. Sound([Called(sent, Failed) EXCEPT !.pc = "done"], nextId, users, again, tokens)
    BY <1>4, CallsTyped, EndCall
  <2>2. QED
    BY <1>2, <1>6, <2>1, QuietMove, SameFaults
<1>7. CASE /\ client # NoId /\ users[user] # Undefined
           /\ tokens' = tokens \cup {[client |-> client, user |-> user]}
           /\ Become(r, [Called(sent, Success(user)) EXCEPT !.pc = "done"])
  <2>1. client \in ClientIds
    BY <1>1, <1>4, <1>7, OAuthAssumption DEF Sound, Session, Optional, Profile, Clients
  <2>2. Growing
    BY <1>2, <1>7 DEF Growing, Inv, Tables, others
  <2>3. Tables'
    BY <1>2, <1>5, <1>7, <2>1 DEF Inv, Tables, Token, fixed, others
  <2>4. Owners'
    BY <1>2, <1>5, <1>7 DEF Inv, Owners, others
  <2>5. Ahead' /\ Distinct'
    BY <1>2 DEF Inv, Ahead, Distinct, others
  <2>6. Sound([Called(sent, Success(user)) EXCEPT !.pc = "done"],
              nextId', users', again', tokens')
    <3>1. Success(user) \in Call /\ Success(user).user = user
      BY <1>5, CallsTyped
    <3>2. QED
      BY <1>4, <1>7, <3>1, EndCall
  <2>7. QED
    BY <1>7, <2>2, <2>3, <2>4, <2>5, <2>6, Moved
<1>8. QED
  BY <1>3, <1>6, <1>7 DEF sent

-----------------------------------------------------------------------------
(***************************************************************************)
(* Everybody else, and the theorems.                                       *)
(***************************************************************************)

LEMMA StayingSound ==
    ASSUME Inv, Growing, UNCHANGED auth PROVE AllSound'
<1>1. \A s \in Requests : Sound(auth[s], nextId', users', again', tokens')
  BY SoundGrows DEF Inv, AllSound
<1>2. QED
  BY <1>1 DEF Inv, AllSound

LEMMA Stayed ==
    ASSUME Inv, Growing, Tables', Owners', Ahead', Distinct', UNCHANGED auth
    PROVE  Inv'
BY StayingSound DEF Inv

LEMMA EditMeans ==
    ASSUME Inv, Edit
    PROVE  /\ UNCHANGED <<tokens, auth, fixed, faults>>
           /\ edits' \in 0..MaxEdits
BY Numbers DEF Edit, Inv, Tables

LEMMA LocalRows ==
    ASSUME NEW account \in Locals
    PROVE  /\ account.email \in Emails /\ account.name \in Usernames
BY OAuthAssumption DEF Account

LEMMA RegisterInv == ASSUME Inv, Register PROVE Inv'
<1>1. /\ nextId <= MaxId /\ nextId' = nextId + 1
      /\ UNCHANGED <<tokens, auth, fixed, faults, others>>
      /\ edits' \in 0..MaxEdits
  BY EditMeans DEF Register
<1>2. CASE UNCHANGED users
  BY <1>1, <1>2, Drawn, Stayed
<1>3. CASE \E account \in Locals :
             /\ users[nextId] = Undefined /\ ~Taken(account, 0)
             /\ users' = [users EXCEPT ![nextId] = RowOf(account, Undefined)]
  <2>1. PICK account \in Locals :
             /\ users[nextId] = Undefined /\ ~Taken(account, 0)
             /\ users' = [users EXCEPT ![nextId] = RowOf(account, Undefined)]
    BY <1>3
  <2> DEFINE row == RowOf(account, Undefined)
  <2>2. nextId \in UserIds /\ nextId \in Nat
    BY <1>1, Numbers DEF Inv, Tables, UserIds
  <2>3. row \in Row /\ row.of = Undefined /\ ~Taken(row, 0)
    BY <2>1, LocalRows, RowsOf DEF Optional
  <2>4. users' = [users EXCEPT ![nextId] = row]
    BY <2>1
  <2> HIDE DEF row
  <2>5. ~Taken(row, nextId)
    BY <2>3, Numbers DEF Taken, UserIds
  <2>6. \A v \in UserIds : v >= nextId' => \A old \in was'[v] : old.of = Undefined
    <3>1. \A v \in UserIds : v >= nextId + 1 => v >= nextId
      BY <2>2, Numbers
    <3>2. QED
      BY <1>1, <3>1 DEF Inv, Ahead, others
  <2>7. /\ ~(nextId < nextId) /\ nextId' \in 1..(MaxId + 1) /\ nextId <= nextId'
    BY <1>1, <2>2, Numbers DEF Inv, Tables
  <2>8. /\ was' \in [UserIds -> SUBSET Row] /\ again' \in SUBSET UserIds
        /\ again \subseteq again'
    BY <1>1 DEF Inv, Tables, others
  <2>9. Growing /\ Tables' /\ Owners' /\ Ahead' /\ Distinct'
    BY <1>1, <2>2, <2>3, <2>4, <2>5, <2>6, <2>7, <2>8, Put
  <2>10. QED
    BY <1>1, <2>9, Stayed
<1>4. QED
  BY <1>2, <1>3 DEF Register, Duplicate

\* An INSERT with an id gives the observation that it was not the sequence's.
LEMMA InsertAsInv ==
    ASSUME Inv, Edit, UNCHANGED <<nextId, was>>, NEW u \in UserIds, NEW row \in Row,
           u >= nextId => row.of = Undefined, InsertAs(u, row)
    PROVE  Inv'
<1>1. /\ ~Taken(row, u) /\ users' = [users EXCEPT ![u] = row]
      /\ again' \in SUBSET UserIds /\ again \subseteq again'
      /\ u < nextId => u \in again'
  BY DEF InsertAs, Duplicate, Inv, Tables
<1>2. /\ nextId' \in 1..(MaxId + 1) /\ nextId <= nextId'
      /\ was' \in [UserIds -> SUBSET Row]
      /\ \A v \in UserIds : v >= nextId' => \A old \in was'[v] : old.of = Undefined
  BY DEF Inv, Tables, Ahead
<1>3. Growing /\ Tables' /\ Owners' /\ Ahead' /\ Distinct'
  BY <1>1, <1>2, EditMeans, Put
<1>4. QED
  BY <1>3, EditMeans, Stayed

LEMMA RegisterAsInv == ASSUME Inv, NEW u \in UserIds, RegisterAs(u) PROVE Inv'
<1>1. PICK account \in Locals : InsertAs(u, RowOf(account, Undefined))
  BY DEF RegisterAs
<1>2. RowOf(account, Undefined) \in Row /\ RowOf(account, Undefined).of = Undefined
  BY LocalRows, RowsOf DEF Optional
<1>3. QED
  BY <1>1, <1>2, InsertAsInv DEF RegisterAs

\* What requests remember of a user is rows that the user had.
LEMMA RememberedRows ==
    ASSUME Inv, NEW u \in UserIds, users[u] # Undefined, Remembered(u), nextId' = nextId
    PROVE  /\ was' \in [UserIds -> SUBSET Row]
           /\ \A v \in UserIds : v >= nextId' => \A old \in was'[v] : old.of = Undefined
<1>1. users[u] \in Row /\ was \in [UserIds -> SUBSET Row]
  BY DEF Inv, Tables, Optional
<1>2. /\ was' \in [UserIds -> SUBSET Row]
      /\ \A v \in UserIds : was'[v] = IF v = u THEN was[v] \cup {users[u]} ELSE was[v]
  BY <1>1 DEF Remembered
<1>3. QED
  BY <1>2 DEF Inv, Ahead

LEMMA WriteInv ==
    ASSUME Inv, Edit, UNCHANGED nextId, NEW u \in UserIds, NEW account,
           account.email \in Emails, account.name \in Usernames, Write(u, account)
    PROVE  Inv'
<1> DEFINE row == RowOf(account, users[u].of)
<1>1. /\ users[u] # Undefined /\ ~Taken(account, u)
      /\ users' = [users EXCEPT ![u] = row]
      /\ Remembered(u) /\ again' = again
  BY DEF Write, Duplicate, Inv, Tables
<1>2. users[u] \in Row
  BY <1>1 DEF Inv, Tables, Optional
<1>3. users[u].of \in Optional(Clients) /\ u \in Optional(UserIds)
  BY <1>2 DEF Row, Optional
<1>4. row \in Row /\ row.of = users[u].of /\ ~Taken(row, u)
  BY <1>1, <1>3, RowsOf
<1> HIDE DEF row
<1>5. /\ nextId' \in 1..(MaxId + 1) /\ nextId <= nextId'
      /\ u >= nextId' => row.of = Undefined
      /\ again' \in SUBSET UserIds
  BY <1>1, <1>4 DEF Inv, Tables, Ahead
<1>6. Growing /\ Tables' /\ Owners' /\ Ahead' /\ Distinct'
  BY <1>1, <1>4, <1>5, EditMeans, RememberedRows, Put
<1>7. QED
  BY <1>6, EditMeans, Stayed

LEMMA RenameInv == ASSUME Inv, NEW u \in UserIds, Rename(u) PROVE Inv'
BY LocalRows, WriteInv DEF Rename

LEMMA SaveStaleInv == ASSUME Inv, NEW u \in UserIds, SaveStale(u) PROVE Inv'
<1>1. PICK row \in was[u] : Write(u, row) \/ (InsertAs(u, row) /\ UNCHANGED was)
  BY DEF SaveStale
<1>2. row \in Row /\ (u >= nextId => row.of = Undefined)
  BY DEF Inv, Tables, Ahead
<1>3. row.email \in Emails /\ row.name \in Usernames
  BY <1>2 DEF Row
<1>4. QED
  BY <1>1, <1>2, <1>3, InsertAsInv, WriteInv DEF SaveStale

LEMMA RemoveInv == ASSUME Inv, NEW u \in UserIds, Remove(u) PROVE Inv'
<1>1. /\ \A token \in tokens : token.user # u
      /\ users[u] # Undefined /\ users' = [users EXCEPT ![u] = Undefined]
      /\ Remembered(u) /\ UNCHANGED <<nextId, again>>
  BY DEF Remove
<1>2. /\ UNCHANGED <<tokens, auth, fixed, faults>> /\ edits' \in 0..MaxEdits
  BY EditMeans DEF Remove
<1>3. \A v \in UserIds : users'[v] = IF v = u THEN Undefined ELSE users[v]
  BY <1>1 DEF Inv, Tables
<1>4. Growing
  BY <1>1, <1>2, <1>3 DEF Growing, Inv, Tables
<1>5. Tables'
  BY <1>1, <1>2, RememberedRows DEF Inv, Tables, fixed, Optional
<1>6. Owners'
  BY <1>1, <1>2, <1>3 DEF Inv, Owners, Owns
<1>7. Ahead'
  BY <1>1, <1>3, RememberedRows DEF Inv, Ahead
<1>8. Distinct'
  BY <1>3 DEF Inv, Distinct
<1>9. QED
  BY <1>2, <1>4, <1>5, <1>6, <1>7, <1>8, Stayed

LEMMA NextInv == Inv /\ [Next]_vars => Inv'
<1> SUFFICES ASSUME Inv, [Next]_vars PROVE Inv'
  OBVIOUS
<1>1. ASSUME NEW r \in Requests, Step(r) PROVE Inv'
  BY <1>1, FrontInv, VerifyInv, LookupInv, InfoInv, ChecksInv, InsertInv, RereadInv,
     SaveInv, QueryFailsInv, SignInv
     DEF Step
<1>2. ASSUME NEW r \in Requests, Request(r) \/ Lost(r) PROVE Inv'
  BY <1>2, RequestInv, FrontInv
<1>3. CASE UNCHANGED vars
  <2>1. Growing
    BY <1>3 DEF vars, others, Growing, Inv, Tables
  <2>2. QED
    BY <1>3, <2>1, StayingSound
       DEF vars, others, fixed, Inv, Tables, Owners, Ahead, Distinct, Owns
<1>4. ASSUME NEW u \in NamedIds, RegisterAs(u) PROVE Inv'
  BY <1>4, RegisterAsInv, OAuthAssumption
<1>5. QED
  BY <1>1, <1>2, <1>3, <1>4, RegisterInv, RenameInv, SaveStaleInv, RemoveInv
     DEF Next, Quiescent

\* The tables and the requests are of their types, for every number of
\* requests, profiles and users.
THEOREM OAuthTypeCorrect == Spec => []TypeOK
<1>1. Inv => TypeOK
  BY DEF Inv, Tables, AllSound, Sound, TypeOK
<1>2. QED
  BY <1>1, InitInv, NextInv, PTL DEF Spec

\* done() is called once for a profile with an id, when the callback ends.
THEOREM DoneIsCalledOnce == Spec => []DoneOnce
<1>1. Inv => DoneOnce
  <2> SUFFICES ASSUME Inv, NEW r \in Requests, auth[r].profile # Undefined,
                      auth[r].profile.id # NoId
               PROVE  Len(auth[r].calls) = IF At(r, "done") THEN 1 ELSE 0
    BY DEF DoneOnce
  <2>1. Answered(auth[r], tokens)
    BY DEF Inv, AllSound, Sound
  <2>2. Len(<< >>) = 0
    OBVIOUS
  <2>3. CASE auth[r].pc = "done"
    BY <2>1, <2>3 DEF Answered, At
  <2>4. CASE auth[r].pc # "done"
    BY <2>1, <2>2, <2>4 DEF Answered, At
  <2>5. QED
    BY <2>3, <2>4
<1>2. QED
  BY <1>1, InitInv, NextInv, PTL DEF Spec

\* A request without another user's JWT is answered with the account that was
\* made for its profile, whatever sign-ups with or without an id, renames, stale
\* writes and deletes come between its queries and before the controller; only
\* an id that was inserted again may be somebody else's.
THEOREM SignsInToOwnAccount == Spec => []OwnAccount
<1>1. Inv => OwnAccount
  <2> SUFFICES ASSUME Inv, NEW r \in Requests, auth[r].answer = "ok",
                      auth[r].bearer = Undefined
               PROVE  /\ users[auth[r].signed] # Undefined
                      /\ \/ users[auth[r].signed].of = auth[r].profile.id
                         \/ auth[r].signed \in again
    BY DEF OwnAccount
  <2>1. Answered(auth[r], tokens)
    BY OAuthAssumption DEF Inv, AllSound, Sound
  <2> DEFINE t == [client |-> auth[r].profile.id, user |-> auth[r].signed]
  <2>2. t \in tokens
    BY <2>1 DEF Answered
  <2>3. Owns(t.user, t.client, nextId, users, again) /\ users[t.user] # Undefined
    BY <2>2 DEF Inv, Owners
  <2>4. QED
    BY <2>3 DEF Owns
<1>2. QED
  BY <1>1, InitInv, NextInv, PTL DEF Spec

\* Concurrent first sign-ins of a profile leave it one token, as long as its
\* users keep the names they were made with.
THEOREM OneTokenPerNamedProfile == Spec => []OneTokenWhileNamed
<1>1. Inv => OneTokenWhileNamed
  <2> SUFFICES ASSUME Inv, NEW s \in tokens, NEW t \in tokens, s.client = t.client,
                      \A u \in {s.user, t.user} : users[u].name = ProfileName[s.client]
               PROVE  s = t
    BY DEF OneTokenWhileNamed
  <2>1. /\ s \in Token /\ t \in Token
        /\ users[s.user] # Undefined /\ users[t.user] # Undefined
    BY DEF Inv, Tables, Owners
  <2>2. s.user = t.user
    BY <2>1 DEF Inv, Distinct, Token
  <2>3. QED
    BY <2>1, <2>2 DEF Token
<1>2. QED
  BY <1>1, InitInv, NextInv, PTL DEF Spec

-----------------------------------------------------------------------------
(***************************************************************************)
(* An account has its token, or a request is about to save it, or was      *)
(* refused one whose access token was too long.                            *)
(***************************************************************************)

Saving(q, u) == q.user = u /\ (q.pc \in {"reread", "save"} \/ ~q.fits)

Kept(us, ag, ts, q) ==
    \A u \in UserIds \ ag :
      us[u] # Undefined /\ us[u].of \in ClientIds =>
        \/ [client |-> us[u].of, user |-> u] \in ts
        \/ \E r \in Requests : Saving(q[r], u)

LEMMA KeptMeans == TokenUnlessFault <=> (faults = 0 => Kept(users, again, tokens, auth))
BY DEF TokenUnlessFault, Kept, Saving

\* A request that does not leave a user without a token.
LEMMA KeptMoves ==
    ASSUME Inv, Kept(users, again, tokens, auth), NEW r \in Requests, NEW q,
           Become(r, q), UNCHANGED <<users, again>>, tokens \subseteq tokens',
           \A u \in UserIds \ again :
             Saving(auth[r], u) /\ users[u] # Undefined /\ users[u].of \in ClientIds =>
               Saving(q, u) \/ [client |-> users[u].of, user |-> u] \in tokens'
    PROVE  Kept(users', again', tokens', auth')
<1>1. auth'[r] = q /\ \A s \in Requests \ {r} : auth'[s] = auth[s]
  BY Others DEF Inv
<1>2. SUFFICES ASSUME NEW u \in UserIds \ again, users[u] # Undefined,
                      users[u].of \in ClientIds
               PROVE  \/ [client |-> users[u].of, user |-> u] \in tokens'
                      \/ \E s \in Requests : Saving(auth'[s], u)
  BY DEF Kept
<1>3. CASE [client |-> users[u].of, user |-> u] \in tokens
  BY <1>3
<1>4. CASE Saving(auth[r], u)
  BY <1>1, <1>2, <1>4
<1>5. CASE \E s \in Requests \ {r} : Saving(auth[s], u)
  BY <1>1, <1>5
<1>6. QED
  BY <1>2, <1>3, <1>4, <1>5 DEF Kept

\* The steps of requests that are not about to save a token.
LEMMA KeptElsewhere ==
    ASSUME Inv, Kept(users, again, tokens, auth), NEW r \in Requests, NEW q,
           Become(r, q), UNCHANGED <<users, again, tokens>>,
           auth[r].pc \notin {"reread", "save", "done"}
    PROVE  Kept(users', again', tokens', auth')
<1>1. auth[r].fits
  BY DEF Inv, AllSound, Sound
<1>2. QED
  BY <1>1, KeptMoves DEF Saving

\* The steps after the callback: it stays a request that was refused a token.
LEMMA KeptAfter ==
    ASSUME Inv, Kept(users, again, tokens, auth), NEW r \in Requests,
           Relay(r) \/ Sign(r)
    PROVE  Kept(users', again', tokens', auth')
<1>1. auth[r] \in Session
  BY DEF Inv, AllSound, Sound
<1>2. UNCHANGED <<users, again, tokens>>
  BY DEF Relay, Sign, others
<1>3. PICK q : /\ Become(r, q)
               /\ q.pc = auth[r].pc /\ q.user = auth[r].user /\ q.fits = auth[r].fits
  <2>1. CASE Relay(r)
    <3>1. PICK front : Become(r, [auth[r] EXCEPT !.front = front])
      BY <2>1 DEF Relay
    <3>2. QED
      BY <1>1, <3>1 DEF Session
  <2>2. CASE Sign(r)
    <3>1. PICK bearer, signed :
            Become(r, [auth[r] EXCEPT !.answer = "ok", !.bearer = bearer,
                                      !.signed = signed])
      BY <2>2 DEF Sign
    <3> DEFINE q == [auth[r] EXCEPT !.answer = "ok", !.bearer = bearer,
                                    !.signed = signed]
    <3>2. q.pc = auth[r].pc /\ q.user = auth[r].user /\ q.fits = auth[r].fits
      BY <1>1 DEF Session
    <3>3. Become(r, q)
      BY <3>1
    <3> HIDE DEF q
    <3>4. QED
      BY <3>2, <3>3
  <2>3. QED
    BY <2>1, <2>2
<1>4. QED
  BY <1>2, <1>3, KeptMoves DEF Saving

LEMMA InsertKeeps ==
    ASSUME Inv, Kept(users, again, tokens, auth), NEW r \in Requests, Insert(r)
    PROVE  Kept(users', again', tokens', auth')
<1>1. /\ auth[r].pc = "insert" /\ auth[r].fits /\ auth[r] \in Session
      /\ UNCHANGED <<again, tokens>>
  BY DEF Insert, At, Inv, AllSound, Sound, others
<1>2. CASE Raise(r) /\ UNCHANGED users
  BY <1>1, <1>2, KeptElsewhere DEF Raise
<1>3. CASE ~(Raise(r) /\ UNCHANGED users)
  <2>1. PICK row :
          /\ users' = [users EXCEPT ![nextId] = row]
          /\ Become(r, [auth[r] EXCEPT !.pc = "reread", !.user = nextId])
    BY <1>3 DEF Insert
  <2> DEFINE q == [auth[r] EXCEPT !.pc = "reread", !.user = nextId]
  <2>2. q.pc = "reread" /\ q.user = nextId
    BY <1>1 DEF Session
  <2> HIDE DEF q
  <2>3. auth'[r] = q /\ \A s \in Requests \ {r} : auth'[s] = auth[s]
    BY <2>1, Others DEF Inv, q
  <2>4. \A u \in UserIds \ {nextId} : users'[u] = users[u]
    BY <2>1 DEF Inv, Tables
  <2>5. ASSUME NEW u \in UserIds \ again, users'[u] # Undefined, users'[u].of \in ClientIds
        PROVE  \/ [client |-> users'[u].of, user |-> u] \in tokens
               \/ \E s \in Requests : Saving(auth'[s], u)
    <3>1. CASE u = nextId
      BY <2>2, <2>3, <3>1 DEF Saving
    <3>2. CASE u # nextId
      BY <1>1, <2>3, <2>4, <2>5, <3>2 DEF Kept, Saving
    <3>3. QED
      BY <3>1, <3>2
  <2>6. QED
    BY <1>1, <2>5 DEF Kept
<1>4. QED
  BY <1>2, <1>3

LEMMA RereadKeeps ==
    ASSUME Inv, Kept(users, again, tokens, auth), NEW r \in Requests, Reread(r)
    PROVE  Kept(users', again', tokens', auth')
<1>1. /\ UNCHANGED <<users, again, tokens>> /\ auth[r] \in Session
      /\ auth[r].pc = "reread" /\ auth[r].fits
  BY DEF Reread, Rereading, At, Inv, AllSound, Sound, others
<1>2. CASE users[auth[r].user] = Undefined
  BY <1>1, <1>2, KeptMoves DEF Reread, Rereading, Raise, Saving
<1>3. CASE Become(r, [auth[r] EXCEPT !.pc = "save"])
  <2>1. "save" \in Steps
    BY DEF Steps
  <2>2. /\ [auth[r] EXCEPT !.pc = "save"].pc = "save"
        /\ [auth[r] EXCEPT !.pc = "save"].user = auth[r].user
    BY <1>1, <2>1, GotoFields
  <2>3. QED
    BY <1>1, <1>3, <2>2, KeptMoves DEF Saving
<1>4. QED
  BY <1>2, <1>3 DEF Reread, Rereading

\* The token is saved, or the access token was too long; nobody's profile has
\* no account that needs one.
LEMMA SaveKeeps ==
    ASSUME Inv, Kept(users, again, tokens, auth), NEW r \in Requests, Save(r)
    PROVE  Kept(users', again', tokens', auth')
<1> DEFINE user == auth[r].user
           client == auth[r].profile.id
<1>1. /\ UNCHANGED <<users, again>> /\ tokens \subseteq tokens'
      /\ auth[r].pc = "save" /\ auth[r].fits /\ auth[r] \in Session
      /\ user \in UserIds
      /\ users[user] # Undefined => users[user].of = client \/ user \in again
  BY DEF Save, At, Inv, AllSound, Sound, Owns, others
<1>2. PICK fits \in BOOLEAN, call \in {Failed, Success(user)} :
        /\ Become(r, [Called([auth[r] EXCEPT !.fits = fits], call) EXCEPT !.pc = "done"])
        /\ \/ client = NoId \/ ~fits \/ users[user] = Undefined
           \/ [client |-> client, user |-> user] \in tokens'
  BY DEF Save, Acceptable
<1> DEFINE sent == [auth[r] EXCEPT !.fits = fits]
           q == [Called(sent, call) EXCEPT !.pc = "done"]
<1>3. q.user = user /\ q.fits = fits
  <2>1. call \in Call
    BY <1>1, CallsTyped
  <2>2. sent \in Session /\ sent.user = user /\ sent.fits = fits
    BY <1>1 DEF Session
  <2> HIDE DEF sent
  <2> DEFINE c == Called(sent, call)
  <2>3. c \in Session /\ c.user = user /\ c.fits = fits
    BY <2>1, <2>2, CalledFields
  <2> HIDE DEF c
  <2>4. [c EXCEPT !.pc = "done"].user = user /\ [c EXCEPT !.pc = "done"].fits = fits
    BY <2>3 DEF Session
  <2>5. QED
    BY <2>4 DEF c
<1>4. Become(r, q)
  BY <1>2
<1> HIDE DEF q
<1>5. users[user] # Undefined /\ users[user].of \in ClientIds /\ user \notin again =>
        ~fits \/ [client |-> users[user].of, user |-> user] \in tokens'
  BY <1>1, <1>2, OAuthAssumption
<1>6. QED
  BY <1>1, <1>3, <1>4, <1>5, KeptMoves DEF Saving

LEMMA StepKeeps ==
    ASSUME Inv, Kept(users, again, tokens, auth), NEW r \in Requests,
           Request(r) \/ Step(r), ~QueryFails(r)
    PROVE  Kept(users', again', tokens', auth')
<1>1. CASE \/ Request(r) \/ Exchange(r) \/ TurnedAway(r) \/ VerifyGoogle(r)
           \/ VerifyFacebook(r) \/ Lookup(r) \/ Info(r) \/ Preload(r)
           \/ Check(r, "check", "recheck") \/ Check(r, "recheck", "insert")
  <2>1. UNCHANGED <<users, again, tokens>> /\ auth[r].pc \notin {"reread", "save", "done"}
    BY <1>1 DEF Request, Exchange, TurnedAway, VerifyGoogle, VerifyFacebook, Lookup,
       Info, Preload, Check, At, others
  <2>2. \E q : Become(r, q)
    BY <1>1 DEF Request, Exchange, TurnedAway, VerifyGoogle, VerifyFacebook, Lookup,
       Info, Preload, Check, Goto, Turn, Raise
  <2>3. QED
    BY <2>1, <2>2, KeptElsewhere
<1>2. QED
  BY <1>1, KeptAfter, InsertKeeps, RereadKeeps, SaveKeeps DEF Step

\* A row that others put is not of a profile, or was that of the same profile, or
\* was inserted again.
LEMMA OthersKeep ==
    ASSUME Inv, Kept(users, again, tokens, auth),
           \/ Register
           \/ \E u \in UserIds : RegisterAs(u) \/ Rename(u) \/ SaveStale(u) \/ Remove(u)
    PROVE  Kept(users', again', tokens', auth')
<1>1. Undefined \notin ClientIds
  BY OAuthAssumption DEF Clients
<1>2. UNCHANGED <<tokens, auth>>
  BY DEF Register, RegisterAs, Rename, SaveStale, Remove, Edit
<1>3. SUFFICES ASSUME NEW v \in UserIds \ again', users'[v] # Undefined,
                      users'[v].of \in ClientIds
               PROVE  /\ v \notin again /\ users[v] # Undefined
                      /\ users[v].of = users'[v].of
  BY <1>2 DEF Kept
<1>4. ASSUME NEW account, NEW u \in UserIds, Write(u, account)
      PROVE  /\ v \notin again /\ users[v] # Undefined
             /\ users[v].of = users'[v].of
  BY <1>3, <1>4 DEF Write, RowOf, Inv, Tables
<1>5. ASSUME NEW row, NEW u \in UserIds, InsertAs(u, row),
             u >= nextId => row.of \notin ClientIds
      PROVE  /\ v \notin again /\ users[v] # Undefined
             /\ users[v].of = users'[v].of
  <2>1. v \notin again /\ (v = u => u >= nextId)
    BY <1>3, <1>5, Numbers DEF InsertAs, Inv, Tables
  <2>2. users'[v] = IF v = u THEN row ELSE users[v]
    BY <1>5 DEF InsertAs, Inv, Tables
  <2>3. QED
    BY <1>3, <1>5, <2>1, <2>2
<1>6. CASE Register
  BY <1>1, <1>3, <1>6 DEF Register, RowOf, Inv, Tables, others
<1>7. ASSUME NEW u \in UserIds, RegisterAs(u)
      PROVE  /\ v \notin again /\ users[v] # Undefined
             /\ users[v].of = users'[v].of
  <2>1. PICK account : InsertAs(u, RowOf(account, Undefined))
    BY <1>7 DEF RegisterAs
  <2>2. RowOf(account, Undefined).of \notin ClientIds
    BY <1>1 DEF RowOf
  <2>3. QED
    BY <1>5, <2>1, <2>2
<1>8. ASSUME NEW u \in UserIds, SaveStale(u)
      PROVE  /\ v \notin again /\ users[v] # Undefined
             /\ users[v].of = users'[v].of
  <2>1. PICK row \in was[u] : Write(u, row) \/ InsertAs(u, row)
    BY <1>8 DEF SaveStale
  <2>2. u >= nextId => row.of \notin ClientIds
    BY <1>1 DEF Inv, Ahead
  <2>3. QED
    BY <1>4, <1>5, <2>1, <2>2
<1>9. ASSUME NEW u \in UserIds, Remove(u)
      PROVE  /\ v \notin again /\ users[v] # Undefined
             /\ users[v].of = users'[v].of
  BY <1>3, <1>9 DEF Remove, Inv, Tables
<1>10. QED
  BY <1>4, <1>6, <1>7, <1>8, <1>9 DEF Rename

\* Whenever no query has failed, every account that a profile was signed up
\* for has its token or gets it from a request that is on its way, unless that
\* request's access token was too long or the id was inserted again.
THEOREM AccountsHaveTokens == Spec => []TokenUnlessFault
<1>1. Init => TokenUnlessFault
  BY OAuthAssumption DEF Init, TokenUnlessFault
<1>2. ASSUME Inv, TokenUnlessFault, [Next]_vars PROVE TokenUnlessFault'
  <2>1. SUFFICES ASSUME faults' = 0 PROVE Kept(users', again', tokens', auth')
    BY DEF TokenUnlessFault, Kept, Saving
  <2>2. \A r \in Requests : ~QueryFails(r) /\ ~Lost(r)
    BY <1>2, <2>1, Numbers DEF QueryFails, Lost, Inv, Tables
  <2>3. faults' = faults
    BY <1>2, <2>2 DEF Next, Step, Quiescent, vars, Request, Exchange, Relay, TurnedAway,
       VerifyGoogle, VerifyFacebook, Lookup, Info, Preload, Check, Insert, Reread,
       Rereading, Save, Sign, Edit, Register, RegisterAs, Rename, SaveStale, Remove
  <2>4. Kept(users, again, tokens, auth)
    BY <1>2, <2>1, <2>3, KeptMeans
  <2>5. CASE UNCHANGED vars
    BY <2>4, <2>5 DEF vars, others
  <2>6. ASSUME NEW u \in NamedIds, RegisterAs(u) PROVE Kept(users', again', tokens', auth')
    BY <1>2, <2>4, <2>6, OthersKeep, OAuthAssumption
  <2>7. QED
    BY <1>2, <2>2, <2>4, <2>5, <2>6, StepKeeps, OthersKeep DEF Next, Quiescent
<1>3. QED
  BY <1>1, <1>2, InitInv, NextInv, PTL DEF Spec

=============================================================================
