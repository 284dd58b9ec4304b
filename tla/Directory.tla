----------------------------- MODULE Directory -----------------------------
(***************************************************************************)
(* What the API of user accounts promises, however its requests interleave *)
(* and whichever of their queries fail: a request stores at most one row,  *)
(* in one step; what is refused, rejected or fails before that changes     *)
(* nothing; what is answered as done was done; and no two rows ever share  *)
(* an email or a username.                                                 *)
(***************************************************************************)
CONSTANTS
    Requests,
    Kinds,        \* the kinds of request
    Ids,
    Rows,         \* the rows of accounts
    Groups,
    Standing,     \* the accounts at the start
    Undefined

VARIABLES
    accounts,     \* accounts[id]: the row, or Undefined
    work          \* work[r]: what has become of request r

vars == <<accounts, work>>

Work(kind, state, id, answer) ==
    [kind |-> kind, state |-> state, id |-> id, answer |-> answer]

Nothing == Work(Undefined, "none", Undefined, Undefined)

Init ==
    /\ accounts = Standing
    /\ work = [r \in Requests |-> Nothing]

Turn(r, kind, state, id, answer) ==
    work' = [work EXCEPT ![r] = Work(kind, state, id, answer)]

Moves(r, from, to) == work[r].state = from /\ work'[r].state = to

Accept(r) ==
    /\ Moves(r, "none", "open")
    /\ \E kind \in Kinds : Turn(r, kind, "open", Undefined, Undefined)
    /\ UNCHANGED accounts

\* DEMO mode.
Refuse(r) ==
    /\ Moves(r, "none", "closed")
    /\ \E kind \in Kinds : Turn(r, kind, "closed", Undefined, "notAllowed")
    /\ UNCHANGED accounts

\* Nobody else has the email or the username of the row.
Fits(id, row) ==
    \A other \in Ids \ {id} : accounts[other] # Undefined =>
        /\ accounts[other].email # row.email
        /\ accounts[other].username # row.username

\* The request's one row, which an update finds and a sign-up adds.  A POST may
\* replace a row; a sign-in or a delete may bring back one that was deleted.
Store(r) ==
    /\ Moves(r, "open", "saved")
    /\ \E id \in Ids :
          /\ Turn(r, work[r].kind, "saved", id, Undefined)
          /\ work[r].kind \in {"update", "account"} => accounts[id] # Undefined
          /\ work[r].kind = "signUp" => accounts[id] = Undefined
          /\ \E row \in Rows :
                /\ Fits(id, row)
                /\ accounts' = [accounts EXCEPT ![id] = row]

\* The row that the request was about has gone: there is nothing to store.
Miss(r) ==
    /\ Moves(r, "open", "saved")
    /\ work[r].kind # "signUp"
    /\ UNCHANGED accounts
    /\ \E id \in Ids :
          /\ accounts[id] = Undefined
          /\ Turn(r, work[r].kind, "saved", id, Undefined)

\* Nothing was stored.
Fail(r) ==
    /\ Moves(r, "open", "closed")
    /\ UNCHANGED accounts
    /\ \E answer \in {"invalid", "notFound", "conflict", "error"} :
          Turn(r, work[r].kind, "closed", Undefined, answer)

\* What a request answers whose row is there, or is not.
Truthful(kind, answer, present) ==
    CASE answer = "ok" -> present /\ kind # "delete"
      [] answer = "invalid" -> present /\ kind \in {"signIn", "signUp"}
      [] answer = "notFound" -> ~present /\ kind # "delete"
      [] answer = "error" -> TRUE

Finish(r) ==
    /\ Moves(r, "saved", "closed")
    /\ UNCHANGED accounts
    /\ \E answer \in {"ok", "invalid", "notFound", "error"} :
          /\ Truthful(work[r].kind, answer, accounts[work[r].id] # Undefined)
          /\ Turn(r, work[r].kind, "closed", Undefined, answer)

\* A DELETE is done when the row is gone.
Drop(r) ==
    /\ Moves(r, "saved", "closed")
    /\ work[r].kind = "delete"
    /\ Turn(r, work[r].kind, "closed", Undefined, "ok")
    /\ accounts' = [accounts EXCEPT ![work[r].id] = Undefined]

\* A group is deleted.
Ungroup(g) ==
    /\ UNCHANGED work
    /\ accounts' = [id \in Ids |->
                      IF accounts[id] = Undefined THEN Undefined
                      ELSE [accounts[id] EXCEPT !.groups = @ \ {g}]]

Step(r) ==
    \/ Accept(r) \/ Refuse(r) \/ Store(r) \/ Miss(r)
    \/ Fail(r) \/ Finish(r) \/ Drop(r)

\* No step leaves its request as it was: the first conjunct only spares TLC
\* the others.
Next ==
    \/ \E r \in Requests : work'[r] # work[r] /\ Step(r)
    \/ \E g \in Groups : Ungroup(g)

Spec == Init /\ [][Next]_vars
=============================================================================
