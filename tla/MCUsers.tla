------------------------------ MODULE MCUsers ------------------------------
(***************************************************************************)
(* Instances of Users for TLC: two users at the start, one an              *)
(* administrator of group g1, one plain; bodies that collide with them or  *)
(* not, that set all flags, one of them or none, and groups or none.  Two  *)
(* of the three columns of flags: the third behaves like the second.       *)
(***************************************************************************)
EXTENDS Users, TLC

CONSTANTS r1, r2, r3, e1, e2, e3, bad, n1, n2, n3, p1, p2, g1, g2

MCEmails == {e1, e2, e3, bad}
MCUsernames == {n1, n2, n3}
MCPasswords == {p1, p2}
MCGroups == {g1, g2}

User(email, username, password, flags, gs) ==
    [email |-> email, username |-> username, password |-> password,
     flags |-> flags, groups |-> gs]

all == [c \in FlagColumns |-> TRUE]
none == [c \in FlagColumns |-> FALSE]

\* A body of isSuperuser alone.
only(value) == [c \in FlagColumns |-> IF c = "isSuperuser" THEN value ELSE Undefined]

\* One user with every privilege and one with none.
MCSeed == [u \in Ids |->
             CASE u = 1 -> User(e1, n1, p1, all, {g1})
               [] u = 2 -> User(e2, n2, p1, none, {})
               [] OTHER -> Undefined]

\* Promote or demote an existing identity, or introduce a new one.
MCBodies == {User(e1, n1, p2, only(FALSE), {}),
             User(e2, n2, p2, all, {g1}),
             User(e3, n3, p2, NoFlags, {g1, g2}),
             User(bad, n3, p2, only(TRUE), Undefined)}

MCSelfBodies == {User(e2, n2, p2, only(TRUE), {g1}),
                 User(e3, n3, p2, NoFlags, {g2})}

Symmetry == Permutations(Requests)
=============================================================================
