------------------------------ MODULE MCOAuth ------------------------------
(***************************************************************************)
(* An instance of OAuth for TLC: two profiles, one of which brings an      *)
(* address of its own that a local user may have, and one without an id.   *)
(***************************************************************************)
EXTENDS OAuth, TLC

CONSTANTS r1, r2, p1, p2, e1, e2, e3, e4, n1, n2, n3, n4

MCProfiles ==
    {[id |-> p1, email |-> Undefined],
     [id |-> p2, email |-> e4],
     [id |-> NoId, email |-> Undefined]}

MCProfileEmail == (p1 :> e1) @@ (p2 :> e2) @@ (NoId :> e3)
MCProfileName == (p1 :> n1) @@ (p2 :> n2) @@ (NoId :> n3)

MCLocals == {[email |-> e4, name |-> n4], [email |-> e4, name |-> n1]}
=============================================================================
