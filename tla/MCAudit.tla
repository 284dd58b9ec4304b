------------------------------ MODULE MCAudit ------------------------------
(***************************************************************************)
(* The instances of MCAccess with the history of AccessAudit; the requests *)
(* are interchangeable.                                                    *)
(***************************************************************************)
EXTENDS MCAccess, AccessAudit, TLC

Symmetry == Permutations(Requests)
=============================================================================
