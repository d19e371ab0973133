----------------------------- MODULE MCHashMap ------------------------------
(***************************************************************************)
(* Keys are their own hash codes: 4, 6 and 8 share a chain of the first    *)
(* table and are split by the resizes.                                     *)
(***************************************************************************)
EXTENDS HashMap

Identity == [k \in Keys |-> k]

=============================================================================
