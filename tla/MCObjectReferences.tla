------------------------- MODULE MCObjectReferences -------------------------
(***************************************************************************)
(* ObjectReferences for TLC.                                               *)
(***************************************************************************)
EXTENDS ObjectReferences, TLC

Symmetry == Permutations(Workers) \cup Permutations(Creds)

=============================================================================
