--------------------------- MODULE MCObjectStore ---------------------------
(***************************************************************************)
(* ObjectStore for TLC.  Workers are interchangeable, and so are           *)
(* credentials.                                                            *)
(***************************************************************************)
EXTENDS ObjectStore, TLC

Symmetry == Permutations(Workers) \cup Permutations(Creds)

=============================================================================
