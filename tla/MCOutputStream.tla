--------------------------- MODULE MCOutputStream ---------------------------
(***************************************************************************)
(* Instances of OutputStream for TLC.                                      *)
(***************************************************************************)
EXTENDS OutputStream, TLC

Symmetry == Permutations(Jobs) \cup Permutations(Workers)

=============================================================================
