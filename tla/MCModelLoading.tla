---------------------------- MODULE MCModelLoading ----------------------------
(***************************************************************************)
(* ModelLoading on an instance TLC can explore.                            *)
(***************************************************************************)
EXTENDS ModelLoading, TLC

\* Callers and inodes are interchangeable: the properties are safety properties.
Symmetry == Permutations(Downloaders) \cup Permutations(Inodes)
===============================================================================
