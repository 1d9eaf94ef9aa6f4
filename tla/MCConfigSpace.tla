---------------------------- MODULE MCConfigSpace ----------------------------
(***************************************************************************)
(* ConfigSpace for model checking: tasks and spaces are interchangeable.   *)
(***************************************************************************)
EXTENDS ConfigSpace, TLC

Symmetry == Permutations(Tasks) \cup Permutations(Spaces)
=============================================================================
