------------------------------- MODULE MCHeap -------------------------------
(***************************************************************************)
(* Instances of Heap for TLC.                                              *)
(***************************************************************************)
EXTENDS Heap, TLC

\* The variables of a program are interchangeable.
PointerSymmetry == Permutations(Pointers)
=============================================================================
