--------------------------- MODULE MCOrderedArray ---------------------------
(* One pointer more than there are slots, so that the array can fill up.   *)
(* The pointers are interchangeable: only their keys are compared.         *)
EXTENDS OrderedArrayLoop, TLC
Pointers == Permutations(Elem)
=============================================================================
