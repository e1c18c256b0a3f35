---------------------------- MODULE OrderedArray ----------------------------
(***************************************************************************)
(* The operations of datastructs/ordered_array.c as functions on           *)
(* sequences: what one call makes of the array.  key[x] is what the        *)
(* comparator reads through pointer x; a sequence position is the C index  *)
(* plus one.  The kernel heap keeps its index of holes in such an array.   *)
(*                                                                         *)
(* OrderedArrayLoop runs the same operations one loop iteration at a time  *)
(* and is checked against these operators.                                 *)
(***************************************************************************)
EXTENDS Integers, Sequences

(* One iteration of the loop of ordered_array_changed_element().           *)
SwapIfLess(a, i, key) ==
    IF key[a[i]] < key[a[i-1]] THEN [a EXCEPT ![i] = a[i-1], ![i-1] = a[i]] ELSE a

(* The single pass from the last element to the first: Pass(a, key)[i] is  *)
(* the array once the loop variable has come down to position i.           *)
Pass(a, key) ==
    LET pass[i \in 1 .. Len(a)] ==
            IF i = Len(a) THEN a ELSE SwapIfLess(pass[i+1], i + 1, key)
    IN  pass
ordered_array_changed_element(a, key) == IF a = << >> THEN a ELSE Pass(a, key)[1]

(* The caller has checked that the array is not full.                      *)
ordered_array_insert(a, value, key) ==
    ordered_array_changed_element(Append(a, value), key)

(* The caller has checked that i is a position of a.                       *)
ordered_array_remove(a, i) ==
    SubSeq(a, 1, i - 1) \o SubSeq(a, i + 1, Len(a))
=============================================================================
