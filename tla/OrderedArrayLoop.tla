-------------------------- MODULE OrderedArrayLoop --------------------------
(***************************************************************************)
(* datastructs/ordered_array.c as a state machine: the storage, the count  *)
(* of used slots, and the bubble pass of ordered_array_changed_element()   *)
(* one loop iteration at a time.  Elements are pointers; the comparator    *)
(* looks at a key the element points to (header_t_cmp compares the sizes   *)
(* of two holes), so an element's key can change while it is in the array. *)
(***************************************************************************)
EXTENDS Integers, Sequences

CONSTANTS
    Elem,       \* the pointers that may be stored
    NULL,       \* a slot that was never written (the memset of create)
    MaxSize,    \* max_size
    Key         \* the values a comparison key can take

ASSUME MaxSizeAssumption == MaxSize \in Nat \ {0}
ASSUME KeyAssumption     == Key \subseteq Int
ASSUME NullAssumption    == NULL \notin Elem

VARIABLES
    array,      \* the storage, indexed from 0 as in C
    size,       \* number of slots in use
    key,        \* what the comparator reads through each pointer
    pc,         \* "ready" between calls, "pass" inside the loop, "panic"
    i,          \* the loop variable
    before,     \* history: the used slots, as a sequence, when the pass began
    grown       \* history: some key has grown while its element was stored

vars == << array, size, key, pc, i, before, grown >>

Slots   == 0 .. MaxSize - 1
Used    == 0 .. size - 1
Members == { array[j] : j \in Used }

Reference == INSTANCE OrderedArray
Less(x, y) == key[x] < key[y]
Contents == [j \in 1 .. size |-> array[j-1]]

Init ==
    /\ array = [j \in Slots |-> NULL]
    /\ size = 0
    /\ key \in [Elem -> Key]
    /\ pc = "ready"
    /\ i = 0
    /\ before = << >>
    /\ grown = FALSE

Panic ==
    /\ pc' = "panic"
    /\ UNCHANGED << array, size, key, i, before, grown >>

(* The pass starts at the last used slot.                                  *)
StartPass ==
    /\ pc' = "pass"
    /\ i' = size' - 1
    /\ before' = [j \in 1 .. size' |-> array'[j-1]]

(* The caller stores the key behind the pointer, then inserts it: as       *)
(* kheap.c fills in a header before it puts the hole in the index.         *)
ordered_array_insert(e, k) ==
    /\ pc = "ready"
    /\ e \notin Members
    /\ IF size + 1 > MaxSize
       THEN Panic
       ELSE /\ array' = [array EXCEPT ![size] = e]
            /\ size' = size + 1
            /\ key' = [key EXCEPT ![e] = k]
            /\ StartPass
            /\ UNCHANGED grown

(* The bounds check that remove and index share.                           *)
MutOutOfBoundsLate(index) == index > size
OutOfBounds(index) == index >= size

ordered_array_remove(index) ==
    /\ pc = "ready"
    /\ IF OutOfBounds(index)
       THEN Panic
       ELSE /\ size' = size - 1
            /\ array' = [j \in Slots |-> IF j >= index /\ j < size - 1
                                         THEN array[j+1] ELSE array[j]]
            /\ UNCHANGED << key, pc, i, before, grown >>

(* A read within bounds changes nothing.                                   *)
ordered_array_index(index) ==
    /\ pc = "ready"
    /\ OutOfBounds(index)
    /\ Panic

(* A caller changes the key of a stored element and reports it, as the     *)
(* left merge of heap_free() does.                                         *)
ordered_array_changed_element(e, k) ==
    /\ pc = "ready"
    /\ e \in Members
    /\ key' = [key EXCEPT ![e] = k]
    /\ grown' = (grown \/ k > key[e])
    /\ UNCHANGED << array, size >>
    /\ StartPass

(* The body of the loop with its first assignment wrong: no temporary.     *)
MutPassStepNoTemp ==
    /\ pc = "pass" /\ i > 0
    /\ array' = IF Less(array[i], array[i-1])
                THEN [array EXCEPT ![i-1] = array[i]]
                ELSE array
    /\ i' = i - 1
    /\ UNCHANGED << size, key, pc, before, grown >>

(* The loop stops at the first pair already in order.                      *)
MutPassStepEarlyStop ==
    /\ pc = "pass" /\ i > 0
    /\ IF Less(array[i], array[i-1])
       THEN /\ array' = [array EXCEPT ![i] = array[i-1], ![i-1] = array[i]]
            /\ i' = i - 1
       ELSE i' = 0 /\ array' = array
    /\ UNCHANGED << size, key, pc, before, grown >>

(* The comparison the wrong way round.                                     *)
MutPassStepReversed ==
    /\ pc = "pass" /\ i > 0
    /\ array' = IF Less(array[i-1], array[i])
                THEN [array EXCEPT ![i] = array[i-1], ![i-1] = array[i]]
                ELSE array
    /\ i' = i - 1
    /\ UNCHANGED << size, key, pc, before, grown >>

PassStep ==
    /\ pc = "pass" /\ i > 0
    /\ array' = IF Less(array[i], array[i-1])
                THEN [array EXCEPT ![i] = array[i-1], ![i-1] = array[i]]
                ELSE array
    /\ i' = i - 1
    /\ UNCHANGED << size, key, pc, before, grown >>

PassDone ==
    /\ pc = "pass" /\ i <= 0
    /\ pc' = "ready"
    /\ UNCHANGED << array, size, key, i, before, grown >>

(* __panic() never returns.                                                *)
Halted ==
    /\ pc = "panic"
    /\ UNCHANGED vars

Next ==
    \/ \E e \in Elem, k \in Key : ordered_array_insert(e, k)
    \/ \E index \in 0 .. MaxSize : ordered_array_remove(index)
    \/ \E index \in 0 .. MaxSize : ordered_array_index(index)
    \/ \E e \in Elem, k \in Key : ordered_array_changed_element(e, k)
    \/ PassStep
    \/ PassDone
    \/ Halted

Spec == Init /\ [][Next]_vars

-----------------------------------------------------------------------------
(* The array's variables stay within their C types; a pass always has a    *)
(* used slot to start from.                                                *)
TypeOK ==
    /\ array \in [Slots -> Elem \cup {NULL}]
    /\ size \in 0 .. MaxSize
    /\ \A j \in Used : array[j] \in Elem
    /\ key \in [Elem -> Key]
    /\ pc \in {"ready", "pass", "panic"}
    /\ i \in Slots
    /\ pc = "pass" => i < size
    /\ grown \in BOOLEAN

Sorted == \A j, k \in Used : j < k => key[array[j]] <= key[array[k]]

(* ordered_array_insert() and ordered_array_remove(), and a reported       *)
(* change that makes a key smaller, leave the array sorted however many    *)
(* of them are called: one backward bubble pass is enough for them.        *)
SortedUnlessGrown == pc = "ready" /\ ~grown => Sorted

(* Whatever has happened to the keys before, the pass of                   *)
(* ordered_array_changed_element() brings the least key to the front.      *)
FrontIsSmallest ==
    pc = "pass" /\ i = 0 => \A j \in Used : key[array[0]] <= key[array[j]]

(* The swaps and the shift of ordered_array_remove() neither lose nor      *)
(* duplicate a pointer: no two used slots hold the same element.           *)
NoDuplicates == \A j, k \in Used : array[j] = array[k] => j = k

(* When the loop ends the array is what the operator the heap model uses   *)
(* computes from the array the pass began with.                            *)
PassComputesReference ==
    pc = "pass" /\ i = 0 =>
        Contents = Reference!ordered_array_changed_element(before, key)
=============================================================================
