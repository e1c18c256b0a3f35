------------------------- MODULE OrderedArrayProofs -------------------------
(***************************************************************************)
(* Proofs about OrderedArrayLoop, for every set of pointers, every         *)
(* capacity and every set of keys: the types, that no pointer is lost or   *)
(* duplicated, that a pass brings the least key to the front, and that     *)
(* inserting, removing and shrinking keep the array sorted.                *)
(***************************************************************************)
EXTENDS OrderedArrayLoop, TLAPS

(* The type invariant of ordered_array_t: the used slots hold pointers,    *)
(* the count stays within max_size, and a running pass has a used slot     *)
(* under its loop variable.                                                *)
THEOREM TypeCorrect == Spec => []TypeOK
<1> USE MaxSizeAssumption, KeyAssumption, NullAssumption
<1>1. Init => TypeOK
  BY DEF Init, TypeOK, Slots, Used
<1>2. TypeOK /\ [Next]_vars => TypeOK'
  <2> SUFFICES ASSUME TypeOK, [Next]_vars PROVE TypeOK'
    OBVIOUS
  <2> USE DEF TypeOK, Slots, Used
  <2>1. ASSUME NEW e \in Elem, NEW k \in Key, ordered_array_insert(e, k)
        PROVE TypeOK'
    <3>1. CASE size + 1 > MaxSize
      BY <2>1, <3>1 DEF ordered_array_insert, Panic
    <3>2. CASE ~(size + 1 > MaxSize)
      BY <2>1, <3>2 DEF ordered_array_insert, StartPass
    <3> QED BY <3>1, <3>2
  <2>2. ASSUME NEW index \in 0 .. MaxSize, ordered_array_remove(index)
        PROVE TypeOK'
    <3>1. CASE index >= size
      BY <2>2, <3>1 DEF ordered_array_remove, OutOfBounds, Panic
    <3>2. CASE ~(index >= size)
      BY <2>2, <3>2 DEF ordered_array_remove, OutOfBounds
    <3> QED BY <3>1, <3>2
  <2>3. ASSUME NEW index \in 0 .. MaxSize, ordered_array_index(index)
        PROVE TypeOK'
    BY <2>3 DEF ordered_array_index, Panic
  <2>4. ASSUME NEW e \in Elem, NEW k \in Key, ordered_array_changed_element(e, k)
        PROVE TypeOK'
    <3>1. size > 0
      BY <2>4 DEF ordered_array_changed_element, Members
    <3> QED BY <2>4, <3>1 DEF ordered_array_changed_element, StartPass
  <2>5. CASE PassStep
    BY <2>5 DEF PassStep
  <2>6. CASE PassDone
    BY <2>6 DEF PassDone
  <2>7. CASE Halted \/ UNCHANGED vars
    BY <2>7 DEF Halted, vars
  <2> QED
    BY <2>1, <2>2, <2>3, <2>4, <2>5, <2>6, <2>7 DEF Next
<1> QED
  BY <1>1, <1>2, PTL DEF Spec

-----------------------------------------------------------------------------
(* Swapping two neighbours, shifting the tail down over a removed slot and *)
(* appending a new pointer keep the used slots pairwise distinct: the heap *)
(* index never holds a hole twice.                                         *)
THEOREM Distinct == Spec => []NoDuplicates
<1> USE MaxSizeAssumption, KeyAssumption, NullAssumption
<1>1. Init => NoDuplicates
  BY DEF Init, NoDuplicates, Used
<1>2. TypeOK /\ NoDuplicates /\ [Next]_vars => NoDuplicates'
  <2> SUFFICES ASSUME TypeOK, NoDuplicates, [Next]_vars PROVE NoDuplicates'
    OBVIOUS
  <2> USE DEF TypeOK, NoDuplicates, Slots, Used
  <2>1. ASSUME NEW e \in Elem, NEW k \in Key, ordered_array_insert(e, k)
        PROVE NoDuplicates'
    <3>1. CASE size + 1 > MaxSize
      BY <2>1, <3>1 DEF ordered_array_insert, Panic
    <3>2. CASE ~(size + 1 > MaxSize)
      <4>1. \A j \in Used : array[j] # e
        BY <2>1 DEF ordered_array_insert, Members
      <4>2. array' = [array EXCEPT ![size] = e] /\ size' = size + 1
        BY <2>1, <3>2 DEF ordered_array_insert
      <4> QED BY <3>2, <4>1, <4>2
    <3> QED BY <3>1, <3>2
  <2>2. ASSUME NEW index \in 0 .. MaxSize, ordered_array_remove(index)
        PROVE NoDuplicates'
    <3>1. CASE index >= size
      BY <2>2, <3>1 DEF ordered_array_remove, OutOfBounds, Panic
    <3>2. CASE ~(index >= size)
      BY <2>2, <3>2 DEF ordered_array_remove, OutOfBounds
    <3> QED BY <3>1, <3>2
  <2>3. ASSUME NEW index \in 0 .. MaxSize, ordered_array_index(index)
        PROVE NoDuplicates'
    BY <2>3 DEF ordered_array_index, Panic
  <2>4. ASSUME NEW e \in Elem, NEW k \in Key, ordered_array_changed_element(e, k)
        PROVE NoDuplicates'
    BY <2>4 DEF ordered_array_changed_element
  <2>5. CASE PassStep
    BY <2>5 DEF PassStep
  <2>6. CASE PassDone \/ Halted \/ UNCHANGED vars
    BY <2>6 DEF PassDone, Halted, vars
  <2> QED
    BY <2>1, <2>2, <2>3, <2>4, <2>5, <2>6 DEF Next
<1> QED
  BY <1>1, <1>2, TypeCorrect, PTL DEF Spec

-----------------------------------------------------------------------------
(* While the pass runs, the slot under the loop variable holds the least   *)
(* key of all the slots the loop has left behind.                          *)
LeastSoFar ==
    pc = "pass" => \A k \in i .. size - 1 : key[array[i]] <= key[array[k]]

(* One pass of ordered_array_changed_element() leaves the least key in     *)
(* front, whatever order the array was in and whatever keys have changed.  *)
THEOREM LeastKeyFirst == Spec => []FrontIsSmallest
<1> USE MaxSizeAssumption, KeyAssumption, NullAssumption
<1>1. Init => LeastSoFar
  BY DEF Init, LeastSoFar
<1>2. TypeOK /\ TypeOK' /\ LeastSoFar /\ [Next]_vars => LeastSoFar'
  <2> SUFFICES ASSUME TypeOK, TypeOK', LeastSoFar, [Next]_vars PROVE LeastSoFar'
    OBVIOUS
  <2>1. CASE pc # "pass" /\ pc' = "pass"
    \* A pass starts at the last used slot.
    <3>1. i' = size' - 1
      BY <2>1 DEF Next, vars, ordered_array_insert, ordered_array_remove, OutOfBounds,
          ordered_array_index, ordered_array_changed_element, StartPass, Panic,
          PassStep, PassDone, Halted
    <3>2. key'[array'[i']] \in Int
      <4>0. i' \in 0 .. MaxSize - 1 /\ size' \in 0 .. MaxSize
        BY DEF TypeOK, Slots
      <4>1. i' \in 0 .. size' - 1
        <5>1. \A a \in 0 .. MaxSize - 1, b \in 0 .. MaxSize :
                  a = b - 1 => a \in 0 .. b - 1
          OBVIOUS
        <5> QED BY <4>0, <3>1, <5>1
      <4>2. array'[i'] \in Elem
        BY <4>1 DEF TypeOK, Used
      <4> QED BY <4>2 DEF TypeOK
    <3>3. \A k \in i' .. size' - 1 : k = i'
      BY <3>1 DEF TypeOK, Slots
    <3> QED
      BY <3>2, <3>3 DEF LeastSoFar
  <2>2. CASE PassStep
    <3>1. /\ i \in 1 .. size - 1 /\ i' = i - 1
          /\ key' = key /\ size' = size /\ pc = "pass"
      BY <2>2 DEF PassStep, TypeOK, Slots
    <3>2. \A j \in Used : key[array[j]] \in Int
      BY DEF TypeOK
    <3>3. CASE Less(array[i], array[i-1])
      <4>1. array' = [array EXCEPT ![i] = array[i-1], ![i-1] = array[i]]
        BY <2>2, <3>3 DEF PassStep
      <4>2. /\ array'[i-1] = array[i] /\ array'[i] = array[i-1]
            /\ \A k \in i + 1 .. size - 1 : array'[k] = array[k]
        BY <3>1, <4>1 DEF TypeOK, Slots
      <4> QED
        BY <3>1, <3>2, <3>3, <4>2 DEF Less, LeastSoFar, Used, TypeOK
    <3>4. CASE ~Less(array[i], array[i-1])
      <4>1. array' = array
        BY <2>2, <3>4 DEF PassStep
      <4> QED
        BY <3>1, <3>2, <3>4, <4>1 DEF Less, LeastSoFar, Used, TypeOK
    <3> QED BY <3>3, <3>4
  <2>3. CASE PassDone \/ Halted \/ UNCHANGED vars
    BY <2>3 DEF PassDone, Halted, vars, LeastSoFar
  <2>4. CASE pc' # "pass"
    BY <2>4 DEF LeastSoFar
  <2> QED
    BY <2>1, <2>2, <2>3, <2>4 DEF Next, ordered_array_insert,
        ordered_array_remove, ordered_array_index,
        ordered_array_changed_element, Panic
<1>3. TypeOK /\ LeastSoFar => FrontIsSmallest
  BY DEF TypeOK, LeastSoFar, FrontIsSmallest, Used, Slots
<1> QED
  BY <1>1, <1>2, <1>3, TypeCorrect, PTL DEF Spec

-----------------------------------------------------------------------------
(* Pair(j, k) is in order; SortedBut(p) says that every pair is, except    *)
(* that the element in slot p may be too small for its place.              *)
Pair(j, k) == key[array[j]] <= key[array[k]]
SortedBut(p) == \A j, k \in Used : j < k /\ k # p => Pair(j, k)

(* As long as no key has grown: between calls the array is sorted, and     *)
(* during a pass at most one element is out of place, one the loop has     *)
(* not passed yet.                                                         *)
AtMostOneMisplaced ==
    ~grown => /\ pc = "ready" => Sorted
              /\ pc = "pass" => \E p \in 0 .. i : SortedBut(p)

(* ordered_array_insert(), ordered_array_remove() and reported decreases   *)
(* keep the array sorted, in every number and order of calls.              *)
THEOREM StaysSorted == Spec => []SortedUnlessGrown
<1> USE MaxSizeAssumption, KeyAssumption, NullAssumption
<1>1. Init => AtMostOneMisplaced
  BY DEF Init, AtMostOneMisplaced, Sorted, Used
<1>2. TypeOK /\ TypeOK' /\ NoDuplicates /\ AtMostOneMisplaced /\ [Next]_vars
        => AtMostOneMisplaced'
  <2> SUFFICES ASSUME TypeOK, TypeOK', NoDuplicates, AtMostOneMisplaced,
                      [Next]_vars, ~grown'
               PROVE  /\ (pc = "ready" => Sorted)'
                      /\ (pc = "pass" => \E p \in 0 .. i : SortedBut(p))'
    BY DEF AtMostOneMisplaced
  <2>0. /\ ~grown
        /\ \A j \in Used : array[j] \in Elem /\ key[array[j]] \in Int
        /\ \A j \in Used' : array'[j] \in Elem /\ key'[array'[j]] \in Int
    BY DEF TypeOK, Next, vars, ordered_array_insert, ordered_array_remove, OutOfBounds,
        ordered_array_index, ordered_array_changed_element, Panic, PassStep,
        PassDone, Halted
  <2>1. ASSUME NEW e \in Elem, NEW v \in Key, ordered_array_insert(e, v)
        PROVE  /\ (pc = "ready" => Sorted)'
               /\ (pc = "pass" => \E p \in 0 .. i : SortedBut(p))'
    <3>1. CASE size + 1 > MaxSize
      BY <2>1, <3>1 DEF ordered_array_insert, Panic
    <3>2. CASE ~(size + 1 > MaxSize)
      <4>1. /\ pc = "ready" /\ pc' = "pass" /\ size' = size + 1 /\ i' = size
            /\ array' = [array EXCEPT ![size] = e]
            /\ key' = [key EXCEPT ![e] = v]
            /\ \A j \in Used : array[j] # e
        BY <2>1, <3>2 DEF ordered_array_insert, StartPass, Members, TypeOK
      <4>2. \A j \in Used : /\ j \in Used' /\ array'[j] = array[j]
                            /\ key'[array'[j]] = key[array[j]]
        BY <2>0, <4>1 DEF TypeOK, Slots, Used
      <4>3. \A j, k \in Used : j < k => key[array[j]] <= key[array[k]]
        BY <2>0, <4>1 DEF AtMostOneMisplaced, Sorted
      <4>4. \A j, k \in Used' : j < k /\ k # size => j \in Used /\ k \in Used
        BY <4>1 DEF TypeOK, Used
      <4>5. PICK p \in 0 .. i' : p = size
        BY <4>1 DEF TypeOK
      <4>6. SortedBut(p)'
        BY <4>1, <4>2, <4>3, <4>4, <4>5 DEF SortedBut, Pair
      <4> QED BY <4>1, <4>6
    <3> QED BY <3>1, <3>2
  <2>2. ASSUME NEW index \in 0 .. MaxSize, ordered_array_remove(index)
        PROVE  /\ (pc = "ready" => Sorted)'
               /\ (pc = "pass" => \E p \in 0 .. i : SortedBut(p))'
    <3>1. CASE index >= size
      BY <2>2, <3>1 DEF ordered_array_remove, OutOfBounds, Panic
    <3>2. CASE ~(index >= size)
      <4>1. /\ pc = "ready" /\ pc' = "ready" /\ size' = size - 1 /\ key' = key
            /\ array' = [j \in Slots |-> IF j >= index /\ j < size - 1
                                         THEN array[j+1] ELSE array[j]]
        BY <2>2, <3>2 DEF ordered_array_remove, OutOfBounds
      <4>2. \A j, k \in Used : j < k => key[array[j]] <= key[array[k]]
        BY <2>0, <4>1 DEF AtMostOneMisplaced, Sorted
      <4>3. \A j \in Used' : /\ j \in Used /\ j + 1 \in Used
                             /\ array'[j] = IF j >= index THEN array[j+1]
                                                          ELSE array[j]
        BY <4>1 DEF TypeOK, Used, Slots
      <4>4. Sorted'
        BY <4>1, <4>2, <4>3 DEF Sorted, Used, TypeOK
      <4> QED BY <4>1, <4>4
    <3> QED BY <3>1, <3>2
  <2>3. ASSUME NEW index \in 0 .. MaxSize, ordered_array_index(index)
        PROVE  /\ (pc = "ready" => Sorted)'
               /\ (pc = "pass" => \E p \in 0 .. i : SortedBut(p))'
    BY <2>3 DEF ordered_array_index, Panic
  <2>4. ASSUME NEW e \in Elem, NEW v \in Key, ordered_array_changed_element(e, v)
        PROVE  /\ (pc = "ready" => Sorted)'
               /\ (pc = "pass" => \E p \in 0 .. i : SortedBut(p))'
    \* The shrunken element is the only one that can be out of place.
    <3>1. /\ pc = "ready" /\ pc' = "pass" /\ i' = size - 1
          /\ array' = array /\ size' = size
          /\ key' = [key EXCEPT ![e] = v] /\ v <= key[e]
      <4>1. ~(v > key[e])
        BY <2>4, Zenon DEF ordered_array_changed_element
      <4>2. v \in Int /\ key[e] \in Int
        BY DEF TypeOK
      <4>3. v <= key[e]
        BY <4>1, <4>2
      <4>4. pc = "ready" /\ array' = array /\ size' = size
            /\ key' = [key EXCEPT ![e] = v] /\ pc' = "pass" /\ i' = size' - 1
        BY <2>4, Zenon DEF ordered_array_changed_element, StartPass
      <4> QED BY <4>3, <4>4
    <3>2. PICK p \in Used : array[p] = e
      BY <2>4 DEF ordered_array_changed_element, Members
    <3>3. \A j \in Used : j # p => array[j] # e
      BY <3>2 DEF NoDuplicates
    <3>4. \A j, k \in Used : j < k => key[array[j]] <= key[array[k]]
      BY <2>0, <3>1 DEF AtMostOneMisplaced, Sorted
    <3>5. \A j \in Used : /\ key'[array[j]] <= key[array[j]]
                          /\ j # p => key'[array[j]] = key[array[j]]
      BY <2>0, <3>1, <3>2, <3>3 DEF TypeOK
    <3>6. SortedBut(p)'
      <4> SUFFICES ASSUME NEW j \in Used, NEW k \in Used, j < k, k # p
                   PROVE  key'[array[j]] <= key'[array[k]]
        BY <3>1 DEF SortedBut, Pair, Used
      <4>1. /\ key[array[j]] \in Int /\ key[array[k]] \in Int
            /\ key'[array[j]] \in Int /\ key'[array[k]] \in Int
        BY <2>0, <3>1 DEF Used
      <4>2. /\ key'[array[j]] <= key[array[j]] /\ key[array[j]] <= key[array[k]]
            /\ key'[array[k]] = key[array[k]]
        BY <3>4, <3>5
      <4> QED BY <4>1, <4>2
    <3>7. p \in 0 .. i'
      BY <3>1, <3>2 DEF Used, TypeOK
    <3> QED BY <3>1, <3>6, <3>7
  <2>5. CASE PassStep
    <3>1. /\ pc = "pass" /\ pc' = "pass" /\ i \in 1 .. size - 1 /\ i' = i - 1
          /\ key' = key /\ size' = size
      BY <2>5 DEF PassStep, TypeOK, Slots
    <3>2. PICK p \in 0 .. i : SortedBut(p)
      BY <2>0, <3>1 DEF AtMostOneMisplaced
    <3>3. CASE p # i
      \* The pair under the loop is in order: no swap, p is still ahead.
      <4>1. ~Less(array[i], array[i-1])
        BY <2>0, <3>1, <3>2, <3>3 DEF SortedBut, Pair, Less, Used, TypeOK
      <4>2. array' = array
        BY <2>5, <4>1 DEF PassStep
      <4>3. SortedBut(p)'
        BY <3>1, <3>2, <4>2 DEF SortedBut, Pair, Used
      <4>4. p \in 0 .. i'
        BY <3>1, <3>3
      <4> QED BY <3>1, <4>3, <4>4
    <3>4. CASE p = i /\ Less(array[i], array[i-1])
      <4>1. array' = [array EXCEPT ![i] = array[i-1], ![i-1] = array[i]]
        BY <2>5, <3>4 DEF PassStep
      <4>2. \A j \in Used : array'[j] = IF j = i THEN array[i-1] ELSE
                                       IF j = i - 1 THEN array[i] ELSE array[j]
        BY <3>1, <4>1 DEF TypeOK, Slots, Used
      <4>3. PICK q \in 0 .. i' : q = i - 1
        BY <3>1
      <4>4. SortedBut(q)'
        BY <2>0, <3>1, <3>2, <3>4, <4>2, <4>3 DEF SortedBut, Pair, Less, Used, TypeOK
      <4> QED BY <3>1, <4>4
    <3>5. CASE p = i /\ ~Less(array[i], array[i-1])
      <4>1. array' = array
        BY <2>5, <3>5 DEF PassStep
      <4>2. PICK q \in 0 .. i' : q = i - 1
        BY <3>1
      <4>3. SortedBut(q)'
        BY <2>0, <3>1, <3>2, <3>5, <4>1, <4>2 DEF SortedBut, Pair, Less, Used, TypeOK
      <4> QED BY <3>1, <4>3
    <3> QED BY <3>3, <3>4, <3>5
  <2>6. CASE PassDone
    <3>1. i = 0 /\ pc' = "ready" /\ UNCHANGED << array, size, key >>
      BY <2>6 DEF PassDone, TypeOK, Slots
    <3>2. PICK p \in 0 .. 0 : SortedBut(p)
      BY <2>0, <2>6, <3>1 DEF PassDone, AtMostOneMisplaced
    <3> QED
      BY <3>1, <3>2 DEF SortedBut, Pair, Sorted, Used, TypeOK
  <2>7. CASE Halted \/ UNCHANGED vars
    BY <2>0, <2>7 DEF Halted, vars, AtMostOneMisplaced, Sorted, SortedBut, Pair, Used
  <2> QED
    BY <2>1, <2>2, <2>3, <2>4, <2>5, <2>6, <2>7 DEF Next
<1>3. AtMostOneMisplaced => SortedUnlessGrown
  BY DEF AtMostOneMisplaced, SortedUnlessGrown
<1> QED
  BY <1>1, <1>2, <1>3, TypeCorrect, Distinct, PTL DEF Spec
-----------------------------------------------------------------------------
(* What DataLemmas says of the recursion, for the operators the state      *)
(* machine refers to.                                                      *)
Lemmas == INSTANCE DataLemmas

(* What the pass of OrderedArray holds at each position.                   *)
LEMMA ReferenceValues ==
    ASSUME NEW a, NEW ks, Len(a) \in Nat \ {0}, NEW j \in 1 .. Len(a)
    PROVE  Reference!Pass(a, ks)[j] =
             IF j = Len(a) THEN a
             ELSE Reference!SwapIfLess(Reference!Pass(a, ks)[j+1], j + 1, ks)
<1>1. Lemmas!Pass(a, ks)[j] =
        IF j = Len(a) THEN a
        ELSE Lemmas!SwapIfLess(Lemmas!Pass(a, ks)[j+1], j + 1, ks)
  BY Lemmas!PassValues
<1>2. Lemmas!Pass(a, ks) = Reference!Pass(a, ks)
  BY Zenon DEF Lemmas!Pass, Reference!Pass, Lemmas!SwapIfLess, Reference!SwapIfLess
<1>3. \A b : Lemmas!SwapIfLess(b, j + 1, ks) = Reference!SwapIfLess(b, j + 1, ks)
  BY Zenon DEF Lemmas!SwapIfLess, Reference!SwapIfLess
<1> QED BY <1>1, <1>2, <1>3

(* An iteration of the loop does to the used slots what SwapIfLess does.   *)
LEMMA StepSwaps ==
    ASSUME TypeOK, PassStep
    PROVE  Contents' = Reference!SwapIfLess(Contents, i + 1, key)
<1> USE MaxSizeAssumption
<1>1. i \in 1 .. size - 1 /\ size \in Nat /\ size' = size /\ i + 1 \in 1 .. size
  BY DEF PassStep, TypeOK, Slots
<1>2. PICK c : c = Contents
  OBVIOUS
<1>3. c = [j \in 1 .. size |-> c[j]] /\ \A j \in 1 .. size : c[j] = array[j-1]
  BY <1>1, <1>2 DEF Contents
<1>4. c[i+1] = array[i] /\ c[i] = array[i-1] /\ c[(i + 1) - 1] = array[i-1]
  BY <1>1, <1>3
<1>5. PICK d : d = Contents'
  OBVIOUS
<1>6. d = [j \in 1 .. size |-> array'[j-1]]
  BY <1>1, <1>5 DEF Contents
<1>7. CASE ~Less(array[i], array[i-1])
  <2>1. array' = array
    BY <1>7 DEF PassStep
  <2>2. d = c
    BY <1>2, <1>6, <2>1 DEF Contents
  <2>3. Reference!SwapIfLess(c, i + 1, key) = c
    BY <1>4, <1>7 DEF Reference!SwapIfLess, Less
  <2> QED BY <1>2, <1>5, <2>2, <2>3
<1>8. CASE Less(array[i], array[i-1])
  <2>1. array' = [array EXCEPT ![i] = array[i-1], ![i-1] = array[i]]
    BY <1>8 DEF PassStep
  <2>2. \A j \in 1 .. size :
           array'[j-1] = IF j = i + 1 THEN array[i-1]
                         ELSE IF j = i THEN array[i] ELSE array[j-1]
    BY <1>1, <2>1 DEF TypeOK, Slots
  <2>3. Reference!SwapIfLess(c, i + 1, key) =
           [c EXCEPT ![i+1] = c[(i + 1) - 1], ![(i + 1) - 1] = c[i+1]]
    BY <1>4, <1>8, Zenon DEF Reference!SwapIfLess, Less
  <2>4. PICK k : k = (i + 1) - 1
    OBVIOUS
  <2>5. k = i
    BY <1>1, <2>4
  <2>6. [c EXCEPT ![i+1] = c[k], ![k] = c[i+1]] = [j \in 1 .. size |-> array'[j-1]]
    BY <1>1, <1>3, <1>4, <2>2, <2>5
  <2> QED BY <1>2, <1>5, <1>6, <2>3, <2>4, <2>6
<1> QED BY <1>7, <1>8

(* During the pass the used slots are the array that Pass names for the    *)
(* loop variable.                                                          *)
PassAgrees ==
    pc = "pass" =>
        /\ Len(before) = size
        /\ Contents = Reference!Pass(before, key)[i+1]

(* The loop of ordered_array_changed_element() computes the operator the   *)
(* heap model uses, for arrays of any length.                              *)
THEOREM PassIsReference == Spec => []PassComputesReference
<1> USE MaxSizeAssumption, KeyAssumption, NullAssumption
<1>1. Init => PassAgrees
  BY DEF Init, PassAgrees
<1>2. TypeOK /\ TypeOK' /\ PassAgrees /\ [Next]_vars => PassAgrees'
  <2> SUFFICES ASSUME TypeOK, TypeOK', PassAgrees, [Next]_vars, pc' = "pass"
               PROVE  Len(before)' = size' /\ Contents' = (Reference!Pass(before, key)[i+1])'
    BY DEF PassAgrees
  <2>1. CASE pc # "pass"
    <3>1. StartPass
      BY <2>1 DEF Next, vars, ordered_array_insert, ordered_array_remove, OutOfBounds,
          ordered_array_index, ordered_array_changed_element, Panic,
          PassStep, PassDone, Halted
    <3>2. before' = Contents'
      <4>1. before' = [j \in 1 .. size' |-> array'[j-1]]
        BY <3>1 DEF StartPass
      <4> QED BY <4>1 DEF Contents
    <3>3. i' + 1 = size' /\ size' \in Nat \ {0}
      <4>1. PICK n, m : n = i' /\ m = size'
        OBVIOUS
      <4>2. n \in 0 .. MaxSize - 1 /\ m \in 0 .. MaxSize /\ n = m - 1
        BY <3>1, <4>1 DEF StartPass, TypeOK, Slots
      <4>3. n + 1 = m /\ m \in Nat \ {0}
        BY <4>2
      <4> QED BY <4>1, <4>3
    <3>4. Len(before') = size'
      <4>1. Len(Contents') = size'
        BY <3>3 DEF Contents
      <4> QED BY <3>2, <4>1
    <3>5. Reference!Pass(before', key')[size'] = before'
      BY <3>3, <3>4, ReferenceValues
    <3> QED BY <3>2, <3>3, <3>4, <3>5
  <2>2. CASE pc = "pass" /\ PassStep
    <3>1. /\ UNCHANGED << size, key, before >> /\ i' + 1 = i /\ size \in Nat \ {0}
          /\ i \in 1 .. size /\ i # size
      BY <2>2 DEF PassStep, TypeOK, Slots
    <3>2. Contents' = Reference!SwapIfLess(Contents, i + 1, key)
      BY <2>2, StepSwaps
    <3>3. Len(before) = size /\ Contents = Reference!Pass(before, key)[i+1]
      BY <2>2 DEF PassAgrees
    <3>4. Reference!Pass(before, key)[i] =
            Reference!SwapIfLess(Reference!Pass(before, key)[i+1], i + 1, key)
      BY <3>1, <3>3, ReferenceValues
    <3> QED BY <3>1, <3>2, <3>3, <3>4
  <2>3. CASE pc = "pass" /\ ~PassStep
    <3>1. UNCHANGED vars
      BY <2>3 DEF Next, ordered_array_insert, ordered_array_remove,
          ordered_array_index, ordered_array_changed_element, PassDone, Halted
    <3> QED BY <2>3, <3>1 DEF PassAgrees, vars, Contents
  <2> QED BY <2>1, <2>2, <2>3
<1>3. TypeOK /\ PassAgrees => PassComputesReference
  <2> SUFFICES ASSUME TypeOK, PassAgrees, pc = "pass", i = 0
               PROVE  Contents = Reference!ordered_array_changed_element(before, key)
    BY DEF PassComputesReference
  <2>1. Len(before) \in Nat \ {0} /\ Contents = Reference!Pass(before, key)[1]
    BY DEF PassAgrees, TypeOK
  <2>2. before # << >>
    BY <2>1
  <2> QED BY <2>1, <2>2 DEF Reference!ordered_array_changed_element
<1> QED BY <1>1, <1>2, <1>3, TypeCorrect, PTL DEF Spec
=============================================================================
