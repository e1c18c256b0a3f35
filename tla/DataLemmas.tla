----------------------------- MODULE DataLemmas -----------------------------
(***************************************************************************)
(* Facts that the proofs of several components use: about natural numbers, *)
(* and about what the operators of OrderedArray return, for every sequence *)
(* and every assignment of keys.                                           *)
(***************************************************************************)
EXTENDS OrderedArray, WellFoundedInduction, SequenceTheorems, FiniteSetTheorems, TLAPS

(* A set of natural numbers has a least element.  This is also how the     *)
(* proofs do induction: no number can be the least counterexample.         *)
LEMMA LeastNumber ==
    ASSUME NEW T, T \subseteq Nat, T # {}
    PROVE  \E x \in T : \A y \in T : x <= y
<1> DEFINE R == { p \in Nat \X Nat : p[1] < p[2] }
<1>1. IsWellFoundedOn(R, Nat)
  BY NatLessThanWellFounded DEF OpToRel
<1> HIDE DEF R
<1>2. \E x \in T : \A y \in T : << y, x >> \notin R
  BY <1>1, WFMin
<1>3. \A x, y \in Nat : << y, x >> \notin R => x <= y
  BY DEF R
<1> QED BY <1>2, <1>3

(* The values of % and \div.                                               *)
LEMMA Remainder == \A a \in Nat, b \in Nat \ {0} : a % b \in 0 .. b - 1
  BY SMT

(* The quotient and the remainder make up the number.                      *)
LEMMA Division ==
    \A a \in Nat, b \in Nat \ {0} : a \div b \in Nat /\ a = b * (a \div b) + (a % b)
  BY SMT

(* The quotient is the only number with that property.                     *)
LEMMA Quotient ==
    ASSUME NEW b \in Nat \ {0}, NEW p \in Nat, NEW q \in Nat,
           NEW r \in 0 .. b - 1, NEW s \in 0 .. b - 1, b * p + r = b * q + s
    PROVE  p = q
<1>1. ASSUME NEW u \in Nat, NEW v \in Nat, u > v
      PROVE  b * u >= b * v + b
  <2>1. PICK e \in Nat : u = v + 1 + e
    <3>1. u - v - 1 \in Nat /\ u = v + 1 + (u - v - 1)
      BY <1>1
    <3> QED BY <3>1
  <2>2. b * u = b * v + b + b * e
    BY <2>1, SMT
  <2>3. b * e \in Nat /\ b * v \in Nat
    BY SMT
  <2> QED BY <2>2, <2>3, SMT
<1>2. b * p \in Nat /\ b * q \in Nat
  BY SMT
<1> QED BY <1>1, <1>2, SMT

(* Division is monotone.                                                   *)
LEMMA QuotientMonotone ==
    ASSUME NEW a \in Nat, NEW c \in Nat, a <= c, NEW b \in Nat \ {0}
    PROVE  a \div b <= c \div b
<1>1. PICK p \in Nat, r \in 0 .. b - 1 : p = a \div b /\ a = b * p + r
  BY Division, Remainder
<1>2. PICK q \in Nat, s \in 0 .. b - 1 : q = c \div b /\ c = b * q + s
  BY Division, Remainder
<1>3. SUFFICES ASSUME q < p PROVE FALSE
  BY <1>1, <1>2
<1>4. PICK d \in Nat : p = q + 1 + d
  <2>1. p - q - 1 \in Nat /\ p = q + 1 + (p - q - 1)
    BY <1>3
  <2> QED BY <2>1
<1>5. b * p = b * q + b + b * d /\ b * q \in Nat /\ b * d \in Nat
  BY <1>4, SMT
<1> QED BY <1>1, <1>2, <1>5, SMT

(* A multiple leaves no remainder.                                         *)
LEMMA MultipleRemainder ==
    ASSUME NEW a \in Nat, NEW b \in Nat \ {0}, NEW q \in Nat, a = b * q
    PROVE  a % b = 0
<1>1. PICK p \in Nat, s \in 0 .. b - 1 : s = a % b /\ a = b * p + s
  <2>1. a \div b \in Nat /\ a % b \in 0 .. b - 1 /\ a = b * (a \div b) + (a % b)
    BY Remainder, Division
  <2> QED BY <2>1
<1>2. b * p \in Nat /\ b * q \in Nat
  BY SMT
<1>3. b * p + s = b * q + 0
  BY <1>1, <1>2
<1>4. p = q
  BY <1>3, Quotient
<1>5. s = 0
  <2>1. PICK x \in Nat : x = b * q
    BY <1>2
  <2>2. x + s = x + 0 /\ s \in Nat
    BY <1>3, <1>4, <2>1
  <2> QED BY <2>2
<1> QED BY <1>1, <1>5

(* The least multiple above a number, as a tab computes it.                *)
LEMMA NextMultiple ==
    ASSUME NEW a \in Nat, NEW b \in Nat \ {0}
    PROVE  (a + b) \div b = a \div b + 1
<1>1. PICK q \in Nat, r \in 0 .. b - 1, p \in Nat, s \in 0 .. b - 1 :
         /\ q = a \div b /\ a = b * q + r
         /\ p = (a + b) \div b /\ a + b = b * p + s
  <2>1. a \div b \in Nat /\ a % b \in 0 .. b - 1 /\ a = b * (a \div b) + (a % b)
    BY Remainder, Division
  <2>2. PICK c \in Nat : c = a + b
    OBVIOUS
  <2>3. /\ c \div b \in Nat /\ c % b \in 0 .. b - 1
        /\ c = b * (c \div b) + (c % b)
    BY Remainder, Division
  <2> QED BY <2>1, <2>2, <2>3
<1>2. b * (q + 1) = b * q + b
  BY SMT
<1>3. b * p + s = b * (q + 1) + r
  BY <1>1, <1>2, SMT
<1>4. p = q + 1
  BY <1>3, Quotient
<1> QED BY <1>1, <1>4
-----------------------------------------------------------------------------
(* The array at position i of the pass, from the array at position i + 1.  *)
PassAt(f, a, key, i) == IF i = Len(a) THEN a ELSE SwapIfLess(f[i+1], i + 1, key)

(* The recursion from the last position down to n has a solution.          *)
LEMMA PassExists ==
    ASSUME NEW a, Len(a) \in Nat, NEW key, NEW n \in 1 .. Len(a)
    PROVE  \E f : \A i \in n .. Len(a) : f[i] = PassAt(f, a, key, i)
<1> DEFINE Solved(m) == \E f : \A i \in m .. Len(a) : f[i] = PassAt(f, a, key, i)
           Bad == { k \in 0 .. Len(a) - 1 : ~Solved(Len(a) - k) }
<1>1. Solved(Len(a))
  <2> DEFINE f == [i \in Nat |-> a]
  <2>1. \A i \in Len(a) .. Len(a) : f[i] = PassAt(f, a, key, i)
    BY DEF PassAt
  <2> QED BY <2>1
<1>2. ASSUME NEW k \in 1 .. Len(a) - 1, Solved(Len(a) - (k - 1))
      PROVE  Solved(Len(a) - k)
  <2>1. PICK m \in Nat : m = Len(a) - k
    OBVIOUS
  <2>2. Len(a) - (k - 1) = m + 1 /\ m # Len(a)
    BY <2>1
  <2>3. PICK f : \A i \in m + 1 .. Len(a) : f[i] = PassAt(f, a, key, i)
    BY <1>2, <2>2
  <2>4. PICK e : e = SwapIfLess(f[m+1], m + 1, key)
    OBVIOUS
  <2> DEFINE g == [i \in Nat |-> IF i = m THEN e ELSE f[i]]
  <2>5. \A i \in Nat : g[i] = IF i = m THEN e ELSE f[i]
    OBVIOUS
  <2> HIDE DEF g
  <2>6. ASSUME NEW i \in m .. Len(a) PROVE g[i] = PassAt(g, a, key, i)
    <3>1. CASE i = m
      <4>1. g[i] = e /\ g[i+1] = f[i+1]
        BY <2>1, <2>5, <3>1
      <4> QED BY <2>1, <2>2, <2>4, <3>1, <4>1 DEF PassAt
    <3>2. CASE i # m
      <4>1. i \in m + 1 .. Len(a) /\ i \in Nat /\ i + 1 \in Nat /\ i + 1 # m
        BY <2>1, <3>2
      <4>2. g[i] = f[i] /\ g[i+1] = f[i+1]
        BY <2>5, <3>2, <4>1
      <4>3. f[i] = PassAt(f, a, key, i)
        BY <2>3, <4>1
      <4> QED BY <4>2, <4>3 DEF PassAt
    <3> QED BY <3>1, <3>2
  <2>7. Solved(m)
    BY <2>6
  <2> QED BY <2>1, <2>7
<1> HIDE DEF Solved
<1>3. Bad = {}
  <2> SUFFICES ASSUME Bad # {} PROVE FALSE
    OBVIOUS
  <2>1. Bad \subseteq Nat
    OBVIOUS
  <2>2. PICK k \in Bad : \A j \in Bad : k <= j
    BY <2>1, LeastNumber
  <2>3. k # 0
    <3>1. Len(a) - 0 = Len(a)
      OBVIOUS
    <3> QED BY <1>1, <2>2, <3>1
  <2>4. k \in 1 .. Len(a) - 1 /\ k - 1 \in 0 .. Len(a) - 1
    BY <2>2, <2>3
  <2>5. k - 1 \notin Bad
    BY <2>1, <2>2, <2>4
  <2>6. Solved(Len(a) - (k - 1))
    BY <2>4, <2>5
  <2> QED BY <1>2, <2>2, <2>4, <2>6
<1>4. Len(a) - n \in 0 .. Len(a) - 1 /\ Len(a) - (Len(a) - n) = n
  OBVIOUS
<1>5. Len(a) - n \notin Bad
  BY <1>3
<1>6. Solved(n)
  BY <1>4, <1>5
<1> QED BY <1>6 DEF Solved

(* So Pass is what its recursive definition says.                          *)
LEMMA PassValues ==
    ASSUME NEW a, Len(a) \in Nat \ {0}, NEW key, NEW i \in 1 .. Len(a)
    PROVE  Pass(a, key)[i] = IF i = Len(a) THEN a
                             ELSE SwapIfLess(Pass(a, key)[i+1], i + 1, key)
<1> DEFINE D == 1 .. Len(a)
<1>1. PICK f : \A j \in D : f[j] = PassAt(f, a, key, j)
  <2>1. 1 \in 1 .. Len(a) /\ Len(a) \in Nat
    OBVIOUS
  <2> QED BY <2>1, PassExists
<1> DEFINE g == [j \in D |-> f[j]]
<1>a. \A j \in D : g[j] = f[j]
  OBVIOUS
<1>b. g = [j \in D |-> g[j]]
  OBVIOUS
<1> HIDE DEF g
<1>2. g = [j \in D |-> IF j = Len(a) THEN a ELSE SwapIfLess(g[j+1], j + 1, key)]
  <2>1. \A j \in D : g[j] = IF j = Len(a) THEN a ELSE SwapIfLess(g[j+1], j + 1, key)
    <3> TAKE j \in D
    <3>1. j # Len(a) => j + 1 \in D
      OBVIOUS
    <3>2. g[j] = PassAt(f, a, key, j)
      BY <1>1, <1>a
    <3>3. CASE j = Len(a)
      BY <3>2, <3>3 DEF PassAt
    <3>4. CASE j # Len(a)
      <4>1. g[j+1] = f[j+1]
        BY <1>a, <3>1, <3>4
      <4> QED BY <3>2, <3>4, <4>1 DEF PassAt
    <3> QED BY <3>3, <3>4
  <2>2. [j \in D |-> g[j]] = [j \in D |-> IF j = Len(a) THEN a ELSE SwapIfLess(g[j+1], j + 1, key)]
    BY <2>1
  <2> QED BY <1>b, <2>2
<1>3. Pass(a, key) = [j \in D |-> IF j = Len(a) THEN a
                                  ELSE SwapIfLess(Pass(a, key)[j+1], j + 1, key)]
  BY <1>2, Zenon DEF Pass
<1> QED BY <1>3
-----------------------------------------------------------------------------
(* The sequence a lists the members of S, each once.                       *)
Lists(a, S) ==
    /\ a \in Seq(S)
    /\ \A x \in S : \E i \in 1 .. Len(a) : a[i] = x
    /\ \A i, j \in 1 .. Len(a) : a[i] = a[j] => i = j

(* Two members change places.                                              *)
Swapped(a, i) == [a EXCEPT ![i] = a[i-1], ![i-1] = a[i]]

(* Swapping two neighbours: length and slots afterwards.                   *)
LEMMA SwappedValues ==
    ASSUME NEW S, NEW a \in Seq(S), NEW i \in 2 .. Len(a)
    PROVE  /\ Swapped(a, i) \in Seq(S) /\ Len(Swapped(a, i)) = Len(a)
           /\ \A j \in 1 .. Len(a) :
                 Swapped(a, i)[j] = IF j = i THEN a[i-1] ELSE IF j = i - 1 THEN a[i] ELSE a[j]
<1> DEFINE b == [a EXCEPT ![i] = a[i-1]]
           c == [b EXCEPT ![i-1] = a[i]]
<1>1. /\ i \in 1 .. Len(a) /\ i - 1 \in 1 .. Len(a) /\ a[i] \in S /\ a[i-1] \in S
      /\ i # i - 1
  BY ElementOfSeq
<1>2. /\ b \in Seq(S) /\ Len(b) = Len(a)
      /\ \A j \in 1 .. Len(a) : b[j] = IF j = i THEN a[i-1] ELSE a[j]
  BY <1>1, ExceptSeq
<1> HIDE DEF b
<1>3. /\ c \in Seq(S) /\ Len(c) = Len(b)
      /\ \A j \in 1 .. Len(b) : c[j] = IF j = i - 1 THEN a[i] ELSE b[j]
  BY <1>1, <1>2, ExceptSeq
<1>4. Swapped(a, i) = c
  BY Zenon DEF Swapped, b
<1> HIDE DEF c
<1> QED BY <1>1, <1>2, <1>3, <1>4

(* One iteration of the pass swaps two members or none.                    *)
LEMMA SwapLists ==
    ASSUME NEW S, NEW a, Lists(a, S), NEW i \in 2 .. Len(a), NEW key
    PROVE  Lists(SwapIfLess(a, i, key), S) /\ Len(SwapIfLess(a, i, key)) = Len(a)
<1> DEFINE r == Swapped(a, i)
<1>1. /\ a \in Seq(S) /\ r \in Seq(S) /\ Len(r) = Len(a) /\ Len(a) \in Nat
      /\ \A j \in 1 .. Len(a) :
            r[j] = IF j = i THEN a[i-1] ELSE IF j = i - 1 THEN a[i] ELSE a[j]
  BY SwappedValues DEF Lists
<1> HIDE DEF r
<1>2. i \in 1 .. Len(a) /\ i - 1 \in 1 .. Len(a) /\ i - 1 # i
  BY <1>1
<1>a. r[i] = a[i-1] /\ r[i-1] = a[i]
  BY <1>1, <1>2
<1>3. ASSUME NEW x \in S PROVE \E j \in 1 .. Len(r) : r[j] = x
  <2>1. PICK j \in 1 .. Len(a) : a[j] = x
    BY DEF Lists
  <2>2. CASE j = i
    BY <1>1, <1>2, <1>a, <2>1, <2>2
  <2>3. CASE j = i - 1
    BY <1>1, <1>2, <1>a, <2>1, <2>3
  <2>4. CASE j # i /\ j # i - 1
    BY <1>1, <2>1, <2>4
  <2> QED BY <2>2, <2>3, <2>4
<1>4. ASSUME NEW j \in 1 .. Len(r), NEW k \in 1 .. Len(r), r[j] = r[k] PROVE j = k
  <2>1. \A u, v \in 1 .. Len(a) : a[u] = a[v] => u = v
    BY DEF Lists
  <2>2. j \in 1 .. Len(a) /\ k \in 1 .. Len(a)
    BY <1>1, <1>4
  <2>3. r[j] = IF j = i THEN a[i-1] ELSE IF j = i - 1 THEN a[i] ELSE a[j]
    BY <1>1, <2>2
  <2>4. r[k] = IF k = i THEN a[i-1] ELSE IF k = i - 1 THEN a[i] ELSE a[k]
    BY <1>1, <2>2
  <2> QED BY <1>2, <1>4, <2>1, <2>2, <2>3, <2>4
<1>5. Lists(r, S)
  BY <1>1, <1>3, <1>4 DEF Lists
<1>6. SwapIfLess(a, i, key) \in {a, r}
  BY Zenon DEF SwapIfLess, r, Swapped
<1> QED BY <1>1, <1>5, <1>6

(* ordered_array_changed_element() neither loses nor doubles a pointer.    *)
LEMMA ChangedLists ==
    ASSUME NEW S, NEW a, Lists(a, S), NEW key
    PROVE  /\ Lists(ordered_array_changed_element(a, key), S)
           /\ Len(ordered_array_changed_element(a, key)) = Len(a)
<1>1. CASE a = << >>
  BY <1>1 DEF ordered_array_changed_element
<1>2. CASE a # << >>
  <2> DEFINE Good(i) == Lists(Pass(a, key)[i], S) /\ Len(Pass(a, key)[i]) = Len(a)
             Bad == { k \in 0 .. Len(a) - 1 : ~Good(Len(a) - k) }
  <2>1. Len(a) \in Nat \ {0}
    BY <1>2, EmptySeq DEF Lists
  <2>2. Good(Len(a))
    BY <2>1, PassValues
  <2>3. ASSUME NEW i \in 1 .. Len(a) - 1, Good(i + 1) PROVE Good(i)
    <3>1. i \in 1 .. Len(a) /\ i # Len(a) /\ i + 1 \in 2 .. Len(a)
      BY <2>1
    <3>2. PICK p : p = Pass(a, key)[i+1]
      OBVIOUS
    <3>3. Pass(a, key)[i] = SwapIfLess(p, i + 1, key)
      BY <2>1, <3>1, <3>2, PassValues
    <3>4. Lists(p, S) /\ i + 1 \in 2 .. Len(p) /\ Len(p) = Len(a)
      BY <2>3, <3>1, <3>2
    <3> QED BY <3>3, <3>4, SwapLists
  <2> HIDE DEF Good
  <2>4. Bad = {}
    <3> SUFFICES ASSUME Bad # {} PROVE FALSE
      OBVIOUS
    <3>1. PICK k \in Bad : \A j \in Bad : k <= j
      <4>1. Bad \subseteq Nat
        OBVIOUS
      <4> QED BY <4>1, LeastNumber
    <3>2. k # 0
      <4>1. Len(a) - 0 = Len(a)
        BY <2>1
      <4> QED BY <2>2, <3>1, <4>1
    <3>3. k - 1 \in 0 .. Len(a) - 1 /\ Len(a) - k \in 1 .. Len(a) - 1
      BY <2>1, <3>1, <3>2
    <3>4. k - 1 \notin Bad
      BY <2>1, <3>1, <3>3
    <3>5. Len(a) - (k - 1) = (Len(a) - k) + 1
      BY <2>1, <3>3
    <3>6. Good((Len(a) - k) + 1)
      BY <3>3, <3>4, <3>5
    <3> QED BY <2>3, <3>1, <3>3, <3>6
  <2>5. Len(a) - 1 \in 0 .. Len(a) - 1 /\ Len(a) - (Len(a) - 1) = 1
    BY <2>1
  <2>6. Good(1)
    BY <2>4, <2>5
  <2> QED BY <1>2, <2>6 DEF Good, ordered_array_changed_element
<1> QED BY <1>1, <1>2

(* ordered_array_insert() adds one pointer.                                *)
LEMMA InsertLists ==
    ASSUME NEW S, NEW a, Lists(a, S), NEW x, x \notin S, NEW key
    PROVE  /\ Lists(ordered_array_insert(a, x, key), S \cup {x})
           /\ Len(ordered_array_insert(a, x, key)) = Len(a) + 1
<1> DEFINE b == Append(a, x)
           T == S \cup {x}
<1>1. a \in Seq(T) /\ Len(a) \in Nat
  <2>1. a \in Seq(S) /\ S \subseteq T
    BY DEF Lists
  <2> QED BY <2>1
<1>2. /\ b \in Seq(T) /\ Len(b) = Len(a) + 1 /\ b[Len(a) + 1] = x
      /\ \A i \in 1 .. Len(a) : b[i] = a[i]
  BY <1>1, AppendProperties
<1>3. \A i \in 1 .. Len(a) : a[i] \in S
  BY ElementOfSeq DEF Lists
<1> HIDE DEF b
<1>4. ASSUME NEW y \in T PROVE \E i \in 1 .. Len(b) : b[i] = y
  <2>1. CASE y = x
    BY <1>1, <1>2, <2>1
  <2>2. CASE y \in S
    <3>1. PICK i \in 1 .. Len(a) : a[i] = y
      BY <2>2 DEF Lists
    <3> QED BY <1>1, <1>2, <3>1
  <2> QED BY <2>1, <2>2
<1>5. ASSUME NEW i \in 1 .. Len(b), NEW j \in 1 .. Len(b), b[i] = b[j] PROVE i = j
  <2>1. CASE i \in 1 .. Len(a) /\ j \in 1 .. Len(a)
    BY <1>2, <1>5, <2>1 DEF Lists
  <2>2. CASE i = Len(a) + 1 /\ j = Len(a) + 1
    BY <2>2
  <2>3. CASE i = Len(a) + 1 /\ j \in 1 .. Len(a)
    BY <1>2, <1>3, <1>5, <2>3
  <2>4. CASE j = Len(a) + 1 /\ i \in 1 .. Len(a)
    BY <1>2, <1>3, <1>5, <2>4
  <2> QED BY <1>1, <1>2, <2>1, <2>2, <2>3, <2>4
<1>6. Lists(b, T)
  BY <1>2, <1>4, <1>5 DEF Lists
<1>7. ordered_array_insert(a, x, key) = ordered_array_changed_element(b, key)
  BY DEF ordered_array_insert, b
<1> QED BY <1>2, <1>6, <1>7, ChangedLists

(* ordered_array_remove() takes out one pointer.                           *)
LEMMA RemoveLists ==
    ASSUME NEW S, NEW a, Lists(a, S), NEW n \in 1 .. Len(a)
    PROVE  /\ Lists(ordered_array_remove(a, n), S \ {a[n]})
           /\ Len(ordered_array_remove(a, n)) = Len(a) - 1
<1> DEFINE l == SubSeq(a, 1, n - 1)
           r == SubSeq(a, n + 1, Len(a))
           b == l \o r
           T == S \ {a[n]}
<1>1. /\ a \in Seq(S) /\ Len(a) \in Nat /\ n \in Int /\ n - 1 \in Int /\ n + 1 \in Int
      /\ \A i, j \in 1 .. Len(a) : a[i] = a[j] => i = j
  BY DEF Lists
<1>2. \A i \in 1 .. Len(a) : i # n => a[i] \in T
  BY <1>1, ElementOfSeq
<1>3. /\ l \in Seq(T) /\ Len(l) = n - 1
      /\ \A i \in 1 .. n - 1 : l[i] = a[i]
  <2>1. \A i \in 1 .. n - 1 : a[i] \in T
    BY <1>1, <1>2
  <2>2. 1 + 0 = 1 /\ (n - 1) - 1 + 1 = n - 1
    BY <1>1
  <2>3. /\ l \in Seq(T) /\ Len(l) = IF 1 <= n - 1 THEN (n - 1) - 1 + 1 ELSE 0
        /\ \A i \in 1 .. (n - 1) - 1 + 1 : l[i] = a[1 + i - 1]
    BY <1>1, <2>1, SubSeqProperties
  <2> QED BY <1>1, <2>3
<1>4. /\ r \in Seq(T) /\ Len(r) = Len(a) - n
      /\ \A i \in 1 .. Len(a) - n : r[i] = a[n + i]
  <2>1. \A i \in n + 1 .. Len(a) : a[i] \in T
    BY <1>1, <1>2
  <2>3. /\ r \in Seq(T)
        /\ Len(r) = IF n + 1 <= Len(a) THEN Len(a) - (n + 1) + 1 ELSE 0
        /\ \A i \in 1 .. Len(a) - (n + 1) + 1 : r[i] = a[(n + 1) + i - 1]
    BY <1>1, <2>1, SubSeqProperties
  <2> QED BY <1>1, <2>3
<1> HIDE DEF l, r
<1>a. /\ b \in Seq(T) /\ Len(b) = Len(l) + Len(r)
      /\ \A i \in 1 .. Len(l) + Len(r) : b[i] = IF i <= Len(l) THEN l[i] ELSE r[i - Len(l)]
  BY <1>3, <1>4, ConcatProperties
<1> HIDE DEF b
<1>5. /\ b \in Seq(T) /\ Len(b) = Len(a) - 1
      /\ \A i \in 1 .. Len(a) - 1 : b[i] = IF i <= n - 1 THEN l[i] ELSE r[i - (n - 1)]
  BY <1>1, <1>3, <1>4, <1>a
<1>6. \A i \in 1 .. Len(a) - 1 : b[i] = IF i < n THEN a[i] ELSE a[i + 1]
  <2> TAKE i \in 1 .. Len(a) - 1
  <2>1. CASE i < n
    BY <1>1, <1>3, <1>5, <2>1
  <2>2. CASE ~(i < n)
    <3>1. i - (n - 1) \in 1 .. Len(a) - n /\ n + (i - (n - 1)) = i + 1
      BY <1>1, <2>2
    <3> QED BY <1>1, <1>4, <1>5, <2>2, <3>1
  <2> QED BY <2>1, <2>2
<1>7. ASSUME NEW x \in T PROVE \E i \in 1 .. Len(b) : b[i] = x
  <2>1. PICK i \in 1 .. Len(a) : a[i] = x
    BY DEF Lists
  <2>2. CASE i < n
    BY <1>1, <1>5, <1>6, <2>1, <2>2
  <2>3. CASE i > n
    <3>1. i - 1 \in 1 .. Len(a) - 1 /\ ~(i - 1 < n) /\ (i - 1) + 1 = i
      BY <1>1, <2>3
    <3>2. b[i - 1] = x
      BY <1>6, <2>1, <3>1
    <3> QED BY <1>5, <3>1, <3>2
  <2>4. i # n
    BY <2>1
  <2> QED BY <1>1, <2>2, <2>3, <2>4
<1>8. ASSUME NEW i \in 1 .. Len(b), NEW j \in 1 .. Len(b), b[i] = b[j] PROVE i = j
  <2>1. PICK p, q : /\ p = IF i < n THEN i ELSE i + 1
                    /\ q = IF j < n THEN j ELSE j + 1
    OBVIOUS
  <2>2. p \in 1 .. Len(a) /\ q \in 1 .. Len(a) /\ b[i] = a[p] /\ b[j] = a[q]
    BY <1>1, <1>5, <1>6, <2>1
  <2>3. p = q
    BY <1>1, <1>8, <2>2
  <2> QED BY <1>1, <1>5, <2>1, <2>3
<1>9. Lists(b, T)
  BY <1>5, <1>7, <1>8 DEF Lists
<1>10. ordered_array_remove(a, n) = b
  BY Zenon DEF ordered_array_remove, b, l, r
<1> QED BY <1>5, <1>9, <1>10

(* A list is as long as its set has members.                               *)
LEMMA ListsCardinality ==
    ASSUME NEW S, NEW a, Lists(a, S)
    PROVE  IsFiniteSet(S) /\ Cardinality(S) = Len(a)
<1>1. a \in [1 .. Len(a) -> S] /\ Len(a) \in Nat
  BY LenProperties DEF Lists
<1>2. a \in Bijection(1 .. Len(a), S)
  BY <1>1 DEF Lists, Bijection, Injection, Surjection, IsInjective
<1>3. ExistsBijection(1 .. Len(a), S)
  BY <1>2 DEF ExistsBijection
<1> QED BY <1>1, <1>3, FS_NatBijection, FS_CountingElements
=============================================================================
