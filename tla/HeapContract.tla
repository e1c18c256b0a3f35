---------------------------- MODULE HeapContract ----------------------------
(***************************************************************************)
(* What callers of heap_alloc() and heap_free() rely on, with no word      *)
(* about headers, footers, holes or their index: an allocation is a range  *)
(* of words of the heap that overlaps no other live allocation, is page    *)
(* aligned on demand, and keeps what its owner wrote until it is freed.    *)
(* The kernel may also halt (panic) at any call.                           *)
(***************************************************************************)
EXTENDS Integers

CONSTANTS
    PageWords,      \* words per page
    HeapWords,      \* the words the heap may ever occupy
    Sizes,          \* sizes requested
    Aligns,         \* values of the page_align argument
    Data            \* what callers store

VARIABLES
    live,           \* pointer |-> [size, align] requested, of live allocations
    contents,       \* pointer |-> the words its owner sees
    halted

vars == << live, contents, halted >>

Payload(p, n) == p .. p + n - 1

Init == live = << >> /\ contents = << >> /\ halted = FALSE

Alloc(n, align) ==
    \E p \in HeapWords :
        /\ ~halted /\ halted' = FALSE
        /\ Payload(p, n) \subseteq HeapWords
        /\ \A q \in DOMAIN live : Payload(p, n) \cap Payload(q, live[q].size) = {}
        /\ align => p % PageWords = 0
        /\ live' = [q \in DOMAIN live \cup {p} |->
                      IF q = p THEN [size |-> n, align |-> align] ELSE live[q]]
        /\ DOMAIN contents' = DOMAIN live'
        /\ \A q \in DOMAIN live : contents'[q] = contents[q]

Free(p) ==
    /\ ~halted /\ halted' = FALSE
    /\ live' = [q \in DOMAIN live \ {p} |-> live[q]]
    /\ contents' = [q \in DOMAIN live \ {p} |-> contents[q]]

Write(p, v) ==
    /\ ~halted /\ halted' = FALSE
    /\ contents' = [contents EXCEPT ![p] = [k \in 0 .. live[p].size - 1 |-> v]]
    /\ UNCHANGED live

Halt == halted' = TRUE /\ UNCHANGED << live, contents >>

Next ==
    \/ \E n \in Sizes, align \in Aligns : Alloc(n, align)
    \/ \E p \in DOMAIN live : Free(p)
    \/ \E p \in DOMAIN live, v \in Data : Write(p, v)
    \/ Halt

Spec == Init /\ [][Next]_vars
=============================================================================
