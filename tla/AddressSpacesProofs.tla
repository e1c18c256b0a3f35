------------------------ MODULE AddressSpacesProofs -------------------------
(***************************************************************************)
(* Proofs about AddressSpaces, for any number of tasks: the structure of   *)
(* the page directories, and that task_create() forks an address space     *)
(* without touching another.  What holds of the variables is stated of a   *)
(* memory m (dirs, tables and data), since an operation is a chain of      *)
(* memories.                                                               *)
(***************************************************************************)
EXTENDS AddressSpaces, SequenceTheorems, TLAPS

Contents == {"fresh", "image", "stack", "unmapped"} \X Nat
Memories == [dirs : Seq([Slots -> Nat]), tables : Seq(Nat), data : Seq(Contents)]

AlwaysShared == {"low", "heap", "dud"}      \* the kernel's, in every directory
KernelSlots  == AlwaysShared \cup {"heap_rest"}
TaskSlots    == {"image", "kernel_stack"}

DirsOf(m)   == 1 .. Len(m.dirs)
TablesOf(m) == 1 .. Len(m.tables)
DudTable(m) == m.dirs[kernel_directory][PAGE_CLONING_BUFFER]

NoDangling(m) ==
    /\ \A d \in DirsOf(m), s \in Slots : m.dirs[d][s] \in 0 .. Len(m.tables)
    /\ \A t \in TablesOf(m) : m.tables[t] \in 0 .. Len(m.data)

(* kernel_directory has the kernel's tables and none of a task's; the dud  *)
(* page is mapped.                                                         *)
KernelComplete(m) ==
    /\ \A s \in AlwaysShared : m.dirs[kernel_directory][s] # 0
    /\ \A s \in TaskSlots : m.dirs[kernel_directory][s] = 0
    /\ m.tables[DudTable(m)] # 0

(* KernelInEveryDirectory of m.                                            *)
KernelShared(m) ==
    \A d \in DirsOf(m) :
        /\ \A s \in AlwaysShared : m.dirs[d][s] = m.dirs[kernel_directory][s]
        /\ m.dirs[d]["heap_rest"] \in {0, m.dirs[kernel_directory]["heap_rest"]}

(* The directories task_create() made have their task's pages.             *)
TasksMapped(m) ==
    \A d \in 3 .. Len(m.dirs), s \in TaskSlots : Mapped(m, d, s)

(* A task's tables are in one place of one directory and are nobody's      *)
(* kernel tables; kernel tables are in one slot.                           *)
TablesPrivate(m) ==
    \A d, e \in DirsOf(m), s, u \in Slots :
        m.dirs[d][s] # 0 /\ m.dirs[d][s] = m.dirs[e][u] /\ << d, s >> # << e, u >>
            => s = u /\ m.dirs[d][s] = m.dirs[kernel_directory][s]

PagesPrivate(m) ==
    \A t, u \in TablesOf(m) \ {DudTable(m)} :
        m.tables[t] # 0 /\ m.tables[t] = m.tables[u] => t = u

Sound(m) ==
    /\ m \in Memories /\ Len(m.dirs) >= 2
    /\ NoDangling(m) /\ KernelComplete(m) /\ KernelShared(m) /\ TasksMapped(m)
    /\ TablesPrivate(m) /\ PagesPrivate(m)

IInv ==
    /\ Sound(Memory)
    /\ current \in Directories /\ cr3 \in Directories
    /\ panic \in {"none", "page fault"}

-----------------------------------------------------------------------------
(* What one assignment of the code does to a memory, field by field.       *)

(* Setting a directory entry changes nothing else.                         *)
LEMMA SetEntry ==
    ASSUME NEW m \in Memories, NEW d \in DirsOf(m), NEW s \in Slots, NEW t \in Nat,
           NEW r, r = WithEntry(m, d, s, t)
    PROVE  /\ r \in Memories /\ r.tables = m.tables /\ r.data = m.data
           /\ Len(r.dirs) = Len(m.dirs)
           /\ \A e \in DirsOf(m) : e # d => r.dirs[e] = m.dirs[e]
           /\ r.dirs[d] \in [Slots -> Nat] /\ r.dirs[d][s] = t
           /\ \A u \in Slots : u # s => r.dirs[d][u] = m.dirs[d][u]
<1> DEFINE old == m.dirs[d]
           new == [old EXCEPT ![s] = t]
           ds  == [m.dirs EXCEPT ![d] = new]
<1>1. m.dirs \in Seq([Slots -> Nat]) /\ old \in [Slots -> Nat]
  BY DEF Memories, DirsOf
<1>2. new \in [Slots -> Nat] /\ new[s] = t /\ \A u \in Slots : u # s => new[u] = old[u]
  BY <1>1
<1>3. r = [m EXCEPT !.dirs = ds]
  BY DEF WithEntry, Memories
<1> HIDE DEF new
<1>4. /\ ds \in Seq([Slots -> Nat]) /\ Len(ds) = Len(m.dirs)
      /\ \A e \in DirsOf(m) : ds[e] = IF e = d THEN new ELSE m.dirs[e]
  BY <1>1, <1>2, ExceptSeq DEF DirsOf
<1> HIDE DEF ds
<1>5. r.dirs = ds /\ r.tables = m.tables /\ r.data = m.data /\ r \in Memories
  BY <1>3, <1>4 DEF Memories
<1> QED BY <1>2, <1>4, <1>5

(* A table is created for a directory entry.                               *)
LEMMA TableMade ==
    ASSUME NEW m \in Memories, NEW d \in DirsOf(m), NEW s \in Slots,
           NEW r, r = NewTable(m, d, s)
    PROVE  /\ r \in Memories /\ r.data = m.data
           /\ Len(r.dirs) = Len(m.dirs)
           /\ \A e \in DirsOf(m) : e # d => r.dirs[e] = m.dirs[e]
           /\ r.dirs[d] \in [Slots -> Nat] /\ r.dirs[d][s] = Len(m.tables) + 1
           /\ \A u \in Slots : u # s => r.dirs[d][u] = m.dirs[d][u]
           /\ Len(r.tables) = Len(m.tables) + 1 /\ r.tables[Len(r.tables)] = 0
           /\ \A t \in TablesOf(m) : r.tables[t] = m.tables[t]
<1>q. PICK q : q = WithEntry(m, d, s, Len(m.tables) + 1)
  OBVIOUS
<1>1. m.tables \in Seq(Nat) /\ Len(m.tables) + 1 \in Nat
  BY DEF Memories
<1>2. /\ q \in Memories /\ q.tables = m.tables /\ q.data = m.data
      /\ Len(q.dirs) = Len(m.dirs)
      /\ \A e \in DirsOf(m) : e # d => q.dirs[e] = m.dirs[e]
      /\ q.dirs[d] \in [Slots -> Nat] /\ q.dirs[d][s] = Len(m.tables) + 1
      /\ \A u \in Slots : u # s => q.dirs[d][u] = m.dirs[d][u]
  BY <1>q, <1>1, SetEntry
<1>3. r = [q EXCEPT !.tables = Append(m.tables, 0)]
  BY <1>q, <1>2 DEF NewTable, Memories
<1>4. /\ Append(m.tables, 0) \in Seq(Nat)
      /\ Len(Append(m.tables, 0)) = Len(m.tables) + 1
      /\ Append(m.tables, 0)[Len(m.tables) + 1] = 0
      /\ \A t \in TablesOf(m) : Append(m.tables, 0)[t] = m.tables[t]
  BY <1>1, AppendProperties DEF TablesOf
<1>5. r.dirs = q.dirs /\ r.tables = Append(m.tables, 0) /\ r.data = q.data /\ r \in Memories
  BY <1>2, <1>3, <1>4 DEF Memories
<1> QED BY <1>2, <1>4, <1>5

(* A page without a frame gets a new one; one with a frame keeps it.       *)
LEMMA PageAllocated ==
    ASSUME NEW m \in Memories, NEW d \in DirsOf(m), NEW s \in Slots,
           m.dirs[d][s] \in TablesOf(m), FrameAt(m, d, s) = 0,
           NEW r, r = page_alloc(m, d, s)
    PROVE  /\ r \in Memories /\ r.dirs = m.dirs
           /\ Len(r.tables) = Len(m.tables) /\ r.tables[m.dirs[d][s]] = Len(m.data) + 1
           /\ \A t \in TablesOf(m) : t # m.dirs[d][s] => r.tables[t] = m.tables[t]
           /\ Len(r.data) = Len(m.data) + 1
           /\ \A f \in 1 .. Len(m.data) : r.data[f] = m.data[f]
<1> DEFINE ts == [m.tables EXCEPT ![m.dirs[d][s]] = Len(m.data) + 1]
           da == Append(m.data, Fresh)
<1>1. m.tables \in Seq(Nat) /\ m.data \in Seq(Contents) /\ Len(m.data) + 1 \in Nat
  BY DEF Memories
<1>2. Fresh \in Contents
  BY DEF Fresh, Contents
<1>3. r = [m EXCEPT !.tables = ts, !.data = da]
  BY DEF page_alloc, Memories
<1>4. /\ ts \in Seq(Nat) /\ Len(ts) = Len(m.tables)
      /\ \A t \in TablesOf(m) :
            ts[t] = IF t = m.dirs[d][s] THEN Len(m.data) + 1 ELSE m.tables[t]
  BY <1>1, ExceptSeq DEF TablesOf
<1>5. /\ da \in Seq(Contents) /\ Len(da) = Len(m.data) + 1
      /\ \A f \in 1 .. Len(m.data) : da[f] = m.data[f]
  BY <1>1, <1>2, AppendProperties
<1> HIDE DEF ts, da
<1>6. r \in Memories /\ r.dirs = m.dirs /\ r.tables = ts /\ r.data = da
  BY <1>3, <1>4, <1>5 DEF Memories
<1> QED BY <1>4, <1>5, <1>6

(* The dud page is redirected to a frame and the frame written.            *)
LEMMA PhysicalWritten ==
    ASSUME NEW m \in Memories, NEW f \in 1 .. Len(m.data), NEW c \in Contents,
           DudTable(m) \in TablesOf(m), NEW r, r = WritePhysical(m, f, c)
    PROVE  /\ r \in Memories /\ r.dirs = m.dirs
           /\ Len(r.tables) = Len(m.tables) /\ r.tables[DudTable(m)] = f
           /\ \A t \in TablesOf(m) : t # DudTable(m) => r.tables[t] = m.tables[t]
           /\ Len(r.data) = Len(m.data) /\ r.data[f] = c
           /\ \A g \in 1 .. Len(m.data) : g # f => r.data[g] = m.data[g]
<1> DEFINE ts == [m.tables EXCEPT ![DudTable(m)] = f]
           da == [m.data EXCEPT ![f] = c]
<1>1. m.tables \in Seq(Nat) /\ m.data \in Seq(Contents) /\ f \in Nat
  BY DEF Memories
<1>2. r = [m EXCEPT !.tables = ts, !.data = da]
  BY DEF WritePhysical, DudTable, Memories
<1>3. /\ ts \in Seq(Nat) /\ Len(ts) = Len(m.tables)
      /\ \A t \in TablesOf(m) : ts[t] = IF t = DudTable(m) THEN f ELSE m.tables[t]
  BY <1>1, ExceptSeq DEF TablesOf
<1>4. /\ da \in Seq(Contents) /\ Len(da) = Len(m.data)
      /\ \A g \in 1 .. Len(m.data) : da[g] = IF g = f THEN c ELSE m.data[g]
  BY <1>1, ExceptSeq
<1> HIDE DEF ts, da
<1>5. r \in Memories /\ r.dirs = m.dirs /\ r.tables = ts /\ r.data = da
  BY <1>2, <1>3, <1>4 DEF Memories
<1> QED BY <1>3, <1>4, <1>5

-----------------------------------------------------------------------------
(* The memory n while task_create() works on the new directory of a clone  *)
(* of m: everything m had is as it was but for the dud page, and the new   *)
(* tables of the new directory map new frames.                             *)
CloneOf(m)      == Len(m.dirs) + 1
NewTables(m, n) == Len(m.tables) + 1 .. Len(n.tables)
NewFrames(m, n) == Len(m.data) + 1 .. Len(n.data)

Keeps(m, n) ==
    /\ Len(n.dirs) = CloneOf(m)
    /\ \A e \in DirsOf(m) : n.dirs[e] = m.dirs[e]
    /\ Len(n.tables) >= Len(m.tables)
    /\ \A t \in TablesOf(m) : t # DudTable(m) => n.tables[t] = m.tables[t]
    /\ n.tables[DudTable(m)] \in 1 .. Len(n.data)
    /\ Len(n.data) >= Len(m.data)
    /\ \A f \in 1 .. Len(m.data) : n.data[f] = m.data[f]

ClonesSlots(m, n) ==
    LET d == CloneOf(m)
    IN  /\ \A s \in KernelSlots : n.dirs[d][s] \in {0, m.dirs[kernel_directory][s]}
        /\ \A s \in TaskSlots : n.dirs[d][s] \in {0} \cup NewTables(m, n)
        /\ n.dirs[d]["image"] # 0 => n.dirs[d]["image"] # n.dirs[d]["kernel_stack"]

MapsNewFrames(m, n) ==
    /\ \A t \in NewTables(m, n) : n.tables[t] \in {0} \cup NewFrames(m, n)
    /\ \A t, u \in NewTables(m, n) : n.tables[t] # 0 /\ n.tables[t] = n.tables[u] => t = u

Forking(m, n) ==
    n \in Memories /\ Keeps(m, n) /\ ClonesSlots(m, n) /\ MapsNewFrames(m, n)

(* A step from n to r leaves the slots of directory d other than s alone,  *)
(* and what a task reads there.                                            *)
Undisturbed(n, r, d, s) ==
    \A u \in Slots \ {s} :
        /\ r.dirs[d][u] = n.dirs[d][u]
        /\ u \in TaskSlots => /\ Mapped(r, d, u) <=> Mapped(n, d, u)
                              /\ Read(r, d, u) = Read(n, d, u)

(* The facts about m and n that the steps below use.                       *)
LEMMA ForkingFacts ==
    ASSUME NEW m, Sound(m), NEW n, Forking(m, n)
    PROVE  /\ Len(m.dirs) \in Nat /\ Len(m.tables) \in Nat /\ Len(m.data) \in Nat
           /\ Len(n.tables) \in Nat /\ Len(n.data) \in Nat
           /\ CloneOf(m) \in DirsOf(n) /\ CloneOf(m) \notin DirsOf(m)
           /\ kernel_directory \in DirsOf(m)
           /\ DudTable(n) = DudTable(m) /\ DudTable(m) \in TablesOf(m)
           /\ DudTable(n) \in TablesOf(n) /\ DudTable(n) \notin NewTables(m, n)
           /\ n.dirs[CloneOf(m)] \in [Slots -> Nat]
<1>1. m \in Memories /\ n \in Memories /\ Len(m.dirs) >= 2
  BY DEF Sound, Forking
<1>2. Len(m.dirs) \in Nat /\ Len(m.tables) \in Nat /\ Len(m.data) \in Nat
  BY <1>1 DEF Memories
<1>3. Len(n.tables) \in Nat /\ Len(n.data) \in Nat
  BY <1>1 DEF Memories
<1>4. /\ CloneOf(m) \in DirsOf(n) /\ CloneOf(m) \notin DirsOf(m)
      /\ kernel_directory \in DirsOf(m)
  BY <1>1, <1>2 DEF Forking, Keeps, CloneOf, DirsOf, kernel_directory
<1>5. DudTable(n) = DudTable(m)
  BY <1>4 DEF Forking, Keeps, DudTable
<1>6. DudTable(m) \in TablesOf(m)
  <2>1. DudTable(m) # 0 /\ PAGE_CLONING_BUFFER \in Slots
    BY DEF Sound, KernelComplete, AlwaysShared, DudTable, PAGE_CLONING_BUFFER, Slots
  <2>2. NoDangling(m)
    BY DEF Sound
  <2>3. DudTable(m) \in 0 .. Len(m.tables)
    BY <1>4, <2>1, <2>2 DEF NoDangling, DudTable
  <2> QED BY <1>2, <2>1, <2>3 DEF TablesOf
<1>7. DudTable(m) \in TablesOf(n) /\ DudTable(m) \notin NewTables(m, n)
  <2>1. Len(n.tables) >= Len(m.tables)
    BY DEF Forking, Keeps
  <2>2. DudTable(m) \in 1 .. Len(m.tables)
    BY <1>6 DEF TablesOf
  <2> QED BY <1>2, <1>3, <2>1, <2>2 DEF TablesOf, NewTables
<1>8. n.dirs[CloneOf(m)] \in [Slots -> Nat]
  <2>1. n.dirs \in Seq([Slots -> Nat])
    BY <1>1 DEF Memories
  <2>2. CloneOf(m) \in 1 .. Len(n.dirs)
    BY <1>4 DEF DirsOf
  <2> QED BY <2>1, <2>2, ElementOfSeq
<1> QED BY <1>2, <1>3, <1>4, <1>5, <1>6, <1>7, <1>8

(* The new directory takes over a table of the kernel.                     *)
LEMMA EntryForks ==
    ASSUME NEW m, Sound(m), NEW n, Forking(m, n), NEW s \in KernelSlots,
           NEW r, r = WithEntry(n, CloneOf(m), s, m.dirs[kernel_directory][s])
    PROVE  /\ Forking(m, r) /\ Undisturbed(n, r, CloneOf(m), s)
           /\ r.dirs[CloneOf(m)][s] = m.dirs[kernel_directory][s]
<1> DEFINE d == CloneOf(m)
           t == m.dirs[kernel_directory][s]
<1>1. n \in Memories /\ d \in DirsOf(n) /\ s \in Slots /\ d \notin DirsOf(m)
  BY ForkingFacts DEF Forking, KernelSlots, AlwaysShared, Slots
<1>2. t \in Nat
  BY <1>1, ForkingFacts DEF Sound, NoDangling
<1>3. /\ r \in Memories /\ r.tables = n.tables /\ r.data = n.data
      /\ Len(r.dirs) = Len(n.dirs)
      /\ \A e \in DirsOf(n) : e # d => r.dirs[e] = n.dirs[e]
      /\ r.dirs[d][s] = t
      /\ \A u \in Slots : u # s => r.dirs[d][u] = n.dirs[d][u]
  BY <1>1, <1>2, SetEntry
<1> HIDE DEF d, t
<1>4. Keeps(m, r)
  <2>1. \A e \in DirsOf(m) : e \in DirsOf(n) /\ e # d
    BY <1>1, ForkingFacts DEF Forking, Keeps, DirsOf, CloneOf
  <2> QED BY <1>3, <2>1 DEF Forking, Keeps
<1>5. ClonesSlots(m, r)
  <2>1. KernelSlots \subseteq Slots /\ TaskSlots \subseteq Slots \ {s}
    BY DEF KernelSlots, TaskSlots, AlwaysShared, Slots
  <2>2. "image" \in TaskSlots /\ "kernel_stack" \in TaskSlots
    BY DEF TaskSlots
  <2> QED BY <1>3, <2>1, <2>2 DEF Forking, ClonesSlots, NewTables, d, t
<1>6. MapsNewFrames(m, r)
  BY <1>3 DEF Forking, MapsNewFrames, NewTables, NewFrames
<1>7. Undisturbed(n, r, d, s)
  BY <1>3 DEF Undisturbed, Mapped, Read, FrameAt
<1> QED BY <1>3, <1>4, <1>5, <1>6, <1>7 DEF Forking, d, t

(* A table of a task's own is made in the new directory.                   *)
LEMMA TableForks ==
    ASSUME NEW m, Sound(m), NEW n, Forking(m, n), NEW s \in TaskSlots,
           NEW r, r = NewTable(n, CloneOf(m), s)
    PROVE  /\ Forking(m, r) /\ Undisturbed(n, r, CloneOf(m), s)
           /\ r.dirs[CloneOf(m)][s] \in NewTables(m, r)
           /\ FrameAt(r, CloneOf(m), s) = 0
<1> DEFINE d == CloneOf(m)
<1>1. n \in Memories /\ d \in DirsOf(n) /\ s \in Slots /\ d \notin DirsOf(m)
  BY ForkingFacts DEF Forking, TaskSlots, Slots
<1>2. /\ r \in Memories /\ r.data = n.data
      /\ Len(r.dirs) = Len(n.dirs)
      /\ \A e \in DirsOf(n) : e # d => r.dirs[e] = n.dirs[e]
      /\ r.dirs[d][s] = Len(n.tables) + 1
      /\ \A u \in Slots : u # s => r.dirs[d][u] = n.dirs[d][u]
      /\ Len(r.tables) = Len(n.tables) + 1 /\ r.tables[Len(r.tables)] = 0
      /\ \A t \in TablesOf(n) : r.tables[t] = n.tables[t]
  BY <1>1, TableMade
<1> HIDE DEF d
<1>3. Keeps(m, r)
  <2>1. \A e \in DirsOf(m) : e \in DirsOf(n) /\ e # d
    BY <1>1, ForkingFacts DEF Forking, Keeps, DirsOf, CloneOf
  <2>2. \A t \in TablesOf(m) : t \in TablesOf(n)
    BY ForkingFacts DEF Forking, Keeps, TablesOf
  <2>3. DudTable(m) \in TablesOf(m) /\ Len(r.tables) >= Len(m.tables)
    BY <1>2, ForkingFacts DEF Forking, Keeps
  <2> QED BY <1>2, <2>1, <2>2, <2>3 DEF Forking, Keeps
<1>4. NewTables(m, r) = NewTables(m, n) \cup {Len(n.tables) + 1}
  BY <1>2, ForkingFacts DEF NewTables, Forking, Keeps
<1>5. \A t \in NewTables(m, n) : t \in TablesOf(n) /\ t # Len(n.tables) + 1
  BY ForkingFacts DEF NewTables, TablesOf
<1>6. ClonesSlots(m, r)
  <2>1. /\ \A u \in KernelSlots : u \in Slots /\ u # s
        /\ TaskSlots \subseteq Slots /\ "image" \in TaskSlots /\ "kernel_stack" \in TaskSlots
        /\ s \in {"image", "kernel_stack"}
    BY DEF KernelSlots, TaskSlots, AlwaysShared, Slots
  <2>2. \A u \in KernelSlots : r.dirs[d][u] \in {0, m.dirs[kernel_directory][u]}
    BY <1>2, <2>1 DEF Forking, ClonesSlots, d
  <2>3. \A u \in TaskSlots : r.dirs[d][u] \in {0} \cup NewTables(m, r)
    BY <1>2, <1>4, <2>1 DEF Forking, ClonesSlots, d
  <2>4. r.dirs[d]["image"] # 0 => r.dirs[d]["image"] # r.dirs[d]["kernel_stack"]
    <3>1. \A u \in TaskSlots : n.dirs[d][u] # Len(n.tables) + 1
      BY <1>5, ForkingFacts DEF Forking, ClonesSlots, d
    <3> QED BY <1>2, <2>1, <3>1
  <2> QED BY <2>2, <2>3, <2>4 DEF ClonesSlots, d
<1>7. MapsNewFrames(m, r)
  <2>1. NewFrames(m, r) = NewFrames(m, n)
    BY <1>2 DEF NewFrames
  <2> QED BY <1>2, <1>4, <1>5, <2>1 DEF Forking, MapsNewFrames
<1>8. Undisturbed(n, r, d, s)
  <2> SUFFICES ASSUME NEW u \in Slots \ {s}
               PROVE  /\ r.dirs[d][u] = n.dirs[d][u]
                      /\ u \in TaskSlots => /\ Mapped(r, d, u) <=> Mapped(n, d, u)
                                            /\ Read(r, d, u) = Read(n, d, u)
    BY DEF Undisturbed
  <2>1. r.dirs[d][u] = n.dirs[d][u]
    BY <1>2
  <2>2. u \in TaskSlots /\ n.dirs[d][u] # 0 => n.dirs[d][u] \in TablesOf(n)
    BY <1>5 DEF Forking, ClonesSlots, d
  <2>3. ASSUME u \in TaskSlots, n.dirs[d][u] # 0
        PROVE  r.tables[n.dirs[d][u]] = n.tables[n.dirs[d][u]]
    BY <1>2, <2>2, <2>3
  <2>4. r.data = n.data
    BY <1>2
  <2> QED BY <2>1, <2>3, <2>4 DEF Mapped, Read, FrameAt
<1>9. r.dirs[d][s] \in NewTables(m, r) /\ FrameAt(r, d, s) = 0
  BY <1>2, <1>4 DEF FrameAt
<1> QED BY <1>2, <1>3, <1>6, <1>7, <1>8, <1>9 DEF Forking, d

(* The page of a task's own table gets a frame.                            *)
LEMMA AllocForks ==
    ASSUME NEW m, Sound(m), NEW n, Forking(m, n), NEW s \in TaskSlots,
           n.dirs[CloneOf(m)][s] # 0, FrameAt(n, CloneOf(m), s) = 0,
           NEW r, r = page_alloc(n, CloneOf(m), s)
    PROVE  /\ Forking(m, r) /\ Undisturbed(n, r, CloneOf(m), s)
           /\ Mapped(r, CloneOf(m), s)
<1> DEFINE d  == CloneOf(m)
           tb == n.dirs[d][s]
<1>1. n \in Memories /\ d \in DirsOf(n) /\ s \in Slots
  BY ForkingFacts DEF Forking, TaskSlots, Slots
<1>2. \A t \in NewTables(m, n) : t \in TablesOf(n) /\ t \notin TablesOf(m)
  BY ForkingFacts DEF NewTables, TablesOf
<1>3. tb \in NewTables(m, n) /\ tb \in TablesOf(n)
  BY <1>2 DEF Forking, ClonesSlots
<1>4. /\ r \in Memories /\ r.dirs = n.dirs
      /\ Len(r.tables) = Len(n.tables) /\ r.tables[tb] = Len(n.data) + 1
      /\ \A t \in TablesOf(n) : t # tb => r.tables[t] = n.tables[t]
      /\ Len(r.data) = Len(n.data) + 1
      /\ \A f \in 1 .. Len(n.data) : r.data[f] = n.data[f]
  BY <1>1, <1>3, PageAllocated
<1>5. tb # 0 /\ tb = r.dirs[d][s]
  BY <1>4
<1> HIDE DEF d, tb
<1>6. Keeps(m, r)
  <2>1. \A t \in TablesOf(m) : t \in TablesOf(n) /\ t # tb
    BY <1>2, <1>3, ForkingFacts DEF Forking, Keeps, TablesOf
  <2>2. r.tables[DudTable(m)] \in 1 .. Len(r.data)
    <3>1. DudTable(m) \in TablesOf(m) /\ Len(n.data) \in Nat
      BY ForkingFacts
    <3>2. n.tables[DudTable(m)] \in 1 .. Len(n.data)
      BY DEF Forking, Keeps
    <3>3. r.tables[DudTable(m)] = n.tables[DudTable(m)] /\ Len(r.data) = Len(n.data) + 1
      BY <1>4, <2>1, <3>1
    <3> QED BY <3>1, <3>2, <3>3
  <2>3. Len(r.data) >= Len(m.data) /\ \A f \in 1 .. Len(m.data) : f \in 1 .. Len(n.data)
    BY <1>4, ForkingFacts DEF Forking, Keeps
  <2> QED BY <1>4, <2>1, <2>2, <2>3 DEF Forking, Keeps
<1>7. NewTables(m, r) = NewTables(m, n)
  BY <1>4 DEF NewTables
<1>8. ClonesSlots(m, r)
  BY <1>4, <1>7 DEF Forking, ClonesSlots
<1>9. MapsNewFrames(m, r)
  <2>1. NewFrames(m, r) = NewFrames(m, n) \cup {Len(n.data) + 1}
    BY <1>4, ForkingFacts DEF NewFrames, Forking, Keeps
  <2>2. Len(n.data) + 1 \notin NewFrames(m, n) /\ Len(n.data) + 1 # 0
    BY ForkingFacts DEF NewFrames
  <2> QED BY <1>2, <1>4, <1>7, <2>1, <2>2 DEF Forking, MapsNewFrames
<1>10. Undisturbed(n, r, d, s)
  <2> SUFFICES ASSUME NEW u \in Slots \ {s}
               PROVE  u \in TaskSlots => /\ Mapped(r, d, u) <=> Mapped(n, d, u)
                                         /\ Read(r, d, u) = Read(n, d, u)
    BY <1>4 DEF Undisturbed
  <2>1. CASE u \in TaskSlots /\ n.dirs[d][u] # 0
    <3>1. n.dirs[d][u] \in NewTables(m, n) /\ n.dirs[d][u] \in TablesOf(n)
      BY <1>2, <2>1 DEF Forking, ClonesSlots, d
    <3>2. n.dirs[d][u] # tb
      BY <1>5, <2>1 DEF Forking, ClonesSlots, TaskSlots, d, tb
    <3>3. FrameAt(n, d, u) = 0 \/ FrameAt(n, d, u) \in 1 .. Len(n.data)
      BY <3>1, ForkingFacts DEF Forking, MapsNewFrames, NewFrames, FrameAt
    <3>4. FrameAt(r, d, u) = FrameAt(n, d, u)
      BY <1>4, <3>1, <3>2 DEF FrameAt
    <3> QED BY <1>4, <3>3, <3>4 DEF Mapped, Read, FrameAt
  <2>2. CASE ~(u \in TaskSlots /\ n.dirs[d][u] # 0)
    BY <1>4, <2>2 DEF Mapped, Read
  <2> QED BY <2>1, <2>2
<1>11. Mapped(r, d, s)
  BY <1>4, <1>5, ForkingFacts DEF Mapped
<1> QED BY <1>4, <1>6, <1>8, <1>9, <1>10, <1>11 DEF Forking, d

(* The page of a task's own table is written through the dud page.         *)
LEMMA WriteForks ==
    ASSUME NEW m, Sound(m), NEW n, Forking(m, n), NEW s \in TaskSlots,
           Mapped(n, CloneOf(m), s), NEW c \in Contents,
           NEW r, r = WritePhysical(n, FrameAt(n, CloneOf(m), s), c)
    PROVE  /\ Forking(m, r) /\ Undisturbed(n, r, CloneOf(m), s)
           /\ r.dirs = n.dirs
           /\ Mapped(r, CloneOf(m), s) /\ Read(r, CloneOf(m), s) = c
<1> DEFINE d  == CloneOf(m)
           tb == n.dirs[d][s]
           f  == FrameAt(n, d, s)
<1>1. n \in Memories
  BY DEF Forking
<1>2. \A t \in NewTables(m, n) : t \in TablesOf(n) /\ t \notin TablesOf(m) /\ t # DudTable(n)
  BY ForkingFacts DEF NewTables, TablesOf
<1>3. tb \in NewTables(m, n) /\ tb \in TablesOf(n) /\ tb # 0
  BY <1>2 DEF Forking, ClonesSlots, Mapped
<1>4. f \in NewFrames(m, n) /\ f \in 1 .. Len(n.data) /\ f \notin 1 .. Len(m.data) /\ f # 0
  <2>1. f \in NewFrames(m, n)
    BY <1>3 DEF Forking, MapsNewFrames, Mapped, FrameAt
  <2> QED BY <2>1, ForkingFacts DEF NewFrames
<1>5. /\ r \in Memories /\ r.dirs = n.dirs
      /\ Len(r.tables) = Len(n.tables) /\ r.tables[DudTable(n)] = f
      /\ \A t \in TablesOf(n) : t # DudTable(n) => r.tables[t] = n.tables[t]
      /\ Len(r.data) = Len(n.data) /\ r.data[f] = c
      /\ \A g \in 1 .. Len(n.data) : g # f => r.data[g] = n.data[g]
  <2>1. DudTable(n) \in TablesOf(n)
    BY ForkingFacts
  <2> QED BY <1>1, <1>4, <2>1, PhysicalWritten
<1>6. r.tables[tb] = f
  BY <1>2, <1>3, <1>5 DEF FrameAt
<1>7. n.tables[tb] = f
  BY DEF FrameAt
<1> HIDE DEF d, tb, f
<1>8. Keeps(m, r)
  <2>1. \A t \in TablesOf(m) : t \in TablesOf(n)
    BY ForkingFacts DEF Forking, Keeps, TablesOf
  <2>2. \A g \in 1 .. Len(m.data) : g \in 1 .. Len(n.data) /\ g # f
    BY <1>4, ForkingFacts DEF Forking, Keeps
  <2>3. r.tables[DudTable(m)] \in 1 .. Len(r.data)
    BY <1>4, <1>5, ForkingFacts
  <2> QED BY <1>5, <2>1, <2>2, <2>3, ForkingFacts DEF Forking, Keeps
<1>9. NewTables(m, r) = NewTables(m, n) /\ NewFrames(m, r) = NewFrames(m, n)
  BY <1>5 DEF NewTables, NewFrames
<1>10. ClonesSlots(m, r)
  BY <1>5, <1>9 DEF Forking, ClonesSlots
<1>11. MapsNewFrames(m, r)
  BY <1>2, <1>5, <1>9 DEF Forking, MapsNewFrames
<1>12. Undisturbed(n, r, d, s)
  <2> SUFFICES ASSUME NEW u \in Slots \ {s}
               PROVE  u \in TaskSlots => /\ Mapped(r, d, u) <=> Mapped(n, d, u)
                                         /\ Read(r, d, u) = Read(n, d, u)
    BY <1>5 DEF Undisturbed
  <2>1. CASE u \in TaskSlots /\ n.dirs[d][u] # 0
    <3>1. n.dirs[d][u] \in NewTables(m, n)
      BY <2>1 DEF Forking, ClonesSlots, d
    <3>2. n.dirs[d][u] # tb
      BY <1>3, <2>1 DEF Forking, ClonesSlots, TaskSlots, d, tb
    <3>3. FrameAt(n, d, u) = 0 \/ FrameAt(n, d, u) \in 1 .. Len(n.data)
      BY <3>1, ForkingFacts DEF Forking, MapsNewFrames, NewFrames, FrameAt
    <3>4. FrameAt(n, d, u) # f
      BY <1>3, <1>4, <1>7, <3>1, <3>2 DEF Forking, MapsNewFrames, FrameAt
    <3>5. FrameAt(r, d, u) = FrameAt(n, d, u)
      BY <1>2, <1>5, <3>1 DEF FrameAt
    <3> QED BY <1>5, <3>3, <3>4, <3>5 DEF Mapped, Read, FrameAt
  <2>2. CASE ~(u \in TaskSlots /\ n.dirs[d][u] # 0)
    BY <1>5, <2>2 DEF Mapped, Read
  <2> QED BY <2>1, <2>2
<1>13. Mapped(r, d, s) /\ Read(r, d, s) = c
  BY <1>3, <1>4, <1>5, <1>6 DEF Mapped, Read, FrameAt, tb
<1> QED BY <1>5, <1>8, <1>10, <1>11, <1>12, <1>13 DEF Forking, d

(* The directories of m read what they read before, the dud page aside.    *)
LEMMA OthersKept ==
    ASSUME NEW m, Sound(m), NEW n, Forking(m, n),
           NEW e \in DirsOf(m), NEW s \in Slots \ {PAGE_CLONING_BUFFER}
    PROVE  /\ n.dirs[e][s] = m.dirs[e][s]
           /\ Mapped(n, e, s) <=> Mapped(m, e, s)
           /\ Read(n, e, s) = Read(m, e, s) /\ Read(n, e, s) \in Contents
<1>1. n.dirs[e][s] = m.dirs[e][s] /\ m \in Memories
  BY DEF Forking, Keeps, Sound
<1>2. << "unmapped", 0 >> \in Contents
  BY DEF Contents
<1>3. CASE m.dirs[e][s] = 0
  BY <1>1, <1>2, <1>3 DEF Mapped, Read
<1>4. CASE m.dirs[e][s] # 0
  <2>1. m.dirs[e][s] \in TablesOf(m)
    BY <1>4, ForkingFacts DEF Sound, NoDangling, TablesOf
  <2>2. m.dirs[e][s] # DudTable(m)
    <3>1. << e, s >> # << kernel_directory, PAGE_CLONING_BUFFER >>
      OBVIOUS
    <3>2. PAGE_CLONING_BUFFER \in Slots /\ kernel_directory \in DirsOf(m)
      BY ForkingFacts DEF PAGE_CLONING_BUFFER, Slots
    <3> QED BY <1>4, <3>1, <3>2 DEF Sound, TablesPrivate, DudTable
  <2>3. FrameAt(n, e, s) = FrameAt(m, e, s)
    BY <1>1, <2>1, <2>2 DEF Forking, Keeps, FrameAt
  <2>4. FrameAt(m, e, s) \in 0 .. Len(m.data)
    BY <2>1 DEF Sound, NoDangling, FrameAt
  <2>5. Mapped(m, e, s) <=> FrameAt(m, e, s) # 0
    BY <1>4 DEF Mapped, FrameAt
  <2>6. Mapped(n, e, s) <=> FrameAt(n, e, s) # 0
    BY <1>1, <1>4 DEF Mapped, FrameAt
  <2>7. \A f \in 1 .. Len(m.data) : n.data[f] = m.data[f] /\ m.data[f] \in Contents
    BY <1>1 DEF Forking, Keeps, Memories
  <2>8. FrameAt(m, e, s) # 0 => FrameAt(m, e, s) \in 1 .. Len(m.data)
    BY <2>4, ForkingFacts
  <2> QED BY <1>1, <1>2, <2>3, <2>5, <2>6, <2>7, <2>8 DEF Read
<1> QED BY <1>3, <1>4

(* The clone of current as far as the slots S are done.                    *)
Filled(m, n, S) ==
    LET d == CloneOf(m)
    IN  /\ \A s \in S \cap KernelSlots : n.dirs[d][s] = m.dirs[current][s]
        /\ \A s \in S \cap TaskSlots :
              Mapped(m, current, s) => /\ Mapped(n, d, s)
                                       /\ Read(n, d, s) = Read(m, current, s)
        /\ \A s \in Slots \ S : n.dirs[d][s] = 0

(* A step that leaves the other slots alone extends what is filled by s.   *)
LEMMA FillsSlot ==
    ASSUME NEW m, NEW n, NEW r, NEW S, Filled(m, n, S), NEW s \in Slots,
           Undisturbed(n, r, CloneOf(m), s),
           s \in KernelSlots => r.dirs[CloneOf(m)][s] = m.dirs[current][s],
           s \in TaskSlots /\ Mapped(m, current, s)
              => /\ Mapped(r, CloneOf(m), s)
                 /\ Read(r, CloneOf(m), s) = Read(m, current, s)
    PROVE  Filled(m, r, S \cup {s})
<1>1. KernelSlots \subseteq Slots /\ TaskSlots \subseteq Slots
  BY DEF KernelSlots, TaskSlots, AlwaysShared, Slots
<1> QED BY <1>1 DEF Filled, Undisturbed

(* clone_table() of a table of the current task.                           *)
LEMMA CloneTableForks ==
    ASSUME NEW m, Sound(m), current \in DirsOf(m), cr3 = current,
           NEW n, Forking(m, n), NEW s \in TaskSlots,
           n.dirs[CloneOf(m)][s] = 0, m.dirs[current][s] # 0,
           NEW r, r = clone_table(n, CloneOf(m), s, m.dirs[current][s])
    PROVE  /\ Forking(m, r) /\ Undisturbed(n, r, CloneOf(m), s)
           /\ Mapped(m, current, s) => /\ Mapped(r, CloneOf(m), s)
                                       /\ Read(r, CloneOf(m), s) = Read(m, current, s)
<1> DEFINE d == CloneOf(m)
           t == m.dirs[current][s]
<1>1. PICK p : p = NewTable(n, d, s)
  OBVIOUS
<1>2. PICK q : q = page_alloc(p, d, s)
  OBVIOUS
<1>3. s \in Slots \ {PAGE_CLONING_BUFFER}
  BY DEF TaskSlots, Slots, PAGE_CLONING_BUFFER
<1>4. /\ Forking(m, p) /\ Undisturbed(n, p, d, s)
      /\ p.dirs[d][s] # 0 /\ FrameAt(p, d, s) = 0
  BY <1>1, TableForks, ForkingFacts DEF NewTables
<1>5. Mapped(m, current, s) <=> n.tables[t] # 0
  BY <1>3, OthersKept DEF Mapped
<1>6. CASE n.tables[t] = 0
  BY <1>1, <1>4, <1>5, <1>6 DEF clone_table
<1>7. CASE n.tables[t] # 0
  <2>1. Forking(m, q) /\ Undisturbed(p, q, d, s) /\ Mapped(q, d, s)
    BY <1>2, <1>4, AllocForks
  <2>2. Read(n, cr3, s) = Read(m, current, s) /\ Read(n, cr3, s) \in Contents
    BY <1>3, OthersKept
  <2>3. r = WritePhysical(q, FrameAt(q, d, s), Read(n, cr3, s))
    BY <1>1, <1>2, <1>7 DEF clone_table
  <2>4. /\ Forking(m, r) /\ Undisturbed(q, r, d, s)
        /\ Mapped(r, d, s) /\ Read(r, d, s) = Read(n, cr3, s)
    BY <2>1, <2>2, <2>3, WriteForks
  <2>5. Undisturbed(n, r, d, s)
    BY <1>4, <2>1, <2>4 DEF Undisturbed
  <2> QED BY <2>2, <2>4, <2>5
<1> QED BY <1>6, <1>7

(* The three cases of an iteration of clone_directory().                   *)
LEMMA SlotCases ==
    ASSUME NEW m, NEW d, NEW s, NEW t, NEW r, r = CloneEntry(m, d, s, t),
           NEW k, k = m.dirs[kernel_directory][s]
    PROVE  /\ t = 0 => r = m
           /\ t # 0 /\ k = t => r = WithEntry(m, d, s, t)
           /\ t # 0 /\ k # t => r = clone_table(m, d, s, t)
  BY DEF CloneEntry

(* One iteration of clone_directory().                                     *)
LEMMA CloneSlotForks ==
    ASSUME NEW m, Sound(m), current \in DirsOf(m), cr3 = current,
           NEW n, Forking(m, n), NEW S, Filled(m, n, S), NEW s \in Slots \ S,
           NEW r, r = CloneSlot(n, CloneOf(m), s, current)
    PROVE  Forking(m, r) /\ Filled(m, r, S \cup {s})
<1> DEFINE d == CloneOf(m)
<1>a. PICK t, k : t = n.dirs[current][s] /\ k = n.dirs[kernel_directory][s]
  OBVIOUS
<1>0. r = CloneEntry(n, d, s, t) /\ k = n.dirs[kernel_directory][s]
  BY <1>a DEF CloneSlot
<1>1. t = m.dirs[current][s] /\ k = m.dirs[kernel_directory][s]
  BY <1>a, ForkingFacts DEF Forking, Keeps
<1>2. n.dirs[d][s] = 0
  BY DEF Filled
<1>3. CASE t = 0
  <2>1. r = n
    BY <1>0, <1>3, SlotCases
  <2>2. Undisturbed(n, n, d, s)
    BY DEF Undisturbed
  <2>3. n.dirs[d][s] = m.dirs[current][s] /\ ~Mapped(m, current, s)
    BY <1>1, <1>2, <1>3 DEF Mapped
  <2>4. Filled(m, n, S \cup {s})
    BY <2>2, <2>3, FillsSlot
  <2> QED BY <2>1, <2>4
<1>4. CASE t # 0 /\ s \in KernelSlots
  <2>1. t = k
    BY <1>1, <1>4 DEF Sound, KernelShared, KernelSlots
  <2>2. r = WithEntry(n, d, s, m.dirs[kernel_directory][s])
    <3>1. r = WithEntry(n, d, s, k)
      BY <1>0, <1>4, <2>1, SlotCases
    <3> QED BY <1>1, <3>1
  <2>3. Forking(m, r) /\ Undisturbed(n, r, d, s) /\ r.dirs[d][s] = m.dirs[current][s]
    BY <1>1, <1>4, <2>1, <2>2, EntryForks
  <2>4. s \notin TaskSlots
    BY <1>4 DEF TaskSlots, KernelSlots, AlwaysShared
  <2>5. Filled(m, r, S \cup {s})
    BY <2>3, <2>4, FillsSlot
  <2> QED BY <2>3, <2>5
<1>5. CASE t # 0 /\ s \in TaskSlots
  <2>1. k # t
    BY <1>1, <1>5 DEF Sound, KernelComplete
  <2>2. r = clone_table(n, d, s, t)
    BY <1>0, <1>5, <2>1, SlotCases
  <2>3. /\ Forking(m, r) /\ Undisturbed(n, r, d, s)
        /\ Mapped(m, current, s) => Mapped(r, d, s) /\ Read(r, d, s) = Read(m, current, s)
    BY <1>1, <1>2, <1>5, <2>2, CloneTableForks
  <2>4. s \notin KernelSlots
    BY <1>5 DEF TaskSlots, KernelSlots, AlwaysShared
  <2>5. Filled(m, r, S \cup {s})
    BY <2>3, <2>4, FillsSlot
  <2> QED BY <2>3, <2>5
<1>6. s \in KernelSlots \cup TaskSlots
  BY DEF KernelSlots, TaskSlots, AlwaysShared, Slots
<1> QED BY <1>3, <1>4, <1>5, <1>6

(* The empty directory clone_directory() starts with.                      *)
LEMMA NewDirectoryForks ==
    ASSUME NEW m, Sound(m), NEW r, r = NewDirectory(m)
    PROVE  Forking(m, r) /\ Filled(m, r, {})
<1> DEFINE d     == CloneOf(m)
           empty == [slot \in Slots |-> 0]
           ds    == Append(m.dirs, empty)
<1>1. m \in Memories /\ m.dirs \in Seq([Slots -> Nat])
  BY DEF Sound, Memories
<1>2. empty \in [Slots -> Nat] /\ \A s \in Slots : empty[s] = 0
  OBVIOUS
<1> HIDE DEF empty
<1>3. /\ ds \in Seq([Slots -> Nat]) /\ Len(ds) = d /\ ds[d] = empty
      /\ \A e \in DirsOf(m) : ds[e] = m.dirs[e]
  BY <1>1, <1>2, AppendProperties DEF CloneOf, DirsOf
<1>4. r = [m EXCEPT !.dirs = ds]
  BY <1>1 DEF NewDirectory, Memories, empty
<1> HIDE DEF ds
<1>5. r \in Memories /\ r.dirs = ds /\ r.tables = m.tables /\ r.data = m.data
  BY <1>1, <1>3, <1>4 DEF Memories
<1>6. m.tables \in Seq(Nat) /\ m.data \in Seq(Contents)
  BY <1>1 DEF Memories
<1>7. Keeps(m, r)
  <2>1. m.tables[DudTable(m)] \in 1 .. Len(m.data)
    <3>1. DudTable(m) # 0 /\ "dud" \in Slots /\ kernel_directory \in DirsOf(m)
      BY <1>1 DEF Sound, KernelComplete, AlwaysShared, DudTable, PAGE_CLONING_BUFFER,
                  Slots, kernel_directory, DirsOf
    <3>2. DudTable(m) \in TablesOf(m)
      BY <1>6, <3>1 DEF Sound, NoDangling, DudTable, TablesOf, PAGE_CLONING_BUFFER
    <3> QED BY <1>6, <3>2 DEF Sound, NoDangling, KernelComplete
  <2> QED BY <1>3, <1>5, <1>6, <2>1 DEF Keeps
<1>8. NewTables(m, r) = {}
  BY <1>5, <1>6 DEF NewTables
<1>9. ClonesSlots(m, r)
  BY <1>2, <1>3, <1>5 DEF ClonesSlots, KernelSlots, TaskSlots, AlwaysShared, Slots
<1>10. MapsNewFrames(m, r)
  BY <1>8 DEF MapsNewFrames
<1>11. Filled(m, r, {})
  BY <1>2, <1>3, <1>5 DEF Filled
<1> QED BY <1>5, <1>7, <1>9, <1>10, <1>11 DEF Forking

(* clone_directory() as a whole.                                           *)
LEMMA DirectoryForks ==
    ASSUME NEW m, Sound(m), current \in DirsOf(m), cr3 = current,
           NEW r, r = clone_directory(m, current)
    PROVE  Forking(m, r) /\ Filled(m, r, Slots)
<1> DEFINE d == CloneOf(m)
<1>1. PICK m0 : m0 = NewDirectory(m)
  OBVIOUS
<1>2. PICK m1 : m1 = CloneSlot(m0, d, "low", current)
  OBVIOUS
<1>3. PICK m2 : m2 = CloneSlot(m1, d, "heap", current)
  OBVIOUS
<1>4. PICK m3 : m3 = CloneSlot(m2, d, "heap_rest", current)
  OBVIOUS
<1>5. PICK m4 : m4 = CloneSlot(m3, d, "image", current)
  OBVIOUS
<1>6. PICK m5 : m5 = CloneSlot(m4, d, "kernel_stack", current)
  OBVIOUS
<1>7. r = CloneSlot(m5, d, "dud", current)
  BY <1>1, <1>2, <1>3, <1>4, <1>5, <1>6 DEF clone_directory, CloneOf
<1>8. Forking(m, m0) /\ Filled(m, m0, {})
  BY <1>1, NewDirectoryForks
<1>9. Forking(m, m1) /\ Filled(m, m1, {} \cup {"low"})
  BY <1>2, <1>8, CloneSlotForks DEF Slots
<1>10. Forking(m, m2) /\ Filled(m, m2, {"low"} \cup {"heap"})
  <2>1. {} \cup {"low"} = {"low"} /\ "heap" \in Slots \ {"low"}
    BY DEF Slots
  <2> QED BY <1>3, <1>9, <2>1, CloneSlotForks
<1>11. Forking(m, m3) /\ Filled(m, m3, {"low", "heap"} \cup {"heap_rest"})
  <2>1. {"low"} \cup {"heap"} = {"low", "heap"} /\ "heap_rest" \in Slots \ {"low", "heap"}
    BY DEF Slots
  <2> QED BY <1>4, <1>10, <2>1, CloneSlotForks
<1>12. Forking(m, m4) /\ Filled(m, m4, {"low", "heap", "heap_rest"} \cup {"image"})
  <2>1. /\ {"low", "heap"} \cup {"heap_rest"} = {"low", "heap", "heap_rest"}
        /\ "image" \in Slots \ {"low", "heap", "heap_rest"}
    BY DEF Slots
  <2> QED BY <1>5, <1>11, <2>1, CloneSlotForks
<1>13. /\ Forking(m, m5)
       /\ Filled(m, m5, {"low", "heap", "heap_rest", "image"} \cup {"kernel_stack"})
  <2>1. /\ {"low", "heap", "heap_rest"} \cup {"image"} = {"low", "heap", "heap_rest", "image"}
        /\ "kernel_stack" \in Slots \ {"low", "heap", "heap_rest", "image"}
    BY DEF Slots
  <2> QED BY <1>6, <1>12, <2>1, CloneSlotForks
<1>14. Forking(m, r) /\ Filled(m, r, (Slots \ {"dud"}) \cup {"dud"})
  <2>1. /\ {"low", "heap", "heap_rest", "image"} \cup {"kernel_stack"} = Slots \ {"dud"}
        /\ "dud" \in Slots \ (Slots \ {"dud"})
    BY DEF Slots
  <2> QED BY <1>7, <1>13, <2>1, CloneSlotForks
<1>15. (Slots \ {"dud"}) \cup {"dud"} = Slots
  BY DEF Slots
<1> QED BY <1>14, <1>15

(* task_create() maps a page of the clone.                                 *)
LEMMA EnsureForks ==
    ASSUME NEW m, Sound(m), NEW n, Forking(m, n), Filled(m, n, Slots),
           NEW s \in TaskSlots, NEW r, r = EnsurePage(n, CloneOf(m), s)
    PROVE  /\ Forking(m, r) /\ Filled(m, r, Slots) /\ Mapped(r, CloneOf(m), s)
           /\ Undisturbed(n, r, CloneOf(m), s)
<1> DEFINE d == CloneOf(m)
<1>1. PICK p : p = get_page(n, d, s)
  OBVIOUS
<1>2. r = page_alloc(p, d, s)
  BY <1>1 DEF EnsurePage
<1>3. s \in Slots /\ s \notin KernelSlots /\ Slots \cup {s} = Slots
  BY DEF TaskSlots, KernelSlots, AlwaysShared, Slots
<1>4. /\ Forking(m, p) /\ Undisturbed(n, p, d, s) /\ p.dirs[d][s] # 0
      /\ Mapped(n, d, s) => p = n
  <2>1. CASE n.dirs[d][s] = 0
    <3>1. p = NewTable(n, d, s)
      BY <1>1, <2>1 DEF get_page
    <3> QED BY <2>1, <3>1, TableForks, ForkingFacts DEF NewTables, Mapped
  <2>2. CASE n.dirs[d][s] # 0
    BY <1>1, <2>2 DEF get_page, Undisturbed
  <2> QED BY <2>1, <2>2
<1>5. /\ Forking(m, r) /\ Undisturbed(p, r, d, s) /\ Mapped(r, d, s)
      /\ Mapped(p, d, s) => r = p
  <2>1. CASE FrameAt(p, d, s) = 0
    <3>1. ~Mapped(p, d, s)
      BY <2>1 DEF Mapped, FrameAt
    <3> QED BY <1>2, <1>4, <2>1, <3>1, AllocForks
  <2>2. CASE FrameAt(p, d, s) # 0
    <3>1. r = p
      BY <1>2, <2>2 DEF page_alloc
    <3> QED BY <1>4, <2>2, <3>1 DEF Undisturbed, Mapped, FrameAt
  <2> QED BY <2>1, <2>2
<1>6. Undisturbed(n, r, d, s)
  BY <1>4, <1>5 DEF Undisturbed
<1>7. Mapped(m, current, s) => Mapped(r, d, s) /\ Read(r, d, s) = Read(m, current, s)
  BY <1>3, <1>4, <1>5 DEF Filled
<1>8. Filled(m, r, Slots \cup {s})
  BY <1>3, <1>6, <1>7, FillsSlot
<1> QED BY <1>3, <1>5, <1>6, <1>8

(* The user stack's page is there already: it is the dud page.             *)
LEMMA EnsureDud ==
    ASSUME NEW m, Sound(m), current \in DirsOf(m),
           NEW n, Forking(m, n), Filled(m, n, Slots)
    PROVE  EnsurePage(n, CloneOf(m), TASK_USER_STACK_BOTTOM) = n
<1>1. n.dirs[CloneOf(m)]["dud"] = DudTable(m)
  BY DEF Filled, Slots, KernelSlots, AlwaysShared, Sound, KernelShared, DudTable,
         PAGE_CLONING_BUFFER
<1>2. DudTable(m) # 0 /\ n.tables[DudTable(m)] # 0
  BY ForkingFacts DEF Forking, Keeps, TablesOf
<1> QED BY <1>1, <1>2 DEF EnsurePage, get_page, page_alloc, FrameAt, TASK_USER_STACK_BOTTOM

(* What is true of the new directory when task_create() returns.           *)
Forked(m, r) ==
    LET d == CloneOf(m)
    IN  /\ Forking(m, r)
        /\ \A s \in KernelSlots : r.dirs[d][s] = m.dirs[current][s]
        /\ \A s \in TaskSlots : Mapped(r, d, s)
        /\ Mapped(m, current, "kernel_stack")
              => Read(r, d, "kernel_stack") = Read(m, current, "kernel_stack")

(* task_create() as a whole forks the directory of the current task.       *)
LEMMA TaskForked ==
    ASSUME IInv, task_create
    PROVE  Forked(Memory, Memory')
<1> DEFINE m == Memory
           d == CloneOf(m)
           t == Len(dirs) - 1
<1>1. Sound(m) /\ current \in DirsOf(m) /\ cr3 = current
  BY DEF IInv, task_create, InKernel, Directories, DirsOf, Memory
<1>2. PICK m1 : m1 = clone_directory(m, current)
  OBVIOUS
<1>3. PICK m2 : m2 = EnsurePage(m1, d, "image")
  OBVIOUS
<1>4. PICK m3 : m3 = EnsurePage(m2, d, TASK_USER_STACK_BOTTOM)
  OBVIOUS
<1>5. PICK m4 : m4 = EnsurePage(m3, d, "kernel_stack")
  OBVIOUS
<1>6. PICK r : r = WritePhysical(m4, FrameAt(m4, d, "image"), Image(t))
  OBVIOUS
<1>7. Len(dirs) \in Nat /\ Len(dirs) >= 2
  BY <1>1 DEF Sound, Memories, Memory
<1>8. DirOf(t) = d
  BY <1>7 DEF DirOf, CloneOf, Memory
<1>9. SetMemory(r)
  BY <1>2, <1>3, <1>4, <1>5, <1>6, <1>8 DEF task_create
<1>10. "image" \in TaskSlots /\ "kernel_stack" \in TaskSlots
  BY DEF TaskSlots
<1>11. Forking(m, m1) /\ Filled(m, m1, Slots)
  BY <1>1, <1>2, DirectoryForks
<1> HIDE DEF m, d, t
<1>12. Forking(m, m2) /\ Filled(m, m2, Slots) /\ Mapped(m2, d, "image")
  BY <1>1, <1>3, <1>10, <1>11, EnsureForks DEF d
<1>13. m3 = m2
  BY <1>1, <1>4, <1>12, EnsureDud DEF d
<1>14. /\ Forking(m, m4) /\ Filled(m, m4, Slots) /\ Mapped(m4, d, "kernel_stack")
       /\ Undisturbed(m2, m4, d, "kernel_stack")
  BY <1>1, <1>5, <1>10, <1>12, <1>13, EnsureForks DEF d
<1>15. Mapped(m4, d, "image")
  BY <1>10, <1>12, <1>14 DEF Undisturbed, Slots
<1>16. Image(t) \in Contents
  BY <1>7 DEF Image, Contents, t
<1>17. /\ Forking(m, r) /\ Undisturbed(m4, r, d, "image") /\ r.dirs = m4.dirs
       /\ Mapped(r, d, "image")
  BY <1>1, <1>6, <1>10, <1>14, <1>15, <1>16, WriteForks DEF d
<1>18. /\ Mapped(r, d, "kernel_stack")
       /\ Read(r, d, "kernel_stack") = Read(m4, d, "kernel_stack")
  BY <1>10, <1>14, <1>17 DEF Undisturbed, Slots
<1>19. \A s \in KernelSlots : r.dirs[d][s] = m.dirs[current][s]
  BY <1>14, <1>17 DEF Filled, KernelSlots, AlwaysShared, Slots, d
<1>20. Mapped(m, current, "kernel_stack")
          => Read(r, d, "kernel_stack") = Read(m, current, "kernel_stack")
  BY <1>10, <1>14, <1>18 DEF Filled, Slots, d
<1>21. Forked(m, r)
  BY <1>17, <1>18, <1>19, <1>20 DEF Forked, TaskSlots, d
<1>22. r = Memory'
  BY <1>9, <1>17 DEF SetMemory, Memory, Forking, Memories
<1> QED BY <1>21, <1>22 DEF m

-----------------------------------------------------------------------------
(* A forked memory is as sound as the one it was forked from.              *)
LEMMA ForkedNoDangling ==
    ASSUME NEW m, Sound(m), NEW r, Forked(m, r)
    PROVE  NoDangling(r)
<1> DEFINE d == CloneOf(m)
<1>1. Forking(m, r) /\ r \in Memories
  BY DEF Forked, Forking
<1>2. \A e \in DirsOf(r) : e \in DirsOf(m) \/ e = d
  BY <1>1, ForkingFacts DEF Forking, Keeps, DirsOf, CloneOf
<1>3. Slots = KernelSlots \cup TaskSlots
  BY DEF Slots, KernelSlots, TaskSlots, AlwaysShared
<1>4. \A s \in Slots : r.dirs[d][s] \in 0 .. Len(r.tables)
  <2>1. \A s \in KernelSlots : r.dirs[d][s] \in 0 .. Len(m.tables)
    BY <1>1, <1>3, ForkingFacts DEF Forking, ClonesSlots, Sound, NoDangling
  <2>2. \A s \in TaskSlots : r.dirs[d][s] \in 0 .. Len(r.tables)
    BY <1>1, ForkingFacts DEF Forking, ClonesSlots, NewTables
  <2> QED BY <1>1, <1>3, <2>1, <2>2, ForkingFacts DEF Forking, Keeps
<1>5. \A e \in DirsOf(m), s \in Slots : r.dirs[e][s] \in 0 .. Len(r.tables)
  <2>1. \A e \in DirsOf(m), s \in Slots : r.dirs[e][s] \in 0 .. Len(m.tables)
    BY <1>1 DEF Forking, Keeps, Sound, NoDangling
  <2> QED BY <1>1, <2>1, ForkingFacts DEF Forking, Keeps
<1>6. \A t \in TablesOf(r) : r.tables[t] \in 0 .. Len(r.data)
  <2> SUFFICES ASSUME NEW t \in TablesOf(r)
               PROVE  r.tables[t] \in 0 .. Len(r.data)
    OBVIOUS
  <2>1. CASE t \in TablesOf(m) /\ t # DudTable(m)
    <3>1. r.tables[t] = m.tables[t] /\ m.tables[t] \in 0 .. Len(m.data)
      BY <1>1, <2>1 DEF Forking, Keeps, Sound, NoDangling
    <3> QED BY <1>1, <3>1, ForkingFacts DEF Forking, Keeps
  <2>2. CASE t = DudTable(m)
    BY <1>1, <2>2, ForkingFacts DEF Forking, Keeps
  <2>3. CASE t \in NewTables(m, r)
    BY <1>1, <2>3, ForkingFacts DEF Forking, MapsNewFrames, NewFrames
  <2>4. t \in TablesOf(m) \/ t \in NewTables(m, r)
    BY <1>1, ForkingFacts DEF TablesOf, NewTables
  <2> QED BY <2>1, <2>2, <2>3, <2>4
<1> QED BY <1>2, <1>4, <1>5, <1>6 DEF NoDangling

(* The tables of a fork are its own or the kernel's.                       *)
LEMMA ForkedTablesPrivate ==
    ASSUME NEW m, Sound(m), current \in DirsOf(m), NEW r, Forked(m, r)
    PROVE  TablesPrivate(r)
<1> DEFINE d == CloneOf(m)
<1>1. Forking(m, r) /\ r \in Memories
  BY DEF Forked, Forking
<1>2. \A e \in DirsOf(r) : e \in DirsOf(m) \/ e = d
  BY <1>1, ForkingFacts DEF Forking, Keeps, DirsOf, CloneOf
<1>3. /\ \A e \in DirsOf(m) : r.dirs[e] = m.dirs[e]
      /\ kernel_directory \in DirsOf(m)
  BY <1>1, ForkingFacts DEF Forking, Keeps
<1>4. Slots = KernelSlots \cup TaskSlots
  BY DEF Slots, KernelSlots, TaskSlots, AlwaysShared
<1>5. \A e \in DirsOf(m), s \in Slots : r.dirs[e][s] \notin NewTables(m, r)
  BY <1>1, <1>3, ForkingFacts DEF Sound, NoDangling, NewTables
<1>6. \A s \in TaskSlots : r.dirs[d][s] \in NewTables(m, r)
  BY <1>1 DEF Forked, Forking, ClonesSlots, Mapped

(* A slot of the clone holds the kernel's table or one no other slot has.  *)
<1>7. \A s \in KernelSlots : r.dirs[d][s] \in {0, m.dirs[kernel_directory][s]}
  BY <1>1 DEF Forking, ClonesSlots
<1> HIDE DEF d
<1> SUFFICES ASSUME NEW a \in DirsOf(r), NEW e \in DirsOf(r), NEW s \in Slots, NEW u \in Slots,
                    r.dirs[a][s] # 0, r.dirs[a][s] = r.dirs[e][u], << a, s >> # << e, u >>
             PROVE  s = u /\ r.dirs[a][s] = r.dirs[kernel_directory][s]
  BY DEF TablesPrivate

(* Two places of kernel tables: what TablesPrivate says of m.              *)
<1>8. ASSUME NEW x \in DirsOf(m), NEW y \in DirsOf(m), NEW v \in Slots, NEW w \in Slots,
             m.dirs[x][v] # 0, m.dirs[x][v] = m.dirs[y][w]
      PROVE  v = w /\ (x = y \/ m.dirs[x][v] = m.dirs[kernel_directory][v])
  BY <1>8 DEF Sound, TablesPrivate
<1>9. CASE a \in DirsOf(m) /\ e \in DirsOf(m)
  BY <1>3, <1>8, <1>9
<1>10. CASE a = d /\ s \in TaskSlots
  <2>1. r.dirs[a][s] \in NewTables(m, r)
    BY <1>6, <1>10
  <2>2. e = d
    BY <1>2, <1>5, <2>1
  <2>3. u \in TaskSlots
    <3>1. u \in KernelSlots => r.dirs[d][u] = r.dirs[kernel_directory][u]
      BY <1>3, <1>7, <1>10, <2>2
    <3> QED BY <1>3, <1>4, <1>5, <2>1, <2>2, <3>1
  <2> QED BY <1>1, <1>10, <2>2, <2>3 DEF Forking, ClonesSlots, TaskSlots, d
<1>11. CASE e = d /\ u \in TaskSlots
  <2>1. r.dirs[e][u] \in NewTables(m, r)
    BY <1>6, <1>11
  <2>2. a = d
    BY <1>2, <1>5, <2>1
  <2>3. s \in TaskSlots
    <3>1. s \in KernelSlots => r.dirs[d][s] = r.dirs[kernel_directory][s]
      BY <1>3, <1>7, <2>2
    <3> QED BY <1>3, <1>4, <1>5, <2>1, <2>2, <3>1
  <2> QED BY <1>1, <1>11, <2>2, <2>3 DEF Forking, ClonesSlots, TaskSlots, d
<1>12. CASE a = d /\ s \in KernelSlots /\ e \in DirsOf(m)
  BY <1>3, <1>7, <1>8, <1>12
<1>13. CASE e = d /\ u \in KernelSlots /\ a \in DirsOf(m)
  BY <1>3, <1>7, <1>8, <1>13
<1>14. CASE a = d /\ s \in KernelSlots /\ e = d /\ u \in KernelSlots
  BY <1>3, <1>4, <1>7, <1>8, <1>14
<1> QED BY <1>2, <1>4, <1>9, <1>10, <1>11, <1>12, <1>13, <1>14

(* A fork keeps the invariant of the memory.                               *)
LEMMA ForkedSound ==
    ASSUME NEW m, Sound(m), current \in DirsOf(m), NEW r, Forked(m, r)
    PROVE  Sound(r)
<1> DEFINE d == CloneOf(m)
<1>1. Forking(m, r) /\ r \in Memories
  BY DEF Forked, Forking
<1>2. \A e \in DirsOf(r) : e \in DirsOf(m) \/ e = d
  BY <1>1, ForkingFacts DEF Forking, Keeps, DirsOf, CloneOf
<1>3. /\ \A e \in DirsOf(m) : r.dirs[e] = m.dirs[e]
      /\ kernel_directory \in DirsOf(m)
  BY <1>1, ForkingFacts DEF Forking, Keeps
<1>4. Len(r.dirs) >= 2
  BY <1>1, ForkingFacts DEF Sound, Forking, Keeps, CloneOf
<1>5. KernelComplete(r)
  <2>1. r.tables[DudTable(m)] # 0
    BY <1>1, ForkingFacts DEF Forking, Keeps
  <2> QED BY <1>1, <1>3, <2>1, ForkingFacts DEF Sound, KernelComplete
<1>6. KernelShared(r)
  BY <1>2, <1>3 DEF Forked, Sound, KernelShared, KernelSlots
<1>7. TasksMapped(r)
  <2> SUFFICES ASSUME NEW e \in 3 .. Len(r.dirs), NEW s \in TaskSlots
               PROVE  Mapped(r, e, s)
    BY DEF TasksMapped
  <2>1. CASE e = d
    BY <2>1 DEF Forked
  <2>2. CASE e # d
    <3>1. e \in 3 .. Len(m.dirs) /\ e \in DirsOf(m)
      BY <1>1, <2>2, ForkingFacts DEF Forking, Keeps, CloneOf, DirsOf
    <3>2. s \in Slots \ {PAGE_CLONING_BUFFER}
      BY DEF TaskSlots, Slots, PAGE_CLONING_BUFFER
    <3> QED BY <1>1, <3>1, <3>2, OthersKept DEF Sound, TasksMapped
  <2> QED BY <2>1, <2>2
<1>8. PagesPrivate(r)
  <2>1. \A t \in TablesOf(r) : t \in TablesOf(m) \/ t \in NewTables(m, r)
    BY <1>1, ForkingFacts DEF TablesOf, NewTables
  <2>2. DudTable(r) = DudTable(m)
    BY <1>1, ForkingFacts
  <2>3. \A t \in TablesOf(m) \ {DudTable(m)} :
            r.tables[t] = m.tables[t] /\ r.tables[t] \notin NewFrames(m, r)
    BY <1>1, ForkingFacts DEF Forking, Keeps, Sound, NoDangling, NewFrames
  <2>4. \A t \in NewTables(m, r) : r.tables[t] # 0 => r.tables[t] \in NewFrames(m, r)
    BY <1>1 DEF Forking, MapsNewFrames
  <2>5. \A t, u \in NewTables(m, r) : r.tables[t] # 0 /\ r.tables[t] = r.tables[u] => t = u
    BY <1>1 DEF Forking, MapsNewFrames
  <2>6. \A t, u \in TablesOf(m) \ {DudTable(m)} :
            m.tables[t] # 0 /\ m.tables[t] = m.tables[u] => t = u
    BY DEF Sound, PagesPrivate
  <2> QED BY <2>1, <2>2, <2>3, <2>4, <2>5, <2>6 DEF PagesPrivate
<1>9. NoDangling(r) /\ TablesPrivate(r)
  BY ForkedNoDangling, ForkedTablesPrivate
<1> QED BY <1>1, <1>4, <1>5, <1>6, <1>7, <1>8, <1>9 DEF Sound

-----------------------------------------------------------------------------
(* The other operations keep a memory sound too.                           *)
LEMMA SoundFacts ==
    ASSUME NEW m, Sound(m)
    PROVE  /\ m \in Memories /\ Len(m.dirs) \in Nat /\ Len(m.tables) \in Nat
           /\ Len(m.data) \in Nat /\ kernel_directory \in DirsOf(m)
           /\ DudTable(m) \in TablesOf(m) /\ m.tables[DudTable(m)] \in 1 .. Len(m.data)
<1>1. /\ m \in Memories /\ Len(m.dirs) \in Nat /\ Len(m.tables) \in Nat
      /\ Len(m.data) \in Nat
  BY DEF Sound, Memories
<1>2. kernel_directory \in DirsOf(m)
  BY <1>1 DEF Sound, DirsOf, kernel_directory
<1>3. DudTable(m) # 0 /\ DudTable(m) \in 0 .. Len(m.tables)
  BY <1>2 DEF Sound, KernelComplete, NoDangling, AlwaysShared, DudTable,
              PAGE_CLONING_BUFFER, Slots
<1>4. DudTable(m) \in TablesOf(m)
  BY <1>1, <1>3 DEF TablesOf
<1> QED BY <1>1, <1>2, <1>4 DEF Sound, KernelComplete, NoDangling

(* The frame an operation writes through the dud page.                     *)
LEMMA WriteSound ==
    ASSUME NEW m, Sound(m), NEW f \in 1 .. Len(m.data), NEW c \in Contents,
           NEW r, r = WritePhysical(m, f, c)
    PROVE  Sound(r)
<1>1. /\ r \in Memories /\ r.dirs = m.dirs
      /\ Len(r.tables) = Len(m.tables) /\ r.tables[DudTable(m)] = f
      /\ \A t \in TablesOf(m) : t # DudTable(m) => r.tables[t] = m.tables[t]
      /\ Len(r.data) = Len(m.data)
  BY SoundFacts, PhysicalWritten
<1>2. DudTable(r) = DudTable(m) /\ TablesOf(r) = TablesOf(m) /\ f \in Nat \ {0}
  BY <1>1, SoundFacts DEF DudTable, TablesOf
<1>3. NoDangling(r)
  <2>1. NoDangling(m)
    BY DEF Sound
  <2>2. ASSUME NEW d \in DirsOf(r), NEW s \in Slots
        PROVE  r.dirs[d][s] \in 0 .. Len(r.tables)
    BY <1>1, <2>1, <2>2 DEF NoDangling, DirsOf
  <2>3. ASSUME NEW t \in TablesOf(r)
        PROVE  r.tables[t] \in 0 .. Len(r.data)
    <3>1. CASE t = DudTable(m)
      BY <1>1, <1>2, <3>1, SoundFacts
    <3>2. CASE t # DudTable(m)
      BY <1>1, <1>2, <2>1, <2>3, <3>2 DEF NoDangling
    <3> QED BY <3>1, <3>2
  <2> QED BY <2>2, <2>3 DEF NoDangling
<1>4. KernelComplete(r) /\ KernelShared(r) /\ TablesPrivate(r)
  BY <1>1, <1>2 DEF Sound, KernelComplete, KernelShared, TablesPrivate, DirsOf
<1>5. TasksMapped(r)
  <2> SUFFICES ASSUME NEW d \in 3 .. Len(m.dirs), NEW s \in TaskSlots
               PROVE  Mapped(r, d, s)
    BY <1>1 DEF TasksMapped
  <2>1. m.dirs[d][s] # 0 /\ m.tables[m.dirs[d][s]] # 0
    BY DEF Sound, TasksMapped, Mapped
  <2>2. m.dirs[d][s] \in TablesOf(m)
    <3>1. d \in DirsOf(m) /\ s \in Slots
      BY SoundFacts DEF DirsOf, TaskSlots, Slots
    <3> QED BY <2>1, <3>1, SoundFacts DEF Sound, NoDangling, TablesOf
  <2> QED BY <1>1, <1>2, <2>1, <2>2 DEF Mapped
<1>6. PagesPrivate(r)
  BY <1>1, <1>2 DEF Sound, PagesPrivate
<1> QED BY <1>1, <1>3, <1>4, <1>5, <1>6 DEF Sound

(* expand() makes the table for the rest of the heap in kernel_directory.  *)
LEMMA HeapTableSound ==
    ASSUME NEW m, Sound(m), m.dirs[kernel_directory]["heap_rest"] = 0,
           NEW r, r = NewTable(m, kernel_directory, "heap_rest")
    PROVE  /\ Sound(r) /\ r.dirs[kernel_directory]["heap_rest"] \in TablesOf(r)
           /\ r.dirs[kernel_directory]["heap_rest"] # DudTable(r)
<1> DEFINE k == kernel_directory
           s == "heap_rest"
           new == Len(m.tables) + 1
<1>1. "heap_rest" \in Slots /\ s \notin AlwaysShared /\ s \notin TaskSlots
      /\ AlwaysShared \subseteq Slots /\ TaskSlots \subseteq Slots
      /\ PAGE_CLONING_BUFFER \in AlwaysShared
  BY DEF Slots, AlwaysShared, TaskSlots, PAGE_CLONING_BUFFER
<1>2. /\ r \in Memories /\ r.data = m.data
      /\ Len(r.dirs) = Len(m.dirs)
      /\ \A e \in DirsOf(m) : e # k => r.dirs[e] = m.dirs[e]
      /\ r.dirs[k][s] = new
      /\ \A u \in Slots : u # s => r.dirs[k][u] = m.dirs[k][u]
      /\ Len(r.tables) = new /\ r.tables[Len(r.tables)] = 0
      /\ \A t \in TablesOf(m) : r.tables[t] = m.tables[t]
  BY <1>1, SoundFacts, TableMade
<1>3. DirsOf(r) = DirsOf(m) /\ TablesOf(r) = TablesOf(m) \cup {new} /\ new \notin TablesOf(m)
      /\ new # 0
  <2>1. Len(m.tables) \in Nat
    BY SoundFacts
  <2>2. DirsOf(r) = DirsOf(m)
    BY <1>2 DEF DirsOf
  <2> QED BY <1>2, <2>1, <2>2 DEF TablesOf
<1>4. DudTable(r) = DudTable(m) /\ DudTable(m) # new
  BY <1>1, <1>2, <1>3, SoundFacts DEF DudTable
<1>5. \A e \in DirsOf(m), u \in Slots : m.dirs[e][u] \in 0 .. Len(m.tables)
  BY DEF Sound, NoDangling
<1> HIDE DEF k, new
<1>6. \A e \in DirsOf(m), u \in Slots :
         r.dirs[e][u] = IF e = k /\ u = s THEN new ELSE m.dirs[e][u]
  BY <1>2
<1>7. NoDangling(r)
  <2>1. \A e \in DirsOf(r), u \in Slots : r.dirs[e][u] \in 0 .. Len(r.tables)
    <3>1. new \in 0 .. new /\ 0 .. Len(m.tables) \subseteq 0 .. new
      BY SoundFacts DEF new
    <3>2. ASSUME NEW e \in DirsOf(m), NEW u \in Slots
          PROVE  r.dirs[e][u] \in 0 .. new
      BY <1>5, <1>6, <3>1
    <3>3. Len(r.tables) = new /\ DirsOf(r) = DirsOf(m)
      BY <1>2, <1>3
    <3> QED BY <3>2, <3>3
  <2>2. \A t \in TablesOf(r) : r.tables[t] \in 0 .. Len(r.data)
    <3>1. \A t \in TablesOf(m) : m.tables[t] \in 0 .. Len(m.data)
      BY DEF Sound, NoDangling
    <3>2. Len(m.data) \in Nat
      BY SoundFacts
    <3> QED BY <1>2, <1>3, <3>1, <3>2
  <2> QED BY <2>1, <2>2 DEF NoDangling
<1>8. KernelComplete(r)
  BY <1>1, <1>2, <1>4, SoundFacts DEF Sound, KernelComplete, k
<1>9. \A e \in DirsOf(m) : m.dirs[e][s] = 0
  BY DEF Sound, KernelShared
<1>10. KernelShared(r)
  <2> SUFFICES ASSUME NEW e \in DirsOf(m)
               PROVE  /\ \A u \in AlwaysShared : r.dirs[e][u] = r.dirs[k][u]
                      /\ r.dirs[e][s] \in {0, r.dirs[k][s]}
    BY <1>3 DEF KernelShared, k
  <2>1. r.dirs[e][s] \in {0, r.dirs[k][s]}
    BY <1>1, <1>2, <1>6, <1>9
  <2>2. \A u \in AlwaysShared : r.dirs[e][u] = r.dirs[k][u]
    <3>1. \A u \in AlwaysShared : m.dirs[e][u] = m.dirs[k][u]
      BY DEF Sound, KernelShared, k
    <3>2. k \in DirsOf(m)
      BY SoundFacts DEF k
    <3> QED BY <1>1, <1>6, <3>1, <3>2
  <2> QED BY <2>1, <2>2
<1>11. TasksMapped(r)
  <2> SUFFICES ASSUME NEW d \in 3 .. Len(m.dirs), NEW u \in TaskSlots
               PROVE  Mapped(r, d, u)
    BY <1>2 DEF TasksMapped
  <2>1. m.dirs[d][u] # 0 /\ m.tables[m.dirs[d][u]] # 0
    BY DEF Sound, TasksMapped, Mapped
  <2>2. d \in DirsOf(m) /\ u \in Slots /\ u # s
    BY <1>1, SoundFacts DEF DirsOf
  <2>3. m.dirs[d][u] \in TablesOf(m) /\ r.dirs[d][u] = m.dirs[d][u]
    BY <1>5, <1>6, <2>1, <2>2, SoundFacts DEF TablesOf
  <2> QED BY <1>2, <2>1, <2>3 DEF Mapped
<1>12. TablesPrivate(r)
  <2> SUFFICES ASSUME NEW a \in DirsOf(m), NEW e \in DirsOf(m), NEW v \in Slots, NEW u \in Slots,
                      r.dirs[a][v] # 0, r.dirs[a][v] = r.dirs[e][u], << a, v >> # << e, u >>
               PROVE  v = u /\ r.dirs[a][v] = r.dirs[k][v]
    BY <1>3 DEF TablesPrivate, k
  <2>1. \A x \in DirsOf(m), w \in Slots : m.dirs[x][w] # new
    BY <1>5, SoundFacts DEF new
  <2>2. r.dirs[a][v] = m.dirs[a][v] /\ r.dirs[e][u] = m.dirs[e][u]
    BY <1>6, <2>1
  <2>3. v = u /\ m.dirs[a][v] = m.dirs[k][v]
    BY <2>2 DEF Sound, TablesPrivate, k
  <2>4. v # s
    BY <1>9, <2>2
  <2> QED BY <1>2, <2>2, <2>3, <2>4
<1>13. PagesPrivate(r)
  BY <1>2, <1>3, <1>4 DEF Sound, PagesPrivate, new
<1>14. r.dirs[k][s] \in TablesOf(r) /\ r.dirs[k][s] # DudTable(r)
  BY <1>2, <1>3, <1>4
<1> QED BY <1>2, <1>7, <1>8, <1>10, <1>11, <1>12, <1>13, <1>14 DEF Sound, k

(* A page other than the dud page gets a frame of its own.                 *)
LEMMA AllocSound ==
    ASSUME NEW m, Sound(m), NEW d \in DirsOf(m), NEW s \in Slots,
           m.dirs[d][s] \in TablesOf(m), FrameAt(m, d, s) = 0,
           NEW r, r = page_alloc(m, d, s)
    PROVE  Sound(r)
<1> DEFINE tb == m.dirs[d][s]
<1>1. /\ r \in Memories /\ r.dirs = m.dirs
      /\ Len(r.tables) = Len(m.tables) /\ r.tables[tb] = Len(m.data) + 1
      /\ \A t \in TablesOf(m) : t # tb => r.tables[t] = m.tables[t]
      /\ Len(r.data) = Len(m.data) + 1
  BY SoundFacts, PageAllocated
<1> HIDE DEF tb
<1>2. DudTable(r) = DudTable(m) /\ TablesOf(r) = TablesOf(m) /\ DirsOf(r) = DirsOf(m)
  BY <1>1 DEF DudTable, TablesOf, DirsOf
<1>3. \A t \in TablesOf(m) : m.tables[t] \in 0 .. Len(m.data)
  BY DEF Sound, NoDangling
<1>4. \A t \in TablesOf(m) : m.tables[t] # 0 => r.tables[t] = m.tables[t]
  BY <1>1 DEF FrameAt, tb
<1>5. NoDangling(r)
  <2>1. \A t \in TablesOf(m) : r.tables[t] \in 0 .. Len(m.data) + 1
    <3>1. Len(m.data) + 1 \in 0 .. Len(m.data) + 1 /\ 0 .. Len(m.data) \subseteq 0 .. Len(m.data) + 1
      BY SoundFacts
    <3> QED BY <1>1, <1>3, <3>1
  <2>2. \A e \in DirsOf(m), u \in Slots : m.dirs[e][u] \in 0 .. Len(m.tables)
    BY DEF Sound, NoDangling
  <2> QED BY <1>1, <1>2, <2>1, <2>2 DEF NoDangling
<1>6. KernelComplete(r) /\ KernelShared(r) /\ TablesPrivate(r)
  BY <1>1, <1>2, <1>4, SoundFacts DEF Sound, KernelComplete, KernelShared, TablesPrivate
<1>7. TasksMapped(r)
  <2> SUFFICES ASSUME NEW e \in 3 .. Len(m.dirs), NEW u \in TaskSlots
               PROVE  Mapped(r, e, u)
    BY <1>1 DEF TasksMapped
  <2>1. m.dirs[e][u] # 0 /\ m.tables[m.dirs[e][u]] # 0
    BY DEF Sound, TasksMapped, Mapped
  <2>2. e \in DirsOf(m) /\ u \in Slots
    BY SoundFacts DEF DirsOf, TaskSlots, Slots
  <2>3. m.dirs[e][u] \in TablesOf(m)
    BY <2>1, <2>2, SoundFacts DEF Sound, NoDangling, TablesOf
  <2> QED BY <1>1, <1>4, <2>1, <2>3 DEF Mapped
<1>8. PagesPrivate(r)
  <2>1. \A t \in TablesOf(m) : r.tables[t] = IF t = tb THEN Len(m.data) + 1 ELSE m.tables[t]
    BY <1>1
  <2>2. \A t \in TablesOf(m) : m.tables[t] # Len(m.data) + 1
    BY <1>3, SoundFacts
  <2> QED BY <1>2, <2>1, <2>2 DEF Sound, PagesPrivate
<1> QED BY <1>1, <1>5, <1>6, <1>7, <1>8 DEF Sound

-----------------------------------------------------------------------------
(* Each action preserves the invariant.                                    *)
LEMMA MemorySet ==
    ASSUME NEW r \in Memories, SetMemory(r)
    PROVE  Memory' = r
BY DEF SetMemory, Memory, Memories

(* The memory and the variables it consists of.                            *)
LEMMA MemoryFields ==
    /\ Memory.dirs = dirs /\ Memory.tables = tables /\ Memory.data = data
    /\ Memory'.dirs = dirs' /\ Memory'.tables = tables' /\ Memory'.data = data'
    /\ Directories = DirsOf(Memory)
BY DEF Memory, Directories, DirsOf

(* The types of the variables, from those of the memory.                   *)
LEMMA VariableFacts ==
    ASSUME IInv
    PROVE  /\ Sound(Memory) /\ Len(dirs) \in Nat
           /\ current \in Directories /\ cr3 \in Directories
<1>1. Sound(Memory) /\ current \in Directories /\ cr3 \in Directories
  BY DEF IInv
<1> QED BY <1>1, SoundFacts, MemoryFields

(* Old indices stay indices when a sequence grows.                         *)
LEMMA RangesGrow == \A a, b \in Nat : a <= b => 1 .. a \subseteq 1 .. b
OBVIOUS

(* What is left to check of an action once its memory is sound.            *)
LEMMA RegistersSound ==
    ASSUME IInv, Sound(Memory'), Len(dirs') >= Len(dirs),
           current' \in Directories \/ current' = current,
           cr3' \in Directories \/ cr3' = cr3,
           panic' \in {"none", "page fault"} \/ panic' = panic
    PROVE  IInv'
<1>1. Len(dirs) \in Nat /\ Len(dirs') \in Nat
  <2>1. Len(Memory'.dirs) \in Nat
    BY SoundFacts
  <2> QED BY <2>1, VariableFacts, MemoryFields
<1>2. Directories \subseteq Directories'
  <2>1. Len(dirs) <= Len(dirs')
    BY <1>1
  <2> QED BY <1>1, <2>1, RangesGrow DEF Directories
<1>3. current' \in Directories' /\ cr3' \in Directories'
  BY <1>2, VariableFacts
<1>4. panic' \in {"none", "page fault"}
  BY DEF IInv
<1> QED BY <1>3, <1>4 DEF IInv

(* What init_paging() leaves behind.                                       *)
LEMMA InitIInv == Init => IInv
<1> SUFFICES ASSUME Init PROVE IInv
  OBVIOUS
<1> DEFINE m == Memory
           kernel == dirs[1]
<1>1. /\ kernel \in [Slots -> Nat]
      /\ kernel["heap"] = 1 /\ kernel["low"] = 2 /\ kernel["dud"] = 3
      /\ kernel["heap_rest"] = 0 /\ kernel["image"] = 0 /\ kernel["kernel_stack"] = 0
      /\ dirs = << kernel, kernel >>
  BY DEF Init, Slots, PAGE_CLONING_BUFFER
<1>2. Fresh \in Contents
  BY DEF Fresh, Contents
<1>3. m.dirs = dirs /\ m.tables = << 2, 1, 3 >> /\ m.data = << Fresh, Fresh, Fresh >>
  BY DEF Init, Memory
<1> HIDE DEF kernel
<1>4. /\ dirs \in Seq([Slots -> Nat]) /\ tables \in Seq(Nat) /\ data \in Seq(Contents)
      /\ dirs[1] = kernel /\ dirs[2] = kernel
      /\ Len(dirs) = 2 /\ Len(m.tables) = 3 /\ Len(m.data) = 3
  <2>1. dirs \in Seq([Slots -> Nat]) /\ dirs[1] = kernel /\ dirs[2] = kernel /\ Len(dirs) = 2
    BY <1>1
  <2>2. tables \in Seq(Nat) /\ Len(m.tables) = 3
    BY <1>3 DEF Init
  <2>3. data \in Seq(Contents) /\ Len(m.data) = 3
    BY <1>2, <1>3 DEF Init
  <2> QED BY <2>1, <2>2, <2>3
<1>5. m \in Memories /\ Len(m.dirs) >= 2
  <2>1. [dirs |-> dirs, tables |-> tables, data |-> data] \in Memories
    BY <1>4, Zenon DEF Memories
  <2>2. Memory \in Memories
    BY <2>1 DEF Memory
  <2> QED BY <1>3, <1>4, <2>2
<1>6. /\ DirsOf(m) = {1, 2} /\ TablesOf(m) = {1, 2, 3} /\ DudTable(m) = 3
      /\ \A d \in DirsOf(m) : m.dirs[d] = kernel
      /\ m.tables[1] = 2 /\ m.tables[2] = 1 /\ m.tables[3] = 3
  BY <1>1, <1>3, <1>4 DEF DirsOf, TablesOf, DudTable, kernel_directory, PAGE_CLONING_BUFFER
<1> HIDE DEF m
<1>7. NoDangling(m)
  BY <1>1, <1>4, <1>6 DEF NoDangling, Slots
<1>8. KernelComplete(m) /\ KernelShared(m)
  BY <1>1, <1>6 DEF KernelComplete, KernelShared, AlwaysShared, TaskSlots, kernel_directory
<1>9. TasksMapped(m)
  BY <1>3, <1>4 DEF TasksMapped
<1>10. TablesPrivate(m)
  BY <1>1, <1>6 DEF TablesPrivate, Slots, kernel_directory
<1>11. PagesPrivate(m)
  BY <1>6 DEF PagesPrivate
<1>12. Sound(m)
  BY <1>5, <1>7, <1>8, <1>9, <1>10, <1>11 DEF Sound
<1>13. current \in Directories /\ cr3 \in Directories /\ panic = "none"
  BY <1>4 DEF Init, Directories
<1> QED BY <1>12, <1>13 DEF IInv, m

(* task_create().                                                          *)
LEMMA CreateIInv == IInv /\ task_create => IInv'
<1> SUFFICES ASSUME IInv, task_create PROVE IInv'
  OBVIOUS
<1>1. Forked(Memory, Memory') /\ current \in DirsOf(Memory) /\ Sound(Memory)
  BY TaskForked DEF IInv, Directories, DirsOf, Memory
<1>2. Sound(Memory')
  BY <1>1, ForkedSound
<1>3. Len(dirs') >= Len(dirs)
  <2>1. Len(Memory'.dirs) = Len(Memory.dirs) + 1 /\ Len(Memory.dirs) \in Nat
    BY <1>1, SoundFacts DEF Forked, Forking, Keeps, CloneOf
  <2> QED BY <2>1 DEF Memory
<1> QED BY <1>2, <1>3, RegistersSound DEF task_create

(* task_switch() stores on the new task's stack through the dud page.      *)
LEMMA SwitchIInv ==
    ASSUME IInv, NEW t \in Tasks, task_switch(t)
    PROVE  IInv' /\ dirs' = dirs
<1> DEFINE m == Memory
           f == FrameAt(m, DirOf(t), TASK_USER_STACK_BOTTOM)
<1>1. Sound(m)
  BY DEF IInv
<1>2. DirOf(t) \in Directories /\ t \in Nat /\ Len(dirs) \in Nat
  <2>1. Len(dirs) \in Nat
    BY VariableFacts
  <2> QED BY <2>1, AddressSpacesAssumption DEF task_switch, Created, DirOf, Directories, Tasks
<1>3. f \in 1 .. Len(m.data)
  <2>1. m.dirs[DirOf(t)]["dud"] = DudTable(m)
    BY <1>1, <1>2 DEF Sound, KernelShared, AlwaysShared, DudTable, PAGE_CLONING_BUFFER,
                      Directories, DirsOf, Memory
  <2> QED BY <1>1, <2>1, SoundFacts DEF FrameAt, TASK_USER_STACK_BOTTOM
<1>4. Stack(t) \in Contents
  BY <1>2 DEF Stack, Contents
<1>5. PICK r : r = WritePhysical(m, f, Stack(t))
  OBVIOUS
<1>6. Sound(r) /\ r.dirs = m.dirs /\ r \in Memories
  BY <1>1, <1>3, <1>4, <1>5, WriteSound, PhysicalWritten, SoundFacts
<1>7. Memory' = r
  BY <1>5, <1>6, MemorySet DEF task_switch
<1>8. dirs' = dirs
  BY <1>6, <1>7 DEF Memory
<1> QED BY <1>2, <1>6, <1>7, <1>8, RegistersSound DEF task_switch

(* A store changes one member of the sequence of the frames' contents.     *)
Overwritten(q, i, e) == [q EXCEPT ![i] = e]

(* Overwriting an element keeps the type of a sequence.                    *)
LEMMA OverwrittenSeq ==
    ASSUME NEW q \in Seq(Contents), NEW i \in 1 .. Len(q), NEW e \in Contents
    PROVE  Overwritten(q, i, e) \in Seq(Contents) /\ Len(Overwritten(q, i, e)) = Len(q)
  BY ExceptSeq DEF Overwritten

(* What the frames hold is no part of the invariant.                       *)
LEMMA ContentsSound ==
    ASSUME NEW m, Sound(m), NEW r \in Memories, r.dirs = m.dirs, r.tables = m.tables,
           Len(r.data) = Len(m.data)
    PROVE  Sound(r)
<1>1. DudTable(r) = DudTable(m) /\ TablesOf(r) = TablesOf(m) /\ DirsOf(r) = DirsOf(m)
  BY DEF DudTable, TablesOf, DirsOf
<1>2. NoDangling(r) /\ Len(r.dirs) >= 2
  BY <1>1 DEF Sound, NoDangling
<1>3. KernelComplete(r) /\ KernelShared(r) /\ TablesPrivate(r)
  BY <1>1 DEF Sound, KernelComplete, KernelShared, TablesPrivate
<1>4. TasksMapped(r)
  BY DEF Sound, TasksMapped, Mapped
<1>5. PagesPrivate(r)
  BY <1>1 DEF Sound, PagesPrivate
<1> QED BY <1>2, <1>3, <1>4, <1>5 DEF Sound

(* A task stores into its pages.                                           *)
LEMMA StoreIInv ==
    ASSUME IInv, NEW t \in Tasks, NEW s \in {TASK_USER_STACK_BOTTOM, "kernel_stack"},
           TaskStores(t, s)
    PROVE  IInv' /\ dirs' = dirs
<1>1. /\ Sound(Memory) /\ Memory \in Memories
      /\ Memory.dirs = dirs /\ Memory.tables = tables /\ Memory.data = data
  BY SoundFacts DEF IInv, Memory
<1>2. /\ Memory'.dirs = dirs /\ Memory'.tables = tables /\ Memory'.data = data'
      /\ Memory' = [dirs |-> dirs, tables |-> tables, data |-> data']
  BY DEF Memory, TaskStores
<1>3. t \in Nat
  BY AddressSpacesAssumption DEF Tasks
<1>4. Stack(t) \in Contents
  BY <1>3 DEF Stack, Contents
<1>5. FrameAt(Memory, cr3, s) \in 1 .. Len(data)
  <2>1. cr3 \in 3 .. Len(dirs) /\ cr3 \in DirsOf(Memory)
    <3>1. Len(dirs) \in Nat /\ cr3 \in DirsOf(Memory)
      BY VariableFacts, MemoryFields
    <3>2. t \in 1 .. MaxTasks /\ cr3 = t + 2 /\ t + 2 <= Len(dirs)
      BY DEF TaskStores, Created, DirOf, Tasks
    <3> QED BY <1>3, <3>1, <3>2
  <2>2. CASE s = "kernel_stack"
    <3>1. Mapped(Memory, cr3, s) /\ s \in Slots
      BY <1>1, <2>1, <2>2 DEF Sound, TasksMapped, TaskSlots, Slots
    <3>2. Memory.dirs[cr3][s] \in TablesOf(Memory)
      BY <1>1, <2>1, <3>1, SoundFacts DEF Sound, NoDangling, Mapped, TablesOf
    <3> QED BY <1>1, <3>1, <3>2, SoundFacts DEF Sound, NoDangling, Mapped, FrameAt
  <2>3. CASE s = TASK_USER_STACK_BOTTOM
    <3>1. Memory.dirs[cr3]["dud"] = DudTable(Memory)
      BY <1>1, <2>1 DEF Sound, KernelShared, AlwaysShared, DudTable, PAGE_CLONING_BUFFER
    <3> QED BY <1>1, <2>3, <3>1, SoundFacts DEF FrameAt, TASK_USER_STACK_BOTTOM
  <2> QED BY <2>2, <2>3
<1>6. data' \in Seq(Contents) /\ Len(data') = Len(data)
  <2>1. data' = Overwritten(data, FrameAt(Memory, cr3, s), Stack(t))
    BY DEF TaskStores, Overwritten
  <2>2. data \in Seq(Contents)
    BY <1>1 DEF Memories
  <2>3. FrameAt(Memory, cr3, s) \in 1 .. Len(data)
    BY <1>5
  <2> QED BY <1>4, <2>1, <2>2, <2>3, OverwrittenSeq
<1>7. Memory' \in Memories
  BY <1>1, <1>2, <1>6 DEF Memories
<1>8. Sound(Memory')
  <2>1. /\ Memory'.dirs = Memory.dirs /\ Memory'.tables = Memory.tables
        /\ Len(Memory'.data) = Len(Memory.data)
    BY <1>1, <1>2, <1>6
  <2> QED BY <1>1, <1>7, <2>1, ContentsSound
<1>9. Len(dirs) \in Nat
  BY <1>1, SoundFacts
<1> QED BY <1>8, <1>9, RegistersSound DEF TaskStores

(* expand() of the heap, with its page fault.                              *)
LEMMA ExpandIInv == IInv /\ expand => IInv' /\ Len(dirs') = Len(dirs)
<1> SUFFICES ASSUME IInv, expand PROVE IInv' /\ Len(dirs') = Len(dirs)
  OBVIOUS
<1> DEFINE m == Memory
           k == kernel_directory
<1>1. Sound(m) /\ k \in DirsOf(m) /\ "heap_rest" \in Slots
  BY SoundFacts DEF IInv, Slots
<1>2. PICK p : p = get_page(m, k, "heap_rest")
  OBVIOUS
<1>3. PICK r : r = page_alloc(p, k, "heap_rest")
  OBVIOUS
<1>4. SetMemory(r) /\ panic' \in {"none", "page fault"}
  BY <1>2, <1>3 DEF expand, EnsurePage
<1>5. /\ Sound(p) /\ p.dirs[k]["heap_rest"] \in TablesOf(p)
      /\ Len(p.dirs) = Len(m.dirs)
  <2>1. CASE m.dirs[k]["heap_rest"] = 0
    <3>1. p = NewTable(m, k, "heap_rest")
      BY <1>2, <2>1 DEF get_page
    <3> QED BY <1>1, <2>1, <3>1, HeapTableSound, TableMade, SoundFacts
  <2>2. CASE m.dirs[k]["heap_rest"] # 0
    <3>1. p = m
      BY <1>2, <2>2 DEF get_page
    <3> QED BY <1>1, <2>2, <3>1, SoundFacts DEF Sound, NoDangling, TablesOf
  <2> QED BY <2>1, <2>2
<1>6. Sound(r) /\ Len(r.dirs) = Len(m.dirs)
  <2>1. k \in DirsOf(p)
    BY <1>5, SoundFacts
  <2>2. CASE FrameAt(p, k, "heap_rest") = 0
    BY <1>1, <1>3, <1>5, <2>1, <2>2, AllocSound, PageAllocated, SoundFacts
  <2>3. CASE FrameAt(p, k, "heap_rest") # 0
    BY <1>3, <1>5, <2>3 DEF page_alloc
  <2> QED BY <2>2, <2>3
<1>7. Memory' = r
  BY <1>4, <1>6, MemorySet, SoundFacts
<1>8. Len(dirs') = Len(dirs) /\ Len(dirs) \in Nat
  <2>1. r.dirs = dirs' /\ m.dirs = dirs
    BY <1>7 DEF Memory
  <2> QED BY <1>1, <1>6, <2>1, SoundFacts
<1>9. current' = current /\ cr3' = cr3
  BY DEF expand
<1>10. Sound(Memory') /\ Len(dirs') >= Len(dirs)
  BY <1>6, <1>7, <1>8
<1> QED BY <1>4, <1>8, <1>9, <1>10, RegistersSound

-----------------------------------------------------------------------------
(* The page directories keep their structure whatever the kernel and its   *)
(* tasks do, and only task_create() makes a directory.                     *)
THEOREM Inductive == IInv /\ [Next]_vars => IInv'
<1> SUFFICES ASSUME IInv, [Next]_vars PROVE IInv'
  OBVIOUS
<1>1. CASE task_create
  BY <1>1, CreateIInv
<1>2. ASSUME NEW t \in Tasks, task_switch(t) PROVE IInv'
  BY <1>2, SwitchIInv
<1>3. ASSUME NEW t \in Tasks, NEW s \in {TASK_USER_STACK_BOTTOM, "kernel_stack"},
             TaskStores(t, s)
      PROVE  IInv'
  BY <1>3, StoreIInv
<1>4. CASE expand
  BY <1>4, ExpandIInv
<1>5. ASSUME NEW d \in 1 .. Len(dirs), switch_page_directory(d) PROVE IInv'
  BY <1>5 DEF switch_page_directory, IInv, Memory, Directories
<1>6. CASE UNCHANGED vars
  BY <1>6 DEF IInv, vars, Memory, Directories
<1>7. CASE Halted
  BY <1>6, <1>7 DEF Halted
<1> QED BY <1>1, <1>2, <1>3, <1>4, <1>5, <1>6, <1>7 DEF Next

(* The invariant holds in every state.                                     *)
LEMMA AlwaysIInv == Spec => []IInv
BY InitIInv, Inductive, PTL DEF Spec

(* No directory entry and no page of clone_directory(), get_page(),        *)
(* page_alloc() or the dud page points outside what was allocated.         *)
THEOREM TypeCorrect == Spec => []TypeOK
<1>1. IInv => TypeOK
  <2> SUFFICES ASSUME IInv PROVE TypeOK
    OBVIOUS
  <2>1. /\ NoDangling(Memory) /\ Memory \in Memories
        /\ current \in Directories /\ cr3 \in Directories /\ panic \in {"none", "page fault"}
    BY DEF IInv, Sound
  <2>2. dirs \in Seq([Slots -> Nat])
    BY <2>1, MemoryFields DEF Memories
  <2>3. \A d \in Directories : dirs[d] \in [Slots -> Nat]
    BY <2>2 DEF Directories
  <2>4. \A d \in Directories : \A s \in Slots : dirs[d][s] \in 0 .. Len(tables)
    BY <2>1, MemoryFields DEF NoDangling
  <2>5. \A t \in 1 .. Len(tables) : tables[t] \in 0 .. Len(data)
    BY <2>1, MemoryFields DEF NoDangling, TablesOf
  <2>6. \A d \in Directories : dirs[d] \in [Slots -> 0 .. Len(tables)]
    BY <2>3, <2>4
  <2> QED BY <2>1, <2>5, <2>6 DEF TypeOK
<1> QED BY <1>1, AlwaysIInv, PTL

(* clone_directory(), through any chain of clones, shares the kernel's     *)
(* tables and no others.                                                   *)
THEOREM TablesNotShared == Spec => []OnlyKernelTablesShared
<1>1. IInv => OnlyKernelTablesShared
  BY VariableFacts, MemoryFields DEF OnlyKernelTablesShared, Sound, TablesPrivate
<1> QED BY <1>1, AlwaysIInv, PTL

(* Two page tables map one frame only where the dud page is redirected.    *)
THEOREM FramesNotShared == Spec => []FramesPrivate
<1>1. IInv => FramesPrivate
  BY VariableFacts, MemoryFields DEF FramesPrivate, Sound, PagesPrivate, TablesOf, DudTable
<1> QED BY <1>1, AlwaysIInv, PTL

(* clone_directory() and get_page() leave the kernel in every directory.   *)
THEOREM KernelAlwaysMapped == Spec => []KernelInEveryDirectory
<1>1. IInv => KernelInEveryDirectory
  BY VariableFacts, MemoryFields
     DEF KernelInEveryDirectory, Sound, KernelShared, AlwaysShared
<1> QED BY <1>1, AlwaysIInv, PTL

(* The clone task_create() makes reads what the running directory reads,   *)
(* and no other directory reads anything new.                              *)
LEMMA ForkReads ==
    ASSUME IInv, task_create
    PROVE  CloneStep
<1> DEFINE m == Memory
           r == [dirs |-> dirs', tables |-> tables', data |-> data']
           d == CloneOf(m)
<1>1. /\ Forked(m, r) /\ Sound(m) /\ current \in DirsOf(m) /\ m.dirs = dirs
      /\ Directories = DirsOf(m) /\ r.dirs = dirs'
  BY TaskForked DEF IInv, Directories, DirsOf, Memory
<1> HIDE DEF m, r
<1>2. Forking(m, r) /\ Len(dirs') = d
  BY <1>1 DEF Forked, Forking, Keeps
<1>3. \A e \in Directories, s \in Slots \ {"dud"} : Read(r, e, s) = Read(m, e, s)
  BY <1>1, <1>2, OthersKept DEF PAGE_CLONING_BUFFER
<1>4. ASSUME NEW s \in Slots \ {"image", "dud"}, Mapped(m, current, s)
      PROVE  Read(r, d, s) = Read(m, current, s)
  <2>1. CASE s = "kernel_stack"
    BY <1>1, <1>4, <2>1 DEF Forked
  <2>2. CASE s # "kernel_stack"
    <3>1. s \in KernelSlots /\ s \in Slots \ {PAGE_CLONING_BUFFER}
      BY <1>4, <2>2 DEF Slots, KernelSlots, AlwaysShared, PAGE_CLONING_BUFFER
    <3>2. r.dirs[d][s] = r.dirs[current][s]
      BY <1>1, <1>2, <3>1, OthersKept DEF Forked
    <3>3. Read(r, d, s) = Read(r, current, s)
      BY <3>2 DEF Read, Mapped, FrameAt
    <3> QED BY <1>1, <1>2, <3>1, <3>3, OthersKept
  <2> QED BY <2>1, <2>2
<1> QED BY <1>2, <1>3, <1>4 DEF CloneStep, m, r

(* clone_directory() is a fork, and of task_create() nothing is seen in    *)
(* any other address space.                                                *)
THEOREM ForkCopies == Spec => ClonesAreCopies
<1>1. IInv /\ [Next]_vars => [CloneStep]_vars
  <2> SUFFICES ASSUME IInv, [Next]_vars PROVE CloneStep
    OBVIOUS
  <2>1. Len(dirs) \in Nat
    BY VariableFacts
  <2>2. Len(dirs') = Len(dirs) => CloneStep
    BY <2>1 DEF CloneStep
  <2>3. CASE task_create
    BY <2>3, ForkReads
  <2>4. ASSUME NEW t \in Tasks, task_switch(t) PROVE CloneStep
    BY <2>2, <2>4, SwitchIInv
  <2>5. ASSUME NEW t \in Tasks, NEW s \in {TASK_USER_STACK_BOTTOM, "kernel_stack"},
               TaskStores(t, s)
        PROVE  CloneStep
    BY <2>2, <2>5, StoreIInv
  <2>6. CASE expand
    BY <2>2, <2>6, ExpandIInv
  <2>7. ASSUME NEW d \in 1 .. Len(dirs), switch_page_directory(d) PROVE CloneStep
    BY <2>2, <2>7 DEF switch_page_directory
  <2>8. CASE Halted \/ UNCHANGED vars
    BY <2>2, <2>8 DEF Halted, vars
  <2> QED BY <2>3, <2>4, <2>5, <2>6, <2>7, <2>8 DEF Next
<1> QED BY <1>1, AlwaysIInv, PTL DEF Spec, ClonesAreCopies
=============================================================================
