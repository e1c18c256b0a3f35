---------------------------- MODULE FramesProofs ----------------------------
(***************************************************************************)
(* Proofs about Frames, for every number of frames and pages and every     *)
(* content of the bits bitset_create() does not clear.                     *)
(***************************************************************************)
EXTENDS Frames, TLAPS

(* A missing page has address 0; while init_paging() runs, the pages it    *)
(* has not reached are missing.                                            *)
MissingPages ==
    /\ \A p \in Pages : ~page[p].present => page[p].address = 0
    /\ \A p \in Pages : p >= boot /\ boot <= Buffer => page[p] = NoPage

(* Frames in use are marked, and none is there by accident.                *)
HeldIsMarked ==
    \A p \in Owners : page[p].present =>
        page[p].address \in frames \ (junk \cup lost)

(* Junk and lost frames stay marked; frame 0 is taken by the first step.   *)
MarkedForever ==
    /\ junk \subseteq frames /\ lost \subseteq frames
    /\ boot > 0 /\ panic = "" => 0 \in frames

(* Of the bits that were cleared, those below boot are set, one by one.    *)
IdentityProgress ==
    boot < IdentityPages /\ panic = "" =>
        /\ \A f \in 0 .. boot - 1 : f \in frames
        /\ boot \in Bits /\ \A f \in boot .. Zeroed - 1 : f \notin frames

(* Once the buffer has left its first frame behind, the frame it is        *)
(* redirected to belongs to a page or is free.                             *)
BufferFrame ==
    boot > Buffer /\ panic = "" =>
        /\ page[Buffer].address # 0
        /\ lost # {} => page[Buffer].address \notin frames \ Held

(* Nothing is lost before the buffer is first redirected.                  *)
BootLosesNothing == boot <= Buffer => lost = {}

IInv ==
    /\ TypeOK /\ MissingPages /\ HeldIsMarked /\ MarkedForever
    /\ IdentityProgress /\ BufferFrame /\ BootLosesNothing
    /\ NoSharedFrame /\ FramesAccounted /\ BufferLeaksOneFrame /\ IdentityMapped

-----------------------------------------------------------------------------
(* The bitset has room for all frames it clears.                           *)
LEMMA BitsetSize == Capacity \in Nat /\ Zeroed \in Nat /\ Zeroed <= Capacity
<1> DEFINE n == NumFrames + BitsPerItem - 1
<1>1. BitsPerItem \in Nat \ {0}
  <2>1. \A a, b \in Nat \ {0} : a * b \in Nat \ {0}
    BY SMT
  <2> QED BY <2>1, FramesAssumption DEF BitsPerItem
<1>2. n \in Nat
  BY <1>1, FramesAssumption
<1>3. Items \in Nat
  <2>1. \A a \in Nat, b \in Nat \ {0} : a \div b \in Nat
    BY SMT
  <2> QED BY <1>1, <1>2, <2>1 DEF Items
<1>4. \A i \in Nat, a, b \in Nat \ {0} :
        i * (a * b) \in Nat /\ i * a \in Nat /\ i * a <= i * (a * b)
  BY SMT
<1> QED BY <1>3, <1>4, FramesAssumption DEF Capacity, Zeroed, BitsPerItem

(* Where the page numbers lie.                                             *)
LEMMA PageNumbers ==
    /\ Buffer \in Pages /\ Owners \subseteq Pages /\ Pages \subseteq Nat
    /\ \A b \in 0 .. Buffer : b \in Pages
BY FramesAssumption DEF Pages, Owners

(* init_frames() has run and nothing is mapped yet.                        *)
LEMMA InitIInv == Init => IInv
<1> SUFFICES ASSUME Init PROVE IInv
  OBVIOUS
<1>0. 0 \in Bits /\ Zeroed .. Capacity - 1 \subseteq Bits /\ 0 \in 0 .. Buffer + 1
  BY BitsetSize, FramesAssumption DEF Bits
<1>1. TypeOK
  <2>1. page \in [Pages -> [present : BOOLEAN, address : Bits]]
    BY <1>0 DEF Init, NoPage
  <2> QED BY <1>0, <2>1 DEF Init, TypeOK
<1>2. /\ \A p \in Pages : page[p] = NoPage
      /\ \A p \in Pages : ~page[p].present /\ page[p].address = 0
      /\ frames = junk /\ lost = {} /\ panic = "" /\ boot = 0
      /\ junk \subseteq Zeroed .. Capacity - 1
  BY DEF Init, NoPage
<1>3. MissingPages /\ HeldIsMarked /\ NoSharedFrame /\ BufferLeaksOneFrame
  BY <1>2, PageNumbers DEF MissingPages, HeldIsMarked, NoSharedFrame, BufferLeaksOneFrame
<1>10. BootLosesNothing
  BY <1>2 DEF BootLosesNothing
<1>4. IdentityMapped
  BY <1>2 DEF IdentityMapped
<1>5. MarkedForever
  <2>1. boot = 0
    BY <1>2
  <2>2. ~(boot > 0)
    BY <2>1
  <2> QED BY <1>2, <2>2 DEF MarkedForever
<1>6. IdentityProgress
  <2>0. boot = 0 /\ frames \subseteq Zeroed .. Capacity - 1
    BY <1>2
  <2>1. \A f \in 0 .. boot - 1 : f \in frames
    BY <2>0
  <2>2. \A f \in boot .. Zeroed - 1 : f \notin frames
    BY <2>0, BitsetSize
  <2>3. boot \in Bits
    BY <1>0 DEF Init
  <2> QED BY <2>1, <2>2, <2>3 DEF IdentityProgress
<1>7. Held = {}
  BY <1>2, PageNumbers DEF Held
<1>8. FramesAccounted
  BY <1>2, <1>7 DEF FramesAccounted
<1>9. BufferFrame
  <2>0. boot = 0
    BY <1>2
  <2>1. ~(boot > Buffer)
    BY <2>0, FramesAssumption
  <2> QED BY <2>1 DEF BufferFrame
<1> QED
  BY <1>1, <1>3, <1>4, <1>5, <1>6, <1>8, <1>9, <1>10 DEF IInv

(* The frame find_free() returns goes to page p, whose address was 0.      *)
LEMMA MapNewFrameIInv ==
    ASSUME IInv, NEW p \in Pages, NEW f \in Bits, MapNewFrame(p, f),
           page[p].address = 0,
           UNCHANGED << junk, lost >>
    PROVE  /\ f \notin frames /\ frames' = frames \cup {f}
           /\ page'[p] = [present |-> TRUE, address |-> f]
           /\ \A q \in Pages \ {p} : page'[q] = page[q]
           /\ frames' \in SUBSET Bits
           /\ page' \in [Pages -> [present : BOOLEAN, address : Bits]]
           /\ HeldIsMarked' /\ NoSharedFrame' /\ FramesAccounted'
<1>1. /\ f \notin frames /\ frames' = frames \cup {f}
      /\ page'[p] = [present |-> TRUE, address |-> f]
      /\ \A q \in Pages \ {p} : page'[q] = page[q]
      /\ frames' \in SUBSET Bits
      /\ page' \in [Pages -> [present : BOOLEAN, address : Bits]]
  <2>1. /\ frames \in SUBSET Bits
        /\ page \in [Pages -> [present : BOOLEAN, address : Bits]]
    BY DEF IInv, TypeOK
  <2>2. f \notin frames /\ frames' = frames \cup {f}
    BY DEF MapNewFrame, bitset_find_free, bitset_set
  <2>3. page' = [page EXCEPT ![p] = [present |-> TRUE, address |-> f]]
    BY DEF MapNewFrame
  <2>4. /\ page'[p] = [present |-> TRUE, address |-> f]
        /\ \A q \in Pages \ {p} : page'[q] = page[q]
    BY <2>1, <2>3
  <2>5. page' \in [Pages -> [present : BOOLEAN, address : Bits]]
    BY <2>1, <2>3
  <2> QED BY <2>1, <2>2, <2>4, <2>5
<1>2. HeldIsMarked'
  <2> SUFFICES ASSUME NEW q \in Owners, page'[q].present
               PROVE  page'[q].address \in frames' \ (junk' \cup lost')
    BY DEF HeldIsMarked
  <2>1. CASE q = p
    <3>1. f \notin junk' \cup lost'
      BY <1>1 DEF IInv, MarkedForever
    <3>2. page'[q].address = f
      BY <1>1, <2>1
    <3> QED BY <1>1, <3>1, <3>2
  <2>2. CASE q # p
    BY <1>1, <2>2, PageNumbers DEF IInv, HeldIsMarked
  <2> QED BY <2>1, <2>2
<1>3. NoSharedFrame'
  BY <1>1, PageNumbers DEF IInv, HeldIsMarked, NoSharedFrame
<1>4. FramesAccounted'
  <2>1. Held' \subseteq frames'
    BY <1>2 DEF Held, HeldIsMarked
  <2>2. ASSUME NEW g \in frames'
        PROVE  g \in (Held \cup junk \cup lost \cup {0, page[Buffer].address})'
    <3>1. CASE g = f /\ p \in Owners
      BY <1>1, <3>1 DEF Held
    <3>2. CASE g = f /\ p \notin Owners
      BY <1>1, <3>2 DEF Owners
    <3>3. CASE g # f /\ g \in Held /\ g # 0
      <4>1. PICK q \in Owners : page[q].present /\ page[q].address = g
        BY <3>3 DEF Held
      <4>2. page'[q] = page[q]
        BY <1>1, <3>3, <4>1, PageNumbers
      <4> QED BY <4>1, <4>2 DEF Held
    <3>4. CASE g # f /\ (g \notin Held \/ g = 0)
      <4>1. g \in junk \cup lost \cup {0, page[Buffer].address}
        BY <1>1, <3>4 DEF IInv, FramesAccounted
      <4>2. page[Buffer].address \in {0, page'[Buffer].address}
        BY <1>1, PageNumbers
      <4> QED BY <4>1, <4>2
    <3> QED BY <3>1, <3>2, <3>3, <3>4
  <2> QED BY <2>1, <2>2 DEF FramesAccounted
<1> QED BY <1>1, <1>2, <1>3, <1>4

(* A step of the loops in init_paging().                                   *)
LEMMA MapBootPageIInv == IInv /\ MapBootPage => IInv'
<1> SUFFICES ASSUME IInv, MapBootPage PROVE IInv'
  OBVIOUS
<1>0. panic = ""
  BY DEF MapBootPage
<1>1. /\ boot \in 0 .. Buffer /\ boot \in Pages /\ boot' = boot + 1
      /\ junk' = junk /\ lost' = lost
  <2>1. /\ boot \in 0 .. Buffer + 1 /\ ~(boot > Buffer) /\ boot' = boot + 1
        /\ junk' = junk /\ lost' = lost
    BY DEF IInv, TypeOK, MapBootPage, BootDone
  <2>2. boot \in 0 .. Buffer
    BY <2>1, FramesAssumption
  <2> QED BY <2>1, <2>2, PageNumbers
<1>2. page[boot] = NoPage /\ page[boot].address = 0
  <2>1. boot \in Pages /\ boot >= boot /\ boot <= Buffer
    BY <1>1, FramesAssumption
  <2>2. page[boot] = NoPage
    BY <2>1 DEF IInv, MissingPages
  <2> QED BY <2>2 DEF NoPage
<1>3. boot' \in 0 .. Buffer + 1 /\ boot' > 0
  BY <1>1, FramesAssumption
<1>6. lost = {}
  <2>1. boot <= Buffer
    BY <1>1, FramesAssumption
  <2> QED BY <2>1 DEF IInv, BootLosesNothing
<1>4. ASSUME NEW f \in Bits, MapNewFrame(boot, f),
             panic' = IF boot < IdentityPages /\ f # boot
                      THEN "Cannot identity-map lower memory" ELSE ""
      PROVE  IInv'
  <2>1. /\ f \notin frames /\ frames' = frames \cup {f}
        /\ page'[boot] = [present |-> TRUE, address |-> f]
        /\ \A q \in Pages \ {boot} : page'[q] = page[q]
        /\ frames' \in SUBSET Bits
        /\ page' \in [Pages -> [present : BOOLEAN, address : Bits]]
        /\ HeldIsMarked' /\ NoSharedFrame' /\ FramesAccounted'
    BY <1>1, <1>2, <1>4, MapNewFrameIInv
  <2>2. boot < IdentityPages => f = boot
    <3> SUFFICES ASSUME boot < IdentityPages PROVE f = boot
      OBVIOUS
    <3>1. /\ \A g \in 0 .. boot - 1 : g \in frames
          /\ boot \in Bits /\ \A g \in boot .. Zeroed - 1 : g \notin frames
      BY <1>0 DEF IInv, IdentityProgress
    <3>2. \A g \in 0 .. f - 1 : g \in frames
      BY <1>4 DEF MapNewFrame, bitset_find_free
    <3>3. boot \in boot .. Zeroed - 1
      BY <1>1, BitsetSize, FramesAssumption
    <3>4. f \in Nat /\ boot \in Nat
      BY <1>1, BitsetSize, FramesAssumption DEF Bits
    <3>5. ~(boot < f)
      BY <3>1, <3>2, <3>3, <3>4
    <3>6. ~(f < boot)
      BY <2>1, <3>1, <3>4
    <3> QED BY <3>4, <3>5, <3>6
  <2>3. panic' = ""
    BY <1>4, <2>2
  <2>4. TypeOK'
    BY <1>1, <1>3, <2>1, <2>3 DEF IInv, TypeOK
  <2>5. MissingPages'
    <3>1. ASSUME NEW q \in Pages, ~page'[q].present PROVE page'[q].address = 0
      BY <2>1, <3>1 DEF IInv, MissingPages
    <3>2. ASSUME NEW q \in Pages, q >= boot' PROVE page'[q] = NoPage
      <4>1. q # boot /\ q >= boot /\ boot <= Buffer
        BY <1>1, <3>2, PageNumbers, FramesAssumption
      <4> QED BY <2>1, <4>1 DEF IInv, MissingPages
    <3> QED BY <3>1, <3>2 DEF MissingPages
  <2>6. 0 \in frames'
    <3>1. CASE boot = 0
      <4>1. boot < IdentityPages
        BY <3>1, FramesAssumption
      <4> QED BY <2>1, <2>2, <3>1, <4>1
    <3>2. CASE boot # 0
      <4>1. boot > 0
        BY <1>1, <3>2
      <4> QED BY <1>0, <2>1, <4>1 DEF IInv, MarkedForever
    <3> QED BY <3>1, <3>2
  <2>7. MarkedForever'
    <3>1. junk \subseteq frames /\ lost \subseteq frames
      BY DEF IInv, MarkedForever
    <3> QED BY <1>1, <2>1, <2>6, <3>1 DEF MarkedForever
  <2>8. IdentityProgress'
    <3> SUFFICES ASSUME boot' < IdentityPages
                 PROVE  /\ \A g \in 0 .. boot' - 1 : g \in frames'
                        /\ boot' \in Bits
                        /\ \A g \in boot' .. Zeroed - 1 : g \notin frames'
      BY DEF IdentityProgress
    <3>1. /\ boot < IdentityPages /\ boot \in Nat
          /\ \A n \in Nat : 0 .. (n + 1) - 1 = 0 .. n
      BY <1>1, FramesAssumption
    <3>2. /\ \A g \in 0 .. boot - 1 : g \in frames
          /\ \A g \in boot .. Zeroed - 1 : g \notin frames
      BY <1>0, <3>1 DEF IInv, IdentityProgress
    <3>3. frames' = frames \cup {boot}
      BY <2>1, <2>2, <3>1
    <3>4. \A g \in 0 .. boot : g \in frames'
      BY <3>1, <3>2, <3>3
    <3>5. \A g \in (boot + 1) .. Zeroed - 1 : g \notin frames'
      BY <3>1, <3>2, <3>3
    <3>6. boot + 1 \in Bits
      BY <1>1, <3>1, BitsetSize, FramesAssumption DEF Bits
    <3> QED BY <1>1, <3>1, <3>4, <3>5, <3>6
  <2>9. BufferFrame'
    <3> SUFFICES ASSUME boot' > Buffer
                 PROVE  /\ page'[Buffer].address # 0
                        /\ lost' # {} => page'[Buffer].address \notin frames' \ Held'
      BY DEF BufferFrame
    <3>1. boot = Buffer
      BY <1>1, FramesAssumption
    <3>2. page'[Buffer].address = f /\ f \notin frames
      BY <2>1, <3>1
    <3>3. boot > 0
      BY <3>1, FramesAssumption
    <3>4. 0 \in frames
      BY <1>0, <3>3 DEF IInv, MarkedForever
    <3> QED BY <1>1, <1>6, <3>2, <3>4
  <2>10. BufferLeaksOneFrame' /\ IdentityMapped'
    BY <1>1, <2>3 DEF IInv, BufferLeaksOneFrame, IdentityMapped
  <2>11. BootLosesNothing'
    BY <1>1, <1>6 DEF BootLosesNothing
  <2> QED
    BY <2>1, <2>4, <2>5, <2>7, <2>8, <2>9, <2>10, <2>11 DEF IInv
<1>5. ASSUME NoFreeFrames PROVE IInv'
  <2>1. panic' = "No free frames" /\ frames' = frames /\ page' = page
    BY <1>5 DEF NoFreeFrames
  <2>2. TypeOK'
    BY <1>1, <1>3, <2>1 DEF IInv, TypeOK
  <2>3. MissingPages'
    <3>1. \A q \in Pages : q >= boot' => q >= boot /\ boot <= Buffer
      BY <1>1, PageNumbers, FramesAssumption
    <3> QED BY <2>1, <3>1 DEF IInv, MissingPages
  <2>4. Held' = Held
    BY <2>1 DEF Held
  <2>5. HeldIsMarked' /\ NoSharedFrame' /\ FramesAccounted' /\ BufferLeaksOneFrame'
    BY <1>1, <2>1, <2>4
       DEF IInv, HeldIsMarked, NoSharedFrame, FramesAccounted, BufferLeaksOneFrame
  <2>6. IdentityProgress' /\ BufferFrame' /\ IdentityMapped'
    BY <2>1 DEF IdentityProgress, BufferFrame, IdentityMapped
  <2>7. MarkedForever' /\ BootLosesNothing'
    BY <1>1, <1>6, <2>1 DEF IInv, MarkedForever, BootLosesNothing
  <2> QED BY <2>2, <2>3, <2>5, <2>6, <2>7 DEF IInv
<1> QED BY <1>4, <1>5 DEF MapBootPage

(* What the boot-time conjuncts say once the boot is over.                 *)
LEMMA AfterBoot ==
    ASSUME IInv, BootDone, UNCHANGED boot
    PROVE  IdentityProgress' /\ BootLosesNothing'
<1>1. boot \in 0 .. Buffer + 1 /\ boot > Buffer /\ boot' = boot
  BY DEF IInv, TypeOK, BootDone
<1>2. ~(boot' < IdentityPages) /\ ~(boot' <= Buffer)
  BY <1>1, BitsetSize, FramesAssumption
<1> QED BY <1>2 DEF IdentityProgress, BootLosesNothing

(* page_alloc() after the boot.                                            *)
LEMMA PageAllocIInv ==
    ASSUME IInv, NEW p \in Pages, page_alloc(p) PROVE IInv'
<1>0. panic = ""
  BY DEF page_alloc
<1>1. BootDone /\ UNCHANGED << boot, junk, lost >>
  BY DEF page_alloc
<1>2. boot > Buffer /\ boot \in 0 .. Buffer + 1
  BY <1>1 DEF BootDone, IInv, TypeOK
<1>3. ~(boot <= Buffer) /\ boot > 0
  BY <1>2, FramesAssumption
<1>4. 0 \in frames /\ junk \subseteq frames /\ lost \subseteq frames
  BY <1>0, <1>3 DEF IInv, MarkedForever
<1>5. CASE UNCHANGED << frames, page >> /\ panic' \in {panic, "No free frames"}
  <2>1. frames' = frames /\ page' = page /\ boot' = boot /\ junk' = junk /\ lost' = lost
    BY <1>1, <1>5
  <2>2. Held' = Held
    BY <2>1 DEF Held
  <2>3. TypeOK' /\ IdentityMapped'
    BY <1>0, <1>5, <2>1 DEF IInv, TypeOK, IdentityMapped
  <2>4. MissingPages' /\ HeldIsMarked' /\ NoSharedFrame' /\ BufferLeaksOneFrame'
        /\ FramesAccounted'
    BY <2>1, <2>2 DEF IInv, MissingPages, HeldIsMarked, NoSharedFrame,
                      BufferLeaksOneFrame, FramesAccounted
  <2>5. MarkedForever'
    BY <1>4, <2>1 DEF MarkedForever
  <2>6. BufferFrame'
    BY <1>0, <1>2, <2>1, <2>2 DEF IInv, BufferFrame
  <2> QED BY <1>1, <2>3, <2>4, <2>5, <2>6, AfterBoot DEF IInv
<1>6. ASSUME NEW f \in Bits, MapNewFrame(p, f), page[p].address = 0, UNCHANGED panic
      PROVE  IInv'
  <2>1. /\ f \notin frames /\ frames' = frames \cup {f}
        /\ page'[p] = [present |-> TRUE, address |-> f]
        /\ \A q \in Pages \ {p} : page'[q] = page[q]
        /\ frames' \in SUBSET Bits
        /\ page' \in [Pages -> [present : BOOLEAN, address : Bits]]
        /\ HeldIsMarked' /\ NoSharedFrame' /\ FramesAccounted'
    BY <1>1, <1>6, MapNewFrameIInv
  <2>2. TypeOK' /\ IdentityMapped'
    BY <1>0, <1>1, <1>6, <2>1 DEF IInv, TypeOK, IdentityMapped
  <2>3. MissingPages'
    <3>1. ASSUME NEW q \in Pages, ~page'[q].present PROVE page'[q].address = 0
      BY <2>1, <3>1 DEF IInv, MissingPages
    <3> QED BY <1>1, <1>3, <3>1 DEF MissingPages
  <2>4. MarkedForever' /\ BufferLeaksOneFrame'
    BY <1>1, <1>4, <2>1 DEF IInv, MarkedForever, BufferLeaksOneFrame
  <2>5. BufferFrame'
    <3>1. /\ page[Buffer].address # 0
          /\ lost # {} => page[Buffer].address \notin frames \ Held
      BY <1>0, <1>2 DEF IInv, BufferFrame
    <3>2. p # Buffer /\ p \in Owners /\ page'[Buffer] = page[Buffer]
      BY <1>6, <2>1, <3>1, PageNumbers DEF Owners
    <3>3. ASSUME page[Buffer].address \in Held PROVE page[Buffer].address \in Held'
      <4>1. PICK q \in Owners : page[q].present /\ page[q].address = page[Buffer].address
        BY <3>3 DEF Held
      <4>2. page'[q] = page[q]
        BY <1>6, <2>1, <3>1, <4>1, PageNumbers
      <4> QED BY <4>1, <4>2 DEF Held
    <3>4. f \in Held'
      BY <2>1, <3>2 DEF Held
    <3>5. lost # {} => page[Buffer].address \notin frames' \ Held'
      BY <2>1, <3>1, <3>3, <3>4
    <3> QED BY <1>1, <3>1, <3>2, <3>5 DEF BufferFrame
  <2> QED BY <1>1, <2>1, <2>2, <2>3, <2>4, <2>5, AfterBoot DEF IInv
<1> QED
  BY <1>5, <1>6 DEF page_alloc, NoFreeFrames

(* page_free(): the frame leaves the page and the bitset together.         *)
LEMMA PageFreeIInv ==
    ASSUME IInv, NEW p \in Owners, page_free(p) PROVE IInv'
<1> DEFINE a == page[p].address
<1>0. panic = "" /\ panic' = panic
  BY DEF page_free
<1>1. BootDone /\ UNCHANGED << boot, junk, lost >>
  BY DEF page_free
<1>2. boot > Buffer /\ boot \in 0 .. Buffer + 1
  BY <1>1 DEF BootDone, IInv, TypeOK
<1>3. ~(boot <= Buffer) /\ boot > 0
  BY <1>2, FramesAssumption
<1>4. 0 \in frames /\ junk \subseteq frames /\ lost \subseteq frames
  BY <1>0, <1>3 DEF IInv, MarkedForever
<1>5. /\ p \in Pages /\ p # Buffer
      /\ frames \in SUBSET Bits
      /\ page \in [Pages -> [present : BOOLEAN, address : Bits]]
  BY PageNumbers DEF IInv, TypeOK, Owners
<1>6. frames' = IF a # 0 THEN frames \ {a} ELSE frames
  BY <1>5 DEF page_free, frame_free, bitset_clear
<1>7. page' = [page EXCEPT ![p] = NoPage]
  BY DEF page_free
<1>8. /\ page'[p] = NoPage /\ \A q \in Pages \ {p} : page'[q] = page[q]
      /\ ~page'[p].present /\ page'[p].address = 0
  BY <1>5, <1>7 DEF NoPage
<1>9. a # 0 => page[p].present
  BY <1>5 DEF IInv, MissingPages
<1>10. a # 0 => a \notin junk \cup lost
  BY <1>9 DEF IInv, HeldIsMarked
<1>11. \A q \in Owners : q # p /\ page[q].present /\ a # 0 => page[q].address # a
  BY <1>9 DEF IInv, NoSharedFrame
<1>12. TypeOK' /\ IdentityMapped'
  <2>1. frames' \in SUBSET Bits
    BY <1>5, <1>6
  <2>2. 0 \in Bits
    BY <1>4, <1>5
  <2>3. page' \in [Pages -> [present : BOOLEAN, address : Bits]]
    BY <1>5, <1>7, <2>2 DEF NoPage
  <2> QED BY <1>0, <1>1, <2>1, <2>3 DEF IInv, TypeOK, IdentityMapped
<1>13. MissingPages'
  <2>1. ASSUME NEW q \in Pages, ~page'[q].present PROVE page'[q].address = 0
    BY <1>8, <2>1 DEF IInv, MissingPages
  <2> QED BY <1>1, <1>3, <2>1 DEF MissingPages
<1>14. HeldIsMarked'
  <2> SUFFICES ASSUME NEW q \in Owners, page'[q].present
               PROVE  page'[q].address \in frames' \ (junk' \cup lost')
    BY DEF HeldIsMarked
  <2>1. q # p /\ page'[q] = page[q]
    BY <1>8, PageNumbers
  <2>2. page[q].address \in frames \ (junk \cup lost)
    BY <2>1 DEF IInv, HeldIsMarked
  <2> QED BY <1>1, <1>6, <1>11, <2>1, <2>2
<1>15. NoSharedFrame'
  <2> SUFFICES ASSUME NEW q \in Owners, NEW r \in Owners, page'[q].present,
                      page'[r].present, page'[q].address = page'[r].address
               PROVE  q = r
    BY DEF NoSharedFrame
  <2>1. page'[q] = page[q] /\ page'[r] = page[r]
    BY <1>8, PageNumbers
  <2> QED BY <2>1 DEF IInv, NoSharedFrame
<1>16. MarkedForever' /\ BufferLeaksOneFrame'
  <2>1. 0 \in frames' /\ junk \subseteq frames' /\ lost \subseteq frames'
    BY <1>4, <1>6, <1>10
  <2> QED BY <1>1, <2>1 DEF IInv, MarkedForever, BufferLeaksOneFrame
<1>17. ASSUME NEW g \in Held, g # a PROVE g \in Held'
  <2>1. PICK q \in Owners : page[q].present /\ page[q].address = g
    BY DEF Held
  <2>2. page'[q] = page[q]
    BY <1>8, <1>17, <2>1, PageNumbers
  <2> QED BY <2>1, <2>2 DEF Held
<1>18. page'[Buffer] = page[Buffer]
  BY <1>5, <1>8, PageNumbers
<1>19. FramesAccounted'
  <2>1. Held' \subseteq frames'
    BY <1>14 DEF Held, HeldIsMarked
  <2>2. frames' \subseteq (Held \cup junk \cup lost \cup {0, page[Buffer].address})'
    BY <1>1, <1>6, <1>17, <1>18 DEF IInv, FramesAccounted
  <2> QED BY <2>1, <2>2 DEF FramesAccounted
<1>20. BufferFrame'
  <2>1. /\ page[Buffer].address # 0
        /\ lost # {} => page[Buffer].address \notin frames \ Held
    BY <1>0, <1>2 DEF IInv, BufferFrame
  <2>2. lost # {} => page[Buffer].address \notin frames' \ Held'
    BY <1>6, <1>17, <2>1
  <2> QED BY <1>1, <1>18, <2>1, <2>2 DEF BufferFrame
<1> QED
  BY <1>1, <1>12, <1>13, <1>14, <1>15, <1>16, <1>19, <1>20, AfterBoot DEF IInv

(* Redirecting the buffer moves no frame and loses at most its first one.  *)
LEMMA RedirectBufferIInv ==
    ASSUME IInv, NEW p \in Pages, RedirectBuffer(p) PROVE IInv'
<1> DEFINE b == page[Buffer].address
           a == page[p].address
           x == ({b} \ {a}) \cap (frames \ Held)
<1>0. panic = "" /\ panic' = panic
  BY DEF RedirectBuffer
<1>1. BootDone /\ UNCHANGED << frames, boot, junk >> /\ lost' = lost \cup x /\ a # 0
  BY DEF RedirectBuffer
<1>2. boot > Buffer /\ boot \in 0 .. Buffer + 1
  BY <1>1 DEF BootDone, IInv, TypeOK
<1>3. ~(boot <= Buffer) /\ boot > 0
  BY <1>2, FramesAssumption
<1>4. 0 \in frames /\ junk \subseteq frames /\ lost \subseteq frames
  BY <1>0, <1>3 DEF IInv, MarkedForever
<1>5. /\ frames \in SUBSET Bits /\ lost \in SUBSET Bits
      /\ page \in [Pages -> [present : BOOLEAN, address : Bits]]
      /\ page' = [page EXCEPT ![Buffer] = [present |-> TRUE, address |-> a]]
  BY DEF IInv, TypeOK, RedirectBuffer
<1>6. /\ \A q \in Owners : page'[q] = page[q]
      /\ page'[Buffer] = [present |-> TRUE, address |-> a]
      /\ page' \in [Pages -> [present : BOOLEAN, address : Bits]]
  BY <1>5, PageNumbers DEF Owners
<1>7. Held' = Held
  BY <1>6 DEF Held
<1>8. b # 0 /\ (lost # {} => b \notin frames \ Held)
  BY <1>0, <1>2 DEF IInv, BufferFrame
<1>9. TypeOK' /\ IdentityMapped'
  <2>1. lost' \in SUBSET Bits
    BY <1>1, <1>5
  <2> QED BY <1>0, <1>1, <1>6, <2>1 DEF IInv, TypeOK, IdentityMapped
<1>10. MissingPages'
  <2>1. ASSUME NEW q \in Pages, ~page'[q].present PROVE page'[q].address = 0
    <3>1. q \in Owners
      BY <1>6, <2>1 DEF Owners
    <3> QED BY <1>6, <2>1, <3>1 DEF IInv, MissingPages
  <2> QED BY <1>1, <1>3, <2>1 DEF MissingPages
<1>11. HeldIsMarked'
  <2> SUFFICES ASSUME NEW q \in Owners, page'[q].present
               PROVE  page'[q].address \in frames' \ (junk' \cup lost')
    BY DEF HeldIsMarked
  <2>1. page[q].address \in frames \ (junk \cup lost)
    BY <1>6 DEF IInv, HeldIsMarked
  <2>2. page[q].address \in Held
    BY <1>6 DEF Held
  <2> QED BY <1>1, <1>6, <2>1, <2>2
<1>12. NoSharedFrame'
  BY <1>6 DEF IInv, NoSharedFrame
<1>13. MarkedForever'
  BY <1>1, <1>4 DEF MarkedForever
<1>14. BufferLeaksOneFrame'
  BY <1>1, <1>8 DEF IInv, BufferLeaksOneFrame
<1>15. FramesAccounted'
  <2>1. Held \subseteq frames
        /\ frames \subseteq Held \cup junk \cup lost \cup {0, b}
    BY DEF IInv, FramesAccounted
  <2>2. page'[Buffer].address = a
    BY <1>6
  <2> QED BY <1>1, <1>7, <2>1, <2>2 DEF FramesAccounted
<1>16. BufferFrame'
  <2>1. page'[Buffer].address = a
    BY <1>6
  <2>2. CASE p = Buffer
    BY <1>1, <1>7, <1>8, <2>1, <2>2 DEF BufferFrame
  <2>3. CASE p # Buffer
    <3>1. p \in Owners /\ page[p].present
      BY <1>1, <2>3 DEF IInv, MissingPages, Owners
    <3>2. a \in Held
      BY <3>1 DEF Held
    <3> QED BY <1>1, <1>7, <2>1, <3>2 DEF BufferFrame
  <2> QED BY <2>2, <2>3
<1> QED
  BY <1>1, <1>9, <1>10, <1>11, <1>12, <1>13, <1>14, <1>15, <1>16, AfterBoot DEF IInv

-----------------------------------------------------------------------------
(* The strengthened invariant of the frame allocator is inductive.         *)
THEOREM Inductive == Spec => []IInv
<1>1. IInv /\ [Next]_vars => IInv'
  <2> SUFFICES ASSUME IInv, [Next]_vars PROVE IInv'
    OBVIOUS
  <2>1. CASE Halted \/ UNCHANGED vars
    <3>1. UNCHANGED << frames, page, boot, panic, junk, lost >>
      BY <2>1 DEF Halted, vars
    <3>2. Held' = Held
      BY <3>1 DEF Held
    <3> QED
      BY <3>1, <3>2 DEF IInv, TypeOK, MissingPages, HeldIsMarked, MarkedForever,
           IdentityProgress, BufferFrame, BootLosesNothing, NoSharedFrame,
           FramesAccounted, BufferLeaksOneFrame, IdentityMapped
  <2> QED
    BY <2>1, MapBootPageIInv, PageAllocIInv, PageFreeIInv, RedirectBufferIInv DEF Next
<1> QED
  BY <1>1, InitIInv, PTL DEF Spec

(* Types of frame.c's and paging.c's state.                                *)
THEOREM TypeCorrect == Spec => []TypeOK
<1>1. IInv => TypeOK
  BY DEF IInv
<1> QED BY <1>1, Inductive, PTL

(* However pages are mapped, freed and copied into, no two of them ever    *)
(* share a frame.                                                          *)
THEOREM FramesNotShared == Spec => []NoSharedFrame
<1>1. IInv => NoSharedFrame
  BY DEF IInv
<1> QED BY <1>1, Inductive, PTL

(* No frame is freed while a page holds it and none is lost, but for the   *)
(* exceptions FramesAccounted names.                                       *)
THEOREM NoFrameLost == Spec => []FramesAccounted
<1>1. IInv => FramesAccounted
  BY DEF IInv
<1> QED BY <1>1, Inductive, PTL

(* Of those exceptions the copies through the dud page cost one frame,     *)
(* however many there are.                                                 *)
THEOREM CopiesLoseOneFrame == Spec => []BufferLeaksOneFrame
<1>1. IInv => BufferLeaksOneFrame
  BY DEF IInv
<1> QED BY <1>1, Inductive, PTL

(* init_paging()'s assert never fires: lower memory is identity-mapped     *)
(* whatever the bits hold that bitset_create() does not clear.             *)
THEOREM LowerMemoryIdentityMapped == Spec => []IdentityMapped
<1>1. IInv => IdentityMapped
  BY DEF IInv
<1> QED BY <1>1, Inductive, PTL

-----------------------------------------------------------------------------
(* Only page 0 is ever mapped to frame 0.                                  *)
OnlyPageZero == \A p \in Owners \ {0} : page[p].present => page[p].address # 0

(* No step maps another page to frame 0.                                   *)
LEMMA OnlyPageZeroStep == IInv /\ OnlyPageZero /\ [Next]_vars => OnlyPageZero'
<1> SUFFICES ASSUME IInv, OnlyPageZero, [Next]_vars,
                    NEW q \in Owners \ {0}, page'[q].present
             PROVE  page'[q].address # 0
  BY DEF OnlyPageZero
<1>0. /\ q \in Pages /\ q # 0
      /\ page \in [Pages -> [present : BOOLEAN, address : Bits]]
  BY PageNumbers DEF IInv, TypeOK
<1>1. CASE page'[q] = page[q]
  BY <1>1 DEF OnlyPageZero
<1>2. ASSUME NEW p \in Pages, NEW f \in Bits, MapNewFrame(p, f), 0 \in frames
      PROVE  page'[q] = page[q] \/ page'[q].address # 0
  BY <1>0, <1>2 DEF MapNewFrame, bitset_find_free
<1>3. CASE MapBootPage
  <2>1. boot \in 0 .. Buffer + 1 /\ ~(boot > Buffer)
    BY <1>3 DEF MapBootPage, BootDone, IInv, TypeOK
  <2>2. boot \in Pages /\ boot \in Nat
    BY <2>1, PageNumbers, FramesAssumption
  <2>3. CASE boot = 0
    BY <1>0, <1>1, <1>3, <2>3 DEF MapBootPage, MapNewFrame, NoFreeFrames
  <2>4. CASE boot # 0
    <3>1. boot > 0
      BY <2>2, <2>4
    <3>2. 0 \in frames
      BY <1>3, <3>1 DEF MapBootPage, IInv, MarkedForever
    <3> QED BY <1>1, <1>2, <1>3, <2>2, <3>2 DEF MapBootPage, NoFreeFrames
  <2> QED BY <2>3, <2>4
<1>4. ASSUME BootDone, panic = "" PROVE 0 \in frames
  <2>1. boot \in 0 .. Buffer + 1 /\ boot > Buffer
    BY <1>4 DEF BootDone, IInv, TypeOK
  <2>2. boot > 0
    BY <2>1, FramesAssumption
  <2> QED BY <1>4, <2>2 DEF IInv, MarkedForever
<1>5. ASSUME NEW p \in Pages, page_alloc(p) PROVE page'[q].address # 0
  BY <1>1, <1>2, <1>4, <1>5 DEF page_alloc, NoFreeFrames
<1>6. ASSUME NEW p \in Owners, page_free(p) PROVE page'[q].address # 0
  BY <1>0, <1>1, <1>6 DEF page_free, NoPage
<1>7. ASSUME NEW p \in Pages, RedirectBuffer(p) PROVE page'[q].address # 0
  BY <1>0, <1>1, <1>7 DEF RedirectBuffer, Owners
<1>8. CASE Halted \/ UNCHANGED vars
  BY <1>1, <1>8 DEF Halted, vars
<1> QED BY <1>3, <1>5, <1>6, <1>7, <1>8 DEF Next

(* A mapped page keeps its frame until page_free(): page_alloc() of a      *)
(* mapped page and copies through the buffer change no other entry.        *)
THEOREM StableMappings == Spec => MappingsAreStable
<1>1. Init => OnlyPageZero
  <2> SUFFICES ASSUME Init, NEW p \in Owners \ {0} PROVE ~page[p].present
    BY DEF OnlyPageZero
  <2>1. p \in Pages
    BY PageNumbers
  <2> QED BY <2>1 DEF Init, NoPage
<1>2. IInv /\ OnlyPageZero /\ [Next]_vars => [KeepsMappings]_vars
  <2> SUFFICES ASSUME IInv, OnlyPageZero, Next,
                      NEW q \in Owners \ {0}, page[q].present
               PROVE  page'[q] \in {page[q], NoPage}
    BY DEF KeepsMappings
  <2>0. /\ q \in Pages /\ q # Buffer /\ page[q].address # 0
        /\ page \in [Pages -> [present : BOOLEAN, address : Bits]]
    BY PageNumbers DEF IInv, TypeOK, OnlyPageZero, Owners
  <2>1. CASE MapBootPage
    <3>1. boot \in 0 .. Buffer + 1 /\ ~(boot > Buffer)
      BY <2>1 DEF MapBootPage, BootDone, IInv, TypeOK
    <3>2. boot \in Pages /\ boot >= boot /\ boot <= Buffer
      BY <3>1, PageNumbers, FramesAssumption
    <3>3. page[boot] = NoPage
      BY <3>2 DEF IInv, MissingPages
    <3>4. q # boot
      BY <2>0, <3>3 DEF NoPage
    <3> QED BY <2>0, <2>1, <3>4 DEF MapBootPage, MapNewFrame, NoFreeFrames
  <2>2. ASSUME NEW p \in Pages, page_alloc(p) PROVE page'[q] = page[q]
    BY <2>0, <2>2 DEF page_alloc, MapNewFrame, NoFreeFrames
  <2>3. ASSUME NEW p \in Owners, page_free(p) PROVE page'[q] \in {page[q], NoPage}
    BY <2>0, <2>3 DEF page_free
  <2>4. ASSUME NEW p \in Pages, RedirectBuffer(p) PROVE page'[q] = page[q]
    BY <2>0, <2>4 DEF RedirectBuffer
  <2>5. CASE Halted
    BY <2>5 DEF Halted, vars
  <2> QED BY <2>1, <2>2, <2>3, <2>4, <2>5 DEF Next
<1> QED
  <2>1. Spec => []OnlyPageZero
    BY <1>1, Inductive, OnlyPageZeroStep, PTL DEF Spec
  <2> QED BY <2>1, <1>2, Inductive, PTL DEF Spec, MappingsAreStable
=============================================================================
