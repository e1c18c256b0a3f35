---------------------------- MODULE MCBootMemory ----------------------------
(* 256 addresses in pages of 4; a table covers 8 pages.  Memory maps have  *)
(* up to two entries in any order or three in ascending order, which do    *)
(* not overlap; some end at or lie past the end of the address space.      *)
(* With two bytes in an item, half of the bitset is cleared: it reaches to *)
(* all that the boot needs of a region at 16 if the entries add up to      *)
(* enough, but never to all of a region at 97.                             *)
EXTENDS BootMemory

Entries == { e \in [addr : {0, 6, 16, 97, 144, 256}, len : {0, 6, 10, 90, 112, 150, 240},
                    free : BOOLEAN] : e.addr + e.len <= 300 }
Apart(e, f) == e.addr + e.len <= f.addr \/ f.addr + f.len <= e.addr
MCMemoryMaps ==
    { << e >> : e \in Entries }
    \cup { m \in Entries \X Entries : Apart(m[1], m[2]) }
    \cup { m \in Entries \X Entries \X Entries :
             m[1].len > 0 /\ m[2].len > 0
             /\ m[1].addr + m[1].len <= m[2].addr /\ m[2].addr + m[2].len <= m[3].addr }
=============================================================================
