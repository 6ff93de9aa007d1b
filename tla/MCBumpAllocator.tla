--------------------------- MODULE MCBumpAllocator ---------------------------
(* Heaps of 8 and 24 bytes at aligned and unaligned places, one of them at  *)
(* the very top of an address space of 64 bytes, where align_up wraps.     *)
EXTENDS BumpAllocator

MCHeaps == {[start |-> s, end |-> s + n] : s \in {0, 5, 8, 39}, n \in {8, 24}}
MCReqSizes == {1, 3, 8, 60}
MCReqAligns == {1, 4, 8, 16, 32}
=============================================================================
