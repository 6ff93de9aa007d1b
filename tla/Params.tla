------------------------------- MODULE Params -------------------------------
(***************************************************************************)
(* PayloadParams of crates/da-params: the block of memory through which    *)
(* the host tells the payload which memory the device has (`memory') and   *)
(* which parts of it are taken (`blacklist').  The host fills a copy in    *)
(* and writes it into the payload image; the payload goes on filling it.   *)
(*                                                                         *)
(* The twelve slots of the array are filled in order and never emptied, so *)
(* the table is the sequence of its used slots, at most MaxSlots of them.  *)
(*                                                                         *)
(* A range [start, end) is a record; an absent range (`None') is NoRange.  *)
(***************************************************************************)
EXTENDS Integers, Sequences

CONSTANTS
  U32Max,     \* the largest u32; 2^32 - 1 in the code
  MaxSlots    \* the length of the blacklist array; 12 in the code

ASSUME U32MaxAssumption == U32Max \in Nat /\ U32Max % 8 = 7
ASSUME MaxSlotsAssumption == MaxSlots \in Nat \ {0}

U32 == 0..U32Max

MemoryRange == [start : U32, end : U32]

Modes == {"ForbiddenReloc", "ForbiddenDL"}

BlacklistRange == [start : U32, end : U32, mode : Modes]

-----------------------------------------------------------------------------
(* Arithmetic of the build: `+' wraps, saturating_add stops at the top.    *)

WrapAdd(x, y) == IF x + y > U32Max THEN x + y - (U32Max + 1) ELSE x + y

SatAdd(x, y) == IF x + y > U32Max THEN U32Max ELSE x + y

(* (x + 7) & !7 where the sum does not overflow.                           *)
AlignUp8(x) == 8 * ((x + 7) \div 8)

(* x.checked_add(7) is None.                                               *)
AlignOverflows(x) == x + 7 > U32Max

NoRange == [start |-> -1, end |-> -1]

(* Two ranges share an address.                                            *)
Overlap(r, s) == r.start < s.end /\ s.start < r.end

-----------------------------------------------------------------------------
(* The blacklist.                                                          *)

(* Mutants: the range is put into a copy of the table, or over the last    *)
(* slot in use; a block that ends one byte into a range is let through.    *)
blacklist_dl_lost(bl, r) == bl
blacklist_dl_last(bl, r) ==
  Append(SubSeq(bl, 1, Len(bl) - 1),
         [start |-> r.start, end |-> r.end, mode |-> "ForbiddenDL"])
Hits_lax(addr, n, r) == addr < r.end /\ WrapAdd(addr, n) > r.start + 1

(* find_free_range finds a slot.                                           *)
HasFreeSlot(bl) == Len(bl) < MaxSlots

(* blacklist_dl and blacklist_reloc, when there is a free slot; without    *)
(* one they return BlacklistExhausted and leave the table alone.           *)
blacklist_dl(bl, r) ==
  Append(bl, [start |-> r.start, end |-> r.end, mode |-> "ForbiddenDL"])

blacklist_reloc(bl, r) ==
  Append(bl, [start |-> r.start, end |-> r.end, mode |-> "ForbiddenReloc"])

(* The test of find_unused_range's inner loop: the block of n bytes at     *)
(* addr runs into r.  Both modes block; the sum wraps.                     *)
Hits(addr, n, r) == addr < r.end /\ WrapAdd(addr, n) > r.start

(* The condition of its outer loop.                                        *)
InMemory(addr, n, memory) == SatAdd(addr, n) <= memory.end

-----------------------------------------------------------------------------
(* What find_unused_range promises: the lowest block of the aligned size,  *)
(* at the start of the memory or at a multiple of 8 above it, that lies in *)
(* the memory and runs into no blacklisted range.                          *)

Fits(addr, n, memory, bl) ==
  /\ InMemory(addr, n, memory)
  /\ \A i \in 1..Len(bl) : ~ Hits(addr, n, bl[i])

IsCandidate(addr, memory) ==
  addr = memory.start \/ (addr > memory.start /\ addr % 8 = 0)

FreeAddrs(n, memory, bl) ==
  {a \in U32 : IsCandidate(a, memory) /\ Fits(a, n, memory, bl)}

FindUnusedRange(memory, bl, size) ==
  LET n == AlignUp8(size)
      free == FreeAddrs(n, memory, bl)
  IN  IF AlignOverflows(size) \/ free = {}
        THEN NoRange
        ELSE LET a == CHOOSE x \in free : \A y \in free : x <= y
             IN  [start |-> a, end |-> WrapAdd(a, n)]
=============================================================================
