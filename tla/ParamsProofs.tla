---------------------------- MODULE ParamsProofs ----------------------------
(***************************************************************************)
(* Facts about the operators of Params that the proofs about the search,   *)
(* the payload and its clients share.                                      *)
(***************************************************************************)
EXTENDS Params, WellFoundedInduction, TLAPS

(* AlignUp8 is the least multiple of 8 at or above its argument, and stays *)
(* a u32 unless checked_add(7) overflows.                                  *)
LEMMA AlignUp8Type ==
  ASSUME NEW x \in U32, ~ AlignOverflows(x)
  PROVE  AlignUp8(x) \in U32 /\ AlignUp8(x) >= x /\ AlignUp8(x) % 8 = 0
BY U32MaxAssumption DEF AlignUp8, AlignOverflows, U32

(* Between x and AlignUp8(x) there is no multiple of 8; when the alignment *)
(* overflows there is none up to the top of the address space.             *)
LEMMA NoMultipleBetween ==
  ASSUME NEW x \in U32, NEW a \in U32, a >= x, a % 8 = 0
  PROVE  /\ ~ AlignOverflows(x)
         /\ a >= AlignUp8(x)
BY U32MaxAssumption DEF AlignUp8, AlignOverflows, U32

(* A block that starts at or above addr but below the end of the range     *)
(* that stops addr runs into that range too.                               *)
LEMMA SameBlocker ==
  ASSUME NEW m \in MemoryRange, m.end < U32Max,
         NEW r \in BlacklistRange, NEW n \in U32,
         NEW b \in U32, NEW a \in U32,
         InMemory(b, n, m), Hits(b, n, r),
         b <= a, a < r.end, InMemory(a, n, m)
  PROVE  Hits(a, n, r)
BY U32MaxAssumption
   DEF MemoryRange, BlacklistRange, InMemory, SatAdd, Hits, WrapAdd, U32

(* The least element of a set of addresses is the one CHOOSE picks.        *)
LEMMA LeastChosen ==
  ASSUME NEW S \in SUBSET U32, NEW a \in S, \A y \in S : a <= y
  PROVE  (CHOOSE x \in S : \A y \in S : x <= y) = a
<1>1. PICK c \in S : /\ c = (CHOOSE x \in S : \A y \in S : x <= y)
                     /\ \A y \in S : c <= y
  OBVIOUS
<1>2. c <= a /\ a <= c
  BY <1>1
<1> QED
  BY <1>1, <1>2, U32MaxAssumption DEF U32

(* A non-empty set of naturals has a least element.                        *)
LEMMA LeastNat ==
  ASSUME NEW S \in SUBSET Nat, S # {}
  PROVE  \E i \in S : \A j \in S : i <= j
<1> DEFINE R == OpToRel(<, Nat)
<1>1. IsWellFoundedOn(R, Nat)
  BY NatLessThanWellFounded
<1>2. S \subseteq Nat
  OBVIOUS
<1>3. \A x, y \in Nat : <<y, x>> \in R <=> y < x
  BY DEF OpToRel
<1> HIDE DEF R
<1>4. PICK x \in S : \A y \in S : ~ (<<y, x>> \in R)
  BY <1>1, <1>2, WFMin
<1>5. \A y \in S : ~ (y < x)
  BY <1>2, <1>3, <1>4
<1>6. \A y \in S : x <= y
  BY <1>2, <1>5
<1> QED
  BY <1>6

(* What the other components rely on: a range FindUnusedRange returns has  *)
(* room for the size, lies in the memory and shares no byte with the       *)
(* blacklist, whatever that holds.                                         *)
LEMMA FoundRangeUsable ==
  ASSUME NEW m \in MemoryRange, m.end < U32Max,
         NEW bl, NEW s \in Nat,
         NEW r, r = FindUnusedRange(m, bl, s), r # NoRange
  PROVE  /\ s \in U32 /\ r \in MemoryRange
         /\ m.start <= r.start /\ r.end <= m.end
         /\ r.end - r.start = AlignUp8(s) /\ AlignUp8(s) >= s
         /\ \A i \in 1..Len(bl) : ~ Overlap(r, bl[i])
<1> DEFINE n == AlignUp8(s)
           S == FreeAddrs(n, m, bl)
           a == CHOOSE x \in S : \A y \in S : x <= y
<1>1. ~ AlignOverflows(s) /\ S # {} /\ r = [start |-> a, end |-> WrapAdd(a, n)]
  BY DEF FindUnusedRange
<1>2. S \subseteq U32
  BY DEF FreeAddrs
<1>3. a \in S
  <2> HIDE DEF S
  <2>0. S \in SUBSET Nat
    BY <1>2, U32MaxAssumption DEF U32
  <2>1. PICK x \in S : \A y \in S : x <= y
    BY <1>1, <2>0, LeastNat
  <2> QED
    BY <2>1
<1> HIDE DEF a
<1>4. a \in U32 /\ IsCandidate(a, m) /\ Fits(a, n, m, bl)
  BY <1>3 DEF FreeAddrs
<1>0. s \in U32
  BY <1>1, U32MaxAssumption DEF AlignOverflows, U32
<1>5. n \in U32 /\ n >= s
  BY <1>0, <1>1, AlignUp8Type
<1> HIDE DEF n
<1>6. a + n <= m.end /\ WrapAdd(a, n) = a + n
  BY <1>4, <1>5, U32MaxAssumption DEF Fits, InMemory, SatAdd, WrapAdd, U32, MemoryRange
<1>7. m.start <= a
  BY <1>4 DEF IsCandidate, U32, MemoryRange
<1>8. r.start = a /\ r.end = a + n
  BY <1>1, <1>6
<1>9. \A i \in 1..Len(bl) : ~ Overlap(r, bl[i])
  BY <1>4, <1>6, <1>8 DEF Fits, Hits, Overlap
<1>10. r \in MemoryRange
  BY <1>1, <1>4, <1>5, <1>6, U32MaxAssumption DEF MemoryRange, U32
<1>11. r.end - r.start = n
  BY <1>4, <1>5, <1>8, U32MaxAssumption DEF U32
<1> QED
  BY <1>0, <1>5, <1>6, <1>7, <1>8, <1>9, <1>10, <1>11 DEF n
=============================================================================
