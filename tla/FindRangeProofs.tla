--------------------------- MODULE FindRangeProofs ---------------------------
(***************************************************************************)
(* find_unused_range returns the lowest free block, for every memory,      *)
(* blacklist and size.                                                     *)
(*                                                                         *)
(* The loop invariant is that every candidate address below `addr' has     *)
(* been ruled out.  It survives a jump to the aligned end of a blocking    *)
(* range because a block that starts inside that range, at or above addr,  *)
(* runs into the same range, and because between the end of the range and  *)
(* its alignment there is no multiple of 8.                                *)
(***************************************************************************)
EXTENDS FindRange, ParamsProofs, TLAPS

RuledOut(a) ==
  (IsCandidate(a, memory) /\ a < addr) => ~ Fits(a, aligned_size, memory, blacklist)

LoopInv ==
  pc = "loop" =>
    /\ ~ AlignOverflows(size)
    /\ aligned_size = AlignUp8(size)
    /\ IsCandidate(addr, memory)
    /\ \A a \in U32 : RuledOut(a)

IInv == TypeOK /\ LoopInv /\ FirstFit

-----------------------------------------------------------------------------
(* The facts about the arguments every step uses.                          *)
LEMMA ArgsType ==
  ASSUME TypeOK
  PROVE  /\ memory \in MemoryRange /\ memory.end < U32Max
         /\ blacklist \in Seq(BlacklistRange)
         /\ \A i \in 1..Len(blacklist) : blacklist[i] \in BlacklistRange
         /\ size \in U32
BY MemoriesAssumption, BlacklistsAssumption, SizesAssumption DEF TypeOK

LEMMA InitIInv == Init => IInv
BY U32MaxAssumption DEF Init, IInv, TypeOK, LoopInv, FirstFit, U32

(* The first iteration starts at the lowest candidate.                     *)
LEMMA BeginPreserves == IInv /\ Begin => IInv'
<1> SUFFICES ASSUME IInv, Begin PROVE IInv'
  OBVIOUS
<1> USE DEF IInv
<1>0. memory \in MemoryRange /\ size \in U32
  BY ArgsType
<1>1. CASE AlignOverflows(size)
  <2>1. pc' = "done" /\ result' = NoRange /\ UNCHANGED <<args, aligned_size, addr>>
    BY <1>1 DEF Begin, Return
  <2>2. TypeOK'
    BY <2>1 DEF TypeOK, args
  <2>3. FirstFit'
    BY <1>1, <2>1 DEF FirstFit, FindUnusedRange, args
  <2> QED
    BY <2>1, <2>2, <2>3 DEF LoopInv
<1>2. CASE ~ AlignOverflows(size)
  <2>1. /\ pc' = "loop" /\ aligned_size' = AlignUp8(size) /\ addr' = memory.start
        /\ UNCHANGED args /\ UNCHANGED result
    BY <1>2 DEF Begin
  <2>2. TypeOK'
    BY <1>0, <1>2, <2>1, AlignUp8Type DEF TypeOK, args, MemoryRange
  <2>3. LoopInv'
    <3>1. IsCandidate(addr', memory')
      BY <2>1 DEF IsCandidate, args
    <3>2. \A a \in U32 : RuledOut(a)'
      BY <1>0, <2>1, U32MaxAssumption DEF RuledOut, IsCandidate, MemoryRange, U32, args
    <3> QED
      BY <1>2, <2>1, <3>1, <3>2 DEF LoopInv, args
  <2> QED
    BY <2>1, <2>2, <2>3 DEF FirstFit
<1> QED
  BY <1>1, <1>2

(* The jump over a blocking range rules out everything it jumps over.      *)
LEMMA SkipPreserves == IInv /\ Skip => IInv'
<1> SUFFICES ASSUME IInv, Skip PROVE IInv'
  OBVIOUS
<1> USE DEF IInv
<1> DEFINE k == FirstBlocker
           r == blacklist[k]
<1>0. /\ memory \in MemoryRange /\ memory.end < U32Max
      /\ \A i \in 1..Len(blacklist) : blacklist[i] \in BlacklistRange
      /\ size \in U32 /\ aligned_size \in U32 /\ addr \in U32
  BY ArgsType DEF TypeOK
<1>1. /\ pc = "loop" /\ InMemory(addr, aligned_size, memory)
      /\ Blockers # {} /\ UNCHANGED args /\ UNCHANGED aligned_size
  BY DEF Skip
<1>2. k \in Blockers
  <2>1. Blockers \subseteq 1..Len(blacklist)
    BY DEF Blockers
  <2>2. \E i \in Blockers : \A j \in Blockers : i <= j
    <3>1. Len(blacklist) \in Nat
      BY ArgsType
    <3> QED
      BY <1>1, <2>1, <3>1, LeastNat
  <2> QED
    BY <2>2 DEF FirstBlocker
<1>3. k \in 1..Len(blacklist) /\ r \in BlacklistRange /\ Hits(addr, aligned_size, r)
  BY <1>0, <1>2 DEF Blockers
<1>4. r.end \in U32 /\ addr < r.end
  BY <1>3 DEF BlacklistRange, Hits
<1>5. IsCandidate(addr, memory) /\ addr >= memory.start
  BY <1>0, <1>1 DEF LoopInv, IsCandidate, MemoryRange, U32
<1>6. ASSUME NEW a \in U32, IsCandidate(a, memory), Fits(a, aligned_size, memory, blacklist)
      PROVE  a >= r.end /\ a % 8 = 0
  <2>1. a >= addr
    BY <1>0, <1>1, <1>6 DEF LoopInv, RuledOut, U32
  <2>2. ~ Hits(a, aligned_size, r) /\ InMemory(a, aligned_size, memory)
    BY <1>3, <1>6 DEF Fits
  <2>3. a >= r.end
    <3> SUFFICES ASSUME a < r.end PROVE FALSE
      BY <1>4 DEF U32
    <3> QED
      BY <1>0, <1>1, <1>3, <2>1, <2>2, SameBlocker
  <2>4. a % 8 = 0
    BY <1>0, <1>4, <1>5, <1>6, <2>3 DEF IsCandidate, MemoryRange, U32
  <2> QED
    BY <2>3, <2>4
<1>7. CASE AlignOverflows(r.end)
  <2>1. pc' = "done" /\ result' = NoRange /\ addr' = addr
    BY <1>7 DEF Skip, Return
  <2>2. FreeAddrs(aligned_size, memory, blacklist) = {}
    BY <1>4, <1>6, <1>7, NoMultipleBetween DEF FreeAddrs
  <2>3. FirstFit'
    BY <1>1, <2>1, <2>2 DEF FirstFit, FindUnusedRange, LoopInv, args
  <2>4. TypeOK'
    BY <1>1, <2>1 DEF TypeOK, args
  <2> QED
    BY <2>1, <2>3, <2>4 DEF LoopInv
<1>8. CASE ~ AlignOverflows(r.end)
  <2>1. addr' = AlignUp8(r.end) /\ pc' = pc /\ result' = result
    BY <1>8 DEF Skip
  <2>2. addr' \in U32 /\ addr' >= r.end /\ addr' % 8 = 0
    BY <1>4, <1>8, <2>1, AlignUp8Type
  <2>3. TypeOK'
    BY <1>1, <2>1, <2>2 DEF TypeOK, args
  <2>4. IsCandidate(addr', memory')
    <3>1. addr' > memory.start
      BY <1>0, <1>4, <1>5, <2>2 DEF MemoryRange, U32
    <3> QED
      BY <1>1, <2>2, <3>1 DEF IsCandidate, args
  <2>5. ASSUME NEW a \in U32 PROVE RuledOut(a)'
    <3> SUFFICES ASSUME IsCandidate(a, memory), a < addr',
                        Fits(a, aligned_size, memory, blacklist)
                 PROVE FALSE
      BY <1>1 DEF RuledOut, args
    <3>1. a >= AlignUp8(r.end)
      BY <1>4, <1>6, NoMultipleBetween
    <3> QED
      BY <2>1, <2>2, <3>1 DEF U32
  <2>6. LoopInv'
    BY <1>1, <2>1, <2>4, <2>5 DEF LoopInv, args
  <2> QED
    BY <1>1, <2>1, <2>3, <2>6 DEF FirstFit
<1> QED
  BY <1>7, <1>8

(* The block that is returned is free and no lower candidate is.           *)
LEMMA FoundPreserves == IInv /\ Found => IInv'
<1> SUFFICES ASSUME IInv, Found PROVE IInv'
  OBVIOUS
<1> USE DEF IInv
<1> DEFINE S == FreeAddrs(aligned_size, memory, blacklist)
<1>0. addr \in U32 /\ aligned_size \in U32 /\ memory \in MemoryRange /\ memory.end < U32Max
  BY ArgsType DEF TypeOK
<1>1. /\ pc = "loop" /\ pc' = "done" /\ InMemory(addr, aligned_size, memory)
      /\ result' = [start |-> addr, end |-> WrapAdd(addr, aligned_size)]
      /\ UNCHANGED <<memory, blacklist, size, aligned_size, addr>>
  BY DEF Found, Return, args
<1>2. addr \in S
  BY <1>0, <1>1 DEF Found, Blockers, FreeAddrs, Fits, LoopInv
<1>3. \A y \in S : addr <= y
  BY <1>0, <1>1, U32MaxAssumption DEF LoopInv, RuledOut, FreeAddrs, U32
<1>4. (CHOOSE x \in S : \A y \in S : x <= y) = addr
  <2>1. S \in SUBSET U32
    BY DEF FreeAddrs
  <2> HIDE DEF S
  <2> QED
    BY <1>2, <1>3, <2>1, LeastChosen
<1>5. FirstFit'
  BY <1>1, <1>2, <1>4 DEF FirstFit, FindUnusedRange, LoopInv
<1>6. WrapAdd(addr, aligned_size) \in U32
  BY <1>0, U32MaxAssumption DEF WrapAdd, U32
<1>7. TypeOK'
  BY <1>0, <1>1, <1>6 DEF TypeOK, MemoryRange
<1> QED
  BY <1>1, <1>5, <1>7 DEF LoopInv

(* Once a block at addr would end outside the memory, so would every       *)
(* higher one.                                                             *)
LEMMA RanOutPreserves == IInv /\ RanOut => IInv'
<1> SUFFICES ASSUME IInv, RanOut PROVE IInv'
  OBVIOUS
<1> USE DEF IInv
<1>0. addr \in U32 /\ aligned_size \in U32 /\ memory \in MemoryRange /\ memory.end < U32Max
  BY ArgsType DEF TypeOK
<1>1. /\ pc = "loop" /\ pc' = "done" /\ ~ InMemory(addr, aligned_size, memory)
      /\ result' = NoRange
      /\ UNCHANGED <<memory, blacklist, size, aligned_size, addr>>
  BY DEF RanOut, Return, args
<1>2. ASSUME NEW a \in U32, IsCandidate(a, memory)
      PROVE  ~ Fits(a, aligned_size, memory, blacklist)
  <2>1. CASE a < addr
    BY <1>1, <1>2, <2>1 DEF LoopInv, RuledOut
  <2>2. CASE ~ (a < addr)
    BY <1>0, <1>1, <2>2, U32MaxAssumption DEF Fits, InMemory, SatAdd, MemoryRange, U32
  <2> QED
    BY <2>1, <2>2
<1>3. FreeAddrs(aligned_size, memory, blacklist) = {}
  BY <1>2 DEF FreeAddrs
<1>4. FirstFit'
  BY <1>1, <1>3 DEF FirstFit, FindUnusedRange, LoopInv
<1>5. TypeOK'
  BY <1>1 DEF TypeOK
<1> QED
  BY <1>1, <1>4, <1>5 DEF LoopInv

LEMMA NextIInv == IInv /\ [Next]_vars => IInv'
<1> SUFFICES ASSUME IInv, [Next]_vars PROVE IInv'
  OBVIOUS
<1>1. CASE Begin
  BY <1>1, BeginPreserves
<1>2. CASE Skip
  BY <1>2, SkipPreserves
<1>3. CASE Found
  BY <1>3, FoundPreserves
<1>4. CASE RanOut
  BY <1>4, RanOutPreserves
<1>5. CASE UNCHANGED vars
  BY <1>5 DEF vars, IInv, TypeOK, LoopInv, RuledOut, FirstFit
<1> QED
  BY <1>1, <1>2, <1>3, <1>4, <1>5 DEF Next, Terminated

-----------------------------------------------------------------------------
(* The loop of find_unused_range keeps its types: addr never leaves u32.   *)
THEOREM TypeCorrect == Spec => []TypeOK
<1>1. Spec => []IInv
  BY InitIInv, NextIInv, PTL DEF Spec
<1> QED
  BY <1>1, PTL DEF IInv

(* find_unused_range returns the lowest free block, and None only if there *)
(* is none.                                                                *)
THEOREM FirstFitCorrect == Spec => []FirstFit
<1>1. Spec => []IInv
  BY InitIInv, NextIInv, PTL DEF Spec
<1> QED
  BY <1>1, PTL DEF IInv

(* find_unused_range never hands out memory that is outside the device's   *)
(* memory, too small, or blacklisted in either mode.                       *)
THEOREM ResultUsableCorrect == Spec => []ResultUsable
<1>1. TypeOK /\ FirstFit => ResultUsable
  <2> SUFFICES ASSUME TypeOK, FirstFit, pc = "done", result # NoRange
               PROVE  /\ memory.start <= result.start
                      /\ result.end <= memory.end
                      /\ result.end - result.start >= size
                      /\ \A i \in 1..Len(blacklist) : ~ Overlap(result, blacklist[i])
    BY DEF ResultUsable
  <2>1. result = FindUnusedRange(memory, blacklist, size)
    BY DEF FirstFit
  <2>2. size \in U32 /\ size \in Nat
    BY ArgsType, U32MaxAssumption DEF U32
  <2>3. /\ memory.start <= result.start /\ result.end <= memory.end
        /\ result.end - result.start = AlignUp8(size) /\ AlignUp8(size) >= size
        /\ \A i \in 1..Len(blacklist) : ~ Overlap(result, blacklist[i])
    BY <2>1, <2>2, ArgsType, FoundRangeUsable
  <2> QED
    BY <2>3
<1> QED
  BY <1>1, TypeCorrect, FirstFitCorrect, PTL

(* addr only moves up, whatever the blacklist holds.                       *)
THEOREM AddrIncreasesCorrect == Spec => AddrIncreases
<1>1. TypeOK /\ [Next]_vars => [pc = "loop" /\ addr' # addr => addr' > addr]_vars
  <2> SUFFICES ASSUME TypeOK, Next, pc = "loop", addr' # addr
               PROVE  addr' > addr
    OBVIOUS
  <2>1. Skip /\ addr' = AlignUp8(blacklist[FirstBlocker].end)
             /\ ~ AlignOverflows(blacklist[FirstBlocker].end)
    BY DEF Next, Begin, Skip, Found, RanOut, Terminated, vars
  <2>2. FirstBlocker \in Blockers
    <3>1. Blockers \in SUBSET (1..Len(blacklist)) /\ Blockers # {}
      BY <2>1 DEF Blockers, Skip
    <3>2. Len(blacklist) \in Nat
      BY ArgsType
    <3>3. \E i \in Blockers : \A j \in Blockers : i <= j
      BY <3>1, <3>2, LeastNat
    <3> QED
      BY <3>3 DEF FirstBlocker
  <2> DEFINE e == blacklist[FirstBlocker].end
  <2>3. e \in U32 /\ addr < e
    BY <2>2, ArgsType DEF Blockers, Hits, BlacklistRange
  <2>4. AlignUp8(e) \in U32 /\ AlignUp8(e) >= e
    BY <2>1, <2>3, AlignUp8Type
  <2> QED
    BY <2>1, <2>3, <2>4 DEF U32, TypeOK
<1> QED
  BY <1>1, TypeCorrect, PTL DEF Spec, AddrIncreases
=============================================================================
