------------------------------ MODULE FindRange ------------------------------
(***************************************************************************)
(* PayloadParams::find_unused_range of crates/da-params as the loop it is: *)
(* one step per evaluation of the outer loop's condition together with the *)
(* pass over the blacklist that follows it.  The other modules of the      *)
(* project use the function FindUnusedRange of Params; this one shows that *)
(* the loop computes it.                                                   *)
(***************************************************************************)
EXTENDS Params

CONSTANTS
  Memories,     \* the memory ranges a call may meet
  Blacklists,   \* the blacklists a call may meet
  Sizes         \* the sizes a caller may ask for

(* Both memory ranges the host hands out end below the top of the address  *)
(* space (SRAM in run_brom, DRAM in run_preloader).                        *)
ASSUME MemoriesAssumption ==
  Memories \subseteq {m \in MemoryRange : m.end < U32Max}
ASSUME BlacklistsAssumption == Blacklists \subseteq Seq(BlacklistRange)
ASSUME SizesAssumption == Sizes \subseteq U32

VARIABLES
  memory, blacklist, size,   \* the arguments
  pc,                        \* "begin", "loop", "done"
  aligned_size, addr,        \* the locals
  result                     \* the returned range; NoRange for None

args == <<memory, blacklist, size>>
vars == <<memory, blacklist, size, pc, aligned_size, addr, result>>

Init ==
  /\ memory \in Memories
  /\ blacklist \in Blacklists
  /\ size \in Sizes
  /\ pc = "begin"
  /\ aligned_size = 0
  /\ addr = 0
  /\ result = NoRange

Return(r) == pc' = "done" /\ result' = r

(* size.checked_add(7)? & !7; addr = memory.start                          *)
Begin ==
  /\ pc = "begin"
  /\ IF AlignOverflows(size)
       THEN Return(NoRange) /\ UNCHANGED <<aligned_size, addr>>
       ELSE /\ pc' = "loop"
            /\ aligned_size' = AlignUp8(size)
            /\ addr' = memory.start
            /\ UNCHANGED result
  /\ UNCHANGED args

(* The blocks the inner loop would stop at.                                *)
Blockers == {i \in 1..Len(blacklist) : Hits(addr, aligned_size, blacklist[i])}

(* The inner loop stops at the first of them.                              *)
FirstBlocker == CHOOSE i \in Blockers : \A j \in Blockers : i <= j

(* Mutants: the next address is not aligned, or is taken from the wrong    *)
(* end of the range.                                                       *)
Skip_unaligned ==
  /\ pc = "loop"
  /\ InMemory(addr, aligned_size, memory)
  /\ Blockers # {}
  /\ addr' = blacklist[FirstBlocker].end
  /\ UNCHANGED <<args, aligned_size, pc, result>>

Skip_start ==
  /\ pc = "loop"
  /\ InMemory(addr, aligned_size, memory)
  /\ Blockers # {}
  /\ addr' = blacklist[FirstBlocker].start
  /\ UNCHANGED <<args, aligned_size, pc, result>>

(* A block is in the way: continue just above it, or give up (`?') when    *)
(* there is no aligned address above it.                                   *)
Skip ==
  /\ pc = "loop"
  /\ InMemory(addr, aligned_size, memory)
  /\ Blockers # {}
  /\ LET above == blacklist[FirstBlocker].end
     IN  IF AlignOverflows(above)
           THEN Return(NoRange) /\ UNCHANGED addr
           ELSE addr' = AlignUp8(above) /\ UNCHANGED <<pc, result>>
  /\ UNCHANGED <<args, aligned_size>>

(* Nothing is in the way: return Some.                                     *)
Found ==
  /\ pc = "loop"
  /\ InMemory(addr, aligned_size, memory)
  /\ Blockers = {}
  /\ Return([start |-> addr, end |-> WrapAdd(addr, aligned_size)])
  /\ UNCHANGED <<args, aligned_size, addr>>

(* The loop condition fails: return None.                                  *)
RanOut ==
  /\ pc = "loop"
  /\ ~ InMemory(addr, aligned_size, memory)
  /\ Return(NoRange)
  /\ UNCHANGED <<args, aligned_size, addr>>

(* The caller has its answer.                                              *)
Terminated == pc = "done" /\ UNCHANGED vars

Next == Begin \/ Skip \/ Found \/ RanOut \/ Terminated

Spec == Init /\ [][Next]_vars /\ WF_vars(Next)

-----------------------------------------------------------------------------
TypeOK ==
  /\ memory \in Memories
  /\ blacklist \in Blacklists
  /\ size \in Sizes
  /\ pc \in {"begin", "loop", "done"}
  /\ aligned_size \in U32
  /\ addr \in U32
  /\ result \in MemoryRange \cup {NoRange}

(* find_unused_range returns the lowest free block and None only when      *)
(* there is none, whatever the order and the overlaps of the slots: the    *)
(* jump to the end of the first block in the way never skips a gap.        *)
FirstFit ==
  pc = "done" => result = FindUnusedRange(memory, blacklist, size)

(* A block that is returned holds the requested size, lies inside `memory' *)
(* and shares no byte with a blacklisted range of either mode; nothing on  *)
(* the way to it wrapped around.                                           *)
ResultUsable ==
  (pc = "done" /\ result # NoRange) =>
    /\ memory.start <= result.start
    /\ result.end <= memory.end
    /\ result.end - result.start >= size
    /\ \A i \in 1..Len(blacklist) : ~ Overlap(result, blacklist[i])

(* addr only ever moves up: no pair of blacklisted ranges, overlapping or  *)
(* inverted, sends the loop back to an address it has left.                *)
AddrIncreases == [][pc = "loop" /\ addr' # addr => addr' > addr]_vars

(* The loop ends: while (addr..) is left after finitely many passes.       *)
Terminates == <>(pc = "done")
=============================================================================
