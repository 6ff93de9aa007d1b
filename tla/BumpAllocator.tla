---------------------------- MODULE BumpAllocator ----------------------------
(***************************************************************************)
(* payloads/bump: the global allocator of the preloader-stage payload.     *)
(* The interceptor's trampolines, its hook table and the strings of the    *)
(* hooks live in it; nothing is ever given back (dealloc does nothing).    *)
(* usize is 32 bits wide on the device and the release build wraps.        *)
(*                                                                         *)
(* `blocks' is a history of what callers were handed; the allocator itself *)
(* keeps only `ptr' and `size'.                                            *)
(***************************************************************************)
EXTENDS Params

CONSTANTS
  Heaps,       \* the ranges main() may call init() with
  ReqSizes,    \* layout.size(): never 0 for a GlobalAlloc
  ReqAligns,   \* layout.align(): a power of two, so it divides the 2^32 addresses
  MaxRequests  \* how many calls of alloc are explored

ASSUME HeapsAssumption == Heaps \subseteq {h \in MemoryRange : h.start <= h.end}
ASSUME ReqSizesAssumption == ReqSizes \subseteq U32 \ {0}
ASSUME ReqAlignsAssumption ==
  ReqAligns \subseteq {a \in U32 \ {0} : (U32Max + 1) % a = 0}
ASSUME MaxRequestsAssumption == MaxRequests \in Nat

None == -1   \* Cell<Option<usize>> holding None
Null == -2   \* ptr::null_mut()
NoAnswer == [size |-> 0, align |-> 1, at |-> None]

VARIABLES
  ptr,        \* the next free address, None before init()
  size,       \* the bytes left
  heap,       \* history: the range init() was given
  blocks,     \* history: the blocks handed out, in order
  answer,     \* history: the last call of alloc and what it returned
  requests    \* history: the number of calls, for the bound

vars == <<ptr, size, heap, blocks, answer, requests>>

(* BumpAllocator::empty()                                                  *)
Init ==
  /\ ptr = None
  /\ size = 0
  /\ heap = NoRange
  /\ blocks = <<>>
  /\ answer = NoAnswer
  /\ requests = 0

(* init(), called once by main() of pl.rs.                                 *)
InitHeap ==
  /\ heap = NoRange
  /\ heap' \in Heaps
  /\ ptr' = heap'.start
  /\ size' = heap'.end - heap'.start
  /\ answer' = NoAnswer
  /\ UNCHANGED <<blocks, requests>>

(* (x + align - 1) & !(align - 1) for a power of two, in wrapping u32.     *)
align_up(x, align) ==
  LET y == WrapAdd(x, align - 1) IN y - (y % align)

(* Mutant: the padding is not accounted for.                               *)
Padding_none(align) == 0

(* aligned_ptr - ptr, which wraps if align_up did.                         *)
Padding(align) ==
  LET a == align_up(ptr, align)
  IN  IF a >= ptr THEN a - ptr ELSE a - ptr + (U32Max + 1)

(* Mutant: the last byte is never handed out.                              *)
Granted_strict(sz, align) ==
  /\ ptr # None
  /\ Padding(align) + sz <= U32Max
  /\ size > Padding(align) + sz

(* The request is granted: the heap was set up, the padded size did not    *)
(* overflow (checked_add) and is still available.                          *)
Granted(sz, align) ==
  /\ ptr # None
  /\ Padding(align) + sz <= U32Max
  /\ size >= Padding(align) + sz

(* Mutant: the next block starts at the last byte of this one.             *)
alloc_short(sz, align) ==
  /\ requests < MaxRequests
  /\ requests' = requests + 1
  /\ Granted(sz, align)
  /\ LET a == align_up(ptr, align)
     IN  /\ ptr' = WrapAdd(a, sz) - 1
         /\ size' = size - (Padding(align) + sz)
         /\ blocks' = Append(blocks, [start |-> a, end |-> WrapAdd(a, sz)])
         /\ answer' = [size |-> sz, align |-> align, at |-> a]
  /\ UNCHANGED heap

alloc(sz, align) ==
  /\ requests < MaxRequests
  /\ requests' = requests + 1
  /\ LET a == align_up(ptr, align)
     IN  \/ /\ Granted(sz, align)
            /\ ptr' = WrapAdd(a, sz)
            /\ size' = size - (Padding(align) + sz)
            /\ blocks' = Append(blocks, [start |-> a, end |-> WrapAdd(a, sz)])
            /\ answer' = [size |-> sz, align |-> align, at |-> a]
         \/ /\ ~ Granted(sz, align)
            /\ answer' = [size |-> sz, align |-> align, at |-> Null]
            /\ UNCHANGED <<ptr, size, blocks>>
  /\ UNCHANGED heap

(* No more calls are explored.                                             *)
Stop == requests = MaxRequests /\ heap # NoRange /\ UNCHANGED vars

Next ==
  \/ InitHeap
  \/ \E sz \in ReqSizes, align \in ReqAligns : alloc(sz, align)
  \/ Stop

Spec == Init /\ [][Next]_vars

-----------------------------------------------------------------------------
TypeOK ==
  /\ ptr \in U32 \cup {None}
  /\ size \in U32
  /\ heap \in Heaps \cup {NoRange}
  /\ blocks \in Seq(MemoryRange)
  /\ answer \in [size : ReqSizes \cup {0}, align : ReqAligns \cup {1},
                 at : U32 \cup {None, Null}]
  /\ requests \in 0..MaxRequests

(* Nothing leaks out of the heap and no byte is lost to the accounting:    *)
(* ptr and size always describe exactly the rest of the heap, even when    *)
(* the alignment of an address near the top of the address space wraps.    *)
RestOfHeap ==
  IF heap = NoRange
    THEN ptr = None /\ size = 0 /\ blocks = <<>>
    ELSE ptr \in heap.start..heap.end /\ ptr + size = heap.end

(* Two live blocks never share a byte, and every block lies in the heap:   *)
(* a trampoline of the interceptor is never overwritten by a later Vec.    *)
BlocksDisjoint ==
  /\ \A i \in 1..Len(blocks) :
       /\ heap.start <= blocks[i].start
       /\ blocks[i].start < blocks[i].end
       /\ blocks[i].end <= heap.end
  /\ \A i, j \in 1..Len(blocks) : i # j => ~ Overlap(blocks[i], blocks[j])

(* A block that is granted is aligned as the layout asks, and a null is    *)
(* returned only when the rest of the heap really has no aligned place for *)
(* the request: checked_add and the comparison never refuse one that fits. *)
AnswerRight ==
  /\ answer.at >= 0 => answer.at % answer.align = 0
  /\ (answer.at = Null /\ heap # NoRange) =>
       \A a \in ptr..heap.end : a % answer.align = 0 => a + answer.size > heap.end

(* "A pointer always goes upwards": alloc never steps back over a block it *)
(* has handed out.                                                         *)
PtrGoesUp == [][ptr # None => ptr' >= ptr]_vars
=============================================================================
