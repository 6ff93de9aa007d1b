------------------------- MODULE BumpAllocatorProofs -------------------------
(***************************************************************************)
(* The blocks the bump allocator hands out are aligned, disjoint and       *)
(* inside the heap, and a request is refused only when there is no place   *)
(* for it, for every heap, every sequence of requests and every alignment. *)
(*                                                                         *)
(* The argument rests on the accounting (RestOfHeap): ptr + size is the    *)
(* end of the heap, which is a u32.  If align_up wraps, the padding wraps  *)
(* too and exceeds what is left, so the comparison refuses the request.    *)
(* That refusal is right because an alignment divides the size of the      *)
(* address space: when align_up wraps there is no multiple of it left.     *)
(***************************************************************************)
EXTENDS BumpAllocator, TLAPS

(* Blocks are handed out from left to right and end at or below ptr.       *)
BlocksOrdered ==
  /\ \A i \in 1..Len(blocks) :
       /\ heap.start <= blocks[i].start
       /\ blocks[i].start < blocks[i].end
       /\ blocks[i].end <= ptr
  /\ \A i, j \in 1..Len(blocks) : i < j => blocks[i].end <= blocks[j].start

IInv == TypeOK /\ RestOfHeap /\ BlocksOrdered /\ AnswerRight

-----------------------------------------------------------------------------
(* align_up stays a u32, whatever the alignment.                           *)
LEMMA AlignUpType ==
  ASSUME NEW x \in U32, NEW a \in U32 \ {0}
  PROVE  align_up(x, a) \in U32
<1> DEFINE y == WrapAdd(x, a - 1)
<1>1. y \in U32
  BY U32MaxAssumption DEF WrapAdd, U32
<1> HIDE DEF y
<1>2. y % a \in 0..(a - 1) /\ y % a <= y
  BY <1>1, U32MaxAssumption DEF U32
<1>3. y - (y % a) \in U32
  BY <1>1, <1>2, U32MaxAssumption DEF U32
<1> QED
  BY <1>3 DEF align_up, y

(* A granted block starts at or above ptr and ends inside the heap.        *)
LEMMA GrantedFits ==
  ASSUME IInv, NEW sz \in ReqSizes, NEW al \in ReqAligns, Granted(sz, al)
  PROVE  /\ heap \in Heaps /\ heap.end \in U32
         /\ align_up(ptr, al) \in U32
         /\ ptr <= align_up(ptr, al)
         /\ WrapAdd(align_up(ptr, al), sz) = align_up(ptr, al) + sz
         /\ align_up(ptr, al) + sz <= heap.end
         /\ size - (Padding(al) + sz) \in U32
         /\ align_up(ptr, al) + sz + (size - (Padding(al) + sz)) = heap.end
<1> DEFINE a == align_up(ptr, al)
<1>1. heap \in Heaps /\ heap \in MemoryRange /\ heap.end \in U32 /\ ptr \in U32 /\ size \in U32
  BY HeapsAssumption DEF IInv, TypeOK, RestOfHeap, Granted, MemoryRange
<1>2. ptr + size = heap.end
  BY <1>1 DEF IInv, RestOfHeap, MemoryRange, NoRange, U32
<1>3. sz \in U32 \ {0} /\ al \in U32 \ {0}
  BY ReqSizesAssumption, ReqAlignsAssumption
<1>4. a \in U32
  BY <1>1, <1>3, AlignUpType
<1> HIDE DEF a
<1>5. Padding(al) = IF a >= ptr THEN a - ptr ELSE a - ptr + (U32Max + 1)
  BY DEF Padding, a
<1>6. size >= Padding(al) + sz
  BY DEF Granted
<1>7. a >= ptr /\ Padding(al) = a - ptr
  BY <1>1, <1>2, <1>3, <1>4, <1>5, <1>6, U32MaxAssumption DEF U32
<1>8. a + sz <= heap.end
  BY <1>1, <1>2, <1>3, <1>4, <1>6, <1>7, U32MaxAssumption DEF U32
<1>9. WrapAdd(a, sz) = a + sz
  BY <1>1, <1>3, <1>4, <1>8, U32MaxAssumption DEF WrapAdd, U32
<1>10. size - (Padding(al) + sz) \in U32
  BY <1>1, <1>3, <1>4, <1>6, <1>7, U32MaxAssumption DEF U32
<1>11. a + sz + (size - (Padding(al) + sz)) = heap.end
  BY <1>1, <1>2, <1>3, <1>4, <1>7, U32MaxAssumption DEF U32
<1> QED
  BY <1>1, <1>4, <1>7, <1>8, <1>9, <1>10, <1>11 DEF a

(* Multiples of an alignment: what is left after the remainder is one, and *)
(* neighbours are a whole alignment apart.                                 *)
LEMMA DivAlign ==
  ASSUME NEW a \in Nat \ {0}, NEW x \in Nat
  PROVE  /\ x % a \in 0..(a - 1)
         /\ x \div a \in Nat
         /\ x = a * (x \div a) + (x % a)
  BY SMT

LEMMA MultipleModZero ==
  ASSUME NEW a \in Nat \ {0}, NEW q \in Nat
  PROVE  (a * q) % a = 0
  BY SMT

LEMMA MultiplesApart ==
  ASSUME NEW a \in Nat \ {0}, NEW p \in Nat, NEW q \in Nat, a * p < a * q
  PROVE  a * p + a <= a * q
<1>1. p < q
  <2> SUFFICES ASSUME q <= p PROVE FALSE
    OBVIOUS
  <2>1. PICK d \in Nat : p = q + d
    <3>1. p - q \in Nat /\ p = q + (p - q)
      OBVIOUS
    <3> QED BY <3>1
  <2>2. a * p = a * q + a * d /\ a * d \in Nat /\ a * q \in Nat
    BY <2>1
  <2> QED BY <2>2
<1>2. PICK d \in Nat : q = p + 1 + d
  <2>1. q - p - 1 \in Nat /\ q = p + 1 + (q - p - 1)
    BY <1>1
  <2> QED BY <2>1
<1>3. a * q = a * p + a + a * d /\ a * d \in Nat /\ a * p \in Nat
  BY <1>2
<1> QED BY <1>3

(* align_up yields a multiple of the alignment.                            *)
LEMMA AlignUpAligned ==
  ASSUME NEW x \in U32, NEW al \in ReqAligns
  PROVE  align_up(x, al) % al = 0
<1> DEFINE y == WrapAdd(x, al - 1)
<1>1. al \in Nat \ {0}
  BY ReqAlignsAssumption, U32MaxAssumption DEF U32
<1>2. y \in Nat
  BY ReqAlignsAssumption, U32MaxAssumption DEF WrapAdd, U32
<1> HIDE DEF y
<1>3. y % al \in 0..(al - 1) /\ y \div al \in Nat /\ y = al * (y \div al) + (y % al)
  BY <1>1, <1>2, DivAlign
<1>4. al * (y \div al) \in Nat
  BY <1>1, <1>3
<1>5. y - (y % al) = al * (y \div al)
  BY <1>1, <1>2, <1>3, <1>4
<1>6. (y - (y % al)) % al = 0
  BY <1>1, <1>3, <1>5, MultipleModZero
<1> QED BY <1>6 DEF align_up, y

(* ... the least one that is not below the address, whenever there is one  *)
(* in the address space at all.                                            *)
LEMMA AlignUpLeast ==
  ASSUME NEW x \in U32, NEW al \in ReqAligns, NEW m \in U32, x <= m, m % al = 0
  PROVE  x <= align_up(x, al) /\ align_up(x, al) <= m
<1> DEFINE y == x + al - 1
<1>1. al \in Nat \ {0} /\ (U32Max + 1) % al = 0 /\ x \in Nat /\ m \in Nat /\ m <= U32Max
  BY ReqAlignsAssumption, U32MaxAssumption DEF U32
<1>2. U32Max + 1 \in Nat
  BY U32MaxAssumption
<1>3. PICK p \in Nat : m = al * p
  <2>1. m \div al \in Nat /\ m = al * (m \div al) + 0
    BY <1>1, DivAlign
  <2>2. al * (m \div al) \in Nat
    BY <1>1, <2>1
  <2>3. m = al * (m \div al)
    BY <1>1, <2>1, <2>2
  <2> QED BY <2>1, <2>3
<1>4. PICK t \in Nat : U32Max + 1 = al * t
  <2> DEFINE z == U32Max + 1
  <2>1. z \in Nat /\ z % al = 0
    BY <1>1, <1>2
  <2> HIDE DEF z
  <2>2. z \div al \in Nat /\ z = al * (z \div al) + 0
    BY <1>1, <2>1, DivAlign
  <2>3. al * (z \div al) \in Nat
    BY <1>1, <2>2
  <2>4. z = al * (z \div al)
    BY <2>2, <2>3
  <2> QED BY <2>2, <2>4 DEF z
<1>5. al * p < al * t
  BY <1>1, <1>3, <1>4, U32MaxAssumption
<1>6. al * p + al <= al * t
  BY <1>1, <1>5, MultiplesApart
<1>7. m + al <= U32Max + 1
  BY <1>3, <1>4, <1>6
<1>8. y \in Nat /\ y <= U32Max /\ WrapAdd(x, al - 1) = y
  BY <1>1, <1>7, U32MaxAssumption DEF WrapAdd
<1> HIDE DEF y
<1>9. y % al \in 0..(al - 1) /\ y \div al \in Nat /\ y = al * (y \div al) + (y % al)
  BY <1>1, <1>8, DivAlign
<1> DEFINE q == y \div al
<1>10. q \in Nat /\ al * q \in Nat /\ y - (y % al) = al * q
  BY <1>1, <1>8, <1>9
<1> HIDE DEF q
<1>11. x <= al * q
  BY <1>1, <1>9, <1>10 DEF y
<1>12. al * q <= m
  <2> SUFFICES ASSUME al * p < al * q PROVE FALSE
    BY <1>1, <1>3, <1>10
  <2>1. al * p + al <= al * q
    BY <1>1, <1>10, MultiplesApart
  <2>2. al * q <= y
    BY <1>1, <1>8, <1>9, <1>10
  <2> QED BY <1>1, <1>3, <1>10, <2>1, <2>2 DEF y
<1> QED BY <1>8, <1>10, <1>11, <1>12 DEF align_up

(* A request for which there is an aligned place is granted.               *)
LEMMA RefusedForLack ==
  ASSUME IInv, NEW sz \in ReqSizes, NEW al \in ReqAligns, heap # NoRange,
         NEW m \in ptr..heap.end, m % al = 0, m + sz <= heap.end
  PROVE  Granted(sz, al)
<1>1. heap \in MemoryRange /\ heap.end \in U32 /\ ptr \in U32 /\ size \in U32
  BY HeapsAssumption, U32MaxAssumption DEF IInv, TypeOK, RestOfHeap, MemoryRange, U32
<1>2. ptr + size = heap.end /\ ptr # None
  BY <1>1, U32MaxAssumption DEF IInv, RestOfHeap, U32, None
<1>3. sz \in U32 \ {0} /\ al \in U32 \ {0}
  BY ReqSizesAssumption, ReqAlignsAssumption
<1>4. m \in U32 /\ ptr <= m
  BY <1>1, U32MaxAssumption DEF U32
<1>5. ptr <= align_up(ptr, al) /\ align_up(ptr, al) <= m
  BY <1>1, <1>4, AlignUpLeast
<1>6. align_up(ptr, al) \in U32
  BY <1>1, <1>3, AlignUpType
<1>7. Padding(al) = align_up(ptr, al) - ptr
  BY <1>1, <1>5, <1>6, U32MaxAssumption DEF Padding, U32
<1> HIDE DEF Padding
<1>8. Padding(al) + sz <= size
  BY <1>1, <1>2, <1>3, <1>4, <1>5, <1>6, <1>7, U32MaxAssumption DEF U32
<1>9. Padding(al) + sz <= U32Max
  BY <1>1, <1>3, <1>5, <1>6, <1>7, <1>8, U32MaxAssumption DEF U32
<1> QED
  BY <1>1, <1>2, <1>3, <1>6, <1>7, <1>8, <1>9, U32MaxAssumption DEF Granted, U32

LEMMA InitIInv == Init => IInv
BY U32MaxAssumption, MaxRequestsAssumption
   DEF Init, IInv, TypeOK, RestOfHeap, BlocksOrdered, AnswerRight, NoAnswer, None, Null, U32

LEMMA InitHeapPreserves == IInv /\ InitHeap => IInv'
<1> SUFFICES ASSUME IInv, InitHeap PROVE IInv'
  OBVIOUS
<1>1. /\ heap' \in Heaps /\ ptr' = heap'.start /\ size' = heap'.end - heap'.start
      /\ blocks' = blocks /\ blocks = <<>> /\ answer' = NoAnswer /\ requests' = requests
  BY DEF InitHeap, IInv, RestOfHeap
<1>2. heap' \in MemoryRange /\ heap'.start <= heap'.end
  BY <1>1, HeapsAssumption
<1>3. TypeOK'
  BY <1>1, <1>2, U32MaxAssumption DEF IInv, TypeOK, MemoryRange, U32, NoAnswer
<1>4. RestOfHeap'
  BY <1>1, <1>2, U32MaxAssumption DEF RestOfHeap, NoRange, MemoryRange, U32
<1>5. BlocksOrdered'
  BY <1>1 DEF BlocksOrdered
<1>6. AnswerRight'
  BY <1>1 DEF AnswerRight, NoAnswer, None, Null
<1> QED
  BY <1>3, <1>4, <1>5, <1>6 DEF IInv

LEMMA AllocPreserves ==
  ASSUME IInv, NEW sz \in ReqSizes, NEW al \in ReqAligns, alloc(sz, al)
  PROVE  IInv'
<1> DEFINE a == align_up(ptr, al)
           b == [start |-> a, end |-> WrapAdd(a, sz)]
<1>0. requests' \in 0..MaxRequests /\ heap' = heap
  BY MaxRequestsAssumption DEF alloc, IInv, TypeOK
<1>1. CASE ~ Granted(sz, al)
  <2>1. /\ answer' = [size |-> sz, align |-> al, at |-> Null]
        /\ UNCHANGED <<ptr, size, blocks, heap>>
    BY <1>1 DEF alloc
  <2>2. TypeOK' /\ RestOfHeap' /\ BlocksOrdered'
    BY <1>0, <2>1 DEF IInv, TypeOK, RestOfHeap, BlocksOrdered
  <2>3. answer'.at = Null /\ answer'.align = al /\ answer'.size = sz
    BY <2>1
  <2>4. AnswerRight'
    <3> SUFFICES ASSUME heap # NoRange, NEW m \in ptr..heap.end, m % al = 0
                 PROVE  m + sz > heap.end
      BY <2>1, <2>3 DEF AnswerRight, Null
    <3>1. ~ (m + sz <= heap.end)
      BY <1>1, RefusedForLack
    <3>2. heap.end \in Int /\ m \in Int /\ sz \in Int
      BY HeapsAssumption, ReqSizesAssumption, U32MaxAssumption
         DEF IInv, TypeOK, MemoryRange, U32
    <3> QED BY <3>1, <3>2
  <2> QED
    BY <2>2, <2>4 DEF IInv
<1>2. CASE Granted(sz, al)
  <2>1. /\ ptr' = WrapAdd(a, sz) /\ size' = size - (Padding(al) + sz)
        /\ blocks' = Append(blocks, b) /\ answer' = [size |-> sz, align |-> al, at |-> a]
    BY <1>2 DEF alloc
  <2>2. /\ heap \in Heaps /\ heap.end \in U32 /\ a \in U32 /\ ptr <= a
        /\ WrapAdd(a, sz) = a + sz /\ a + sz <= heap.end
        /\ size' \in U32 /\ a + sz + size' = heap.end
    BY <1>2, <2>1, GrantedFits
  <2>3. /\ ptr \in U32 /\ blocks \in Seq(MemoryRange) /\ heap \in MemoryRange /\ heap # NoRange
        /\ heap.start <= ptr
    BY <2>2, HeapsAssumption, U32MaxAssumption
       DEF IInv, TypeOK, RestOfHeap, Granted, None, NoRange, MemoryRange, U32
  <2> HIDE DEF a
  <2>4. sz \in U32 \ {0}
    BY ReqSizesAssumption
  <2>5. a + sz \in U32 /\ a < a + sz /\ b \in MemoryRange
    BY <2>2, <2>4, U32MaxAssumption DEF U32, MemoryRange
  <2>6. TypeOK'
    BY <1>0, <2>1, <2>2, <2>3, <2>5 DEF IInv, TypeOK
  <2>9. AnswerRight'
    <3>1. a % al = 0
      BY <2>3, AlignUpAligned DEF a
    <3>2. answer'.at = a /\ answer'.align = al /\ answer'.at # Null
      BY <2>1, <2>2, U32MaxAssumption DEF Null, U32
    <3> QED BY <3>1, <3>2 DEF AnswerRight
  <2>7. RestOfHeap'
    BY <1>0, <2>1, <2>2, <2>3, <2>4, U32MaxAssumption DEF RestOfHeap, U32, MemoryRange
  <2>8. BlocksOrdered'
    <3> HIDE DEF b
    <3>0. BlocksOrdered
      BY DEF IInv
    <3>1. /\ Len(blocks') = Len(blocks) + 1 /\ Len(blocks) \in Nat
          /\ \A i \in 1..Len(blocks) : blocks'[i] = blocks[i]
          /\ blocks'[Len(blocks) + 1] = b
      BY <2>1, <2>3
    <3>2. b.start = a /\ b.end = a + sz
      BY <2>2 DEF b
    <3>3. \A i \in 1..Len(blocks) : blocks[i] \in MemoryRange /\ blocks[i].end \in Int
                                    /\ blocks[i].start \in Int
      <4> SUFFICES ASSUME NEW i \in 1..Len(blocks)
                   PROVE  blocks[i] \in MemoryRange /\ blocks[i].end \in Int
                          /\ blocks[i].start \in Int
        OBVIOUS
      <4>1. blocks[i] \in MemoryRange
        BY <2>3
      <4> QED
        BY <4>1, U32MaxAssumption DEF MemoryRange, U32
    <3>4. heap.start \in Int /\ a \in Int /\ ptr \in Int /\ sz \in Int /\ sz > 0
      BY <2>2, <2>3, <2>4, U32MaxAssumption DEF MemoryRange, U32
    <3>5. ASSUME NEW i \in 1..Len(blocks')
          PROVE  /\ heap.start <= blocks'[i].start
                 /\ blocks'[i].start < blocks'[i].end
                 /\ blocks'[i].end <= ptr'
      <4>1. CASE i \in 1..Len(blocks)
        BY <2>1, <2>2, <3>0, <3>1, <3>3, <3>4, <4>1 DEF BlocksOrdered
      <4>2. CASE i = Len(blocks) + 1
        BY <2>1, <2>2, <2>3, <3>1, <3>2, <3>4, <4>2
      <4> QED
        BY <3>1, <4>1, <4>2
    <3>6. ASSUME NEW i \in 1..Len(blocks'), NEW j \in 1..Len(blocks'), i < j
          PROVE  blocks'[i].end <= blocks'[j].start
      <4>1. i \in 1..Len(blocks)
        BY <3>1, <3>6
      <4>2. CASE j \in 1..Len(blocks)
        BY <3>0, <3>1, <3>6, <4>1, <4>2 DEF BlocksOrdered
      <4>3. CASE j = Len(blocks) + 1
        BY <2>2, <3>0, <3>1, <3>2, <3>3, <3>4, <4>1, <4>3 DEF BlocksOrdered
      <4> QED
        BY <3>1, <4>2, <4>3
    <3> QED
      BY <1>0, <3>5, <3>6 DEF BlocksOrdered
  <2> QED
    BY <2>6, <2>7, <2>8, <2>9 DEF IInv
<1> QED
  BY <1>1, <1>2

LEMMA NextIInv == IInv /\ [Next]_vars => IInv'
<1> SUFFICES ASSUME IInv, [Next]_vars PROVE IInv'
  OBVIOUS
<1>1. CASE InitHeap
  BY <1>1, InitHeapPreserves
<1>2. ASSUME NEW sz \in ReqSizes, NEW al \in ReqAligns, alloc(sz, al) PROVE IInv'
  BY <1>2, AllocPreserves
<1>3. CASE UNCHANGED vars
  BY <1>3 DEF vars, IInv, TypeOK, RestOfHeap, BlocksOrdered, AnswerRight
<1> QED
  BY <1>1, <1>2, <1>3 DEF Next, Stop

LEMMA Inductive == Spec => []IInv
BY InitIInv, NextIInv, PTL DEF Spec

-----------------------------------------------------------------------------
(* The allocator's cells stay u32 values whatever is asked of it.          *)
THEOREM TypeCorrect == Spec => []TypeOK
<1>1. IInv => TypeOK
  BY DEF IInv
<1> QED
  BY <1>1, Inductive, PTL

(* ptr and size account for exactly the unused rest of the heap.           *)
THEOREM RestOfHeapCorrect == Spec => []RestOfHeap
<1>1. IInv => RestOfHeap
  BY DEF IInv
<1> QED
  BY <1>1, Inductive, PTL

(* Live blocks are disjoint and inside the heap.                           *)
THEOREM BlocksDisjointCorrect == Spec => []BlocksDisjoint
<1>1. IInv => BlocksDisjoint
  <2> SUFFICES ASSUME IInv PROVE BlocksDisjoint
    OBVIOUS
  <2>1. CASE heap = NoRange
    BY <2>1 DEF IInv, RestOfHeap, BlocksDisjoint
  <2>2. CASE heap # NoRange
    <3>1. /\ heap \in MemoryRange /\ ptr \in Int /\ heap.end \in Int /\ ptr <= heap.end
      BY <2>2, HeapsAssumption, U32MaxAssumption
         DEF IInv, TypeOK, RestOfHeap, MemoryRange, U32
    <3>2. \A i \in 1..Len(blocks) : blocks[i].start \in Int /\ blocks[i].end \in Int
      <4> SUFFICES ASSUME NEW i \in 1..Len(blocks)
                   PROVE  blocks[i].start \in Int /\ blocks[i].end \in Int
        OBVIOUS
      <4>1. blocks[i] \in MemoryRange
        BY DEF IInv, TypeOK
      <4> QED
        BY <4>1, U32MaxAssumption DEF MemoryRange, U32
    <3>3. Len(blocks) \in Nat
      BY DEF IInv, TypeOK
    <3>4. \A i \in 1..Len(blocks) : /\ heap.start <= blocks[i].start
                                    /\ blocks[i].start < blocks[i].end
                                    /\ blocks[i].end <= heap.end
      BY <3>1, <3>2 DEF IInv, BlocksOrdered
    <3>5. ASSUME NEW i \in 1..Len(blocks), NEW j \in 1..Len(blocks), i # j
          PROVE  ~ Overlap(blocks[i], blocks[j])
      <4>1. i < j \/ j < i
        BY <3>3, <3>5
      <4>2. i < j => blocks[i].end <= blocks[j].start
        BY DEF IInv, BlocksOrdered
      <4>3. j < i => blocks[j].end <= blocks[i].start
        BY DEF IInv, BlocksOrdered
      <4> QED
        BY <3>2, <4>1, <4>2, <4>3 DEF Overlap
    <3> QED
      BY <3>4, <3>5 DEF BlocksDisjoint
  <2> QED
    BY <2>1, <2>2
<1> QED
  BY <1>1, Inductive, PTL

(* A granted block has the alignment of its layout, and a null is returned *)
(* only when no aligned place is left in the heap.                         *)
THEOREM AnswerRightCorrect == Spec => []AnswerRight
<1>1. IInv => AnswerRight
  BY DEF IInv
<1> QED
  BY <1>1, Inductive, PTL

(* The pointer never goes down.                                            *)
THEOREM PtrGoesUpCorrect == Spec => PtrGoesUp
<1>1. IInv /\ [Next]_vars => [ptr # None => ptr' >= ptr]_vars
  <2> SUFFICES ASSUME IInv, Next, ptr # None PROVE ptr' >= ptr
    OBVIOUS
  <2>0. ptr \in U32 /\ heap # NoRange
    BY DEF IInv, TypeOK, RestOfHeap
  <2>1. CASE InitHeap
    BY <2>0, <2>1 DEF InitHeap
  <2>2. ASSUME NEW sz \in ReqSizes, NEW al \in ReqAligns, alloc(sz, al)
        PROVE  ptr' >= ptr
    <3>1. CASE Granted(sz, al)
      <4>1. ptr' = WrapAdd(align_up(ptr, al), sz)
        BY <2>2, <3>1 DEF alloc
      <4>2. sz \in U32
        BY ReqSizesAssumption
      <4>3. /\ align_up(ptr, al) \in U32 /\ ptr <= align_up(ptr, al)
            /\ ptr' = align_up(ptr, al) + sz
        BY <3>1, <4>1, GrantedFits
      <4> QED
        BY <2>0, <4>2, <4>3, U32MaxAssumption DEF U32
    <3>2. CASE ~ Granted(sz, al)
      BY <2>0, <2>2, <3>2, U32MaxAssumption DEF alloc, U32
    <3> QED
      BY <3>1, <3>2
  <2>3. CASE Stop
    BY <2>0, <2>3, U32MaxAssumption DEF Stop, vars, U32
  <2> QED
    BY <2>1, <2>2, <2>3 DEF Next
<1> QED
  BY <1>1, Inductive, PTL DEF Spec, PtrGoesUp
=============================================================================
