-------------------------- MODULE InterceptorProofs --------------------------
(***************************************************************************)
(* The 64 bytes that replace allocates hold every trampoline, whatever     *)
(* code it meets, wherever the targets are and however often functions are *)
(* hooked and reverted.                                                    *)
(*                                                                         *)
(* A halfword of the target costs at most five halfwords of the trampoline *)
(* (a short load of a literal: a nop, a movw and a movt), so five of them  *)
(* cost 50 bytes; a last instruction of four bytes at offset eight costs   *)
(* no more than a short one.  The jump back adds a nop and eight bytes.    *)
(***************************************************************************)
EXTENDS Interceptor, TLAPS, NaturalsInduction, WellFoundedInduction

Entries == [address : Nat, jump_address : Nat, size : Int]
FittingEntries == {e \in Entries : e.size <= CodeSize}

TypeOK ==
  /\ heap \in Nat /\ heap % 4 = 0 /\ cap \in Nat
  /\ pc \in {"idle", "relocating", "halted"}
  /\ address \in Seq(Nat)
  /\ trampoline \in Seq(FittingEntries)
  /\ Len(address) = Len(trampoline)
  /\ call \in [hook : Hooks \cup {0}, target : Nat, code : Nat, n_target : Nat, ptr : Nat]

(* How far the trampoline can be after n bytes of the target.              *)
Worst(n) == IF n <= 10 THEN 5 * n ELSE 50

CallInv ==
  /\ call.n_target % 2 = 0 /\ call.n_target <= 12
  /\ call.ptr % 2 = 0
  /\ call.ptr - call.code <= Worst(call.n_target)

IInv == TypeOK /\ CallInv

-----------------------------------------------------------------------------
(* What the writer adds.                                                   *)

LEMMA Write16Ptr ==
  ASSUME NEW w, NEW hw
  PROVE  write16(w, hw).ptr = w.ptr + 2
  BY DEF write16

LEMMA AlignPtr ==
  ASSUME NEW w, w.ptr \in Nat, w.ptr % 2 = 0
  PROVE  /\ Align(w).ptr \in Nat /\ Align(w).ptr % 4 = 0
         /\ w.ptr <= Align(w).ptr /\ Align(w).ptr <= w.ptr + 2
<1>1. CASE w.ptr % 4 = 0
  BY <1>1 DEF Align, is_aligned32
<1>2. CASE w.ptr % 4 # 0
  <2>1. Align(w).ptr = w.ptr + 2
    BY <1>2, Write16Ptr DEF Align, is_aligned32, nop
  <2>2. (w.ptr + 2) % 4 = 0
    BY <1>2
  <2> QED BY <2>1, <2>2
<1> QED BY <1>1, <1>2

LEMMA Write32Ptr ==
  ASSUME NEW w, w.ptr \in Nat, w.ptr % 2 = 0, NEW lo, NEW hi
  PROVE  /\ write32(w, lo, hi).ptr = Align(w).ptr + 4
         /\ write32(w, lo, hi).ptr \in Nat /\ write32(w, lo, hi).ptr % 4 = 0
         /\ write32(w, lo, hi).ptr <= w.ptr + 6
         /\ w.ptr % 4 = 0 => write32(w, lo, hi).ptr = w.ptr + 4
<1>1. /\ Align(w).ptr \in Nat /\ Align(w).ptr % 4 = 0
      /\ w.ptr <= Align(w).ptr /\ Align(w).ptr <= w.ptr + 2
  BY AlignPtr
<1>2. write32(w, lo, hi).ptr = Align(w).ptr + 2 + 2
  BY Write16Ptr DEF write32
<1>3. w.ptr % 4 = 0 => Align(w) = w
  BY DEF Align, is_aligned32
<1>4. (Align(w).ptr + 4) % 4 = 0
  BY <1>1
<1> QED BY <1>1, <1>2, <1>3, <1>4

(* A literal becomes at most ten bytes.                                    *)
LEMMA LiteralPtr ==
  ASSUME NEW w, w.ptr \in Nat, w.ptr % 2 = 0, NEW r, NEW v1, NEW v2
  PROVE  /\ movt(movw(w, r, v1), r, v2).ptr \in Nat
         /\ movt(movw(w, r, v1), r, v2).ptr % 2 = 0
         /\ movt(movw(w, r, v1), r, v2).ptr <= w.ptr + 10
<1> DEFINE x == movw(w, r, v1)
           y == movt(x, r, v2)
<1>1. x.ptr \in Nat /\ x.ptr % 4 = 0 /\ x.ptr <= w.ptr + 6
  BY Write32Ptr DEF movw
<1> HIDE DEF x
<1>2. x.ptr % 2 = 0
  BY <1>1
<1>3. y.ptr \in Nat /\ y.ptr % 4 = 0 /\ y.ptr = x.ptr + 4
  BY <1>1, <1>2, Write32Ptr DEF movt
<1> HIDE DEF y
<1>4. y.ptr % 2 = 0
  BY <1>3
<1> QED BY <1>1, <1>3, <1>4 DEF x, y

(* The jump is eight bytes once the pointer is aligned.                    *)
LEMMA JumpoutPtr ==
  ASSUME NEW w, w.ptr \in Nat, w.ptr % 2 = 0, NEW a
  PROVE  /\ jumpout(Align(w), a).ptr \in Nat
         /\ jumpout(Align(w), a).ptr <= w.ptr + 10
<1> DEFINE x == Align(w)
           y == write32(x, <<"ldr_w", LdrPc, 0>>, <<"ldr_w", LdrPc, 1>>)
           z == write32(y, <<"addr", a, 0>>, <<"addr", a, 1>>)
<1>1. x.ptr \in Nat /\ x.ptr % 4 = 0 /\ x.ptr <= w.ptr + 2
  BY AlignPtr
<1> HIDE DEF x
<1>2. x.ptr % 2 = 0
  BY <1>1
<1>3. y.ptr \in Nat /\ y.ptr % 4 = 0 /\ y.ptr = x.ptr + 4
  BY <1>1, <1>2, Write32Ptr
<1> HIDE DEF y
<1>4. y.ptr % 2 = 0
  BY <1>3
<1>5. z.ptr \in Nat /\ z.ptr = y.ptr + 4
  BY <1>3, <1>4, Write32Ptr
<1>6. jumpout(x, a) = z
  BY DEF jumpout, y, z
<1> QED BY <1>1, <1>3, <1>5, <1>6 DEF x

(* One instruction, long or short: ten bytes at most.                      *)
LEMMA RelocatedPtr ==
  ASSUME NEW w, w.ptr \in Nat, w.ptr % 2 = 0, NEW at
  PROVE  /\ Relocated(w, at).ptr \in Nat
         /\ Relocated(w, at).ptr % 2 = 0
         /\ Relocated(w, at).ptr <= w.ptr + 10
<1> DEFINE hw == mem[at]
<1>1. CASE is_ldr_w(hw) \/ is_ldr(hw)
  BY <1>1, LiteralPtr DEF Relocated
<1>2. CASE ~ (is_ldr_w(hw) \/ is_ldr(hw)) /\ is_32bit(hw)
  <2>1. Relocated(w, at).ptr = w.ptr + 2 + 2
    BY <1>2, Write16Ptr DEF Relocated
  <2> QED BY <2>1
<1>3. CASE ~ (is_ldr_w(hw) \/ is_ldr(hw)) /\ ~ is_32bit(hw)
  <2>1. Relocated(w, at).ptr = w.ptr + 2
    BY <1>3, Write16Ptr DEF Relocated
  <2> QED BY <2>1
<1> QED BY <1>1, <1>2, <1>3

(* The induction that finds the first place.                              *)
LEMMA LeastNat ==
  ASSUME NEW S \in SUBSET Nat, S # {}
  PROVE  \E i \in S : \A j \in S : i <= j
<1> DEFINE R == OpToRel(<, Nat)
<1>1. IsWellFoundedOn(R, Nat)
  BY NatLessThanWellFounded
<1>2. S \subseteq Nat
  OBVIOUS
<1>3. \A x, y \in Nat : <<y, x>> \in R <=> y < x
  BY DEF OpToRel
<1> HIDE DEF R
<1>4. PICK x \in S : \A y \in S : ~ (<<y, x>> \in R)
  BY <1>1, <1>2, WFMin
<1>5. \A y \in S : ~ (y < x)
  BY <1>2, <1>3, <1>4
<1>6. \A y \in S : x <= y
  BY <1>2, <1>5
<1> QED
  BY <1>6

(* The place of a target in the table is one.                              *)
LEMMA PositionInside ==
  ASSUME TypeOK, NEW t, Position(t) # 0
  PROVE  Position(t) \in 1..Len(address) /\ address[Position(t)] = Unmask(t)
<1> DEFINE I == {i \in 1..Len(address) : address[i] = Unmask(t)}
<1>1. Position(t) = IF I # {} THEN Min(I) ELSE 0
  BY DEF Position, SelectInSeq
<1>2. I # {} /\ Position(t) = Min(I)
  BY <1>1
<1>3. I \in SUBSET Nat
  OBVIOUS
<1>4. \E i \in I : \A j \in I : i <= j
  <2> HIDE DEF I
  <2> QED BY <1>2, <1>3, LeastNat
<1>5. Min(I) \in I
  BY <1>4 DEF Min
<1> QED BY <1>2, <1>5

LEMMA RemoveKeeps ==
  ASSUME NEW S, NEW s \in Seq(S), NEW i \in 1..Len(s)
  PROVE  RemoveAt(s, i) \in Seq(S) /\ Len(RemoveAt(s, i)) = Len(s) - 1
<1>1. Len(s) \in Nat
  OBVIOUS
<1>2. SubSeq(s, 1, i - 1) \in Seq(S) /\ Len(SubSeq(s, 1, i - 1)) = i - 1
  BY <1>1
<1>3. SubSeq(s, i + 1, Len(s)) \in Seq(S) /\ Len(SubSeq(s, i + 1, Len(s))) = Len(s) - i
  BY <1>1
<1> DEFINE a == SubSeq(s, 1, i - 1)
           b == SubSeq(s, i + 1, Len(s))
<1> HIDE DEF a, b
<1>4. \A x, y \in Seq(S) : x \o y \in Seq(S) /\ Len(x \o y) = Len(x) + Len(y)
  OBVIOUS
<1>5. a \o b \in Seq(S) /\ Len(a \o b) = (i - 1) + (Len(s) - i)
  BY <1>2, <1>3, <1>4 DEF a, b
<1>6. RemoveAt(s, i) = a \o b
  BY DEF RemoveAt, a, b
<1> QED BY <1>1, <1>5, <1>6

(* Allocations keep the heap aligned.                                      *)
LEMMA AllocType ==
  ASSUME NEW at \in Nat, at % 4 = 0, NEW n \in Nat, n % 4 = 0
  PROVE  /\ alloc(at, n).at \in Nat /\ alloc(at, n).at % 4 = 0
         /\ alloc(at, n).next \in Nat /\ alloc(at, n).next % 4 = 0
<1>1. at + n \in Nat /\ (at + n) % 4 = 0
  OBVIOUS
<1>2. CASE at + n <= HeapEnd
  BY <1>1, <1>2 DEF alloc
<1>3. CASE ~ (at + n <= HeapEnd)
  BY <1>3 DEF alloc, Null
<1> QED BY <1>2, <1>3

LEMMA GrownType ==
  ASSUME cap \in Nat
  PROVE  /\ Grown \in Nat
         /\ 8 * Grown \in Nat /\ (8 * Grown) % 4 = 0
         /\ 4 * Grown \in Nat /\ (4 * Grown) % 4 = 0
<1>1. Grown \in Nat
  BY DEF Grown
<1> QED BY <1>1

-----------------------------------------------------------------------------
LEMMA InitIInv == Init => IInv
<1> SUFFICES ASSUME Init PROVE IInv
  OBVIOUS
<1>1. TypeOK
  BY LayoutsAssumption DEF Init, TypeOK, NoCall, Null
<1>2. CallInv
  BY DEF Init, CallInv, NoCall, Null, Worst
<1> QED BY <1>1, <1>2 DEF IInv

LEMMA BeginPreserves ==
  ASSUME IInv, NEW h \in Hooks, NEW t \in Targets, Begin(h, t)
  PROVE  IInv'
<1>1. cap' = cap /\ address' = address /\ trampoline' = trampoline
  BY DEF Begin
<1>2. CASE t % 2 = 0
  BY <1>1, <1>2 DEF Begin, IInv, TypeOK, CallInv
<1>3. CASE t % 2 # 0
  <2> DEFINE code == alloc(heap, CodeSize)
  <2>1. code.at \in Nat /\ code.at % 4 = 0 /\ code.next \in Nat /\ code.next % 4 = 0
    BY AllocType DEF IInv, TypeOK, CodeSize
  <2>2. /\ heap' = code.next /\ pc' = "relocating"
        /\ call' = [hook |-> h, target |-> Unmask(t), code |-> code.at,
                    n_target |-> 0, ptr |-> code.at]
    BY <1>3 DEF Begin
  <2> HIDE DEF code
  <2>3. Unmask(t) \in Nat
    BY TargetsAssumption DEF Unmask
  <2>4. code.at % 2 = 0
    BY <2>1
  <2>5. TypeOK'
    BY <1>1, <2>1, <2>2, <2>3 DEF IInv, TypeOK
  <2>6. CallInv'
    BY <2>1, <2>2, <2>4 DEF CallInv, Worst
  <2> QED BY <2>5, <2>6 DEF IInv
<1> QED BY <1>2, <1>3

LEMMA RelocatePreserves == IInv /\ Relocate => IInv'
<1> SUFFICES ASSUME IInv, Relocate PROVE IInv'
  OBVIOUS
<1> DEFINE at == call.target + call.n_target
           w == Relocated([mem |-> mem, ptr |-> call.ptr], at)
           k == IF is_32bit(mem[at]) THEN 4 ELSE 2
<1>1. /\ call.n_target < 10
      /\ call' = [call EXCEPT !.ptr = w.ptr, !.n_target = @ + k]
      /\ UNCHANGED <<heap, cap, address, trampoline, pc>>
  BY DEF Relocate, PatchSize, pool
<1>2. /\ call \in [hook : Hooks \cup {0}, target : Nat, code : Nat, n_target : Nat, ptr : Nat]
      /\ call.n_target \in Nat /\ call.ptr \in Nat /\ call.code \in Nat
  BY DEF IInv, TypeOK
<1>3. w.ptr \in Nat /\ w.ptr % 2 = 0 /\ w.ptr <= call.ptr + 10
  BY <1>2, RelocatedPtr DEF IInv, CallInv
<1>4. k \in {2, 4}
  OBVIOUS
<1> HIDE DEF w, k
<1>5. call' = [hook |-> call.hook, target |-> call.target, code |-> call.code,
               n_target |-> call.n_target + k, ptr |-> w.ptr]
  BY <1>1, <1>2
<1>6. call.n_target + k \in Nat
  BY <1>2, <1>4
<1>7. /\ call'.n_target = call.n_target + k /\ call'.ptr = w.ptr /\ call'.code = call.code
      /\ call' \in [hook : Hooks \cup {0}, target : Nat, code : Nat, n_target : Nat, ptr : Nat]
  BY <1>2, <1>3, <1>5, <1>6
<1>8. TypeOK'
  BY <1>1, <1>7 DEF IInv, TypeOK
<1>9. CallInv'
  <2>1. /\ call.n_target % 2 = 0 /\ call.ptr - call.code <= Worst(call.n_target)
    BY DEF IInv, CallInv
  <2>2. call.n_target <= 8 /\ Worst(call.n_target) = 5 * call.n_target
    BY <1>1, <1>2, <2>1 DEF Worst
  <2>3. (call.n_target + k) % 2 = 0 /\ call.n_target + k <= 12
    BY <1>2, <1>4, <2>1, <2>2
  <2>4. w.ptr - call.code <= Worst(call.n_target + k)
    BY <1>2, <1>3, <1>4, <2>1, <2>2 DEF Worst
  <2> QED BY <1>3, <1>7, <2>3, <2>4 DEF CallInv
<1> QED BY <1>8, <1>9 DEF IInv

LEMMA InstallPreserves == IInv /\ Install => IInv'
<1> SUFFICES ASSUME IInv, Install PROVE IInv'
  OBVIOUS
<1> DEFINE w == jumpout(Align([mem |-> mem, ptr |-> call.ptr]), JumpBack(call))
           full == Len(address) = cap
           t1 == IF full THEN alloc(heap, 8 * Grown) ELSE [at |-> heap, next |-> heap]
           t2 == IF full THEN alloc(t1.next, 4 * Grown) ELSE t1
           e == [address |-> call.code, jump_address |-> JumpBack(call),
                 size |-> w.ptr - call.code]
<1>1. /\ call.ptr \in Nat /\ call.code \in Nat /\ call.target \in Nat /\ call.n_target \in Nat
      /\ heap \in Nat /\ heap % 4 = 0 /\ cap \in Nat
  BY DEF IInv, TypeOK
<1>2. call.ptr % 2 = 0 /\ call.ptr - call.code <= 50
  BY <1>1 DEF IInv, CallInv, Worst
<1>3. w.ptr \in Nat /\ w.ptr <= call.ptr + 10
  BY <1>1, <1>2, JumpoutPtr
<1>4. JumpBack(call) \in Nat
  BY <1>1 DEF JumpBack
<1>5. t2.next \in Nat /\ t2.next % 4 = 0
  <2>1. CASE full
    <3>1. /\ 8 * Grown \in Nat /\ (8 * Grown) % 4 = 0
          /\ 4 * Grown \in Nat /\ (4 * Grown) % 4 = 0
      BY <1>1, GrownType
    <3>2. alloc(heap, 8 * Grown).next \in Nat /\ alloc(heap, 8 * Grown).next % 4 = 0
      BY <1>1, <3>1, AllocType
    <3> QED BY <2>1, <3>1, <3>2, AllocType
  <2>2. CASE ~ full
    BY <1>1, <2>2
  <2> QED BY <2>1, <2>2
<1>6. \/ /\ pc' = "halted" /\ heap' = t2.next
         /\ UNCHANGED <<cap, address, trampoline, call>>
      \/ /\ trampoline' = Append(trampoline, e) /\ address' = Append(address, call.target)
         /\ heap' = t2.next /\ cap' \in {cap, Grown} /\ pc' = "idle" /\ call' = NoCall
  BY DEF Install
<1> HIDE DEF w, t1, t2
<1>7. e \in FittingEntries
  <2>1. w.ptr - call.code \in Int /\ w.ptr - call.code <= 64
    BY <1>1, <1>2, <1>3
  <2>2. e.size = w.ptr - call.code
    OBVIOUS
  <2>3. e \in Entries
    BY <1>1, <1>4, <2>1 DEF Entries
  <2> QED
    BY <2>1, <2>2, <2>3 DEF FittingEntries, CodeSize
<1> HIDE DEF e
<1>8. CASE /\ pc' = "halted" /\ heap' = t2.next
           /\ UNCHANGED <<cap, address, trampoline, call>>
  BY <1>5, <1>8 DEF IInv, TypeOK, CallInv
<1>9. CASE /\ trampoline' = Append(trampoline, e) /\ address' = Append(address, call.target)
           /\ heap' = t2.next /\ cap' \in {cap, Grown} /\ pc' = "idle" /\ call' = NoCall
  <2>1. /\ trampoline \in Seq(FittingEntries) /\ address \in Seq(Nat)
        /\ Len(address) = Len(trampoline)
    BY DEF IInv, TypeOK
  <2>2. /\ trampoline' \in Seq(FittingEntries) /\ address' \in Seq(Nat)
        /\ Len(address') = Len(trampoline')
    BY <1>1, <1>7, <1>9, <2>1
  <2>3. TypeOK'
    BY <1>1, <1>5, <1>9, <2>2, GrownType DEF TypeOK, NoCall, Null
  <2>4. CallInv'
    BY <1>9 DEF CallInv, NoCall, Null, Worst
  <2> QED BY <2>3, <2>4 DEF IInv
<1> QED BY <1>6, <1>8, <1>9

LEMMA RevertPreserves ==
  ASSUME IInv, NEW h \in Hooks, Revert(h)
  PROVE  IInv'
<1> DEFINE i == Position(ADDR[h])
<1>1. UNCHANGED <<heap, cap, pc, call>>
  BY DEF Revert
<1>2. CASE ADDR[h] % 2 = 0 \/ i = 0
  BY <1>1, <1>2 DEF Revert, IInv, TypeOK, CallInv
<1>3. CASE ~ (ADDR[h] % 2 = 0 \/ i = 0)
  <2>1. address' = RemoveAt(address, i) /\ trampoline' = RemoveAt(trampoline, i)
    BY <1>3 DEF Revert
  <2>2. /\ i \in 1..Len(address) /\ i \in 1..Len(trampoline)
        /\ trampoline \in Seq(FittingEntries) /\ address \in Seq(Nat)
        /\ Len(address) = Len(trampoline)
    BY <1>3, PositionInside DEF IInv, TypeOK
  <2> HIDE DEF i
  <2>3. /\ address' \in Seq(Nat) /\ Len(address') = Len(address) - 1
        /\ trampoline' \in Seq(FittingEntries) /\ Len(trampoline') = Len(trampoline) - 1
    BY <2>1, <2>2, RemoveKeeps
  <2>4. TypeOK'
    BY <1>1, <2>2, <2>3 DEF IInv, TypeOK
  <2>5. CallInv'
    BY <1>1 DEF IInv, CallInv
  <2> QED BY <2>4, <2>5 DEF IInv
<1> QED BY <1>2, <1>3

LEMMA NextIInv == IInv /\ [Next]_vars => IInv'
<1> SUFFICES ASSUME IInv, [Next]_vars PROVE IInv'
  OBVIOUS
<1>1. ASSUME NEW h \in Hooks, Revert(h) PROVE IInv'
  BY <1>1, RevertPreserves
<1>2. ASSUME NEW h \in Hooks, NEW t \in Targets, Begin(h, t) PROVE IInv'
  BY <1>2, BeginPreserves
<1>3. CASE NullFaults
  BY <1>3 DEF NullFaults, IInv, TypeOK, CallInv, pool
<1>4. CASE Relocate
  BY <1>4, RelocatePreserves
<1>5. CASE Install
  BY <1>5, InstallPreserves
<1>6. CASE UNCHANGED vars
  BY <1>6 DEF vars, pool, IInv, TypeOK, CallInv
<1> QED
  BY <1>1, <1>2, <1>3, <1>4, <1>5, <1>6 DEF Next, Stop

LEMMA Inductive == Spec => []IInv
BY InitIInv, NextIInv, PTL DEF Spec

-----------------------------------------------------------------------------
(* No trampoline, finished or under way, outgrows the 64 bytes that        *)
(* replace allocates for it.                                               *)
THEOREM TrampolineFitsCorrect == Spec => []TrampolineFits
<1>1. IInv => TrampolineFits
  <2> SUFFICES ASSUME IInv PROVE TrampolineFits
    OBVIOUS
  <2>1. ASSUME NEW i \in 1..Len(trampoline) PROVE trampoline[i].size <= CodeSize
    <3>1. trampoline[i] \in FittingEntries
      BY DEF IInv, TypeOK
    <3> QED BY <3>1 DEF FittingEntries
  <2>2. call.ptr \in Nat /\ call.code \in Nat /\ call.n_target \in Nat
    BY DEF IInv, TypeOK
  <2>3. call.ptr - call.code <= CodeSize
    BY <2>2 DEF IInv, CallInv, Worst, CodeSize
  <2> QED BY <2>1, <2>3 DEF TrampolineFits
<1> QED
  BY <1>1, Inductive, PTL
-----------------------------------------------------------------------------
(* What the writer touches: the bytes it moves its pointer over.           *)

Touches(w, v) ==
  /\ DOMAIN v.mem = DOMAIN w.mem /\ w.ptr <= v.ptr
  /\ \A a \in DOMAIN w.mem : ~ (w.ptr <= a /\ a < v.ptr) => v.mem[a] = w.mem[a]

(* A writer at an even address of a memory.                                *)
Writer(w) == /\ w.ptr \in Nat /\ w.ptr % 2 = 0
             /\ \A a \in DOMAIN w.mem : a \in Nat

LEMMA TouchesTransitive ==
  ASSUME NEW u, NEW v, NEW w, Writer(u), Writer(v), Writer(w), Touches(u, v), Touches(v, w)
  PROVE  Touches(u, w)
<1>1. DOMAIN w.mem = DOMAIN u.mem /\ u.ptr <= w.ptr
  BY DEF Touches, Writer
<1>2. ASSUME NEW a \in DOMAIN u.mem, ~ (u.ptr <= a /\ a < w.ptr) PROVE w.mem[a] = u.mem[a]
  <2>1. ~ (u.ptr <= a /\ a < v.ptr) /\ ~ (v.ptr <= a /\ a < w.ptr)
    BY <1>2 DEF Touches, Writer
  <2> QED BY <2>1 DEF Touches
<1> QED BY <1>1, <1>2 DEF Touches

LEMMA Write16Touches ==
  ASSUME NEW w, Writer(w), NEW hw
  PROVE  /\ Writer(write16(w, hw)) /\ Touches(w, write16(w, hw))
         /\ write16(w, hw).ptr = w.ptr + 2
         /\ w.ptr \in DOMAIN w.mem => write16(w, hw).mem[w.ptr] = hw
<1> DEFINE v == write16(w, hw)
<1>1. v.ptr = w.ptr + 2
  BY Write16Ptr
<1>2. v.mem = IF w.ptr \in DOMAIN w.mem THEN [w.mem EXCEPT ![w.ptr] = hw] ELSE w.mem
  BY DEF write16
<1> HIDE DEF v
<1>3. DOMAIN v.mem = DOMAIN w.mem
  BY <1>2
<1>4. v.ptr \in Nat /\ v.ptr % 2 = 0 /\ w.ptr <= v.ptr
  BY <1>1 DEF Writer
<1>5. w.ptr \in DOMAIN w.mem => v.mem[w.ptr] = hw
  BY <1>2
<1>6. ASSUME NEW a \in DOMAIN w.mem, ~ (w.ptr <= a /\ a < v.ptr) PROVE v.mem[a] = w.mem[a]
  <2>1. a # w.ptr
    BY <1>1, <1>6 DEF Writer
  <2> QED BY <1>2, <2>1
<1> QED
  BY <1>1, <1>3, <1>4, <1>5, <1>6 DEF Writer, Touches, v

LEMMA AlignTouches ==
  ASSUME NEW w, Writer(w)
  PROVE  Writer(Align(w)) /\ Touches(w, Align(w))
<1>1. CASE w.ptr % 4 = 0
  BY <1>1 DEF Align, is_aligned32, Touches, Writer
<1>2. CASE w.ptr % 4 # 0
  BY <1>2, Write16Touches DEF Align, is_aligned32, nop
<1> QED BY <1>1, <1>2

(* Two halfwords, behind the alignment.                                    *)
LEMMA Write32Touches ==
  ASSUME NEW w, Writer(w), NEW lo, NEW hi
  PROVE  Writer(write32(w, lo, hi)) /\ Touches(w, write32(w, lo, hi))
<1> DEFINE x == Align(w)
           y == write16(x, lo)
           z == write16(y, hi)
<1>1. Writer(x) /\ Touches(w, x)
  BY AlignTouches
<1> HIDE DEF x
<1>2. Writer(y) /\ Touches(x, y)
  BY <1>1, Write16Touches
<1> HIDE DEF y
<1>3. Writer(z) /\ Touches(y, z)
  BY <1>2, Write16Touches
<1> HIDE DEF z
<1>4. Touches(w, z)
  BY <1>1, <1>2, <1>3, TouchesTransitive
<1>5. write32(w, lo, hi) = z
  BY DEF write32, x, y, z
<1> QED BY <1>3, <1>4, <1>5

LEMMA LiteralTouches ==
  ASSUME NEW w, Writer(w), NEW r, NEW v1, NEW v2
  PROVE  Touches(w, movt(movw(w, r, v1), r, v2))
<1> DEFINE x == movw(w, r, v1)
           y == movt(x, r, v2)
<1>1. Writer(x) /\ Touches(w, x)
  BY Write32Touches DEF movw
<1> HIDE DEF x
<1>2. Writer(y) /\ Touches(x, y)
  BY <1>1, Write32Touches DEF movt
<1> HIDE DEF y
<1>3. Touches(w, y)
  BY <1>1, <1>2, TouchesTransitive
<1> QED BY <1>3 DEF x, y

LEMMA RelocatedTouches ==
  ASSUME NEW w, Writer(w), NEW at
  PROVE  Touches(w, Relocated(w, at))
<1> DEFINE hw == mem[at]
<1>1. CASE is_ldr_w(hw) \/ is_ldr(hw)
  BY <1>1, LiteralTouches DEF Relocated
<1>2. CASE ~ (is_ldr_w(hw) \/ is_ldr(hw)) /\ is_32bit(hw)
  <2> DEFINE x == write16(w, hw)
             y == write16(x, mem[at + 2])
  <2>1. Writer(x) /\ Touches(w, x)
    BY Write16Touches
  <2>2. Relocated(w, at) = y
    BY <1>2 DEF Relocated
  <2> HIDE DEF x
  <2>3. Writer(y) /\ Touches(x, y)
    BY <2>1, Write16Touches
  <2> HIDE DEF y
  <2>4. Touches(w, y)
    BY <2>1, <2>3, TouchesTransitive
  <2> QED BY <2>2, <2>4
<1>3. CASE ~ (is_ldr_w(hw) \/ is_ldr(hw)) /\ ~ is_32bit(hw)
  <2>1. Relocated(w, at) = write16(w, hw)
    BY <1>3 DEF Relocated
  <2> QED BY <2>1, Write16Touches
<1> QED BY <1>1, <1>2, <1>3

LEMMA JumpoutTouches ==
  ASSUME NEW w, Writer(w), NEW a
  PROVE  Touches(w, jumpout(Align(w), a))
<1> DEFINE x == Align(w)
           y == write32(x, <<"ldr_w", LdrPc, 0>>, <<"ldr_w", LdrPc, 1>>)
           z == write32(y, <<"addr", a, 0>>, <<"addr", a, 1>>)
<1>1. Writer(x) /\ Touches(w, x)
  BY AlignTouches
<1> HIDE DEF x
<1>2. Writer(y) /\ Touches(x, y)
  BY <1>1, Write32Touches
<1>3. jumpout(x, a) = z
  BY DEF jumpout
<1> HIDE DEF y
<1>4. Writer(z) /\ Touches(y, z)
  BY <1>2, Write32Touches
<1> HIDE DEF z
<1>5. Touches(w, z)
  BY <1>1, <1>2, <1>4, TouchesTransitive
<1> QED BY <1>3, <1>5 DEF x

-----------------------------------------------------------------------------
(* The jump to the body of hook h is at the function t.                    *)
Jumps(m, t, h) ==
  LET p == IF t % 4 = 0 THEN t ELSE t + 2
  IN  /\ t % 4 # 0 => m[t] = <<"nop", 0, 0>>
      /\ m[p] = <<"ldr_w", LdrPc, 0>>
      /\ m[p + 4] = <<"addr", BodyAddr(h) + 1, 0>>

(* What can be executed and written to.                                    *)
MemInv ==
  /\ \A t \in Hookable : {t, t + 2, t + 4, t + 6, t + 8} \subseteq DOMAIN mem
  /\ \A a \in DOMAIN mem : a \in Nat /\ a >= CodeSize /\ a \notin BodyAddrs

(* The trampoline under way is on the heap or nowhere.                     *)
CodeInv ==
  /\ HeapStart <= heap /\ call.code <= call.ptr
  /\ call.code = Null \/ (HeapStart <= call.code /\ call.code + CodeSize <= HeapEnd)
  /\ pc = "relocating" => call.target \in Hookable /\ call.hook \in Hooks

(* What revert will write over belongs to the function of the entry.       *)
TableInv ==
  \A i \in 1..Len(address) :
    address[i] \in Hookable /\ trampoline[i].jump_address <= address[i] + 13

HookInv ==
  /\ DOMAIN newest = Hookable
  /\ \A t \in Hookable : newest[t] # 0 => newest[t] \in Hooks /\ Jumps(mem, t, newest[t])
  /\ \A t \in Hookable : newest[t] = 0 => t \in reverted \/ Untouched(t)

JInv == MemInv /\ CodeInv /\ TableInv /\ HookInv
(* The patch: an aligned jump in the first ten bytes.                      *)
LEMMA PatchedJumps ==
  ASSUME NEW m, NEW t \in Nat, t % 2 = 0, NEW h,
         \A a \in DOMAIN m : a \in Nat,
         {t, t + 2, t + 4, t + 6, t + 8} \subseteq DOMAIN m
  PROVE  /\ DOMAIN Patched(m, t, h) = DOMAIN m
         /\ \A a \in DOMAIN m : a < t \/ t + 10 <= a => Patched(m, t, h)[a] = m[a]
         /\ Jumps(Patched(m, t, h), t, h)
<1> DEFINE p == IF t % 4 = 0 THEN t ELSE t + 2
           ldr == <<"ldr_w", LdrPc, 0>>
           adr == <<"addr", BodyAddr(h) + 1, 0>>
           w == [mem |-> m, ptr |-> t]
           x == Align(w)
           y1 == write16(x, ldr)
           y == write16(y1, <<"ldr_w", LdrPc, 1>>)
           z1 == write16(y, adr)
           z == write16(z1, <<"addr", BodyAddr(h) + 1, 1>>)
<1>1. Writer(w) /\ w.ptr = t /\ w.mem = m
  BY DEF Writer
<1> HIDE DEF w
<1>2. Writer(x) /\ Touches(w, x)
  BY <1>1, AlignTouches
<1>3. x.ptr = p /\ (t % 4 # 0 => x.mem[t] = <<"nop", 0, 0>>)
  <2>1. CASE t % 4 = 0
    BY <1>1, <2>1 DEF Align, is_aligned32
  <2>2. CASE t % 4 # 0
    BY <1>1, <2>2, Write16Touches DEF Align, is_aligned32, nop
  <2> QED BY <2>1, <2>2
<1>4. p \in Nat /\ p % 4 = 0 /\ t <= p /\ p <= t + 2 /\ (t % 4 # 0 => t < p)
  OBVIOUS
<1>5. p \in DOMAIN m /\ p + 4 \in DOMAIN m
  OBVIOUS
<1> HIDE DEF x, p
<1>6. DOMAIN x.mem = DOMAIN m
  BY <1>1, <1>2 DEF Touches
<1>7. Writer(y1) /\ Touches(x, y1) /\ y1.ptr = p + 2 /\ y1.mem[p] = ldr
  BY <1>2, <1>3, <1>5, <1>6, Write16Touches
<1> HIDE DEF y1
<1>8. Writer(y) /\ Touches(y1, y) /\ y.ptr = p + 4
  BY <1>4, <1>7, Write16Touches
<1> HIDE DEF y
<1>9. DOMAIN y1.mem = DOMAIN m /\ DOMAIN y.mem = DOMAIN m
  BY <1>6, <1>7, <1>8 DEF Touches
<1>10. Writer(z1) /\ Touches(y, z1) /\ z1.ptr = p + 6 /\ z1.mem[p + 4] = adr
  BY <1>4, <1>5, <1>8, <1>9, Write16Touches
<1> HIDE DEF z1
<1>11. Writer(z) /\ Touches(z1, z) /\ z.ptr = p + 8
  BY <1>4, <1>10, Write16Touches
<1> HIDE DEF z
<1>12. DOMAIN z1.mem = DOMAIN m /\ DOMAIN z.mem = DOMAIN m
  BY <1>9, <1>10, <1>11 DEF Touches
<1>13. Patched(m, t, h) = z.mem
  <2>1. Align(x) = x
    BY <1>3, <1>4 DEF Align, is_aligned32
  <2>2. (p + 4) % 4 = 0
    BY <1>4
  <2>3. Align(y) = y
    BY <1>8, <2>2 DEF Align, is_aligned32
  <2>4. jumpout(x, BodyAddr(h) + 1) = z
    BY <2>1, <2>3 DEF jumpout, write32, y1, y, z1, z
  <2> QED BY <2>4 DEF Patched, x, w
<1>14. Touches(w, z)
  BY <1>1, <1>2, <1>7, <1>8, <1>10, <1>11, TouchesTransitive
<1>15. \A a \in DOMAIN m : a < t \/ t + 10 <= a => z.mem[a] = m[a]
  BY <1>1, <1>4, <1>11, <1>14 DEF Touches
<1>16. z.mem[p] = ldr
  BY <1>4, <1>5, <1>7, <1>8, <1>9, <1>10, <1>11, <1>12 DEF Touches
<1>17. z.mem[p + 4] = adr
  BY <1>4, <1>5, <1>10, <1>11, <1>12 DEF Touches
<1>18. t % 4 # 0 => z.mem[t] = <<"nop", 0, 0>>
  <2> SUFFICES ASSUME t % 4 # 0 PROVE z.mem[t] = <<"nop", 0, 0>>
    OBVIOUS
  <2>1. t < p /\ t \in DOMAIN m
    BY <1>4
  <2>2. y1.mem[t] = x.mem[t] /\ y.mem[t] = y1.mem[t] /\ z1.mem[t] = y.mem[t] /\ z.mem[t] = z1.mem[t]
    BY <1>3, <1>4, <1>6, <1>7, <1>8, <1>9, <1>10, <1>11, <1>12, <2>1 DEF Touches
  <2> QED BY <1>3, <2>2
<1> QED
  BY <1>12, <1>13, <1>15, <1>16, <1>17, <1>18 DEF Jumps, p

-----------------------------------------------------------------------------
(* What the processor makes of it.  s is a state in which it is about to   *)
(* execute what is at a, having done nothing yet.                          *)

State(s) == DOMAIN s = {"at", "out", "over"}
IsAt(s, a) == State(s) /\ s.at = a /\ s.out = <<>> /\ s.over = FALSE
InBody(s, h) == s.out = <<<<"body", BodyAddr(h)>>>> /\ s.over = TRUE

LEMMA StateMoves ==
  ASSUME NEW s, NEW a, IsAt(s, a), NEW b
  PROVE  IsAt([s EXCEPT !.at = b], b)
  BY DEF IsAt, State

LEMMA StateStarts ==
  ASSUME NEW a
  PROVE  IsAt([at |-> a, out |-> <<>>, over |-> FALSE], a)
  BY DEF IsAt, State

LEMMA StateEnds ==
  ASSUME NEW s, State(s), NEW e
  PROVE  End(s, e).out = Append(s.out, e) /\ End(s, e).over = TRUE
  BY DEF End, State

LEMMA ExecutesNop ==
  ASSUME NEW m, NEW s, NEW a, IsAt(s, a),
         a \in DOMAIN m, a \notin BodyAddrs, m[a] = <<"nop", 0, 0>>
  PROVE  IsAt(Execute(m, s), a + 2)
<1>1. s.at = a
  BY DEF IsAt
<1>2. Instruction(m, s) = [s EXCEPT !.at = a + 2]
  BY <1>1 DEF Instruction
<1>3. Execute(m, s) = Instruction(m, s)
  BY <1>1 DEF Execute
<1> QED BY <1>2, <1>3, StateMoves

LEMMA ExecutesJump ==
  ASSUME NEW m, NEW s, NEW a \in Nat, IsAt(s, a), a % 4 = 0, a \in DOMAIN m, a \notin BodyAddrs,
         NEW h \in Hooks,
         m[a] = <<"ldr_w", LdrPc, 0>>, m[a + 4] = <<"addr", BodyAddr(h) + 1, 0>>
  PROVE  IsAt(Execute(m, s), BodyAddr(h))
<1>1. ((a + 4) \div 4) * 4 + 0 = a + 4
  OBVIOUS
<1>2. Unmask(BodyAddr(h) + 1) = BodyAddr(h)
  BY HooksAssumption DEF Unmask, BodyAddr
<1> DEFINE x == m[s.at][2]
           lit == ((s.at + 4) \div 4) * 4 + (IF x.add THEN x.imm ELSE - x.imm)
<1>3. s.at = a
  BY DEF IsAt
<1>4. x = LdrPc /\ lit = a + 4
  BY <1>1, <1>3 DEF LdrPc
<1>5. /\ m[s.at][1] = "ldr_w" /\ x.r = "pc" /\ m[s.at][3] = 0
      /\ m[lit][1] = "addr" /\ m[lit][2] = BodyAddr(h) + 1
  BY <1>3, <1>4 DEF LdrPc
<1>6. Instruction(m, s) = [s EXCEPT !.at = Unmask(m[lit][2])]
  BY <1>5 DEF Instruction
<1>7. Execute(m, s) = Instruction(m, s)
  BY <1>3, <1>5 DEF Execute
<1> QED BY <1>2, <1>5, <1>6, <1>7, StateMoves

LEMMA ExecutesBody ==
  ASSUME NEW m, NEW s, NEW h \in Hooks, IsAt(s, BodyAddr(h))
  PROVE  InBody(Execute(m, s), h)
<1>1. BodyAddr(h) \in BodyAddrs
  BY DEF BodyAddrs
<1>2. State(s) /\ s.at = BodyAddr(h) /\ s.out = <<>>
  BY DEF IsAt
<1>3. Execute(m, s) = End(s, <<"body", BodyAddr(h)>>)
  BY <1>1, <1>2 DEF Execute
<1>4. Append(s.out, <<"body", BodyAddr(h)>>) = <<<<"body", BodyAddr(h)>>>>
  BY <1>2
<1> QED BY <1>2, <1>3, <1>4, StateEnds DEF InBody

(* The states of a run, as a function that satisfies its recursion: with   *)
(* the jump in place they come to rest in the body after three steps.      *)
Step(m, s) == IF s.over THEN s ELSE Execute(m, s)
First(start) == [at |-> Unmask(start), out |-> <<>>, over |-> FALSE]
IsRun(r, m, start) ==
  r = [n \in 0..Fuel |-> IF n = 0 THEN First(start) ELSE Step(m, r[n - 1])]

LEMMA RunIsRun ==
  ASSUME NEW m, NEW start, \E r : IsRun(r, m, start)
  PROVE  \E r : IsRun(r, m, start) /\ Run(m, start) = r[Fuel].out
<1> DEFINE R == CHOOSE r : IsRun(r, m, start)
<1>1. IsRun(R, m, start)
  OBVIOUS
<1>2. Run(m, start) = R[Fuel].out
  BY DEF Run, IsRun, Step, First
<1> QED BY <1>1, <1>2

LEMMA ThreeSteps ==
  ASSUME NEW m, NEW t \in Nat, t % 2 = 0, NEW h \in Hooks, Jumps(m, t, h),
         {t, t + 2, t + 4, t + 6, t + 8} \subseteq DOMAIN m,
         \A a \in DOMAIN m : a \notin BodyAddrs
  PROVE  InBody(Step(m, Step(m, Step(m, First(t)))), h)
<1> DEFINE s0 == First(t)
           s1 == Step(m, s0)
           s2 == Step(m, s1)
           s3 == Step(m, s2)
<1>1. Unmask(t) = t
  BY DEF Unmask
<1>2. IsAt(s0, t)
  BY <1>1, StateStarts DEF First
<1> HIDE DEF s0
<1>3. ASSUME NEW s, NEW a, IsAt(s, a) PROVE Step(m, s) = Execute(m, s)
  BY <1>3 DEF IsAt, Step
<1>4. ASSUME NEW s, NEW x \in Hooks, InBody(s, x) PROVE Step(m, s) = s
  BY <1>4 DEF InBody, Step
<1>5. CASE t % 4 = 0
  <2>1. m[t] = <<"ldr_w", LdrPc, 0>> /\ m[t + 4] = <<"addr", BodyAddr(h) + 1, 0>>
    BY <1>5 DEF Jumps
  <2>2. IsAt(s1, BodyAddr(h))
    BY <1>2, <1>3, <1>5, <2>1, ExecutesJump
  <2> HIDE DEF s1
  <2>3. InBody(s2, h)
    BY <1>3, <2>2, ExecutesBody
  <2> HIDE DEF s2
  <2>4. s3 = s2
    BY <1>4, <2>3
  <2> QED BY <2>3, <2>4 DEF s0, s1, s2
<1>6. CASE t % 4 # 0
  <2>1. /\ m[t] = <<"nop", 0, 0>>
        /\ m[t + 2] = <<"ldr_w", LdrPc, 0>> /\ m[(t + 2) + 4] = <<"addr", BodyAddr(h) + 1, 0>>
    BY <1>6 DEF Jumps
  <2>2. IsAt(s1, t + 2)
    BY <1>2, <1>3, <2>1, ExecutesNop
  <2> HIDE DEF s1
  <2>3. t + 2 \in Nat /\ (t + 2) % 4 = 0 /\ t + 2 \in DOMAIN m
    BY <1>6
  <2>4. IsAt(s2, BodyAddr(h))
    BY <1>3, <2>1, <2>2, <2>3, ExecutesJump
  <2> HIDE DEF s2
  <2>5. InBody(s3, h)
    BY <1>3, <2>4, ExecutesBody
  <2> QED BY <2>5 DEF s0, s1, s2
<1> QED BY <1>5, <1>6

LEMMA RunsBody ==
  ASSUME NEW m, NEW t \in Nat, t % 2 = 0, NEW h \in Hooks, Jumps(m, t, h),
         {t, t + 2, t + 4, t + 6, t + 8} \subseteq DOMAIN m,
         \A a \in DOMAIN m : a \notin BodyAddrs
  PROVE  Run(m, t) = <<<<"body", BodyAddr(h)>>>>
<1> DEFINE s0 == First(t)
           s1 == Step(m, s0)
           s2 == Step(m, s1)
           s3 == Step(m, s2)
           f == [n \in 0..Fuel |-> IF n = 0 THEN s0 ELSE IF n = 1 THEN s1
                                   ELSE IF n = 2 THEN s2 ELSE s3]
<1>1. InBody(s3, h)
  BY ThreeSteps
<1>2. Step(m, s3) = s3
  BY <1>1 DEF InBody, Step
<1>3. s1 = Step(m, s0) /\ s2 = Step(m, s1) /\ s3 = Step(m, s2) /\ s0 = First(t)
  OBVIOUS
<1> HIDE DEF s0, s1, s2, s3
<1>4. IsRun(f, m, t)
  <2>1. ASSUME NEW n \in 0..Fuel
        PROVE  f[n] = IF n = 0 THEN First(t) ELSE Step(m, f[n - 1])
    <3>1. CASE n = 0
      BY <1>3, <3>1
    <3>2. CASE n = 1
      <4>1. n - 1 \in 0..Fuel /\ n - 1 = 0 /\ f[n - 1] = s0 /\ f[n] = s1
        BY <3>2, FuelAssumption
      <4> QED BY <1>3, <3>2, <4>1
    <3>3. CASE n = 2
      <4>1. n - 1 \in 0..Fuel /\ n - 1 = 1 /\ f[n - 1] = s1 /\ f[n] = s2
        BY <3>3, FuelAssumption
      <4> QED BY <1>3, <3>3, <4>1
    <3>4. CASE n = 3
      <4>1. n - 1 \in 0..Fuel /\ n - 1 = 2 /\ f[n - 1] = s2 /\ f[n] = s3
        BY <3>4, FuelAssumption
      <4> QED BY <1>3, <3>4, <4>1
    <3>5. CASE n > 3
      <4>1. n - 1 \in 0..Fuel /\ n - 1 > 2 /\ f[n - 1] = s3 /\ f[n] = s3
        BY <3>5, FuelAssumption
      <4> QED BY <1>2, <3>5, <4>1
    <3> QED BY <3>1, <3>2, <3>3, <3>4, <3>5
  <2>2. f = [n \in 0..Fuel |-> f[n]]
    OBVIOUS
  <2> HIDE DEF f
  <2> QED BY <2>1, <2>2 DEF IsRun
<1>5. PICK r : IsRun(r, m, t) /\ Run(m, t) = r[Fuel].out
  <2> HIDE DEF f
  <2> QED BY <1>4, RunIsRun
<1>6. \A n \in 0..Fuel : r[n] = IF n = 0 THEN First(t) ELSE Step(m, r[n - 1])
  BY <1>5 DEF IsRun
<1>7. r[1] = s1
  BY <1>3, <1>6, FuelAssumption
<1>8. r[2] = s2
  BY <1>3, <1>6, <1>7, FuelAssumption
<1>9. r[3] = s3
  BY <1>3, <1>6, <1>8, FuelAssumption
<1> DEFINE Off == {n \in 3..Fuel : r[n] # s3}
<1>10. Off = {}
  <2> SUFFICES ASSUME Off # {} PROVE FALSE
    OBVIOUS
  <2>1. Off \in SUBSET Nat
    OBVIOUS
  <2>2. PICK n \in Off : \A j \in Off : n <= j
    <3> HIDE DEF Off
    <3> QED BY <2>1, LeastNat
  <2>3. n \in 4..Fuel /\ r[n] # s3
    BY <1>9, <2>2, FuelAssumption
  <2>4. n - 1 \in 3..Fuel /\ n - 1 \notin Off
    BY <2>2, <2>3, FuelAssumption
  <2>5. r[n - 1] = s3
    BY <2>4
  <2>6. r[n] = Step(m, r[n - 1])
    BY <1>6, <2>3, FuelAssumption
  <2> QED BY <1>2, <2>3, <2>5, <2>6
<1>11. r[Fuel] = s3
  BY <1>10, FuelAssumption
<1> QED BY <1>1, <1>5, <1>11 DEF InBody
-----------------------------------------------------------------------------
(* The jumps stay in place.                                                *)

LEMMA HookableType ==
  ASSUME NEW t \in Hookable
  PROVE  t \in Nat /\ t % 2 = 0
<1>1. PICK a \in Targets : t = a - (a % 2)
  BY DEF Hookable, Unmask
<1>2. a \in Nat
  BY TargetsAssumption
<1> QED BY <1>1, <1>2

SameStart(m, n, t) ==
  /\ m[t] = n[t] /\ m[t + 2] = n[t + 2] /\ m[t + 4] = n[t + 4] /\ m[t + 6] = n[t + 6]
  /\ m[t + 8] = n[t + 8]

LEMMA JumpsKept ==
  ASSUME NEW m, NEW n, NEW t \in Hookable, SameStart(m, n, t), NEW h, Jumps(m, t, h)
  PROVE  Jumps(n, t, h)
<1>1. t \in Nat /\ (t + 2) + 4 = t + 6
  BY HookableType
<1> QED BY <1>1 DEF SameStart, Jumps

LEMMA UntouchedKept ==
  ASSUME NEW t \in Hookable, SameStart(mem, mem', t), pristine' = pristine, Untouched(t)
  PROVE  Untouched(t)'
  BY DEF SameStart, Untouched

(* Writes to the trampoline under way reach no function.                   *)
LEMMA TrampolineApart ==
  ASSUME IInv, MemInv, CodeInv, NEW n,
         \A a \in DOMAIN mem : ~ (call.code <= a /\ a < call.code + CodeSize) => n[a] = mem[a],
         NEW t \in Hookable
  PROVE  SameStart(mem, n, t)
<1>1. /\ t \in Nat /\ call.code \in Nat /\ HeapStart \in Nat /\ HeapEnd \in Nat
      /\ {t, t + 2, t + 4, t + 6, t + 8} \subseteq DOMAIN mem
  BY HookableType, HeapAssumption DEF MemInv, IInv, TypeOK
<1>2. t + 14 <= HeapStart \/ HeapEnd <= t
  BY ApartAssumption
<1>3. ASSUME NEW a \in {t, t + 2, t + 4, t + 6, t + 8} PROVE n[a] = mem[a]
  <2>1. a \in DOMAIN mem /\ a \in Nat /\ a >= CodeSize /\ t <= a /\ a < t + 14
    BY <1>1 DEF MemInv
  <2>2. CASE call.code = Null
    BY <1>1, <2>1, <2>2 DEF Null, CodeSize
  <2>3. CASE HeapStart <= call.code /\ call.code + CodeSize <= HeapEnd
    BY <1>1, <1>2, <2>1, <2>3 DEF CodeSize
  <2> QED BY <2>2, <2>3 DEF CodeInv
<1> QED BY <1>3 DEF SameStart

(* Writes over one function do not reach another.                          *)
LEMMA FunctionsApart ==
  ASSUME NEW m, NEW n, NEW s \in Hookable, NEW t \in Hookable, s # t,
         {t, t + 2, t + 4, t + 6, t + 8} \subseteq DOMAIN m,
         \A a \in DOMAIN m : a < s \/ s + 13 <= a => n[a] = m[a]
  PROVE  SameStart(m, n, t)
<1>1. s \in Nat /\ t \in Nat
  BY HookableType
<1>2. s + 14 <= t \/ t + 14 <= s
  BY <1>1, ApartAssumption
<1>3. \A a \in {t, t + 2, t + 4, t + 6, t + 8} : a < s \/ s + 13 <= a
  BY <1>1, <1>2
<1> QED BY <1>3 DEF SameStart

LEMMA MemFrame ==
  ASSUME MemInv, DOMAIN mem' = DOMAIN mem
  PROVE  MemInv'
  BY DEF MemInv

LEMMA HookFrame ==
  ASSUME HookInv, UNCHANGED <<newest, pristine, reverted>>,
         \A t \in Hookable : SameStart(mem, mem', t)
  PROVE  HookInv'
<1>1. ASSUME NEW t \in Hookable, newest[t] # 0 PROVE newest[t] \in Hooks /\ Jumps(mem', t, newest[t])
  BY <1>1, JumpsKept DEF HookInv
<1>2. ASSUME NEW t \in Hookable, newest[t] = 0 PROVE t \in reverted \/ Untouched(t)'
  BY <1>2, UntouchedKept DEF HookInv
<1> QED BY <1>1, <1>2 DEF HookInv

LEMMA SameIsSame == \A m, t : SameStart(m, m, t)
  BY DEF SameStart

LEMMA AllocPlace ==
  ASSUME NEW at \in Nat, NEW n \in Nat, HeapStart <= at
  PROVE  /\ HeapStart <= alloc(at, n).next
         /\ alloc(at, n).at = Null \/ (HeapStart <= alloc(at, n).at /\ alloc(at, n).at + n <= HeapEnd)
<1>1. CASE at + n <= HeapEnd
  BY <1>1, HeapAssumption DEF alloc
<1>2. CASE ~ (at + n <= HeapEnd)
  BY <1>2 DEF alloc
<1> QED BY <1>1, <1>2

LEMMA InitJInv == Init => JInv
<1> SUFFICES ASSUME Init PROVE JInv
  OBVIOUS
<1>1. MemInv
  BY LayoutsAssumption DEF Init, MemInv
<1>2. CodeInv
  BY LayoutsAssumption DEF Init, CodeInv, NoCall, Null
<1>3. TableInv
  BY DEF Init, TableInv
<1>4. HookInv
  BY DEF Init, HookInv, Untouched
<1> QED BY <1>1, <1>2, <1>3, <1>4 DEF JInv

LEMMA BeginKeeps ==
  ASSUME IInv, JInv, NEW h \in Hooks, NEW t \in Targets, Begin(h, t)
  PROVE  JInv'
<1>1. UNCHANGED <<mem, pristine, address, trampoline, newest, reverted>>
  BY DEF Begin
<1>2. MemInv' /\ TableInv'
  BY <1>1 DEF JInv, MemInv, TableInv
<1>3. HookInv'
  BY <1>1, HookFrame, SameIsSame DEF JInv
<1>4. CodeInv'
  <2>1. CASE t % 2 = 0
    BY <2>1 DEF Begin, JInv, CodeInv
  <2>2. CASE t % 2 # 0
    <3> DEFINE code == alloc(heap, CodeSize)
    <3>1. /\ HeapStart <= code.next
          /\ code.at = Null \/ (HeapStart <= code.at /\ code.at + CodeSize <= HeapEnd)
      BY AllocPlace DEF IInv, TypeOK, JInv, CodeInv, CodeSize
    <3>2. code.at \in Nat
      <4>1. heap \in Nat /\ heap % 4 = 0 /\ CodeSize \in Nat /\ CodeSize % 4 = 0
        BY DEF IInv, TypeOK, CodeSize
      <4> QED BY <4>1, AllocType
    <3>3. /\ heap' = code.next
          /\ call' = [hook |-> h, target |-> Unmask(t), code |-> code.at,
                      n_target |-> 0, ptr |-> code.at]
      BY <2>2 DEF Begin
    <3> HIDE DEF code
    <3>4. Unmask(t) \in Hookable
      BY DEF Hookable
    <3> QED BY <3>1, <3>2, <3>3, <3>4 DEF CodeInv
  <2> QED BY <2>1, <2>2
<1> QED BY <1>2, <1>3, <1>4 DEF JInv

LEMMA RelocateKeeps ==
  ASSUME IInv, JInv, Relocate
  PROVE  JInv'
<1> DEFINE at == call.target + call.n_target
           u == [mem |-> mem, ptr |-> call.ptr]
           w == Relocated(u, at)
           k == IF is_32bit(mem[at]) THEN 4 ELSE 2
<1>1. /\ pc = "relocating" /\ mem' = w.mem
      /\ call' = [call EXCEPT !.ptr = w.ptr, !.n_target = @ + k]
      /\ UNCHANGED <<pristine, heap, address, trampoline, pc, newest, reverted>>
  BY DEF Relocate, pool
<1>2. /\ call \in [hook : Hooks \cup {0}, target : Nat, code : Nat, n_target : Nat, ptr : Nat]
      /\ call.ptr \in Nat /\ call.code \in Nat /\ call.ptr % 2 = 0
  BY DEF IInv, TypeOK, CallInv
<1>3. u.ptr = call.ptr /\ u.mem = mem /\ Writer(u)
  BY <1>2 DEF Writer, JInv, MemInv
<1> HIDE DEF u
<1>4. Touches(u, w)
  BY <1>3, RelocatedTouches
<1> HIDE DEF w, k
<1>5. /\ call'.ptr = w.ptr /\ call'.code = call.code /\ call'.target = call.target
      /\ call'.hook = call.hook
  BY <1>1, <1>2
<1>6. IInv'
  BY RelocatePreserves
<1>7. w.ptr \in Nat /\ w.ptr <= call.code + CodeSize
  <2>0. /\ call'.ptr \in Nat /\ call'.n_target \in Nat /\ call'.code \in Nat
        /\ call'.n_target <= 12 /\ call'.ptr - call'.code <= Worst(call'.n_target)
    BY <1>6 DEF IInv, TypeOK, CallInv
  <2>1. call'.ptr \in Nat /\ call'.ptr - call'.code <= 50
    BY <2>0 DEF Worst
  <2> QED BY <1>2, <1>5, <2>1 DEF CodeSize
<1>8. call.code <= call.ptr
  BY DEF JInv, CodeInv
<1>9. DOMAIN mem' = DOMAIN mem
  BY <1>1, <1>3, <1>4 DEF Touches
<1>10. \A a \in DOMAIN mem : ~ (call.code <= a /\ a < call.code + CodeSize) => mem'[a] = mem[a]
  BY <1>1, <1>2, <1>3, <1>4, <1>7, <1>8 DEF Touches, JInv, MemInv, CodeSize
<1>11. \A t \in Hookable : SameStart(mem, mem', t)
  BY <1>10, TrampolineApart DEF JInv
<1>12. MemInv' /\ HookInv'
  BY <1>1, <1>9, <1>11, MemFrame, HookFrame DEF JInv
<1>13. call'.code <= call'.ptr
  BY <1>2, <1>3, <1>4, <1>5, <1>7, <1>8 DEF Touches
<1>14. CodeInv'
  BY <1>1, <1>5, <1>13 DEF JInv, CodeInv
<1>15. TableInv'
  BY <1>1 DEF JInv, TableInv
<1> QED BY <1>12, <1>14, <1>15 DEF JInv

(* Installing the hook: the jump back, the table, and the patch.           *)
LEMMA InstallKeeps ==
  ASSUME IInv, JInv, Install
  PROVE  JInv'
<1> DEFINE u == [mem |-> mem, ptr |-> call.ptr]
           w == jumpout(Align(u), JumpBack(call))
           n == Len(address)
           full == n = cap
           t1 == IF full THEN alloc(heap, 8 * Grown) ELSE [at |-> heap, next |-> heap]
           t2 == IF full THEN alloc(t1.next, 4 * Grown) ELSE t1
           e == [address |-> call.code, jump_address |-> JumpBack(call),
                 size |-> w.ptr - call.code]
           p == Patched(w.mem, call.target, call.hook)
<1>0. UNCHANGED <<pristine, reverted>>
  BY DEF Install
<1>1. /\ call.ptr \in Nat /\ call.ptr % 2 = 0 /\ call.code \in Nat /\ call.n_target \in Nat
      /\ call.n_target <= 12 /\ call.ptr - call.code <= 50 /\ n \in Nat
      /\ heap \in Nat /\ heap % 4 = 0 /\ cap \in Nat
  BY DEF IInv, TypeOK, CallInv, Worst
<1>2. /\ call.target \in Hookable /\ call.hook \in Hooks /\ call.code <= call.ptr
      /\ HeapStart <= heap
  BY DEF JInv, CodeInv, Install
<1>3. u.ptr = call.ptr /\ u.mem = mem /\ Writer(u)
  BY <1>1 DEF Writer, JInv, MemInv
<1>4. w.ptr \in Nat /\ w.ptr <= call.ptr + 10
  BY <1>1, <1>3, JumpoutPtr
<1>5. Touches(u, w)
  BY <1>3, JumpoutTouches
<1>6. HeapStart <= t2.next
  <2>1. CASE full
    <3>1. 8 * Grown \in Nat /\ (8 * Grown) % 4 = 0 /\ 4 * Grown \in Nat
      BY <1>1, GrownType
    <3>2. alloc(heap, 8 * Grown).next \in Nat /\ HeapStart <= alloc(heap, 8 * Grown).next
      BY <1>1, <1>2, <3>1, AllocType, AllocPlace
    <3> QED BY <2>1, <3>1, <3>2, AllocPlace
  <2>2. CASE ~ full
    BY <1>2, <2>2
  <2> QED BY <2>1, <2>2
<1>7. \/ /\ pc' = "halted" /\ mem' = w.mem /\ heap' = t2.next
         /\ UNCHANGED <<address, trampoline, call, newest>>
      \/ /\ trampoline' = Append(trampoline, e) /\ address' = Append(address, call.target)
         /\ heap' = t2.next /\ mem' = p
         /\ newest' = [newest EXCEPT ![call.target] = call.hook]
         /\ pc' = "idle" /\ call' = NoCall
  BY DEF Install
<1>8. e.jump_address <= call.target + 13
  <2>1. call.target \in Nat
    BY DEF IInv, TypeOK
  <2> QED BY <1>1, <2>1 DEF JumpBack
<1> HIDE DEF u, w, t1, t2, e
<1>9. DOMAIN w.mem = DOMAIN mem
  BY <1>3, <1>5 DEF Touches
<1>10. \A a \in DOMAIN mem : ~ (call.code <= a /\ a < call.code + CodeSize) => w.mem[a] = mem[a]
  <2>1. w.ptr <= call.code + CodeSize /\ call.code \in Nat
    BY <1>1, <1>4 DEF CodeSize
  <2>2. \A a \in DOMAIN mem : ~ (call.ptr <= a /\ a < w.ptr) => w.mem[a] = mem[a]
    BY <1>3, <1>5 DEF Touches
  <2>3. \A a \in DOMAIN mem : a \in Nat
    BY DEF JInv, MemInv
  <2> HIDE DEF CodeSize
  <2> SUFFICES ASSUME NEW a \in DOMAIN mem, ~ (call.code <= a /\ a < call.code + CodeSize)
               PROVE  w.mem[a] = mem[a]
    OBVIOUS
  <2>4. CodeSize \in Nat
    BY DEF CodeSize
  <2>5. call.ptr \in Nat /\ call.code <= call.ptr /\ w.ptr \in Nat /\ a \in Nat
    BY <1>1, <1>2, <1>4, <2>3
  <2>6. ~ (call.ptr <= a /\ a < w.ptr)
    BY <2>1, <2>4, <2>5
  <2> QED
    BY <2>2, <2>6
<1>11. \A t \in Hookable : SameStart(mem, w.mem, t)
  BY <1>10, TrampolineApart DEF JInv
<1>12. CASE /\ pc' = "halted" /\ mem' = w.mem /\ heap' = t2.next
            /\ UNCHANGED <<address, trampoline, call, newest>>
  <2>1. MemInv' /\ HookInv'
    BY <1>9, <1>11, <1>12, <1>0, MemFrame, HookFrame DEF JInv
  <2>2. CodeInv'
    BY <1>6, <1>12 DEF JInv, CodeInv
  <2>3. TableInv'
    BY <1>12 DEF JInv, TableInv
  <2> QED BY <2>1, <2>2, <2>3 DEF JInv
<1>13. CASE /\ trampoline' = Append(trampoline, e) /\ address' = Append(address, call.target)
            /\ heap' = t2.next /\ mem' = p
            /\ newest' = [newest EXCEPT ![call.target] = call.hook]
            /\ pc' = "idle" /\ call' = NoCall
  <2>1. call.target \in Nat /\ call.target % 2 = 0
    BY <1>2, HookableType
  <2>2. /\ \A a \in DOMAIN w.mem : a \in Nat
        /\ \A t \in Hookable : {t, t + 2, t + 4, t + 6, t + 8} \subseteq DOMAIN w.mem
    BY <1>9 DEF JInv, MemInv
  <2>3. /\ DOMAIN p = DOMAIN w.mem
        /\ \A a \in DOMAIN w.mem : a < call.target \/ call.target + 10 <= a => p[a] = w.mem[a]
        /\ Jumps(p, call.target, call.hook)
    BY <1>2, <2>1, <2>2, PatchedJumps
  <2> HIDE DEF p
  <2>4. MemInv'
    BY <1>9, <1>13, <2>3, MemFrame DEF JInv
  <2>5. CodeInv'
    BY <1>6, <1>13 DEF CodeInv, NoCall, Null
  <2>6. TableInv'
    <3>1. /\ address \in Seq(Nat) /\ trampoline \in Seq(FittingEntries)
          /\ Len(address) = Len(trampoline)
      BY DEF IInv, TypeOK
    <3>2. /\ Len(address') = n + 1
          /\ \A i \in 1..n : address'[i] = address[i] /\ trampoline'[i] = trampoline[i]
          /\ address'[n + 1] = call.target /\ trampoline'[n + 1] = e
      BY <1>13, <3>1
    <3>3. ASSUME NEW i \in 1..Len(address')
          PROVE  address'[i] \in Hookable /\ trampoline'[i].jump_address <= address'[i] + 13
      <4>1. CASE i = n + 1
        BY <1>2, <1>8, <3>2, <4>1
      <4>2. CASE i \in 1..n
        BY <3>2, <4>2 DEF JInv, TableInv
      <4> QED BY <1>1, <3>2, <3>3, <4>1, <4>2
    <3> QED BY <3>3 DEF TableInv
  <2>7. HookInv'
    <3>0. ASSUME NEW t \in Hookable, t # call.target PROVE SameStart(w.mem, p, t)
      <4>1. {t, t + 2, t + 4, t + 6, t + 8} \subseteq DOMAIN w.mem
        BY <2>2
      <4>2. \A a \in DOMAIN w.mem : a < call.target \/ call.target + 13 <= a => p[a] = w.mem[a]
        BY <2>1, <2>2, <2>3
      <4> QED BY <1>2, <3>0, <4>1, <4>2, FunctionsApart
    <3>1. DOMAIN newest = Hookable
      BY DEF JInv, HookInv
    <3>2. ASSUME NEW t \in Hookable, newest'[t] # 0
          PROVE  newest'[t] \in Hooks /\ Jumps(p, t, newest'[t])
      <4>1. CASE t = call.target
        BY <1>2, <1>13, <2>3, <3>1, <4>1
      <4>2. CASE t # call.target
        <5>1. newest'[t] = newest[t]
          BY <1>13, <3>1, <4>2
        <5>2. newest[t] \in Hooks /\ Jumps(mem, t, newest[t])
          BY <3>2, <5>1 DEF JInv, HookInv
        <5>3. Jumps(w.mem, t, newest[t])
          BY <1>11, <5>2, JumpsKept
        <5> QED BY <3>0, <4>2, <5>1, <5>2, <5>3, JumpsKept
      <4> QED BY <4>1, <4>2
    <3>3. ASSUME NEW t \in Hookable, newest'[t] = 0
          PROVE  t \in reverted \/ Untouched(t)'
      <4>1. t # call.target
        BY <1>2, <1>13, <3>1, <3>3, HooksAssumption
      <4>2. newest[t] = 0
        BY <1>13, <3>1, <3>3, <4>1
      <4>3. SameStart(mem, p, t)
        BY <1>11, <3>0, <4>1 DEF SameStart
      <4>4. SameStart(mem, mem', t)
        BY <1>13, <4>3
      <4> QED BY <1>0, <4>2, <4>4, UntouchedKept DEF JInv, HookInv
    <3> QED BY <1>13, <1>0, <3>1, <3>2, <3>3 DEF HookInv
  <2> QED BY <2>4, <2>5, <2>6, <2>7 DEF JInv
<1> QED BY <1>7, <1>12, <1>13

(* The entries that remain after a removal.                                *)
LEMMA RemoveEntry ==
  ASSUME NEW S, NEW s \in Seq(S), NEW i \in 1..Len(s), NEW k \in 1..(Len(s) - 1)
  PROVE  RemoveAt(s, i)[k] = s[IF k < i THEN k ELSE k + 1]
<1>1. Len(s) \in Nat
  OBVIOUS
<1> DEFINE a == SubSeq(s, 1, i - 1)
           b == SubSeq(s, i + 1, Len(s))
<1>2. /\ a \in Seq(S) /\ Len(a) = i - 1 /\ \A j \in 1..(i - 1) : a[j] = s[j]
  BY <1>1
<1>3. /\ b \in Seq(S) /\ Len(b) = Len(s) - i /\ \A j \in 1..(Len(s) - i) : b[j] = s[j + i]
  BY <1>1
<1> HIDE DEF a, b
<1>4. (a \o b)[k] = IF k <= Len(a) THEN a[k] ELSE b[k - Len(a)]
  BY <1>1, <1>2, <1>3
<1>5. (a \o b)[k] = s[IF k < i THEN k ELSE k + 1]
  <2>1. CASE k < i
    BY <1>1, <1>2, <1>4, <2>1
  <2>2. CASE ~ (k < i)
    <3> DEFINE j == k - Len(a)
    <3>1. j \in 1..(Len(s) - i) /\ j + i = k + 1 /\ ~ (k <= Len(a))
      BY <1>1, <1>2, <2>2
    <3>2. (a \o b)[k] = b[j]
      BY <1>4, <3>1
    <3> HIDE DEF j
    <3>3. b[j] = s[j + i]
      BY <1>3, <3>1
    <3> QED BY <2>2, <3>1, <3>2, <3>3
  <2> QED BY <2>1, <2>2
<1> QED BY <1>5 DEF RemoveAt, a, b

LEMMA RevertKeeps ==
  ASSUME IInv, JInv, NEW h \in Hooks, Revert(h)
  PROVE  JInv'
<1> DEFINE i == Position(ADDR[h])
           t == Unmask(ADDR[h])
<1>1. UNCHANGED <<heap, pc, call>>
  BY DEF Revert
<1>2. CodeInv'
  BY <1>1 DEF JInv, CodeInv
<1>3. CASE ADDR[h] % 2 = 0 \/ i = 0
  <2>1. UNCHANGED <<mem, pristine, address, trampoline, newest, reverted>>
    BY <1>3 DEF Revert
  <2>2. MemInv' /\ TableInv'
    BY <2>1 DEF JInv, MemInv, TableInv
  <2>3. HookInv'
    BY <2>1, HookFrame, SameIsSame DEF JInv
  <2> QED BY <1>2, <2>2, <2>3 DEF JInv
<1>4. CASE ~ (ADDR[h] % 2 = 0 \/ i = 0)
  <2>1. /\ address' = RemoveAt(address, i) /\ trampoline' = RemoveAt(trampoline, i)
        /\ newest' = [newest EXCEPT ![t] = 0]
        /\ reverted' = reverted \cup {t} /\ pristine' = pristine
        /\ DOMAIN mem' = DOMAIN mem
        /\ \A a \in DOMAIN mem : ~ (a >= t /\ a < trampoline[i].jump_address) => mem'[a] = mem[a]
    BY <1>4 DEF Revert
  <2>2. /\ address \in Seq(Nat) /\ trampoline \in Seq(FittingEntries)
        /\ Len(address) = Len(trampoline) /\ Len(address) \in Nat
    BY DEF IInv, TypeOK
  <2>3. i \in 1..Len(address) /\ address[i] = t
    BY <1>4, PositionInside DEF IInv
  <2>4. t \in Hookable /\ trampoline[i].jump_address <= t + 13
    BY <2>3 DEF JInv, TableInv
  <2>5. trampoline[i].jump_address \in Nat
    <3>1. trampoline[i] \in FittingEntries
      BY <2>2, <2>3
    <3> QED BY <3>1 DEF FittingEntries, Entries
  <2> HIDE DEF i, t
  <2>6. MemInv'
    BY <2>1, MemFrame DEF JInv
  <2>7. TableInv'
    <3>1. Len(address') = Len(address) - 1
      BY <2>1, <2>2, <2>3, RemoveKeeps
    <3>2. ASSUME NEW k \in 1..Len(address')
          PROVE  address'[k] \in Hookable /\ trampoline'[k].jump_address <= address'[k] + 13
      <4> DEFINE j == IF k < i THEN k ELSE k + 1
      <4>1. j \in 1..Len(address) /\ k \in 1..(Len(address) - 1)
        BY <2>2, <2>3, <3>1, <3>2
      <4>2. address'[k] = address[j]
        BY <2>1, <2>2, <2>3, <4>1, RemoveEntry
      <4>3. i \in 1..Len(trampoline) /\ k \in 1..(Len(trampoline) - 1)
        BY <2>2, <2>3, <4>1
      <4>4. trampoline'[k] = trampoline[j]
        BY <2>1, <2>2, <4>3, RemoveEntry
      <4> HIDE DEF j
      <4> QED BY <4>1, <4>2, <4>4 DEF JInv, TableInv
    <3> QED BY <3>2 DEF TableInv
  <2>8. HookInv'
    <3>0. ASSUME NEW x \in Hookable, x # t PROVE SameStart(mem, mem', x)
      <4>1. {x, x + 2, x + 4, x + 6, x + 8} \subseteq DOMAIN mem /\ \A a \in DOMAIN mem : a \in Nat
        BY DEF JInv, MemInv
      <4>2. t \in Nat
        BY <2>4, HookableType
      <4>3. \A a \in DOMAIN mem : a < t \/ t + 13 <= a => mem'[a] = mem[a]
        BY <2>1, <2>4, <2>5, <4>1, <4>2
      <4> QED BY <2>4, <3>0, <4>1, <4>3, FunctionsApart
    <3>1. DOMAIN newest = Hookable
      BY DEF JInv, HookInv
    <3>2. ASSUME NEW x \in Hookable, newest'[x] # 0
          PROVE  newest'[x] \in Hooks /\ Jumps(mem', x, newest'[x])
      <4>1. x # t /\ newest'[x] = newest[x]
        BY <2>1, <2>4, <3>1, <3>2
      <4>2. newest[x] \in Hooks /\ Jumps(mem, x, newest[x])
        BY <3>2, <4>1 DEF JInv, HookInv
      <4> QED BY <3>0, <4>1, <4>2, JumpsKept
    <3>3. ASSUME NEW x \in Hookable, newest'[x] = 0
          PROVE  x \in reverted' \/ Untouched(x)'
      <4>1. CASE x = t
        BY <2>1, <4>1
      <4>2. CASE x # t
        <5>1. newest[x] = 0
          BY <2>1, <3>1, <3>3, <4>2
        <5> QED BY <2>1, <3>0, <4>2, <5>1, UntouchedKept DEF JInv, HookInv
      <4> QED BY <4>1, <4>2
    <3> QED BY <2>1, <3>1, <3>2, <3>3 DEF HookInv
  <2> QED BY <1>2, <2>6, <2>7, <2>8 DEF JInv
<1> QED BY <1>3, <1>4

LEMMA NextJInv == IInv /\ JInv /\ [Next]_vars => JInv'
<1> SUFFICES ASSUME IInv, JInv, [Next]_vars PROVE JInv'
  OBVIOUS
<1>1. ASSUME NEW h \in Hooks, Revert(h) PROVE JInv'
  BY <1>1, RevertKeeps
<1>2. ASSUME NEW h \in Hooks, NEW t \in Targets, Begin(h, t) PROVE JInv'
  BY <1>2, BeginKeeps
<1>3. ASSUME UNCHANGED <<mem, pristine, pool, call, newest, reverted>>, pc' = pc \/ pc' = "halted" PROVE JInv'
  <2>1. MemInv' /\ CodeInv' /\ TableInv'
    BY <1>3 DEF JInv, MemInv, CodeInv, TableInv, pool
  <2>2. HookInv'
    BY <1>3, HookFrame, SameIsSame DEF JInv
  <2> QED BY <2>1, <2>2 DEF JInv
<1>4. CASE NullFaults
  BY <1>3, <1>4 DEF NullFaults
<1>5. CASE Relocate
  BY <1>5, RelocateKeeps
<1>6. CASE Install
  BY <1>6, InstallKeeps
<1>7. CASE UNCHANGED vars
  BY <1>3, <1>7 DEF vars
<1> QED
  BY <1>1, <1>2, <1>4, <1>5, <1>6, <1>7 DEF Next, Stop

(* Calling a hooked function runs the body of the hook installed last, and *)
(* a function that is not hooked is as it was, for any functions that lie  *)
(* apart, whatever their code and alignment, any number of hooks and any   *)
(* sequence of replace and revert between them, in every state of a        *)
(* replace under way and after one that found the heap full.               *)
THEOREM HookTakesCallsCorrect == Spec => []HookTakesCalls
<1>1. Init => IInv /\ JInv
  BY InitIInv, InitJInv
<1>2. (IInv /\ JInv) /\ [Next]_vars => (IInv /\ JInv)'
  BY NextIInv, NextJInv
<1>3. JInv => HookTakesCalls
  <2> SUFFICES ASSUME JInv
               PROVE  \A t \in DOMAIN newest :
                        newest[t] # 0 => Run(mem, t) = <<<<"body", BodyAddr(newest[t])>>>>
    BY DEF HookTakesCalls, JInv, HookInv
  <2> SUFFICES ASSUME NEW t \in DOMAIN newest, newest[t] # 0
               PROVE  Run(mem, t) = <<<<"body", BodyAddr(newest[t])>>>>
    OBVIOUS
  <2>1. t \in Hookable /\ newest[t] \in Hooks /\ Jumps(mem, t, newest[t])
    BY DEF JInv, HookInv
  <2>2. t \in Nat /\ t % 2 = 0
    BY <2>1, HookableType
  <2>3. /\ {t, t + 2, t + 4, t + 6, t + 8} \subseteq DOMAIN mem
        /\ \A a \in DOMAIN mem : a \notin BodyAddrs
    BY <2>1 DEF JInv, MemInv
  <2> QED BY <2>1, <2>2, <2>3, RunsBody
<1> QED
  BY <1>1, <1>2, <1>3, PTL DEF Spec
=============================================================================
