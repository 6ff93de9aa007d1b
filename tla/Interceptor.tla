---------------------------- MODULE Interceptor ----------------------------
(***************************************************************************)
(* payloads/interceptor: Thumb-2 function hooking.  replace moves the      *)
(* first instructions of a function into a trampoline on the heap and      *)
(* writes a jump to the hook's body over them; original finds the          *)
(* trampoline again; revert copies it back.  The hook! macro wraps the     *)
(* three and remembers the target in ADDR.                                 *)
(*                                                                         *)
(* Memory is a function from even addresses to halfwords.  A halfword is   *)
(* <<operation, operands, half>>: it is what an instruction does that      *)
(* counts, not its bits; "b" is any other instruction that reads the pc.   *)
(* The low bit of a code address says Thumb.                               *)
(***************************************************************************)
EXTENDS Integers, Sequences, SequencesExt

CONSTANTS
  Hooks,        \* the hook! modules, numbers
  Layouts,      \* [mem, heap, calls]: what memory may hold before anything is
                \* hooked, where the rest of the heap begins then, and how many
                \* calls of replace and revert are explored on it
  Targets,      \* what replace may be called with
  HeapStart,    \* the heap of the bump allocator
  HeapEnd,
  Fuel          \* how many instructions a call may execute

(* Everything is allocated with an alignment of four, in multiples of it.  *)
ASSUME HeapAssumption == HeapStart \in Nat /\ HeapEnd \in Nat /\ HeapStart % 4 = 0
ASSUME TargetsAssumption == Targets \subseteq Nat
ASSUME HooksAssumption == Hooks \subseteq Nat \ {0}
ASSUME FuelAssumption == Fuel \in Nat /\ Fuel >= 3

Null == 0

(* Mutant: a worst case without literals.                                  *)
CodeSize_small == 24

CodeSize == 64

(* The target's low bit is set, so it is never a multiple of four.         *)
PatchSize == 10

BodyAddr(h) == 2000 + 4 * h
BodyAddrs == {BodyAddr(h) : h \in Hooks}

NoCall == [hook |-> 0, target |-> 0, code |-> Null, n_target |-> 0, ptr |-> 0]

VARIABLES
  mem,         \* memory
  pristine,    \* history: memory before anything was hooked
  heap,        \* the allocator's next address
  cap,         \* the capacity of both tables
  address,     \* POOL.address
  trampoline,  \* POOL.trampoline, with the size as a history
  ADDR,        \* the hooks' ADDR
  pc,          \* "idle", "relocating", "halted"
  call,        \* the replace under way: its locals
  newest,      \* history: the hook installed last on each target, 0 if none
  reverted,    \* history: the targets revert has written to
  calls        \* a bound: the calls that may still come

pool == <<heap, cap, address, trampoline>>
vars == <<mem, pristine, pool, ADDR, pc, call, newest, reverted, calls>>

-----------------------------------------------------------------------------
(* Thumb2Reader                                                            *)

Unmask(a) == a - (a % 2)

Hookable == {Unmask(t) : t \in Targets}

(* replace moves up to twelve bytes, and revert copies one more: functions *)
(* are long enough for that, and lie apart from each other and the heap.   *)
ASSUME ApartAssumption ==
  \A s \in Hookable :
    /\ s + 14 <= HeapStart \/ HeapEnd <= s
    /\ \A t \in Hookable : s < t => s + 14 <= t

(* Memory holds them, nothing at the null pointer, and not the payload.    *)
ASSUME LayoutsAssumption ==
  \A l \in Layouts :
    /\ l.heap \in Nat /\ HeapStart <= l.heap /\ l.heap % 4 = 0
    /\ \A t \in Hookable : {t, t + 2, t + 4, t + 6, t + 8} \subseteq DOMAIN l.mem
    /\ \A a \in DOMAIN l.mem : a \in Nat /\ a >= CodeSize /\ a \notin BodyAddrs

(* Data, and the second half of an instruction, decode as something the    *)
(* reader takes for a 16-bit instruction.                                  *)
is_32bit(hw) == hw[3] = 0 /\ hw[1] \in {"t32", "ldr_w", "movw", "movt"}
is_ldr(hw) == hw[1] = "ldr"
is_ldr_w(hw) == hw[3] = 0 /\ hw[1] = "ldr_w"

(* Where a load relative to the pc, n bytes into the target, reads.        *)
LiteralAddress(target, n, o) ==
  LET pc_aligned == ((target + n + 4) \div 4) * 4
  IN  IF o.add THEN pc_aligned + o.imm ELSE pc_aligned - o.imm

-----------------------------------------------------------------------------
(* Thumb2Writer: w = [mem, ptr].  A write through the null pointer that    *)
(* does not fault is lost.                                                 *)

write16(w, hw) ==
  [mem |-> IF w.ptr \in DOMAIN w.mem THEN [w.mem EXCEPT ![w.ptr] = hw] ELSE w.mem,
   ptr |-> w.ptr + 2]

nop(w) == write16(w, <<"nop", 0, 0>>)

is_aligned32(w) == w.ptr % 4 = 0

Align(w) == IF is_aligned32(w) THEN w ELSE nop(w)

write32(w, lo, hi) == write16(write16(Align(w), lo), hi)

movw(w, r, v) == write32(w, <<"movw", [r |-> r, v |-> v], 0>>, <<"movw", [r |-> r, v |-> v], 1>>)
movt(w, r, v) == write32(w, <<"movt", [r |-> r, v |-> v], 0>>, <<"movt", [r |-> r, v |-> v], 1>>)

LdrPc == [r |-> "pc", imm |-> 0, add |-> TRUE]

(* For the mutant below: the jump is written wherever the pointer is.      *)
jumpout_unaligned(w, a) ==
  write16(write16(write16(write16(w, <<"ldr_w", LdrPc, 0>>), <<"ldr_w", LdrPc, 1>>),
                  <<"addr", a, 0>>), <<"addr", a, 1>>)

(* ldr.w pc, [pc] and the address behind it.                               *)
jumpout(w, a) ==
  write32(write32(w, <<"ldr_w", LdrPc, 0>>, <<"ldr_w", LdrPc, 1>>), <<"addr", a, 0>>, <<"addr", a, 1>>)

-----------------------------------------------------------------------------
(* The bump allocator, as far as it matters here (see BumpAllocator).      *)

alloc(at, size) ==
  IF at + size <= HeapEnd THEN [at |-> at, next |-> at + size]
                          ELSE [at |-> Null, next |-> at]

(* A full table grows to four entries from nothing, then to twice as many, *)
(* and never shrinks.                                                      *)
Grown == IF cap = 0 THEN 4 ELSE 2 * cap

Init ==
  /\ \E l \in Layouts : mem = l.mem /\ heap = l.heap /\ calls = l.calls
  /\ pristine = mem
  /\ cap = 0 /\ address = <<>> /\ trampoline = <<>>
  /\ ADDR = [h \in Hooks |-> 0]
  /\ pc = "idle" /\ call = NoCall
  /\ newest = [t \in Hookable |-> 0]
  /\ reverted = {}

(* replace: an ARM function is refused; else memory is asked for.          *)
Begin(h, t) ==
  /\ pc = "idle" /\ calls > 0
  /\ calls' = calls - 1
  /\ IF t % 2 = 0
       THEN UNCHANGED <<heap, pc, call>>
       ELSE LET code == alloc(heap, CodeSize)
            IN  /\ heap' = code.next
                /\ call' = [hook |-> h, target |-> Unmask(t), code |-> code.at,
                            n_target |-> 0, ptr |-> code.at]
                /\ pc' = "relocating"
  /\ UNCHANGED <<mem, pristine, cap, address, trampoline, ADDR, newest, reverted>>

(* The first access to a null trampoline may fault.                        *)
NullFaults ==
  /\ pc = "relocating" /\ call.code = Null /\ call.n_target = 0
  /\ pc' = "halted"
  /\ UNCHANGED <<mem, pristine, pool, ADDR, call, newest, reverted, calls>>

(* One instruction: a load of a literal becomes movw and movt of the value *)
(* it would load, anything else is copied.                                 *)
Relocated(w, at) ==
  LET hw == mem[at]
      lit == LiteralAddress(call.target, call.n_target, hw[2])
  IN  IF is_ldr_w(hw) \/ is_ldr(hw)
        THEN movt(movw(w, hw[2].r, mem[lit]), hw[2].r, mem[lit + 2])
      ELSE IF is_32bit(hw) THEN write16(write16(w, hw), mem[at + 2])
      ELSE write16(w, hw)

(* One turn of the loop.                                                   *)
Relocate ==
  /\ pc = "relocating" /\ call.n_target < PatchSize
  /\ LET at == call.target + call.n_target
         w == Relocated([mem |-> mem, ptr |-> call.ptr], at)
     IN  /\ mem' = w.mem
         /\ call' = [call EXCEPT !.ptr = w.ptr,
                                 !.n_target = @ + IF is_32bit(mem[at]) THEN 4 ELSE 2]
  /\ UNCHANGED <<pristine, pool, ADDR, pc, newest, reverted, calls>>

(* Mutant: the explicit alignment is forgotten, and the jump's own too.    *)
Patched_unaligned(m, target, h) ==
  jumpout_unaligned([mem |-> m, ptr |-> target], BodyAddr(h) + 1).mem

(* The jump over the target's first instructions.                          *)
Patched(m, target, h) == jumpout(Align([mem |-> m, ptr |-> target]), BodyAddr(h) + 1).mem

(* Behind the last instruction that was moved.                             *)
JumpBack(c) == (c.target + c.n_target) + 1

(* The jump back, the tables, and the patch.  A push that gets no memory   *)
(* panics, before the target is touched; nothing looks at the tables then, *)
(* so what the first of two pushes did is left out.                        *)
Install ==
  /\ pc = "relocating" /\ call.n_target >= PatchSize
  /\ LET w == jumpout(Align([mem |-> mem, ptr |-> call.ptr]), JumpBack(call))
         full == Len(address) = cap
         t1 == IF full THEN alloc(heap, 8 * Grown) ELSE [at |-> heap, next |-> heap]
         t2 == IF full THEN alloc(t1.next, 4 * Grown) ELSE t1
     IN  IF t1.at = Null \/ t2.at = Null
           THEN /\ pc' = "halted" /\ mem' = w.mem /\ heap' = t2.next
                /\ UNCHANGED <<cap, address, trampoline, ADDR, call, newest>>
           ELSE /\ trampoline' = Append(trampoline,
                     [address |-> call.code, jump_address |-> JumpBack(call),
                      size |-> w.ptr - call.code])
                /\ address' = Append(address, call.target)
                /\ heap' = t2.next /\ cap' = IF full THEN Grown ELSE cap
                /\ mem' = Patched(w.mem, call.target, call.hook)
                /\ ADDR' = [ADDR EXCEPT ![call.hook] = call.target + 1]
                /\ newest' = [newest EXCEPT ![call.target] = call.hook]
                /\ pc' = "idle" /\ call' = NoCall
  /\ UNCHANGED <<pristine, reverted, calls>>

(* Mutant: the entry that was added last is found.                         *)
Position_last(t) ==
  IF \E i \in 1..Len(address) : address[i] = Unmask(t)
    THEN CHOOSE i \in 1..Len(address) :
           address[i] = Unmask(t) /\ \A j \in (i + 1)..Len(address) : address[j] # Unmask(t)
    ELSE 0

(* The first entry of a target, 0 if there is none.                        *)
Position(t) == SelectInSeq(address, LAMBDA a : a = Unmask(t))

(* original() of a hook: the trampoline, or the target itself.             *)
original(h) ==
  LET i == Position(ADDR[h])
  IN  IF i = 0 THEN ADDR[h] ELSE trampoline[i].address

(* Mutant: the first halfword alone is copied back.                        *)
Restored_first(e, target, k) ==
  IF k = 0 /\ e.address \in DOMAIN mem THEN mem[e.address] ELSE mem[target + k]

(* The halfword of the trampoline that revert puts at offset k; beyond the *)
(* last whole halfword one byte is copied, since jump_address is odd.      *)
Restored(e, target, k) ==
  LET size == e.jump_address - target
  IN  IF k + 2 <= size /\ e.address + k \in DOMAIN mem THEN mem[e.address + k]
      ELSE IF k < size THEN <<"mixed", 0, 0>>
      ELSE mem[target + k]

(* revert() of a hook; ADDR is 0, an ARM address, when nothing is hooked.  *)
Revert(h) ==
  /\ pc = "idle" /\ calls > 0
  /\ calls' = calls - 1
  /\ LET t == Unmask(ADDR[h])
         i == Position(ADDR[h])
     IN  IF ADDR[h] % 2 = 0 \/ i = 0
           THEN UNCHANGED <<mem, address, trampoline, ADDR, newest, reverted>>
           ELSE /\ mem' = [a \in DOMAIN mem |->
                            IF a >= t /\ a < trampoline[i].jump_address
                              THEN Restored(trampoline[i], t, a - t) ELSE mem[a]]
                /\ address' = RemoveAt(address, i)
                /\ trampoline' = RemoveAt(trampoline, i)
                /\ ADDR' = [ADDR EXCEPT ![h] = 0]
                /\ newest' = [newest EXCEPT ![Unmask(ADDR[h])] = 0]
                /\ reverted' = reverted \cup {Unmask(ADDR[h])}
  /\ UNCHANGED <<pristine, heap, cap, pc, call>>

Stop == pc # "relocating" /\ (calls = 0 \/ pc = "halted") /\ UNCHANGED vars

Next ==
  \/ \E h \in Hooks : Revert(h) \/ \E t \in Targets : Begin(h, t)
  \/ NullFaults \/ Relocate \/ Install
  \/ Stop

Spec == Init /\ [][Next]_vars

-----------------------------------------------------------------------------
(* External: what the processor does with the code at an address.  A call  *)
(* yields the effects of its instructions up to the return, the body of a  *)
(* hook, or something that is no instruction.                              *)

Do(s, effect, n) == [s EXCEPT !.out = Append(@, effect), !.at = @ + n]
End(s, effect) == [s EXCEPT !.out = Append(@, effect), !.over = TRUE]

Instruction(m, s) ==
  LET hw == m[s.at]
      x == hw[2]
      lit == ((s.at + 4) \div 4) * 4 + (IF x.add THEN x.imm ELSE - x.imm)
  IN  CASE hw[1] = "ret" -> End(s, <<"ret">>)
        [] hw[1] = "nop" -> [s EXCEPT !.at = @ + 2]
        [] hw[1] = "t16" -> Do(s, <<"do", x>>, 2)
        [] hw[1] = "b" -> Do(s, <<"branch", x, s.at>>, 2)
        [] hw[1] = "t32" -> Do(s, <<"do", x>>, 4)
        [] hw[1] = "ldr" -> Do(s, <<"load", x.r, m[lit], m[lit + 2]>>, 2)
        [] hw[1] = "ldr_w" /\ x.r = "pc" /\ m[lit][1] = "addr" ->
             [s EXCEPT !.at = Unmask(m[lit][2])]
        [] hw[1] = "ldr_w" /\ x.r # "pc" -> Do(s, <<"load", x.r, m[lit], m[lit + 2]>>, 4)
        [] hw[1] = "movw" /\ x.r # "pc" -> Do(s, <<"low", x.r, x.v>>, 4)
        [] hw[1] = "movt" /\ Last(s.out)[1] = "low" /\ Last(s.out)[2] = x.r ->
             [s EXCEPT !.out = Append(Front(@), <<"load", x.r, Last(@)[3], x.v>>), !.at = @ + 4]
        [] OTHER -> End(s, <<"bad">>)

Execute(m, s) ==
  IF s.at \in BodyAddrs THEN End(s, <<"body", s.at>>)
  ELSE IF s.at \notin DOMAIN m \/ m[s.at][3] # 0 THEN End(s, <<"bad">>)
  ELSE Instruction(m, s)

Run(m, start) ==
  LET run[n \in 0..Fuel] ==
        IF n = 0 THEN [at |-> Unmask(start), out |-> <<>>, over |-> FALSE]
        ELSE LET s == run[n - 1] IN IF s.over THEN s ELSE Execute(m, s)
  IN  run[Fuel].out

-----------------------------------------------------------------------------
(* The trampoline of e can stand for the start of the function at t: there *)
(* is one, and nothing that was moved depends on the pc, literals apart;   *)
(* replace copies the rest as it is.                                       *)
Movable(e, t) ==
  /\ e.address # Null
  /\ \A a \in DOMAIN pristine : a >= t /\ a < e.jump_address => pristine[a][1] # "b"

(* A body that calls original() gets what the function did before anything *)
(* was hooked: the instructions that were moved and the ones that were     *)
(* not, loads of literals included, however the target is aligned and      *)
(* however often it was hooked.                                            *)
OriginalRuns ==
  pc = "idle" =>
    \A h \in Hooks :
      LET i == Position(ADDR[h])
          t == Unmask(ADDR[h])
      IN  (i # 0 /\ t \notin reverted /\ Movable(trampoline[i], t)) =>
            Run(mem, original(h)) = Run(pristine, t)

Untouched(t) == \A a \in {t, t + 2, t + 4, t + 6, t + 8} : mem[a] = pristine[a]

(* Whatever replace is at, and also when it has panicked or faulted for    *)
(* want of memory: calling a function that was hooked runs the body of the *)
(* hook installed last, and a function that was not is as it has always    *)
(* been, never a jump to a hook the tables do not know.                    *)
HookTakesCalls ==
  \A t \in DOMAIN newest :
    IF newest[t] # 0 THEN Run(mem, t) = <<<<"body", BodyAddr(newest[t])>>>>
    ELSE t \in reverted \/ Untouched(t)

(* The 64 bytes that replace calls the worst case are enough, whatever the *)
(* instructions and the nops that align them.                              *)
TrampolineFits ==
  /\ \A i \in 1..Len(trampoline) : trampoline[i].size <= CodeSize
  /\ call.ptr - call.code <= CodeSize

(* After revert nothing that the function runs into is any hook's body,    *)
(* also when two hooks share it.                                           *)
RevertUnhooks ==
  [][\A h \in Hooks :
       (ADDR[h] # 0 /\ ADDR'[h] = 0) =>
          \A effect \in Range(Run(mem', ADDR[h])) : effect[1] # "body"]_vars
=============================================================================
