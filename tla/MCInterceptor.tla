---------------------------- MODULE MCInterceptor ----------------------------
(* Two functions with the same instructions, one at a multiple of four and *)
(* one not, with their literals in a pool behind them and, for loads that  *)
(* subtract, in one before them.                                           *)
EXTENDS Interceptor

Kinds == {"t16", "b", "t32", "ldr", "ldr_w"}
Size(kind) == IF kind \in {"t16", "b", "ldr"} THEN 2 ELSE 4

PoolBefore == 64
PoolAfter == 160

(* The offset of instruction i.                                            *)
OffsetOf(kinds, i) ==
  LET off[j \in 1..6] == IF j = 1 THEN 0 ELSE off[j - 1] + Size(kinds[j - 1]) IN off[i]

Pc(a) == ((a + 4) \div 4) * 4

Insn(kind, i, a) ==
  CASE kind \in {"t16", "b"} -> <<<<kind, i, 0>>>>
    [] kind = "t32" -> <<<<"t32", i, 0>>, <<"t32", i, 1>>>>
    [] kind = "ldr" ->
         <<<<"ldr", [r |-> "r0", imm |-> PoolAfter + 4 * i - Pc(a), add |-> TRUE], 0>>>>
    [] kind = "ldr_w" ->
         LET x == IF i % 2 = 1
                    THEN [r |-> "r1", imm |-> PoolAfter + 4 * i - Pc(a), add |-> TRUE]
                    ELSE [r |-> "r2", imm |-> Pc(a) - (PoolBefore + 4 * i), add |-> FALSE]
         IN  <<<<"ldr_w", x, 0>>, <<"ldr_w", x, 1>>>>

(* The halfwords of a function at a.                                       *)
Code(kinds, a) ==
  LET code[i \in 0..5] ==
        IF i = 0 THEN <<>> ELSE code[i - 1] \o Insn(kinds[i], i, a + OffsetOf(kinds, i))
  IN  code[5] \o [j \in 1..4 |-> <<"t16", 10 + j, 0>>] \o <<<<"ret", 0, 0>>>>

Domain == {2 * i : i \in 32..240}

Literal(a, base) == <<"lit", (a - base) \div 4 + base, ((a - base) % 4) \div 2>>

Layout(kinds) ==
  LET f == Code(kinds, 100)
      g == Code(kinds, 210)
  IN  [x \in Domain |->
        IF x >= 100 /\ x < 100 + 2 * Len(f) THEN f[(x - 100) \div 2 + 1]
        ELSE IF x >= 210 /\ x < 210 + 2 * Len(g) THEN g[(x - 210) \div 2 + 1]
        ELSE IF x < 100 THEN Literal(x, PoolBefore)
        ELSE Literal(x, PoolAfter)]

(* Every prologue.                                                         *)
AllLayouts == {Layout(k) : k \in [1..5 -> Kinds]}

(* Two of them, for longer sequences of calls.                             *)
TwoLayouts ==
  {Layout(<<"t32", "t16", "t32", "t16", "t16">>),
   Layout(<<"t16", "ldr", "t16", "ldr_w", "ldr">>)}

(* One call on each of them and four on the two, with all of the heap; and *)
(* two with no room for the first or for the second table.                 *)
MCLayouts ==
  [mem : AllLayouts, heap : {HeapStart}, calls : {1}]
  \cup [mem : TwoLayouts, heap : {HeapStart}, calls : {4}]
  \cup [mem : TwoLayouts, heap : {HeapEnd - 88, HeapEnd - 104}, calls : {2}]

(* Both functions, and an ARM address.                                     *)
MCTargets == {100, 101, 211}
=============================================================================
