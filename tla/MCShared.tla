------------------------------ MODULE MCShared ------------------------------
(* The two functions of payloads/shared, one or the other: flush_cache on  *)
(* three lines of two bytes, for ranges of every size that fits, with and  *)
(* without an aligned start, and some that wrap; search_pattern for every  *)
(* memory and every short pattern.                                         *)
EXTENDS CacheFlush, SearchPattern

CONSTANT MaxPattern   \* a bound: the halfwords of a pattern

VARIABLE called       \* the function under test

MCRanges == [start : {0, 1, 2}, size : {0, 1, 2, 3, 4}]

NoSearch ==
  /\ start = 0 /\ end = 0 /\ code = <<>> /\ mem \in [MemAddr -> {0}]
  /\ limit = 0 /\ offset = 0 /\ i = 0
  /\ at = "done" /\ result = None /\ touched = {}

AnySearch ==
  /\ start \in 0..2 /\ end \in MemAddr
  /\ code \in UNION {[1..k -> Halves] : k \in 0..MaxPattern}
  /\ mem \in [MemAddr -> Halves]
  /\ limit = 0 /\ offset = 0 /\ i = 0
  /\ at = "call" /\ result = None /\ touched = {}

NoFlush ==
  /\ unwritten = {} /\ present = {} /\ stale = {}
  /\ pc = "idle" /\ arg = [start |-> 0, size |-> 0] /\ addr = 0 /\ end_addr = 0

MCInit ==
  \/ called = "flush_cache" /\ Init /\ NoSearch
  \/ called = "search_pattern" /\ AnySearch /\ NoFlush

MCNext ==
  \/ called = "flush_cache" /\ Next /\ UNCHANGED <<searchVars, called>>
  \/ called = "search_pattern" /\ SearchNext /\ UNCHANGED <<vars, called>>

MCvars == <<vars, searchVars, called>>

MCSpec == MCInit /\ [][MCNext]_MCvars
=============================================================================
