----------------------------- MODULE CacheFlush -----------------------------
(***************************************************************************)
(* payloads/shared: making freshly written code visible to the processor.  *)
(* Stores go to the data cache and reach memory when their line is         *)
(* cleaned; instructions come from the instruction cache, which fills from *)
(* memory whenever the processor cares to prefetch.  flush_cache cleans    *)
(* the lines of a range one by one and then drops the instruction cache.   *)
(*                                                                         *)
(* Of a byte only two things matter: has its last store reached memory,    *)
(* and is the instruction cache holding an older value of it.              *)
(***************************************************************************)
EXTENDS Integers

CONSTANTS
  Line,    \* CACHE_LINE
  Lines,   \* the number of lines of the address space; usize wraps behind it
  Ranges   \* the arguments of flush_cache: [start, size]

Top == Line * Lines
Addr == 0..(Top - 1)

ASSUME LineAssumption == Line \in Nat \ {0} /\ Lines \in Nat \ {0}
ASSUME RangesAssumption == Ranges \subseteq [start : Addr, size : Addr]

VARIABLES
  unwritten,   \* bytes whose last store has not reached memory
  present,     \* lines of the instruction cache, named by their first byte
  stale,       \* bytes the instruction cache holds an older value of
  pc,          \* "idle", "clean", "icache", "returned": flush_cache
  arg,         \* its arguments
  addr,        \* the loop variable of flush_dcache
  end_addr     \* and its bound

cpu == <<unwritten, present, stale>>
locals == <<pc, arg, addr, end_addr>>
vars == <<cpu, locals>>

(* x & !(CACHE_LINE - 1) for a power of two.                               *)
AlignDown(x) == x - (x % Line)
AlignUp(x) == AlignDown(x + Line - 1)

(* The bytes that share a line with a.                                     *)
LineOf(a) == {b \in Addr : AlignDown(b) = AlignDown(a)}

Init ==
  /\ unwritten = {} /\ present = {} /\ stale = {}
  /\ pc = "idle"
  /\ arg \in Ranges
  /\ addr = 0 /\ end_addr = 0

-----------------------------------------------------------------------------
(* The processor and its caches.                                           *)

(* The program writes a byte of the code it is preparing.                  *)
Write(a) ==
  /\ pc \in {"idle", "returned"}
  /\ pc' = "idle"
  /\ unwritten' = unwritten \cup {a}
  /\ stale' = IF AlignDown(a) \in present THEN stale \cup {a} ELSE stale
  /\ UNCHANGED <<present, arg, addr, end_addr>>

Evict(a) ==
  /\ unwritten' = unwritten \ LineOf(a)
  /\ UNCHANGED <<present, stale, locals>>

Prefetch(a) ==
  /\ AlignDown(a) \notin present
  /\ present' = present \cup {AlignDown(a)}
  /\ stale' = stale \cup (unwritten \cap LineOf(a))
  /\ UNCHANGED <<unwritten, locals>>

-----------------------------------------------------------------------------
(* flush_cache                                                             *)

(* The start is aligned down, the size is taken as it is, and the end of   *)
(* the loop is aligned up in wrapping arithmetic.                          *)
Call ==
  /\ pc \in {"idle", "returned"}
  /\ arg' \in Ranges
  /\ addr' = AlignDown(arg'.start)
  /\ end_addr' = AlignDown((addr' + arg'.size + Line - 1) % Top)
  /\ pc' = "clean"
  /\ UNCHANGED cpu

(* One turn of the loop: DCCIMVAC of one line.                             *)
CleanLine ==
  /\ pc = "clean" /\ addr < end_addr
  /\ unwritten' = unwritten \ LineOf(addr)
  /\ addr' = addr + Line
  /\ UNCHANGED <<present, stale, pc, arg, end_addr>>

(* The loop is done and the dsb waits for it.                              *)
Cleaned ==
  /\ pc = "clean" /\ addr >= end_addr
  /\ pc' = "icache"
  /\ UNCHANGED <<cpu, arg, addr, end_addr>>

(* Mutant: only the data cache is flushed.                                 *)
flush_icache_none ==
  /\ pc = "icache"
  /\ pc' = "returned"
  /\ UNCHANGED <<cpu, arg, addr, end_addr>>

(* ICIALLU, and the barriers behind it.                                    *)
flush_icache ==
  /\ pc = "icache"
  /\ present' = {} /\ stale' = {}
  /\ pc' = "returned"
  /\ UNCHANGED <<unwritten, arg, addr, end_addr>>

Flush == CleanLine \/ Cleaned \/ flush_icache

Next ==
  \/ \E a \in Addr : Write(a) \/ Evict(a) \/ Prefetch(a)
  \/ Call \/ Flush

Spec == Init /\ [][Next]_vars

-----------------------------------------------------------------------------
TypeOK ==
  /\ unwritten \subseteq Addr /\ stale \subseteq Addr /\ present \subseteq Addr
  /\ pc \in {"idle", "clean", "icache", "returned"}
  /\ arg \in Ranges
  /\ addr \in 0..Top /\ end_addr \in Addr

Visible(a) == a \notin unwritten /\ a \notin stale

(* Nothing in the sums of flush_dcache wraps.                              *)
NoWrap(r) == AlignDown(r.start) + r.size + Line - 1 < Top

(* Rounding the size up makes up for rounding the start down.              *)
Fits(r) == r.start + r.size <= AlignDown(r.start) + AlignUp(r.size)

Bytes(r) == r.start..(r.start + r.size - 1)

(* When flush_cache returns, and until the next store, the processor       *)
(* executes what was written to the range, whatever was evicted or         *)
(* prefetched on the way: the lines reach memory before the instruction    *)
(* cache is dropped.  This needs a range whose last line is not lost to    *)
(* the aligned start, as when the start is aligned.                        *)
CodeVisible ==
  pc = "returned" /\ NoWrap(arg) /\ Fits(arg) => \A a \in Bytes(arg) : Visible(a)

=============================================================================
