---------------------------- MODULE SearchPattern ----------------------------
(***************************************************************************)
(* search_pattern of payloads/shared: a search of raw memory for a run of  *)
(* halfwords.  The two loops are two actions; touched is a history of the  *)
(* addresses that were read.                                               *)
(***************************************************************************)
EXTENDS Integers, Sequences

CONSTANTS MemTop,   \* addresses are 0..MemTop
          Halves \* values of a halfword

ASSUME MemTopAssumption == MemTop \in Nat

VARIABLES start, end, code, mem,   \* the arguments and the memory
          limit, offset, i,        \* locals; i is the index of the inner loop
          at,                      \* "call", "scan", "match" or "done"
          result,                  \* an address, or None
          touched

args == <<start, end, code, mem>>
searchVars == <<args, limit, offset, i, at, result, touched>>

None == -1
MemAddr == 0..MemTop
n == Len(code)

(* Any call; memory is read by halfwords, at any address.                  *)
SearchInit ==
    /\ start \in MemAddr /\ end \in MemAddr
    /\ code \in Seq(Halves)
    /\ mem \in [MemAddr -> Halves]
    /\ limit = 0 /\ offset = 0 /\ i = 0
    /\ at = "call" /\ result = None /\ touched = {}

Return(r) == at' = "done" /\ result' = r

\* Mutant: the length is subtracted in halfwords.
SaturatingSub_halves(a, b) == IF a > b \div 2 THEN a - b \div 2 ELSE 0

SaturatingSub(a, b) == IF a > b THEN a - b ELSE 0

Begin ==
    /\ at = "call"
    /\ IF n = 0 \/ end <= start
       THEN Return(None) /\ UNCHANGED <<limit, offset>>
       ELSE /\ at' = "scan" /\ limit' = SaturatingSub(end, 2 * n) /\ offset' = start
            /\ UNCHANGED result
    /\ UNCHANGED <<args, i, touched>>

(* The first halfword at offset.                                           *)
Scan ==
    /\ at = "scan" /\ offset < limit
    /\ touched' = touched \cup {offset}
    /\ IF mem[offset] # code[1] THEN offset' = offset + 2 /\ UNCHANGED <<at, i>>
       ELSE at' = "match" /\ i' = 1 /\ UNCHANGED offset
    /\ UNCHANGED <<args, limit, result>>

\* Mutant: after a partial match the scan goes on behind it.
Match_skips ==
    /\ at = "match" /\ i < n
    /\ touched' = touched \cup {offset + 2 * i}
    /\ IF mem[offset + 2 * i] = code[i + 1] THEN i' = i + 1 /\ UNCHANGED <<at, offset>>
       ELSE at' = "scan" /\ offset' = offset + 2 * i + 2 /\ UNCHANGED i
    /\ UNCHANGED <<args, limit, result>>

(* One more halfword of the pattern.                                       *)
Match ==
    /\ at = "match" /\ i < n
    /\ touched' = touched \cup {offset + 2 * i}
    /\ IF mem[offset + 2 * i] = code[i + 1] THEN i' = i + 1 /\ UNCHANGED <<at, offset>>
       ELSE at' = "scan" /\ offset' = offset + 2 /\ UNCHANGED i
    /\ UNCHANGED <<args, limit, result>>

Matched == /\ at = "match" /\ i >= n /\ Return(offset)
           /\ UNCHANGED <<args, limit, offset, i, touched>>

NotFound == /\ at = "scan" /\ offset >= limit /\ Return(None)
            /\ UNCHANGED <<args, limit, offset, i, touched>>

Done == at = "done" /\ UNCHANGED searchVars

SearchNext == Begin \/ Scan \/ Match \/ Matched \/ NotFound \/ Done

SearchSpec == SearchInit /\ [][SearchNext]_searchVars

-----------------------------------------------------------------------------
(* Properties *)

(* The arguments that are numbers, and the locals.                         *)
SearchTypeOK ==
    /\ start \in MemAddr /\ end \in MemAddr /\ n \in Nat
    /\ limit \in Nat /\ offset \in Nat /\ i \in Nat
    /\ at \in {"call", "scan", "match", "done"}
    /\ result \in Nat \cup {None} /\ touched \in SUBSET Nat

(* No raw read of search_pattern leaves the range start..end that it was   *)
(* given, whatever the memory holds and however long the pattern is.       *)
ReadsInside == \A a \in touched : start <= a /\ a + 2 <= end

MatchesAt(a) == \A k \in 1..n : mem[a + 2 * (k - 1)] = code[k]

(* The answer is the lowest match at a multiple of two from start that     *)
(* ends before the last halfword of the range does; a match that ends with *)
(* the range itself is missed, because the loop stops at end - 2n.         *)
FirstMatch ==
    at = "done" =>
        LET found == {a \in MemAddr : /\ a >= start /\ (a - start) % 2 = 0
                                   /\ n > 0 /\ a + 2 * n < end /\ MatchesAt(a)} IN
        IF result = None THEN found = {}
        ELSE result \in found /\ \A a \in found : result <= a

=============================================================================
