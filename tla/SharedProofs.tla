---------------------------- MODULE SharedProofs ----------------------------
(***************************************************************************)
(* The code the payloads share.                                            *)
(*                                                                         *)
(* flush_cache: code written to a range is visible once it has returned,   *)
(* for every size of a line, every address space and every range whose     *)
(* last line is not lost to the aligned start.  The invariant follows the  *)
(* loop: below `addr' no byte of the range waits in the data cache.  A     *)
(* prefetch can only pick up an old value from a line that still waits, so *)
(* nothing old comes back after the instruction cache is dropped.          *)
(*                                                                         *)
(* search_pattern: for every range, memory and pattern it reads only       *)
(* inside the range it was given, and finds the lowest match.              *)
(***************************************************************************)
EXTENDS CacheFlush, SearchPattern, TLAPS

Good(r) == NoWrap(r) /\ Fits(r)

(* The loop runs over whole lines, from the first line of the range.       *)
LoopInv ==
  /\ AlignDown(addr) = addr /\ AlignDown(end_addr) = end_addr
  /\ pc = "clean" =>
       /\ AlignDown(arg.start) <= addr
       /\ end_addr = AlignDown((AlignDown(arg.start) + arg.size + Line - 1) % Top)

(* What the loop has passed is in memory, and stays there.                 *)
CleanInv ==
  Good(arg) =>
    /\ pc = "clean" => \A a \in Bytes(arg) : a < addr => a \notin unwritten
    /\ pc = "icache" => \A a \in Bytes(arg) : a \notin unwritten
    /\ pc = "returned" => \A a \in Bytes(arg) : Visible(a)

IInv == TypeOK /\ LoopInv /\ CleanInv

-----------------------------------------------------------------------------
(* Division by the line.                                                   *)
LEMMA DivLine ==
  ASSUME NEW x \in Nat
  PROVE  /\ x % Line \in 0..(Line - 1)
         /\ x \div Line \in Nat
         /\ x = Line * (x \div Line) + (x % Line)
  BY LineAssumption, SMT

LEMMA ModLine ==
  ASSUME NEW q \in Nat, NEW r \in 0..(Line - 1)
  PROVE  (Line * q + r) % Line = r
  BY LineAssumption, SMT

(* A line starts at or below each of its bytes, less than a line away.     *)
LEMMA AlignDownBounds ==
  ASSUME NEW x \in Nat
  PROVE  AlignDown(x) \in Nat /\ AlignDown(x) <= x /\ x < AlignDown(x) + Line
<1>1. x % Line \in 0..(Line - 1) /\ x \div Line \in Nat /\ x = Line * (x \div Line) + (x % Line)
  BY DivLine
<1>2. Line * (x \div Line) \in Nat
  BY <1>1, LineAssumption
<1>3. AlignDown(x) = Line * (x \div Line)
  BY <1>1, <1>2, LineAssumption DEF AlignDown
<1> QED BY <1>1, <1>2, <1>3, LineAssumption

LEMMA AlignedIsMultiple ==
  ASSUME NEW x \in Nat
  PROVE  \E q \in Nat : AlignDown(x) = Line * q
<1>1. x % Line \in 0..(Line - 1) /\ x \div Line \in Nat /\ x = Line * (x \div Line) + (x % Line)
  BY DivLine
<1>2. Line * (x \div Line) \in Nat
  BY <1>1, LineAssumption
<1> QED BY <1>1, <1>2, LineAssumption DEF AlignDown

(* Every address less than a line above a multiple of the line is aligned  *)
(* down to it.                                                             *)
LEMMA AlignDownOf ==
  ASSUME NEW q \in Nat, NEW x \in Nat, Line * q <= x, x < Line * q + Line
  PROVE  AlignDown(x) = Line * q
<1>1. Line * q \in Nat
  BY LineAssumption
<1>2. x - Line * q \in 0..(Line - 1)
  BY <1>1, LineAssumption
<1>3. x = Line * q + (x - Line * q)
  BY <1>1
<1>4. x % Line = x - Line * q
  BY <1>2, <1>3, ModLine
<1> QED BY <1>1, <1>4 DEF AlignDown

LEMMA SameLine ==
  ASSUME NEW a \in Nat, NEW b \in Nat, AlignDown(b) = b, b <= a, a < b + Line
  PROVE  AlignDown(a) = b
<1>1. PICK q \in Nat : b = Line * q
  BY AlignedIsMultiple
<1> QED BY <1>1, AlignDownOf

(* Aligning after a shift by whole lines.                                  *)
LEMMA AlignDownShift ==
  ASSUME NEW s \in Nat, NEW x \in Nat, AlignDown(s) = s
  PROVE  AlignDown(s + x) = s + AlignDown(x)
<1>1. PICK q \in Nat : s = Line * q
  BY AlignedIsMultiple
<1>2. PICK p \in Nat : AlignDown(x) = Line * p
  BY AlignedIsMultiple
<1>3. AlignDown(x) \in Nat /\ AlignDown(x) <= x /\ x < AlignDown(x) + Line
  BY AlignDownBounds
<1>4. Line * (q + p) = s + AlignDown(x)
  BY <1>1, <1>2, LineAssumption
<1>5. Line * (q + p) <= s + x /\ s + x < Line * (q + p) + Line
  BY <1>3, <1>4, LineAssumption
<1>6. AlignDown(s + x) = Line * (q + p)
  BY <1>5, AlignDownOf
<1> QED BY <1>4, <1>6

LEMMA AlignDownIdempotent ==
  ASSUME NEW x \in Nat
  PROVE  AlignDown(AlignDown(x)) = AlignDown(x)
<1>1. PICK q \in Nat : AlignDown(x) = Line * q
  BY AlignedIsMultiple
<1> DEFINE y == AlignDown(x)
<1>2. y \in Nat
  BY AlignDownBounds
<1> HIDE DEF y
<1>3. Line * q <= y /\ y < Line * q + Line
  BY <1>1, <1>2, LineAssumption DEF y
<1>4. AlignDown(y) = Line * q
  BY <1>2, <1>3, AlignDownOf
<1> QED BY <1>1, <1>4 DEF y

(* Two different line starts are at least a line apart.                    *)
LEMMA LinesApart ==
  ASSUME NEW a \in Nat, NEW b \in Nat, AlignDown(a) = a, AlignDown(b) = b, a < b
  PROVE  a + Line <= b
<1> SUFFICES ASSUME b < a + Line PROVE FALSE
  BY LineAssumption
<1>1. AlignDown(b) = a
  BY SameLine
<1> QED BY <1>1

LEMMA AlignNext ==
  ASSUME NEW a \in Nat, AlignDown(a) = a
  PROVE  AlignDown(a + Line) = a + Line
<1>1. PICK q \in Nat : q = 1
  OBVIOUS
<1>2. Line * q = Line /\ Line \in Nat /\ Line > 0
  BY <1>1, LineAssumption
<1>3. Line * q <= Line /\ Line < Line * q + Line
  BY <1>2
<1>4. AlignDown(Line) = Line
  BY <1>2, <1>3, AlignDownOf
<1> QED BY <1>4, AlignDownShift, LineAssumption

-----------------------------------------------------------------------------
LEMMA InitInv == Init => IInv
<1> SUFFICES ASSUME Init PROVE IInv
  OBVIOUS
<1>1. Top \in Nat \ {0} /\ 0 \in Addr
  BY LineAssumption DEF Top, Addr
<1>2. AlignDown(0) = 0
  BY LineAssumption, AlignDownBounds
<1> QED BY <1>1, <1>2 DEF Init, IInv, TypeOK, LoopInv, CleanInv

(* Facts about the range of a call that does not wrap.                     *)
LEMMA GoodRange ==
  ASSUME NEW r \in Ranges, Good(r)
  PROVE  /\ r.start \in Nat /\ r.size \in Nat
         /\ Bytes(r) \subseteq Addr
         /\ \A a \in Bytes(r) :
              a < AlignDown((AlignDown(r.start) + r.size + Line - 1) % Top)
<1> DEFINE s == AlignDown(r.start)
           len == r.size + Line - 1
<1>1. r.start \in Nat /\ r.size \in Nat /\ Top \in Nat /\ len \in Nat
  BY RangesAssumption, LineAssumption DEF Addr, Top
<1>2. s \in Nat /\ AlignDown(s) = s
  BY <1>1, AlignDownBounds, AlignDownIdempotent
<1>3. s + len < Top
  BY <1>1, <1>2, LineAssumption DEF Good, NoWrap
<1>4. (s + len) % Top = s + len
  BY <1>1, <1>2, <1>3
<1>5. AlignDown(s + len) = s + AlignDown(len)
  BY <1>1, <1>2, AlignDownShift
<1>6. AlignDown(len) \in Nat /\ AlignDown(len) <= len
  BY <1>1, AlignDownBounds
<1>7. r.start + r.size <= s + AlignDown(len)
  BY DEF Good, Fits, AlignUp
<1>8. s + r.size + Line - 1 = s + len
  BY <1>1, <1>2, LineAssumption
<1> HIDE DEF s, len
<1>9. \A a \in Bytes(r) : a \in Nat /\ a < s + AlignDown(len)
  BY <1>1, <1>2, <1>6, <1>7 DEF Bytes
<1>10. Bytes(r) \subseteq Addr
  BY <1>1, <1>2, <1>3, <1>6, <1>9 DEF Addr
<1> QED
  BY <1>1, <1>4, <1>5, <1>8, <1>9, <1>10 DEF s

-----------------------------------------------------------------------------
LEMMA WriteInv ==
  ASSUME IInv, NEW b \in Addr, Write(b)
  PROVE  IInv'
  BY DEF IInv, TypeOK, LoopInv, CleanInv, Write, Good, NoWrap, Fits, Bytes

LEMMA EvictInv ==
  ASSUME IInv, NEW b \in Addr, Evict(b)
  PROVE  IInv'
<1>1. TypeOK' /\ LoopInv'
  BY DEF IInv, TypeOK, LoopInv, Evict, locals
<1>2. CleanInv'
  BY DEF IInv, CleanInv, Evict, locals, Good, NoWrap, Fits, Bytes, Visible
<1> QED BY <1>1, <1>2 DEF IInv

(* A prefetch takes old values only from what still waits.                 *)
LEMMA PrefetchInv ==
  ASSUME IInv, NEW b \in Addr, Prefetch(b)
  PROVE  IInv'
<1>1. AlignDown(b) \in Addr
  BY AlignDownBounds, LineAssumption DEF Addr, Top
<1>2. TypeOK' /\ LoopInv'
  BY <1>1 DEF IInv, TypeOK, LoopInv, Prefetch, locals
<1>3. CleanInv'
  BY DEF IInv, CleanInv, Prefetch, locals, Good, NoWrap, Fits, Bytes, Visible
<1> QED BY <1>2, <1>3 DEF IInv

(* The loop starts at or below the range, so it has passed none of it.     *)
LEMMA CallInv ==
  ASSUME IInv, Call
  PROVE  IInv'
<1> DEFINE x == (addr' + arg'.size + Line - 1) % Top
<1>1. arg' \in Ranges /\ arg'.start \in Addr /\ arg'.size \in Addr
  BY RangesAssumption DEF Call
<1>2. Top \in Nat \ {0}
  BY LineAssumption DEF Top
<1>3. addr' \in Nat /\ addr' <= arg'.start /\ AlignDown(addr') = addr'
  BY <1>1, <1>2, AlignDownBounds, AlignDownIdempotent DEF Call, Addr
<1>4. x \in 0..(Top - 1)
  BY <1>1, <1>2, <1>3, LineAssumption DEF Addr
<1>5. AlignDown(x) \in Nat /\ AlignDown(x) <= x /\ AlignDown(AlignDown(x)) = AlignDown(x)
  BY <1>2, <1>4, AlignDownBounds, AlignDownIdempotent
<1>6. end_addr' = AlignDown(x)
  BY DEF Call
<1> HIDE DEF x
<1>7. TypeOK'
  BY <1>1, <1>2, <1>3, <1>4, <1>5, <1>6 DEF IInv, TypeOK, Call, cpu, Addr
<1>8. LoopInv'
  BY <1>3, <1>5, <1>6 DEF LoopInv, Call, x
<1>9. CleanInv'
  BY <1>1, <1>2, <1>3 DEF CleanInv, Call, Bytes, Addr
<1> QED BY <1>7, <1>8, <1>9 DEF IInv

(* One line further: a byte of the range that the loop passes in this step *)
(* is in the line that is cleaned.                                         *)
LEMMA CleanLineInv ==
  ASSUME IInv, CleanLine
  PROVE  IInv'
<1>1. addr \in Nat /\ end_addr \in Nat /\ Top \in Nat /\ end_addr < Top /\ arg \in Ranges
  BY LineAssumption DEF IInv, TypeOK, Addr, Top
<1>2. addr + Line <= end_addr
  BY <1>1, LinesApart DEF IInv, LoopInv, CleanLine
<1>3. TypeOK'
  <2>1. addr' \in 0..Top
    BY <1>1, <1>2, LineAssumption DEF CleanLine
  <2>2. unwritten' \subseteq Addr
    BY DEF IInv, TypeOK, CleanLine
  <2> QED BY <2>1, <2>2 DEF IInv, TypeOK, CleanLine
<1>4. LoopInv'
  <2>1. AlignDown(addr + Line) = addr + Line
    BY <1>1, AlignNext DEF IInv, LoopInv
  <2>2. AlignDown(arg.start) \in Nat
    BY <1>1, RangesAssumption, AlignDownBounds DEF Addr
  <2> QED BY <1>1, <2>1, <2>2, LineAssumption DEF IInv, LoopInv, CleanLine
<1>5. CleanInv'
  <2> SUFFICES ASSUME Good(arg), NEW a \in Bytes(arg), a < addr + Line
               PROVE  a \notin unwritten'
    BY DEF CleanInv, CleanLine, Good, NoWrap, Fits, Bytes
  <2>1. a \in Addr /\ a \in Nat
    BY <1>1, GoodRange DEF Addr
  <2>2. CASE a < addr
    BY <2>2 DEF IInv, CleanInv, CleanLine
  <2>3. CASE addr <= a
    <3>1. AlignDown(a) = addr /\ AlignDown(addr) = addr
      BY <1>1, <2>1, <2>3, SameLine DEF IInv, LoopInv
    <3> QED BY <2>1, <3>1 DEF CleanLine, LineOf
  <2> QED BY <1>1, <2>1, <2>2, <2>3
<1> QED BY <1>3, <1>4, <1>5 DEF IInv

(* The loop ends behind the range.                                         *)
LEMMA CleanedInv ==
  ASSUME IInv, Cleaned
  PROVE  IInv'
<1>1. addr \in Nat /\ end_addr \in Nat /\ arg \in Ranges
  BY LineAssumption DEF IInv, TypeOK, Addr, Top
<1>2. TypeOK' /\ LoopInv'
  BY DEF IInv, TypeOK, LoopInv, Cleaned, cpu
<1>3. CleanInv'
  <2> SUFFICES ASSUME Good(arg), NEW a \in Bytes(arg)
               PROVE  a \notin unwritten
    BY DEF CleanInv, Cleaned, cpu, Good, NoWrap, Fits, Bytes
  <2>1. a \in Nat /\ a < end_addr
    BY <1>1, GoodRange DEF IInv, LoopInv, Cleaned, Addr
  <2>2. a < addr
    BY <1>1, <2>1 DEF Cleaned
  <2> QED BY <2>2 DEF IInv, CleanInv, Cleaned
<1> QED BY <1>2, <1>3 DEF IInv

LEMMA IcacheInv ==
  ASSUME IInv, flush_icache
  PROVE  IInv'
<1>1. TypeOK' /\ LoopInv'
  BY DEF IInv, TypeOK, LoopInv, flush_icache
<1>2. CleanInv'
  BY DEF IInv, CleanInv, flush_icache, Good, NoWrap, Fits, Bytes, Visible
<1> QED BY <1>1, <1>2 DEF IInv

LEMMA StepInv == IInv /\ [Next]_vars => IInv'
<1> SUFFICES ASSUME IInv, [Next]_vars PROVE IInv'
  OBVIOUS
<1>1. CASE UNCHANGED vars
  BY <1>1 DEF vars, cpu, locals, IInv, TypeOK, LoopInv, CleanInv, Good, NoWrap, Fits, Bytes, Visible
<1> QED
  BY <1>1, WriteInv, EvictInv, PrefetchInv, CallInv, CleanLineInv, CleanedInv, IcacheInv
     DEF Next, Flush

(* The state of flush_cache keeps its types: the loop never runs past the  *)
(* top of the address space, so `addr += CACHE_LINE' does not wrap.        *)
THEOREM CacheTypeCorrect == Spec => []TypeOK
<1>1. IInv => TypeOK
  BY DEF IInv
<1> QED BY <1>1, InitInv, StepInv, PTL DEF Spec

(* What was written to a range is what runs once flush_cache has returned, *)
(* for every line size, every range the rounding does not cut short, and   *)
(* every eviction and prefetch in between.                                 *)
THEOREM CodeVisibleCorrect == Spec => []CodeVisible
<1>1. IInv => CodeVisible
  BY DEF IInv, CleanInv, CodeVisible, Good
<1> QED BY <1>1, InitInv, StepInv, PTL DEF Spec

-----------------------------------------------------------------------------

(* Inside the loops the whole pattern fits between offset and end: that is *)
(* what the test against limit establishes, and what each read needs.      *)
PatternFits ==
    /\ at \in {"scan", "match"} =>
          /\ n > 0 /\ start <= offset
          /\ limit = IF end > 2 * n THEN end - 2 * n ELSE 0
    /\ at = "match" => offset + 2 * n < end /\ i >= 1

SearchInv == SearchTypeOK /\ PatternFits /\ ReadsInside

LEMMA SearchInitInv == SearchInit => SearchInv
<1> SUFFICES ASSUME SearchInit PROVE SearchInv
  OBVIOUS
<1>1. n \in Nat
  BY DEF SearchInit, n
<1>2. start \in MemAddr /\ end \in MemAddr
  BY DEF SearchInit
<1>3. limit = 0 /\ offset = 0 /\ i = 0 /\ at = "call" /\ result = None /\ touched = {}
  BY DEF SearchInit
<1> QED
  BY <1>1, <1>2, <1>3 DEF SearchInv, SearchTypeOK, PatternFits, ReadsInside, None

LEMMA SearchNextInv == SearchInv /\ [SearchNext]_searchVars => SearchInv'
<1> SUFFICES ASSUME SearchInv, [SearchNext]_searchVars PROVE SearchInv'
  OBVIOUS
<1> USE MemTopAssumption DEF SearchInv, PatternFits, ReadsInside, MemAddr, None
<1>0. n \in Nat
  BY DEF SearchTypeOK
<1>1. CASE Begin
  <2>1. args' = args /\ n' = n /\ i' = i /\ touched' = touched
    BY <1>1 DEF Begin, args, n
  <2>2. CASE n = 0 \/ end <= start
    BY <1>1, <2>1, <2>2 DEF Begin, Return, SearchTypeOK, args
  <2>3. CASE ~(n = 0 \/ end <= start)
    BY <1>0, <1>1, <2>1, <2>3 DEF Begin, SaturatingSub, SearchTypeOK, args
  <2> QED
    BY <2>2, <2>3
<1>2. CASE Scan
  <2>1. args' = args /\ n' = n /\ limit' = limit /\ result' = result
    BY <1>2 DEF Scan, args, n
  <2>2. offset + 2 * n < end /\ offset + 2 <= end
    BY <1>0, <1>2 DEF Scan, SearchTypeOK
  <2>3. touched' = touched \cup {offset}
    BY <1>2 DEF Scan
  <2>4. CASE mem[offset] # code[1]
    BY <1>0, <1>2, <2>1, <2>2, <2>3, <2>4 DEF Scan, SearchTypeOK, args
  <2>5. CASE mem[offset] = code[1]
    BY <1>0, <1>2, <2>1, <2>2, <2>3, <2>5 DEF Scan, SearchTypeOK, args
  <2> QED
    BY <2>4, <2>5
<1>3. CASE Match
  <2>1. args' = args /\ n' = n /\ limit' = limit /\ result' = result
    BY <1>3 DEF Match, args, n
  <2>2. offset + 2 * i + 2 <= end /\ start <= offset + 2 * i
    BY <1>0, <1>3 DEF Match, SearchTypeOK
  <2>3. touched' = touched \cup {offset + 2 * i}
    BY <1>3 DEF Match
  <2>4. CASE mem[offset + 2 * i] = code[i + 1]
    BY <1>0, <1>3, <2>1, <2>2, <2>3, <2>4 DEF Match, SearchTypeOK, args
  <2>5. CASE mem[offset + 2 * i] # code[i + 1]
    BY <1>0, <1>3, <2>1, <2>2, <2>3, <2>5 DEF Match, SearchTypeOK, args
  <2> QED
    BY <2>4, <2>5
<1>4. CASE Matched
  BY <1>0, <1>4 DEF Matched, Return, SearchTypeOK, args, n
<1>5. CASE NotFound
  BY <1>5 DEF NotFound, Return, SearchTypeOK, args, n
<1>6. CASE Done
  BY <1>6 DEF Done, searchVars, args, SearchTypeOK, n
<1>7. CASE UNCHANGED searchVars
  BY <1>7 DEF searchVars, args, SearchTypeOK, n
<1> QED
  BY <1>1, <1>2, <1>3, <1>4, <1>5, <1>6, <1>7 DEF SearchNext

(* No read of search_pattern leaves the range it was given, for every      *)
(* range, pattern and memory.                                              *)
THEOREM ReadsInsideCorrect == SearchSpec => []ReadsInside
<1>1. SearchSpec => []SearchInv
  BY SearchInitInv, SearchNextInv, PTL DEF SearchSpec
<1>2. SearchInv => ReadsInside
  BY DEF SearchInv
<1> QED
  BY <1>1, <1>2, PTL

(* Candidate(a): the scan looks at a.  Nothing below offset matches, and   *)
(* in the inner loop the first i halfwords do; a result is a match.        *)
Candidate(a) == a >= start /\ (a - start) % 2 = 0

NoneBelow ==
    /\ at \in {"scan", "match"} =>
          /\ Candidate(offset)
          /\ \A a \in MemAddr : Candidate(a) /\ a < offset => ~MatchesAt(a)
    /\ at = "match" => i <= n /\ \A k \in 1..i : mem[offset + 2 * (k - 1)] = code[k]

Lowest == NoneBelow /\ FirstMatch

LEMMA SearchInitLowest == SearchInit => Lowest
BY DEF SearchInit, Lowest, NoneBelow, FirstMatch

LEMMA NextLowest == SearchInv /\ Lowest /\ [SearchNext]_searchVars => Lowest'
<1> SUFFICES ASSUME SearchInv, Lowest, [SearchNext]_searchVars PROVE Lowest'
  OBVIOUS
<1> USE MemTopAssumption DEF Lowest, None
<1>0. /\ n \in Nat /\ start \in Nat /\ end \in Nat /\ end <= MemTop /\ offset \in Nat /\ i \in Nat
      /\ limit \in Nat
  BY DEF SearchTypeOK, SearchInv, MemAddr
<1>1. CASE Begin
  <2>1. args' = args /\ n' = n
    BY <1>1 DEF Begin, args, n
  <2>2. CASE n = 0 \/ end <= start
    <3>1. at' = "done" /\ result' = None
      BY <1>1, <2>2 DEF Begin, Return
    <3>2. \A a \in MemAddr : ~(a >= start /\ n > 0 /\ a + 2 * n < end)
      BY <1>0, <2>2 DEF MemAddr
    <3> QED
      BY <2>1, <3>1, <3>2 DEF NoneBelow, FirstMatch, args
  <2>3. CASE ~(n = 0 \/ end <= start)
    <3>1. at' = "scan" /\ offset' = start
      BY <1>1, <2>3 DEF Begin
    <3> QED
      BY <1>0, <2>1, <3>1 DEF NoneBelow, FirstMatch, Candidate, args, MemAddr
  <2> QED
    BY <2>2, <2>3
<1>2. CASE Scan
  <2>1. args' = args /\ n' = n /\ at = "scan" /\ at' # "done" /\ n > 0
    BY <1>2 DEF Scan, args, n, SearchInv, PatternFits
  <2>2. \A a : MatchesAt(a)' <=> MatchesAt(a)
    BY <2>1 DEF MatchesAt, args
  <2>3. \A a : Candidate(a)' <=> Candidate(a)
    BY <2>1 DEF Candidate, args
  <2>4. CASE mem[offset] # code[1]
    <3>1. at' = "scan" /\ offset' = offset + 2
      BY <1>2, <2>1, <2>4 DEF Scan
    <3>2. ~MatchesAt(offset)
      BY <1>0, <2>1, <2>4 DEF MatchesAt
    <3>3. \A a \in MemAddr : Candidate(a) /\ a < offset + 2 => a <= offset
      BY <1>0, <2>1 DEF Candidate, MemAddr, NoneBelow
    <3>4. Candidate(offset + 2)
      BY <1>0, <2>1 DEF Candidate, NoneBelow
    <3>5. \A a \in MemAddr : Candidate(a) /\ a < offset + 2 => ~MatchesAt(a)
      BY <1>0, <2>1, <3>2, <3>3 DEF NoneBelow, MemAddr
    <3> QED
      BY <2>1, <2>2, <2>3, <3>1, <3>4, <3>5 DEF NoneBelow, FirstMatch
  <2>5. CASE mem[offset] = code[1]
    <3>1. at' = "match" /\ offset' = offset /\ i' = 1
      BY <1>2, <2>1, <2>5 DEF Scan
    <3>2. \A k \in 1..1 : mem[offset + 2 * (k - 1)] = code[k]
      BY <1>0, <2>5
    <3> QED
      BY <1>0, <2>1, <2>2, <2>3, <3>1, <3>2 DEF NoneBelow, FirstMatch, args
  <2> QED
    BY <2>4, <2>5
<1>3. CASE Match
  <2>1. args' = args /\ n' = n /\ at = "match" /\ at' # "done" /\ i < n /\ i >= 1
    BY <1>3 DEF Match, args, n, SearchInv, PatternFits
  <2>2. \A a : MatchesAt(a)' <=> MatchesAt(a)
    BY <2>1 DEF MatchesAt, args
  <2>3. \A a : Candidate(a)' <=> Candidate(a)
    BY <2>1 DEF Candidate, args
  <2>4. CASE mem[offset + 2 * i] = code[i + 1]
    <3>1. at' = at /\ offset' = offset /\ i' = i + 1
      BY <1>3, <2>1, <2>4 DEF Match
    <3>2. \A k \in 1..i + 1 : mem[offset + 2 * (k - 1)] = code[k]
      <4> TAKE k \in 1..i + 1
      <4>1. CASE k \in 1..i
        BY <2>1, <4>1 DEF NoneBelow
      <4>2. CASE k = i + 1
        <5>1. k - 1 = i
          BY <1>0, <4>2
        <5> QED
          BY <2>4, <4>2, <5>1
      <4> QED
        BY <1>0, <4>1, <4>2
    <3> QED
      BY <1>0, <2>1, <2>2, <2>3, <3>1, <3>2 DEF NoneBelow, FirstMatch, args
  <2>5. CASE mem[offset + 2 * i] # code[i + 1]
    <3>1. at' = "scan" /\ offset' = offset + 2
      BY <1>3, <2>1, <2>5 DEF Match
    <3>2. ~MatchesAt(offset)
      <4>1. i + 1 \in 1..n /\ (i + 1) - 1 = i
        BY <1>0, <2>1
      <4> QED
        BY <2>5, <4>1 DEF MatchesAt
    <3>3. \A a \in MemAddr : Candidate(a) /\ a < offset + 2 => a <= offset
      BY <1>0, <2>1 DEF Candidate, MemAddr, NoneBelow
    <3>4. Candidate(offset + 2)
      BY <1>0, <2>1 DEF Candidate, NoneBelow
    <3>5. \A a \in MemAddr : Candidate(a) /\ a < offset + 2 => ~MatchesAt(a)
      BY <1>0, <2>1, <3>2, <3>3 DEF NoneBelow, MemAddr
    <3> QED
      BY <2>1, <2>2, <2>3, <3>1, <3>4, <3>5 DEF NoneBelow, FirstMatch
  <2> QED
    BY <2>4, <2>5
<1>4. CASE Matched
  <2>1. args' = args /\ n' = n /\ at = "match" /\ i >= n
    BY <1>4 DEF Matched, args, n
  <2>2. at' = "done" /\ result' = offset
    BY <1>4 DEF Matched, Return
  <2>3. MatchesAt(offset)
    BY <1>0, <2>1 DEF NoneBelow, MatchesAt
  <2>4. n > 0 /\ offset + 2 * n < end /\ offset \in MemAddr /\ offset # None
    BY <1>0, <2>1 DEF SearchInv, PatternFits, MemAddr
  <2>5. \A a \in MemAddr : a >= start /\ (a - start) % 2 = 0 /\ MatchesAt(a) => offset <= a
    BY <1>0, <2>1 DEF NoneBelow, Candidate, MemAddr
  <2>6. \A a : MatchesAt(a)' <=> MatchesAt(a)
    BY <2>1 DEF MatchesAt, args
  <2>7. offset >= start /\ (offset - start) % 2 = 0
    BY <2>1 DEF NoneBelow, Candidate
  <2> QED
    BY <2>1, <2>2, <2>3, <2>4, <2>5, <2>6, <2>7 DEF NoneBelow, FirstMatch, args
<1>5. CASE NotFound
  <2>1. args' = args /\ n' = n /\ at = "scan" /\ offset >= limit
    BY <1>5 DEF NotFound, args, n
  <2>2. at' = "done" /\ result' = None
    BY <1>5 DEF NotFound, Return
  <2>3. \A a \in MemAddr : a + 2 * n < end => a < offset
    BY <1>0, <2>1 DEF SearchInv, PatternFits, MemAddr
  <2>4. \A a : MatchesAt(a)' <=> MatchesAt(a)
    BY <2>1 DEF MatchesAt, args
  <2>5. \A a \in MemAddr : ~(a >= start /\ (a - start) % 2 = 0 /\ a + 2 * n < end /\ MatchesAt(a))
    BY <2>1, <2>3 DEF NoneBelow, Candidate
  <2> QED
    BY <2>1, <2>2, <2>4, <2>5 DEF NoneBelow, FirstMatch, args
<1>6. CASE UNCHANGED searchVars
  <2>1. args' = args /\ n' = n /\ at' = at /\ offset' = offset /\ i' = i /\ result' = result
    BY <1>6 DEF searchVars, args, n
  <2>2. \A a : MatchesAt(a)' <=> MatchesAt(a)
    BY <2>1 DEF MatchesAt, args
  <2> QED
    BY <2>1, <2>2 DEF NoneBelow, FirstMatch, Candidate, args
<1> QED
  BY <1>1, <1>2, <1>3, <1>4, <1>5, <1>6 DEF SearchNext, Done

(* What search_pattern returns is the lowest match it can see, for every   *)
(* range, pattern and memory, and None only if there is none.              *)
THEOREM FirstMatchCorrect == SearchSpec => []FirstMatch
<1>1. SearchSpec => []SearchInv
  BY SearchInitInv, SearchNextInv, PTL DEF SearchSpec
<1>2. SearchInit /\ [][SearchNext]_searchVars /\ []SearchInv => []Lowest
  BY SearchInitLowest, NextLowest, PTL
<1>3. Lowest => FirstMatch
  BY DEF Lowest
<1> QED
  BY <1>1, <1>2, <1>3, PTL DEF SearchSpec
=============================================================================
