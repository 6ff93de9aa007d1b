---------------------------- MODULE ClientProofs ----------------------------
(***************************************************************************)
(* The payload's image, stack and heap never overlap and its GOT matches   *)
(* the place it runs at, for every image and area size, every memory and   *)
(* blacklist it is loaded with, and whatever a client sends.               *)
(*                                                                         *)
(* Disjointness is not inductive by itself.  An area is disjoint from the  *)
(* next one because it is in the blacklist when the next one is looked     *)
(* for; so the invariant says that every area in use is held by a slot,    *)
(* and slots are never given back.  That nothing is known about what       *)
(* clients reserve does no harm: find_unused_range avoids it whatever it   *)
(* is.                                                                     *)
(***************************************************************************)
EXTENDS Client, ParamsProofs, TLAPS

Areas == {"image", "stack", "heap"}

(* app has settled: the image has its final place.                         *)
Placed == phase \in {"stack", "main", "hello", "serving"}

IsSeq(s) == \E S : s \in Seq(S)

(* The parameters as far as the search depends on them.                    *)
ParamsInv ==
  /\ params = [memory |-> params.memory, blacklist |-> params.blacklist]
  /\ params.memory \in MemoryRange
  /\ params.memory.end < U32Max
  /\ IsSeq(params.blacklist)

PlaceInv ==
  /\ base \in U32
  /\ areas \in [Areas -> [start : Int, end : Int]]
  /\ phase = "app" => got = 0 /\ \A a \in Areas : areas[a] = NoRange
  /\ Placed => got = base /\ areas["image"] = Range(base, ImageSize)

(* Slot s of the blacklist covers area r.                                  *)
Covers(s, r) == s.start = r.start /\ s.end \in Int /\ r.end <= s.end

HeldInv ==
  Placed =>
    \A a \in Areas : areas[a] # NoRange =>
      \E i \in 1..Len(params.blacklist) : Covers(params.blacklist[i], areas[a])

DisjointInv ==
  Placed =>
    /\ \A a, b \in Areas :
         a # b /\ areas[a] # NoRange /\ areas[b] # NoRange => ~ Overlap(areas[a], areas[b])
    /\ \A a \in {"stack", "heap"} : areas[a] # NoRange =>
         params.memory.start <= areas[a].start /\ areas[a].end <= params.memory.end

IInv == ParamsInv /\ PlaceInv /\ HeldInv /\ DisjointInv

-----------------------------------------------------------------------------
(* Appending keeps a sequence a sequence, and its elements where they are. *)
LEMMA AppendKeeps ==
  ASSUME NEW s, IsSeq(s), NEW e
  PROVE  /\ IsSeq(Append(s, e))
         /\ Len(s) \in Nat
         /\ Len(Append(s, e)) = Len(s) + 1
         /\ \A i \in 1..Len(s) : Append(s, e)[i] = s[i]
         /\ Append(s, e)[Len(s) + 1] = e
<1>1. PICK S : s \in Seq(S)
  BY DEF IsSeq
<1>2. s \in Seq(S \cup {e})
  BY <1>1
<1>3. e \in S \cup {e}
  OBVIOUS
<1>4. Append(s, e) \in Seq(S \cup {e})
  BY <1>2, <1>3
<1> QED
  BY <1>2, <1>3, <1>4 DEF IsSeq

(* A step that leaves the parameters, the place and the areas alone and    *)
(* does not bring the payload back to an earlier stage.                    *)
LEMMA Frame ==
  ASSUME IInv, UNCHANGED <<params, base, got, areas>>,
         phase' = phase \/ (phase' # "app" /\ (Placed' => Placed))
  PROVE  IInv'
<1>1. ParamsInv'
  BY DEF IInv, ParamsInv
<1>2. PlaceInv'
  BY DEF IInv, PlaceInv, Placed
<1>3. HeldInv'
  BY DEF IInv, HeldInv, Placed
<1>4. DisjointInv'
  BY DEF IInv, DisjointInv, Placed
<1> QED
  BY <1>1, <1>2, <1>3, <1>4 DEF IInv

LEMMA InitIInv == Init => IInv
<1> SUFFICES ASSUME Init PROVE IInv
  OBVIOUS
<1>1. /\ phase \in {"rom", "preloader"} /\ base = 0
      /\ params = [memory |-> [start |-> 0, end |-> 0], blacklist |-> <<>>]
      /\ areas = [image |-> NoRange, stack |-> NoRange, heap |-> NoRange]
  BY DEF Init, DeviceInit, Range
<1>2. IsSeq(<<>>)
  <2>1. <<>> \in Seq({})
    OBVIOUS
  <2> QED
    BY <2>1 DEF IsSeq
<1>3. ParamsInv
  BY <1>1, <1>2, U32MaxAssumption DEF ParamsInv, MemoryRange, U32
<1>4. PlaceInv
  BY <1>1, U32MaxAssumption DEF PlaceInv, Placed, U32, Areas, NoRange
<1> QED
  BY <1>1, <1>3, <1>4 DEF IInv, HeldInv, DisjointInv, Placed

LEMMA LoadPreserves == IInv /\ Load => IInv'
<1> SUFFICES ASSUME IInv, Load PROVE IInv'
  OBVIOUS
<1>1. PICK l \in Loads : /\ phase' = "app" /\ params' = l.params /\ base' = l.addr /\ got' = 0
                         /\ areas' = [image |-> NoRange, stack |-> NoRange, heap |-> NoRange]
  BY DEF Load, LoadPayload
<1>2. /\ l.addr \in U32
      /\ l.params = [memory |-> l.params.memory, blacklist |-> l.params.blacklist]
      /\ l.params.memory \in MemoryRange /\ l.params.memory.end < U32Max
      /\ l.params.blacklist \in Seq(BlacklistRange)
  BY LoadsAssumption
<1>3. ParamsInv'
  BY <1>1, <1>2 DEF ParamsInv, IsSeq
<1>4. PlaceInv'
  BY <1>1, <1>2 DEF PlaceInv, Placed, Areas, NoRange
<1> QED
  BY <1>1, <1>3, <1>4 DEF IInv, HeldInv, DisjointInv, Placed

-----------------------------------------------------------------------------
(* Start-up.                                                               *)

LEMMA RelocatePreserves == IInv /\ Relocate => IInv'
<1> SUFFICES ASSUME IInv, Relocate PROVE IInv'
  OBVIOUS
<1>1. /\ phase = "app" /\ UNCHANGED <<phase, params, got, areas>>
      /\ RelocRange # NoRange /\ base' = RelocRange.start
  BY DEF Relocate
<1>2. RelocRange \in MemoryRange
  BY <1>1, FoundRangeUsable, ImageAssumption DEF RelocRange, IInv, ParamsInv
<1>3. base' \in U32
  BY <1>1, <1>2 DEF MemoryRange
<1>4. ParamsInv' /\ PlaceInv'
  BY <1>1, <1>3 DEF IInv, ParamsInv, PlaceInv, Placed
<1> QED
  BY <1>1, <1>4 DEF IInv, HeldInv, DisjointInv, Placed

LEMMA SettlePreserves == IInv /\ Settle => IInv'
<1> SUFFICES ASSUME IInv, Settle PROVE IInv'
  OBVIOUS
<1>1. phase = "app" /\ got' = got + base /\ base' = base /\ got = 0 /\ base \in U32
  BY DEF IInv, PlaceInv, Settle, Die
<1>2. CASE phase' = "halted" /\ UNCHANGED <<params, areas>>
  <2>1. ParamsInv' /\ PlaceInv'
    BY <1>1, <1>2 DEF IInv, ParamsInv, PlaceInv, Placed
  <2> QED
    BY <1>2, <2>1 DEF IInv, HeldInv, DisjointInv, Placed
<1>3. CASE /\ params' = [params EXCEPT !.blacklist = blacklist_dl(@, Range(base, ImageSize))]
           /\ areas' = [areas EXCEPT !["image"] = Range(base, ImageSize)]
           /\ phase' = "stack"
  <2> DEFINE bl == params.blacklist
             e == [start |-> base, end |-> base + ImageSize, mode |-> "ForbiddenDL"]
  <2>1. /\ params' = [memory |-> params.memory, blacklist |-> Append(bl, e)]
        /\ IsSeq(bl)
    BY <1>3 DEF IInv, ParamsInv, blacklist_dl, Range
  <2>2. /\ IsSeq(Append(bl, e)) /\ Len(bl) \in Nat
        /\ Len(Append(bl, e)) = Len(bl) + 1 /\ Append(bl, e)[Len(bl) + 1] = e
    BY <2>1, AppendKeeps
  <2>3. ParamsInv'
    BY <2>1, <2>2 DEF IInv, ParamsInv
  <2>4. areas \in [Areas -> [start : Int, end : Int]] /\ \A a \in Areas : areas[a] = NoRange
    BY <1>1 DEF IInv, PlaceInv
  <2>5. /\ areas' \in [Areas -> [start : Int, end : Int]]
        /\ areas'["image"] = Range(base, ImageSize)
        /\ areas'["stack"] = NoRange /\ areas'["heap"] = NoRange
    BY <1>1, <1>3, <2>4, U32MaxAssumption, ImageAssumption DEF Areas, Range, U32
  <2>6. PlaceInv'
    BY <1>1, <1>3, <2>5, U32MaxAssumption DEF PlaceInv, Placed, U32
  <2>7. Covers(params'.blacklist[Len(bl) + 1], areas'["image"])
    BY <1>1, <2>1, <2>2, <2>5, U32MaxAssumption, ImageAssumption DEF Covers, Range, U32
  <2>8. HeldInv'
    BY <2>1, <2>2, <2>5, <2>7 DEF HeldInv, Areas
  <2>9. DisjointInv'
    BY <2>5 DEF DisjointInv, Areas
  <2> QED
    BY <2>3, <2>6, <2>8, <2>9 DEF IInv
<1> QED
  BY <1>2, <1>3 DEF Settle, Die

LEMMA NoRelocationPreserves == IInv /\ NoRelocation => IInv'
BY Frame DEF NoRelocation, Die, Placed

(* The heart of the argument: what find_unused_range returns overlaps no   *)
(* slot, and every other area is inside one.                               *)
LEMMA NewAreaDisjoint ==
  ASSUME IInv, Placed, NEW size \in Nat, NEW r,
         r = FindUnusedRange(params.memory, params.blacklist, size), r # NoRange
  PROVE  /\ r \in MemoryRange
         /\ params.memory.start <= r.start /\ r.start + size <= r.end /\ r.end <= params.memory.end
         /\ \A a \in Areas : areas[a] # NoRange => ~ Overlap(Range(r.start, size), areas[a])
                                              /\ ~ Overlap(areas[a], Range(r.start, size))
<1>1. params.memory \in MemoryRange /\ params.memory.end < U32Max
  BY DEF IInv, ParamsInv
<1>2. /\ r \in MemoryRange /\ size \in U32
      /\ params.memory.start <= r.start /\ r.end <= params.memory.end
      /\ r.end - r.start = AlignUp8(size) /\ AlignUp8(size) >= size
      /\ \A i \in 1..Len(params.blacklist) : ~ Overlap(r, params.blacklist[i])
  BY <1>1, FoundRangeUsable
<1>3. r.start \in Int /\ r.end \in Int /\ r.start + size <= r.end
  BY <1>2, U32MaxAssumption DEF MemoryRange, U32, AlignUp8
<1>4. ASSUME NEW a \in Areas, areas[a] # NoRange
      PROVE  /\ ~ Overlap(Range(r.start, size), areas[a])
             /\ ~ Overlap(areas[a], Range(r.start, size))
  <2>1. PICK i \in 1..Len(params.blacklist) : Covers(params.blacklist[i], areas[a])
    BY <1>4 DEF IInv, HeldInv
  <2>2. ~ (r.start < params.blacklist[i].end /\ params.blacklist[i].start < r.end)
    BY <1>2, <2>1 DEF Overlap
  <2>3. areas[a].start \in Int /\ areas[a].end \in Int
    BY DEF IInv, PlaceInv
  <2>4. /\ params.blacklist[i].start = areas[a].start
        /\ params.blacklist[i].end \in Int /\ areas[a].end <= params.blacklist[i].end
    BY <2>1 DEF Covers
  <2> QED
    BY <1>3, <2>2, <2>3, <2>4 DEF Overlap, Range
<1> QED
  BY <1>2, <1>3, <1>4

LEMMA TakeAreaPreserves ==
  ASSUME IInv, Placed, NEW name \in {"stack", "heap"}, NEW size \in Nat,
         TakeArea(name, size, "main"), got' = got
  PROVE  IInv'
<1> DEFINE r == FindUnusedRange(params.memory, params.blacklist, size)
           bl == params.blacklist
           e == [start |-> r.start, end |-> r.end, mode |-> "ForbiddenDL"]
<1>1. CASE phase' = "halted" /\ UNCHANGED <<base, params, areas>>
  BY <1>1, Frame DEF Placed
<1>2. CASE /\ r # NoRange
           /\ params' = [params EXCEPT !.blacklist = blacklist_dl(@, r)]
           /\ areas' = [areas EXCEPT ![name] = Range(r.start, size)]
           /\ phase' = "main" /\ base' = base
  <2> HIDE DEF r
  <2>1. /\ r \in MemoryRange /\ r.start \in Int /\ r.end \in Int
        /\ params.memory.start <= r.start /\ r.start + size <= r.end /\ r.end <= params.memory.end
        /\ \A a \in Areas : areas[a] # NoRange => ~ Overlap(Range(r.start, size), areas[a])
                                             /\ ~ Overlap(areas[a], Range(r.start, size))
    BY <1>2, NewAreaDisjoint, U32MaxAssumption DEF r, MemoryRange, U32
  <2>2. params' = [memory |-> params.memory, blacklist |-> Append(bl, e)] /\ IsSeq(bl)
    BY <1>2 DEF IInv, ParamsInv, blacklist_dl
  <2>3. /\ IsSeq(Append(bl, e)) /\ Len(bl) \in Nat
        /\ Len(Append(bl, e)) = Len(bl) + 1 /\ Append(bl, e)[Len(bl) + 1] = e
        /\ \A i \in 1..Len(bl) : Append(bl, e)[i] = bl[i]
    BY <2>2, AppendKeeps
  <2>4. ParamsInv'
    BY <2>2, <2>3 DEF IInv, ParamsInv
  <2>5. areas \in [Areas -> [start : Int, end : Int]] /\ name \in Areas
    BY DEF IInv, PlaceInv, Areas
  <2>6. /\ areas' \in [Areas -> [start : Int, end : Int]]
        /\ areas'[name] = Range(r.start, size)
        /\ \A a \in Areas : a # name => areas'[a] = areas[a]
    BY <1>2, <2>1, <2>5 DEF Range
  <2>7. PlaceInv'
    BY <1>2, <2>6 DEF IInv, PlaceInv, Placed, Areas
  <2>8. HeldInv'
    <3> SUFFICES ASSUME NEW a \in Areas, areas'[a] # NoRange
                 PROVE  \E i \in 1..Len(params'.blacklist) : Covers(params'.blacklist[i], areas'[a])
      BY DEF HeldInv
    <3>1. CASE a = name
      <4>1. Covers(params'.blacklist[Len(bl) + 1], areas'[a])
        BY <2>1, <2>2, <2>3, <2>6, <3>1 DEF Covers, Range
      <4> QED
        BY <2>2, <2>3, <4>1
    <3>2. CASE a # name
      <4>1. PICK i \in 1..Len(bl) : Covers(bl[i], areas[a])
        BY <2>6, <3>2 DEF IInv, HeldInv
      <4>2. params'.blacklist[i] = bl[i] /\ i \in 1..Len(params'.blacklist)
        BY <2>2, <2>3
      <4>3. areas'[a] = areas[a]
        BY <2>6, <3>2
      <4> QED
        BY <4>1, <4>2, <4>3
    <3> QED
      BY <3>1, <3>2
  <2>9. \A a, b \in Areas :
          a # b /\ areas'[a] # NoRange /\ areas'[b] # NoRange => ~ Overlap(areas'[a], areas'[b])
    BY <2>1, <2>6 DEF IInv, DisjointInv
  <2>10. \A a \in {"stack", "heap"} : areas'[a] # NoRange =>
           params'.memory.start <= areas'[a].start /\ areas'[a].end <= params'.memory.end
    <3> SUFFICES ASSUME NEW a \in {"stack", "heap"}, areas'[a] # NoRange
                 PROVE  params.memory.start <= areas'[a].start /\ areas'[a].end <= params.memory.end
      BY <2>2
    <3>1. CASE a = name
      <4>1. params.memory.end \in Int
        BY U32MaxAssumption DEF IInv, ParamsInv, MemoryRange, U32
      <4> QED
        BY <2>1, <2>6, <3>1, <4>1 DEF Range
    <3>2. CASE a # name
      BY <2>6, <3>2 DEF IInv, DisjointInv, Areas
    <3> QED
      BY <3>1, <3>2
  <2> QED
    BY <2>4, <2>7, <2>8, <2>9, <2>10 DEF IInv, DisjointInv
<1> QED
  BY <1>1, <1>2 DEF TakeArea, Die

-----------------------------------------------------------------------------
(* The command loop: only BlacklistRange touches what the invariant is     *)
(* about, and it only adds a slot.                                         *)

LEMMA BlacklistPreserves == IInv /\ OnBlacklistRange => IInv'
<1> SUFFICES ASSUME IInv, OnBlacklistRange PROVE IInv'
  OBVIOUS
<1>1. CASE UNCHANGED params
  BY <1>1, Frame DEF OnBlacklistRange
<1>2. CASE params' = [params EXCEPT !.blacklist = blacklist_dl(@, Arg)]
  <2> DEFINE bl == params.blacklist
             e == [start |-> Arg.start, end |-> Arg.end, mode |-> "ForbiddenDL"]
  <2>1. params' = [memory |-> params.memory, blacklist |-> Append(bl, e)] /\ IsSeq(bl)
    BY <1>2 DEF IInv, ParamsInv, blacklist_dl
  <2>2. UNCHANGED <<phase, base, got, areas>>
    BY DEF OnBlacklistRange
  <2> HIDE DEF e
  <2>3. /\ IsSeq(Append(bl, e)) /\ Len(bl) \in Nat /\ Len(Append(bl, e)) = Len(bl) + 1
        /\ \A i \in 1..Len(bl) : Append(bl, e)[i] = bl[i]
    BY <2>1, AppendKeeps
  <2>4. ParamsInv' /\ PlaceInv'
    BY <2>1, <2>2, <2>3 DEF IInv, ParamsInv, PlaceInv, Placed
  <2>5. HeldInv'
    <3> SUFFICES ASSUME Placed, NEW a \in Areas, areas[a] # NoRange
                 PROVE  \E i \in 1..Len(params'.blacklist) : Covers(params'.blacklist[i], areas[a])
      BY <2>2 DEF HeldInv, Placed
    <3>1. PICK i \in 1..Len(bl) : Covers(bl[i], areas[a])
      BY DEF IInv, HeldInv
    <3> QED
      BY <2>1, <2>3, <3>1
  <2>6. DisjointInv'
    BY <2>1, <2>2 DEF IInv, DisjointInv, Placed
  <2> QED
    BY <2>4, <2>5, <2>6 DEF IInv
<1> QED
  BY <1>1, <1>2 DEF OnBlacklistRange

LEMMA OtherArmsPreserve ==
  ASSUME IInv,
         \/ Hello \/ Greeted \/ OnAck \/ OnRead \/ OnWrite \/ OnFlushCache
         \/ OnJumpLeaves \/ OnJumpReturns \/ OnJumpRefused \/ OnReset \/ OnHook
         \/ OnGetFreeRange \/ OnSetParams \/ OnError
  PROVE  IInv'
<1>1. UNCHANGED <<params, base, got, areas>>
  BY DEF Hello, Greeted, OnAck, OnRead, OnWrite, OnFlushCache, OnJumpLeaves, OnJumpReturns,
         OnJumpRefused, OnReset, OnHook, OnGetFreeRange, OnSetParams, OnError, dev
<1>2. phase' = phase \/ (phase' # "app" /\ (Placed' => Placed))
  BY DEF Hello, Greeted, OnAck, OnRead, OnWrite, OnFlushCache, OnJumpLeaves, OnJumpReturns,
         OnJumpRefused, OnReset, OnHook, OnGetFreeRange, OnSetParams, OnError, dev, Placed
<1> QED
  BY <1>1, <1>2, Frame

-----------------------------------------------------------------------------
LEMMA NextPreserves == IInv /\ [Next]_vars => IInv'
<1> SUFFICES ASSUME IInv, [Next]_vars PROVE IInv'
  OBVIOUS
<1>1. CASE Load
  BY <1>1, LoadPreserves
<1>2. CASE Greet \/ Request \/ ReserveGrant \/ Answer \/ Done \/ UNCHANGED vars
  <2>1. UNCHANGED dev
    BY <1>2 DEF Greet, Request, ReserveGrant, Submit, Answer, Done, vars
  <2> QED
    BY <2>1, Frame DEF dev
<1>3. CASE PayloadStep
  <2>1. CASE Relocate \/ Settle \/ NoRelocation
    BY <2>1, RelocatePreserves, SettlePreserves, NoRelocationPreserves
  <2>2. CASE TakeStack
    BY <2>2, TakeAreaPreserves, AreaAssumption DEF TakeStack, Placed
  <2>3. CASE TakeHeap
    BY <2>3, TakeAreaPreserves, AreaAssumption DEF TakeHeap, Placed
  <2>4. CASE OnBlacklistRange
    BY <2>4, BlacklistPreserves
  <2> QED
    BY <1>3, <2>1, <2>2, <2>3, <2>4, OtherArmsPreserve DEF PayloadStep
<1> QED
  BY <1>1, <1>2, <1>3 DEF Next, DeviceStep

(* IInv is an invariant of the payload under any client.                   *)
THEOREM PayloadInvariant == Spec => []IInv
BY InitIInv, NextPreserves, PTL DEF Spec

(* Once app has settled, the image, the stack and the heap of the payload  *)
(* never overlap, whatever sizes they have, whatever memory and blacklist  *)
(* the host names and whatever a client asks to be reserved meanwhile.     *)
THEOREM AreasNeverOverlap == Spec => []AreasDisjoint
<1>1. IInv => AreasDisjoint
  BY DEF IInv, DisjointInv, Placed, AreasDisjoint, Settled, Areas
<1> QED
  BY <1>1, PayloadInvariant, PTL

(* fix_got has run exactly once, at the place the image ended up at, after *)
(* any number of relocations.                                              *)
THEOREM GotIsFixedOnce == Spec => []GotMatchesBase
<1>1. IInv => GotMatchesBase
  BY DEF IInv, PlaceInv, Placed, GotMatchesBase, Settled, Range
<1> QED
  BY <1>1, PayloadInvariant, PTL

-----------------------------------------------------------------------------
(* A blacklist is a prefix of what appending to it gives.                  *)
LEMMA AppendPrefix ==
  ASSUME NEW s, IsSeq(s), NEW e
  PROVE  Len(Append(s, e)) >= Len(s) /\ SubSeq(Append(s, e), 1, Len(s)) = s
<1>1. PICK S : s \in Seq(S)
  BY DEF IsSeq
<1>2. s \in Seq(S \cup {e}) /\ e \in S \cup {e}
  BY <1>1
<1>3. Append(s, e) \in Seq(S \cup {e}) /\ Len(Append(s, e)) = Len(s) + 1 /\ Len(s) \in Nat
  BY <1>2
<1>4. SubSeq(Append(s, e), 1, Len(s)) \in Seq(S \cup {e})
  BY <1>2, <1>3
<1>5. Len(SubSeq(Append(s, e), 1, Len(s))) = Len(s)
  BY <1>2, <1>3
<1>6. \A i \in 1..Len(s) : SubSeq(Append(s, e), 1, Len(s))[i] = s[i]
  BY <1>2, <1>3
<1> QED
  BY <1>2, <1>3, <1>4, <1>5, <1>6

LEMMA SelfPrefix ==
  ASSUME NEW s, IsSeq(s)
  PROVE  Len(s) >= Len(s) /\ SubSeq(s, 1, Len(s)) = s
<1>1. PICK S : s \in Seq(S)
  BY DEF IsSeq
<1> QED
  BY <1>1

(* No step of the payload or of a client changes or drops a slot that is   *)
(* in use: whatever was reserved stays reserved until a payload is loaded  *)
(* anew.                                                                   *)
THEOREM SlotsAreKept == Spec => SlotsKept
<1> DEFINE Kept == phase \notin {"rom", "preloader"} =>
                     /\ Len(params'.blacklist) >= Len(params.blacklist)
                     /\ SubSeq(params'.blacklist, 1, Len(params.blacklist)) = params.blacklist
<1>1. IInv /\ [Next]_vars => [Kept]_vars
  <2> SUFFICES ASSUME IInv, Next, phase \notin {"rom", "preloader"}
               PROVE  /\ Len(params'.blacklist) >= Len(params.blacklist)
                      /\ SubSeq(params'.blacklist, 1, Len(params.blacklist)) = params.blacklist
    OBVIOUS
  <2>1. /\ IsSeq(params.blacklist)
        /\ params = [memory |-> params.memory, blacklist |-> params.blacklist]
    BY DEF IInv, ParamsInv
  <2>2. CASE UNCHANGED params
    BY <2>1, <2>2, SelfPrefix
  <2>3. CASE \E r : params' = [params EXCEPT !.blacklist = blacklist_dl(@, r)]
    <3>1. PICK r : params' = [params EXCEPT !.blacklist = blacklist_dl(@, r)]
      BY <2>3
    <3>2. PICK e : params'.blacklist = Append(params.blacklist, e)
      BY <2>1, <3>1 DEF blacklist_dl
    <3> QED
      BY <2>1, <3>2, AppendPrefix
  <2>4. ~ Load
    BY DEF Load, LoadPayload
  <2>5. CASE Greet \/ Request \/ ReserveGrant \/ Answer \/ Done
    BY <2>2, <2>5 DEF Greet, Request, ReserveGrant, Submit, Answer, Done, vars, dev
  <2>6. CASE PayloadStep
    <3>1. CASE Settle \/ TakeStack \/ TakeHeap \/ OnBlacklistRange
      BY <2>2, <2>3, <3>1 DEF Settle, TakeStack, TakeHeap, TakeArea, OnBlacklistRange
    <3>2. CASE ~ (Settle \/ TakeStack \/ TakeHeap \/ OnBlacklistRange)
      BY <2>2, <2>6, <3>2 DEF PayloadStep, Relocate, NoRelocation, Hello, Greeted, OnAck, OnRead,
         OnWrite, OnFlushCache, OnJumpLeaves, OnJumpReturns, OnJumpRefused, OnReset, OnHook,
         OnGetFreeRange, OnSetParams, OnError, dev
    <3> QED
      BY <3>1, <3>2
  <2> QED
    BY <2>4, <2>5, <2>6 DEF Next, DeviceStep
<1> QED
  BY <1>1, PayloadInvariant, PTL DEF Spec, SlotsKept

-----------------------------------------------------------------------------
(* The session: who speaks when.                                           *)

Early == {"rom", "preloader", "app", "stack", "main"}

(* No code that was ever stored is the preloader's, so a jump never brings *)
(* back a loader that would take another payload.                          *)
MemInv ==
  /\ \A x \in U32 : mem[x] # Byte(PreloaderObj, 0)
  /\ phase = "app" => base + ImageSize <= U32Max + 1

Quiet == toDev = <<>> /\ toHost = <<>> /\ pending = FALSE

(* Fresh: nothing was granted yet.                                         *)
Fresh == grant = NoRange /\ reserved = <<>>

Greeting == Message("Ack", Empty, 0)

(* A request is on its way: any message, or the reservation of a grant.    *)
Asking ==
  /\ pending = TRUE /\ toHost = <<>>
  /\ \/ /\ grant = NoRange
        /\ \E i \in 1..Len(ClientMessages) :
             /\ toDev = Items(ClientMessages[i], sent)
             /\ ClientMessages[i].kind = "GetFreeRange" => asked = ClientMessages[i].arg.size
     \/ /\ grant # NoRange
        /\ toDev = <<Message("BlacklistRange", [grant EXCEPT !.end = @ + 1], sent)>>

(* It was answered, but the answer was not taken yet.  An Ack while there  *)
(* is a grant means that a slot of the blacklist holds it; a range is one  *)
(* that is free now.                                                       *)
Answered ==
  /\ pending = TRUE /\ toDev = <<>>
  /\ \/ Len(toHost) = 1
     \/ Len(toHost) = 2 /\ toHost[1].tag = "data" /\ toHost[1].re = sent
  /\ LET last == toHost[Len(toHost)]
         kind == Decode(ResponseKinds, last)
     IN  /\ last.re = sent
         /\ kind # "Error"
         /\ kind = "Range" =>
              /\ asked \in U32
              /\ last.arg.start = FindUnusedRange(params.memory, params.blacklist, asked).start
         /\ (kind = "Ack" /\ grant # NoRange) =>
              \E i \in 1..Len(params.blacklist) : Covers(params.blacklist[i], grant)

(* What is left of a session that is over: at most the Ack of a Reset.     *)
Over == grant = NoRange /\ (toHost = <<>> \/ toHost = <<Response("Ack", Empty, sent)>>)

SessionInv ==
  /\ phase \in Early \cup {"hello", "serving"} \cup Gone
  /\ phase \in Early => Quiet /\ Fresh
  /\ phase = "hello" =>
       /\ pending = FALSE /\ Fresh
       /\ \/ toDev = <<>> /\ toHost = <<Greeting>>
          \/ toDev = <<Greeting>> /\ toHost = <<>>
  /\ phase = "serving" => Quiet \/ Asking \/ Answered
  /\ phase \in Gone => Over

(* A range is clear of what clients reserved and of the payload's own.     *)
Clear(r) ==
  /\ \A i \in 1..Len(reserved) : ~ Overlap(reserved[i], r)
  /\ \A a \in Areas : areas[a] # NoRange => ~ Overlap(r, areas[a])

GrantInv ==
  /\ reserved \in Seq([start : Int, end : Int])
  /\ \A i, j \in 1..Len(reserved) : i # j => ~ Overlap(reserved[i], reserved[j])
  /\ \A i \in 1..Len(reserved), a \in Areas :
       areas[a] # NoRange => ~ Overlap(reserved[i], areas[a])
  /\ \A i \in 1..Len(reserved) :
       \E k \in 1..Len(params.blacklist) : Covers(params.blacklist[k], reserved[i])
  /\ grant # NoRange => grant \in [start : Int, end : Int] /\ Clear(grant)

JInv == MemInv /\ SessionInv /\ GrantInv

-----------------------------------------------------------------------------
(* What is encoded as a variant is decoded as that variant.                *)
LEMMA DecodeEncode ==
  ASSUME NEW kinds, NEW j \in 1..Len(kinds), NEW arg, NEW re
  PROVE  Decode(kinds, Encode(kinds, kinds[j], arg, re)) = kinds[j]
<1> DEFINE p == CHOOSE i \in 1..Len(kinds) : kinds[i] = kinds[j]
<1>1. p \in 1..Len(kinds) /\ kinds[p] = kinds[j]
  OBVIOUS
<1> HIDE DEF p
<1>2. Encode(kinds, kinds[j], arg, re) = [tag |-> "frame", pos |-> p, arg |-> arg, re |-> re]
  BY DEF Encode, p
<1> QED
  BY <1>1, <1>2 DEF Decode

LEMMA ResponseDecodes ==
  ASSUME NEW k \in {"Ack", "Nack", "Range"}, NEW arg, NEW re
  PROVE  /\ Decode(ResponseKinds, Response(k, arg, re)) = k
         /\ Response(k, arg, re).re = re /\ Response(k, arg, re).arg = arg
<1>1. Len(ResponseKinds) = 3 /\ \E j \in 1..3 : ResponseKinds[j] = k
  BY DEF ResponseKinds
<1>2. Decode(ResponseKinds, Response(k, arg, re)) = k
  BY <1>1, DecodeEncode DEF Response
<1> QED
  BY <1>2 DEF Response, Encode

LEMMA MessageDecodes ==
  ASSUME NEW j \in 1..Len(MessageKinds), NEW arg, NEW re
  PROVE  /\ Decode(MessageKinds, Message(MessageKinds[j], arg, re)) = MessageKinds[j]
         /\ Message(MessageKinds[j], arg, re).re = re
         /\ Message(MessageKinds[j], arg, re).arg = arg
<1>1. Decode(MessageKinds, Message(MessageKinds[j], arg, re)) = MessageKinds[j]
  BY DecodeEncode DEF Message
<1> QED
  BY <1>1 DEF Message, Encode

LEMMA JunkDecodes ==
  ASSUME NEW re
  PROVE  /\ Decode(MessageKinds, [Message("Ack", Empty, re) EXCEPT !.pos = 99]) = "Error"
         /\ [Message("Ack", Empty, re) EXCEPT !.pos = 99].re = re
<1>1. Len(MessageKinds) = 10
  BY DEF MessageKinds
<1> DEFINE x == [Message("Ack", Empty, re) EXCEPT !.pos = 99]
<1>2. x.pos = 99 /\ x.re = re
  BY DEF Message, Encode
<1> HIDE DEF x
<1>3. Decode(MessageKinds, x) = "Error"
  BY <1>1, <1>2 DEF Decode
<1> QED
  BY <1>2, <1>3 DEF x

(* The messages of a client, as the payload reads them.                    *)
LEMMA ItemsRead ==
  ASSUME NEW i \in 1..Len(ClientMessages), NEW n
  PROVE  LET m == ClientMessages[i]
             s == Items(m, n)
         IN  /\ s # <<>> /\ Head(s).re = n
             /\ m.kind = "junk" => Decode(MessageKinds, Head(s)) = "Error"
             /\ m.kind # "junk" => Decode(MessageKinds, Head(s)) = m.kind /\ Head(s).arg = m.arg
             /\ m.kind # "Write" => Tail(s) = <<>>
             /\ m.kind = "Write" => Tail(Tail(s)) = <<>> /\ s[2].arg.obj[1] = "repl"
<1> DEFINE m == ClientMessages[i]
           s == Items(m, n)
<1>1. m.kind = "junk" \/ \E k \in 1..Len(MessageKinds) : m.kind = MessageKinds[k]
  BY ClientMessagesAssumption
<1>2. CASE m.kind = "junk"
  <2> DEFINE x == [Message("Ack", Empty, n) EXCEPT !.pos = 99]
  <2>1. s = <<x>>
    BY <1>2 DEF Items
  <2>2. Decode(MessageKinds, x) = "Error" /\ x.re = n
    BY JunkDecodes
  <2> HIDE DEF x
  <2>3. s # <<>> /\ Head(s) = x /\ Tail(s) = <<>>
    BY <2>1
  <2> QED
    BY <1>2, <2>2, <2>3
<1>3. ASSUME m.kind # "junk"
      PROVE  /\ Decode(MessageKinds, Message(m.kind, m.arg, n)) = m.kind
             /\ Message(m.kind, m.arg, n).arg = m.arg /\ Message(m.kind, m.arg, n).re = n
  BY <1>1, <1>3, MessageDecodes
<1>4. CASE m.kind = "Write"
  <2> DEFINE x == Message("Write", m.arg, n)
             y == Data(<<"repl", n>>, 0, m.arg.size, n)
  <2>1. s = <<x, y>>
    BY <1>4 DEF Items
  <2>2. y.arg.obj[1] = "repl"
    BY DEF Data
  <2>3. Decode(MessageKinds, x) = m.kind /\ x.arg = m.arg /\ x.re = n
    BY <1>3, <1>4
  <2> HIDE DEF x, y
  <2>4. s # <<>> /\ Head(s) = x /\ Tail(Tail(s)) = <<>> /\ s[2] = y
    BY <2>1
  <2> QED
    BY <1>4, <2>2, <2>3, <2>4
<1>5. CASE m.kind # "junk" /\ m.kind # "Write"
  <2> DEFINE x == Message(m.kind, m.arg, n)
  <2>1. s = <<x>>
    BY <1>5 DEF Items
  <2>2. Decode(MessageKinds, x) = m.kind /\ x.arg = m.arg /\ x.re = n
    BY <1>3, <1>5
  <2> HIDE DEF x
  <2>3. s # <<>> /\ Head(s) = x /\ Tail(s) = <<>>
    BY <2>1
  <2> QED
    BY <1>5, <2>2, <2>3
<1> QED
  BY <1>2, <1>4, <1>5

(* What the command loop finds in front of it.                             *)
LEMMA InFront ==
  ASSUME SessionInv, phase = "serving", toDev # <<>>
  PROVE  LET kind == Decode(MessageKinds, Head(toDev))
         IN  /\ pending = TRUE /\ toHost = <<>> /\ Head(toDev).re = sent
             /\ kind # "Write" => Tail(toDev) = <<>>
             /\ kind = "Write" => Tail(Tail(toDev)) = <<>> /\ toDev[2].arg.obj[1] = "repl"
             /\ kind = "Jump" => Arg.addr \in U32
             /\ kind = "GetFreeRange" => asked = Arg.size /\ asked \in U32
             /\ grant # NoRange =>
                  kind = "BlacklistRange" /\ Arg = [grant EXCEPT !.end = @ + 1]
<1>1. Asking
  BY DEF SessionInv, Quiet, Answered
<1>2. pending = TRUE /\ toHost = <<>>
  BY <1>1 DEF Asking
<1>3. CASE grant = NoRange
  <2>1. PICK i \in 1..Len(ClientMessages) :
          /\ toDev = Items(ClientMessages[i], sent)
          /\ ClientMessages[i].kind = "GetFreeRange" => asked = ClientMessages[i].arg.size
    BY <1>1, <1>3 DEF Asking
  <2> DEFINE m == ClientMessages[i]
  <2>2. /\ Head(toDev).re = sent
        /\ m.kind = "junk" => Decode(MessageKinds, Head(toDev)) = "Error"
        /\ m.kind # "junk" => Decode(MessageKinds, Head(toDev)) = m.kind /\ Arg = m.arg
        /\ m.kind # "Write" => Tail(toDev) = <<>>
        /\ m.kind = "Write" => Tail(Tail(toDev)) = <<>> /\ toDev[2].arg.obj[1] = "repl"
    <3> DEFINE s == Items(m, sent)
    <3>1. /\ Head(s).re = sent
          /\ m.kind = "junk" => Decode(MessageKinds, Head(s)) = "Error"
          /\ m.kind # "junk" => Decode(MessageKinds, Head(s)) = m.kind /\ Head(s).arg = m.arg
          /\ m.kind # "Write" => Tail(s) = <<>>
          /\ m.kind = "Write" => Tail(Tail(s)) = <<>> /\ s[2].arg.obj[1] = "repl"
      BY ItemsRead, ZenonT(60)
    <3>2. toDev = s
      BY <2>1
    <3> HIDE DEF s
    <3> QED BY <3>1, <3>2 DEF Arg
  <2>3. /\ m.kind = "Jump" => m.arg.addr \in U32
        /\ m.kind = "GetFreeRange" => m.arg.size \in U32
    BY ClientMessagesAssumption
  <2> HIDE DEF m
  <2> QED
    BY <1>2, <1>3, <2>1, <2>2, <2>3 DEF m
<1>4. CASE grant # NoRange
  <2> DEFINE x == Message("BlacklistRange", [grant EXCEPT !.end = @ + 1], sent)
  <2>1. toDev = <<x>>
    BY <1>1, <1>4 DEF Asking
  <2>2. Len(MessageKinds) = 10 /\ MessageKinds[9] = "BlacklistRange"
    BY DEF MessageKinds
  <2>3. /\ Decode(MessageKinds, x) = "BlacklistRange" /\ x.re = sent
        /\ x.arg = [grant EXCEPT !.end = @ + 1]
    BY <2>2, MessageDecodes
  <2> HIDE DEF x
  <2>4. Head(toDev) = x /\ Tail(toDev) = <<>>
    BY <2>1
  <2> QED
    BY <1>2, <1>4, <2>3, <2>4 DEF Arg
<1> QED
  BY <1>3, <1>4

-----------------------------------------------------------------------------
(* Memory never comes to hold the preloader.                               *)
LEMMA StoreKeeps ==
  ASSUME \A x \in U32 : mem[x] # Byte(PreloaderObj, 0),
         NEW a, NEW n, NEW o, o[1] # "preloader", NEW off
  PROVE  \A x \in U32 : Store(mem, a, n, o, off)[x] # Byte(PreloaderObj, 0)
<1>1. \A k : Byte(o, k) # Byte(PreloaderObj, 0)
  BY DEF Byte, PreloaderObj
<1> QED
  BY <1>1 DEF Store

LEMMA CopyKeeps ==
  ASSUME \A x \in U32 : mem[x] # Byte(PreloaderObj, 0),
         NEW d \in U32, NEW a \in U32, NEW n \in Nat, a + n <= U32Max + 1
  PROVE  \A x \in U32 : Copy(mem, d, a, n)[x] # Byte(PreloaderObj, 0)
<1> SUFFICES ASSUME NEW x \in U32 PROVE Copy(mem, d, a, n)[x] # Byte(PreloaderObj, 0)
  OBVIOUS
<1>1. CASE d <= x /\ x < d + n
  <2>1. a + x - d \in U32
    BY <1>1, U32MaxAssumption DEF U32
  <2>2. Copy(mem, d, a, n)[x] = mem[a + x - d]
    BY <1>1 DEF Copy
  <2> QED BY <2>1, <2>2
<1>2. CASE ~ (d <= x /\ x < d + n)
  BY <1>2 DEF Copy
<1> QED BY <1>1, <1>2

(* Before the handler runs nothing is said and nothing granted.            *)
LEMMA StartUp ==
  ASSUME JInv, phase \in Early, UNCHANGED <<client, wire>>,
         phase' \in Early \cup {"halted"}, MemInv'
  PROVE  JInv'
<1>1. Quiet /\ Fresh
  BY DEF JInv, SessionInv
<1>2. Quiet' /\ Fresh'
  BY <1>1 DEF Quiet, Fresh, client, wire
<1>3. SessionInv'
  BY <1>2 DEF SessionInv, Early, Gone, Over, Quiet, Fresh
<1>4. GrantInv'
  BY <1>2 DEF GrantInv, Fresh
<1> QED
  BY <1>3, <1>4 DEF JInv

LEMMA LoadKeepsSession == JInv /\ Load => JInv'
<1> SUFFICES ASSUME JInv, Load PROVE JInv'
  OBVIOUS
<1>1. PICK l \in Loads : LoadPayload(l.which, l.addr, l.params)
  BY DEF Load
<1>2. /\ phase \in Early /\ phase' = "app" /\ base' = l.addr
      /\ mem' = Store(mem, l.addr, ImageFile, ImageObj, 0)
  BY <1>1 DEF LoadPayload, Early
<1>3. l.addr \in U32 /\ l.addr + ImageSize <= U32Max
  BY LoadsAssumption
<1>4. l.addr + ImageSize <= U32Max + 1
  BY <1>3, ImageAssumption, U32MaxAssumption DEF U32
<1>5. \A x \in U32 : mem'[x] # Byte(PreloaderObj, 0)
  BY <1>2, StoreKeeps DEF JInv, MemInv, ImageObj
<1>6. MemInv'
  BY <1>2, <1>4, <1>5 DEF MemInv
<1> QED
  BY <1>2, <1>6, StartUp DEF Load, Early

LEMMA PlacingKeepsSession ==
  ASSUME IInv, JInv, Relocate \/ Settle \/ NoRelocation, UNCHANGED client
  PROVE  JInv'
<1>1. phase = "app" /\ phase \in Early /\ UNCHANGED <<client, wire>>
  BY DEF Relocate, Settle, NoRelocation, Early
<1>2. base \in U32 /\ base + ImageSize <= U32Max + 1
  BY <1>1 DEF IInv, PlaceInv, JInv, MemInv
<1>3. CASE Relocate
  <2>1. /\ RelocRange # NoRange /\ base' = RelocRange.start /\ phase' = "app"
        /\ mem' = Copy(mem, RelocRange.start, base, ImageSize)
    BY <1>3 DEF Relocate
  <2>2. /\ RelocRange \in MemoryRange /\ RelocRange.end <= params.memory.end
        /\ RelocRange.end - RelocRange.start = AlignUp8(ImageSize)
        /\ AlignUp8(ImageSize) >= ImageSize
        /\ params.memory \in MemoryRange /\ params.memory.end < U32Max
    BY <2>1, FoundRangeUsable, ImageAssumption DEF RelocRange, IInv, ParamsInv
  <2>3. RelocRange.start \in U32 /\ RelocRange.start + ImageSize <= U32Max + 1
    BY <2>2, U32MaxAssumption, ImageAssumption DEF MemoryRange, U32, AlignUp8
  <2>4. \A x \in U32 : mem'[x] # Byte(PreloaderObj, 0)
    BY <1>2, <2>1, <2>3, CopyKeeps, ImageAssumption DEF JInv, MemInv
  <2>5. MemInv'
    BY <2>1, <2>3, <2>4 DEF MemInv
  <2> QED
    BY <1>1, <2>1, <2>5, StartUp DEF Early
<1>4. CASE Settle
  <2>1. /\ phase' \in {"stack", "halted"}
        /\ mem' = Store(mem, base + ImageFile, ImageSize - ImageFile, <<"bss", 0>>, 0)
    BY <1>4 DEF Settle, Die
  <2>2. \A x \in U32 : mem'[x] # Byte(PreloaderObj, 0)
    BY <2>1, StoreKeeps DEF JInv, MemInv
  <2>3. MemInv'
    BY <2>1, <2>2 DEF MemInv
  <2> QED
    BY <1>1, <2>1, <2>3, StartUp DEF Early
<1>5. CASE NoRelocation
  <2>1. phase' = "halted" /\ mem' = mem
    BY <1>5 DEF NoRelocation, Die
  <2>2. MemInv'
    BY <2>1 DEF JInv, MemInv
  <2> QED
    BY <1>1, <2>1, <2>2, StartUp DEF Early
<1> QED
  BY <1>3, <1>4, <1>5

LEMMA AreasKeepSession ==
  ASSUME JInv, TakeStack \/ TakeHeap, UNCHANGED client
  PROVE  JInv'
<1>1. phase \in Early /\ UNCHANGED <<client, wire>>
  BY DEF TakeStack, TakeHeap, Early
<1>2. phase' \in {"main", "halted"}
  BY DEF TakeStack, TakeHeap, TakeArea, Die
<1>3. PICK name \in {"stack", "heap"}, size \in {StackSize, HeapSize} :
        TakeArea(name, size, "main")
  BY DEF TakeStack, TakeHeap
<1>4. \/ mem' = mem
      \/ \E a : mem' = Store(mem, a, size, <<name, 0>>, 0)
  BY <1>3 DEF TakeArea
<1>5. <<name, 0>>[1] # "preloader"
  OBVIOUS
<1>6. \A x \in U32 : mem'[x] # Byte(PreloaderObj, 0)
  BY <1>4, <1>5, StoreKeeps DEF JInv, MemInv
<1>7. MemInv'
  BY <1>2, <1>6 DEF MemInv
<1> QED
  BY <1>1, <1>2, <1>7, StartUp DEF Early

(* The greeting goes to the host and comes back.                           *)
LEMMA GreetingKeepsSession ==
  ASSUME JInv, ((Hello \/ Greeted) /\ UNCHANGED client) \/ Greet
  PROVE  JInv'
<1>1. /\ UNCHANGED client /\ UNCHANGED <<mem, base, params, areas>>
      /\ phase \in {"main", "hello"} /\ phase' \in {"hello", "serving", "halted"}
  BY DEF Hello, Greeted, Greet, dev
<1>2. Fresh /\ pending = FALSE /\ Fresh' /\ pending' = FALSE
  BY <1>1 DEF JInv, SessionInv, Early, Quiet, Fresh, client
<1>3. MemInv'
  BY <1>1 DEF JInv, MemInv
<1>4. GrantInv'
  BY <1>2 DEF GrantInv, Fresh
<1>5. SessionInv'
  <2>1. CASE Hello
    <3>1. toDev = <<>> /\ toHost = <<>>
      BY <2>1 DEF Hello, JInv, SessionInv, Early, Quiet
    <3>2. phase' = "hello" /\ toDev' = <<>> /\ toHost' = <<Greeting>>
      BY <2>1, <3>1 DEF Hello, Greeting
    <3> QED
      BY <1>2, <3>2 DEF SessionInv, Early, Gone
  <2>2. CASE Greet
    <3>1. phase = "hello" /\ toHost # <<>> /\ phase' = "hello"
      BY <2>2 DEF Greet, dev
    <3>2. toDev = <<>> /\ toHost = <<Greeting>>
      BY <3>1 DEF JInv, SessionInv
    <3>3. toDev' = <<Greeting>> /\ toHost' = <<>>
      BY <2>2, <3>2 DEF Greet, Greeting
    <3> QED
      BY <1>2, <3>1, <3>3 DEF SessionInv, Early, Gone
  <2>3. CASE Greeted
    <3>1. phase = "hello" /\ toDev # <<>> /\ phase' \in {"serving", "halted"}
      BY <2>3 DEF Greeted
    <3>2. toDev = <<Greeting>> /\ toHost = <<>>
      BY <3>1 DEF JInv, SessionInv
    <3>3. toDev' = <<>> /\ toHost' = <<>>
      BY <2>3, <3>2 DEF Greeted
    <3> QED
      BY <1>2, <3>1, <3>3 DEF SessionInv, Early, Gone, Over, Quiet, Fresh
  <2> QED
    BY <2>1, <2>2, <2>3
<1> QED
  BY <1>3, <1>4, <1>5 DEF JInv

-----------------------------------------------------------------------------
(* The command loop.                                                       *)

(* Slots that are added do no harm to what is held.                        *)
LEMMA GrantFrame ==
  ASSUME GrantInv, UNCHANGED <<areas, reserved, grant>>,
         \A i \in 1..Len(params.blacklist) :
           i \in 1..Len(params'.blacklist) /\ params'.blacklist[i] = params.blacklist[i]
  PROVE  GrantInv'
<1>1. ASSUME NEW i \in 1..Len(reserved)
      PROVE  \E k \in 1..Len(params'.blacklist) : Covers(params'.blacklist[k], reserved[i])
  <2>1. PICK k \in 1..Len(params.blacklist) : Covers(params.blacklist[k], reserved[i])
    BY DEF GrantInv
  <2> QED BY <2>1
<1> QED
  BY <1>1 DEF GrantInv, Clear

(* One response, and nothing else left in flight.                          *)
LEMMA ReplyKeeps ==
  ASSUME JInv, phase' = "serving", UNCHANGED <<client, areas>>, MemInv',
         pending = TRUE, toDev' = <<>>,
         NEW k \in {"Ack", "Nack", "Range"}, NEW arg, toHost' = <<Response(k, arg, sent)>>,
         k = "Range" =>
           /\ asked \in U32
           /\ arg.start = FindUnusedRange(params'.memory, params'.blacklist, asked).start,
         (k = "Ack" /\ grant # NoRange) =>
           \E i \in 1..Len(params'.blacklist) : Covers(params'.blacklist[i], grant),
         \A i \in 1..Len(params.blacklist) :
           i \in 1..Len(params'.blacklist) /\ params'.blacklist[i] = params.blacklist[i]
  PROVE  JInv'
<1> DEFINE x == Response(k, arg, sent)
<1>1. Decode(ResponseKinds, x) = k /\ x.re = sent /\ x.arg = arg
  BY ResponseDecodes
<1> HIDE DEF x
<1>2. toHost' = <<x>> /\ Len(toHost') = 1 /\ toHost'[1] = x
  BY DEF x
<1>3. UNCHANGED <<sent, pending, asked, grant, reserved>>
  BY DEF client
<1>4. Answered'
  BY <1>1, <1>2, <1>3 DEF Answered
<1>5. SessionInv'
  BY <1>4 DEF SessionInv, Early, Gone
<1>6. GrantInv'
  BY <1>3, GrantFrame DEF JInv
<1> QED
  BY <1>5, <1>6 DEF JInv

(* A message other than BlacklistRange and Write is alone on the wire, and *)
(* no grant waits for its answer.                                          *)
LEMMA GotPlain ==
  ASSUME JInv, NEW kind, Got(kind), kind # "BlacklistRange", kind # "Write"
  PROVE  /\ phase = "serving" /\ pending = TRUE /\ grant = NoRange
         /\ toHost = <<>> /\ Tail(toDev) = <<>> /\ Head(toDev).re = sent
         /\ kind = "Jump" => Arg.addr \in U32
         /\ kind = "GetFreeRange" => asked = Arg.size /\ asked \in U32
<1>1. phase = "serving" /\ toDev # <<>> /\ Decode(MessageKinds, Head(toDev)) = kind
  BY DEF Got
<1> QED
  BY <1>1, InFront DEF JInv

(* The arms that answer and leave areas and parameters alone.              *)
LEMMA PlainArmKeepsSession ==
  ASSUME JInv, UNCHANGED <<client, phase, base, params, areas>>,
         NEW kind, Got(kind), kind # "BlacklistRange", kind # "Write",
         mem' = mem \/ \E a, n : mem' = Store(mem, a, n, <<"hook", 0>>, 0),
         NEW k \in {"Ack", "Nack", "Range"}, NEW arg, Reply(k, arg),
         k = "Range" => kind = "GetFreeRange" /\
           arg = [start |-> FindUnusedRange(params.memory, params.blacklist, Arg.size).start]
  PROVE  JInv'
<1>1. /\ phase = "serving" /\ pending = TRUE /\ grant = NoRange
      /\ toHost = <<>> /\ Tail(toDev) = <<>> /\ Head(toDev).re = sent
      /\ kind = "GetFreeRange" => asked = Arg.size /\ asked \in U32
  BY GotPlain
<1>2. toDev' = <<>> /\ toHost' = <<Response(k, arg, sent)>>
  BY <1>1 DEF Reply
<1>3. <<"hook", 0>>[1] # "preloader"
  OBVIOUS
<1>4. \A x \in U32 : mem'[x] # Byte(PreloaderObj, 0)
  BY <1>3, StoreKeeps DEF JInv, MemInv
<1>5. MemInv'
  BY <1>4 DEF JInv, MemInv
<1>6. k = "Range" =>
        /\ asked \in U32
        /\ arg.start = FindUnusedRange(params'.memory, params'.blacklist, asked).start
  BY <1>1
<1> QED
  BY <1>1, <1>2, <1>5, <1>6, ReplyKeeps

LEMMA AnsweringArmsKeepSession ==
  ASSUME JInv, UNCHANGED client,
         \/ OnAck \/ OnFlushCache \/ OnJumpReturns \/ OnJumpRefused \/ OnHook
         \/ OnGetFreeRange \/ OnSetParams \/ OnError
  PROVE  JInv'
<1>1. CASE OnAck
  BY <1>1, PlainArmKeepsSession DEF OnAck, dev
<1>2. CASE OnFlushCache
  BY <1>2, PlainArmKeepsSession DEF OnFlushCache, dev
<1>3. CASE OnJumpReturns
  BY <1>3, PlainArmKeepsSession DEF OnJumpReturns, dev
<1>4. CASE OnJumpRefused
  BY <1>4, PlainArmKeepsSession DEF OnJumpRefused, dev
<1>5. CASE OnHook
  <2>1. Got("Hook") /\ UNCHANGED <<phase, base, params, areas>>
    BY <1>5 DEF OnHook
  <2>2. \E k \in {"Ack", "Nack"} : \E arg :
          Reply(k, arg) /\ (mem' = mem \/ \E a, n : mem' = Store(mem, a, n, <<"hook", 0>>, 0))
    BY <1>5 DEF OnHook
  <2> QED
    BY <2>1, <2>2, PlainArmKeepsSession
<1>6. CASE OnGetFreeRange
  <2> DEFINE arg == [start |-> FindUnusedRange(params.memory, params.blacklist, Arg.size).start]
  <2>1. /\ Got("GetFreeRange") /\ Reply("Range", arg) /\ mem' = mem
        /\ UNCHANGED <<phase, base, params, areas>>
    BY <1>6 DEF OnGetFreeRange, dev
  <2> HIDE DEF arg
  <2>2. arg = [start |-> FindUnusedRange(params.memory, params.blacklist, Arg.size).start]
    BY DEF arg
  <2> QED
    BY <2>1, <2>2, PlainArmKeepsSession
<1>7. CASE OnSetParams
  <2>1. Got("SetParams") /\ mem' = mem /\ UNCHANGED <<phase, base, params, areas>>
    BY <1>7 DEF OnSetParams
  <2>2. \E k \in {"Ack", "Nack"} : \E arg : Reply(k, arg)
    BY <1>7 DEF OnSetParams
  <2> QED
    BY <2>1, <2>2, PlainArmKeepsSession
<1>8. CASE OnError
  BY <1>8, PlainArmKeepsSession DEF OnError, dev
<1> QED
  BY <1>1, <1>2, <1>3, <1>4, <1>5, <1>6, <1>7, <1>8

(* The bytes and the Ack of a Read.                                        *)
LEMMA ReadKeepsSession == JInv /\ OnRead /\ UNCHANGED client => JInv'
<1> SUFFICES ASSUME JInv, OnRead, UNCHANGED client PROVE JInv'
  OBVIOUS
<1>1. Got("Read") /\ UNCHANGED dev
  BY DEF OnRead
<1>2. /\ phase = "serving" /\ pending = TRUE /\ grant = NoRange
      /\ toHost = <<>> /\ Tail(toDev) = <<>> /\ Head(toDev).re = sent
  BY <1>1, GotPlain
<1> DEFINE d == Data(<<"mem", Arg.addr>>, 0, Arg.size, sent)
           x == Response("Ack", Empty, sent)
<1>3. d.tag = "data" /\ d.re = sent
  BY DEF Data
<1>4. Decode(ResponseKinds, x) = "Ack" /\ x.re = sent
  BY ResponseDecodes
<1> HIDE DEF d, x
<1>5. toDev' = <<>> /\ toHost' = <<>> \o <<d, x>>
  BY <1>2 DEF OnRead, d, x
<1>6. toHost' = <<d, x>> /\ Len(toHost') = 2 /\ toHost'[1] = d /\ toHost'[2] = x
  BY <1>5
<1>7. UNCHANGED <<sent, pending, asked, grant, reserved, phase, mem, base, params, areas>>
  BY <1>1 DEF client, dev
<1>8. Answered'
  BY <1>2, <1>3, <1>4, <1>5, <1>6, <1>7 DEF Answered
<1>9. SessionInv'
  BY <1>2, <1>7, <1>8 DEF SessionInv, Early, Gone
<1>10. MemInv'
  BY <1>7 DEF JInv, MemInv
<1>11. GrantInv'
  BY <1>7, GrantFrame DEF JInv
<1> QED
  BY <1>9, <1>10, <1>11 DEF JInv

LEMMA WriteKeepsSession == JInv /\ OnWrite /\ UNCHANGED client => JInv'
<1> SUFFICES ASSUME JInv, OnWrite, UNCHANGED client PROVE JInv'
  OBVIOUS
<1>1. /\ phase = "serving" /\ toDev # <<>> /\ Decode(MessageKinds, Head(toDev)) = "Write"
      /\ UNCHANGED <<base, params, areas>>
      /\ mem' = Store(mem, Arg.addr, Arg.size, toDev[2].arg.obj, toDev[2].arg.off)
  BY DEF OnWrite, Got
<1>2. /\ pending = TRUE /\ toHost = <<>> /\ Head(toDev).re = sent /\ grant = NoRange
      /\ Tail(Tail(toDev)) = <<>> /\ toDev[2].arg.obj[1] = "repl"
  BY <1>1, InFront DEF JInv
<1>3. \A x \in U32 : mem'[x] # Byte(PreloaderObj, 0)
  BY <1>1, <1>2, StoreKeeps DEF JInv, MemInv
<1>4. phase' # "app" /\ MemInv'
  BY <1>1, <1>3 DEF OnWrite, MemInv
<1>5. CASE toHost' = Append(toHost, Response("Ack", Empty, Head(toDev).re)) /\ phase' = phase
  <2>0. toDev' = Tail(Tail(toDev))
    BY DEF OnWrite
  <2>1. toDev' = <<>> /\ toHost' = <<Response("Ack", Empty, sent)>>
    BY <1>2, <1>5, <2>0
  <2> QED
    BY <1>1, <1>2, <1>4, <1>5, <2>1, ReplyKeeps
<1>6. CASE phase' = "crashed" /\ toHost' = toHost
  <2>1. SessionInv'
    BY <1>2, <1>6 DEF SessionInv, Early, Gone, Over, client
  <2>2. GrantInv'
    BY <1>1, GrantFrame DEF JInv, client
  <2> QED
    BY <1>4, <2>1, <2>2 DEF JInv
<1> QED
  BY <1>5, <1>6 DEF OnWrite

(* A jump leads away for good: nothing stored is the preloader.            *)
LEMMA LeavingKeepsSession ==
  ASSUME JInv, OnJumpLeaves \/ OnReset, UNCHANGED client
  PROVE  JInv'
<1>1. PICK kind \in {"Jump", "Reset"} : Got(kind)
  BY DEF OnJumpLeaves, OnReset
<1>2. /\ phase = "serving" /\ grant = NoRange
      /\ toHost = <<>> /\ Tail(toDev) = <<>> /\ Head(toDev).re = sent
  BY <1>1, GotPlain
<1>3. UNCHANGED <<mem, base, params, areas, grant, reserved, sent>>
  BY DEF OnJumpLeaves, OnReset, client
<1>4. phase' \in {"booted", "reset"}
  <2>1. CASE OnReset
    BY <2>1 DEF OnReset
  <2>2. CASE OnJumpLeaves
    <3>1. Got("Jump")
      BY <2>2 DEF OnJumpLeaves
    <3>2. Arg.addr \in U32
      BY <3>1, GotPlain
    <3>3. mem[Arg.addr] # Byte(PreloaderObj, 0)
      BY <3>2 DEF JInv, MemInv
    <3> QED
      BY <2>2, <3>3 DEF OnJumpLeaves
  <2> QED BY <2>1, <2>2
<1>5. toHost' = <<>> \/ toHost' = <<Response("Ack", Empty, sent)>>
  BY <1>2 DEF OnJumpLeaves, OnReset, Reply
<1>6. SessionInv'
  BY <1>2, <1>3, <1>4, <1>5 DEF SessionInv, Early, Gone, Over
<1>7. MemInv'
  BY <1>3, <1>4 DEF JInv, MemInv
<1>8. GrantInv'
  BY <1>3, GrantFrame DEF JInv
<1> QED
  BY <1>6, <1>7, <1>8 DEF JInv

(* BlacklistRange: an Ack means that a slot holds the grant.               *)
LEMMA BlacklistKeepsSession ==
  ASSUME IInv, JInv, OnBlacklistRange, UNCHANGED client
  PROVE  JInv'
<1>1. /\ phase = "serving" /\ toDev # <<>>
      /\ Decode(MessageKinds, Head(toDev)) = "BlacklistRange"
      /\ UNCHANGED <<phase, mem, base, areas>>
  BY DEF OnBlacklistRange, Got
<1>2. /\ pending = TRUE /\ toHost = <<>> /\ Head(toDev).re = sent /\ Tail(toDev) = <<>>
      /\ grant # NoRange => Arg = [grant EXCEPT !.end = @ + 1]
  BY <1>1, InFront DEF JInv
<1>3. MemInv'
  BY <1>1 DEF JInv, MemInv
<1>4. CASE UNCHANGED params /\ Reply("Nack", [error |-> "NotSupported"])
  <2>1. toDev' = <<>> /\ toHost' = <<Response("Nack", [error |-> "NotSupported"], sent)>>
    BY <1>2, <1>4 DEF Reply
  <2> QED
    BY <1>1, <1>2, <1>3, <1>4, <2>1, ReplyKeeps
<1>5. CASE params' = [params EXCEPT !.blacklist = blacklist_dl(@, Arg)] /\ Reply("Ack", Empty)
  <2> DEFINE bl == params.blacklist
             e == [start |-> Arg.start, end |-> Arg.end, mode |-> "ForbiddenDL"]
  <2>1. params' = [memory |-> params.memory, blacklist |-> Append(bl, e)] /\ IsSeq(bl)
    BY <1>5 DEF IInv, ParamsInv, blacklist_dl
  <2>2. e.start = Arg.start /\ e.end = Arg.end
    OBVIOUS
  <2> HIDE DEF e
  <2>3. /\ Len(bl) \in Nat /\ Len(params'.blacklist) = Len(bl) + 1
        /\ params'.blacklist[Len(bl) + 1] = e
        /\ \A i \in 1..Len(bl) : params'.blacklist[i] = bl[i]
    BY <2>1, AppendKeeps
  <2>4. ASSUME grant # NoRange
        PROVE  \E i \in 1..Len(params'.blacklist) : Covers(params'.blacklist[i], grant)
    <3>1. grant \in [start : Int, end : Int]
      BY <2>4 DEF JInv, GrantInv
    <3>2. Arg.start = grant.start /\ Arg.end = grant.end + 1
      BY <1>2, <2>4, <3>1
    <3>3. Covers(e, grant)
      BY <2>2, <3>1, <3>2 DEF Covers
    <3> QED BY <2>3, <3>3
  <2>5. toDev' = <<>> /\ toHost' = <<Response("Ack", Empty, sent)>>
    BY <1>2, <1>5 DEF Reply
  <2>6. \A i \in 1..Len(bl) : i \in 1..Len(params'.blacklist) /\ params'.blacklist[i] = bl[i]
    BY <2>3
  <2> QED
    BY <1>1, <1>2, <1>3, <2>4, <2>5, <2>6, ReplyKeeps
<1> QED
  BY <1>4, <1>5 DEF OnBlacklistRange

-----------------------------------------------------------------------------
(* The client.                                                             *)

LEMMA SubmitQuiet ==
  ASSUME JInv, NEW items, Submit(items)
  PROVE  /\ Quiet /\ phase = "serving" /\ toDev' = items /\ toHost' = <<>>
         /\ pending' = TRUE /\ sent' = sent + 1 /\ reserved' = reserved /\ UNCHANGED dev
<1>1. phase = "serving" /\ ~ pending /\ toDev = <<>>
  BY DEF Submit
<1>2. Quiet
  BY <1>1 DEF JInv, SessionInv, Asking, Answered
<1> QED
  BY <1>1, <1>2 DEF Submit, Quiet

LEMMA RequestKeepsSession == JInv /\ Request => JInv'
<1> SUFFICES ASSUME JInv, Request PROVE JInv'
  OBVIOUS
<1>1. PICK i \in 1..Len(ClientMessages) :
        /\ Submit(Items(ClientMessages[i], sent + 1))
        /\ asked' = IF ClientMessages[i].kind = "GetFreeRange" THEN ClientMessages[i].arg.size ELSE 0
  BY DEF Request
<1>2. grant' = NoRange
  BY DEF Request
<1>3. /\ phase = "serving" /\ toDev' = Items(ClientMessages[i], sent + 1) /\ toHost' = <<>>
      /\ pending' = TRUE /\ sent' = sent + 1 /\ reserved' = reserved /\ UNCHANGED dev
  BY <1>1, SubmitQuiet
<1>4. UNCHANGED <<phase, mem, base, params, areas>>
  BY <1>3 DEF dev
<1>5. toDev' = Items(ClientMessages[i], sent')
  BY <1>3
<1>6. Asking'
  BY <1>1, <1>2, <1>3, <1>5 DEF Asking, Items
<1>7. SessionInv'
  BY <1>3, <1>4, <1>6 DEF SessionInv, Early, Gone
<1>8. MemInv'
  BY <1>4 DEF JInv, MemInv
<1>9. GrantInv'
  BY <1>2, <1>3, <1>4 DEF JInv, GrantInv
<1> QED
  BY <1>7, <1>8, <1>9 DEF JInv

LEMMA ReserveKeepsSession == JInv /\ ReserveGrant => JInv'
<1> SUFFICES ASSUME JInv, ReserveGrant PROVE JInv'
  OBVIOUS
<1> DEFINE items == <<Message("BlacklistRange", [grant EXCEPT !.end = @ + 1], sent + 1)>>
<1>1. grant # NoRange /\ Submit(items) /\ UNCHANGED <<asked, grant>>
  BY DEF ReserveGrant
<1> HIDE DEF items
<1>2. /\ phase = "serving" /\ toDev' = items /\ toHost' = <<>>
      /\ pending' = TRUE /\ sent' = sent + 1 /\ reserved' = reserved /\ UNCHANGED dev
  BY <1>1, SubmitQuiet
<1>3. UNCHANGED <<phase, mem, base, params, areas>>
  BY <1>2 DEF dev
<1>4. toDev' = <<Message("BlacklistRange", [grant EXCEPT !.end = @ + 1], sent)>>'
  BY <1>1, <1>2 DEF items
<1>5. Asking'
  BY <1>1, <1>2, <1>4 DEF Asking
<1>6. SessionInv'
  BY <1>2, <1>3, <1>5 DEF SessionInv, Early, Gone
<1>7. MemInv'
  BY <1>3 DEF JInv, MemInv
<1>8. GrantInv'
  BY <1>1, <1>2, <1>3, GrantFrame DEF JInv
<1> QED
  BY <1>6, <1>7, <1>8 DEF JInv

LEMMA OverlapSymmetric ==
  ASSUME NEW r, NEW s
  PROVE  Overlap(r, s) <=> Overlap(s, r)
  BY DEF Overlap

(* A range that find_unused_range returns is clear of everything a slot of *)
(* the blacklist covers.                                                   *)
LEMMA FoundClear ==
  ASSUME IInv, NEW size \in Nat, NEW r,
         r = FindUnusedRange(params.memory, params.blacklist, size), r # NoRange,
         NEW x \in [start : Int, end : Int],
         \E i \in 1..Len(params.blacklist) : Covers(params.blacklist[i], x)
  PROVE  ~ Overlap(Range(r.start, size), x)
<1>1. params.memory \in MemoryRange /\ params.memory.end < U32Max
  BY DEF IInv, ParamsInv
<1>2. /\ r \in MemoryRange
      /\ r.end - r.start = AlignUp8(size) /\ AlignUp8(size) >= size
      /\ \A i \in 1..Len(params.blacklist) : ~ Overlap(r, params.blacklist[i])
  BY <1>1, FoundRangeUsable
<1>3. r.start \in Int /\ r.end \in Int /\ r.start + size <= r.end
  BY <1>2, U32MaxAssumption DEF MemoryRange, U32, AlignUp8
<1>4. PICK i \in 1..Len(params.blacklist) : Covers(params.blacklist[i], x)
  OBVIOUS
<1>5. ~ (r.start < params.blacklist[i].end /\ params.blacklist[i].start < r.end)
  BY <1>2, <1>4 DEF Overlap
<1>6. /\ params.blacklist[i].start = x.start
      /\ params.blacklist[i].end \in Int /\ x.end <= params.blacklist[i].end
  BY <1>4 DEF Covers
<1>7. x.start \in Int /\ x.end \in Int
  OBVIOUS
<1> QED
  BY <1>3, <1>5, <1>6, <1>7 DEF Overlap, Range

(* A member of a sequence over a set is in the set.                       *)
LEMMA MemberOfSeq ==
  ASSUME NEW S, NEW s \in Seq(S), NEW i \in 1..Len(s)
  PROVE  s[i] \in S
  OBVIOUS

(* A granted range overlaps neither what was reserved before nor what the  *)
(* payload runs on.                                                        *)
LEMMA GrantClear ==
  ASSUME IInv, JInv, Placed, NEW size \in Nat, NEW r,
         r = FindUnusedRange(params.memory, params.blacklist, size), r # NoRange
  PROVE  Range(r.start, size) \in [start : Int, end : Int] /\ Clear(Range(r.start, size))
<1>1. params.memory \in MemoryRange /\ params.memory.end < U32Max
  BY DEF IInv, ParamsInv
<1>2. r \in MemoryRange
  BY <1>1, FoundRangeUsable
<1>3. Range(r.start, size) \in [start : Int, end : Int]
  BY <1>2, U32MaxAssumption DEF MemoryRange, U32, Range
<1>4. ASSUME NEW i \in 1..Len(reserved) PROVE ~ Overlap(reserved[i], Range(r.start, size))
  <2>0. reserved \in Seq([start : Int, end : Int])
    BY DEF JInv, GrantInv
  <2>1. reserved[i] \in [start : Int, end : Int]
    BY <2>0, MemberOfSeq, Zenon
  <2>2. \E k \in 1..Len(params.blacklist) : Covers(params.blacklist[k], reserved[i])
    BY DEF JInv, GrantInv
  <2> QED
    BY <2>1, <2>2, FoundClear, OverlapSymmetric
<1>5. ASSUME NEW a \in Areas, areas[a] # NoRange PROVE ~ Overlap(Range(r.start, size), areas[a])
  <2>1. areas[a] \in [start : Int, end : Int]
    BY DEF IInv, PlaceInv
  <2>2. \E k \in 1..Len(params.blacklist) : Covers(params.blacklist[k], areas[a])
    BY <1>5 DEF IInv, HeldInv
  <2> QED
    BY <2>1, <2>2, FoundClear
<1> QED
  BY <1>3, <1>4, <1>5 DEF Clear

(* A grant that was reserved joins the others.                             *)
LEMMA ReservedGrows ==
  ASSUME GrantInv, grant # NoRange, UNCHANGED <<areas, params>>,
         \E k \in 1..Len(params.blacklist) : Covers(params.blacklist[k], grant),
         reserved' = Append(reserved, grant), grant' = NoRange
  PROVE  GrantInv'
<1>1. grant \in [start : Int, end : Int] /\ Clear(grant) /\ reserved \in Seq([start : Int, end : Int])
  BY DEF GrantInv
<1>2. /\ reserved' \in Seq([start : Int, end : Int]) /\ Len(reserved) \in Nat
      /\ Len(reserved') = Len(reserved) + 1
      /\ \A i \in 1..Len(reserved) : reserved'[i] = reserved[i]
      /\ reserved'[Len(reserved) + 1] = grant
  BY <1>1
<1>3. \A i \in 1..Len(reserved') : i \in 1..Len(reserved) \/ i = Len(reserved) + 1
  BY <1>2
<1>4. ASSUME NEW i \in 1..Len(reserved'), NEW j \in 1..Len(reserved'), i # j
      PROVE  ~ Overlap(reserved'[i], reserved'[j])
  <2>1. CASE i \in 1..Len(reserved) /\ j \in 1..Len(reserved)
    BY <1>2, <1>4, <2>1 DEF GrantInv
  <2>2. CASE i \in 1..Len(reserved) /\ j = Len(reserved) + 1
    BY <1>1, <1>2, <2>2 DEF Clear
  <2>3. CASE i = Len(reserved) + 1 /\ j \in 1..Len(reserved)
    BY <1>1, <1>2, <2>3, OverlapSymmetric DEF Clear
  <2> QED
    BY <1>3, <1>4, <2>1, <2>2, <2>3
<1>5. ASSUME NEW i \in 1..Len(reserved'), NEW a \in Areas, areas[a] # NoRange
      PROVE  ~ Overlap(reserved'[i], areas[a])
  <2>1. CASE i \in 1..Len(reserved)
    BY <1>2, <1>5, <2>1 DEF GrantInv
  <2>2. CASE i = Len(reserved) + 1
    BY <1>1, <1>2, <1>5, <2>2 DEF Clear
  <2> QED
    BY <1>3, <2>1, <2>2
<1>6. ASSUME NEW i \in 1..Len(reserved')
      PROVE  \E k \in 1..Len(params.blacklist) : Covers(params.blacklist[k], reserved'[i])
  <2>1. CASE i \in 1..Len(reserved)
    BY <1>2, <2>1 DEF GrantInv
  <2>2. CASE i = Len(reserved) + 1
    BY <1>2, <2>2
  <2> QED
    BY <1>3, <2>1, <2>2
<1> QED
  BY <1>2, <1>4, <1>5, <1>6 DEF GrantInv

LEMMA AnswerKeepsSession == IInv /\ JInv /\ Answer => JInv'
<1> SUFFICES ASSUME IInv, JInv, Answer PROVE JInv'
  OBVIOUS
<1> DEFINE last == toHost[Len(toHost)]
           kind == Decode(ResponseKinds, last)
<1>1. /\ pending /\ toHost # <<>> /\ toHost' = <<>> /\ pending' = FALSE
      /\ grant' = IF kind = "Range" /\ last.arg.start # NoRange.start
                    THEN Range(last.arg.start, asked) ELSE NoRange
      /\ reserved' = IF kind = "Ack" /\ grant # NoRange THEN Append(reserved, grant) ELSE reserved
      /\ UNCHANGED <<sent, asked, dev, toDev>>
  BY DEF Answer
<1>2. UNCHANGED <<phase, mem, base, params, areas>>
  BY <1>1 DEF dev
<1>3. MemInv'
  BY <1>2 DEF JInv, MemInv
<1>4. phase \in {"serving"} \cup Gone
  BY <1>1 DEF JInv, SessionInv, Quiet, Early
<1>5. CASE phase = "serving"
  <2>1. Answered
    BY <1>1, <1>5 DEF JInv, SessionInv, Quiet, Asking
  <2>2. /\ toDev = <<>>
        /\ kind = "Range" =>
             /\ asked \in U32
             /\ last.arg.start = FindUnusedRange(params.memory, params.blacklist, asked).start
        /\ (kind = "Ack" /\ grant # NoRange) =>
             \E i \in 1..Len(params.blacklist) : Covers(params.blacklist[i], grant)
    BY <2>1 DEF Answered
  <2>3. SessionInv'
    BY <1>1, <1>2, <1>5, <2>2 DEF SessionInv, Quiet, Early, Gone
  <2>4. CASE kind = "Range" /\ last.arg.start # NoRange.start
    <3> DEFINE r == FindUnusedRange(params.memory, params.blacklist, asked)
    <3>1. r # NoRange /\ grant' = Range(r.start, asked) /\ reserved' = reserved
      BY <1>1, <2>2, <2>4
    <3> HIDE DEF r
    <3>2. asked \in Nat /\ Placed
      BY <1>5, <2>2, <2>4, U32MaxAssumption DEF U32, Placed
    <3>3. Range(r.start, asked) \in [start : Int, end : Int] /\ Clear(Range(r.start, asked))
      BY <3>1, <3>2, GrantClear DEF r
    <3>4. Clear(grant)'
      BY <1>2, <3>1, <3>3 DEF Clear
    <3>5. GrantInv'
      BY <1>2, <3>1, <3>3, <3>4 DEF JInv, GrantInv
    <3> QED
      BY <1>3, <2>3, <3>5 DEF JInv
  <2>5. CASE kind = "Ack" /\ grant # NoRange
    <3>1. grant' = NoRange /\ reserved' = Append(reserved, grant)
      BY <1>1, <2>5
    <3>2. GrantInv'
      BY <1>2, <2>2, <2>5, <3>1, ReservedGrows DEF JInv
    <3> QED
      BY <1>3, <2>3, <3>2 DEF JInv
  <2>6. CASE ~ (kind = "Range" /\ last.arg.start # NoRange.start) /\ ~ (kind = "Ack" /\ grant # NoRange)
    <3>1. grant' = NoRange /\ reserved' = reserved
      BY <1>1, <2>6
    <3>2. GrantInv'
      BY <1>2, <3>1 DEF JInv, GrantInv
    <3> QED
      BY <1>3, <2>3, <3>2 DEF JInv
  <2> QED
    BY <2>4, <2>5, <2>6
<1>6. CASE phase \in Gone
  <2> DEFINE x == Response("Ack", Empty, sent)
  <2>1. grant = NoRange /\ toHost = <<x>>
    BY <1>1, <1>6 DEF JInv, SessionInv, Over
  <2>2. Decode(ResponseKinds, x) = "Ack"
    BY ResponseDecodes
  <2> HIDE DEF x
  <2>3. kind = "Ack"
    BY <2>1, <2>2
  <2>4. grant' = NoRange /\ reserved' = reserved
    BY <1>1, <2>1, <2>3
  <2>5. SessionInv'
    BY <1>1, <1>2, <1>6, <2>4 DEF SessionInv, Over, Early, Gone
  <2>6. GrantInv'
    BY <1>2, <2>4 DEF JInv, GrantInv
  <2> QED
    BY <1>3, <2>5, <2>6 DEF JInv
<1> QED
  BY <1>4, <1>5, <1>6

-----------------------------------------------------------------------------
LEMMA InitJInv == Init => JInv
<1> SUFFICES ASSUME Init PROVE JInv
  OBVIOUS
<1>1. /\ phase \in {"rom", "preloader"} /\ mem = [a \in U32 |-> Blank]
      /\ toDev = <<>> /\ toHost = <<>> /\ pending = FALSE /\ grant = NoRange /\ reserved = <<>>
  BY DEF Init, DeviceInit
<1>2. MemInv
  BY <1>1 DEF MemInv, Blank, Byte, PreloaderObj
<1>3. SessionInv
  BY <1>1 DEF SessionInv, Early, Gone, Quiet, Fresh
<1>4. GrantInv
  BY <1>1 DEF GrantInv
<1> QED
  BY <1>2, <1>3, <1>4 DEF JInv

LEMMA NextKeepsSession == IInv /\ JInv /\ [Next]_vars => JInv'
<1> SUFFICES ASSUME IInv, JInv, [Next]_vars PROVE JInv'
  OBVIOUS
<1>1. CASE Load
  BY <1>1, LoadKeepsSession
<1>2. CASE Greet
  BY <1>2, GreetingKeepsSession
<1>3. CASE Request \/ ReserveGrant \/ Answer
  BY <1>3, RequestKeepsSession, ReserveKeepsSession, AnswerKeepsSession
<1>4. CASE DeviceStep
  <2>1. UNCHANGED client /\ PayloadStep
    BY <1>4 DEF DeviceStep
  <2>2. CASE Relocate \/ Settle \/ NoRelocation
    BY <2>1, <2>2, PlacingKeepsSession
  <2>3. CASE TakeStack \/ TakeHeap
    BY <2>1, <2>3, AreasKeepSession
  <2>4. CASE Hello \/ Greeted
    BY <2>1, <2>4, GreetingKeepsSession
  <2>5. CASE \/ OnAck \/ OnFlushCache \/ OnJumpReturns \/ OnJumpRefused \/ OnHook
             \/ OnGetFreeRange \/ OnSetParams \/ OnError
    BY <2>1, <2>5, AnsweringArmsKeepSession
  <2>6. CASE OnRead \/ OnWrite
    BY <2>1, <2>6, ReadKeepsSession, WriteKeepsSession
  <2>7. CASE OnJumpLeaves \/ OnReset
    BY <2>1, <2>7, LeavingKeepsSession
  <2>8. CASE OnBlacklistRange
    BY <2>1, <2>8, BlacklistKeepsSession
  <2> QED
    BY <2>1, <2>2, <2>3, <2>4, <2>5, <2>6, <2>7, <2>8 DEF PayloadStep
<1>5. CASE UNCHANGED vars
  <2>1. UNCHANGED <<sent, pending, asked, grant, reserved, toDev, toHost,
                    phase, mem, base, params, areas>>
    BY <1>5 DEF vars, client, dev, wire
  <2>2. MemInv'
    BY <2>1 DEF JInv, MemInv
  <2>3. SessionInv'
    BY <2>1 DEF JInv, SessionInv, Quiet, Fresh, Asking, Answered, Over, Items
  <2>4. GrantInv'
    BY <2>1, GrantFrame DEF JInv
  <2> QED
    BY <2>2, <2>3, <2>4 DEF JInv
<1> QED
  BY <1>1, <1>2, <1>3, <1>4, <1>5 DEF Next, Done

LEMMA SessionInvariant == Spec => []JInv
<1>1. Init => IInv /\ JInv
  BY InitIInv, InitJInv
<1>2. (IInv /\ JInv) /\ [Next]_vars => (IInv /\ JInv)'
  BY NextPreserves, NextKeepsSession
<1> QED
  BY <1>1, <1>2, PTL DEF Spec

(* No arm of the command loop forgets to answer and none answers twice:    *)
(* once a request is taken there is exactly one response to it, behind the *)
(* bytes of a Read, and at rest there is nothing on the wire.              *)
THEOREM OneAnswerCorrect == Spec => []OneAnswer
<1>1. JInv => OneAnswer
  <2> SUFFICES ASSUME JInv, phase = "serving" PROVE OneAnswer
    BY DEF OneAnswer
  <2>1. CASE Quiet
    BY <2>1 DEF Quiet, OneAnswer
  <2>2. CASE Asking
    <3>1. pending = TRUE /\ toHost = <<>> /\ toDev # <<>>
      <4>1. CASE grant # NoRange
        BY <2>2, <4>1 DEF Asking
      <4>2. CASE grant = NoRange
        <5>1. pending = TRUE /\ toHost = <<>>
          BY <2>2 DEF Asking
        <5>2. PICK i \in 1..Len(ClientMessages) : toDev = Items(ClientMessages[i], sent)
          BY <2>2, <4>2 DEF Asking
        <5> DEFINE s == Items(ClientMessages[i], sent)
        <5>3. s # <<>>
          BY ItemsRead
        <5> HIDE DEF s
        <5>4. toDev = s
          BY <5>2 DEF s
        <5> QED BY <5>1, <5>3, <5>4
      <4> QED BY <2>2, <4>1, <4>2 DEF Asking
    <3> QED BY <3>1 DEF OneAnswer
  <2>3. CASE Answered
    BY <2>3 DEF Answered, OneAnswer
  <2> QED
    BY <2>1, <2>2, <2>3 DEF JInv, SessionInv
<1> QED
  BY <1>1, SessionInvariant, PTL

(* What the payload runs on and what it grants and is told to reserve are  *)
(* disjoint, for any number of grants, sizes and messages between them.    *)
THEOREM GrantsDisjointCorrect == Spec => []GrantsDisjoint
<1>1. JInv => GrantsDisjoint
  <2> SUFFICES ASSUME JInv PROVE GrantsDisjoint
    OBVIOUS
  <2>1. \A i, j \in 1..Len(reserved) : i # j => ~ Overlap(reserved[i], reserved[j])
    BY DEF JInv, GrantInv
  <2>2. ASSUME NEW i \in 1..Len(reserved), NEW r \in OwnRanges PROVE ~ Overlap(reserved[i], r)
    <3>1. PICK a \in Areas : r = areas[a] /\ areas[a] # NoRange
      BY DEF OwnRanges, Areas
    <3> QED
      BY <3>1 DEF JInv, GrantInv
  <2> QED
    BY <2>1, <2>2 DEF GrantsDisjoint
<1> QED
  BY <1>1, SessionInvariant, PTL
=============================================================================
