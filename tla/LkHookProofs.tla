---------------------------- MODULE LkHookProofs ----------------------------
(***************************************************************************)
(* What the hook on mt_part_generic_read serves from memory and what it    *)
(* leaves to the flash, for every width of the numbers, every partition    *)
(* table, page size and sequence of reads.                                 *)
(*                                                                         *)
(* Whether a read is hooked is fixed once LK runs, so every entry of the   *)
(* log is the answer the hook would give now (LogInv); what remains is     *)
(* the arithmetic of the difference that is cut to 32 bits.                *)
(***************************************************************************)
EXTENDS LkHook, TLAPS

Entries == [src : Int, size : Nat, from : {"flash", "ram"}, at : Int]

TypeOK ==
  /\ table \in Tables
  /\ page \in Pages
  /\ bootMode \in {"normal", "recovery"}
  /\ lkParams \in BOOLEAN /\ hooked \in BOOLEAN
  /\ pc \in {"payload", "header", "body", "booted"}
  /\ log \in Seq(Entries)

(* SET_PARAMS comes before HOOK, or the hook is refused.                   *)
HookInv == hooked => lkParams

(* Nothing is read before LK runs, and what is read is read as it would be *)
(* read now.                                                               *)
LogInv ==
  /\ pc = "payload" => log = <<>>
  /\ \A i \in 1..Len(log) : log[i] = Answer(log[i].src, log[i].size)

HeaderAt(i) == log[i].src = Start(Wanted) /\ log[i].size = page

(* LK has read the header before it reads the rest, and the rest last.     *)
BootInv ==
  /\ pc \in {"body", "booted"} => Wanted # Null /\ \E i \in 1..Len(log) : HeaderAt(i)
  /\ pc = "booted" => log[Len(log)].src = Start(Wanted) + page /\ log[Len(log)].size = ImageLen

IInv == TypeOK /\ HookInv /\ LogInv /\ BootInv

-----------------------------------------------------------------------------
(* The difference, cut to 32 bits.                                         *)
LEMMA CutSmall ==
  ASSUME NEW d \in Int, 0 <= d, d < U32
  PROVE  d % U32 = d
  BY WidthAssumption, SMT

LEMMA CutNegative ==
  ASSUME NEW d \in Int, d < 0, - U32 < d
  PROVE  d % U32 = d + U32
<1>1. d + U32 \in 0..(U32 - 1) /\ U32 \in Nat \ {0}
  BY WidthAssumption
<1> QED BY <1>1, SMT

(* Addresses are integers.                                                 *)
LEMMA PlacesType ==
  ASSUME TypeOK
  PROVE  PartAddr \in Int /\ Start(Wanted) \in Int /\ page \in Nat
<1>1. table.BOOTIMG \in Parts /\ table.boot \in Parts /\ table.recovery \in Parts
  BY TablesAssumption DEF TypeOK
<1>2. \A p \in Parts : p.w0 \in Int /\ p.w12 \in Int
  BY DEF Parts, Null
<1>3. Wanted \in Parts
  BY <1>1 DEF Wanted
<1>4. \A x \in Int : x * Sector \in Int
  BY WidthAssumption
<1>5. PartAddr \in Int
  BY <1>1, <1>2, <1>4 DEF PartAddr
<1>6. Start(Wanted) \in Int
  BY <1>2, <1>3, <1>4 DEF Start
<1> QED
  BY <1>5, <1>6, PagesAssumption DEF TypeOK

LEMMA AnswerType ==
  ASSUME TypeOK, NEW src \in Int, NEW n \in Nat
  PROVE  /\ Answer(src, n) \in Entries
         /\ Answer(src, n).src = src /\ Answer(src, n).size = n
<1>1. PartAddr \in Int
  BY PlacesType
<1>2. \A x \in Int : x % U32 \in Int
  BY WidthAssumption
<1>3. Delta(src) \in Int
  BY <1>1, <1>2 DEF Delta
<1>4. (Scratch + Delta(src)) % U32 \in Int
  BY <1>2, <1>3, ScratchAssumption
<1> QED
  BY <1>4 DEF Answer, FromRam, FromFlash, Entries

(* One more read by LK keeps the log what it is.                           *)
LEMMA ReadKeeps ==
  ASSUME IInv, NEW src \in Int, NEW n \in Nat, NEW next, Read(src, n, next), pc # "payload",
         next \in {"header", "body", "booted"},
         UNCHANGED <<table, page, bootMode, lkParams, hooked>>
  PROVE  /\ TypeOK' /\ HookInv' /\ LogInv' /\ pc' = next
         /\ Len(log) \in Nat /\ Len(log') = Len(log) + 1
         /\ \A i \in 1..Len(log) : log'[i] = log[i]
         /\ log'[Len(log')].src = src /\ log'[Len(log')].size = n
<1> DEFINE e == Answer(src, n)
<1>1. pc' = next /\ log' = Append(log, e)
  BY DEF Read, IInv, HookInv
<1>2. e \in Entries /\ e.src = src /\ e.size = n
  BY AnswerType DEF IInv
<1>3. log \in Seq(Entries)
  BY DEF IInv, TypeOK
<1> HIDE DEF e
<1>5. /\ log' \in Seq(Entries) /\ Len(log) \in Nat /\ Len(log') = Len(log) + 1
      /\ \A i \in 1..Len(log) : log'[i] = log[i]
      /\ log'[Len(log) + 1] = e
  BY <1>1, <1>2, <1>3
<1>6. TypeOK' /\ HookInv'
  BY <1>1, <1>5 DEF IInv, TypeOK, HookInv
<1>7. ASSUME NEW i \in 1..Len(log')
      PROVE  log'[i] = Answer(log'[i].src, log'[i].size)
  <2>1. CASE i \in 1..Len(log)
    BY <1>5, <2>1 DEF IInv, LogInv
  <2>2. CASE i = Len(log) + 1
    BY <1>2, <1>5, <2>2 DEF e
  <2> QED BY <1>5, <2>1, <2>2
<1>8. LogInv'
  <2>1. pc' # "payload"
    BY <1>1
  <2>2. ASSUME NEW i \in 1..Len(log')
        PROVE  (log[i] = Answer(log[i].src, log[i].size))'
    BY <1>7 DEF Answer, InWindow, HasPart, Delta, PartAddr, FromRam, FromFlash
  <2> QED BY <2>1, <2>2 DEF LogInv
<1> QED
  BY <1>1, <1>2, <1>5, <1>6, <1>8

-----------------------------------------------------------------------------
LEMMA InitIInv == Init => IInv
<1> SUFFICES ASSUME Init PROVE IInv
  OBVIOUS
<1>1. log = <<>> /\ Len(log) = 0 /\ log \in Seq(Entries)
  BY DEF Init
<1>2. TypeOK /\ HookInv
  BY <1>1, Zenon DEF Init, TypeOK, HookInv
<1>3. LogInv /\ BootInv
  BY <1>1 DEF Init, LogInv, BootInv
<1> QED
  BY <1>2, <1>3 DEF IInv

(* The payload's steps come before any read.                               *)
LEMMA PayloadPreserves == IInv /\ (SetLkParams \/ Hook \/ JumpToLk) => IInv'
<1> SUFFICES ASSUME IInv, SetLkParams \/ Hook \/ JumpToLk PROVE IInv'
  OBVIOUS
<1>1. /\ pc = "payload" /\ log = <<>> /\ pc' \in {"payload", "header"}
      /\ UNCHANGED <<table, page, bootMode, log>>
  BY DEF IInv, LogInv, SetLkParams, Hook, JumpToLk
<1>2. /\ lkParams' \in BOOLEAN /\ hooked' \in BOOLEAN
      /\ hooked' => lkParams'
  <2>1. CASE SetLkParams
    BY <2>1, Zenon DEF SetLkParams, IInv, TypeOK
  <2>2. CASE Hook
    BY <2>2, Zenon DEF Hook, IInv, TypeOK, HookInv
  <2>3. CASE JumpToLk
    BY <2>3, Zenon DEF JumpToLk, IInv, TypeOK, HookInv
  <2> QED BY <2>1, <2>2, <2>3
<1>3. TypeOK' /\ HookInv'
  BY <1>1, <1>2 DEF IInv, TypeOK, HookInv
<1>4. LogInv' /\ BootInv'
  BY <1>1 DEF LogInv, BootInv
<1> QED
  BY <1>3, <1>4 DEF IInv

LEMMA ReadHeaderPreserves == IInv /\ ReadHeader => IInv'
<1> SUFFICES ASSUME IInv, ReadHeader PROVE IInv'
  OBVIOUS
<1>1. /\ pc = "header" /\ Wanted # Null /\ Read(Start(Wanted), page, "body")
      /\ UNCHANGED <<table, page, bootMode, lkParams, hooked>>
  BY DEF ReadHeader
<1>2. Start(Wanted) \in Int /\ page \in Nat
  BY PlacesType DEF IInv
<1>3. /\ TypeOK' /\ HookInv' /\ LogInv' /\ pc' = "body"
      /\ Len(log) \in Nat /\ Len(log') = Len(log) + 1
      /\ log'[Len(log')].src = Start(Wanted) /\ log'[Len(log')].size = page
  BY <1>1, <1>2, ReadKeeps
<1>4. Wanted' = Wanted /\ Start(Wanted)' = Start(Wanted)
  BY <1>1 DEF Wanted, Start
<1>5. HeaderAt(Len(log))' /\ Len(log') \in 1..Len(log')
  BY <1>1, <1>3, <1>4 DEF HeaderAt
<1>6. BootInv'
  BY <1>1, <1>3, <1>4, <1>5 DEF BootInv, HeaderAt
<1> QED
  BY <1>3, <1>6 DEF IInv

LEMMA ReadBodyPreserves == IInv /\ ReadBody => IInv'
<1> SUFFICES ASSUME IInv, ReadBody PROVE IInv'
  OBVIOUS
<1>1. /\ pc = "body" /\ Read(Start(Wanted) + page, ImageLen, "booted")
      /\ UNCHANGED <<table, page, bootMode, lkParams, hooked>>
  BY DEF ReadBody
<1>2. Start(Wanted) \in Int /\ page \in Nat /\ Start(Wanted) + page \in Int /\ ImageLen \in Nat
  BY PlacesType, ReadsAssumption DEF IInv
<1>3. /\ TypeOK' /\ HookInv' /\ LogInv' /\ pc' = "booted"
      /\ Len(log) \in Nat /\ Len(log') = Len(log) + 1
      /\ \A i \in 1..Len(log) : log'[i] = log[i]
      /\ log'[Len(log')].src = Start(Wanted) + page /\ log'[Len(log')].size = ImageLen
  BY <1>1, <1>2, ReadKeeps
<1>4. Wanted' = Wanted /\ Start(Wanted)' = Start(Wanted)
  BY <1>1 DEF Wanted, Start
<1>5. PICK i \in 1..Len(log) : Wanted # Null /\ HeaderAt(i)
  BY <1>1 DEF IInv, BootInv
<1>6. i \in 1..Len(log') /\ HeaderAt(i)'
  BY <1>1, <1>3, <1>4, <1>5 DEF HeaderAt
<1>7. BootInv'
  BY <1>1, <1>3, <1>4, <1>5, <1>6 DEF BootInv, HeaderAt
<1> QED
  BY <1>3, <1>7 DEF IInv

LEMMA ReadOtherPreserves == IInv /\ ReadOther => IInv'
<1> SUFFICES ASSUME IInv, ReadOther PROVE IInv'
  OBVIOUS
<1>1. PICK r \in OtherReads : Read(r.src, r.size, pc)
  BY DEF ReadOther
<1>2. pc \in {"header", "body"} /\ UNCHANGED <<table, page, bootMode, lkParams, hooked>>
  BY DEF ReadOther
<1>3. r.src \in Int /\ r.size \in Nat
  BY ReadsAssumption
<1>4. /\ TypeOK' /\ HookInv' /\ LogInv' /\ pc' = pc
      /\ Len(log) \in Nat /\ Len(log') = Len(log) + 1
      /\ \A i \in 1..Len(log) : log'[i] = log[i]
  BY <1>1, <1>2, <1>3, ReadKeeps
<1>5. Wanted' = Wanted /\ Start(Wanted)' = Start(Wanted)
  BY <1>2 DEF Wanted, Start
<1>6. BootInv'
  <2>1. CASE pc = "header"
    BY <1>4, <2>1 DEF BootInv
  <2>2. CASE pc = "body"
    <3>1. PICK i \in 1..Len(log) : Wanted # Null /\ HeaderAt(i)
      BY <2>2 DEF IInv, BootInv
    <3>2. i \in 1..Len(log') /\ HeaderAt(i)'
      BY <1>2, <1>4, <1>5, <3>1 DEF HeaderAt
    <3> QED BY <1>4, <1>5, <2>2, <3>1, <3>2 DEF BootInv, HeaderAt
  <2> QED BY <1>2, <2>1, <2>2
<1> QED
  BY <1>4, <1>6 DEF IInv

LEMMA NextIInv == IInv /\ [Next]_vars => IInv'
<1> SUFFICES ASSUME IInv, [Next]_vars PROVE IInv'
  OBVIOUS
<1>1. CASE SetLkParams \/ Hook \/ JumpToLk
  BY <1>1, PayloadPreserves
<1>2. CASE ReadHeader
  BY <1>2, ReadHeaderPreserves
<1>3. CASE ReadBody
  BY <1>3, ReadBodyPreserves
<1>4. CASE ReadOther
  BY <1>4, ReadOtherPreserves
<1>5. CASE UNCHANGED vars
  BY <1>5 DEF vars, IInv, TypeOK, HookInv, LogInv, BootInv, HeaderAt, Wanted, Start,
              Answer, InWindow, HasPart, Delta, PartAddr, FromRam, FromFlash
<1> QED
  BY <1>1, <1>2, <1>3, <1>4, <1>5 DEF Next, Done

LEMMA Inductive == Spec => []IInv
BY InitIInv, NextIInv, PTL DEF Spec

-----------------------------------------------------------------------------
(* A read in reach of the 32-bit difference that starts outside the window *)
(* is left to the flash: a difference below zero, too, is cut to one       *)
(* beyond the window.                                                      *)
THEOREM OthersFromFlashCorrect == Spec => []OthersFromFlash
<1>1. IInv => OthersFromFlash
  <2> SUFFICES ASSUME IInv, NEW i \in 1..Len(log),
                      log[i].src - PartAddr > - (U32 - Window),
                      log[i].src - PartAddr < U32,
                      ~ log[i].src - PartAddr \in 0..Window
               PROVE  log[i] = FromFlash(log[i].src, log[i].size)
    BY DEF OthersFromFlash
  <2> DEFINE d == log[i].src - PartAddr
  <2>0. log[i] \in Entries
    BY DEF IInv, TypeOK
  <2>1. log[i].src \in Int /\ PartAddr \in Int
    BY <2>0, PlacesType DEF IInv, Entries
  <2>2. {U32, Window} \subseteq Nat /\ d \in Int
    BY <2>1, WidthAssumption
  <2>3. ~ (d % U32 <= Window)
    <3>1. CASE d >= 0
      <4>1. d % U32 = d
        BY <2>2, <3>1, CutSmall
      <4> QED BY <2>2, <3>1, <4>1
    <3>2. CASE d < 0
      <4>1. - U32 < d
        BY <2>2
      <4>2. d % U32 = d + U32
        BY <2>2, <3>2, <4>1, CutNegative
      <4> QED BY <2>2, <3>2, <4>2
    <3> QED BY <2>2, <3>1, <3>2
  <2>4. ~ InWindow(log[i].src)
    BY <2>3 DEF InWindow, Delta
  <2>5. log[i] = Answer(log[i].src, log[i].size)
    BY DEF IInv, LogInv
  <2> QED
    BY <2>4, <2>5 DEF Answer
<1> QED
  BY <1>1, Inductive, PTL

(* A normal boot with the hook installed takes the header and the image    *)
(* from memory, one behind the other, and the hook never panics.           *)
THEOREM BootsFromRamCorrect == Spec => []BootsFromRam
<1>1. IInv => BootsFromRam
  <2> SUFFICES ASSUME IInv PROVE BootsFromRam
    OBVIOUS
  <2>1. pc # "panic"
    BY DEF IInv, TypeOK
  <2>2. ASSUME pc = "booted", hooked, bootMode = "normal", page <= Window
        PROVE  LET header == log[CHOOSE i \in 1..Len(log) :
                                   log[i].src = Start(Wanted) /\ log[i].size = page]
                   body == log[Len(log)]
               IN  /\ header.from = "ram" /\ header.at = Scratch
                   /\ body.from = "ram" /\ body.at = header.at + page
    <3> DEFINE k == CHOOSE i \in 1..Len(log) :
                      log[i].src = Start(Wanted) /\ log[i].size = page
    <3>1. Wanted # Null /\ \E i \in 1..Len(log) : HeaderAt(i)
      BY <2>2 DEF IInv, BootInv
    <3>2. k \in 1..Len(log) /\ log[k].src = Start(Wanted) /\ log[k].size = page
      BY <3>1 DEF HeaderAt
    <3> HIDE DEF k
    <3>3. Len(log) \in 1..Len(log)
      BY <3>2 DEF IInv, TypeOK
    <3>4. HasPart /\ Start(Wanted) = PartAddr
      BY <2>2, <3>1 DEF Wanted, HasPart, Start, PartAddr
    <3>5. PartAddr \in Int /\ page \in Nat
      BY PlacesType DEF IInv
    <3>6. log[k] = Answer(PartAddr, page)
      BY <3>2, <3>4 DEF IInv, LogInv
    <3>7. log[Len(log)] = Answer(PartAddr + page, ImageLen)
      BY <2>2, <3>3, <3>4 DEF IInv, LogInv, BootInv
    <3>8. U32 \in Nat /\ Window \in Nat /\ Scratch \in Nat /\ Scratch + Window < U32 /\ Window < U32
      BY WidthAssumption, ScratchAssumption
    <3>9. Delta(PartAddr) = 0 /\ (Scratch + 0) % U32 = Scratch
      <4>1. PartAddr - PartAddr = 0 /\ 0 % U32 = 0
        BY <3>5, <3>8, CutSmall
      <4>2. (Scratch + 0) % U32 = Scratch + 0
        BY <3>8, CutSmall
      <4> QED BY <3>8, <4>1, <4>2 DEF Delta
    <3>10. Delta(PartAddr + page) = page /\ (Scratch + page) % U32 = Scratch + page
      <4>1. PartAddr + page - PartAddr = page
        BY <3>5
      <4>2. page % U32 = page
        BY <2>2, <3>5, <3>8, CutSmall
      <4>3. (Scratch + page) % U32 = Scratch + page
        BY <2>2, <3>5, <3>8, CutSmall
      <4>4. Delta(PartAddr + page) = page % U32
        BY <4>1, <3>5, <3>8, SMTT(30) DEF Delta
      <4> QED BY <4>2, <4>3, <4>4
    <3>11. InWindow(PartAddr) /\ InWindow(PartAddr + page)
      BY <2>2, <3>4, <3>8, <3>9, <3>10 DEF InWindow
    <3>12. log[k].from = "ram" /\ log[k].at = Scratch
      BY <2>2, <3>6, <3>9, <3>11 DEF Answer, FromRam
    <3>13. log[Len(log)].from = "ram" /\ log[Len(log)].at = Scratch + page
      BY <2>2, <3>7, <3>10, <3>11 DEF Answer, FromRam
    <3> QED
      BY <3>12, <3>13 DEF k
  <2> QED
    BY <2>1, <2>2 DEF BootsFromRam
<1> QED
  BY <1>1, Inductive, PTL
=============================================================================
