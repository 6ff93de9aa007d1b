------------------------------- MODULE LkHook -------------------------------
(***************************************************************************)
(* payloads/rpc/src/hooks.rs: the hook on LK's mt_part_generic_read, which *)
(* serves the head of the boot partition from memory, with the payload     *)
(* that installs it and LK, which reads a boot image: its header first,    *)
(* then, one page on, the rest in one piece.                               *)
(*                                                                         *)
(* The widths are parameters: U32 is the number of u32 values, so that a   *)
(* difference that is cut to 32 bits is a remainder.                       *)
(***************************************************************************)
EXTENDS Integers, Sequences

CONSTANTS
  U32,         \* 2^32
  Sector,      \* 512, the shift by 9
  Window,      \* 0x1000
  Scratch,     \* bootimg_scratch_addr
  Tables,      \* partition tables: [BOOTIMG, boot, recovery]
  Pages,       \* the page sizes of images
  ImageLen,    \* the length of an image behind its header
  OtherReads,  \* what else LK reads: [src, size]
  MaxReads     \* how many such reads are explored

ASSUME WidthAssumption ==
  {U32, Sector, Window} \subseteq Nat \ {0} /\ Window < U32

(* The image is uploaded to the scratch address before the jump, so what   *)
(* the hook serves of it does not run over the end of the address space.   *)
ASSUME ScratchAssumption == Scratch \in Nat /\ Scratch + Window < U32

Null == [w0 |-> -1, w12 |-> -1]

(* The two words that the hook or LK takes for the first sector.           *)
Parts == [w0 : Nat, w12 : Nat] \cup {Null}

ASSUME TablesAssumption == Tables \subseteq [BOOTIMG : Parts, boot : Parts, recovery : Parts]
ASSUME PagesAssumption == Pages \subseteq Nat
ASSUME ReadsAssumption == ImageLen \in Nat /\ OtherReads \subseteq [src : Nat, size : Nat]

VARIABLES
  table,      \* what mt_part_get_partition finds, Null if nothing
  page,       \* the page size of the image in memory
  bootMode,   \* "normal" or "recovery": what LK is told to boot
  lkParams,   \* LK_PARAMS is Some
  hooked,     \* mt_part_generic_read is patched
  pc,         \* "payload", "header", "body", "booted", "panic"
  log         \* history: the reads of LK, in order, and where they came from

vars == <<table, page, bootMode, lkParams, hooked, pc, log>>

Init ==
  /\ table \in Tables
  /\ page \in Pages
  /\ bootMode \in {"normal", "recovery"}
  /\ lkParams = FALSE /\ hooked = FALSE
  /\ pc = "payload"
  /\ log = <<>>

-----------------------------------------------------------------------------
(* The payload's part, see OnSetParams and OnHook of Payload.              *)

SetLkParams ==
  /\ pc = "payload"
  /\ lkParams' = TRUE
  /\ UNCHANGED <<table, page, bootMode, hooked, pc, log>>

Hook ==
  /\ pc = "payload"
  /\ hooked' = (hooked \/ lkParams)
  /\ UNCHANGED <<table, page, bootMode, lkParams, pc, log>>

JumpToLk ==
  /\ pc = "payload"
  /\ pc' = "header"
  /\ UNCHANGED <<table, page, bootMode, lkParams, hooked, log>>

-----------------------------------------------------------------------------
(* mt_part_generic_read                                                    *)

FromFlash(src, size) == [src |-> src, size |-> size, from |-> "flash", at |-> src]
FromRam(src, delta, size) ==
  [src |-> src, size |-> size, from |-> "ram", at |-> (Scratch + delta) % U32]

(* Mutant: the start is read from the same place of both structures.       *)
PartAddr_oneOffset ==
  LET part == IF table.BOOTIMG # Null THEN table.BOOTIMG ELSE table.boot
  IN  part.w12 * Sector

(* New devices have boot instead of BOOTIMG, and another structure.        *)
PartAddr ==
  IF table.BOOTIMG # Null THEN table.BOOTIMG.w12 * Sector ELSE table.boot.w0 * Sector

HasPart == table.BOOTIMG # Null \/ table.boot # Null

(* (src - addr) as u32                                                     *)
Delta(src) == (src - PartAddr) % U32

(* Mutant: the difference is not cut, but its sign is lost.                *)
InWindow_below(src) ==
  HasPart /\ (IF src >= PartAddr THEN src - PartAddr ELSE PartAddr - src) <= Window

InWindow(src) == HasPart /\ Delta(src) <= Window

Answer(src, size) ==
  IF hooked /\ InWindow(src) THEN FromRam(src, Delta(src), size) ELSE FromFlash(src, size)

(* A call of the function by LK, hooked or not.                            *)
Read(src, size, next) ==
  IF hooked /\ ~ lkParams
    THEN pc' = "panic" /\ UNCHANGED log
    ELSE pc' = next /\ log' = Append(log, Answer(src, size))

-----------------------------------------------------------------------------
(* External: LK.  It knows its own partition structures.                   *)

Start(p) == IF table.BOOTIMG # Null THEN p.w12 * Sector ELSE p.w0 * Sector

Wanted == IF bootMode = "recovery" THEN table.recovery
          ELSE IF table.BOOTIMG # Null THEN table.BOOTIMG ELSE table.boot

ReadHeader ==
  /\ pc = "header" /\ Wanted # Null
  /\ Read(Start(Wanted), page, "body")
  /\ UNCHANGED <<table, page, bootMode, lkParams, hooked>>

ReadBody ==
  /\ pc = "body"
  /\ Read(Start(Wanted) + page, ImageLen, "booted")
  /\ UNCHANGED <<table, page, bootMode, lkParams, hooked>>

(* The logo, the environment, and whatever else.                           *)
ReadOther ==
  /\ pc \in {"header", "body"} /\ Len(log) < MaxReads
  /\ \E r \in OtherReads : Read(r.src, r.size, pc)
  /\ UNCHANGED <<table, page, bootMode, lkParams, hooked>>

Done ==
  /\ pc \in {"booted", "panic"} \/ (pc = "header" /\ Wanted = Null)
  /\ UNCHANGED vars

Next ==
  \/ SetLkParams \/ Hook \/ JumpToLk
  \/ ReadHeader \/ ReadBody \/ ReadOther
  \/ Done

Spec == Init /\ [][Next]_vars

-----------------------------------------------------------------------------
(* A boot from the hooked boot partition takes header and image from       *)
(* memory, as one piece that starts at the scratch address, for every page *)
(* size up to the window, whatever else LK read before; and no read runs   *)
(* into the hook's panic for want of its parameters.                       *)
BootsFromRam ==
  /\ pc # "panic"
  /\ (pc = "booted" /\ hooked /\ bootMode = "normal" /\ page <= Window) =>
       LET header == log[CHOOSE i \in 1..Len(log) :
                           log[i].src = Start(Wanted) /\ log[i].size = page]
           body == log[Len(log)]
       IN  /\ header.from = "ram" /\ header.at = Scratch
           /\ body.from = "ram" /\ body.at = header.at + page

(* Within four gigabytes of the boot partition, a read that starts outside *)
(* the head of the partition gets what the flash holds there.              *)
OthersFromFlash ==
  \A i \in 1..Len(log) :
    LET r == log[i]
        d == r.src - PartAddr
    IN  (d > - (U32 - Window) /\ d < U32 /\ ~ d \in 0..Window) => r = FromFlash(r.src, r.size)
=============================================================================
