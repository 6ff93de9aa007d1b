------------------------------- MODULE Payload -------------------------------
(***************************************************************************)
(* The device: payloads/rpc from its entry point (app in setup.rs) over    *)
(* main (pl.rs, brom.rs) to the command loop (handler in usb.rs), together *)
(* with what runs before it (the mask ROM or the preloader, waiting for a  *)
(* payload) and after it (what it jumps to).                               *)
(*                                                                         *)
(* The payload is one thread without interrupts.  It is built twice:       *)
(* `stage' says which build runs, "brom" in SRAM or "pl" in DRAM.          *)
(*                                                                         *)
(* Memory is a function from addresses to what was last written there: a   *)
(* byte of an object, named by the object and the byte's offset in it.     *)
(***************************************************************************)
EXTENDS Params, Protocol

CONSTANTS
  ImageSize,     \* _image_end - _image_start, .bss included
  ImageFile,     \* the bytes of it that are in the file; the rest is .bss
  StackSize,     \* 4 * 1024 in app
  HeapSize,      \* HEAP_SIZE in pl.rs
  HookLen,       \* the bytes of a function that a hook replaces
  Returning      \* the addresses of code that may return to its caller

ASSUME ImageAssumption == ImageSize \in Nat \ {0} /\ ImageFile \in 1..ImageSize
ASSUME AreaAssumption == StackSize \in Nat \ {0} /\ HeapSize \in Nat \ {0}
ASSUME HookLenAssumption == HookLen \in Nat
ASSUME JumpAssumption == Returning \subseteq U32

VARIABLES
  phase,      \* where the device is, see Phases
  stage,      \* the build of the payload that was sent last
  mem,        \* [U32 -> what was last written to the address]
  params,     \* PARAMS: [memory, blacklist]
  base,       \* runtime_base: where the image runs
  got,        \* what fix_got has added to the GOT so far
  areas,      \* history: where image, stack and heap are
  plParams,   \* PRELOADER_PARAMS: <<bldr_jump>>, <<>> for None
  lkParams,   \* LK_PARAMS: <<mt_part_generic_read, mt_part_get_partition,
              \*              bootimg_scratch_addr>>, <<>> for None
  entry       \* the jump: [addr, r0, r1]

dev == <<phase, stage, mem, params, base, got, areas, plParams, lkParams, entry>>

Phases ==
  {"rom",        \* the mask ROM, waiting for a payload
   "preloader",  \* the preloader, waiting for a payload
   "app",        \* the payload at its entry point
   "stack",      \* image settled, no stack yet
   "main",       \* in main
   "hello",      \* handler has sent its Ack and waits for the host's
   "serving",    \* in the command loop
   "halted",     \* die() or a panic: loops for ever
   "crashed",    \* ran over its own overwritten code or data
   "booted",     \* jumped away for good
   "lk",         \* LK has started
   "reset"}      \* the watchdog has fired

(* Objects are pairs; the byte at offset k of object o is <<o[1], o[2], k>>. *)
Byte(o, k) == <<o[1], o[2], k>>
Blank == <<"blank", 0, 0>>
ImageObj == <<"image", 0>>
PreloaderObj == <<"preloader", 0>>

(* Memory with n bytes of object o, from its offset off, stored at a ...   *)
Store(m, a, n, o, off) ==
  [x \in U32 |-> IF a <= x /\ x < a + n THEN Byte(o, off + x - a) ELSE m[x]]

(* ... and with the n bytes at src copied to dst.                          *)
Copy(m, dst, src, n) ==
  [x \in U32 |-> IF dst <= x /\ x < dst + n THEN m[src + x - dst] ELSE m[x]]

(* The n bytes at a are the first n bytes of object o.                     *)
Holds(m, a, n, o) == \A k \in 0..(n - 1) : m[a + k] = Byte(o, k)

(* a .. a + n                                                              *)
Range(a, n) == [start |-> a, end |-> a + n]

-----------------------------------------------------------------------------
(* Start-up: app in setup.rs, main in pl.rs and brom.rs.                   *)

Die ==
  /\ phase' = "halted"
  /\ UNCHANGED <<stage, base, plParams, lkParams, entry>>

RelocRange == FindUnusedRange(params.memory, params.blacklist, ImageSize)

Overlaps(addr) == addr < base + ImageSize /\ base < addr + ImageSize

(* Mutant: the GOT is fixed before the copy is made.                       *)
Relocate_fixesGot ==
  /\ phase = "app"
  /\ \E r \in {RelocRange} \ {NoRange} :
       /\ r.start # base
       /\ ~ Overlaps(r.start)
       /\ mem' = Copy(mem, r.start, base, ImageSize)
       /\ base' = r.start
  /\ got' = got + base
  /\ UNCHANGED <<phase, stage, params, areas, plParams, lkParams, entry, wire>>

(* copy_and_jump: app starts over at the new place.  verify_params only    *)
(* logs what it finds, so a payload that runs in a forbidden range goes on.*)
Relocate ==
  /\ phase = "app"
  /\ \E r \in {RelocRange} \ {NoRange} :
       /\ r.start # base
       /\ ~ Overlaps(r.start)
       /\ mem' = Copy(mem, r.start, base, ImageSize)
       /\ base' = r.start
  /\ UNCHANGED <<phase, stage, params, got, areas, plParams, lkParams, entry, wire>>

(* The image stays where it is: fix the GOT, clear .bss, reserve the image.*)
Settle ==
  /\ phase = "app"
  /\ got' = got + base
  /\ mem' = Store(mem, base + ImageFile, ImageSize - ImageFile, <<"bss", 0>>, 0)
  /\ \E r \in {RelocRange} \ {NoRange} :
       /\ r.start = base \/ Overlaps(r.start)
       /\ \/ /\ HasFreeSlot(params.blacklist)
             /\ params' = [params EXCEPT !.blacklist =
                  blacklist_dl(@, Range(IF Overlaps(r.start) THEN base ELSE r.start,
                                        ImageSize))]
             /\ areas' = [areas EXCEPT !.image = Range(base, ImageSize)]
             /\ phase' = "stack"
             /\ UNCHANGED <<stage, base, plParams, lkParams, entry>>
          \/ /\ ~ HasFreeSlot(params.blacklist)
             /\ Die
             /\ UNCHANGED <<params, areas>>
  /\ UNCHANGED wire

NoRelocation ==
  /\ phase = "app"
  /\ RelocRange = NoRange
  /\ Die
  /\ UNCHANGED <<mem, params, got, areas, wire>>

(* A working area is found, put in use and reserved, or the payload dies:  *)
(* app's stack and main's heap.  An area in use holds the payload's data.  *)
TakeArea(name, size, next) ==
  \E r \in {FindUnusedRange(params.memory, params.blacklist, size)} :
    \/ /\ r # NoRange
       /\ HasFreeSlot(params.blacklist)
       /\ mem' = Store(mem, r.start, size, <<name, 0>>, 0)
       /\ params' = [params EXCEPT !.blacklist = blacklist_dl(@, r)]
       /\ areas' = [areas EXCEPT ![name] = Range(r.start, size)]
       /\ phase' = next
       /\ UNCHANGED <<stage, base, plParams, lkParams, entry>>
    \/ /\ r = NoRange \/ ~ HasFreeSlot(params.blacklist)
       /\ Die
       /\ UNCHANGED <<mem, params, areas>>

TakeStack ==
  /\ phase = "stack"
  /\ TakeArea("stack", StackSize, "main")
  /\ UNCHANGED <<got, wire>>

(* main of pl.rs makes a heap; main of brom.rs needs none.                 *)
TakeHeap ==
  /\ phase = "main"
  /\ stage = "pl"
  /\ areas.heap = NoRange
  /\ TakeArea("heap", HeapSize, "main")
  /\ UNCHANGED <<got, wire>>

(* handler: send Message::Ack ...                                          *)
Hello ==
  /\ phase = "main"
  /\ stage = "brom" \/ areas.heap # NoRange
  /\ toHost' = Append(toHost, Message("Ack", Empty, 0))
  /\ phase' = "hello"
  /\ UNCHANGED <<stage, mem, params, base, got, areas, plParams, lkParams, entry, toDev>>

(* ... and wait for an Ack, which is read as a Response.                   *)
Greeted ==
  /\ phase = "hello"
  /\ toDev # <<>>
  /\ phase' = IF Decode(ResponseKinds, Head(toDev)) = "Ack" THEN "serving" ELSE "halted"
  /\ toDev' = Tail(toDev)
  /\ UNCHANGED <<stage, mem, params, base, got, areas, plParams, lkParams, entry, toHost>>

-----------------------------------------------------------------------------
(* The command loop.  Every arm reads one message, and, unless control     *)
(* leaves the payload, sends one response.                                 *)

Got(kind) ==
  /\ phase = "serving"
  /\ toDev # <<>>
  /\ Decode(MessageKinds, Head(toDev)) = kind

Arg == Head(toDev).arg

Reply(kind, arg) ==
  /\ toDev' = Tail(toDev)
  /\ toHost' = Append(toHost, Response(kind, arg, Head(toDev).re))

OnAck ==
  /\ Got("Ack")
  /\ Reply("Ack", Empty)
  /\ UNCHANGED dev

(* Mutant: the bytes are the whole answer.                                 *)
OnRead_bytesOnly ==
  /\ Got("Read")
  /\ toDev' = Tail(toDev)
  /\ toHost' = Append(toHost, Data(<<"mem", Arg.addr>>, 0, Arg.size, Head(toDev).re))
  /\ UNCHANGED dev

(* The bytes, then the Ack.                                                *)
OnRead ==
  /\ Got("Read")
  /\ toDev' = Tail(toDev)
  /\ toHost' = toHost \o <<Data(<<"mem", Arg.addr>>, 0, Arg.size, Head(toDev).re),
                           Response("Ack", Empty, Head(toDev).re)>>
  /\ UNCHANGED dev

(* Some byte the payload runs on is in [a, a + n).                         *)
OwnRanges == {areas.image, areas.stack, areas.heap} \ {NoRange}
HitsPayload(a, n) == \E r \in OwnRanges : Overlap(Range(a, n), r)

(* The bytes that follow the message go wherever it says.  The blacklist   *)
(* is not consulted.  A payload that writes over itself may go on or not.  *)
OnWrite ==
  /\ Got("Write")
  /\ Len(toDev) >= 2
  /\ LET d == toDev[2].arg
     IN  mem' = Store(mem, Arg.addr, Arg.size, d.obj, d.off)
  /\ \/ /\ toDev' = Tail(Tail(toDev))
        /\ toHost' = Append(toHost, Response("Ack", Empty, Head(toDev).re))
        /\ UNCHANGED phase
     \/ /\ HitsPayload(Arg.addr, Arg.size)
        /\ phase' = "crashed"
        /\ toDev' = Tail(Tail(toDev))
        /\ UNCHANGED toHost
  /\ UNCHANGED <<stage, params, base, got, areas, plParams, lkParams, entry>>

OnFlushCache ==
  /\ Got("FlushCache")
  /\ Reply("Ack", Empty)
  /\ UNCHANGED dev

(* Mutant: the wrong parameters are asked for.                             *)
CanJump_lk == stage = "brom" \/ lkParams # <<>>

(* The preloader build jumps through the preloader's bldr_jump and needs   *)
(* its address; the other one calls the target.  What is jumped to may be  *)
(* the preloader that was uploaded before, or something else.              *)
CanJump == stage = "brom" \/ plParams # <<>>

OnJumpLeaves ==
  /\ Got("Jump")
  /\ CanJump
  /\ entry' = Arg
  /\ phase' = IF mem[Arg.addr] = Byte(PreloaderObj, 0) THEN "preloader" ELSE "booted"
  /\ toDev' = Tail(toDev)
  /\ UNCHANGED <<stage, mem, params, base, got, areas, plParams, lkParams, toHost>>

OnJumpReturns ==
  /\ Got("Jump")
  /\ CanJump
  /\ Arg.addr \in Returning
  /\ Reply("Nack", [error |-> "Unreachable"])
  /\ UNCHANGED dev

OnJumpRefused ==
  /\ Got("Jump")
  /\ ~ CanJump
  /\ Reply("Nack", [error |-> "InvalidParams"])
  /\ UNCHANGED dev

(* The watchdog register is written; the Ack may still make it out.        *)
OnReset ==
  /\ Got("Reset")
  /\ phase' = "reset"
  /\ \/ Reply("Ack", Empty)
     \/ toDev' = Tail(toDev) /\ UNCHANGED toHost
  /\ UNCHANGED <<stage, mem, params, base, got, areas, plParams, lkParams, entry>>

(* replace() patches mt_part_generic_read, whatever is there; its result   *)
(* is ignored.                                                             *)
OnHook ==
  /\ Got("Hook")
  /\ \/ /\ stage = "pl" /\ lkParams # <<>>
        /\ mem' = Store(mem, lkParams[1], HookLen, <<"hook", 0>>, 0)
        /\ Reply("Ack", Empty)
     \/ /\ stage = "pl" /\ lkParams = <<>>
        /\ Reply("Nack", [error |-> "InvalidParams"])
        /\ UNCHANGED mem
     \/ /\ stage = "brom"
        /\ Reply("Nack", [error |-> "NotSupported"])
        /\ UNCHANGED mem
  /\ UNCHANGED <<phase, stage, params, base, got, areas, plParams, lkParams, entry>>

(* Mutant: there is no answer when there is no range.                      *)
OnGetFreeRange_silent ==
  /\ Got("GetFreeRange")
  /\ \E r \in {FindUnusedRange(params.memory, params.blacklist, Arg.size)} :
       IF r = NoRange
         THEN toDev' = Tail(toDev) /\ UNCHANGED toHost
         ELSE Reply("Range", [start |-> r.start])
  /\ UNCHANGED dev

(* Range(Some(start)), or Range(None).                                     *)
OnGetFreeRange ==
  /\ Got("GetFreeRange")
  /\ Reply("Range", [start |-> FindUnusedRange(params.memory, params.blacklist,
                                                Arg.size).start])
  /\ UNCHANGED dev

OnBlacklistRange ==
  /\ Got("BlacklistRange")
  /\ \/ /\ HasFreeSlot(params.blacklist)
        /\ params' = [params EXCEPT !.blacklist = blacklist_dl(@, Arg)]
        /\ Reply("Ack", Empty)
     \/ /\ ~ HasFreeSlot(params.blacklist)
        /\ Reply("Nack", [error |-> "NotSupported"])
        /\ UNCHANGED params
  /\ UNCHANGED <<phase, stage, mem, base, got, areas, plParams, lkParams, entry>>

(* is_valid of both types of parameters: no pointer is zero.               *)
IsValid(ptrs) == \A i \in 1..Len(ptrs) : ptrs[i] # 0

OnSetParams ==
  /\ Got("SetParams")
  /\ \/ /\ stage = "brom"
        /\ Reply("Nack", [error |-> "NotSupported"])
        /\ UNCHANGED <<plParams, lkParams>>
     \/ /\ stage = "pl" /\ ~ IsValid(Arg.ptrs)
        /\ Reply("Nack", [error |-> "InvalidParams"])
        /\ UNCHANGED <<plParams, lkParams>>
     \/ /\ stage = "pl" /\ IsValid(Arg.ptrs) /\ Arg.type = "Preloader"
        /\ plParams' = Arg.ptrs
        /\ Reply("Ack", Empty)
        /\ UNCHANGED lkParams
     \/ /\ stage = "pl" /\ IsValid(Arg.ptrs) /\ Arg.type = "LK"
        /\ lkParams' = Arg.ptrs
        /\ Reply("Ack", Empty)
        /\ UNCHANGED plParams
  /\ UNCHANGED <<phase, stage, mem, params, base, got, areas, entry>>

(* A frame that is no message.                                             *)
OnError ==
  /\ Got("Error")
  /\ Reply("Nack", [error |-> "Unreachable"])
  /\ UNCHANGED dev

PayloadStep ==
  \/ Relocate \/ Settle \/ NoRelocation \/ TakeStack \/ TakeHeap
  \/ Hello \/ Greeted
  \/ OnAck \/ OnRead \/ OnWrite \/ OnFlushCache
  \/ OnJumpLeaves \/ OnJumpReturns \/ OnJumpRefused \/ OnReset \/ OnHook
  \/ OnGetFreeRange \/ OnBlacklistRange \/ OnSetParams \/ OnError

-----------------------------------------------------------------------------
(* How a session finds the device.                                         *)
DeviceInit(first) ==
  /\ phase = first
  /\ stage = "brom"
  /\ mem = [a \in U32 |-> Blank]
  /\ params = [memory |-> Range(0, 0), blacklist |-> <<>>]
  /\ base = 0
  /\ got = 0
  /\ areas = [image |-> NoRange, stack |-> NoRange, heap |-> NoRange]
  /\ plParams = <<>>
  /\ lkParams = <<>>
  /\ entry = [addr |-> 0, r0 |-> 0, r1 |-> 0]

(* SendDA and JumpDA: the ROM or the preloader stores the file at addr and *)
(* runs it.  All of the payload's state is in the image and so starts out  *)
(* as the file has it; PARAMS is what the host wrote into the file.        *)
LoadPayload(which, addr, p) ==
  /\ phase = IF which = "brom" THEN "rom" ELSE "preloader"
  /\ mem' = Store(mem, addr, ImageFile, ImageObj, 0)
  /\ phase' = "app"
  /\ stage' = which
  /\ params' = p
  /\ base' = addr
  /\ got' = 0
  /\ areas' = [image |-> NoRange, stack |-> NoRange, heap |-> NoRange]
  /\ plParams' = <<>>
  /\ lkParams' = <<>>
  /\ UNCHANGED entry

(* Serving starts with an image, a stack and (in DRAM) a heap of its own.  *)
Settled == phase \in {"main", "hello", "serving"}

(* Image, stack and heap never overlap, and stack and heap lie in the      *)
(* memory the host named.                                                  *)
AreasDisjoint ==
  Settled =>
    /\ \A a, b \in {"image", "stack", "heap"} :
         a # b /\ areas[a] # NoRange /\ areas[b] # NoRange => ~ Overlap(areas[a], areas[b])
    /\ \A a \in {"stack", "heap"} : areas[a] # NoRange =>
         params.memory.start <= areas[a].start /\ areas[a].end <= params.memory.end

(* The GOT is fixed up exactly once, for the place the image ends up at:   *)
(* a relocated copy must not carry the offset of the place it came from.   *)
GotMatchesBase == Settled => got = base /\ areas.image.start = base
=============================================================================
