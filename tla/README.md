# A TLA+ model of da-boot

da-boot boots binaries on MediaTek phones without flashing them. A host program
(`crates/da-boot`) talks over USB to a device that is in its mask ROM (BootROM)
or in its preloader, sends a small payload (`payloads/rpc`) and runs it. The
payload relocates itself, finds itself a stack and a heap, and then serves
commands: read, write, jump, reserve memory, hook a function. Through it the
host puts LK, a kernel or any other image into memory and jumps there.

This directory holds the specification of that program: modules that follow the
source function by function, TLC configurations that check them on a small
phone, and proofs, checked by TLAPS, for every value of the constants: of the
algorithms everything else stands on (the search for free memory, the bump
allocator, cache flushing, the pattern search), of the payload's start-up and
command loop against any client, of the interceptor's trampolines and patches,
of the hook in LK, and of whole boots: the conversation between host and payload,
and what is in memory when control leaves for the image.

## Inventory

| part | state | operations | talks to |
|---|---|---|---|
| payload parameters (`da-params`) | memory range, table of 12 blacklisted ranges | `blacklist_dl`, `blacklist_reloc`, `find_unused_range` | filled by the host, copied into the payload image, filled further by the payload |
| protocol (`da-protocol`) | two byte streams, one buffer at each end | frames (length, postcard), raw data between frames | host and payload |
| RPC payload (`payloads/rpc`) | where it runs, GOT, parameters, `PRELOADER_PARAMS`, `LK_PARAMS` | relocation, stack, heap, handshake, ten commands | host by USB, memory, preloader functions |
| host boot flow (`main.rs`, `boot/`) | command line, its copy of the parameters, addresses granted by the device, mode of the port | find the port, handshake, workaround, crash to the ROM, validate, send payload, upload, reserve, allocate, hook, jump | payload, ROM, preloader |
| transfers and REPL (`ext.rs`, `repl.rs`) | offset in a transfer, command under way | upload, download, prompt | payload |
| bump allocator (`payloads/bump`) | next address, bytes left | `alloc` | trampolines and tables of the interceptor |
| interceptor (`payloads/interceptor`) | table of hooks, trampolines on the heap, patched code | `replace`, `revert`, `original` | bump allocator, caches, LK's code |
| LK hook (`payloads/rpc/src/hooks.rs`) | none of its own; reads `LK_PARAMS` | redirect a read of the boot partition to memory | LK |
| shared payload code (`payloads/shared`) | none | `flush_cache`, `search_pattern` | payload, interceptor |
| ROM/preloader commands (`commands/`, `da-boot-macros`) | place in the generated method | echo, send, status, data | ROM, preloader, Download Agent |
| LK boot argument (`boot/lk_arg.rs`) | one struct per SoC | fill in, read as bytes | LK |
| da-patcher, file formats, UART | none that matters to control | binary analysis, I/O | host or device alone |

What is hard here, and what correctness means:

* **Memory is the shared state, and nothing guards it.** Payload image, stack,
  heap, inputs, LK, boot argument, boot.img and the hook are placed by three
  parties (the user, the host, `find_unused_range` on the device) at different
  times. Correct: nothing that is still needed is overwritten, LK's clearing of
  its `.bss` included.
* **Self-relocation.** `app` runs, copies itself, and starts over in the copy.
  Correct: the GOT is fixed exactly once, for the final place.
* **A table of twelve slots** that both sides fill. Correct: a boot that fits
  succeeds, and one that does not fails cleanly.
* **Timeouts.** Every read of the host gives up after two seconds, and a jump
  *must* time out, so a timeout is an error in most places and success in two.
  Correct: success means that the image runs; the host never hangs.
* **Request and answer in step** on a stream without message numbers.
* **Wrapping 32-bit arithmetic** in the two allocators.
* **A phone that comes and goes.** It enumerates, announces itself, times out in
  its ROM, and may come back as something else than the host last saw. Correct:
  a payload goes to the program it is built for, and is jumped to only where it
  was sent.
* **Byte streams without framing.** The ROM's commands are echoed byte by byte,
  and leftovers of the handshake may still arrive. Correct: a command that
  reports Ok was carried out once, with these arguments and results.
* **A buffer that is not cleared** between frames, decoded as a whole. Correct:
  what is decoded is what was sent.
* **Code that rewrites code**, on a processor with separate caches. Correct: the
  moved instructions do what they did, and the processor executes what was
  written.

## Modules

| module | models | how |
|---|---|---|
| `Params` | `crates/da-params` | the blacklist as the sequence of its used slots; `FindUnusedRange`, a function: the lowest block that fits |
| `FindRange` | `find_unused_range` | the loop itself: `Begin`, `Skip`, `Found`, `RanOut`; shown to compute `FindUnusedRange` |
| `BumpAllocator` | `payloads/bump` | `InitHeap`, `alloc`, in wrapping arithmetic; a history of the blocks handed out |
| `Protocol` | `crates/da-protocol`, its messages | two FIFO channels; a frame carries the position of the enum's variant, so that decoding it as another type is modelled |
| `Frame` | `crates/da-protocol`, its bytes | length, varints, postcard's tags, and the buffer each end reuses without clearing it |
| `Payload` | `payloads/rpc` (`setup.rs`, `pl.rs`, `brom.rs`, `usb.rs`) | one action per stage of start-up (`Relocate`, `Settle`, `TakeStack`, `TakeHeap`, `Hello`, `Greeted`) and per arm of `handler` (`OnRead`, `OnWrite`, ...) |
| `Host` | `crates/da-boot`, with a payload running | `Script` is the straight line the program follows for a command line; one action per kind of step that sends, reads or times out, and the REPL |
| `DaBoot` | the whole | host and device on the wire, sending a payload, reopening the port, LK's start |
| `Client` | the payload against any client | the payload's promises to whatever speaks its protocol |
| `CacheFlush` | `flush_cache` | the loop over lines, with evictions and prefetches of an abstract pair of caches at any time |
| `SearchPattern` | `search_pattern` | both loops, one read of memory per step |
| `Interceptor` | `payloads/interceptor` | `replace`, `revert` and `original` on a table, a heap and patched code; instructions are kinds (short, long, literal loads), and a small machine executes function and trampoline |
| `LkHook` | `hooks.rs` and an LK that reads partitions | the redirection with its 64-bit difference cut to 32 bits, both kinds of partition table |
| `LkArg` | `boot/lk_arg.rs` | the layout of each SoC's struct under C's rules, and what it says of the memory |
| `Macro` | `da-boot-macros` | what `#[derive(Protocol)]` generates: one step per field, echo, status and data |
| `Commands` | `commands/` | the fields of every declared command, in order |
| `Loader` | *external* | the device's end of the commands, as the structs and their comments describe it |
| `RemoteCall` | *abstract* | what running a command promises |
| `Session` | commands one after the other on a port | a device that refuses, is slow or dies, and leftovers in the port; implements `RemoteCall` |
| `Link` | `main.rs`, `boot/bootrom.rs`, `boot/preloader.rs` up to the jump to a payload | `host.todo` is what is left of `run`; the phone enumerates, leaves, crashes and announces itself |
| `ParamsProofs`, `FindRangeProofs`, `BumpAllocatorProofs`, `ClientProofs`, `SharedProofs`, `InterceptorProofs`, `LkHookProofs`, `DaBootProofs` | | lemmas and theorems |
| `MC*` | | instances for TLC |

`DaBoot` extends `Payload` and `Host`, which share `Params` and `Protocol`;
`Client` extends `Payload` alone. `Session` and `Link` extend `Loader`, which
extends `Commands` and `Macro`. `Link` ends where `DaBoot` has one step: sending
a payload, and reopening the port after the jump. `MCLk` composes `LkArg`, which
the host sends, with `LkHook`, which runs when LK uses it; the boot mode in the
argument is the one LK boots in. `MCShared` runs one of the two functions of
`payloads/shared` in each behaviour.

Memory is a function from addresses to *what was last written there*: the byte
at offset k of an object. Real bytes do not matter; whose byte it is does. (They
do in `Frame`, `Session` and `Link`, where numbers below 256 stand for
themselves.) The payload's `areas`, the host's `why`, `abandoned` and
`reopened`, `Session`'s `log`, `Link`'s `loaded`, and the number `re` on every
item of the wire are history variables; no guard that stands for code reads
them, with one exception: `OnWrite` uses `areas` to say when a write hits the
running payload, which then may go on or crash.

`Session` implements `RemoteCall`: `phase`, `call`, `open`, `did`, `result` and
`answer` of the abstract call are read off the method under way and the device's
log, and `CommandIsCall` is its specification. The refinement is strict about
what matters to callers: Ok only after the device carried the call out, at most
once, with these arguments, and with the values it sent. There is one
exception: a status that differs from success only above its low 16 bits passes,
as the generated comparison cuts it; of the device's answers only
`dram_status` can be one.

Operators whose comment begins with *Mutant* are not part of the model. Each is
a plausible slip in the definition below it, and `PROJECT.json` names the
property that catches it.

## Runs

| run | shows | bounds |
|---|---|---|
| `find_range` | first fit, usable result, termination | 48 addresses; every blacklist of up to two ranges with ends from {0, 3, 16, 25, 41, 47}, inverted and empty ones included; sizes 0, aligned, unaligned, overflowing |
| `bump` | exact accounting, disjoint and aligned blocks, no refusal of what fits | 64 addresses; 4 calls; heaps at aligned, unaligned and topmost places |
| `boot` | every boot to the end, see below | 192 addresses; both starting modes; all modes, all combinations of LK, kernel, inputs and jump address, the refused ones too; REPL sessions of two commands; an image that may return (at 170); up to 12 inputs and inputs that fill the SRAM, so that slots and memory run out at each place that takes some |
| `client` | the command loop under arbitrary messages | 4 requests of 16 kinds, both builds, 5 slots so that they run out, code at 56 that returns; loaded where the payload moves away and where it overlaps the best range and stays |
| `frames` | frames byte by byte | every kind of message with integers at the edges of the varint lengths (a negative one stands for 0xffffffff); 2 messages; transfers of 5 and 6 bytes over a buffer with older bytes, and of at most 128 (`MaxLen`) once the stream is out of step; writes that stop after any number of bytes |
| `shared` | `flush_cache` and `search_pattern` | 3 lines of 2 bytes and every range; 9 addresses, every memory of two values and every pattern of up to 3 halfwords |
| `interceptor` | moved code does what it did; the hook table | every prologue of 5 instructions of 5 kinds at both alignments with one call; 4 calls of 2 hooks on two layouts and an ARM function, with a heap that runs out, and 2 calls with room for the trampoline but not for the first, or the second, table; 24 steps of execution |
| `lk` | boot argument and redirection of reads | 32-bit values cut to 64, 64-bit ones beyond; sectors of 4, window of 8; both partition tables; two reads of other places; all modes and supported SoCs; sizes 0, 512 and 1024 MiB, 0 to 5 ranks |
| `session` | commands implement remote calls | 3 commands of every declared kind; refusals 1, 7168 and 65536, so that a status agrees with success in its low 8 or 16 bits; leftovers of the handshake; loader and Download Agent |
| `link` | from the port to the payload | 3 enumerations, after which the phone may be gone for good, 2 announcements in a row, with and without `--crash` |
| `bootrom_jump`, `reloc_forbidden` | where code and documentation differ | one command line each |

`boot` checks that the payload that serves is the one that was sent
(`PayloadIntact`), it halts only for lack of slots or memory
(`HaltsOnlyForLack`), answers belong to the request (`AnswersMatch`), what is
booted is what was uploaded (`BootIntact`), LK still finds boot argument,
boot.img, hook and payload after clearing its `.bss` (`LkFindsItsBoot`), a boot
that fits fails only for a reason outside the protocol (`FailsOnlyOutside`),
success leads to a boot (`SuccessLeadsToBoot`), and the host ends or is at the
prompt, again and again (`HostEnds`). The user's part of the bargain is in the
instance: inputs do not overlap each other or LK, nor, on a device already in
the preloader, the first bytes of DRAM, where the payload will be.

`client` checks that every request gets exactly one answer, its own
(`OneAnswer`, `EveryRequestAnswered`), that what the payload keeps, grants and
reserves never overlaps (`AreasDisjoint`, `GrantsDisjoint`), and that the GOT
matches the final place (`GotMatchesBase`).

`frames`: every message fits the buffer it is built in (`SendsFit`), and each
end decodes what the other sent (`DeviceHears`, `HostHears`): the device up to
the first write that stops part-way, the host up to the first transfer the REPL
gives up. A port with a time limit may write a part of a length, of a frame or
of the data; `broken` says that it has, and `DeviceHears` that the device has
heard all that was written before.

`shared`: after `flush_cache` the processor executes what was written, for the
ranges whose last line is not lost (`CodeVisible`); `search_pattern` reads only
inside its range (`ReadsInside`) and finds the first match (`FirstMatch`).

`interceptor`: a trampoline does what the function did (`OriginalRuns`) and fits
its 64 bytes (`TrampolineFits`), a hooked function goes to the hook and one that
is not is untouched, in every state, the one after a panic of `replace` included
(`HookTakesCalls`), and after `revert` a function runs into no hook's body
(`RevertUnhooks`).

`lk`: LK boots the image in memory, without a panic of the hook
(`BootsFromRam`), everything else comes from flash (`OthersFromFlash`), and the
argument has no hole and describes the memory (`ArgumentSound`).

`session`: a command that returned Ok leaves nothing on the wire (`InStep`), a
wrong echo or status is reported only for leftovers of the handshake or for a
refusal (`ErrorsAreTrue`), and a command is a call (`CommandIsCall`). A refusal
that the 16-bit comparison lets through counts as carried out there; only a
32-bit status, `dram_status` of `DA1Setup`, can be one.

`link`: the hardware code the host works with is the phone's (`HwCodeIsRight`),
`run_preloader`'s assertion holds (`PreloaderAsserted`), payloads go to the
program they are built for (`PayloadForItsLoader`), the phone jumps to a payload
it has been sent completely (`JumpsToPayload`), and the host ends or waits for a
port (`HostEnds`).

Why the bounds are enough: transfers take up to three chunks, the last one
short; images need relocation or not; the gaps between the objects are smaller
than, equal to and larger than what is placed; two inputs and LK with a kernel
use all twelve slots, three are one too many. Two frames are what it takes for
one to see the other's bytes; three enumerations are ROM, preloader and a
device that comes back once more. Five instructions are as many as ten moved
bytes can touch.

**Fairness.** The payload is one thread without interrupts and the host is one
thread, so each is weakly fair as a whole in `DaBoot` and `Client`; LK's start
is the CPU going on. In `Session` and `Link` only the host is fair: nothing is
assumed of the device, the host's reads time out by themselves. A timeout is a
step of the host like any other: it may come before the answer (the device was
slow) and comes at last if there is none. Nothing is assumed of the user at the
REPL's prompt, nor of a phone that is not plugged in: `open_port` waits for one
for ever, and `HostEnds` of `Link` says that it is the only place where the host
can.

**Deadlock** is checked everywhere; explicit final actions (`Terminated`,
`Stop`, `Done`, `Over`, ...) say where the system really stops.

## What differs from the documentation

Shown by runs:

1. `bootrom_jump`: BootROM mode on the mask ROM uploads, reports success and
   never jumps, although a jump address is required.
2. `reloc_forbidden`: if the best range overlaps the place the payload was sent
   to, the payload stays there even if that place is blacklisted.

Noticed while modelling. Where a property stops at one of these, it is named:

* `alloc` returns null when the heap is full; its type's comment says it never
  does (`AnswerRight` says exactly when). The interceptor does not look at the
  result.
* The README's example without a jump address is refused by `main`.
* `Write` does not consult the blacklist; the error `DownloadForbidden` is never
  sent.
* `read_data` indexes the buffer with a length from the wire. After the REPL
  gives up a `Read`, the rest of the data is taken for a length, and the host
  can panic (`HostHears`).
* A write that stops part-way (`send_message` or `write_all` of `upload`) leaves
  the device waiting for the rest, without a time limit. The REPL goes on, and
  the device takes the next message for that rest (`DeviceHears`), after which
  it may decode anything, or panic on a length.
* `flush_cache` aligns the start down and leaves the size alone: if the range
  does not start on a line, its last line may not be flushed (`CodeVisible`).
* `search_pattern` misses a match that ends exactly at the end of the range
  (`FirstMatch`); `search!` is not used.
* Recovery mode boots from flash, although the comment on the hook's id speaks of
  recovery.img in memory.
* A read a multiple of 4 GiB away from the partition is redirected too
  (`OthersFromFlash`).
* A status is compared by its low 16 bits whatever its width: a `dram_status` of
  0x10000 is taken for success (`CommandIsCall`).
* `crash_to_brom` takes any timeout for the crash; if a preloader comes back,
  `run_brom`'s assertion panics.
* The workaround opens the port again and throws its mode away; a ROM payload
  can then go to a preloader (`PayloadForItsLoader`).
* BootROM mode without an input prints that it will boot the preloader and then
  fails with "No binary to boot".
* With the feature `static` the payload for the ROM is the preloader build.
* `revert` copies one byte more than was moved, and copies relocated code, so
  that a prologue with literals is not restored as it was; nothing calls it.
* A function hooked twice gets a second trampoline that leads to the first hook;
  `original` goes on finding the first one (`OriginalRuns`).
* The mt6595's argument has its memory blocks as constants, whatever the command
  line says; more than four ranks make the count larger than the table
  (`ArgumentSound`); SoCs without a struct hit `unreachable!`.

## Proofs

`FindRangeProofs` proves, for every address width, memory that ends below the
top of the address space, blacklist (of any length, with any ranges) and size,
that the loop is in its types (`TypeCorrect`), computes `FindUnusedRange`
(`FirstFitCorrect`), returns only usable blocks (`ResultUsableCorrect`) and
moves upwards (`AddrIncreasesCorrect`). The assumption on the memory is what
makes the saturating loop condition exclude a wrapped sum; both ranges the host
hands out satisfy it. The inductive invariant adds to the types that every
candidate address below `addr` is not free, and that `addr` is itself a
candidate: without the first, `Found` would not return the *lowest* block, and
without the second it might return one the definition does not allow. The step
that matters is `Skip`: a candidate between `addr` and the end of the range in
the way still hits that range.

`BumpAllocatorProofs` proves for every heap, size, alignment and number of
calls that the accounting is exact (`RestOfHeapCorrect`), the blocks lie in the
heap and are disjoint (`BlocksDisjointCorrect`), and the pointer goes up
(`PtrGoesUpCorrect`), and that every call is answered rightly
(`AnswerRightCorrect`: an aligned block, or null and then nothing of that size
and alignment would have fitted). Disjointness is not inductive by itself: it
needs that every block ends at or below `ptr`, and that needs the accounting,
because it is the comparison with `size` that excludes a wrapped address. The
answer is right because rounding up gives the lowest aligned address at or above
`ptr` or wraps to zero; that wrapping yields an aligned address, and one the
comparison refuses, needs an alignment that divides the size of the address
space (`ReqAlignsAssumption`), which a `Layout`'s power of two does.

`ClientProofs` proves of the payload, for every image, stack and heap size,
every memory and blacklist it is loaded with (the memory ending below the top of
the address space, as above) and whatever a client sends in whatever order, that
its working areas never overlap (`AreasNeverOverlap`), that its GOT is fixed up
once and for the right place (`GotIsFixedOnce`), and that slots are never given
back (`SlotsAreKept`). Disjointness is not inductive: a new area is known to
avoid the blacklist, not the other areas. The invariant `IInv` adds `HeldInv`, that
each area in use is covered by a slot; `NewAreaDisjoint` combines it with
`FoundRangeUsable` of `ParamsProofs` (the lemma about `FindUnusedRange` that
does not care what the blacklist holds), and `AppendKeeps` carries it over every
reservation, clients' included. For the GOT the invariant says that `got` is
zero as long as the payload is in `app`, however often it moves.

It also proves that a request gets one answer, its own (`OneAnswerCorrect`), and
that what is granted to a client is disjoint from the payload's areas and from
what was reserved before (`GrantsDisjointCorrect`). For these the invariant
`JInv` says who has the wire: the client when it waits, the payload from the
request until its answer, nobody once the payload has gone (`SessionInv`); that
the memory never holds a preloader a client could start (`MemInv`); and that
each reservation is covered by a slot and no grant is stale (`GrantInv`).
`LoadsAssumption` says that the image lies below the top of the address space,
`ClientMessagesAssumption` that the numbers in messages are `u32`s; anything
else may be in them, and frames that decode as nothing are included.

`SharedProofs` has two parts. For `flush_cache` it proves for every line size, number of lines and range, and
for evictions and prefetches at any moment, that the loop stays in the address
space (`CacheTypeCorrect`) and that the code is visible at the end
(`CodeVisibleCorrect`), for the ranges that `CodeVisible` is about. The
invariant says that the bounds of the loop are aligned (`LoopInv`) and that what
the loop has passed is in memory and stays there (`CleanInv`): a prefetch takes
an old value only from what still waits to be written back.

For `search_pattern` it proves for every range, memory and pattern that every read
is inside the range (`ReadsInsideCorrect`) and that the result is the lowest
match (`FirstMatchCorrect`). The first needs `Fits`, that the position leaves
room for the whole pattern, the second `NoneBelow`, that no position already
passed matches, together with what the inner loop has compared so far.

`InterceptorProofs` proves for every code in memory, every heap, set of targets
and sequence of `replace` and `revert` that a trampoline never outgrows the 64
bytes allocated for it (`TrampolineFitsCorrect`), and that a call of a hooked
function arrives at the hook set last and any other function is as it was
(`HookTakesCallsCorrect`), in every state, those after a full heap included. The
first rests on `Worst(n)`, how far the writer can be after n bytes of the
target: a halfword costs at most ten bytes (a short load of a literal becomes a
nop, a `movw` and a `movt`), the tail of a long instruction past the tenth byte
nothing more, and the jump back ten. The second needs that the jump written over
a hooked function stays there (`Jumps`) and that nothing is written to any other
(`UntouchedKept`): trampolines are written on the heap, `revert` and another
`replace` to other functions; and that executing it takes three steps of the
machine. `ApartAssumption` is the code's own premise, that functions are long
enough to be patched and lie apart from each other and from the heap;
`LayoutsAssumption` says that the memory holds them, and nothing at address
zero.

`LkHookProofs` proves, for every width of the integers, partition table, page
size and sequence of reads, that LK boots the image in memory without a panic
(`BootsFromRamCorrect`) and that everything else comes from flash
(`OthersFromFlashCorrect`). The invariant `LogInv` says that each read was
answered as it would be now: whether a read is hooked is fixed before LK runs.
What remains is the difference cut to 32 bits. `ScratchAssumption` says that the
window of the image does not run over the end of the address space.

`DaBootProofs` proves of whole boots, for every command line and device,
layout of the memory, chunk size, REPL session, and every interleaving of host
and device with timeouts anywhere:

* the payload halts only for lack of slots or memory
  (`HaltsOnlyForLackCorrect`);
* an answer that the host reads is the answer to its last request, and between
  two steps nothing is in flight (`AnswersMatchCorrect`);
* a boot that needs no more slots than there are fails only for reasons outside
  the protocol, an image that returns, or because the search really finds no
  range (`FailsOnlyOutsideCorrect`).

None of these is inductive: whether what is on the wire is what the host
waits for depends on where in its script it is. So the proof labels the script.
`Label` gives each step a *place* (which payload runs and what it has been told:
`sentB`, `brom`, `gone`, `fresh`, `ready`, `imaged`, `armed`, ...) and the number
of slots reserved so far. `Follows` and `Uses` say how one step changes them.
That the script of every command line has such a labelling is proved by joining
`Path`s, one for each part of the script; for any number of inputs it can be
written down. The invariant then says for each place what may be on the wire (`BootInv`,
`SentInv`, `GoneInv`, and `OnInv`, where a request is not sent, asked, answered
or lost), that what the device finds while it starts is the host's Ack
(`HelloInv`), that the table holds what the label says (`SlotsInv`, `HostInv`),
and why a host has failed (`FailInv`). `BootInvariant` is the theorem about all
of it. Two things had to be added on the way: that a step that sends nothing
does not wait, and that no range stays no range after `main` has failed.

Then it proves what is in memory:

* the payload that serves is the one that was sent, and its stack and heap are
  its own (`PayloadIntactCorrect`: `Spec => [](KeepsClear => PayloadIntact)`);
* what is booted is what was uploaded, byte for byte, and r0 and r1 name the boot
  argument (`BootIntactCorrect`: `Spec => [](WellPlaced => BootIntact)`);
* LK, after clearing its `.bss`, still has boot argument, boot.img, hook, payload
  and heap (`LkFindsItsBootCorrect`:
  `Spec => [](WellPlaced /\ KeepsClear /\ BssClear => LkFindsItsBoot)`).

The premises are the user's part of the bargain, which the code does not check
(`Write` does not consult the blacklist, `main` does not compare inputs):
`WellPlaced` says that the inputs and LK end inside the address space, are clear
of each other and of LK's `.bss`; `KeepsClear` that what goes to a fixed address
(inputs, LK, and on the mask ROM the preloader) does not hit an area the payload
has taken; `BssClear` the same of LK's `.bss`. Nothing is assumed of the addresses that the device chooses: that
they are clear of everything is proved. All three hold in the states of `boot`
that the theorems are about, those of LK's start included; they are conditions
on the present state, not on the history.

`MemoryInvariant` carries these. What a boot leaves in memory is made by earlier
steps of the script, so `Sound` first says of every script what comes before a
step and what does not (`Fit`): a range is chosen after all fixed objects have
been reserved, boot.img after the boot argument, nothing is uploaded after the
hook is set, the preloader before anything that must last. `MemInv` then has ten
parts: the areas have their sizes, lie in the address space and are covered by
slots (`AreaInv`) and hold what belongs there (`HoldInv`); the host's copy of the
parameters names a memory and LK's `.bss` (`CopyInv`); which payload runs follows
from what has been done (`StageInv`); what is on the wire is the request of the
step under way, also after the host has given up (`PendInv`); each step done has
left its effect, and it lasts (`EffectInv`: bytes uploaded, a range listed, a
chosen range clear of all that was there, pointers, hook); an upload has written
exactly up to its offset, or one chunk further once the answer is on its way
(`ProgressInv`); `LK_PARAMS` are the host's (`LkInv`); and when control has left,
all that should have been uploaded has been (`GoneBoot`, `GonePreloader`).
`PendInv` is what timeouts make necessary: a chunk the host no longer waits for
is written later all the same, and must not hit anything.

The attempt to prove `BootIntact` corrected it: BootROM mode on the mask ROM
never uploads LK, whatever `--lk` says, so `Objects` leaves LK and boot argument
out there; and a preloader that the payload in DRAM has replaced is not what
`run_brom` started, so that conjunct stops at the second payload. The `boot`
instance now has such command lines.

Its assumptions: addresses are `u32`s, lengths natural numbers, and DRAM and SRAM
end below the top of the address space (`LayoutAssumption`, `NonZeroAssumption`);
both payloads and the preloader fit where they are sent, and the hooked
instructions are in LK (`FitAssumption`); preloader, LK, DRAM and
inputs are not at address zero (`NonZeroAssumption`, `ConfigsAssumption`; LK's
boot.img is the first input if there is no kernel, and `SetParams` refuses a
null pointer); the prompt's commands are the REPL's (`ReplAssumption`); and
preloader and LK do not return to who starts them (`NoReturnAssumption`; other
images may).

`TypeCorrect`, `AddrIncreasesCorrect`, `PtrGoesUpCorrect`, `SlotsAreKept`,
`CacheTypeCorrect`, `BootInvariant` and `MemoryInvariant` are proved only; no run
repeats them.

Only model-checked:

* `Terminates`, `HostEnds`, `SuccessLeadsToBoot`, `EveryRequestAnswered` and the
  fairness of `RemoteCall`: liveness and ENABLED are out of the prover's reach;
  `RevertUnhooks`, an action property whose target is what the machine does
  with restored code.
* `OriginalRuns`: what executing moved code computes would need induction over
  the machine's steps, as what the encoding in `Frame` computes (`SendsFit`,
  `DeviceHears`, `HostHears`) would over bytes. The installed provers cannot do
  induction over data.
* `Session` and `Link` (`InStep`, `ErrorsAreTrue`, `CommandIsCall`,
  `HwCodeIsRight`, `PreloaderAsserted`, `PayloadForItsLoader`, `JumpsToPayload`),
  and `ArgumentSound`: the generated methods come from `FlattenSeq`, and what
  words are from a fold, which the provers do not evaluate. `PreloaderAsserted`
  is no exception, although it speaks of modes only: that a ROM has nothing left
  to say when the port is opened again depends on `JumpDA` having read all of
  its answer.

## Not modelled

* The device's side of the ROM's and the preloader's protocol is not part of the
  repository. `Loader` is an assumption about it: it drops bytes that are no
  command, echoes what is echoed, and may refuse or die anywhere.
* In `DaBoot`, sending a payload is one step and streams keep item boundaries;
  the bytes are in `Link`, `Session` and `Frame`. After the REPL goes on with
  leftovers in the stream no property constrains what follows. Writes of the
  host do not fail in `DaBoot`: in a boot that would be one more error outside
  the protocol, which ends it; what it means for the REPL is in `Frame`.
* Instructions that depend on the program counter, other than literal loads: the
  interceptor copies them unchanged. Its macros for invocation contexts, which
  no payload uses. Its calls of `flush_cache`: caches are in `CacheFlush` only,
  and the interceptor's processor sees what was written.
* Which hardware codes `SoC::try_from_hwcode` of the acon crate knows: `Link`
  lets it know or refuse any.
* The binary analysis of da-patcher and kaiko, mkbootimg, files: steps of the
  host that succeed or fail.
* The payload as built with the feature `static`; logging.

## Plan

1. Done: every component above, `Session` as a refinement of `RemoteCall`, and
   the proofs listed, those about memory included.
2. Not done, proofs about `Session` and `Link`: a lemma that gives each command's
   method as a written-out sequence would take `FlattenSeq` out of the way;
   `InStep`, and with it the properties of `Link`, needs where host and device
   are in a command.
3. Not done, an abstract specification of a boot (uploaded objects, then a jump,
   then the image runs or an error is reported), and `DaBoot` shown to implement
   it. `MemoryInvariant` holds what the refinement mapping would need.
