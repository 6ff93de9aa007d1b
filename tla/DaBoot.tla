------------------------------- MODULE DaBoot -------------------------------
(***************************************************************************)
(* The whole boot: the host program and the device, joined by the USB      *)
(* port.  The two run concurrently and meet in three ways: frames on the   *)
(* wire, the ROM's or the preloader's own protocol when a payload is sent  *)
(* (one step here), and the port appearing again after a jump.             *)
(***************************************************************************)
EXTENDS Payload, Host

(* The preloader and LK do not return to who starts them.                  *)
ASSUME NoReturnAssumption == PlAddr \notin Returning /\ LkAddr \notin Returning

(* What is sent or uploaded to a fixed address ends inside the address     *)
(* space, and the function that is hooked is part of LK.                   *)
ASSUME FitAssumption ==
  /\ BromBase + ImageSize <= U32Max + 1 /\ DaAddr + ImageSize <= U32Max + 1
  /\ PlAddr + PlLen <= U32Max + 1
  /\ HookOff + HookLen <= LkLen

vars == <<host, dev, wire>>

Init ==
  /\ HostInit
  /\ DeviceInit(cfg.dev)
  /\ toDev = <<>>
  /\ toHost = <<>>

HostStep == HostAlone /\ UNCHANGED dev

DeviceStep == PayloadStep /\ UNCHANGED host

(* inject_params and run_payload: the parameters are written into the      *)
(* payload, which is sent and started; or the ROM or preloader refuses.    *)
SendPayload(op, which, addr) ==
  /\ At({op})
  /\ \/ LoadPayload(which, addr, hparams) /\ Advance /\ UNCHANGED place
     \/ Fail("payload") /\ UNCHANGED dev
  /\ UNCHANGED <<hparams, req, wire>>

SendBromPayload == SendPayload("payload_brom", "brom", BromBase)
SendPlPayload == SendPayload("payload_pl", "pl", DaAddr)

(* open_port after the jump to the preloader.  The port that appears is    *)
(* the preloader's; one that is still the payload's, because the timeout   *)
(* was faster than the jump, does not answer the handshake.                *)
OpenPort ==
  /\ At({"open_port"})
  /\ \/ phase = "preloader" /\ Advance
     \/ phase = "serving" /\ Fail("stale port")
  /\ UNCHANGED <<place, hparams, req, wire, dev>>

(* External: LK, once it runs, clears its .bss, which follows its image.   *)
LkStarts ==
  /\ phase = "booted"
  /\ mem[entry.addr] = <<"lk", 0, 0>>
  /\ mem' = Store(mem, entry.addr + LkLen, LkBssLen, <<"lkbss", 0>>, 0)
  /\ phase' = "lk"
  /\ UNCHANGED <<stage, params, base, got, areas, plParams, lkParams, entry, wire, host>>

(* The host has exited; what the device still does is its own affair.      *)
Terminated == hstat # "running" /\ UNCHANGED vars

Next ==
  \/ HostStep \/ SendBromPayload \/ SendPlPayload \/ OpenPort
  \/ DeviceStep \/ LkStarts
  \/ Terminated

(* The device's one thread and the host's one thread both keep running.    *)
(* The user at the REPL's prompt owes nobody a command.                    *)
Fairness ==
  /\ WF_vars(DeviceStep)
  /\ WF_vars(LkStarts)
  /\ WF_vars(~ AtPrompt /\ (HostStep \/ SendBromPayload \/ SendPlPayload \/ OpenPort))

Spec == Init /\ [][Next]_vars /\ Fairness

-----------------------------------------------------------------------------
(* What serves is the image that was sent, stack and heap included: no     *)
(* upload of a boot hits it.  At the prompt the user may write anywhere.   *)
PayloadIntact ==
  phase = "serving" /\ cfg.mode # "REPL" =>
    /\ Holds(mem, base, ImageFile, ImageObj)
    /\ Holds(mem, areas.stack.start, StackSize, <<"stack", 0>>)
    /\ areas.heap # NoRange => Holds(mem, areas.heap.start, HeapSize, <<"heap", 0>>)

(* The payload halts only because the blacklist is full or the memory is:  *)
(* never later, and in particular the host's Message::Ack is taken for the *)
(* Response::Ack that handler waits for.                                   *)
HaltsOnlyForLack ==
  phase = "halted" =>
    \/ Len(params.blacklist) = MaxSlots
    \/ \E size \in {ImageSize, StackSize, HeapSize} :
         FindUnusedRange(params.memory, params.blacklist, size) = NoRange

(* An answer the host reads is the answer to the request it sent last, and *)
(* between two steps nothing is in flight; only the REPL's decision to go  *)
(* on after a failed transfer can break this.                              *)
AnswersMatch ==
  (hstat = "running" /\ ~ abandoned) =>
    /\ waiting => \A i \in 1..Len(toHost) : toHost[i].re = req
    /\ ~ waiting /\ ~ At({"start", "open_port"}) => toHost = <<>>

(* What a boot uploads besides the preloader.  BootROM mode in the mask    *)
(* ROM leaves LK aside.                                                    *)
Objects(c) ==
  {<<"up", i>> : i \in 1..Len(c.upload)} \cup
  (IF c.lk /\ (c.mode = "BootROM" => c.dev # "rom")
     THEN {<<"lk", 0>>, <<"bootarg", 0>>} ELSE {}) \cup
  (IF c.kernel > 0 THEN {<<"bootimg", 0>>} ELSE {})

HookRange == LkAddr + HookOff .. LkAddr + HookOff + HookLen - 1

(* Object o is in memory as the host has it, the hook in LK excepted.      *)
Intact(o) ==
  \A k \in 0..(Length(o) - 1) :
    \/ mem[Addr(o) + k] = Byte(o, k)
    \/ cfg.mode = "LK" /\ o[1] = "lk" /\ Addr(o) + k \in HookRange

(* When control leaves for the image the user asked for, or BootROM mode   *)
(* reports success, everything that was uploaded is in memory, byte for    *)
(* byte, and so is the preloader when run_brom starts it: no chunk went    *)
(* astray and no range the device handed out was one already in use.       *)
BootIntact ==
  /\ (phase = "booted" \/ (hstat = "ok" /\ stage = "brom")) /\ cfg.mode # "REPL" =>
       \A o \in Objects(cfg) : Intact(o)
  /\ phase = "preloader" /\ cfg.dev = "rom" /\ stage = "brom" => Intact(PreloaderObj)
  /\ phase = "booted" /\ cfg.lk /\ cfg.mode # "REPL" =>
       entry.r0 = place["bootarg"] /\ entry.r1 = BootargLen

(* After LK has cleared its .bss the boot argument, boot.img, the hook and *)
(* the payload code and heap the hook runs on are still there.             *)
LkFindsItsBoot ==
  (phase = "lk" /\ cfg.mode = "LK") =>
    /\ Intact(<<"bootarg", 0>>)
    /\ \A o \in Objects(cfg) : Addr(o) = lkParams[3] => Intact(o)
    /\ \E o \in Objects(cfg) : Addr(o) = lkParams[3]
    /\ \A a \in HookRange : mem[a] = <<"hook", 0, a - (LkAddr + HookOff)>>
    /\ Holds(mem, base, ImageFile, ImageObj)
    /\ Holds(mem, areas.heap.start, HeapSize, <<"heap", 0>>)

(* How many slots of the blacklist a boot takes.                           *)
SlotsNeeded(c) ==
  LET n == Len(c.upload)
  IN  (IF c.lk THEN 3 ELSE 0) + (IF c.kernel > 0 THEN 1 ELSE 0)
      + (IF c.dev = "rom" THEN n + 1 ELSE 0) + 3 + n

(* A boot that fits the twelve slots fails only for a reason outside the   *)
(* protocol: the command line, the host's own work, the ROM, a timeout,    *)
(* code that returned from the jump, or memory that really is too small.   *)
FailsOnlyOutside ==
  (hstat = "failed" /\ SlotsNeeded(cfg) <= MaxSlots) =>
    \/ why \in {"usage", "no binary", "local", "payload", "timeout", "stale port", "repl"}
    \/ why = "jump" /\ cfg.jump \in Returning
    \/ why = "no range" /\
       FindUnusedRange(params.memory, params.blacklist, Length(Here.obj)) = NoRange

(* The boots that end in a jump: not the REPL's, and not those of BootROM  *)
(* mode in the mask ROM.                                                   *)
EndsInJump(c) ==
  /\ c.mode # "REPL"
  /\ c.mode = "BootROM" => c.dev # "rom"

(* The host never hangs, whatever the device does: it ends, one way or the *)
(* other, or waits for the user at the prompt.                             *)
HostEnds == []<>(hstat # "running" \/ AtPrompt)

(* Success means that the user's image runs in the end, even when the      *)
(* answer to the jump is a timeout.                                        *)
SuccessLeadsToBoot ==
  (hstat = "ok" /\ EndsInJump(cfg) /\ cfg.jump \notin Returning) ~> phase \in {"booted", "lk"}

-----------------------------------------------------------------------------
(* What the repository says and the code does not do; each has a run that  *)
(* shows the difference.                                                   *)

(* A range that is forbidden for relocation is not where the payload ends  *)
(* up (BlacklistMode::ForbiddenReloc).  app looks for a range that keeps   *)
(* clear of them all, but stays where it was loaded when that range        *)
(* overlaps the place, and verify_params only logs it.                     *)
RelocForbidden ==
  Settled =>
    \A i \in 1..Len(params.blacklist) :
      params.blacklist[i].mode = "ForbiddenReloc" =>
        ~ Overlap(areas.image, params.blacklist[i])

(* BootROM mode is documented as "BootROM -> payload -> your binary", and  *)
(* main insists on a jump address; run_brom uploads and returns.           *)
BootromJumps ==
  (hstat = "ok" /\ cfg.mode = "BootROM" /\ toDev = <<>>) => phase = "booted"
=============================================================================
