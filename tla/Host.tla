-------------------------------- MODULE Host --------------------------------
(***************************************************************************)
(* crates/da-boot: the program on the host, from the command line to its   *)
(* exit.  After the command line is checked and the device is found, the   *)
(* program is a straight line whose steps depend only on the command line  *)
(* and on the mode the device is in; Script is that line, and `ip' the     *)
(* position in it.  A step that talks to the payload sends a request,      *)
(* waits for the answer (2 seconds, then the read fails) and goes on or    *)
(* gives up.                                                               *)
(***************************************************************************)
EXTENDS Params, Protocol

CONSTANTS
  Configs,          \* the command lines and devices that are explored
  Sram, Dram,       \* the memory ranges of the SoC
  BromBase,         \* where run_brom sends the payload
  DaAddr,           \* where the preloader takes a payload
  PlAddr, PlLen,    \* the preloader image
  LkAddr, LkLen, LkBssLen,  \* the LK image and the memory reserved behind it
  HookOff,          \* where in LK mt_part_generic_read is
  BootargLen,       \* the size of LK's boot argument
  ChunkSize,        \* CHUNK_SIZE of upload and download
  ReplCommands,     \* what the user may type in the REPL
  MaxCommands       \* how many commands of the REPL are explored

ASSUME ChunkAssumption == ChunkSize \in Nat \ {0}
ASSUME LayoutAssumption ==
  /\ Sram \in MemoryRange /\ Dram \in MemoryRange
  /\ {BromBase, DaAddr, PlAddr, LkAddr} \subseteq U32
  /\ BootargLen \in Nat /\ HookOff \in Nat
  /\ PlLen \in Nat \ {0} /\ LkLen \in Nat /\ LkBssLen \in Nat

(* Nothing the host deals with is at address zero, and SRAM and DRAM end   *)
(* below the top of the address space.                                     *)
ASSUME NonZeroAssumption ==
  /\ PlAddr # 0 /\ LkAddr # 0
  /\ Dram.start # 0 /\ Dram.end < U32Max /\ Sram.end < U32Max

(* A command line names the device's mode, the inputs (address and         *)
(* length), LK or not, and the size of the boot.img, zero for none.        *)
ASSUME ConfigsAssumption ==
  \A c \in Configs :
    /\ c.dev \in {"rom", "preloader"}
    /\ c.upload \in Seq([addr : U32 \ {0}, len : Nat])
    /\ c.lk \in BOOLEAN
    /\ c.kernel \in Nat

(* The commands of the prompt that reach the device.                       *)
ASSUME ReplAssumption ==
  \A m \in ReplCommands :
    m.op \in {"Ack", "Read", "Write", "FlushCache", "Jump", "Reset"}

VARIABLES
  cfg,       \* the command line and the device, see Configs
  hstat,     \* "running", "ok", "failed": what main returns
  why,       \* history: the error it returned
  ip,        \* the step of Script(cfg) that is next or under way
  off,       \* inside an upload or a download: the bytes done
  waiting,   \* a request is out and its answer has not been read
  req,       \* history: the number of requests so far
  place,     \* the addresses the device chose for bootarg and boot.img
  hparams,   \* state.params: [memory, blacklist]
  cmd,       \* the command of the REPL under way
  cmds,      \* history: the number of commands typed
  abandoned  \* history: the REPL went on after a failed transfer

host == <<cfg, hstat, why, ip, off, waiting, req, place, hparams, cmd, cmds, abandoned>>

NoAddr == -1
NoCmd == [op |-> "none", addr |-> 0, size |-> 0]

-----------------------------------------------------------------------------
(* The line of steps.                                                      *)

Step(op, obj) == <<[op |-> op, obj |-> obj]>>
Local(op) == Step(op, <<"none", 0>>)

(* Every input is uploaded and then reserved.                              *)
Uploads(c) ==
  [i \in 1..(2 * Len(c.upload)) |->
     [op |-> IF i % 2 = 1 THEN "upload" ELSE "reserve",
      obj |-> <<"up", (i + 1) \div 2>>]]

(* run_brom: the payload in SRAM takes the inputs, or boots the preloader. *)
BromScript(c) ==
  Local("params_brom") \o Local("payload_brom") \o Local("start") \o
  IF c.mode = "BootROM"
    THEN Local("any_input") \o Uploads(c)
    ELSE Step("upload", <<"preloader", 0>>) \o Step("jump", <<"preloader", 0>>)

(* run_rpc_preloader, LK and its boot argument: the range of the argument  *)
(* is reserved before it is uploaded.                                      *)
LkScript(c) ==
  IF c.lk
    THEN LET lk == <<"lk", 0>>
             arg == <<"bootarg", 0>>
         IN  Step("upload", lk) \o Step("reserve", lk) \o
             Step("alloc", arg) \o Step("reserve", arg) \o Step("upload", arg)
    ELSE <<>>

(* The kernel as a boot.img: made by mkbootimg, and reserved after it is   *)
(* uploaded.                                                               *)
BootimgScript(c) ==
  IF c.kernel > 0
    THEN LET img == <<"bootimg", 0>>
         IN  Local("mkbootimg") \o
             Step("alloc", img) \o Step("upload", img) \o Step("reserve", img)
    ELSE <<>>

ModeScript(c) ==
  IF c.mode = "LK"
    THEN BootimgScript(c) \o Local("extract") \o Local("set_lk") \o Local("hook") \o
         Step("jump", <<"lk", 0>>)
  ELSE IF c.mode = "REPL" THEN Local("repl")
  ELSE IF c.mode = "Preloader" /\ c.lk THEN Step("jump", <<"lk", 0>>)
  ELSE Step("jump", <<"cli", 0>>)

PreloaderScript(c) ==
  Local("params_pl") \o Local("extract") \o Local("payload_pl") \o Local("start") \o
  Local("set_pl") \o Uploads(c) \o LkScript(c) \o ModeScript(c)

(* run: a device in BootROM mode goes through run_brom, and from there,    *)
(* unless that is all the user wants, on to the preloader.                 *)
Script(c) ==
  Local("main") \o
  IF c.dev = "rom"
    THEN BromScript(c) \o
         IF c.mode = "BootROM" THEN <<>> ELSE Local("open_port") \o PreloaderScript(c)
    ELSE PreloaderScript(c)

Here == Script(cfg)[ip]

At(ops) == hstat = "running" /\ ip <= Len(Script(cfg)) /\ Here.op \in ops

-----------------------------------------------------------------------------
(* Where the objects are and how long they are.                            *)

Addr(o) ==
  CASE o[1] = "up" -> cfg.upload[o[2]].addr
    [] o[1] = "lk" -> LkAddr
    [] o[1] = "preloader" -> PlAddr
    [] o[1] = "cli" -> IF cfg.jump = NoAddr THEN 0 ELSE cfg.jump
    [] OTHER -> place[o[1]]

Length(o) ==
  CASE o[1] = "up" -> cfg.upload[o[2]].len
    [] o[1] = "lk" -> LkLen
    [] o[1] = "preloader" -> PlLen
    [] o[1] = "bootarg" -> BootargLen
    [] o[1] = "bootimg" -> cfg.kernel

(* What the host reserves for an object: one byte more than it has.        *)
Reserved(o) == [start |-> Addr(o), end |-> Addr(o) + Length(o) + 1]

(* Mutant: there is always a kernel.                                       *)
BootimgAddr_kernel == place["bootimg"]

(* Where LK will find its boot.img: the one made from the kernel, or the   *)
(* first input.                                                            *)
BootimgAddr == IF cfg.kernel > 0 THEN place["bootimg"] ELSE cfg.upload[1].addr

-----------------------------------------------------------------------------
(* The command line, as main checks it.                                    *)
UsageOK(c) ==
  LET files == c.upload # <<>>
      jump == c.jump # NoAddr
      kernel == c.kernel > 0
  IN  \/ c.mode = "BootROM" /\ ~ kernel /\ jump
      \/ c.mode = "Preloader" /\ (files \/ c.lk) /\ (jump \/ c.lk) /\ ~ kernel
      \/ c.mode = "LK" /\ c.lk /\ (files \/ kernel) /\ ~ jump /\ c.dram
      \/ c.mode = "REPL" /\ ~ jump /\ ~ kernel

Fail(error) ==
  /\ hstat' = "failed"
  /\ why' = error
  /\ waiting' = FALSE
  /\ UNCHANGED <<cfg, ip, off, place, cmd, cmds, abandoned>>

(* The step is done; after the last one main returns Ok.                   *)
Advance ==
  /\ ip' = ip + 1
  /\ off' = 0
  /\ waiting' = FALSE
  /\ hstat' = IF ip = Len(Script(cfg)) THEN "ok" ELSE "running"
  /\ UNCHANGED <<cfg, why, cmds, cmd, abandoned>>

(* Mutant: LK's .bss is not reserved.                                      *)
Main_noBss ==
  /\ At({"main"})
  /\ UsageOK(cfg)
  /\ Advance
  /\ UNCHANGED <<place, hparams, req, wire>>

(* main: files are read and analyzed, which may fail; the command line is  *)
(* checked; LK's .bss is reserved so that the payload will not move there. *)
Main ==
  /\ At({"main"})
  /\ \/ UsageOK(cfg) /\ Advance /\ UNCHANGED place
     \/ ~ UsageOK(cfg) /\ Fail("usage")
     \/ Fail("local")
  /\ hparams' = IF cfg.lk
       THEN [hparams EXCEPT !.blacklist = blacklist_reloc(@, [start |-> LkAddr + LkLen,
                                                     end |-> LkAddr + LkLen + LkBssLen])]
       ELSE hparams
  /\ UNCHANGED <<req, wire>>

(* run_brom: the inputs and the preloader are reserved in the parameters.  *)
BromRanges ==
  [i \in 1..Len(cfg.upload) |-> Reserved(<<"up", i>>)] \o <<Reserved(<<"preloader", 0>>)>>

BromBlacklist ==
  hparams.blacklist \o
    [i \in 1..Len(BromRanges) |-> [start |-> BromRanges[i].start, end |-> BromRanges[i].end,
                                   mode |-> "ForbiddenReloc"]]

ParamsBrom ==
  /\ At({"params_brom"})
  /\ \/ /\ Len(BromBlacklist) <= MaxSlots
        /\ hparams' = [memory |-> Sram, blacklist |-> BromBlacklist]
        /\ Advance
        /\ UNCHANGED place
     \/ /\ Len(BromBlacklist) > MaxSlots
        /\ Fail("exhausted")
        /\ UNCHANGED hparams
  /\ UNCHANGED <<req, wire>>

(* run_preloader: the payload gets DRAM; the blacklist stays as it is.     *)
ParamsPl ==
  /\ At({"params_pl"})
  /\ hparams' = [hparams EXCEPT !.memory = Dram]
  /\ Advance
  /\ UNCHANGED <<place, req, wire>>

(* Work on the host that may fail: mkbootimg and what goes with it, and    *)
(* finding functions in the preloader or LK.                               *)
LocalWork ==
  /\ At({"mkbootimg", "extract"})
  /\ Advance \/ Fail("local")
  /\ UNCHANGED <<place, hparams, req, wire>>

(* BootROM mode gives up here if there is nothing to upload.               *)
AnyInput ==
  /\ At({"any_input"})
  /\ \/ cfg.upload # <<>> /\ Advance
     \/ cfg.upload = <<>> /\ Fail("no binary")
  /\ UNCHANGED <<place, hparams, req, wire>>

-----------------------------------------------------------------------------
(* Requests.                                                               *)

(* A write of the host that fails or times out, part-way perhaps, is left  *)
(* out: in a boot it is an error outside the protocol like many others,    *)
(* and what it leaves to the REPL, which goes on, is in Frame.             *)
Send(items) ==
  /\ ~ waiting
  /\ toDev' = toDev \o items
  /\ waiting' = TRUE
  /\ req' = req + 1
  /\ UNCHANGED <<cfg, hstat, why, ip, off, place, hparams, cmds, abandoned, toHost>>

Ask(kind, arg) == Send(<<Message(kind, arg, req + 1)>>) /\ UNCHANGED cmd

SetPreloaderParams ==
  /\ At({"set_pl"})
  /\ Ask("SetParams", [type |-> "Preloader", ptrs |-> <<PlAddr>>])

SetLkParams ==
  /\ At({"set_lk"})
  /\ Ask("SetParams", [type |-> "LK", ptrs |-> <<LkAddr + HookOff, LkAddr, BootimgAddr>>])

Hook == At({"hook"}) /\ Ask("Hook", [id |-> "MtPartGenericRead"])

Reserve == At({"reserve"}) /\ Ask("BlacklistRange", Reserved(Here.obj))

Alloc == At({"alloc"}) /\ Ask("GetFreeRange", [size |-> Length(Here.obj)])

(* upload: chunk after chunk, the message and its bytes together.          *)
ChunkLen(len) == IF len - off < ChunkSize THEN len - off ELSE ChunkSize

(* Mutant: every chunk goes to the address of the first.                   *)
WriteChunk_first(addr, obj, len) ==
  Send(<<Message("Write", [addr |-> addr, size |-> ChunkLen(len)], req + 1),
         Data(obj, off, ChunkLen(len), req + 1)>>)

WriteChunk(addr, obj, len) ==
  Send(<<Message("Write", [addr |-> addr + off, size |-> ChunkLen(len)], req + 1),
         Data(obj, off, ChunkLen(len), req + 1)>>)

Upload ==
  /\ At({"upload"})
  /\ off < Length(Here.obj)
  /\ WriteChunk(Addr(Here.obj), Here.obj, Length(Here.obj))
  /\ UNCHANGED cmd

UploadDone ==
  /\ At({"upload"})
  /\ off = Length(Here.obj)
  /\ ~ waiting
  /\ Advance
  /\ UNCHANGED <<place, hparams, req, wire>>

(* The boot argument's address and size travel in r0 and r1.               *)
Jump ==
  /\ At({"jump"})
  /\ Ask("Jump", IF cfg.lk /\ Here.obj[1] # "preloader"
                   THEN [addr |-> Addr(Here.obj), r0 |-> place["bootarg"], r1 |-> BootargLen]
                   ELSE [addr |-> Addr(Here.obj), r0 |-> 0, r1 |-> 0])

-----------------------------------------------------------------------------
(* Answers.                                                                *)

(* What read_response may return, an error included.                       *)
Kinds == {"Ack", "Nack", "Range", "Error"}

Read(kind) ==
  /\ waiting
  /\ toHost # <<>>
  /\ Decode(ResponseKinds, Head(toHost)) = kind
  /\ toHost' = Tail(toHost)
  /\ UNCHANGED toDev

(* start: the payload's Ack is a Message, and so is the answer.            *)
Start ==
  /\ At({"start"})
  /\ toHost # <<>>
  /\ toHost' = Tail(toHost)
  /\ IF Decode(MessageKinds, Head(toHost)) = "Ack"
       THEN toDev' = Append(toDev, Message("Ack", Empty, 0)) /\ Advance
       ELSE Fail("no ack") /\ UNCHANGED toDev
  /\ UNCHANGED <<place, hparams, req>>

AckSteps == {"set_pl", "set_lk", "reserve", "hook"}

(* Anything but an Ack is an error.                                        *)
ReadAck ==
  /\ At(AckSteps)
  /\ \/ Read("Ack") /\ Advance /\ UNCHANGED place
     \/ (\E kind \in Kinds \ {"Ack"} : Read(kind)) /\ Fail("nack")
  /\ UNCHANGED <<hparams, req>>

(* upload reads the response and ignores which one it is.                  *)
ReadWritten ==
  /\ At({"upload"})
  /\ \E kind \in Kinds \ {"Error"} : Read(kind)
  /\ off' = off + ChunkLen(Length(Here.obj))
  /\ waiting' = FALSE
  /\ UNCHANGED <<cfg, hstat, why, ip, req, place, hparams, cmd, cmds, abandoned>>

ReadRange ==
  /\ At({"alloc"})
  /\ \E kind \in Kinds :
       /\ Read(kind)
       /\ \/ /\ kind = "Range" /\ Head(toHost).arg.start # NoAddr
             /\ place' = [place EXCEPT ![Here.obj[1]] = Head(toHost).arg.start]
             /\ Advance
          \/ /\ kind # "Range" \/ Head(toHost).arg.start = NoAddr
             /\ Fail("no range")
  /\ UNCHANGED <<hparams, req>>

(* Only a Nack is an error, because a device that has gone away cannot     *)
(* answer at all.                                                          *)
ReadJump ==
  /\ At({"jump"})
  /\ \E kind \in Kinds :
       /\ Read(kind)
       /\ IF kind = "Nack" THEN Fail("jump") ELSE Advance /\ UNCHANGED place
  /\ UNCHANGED <<hparams, req>>

(* Mutants: every timeout is taken for success, as that of a jump is; the  *)
(* read after a jump has no timeout.                                       *)
Timeout_ignored ==
  /\ \/ At(AckSteps \cup {"upload", "alloc", "jump"}) /\ waiting /\ Advance
     \/ At({"start"}) /\ Advance
  /\ UNCHANGED <<place, hparams, req, wire>>

Timeout_notOnJump ==
  /\ \/ At(AckSteps \cup {"upload", "alloc"}) /\ waiting /\ Fail("timeout")
     \/ At({"start"}) /\ Fail("timeout")
  /\ UNCHANGED <<hparams, req, wire>>

(* No answer within the port's timeout.  While it waits for start there is *)
(* no request out.                                                         *)
Timeout ==
  /\ \/ At(AckSteps \cup {"upload", "alloc"}) /\ waiting /\ Fail("timeout")
     \/ At({"start"}) /\ Fail("timeout")
     \/ At({"jump"}) /\ waiting /\ Advance /\ UNCHANGED place
  /\ UNCHANGED <<hparams, req, wire>>

-----------------------------------------------------------------------------
(* run_repl.  A command is typed, its answer is read; a failed Read or     *)
(* Write is reported and the loop goes on, any other failure ends it.      *)

Transfers == {"Read", "Write"}

AtPrompt == At({"repl"}) /\ ~ waiting /\ cmd = NoCmd

ReplType ==
  /\ AtPrompt
  /\ cmds < MaxCommands
  /\ cmd' \in ReplCommands
  /\ cmds' = cmds + 1
  /\ off' = 0
  /\ UNCHANGED <<cfg, hstat, why, ip, waiting, req, place, hparams, abandoned, wire>>

ReplSend ==
  /\ At({"repl"})
  /\ cmd # NoCmd
  /\ \/ /\ cmd.op = "Write"
        /\ off < cmd.size
        /\ WriteChunk(cmd.addr, <<"repl", cmds>>, cmd.size)
     \/ /\ cmd.op = "Read"
        /\ off < cmd.size
        /\ Send(<<Message("Read", [addr |-> cmd.addr + off, size |-> ChunkLen(cmd.size)],
                          req + 1)>>)
     \/ /\ cmd.op \notin Transfers
        /\ Send(<<Message(cmd.op, [addr |-> cmd.addr, r0 |-> 0, r1 |-> 0], req + 1)>>)
  /\ UNCHANGED cmd

(* All chunks of a transfer are done.                                      *)
ReplDone ==
  /\ At({"repl"})
  /\ ~ waiting
  /\ cmd.op \in Transfers /\ off >= cmd.size
  /\ cmd' = NoCmd
  /\ UNCHANGED <<cfg, hstat, why, ip, off, waiting, req, place, hparams, cmds, abandoned, wire>>

(* The items of the answer: Read has its bytes first.                      *)
AnswerLen == IF cmd.op = "Read" THEN 2 ELSE 1

(* The answer is as it should be; print_response takes any response.       *)
ReplRead ==
  /\ At({"repl"})
  /\ waiting
  /\ Len(toHost) >= AnswerLen
  /\ cmd.op = "Read" => toHost[1].tag = "data" /\ Decode(ResponseKinds, toHost[2]) = "Ack"
  /\ cmd.op # "Read" => Decode(ResponseKinds, toHost[1]) # "Error"
  /\ toHost' = SubSeq(toHost, AnswerLen + 1, Len(toHost))
  /\ waiting' = FALSE
  /\ \/ /\ cmd.op \in Transfers
        /\ off' = off + ChunkLen(cmd.size)
        /\ UNCHANGED cmd
     \/ /\ cmd.op \notin Transfers
        /\ cmd' = NoCmd
        /\ UNCHANGED off
  /\ UNCHANGED <<cfg, hstat, why, ip, req, place, hparams, cmds, abandoned, toDev>>

(* The read fails: nothing comes in time, or what comes is not an answer,  *)
(* which then is gone from the stream.                                     *)
ReplUnreadable ==
  /\ toHost # <<>>
  /\ IF cmd.op = "Read" THEN toHost[1].tag # "data"
                        ELSE Decode(ResponseKinds, toHost[1]) = "Error"
  /\ toHost' = Tail(toHost)

ReplError ==
  /\ At({"repl"})
  /\ waiting
  /\ ReplUnreadable \/ UNCHANGED toHost
  /\ \/ /\ cmd.op \in Transfers
        /\ cmd' = NoCmd
        /\ waiting' = FALSE
        /\ abandoned' = TRUE
        /\ UNCHANGED <<cfg, hstat, why, ip, off, place, cmds>>
     \/ /\ cmd.op \notin Transfers
        /\ Fail("repl")
  /\ UNCHANGED <<req, hparams, toDev>>

(* End of file or Ctrl-C at the prompt.                                    *)
ReplQuit ==
  /\ AtPrompt
  /\ Advance
  /\ UNCHANGED <<place, hparams, req, wire>>

HostAlone ==
  \/ Main \/ ParamsBrom \/ ParamsPl \/ LocalWork \/ AnyInput
  \/ SetPreloaderParams \/ SetLkParams \/ Hook \/ Reserve \/ Alloc
  \/ Upload \/ UploadDone \/ Jump
  \/ Start \/ ReadAck \/ ReadWritten \/ ReadRange \/ ReadJump \/ Timeout
  \/ ReplType \/ ReplSend \/ ReplDone \/ ReplRead \/ ReplError \/ ReplQuit

HostInit ==
  /\ cfg \in Configs
  /\ hstat = "running"
  /\ why = "none"
  /\ ip = 1
  /\ off = 0
  /\ waiting = FALSE
  /\ req = 0
  /\ place = [bootarg |-> 0, bootimg |-> 0]
  /\ hparams = [memory |-> [start |-> 0, end |-> 0], blacklist |-> <<>>]
  /\ cmd = NoCmd
  /\ cmds = 0
  /\ abandoned = FALSE

=============================================================================
