------------------------------ MODULE MCDaBoot ------------------------------
(***************************************************************************)
(* A phone with 64 bytes of SRAM and 108 bytes of DRAM.  Every mode of the *)
(* command line, with and without LK, kernels that fit the gap below LK    *)
(* and kernels that do not, one and two inputs, on a device found in the   *)
(* mask ROM or in the preloader.                                           *)
(***************************************************************************)
EXTENDS DaBoot

MCSram == [start |-> 8, end |-> 72]
MCDram == [start |-> 80, end |-> 188]

File(a, n) == [addr |-> a, len |-> n]

(* The user's part of the bargain: inputs keep clear of each other, of LK  *)
(* and, if the device is in the preloader already, of the first bytes of   *)
(* the DRAM, where the payload will be.                                    *)
RomInputs == {<<>>, <<File(80, 9)>>, <<File(80, 9), File(160, 3)>>}
PreloaderInputs == {<<>>, <<File(104, 9)>>, <<File(160, 3), File(104, 9)>>}

Config(d, m, l, k, u, j) ==
  [dev |-> d, mode |-> m, lk |-> l, kernel |-> k, upload |-> u, jump |-> j,
   dram |-> TRUE]

(* Every command line, the senseless ones included, that boots something   *)
(* from DRAM.                                                              *)
MCConfigs ==
  {c \in {Config(d, m, l, k, u, j) :
            d \in {"rom", "preloader"}, m \in {"BootROM", "Preloader", "LK"}, l \in BOOLEAN,
            k \in {0, 7, 14}, u \in RomInputs \cup PreloaderInputs, j \in {NoAddr, 104}} :
     /\ c.upload \in (IF c.dev = "rom" THEN RomInputs ELSE PreloaderInputs)
     /\ c.mode = "BootROM" => c.dev = "preloader"}

(* One input too many for the twelve slots.                                *)
MCTooMany ==
  {Config("rom", "LK", TRUE, 7, <<File(80, 9), File(160, 3), File(168, 3)>>, NoAddr)}

(* The size of the DRAM is missing.                                        *)
MCNoDram == {[Config("rom", "LK", TRUE, 7, <<>>, NoAddr) EXCEPT !.dram = FALSE]}

-----------------------------------------------------------------------------
(* Boots that end in the payload: BootROM mode on the mask ROM and the     *)
(* REPL, and one that jumps to an image that may return.                   *)
MCStayConfigs ==
  {Config("rom", "BootROM", l, 0, u, 48) : l \in BOOLEAN, u \in {<<>>, <<File(48, 5)>>}} \cup
  {Config(d, "REPL", FALSE, 0, <<>>, NoAddr) : d \in {"rom", "preloader"}} \cup
  {Config("preloader", "Preloader", FALSE, 0, <<File(170, 9)>>, 170)}

Cmd(op, a, n) == [op |-> op, addr |-> a, size |-> n]

(* A transfer of several chunks each way, one of them over the payload's   *)
(* stack, and one of each of the other commands.                           *)
MCReplCommands ==
  {Cmd("Ack", 0, 0), Cmd("Read", 80, 6), Cmd("Write", 160, 5), Cmd("Write", 88, 2),
   Cmd("FlushCache", 160, 5), Cmd("Jump", 170, 0), Cmd("Reset", 0, 0)}

-----------------------------------------------------------------------------
(* Boots with too many inputs for the slots at each place where one is     *)
(* taken, and with inputs that leave the payload no room in the SRAM.      *)
Tiny(n) == [i \in 1..n |-> File(150 + 2 * i, 1)]

MCTightConfigs ==
  {Config("rom", "Preloader", FALSE, 0, Tiny(n), 160) : n \in 4..12} \cup
  {Config("rom", "Preloader", TRUE, 0, Tiny(n), NoAddr) : n \in 2..6} \cup
  {Config("rom", "Preloader", FALSE, 0, <<File(a, 64)>>, 160) : a \in {8, 24}} \cup
  {Config("preloader", "LK", TRUE, k, Tiny(1), NoAddr) : k \in {60, 90}}

MCBootConfigs == MCConfigs \cup MCTooMany \cup MCNoDram \cup MCStayConfigs \cup MCTightConfigs

-----------------------------------------------------------------------------
(* BootROM mode on the mask ROM with one input.                            *)
MCBootromConfigs == {Config("rom", "BootROM", FALSE, 0, <<File(48, 5)>>, 48)}

(* The same with an input close above the place the payload is sent to.    *)
MCNearConfigs == {Config("rom", "BootROM", FALSE, 0, <<File(24, 5)>>, 24)}
=============================================================================
