-------------------------------- MODULE MCLk --------------------------------
(* What LK is given: the host builds the boot argument, then the payload   *)
(* hooks LK and jumps there, and LK boots what the argument says.          *)
(*                                                                         *)
(* 64 values of a u32, sectors of 4 bytes, a window of 8: an old and a new *)
(* partition table, without recovery, without a boot partition, and with   *)
(* the boot partition more than 2^32 bytes into the flash.  LK goes on     *)
(* with a normal and with a recovery boot; the other arguments are only    *)
(* built.                                                                  *)
EXTENDS LkHook

CONSTANTS Sizes, Ranks   \* see LkArg

VARIABLES input, arg

Arg == INSTANCE LkArg

Old(s) == [w0 |-> 9, w12 |-> s]
New(s) == [w0 |-> s, w12 |-> 7]

MCTables ==
  {[BOOTIMG |-> Old(s), boot |-> Null, recovery |-> Old(s + 8)] : s \in {3, 20}} \cup
  {[BOOTIMG |-> Null, boot |-> New(s), recovery |-> New(s + 8)] : s \in {3, 20}} \cup
  {[BOOTIMG |-> Null, boot |-> New(5), recovery |-> Null],
   [BOOTIMG |-> Null, boot |-> Null, recovery |-> New(5)]}

(* Below, at, in, at the end of and behind the partition, and further off. *)
MCOtherReads == [src : {0, 11, 12, 16, 20, 21, 76, 79, 80, 88, 89, 140}, size : {4}]

Normal == 0
Recovery == 2

GoesOn ==
  input.soc = "MT6572" /\ input.size = 512 /\ input.ranks = 1 /\ input.mode \in {Normal, Recovery}

MCInit ==
  /\ Arg!Init
  /\ Init
  /\ bootMode = IF input.mode = Recovery THEN "recovery" ELSE "normal"
  /\ ~ GoesOn => page = 4 /\ table.boot = New(5)

Build == Arg!get_for_soc /\ UNCHANGED vars
GoOn == arg # Arg!None /\ GoesOn /\ Next /\ UNCHANGED <<input, arg>>
Built == Arg!Sent /\ ~ GoesOn /\ UNCHANGED vars

MCSpec == MCInit /\ [][Build \/ GoOn \/ Built]_<<vars, input, arg>>

-----------------------------------------------------------------------------
(* The boot argument that LK is handed has no byte that was never written, *)
(* and describes the memory the user named.                                *)
ArgumentSound == Arg!ArgumentSound
=============================================================================
