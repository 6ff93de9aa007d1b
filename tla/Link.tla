-------------------------------- MODULE Link --------------------------------
(***************************************************************************)
(* How the host finds the device and gets a payload to run on it: run of   *)
(* main.rs with the search for the port, the handshake, the workaround for *)
(* the preloader of the mt6572, --crash, and the two places from which     *)
(* run_payload is called, against a device that enumerates, times out in   *)
(* its ROM, announces itself, drops off the bus and crashes.               *)
(*                                                                         *)
(* host.todo is what is left of run, a straight line that grows where the  *)
(* code branches or calls.  The phone is external; everything in it is     *)
(* what the code above expects or guards against.                          *)
(***************************************************************************)
EXTENDS Loader

CONSTANTS Ready,     \* the bytes a preloader announces itself with
          MaxReady,  \* a bound: announcements in a row
          MaxEpoch,  \* a bound: times the phone enumerates
          Crash      \* values of --crash

VARIABLES host,   \* see HostInit
          phone,  \* see PhoneInit
          loaded  \* history: what SendDA put where, and what was jumped to

vars == <<toDev, toHost, run, dev, host, phone, loaded>>

Sync == <<160, 10, 80, 5>> \* 0xa0, then 0x0a, 0x50, 0x05
SyncAnswer == 95           \* 0x5f

BromPayload == [addr |-> 8192, bytes |-> <<253, 1>>]
PlPayload == [addr |-> 16384, bytes |-> <<2, 213, 3>>]

-----------------------------------------------------------------------------
(* What the host does, in order *)

Run == <<"open", "ready if preloader", "sync", "workaround", "hwcode", "soc", "branch">>
Crashed == <<"crash", "open", "sync", "run_brom">>

\* Mutant: the preloader's announcement is not read away after the boot
\* through the ROM.
BromRest_noReady == <<"send brom", "jump brom", "start", "open", "sync", "run_preloader">>

(* run_brom and run_preloader after their assertions, in every mode but    *)
(* BootROM, which ends at start.                                           *)
BromRest == <<"send brom", "jump brom", "start", "open", "ready", "sync", "run_preloader">>
PreloaderRest == <<"workaround", "send pl", "jump pl">>

(* The branch that the workaround takes if the hardware code does not come *)
Reopened == <<"reopen", "ready", "sync">>

HostInit ==
    \E c \in Crash :
        host = [todo |-> Run, mode |-> "none", port |-> 0, hw |-> 0, crash |-> c,
                out |-> "running", reopened |-> FALSE]

Active == host.out = "running"
Does(step) == Active /\ run.out # "running" /\ host.todo # <<>> /\ Head(host.todo) = step

(* The host with the steps s in place of the one it has just done.         *)
Then(s) == [host EXCEPT !.todo = s \o Tail(@)]
End(out) == [host EXCEPT !.out = out, !.todo = <<>>]

HostOnly == UNCHANGED <<dev, phone, loaded>>
NoBytes == UNCHANGED <<toDev, toHost>>

PortUp == phone.at # "off" /\ host.port = phone.epoch

-----------------------------------------------------------------------------
(* Ports *)

(* Bytes the device sent to a port that was open before may or may not     *)
(* have survived.                                                          *)
Opens ==
    /\ phone.at # "off"
    /\ toHost' \in {toHost, <<>>}
    /\ UNCHANGED <<toDev, run>> /\ HostOnly

Open == Does("open") /\ Opens /\ host' = [Then(<<>>) EXCEPT !.port = phone.epoch, !.mode = phone.at]

(* The workaround throws the mode away that open_port found; that it did   *)
(* so is a history.                                                        *)
Reopen == Does("reopen") /\ Opens
          /\ host' = [Then(<<>>) EXCEPT !.port = phone.epoch, !.reopened = TRUE]

(* Listing the ports, or opening the one that was found, fails; no         *)
(* fairness makes it.                                                      *)
OpenFails ==
    /\ Does("open") \/ Does("reopen")
    /\ host' = End("err")
    /\ NoBytes /\ UNCHANGED run /\ HostOnly

(* A port that is gone fails at the next use; open_port waits instead.     *)
PortLost ==
    /\ Active /\ run.out # "running" /\ ~PortUp /\ host.todo # <<>>
    /\ Head(host.todo) \in {"ready", "sync", "sync read", "tokens", "clear"}
    /\ host' = End("err")
    /\ NoBytes /\ UNCHANGED run /\ HostOnly

ReadyIfPreloader ==
    /\ Does("ready if preloader")
    /\ host' = Then(IF host.mode = "pl" THEN <<"ready">> ELSE <<>>)
    /\ NoBytes /\ UNCHANGED run /\ HostOnly

\* Mutant: nothing to read is no error.
InvalidateReady_lax ==
    /\ Does("ready") /\ PortUp
    /\ \E n \in 0..Len(toHost) : n <= 20 /\ toHost' = SubSeq(toHost, n + 1, Len(toHost))
    /\ host' = Then(<<>>)
    /\ UNCHANGED <<toDev, run>> /\ HostOnly

(* One read of at most 20 bytes, of what has come so far; it fails if      *)
(* nothing comes in time.                                                  *)
InvalidateReady ==
    /\ Does("ready") /\ PortUp
    /\ \/ \E n \in 1..Len(toHost) :
             /\ n <= 20 /\ toHost' = SubSeq(toHost, n + 1, Len(toHost))
             /\ host' = Then(<<>>)
       \/ toHost = <<>> /\ host' = End("err") /\ UNCHANGED toHost
    /\ UNCHANGED <<toDev, run>> /\ HostOnly

-----------------------------------------------------------------------------
(* handshake *)

SyncSend ==
    /\ Does("sync") /\ PortUp
    /\ toDev' = Append(toDev, Sync[1])
    /\ host' = Then(<<"sync read">>)
    /\ UNCHANGED <<toHost, run>> /\ HostOnly

\* Mutant: the loop reads on after a timeout instead of failing.
SyncRead_patient ==
    /\ Does("sync read") /\ PortUp
    /\ toHost # <<>> /\ toHost' = Tail(toHost)
    /\ host' = Then(IF Head(toHost) = SyncAnswer THEN <<"tokens">> ELSE <<"sync">>)
    /\ UNCHANGED <<toDev, run>> /\ HostOnly

(* One byte comes back for every 0xa0, or none in time; 0x5f ends the loop *)
SyncRead ==
    /\ Does("sync read") /\ PortUp
    /\ IF toHost = <<>> THEN host' = End("err") /\ UNCHANGED toHost
       ELSE /\ toHost' = Tail(toHost)
            /\ host' = Then(IF Head(toHost) = SyncAnswer THEN <<"tokens">> ELSE <<"sync">>)
    /\ UNCHANGED <<toDev, run>> /\ HostOnly

(* The other three bytes, whose answers nobody reads.                      *)
Tokens ==
    /\ Does("tokens") /\ PortUp
    /\ toDev' = toDev \o Tail(Sync)
    /\ host' = Then(<<"clear">>)
    /\ UNCHANGED <<toHost, run>> /\ HostOnly

(* clear(All) after 200 ms: what has come is dropped, and so is what a     *)
(* slow device has not taken yet.                                          *)
Clear ==
    /\ Does("clear") /\ PortUp
    /\ toHost' = <<>>
    /\ \E n \in 0..Len(toDev) : toDev' = SubSeq(toDev, 1, n)
    /\ host' = Then(<<>>)
    /\ UNCHANGED run /\ HostOnly

-----------------------------------------------------------------------------
(* Commands *)

CommandOf(step) ==
    CASE step \in {"workaround", "hwcode"} -> <<"GetHwCode", <<>>>>
      [] step = "crash" -> <<"Read32", <<0, 1>>>>
      [] step = "send brom" -> <<"SendDA", <<BromPayload.addr, 2, 0, BromPayload.bytes>>>>
      [] step = "send pl" -> <<"SendDA", <<PlPayload.addr, 3, 0, PlPayload.bytes>>>>
      [] step = "jump brom" -> <<"JumpDA", <<BromPayload.addr>>>>
      [] step = "jump pl" -> <<"JumpDA", <<PlPayload.addr>>>>
CommandSteps == {"workaround", "hwcode", "crash", "send brom", "send pl", "jump brom", "jump pl"}

(* run.name stays "none" between commands.                                 *)
StartCommand ==
    /\ Active /\ run.out # "running" /\ run.name = "none" /\ host.todo # <<>>
    /\ Head(host.todo) \in CommandSteps
    /\ Begin(CommandOf(Head(host.todo))[1], CommandOf(Head(host.todo))[2])
    /\ NoBytes /\ UNCHANGED host /\ HostOnly

RunCommand ==
    /\ run.out = "running"
    /\ IF ~PortUp /\ (At("tx") \/ Needs > 0) THEN Return("io") /\ NoBytes ELSE RunStep
    /\ UNCHANGED host /\ HostOnly

\* Mutant: the payload is jumped to although sending it failed.
Outcome_sendIgnored(step, out) ==
    CASE step = "workaround" -> IF out = "ok" THEN Then(<<>>) ELSE Then(Reopened)
      [] step = "hwcode" -> IF out = "ok" THEN [Then(<<>>) EXCEPT !.hw = run.self.hwcode]
                            ELSE End("err")
      [] step = "crash" -> IF out = "io" THEN Then(<<>>) ELSE End("err")
      [] step \in {"send brom", "send pl"} -> Then(<<>>)
      [] OTHER -> IF out = "ok" THEN Then(<<>>) ELSE End("err")

(* What becomes of a command's result: the workaround opens the port again *)
(* after any error, crash_to_brom takes an I/O error, a slow device's      *)
(* timeout included, for the crash, and elsewhere an error is the end.     *)
Outcome(step, out) ==
    CASE step = "workaround" -> IF out = "ok" THEN Then(<<>>) ELSE Then(Reopened)
      [] step = "hwcode" -> IF out = "ok" THEN [Then(<<>>) EXCEPT !.hw = run.self.hwcode]
                            ELSE End("err")
      [] step = "crash" -> IF out = "io" THEN Then(<<>>) ELSE End("err")
      [] OTHER -> IF out = "ok" THEN Then(<<>>) ELSE End("err")

EndCommand ==
    /\ Active /\ run.out # "running" /\ run.name # "none"
    /\ host' = Outcome(Head(host.todo), run.out)
    /\ run' = NotRunning
    /\ NoBytes /\ HostOnly

-----------------------------------------------------------------------------
(* run, run_brom, run_preloader *)

(* try_from_hwcode; which codes the table of the acon crate holds is left  *)
(* open.                                                                   *)
SoCFromHwCode ==
    /\ Does("soc")
    /\ host' \in {Then(<<>>), End("err")}
    /\ NoBytes /\ UNCHANGED run /\ HostOnly

Branch ==
    /\ Does("branch")
    /\ host' = Then(IF host.mode = "rom" THEN <<"run_brom">>
                    ELSE IF host.crash THEN Crashed ELSE <<"run_preloader">>)
    /\ NoBytes /\ UNCHANGED run /\ HostOnly

RunBrom ==
    /\ Does("run_brom")
    /\ host' = IF host.mode = "rom" THEN Then(BromRest) ELSE End("panic in run_brom")
    /\ NoBytes /\ UNCHANGED run /\ HostOnly

RunPreloader ==
    /\ Does("run_preloader")
    /\ host' = IF host.mode = "pl" THEN Then(PreloaderRest) ELSE End("panic in run_preloader")
    /\ NoBytes /\ UNCHANGED run /\ HostOnly

(* The session with the payload in the ROM, which DaBoot models, ends with *)
(* a jump to the preloader or with an error.                               *)
Start ==
    /\ Does("start")
    /\ host' \in {Then(<<>>), End("err")}
    /\ NoBytes /\ UNCHANGED run /\ HostOnly

(* The payload on the preloader runs; DaBoot goes on from here.            *)
Success ==
    /\ Active /\ run.out # "running" /\ host.todo = <<>>
    /\ host' = End("ok")
    /\ NoBytes /\ UNCHANGED run /\ HostOnly

HostStep ==
    \/ Open \/ Reopen \/ PortLost \/ ReadyIfPreloader \/ InvalidateReady
    \/ SyncSend \/ SyncRead \/ Tokens \/ Clear
    \/ StartCommand \/ RunCommand \/ EndCommand
    \/ SoCFromHwCode \/ Branch \/ RunBrom \/ RunPreloader \/ Start \/ Success

-----------------------------------------------------------------------------
(* The phone *)

(* at: where it enumerates; then: where it will next; hs: bytes of the     *)
(* handshake it has seen, 4 when its command loop runs; ready: times it    *)
(* has announced itself.                                                   *)
PhoneInit == phone \in {[at |-> "off", then |-> {"rom", "pl"}, epoch |-> 0, hs |-> 0, ready |-> 0]}

PhoneOnly == UNCHANGED <<run, host>>

Enumerate ==
    /\ phone.at = "off" /\ phone.epoch < MaxEpoch
    /\ \E m \in phone.then :
          phone' = [phone EXCEPT !.at = m, !.epoch = @ + 1, !.hs = 0, !.ready = 0]
    /\ toDev' = <<>> /\ toHost' = <<>> /\ dev' = [DevInit("loader") EXCEPT !.st = "sync"]
    /\ loaded' = [sent |-> <<>>, jump |-> <<>>]
    /\ PhoneOnly

(* A ROM nobody shakes hands with goes on to the preloader; a preloader    *)
(* may drop off the bus and come back as itself, or as the ROM.            *)
Leave ==
    /\ phone.at # "off" /\ dev.st # "jumped"
    /\ phone.at = "rom" => phone.hs < 4
    /\ phone' = [phone EXCEPT !.at = "off",
                   !.then = IF phone.at = "rom" THEN {"pl"} ELSE {"rom", "pl"}]
    /\ UNCHANGED <<toDev, toHost, dev, loaded>> /\ PhoneOnly

(* A read of address 0 crashes the preloader into the ROM.                 *)
CrashToRom ==
    /\ phone.at = "pl" /\ dev.st = "on" /\ Doing("words") /\ dev.args[1] = 0
    /\ phone' = [phone EXCEPT !.at = "off", !.then = {"rom"}]
    /\ UNCHANGED <<toDev, toHost, dev, loaded>> /\ PhoneOnly

(* The payload in the ROM has jumped to the preloader.                     *)
PreloaderBoots ==
    /\ phone.at = "rom" /\ dev.st = "jumped"
    /\ phone' = [phone EXCEPT !.at = "off", !.then = {"rom", "pl"}]
    /\ UNCHANGED <<toDev, toHost, dev, loaded>> /\ PhoneOnly

Announce ==
    /\ phone.at = "pl" /\ dev.st = "sync" /\ phone.ready < MaxReady
    /\ phone' = [phone EXCEPT !.ready = @ + 1]
    /\ toHost' = toHost \o Ready
    /\ UNCHANGED <<toDev, dev, loaded>> /\ PhoneOnly

(* A byte of the handshake is answered by its complement.  A 0xa0 out of   *)
(* turn starts over or is lost, as any other byte.                         *)
PhoneSync ==
    /\ phone.at # "off" /\ dev.st = "sync" /\ toDev # <<>>
    /\ toDev' = Tail(toDev)
    /\ LET b == Head(toDev)
           To(n) == /\ phone' = [phone EXCEPT !.hs = n]
                    /\ dev' = [dev EXCEPT !.st = IF n = 4 THEN "on" ELSE "sync"] IN
       \/ b = Sync[phone.hs + 1] /\ To(phone.hs + 1) /\ Give(<<255 - b>>)
       \/ b # Sync[phone.hs + 1] /\ b = Sync[1] /\ To(1) /\ Give(<<255 - b>>)
       \/ b # Sync[phone.hs + 1] /\ To(0) /\ UNCHANGED toHost
    /\ UNCHANGED loaded /\ PhoneOnly

Noted(e) ==
    loaded' = CASE e.name = "SendDA" -> [loaded EXCEPT !.sent = <<phone.at, e.args[1], e.args[4]>>]
                [] e.name = "JumpDA" -> [loaded EXCEPT !.jump = <<e.args[1]>>]
                [] OTHER -> loaded

PhoneCommand ==
    /\ phone.at # "off"
    /\ \/ LoaderStep /\ UNCHANGED loaded
       \/ Doing("finish") /\ \E s \in LastStatuses : Finish(s) /\ Noted(DidIt(s))
    /\ UNCHANGED phone /\ PhoneOnly

PhoneStep == \/ Enumerate \/ Leave \/ CrashToRom \/ PreloaderBoots
             \/ Announce \/ PhoneSync \/ PhoneCommand

-----------------------------------------------------------------------------

Init ==
    /\ toDev = <<>> /\ toHost = <<>> /\ run = NotRunning
    /\ dev = [DevInit("loader") EXCEPT !.st = "sync"]
    /\ HostInit /\ PhoneInit /\ loaded = [sent |-> <<>>, jump |-> <<>>]

Ended == ~Active /\ UNCHANGED vars
Waiting == Active /\ phone.at = "off" /\ host.todo # <<>>
           /\ Head(host.todo) \in {"open", "reopen"} /\ run.out # "running"
StillWaiting == Waiting /\ phone.epoch = MaxEpoch /\ UNCHANGED vars

Next == HostStep \/ OpenFails \/ PhoneStep \/ Ended \/ StillWaiting

Spec == Init /\ [][Next]_vars /\ WF_vars(HostStep)

-----------------------------------------------------------------------------
(* Properties *)

(* The SoC that run goes by is the one on the cable: no leftover of the    *)
(* handshake, of an announcement or of an earlier command is taken for a   *)
(* hardware code.                                                          *)
HwCodeIsRight == host.hw # 0 => host.hw = HwCode

(* assert!(device_mode.is_preloader()) of run_preloader cannot fail: a ROM *)
(* says nothing by itself, so that invalidate_ready has failed before.     *)
PreloaderAsserted == host.out # "panic in run_preloader"

(* A payload is sent to the program it is built for: the preloader's to a  *)
(* preloader, also if the port was opened again in the workaround, and the *)
(* ROM's to a ROM, also after --crash, when any device may come back.      *)
(* Only the workaround, which forgets the mode of the port it opens, can   *)
(* send the ROM's payload elsewhere.                                       *)
PayloadForItsLoader ==
    loaded.sent # <<>> =>
        /\ loaded.sent[2] = PlPayload.addr => loaded.sent[1] = "pl"
        /\ loaded.sent[2] = BromPayload.addr => loaded.sent[1] = "rom" \/ host.reopened

(* The device jumps only to a payload that it has been sent completely     *)
(* since it last enumerated, and success means that it did, on a preloader *)
JumpsToPayload ==
    /\ loaded.jump # <<>> =>
          \E p \in {BromPayload, PlPayload} :
             loaded.jump[1] = p.addr /\ loaded.sent # <<>> /\ Tail(loaded.sent) = <<p.addr, p.bytes>>
    /\ host.out = "ok" /\ PortUp => phone.at = "pl" /\ loaded.jump # <<>>

(* The host never hangs but in open_port, where it waits for a device to   *)
(* appear: the loop of the handshake and every read give up.               *)
HostEnds == []<>(~Active \/ Waiting)

=============================================================================
